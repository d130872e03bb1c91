---------------------------- MODULE TasteMemory ----------------------------
(***************************************************************************)
(* What the agents and the console keep about the user's taste: verdicts,  *)
(* the rubric, the shown history, the hard-filter profile and the lists    *)
(* (store/feedback.go, store/property.go, store/lists.go, store/reset.go,  *)
(* under listings/service.go).  Several sessions call at once, each one    *)
(* statement or one transaction at a time, while crawls commit material    *)
(* changes.  Statements run at READ COMMITTED: each has its own snapshot,  *)
(* and a write to a row that another transaction has deleted but not yet   *)
(* committed waits for it; so does one to a row that a deletion holds while *)
(* its cascade runs.                                                       *)
(*                                                                         *)
(* menu says which operations take part in a behaviour, so that one run    *)
(* looks at several groups of operations that touch the same tables.       *)
(***************************************************************************)
EXTENDS Naturals, Sequences, FiniteSets, FiniteSetsExt

CONSTANTS Agents, Crawlers, Listings, Fields, Slugs, Favorites,
          Menus, Batch, Transports,
          MaxClock, MaxVerdicts, MaxWrites, MaxLists, MaxResets

ASSUME TasteAssumption ==
    /\ Favorites \in Slugs
    /\ IsFiniteSet(Listings) /\ IsFiniteSet(Agents)
    /\ {MaxClock, MaxVerdicts, MaxWrites, MaxLists, MaxResets} \subseteq Nat
    /\ \A b \in Batch : b \in Seq(Listings)

VARIABLES
    menu,      \* the operations that take part
    clock,     \* the next instant; every stamp takes its own
    listing,   \* listings: material_changed_at, status, and the version it carries
    flight,    \* per crawler: a material change stamped and not yet committed
    shown,     \* the shown table
    verdicts, nextVerdict,      \* the verdicts table and its identity sequence
    rubrics, nextRubric,        \* rubric_versions
    profile, lock, writes,      \* the profile row and its advisory lock
    lists, items, nextList,     \* lists and list_items
    view,      \* per agent: what its last read answered
    call,      \* per agent: the call it has open
    resets,    \* resets started
    lastSet, revived, landed    \* history: see the properties

profileVars == <<profile, lock, writes, lastSet, revived>>
feedVars    == <<verdicts, nextVerdict, rubrics, nextRubric>>
listVars    == <<lists, items, nextList>>
vars == <<menu, clock, listing, flight, shown, feedVars, profileVars, listVars,
          view, call, resets, landed>>

Idle     == [op |-> "idle"]
NoChange == [stamp |-> 0]
NoView   == [at |-> 0, rows |-> {}, version |-> [l \in Listings |-> 0], open |-> {},
             latest |-> 0, seen |-> {}, pending |-> {}]
NoProfile == [f \in {} |-> 0]      \* no row
ZeroProfile == [f \in Fields |-> 0]

Ids(S) == {r.id : r \in S}
Latest(S) == IF S = {} THEN 0 ELSE Max(Ids(S))

\* The reset transaction that is open, if any, and the rows its statements have
\* deleted so far: gone for everyone once it commits, locked until then.
Resetting == {a \in Agents : call[a].op = "reset"}
Doomed(table) == UNION {call[a].doomed[table] : a \in Resetting}

Init ==
    /\ menu \in Menus
    /\ clock = 1
    /\ listing = [l \in Listings |-> [stamp |-> 0, version |-> 0, status |-> "active"]]
    /\ flight = [c \in Crawlers |-> NoChange]
    /\ shown = {}
    /\ verdicts = {} /\ nextVerdict = 1
    /\ rubrics = {} /\ nextRubric = 1
    /\ profile = NoProfile /\ lock = {} /\ writes = 0
    /\ lists = {[id |-> 1, slug |-> Favorites, default |-> TRUE]}
    /\ items = {} /\ nextList = 2
    /\ view = [a \in Agents |-> NoView]
    /\ call = [a \in Agents |-> Idle]
    /\ resets = 0
    /\ lastSet = ZeroProfile /\ revived = {} /\ landed = [a \in Agents |-> <<>>]

Begin(a, op, record) == op \in menu /\ call[a] = Idle /\ call' = [call EXCEPT ![a] = record]
Continue(a, record) == call' = [call EXCEPT ![a] = record]
End(a) == call' = [call EXCEPT ![a] = Idle]

---------------------------------------------------------------------------
(* Material changes.  A crawl stamps a change before its transaction takes  *)
(* the source's lock; the commit comes later, and two crawls of a listing   *)
(* may commit in the other order.                                           *)

StampChange(c, l) ==
    /\ "shown" \in menu /\ clock < MaxClock
    /\ flight[c] = NoChange
    /\ flight' = [flight EXCEPT ![c] = [stamp |-> clock, listing |-> l]]
    /\ clock' = clock + 1
    /\ UNCHANGED <<menu, listing, shown, feedVars, profileVars, listVars, view, call, resets, landed>>

CommitChange(c, status) ==
    /\ flight[c] # NoChange
    /\ LET l == flight[c].listing IN
       listing' = [listing EXCEPT ![l] =
           [stamp |-> flight[c].stamp, version |-> @.version + 1, status |-> status]]
    /\ flight' = [flight EXCEPT ![c] = NoChange]
    /\ UNCHANGED <<menu, clock, shown, feedVars, profileVars, listVars, view, call, resets, landed>>

---------------------------------------------------------------------------
(* Candidates and the shown history.                                        *)

ShownRow(l) == {r \in shown : r.listing = l}

\* A listing is held back once its change is no newer than the one recorded.
Suppressed(l) == \E r \in ShownRow(l) : r.seen >= listing[l].stamp

Candidates == {l \in Listings : /\ listing[l].status = "active"
                                /\ ~Suppressed(l)
                                /\ \A v \in verdicts : v.listing # l}

\* The transport takes queried_at before it asks the service.
GetCandidates(a) ==
    /\ clock < MaxClock
    /\ Begin(a, "shown", [op |-> "candidates", at |-> clock])
    /\ clock' = clock + 1
    /\ UNCHANGED <<menu, listing, flight, shown, feedVars, profileVars, listVars, view, resets, landed>>

ReadCandidates(a) ==
    /\ call[a].op = "candidates"
    /\ view' = [view EXCEPT ![a] =
           [@ EXCEPT !.at = call[a].at, !.rows = Candidates,
                     !.version = [l \in Listings |-> listing[l].version],
                     !.open = {flight[c] : c \in Crawlers} \ {NoChange}]]
    /\ End(a)
    /\ UNCHANGED <<menu, clock, listing, flight, shown, feedVars, profileVars, listVars, resets, landed>>

\* Mutant: as_of is ignored.
LeastNoCap(stamp, cap) == stamp

Least(stamp, cap) == IF cap = {} THEN stamp ELSE Min({stamp} \cup cap)

\* One INSERT ... ON CONFLICT over the ids; asOf is the read's queried_at or nothing.
MarkShown(a, l, asOf) ==
    /\ "shown" \in menu /\ call[a] = Idle
    /\ l \in view[a].rows
    /\ asOf \in {{}, {view[a].at}}
    /\ ShownRow(l) \cap Doomed("shown") = {}
    /\ shown' = (shown \ ShownRow(l)) \cup
           {[listing |-> l, seen |-> Least(listing[l].stamp, asOf), capped |-> asOf # {},
             saw |-> view[a].version[l], open |-> {x.stamp : x \in {y \in view[a].open : y.listing = l}}]}
    /\ UNCHANGED <<menu, clock, listing, flight, feedVars, profileVars, listVars, view, call, resets, landed>>

---------------------------------------------------------------------------
(* Verdicts.  The INSERT takes its id from the identity sequence before it  *)
(* commits, and an id is spent even when the row is refused.                *)

RecordVerdict(a, l) ==
    /\ nextVerdict <= MaxVerdicts
    /\ Begin(a, "verdicts", [op |-> "verdict", id |-> nextVerdict, listing |-> l])
    /\ nextVerdict' = nextVerdict + 1
    /\ UNCHANGED <<menu, clock, listing, flight, shown, verdicts, rubrics, nextRubric,
                   profileVars, listVars, view, resets, landed>>

CommitVerdict(a) ==
    /\ call[a].op = "verdict"
    /\ \/ verdicts' = verdicts \cup {[id |-> call[a].id, listing |-> call[a].listing]}
       \/ UNCHANGED verdicts        \* unknown listing, or the store fails
    /\ End(a)
    /\ UNCHANGED <<menu, clock, listing, flight, shown, nextVerdict, rubrics, nextRubric,
                   profileVars, listVars, view, resets, landed>>

\* A batch is recorded item by item, each in its own statement.  valid says
\* whether every verdict and note passes the checks that come before any write.
RecordVerdicts(a, batch, via, valid) ==
    /\ landed[a] = <<>>
    /\ Begin(a, "batch", [op |-> "batch", via |-> via, todo |-> 1..Len(batch), valid |-> valid,
                          sent |-> 1..Len(batch)])
    /\ landed' = [landed EXCEPT ![a] = [i \in 1..Len(batch) |-> 0]]
    /\ UNCHANGED <<menu, clock, listing, flight, shown, feedVars, profileVars, listVars, view, resets>>

BatchItem(a) ==
    /\ call[a].op = "batch" /\ call[a].valid /\ call[a].todo # {}
    /\ LET i == Min(call[a].todo) IN
       /\ \/ landed' = [landed EXCEPT ![a][i] = @ + 1]
          \/ UNCHANGED landed       \* listing does not exist: reported in Failed
       /\ Continue(a, [call[a] EXCEPT !.todo = @ \ {i}])
    /\ UNCHANGED <<menu, clock, listing, flight, shown, feedVars, profileVars, listVars, view, resets>>

\* Mutant: the MCP error does not say what landed.
UnreportedAll(a) == call[a].sent

\* After an error the MCP answer names what landed, the REST answer does not; the
\* caller sends again what it cannot tell was saved.
Unreported(a) ==
    IF call[a].via = "mcp" THEN call[a].sent \ {i \in call[a].sent \ call[a].todo : landed[a][i] > 0}
                           ELSE call[a].sent

BatchFails(a) ==
    /\ call[a].op = "batch" /\ call[a].valid /\ call[a].todo # {}
    /\ writes < MaxWrites /\ writes' = writes + 1
    /\ Continue(a, [call[a] EXCEPT !.todo = Unreported(a), !.sent = Unreported(a)])
    /\ UNCHANGED <<menu, clock, listing, flight, shown, feedVars, profile, lock, lastSet, revived,
                   listVars, view, resets, landed>>

BatchEnds(a) ==
    /\ call[a].op = "batch"
    /\ call[a].todo = {} \/ ~call[a].valid
    /\ End(a)
    /\ UNCHANGED <<menu, clock, listing, flight, shown, feedVars, profileVars, listVars, view, resets, landed>>

---------------------------------------------------------------------------
(* The state an agent reads, and the rubric it writes from it.              *)

\* One repeatable-read snapshot of profile, rubric and verdicts.
GetState(a) ==
    /\ "rubric" \in menu /\ call[a] = Idle
    /\ view' = [view EXCEPT ![a] =
           [@ EXCEPT !.latest = Latest(verdicts), !.seen = Ids(verdicts),
                     !.pending = {call[b].id : b \in {x \in Agents : call[x].op = "verdict"}}]]
    /\ UNCHANGED <<menu, clock, listing, flight, shown, feedVars, profileVars, listVars, call, resets, landed>>

CurrentRubric == {r \in rubrics : r.id = Latest(rubrics)}
Stale == /\ verdicts # {}
         /\ \A r \in CurrentRubric : Latest(verdicts) > r.through

\* AppendRubric's first statement: the bounds on through_verdict_id.
RubricAllowed(through, latest) == through <= latest /\ (through = 0 => latest = 0)

\* Mutant: the rubric is stamped with the newest verdict of the server.
ThroughLatest(a) == Latest(verdicts)

\* The rubric is stamped with what its author says it accounts for.
Through(a) == view[a].latest

AppendRubric(a) ==
    /\ nextRubric <= MaxVerdicts
    /\ RubricAllowed(view[a].latest, Latest(verdicts))
    /\ Begin(a, "rubric", [op |-> "rubric", pc |-> "exists", through |-> Through(a),
                           seen |-> view[a].seen, pending |-> view[a].pending])
    /\ UNCHANGED <<menu, clock, listing, flight, shown, feedVars, profileVars, listVars, view, resets, landed>>

\* Its second: the verdict itself is still there.
CheckVerdict(a) ==
    /\ call[a].op = "rubric" /\ call[a].pc = "exists"
    /\ IF call[a].through \in Ids(verdicts) \cup {0}
       THEN Continue(a, [call[a] EXCEPT !.pc = "insert"])
       ELSE End(a)
    /\ UNCHANGED <<menu, clock, listing, flight, shown, feedVars, profileVars, listVars, view, resets, landed>>

\* Its third: the row, whose foreign key waits for a reset that is deleting the verdict.
InsertRubric(a) ==
    /\ call[a].op = "rubric" /\ call[a].pc = "insert"
    /\ call[a].through \notin Ids(Doomed("verdicts"))
    /\ IF call[a].through \in Ids(verdicts) \cup {0}
       THEN /\ Continue(a, [op |-> "rubric", pc |-> "commit",
                            row |-> [id |-> nextRubric, through |-> call[a].through,
                                     seen |-> call[a].seen, pending |-> call[a].pending]])
            /\ nextRubric' = nextRubric + 1
       ELSE End(a) /\ UNCHANGED nextRubric
    /\ UNCHANGED <<menu, clock, listing, flight, shown, verdicts, nextVerdict, rubrics,
                   profileVars, listVars, view, resets, landed>>

CommitRubric(a) ==
    /\ call[a].op = "rubric" /\ call[a].pc = "commit"
    /\ rubrics' = rubrics \cup {call[a].row}
    /\ End(a)
    /\ UNCHANGED <<menu, clock, listing, flight, shown, verdicts, nextVerdict, nextRubric,
                   profileVars, listVars, view, resets, landed>>

---------------------------------------------------------------------------
(* The profile: read, merge and upsert under one advisory lock.             *)

GetProfile == IF profile = NoProfile THEN ZeroProfile ELSE profile

\* applyTo: only the field that was sent is overwritten.
Merge(p, f, v) == [p EXCEPT ![f] = v]

\* Mutant: profile updates take no lock.
UpdateWithoutLock == TRUE

CanLockProfile == lock = {}

UpdateProfile(a, f, v) ==
    /\ CanLockProfile /\ writes < MaxWrites
    /\ v \in {0, writes + 1}         \* 0: an explicit null clears the field
    /\ Begin(a, "profile", [op |-> "profile", pc |-> "upsert", field |-> f, value |-> v,
                            next |-> Merge(GetProfile, f, v), spans |-> FALSE])
    /\ lock' = lock \cup {a} /\ writes' = writes + 1
    /\ UNCHANGED <<menu, clock, listing, flight, shown, feedVars, profile, lastSet, revived,
                   listVars, view, resets, landed>>

SetProfile(a) ==
    /\ call[a].op = "profile" /\ call[a].pc = "upsert"
    /\ Doomed("profile") = {}
    /\ Continue(a, [call[a] EXCEPT !.pc = "commit"])
    /\ UNCHANGED <<menu, clock, listing, flight, shown, feedVars, profileVars, listVars, view, resets, landed>>

CommitProfile(a) ==
    /\ call[a].op = "profile" /\ call[a].pc = "commit"
    /\ profile' = call[a].next
    /\ lock' = lock \ {a}
    /\ lastSet' = [lastSet EXCEPT ![call[a].field] = call[a].value]
    /\ revived' = (IF call[a].spans THEN Fields ELSE revived) \ {call[a].field}
    /\ End(a)
    /\ UNCHANGED <<menu, clock, listing, flight, shown, feedVars, writes, listVars, view, resets, landed>>

---------------------------------------------------------------------------
(* Lists.  A name is resolved to an id in one statement and used in the     *)
(* next; identity values are never given out twice.                         *)

BySlug(s) == {x \in lists : x.slug = s}
ById(n) == {x \in lists : x.id = n}
ItemsOf(n) == {i \in items : i[1] = n}

\* The lists whose row a deletion holds until its cascade has run.
Held == {call[b].id : b \in {x \in Agents : call[x].op = "delete" /\ call[x].pc = "cascade"}}
Free(n) == n \notin Ids(Doomed("lists")) \cup Held

\* An item that an open reset has deleted, by itself or with its list.
DoomedItem(i) == i \in Doomed("items") \/ (i \in items /\ i[1] \in Ids(Doomed("lists")))

\* Mutant: the id of a deleted list is given out again.
SmallestFreeId == CHOOSE n \in 1..MaxLists : n \notin Ids(lists) /\ \A m \in 1..n - 1 : m \in Ids(lists)

NewListId == nextList

\* The startup backstop: INSERT ... ON CONFLICT DO NOTHING, which still spends an id.
EnsureDefaultList ==
    /\ "lists" \in menu /\ nextList <= MaxLists
    /\ nextList' = nextList + 1
    /\ lists' = IF BySlug(Favorites) # {} THEN lists
                ELSE lists \cup {[id |-> NewListId, slug |-> Favorites, default |-> TRUE]}
    /\ UNCHANGED <<menu, clock, listing, flight, shown, feedVars, profileVars, items, view, call, resets, landed>>

CreateList(a, s) ==
    /\ "lists" \in menu /\ call[a] = Idle /\ nextList <= MaxLists
    /\ \A x \in BySlug(s) : Free(x.id)
    /\ nextList' = nextList + 1
    /\ IF BySlug(s) = {}
       THEN lists' = lists \cup {[id |-> NewListId, slug |-> s, default |-> FALSE]} /\ UNCHANGED call
       ELSE Continue(a, [op |-> "existing", slug |-> s]) /\ UNCHANGED lists
    /\ UNCHANGED <<menu, clock, listing, flight, shown, feedVars, profileVars, items, view, resets, landed>>

\* On a conflict the existing list is read back, and may be gone by now.
ReadExisting(a) ==
    /\ call[a].op = "existing"
    /\ End(a)
    /\ UNCHANGED <<menu, clock, listing, flight, shown, feedVars, profileVars, listVars, view, resets, landed>>

GetListBySlug(a, s, op, l) ==
    /\ op \in {"add", "remove"} \cap menu
    /\ Begin(a, "lists",
             IF BySlug(s) = {} THEN Idle       \* ErrListNotFound
             ELSE [op |-> op, slug |-> s, id |-> (CHOOSE x \in BySlug(s) : TRUE).id, listing |-> l])
    /\ UNCHANGED <<menu, clock, listing, flight, shown, feedVars, profileVars, listVars, view, resets, landed>>

\* An upsert: a new item needs the list's row, the note of an old one does not.
AddToList(a) ==
    /\ call[a].op = "add"
    /\ LET item == <<call[a].id, call[a].listing>> IN
       /\ ~DoomedItem(item)
       /\ item \in items \/ Free(call[a].id)
       /\ items' = items \cup {<<x.id, call[a].listing>> : x \in ById(call[a].id)}
    /\ End(a)
    /\ UNCHANGED <<menu, clock, listing, flight, shown, feedVars, profileVars, lists, nextList, view, resets, landed>>

RemoveFromList(a) ==
    /\ call[a].op = "remove"
    /\ LET item == <<call[a].id, call[a].listing>> IN
       /\ ~DoomedItem(item)
       /\ items' = items \ {item}
       /\ call' = [b \in Agents |->
                    IF b = a THEN Idle
                    ELSE IF call[b].op = "reset" THEN [call[b] EXCEPT !.before.items = @ \ {item}] ELSE call[b]]
    /\ UNCHANGED <<menu, clock, listing, flight, shown, feedVars, profileVars, lists, nextList, view, resets, landed>>

\* GetList refuses the default list; the DELETE repeats the condition.
DeleteList(a, x) ==
    /\ x \in lists /\ ~x.default
    /\ Begin(a, "lists", [op |-> "delete", pc |-> "lock", id |-> x.id])
    /\ UNCHANGED <<menu, clock, listing, flight, shown, feedVars, profileVars, listVars, view, resets, landed>>

\* The DELETE first takes the list's row, if it is still there.
LockList(a) ==
    /\ call[a].op = "delete" /\ call[a].pc = "lock"
    /\ Free(call[a].id)
    /\ IF \E x \in ById(call[a].id) : ~x.default
       THEN Continue(a, [call[a] EXCEPT !.pc = "cascade"])
       ELSE End(a)
    /\ UNCHANGED <<menu, clock, listing, flight, shown, feedVars, profileVars, listVars, view, resets, landed>>

\* Then the items cascade, waiting for those that an open reset has deleted, and
\* the statement commits.
DropList(a) ==
    /\ call[a].op = "delete" /\ call[a].pc = "cascade"
    /\ ItemsOf(call[a].id) \cap Doomed("items") = {}
    /\ lists' = {x \in lists : x.id # call[a].id}
    /\ items' = items \ ItemsOf(call[a].id)
    /\ End(a)
    /\ UNCHANGED <<menu, clock, listing, flight, shown, feedVars, profileVars, nextList, view, resets, landed>>

---------------------------------------------------------------------------
(* reset_state: one transaction, one DELETE per table.                      *)

NothingDoomed == [rubrics |-> {}, verdicts |-> {}, shown |-> {}, profile |-> {}, items |-> {}, lists |-> {}]

\* Mutant: list items are left to the cascade from lists.
ResetOrderByCascade == <<"rubrics", "verdicts", "shown", "profile", "lists", "lists">>

\* Each statement in the order of the code: the table it clears and the rows it
\* finds, which are those committed when it starts.
ResetOrder == <<"rubrics", "verdicts", "shown", "profile", "items", "lists">>

ResetRows(table) ==
    CASE table = "rubrics"  -> rubrics
      [] table = "verdicts" -> verdicts
      [] table = "shown"    -> shown
      [] table = "profile"  -> {profile} \ {NoProfile}
      [] table = "items"    -> items
      [] table = "lists"    -> {x \in lists : ~x.default}

\* `before` is history: what was saved before the reset began and has not been
\* removed by hand since.
ResetTasteState(a) ==
    /\ resets < MaxResets /\ Resetting = {}
    /\ Begin(a, "reset", [op |-> "reset", next |-> 1, doomed |-> NothingDoomed,
                          before |-> [t \in DOMAIN NothingDoomed |-> ResetRows(t)]])
    /\ resets' = resets + 1
    /\ UNCHANGED <<menu, clock, listing, flight, shown, feedVars, profileVars, listVars, view, landed>>

\* Mutant: the reset takes the profile's lock after it has deleted the row.
ResetWaitsForLock(table) == table = "items" /\ lock # {}

\* A statement waits for the uncommitted writers of its rows: a rubric that refers
\* to a verdict, a profile upsert, a deletion that holds a list.
ResetWaits(table) ==
    \E b \in Agents :
        \/ table = "verdicts" /\ call[b].op = "rubric" /\ call[b].pc = "commit"
              /\ call[b].row.through \in Ids(verdicts)
        \/ table = "profile" /\ profile # NoProfile
              /\ call[b].op = "profile" /\ call[b].pc = "commit"
        \/ table = "lists" /\ call[b].op = "delete" /\ call[b].pc = "cascade"

\* Deleting a verdict that a newly committed rubric refers to fails the whole reset.
StillReferenced(a) == \E r \in rubrics \ call[a].doomed.rubrics : r.through \in Ids(verdicts)

ResetStatement(a) ==
    /\ call[a].op = "reset" /\ call[a].next <= Len(ResetOrder)
    /\ LET table == ResetOrder[call[a].next] IN
       /\ ~ResetWaits(table)
       /\ IF table = "verdicts" /\ StillReferenced(a)
          THEN End(a)
          ELSE Continue(a, [call[a] EXCEPT !.next = @ + 1, !.doomed[table] = ResetRows(table)])
    /\ UNCHANGED <<menu, clock, listing, flight, shown, feedVars, profileVars, listVars, view, resets, landed>>

CommitReset(a) ==
    /\ call[a].op = "reset" /\ call[a].next > Len(ResetOrder)
    /\ LET gone == call[a].doomed IN
       /\ rubrics' = rubrics \ gone.rubrics
       /\ verdicts' = verdicts \ gone.verdicts
       /\ shown' = shown \ gone.shown
       /\ profile' = IF profile \in gone.profile THEN NoProfile ELSE profile
       /\ lists' = lists \ gone.lists
       /\ items' = {i \in items \ gone.items : i[1] \in Ids(lists')}
       /\ lastSet' = IF gone.profile = {} THEN lastSet ELSE ZeroProfile
       /\ revived' = IF gone.profile = {} THEN revived ELSE {}
    /\ call' = [b \in Agents |->
                 IF b = a THEN Idle
                 ELSE IF call[b].op = "profile" /\ call[a].doomed.profile # {}
                      THEN [call[b] EXCEPT !.spans = TRUE] ELSE call[b]]
    /\ UNCHANGED <<menu, clock, listing, flight, nextVerdict, nextRubric, lock, writes, nextList,
                   view, resets, landed>>

\* A reset that has deleted the items of a list and a deletion that holds its row
\* wait for each other: reset deletes items before lists, the cascade after its list.
Deadlocked(a, b) ==
    /\ call[a].op = "reset" /\ call[a].next <= Len(ResetOrder)
    /\ ResetOrder[call[a].next] = "lists"
    /\ call[b].op = "delete" /\ call[b].pc = "cascade"
    /\ ItemsOf(call[b].id) \cap call[a].doomed.items # {}

\* External: Postgres finds the cycle and rolls back one of the two, whose caller gets
\* an error.
DeadlockBroken(a, b) ==
    /\ Deadlocked(a, b)
    /\ \E victim \in {a, b} : End(victim)
    /\ UNCHANGED <<menu, clock, listing, flight, shown, feedVars, profileVars, listVars, view, resets, landed>>

---------------------------------------------------------------------------
CrawlStep(c) == \/ \E l \in Listings : StampChange(c, l)
                \/ \E status \in {"active", "delisted"} : CommitChange(c, status)

\* The steps that carry an open call on: a session that has called keeps going.
CallStep(a) ==
    \/ ReadCandidates(a) \/ CommitVerdict(a)
    \/ BatchItem(a) \/ BatchEnds(a)
    \/ CheckVerdict(a) \/ InsertRubric(a) \/ CommitRubric(a)
    \/ SetProfile(a) \/ CommitProfile(a)
    \/ ReadExisting(a) \/ AddToList(a) \/ RemoveFromList(a)
    \/ LockList(a) \/ DropList(a)
    \/ ResetStatement(a) \/ CommitReset(a)

NewCall(a) ==
    \/ GetCandidates(a)
    \/ \E l \in Listings, asOf \in {{}, {view[a].at}} : MarkShown(a, l, asOf)
    \/ \E l \in Listings : RecordVerdict(a, l)
    \/ \E batch \in Batch, via \in Transports, valid \in BOOLEAN : RecordVerdicts(a, batch, via, valid)
    \/ BatchFails(a)
    \/ GetState(a) \/ AppendRubric(a)
    \/ \E f \in Fields, v \in 0..MaxWrites : UpdateProfile(a, f, v)
    \/ \E s \in Slugs : CreateList(a, s)
    \/ \E s \in Slugs, op \in {"add", "remove"}, l \in Listings : GetListBySlug(a, s, op, l)
    \/ \E x \in lists : DeleteList(a, x)
    \/ ResetTasteState(a)

Next == \/ \E c \in Crawlers : CrawlStep(c)
        \/ \E a \in Agents : CallStep(a) \/ NewCall(a)
        \/ \E a, b \in Agents : DeadlockBroken(a, b)
        \/ EnsureDefaultList

Spec == Init /\ [][Next]_vars
FairSpec == Spec /\ \A a \in Agents : WF_vars(CallStep(a))

---------------------------------------------------------------------------
\* What each table, view and call holds.
Changes     == [stamp : Nat \ {0}, listing : Listings]
ShownRows   == [listing : Listings, seen : Nat, capped : BOOLEAN, saw : Nat, open : SUBSET Nat]
VerdictRows == [id : Nat \ {0}, listing : Listings]
RubricRows  == [id : Nat \ {0}, through : Nat, seen : SUBSET Nat, pending : SUBSET Nat]
ListRows    == [id : Nat \ {0}, slug : Slugs, default : BOOLEAN]
ItemRows    == Nat \X Listings
Profiles    == {NoProfile} \cup [Fields -> Nat]
TableRows   == [rubrics : SUBSET RubricRows, verdicts : SUBSET VerdictRows, shown : SUBSET ShownRows,
                profile : SUBSET Profiles, items : SUBSET ItemRows, lists : SUBSET ListRows]

ViewState == [at : Nat, rows : SUBSET Listings, version : [Listings -> Nat], open : SUBSET Changes,
              latest : Nat, seen : SUBSET Nat, pending : SUBSET Nat]

CandidateCalls == [op : {"candidates"}, at : Nat]
VerdictCalls   == [op : {"verdict"}, id : Nat \ {0}, listing : Listings]
BatchCalls     == [op : {"batch"}, via : Transports, todo : SUBSET Nat, valid : BOOLEAN, sent : SUBSET Nat]
RubricDrafts   == [op : {"rubric"}, pc : {"exists", "insert"}, through : Nat, seen : SUBSET Nat,
                   pending : SUBSET Nat]
RubricInserts  == [op : {"rubric"}, pc : {"commit"}, row : RubricRows]
ProfileCalls   == [op : {"profile"}, pc : {"upsert", "commit"}, field : Fields, value : Nat,
                   next : [Fields -> Nat], spans : BOOLEAN]
ExistingCalls  == [op : {"existing"}, slug : Slugs]
MemberCalls    == [op : {"add", "remove"}, slug : Slugs, id : Nat \ {0}, listing : Listings]
DeleteCalls    == [op : {"delete"}, pc : {"lock", "cascade"}, id : Nat \ {0}]
ResetCalls     == [op : {"reset"}, next : Nat \ {0}, doomed : TableRows, before : TableRows]
CallState ==
    {Idle} \cup CandidateCalls \cup VerdictCalls \cup BatchCalls \cup RubricDrafts \cup RubricInserts
    \cup ProfileCalls \cup ExistingCalls \cup MemberCalls \cup DeleteCalls \cup ResetCalls

TypeOK ==
    /\ clock \in Nat \ {0}
    /\ listing \in [Listings -> [stamp : Nat, version : Nat, status : {"active", "delisted"}]]
    /\ flight \in [Crawlers -> Changes \cup {NoChange}]
    /\ shown \subseteq ShownRows
    /\ verdicts \subseteq VerdictRows /\ nextVerdict \in Nat \ {0}
    /\ rubrics \subseteq RubricRows /\ nextRubric \in Nat \ {0}
    /\ profile \in Profiles /\ lock \subseteq Agents /\ writes \in Nat
    /\ lists \subseteq ListRows /\ items \subseteq ItemRows /\ nextList \in Nat \ {0}
    /\ view \in [Agents -> ViewState]
    /\ call \in [Agents -> CallState]
    /\ resets \in Nat
    /\ lastSet \in [Fields -> Nat] /\ revived \subseteq Fields
    /\ landed \in [Agents -> Seq(Nat)]

\* A change that mark_shown hides without the agent having seen it was already
\* under way when the agent asked (store/property.go, MarkShown: the snapshot is
\* capped at as_of, but a change carries the instant its crawl stamped it, not
\* the one at which it committed).
OnlyInFlightBurned ==
    \A r \in shown :
        r.capped /\ r.seen >= listing[r.listing].stamp
            => \/ listing[r.listing].version <= r.saw
               \/ listing[r.listing].stamp \in r.open

\* A rubric that State reports as fresh accounts for every verdict there is: its
\* author saw it, or its id was already taken when the author read (State,
\* AppendRubric: the through id is compared, the set of verdicts is not).
FreshRubricSawAll ==
    verdicts # {} /\ ~Stale =>
        \A r \in CurrentRubric : Ids(verdicts) \subseteq r.seen \cup r.pending

\* Two field updates that overlap never drop each other's field: each field holds
\* what was last saved into it, unless an update carried it across a reset
\* (UpdateProfile merges under a lock, ResetTasteState takes no such lock).
ProfileKeepsFields ==
    \A f \in Fields \ revived : GetProfile[f] = lastSet[f]

\* An item of a batch that is sent again after a reported failure is recorded at
\* most once over MCP, and a batch with an invalid item records nothing
\* (RecordVerdicts checks every item before the first write).
BatchRecordedOnce ==
    \A a \in Agents : call[a].op = "batch" =>
        \A i \in DOMAIN landed[a] :
            landed[a][i] <= (IF ~call[a].valid THEN 0
                             ELSE IF call[a].via = "mcp" THEN 1 ELSE 1 + writes)

\* A listing added by list name lands in a list of that name, whatever is deleted
\* and created again between the lookup and the insert (AddToListBySlug).
AddedUnderItsName ==
    [][\A i \in items' \ items : \E a \in Agents, x \in lists :
          /\ x.id = i[1] /\ call[a].op = "add"
          /\ call[a].listing = i[2] /\ call[a].slug = x.slug]_vars

\* When a reset commits, nothing is left of what was saved before it began.
ResetErases ==
    [][\A a \in Agents :
          call[a].op = "reset" /\ call[a].next > Len(ResetOrder) /\ call'[a] = Idle =>
              \A t \in DOMAIN NothingDoomed : call[a].before[t] \cap ResetRows(t)' = {}]_vars

\* No session waits for ever for the rows and locks of others, unless a reset and the
\* deletion of a list wait for each other (store/reset.go:34-37, store/lists.go:147),
\* a cycle that the database has to break; there is no other.
EveryCallEnds ==
    \A a \in Agents : call[a] # Idle ~> call[a] = Idle \/ \E b, c \in Agents : Deadlocked(b, c)

============================================================================
