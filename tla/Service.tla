------------------------------ MODULE Service ------------------------------
(***************************************************************************)
(* listings.Service (internal/listings) as its callers see it: what each   *)
(* call does to the tables and which sentinel error it answers, one call   *)
(* at a time.  TasteMemory and CrawlQueue look at the statements inside;   *)
(* McpTools and RestApi put them together.                                 *)
(*                                                                         *)
(* An argument keeps only what decides the outcome: a number is "none",    *)
(* "zero", "ok" or "huge" (beyond its column); a text is "ok", "long", or   *)
(* "nul" when Postgres does not store it (a NUL byte, or not UTF-8).        *)
(***************************************************************************)
EXTENDS Naturals, Sequences, FiniteSets, SequencesExt

CONSTANTS
    Listings,            \* the corpus
    Ghosts,              \* listing ids the corpus does not have
    Photographed,        \* listings with a cached thumbnail
    Fields,              \* the profile's fields
    Slugs, Favorites,
    Scopes,              \* crawl scopes
    MaxTargets,          \* bound: crawl targets ever created
    MaxPendingRequests,
    MaxVerdictBatch

ASSUME ServiceAssumption ==
    /\ Ghosts \cap Listings = {} /\ Photographed \subseteq Listings
    /\ Favorites \in Slugs
    /\ MaxTargets \in Nat /\ MaxPendingRequests \in Nat \ {0} /\ MaxVerdictBatch \in Nat

TargetIds == 1 .. MaxTargets

\* The tables the calls write.  A constrained profile field is in `profile`.
EmptyDb == [verdicts |-> <<>>, rubrics |-> 0, shown |-> {}, profile |-> {},
            lists |-> {Favorites}, items |-> {}, targets |-> {}, nextTarget |-> 1]

\* An outcome: the tables after the call, its error, and what it shows.
Done(d)              == [db |-> d, err |-> "ok", shows |-> {}]
Shown(d, rows)       == [db |-> d, err |-> "ok", shows |-> rows]
Refused(d, sentinel) == [db |-> d, err |-> sentinel, shows |-> {}]
Checked(d, valid, outcome) == IF valid THEN outcome ELSE Refused(d, "invalid")
Found(d, found, sentinel, outcome) == IF found THEN outcome ELSE Refused(d, sentinel)

MoneyOK(v) == v \in {"none", "ok"}
NoteOK(v)  == v # "long"

\* The length is all a text is checked for; the statement that binds one which
\* cannot be stored is refused.
Unstorable == "unstorable"
Stored(d, text, outcome) == IF text = "nul" THEN Refused(d, Unstorable) ELSE outcome

---------------------------------------------------------------------------
(* Listings, photos and the user's taste.                                   *)

State(d) == Shown(d, <<d.profile, d.rubrics, d.verdicts>>)

VerdictsFor(d, in) == Shown(d, SelectSeq(d.verdicts, LAMBDA l : l = in.id))

\* The filters themselves are abstracted: every listing matches.
Search(d, in) ==
    Checked(d, MoneyOK(in.price) /\ NoteOK(in.text), Stored(d, in.text, Shown(d, Listings)))

Candidates(d) == Shown(d, Listings \ (d.shown \cup Range(d.verdicts)))

Listing(d, in) == Found(d, in.id \in Listings, "notFound", Shown(d, {in.id}))

\* The planned sheets cover the cached thumbnails; here one listing fills one.
ContactSheet(d, in) ==
    Found(d, in.id \in Listings /\ in.id \in Photographed /\ in.n = 0, "notFound", Shown(d, {in.id}))

PhotosForListings(d, in) == Shown(d, in.ids \cap Photographed)

PhotoKeyAt(d, in) == Found(d, in.id \in Photographed /\ in.n = 0, "notFound", Done(d))

\* The bytes of a row that dangles are missing.
PhotoObject(d, in) == Found(d, in.held, "notFound", Done(d))

MarkShown(d, in) ==
    Checked(d, in.asOf # "future", Done([d EXCEPT !.shown = @ \cup (in.ids \cap Listings)]))

RecordVerdict(d, in) ==
    Checked(d, NoteOK(in.note),
        Stored(d, in.note,
            Found(d, in.id \in Listings, "notFound", Done([d EXCEPT !.verdicts = Append(@, in.id)]))))

\* Mutant: the notes are judged as the items are recorded.
CheckBatchSize(d, in) == Checked(d, Len(in.batch) <= MaxVerdictBatch, Done(d))

\* RecordVerdicts first judges the whole batch ...
CheckBatch(d, in) ==
    Checked(d, Len(in.batch) <= MaxVerdictBatch /\ \A i \in DOMAIN in.batch : NoteOK(in.batch[i].note),
            Done(d))

\* ... then records item by item; an unknown listing is reported and skipped.
BatchItem(d, item) ==
    LET out == RecordVerdict(d, item)
    IN  IF out.err = "notFound" THEN Done(d) ELSE out

SetProfile(d, in) ==
    Checked(d, in.value # "bad",
        Stored(d, in.value, Done([d EXCEPT !.profile = (@ \cup in.set) \ in.clear])))

\* The names are abstracted; what matters is that the call comes after the save.
UnmatchedNeighborhoods(d) == Shown(d, {})

UpdateRubric(d, in) ==
    Checked(d, in.content # "empty" /\ in.through # "negative",
        Found(d, in.through # "ahead", "futureThrough",
            Stored(d, in.content, Done([d EXCEPT !.rubrics = @ + 1]))))

\* Everything but the corpus, the favorites list and the counters.
ResetState(d) == Done([EmptyDb EXCEPT !.nextTarget = d.nextTarget])

---------------------------------------------------------------------------
(* Crawl targets.                                                           *)

Pending(d) == {t \in d.targets : t.kind = "once" /\ t.status = "pending"}

Put(d, t, u) == Done([d EXCEPT !.targets = (@ \ {t}) \cup {u}])

\* Mutant: only one-offs are looked for.
MatchingOneOffs(d, in) ==
    {t \in d.targets : t.scope = in.scope /\ t.kind = "once" /\ in.oneOff /\ t.status \in {"pending", "running"}}

\* An identical one-off still pending or running, or an identical standing
\* scope, is the one that is answered.
MatchingTargets(d, in) ==
    {t \in d.targets : /\ t.scope = in.scope
                       /\ IF in.oneOff THEN t.kind = "once" /\ t.status \in {"pending", "running"}
                                       ELSE t.kind = "standing"}

CreateCrawlTarget(d, in) ==
    IF MatchingTargets(d, in) # {} THEN Done(d)
    ELSE Stored(d, in.note,
             Done([d EXCEPT !.nextTarget = @ + 1,
                            !.targets = @ \cup {[id |-> d.nextTarget, scope |-> in.scope,
                                kind |-> IF in.oneOff THEN "once" ELSE "standing",
                                enabled |-> TRUE, status |-> "pending"]}]))

\* The order the targets are listed in: the enabled standing scopes first.
ListedFirst(targets) ==
    CHOOSE x \in targets : \A y \in targets :
        IF x.enabled = y.enabled THEN x.id <= y.id ELSE x.enabled

\* Mutant: a known standing scope is replaced by a new row.
RequestCrawlAnew(d, in) ==
    Checked(d, in.scope \in Scopes /\ MoneyOK(in.price) /\ NoteOK(in.note),
        LET known == IF in.oneOff THEN {} ELSE MatchingTargets(d, in)
        IN  Found(d, ~in.oneOff \/ Cardinality(Pending(d)) < MaxPendingRequests, "queueFull",
                  CreateCrawlTarget([d EXCEPT !.targets = @ \ known], in)))

\* A place phrase names scopes; an unknown one names none.
ResolveAreas(d, in) == Shown(d, {in.scope} \cap Scopes)

\* A known standing scope is resumed; only one-offs fill the queue.
RequestCrawl(d, in) ==
    Checked(d, in.scope \in Scopes /\ MoneyOK(in.price) /\ NoteOK(in.note),
        LET known == IF in.oneOff THEN {} ELSE MatchingTargets(d, in)
            t     == ListedFirst(known)
        IN  IF known # {} THEN Put(d, t, [t EXCEPT !.enabled = TRUE])
            ELSE Found(d, ~in.oneOff \/ Cardinality(Pending(d)) < MaxPendingRequests, "queueFull",
                       CreateCrawlTarget(d, in)))

\* At most one target has the id asked for.
TargetNamed(d, in) == {t \in d.targets : t.id = in.id}
WithTarget(d, outcomes) ==
    IF outcomes = {} THEN Refused(d, "targetNotFound") ELSE CHOOSE o \in outcomes : TRUE

CrawlStatus(d, in) == WithTarget(d, {Shown(d, {t}) : t \in TargetNamed(d, in)})

SetCrawlTargetEnabled(d, in) ==
    WithTarget(d, {Checked(d, t.kind = "standing", Put(d, t, [t EXCEPT !.enabled = in.enabled])) :
                      t \in TargetNamed(d, in)})

MakeCrawlTargetRecurring(d, in) ==
    WithTarget(d, {Checked(d, t.kind = "once", Put(d, t, [t EXCEPT !.kind = "standing", !.enabled = TRUE])) :
                      t \in TargetNamed(d, in)})

DeleteCrawlTarget(d, in) ==
    WithTarget(d, {Done([d EXCEPT !.targets = @ \ {t}]) : t \in TargetNamed(d, in)})

CrawlTargets(d) == Shown(d, d.targets)

CorpusStats(d) ==
    Shown(d, [listings |-> Listings, verdicts |-> Len(d.verdicts), lists |-> Cardinality(d.lists),
              pending |-> Pending(d), standing |-> {t \in d.targets : t.kind = "standing" /\ t.enabled}])

---------------------------------------------------------------------------
(* Curated lists.                                                           *)

RatedListings(d) == Shown(d, <<d.rubrics, Range(d.verdicts)>>)

Members(d, list) == {x[2] : x \in {y \in d.items : y[1] = list}}

Lists(d) == Shown(d, {<<l, Cardinality(Members(d, l))>> : l \in d.lists})

CreateList(d, in) ==
    Checked(d, NoteOK(in.text) /\ in.name \in Slugs,
        Stored(d, in.text,
            Found(d, in.name \notin d.lists, "duplicateList", Done([d EXCEPT !.lists = @ \cup {in.name}]))))

ListMembers(d, in) == Found(d, in.list \in d.lists, "listNotFound", Shown(d, Members(d, in.list)))

ListBySlug(d, in) == Found(d, in.list \in d.lists, "listNotFound", Shown(d, {in.list}))

ListsForProperty(d, in) == Shown(d, {l \in d.lists : in.id \in Members(d, l)})

DeleteList(d, in) ==
    Found(d, in.list \in d.lists, "listNotFound",
        Found(d, in.list # Favorites, "defaultList",
            Done([d EXCEPT !.lists = @ \ {in.list}, !.items = {x \in @ : x[1] # in.list}])))

\* One insert: a text it cannot store is refused before its foreign keys are looked at.
AddToList(d, in) ==
    Checked(d, NoteOK(in.note),
        Stored(d, in.note,
            Found(d, in.list \in d.lists, "listNotFound",
                Found(d, in.id \in Listings, "notFound",
                      Done([d EXCEPT !.items = @ \cup {<<in.list, in.id>>}])))))

\* By its slug the list is looked up first.
AddToListBySlug(d, in) ==
    Checked(d, NoteOK(in.note), Found(d, in.list \in d.lists, "listNotFound", AddToList(d, in)))

RemoveFromList(d, in) ==
    Found(d, in.list \in d.lists, "listNotFound", Done([d EXCEPT !.items = @ \ {<<in.list, in.id>>}]))

---------------------------------------------------------------------------
(* A request, as its handler answers it: the calls it makes in order, each  *)
(* with the errors the handler carries on after.                            *)

Sentinels == {"invalid", "notFound", "futureThrough", "queueFull", "targetNotFound",
              "listNotFound", "duplicateList", "defaultList"}
Outage == "outage"
AnyError == Sentinels \cup {Outage, Unstorable}

Must(do, in)       == [do |-> do, in |-> in, spared |-> {}]
Sparing(do, in, S) == [do |-> do, in |-> in, spared |-> S]
Try(do, in)        == Sparing(do, in, AnyError)

Plan(calls)        == [err |-> "ok", calls |-> calls]
RejectAs(sentinel) == [err |-> sentinel, calls |-> <<>>]
Reject             == RejectAs("invalid")

\* Both schemas list the values of an enum, which leaves the handler's parser
\* nothing to forgive: it takes "folded" values (other case, spaces around) as well.
Parsed(in, plan)   == IF in.form = "ok" THEN plan ELSE Reject

Perform(c, d) ==
    LET in == c.in IN
    CASE c.do = "Search" -> Search(d, in)
      [] c.do = "Listing" -> Listing(d, in)
      [] c.do = "ContactSheet" -> ContactSheet(d, in)
      [] c.do = "PhotoKeyAt" -> PhotoKeyAt(d, in)
      [] c.do = "PhotoObject" -> PhotoObject(d, in)
      [] c.do = "MarkShown" -> MarkShown(d, in)
      [] c.do = "RecordVerdict" -> RecordVerdict(d, in)
      [] c.do = "CheckBatch" -> CheckBatch(d, in)
      [] c.do = "BatchItem" -> BatchItem(d, in)
      [] c.do = "SetProfile" -> SetProfile(d, in)
      [] c.do = "UpdateRubric" -> UpdateRubric(d, in)
      [] c.do = "ResetState" -> ResetState(d)
      [] c.do = "RequestCrawl" -> RequestCrawl(d, in)
      [] c.do = "CrawlStatus" -> CrawlStatus(d, in)
      [] c.do = "SetCrawlTargetEnabled" -> SetCrawlTargetEnabled(d, in)
      [] c.do = "MakeCrawlTargetRecurring" -> MakeCrawlTargetRecurring(d, in)
      [] c.do = "DeleteCrawlTarget" -> DeleteCrawlTarget(d, in)
      [] c.do = "CreateList" -> CreateList(d, in)
      [] c.do = "ListMembers" -> ListMembers(d, in)
      [] c.do = "DeleteList" -> DeleteList(d, in)
      [] c.do = "AddToList" -> AddToList(d, in)
      [] c.do = "AddToListBySlug" -> AddToListBySlug(d, in)
      [] c.do = "RemoveFromList" -> RemoveFromList(d, in)
      [] c.do = "State" -> State(d)
      [] c.do = "VerdictsFor" -> VerdictsFor(d, in)
      [] c.do = "Candidates" -> Candidates(d)
      [] c.do = "PhotosForListings" -> PhotosForListings(d, in)
      [] c.do = "UnmatchedNeighborhoods" -> UnmatchedNeighborhoods(d)
      [] c.do = "CrawlTargets" -> CrawlTargets(d)
      [] c.do = "CorpusStats" -> CorpusStats(d)
      [] c.do = "RatedListings" -> RatedListings(d)
      [] c.do = "Lists" -> Lists(d)
      [] c.do = "ListBySlug" -> ListBySlug(d, in)
      [] c.do = "ListsForProperty" -> ListsForProperty(d, in)
      [] c.do = "ResolveAreas" -> ResolveAreas(d, in)

\* How the request stands after one more of its calls: an error ends it, unless the
\* handler carries on.
AfterCall(acc, c) ==
    LET out == Perform(c, acc.db)
    IN  IF acc.err # "ok" THEN acc ELSE IF out.err \in c.spared THEN Done(out.db) ELSE out

\* ... and after each number of them, with nobody in between and nothing failing.
AfterCalls(calls, start) ==
    LET after[n \in 0 .. Len(calls)] == IF n = 0 THEN start ELSE AfterCall(after[n - 1], calls[n])
    IN  after

\* The whole request at once.
Effect(plan, d) == AfterCalls(plan.calls, [Done(d) EXCEPT !.err = plan.err])[Len(plan.calls)]
===========================================================================
