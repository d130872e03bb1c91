----------------------------- MODULE CrawlQueue -----------------------------
(***************************************************************************)
(* The crawl_targets queue: the rows (internal/store/targets.go), the      *)
(* clients that add and manage them (internal/listings), and the drains    *)
(* that claim, crawl and settle them (internal/ingest/targets.go under     *)
(* cmd/ingest).  Every store call is one step: it is one SQL statement or  *)
(* one transaction.  What a process does between two calls is where other  *)
(* processes interleave.                                                   *)
(*                                                                         *)
(* Time is abstract.  `recent` holds the rows whose last_run_at is younger *)
(* than -standing-every, `stale` the running rows whose started_at is      *)
(* older than the stale window of RecoverStaleTargets.                     *)
(***************************************************************************)
EXTENDS Naturals, FiniteSets

CONSTANTS
    Scopes,               \* the scopes a target may name (areas, type, price, beds)
    Drains,               \* processes running cmd/ingest -from-targets
    Clients,              \* concurrent request_crawl calls (and boot-time seeds)
    MaxTargets,           \* bound: ids handed out by the identity column
    MaxPendingRequests,   \* listings.MaxPendingRequests
    MaxFaults,            \* bound: crashes, dead contexts and store errors
    Calls,                \* the calls made on the queue from outside
    Spaced,               \* -standing-every is positive
    DrainsFitStaleWindow  \* no drain is still crawling when its claim turns stale

AllCalls == {"once", "standing", "pause", "resume", "promote", "delete", "reset", "seed"}

ASSUME QueueAssumption ==
    /\ IsFiniteSet(Drains) /\ IsFiniteSet(Clients)
    /\ MaxTargets \in Nat \ {0}
    /\ MaxPendingRequests \in Nat \ {0}
    /\ MaxFaults \in Nat
    /\ Calls \subseteq AllCalls
    /\ Spaced \in BOOLEAN
    /\ DrainsFitStaleWindow \in BOOLEAN

VARIABLES
    row,      \* crawl_targets, by id
    nextId,   \* the identity column's next value
    enabled,  \* ids whose row is enabled
    recent,   \* ids whose last_run_at is within -standing-every
    stale,    \* running ids whose started_at is past the stale window
    drain,    \* each drain's control state
    req,      \* each client's control state
    faults,   \* faults so far
    losses    \* those that were a crash or a failed call on the queue

vars == <<row, nextId, enabled, recent, stale, drain, req, faults, losses>>
unfaulty == <<faults, losses>>

-----------------------------------------------------------------------------
Ids == 1 .. MaxTargets
Kinds == {"standing", "once"}
Statuses == {"pending", "running", "done", "failed"}
Outcomes == {"ok", "failed", "interrupted"}

NoRow == [kind |-> "absent", scope |-> "none", status |-> "done"]
Row == [kind : Kinds, scope : Scopes, status : Statuses]

\* One entry of a drain's snapshot: the kind is the one read, not the row's.
DueEntry == [id : Ids, kind : Kinds]

IdleDrain == [pc |-> "idle", due |-> {}, cur |-> 0, ctx |-> "live", outcome |-> "none"]
DrainState == [pc : {"idle", "load", "loop", "crawl", "mark", "supersede", "prune"},
               due : SUBSET DueEntry, cur : Ids \cup {0}, ctx : {"live", "dead"},
               outcome : Outcomes \cup {"none"}]

IdleReq == [pc |-> "idle", kind |-> "once", scope |-> "none", id |-> 0]
ReqState == [pc : {"idle", "reenable", "create", "insert"}, kind : Kinds,
             scope : Scopes \cup {"none"}, id : Ids \cup {0}]

TypeOK ==
    /\ row \in [Ids -> Row \cup {NoRow}]
    /\ nextId \in 1 .. MaxTargets + 1
    /\ enabled \subseteq Ids
    /\ recent \subseteq Ids
    /\ stale \subseteq Ids
    /\ drain \in [Drains -> DrainState]
    /\ req \in [Clients -> ReqState]
    /\ faults \in 0 .. MaxFaults
    /\ losses \in 0 .. faults

-----------------------------------------------------------------------------
Present(i) == row[i].kind # "absent"
Once(i) == row[i].kind = "once"
Standing(i) == row[i].kind = "standing"
PendingOnce == {i \in Ids : Once(i) /\ row[i].status = "pending"}
Settled(i) == row[i].status \in {"done", "failed"}

\* The drains crawling row i: they hold a claim they have not yet recorded.
Crawlers(i) ==
    {d \in Drains : drain[d].pc \in {"crawl", "mark", "supersede"} /\ drain[d].cur = i}

Forget(gone) == /\ row' = [i \in Ids |-> IF i \in gone THEN NoRow ELSE row[i]]
                /\ enabled' = enabled \ gone
                /\ recent' = recent \ gone
                /\ stale' = stale \ gone

\* A loss is a crash or a call on the queue that failed.
Fault == faults < MaxFaults /\ faults' = faults + 1
Loss == Fault /\ losses' = losses + 1

Init ==
    /\ row = [i \in Ids |-> NoRow]
    /\ nextId = 1
    /\ enabled = {}
    /\ recent = {}
    /\ stale = {}
    /\ drain = [d \in Drains |-> IdleDrain]
    /\ req = [c \in Clients |-> IdleReq]
    /\ faults = 0
    /\ losses = 0

-----------------------------------------------------------------------------
(* Clients.                                                                *)

\* Rows a new request would duplicate.
MatchingTarget(k, s) ==
    {i \in Ids : /\ row[i].kind = k
                 /\ row[i].scope = s
                 /\ k = "standing" \/ row[i].status \in {"pending", "running"}}

\* Bound: past the last id nothing is inserted.
IdLeft == nextId <= MaxTargets

\* Mutant: off by one at the cap.
QueueFullOffByOne == Cardinality(PendingOnce) > MaxPendingRequests

\* The admission check counts the one-offs still pending.
QueueFull == Cardinality(PendingOnce) >= MaxPendingRequests

StandingOf(s) == {i \in Ids : Standing(i) /\ row[i].scope = s}

\* The decision RequestCrawl takes on the list it read: re-enable a paused
\* standing scope, or go on to create.  (A match that is enabled, and a full
\* queue, return without touching the store.)
RequestCrawl(c, k, s) ==
    /\ k \in Calls
    /\ req[c].pc = "idle"
    /\ IdLeft
    /\ \/ /\ k = "standing"
          /\ \E i \in StandingOf(s) :
                /\ \A j \in StandingOf(s) : j \notin enabled /\ i <= j
                /\ req' = [req EXCEPT ![c] = [pc |-> "reenable", kind |-> k,
                                              scope |-> s, id |-> i]]
       \/ /\ k = "standing" => StandingOf(s) = {}
          /\ k = "once" => ~QueueFull
          /\ req' = [req EXCEPT ![c] = [pc |-> "create", kind |-> k,
                                        scope |-> s, id |-> 0]]
    /\ UNCHANGED <<row, nextId, enabled, recent, stale, drain, unfaulty>>

\* A booting server seeds one standing scope into an empty table.
SeedCrawlTargets(c, s) ==
    /\ "seed" \in Calls
    /\ req[c].pc = "idle"
    /\ IdLeft
    /\ \A i \in Ids : ~Present(i)
    /\ req' = [req EXCEPT ![c] = [pc |-> "create", kind |-> "standing",
                                  scope |-> s, id |-> 0]]
    /\ UNCHANGED <<row, nextId, enabled, recent, stale, drain, unfaulty>>

\* The re-enabling UPDATE; the row may be gone by now.
ReEnable(c) ==
    /\ req[c].pc = "reenable"
    /\ enabled' = IF Present(req[c].id) THEN enabled \cup {req[c].id} ELSE enabled
    /\ req' = [req EXCEPT ![c] = IdleReq]
    /\ UNCHANGED <<row, nextId, recent, stale, drain, unfaulty>>

\* Mutant: creates take no advisory lock.
CreateNeverLocked == FALSE

\* pg_advisory_xact_lock is held from the match to the end of the transaction.
CreateLocked == \E c \in Clients : req[c].pc = "insert"

LockAndMatch(c) ==
    /\ req[c].pc = "create"
    /\ ~CreateLocked
    /\ IF MatchingTarget(req[c].kind, req[c].scope) # {}
       THEN req' = [req EXCEPT ![c] = IdleReq]
       ELSE req' = [req EXCEPT ![c].pc = "insert"]
    /\ UNCHANGED <<row, nextId, enabled, recent, stale, drain, unfaulty>>

\* Mutant: the partial unique index is missing.
IndexNeverRefuses(i, k, s) == FALSE

\* crawl_targets_pending_once_idx refuses a second pending one-off of a scope.
IndexRefuses(i, k, s) == k = "once" /\ \E j \in PendingOnce \ {i} : row[j].scope = s

CreateCrawlTarget(c) ==
    /\ req[c].pc = "insert"
    /\ IF IndexRefuses(nextId, req[c].kind, req[c].scope) \/ ~IdLeft
       THEN UNCHANGED <<row, enabled, nextId>>
       ELSE /\ row' = [row EXCEPT ![nextId] = [kind |-> req[c].kind,
                                               scope |-> req[c].scope,
                                               status |-> "pending"]]
            /\ enabled' = enabled \cup {nextId}
            /\ nextId' = nextId + 1
    /\ req' = [req EXCEPT ![c] = IdleReq]
    /\ UNCHANGED <<recent, stale, drain, unfaulty>>

\* The service refuses to pause or resume a one-off; kinds only ever turn
\* standing, so its earlier read still holds at the UPDATE.
SetCrawlTargetEnabled(i, on) ==
    /\ (IF on THEN "resume" ELSE "pause") \in Calls
    /\ Standing(i)
    /\ enabled' = IF on THEN enabled \cup {i} ELSE enabled \ {i}
    /\ UNCHANGED <<row, nextId, recent, stale, drain, req, unfaulty>>

\* A promotion that raced another one finds the row standing: it then acts as
\* a resume, so that case adds no behaviour.
PromoteCrawlTargetToStanding(i) ==
    /\ "promote" \in Calls
    /\ Once(i)
    /\ row' = [row EXCEPT ![i].kind = "standing"]
    /\ enabled' = enabled \cup {i}
    /\ UNCHANGED <<nextId, recent, stale, drain, req, unfaulty>>

DeleteCrawlTarget(i) ==
    /\ "delete" \in Calls
    /\ Present(i)
    /\ Forget({i})
    /\ UNCHANGED <<nextId, drain, req, unfaulty>>

ResetTasteState ==
    /\ "reset" \in Calls
    /\ \E i \in Ids : Present(i)
    /\ Forget(Ids)
    /\ UNCHANGED <<nextId, drain, req, unfaulty>>

-----------------------------------------------------------------------------
(* Drains.                                                                 *)

\* The row's last_run_at is set to now; without spacing nothing is recent.
RanNow(i) == IF Spaced THEN recent \cup {i} ELSE recent

\* Mutant: the spacing of standing scopes is ignored.
DueUnspaced(i) ==
    \/ Standing(i) /\ i \in enabled /\ row[i].status # "running"
    \/ i \in PendingOnce

IsDue(i) ==
    \/ /\ Standing(i)
       /\ i \in enabled
       /\ row[i].status # "running"
       /\ i \notin recent
    \/ i \in PendingOnce

DueCrawlTargets == {[id |-> i, kind |-> row[i].kind] : i \in {j \in Ids : IsDue(j)}}

\* One-offs first, then ids.
Before(t, u) == IF t.kind = u.kind THEN t.id <= u.id ELSE t.kind = "once"

\* Mutant: a stale one-off is requeued like a standing scope.
RequeueStaleTargets ==
    /\ row' = [i \in Ids |-> IF i \in stale THEN [row[i] EXCEPT !.status = "pending"]
                             ELSE row[i]]
    /\ stale' = {}

\* Mutant: only one-offs are recovered.
RecoverStaleOnceTargets ==
    /\ row' = [i \in Ids |-> IF i \in stale /\ Once(i)
                             THEN [row[i] EXCEPT !.status = "failed"] ELSE row[i]]
    /\ stale' = {}

\* Mutant: only standing scopes are recovered.
RecoverStaleStandingTargets ==
    /\ row' = [i \in Ids |-> IF i \in stale /\ Standing(i)
                             THEN [row[i] EXCEPT !.status = "pending"] ELSE row[i]]
    /\ stale' = {}

\* A one-off left running fails; a standing scope becomes due again.
RecoverStaleTargets ==
    /\ row' = [i \in Ids |->
                 IF i \in stale
                 THEN [row[i] EXCEPT !.status = IF Once(i) THEN "failed" ELSE "pending"]
                 ELSE row[i]]
    /\ stale' = {}

\* A drain starts (poll, notification or restart) by settling stale claims.
StartDrain(d) ==
    /\ drain[d].pc = "idle"
    /\ drain' = [drain EXCEPT ![d].pc = "load"]
    /\ \/ RecoverStaleTargets /\ UNCHANGED unfaulty
       \/ Loss /\ UNCHANGED <<row, stale>>
    /\ UNCHANGED <<nextId, enabled, recent, req>>

LoadDue(d) ==
    /\ drain[d].pc = "load"
    /\ \/ /\ drain[d].ctx = "live"
          /\ drain' = [drain EXCEPT ![d].pc = "loop", ![d].due = DueCrawlTargets]
          /\ UNCHANGED unfaulty
       \/ /\ drain' = [drain EXCEPT ![d].pc = "prune"]
          /\ IF drain[d].ctx = "dead" THEN UNCHANGED unfaulty ELSE Loss
    /\ UNCHANGED <<row, nextId, enabled, recent, stale, req>>

EndDrain(d) ==
    /\ drain[d].pc = "loop"
    /\ drain[d].ctx = "dead" \/ drain[d].due = {}
    /\ drain' = [drain EXCEPT ![d].pc = "prune", ![d].due = {}]
    /\ UNCHANGED <<row, nextId, enabled, recent, stale, req, unfaulty>>

\* Mutant: the claim does not look at a one-off's status.
ClaimableUnlessRunning(i) == Present(i) /\ row[i].status # "running"

\* Mutant: the claim does not look at a standing scope's status.
ClaimableWhileRunning(i) == i \in PendingOnce \/ Standing(i)

Claimable(i) ==
    \/ i \in PendingOnce
    \/ Standing(i) /\ row[i].status # "running"

\* The claiming UPDATE; it looks at kind and status, at nothing else.
Claim(i) ==
    /\ Claimable(i)
    /\ row' = [row EXCEPT ![i].status = "running"]
    /\ recent' = IF Once(i) THEN RanNow(i) ELSE recent
    /\ stale' = stale \ {i}

\* The next target of the snapshot is claimed, found claimed by another drain,
\* or skipped because the store failed (having applied the claim or not).
MarkTargetStarted(d) ==
    /\ drain[d].pc = "loop"
    /\ drain[d].ctx = "live"
    /\ \E t \in drain[d].due :
        /\ \A u \in drain[d].due : Before(t, u)
        /\ \/ /\ Claim(t.id)
              /\ drain' = [drain EXCEPT ![d].pc = "crawl", ![d].cur = t.id,
                                        ![d].due = @ \ {t}]
              /\ UNCHANGED unfaulty
           \/ /\ ~Claimable(t.id)
              /\ drain' = [drain EXCEPT ![d].due = @ \ {t}]
              /\ UNCHANGED <<row, recent, stale, unfaulty>>
           \/ /\ Claim(t.id) \/ UNCHANGED <<row, recent, stale>>
              /\ drain' = [drain EXCEPT ![d].due = @ \ {t}]
              /\ Loss
    /\ UNCHANGED <<nextId, enabled, req>>

\* Service.Run returns.  An error under a dead context is an interruption, and
\* so is a run the store refused to open.
Run(d, o) ==
    /\ drain[d].pc = "crawl"
    /\ \/ o = "ok" /\ UNCHANGED unfaulty
       \/ o = "failed" /\ drain[d].ctx = "live" /\ UNCHANGED unfaulty
       \/ o = "interrupted" /\ drain[d].ctx = "dead" /\ UNCHANGED unfaulty
       \/ o = "interrupted" /\ drain[d].ctx = "live" /\ Fault /\ UNCHANGED losses
    /\ drain' = [drain EXCEPT ![d].pc = "mark", ![d].outcome = o]
    /\ UNCHANGED <<row, nextId, enabled, recent, stale, req>>

\* Mutant: only outcomes are recorded, an interrupted row stays as it is.
RecordOutcomesOnly(i, o) ==
    /\ row' = [row EXCEPT ![i].status = IF o = "ok" THEN "done"
                                        ELSE IF o = "failed" THEN "failed" ELSE @]
    /\ recent' = IF o = "interrupted" THEN recent ELSE RanNow(i)
    /\ stale' = IF o = "interrupted" THEN stale ELSE stale \ {i}

\* The settling UPDATE, by id alone: an interruption is no outcome.
Record(i, o) ==
    /\ row' = [row EXCEPT ![i].status = IF o = "ok" THEN "done"
                                        ELSE IF o = "failed" THEN "failed" ELSE "pending"]
    /\ recent' = IF o = "interrupted" THEN recent ELSE RanNow(i)
    /\ stale' = stale \ {i}

\* Returning this one-off to pending would trip the index.
Superseded(i, o) == o = "interrupted" /\ IndexRefuses(i, row[i].kind, row[i].scope)

AfterMark(d) ==
    drain' = [drain EXCEPT ![d].pc = "loop", ![d].cur = 0, ![d].outcome = "none"]

MarkTargetRun(d) ==
    LET i == drain[d].cur
        o == drain[d].outcome
    IN
    /\ drain[d].pc = "mark"
    /\ \/ /\ Present(i) /\ ~Superseded(i, o)
          /\ Record(i, o) /\ AfterMark(d) /\ UNCHANGED unfaulty
       \/ /\ Present(i) /\ Superseded(i, o)
          /\ drain' = [drain EXCEPT ![d].pc = "supersede"]
          /\ UNCHANGED <<row, recent, stale, unfaulty>>
       \/ ~Present(i) /\ AfterMark(d) /\ UNCHANGED <<row, recent, stale, unfaulty>>
       \/ Loss /\ AfterMark(d) /\ UNCHANGED <<row, recent, stale>>
    /\ UNCHANGED <<nextId, enabled, req>>

\* The second statement, after the index refused the first: the newer request
\* will crawl, this one failed.
Supersede(d) ==
    LET i == drain[d].cur IN
    /\ drain[d].pc = "supersede"
    /\ \/ /\ Present(i)
          /\ row' = [row EXCEPT ![i].status = "failed"]
          /\ stale' = stale \ {i}
          /\ UNCHANGED unfaulty
       \/ ~Present(i) /\ UNCHANGED <<row, stale, unfaulty>>
       \/ Loss /\ UNCHANGED <<row, stale>>
    /\ AfterMark(d)
    /\ UNCHANGED <<nextId, enabled, recent, req>>

\* Ids grow with created_at, so "older than keep" is a prefix of them.
PruneCrawlTargets(d) ==
    /\ drain[d].pc = "prune"
    /\ \E cut \in 0 .. MaxTargets :
          Forget({i \in 1 .. cut : i \in Ids /\ Once(i) /\ Settled(i)})
    /\ drain' = [drain EXCEPT ![d] = IdleDrain]
    /\ UNCHANGED <<nextId, req, unfaulty>>

\* The drain deadline passes or a shutdown signal arrives.
ContextDies(d) ==
    /\ drain[d].pc \in {"load", "loop", "crawl"}
    /\ drain[d].ctx = "live"
    /\ Fault
    /\ drain' = [drain EXCEPT ![d].ctx = "dead"]
    /\ UNCHANGED <<row, nextId, enabled, recent, stale, req, losses>>

\* The process is killed and restarted by its supervisor.
Crash(d) ==
    /\ drain[d].pc # "idle"
    /\ Loss
    /\ drain' = [drain EXCEPT ![d] = IdleDrain]
    /\ UNCHANGED <<row, nextId, enabled, recent, stale, req>>

-----------------------------------------------------------------------------
(* Time.                                                                   *)

SpacingElapses(i) ==
    /\ i \in recent
    /\ recent' = recent \ {i}
    /\ UNCHANGED <<row, nextId, enabled, stale, drain, req, unfaulty>>

ClaimAges(i) ==
    /\ row[i].status = "running"
    /\ i \notin stale
    /\ DrainsFitStaleWindow => Crawlers(i) = {}
    /\ stale' = stale \cup {i}
    /\ UNCHANGED <<row, nextId, enabled, recent, drain, req, unfaulty>>

-----------------------------------------------------------------------------
ClientStep(c) ==
    \/ \E k \in Kinds, s \in Scopes : RequestCrawl(c, k, s)
    \/ \E s \in Scopes : SeedCrawlTargets(c, s)
    \/ ReEnable(c)
    \/ LockAndMatch(c)
    \/ CreateCrawlTarget(c)

ManageStep ==
    \/ \E i \in Ids, on \in BOOLEAN : SetCrawlTargetEnabled(i, on)
    \/ \E i \in Ids : PromoteCrawlTargetToStanding(i)
    \/ \E i \in Ids : DeleteCrawlTarget(i)
    \/ ResetTasteState

DrainStep(d) ==
    \/ StartDrain(d)
    \/ LoadDue(d)
    \/ EndDrain(d)
    \/ MarkTargetStarted(d)
    \/ \E o \in Outcomes : Run(d, o)
    \/ MarkTargetRun(d)
    \/ Supersede(d)
    \/ PruneCrawlTargets(d)

FaultStep(d) == ContextDies(d) \/ Crash(d)

TimeStep(i) == SpacingElapses(i) \/ ClaimAges(i)

Next ==
    \/ \E c \in Clients : ClientStep(c)
    \/ ManageStep
    \/ \E d \in Drains : DrainStep(d) \/ FaultStep(d)
    \/ \E i \in Ids : TimeStep(i)

Spec == Init /\ [][Next]_vars

\* Drains are loops under a supervisor with a poll fallback, and clocks run.
\* Clients and managers owe nothing, and faults are never forced.
FairSpec ==
    /\ Spec
    /\ \A d \in Drains : WF_vars(DrainStep(d))
    /\ \A i \in Ids : WF_vars(SpacingElapses(i)) /\ WF_vars(ClaimAges(i))

-----------------------------------------------------------------------------
(* Properties.                                                             *)

\* At most one pending one-off per scope, whatever interleaving of requests,
\* recoveries and late outcomes: no statement but the two that handle a
\* refusal by crawl_targets_pending_once_idx can ever trip it.
PendingOnceUnique ==
    \A i, j \in PendingOnce : row[i].scope = row[j].scope => i = j

\* A one-off is never crawled by two drains at once, even when its claim was
\* declared stale while its crawler was still alive.
OnceExclusive ==
    \A i \in Ids : Once(i) => \A d, e \in Crawlers(i) : d = e

\* When claims only turn stale after their drain is gone, no target of either
\* kind is crawled by two drains at once.
ExclusiveCrawl == \A i \in Ids : \A d, e \in Crawlers(i) : d = e

\* ... and the row a drain is about to settle is still the claim it made: the
\* settling UPDATE, which names only the id, never settles anything else.
CrawlerHoldsClaim ==
    \A i \in Ids : Crawlers(i) # {} => row[i].status = "running" \/ ~Present(i)

\* Only a crash or a failed call on the queue leaves a row running that nobody
\* crawls: a deadline or a shutdown signal that arrives between two calls never
\* does, whatever the crawl was doing (bookkeeping gets a context of its own).
OrphansNeedLoss ==
    losses = 0 => \A i \in Ids : row[i].status = "running" => Crawlers(i) # {}

\* Requests that race the admission check, and interrupted one-offs that come
\* back, exceed the cap by less than the number of clients and drains.
QueueBounded ==
    Cardinality(PendingOnce) <
        MaxPendingRequests + Cardinality(Clients) + Cardinality(Drains)

\* No two standing rows describe one scope.
StandingScopeUnique ==
    \A i, j \in Ids :
        Standing(i) /\ Standing(j) /\ row[i].scope = row[j].scope => i = j

\* A settled one-off is an answer: while it exists as a one-off nothing moves
\* it on, so no request is crawled twice and no recorded outcome is rewritten.
SettledIsFinal ==
    [][\A i \in Ids : Once(i) /\ Settled(i) /\ row'[i].kind = "once"
                          => row'[i] = row[i]]_vars

\* A standing scope is not started again within -standing-every of its last
\* recorded run.
StandingSpaced ==
    [][\A i \in recent : Standing(i) /\ row[i].status # "running"
                             => row'[i].status # "running"]_vars

\* Every queued one-off ends with an outcome, unless it is removed or promoted.
RequestSettles ==
    \A i \in Ids : i \in PendingOnce ~> ~Once(i) \/ Settled(i)

\* Every enabled standing scope is crawled, again and again, until it is
\* paused or removed.
StandingCrawled ==
    \A i \in Ids : Standing(i) /\ i \in enabled
                       ~> Crawlers(i) # {} \/ ~Standing(i) \/ i \notin enabled

\* What a reader of the queue may rely on is the ledger: the drains are its workers.
Ledger == INSTANCE CrawlLedger
    WITH Workers <- Drains, MaxJobs <- MaxTargets,
         job <- row, issued <- nextId - 1, crawling <- [i \in Ids |-> Crawlers(i)]

\* When claims only turn stale after their drain is gone, every interleaving of
\* requests, drains, crashes and recoveries is a behaviour of the ledger: a target
\* is started only when nobody crawls it, its outcome is the one its crawler
\* reported, and only a target that lost its crawler is settled by another.
KeepsLedger == Ledger!Spec
=============================================================================
