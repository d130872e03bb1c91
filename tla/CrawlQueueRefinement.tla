------------------------ MODULE CrawlQueueRefinement ------------------------
(***************************************************************************)
(* The crawl queue implements CrawlLedger, for every instance, when claims *)
(* only turn stale after their drain is gone.  The map forgets every       *)
(* process; three lemmas say what a drain's step does to who crawls what,  *)
(* and each action is then a step of the ledger, or none.                  *)
(***************************************************************************)
EXTENDS CrawlQueueProofs

Held == [i \in Ids |-> Crawlers(i)]

\* Only drain d moved.
OnlyMoved(d) == \A e \in Drains \ {d} : drain'[e] = drain[e]

LedgerStep == Ledger!Next \/ UNCHANGED Ledger!ledgerVars

\* A drain that neither begins nor ends a crawl changes nothing of who crawls what.
LEMMA HeldKept ==
    ASSUME NEW d \in Drains, OnlyMoved(d), Crawling(d) <=> Crawling(d)',
           Crawling(d) => drain'[d].cur = drain[d].cur
    PROVE  Held' = Held
<1>1. \A i \in Ids : Crawlers(i)' = Crawlers(i)
  BY DEF Crawlers, Crawling, OnlyMoved
<1> QED
  BY <1>1 DEF Held

\* A drain that begins a crawl joins the crawlers of its target.
LEMMA HeldJoined ==
    ASSUME NEW d \in Drains, OnlyMoved(d), ~Crawling(d), Crawling(d)', drain'[d].cur \in Ids
    PROVE  Held' = [Held EXCEPT ![drain'[d].cur] = @ \cup {d}]
<1>1. \A i \in Ids : Crawlers(i)' = IF i = drain'[d].cur THEN Crawlers(i) \cup {d} ELSE Crawlers(i)
  BY DEF Crawlers, Crawling, OnlyMoved
<1> QED
  BY <1>1 DEF Held

\* A drain that ends a crawl leaves them.
LEMMA HeldLeft ==
    ASSUME NEW d \in Drains, OnlyMoved(d), Crawling(d), ~Crawling(d)', drain[d].cur \in Ids
    PROVE  /\ d \in Held[drain[d].cur]
           /\ Held' = [Held EXCEPT ![drain[d].cur] = @ \ {d}]
<1>1. \A i \in Ids : Crawlers(i)' = IF i = drain[d].cur THEN Crawlers(i) \ {d} ELSE Crawlers(i)
  BY DEF Crawlers, Crawling, OnlyMoved
<1>2. d \in Crawlers(drain[d].cur)
  BY DEF Crawlers, Crawling
<1> QED
  BY <1>1, <1>2 DEF Held

-----------------------------------------------------------------------------
\* The empty table is the empty ledger.
LEMMA InitLedger == Init => Ledger!Init
<1> SUFFICES ASSUME Init PROVE Ledger!Init
  OBVIOUS
<1>1. \A i \in Ids : Crawlers(i) = {}
  BY DEF Init, Crawlers, IdleDrain
<1> QED
  BY <1>1 DEF Init, Ledger!Init, Ledger!Jobs, Ids, NoRow, Ledger!NoJob

\* A row that is inserted is a job submitted.
LEMMA CreateIsSubmit ==
    ASSUME Shape, NEW c \in Clients, CreateCrawlTarget(c)
    PROVE  LedgerStep
<1> DEFINE k == req[c].kind
           s == req[c].scope
<1>1. k \in {"standing", "once"} /\ s \in Scopes /\ Held' = Held
  BY DEF CreateCrawlTarget, Shape, TypeOK, ReqState, Kinds, ReqsNameScopes, Held, Crawlers
<1>2. CASE IndexRefuses(nextId, k, s) \/ ~IdLeft
  BY <1>1, <1>2 DEF CreateCrawlTarget, LedgerStep, Ledger!ledgerVars, Held
<1>3. CASE ~IndexRefuses(nextId, k, s) /\ IdLeft
  <2>1. nextId \in Nat /\ nextId - 1 + 1 = nextId /\ nextId' = nextId + 1 /\ nextId' - 1 = nextId
    BY <1>3, QueueAssumption DEF CreateCrawlTarget, Shape, TypeOK
  <2>2. nextId \in Ids
    BY <1>3, <2>1, QueueAssumption DEF IdLeft, Ids, Shape, TypeOK
  <2>3. k = "once" => Ledger!Alone(nextId, s)
    BY <1>3 DEF IndexRefuses, PendingOnce, Once, Ledger!Alone, Ledger!Queued, Ledger!Jobs, Ids
  <2>4. row' = [row EXCEPT ![nextId] = [kind |-> k, scope |-> s, status |-> "pending"]]
    BY <1>3 DEF CreateCrawlTarget
  <2>5. Ledger!Submit(k, s)
    BY <1>1, <2>1, <2>2, <2>3, <2>4 DEF Ledger!Submit, Ledger!Jobs, Ids, Held
  <2> QED
    BY <1>1, <2>5 DEF LedgerStep, Ledger!Next
<1> QED
  BY <1>2, <1>3

\* The management calls promote or withdraw, or are nobody's business.
LEMMA ManageIsLedger ==
    ASSUME ManageStep
    PROVE  LedgerStep
<1>1. Held' = Held /\ nextId' = nextId
  BY ManageFrame DEF Held, Crawlers
<1>2. CASE row' = row
  BY <1>1, <1>2 DEF LedgerStep, Ledger!ledgerVars, Held
<1>3. ASSUME NEW i \in Ids, PromoteCrawlTargetToStanding(i)
      PROVE  LedgerStep
  <2>1. Ledger!Promote(i)
    BY <1>1, <1>3 DEF PromoteCrawlTargetToStanding, Once, Ledger!Promote, Held
  <2> QED
    BY <2>1 DEF LedgerStep, Ledger!Next, Ledger!Jobs, Ids
<1>4. ASSUME NEW gone \in SUBSET Ids, Forget(gone)
      PROVE  LedgerStep
  <2>1. Ledger!Withdraw(gone)
    BY <1>1, <1>4 DEF Forget, Ledger!Withdraw, Ledger!Jobs, Ids, NoRow, Ledger!NoJob, Held
  <2> QED
    BY <2>1 DEF LedgerStep, Ledger!Next, Ledger!Jobs, Ids
<1> QED
  BY <1>2, <1>3, <1>4, ManageFrame

\* Recovery settles jobs that lost their worker.
LEMMA StartIsRecover ==
    ASSUME Shape, FitInv, NEW d \in Drains, StartDrain(d)
    PROVE  LedgerStep
<1>1. Held' = Held
  BY HeldKept DEF StartDrain, OnlyMoved, Crawling, Shape, TypeOK, DrainState
<1>2. nextId' = nextId
  BY DEF StartDrain
<1>3. CASE row' = row
  BY <1>1, <1>2, <1>3 DEF LedgerStep, Ledger!ledgerVars, Held
<1>4. CASE RecoverStaleTargets
  <2>1. \A i \in stale : i \in Ids /\ row[i].status = "running" /\ Held[i] = {}
    <3> SUFFICES ASSUME NEW i \in stale
                 PROVE  i \in Ids /\ row[i].status = "running" /\ Held[i] = {}
      OBVIOUS
    <3>1. i \in Ids /\ row[i].status = "running" /\ Present(i)
      BY DEF Shape, TypeOK, StaleRunning, Row, NoRow, Kinds, Present
    <3> QED
      BY <3>1 DEF FitInv, Held
  <2>2. Ledger!Recover(stale)
    BY <1>1, <1>2, <1>4, <2>1 DEF RecoverStaleTargets, Ledger!Recover, Ledger!Jobs, Ids, Once, Held
  <2> QED
    BY <2>1, <2>2 DEF LedgerStep, Ledger!Next, Ledger!Jobs, Ids
<1> QED
  BY <1>3, <1>4 DEF StartDrain

\* A claim is a start; a claim whose answer is lost is a start without a worker.
LEMMA ClaimIsStart ==
    ASSUME Shape, FitInv, NEW d \in Drains, MarkTargetStarted(d)
    PROVE  LedgerStep
<1>1. PICK t \in drain[d].due :
          \/ /\ Claim(t.id)
             /\ drain' = [drain EXCEPT ![d].pc = "crawl", ![d].cur = t.id, ![d].due = @ \ {t}]
          \/ /\ Claim(t.id) \/ row' = row
             /\ drain' = [drain EXCEPT ![d].due = @ \ {t}]
  BY DEF MarkTargetStarted
<1>2. /\ t.id \in Ids /\ OnlyMoved(d) /\ ~Crawling(d) /\ nextId' = nextId
      /\ drain[d] \in DrainState
  BY DEF MarkTargetStarted, Shape, TypeOK, DrainState, DueEntry, OnlyMoved, Crawling
<1>3. ASSUME NEW by \in {{}} \cup {{e} : e \in Drains}, Claim(t.id),
             Held' = [Held EXCEPT ![t.id] = @ \cup by]
      PROVE  LedgerStep
  <2>1. Present(t.id) /\ row[t.id].status # "running" /\ Ledger!Ready(t.id)
    BY <1>3 DEF Claim, Claimable, PendingOnce, Standing, Once, Present, Ledger!Ready, Ledger!Queued
  <2>2. Crawlers(t.id) = {}
    BY <1>2, <2>1 DEF FitInv
  <2>3. Held' = [Held EXCEPT ![t.id] = by]
    BY <1>2, <1>3, <2>2 DEF Held
  <2>4. Ledger!Start(t.id, by)
    BY <1>2, <1>3, <2>1, <2>2, <2>3 DEF Claim, Ledger!Start, Held
  <2> QED
    BY <1>2, <2>4 DEF LedgerStep, Ledger!Next, Ledger!Jobs, Ids
<1>4. CASE /\ Claim(t.id)
           /\ drain' = [drain EXCEPT ![d].pc = "crawl", ![d].cur = t.id, ![d].due = @ \ {t}]
  <2>1. Crawling(d)' /\ drain'[d].cur = t.id
    BY <1>2, <1>4 DEF Crawling, DrainState, Shape, TypeOK
  <2>2. Held' = [Held EXCEPT ![t.id] = @ \cup {d}]
    BY <1>2, <2>1, HeldJoined
  <2> QED
    BY <1>3, <1>4, <2>2
<1>5. CASE /\ Claim(t.id) \/ row' = row
           /\ drain' = [drain EXCEPT ![d].due = @ \ {t}]
  <2>1. Held' = Held
    BY <1>2, <1>5, HeldKept DEF Crawling, DrainState, Shape, TypeOK
  <2>2. CASE Claim(t.id)
    BY <1>3, <2>1, <2>2 DEF Held
  <2>3. CASE row' = row
    BY <1>2, <2>1, <2>3 DEF LedgerStep, Ledger!ledgerVars, Held
  <2> QED
    BY <1>5, <2>2, <2>3
<1> QED
  BY <1>1, <1>4, <1>5

\* A drain that goes back to its loop has ended its crawl.
LEMMA MarkLeaves ==
    ASSUME Shape, NEW d \in Drains, AfterMark(d), drain[d].pc \in {"mark", "supersede"}
    PROVE  /\ drain[d].cur \in Ids /\ d \in Held[drain[d].cur]
           /\ Held' = [Held EXCEPT ![drain[d].cur] = @ \ {d}]
<1>1. Crawling(d) /\ ~Crawling(d)' /\ OnlyMoved(d)
  BY DEF AfterMark, Crawling, OnlyMoved, Shape, TypeOK, DrainState
<1> QED
  BY <1>1, CrawlingCur, HeldLeft

\* Nothing but the crawl ends: the report found no row, or found no way.
LEMMA LeavingIsLedger ==
    ASSUME Shape, NEW d \in Drains, AfterMark(d), drain[d].pc \in {"mark", "supersede"},
           UNCHANGED <<row, nextId>>
    PROVE  LedgerStep
<1>1. Ledger!Lose(drain[d].cur, d)
  BY MarkLeaves DEF Ledger!Lose, Held
<1> QED
  BY <1>1, MarkLeaves DEF LedgerStep, Ledger!Next, Ledger!Jobs, Ids

\* A recorded outcome is a report by the one who crawled.
LEMMA RecordIsReport ==
    ASSUME Shape, NEW d \in Drains, AfterMark(d), drain[d].pc \in {"mark", "supersede"},
           NEW status \in {"done", "failed", "pending"}, Present(drain[d].cur), nextId' = nextId,
           row' = [row EXCEPT ![drain[d].cur].status = status],
           Once(drain[d].cur) /\ status = "pending" =>
               ~IndexRefuses(drain[d].cur, "once", row[drain[d].cur].scope)
    PROVE  LedgerStep
<1> DEFINE i == drain[d].cur
<1>1. Once(i) /\ status = "pending" => Ledger!Alone(i, row[i].scope)
  BY DEF IndexRefuses, PendingOnce, Once, Ledger!Alone, Ledger!Queued, Ledger!Jobs, Ids
<1>2. Ledger!Report(i, d, status)
  BY <1>1, MarkLeaves DEF Ledger!Report, Held, Once, Present
<1> QED
  BY <1>2, MarkLeaves DEF LedgerStep, Ledger!Next, Ledger!Jobs, Ids

\* The settling UPDATE and what stands in for it.
LEMMA MarkIsReport ==
    ASSUME Shape, NEW d \in Drains, MarkTargetRun(d) \/ Supersede(d)
    PROVE  LedgerStep
<1> DEFINE i == drain[d].cur
           o == drain[d].outcome
<1>1. drain[d].pc \in {"mark", "supersede"} /\ nextId' = nextId /\ Crawling(d)
  BY DEF MarkTargetRun, Supersede, Crawling
<1>2. CASE /\ drain[d].pc = "mark" /\ Present(i) /\ ~Superseded(i, o)
           /\ Record(i, o) /\ AfterMark(d)
  <2>1. Once(i) => row[i].kind = "once"
    BY DEF Once
  <2>2. CASE o = "interrupted"
    <3>1. row' = [row EXCEPT ![i].status = "pending"]
      BY <1>2, <2>2 DEF Record
    <3>2. Once(i) => ~IndexRefuses(i, "once", row[i].scope)
      BY <1>2, <2>1, <2>2 DEF Superseded
    <3> QED
      BY <1>1, <1>2, <3>1, <3>2, RecordIsReport
  <2>3. CASE o = "ok"
    BY <1>1, <1>2, <2>3, RecordIsReport DEF Record
  <2>4. CASE o = "failed"
    BY <1>1, <1>2, <2>4, RecordIsReport DEF Record
  <2> QED
    BY <1>2, <2>2, <2>3, <2>4 DEF Shape, DrainsNameTargets, Outcomes
<1>3. CASE row' = row /\ drain' = [drain EXCEPT ![d].pc = "supersede"]
  <2>1. Held' = Held
    BY <1>1, <1>3, HeldKept DEF OnlyMoved, Crawling, DrainState, Shape, TypeOK
  <2> QED
    BY <1>1, <1>3, <2>1 DEF LedgerStep, Ledger!ledgerVars, Held
<1>4. CASE row' = row /\ AfterMark(d)
  BY <1>1, <1>4, LeavingIsLedger
<1>5. CASE /\ Present(i) /\ AfterMark(d) /\ row' = [row EXCEPT ![i].status = "failed"]
  BY <1>1, <1>5, RecordIsReport
<1> QED
  BY <1>2, <1>3, <1>4, <1>5 DEF MarkTargetRun, Supersede

\* A drain's other steps are nobody's business, but for a removal and a crash.
LEMMA DrainIsLedger ==
    ASSUME Shape, FitInv, NEW d \in Drains, DrainStep(d) \/ FaultStep(d)
    PROVE  LedgerStep
<1>1. CASE LoadDue(d) \/ EndDrain(d) \/ (\E o \in Outcomes : Run(d, o)) \/ ContextDies(d)
  <2>1. Held' = Held
    BY <1>1, HeldKept DEF LoadDue, EndDrain, Run, ContextDies, OnlyMoved, Crawling, DrainState,
                          Shape, TypeOK
  <2>2. row' = row /\ nextId' = nextId
    BY <1>1 DEF LoadDue, EndDrain, Run, ContextDies
  <2> QED
    BY <2>1, <2>2 DEF LedgerStep, Ledger!ledgerVars, Held
<1>2. CASE PruneCrawlTargets(d)
  <2>1. Held' = Held
    BY <1>2, HeldKept DEF PruneCrawlTargets, OnlyMoved, Crawling, IdleDrain, Shape, TypeOK
  <2>2. PICK gone \in SUBSET Ids : Forget(gone)
    BY <1>2 DEF PruneCrawlTargets
  <2>3. Ledger!Withdraw(gone)
    BY <1>2, <2>1, <2>2 DEF PruneCrawlTargets, Forget, Ledger!Withdraw, Ledger!Jobs, Ids, NoRow,
                            Ledger!NoJob, Held
  <2> QED
    BY <2>3 DEF LedgerStep, Ledger!Next, Ledger!Jobs, Ids
<1>3. CASE Crash(d)
  <2>1. OnlyMoved(d) /\ ~Crawling(d)' /\ row' = row /\ nextId' = nextId
    BY <1>3 DEF Crash, OnlyMoved, Crawling, IdleDrain, Shape, TypeOK
  <2>2. CASE Crawling(d)
    <3>1. drain[d].cur \in Ids
      BY <2>2, CrawlingCur
    <3>2. Ledger!Lose(drain[d].cur, d)
      BY <2>1, <2>2, <3>1, HeldLeft DEF Ledger!Lose, Held
    <3> QED
      BY <3>1, <3>2 DEF LedgerStep, Ledger!Next, Ledger!Jobs, Ids
  <2>3. CASE ~Crawling(d)
    <3>1. Held' = Held
      BY <2>1, <2>3, HeldKept
    <3> QED
      BY <2>1, <3>1 DEF LedgerStep, Ledger!ledgerVars, Held
  <2> QED
    BY <2>2, <2>3
<1> QED
  BY <1>1, <1>2, <1>3, StartIsRecover, ClaimIsStart, MarkIsReport DEF DrainStep, FaultStep

\* Every step of the queue is a step of the ledger, or none.
LEMMA NextLedger == Shape /\ FitInv /\ [Next]_vars => [Ledger!Next]_(Ledger!ledgerVars)
<1> SUFFICES ASSUME Shape, FitInv, [Next]_vars PROVE LedgerStep
  BY DEF LedgerStep
<1>1. CASE UNCHANGED <<row, nextId, drain>>
  <2>1. Held' = Held
    BY <1>1 DEF Held, Crawlers
  <2> QED
    BY <1>1, <2>1 DEF LedgerStep, Ledger!ledgerVars, Held
<1>2. ASSUME NEW c \in Clients, ClientStep(c)
      PROVE  LedgerStep
  <2>1. CASE CreateCrawlTarget(c)
    BY <2>1, CreateIsSubmit
  <2>2. CASE ~CreateCrawlTarget(c)
    BY <1>1, <1>2, <2>2 DEF ClientStep, RequestCrawl, SeedCrawlTargets, ReEnable, LockAndMatch
  <2> QED
    BY <2>1, <2>2
<1>3. ASSUME NEW i \in Ids, TimeStep(i)
      PROVE  LedgerStep
  BY <1>1, <1>3 DEF TimeStep, SpacingElapses, ClaimAges
<1> QED
  BY <1>1, <1>2, <1>3, ManageIsLedger, DrainIsLedger DEF Next, vars

\* When no claim turns stale under a live drain the queue implements the ledger:
\* a target is started only when nobody crawls it, its outcome is its crawler's
\* (MarkTargetStarted, MarkTargetRun), and RecoverStaleTargets settles only what
\* lost its crawler.
THEOREM QueueKeepsLedger == ASSUME DrainsFitStaleWindow PROVE Spec => KeepsLedger
<1>1. Spec => [](Shape /\ FitInv)
  BY FitInvariant
<1> QED
  BY <1>1, InitLedger, NextLedger, PTL DEF Spec, KeepsLedger, Ledger!Spec
=============================================================================
