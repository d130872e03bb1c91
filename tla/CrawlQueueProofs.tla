-------------------------- MODULE CrawlQueueProofs --------------------------
(***************************************************************************)
(* What holds of the crawl queue for every number of scopes, drains,       *)
(* clients, targets and faults.  Shape is the inductive form of the type   *)
(* invariant; the exclusivity theorems build on it.                        *)
(***************************************************************************)
EXTENDS CrawlQueue, FiniteSetTheorems, TLAPS

\* The identity column never hands an id out twice.
FreshIds == \A i \in Ids : i >= nextId => ~Present(i)

\* Only a running row can be stale.
StaleRunning == \A i \in stale : row[i].status = "running"

Crawling(d) == drain[d].pc \in {"crawl", "mark", "supersede"}

\* A crawling drain works on a row that once existed, and a finished crawl has
\* an outcome.
DrainsNameTargets ==
    \A d \in Drains : /\ Crawling(d) => drain[d].cur \in 1 .. nextId - 1
                      /\ drain[d].pc = "mark" => drain[d].outcome \in Outcomes

\* A client with a call under way knows the scope it is for.
ReqsNameScopes ==
    \A c \in Clients : /\ req[c].pc # "idle" => req[c].scope \in Scopes
                       /\ req[c].pc = "reenable" => req[c].id \in Ids

Shape == TypeOK /\ FreshIds /\ StaleRunning /\ DrainsNameTargets /\ ReqsNameScopes

-----------------------------------------------------------------------------
\* The empty table and the idle processes have the shape.
LEMMA InitShape == Init => Shape
<1> SUFFICES ASSUME Init PROVE Shape
  OBVIOUS
<1>1. drain \in [Drains -> DrainState]
  BY DEF Init, IdleDrain, DrainState
<1>2. req \in [Clients -> ReqState]
  BY DEF Init, IdleReq, ReqState, Kinds
<1>3. TypeOK
  BY QueueAssumption, <1>1, <1>2 DEF Init, TypeOK
<1>4. FreshIds /\ StaleRunning
  BY DEF Init, FreshIds, StaleRunning, NoRow, Present
<1>5. DrainsNameTargets /\ ReqsNameScopes
  BY DEF Init, DrainsNameTargets, ReqsNameScopes, Crawling, IdleDrain, IdleReq
<1> QED
  BY <1>3, <1>4, <1>5 DEF Shape

\* A drain that crawls names a row of the table's past.
LEMMA CrawlingCur ==
    ASSUME Shape, NEW d \in Drains, Crawling(d)
    PROVE  drain[d].cur \in Ids /\ drain[d].cur < nextId
BY QueueAssumption DEF Shape, TypeOK, DrainsNameTargets, Ids

\* What is present is a row.
LEMMA PresentRow ==
    ASSUME Shape, NEW i \in Ids, Present(i)
    PROVE  row[i] \in Row /\ i < nextId
BY QueueAssumption DEF Shape, TypeOK, FreshIds, Present, Row, NoRow, Ids

\* Every step keeps the shape, action by action.
LEMMA NextShape == Shape /\ [Next]_vars => Shape'
<1> USE DEF Shape
<1> SUFFICES ASSUME Shape, [Next]_vars PROVE Shape'
  OBVIOUS
<1>1. ASSUME NEW c \in Clients, NEW k \in Kinds, NEW s \in Scopes, RequestCrawl(c, k, s)
      PROVE  Shape'
  <2>1. PICK i \in Ids \cup {0}, pc \in {"reenable", "create"} :
            /\ req' = [req EXCEPT ![c] = [pc |-> pc, kind |-> k, scope |-> s, id |-> i]]
            /\ pc = "reenable" => i \in Ids
    BY <1>1 DEF RequestCrawl, StandingOf
  <2>2. req' \in [Clients -> ReqState]
    BY <2>1 DEF TypeOK, ReqState
  <2>3. ReqsNameScopes'
    BY <2>1 DEF TypeOK, ReqsNameScopes
  <2> QED
    BY <1>1, <2>1, <2>2, <2>3
       DEF RequestCrawl, unfaulty, TypeOK, FreshIds, StaleRunning, DrainsNameTargets,
           ReqsNameScopes, Crawling, Present
<1>2. ASSUME NEW c \in Clients, NEW s \in Scopes, SeedCrawlTargets(c, s)
      PROVE  Shape'
  <2>1. req' \in [Clients -> ReqState] /\ ReqsNameScopes'
    BY <1>2 DEF SeedCrawlTargets, TypeOK, ReqState, Kinds, ReqsNameScopes
  <2> QED
    BY <1>2, <2>1
       DEF SeedCrawlTargets, unfaulty, TypeOK, FreshIds, StaleRunning,
           DrainsNameTargets, ReqsNameScopes, Crawling, Present
<1>3. ASSUME NEW c \in Clients, ReEnable(c)
      PROVE  Shape'
  <2>1. enabled' \subseteq Ids
    BY <1>3 DEF ReEnable, TypeOK, ReqsNameScopes
  <2>2. req' \in [Clients -> ReqState] /\ ReqsNameScopes'
    BY <1>3 DEF ReEnable, IdleReq, TypeOK, ReqState, Kinds, ReqsNameScopes
  <2> QED
    BY <1>3, <2>1, <2>2
       DEF ReEnable, unfaulty, TypeOK, FreshIds, StaleRunning, DrainsNameTargets,
           ReqsNameScopes, Crawling, Present
<1>4. ASSUME NEW c \in Clients, LockAndMatch(c)
      PROVE  Shape'
  <2>1. req' \in [Clients -> ReqState] /\ ReqsNameScopes'
    BY <1>4 DEF LockAndMatch, IdleReq, TypeOK, ReqState, Kinds, ReqsNameScopes
  <2> QED
    BY <1>4, <2>1
       DEF LockAndMatch, unfaulty, TypeOK, FreshIds, StaleRunning, DrainsNameTargets,
           ReqsNameScopes, Crawling, Present
<1>5. ASSUME NEW c \in Clients, CreateCrawlTarget(c)
      PROVE  Shape'
  <2>1. req' \in [Clients -> ReqState] /\ ReqsNameScopes'
    BY <1>5 DEF CreateCrawlTarget, IdleReq, TypeOK, ReqState, Kinds, ReqsNameScopes
  <2>2. CASE UNCHANGED <<row, enabled, nextId>>
    BY <1>5, <2>1, <2>2 DEF CreateCrawlTarget, unfaulty, TypeOK, FreshIds,
       StaleRunning, DrainsNameTargets, ReqsNameScopes, Crawling, Present
  <2>3. CASE ~UNCHANGED <<row, enabled, nextId>>
    <3> DEFINE r == [kind |-> req[c].kind, scope |-> req[c].scope, status |-> "pending"]
    <3>1. /\ nextId \in Ids
          /\ row' = [row EXCEPT ![nextId] = r]
          /\ enabled' = enabled \cup {nextId}
          /\ nextId' = nextId + 1
      BY <1>5, <2>3, QueueAssumption DEF CreateCrawlTarget, IdLeft, TypeOK, Ids
    <3>2. r \in Row
      BY <1>5 DEF CreateCrawlTarget, TypeOK, ReqState, ReqsNameScopes, Row, Statuses
    <3>3. row' \in [Ids -> Row \cup {NoRow}] /\ enabled' \subseteq Ids
      BY <3>1, <3>2 DEF TypeOK
    <3>4. nextId' \in 1 .. MaxTargets + 1
      BY <3>1, QueueAssumption DEF Ids
    <3>5. FreshIds'
      BY <3>1, QueueAssumption DEF FreshIds, Present, TypeOK, Ids
    <3>6. StaleRunning'
      <4>1. nextId \notin stale
        <5>1. row[nextId] \in Row \cup {NoRow} /\ row[nextId].kind = "absent"
          BY <3>1, QueueAssumption DEF FreshIds, Present, TypeOK
        <5>2. row[nextId].status = "done"
          BY <5>1 DEF Row, Kinds, NoRow
        <5> QED
          BY <5>2 DEF StaleRunning
      <4> QED
        BY <1>5, <3>1, <4>1 DEF CreateCrawlTarget, StaleRunning, TypeOK
    <3>7. DrainsNameTargets'
      BY <1>5, <3>1, QueueAssumption DEF CreateCrawlTarget, DrainsNameTargets,
         Crawling, TypeOK
    <3> QED
      BY <1>5, <2>1, <3>3, <3>4, <3>5, <3>6, <3>7 DEF CreateCrawlTarget, TypeOK, unfaulty
  <2> QED
    BY <1>5, <2>1, <2>2, <2>3
       DEF CreateCrawlTarget, unfaulty, TypeOK, FreshIds, StaleRunning,
           DrainsNameTargets, ReqsNameScopes, Crawling, Present
<1>6. ASSUME NEW i \in Ids, NEW on \in BOOLEAN, SetCrawlTargetEnabled(i, on)
      PROVE  Shape'
  <2>1. enabled' \subseteq Ids
    BY <1>6 DEF SetCrawlTargetEnabled, TypeOK
  <2> QED
    BY <1>6, <2>1
       DEF SetCrawlTargetEnabled, unfaulty, TypeOK, FreshIds, StaleRunning,
           DrainsNameTargets, ReqsNameScopes, Crawling, Present
<1>7. ASSUME NEW i \in Ids, PromoteCrawlTargetToStanding(i)
      PROVE  Shape'
  <2>1. row[i] \in Row
    BY <1>7, PresentRow DEF PromoteCrawlTargetToStanding, Once, Present
  <2>2. row' \in [Ids -> Row \cup {NoRow}] /\ enabled' \subseteq Ids
    BY <1>7, <2>1 DEF PromoteCrawlTargetToStanding, TypeOK, Row, Kinds
  <2>3. FreshIds' /\ StaleRunning'
    BY <1>7, <2>1, PresentRow DEF PromoteCrawlTargetToStanding, FreshIds, StaleRunning,
       TypeOK, Present, Once, Row
  <2> QED
    BY <1>7, <2>1, <2>2, <2>3
       DEF PromoteCrawlTargetToStanding, unfaulty, TypeOK, FreshIds, StaleRunning,
           DrainsNameTargets, ReqsNameScopes, Crawling, Present
<1>8. ASSUME NEW i \in Ids, DeleteCrawlTarget(i)
      PROVE  Shape'
  <2>1. row' \in [Ids -> Row \cup {NoRow}]
    BY <1>8 DEF DeleteCrawlTarget, Forget, TypeOK
  <2>2. enabled' \subseteq Ids /\ recent' \subseteq Ids /\ stale' \subseteq Ids
    BY <1>8 DEF DeleteCrawlTarget, Forget, TypeOK
  <2>3. FreshIds' /\ StaleRunning'
    BY <1>8 DEF DeleteCrawlTarget, Forget, FreshIds, StaleRunning, TypeOK, Present, NoRow
  <2> QED
    BY <1>8, <2>1, <2>2, <2>3
       DEF DeleteCrawlTarget, unfaulty, TypeOK, FreshIds, StaleRunning,
           DrainsNameTargets, ReqsNameScopes, Crawling, Present
<1>9. CASE ResetTasteState
  <2>1. row' \in [Ids -> Row \cup {NoRow}]
    BY <1>9 DEF ResetTasteState, Forget, TypeOK
  <2>2. enabled' \subseteq Ids /\ recent' \subseteq Ids /\ stale' \subseteq Ids
    BY <1>9 DEF ResetTasteState, Forget, TypeOK
  <2>3. FreshIds' /\ StaleRunning'
    BY <1>9 DEF ResetTasteState, Forget, FreshIds, StaleRunning, TypeOK, Present, NoRow
  <2> QED
    BY <1>9, <2>1, <2>2, <2>3
       DEF ResetTasteState, unfaulty, TypeOK, FreshIds, StaleRunning,
           DrainsNameTargets, ReqsNameScopes, Crawling, Present
<1>10. ASSUME NEW d \in Drains, StartDrain(d)
       PROVE  Shape'
  <2>1. drain' \in [Drains -> DrainState] /\ DrainsNameTargets'
    BY <1>10 DEF StartDrain, TypeOK, DrainState, DrainsNameTargets, Crawling
  <2>2. faults' \in 0 .. MaxFaults /\ losses' \in 0 .. faults'
    BY <1>10, QueueAssumption DEF StartDrain, Loss, Fault, unfaulty, TypeOK
  <2>3. CASE UNCHANGED <<row, stale>>
    BY <1>10, <2>1, <2>2, <2>3 DEF StartDrain, unfaulty, TypeOK, FreshIds,
       StaleRunning, DrainsNameTargets, ReqsNameScopes, Crawling, Present
  <2>4. CASE RecoverStaleTargets
    <3>1. ASSUME NEW i \in stale
          PROVE  row[i] \in Row /\ row'[i] \in Row
      <4>1. i \in Ids /\ row[i] \in Row \cup {NoRow} /\ row[i].status = "running"
        BY DEF TypeOK, StaleRunning
      <4>2. row[i] \in Row
        BY <4>1 DEF NoRow
      <4> QED
        BY <2>4, <4>1, <4>2 DEF RecoverStaleTargets, Row, Statuses
    <3>2. row' \in [Ids -> Row \cup {NoRow}]
      BY <2>4, <3>1 DEF RecoverStaleTargets, TypeOK
    <3>3. FreshIds' /\ StaleRunning' /\ stale' \subseteq Ids
      BY <1>10, <2>4, <3>1, PresentRow
         DEF StartDrain, RecoverStaleTargets, FreshIds, StaleRunning, TypeOK, Present, Row
    <3> QED
      BY <1>10, <2>1, <2>2, <3>2, <3>3 DEF StartDrain, TypeOK, ReqsNameScopes
  <2> QED
    BY <1>10, <2>1, <2>2, <2>3, <2>4
       DEF StartDrain, Fault, Loss, unfaulty, TypeOK, FreshIds, StaleRunning,
           DrainsNameTargets, ReqsNameScopes, Crawling, Present
<1>11. ASSUME NEW d \in Drains, LoadDue(d)
       PROVE  Shape'
  <2>1. DueCrawlTargets \subseteq DueEntry
    BY DEF DueCrawlTargets, DueEntry, IsDue, Standing, Once, PendingOnce, Kinds
  <2>2. drain' \in [Drains -> DrainState] /\ DrainsNameTargets'
    BY <1>11, <2>1 DEF LoadDue, TypeOK, DrainState, DrainsNameTargets, Crawling
  <2>3. faults' \in 0 .. MaxFaults /\ losses' \in 0 .. faults'
    BY <1>11, QueueAssumption DEF LoadDue, Loss, Fault, unfaulty, TypeOK
  <2> QED
    BY <1>11, <2>1, <2>2, <2>3
       DEF LoadDue, unfaulty, TypeOK, FreshIds, StaleRunning, DrainsNameTargets,
           ReqsNameScopes, Crawling, Present
<1>12. ASSUME NEW d \in Drains, EndDrain(d)
       PROVE  Shape'
  <2>1. [drain[d] EXCEPT !.pc = "prune", !.due = {}] \in DrainState
    BY DEF TypeOK, DrainState
  <2>2. drain' \in [Drains -> DrainState]
    BY <1>12, <2>1 DEF EndDrain, TypeOK
  <2>3. DrainsNameTargets'
    BY <1>12 DEF EndDrain, TypeOK, DrainState, DrainsNameTargets, Crawling
  <2> QED
    BY <1>12, <2>1, <2>2, <2>3
       DEF EndDrain, unfaulty, TypeOK, FreshIds, StaleRunning, DrainsNameTargets,
           ReqsNameScopes, Crawling, Present
<1>13. ASSUME NEW d \in Drains, MarkTargetStarted(d)
       PROVE  Shape'
  <2>1. PICK t \in drain[d].due :
            \/ Claim(t.id) /\ drain' = [drain EXCEPT ![d].pc = "crawl", ![d].cur = t.id,
                                                      ![d].due = @ \ {t}]
            \/ /\ Claim(t.id) \/ UNCHANGED <<row, recent, stale>>
               /\ drain' = [drain EXCEPT ![d].due = @ \ {t}]
    BY <1>13 DEF MarkTargetStarted
  <2>2. t.id \in Ids
    BY DEF TypeOK, DrainState, DueEntry
  <2>3. Claim(t.id) => row[t.id] \in Row /\ t.id < nextId
    BY <2>2, PresentRow DEF Claim, Claimable, PendingOnce, Once, Standing, Present
  <2>4. drain' \in [Drains -> DrainState]
    BY <2>1, <2>2 DEF TypeOK, DrainState
  <2>5. DrainsNameTargets'
    <3>1. CASE Claim(t.id) /\ drain' = [drain EXCEPT ![d].pc = "crawl", ![d].cur = t.id,
                                                       ![d].due = drain[d].due \ {t}]
      <4>1. t.id \in 1 .. nextId - 1
        BY <2>2, <2>3, <3>1, QueueAssumption DEF TypeOK, Ids
      <4> QED
        BY <1>13, <3>1, <4>1 DEF MarkTargetStarted, DrainsNameTargets, Crawling, TypeOK
    <3>2. CASE drain' = [drain EXCEPT ![d].due = drain[d].due \ {t}]
      BY <1>13, <3>2 DEF MarkTargetStarted, DrainsNameTargets, Crawling, TypeOK
    <3> QED
      BY <2>1, <3>1, <3>2
  <2>6. faults' \in 0 .. MaxFaults /\ losses' \in 0 .. faults'
    BY <1>13, QueueAssumption DEF MarkTargetStarted, Loss, Fault, unfaulty, TypeOK
  <2>7. CASE UNCHANGED <<row, recent, stale>>
    BY <1>13, <2>4, <2>5, <2>6, <2>7 DEF MarkTargetStarted, TypeOK, FreshIds,
       StaleRunning, ReqsNameScopes, Present
  <2>8. CASE Claim(t.id)
    <3>1. row' \in [Ids -> Row \cup {NoRow}] /\ recent' \subseteq Ids /\ stale' \subseteq Ids
      BY <2>2, <2>3, <2>8 DEF Claim, TypeOK, RanNow, Row, Statuses
    <3>2. FreshIds' /\ StaleRunning'
      BY <1>13, <2>2, <2>3, <2>8 DEF MarkTargetStarted, Claim, FreshIds, StaleRunning,
         TypeOK, Present, Row
    <3> QED
      BY <1>13, <2>4, <2>5, <2>6, <3>1, <3>2 DEF MarkTargetStarted, TypeOK, ReqsNameScopes
  <2> QED
    BY <1>13, <2>1, <2>2, <2>3, <2>4, <2>5, <2>6, <2>7, <2>8
       DEF MarkTargetStarted, unfaulty, TypeOK, FreshIds, StaleRunning,
           DrainsNameTargets, ReqsNameScopes, Crawling, Present
<1>14. ASSUME NEW d \in Drains, NEW o \in Outcomes, Run(d, o)
       PROVE  Shape'
  <2>1. [drain[d] EXCEPT !.pc = "mark", !.outcome = o] \in DrainState
    BY DEF TypeOK, DrainState
  <2>2. drain' \in [Drains -> DrainState]
    BY <1>14, <2>1 DEF Run, TypeOK
  <2>3. DrainsNameTargets'
    BY <1>14 DEF Run, TypeOK, DrainState, DrainsNameTargets, Crawling
  <2>4. faults' \in 0 .. MaxFaults /\ losses' \in 0 .. faults'
    BY <1>14, QueueAssumption DEF Run, Fault, unfaulty, TypeOK
  <2> QED
    BY <1>14, <2>1, <2>2, <2>3, <2>4
       DEF Run, unfaulty, TypeOK, FreshIds, StaleRunning, DrainsNameTargets,
           ReqsNameScopes, Crawling, Present
<1>15. ASSUME NEW d \in Drains, MarkTargetRun(d)
       PROVE  Shape'
  <2>1. drain[d].cur \in Ids /\ drain[d].outcome \in Outcomes
    BY <1>15, CrawlingCur DEF MarkTargetRun, DrainsNameTargets, Crawling
  <2>2. AfterMark(d) \/ drain' = [drain EXCEPT ![d].pc = "supersede"]
    BY <1>15 DEF MarkTargetRun
  <2>3. drain' \in [Drains -> DrainState]
    BY <2>2 DEF AfterMark, TypeOK, DrainState
  <2>4. DrainsNameTargets'
    BY <1>15, <2>2 DEF MarkTargetRun, AfterMark, TypeOK, DrainState, DrainsNameTargets,
       Crawling
  <2>5. faults' \in 0 .. MaxFaults /\ losses' \in 0 .. faults'
    BY <1>15, QueueAssumption DEF MarkTargetRun, Loss, Fault, unfaulty, TypeOK
  <2>6. CASE UNCHANGED <<row, recent, stale>>
    BY <1>15, <2>3, <2>4, <2>5, <2>6 DEF MarkTargetRun, TypeOK, FreshIds, StaleRunning,
       ReqsNameScopes, Present
  <2>7. CASE Present(drain[d].cur) /\ Record(drain[d].cur, drain[d].outcome)
    <3>1. row[drain[d].cur] \in Row /\ drain[d].cur < nextId
      BY <2>1, <2>7, PresentRow
    <3>2. row' \in [Ids -> Row \cup {NoRow}] /\ recent' \subseteq Ids /\ stale' \subseteq Ids
      BY <2>1, <2>7, <3>1 DEF Record, TypeOK, RanNow, Row, Statuses, Outcomes
    <3>3. FreshIds' /\ StaleRunning'
      BY <1>15, <2>1, <2>7, <3>1 DEF MarkTargetRun, Record, FreshIds, StaleRunning,
         TypeOK, Present, Row
    <3> QED
      BY <1>15, <2>3, <2>4, <2>5, <3>2, <3>3 DEF MarkTargetRun, TypeOK, ReqsNameScopes
  <2> QED
    BY <1>15, <2>1, <2>2, <2>3, <2>4, <2>5, <2>6, <2>7
       DEF MarkTargetRun, unfaulty, TypeOK, FreshIds, StaleRunning, DrainsNameTargets,
           ReqsNameScopes, Crawling, Present
<1>16. ASSUME NEW d \in Drains, Supersede(d)
       PROVE  Shape'
  <2>1. drain[d].cur \in Ids
    BY <1>16, CrawlingCur DEF Supersede, Crawling
  <2>2. drain' \in [Drains -> DrainState]
    <3>1. [drain[d] EXCEPT !.pc = "loop", !.cur = 0, !.outcome = "none"] \in DrainState
      BY DEF TypeOK, DrainState
    <3> QED
      BY <1>16, <3>1 DEF Supersede, AfterMark, TypeOK
  <2>3. DrainsNameTargets'
    BY <1>16 DEF Supersede, AfterMark, TypeOK, DrainState, DrainsNameTargets, Crawling
  <2>4. faults' \in 0 .. MaxFaults /\ losses' \in 0 .. faults'
    BY <1>16, QueueAssumption DEF Supersede, Loss, Fault, unfaulty, TypeOK
  <2>5. CASE UNCHANGED <<row, stale>>
    BY <1>16, <2>2, <2>3, <2>4, <2>5 DEF Supersede, TypeOK, FreshIds, StaleRunning,
       ReqsNameScopes, Present
  <2>6. CASE Present(drain[d].cur) /\ ~UNCHANGED <<row, stale>>
    <3>1. row[drain[d].cur] \in Row /\ drain[d].cur < nextId
      BY <2>1, <2>6, PresentRow
    <3>2. row' \in [Ids -> Row \cup {NoRow}] /\ stale' \subseteq Ids
      BY <1>16, <2>1, <2>6, <3>1 DEF Supersede, TypeOK, Row, Statuses
    <3>3. FreshIds' /\ StaleRunning'
      BY <1>16, <2>1, <2>6, <3>1 DEF Supersede, FreshIds, StaleRunning, TypeOK,
         Present, Row
    <3> QED
      BY <1>16, <2>2, <2>3, <2>4, <3>2, <3>3 DEF Supersede, TypeOK, ReqsNameScopes
  <2> QED
    BY <1>16, <2>1, <2>2, <2>3, <2>4, <2>5, <2>6
       DEF Supersede, unfaulty, TypeOK, FreshIds, StaleRunning, DrainsNameTargets,
           ReqsNameScopes, Crawling, Present
<1>17. ASSUME NEW d \in Drains, PruneCrawlTargets(d)
       PROVE  Shape'
  <2>1. PICK gone \in SUBSET Ids : Forget(gone)
    BY <1>17 DEF PruneCrawlTargets
  <2>2. row' \in [Ids -> Row \cup {NoRow}]
    BY <2>1 DEF Forget, TypeOK
  <2>3. enabled' \subseteq Ids /\ recent' \subseteq Ids /\ stale' \subseteq Ids
    BY <2>1 DEF Forget, TypeOK
  <2>4. drain' \in [Drains -> DrainState] /\ DrainsNameTargets'
    BY <1>17 DEF PruneCrawlTargets, IdleDrain, TypeOK, DrainState, DrainsNameTargets,
       Crawling
  <2>5. FreshIds' /\ StaleRunning'
    BY <1>17, <2>1 DEF PruneCrawlTargets, Forget, FreshIds, StaleRunning, TypeOK,
       Present, NoRow
  <2> QED
    BY <1>17, <2>1, <2>2, <2>3, <2>4, <2>5
       DEF PruneCrawlTargets, unfaulty, TypeOK, FreshIds, StaleRunning,
           DrainsNameTargets, ReqsNameScopes, Crawling, Present
<1>18. ASSUME NEW d \in Drains, ContextDies(d)
       PROVE  Shape'
  <2>1. drain' \in [Drains -> DrainState] /\ DrainsNameTargets'
    BY <1>18 DEF ContextDies, TypeOK, DrainState, DrainsNameTargets, Crawling
  <2>2. faults' \in 0 .. MaxFaults /\ losses' \in 0 .. faults'
    BY <1>18, QueueAssumption DEF ContextDies, Fault, TypeOK
  <2> QED
    BY <1>18, <2>1, <2>2
       DEF ContextDies, TypeOK, FreshIds, StaleRunning, DrainsNameTargets,
           ReqsNameScopes, Crawling, Present
<1>19. ASSUME NEW d \in Drains, Crash(d)
       PROVE  Shape'
  <2>1. drain' \in [Drains -> DrainState] /\ DrainsNameTargets'
    BY <1>19 DEF Crash, IdleDrain, TypeOK, DrainState, DrainsNameTargets, Crawling
  <2>2. faults' \in 0 .. MaxFaults /\ losses' \in 0 .. faults'
    BY <1>19, QueueAssumption DEF Crash, Loss, Fault, TypeOK
  <2> QED
    BY <1>19, <2>1, <2>2
       DEF Crash, TypeOK, FreshIds, StaleRunning, DrainsNameTargets, ReqsNameScopes,
           Crawling, Present
<1>20. ASSUME NEW i \in Ids, SpacingElapses(i)
       PROVE  Shape'
  BY <1>20 DEF SpacingElapses, unfaulty,
     TypeOK, FreshIds, StaleRunning, DrainsNameTargets, ReqsNameScopes, Crawling, Present
<1>21. ASSUME NEW i \in Ids, ClaimAges(i)
       PROVE  Shape'
  BY <1>21 DEF ClaimAges, unfaulty,
     TypeOK, FreshIds, StaleRunning, DrainsNameTargets, ReqsNameScopes, Crawling, Present
<1>22. CASE UNCHANGED vars
  BY <1>22 DEF vars,
     TypeOK, FreshIds, StaleRunning, DrainsNameTargets, ReqsNameScopes, Crawling, Present
<1> QED
  BY <1>1, <1>2, <1>3, <1>4, <1>5, <1>6, <1>7, <1>8, <1>9, <1>10, <1>11, <1>12, <1>13,
     <1>14, <1>15, <1>16, <1>17, <1>18, <1>19, <1>20, <1>21, <1>22
     DEF Next, ClientStep, ManageStep, DrainStep, FaultStep, TimeStep

\* Every reachable state is well typed: the claiming and settling statements
\* (MarkTargetStarted, MarkTargetRun) write only the four statuses the table's
\* CHECK allows, and no drain or client is left in a state its code has not.
THEOREM TypeCorrect == Spec => []TypeOK
<1>1. Spec => []Shape
  BY InitShape, NextShape, PTL DEF Spec
<1>2. Shape => TypeOK
  BY DEF Shape
<1> QED
  BY <1>1, <1>2, PTL

-----------------------------------------------------------------------------
(* Safety.  Two lemmas say everything a step can do to one row and to the   *)
(* drains that crawl it; each property is then an induction over those few   *)
(* effects.                                                                *)

\* What each kind of step leaves alone.
LEMMA ClientFrame ==
    ASSUME NEW c \in Clients, ClientStep(c)
    PROVE  /\ UNCHANGED <<recent, stale, drain, faults, losses>>
           /\ row' = row \/ CreateCrawlTarget(c)
BY DEF ClientStep, RequestCrawl, SeedCrawlTargets, ReEnable, LockAndMatch, CreateCrawlTarget,
       unfaulty

\* The management calls touch rows and their flags, never a process.
LEMMA ManageFrame ==
    ASSUME ManageStep
    PROVE  /\ UNCHANGED <<nextId, drain, req, faults, losses>>
           /\ \/ row' = row /\ stale' = stale
              \/ \E i \in Ids : PromoteCrawlTargetToStanding(i) /\ stale' = stale
              \/ \E gone \in SUBSET Ids : Forget(gone)
<1>1. CASE \E i \in Ids, on \in BOOLEAN : SetCrawlTargetEnabled(i, on)
  BY <1>1 DEF SetCrawlTargetEnabled, unfaulty
<1>2. CASE \E i \in Ids : PromoteCrawlTargetToStanding(i)
  BY <1>2 DEF PromoteCrawlTargetToStanding, unfaulty
<1>3. CASE \E i \in Ids : DeleteCrawlTarget(i)
  <2>1. PICK i \in Ids : DeleteCrawlTarget(i)
    BY <1>3
  <2>2. {i} \in SUBSET Ids /\ Forget({i})
    BY <2>1 DEF DeleteCrawlTarget
  <2> QED
    BY <2>1, <2>2 DEF DeleteCrawlTarget, unfaulty
<1>4. CASE ResetTasteState
  BY <1>4 DEF ResetTasteState, unfaulty
<1> QED
  BY <1>1, <1>2, <1>3, <1>4 DEF ManageStep

\* A drain moves its own control state, never a client's or another drain's.
LEMMA DrainFrame ==
    ASSUME NEW d \in Drains, DrainStep(d) \/ FaultStep(d)
    PROVE  req' = req
BY DEF DrainStep, FaultStep, StartDrain, LoadDue, EndDrain, MarkTargetStarted, Run,
       MarkTargetRun, Supersede, PruneCrawlTargets, ContextDies, Crash

\* Time moves the two clocks alone.
LEMMA TimeFrame ==
    ASSUME NEW i \in Ids, TimeStep(i)
    PROVE  /\ UNCHANGED <<row, drain, req, faults, losses>>
           /\ stale' = stale \/ ClaimAges(i)
BY DEF TimeStep, SpacingElapses, ClaimAges, unfaulty

-----------------------------------------------------------------------------
\* What a step can do to row i other than nothing.
Inserted(i) ==
    \E c \in Clients :
        /\ req[c].pc = "insert"
        /\ ~Present(i) /\ i = nextId
        /\ ~IndexRefuses(i, req[c].kind, req[c].scope)
        /\ row' = [row EXCEPT ![i] = [kind |-> req[c].kind, scope |-> req[c].scope,
                                      status |-> "pending"]]
        /\ req' = [req EXCEPT ![c] = IdleReq]
Promoted(i) == "promote" \in Calls /\ Once(i) /\ row' = [row EXCEPT ![i].kind = "standing"]
Recovered(i) ==
    /\ i \in stale
    /\ row'[i] = [row[i] EXCEPT !.status = IF Once(i) THEN "failed" ELSE "pending"]
Recorded(i) ==
    \E d \in Crawlers(i) : /\ Present(i) /\ drain[d].pc = "mark"
                           /\ ~Superseded(i, drain[d].outcome)
                           /\ Record(i, drain[d].outcome)
                           /\ AfterMark(d)
FailedAsSuperseded(i) ==
    \E d \in Crawlers(i) : /\ Present(i)
                           /\ row' = [row EXCEPT ![i].status = "failed"]
                           /\ stale' = stale \ {i}
                           /\ AfterMark(d)

RowEffect(i) ==
    \/ row'[i] = row[i]
    \/ row'[i] = NoRow
    \/ Inserted(i)
    \/ Promoted(i)
    \/ Recovered(i)
    \/ Claim(i)
    \/ Recorded(i)
    \/ FailedAsSuperseded(i)

LEMMA RowStep ==
    ASSUME Shape, [Next]_vars, NEW i \in Ids
    PROVE  RowEffect(i)
<1> SUFFICES ASSUME row' # row PROVE RowEffect(i)
  BY DEF RowEffect
<1>1. ASSUME NEW c \in Clients, CreateCrawlTarget(c)
      PROVE  RowEffect(i)
  <2> DEFINE r == [kind |-> req[c].kind, scope |-> req[c].scope, status |-> "pending"]
  <2>1. /\ row' = [row EXCEPT ![nextId] = r]
        /\ ~IndexRefuses(nextId, req[c].kind, req[c].scope)
        /\ req[c].pc = "insert" /\ req' = [req EXCEPT ![c] = IdleReq]
    BY <1>1 DEF CreateCrawlTarget
  <2>2. i = nextId => ~Present(i)
    BY QueueAssumption DEF Shape, FreshIds, Ids
  <2>3. CASE i = nextId
    BY <2>1, <2>2, <2>3 DEF RowEffect, Inserted
  <2>4. CASE i # nextId
    BY <2>1, <2>4 DEF RowEffect, Shape, TypeOK
  <2> QED
    BY <2>3, <2>4
<1>2. ASSUME NEW j \in Ids, PromoteCrawlTargetToStanding(j)
      PROVE  RowEffect(i)
  BY <1>2 DEF PromoteCrawlTargetToStanding, RowEffect, Promoted, Shape, TypeOK
<1>3. ASSUME NEW gone \in SUBSET Ids, Forget(gone)
      PROVE  RowEffect(i)
  BY <1>3 DEF Forget, RowEffect
<1>4. ASSUME NEW d \in Drains, StartDrain(d)
      PROVE  RowEffect(i)
  BY <1>4 DEF StartDrain, RecoverStaleTargets, RowEffect, Recovered
<1>5. ASSUME NEW d \in Drains, MarkTargetStarted(d)
      PROVE  RowEffect(i)
  <2>1. PICK j \in Ids : Claim(j)
    BY <1>5 DEF MarkTargetStarted, Shape, TypeOK, DrainState, DueEntry
  <2> QED
    BY <2>1 DEF Claim, RowEffect, Shape, TypeOK
<1>6. ASSUME NEW d \in Drains, MarkTargetRun(d)
      PROVE  RowEffect(i)
  <2>1. d \in Crawlers(drain[d].cur)
    BY <1>6 DEF MarkTargetRun, Crawlers
  <2>2. /\ Present(drain[d].cur) /\ drain[d].pc = "mark"
        /\ ~Superseded(drain[d].cur, drain[d].outcome)
        /\ Record(drain[d].cur, drain[d].outcome) /\ AfterMark(d)
    BY <1>6 DEF MarkTargetRun
  <2> QED
    BY <2>1, <2>2 DEF Record, RowEffect, Recorded, Shape, TypeOK
<1>7. ASSUME NEW d \in Drains, Supersede(d)
      PROVE  RowEffect(i)
  <2>1. d \in Crawlers(drain[d].cur)
    BY <1>7 DEF Supersede, Crawlers
  <2>2. /\ Present(drain[d].cur) /\ AfterMark(d)
        /\ row' = [row EXCEPT ![drain[d].cur].status = "failed"]
        /\ stale' = stale \ {drain[d].cur}
    BY <1>7 DEF Supersede
  <2> QED
    BY <2>1, <2>2 DEF RowEffect, FailedAsSuperseded, Shape, TypeOK
<1>8. ASSUME NEW d \in Drains, PruneCrawlTargets(d)
      PROVE  RowEffect(i)
  BY <1>3, <1>8 DEF PruneCrawlTargets
<1>9. ASSUME NEW d \in Drains, DrainStep(d) \/ FaultStep(d)
      PROVE  RowEffect(i)
  BY <1>4, <1>5, <1>6, <1>7, <1>8, <1>9
     DEF DrainStep, FaultStep, LoadDue, EndDrain, Run, ContextDies, Crash
<1> QED
  BY <1>1, <1>2, <1>3, <1>9, ClientFrame, ManageFrame, TimeFrame DEF Next, vars

\* A drain joins the crawlers of a row only by claiming it.
LEMMA CrawlersStep ==
    ASSUME Shape, [Next]_vars, NEW i \in Ids
    PROVE  \/ Crawlers(i)' \subseteq Crawlers(i)
           \/ Claim(i) /\ \E d \in Drains : Crawlers(i)' \subseteq Crawlers(i) \cup {d}
<1> DEFINE Goal == \/ Crawlers(i)' \subseteq Crawlers(i)
                   \/ Claim(i) /\ \E d \in Drains : Crawlers(i)' \subseteq Crawlers(i) \cup {d}
<1> SUFFICES ASSUME drain' # drain PROVE Goal
  BY DEF Crawlers
<1>1. ASSUME NEW d \in Drains, MarkTargetStarted(d)
      PROVE  Goal
  <2>1. PICK t \in drain[d].due :
            \/ Claim(t.id) /\ drain' = [drain EXCEPT ![d].pc = "crawl", ![d].cur = t.id,
                                                      ![d].due = @ \ {t}]
            \/ drain' = [drain EXCEPT ![d].due = @ \ {t}]
    BY <1>1 DEF MarkTargetStarted
  <2>2. CASE drain' = [drain EXCEPT ![d].due = @ \ {t}]
    BY <2>2 DEF Crawlers, Shape, TypeOK, DrainState
  <2>3. CASE Claim(t.id) /\ drain' = [drain EXCEPT ![d].pc = "crawl", ![d].cur = t.id,
                                                      ![d].due = @ \ {t}]
    <3>1. \A e \in Drains : e # d => drain'[e] = drain[e]
      BY <2>3 DEF Shape, TypeOK
    <3>2. drain'[d].cur = t.id
      BY <2>3 DEF Shape, TypeOK, DrainState
    <3>3. Crawlers(i)' \subseteq Crawlers(i) \cup {d}
      BY <3>1 DEF Crawlers
    <3>4. i # t.id => Crawlers(i)' \subseteq Crawlers(i)
      BY <3>1, <3>2 DEF Crawlers
    <3> QED
      BY <2>3, <3>3, <3>4
  <2> QED
    BY <2>1, <2>2, <2>3
<1>2. ASSUME NEW d \in Drains, NEW o \in Outcomes, Run(d, o)
      PROVE  Goal
  BY <1>2 DEF Run, Crawlers, Shape, TypeOK, DrainState
<1>3. ASSUME NEW d \in Drains, MarkTargetRun(d) \/ Supersede(d)
      PROVE  Goal
  BY <1>3 DEF MarkTargetRun, Supersede, AfterMark, Crawlers, Shape, TypeOK, DrainState
<1>4. ASSUME NEW d \in Drains, StartDrain(d) \/ LoadDue(d) \/ EndDrain(d) \/ ContextDies(d)
      PROVE  Goal
  BY <1>4 DEF StartDrain, LoadDue, EndDrain, ContextDies, Crawlers, Shape, TypeOK, DrainState
<1>5. ASSUME NEW d \in Drains, PruneCrawlTargets(d) \/ Crash(d)
      PROVE  Goal
  BY <1>5 DEF PruneCrawlTargets, Crash, IdleDrain, Crawlers, Shape, TypeOK, DrainState
<1>6. ASSUME NEW d \in Drains, DrainStep(d) \/ FaultStep(d)
      PROVE  Goal
  BY <1>1, <1>2, <1>3, <1>4, <1>5, <1>6 DEF DrainStep, FaultStep
<1> QED
  BY <1>6, ClientFrame, ManageFrame, TimeFrame DEF Next, vars

\* A drain that recorded an outcome crawls no longer.
LEMMA MarkedLeaves ==
    ASSUME Shape, NEW i \in Ids, NEW d \in Drains, AfterMark(d)
    PROVE  d \notin Crawlers(i)'
BY DEF AfterMark, Crawlers, Shape, TypeOK, DrainState

\* Nothing crawls a row that was never there.
LEMMA NobodyCrawlsNextId ==
    ASSUME Shape, nextId \in Ids
    PROVE  Crawlers(nextId) = {}
BY QueueAssumption, CrawlingCur DEF Crawlers, Crawling, Ids

\* How the recording statements leave the row's status.
LEMMA RecordedStatus ==
    ASSUME Shape, NEW i \in Ids, NEW o, Record(i, o)
    PROVE  /\ row'[i] = [row[i] EXCEPT !.status = row'[i].status]
           /\ row'[i].status \in {"done", "failed", "pending"}
           /\ row'[i].status = "pending" => o \notin {"ok", "failed"}
           /\ \A j \in Ids \ {i} : row'[j] = row[j]
BY DEF Record, Shape, TypeOK, Row, NoRow

-----------------------------------------------------------------------------
(* Exclusivity of one-offs, whatever the stale window.                     *)

\* A queued one-off is crawled by nobody, any other by at most one drain.
OnceInv ==
    \A i \in Ids : Once(i) => /\ row[i].status = "pending" => Crawlers(i) = {}
                              /\ \A d, e \in Crawlers(i) : d = e

\* Every step keeps the invariant behind OnceExclusive.
LEMMA NextOnceInv == Shape /\ OnceInv /\ [Next]_vars => OnceInv'
<1> SUFFICES ASSUME Shape, OnceInv, [Next]_vars, NEW i \in Ids, Once(i)'
             PROVE  /\ row'[i].status = "pending" => Crawlers(i)' = {}
                    /\ \A d, e \in Crawlers(i)' : d = e
  BY DEF OnceInv, Ids
<1>1. row[i] \in Row \cup {NoRow} /\ row'[i].kind = "once"
  BY DEF Shape, TypeOK, Once
<1>2. CASE Claim(i)
  <2>1. Once(i) /\ row[i].status = "pending" /\ row'[i].status = "running"
    BY <1>1, <1>2 DEF Claim, Claimable, PendingOnce, Standing, Once, Shape, TypeOK, Row
  <2>2. Crawlers(i) = {}
    BY <2>1 DEF OnceInv
  <2> QED
    BY <2>1, <2>2, CrawlersStep
<1>3. CASE ~Claim(i) /\ Once(i) /\ row'[i].status # "pending"
  BY <1>3, CrawlersStep DEF OnceInv
<1>4. CASE ~Claim(i) /\ row'[i] = row[i]
  BY <1>1, <1>4, CrawlersStep DEF OnceInv, Once
<1>5. CASE ~Claim(i) /\ Inserted(i)
  BY <1>5, CrawlersStep, NobodyCrawlsNextId DEF Inserted
<1>6. CASE ~Claim(i) /\ Recorded(i)
  <2>1. PICK d \in Crawlers(i) : Record(i, drain[d].outcome) /\ AfterMark(d)
    BY <1>6 DEF Recorded
  <2>2. Once(i)
    BY <1>1, <2>1 DEF Record, Once, Shape, TypeOK, Row, NoRow
  <2>3. Crawlers(i) = {d} /\ d \notin Crawlers(i)'
    BY <2>1, <2>2, MarkedLeaves DEF OnceInv, Crawlers
  <2> QED
    BY <1>6, <2>3, CrawlersStep
<1>7. CASE Promoted(i)
  BY <1>1, <1>7 DEF Promoted, Shape, TypeOK, Row, NoRow
<1>8. CASE Recovered(i)
  BY <1>1, <1>3, <1>8, <1>2 DEF Recovered, Once, Row, NoRow
<1>9. CASE FailedAsSuperseded(i)
  BY <1>1, <1>2, <1>3, <1>9 DEF FailedAsSuperseded, Once, Shape, TypeOK, Row, NoRow
<1>10. row'[i] # NoRow
  BY <1>1 DEF NoRow
<1> QED
  BY <1>2, <1>4, <1>5, <1>6, <1>7, <1>8, <1>9, <1>10, RowStep DEF RowEffect

\* A one-off is never crawled by two drains at once, even when claims turn
\* stale under live drains (MarkTargetStarted, RecoverStaleTargets).
THEOREM OnceIsExclusive == Spec => []OnceExclusive
<1>1. Init => OnceInv
  BY DEF Init, OnceInv, Once, NoRow
<1>2. Spec => [](Shape /\ OnceInv)
  BY <1>1, InitShape, NextShape, NextOnceInv, PTL DEF Spec
<1>3. OnceInv => OnceExclusive
  BY DEF OnceInv, OnceExclusive
<1> QED
  BY <1>2, <1>3, PTL

-----------------------------------------------------------------------------
(* Exclusivity of every claim, when drains fit in the stale window.        *)

FitInv ==
    \A i \in Ids : /\ Crawlers(i) # {} /\ Present(i) =>
                          row[i].status = "running" /\ i \notin stale
                   /\ \A d, e \in Crawlers(i) : d = e

\* A row turns stale only by ageing, and a claimed or recorded row is fresh.
LEMMA StaleStep ==
    ASSUME Shape, [Next]_vars, NEW i \in Ids, i \in stale', i \notin stale
    PROVE  ClaimAges(i)
<1>1. ASSUME NEW gone \in SUBSET Ids, Forget(gone)
      PROVE  FALSE
  BY <1>1 DEF Forget
<1>2. ASSUME NEW d \in Drains, DrainStep(d) \/ FaultStep(d)
      PROVE  FALSE
  <2>1. CASE StartDrain(d) \/ LoadDue(d) \/ EndDrain(d) \/ \E o \in Outcomes : Run(d, o)
    BY <2>1 DEF StartDrain, RecoverStaleTargets, LoadDue, EndDrain, Run
  <2>2. CASE MarkTargetStarted(d)
    BY <2>2 DEF MarkTargetStarted, Claim
  <2>3. CASE MarkTargetRun(d) \/ Supersede(d)
    BY <2>3 DEF MarkTargetRun, Record, Supersede
  <2>4. CASE PruneCrawlTargets(d) \/ ContextDies(d) \/ Crash(d)
    BY <1>1, <2>4 DEF PruneCrawlTargets, ContextDies, Crash
  <2> QED
    BY <1>2, <2>1, <2>2, <2>3, <2>4 DEF DrainStep, FaultStep
<1>3. ASSUME NEW j \in Ids, ClaimAges(j)
      PROVE  j = i
  BY <1>3 DEF ClaimAges
<1> QED
  BY <1>1, <1>2, <1>3, ClientFrame, ManageFrame, TimeFrame DEF Next, vars

\* Every step keeps the invariant of claims that fit the stale window.
LEMMA NextFitInv ==
    ASSUME DrainsFitStaleWindow
    PROVE  Shape /\ FitInv /\ [Next]_vars => FitInv'
<1> SUFFICES ASSUME Shape, FitInv, [Next]_vars, NEW i \in Ids
             PROVE  /\ Crawlers(i)' # {} /\ Present(i)' =>
                           row'[i].status = "running" /\ i \notin stale'
                    /\ \A d, e \in Crawlers(i)' : d = e
  BY DEF FitInv, Ids
<1>1. row[i] \in Row \cup {NoRow}
  BY DEF Shape, TypeOK
<1>2. CASE Claim(i)
  <2>1. Present(i) /\ row[i].status # "running"
    BY <1>2 DEF Claim, Claimable, PendingOnce, Standing, Once, Present
  <2>2. Crawlers(i) = {}
    BY <2>1 DEF FitInv
  <2>3. row'[i].status = "running" /\ i \notin stale'
    BY <1>1, <1>2 DEF Claim, Shape, TypeOK, Row, NoRow
  <2> QED
    BY <2>2, <2>3, CrawlersStep
<1>3. CASE ~Claim(i)
  <2>1. Crawlers(i)' \subseteq Crawlers(i)
    BY <1>3, CrawlersStep
  <2>2. \A d, e \in Crawlers(i)' : d = e
    BY <2>1 DEF FitInv
  <2>3. ASSUME Crawlers(i)' # {}, Present(i)'
        PROVE  row'[i].status = "running" /\ i \notin stale'
    <3>1. Crawlers(i) # {}
      BY <2>1, <2>3
    <3>2. ~Inserted(i) /\ row'[i] # NoRow
      BY <2>3, <3>1, NobodyCrawlsNextId DEF Inserted, Present, NoRow
    <3>3. ~Recorded(i) /\ ~FailedAsSuperseded(i)
      BY <2>1, <2>3, MarkedLeaves DEF Recorded, FailedAsSuperseded, FitInv, Crawlers
    <3>4. row'[i] = row[i] \/ Promoted(i) \/ Recovered(i)
      BY <1>3, <3>2, <3>3, RowStep DEF RowEffect
    <3>5. Present(i)
      <4>1. Promoted(i) => Present(i)
        BY DEF Promoted, Once, Present
      <4>2. Recovered(i) => Present(i)
        BY <1>1 DEF Recovered, Shape, StaleRunning, Row, NoRow, Kinds, Present
      <4> QED
        BY <2>3, <3>4, <4>1, <4>2 DEF Present
    <3>6. row[i].status = "running" /\ i \notin stale
      BY <3>1, <3>5 DEF FitInv
    <3>7. i \notin stale'
      BY <3>1, <3>6, StaleStep DEF ClaimAges
    <3>8. row'[i].status = "running"
      BY <1>1, <3>4, <3>6 DEF Promoted, Recovered, Shape, TypeOK, Row, NoRow
    <3> QED
      BY <3>7, <3>8
  <2> QED
    BY <2>2, <2>3
<1> QED
  BY <1>2, <1>3

\* The invariant of claims that fit the stale window holds throughout.
LEMMA FitInvariant == ASSUME DrainsFitStaleWindow PROVE Spec => [](Shape /\ FitInv)
<1>1. Init => FitInv
  BY DEF Init, FitInv, Crawlers, IdleDrain
<1>2. Shape /\ FitInv /\ [Next]_vars => FitInv'
  BY NextFitInv
<1> QED
  BY <1>1, <1>2, InitShape, NextShape, PTL DEF Spec

\* When no claim turns stale under a live drain, no target of either kind is
\* crawled by two drains (the claiming UPDATE of MarkTargetStarted).
THEOREM EveryClaimIsExclusive == ASSUME DrainsFitStaleWindow PROVE Spec => []ExclusiveCrawl
<1>1. FitInv => ExclusiveCrawl
  BY DEF FitInv, ExclusiveCrawl
<1> QED
  BY <1>1, FitInvariant, PTL

\* ... and MarkTargetRun, which names only an id, settles the caller's claim.
THEOREM ClaimsAreHeld == ASSUME DrainsFitStaleWindow PROVE Spec => []CrawlerHoldsClaim
<1>1. FitInv => CrawlerHoldsClaim
  BY DEF FitInv, CrawlerHoldsClaim
<1> QED
  BY <1>1, FitInvariant, PTL

\* ... and a settled one-off keeps its outcome until it is pruned, deleted or
\* promoted.
THEOREM OutcomesAreFinal == ASSUME DrainsFitStaleWindow PROVE Spec => SettledIsFinal
<1>1. Shape /\ FitInv /\ [Next]_vars =>
         [\A i \in Ids : Once(i) /\ Settled(i) /\ row'[i].kind = "once"
                             => row'[i] = row[i]]_vars
  <2> SUFFICES ASSUME Shape, FitInv, [Next]_vars, NEW i \in Ids,
                      Once(i), Settled(i), row'[i].kind = "once"
               PROVE  row'[i] = row[i]
    OBVIOUS
  <2>1. Present(i) /\ row[i].status \notin {"running", "pending"} /\ row'[i] # NoRow
    BY DEF Once, Settled, Present, NoRow
  <2>2. Crawlers(i) = {} /\ i \notin stale
    BY <2>1 DEF FitInv, Shape, StaleRunning
  <2>3. ~Claim(i)
    BY <2>1 DEF Claim, Claimable, PendingOnce, Standing, Once
  <2>4. ~Promoted(i)
    BY DEF Promoted, Shape, TypeOK, Row, NoRow
  <2> QED
    BY <2>1, <2>2, <2>3, <2>4, RowStep
       DEF RowEffect, Inserted, Recovered, Recorded, FailedAsSuperseded
<1> QED
  BY <1>1, FitInvariant, PTL DEF Spec, SettledIsFinal

-----------------------------------------------------------------------------
(* Orphans.                                                                *)

OrphanInv ==
    losses = 0 => \A i \in Ids : row[i].status = "running" => Crawlers(i) # {}

\* Without a loss a drain leaves a running row only by recording it.
LEMMA CrawlersStay ==
    ASSUME Shape, [Next]_vars, losses' = losses, NEW i \in Ids, NEW d \in Crawlers(i),
           d \notin Crawlers(i)'
    PROVE  Recorded(i) \/ FailedAsSuperseded(i) \/ ~Present(i)
<1>1. d \in Drains /\ drain[d].pc \in {"crawl", "mark", "supersede"} /\ drain[d].cur = i
  BY DEF Crawlers
<1>2. ~Loss
  BY DEF Loss, Shape, TypeOK
<1>3. drain'[d] # drain[d]
  BY <1>1 DEF Crawlers
<1>4. ASSUME NEW e \in Drains, DrainStep(e) \/ FaultStep(e)
      PROVE  e = d
  <2> SUFFICES ASSUME e # d PROVE drain'[d] = drain[d]
    BY <1>3
  <2> USE DEF Shape, TypeOK
  <2>1. CASE StartDrain(e) \/ LoadDue(e) \/ EndDrain(e) \/ \E o \in Outcomes : Run(e, o)
    BY <1>1, <2>1 DEF StartDrain, LoadDue, EndDrain, Run
  <2>2. CASE MarkTargetStarted(e)
    BY <1>1, <2>2 DEF MarkTargetStarted
  <2>3. CASE MarkTargetRun(e) \/ Supersede(e)
    BY <1>1, <2>3 DEF MarkTargetRun, Supersede, AfterMark
  <2>4. CASE PruneCrawlTargets(e) \/ ContextDies(e) \/ Crash(e)
    BY <1>1, <2>4 DEF PruneCrawlTargets, ContextDies, Crash
  <2> QED
    BY <1>4, <2>1, <2>2, <2>3, <2>4 DEF DrainStep, FaultStep
<1>5. DrainStep(d) \/ FaultStep(d)
  BY <1>3, <1>4, ClientFrame, ManageFrame, TimeFrame DEF Next, vars
<1>6. CASE MarkTargetRun(d)
  <2>1. AfterMark(d) \/ drain' = [drain EXCEPT ![d].pc = "supersede"]
    BY <1>6 DEF MarkTargetRun
  <2>2. AfterMark(d)
    BY <1>1, <2>1 DEF Crawlers, Shape, TypeOK, DrainState
  <2>3. drain'[d].pc = "loop"
    BY <1>1, <2>2 DEF AfterMark, Shape, TypeOK, DrainState
  <2> QED
    BY <1>1, <1>2, <1>6, <2>2, <2>3
       DEF MarkTargetRun, Recorded, Shape, TypeOK, DrainState
<1>7. CASE Supersede(d)
  BY <1>1, <1>2, <1>7 DEF Supersede, FailedAsSuperseded
<1>8. CASE \E o \in Outcomes : Run(d, o)
  BY <1>1, <1>8 DEF Run, Crawlers, Shape, TypeOK, DrainState
<1>9. CASE ContextDies(d)
  BY <1>1, <1>9 DEF ContextDies, Crawlers, Shape, TypeOK, DrainState
<1> QED
  BY <1>1, <1>2, <1>5, <1>6, <1>7, <1>8, <1>9
     DEF DrainStep, FaultStep, StartDrain, LoadDue, EndDrain, MarkTargetStarted,
         PruneCrawlTargets, Crash
\* A row starts running because a drain claimed it, and without a loss that
\* drain crawls it.
LEMMA StartedIsCrawled ==
    ASSUME Shape, [Next]_vars, losses' = losses, NEW i \in Ids,
           row[i].status # "running", row'[i].status = "running"
    PROVE  Crawlers(i)' # {}
<1>1. row[i] \in Row \cup {NoRow}
  BY DEF Shape, TypeOK
<1>2. ASSUME NEW d \in Drains, MarkTargetStarted(d)
      PROVE  Crawlers(i)' # {}
  <2>1. ~Loss
    BY DEF Loss, Shape, TypeOK
  <2>2. PICK t \in drain[d].due :
            Claim(t.id) /\ drain' = [drain EXCEPT ![d].pc = "crawl", ![d].cur = t.id,
                                                  ![d].due = @ \ {t}]
    BY <1>2, <2>1 DEF MarkTargetStarted
  <2>3. t.id = i
    BY <2>2 DEF Claim, Shape, TypeOK, DrainState, DueEntry
  <2>4. d \in Crawlers(i)'
    BY <2>2, <2>3 DEF Crawlers, Shape, TypeOK, DrainState
  <2> QED
    BY <2>4
<1>3. ASSUME NEW c \in Clients, CreateCrawlTarget(c)
      PROVE  FALSE
  BY <1>3 DEF CreateCrawlTarget, Shape, TypeOK
<1>4. ASSUME NEW j \in Ids, PromoteCrawlTargetToStanding(j)
      PROVE  FALSE
  BY <1>1, <1>4 DEF PromoteCrawlTargetToStanding, Shape, TypeOK, Row, NoRow
<1>5. ASSUME NEW gone \in SUBSET Ids, Forget(gone)
      PROVE  FALSE
  BY <1>5 DEF Forget, NoRow
<1>6. ASSUME NEW d \in Drains, StartDrain(d)
      PROVE  FALSE
  BY <1>1, <1>6 DEF StartDrain, RecoverStaleTargets, Row, NoRow
<1>7. ASSUME NEW d \in Drains, MarkTargetRun(d)
      PROVE  FALSE
  BY <1>1, <1>7 DEF MarkTargetRun, Record, Shape, TypeOK, Row, NoRow
<1>8. ASSUME NEW d \in Drains, Supersede(d)
      PROVE  FALSE
  BY <1>1, <1>8 DEF Supersede, Shape, TypeOK, Row, NoRow
<1>9. ASSUME NEW d \in Drains, PruneCrawlTargets(d)
      PROVE  FALSE
  BY <1>5, <1>9 DEF PruneCrawlTargets
<1>10. ASSUME NEW d \in Drains, DrainStep(d) \/ FaultStep(d)
       PROVE  Crawlers(i)' # {}
  BY <1>2, <1>6, <1>7, <1>8, <1>9, <1>10
     DEF DrainStep, FaultStep, LoadDue, EndDrain, Run, ContextDies, Crash
<1> QED
  BY <1>3, <1>4, <1>5, <1>10, ClientFrame, ManageFrame, TimeFrame DEF Next, vars

\* Every step that is not a loss keeps each running row crawled.
LEMMA NextOrphanInv == Shape /\ OrphanInv /\ [Next]_vars => OrphanInv'
<1> SUFFICES ASSUME Shape, OrphanInv, [Next]_vars, losses' = 0,
                    NEW i \in Ids, row'[i].status = "running"
             PROVE  Crawlers(i)' # {}
  BY DEF OrphanInv, Ids
<1>1. losses' = losses \/ losses' = losses + 1
  <2>1. ASSUME NEW d \in Drains, DrainStep(d) \/ FaultStep(d)
        PROVE  losses' = losses \/ losses' = losses + 1
    BY <2>1 DEF DrainStep, FaultStep, StartDrain, LoadDue, EndDrain, MarkTargetStarted, Run,
       MarkTargetRun, Supersede, PruneCrawlTargets, ContextDies, Crash, Loss, unfaulty
  <2> QED
    BY <2>1, ClientFrame, ManageFrame, TimeFrame DEF Next, vars
<1>2. losses = 0 /\ losses' = losses
  BY <1>1, QueueAssumption DEF Shape, TypeOK
<1>3. CASE row[i].status # "running"
  BY <1>2, <1>3, StartedIsCrawled
<1>4. CASE row[i].status = "running"
  <2>1. PICK d \in Crawlers(i) : TRUE
    BY <1>2, <1>4 DEF OrphanInv
  <2>2. Present(i) /\ row[i] \in Row
    BY <1>4 DEF Shape, TypeOK, Row, NoRow, Present, Kinds
  <2>3. ~Recorded(i)
    BY RecordedStatus DEF Recorded
  <2>4. ~FailedAsSuperseded(i)
    BY <2>2 DEF FailedAsSuperseded, Shape, TypeOK, Row
  <2> QED
    BY <1>2, <2>1, <2>2, <2>3, <2>4, CrawlersStay
<1> QED
  BY <1>3, <1>4

\* Only a crash or a failed call on the queue leaves a row running uncrawled:
\* an interrupted drain still runs MarkTargetRun.
THEOREM OrphansAreLosses == Spec => []OrphansNeedLoss
<1>1. Init => OrphanInv
  BY DEF Init, OrphanInv, NoRow
<1>2. Spec => [](Shape /\ OrphanInv)
  BY <1>1, InitShape, NextShape, NextOrphanInv, PTL DEF Spec
<1>3. OrphanInv => OrphansNeedLoss
  BY DEF OrphanInv, OrphansNeedLoss
<1> QED
  BY <1>2, <1>3, PTL

-----------------------------------------------------------------------------
(* Uniqueness.                                                             *)

\* Every step keeps the pending one-offs of distinct scopes.
LEMMA NextPendingOnceUnique == Shape /\ PendingOnceUnique /\ [Next]_vars => PendingOnceUnique'
<1> SUFFICES ASSUME Shape, PendingOnceUnique, [Next]_vars, NEW i \in Ids, NEW j \in Ids,
                    row'[i].kind = "once", row'[i].status = "pending",
                    row'[j].kind = "once", row'[j].status = "pending",
                    row'[i].scope = row'[j].scope, i # j
             PROVE  FALSE
  BY DEF PendingOnceUnique, PendingOnce, Once, Ids
\* One of the two was not a pending one-off of this scope before ...
<1>1. ~(i \in PendingOnce /\ j \in PendingOnce /\ row[i].scope = row[j].scope)
  BY DEF PendingOnceUnique
\* ... and only an insertion and a return to pending make one.
<1>2. ASSUME NEW k \in Ids, row'[k].kind = "once", row'[k].status = "pending"
      PROVE  \/ row'[k] = row[k]
             \/ Inserted(k)
             \/ Once(k) /\ Recorded(k)
  <2>1. row[k] \in Row \cup {NoRow} /\ row'[k] # NoRow
    BY <1>2 DEF Shape, TypeOK, NoRow
  <2>2. ~Promoted(k) /\ ~Claim(k) /\ ~FailedAsSuperseded(k)
    BY <1>2, <2>1
       DEF Promoted, Claim, FailedAsSuperseded, Shape, TypeOK, Row, NoRow
  <2>3. ~Recovered(k)
    BY <1>2, <2>1 DEF Recovered, Once, Row, NoRow
  <2>4. Recorded(k) => Once(k)
    BY <1>2, <2>1 DEF Recorded, Record, Once, Shape, TypeOK, Row, NoRow
  <2> QED
    BY <2>1, <2>2, <2>3, <2>4, RowStep DEF RowEffect
\* Either changes one row, after the index found no other of the scope.
<1>3. ASSUME NEW k \in Ids, NEW l \in Ids, k # l, row'[k].kind = "once",
             row'[k].status = "pending", row'[l].kind = "once", row'[l].status = "pending",
             row'[k].scope = row'[l].scope, row'[k] # row[k]
      PROVE  FALSE
  <2>1. CASE Inserted(k)
    <3>1. PICK c \in Clients :
             /\ ~IndexRefuses(k, req[c].kind, req[c].scope)
             /\ row' = [row EXCEPT ![k] = [kind |-> req[c].kind, scope |-> req[c].scope,
                                           status |-> "pending"]]
      BY <2>1 DEF Inserted
    <3>2. row'[l] = row[l] /\ req[c].kind = "once" /\ row[l].scope = req[c].scope
      BY <1>3, <3>1 DEF Shape, TypeOK
    <3> QED
      BY <1>3, <3>1, <3>2 DEF IndexRefuses, PendingOnce, Once
  <2>2. CASE Once(k) /\ Recorded(k)
    <3>1. PICK d \in Crawlers(k) : /\ ~Superseded(k, drain[d].outcome)
                                   /\ Record(k, drain[d].outcome)
                                   /\ drain[d].outcome \in Outcomes
      BY <2>2 DEF Recorded, Shape, DrainsNameTargets, Crawlers
    <3>2. row'[l] = row[l] /\ drain[d].outcome = "interrupted"
      BY <1>3, <3>1, RecordedStatus DEF Outcomes
    <3>3. row'[k].scope = row[k].scope
      BY <3>1 DEF Record, Shape, TypeOK, Row, NoRow
    <3> QED
      BY <1>3, <2>2, <3>1, <3>2, <3>3 DEF Superseded, IndexRefuses, PendingOnce, Once
  <2> QED
    BY <1>2, <1>3, <2>1, <2>2
<1> QED
  BY <1>1, <1>3 DEF PendingOnce, Once

\* At most one pending one-off per scope: the statements of CreateCrawlTarget
\* and MarkTargetRun that the index can refuse are the only ones that add one.
THEOREM PendingOnceIsUnique == Spec => []PendingOnceUnique
<1>1. Init => PendingOnceUnique
  BY DEF Init, PendingOnceUnique, PendingOnce, Once, NoRow
<1> QED
  BY <1>1, InitShape, NextShape, NextPendingOnceUnique, PTL DEF Spec

\* Every standing row was inserted under the lock, by the one client holding it.
StandingInv ==
    /\ \A i, j \in Ids : Standing(i) /\ Standing(j) /\ row[i].scope = row[j].scope => i = j
    /\ \A c, e \in Clients : req[c].pc = "insert" /\ req[e].pc = "insert" => c = e
    /\ \A c \in Clients : req[c].pc = "insert" /\ req[c].kind = "standing" =>
           \A i \in Ids : ~(Standing(i) /\ row[i].scope = req[c].scope)

\* A client reaches its insert only by finding no match under a free lock.
LEMMA InsertStep ==
    ASSUME Shape, [Next]_vars, NEW c \in Clients, req'[c].pc = "insert"
    PROVE  \/ req'[c] = req[c]
           \/ /\ \A e \in Clients : req[e].pc # "insert" /\ (e # c => req'[e] = req[e])
              /\ MatchingTarget(req[c].kind, req[c].scope) = {}
              /\ req'[c].kind = req[c].kind /\ req'[c].scope = req[c].scope
              /\ row' = row
<1> SUFFICES ASSUME req'[c] # req[c] PROVE LockAndMatch(c)
  BY DEF LockAndMatch, CreateLocked, Shape, TypeOK, ReqState, IdleReq
<1>1. ASSUME NEW e \in Clients, ClientStep(e)
      PROVE  e = c /\ LockAndMatch(c)
  <2>1. e = c
    BY <1>1 DEF ClientStep, RequestCrawl, SeedCrawlTargets, ReEnable, LockAndMatch,
       CreateCrawlTarget, Shape, TypeOK
  <2>2. ASSUME NEW k \in Kinds, NEW s \in Scopes, RequestCrawl(c, k, s)
        PROVE  FALSE
    BY <2>2 DEF RequestCrawl, Shape, TypeOK
  <2>3. ASSUME NEW s \in Scopes, SeedCrawlTargets(c, s)
        PROVE  FALSE
    BY <2>3 DEF SeedCrawlTargets, Shape, TypeOK
  <2>4. ~ReEnable(c) /\ ~CreateCrawlTarget(c)
    BY DEF ReEnable, CreateCrawlTarget, IdleReq, Shape, TypeOK
  <2> QED
    BY <1>1, <2>1, <2>2, <2>3, <2>4 DEF ClientStep
<1> QED
  BY <1>1, ManageFrame, DrainFrame, TimeFrame DEF Next, vars

\* Standing rows appear only at an insert, when promotion is not called.
LEMMA StandingStep ==
    ASSUME Shape, [Next]_vars, "promote" \notin Calls, NEW i \in Ids, row'[i].kind = "standing"
    PROVE  Inserted(i) \/ (Standing(i) /\ row'[i].scope = row[i].scope)
<1>1. row[i] \in Row \cup {NoRow} /\ row'[i] # NoRow
  BY DEF Shape, TypeOK, NoRow
<1>2. CASE Recovered(i)
  BY <1>1, <1>2 DEF Recovered, Standing, Row, NoRow
<1>3. CASE Claim(i) \/ FailedAsSuperseded(i)
  BY <1>1, <1>3 DEF Claim, FailedAsSuperseded, Standing, Shape, TypeOK, Row, NoRow
<1>4. CASE Recorded(i)
  BY <1>1, <1>4 DEF Recorded, Record, Standing, Shape, TypeOK, Row, NoRow
<1> QED
  BY <1>1, <1>2, <1>3, <1>4, RowStep DEF RowEffect, Promoted, Standing

\* Every step keeps standing scopes distinct and the create lock exclusive.
LEMMA NextStandingInv ==
    ASSUME "promote" \notin Calls
    PROVE  Shape /\ StandingInv /\ [Next]_vars => StandingInv'
<1> SUFFICES ASSUME Shape, StandingInv, [Next]_vars PROVE StandingInv'
  OBVIOUS
<1>1. ASSUME NEW i \in Ids, NEW j \in Ids, i # j, row'[i].kind = "standing",
             row'[j].kind = "standing", row'[i].scope = row'[j].scope
      PROVE  FALSE
  <2>1. ASSUME NEW k \in Ids, NEW l \in Ids, k # l, Inserted(k), row'[l].kind = "standing",
               row'[k].kind = "standing", row'[k].scope = row'[l].scope
        PROVE  FALSE
    BY <2>1 DEF Inserted, StandingInv, Standing, Shape, TypeOK
  <2> QED
    BY <1>1, <2>1, StandingStep DEF StandingInv
<1>2. ASSUME NEW c \in Clients, NEW e \in Clients, req'[c].pc = "insert",
             req'[e].pc = "insert"
      PROVE  c = e
  BY <1>2, InsertStep DEF StandingInv
<1>3. ASSUME NEW c \in Clients, NEW i \in Ids, req'[c].pc = "insert",
             req'[c].kind = "standing", row'[i].kind = "standing",
             row'[i].scope = req'[c].scope
      PROVE  FALSE
  <2>1. CASE req'[c] = req[c]
    <3>1. ~Inserted(i)
      BY <1>3, <2>1 DEF Inserted, StandingInv, IdleReq, Shape, TypeOK
    <3> QED
      BY <1>3, <2>1, <3>1, StandingStep DEF StandingInv
  <2>2. CASE MatchingTarget(req[c].kind, req[c].scope) = {} /\ row' = row
             /\ req'[c].kind = req[c].kind /\ req'[c].scope = req[c].scope
    BY <1>3, <2>2 DEF MatchingTarget
  <2> QED
    BY <1>3, <2>1, <2>2, InsertStep
<1> QED
  BY <1>1, <1>2, <1>3 DEF StandingInv, Standing, Ids

\* Without promotions no two standing rows share a scope: CreateCrawlTarget
\* matches and inserts under one advisory lock.
THEOREM StandingScopeIsUnique ==
    ASSUME "promote" \notin Calls PROVE Spec => []StandingScopeUnique
<1>1. Init => StandingInv
  BY DEF Init, StandingInv, Standing, NoRow, IdleReq
<1>2. Shape /\ StandingInv /\ [Next]_vars => StandingInv'
  BY NextStandingInv
<1>3. StandingInv => StandingScopeUnique
  BY DEF StandingInv, StandingScopeUnique
<1> QED
  BY <1>1, <1>2, <1>3, InitShape, NextShape, PTL DEF Spec
-----------------------------------------------------------------------------
(* How far the queue can outgrow its cap.                                  *)

\* The requests that passed the admission check and are not in the table yet, and
\* the drains whose claim on a one-off may still come back to it.
Admitted == {c \in Clients : req[c].pc \in {"create", "insert"} /\ req[c].kind = "once"}
Holding == {d \in Drains : Crawling(d) /\ Once(drain[d].cur)}

BoundInv ==
    Cardinality(PendingOnce) + Cardinality(Admitted) + Cardinality(Holding)
        < MaxPendingRequests + Cardinality(Clients) + Cardinality(Drains)

\* A set that gains or loses an element.
LEMMA CardinalityMoves ==
    ASSUME NEW S, IsFiniteSet(S), NEW x
    PROVE  /\ Cardinality(S) \in Nat
           /\ \A T \in SUBSET S : IsFiniteSet(T) /\ Cardinality(T) \in Nat /\ Cardinality(T) <= Cardinality(S)
           /\ \A T \in SUBSET (S \cup {x}) : Cardinality(T) \in Nat /\ Cardinality(T) <= Cardinality(S) + 1
           /\ x \in S => \A T \in SUBSET (S \ {x}) : Cardinality(T) \in Nat /\ Cardinality(T) <= Cardinality(S) - 1
<1>1. \A R : IsFiniteSet(R) => Cardinality(R) \in Nat
               /\ \A T \in SUBSET R : IsFiniteSet(T) /\ Cardinality(T) \in Nat /\ Cardinality(T) <= Cardinality(R)
  BY FS_CardinalityType, FS_Subset
<1>2. IsFiniteSet(S \cup {x}) /\ Cardinality(S \cup {x}) <= Cardinality(S) + 1
  BY <1>1, FS_AddElement
<1>3. IsFiniteSet(S \ {x}) /\ (x \in S => Cardinality(S \ {x}) = Cardinality(S) - 1)
  BY <1>1, FS_RemoveElement
<1>4. \A T \in SUBSET (S \cup {x}) : Cardinality(T) \in Nat /\ Cardinality(T) <= Cardinality(S) + 1
  BY <1>1, <1>2
<1>5. x \in S => \A T \in SUBSET (S \ {x}) : Cardinality(T) \in Nat /\ Cardinality(T) <= Cardinality(S) - 1
  BY <1>1, <1>3
<1> QED
  BY <1>1, <1>4, <1>5

LEMMA CountedSets ==
    /\ IsFiniteSet(PendingOnce) /\ IsFiniteSet(Admitted) /\ IsFiniteSet(Holding)
    /\ IsFiniteSet(Clients) /\ IsFiniteSet(Drains)
<1>1. IsFiniteSet(Ids)
  BY QueueAssumption, FS_Interval DEF Ids
<1>2. PendingOnce \in SUBSET Ids /\ Admitted \in SUBSET Clients /\ Holding \in SUBSET Drains
  BY DEF PendingOnce, Admitted, Holding
<1> QED
  BY <1>1, <1>2, FS_Subset, QueueAssumption

\* What is admitted or held makes room for what is queued.
LEMMA BoundKept ==
    ASSUME BoundInv,
           \/ /\ PendingOnce' \subseteq PendingOnce /\ Admitted' \subseteq Admitted
              /\ Holding' \subseteq Holding
           \/ \E i, c : /\ PendingOnce' \subseteq PendingOnce \cup {i} /\ c \in Admitted
                        /\ Admitted' \subseteq Admitted \ {c} /\ Holding' \subseteq Holding
           \/ \E i, d : /\ PendingOnce' \subseteq PendingOnce \cup {i} /\ d \in Holding
                        /\ Admitted' \subseteq Admitted /\ Holding' \subseteq Holding \ {d}
           \/ \E i, d : /\ i \in PendingOnce /\ PendingOnce' \subseteq PendingOnce \ {i}
                        /\ Admitted' \subseteq Admitted /\ Holding' \subseteq Holding \cup {d}
    PROVE  BoundInv'
<1> DEFINE P == Cardinality(PendingOnce)
           A == Cardinality(Admitted)
           H == Cardinality(Holding)
           Cap == MaxPendingRequests + Cardinality(Clients) + Cardinality(Drains)
<1>1. P \in Nat /\ A \in Nat /\ H \in Nat /\ Cap \in Nat /\ P + A + H < Cap
  BY CountedSets, FS_CardinalityType, QueueAssumption DEF BoundInv
<1>2. CASE /\ PendingOnce' \subseteq PendingOnce /\ Admitted' \subseteq Admitted
           /\ Holding' \subseteq Holding
  <2>1. P' \in Nat /\ A' \in Nat /\ H' \in Nat /\ P' <= P /\ A' <= A /\ H' <= H
    BY <1>2, CountedSets, CardinalityMoves
  <2> QED
    BY <1>1, <2>1 DEF BoundInv
<1>3. ASSUME NEW i, NEW c, PendingOnce' \subseteq PendingOnce \cup {i}, c \in Admitted,
             Admitted' \subseteq Admitted \ {c}, Holding' \subseteq Holding
      PROVE  BoundInv'
  <2>1. P' \in Nat /\ A' \in Nat /\ H' \in Nat /\ P' <= P + 1 /\ A' <= A - 1 /\ H' <= H
    BY <1>3, CountedSets, CardinalityMoves
  <2> QED
    BY <1>1, <2>1 DEF BoundInv
<1>4. ASSUME NEW i, NEW d, PendingOnce' \subseteq PendingOnce \cup {i}, d \in Holding,
             Admitted' \subseteq Admitted, Holding' \subseteq Holding \ {d}
      PROVE  BoundInv'
  <2>1. P' \in Nat /\ A' \in Nat /\ H' \in Nat /\ P' <= P + 1 /\ A' <= A /\ H' <= H - 1
    BY <1>4, CountedSets, CardinalityMoves
  <2> QED
    BY <1>1, <2>1 DEF BoundInv
<1>5. ASSUME NEW i, NEW d, i \in PendingOnce, PendingOnce' \subseteq PendingOnce \ {i},
             Admitted' \subseteq Admitted, Holding' \subseteq Holding \cup {d}
      PROVE  BoundInv'
  <2>1. P' \in Nat /\ A' \in Nat /\ H' \in Nat /\ P' <= P - 1 /\ A' <= A /\ H' <= H + 1
    BY <1>5, CountedSets, CardinalityMoves
  <2> QED
    BY <1>1, <2>1 DEF BoundInv
<1> QED
  BY <1>2, <1>3, <1>4, <1>5

\* A request is admitted below the cap, and each client and drain counts once.
LEMMA AdmissionBound ==
    ASSUME BoundInv, PendingOnce' = PendingOnce, ~QueueFull
    PROVE  BoundInv'
<1>1. /\ Cardinality(PendingOnce) \in Nat /\ Cardinality(PendingOnce) < MaxPendingRequests
  BY CountedSets, FS_CardinalityType, QueueAssumption DEF QueueFull
<1>2. Admitted' \in SUBSET Clients /\ Holding' \in SUBSET Drains
  BY DEF Admitted, Holding
<1>3. /\ Cardinality(Admitted') \in Nat /\ Cardinality(Admitted') <= Cardinality(Clients)
      /\ Cardinality(Holding') \in Nat /\ Cardinality(Holding') <= Cardinality(Drains)
      /\ Cardinality(Clients) \in Nat /\ Cardinality(Drains) \in Nat
  BY <1>2, CountedSets, FS_Subset, FS_CardinalityType
<1> QED
  BY <1>1, <1>3, QueueAssumption DEF BoundInv

LEMMA ClientBound ==
    ASSUME Shape, BoundInv, NEW c \in Clients, ClientStep(c)
    PROVE  BoundInv'
<1>1. drain' = drain /\ req \in [Clients -> ReqState]
  BY ClientFrame DEF Shape, TypeOK
<1>2. row' = row => PendingOnce' = PendingOnce /\ Holding' = Holding
  BY <1>1 DEF PendingOnce, Holding, Crawling, Once
<1>3. ASSUME NEW k \in Kinds, NEW s \in Scopes, RequestCrawl(c, k, s)
      PROVE  BoundInv'
  <2>1. CASE k = "once"
    BY <1>2, <1>3, <2>1, AdmissionBound DEF RequestCrawl
  <2>2. CASE k = "standing"
    <3>1. Admitted' \subseteq Admitted
      BY <1>1, <1>3, <2>2 DEF RequestCrawl, Admitted
    <3> QED
      BY <1>2, <1>3, <3>1, BoundKept DEF RequestCrawl
  <2> QED
    BY <2>1, <2>2 DEF Kinds
<1>4. ASSUME NEW s \in Scopes, SeedCrawlTargets(c, s)
      PROVE  BoundInv'
  <2>1. Admitted' \subseteq Admitted
    BY <1>1, <1>4 DEF SeedCrawlTargets, Admitted
  <2> QED
    BY <1>2, <1>4, <2>1, BoundKept DEF SeedCrawlTargets
<1>5. CASE ReEnable(c) \/ LockAndMatch(c)
  <2>1. Admitted' \subseteq Admitted
    BY <1>1, <1>5 DEF ReEnable, LockAndMatch, IdleReq, ReqState, Admitted
  <2> QED
    BY <1>2, <1>5, <2>1, BoundKept DEF ReEnable, LockAndMatch
<1>6. CASE CreateCrawlTarget(c)
  <2>1. Admitted' \subseteq Admitted \ {c}
    BY <1>1, <1>6 DEF CreateCrawlTarget, IdleReq, Admitted
  <2>2. CASE row' = row
    BY <1>2, <2>1, <2>2, BoundKept
  <2>3. CASE row' = [row EXCEPT ![nextId] = [kind |-> req[c].kind, scope |-> req[c].scope,
                                             status |-> "pending"]]
    <3>1. \A i \in Ids \ {nextId} : row'[i] = row[i]
      BY <2>3 DEF Shape, TypeOK
    <3>2. Holding' \subseteq Holding
      BY <1>1, <3>1, CrawlingCur DEF Holding, Crawling, Once, Shape, TypeOK
    <3>3. PendingOnce' \subseteq PendingOnce \cup {nextId}
      BY <3>1 DEF PendingOnce, Once, Ids
    <3>4. CASE req[c].kind = "once"
      <4>1. c \in Admitted
        BY <1>6, <3>4 DEF CreateCrawlTarget, Admitted
      <4> QED
        BY <2>1, <3>2, <3>3, <4>1, BoundKept
    <3>5. CASE req[c].kind # "once"
      <4>1. PendingOnce' \subseteq PendingOnce
        BY <2>3, <3>1, <3>5 DEF PendingOnce, Once, Ids, Shape, TypeOK
      <4> QED
        BY <2>1, <3>2, <4>1, BoundKept
    <3> QED
      BY <3>4, <3>5
  <2> QED
    BY <1>6, <2>2, <2>3 DEF CreateCrawlTarget
<1> QED
  BY <1>3, <1>4, <1>5, <1>6 DEF ClientStep

\* Rows that are promoted or removed only make room.
LEMMA ManageBound ==
    ASSUME Shape, BoundInv, ManageStep
    PROVE  BoundInv'
<1>1. drain' = drain /\ req' = req
  BY ManageFrame
<1>2. \A i \in Ids : Once(i)' => row'[i] = row[i]
  <2>1. ASSUME NEW j \in Ids, PromoteCrawlTargetToStanding(j)
        PROVE  \A i \in Ids : Once(i)' => row'[i] = row[i]
    BY <2>1 DEF PromoteCrawlTargetToStanding, Once, Shape, TypeOK, Row
  <2>2. ASSUME NEW gone \in SUBSET Ids, Forget(gone)
        PROVE  \A i \in Ids : Once(i)' => row'[i] = row[i]
    BY <2>2 DEF Forget, Once, NoRow
  <2> QED
    BY <2>1, <2>2, ManageFrame
<1>3. PendingOnce' \subseteq PendingOnce
  BY <1>2 DEF PendingOnce, Once, Ids
<1>4. Holding' \subseteq Holding /\ Admitted' = Admitted
  BY <1>1, <1>2, CrawlingCur DEF Holding, Crawling, Once, Admitted
<1> QED
  BY <1>3, <1>4, BoundKept

LEMMA DrainBound ==
    ASSUME Shape, BoundInv, NEW d \in Drains, DrainStep(d) \/ FaultStep(d)
    PROVE  BoundInv'
<1>0. /\ drain \in [Drains -> DrainState] /\ row \in [Ids -> Row \cup {NoRow}]
      /\ \A e \in Drains : Crawling(e) => drain[e].cur \in Ids
  BY CrawlingCur DEF Shape, TypeOK
<1>1. Admitted' = Admitted
  BY DrainFrame DEF Admitted
<1>2. ASSUME \A i \in Ids : Once(i)' => Once(i) /\ (row'[i].status = "pending" => row[i].status = "pending"),
             \A e \in Drains : Crawling(e)' => Crawling(e) /\ drain'[e].cur = drain[e].cur
      PROVE  BoundInv'
  <2>1. PendingOnce' \subseteq PendingOnce
    BY <1>2 DEF PendingOnce, Once, Ids
  <2>2. Holding' \subseteq Holding
    BY <1>0, <1>2 DEF Holding, Once
  <2> QED
    BY <1>1, <2>1, <2>2, BoundKept
<1>3. CASE StartDrain(d)
  <2>1. \A i \in Ids : Once(i)' => Once(i) /\ (row'[i].status = "pending" => row[i].status = "pending")
    <3> TAKE i \in Ids
    <3>1. CASE row' = row
      BY <3>1 DEF Once
    <3>2. CASE RecoverStaleTargets
      BY <1>0, <3>2 DEF RecoverStaleTargets, Once, Row, NoRow
    <3> QED
      BY <1>3, <3>1, <3>2 DEF StartDrain
  <2>2. \A e \in Drains : Crawling(e)' => Crawling(e) /\ drain'[e].cur = drain[e].cur
    BY <1>0, <1>3 DEF StartDrain, Crawling, DrainState
  <2> QED
    BY <1>2, <2>1, <2>2
<1>4. CASE LoadDue(d) \/ EndDrain(d) \/ ContextDies(d) \/ Crash(d) \/ \E o \in Outcomes : Run(d, o)
  <2>1. row' = row
    BY <1>4 DEF LoadDue, EndDrain, ContextDies, Crash, Run
  <2>2. \A e \in Drains : Crawling(e)' => Crawling(e) /\ drain'[e].cur = drain[e].cur
    BY <1>0, <1>4 DEF LoadDue, EndDrain, ContextDies, Crash, Run, IdleDrain, Crawling, DrainState
  <2> QED
    BY <1>2, <2>1, <2>2 DEF Once
<1>5. CASE MarkTargetStarted(d)
  <2>1. PICK t \in drain[d].due :
            \/ Claim(t.id) /\ drain' = [drain EXCEPT ![d].pc = "crawl", ![d].cur = t.id,
                                                      ![d].due = @ \ {t}]
            \/ /\ Claim(t.id) \/ row' = row
               /\ drain' = [drain EXCEPT ![d].due = @ \ {t}]
    BY <1>5 DEF MarkTargetStarted
  <2>2. t.id \in Ids
    BY <1>0 DEF DrainState, DueEntry
  <2>3. \A e \in Drains \ {d} : drain'[e] = drain[e]
    BY <1>0, <2>1
  <2>4. Claim(t.id) => /\ \A i \in Ids : Once(i)' <=> Once(i)
                       /\ \A i \in Ids : row'[i].status = "pending" => i # t.id /\ row[i].status = "pending"
    BY <1>0, <2>2 DEF Claim, Once, Row, NoRow
  <2>5. CASE drain' = [drain EXCEPT ![d].due = @ \ {t}]
    <3>1. \A e \in Drains : Crawling(e)' => Crawling(e) /\ drain'[e].cur = drain[e].cur
      BY <1>0, <2>5 DEF Crawling, DrainState
    <3> QED
      BY <1>2, <2>1, <2>4, <3>1 DEF Once
  <2>6. CASE Claim(t.id) /\ drain' = [drain EXCEPT ![d].pc = "crawl", ![d].cur = t.id,
                                                    ![d].due = @ \ {t}]
    <3>1. PendingOnce' \subseteq PendingOnce \ {t.id}
      BY <2>4, <2>6 DEF PendingOnce, Ids
    <3>2. drain'[d].cur = t.id
      BY <1>0, <2>6 DEF DrainState
    <3>3. \A e \in Drains \ {d} : e \in Holding' => e \in Holding
      BY <1>0, <2>3, <2>4, <2>6 DEF Holding, Crawling, Once
    <3>4. CASE Once(t.id)
      <4>1. t.id \in PendingOnce
        BY <2>6, <3>4 DEF Claim, Claimable, Once, Standing
      <4>2. Holding' \subseteq Holding \cup {d}
        BY <3>3 DEF Holding
      <4> QED
        BY <1>1, <3>1, <4>1, <4>2, BoundKept
    <3>5. CASE ~Once(t.id)
      <4>1. d \notin Holding'
        BY <2>2, <2>4, <2>6, <3>2, <3>5 DEF Holding
      <4>2. Holding' \subseteq Holding
        BY <3>3, <4>1 DEF Holding
      <4> QED
        BY <1>1, <3>1, <4>2, BoundKept
    <3> QED
      BY <3>4, <3>5
  <2> QED
    BY <2>1, <2>5, <2>6
<1>6. CASE MarkTargetRun(d)
  <2> DEFINE i == drain[d].cur
  <2>1. Crawling(d) /\ i \in Ids
    BY <1>0, <1>6 DEF MarkTargetRun, Crawling
  <2>2. CASE row' = row
    <3>1. \A e \in Drains : Crawling(e)' => Crawling(e) /\ drain'[e].cur = drain[e].cur
      BY <1>0, <1>6 DEF MarkTargetRun, AfterMark, Crawling, DrainState
    <3> QED
      BY <1>2, <2>2, <3>1 DEF Once
  <2>3. CASE Present(i) /\ Record(i, drain[d].outcome) /\ AfterMark(d)
    <3>1. \A j \in Ids \ {i} : row'[j] = row[j]
      BY <2>1, <2>3, RecordedStatus
    <3>2. row'[i].kind = row[i].kind
      BY <1>0, <2>1, <2>3 DEF Record, Row, NoRow
    <3>3. /\ drain'[d].pc = "loop" /\ \A e \in Drains \ {d} : drain'[e] = drain[e]
      BY <1>0, <2>3 DEF AfterMark, DrainState
    <3>4. \A j \in Ids : Once(j)' <=> Once(j)
      BY <3>1, <3>2 DEF Once
    <3>5. Holding' \subseteq Holding \ {d}
      BY <1>0, <3>3, <3>4 DEF Holding, Crawling
    <3>6. PendingOnce' \subseteq PendingOnce \cup {i}
      BY <3>1, <3>4 DEF PendingOnce, Ids
    <3>7. CASE Once(i)
      <4>1. d \in Holding
        BY <2>1, <3>7 DEF Holding
      <4> QED
        BY <1>1, <3>5, <3>6, <4>1, BoundKept
    <3>8. CASE ~Once(i)
      <4>1. PendingOnce' \subseteq PendingOnce
        BY <2>1, <3>4, <3>6, <3>8 DEF PendingOnce
      <4> QED
        BY <1>1, <3>5, <4>1, BoundKept
    <3> QED
      BY <3>7, <3>8
  <2> QED
    BY <1>6, <2>2, <2>3 DEF MarkTargetRun
<1>7. CASE Supersede(d)
  <2>1. \A e \in Drains : Crawling(e)' => Crawling(e) /\ drain'[e].cur = drain[e].cur
    BY <1>0, <1>7 DEF Supersede, AfterMark, Crawling, DrainState
  <2>2. \A i \in Ids : Once(i)' => Once(i) /\ (row'[i].status = "pending" => row[i].status = "pending")
    BY <1>0, <1>7 DEF Supersede, Once, Row, NoRow
  <2> QED
    BY <1>2, <2>1, <2>2
<1>8. CASE PruneCrawlTargets(d)
  <2>1. PICK gone : Forget(gone)
    BY <1>8 DEF PruneCrawlTargets
  <2>2. \A i \in Ids : Once(i)' => Once(i) /\ (row'[i].status = "pending" => row[i].status = "pending")
    BY <2>1 DEF Forget, Once, NoRow
  <2>3. \A e \in Drains : Crawling(e)' => Crawling(e) /\ drain'[e].cur = drain[e].cur
    BY <1>0, <1>8 DEF PruneCrawlTargets, IdleDrain, Crawling, DrainState
  <2> QED
    BY <1>2, <2>2, <2>3
<1> QED
  BY <1>3, <1>4, <1>5, <1>6, <1>7, <1>8 DEF DrainStep, FaultStep

LEMMA NextBoundInv == Shape /\ BoundInv /\ [Next]_vars => BoundInv'
<1> SUFFICES ASSUME Shape, BoundInv, [Next]_vars PROVE BoundInv'
  OBVIOUS
<1>1. ASSUME row' = row, drain' = drain, req' = req
      PROVE  BoundInv'
  BY <1>1 DEF BoundInv, PendingOnce, Admitted, Holding, Crawling, Once
<1> QED
  BY <1>1, ClientBound, ManageBound, DrainBound, TimeFrame DEF Next, vars

\* However requests race the admission check and interrupted one-offs come back, the
\* queue outgrows its cap by less than the number of clients and drains.
THEOREM QueueStaysBounded == Spec => []QueueBounded
<1>1. Init => BoundInv
  <2> SUFFICES ASSUME Init PROVE BoundInv
    OBVIOUS
  <2>1. PendingOnce = {} /\ Admitted = {} /\ Holding = {}
    BY DEF Init, PendingOnce, Admitted, Holding, Crawling, Once, NoRow, IdleReq, IdleDrain
  <2>2. Cardinality(Clients) \in Nat /\ Cardinality(Drains) \in Nat
    BY CountedSets, FS_CardinalityType
  <2> QED
    BY <2>1, <2>2, FS_EmptySet, QueueAssumption DEF BoundInv
<1>2. BoundInv => QueueBounded
  <2>1. /\ Cardinality(PendingOnce) \in Nat /\ Cardinality(Admitted) \in Nat
        /\ Cardinality(Holding) \in Nat /\ Cardinality(Clients) \in Nat /\ Cardinality(Drains) \in Nat
    BY CountedSets, FS_CardinalityType
  <2> QED
    BY <2>1, QueueAssumption DEF BoundInv, QueueBounded
<1> QED
  BY <1>1, <1>2, InitShape, NextShape, NextBoundInv, PTL DEF Spec
-----------------------------------------------------------------------------
(* Spacing, for a drain that works alone.                                  *)

\* What is left of a drain's snapshot is news to the one who took it: one entry
\* a target, none for the target being crawled, and those of standing scopes
\* not run since.
SpacedInv ==
    \A d \in Drains : \A t \in drain[d].due :
        /\ \A u \in drain[d].due : t.id = u.id => t = u
        /\ t.id < nextId
        /\ Crawling(d) => t.id # drain[d].cur
        /\ t.kind = "standing" => t.id \notin recent
        /\ t.kind = "once" => ~Standing(t.id)

\* A row is run recently only because a drain started or recorded it.
LEMMA RecentStep ==
    ASSUME Shape, [Next]_vars, NEW i \in recent', i \notin recent
    PROVE  \E d \in Drains :
              \/ MarkTargetStarted(d) /\ Once(i) /\ Claim(i) /\ recent' = RanNow(i)
              \/ MarkTargetRun(d) /\ drain[d].cur = i /\ recent' = RanNow(i)
<1>1. ASSUME NEW gone \in SUBSET Ids, Forget(gone)
      PROVE  FALSE
  BY <1>1 DEF Forget
<1>2. ASSUME ManageStep
      PROVE  FALSE
  BY <1>1, <1>2, ManageFrame DEF ManageStep, SetCrawlTargetEnabled,
     PromoteCrawlTargetToStanding, DeleteCrawlTarget, ResetTasteState
<1>3. ASSUME NEW d \in Drains, MarkTargetStarted(d)
      PROVE  MarkTargetStarted(d) /\ Once(i) /\ Claim(i) /\ recent' = RanNow(i)
  BY <1>3 DEF MarkTargetStarted, Claim, RanNow
<1>4. ASSUME NEW d \in Drains, MarkTargetRun(d)
      PROVE  drain[d].cur = i /\ recent' = RanNow(i)
  BY <1>4 DEF MarkTargetRun, Record, RanNow
<1>5. ASSUME NEW d \in Drains, DrainStep(d) \/ FaultStep(d)
      PROVE  MarkTargetStarted(d) \/ MarkTargetRun(d)
  BY <1>1, <1>5 DEF DrainStep, FaultStep, StartDrain, LoadDue, EndDrain, Run, Supersede,
     PruneCrawlTargets, ContextDies, Crash
<1>6. ASSUME NEW j \in Ids, TimeStep(j)
      PROVE  FALSE
  BY <1>6 DEF TimeStep, SpacingElapses, ClaimAges
<1> QED
  BY <1>2, <1>3, <1>4, <1>5, <1>6, ClientFrame DEF Next, vars

\* A drain's snapshot is the due targets, when it loads; then it only shrinks,
\* and what is claimed has left it.
LEMMA SnapshotStep ==
    ASSUME Shape, SpacedInv, [Next]_vars, NEW d \in Drains
    PROVE  \/ drain'[d].due = DueCrawlTargets /\ drain'[d].pc = "loop" /\ LoadDue(d)
           \/ /\ drain'[d].due \subseteq drain[d].due
              /\ Crawling(d)' => \A t \in drain'[d].due : t.id # drain'[d].cur
<1> DEFINE Keeps == /\ drain'[d].due \subseteq drain[d].due
                    /\ Crawling(d)' => \A t \in drain'[d].due : t.id # drain'[d].cur
<1> SUFFICES ASSUME ~LoadDue(d) \/ drain'[d].pc # "loop" \/ drain'[d].due # DueCrawlTargets
             PROVE  Keeps
  OBVIOUS
<1>1. CASE drain'[d] = drain[d]
  BY <1>1 DEF SpacedInv, Crawling
<1>2. ASSUME NEW e \in Drains, e # d, DrainStep(e) \/ FaultStep(e)
      PROVE  drain'[d] = drain[d]
  BY <1>2 DEF DrainStep, FaultStep, StartDrain, LoadDue, EndDrain, MarkTargetStarted, Run,
     MarkTargetRun, Supersede, AfterMark, PruneCrawlTargets, ContextDies, Crash, Shape, TypeOK
<1>3. CASE MarkTargetStarted(d)
  <2>1. PICK t \in drain[d].due :
            \/ drain' = [drain EXCEPT ![d].pc = "crawl", ![d].cur = t.id, ![d].due = @ \ {t}]
            \/ drain' = [drain EXCEPT ![d].due = @ \ {t}]
    BY <1>3 DEF MarkTargetStarted
  <2>2. drain'[d].due = drain[d].due \ {t}
    BY <2>1 DEF Shape, TypeOK, DrainState
  <2>3. \A u \in drain'[d].due : u.id # t.id
    BY <2>2 DEF SpacedInv
  <2>4. Crawling(d)' => drain'[d].cur = t.id
    BY <1>3, <2>1 DEF MarkTargetStarted, Crawling, Shape, TypeOK, DrainState
  <2> QED
    BY <2>2, <2>3, <2>4
<1>4. CASE LoadDue(d)
  BY <1>4 DEF LoadDue, Crawling, Shape, TypeOK, DrainState
<1>5. CASE StartDrain(d) \/ EndDrain(d) \/ MarkTargetRun(d) \/ Supersede(d)
           \/ \E o \in Outcomes : Run(d, o)
  BY <1>5 DEF StartDrain, EndDrain, Run, MarkTargetRun, Supersede, AfterMark, Crawling,
     SpacedInv, Shape, TypeOK, DrainState
<1>6. CASE PruneCrawlTargets(d) \/ ContextDies(d) \/ Crash(d)
  BY <1>6 DEF PruneCrawlTargets, ContextDies, Crash, IdleDrain, Crawling, SpacedInv,
     Shape, TypeOK, DrainState
<1> QED
  BY <1>1, <1>2, <1>3, <1>4, <1>5, <1>6, ClientFrame, ManageFrame, TimeFrame
     DEF Next, DrainStep, FaultStep, vars

\* A row starts running because a drain claimed it from its snapshot.
LEMMA StartedFromSnapshot ==
    ASSUME Shape, [Next]_vars, NEW i \in Ids, row[i].status # "running",
           row'[i].status = "running"
    PROVE  \E d \in Drains : \E t \in drain[d].due : MarkTargetStarted(d) /\ t.id = i
<1>1. ASSUME NEW gone \in SUBSET Ids, Forget(gone)
      PROVE  FALSE
  BY <1>1 DEF Forget, NoRow
<1>2. ASSUME NEW c \in Clients, CreateCrawlTarget(c)
      PROVE  FALSE
  BY <1>2 DEF CreateCrawlTarget, Shape, TypeOK
<1>3. ASSUME NEW j \in Ids, PromoteCrawlTargetToStanding(j)
      PROVE  FALSE
  BY <1>3 DEF PromoteCrawlTargetToStanding, Once, Shape, TypeOK, Row, NoRow
<1>4. ASSUME NEW d \in Drains, MarkTargetStarted(d)
      PROVE  \E t \in drain[d].due : t.id = i
  <2>1. PICK t \in drain[d].due : Claim(t.id)
    BY <1>4 DEF MarkTargetStarted
  <2> QED
    BY <2>1 DEF Claim, Shape, TypeOK
<1>5. ASSUME NEW d \in Drains, MarkTargetRun(d)
      PROVE  FALSE
  <2>1. drain[d].cur \in Ids
    BY <1>5, CrawlingCur DEF MarkTargetRun, Crawling
  <2> QED
    BY <1>5, <2>1 DEF MarkTargetRun, Record, Shape, TypeOK, Row, NoRow
<1>6. ASSUME NEW d \in Drains, Supersede(d)
      PROVE  FALSE
  <2>1. drain[d].cur \in Ids
    BY <1>6, CrawlingCur DEF Supersede, Crawling
  <2> QED
    BY <1>6, <2>1 DEF Supersede, Shape, TypeOK, Row, NoRow
<1>7. ASSUME NEW d \in Drains, StartDrain(d)
      PROVE  FALSE
  BY <1>7 DEF StartDrain, RecoverStaleTargets, Shape, StaleRunning, TypeOK, Row, NoRow
<1>8. ASSUME NEW d \in Drains, PruneCrawlTargets(d)
      PROVE  FALSE
  BY <1>1, <1>8 DEF PruneCrawlTargets
<1>9. ASSUME NEW d \in Drains, DrainStep(d) \/ FaultStep(d)
      PROVE  MarkTargetStarted(d)
  BY <1>5, <1>6, <1>7, <1>8, <1>9
     DEF DrainStep, FaultStep, LoadDue, EndDrain, Run, ContextDies, Crash
<1> QED
  BY <1>1, <1>2, <1>3, <1>4, <1>9, ClientFrame, ManageFrame, TimeFrame DEF Next, vars

\* Ids are handed out in order.
LEMMA NextIdGrows == ASSUME Shape, [Next]_vars PROVE nextId <= nextId' /\ nextId' \in Nat
<1>1. nextId \in Nat
  BY QueueAssumption DEF Shape, TypeOK
<1>2. ASSUME NEW c \in Clients, ClientStep(c)
      PROVE  nextId' \in {nextId, nextId + 1}
  BY <1>2 DEF ClientStep, RequestCrawl, SeedCrawlTargets, ReEnable, LockAndMatch,
     CreateCrawlTarget
<1>3. ASSUME NEW d \in Drains, DrainStep(d) \/ FaultStep(d)
      PROVE  nextId' = nextId
  BY <1>3 DEF DrainStep, FaultStep, StartDrain, LoadDue, EndDrain, MarkTargetStarted, Run,
     MarkTargetRun, Supersede, PruneCrawlTargets, ContextDies, Crash
<1>4. ASSUME NEW i \in Ids, TimeStep(i)
      PROVE  nextId' = nextId
  BY <1>4 DEF TimeStep, SpacingElapses, ClaimAges
<1> QED
  BY <1>1, <1>2, <1>3, <1>4, ManageFrame DEF Next, vars

\* Every step of a drain that works alone keeps its snapshot news.
LEMMA NextSpacedInv ==
    ASSUME \A d, e \in Drains : d = e, "promote" \notin Calls
    PROVE  Shape /\ SpacedInv /\ [Next]_vars => SpacedInv'
<1> SUFFICES ASSUME Shape, SpacedInv, [Next]_vars, NEW d \in Drains, NEW t \in drain'[d].due
             PROVE  /\ \A u \in drain'[d].due : t.id = u.id => t = u
                    /\ t.id < nextId'
                    /\ Crawling(d)' => t.id # drain'[d].cur
                    /\ t.kind = "standing" => t.id \notin recent'
                    /\ t.kind = "once" => ~Standing(t.id)'
  BY DEF SpacedInv
<1>1. CASE drain'[d].due = DueCrawlTargets /\ drain'[d].pc = "loop" /\ LoadDue(d)
  <2>1. PICK i \in Ids : IsDue(i) /\ t = [id |-> i, kind |-> row[i].kind]
    BY <1>1 DEF DueCrawlTargets
  <2>2. UNCHANGED <<row, recent, nextId>>
    BY <1>1 DEF LoadDue
  <2>3. i < nextId /\ (t.kind = "standing" => i \notin recent)
    BY <2>1, PresentRow DEF IsDue, Present, Standing, PendingOnce, Once
  <2>4. \A u \in drain'[d].due : t.id = u.id => t = u
    BY <1>1, <2>1 DEF DueCrawlTargets
  <2> QED
    BY <1>1, <2>1, <2>2, <2>3, <2>4 DEF Crawling, Standing
<1>2. CASE /\ drain'[d].due \subseteq drain[d].due
           /\ Crawling(d)' => \A u \in drain'[d].due : u.id # drain'[d].cur
  <2>1. /\ t \in drain[d].due /\ t.id \in Ids /\ t.id < nextId /\ nextId \in Nat
        /\ \A u \in drain[d].due : t.id = u.id => t = u
    BY <1>2, QueueAssumption DEF SpacedInv, Shape, TypeOK, DrainState, DueEntry
  <2>2. t.id < nextId'
    BY <2>1, NextIdGrows DEF Ids
  <2>3. ASSUME t.kind = "standing", t.id \in recent'
        PROVE  FALSE
    <3>1. t.id \notin recent
      BY <2>1, <2>3 DEF SpacedInv
    <3>2. CASE MarkTargetStarted(d) /\ Once(t.id) /\ Claim(t.id)
      <4>1. drain'[d].due \subseteq drain[d].due /\ row'[t.id] # row[t.id]
        BY <1>2, <2>1, <3>2 DEF Claim, Claimable, PendingOnce, Standing, Once, Shape, TypeOK,
           Row, NoRow
      <4>2. PICK u \in drain[d].due : /\ drain'[d].due = drain[d].due \ {u}
                                      /\ Claim(u.id) \/ row' = row
        BY <3>2 DEF MarkTargetStarted, Shape, TypeOK, DrainState
      <4>3. u.id = t.id
        BY <2>1, <4>1, <4>2 DEF Claim, Shape, TypeOK
      <4> QED
        BY <2>1, <4>2, <4>3
    <3>3. CASE MarkTargetRun(d) /\ drain[d].cur = t.id
      BY <2>1, <3>3 DEF MarkTargetRun, SpacedInv, Crawling
    <3> QED
      BY <2>3, <3>1, <3>2, <3>3, RecentStep
  <2>4. ASSUME t.kind = "once", row'[t.id].kind = "standing"
        PROVE  FALSE
    <3>1. ~Standing(t.id)
      BY <2>1, <2>4 DEF SpacedInv
    <3>2. t.id # nextId
      BY <2>1 DEF Ids
    <3> QED
      BY <2>1, <2>4, <3>1, <3>2, StandingStep DEF Inserted
  <2> QED
    BY <1>2, <2>1, <2>2, <2>3, <2>4 DEF Standing
<1> QED
  BY <1>1, <1>2, SnapshotStep

\* A standing scope is not started again within -standing-every of its last
\* recorded run (DueCrawlTargets, MarkTargetStarted, MarkTargetRun), by a drain
\* that works alone and without promotions: the claim does not look at the
\* spacing again, so another drain's run would go unseen.
THEOREM StandingIsSpaced ==
    ASSUME \A d, e \in Drains : d = e, "promote" \notin Calls
    PROVE  Spec => StandingSpaced
<1>1. Init => SpacedInv
  BY DEF Init, SpacedInv, IdleDrain
<1>2. Shape /\ SpacedInv /\ [Next]_vars =>
          [\A i \in recent : Standing(i) /\ row[i].status # "running"
                                 => row'[i].status # "running"]_vars
  <2> SUFFICES ASSUME Shape, SpacedInv, [Next]_vars, NEW i \in recent, Standing(i),
                      row[i].status # "running", row'[i].status = "running"
               PROVE  FALSE
    OBVIOUS
  <2>1. i \in Ids /\ row[i] \in Row
    BY DEF Shape, TypeOK, Standing, NoRow
  <2>3. PICK d \in Drains : \E t \in drain[d].due : t.id = i
    BY <2>1, StartedFromSnapshot
  <2>4. PICK t \in drain[d].due : t.id = i
    BY <2>3
  <2>5. t.kind = "standing"
    BY <2>4 DEF SpacedInv, Shape, TypeOK, DrainState, DueEntry, Kinds
  <2> QED
    BY <2>4, <2>5 DEF SpacedInv
<1>3. Shape /\ SpacedInv /\ [Next]_vars => SpacedInv'
  BY NextSpacedInv
<1> QED
  BY <1>1, <1>2, <1>3, InitShape, NextShape, PTL DEF Spec, StandingSpaced
=============================================================================
