--------------------------- MODULE ProviderProofs ---------------------------
(***************************************************************************)
(* What the provider client owes the addresses it borrows, and what its    *)
(* walk owes the crawl.  The pool: a proxy is left alone while its ban     *)
(* runs, and between two requests for MinGap; both rest on what the pool   *)
(* still knows of a host, against the history of what really went through  *)
(* it.  The walk: a sweep that ends complete has missed no more than the   *)
(* moves of the market explain, and one that is aborted has a cause.       *)
(***************************************************************************)
EXTENDS Provider, FiniteSetTheorems, SequenceTheorems, NaturalsInduction, WellFoundedInduction, TLAPS

\* The request's fields; what a back-off sleeps is not needed here.
Shaped == req = [phase |-> req.phase, for |-> req.for, attempt |-> req.attempt,
                 sleep |-> req.sleep, left |-> req.left, via |-> req.via]

Clocks == [Hosts -> Nat]

PoolTyped ==
    /\ proxies \in ProxyLists
    /\ benched \in Clocks /\ busy \in Clocks /\ banned \in Clocks
    /\ rested \in [Hosts -> 0 .. MinGap]
    /\ refresh \in Nat
    /\ \A h \in Hosts : banned[h] <= BenchFor

Waiting == req.phase = "gap"

ReqTyped ==
    /\ Shaped
    /\ req.phase \in {"none", "pace", "choose", "gap", "sent", "backoff"}
    /\ Waiting => req.via \in Hosts /\ req.sleep \in Nat /\ setting.mode # "off"

\* What lastUsed reserves reaches over what is left of the last request's gap.
Reserves == \A h \in Hosts : rested[h] + busy[h] >= MinGap

\* A request that waits for a host will have left it alone for MinGap, and what it
\* reserved lies MinGap behind its turn.
WaitsLongEnough ==
    Waiting => /\ rested[req.via] + req.sleep >= MinGap
               /\ busy[req.via] = req.sleep + MinGap

GapInv == PoolTyped /\ ReqTyped /\ Reserves /\ WaitsLongEnough

---------------------------------------------------------------------------
(* Typing.                                                                  *)

LEMMA PoolNumbers ==
    MinGap \in Nat /\ BenchFor \in Nat /\ RefreshEvery \in Nat /\ BenchFor < RefreshEvery
  BY PoolAssumption

LEMMA InitTyped == Init => PoolTyped /\ ReqTyped
  <1>. SUFFICES ASSUME Init PROVE PoolTyped /\ ReqTyped
    OBVIOUS
  <1>1. PoolTyped
    BY PoolAssumption DEF Init, PoolInit, PoolTyped, Clocks
  <1>2. ReqTyped
    BY DEF Init, NoReq, ReqTyped, Shaped, Waiting
  <1>. QED
    BY <1>1, <1>2

\* The steps by what they do to the pool: those that do not even touch the request ...
Apart == UNCHANGED <<poolVars, setting, req>>

\* ... and those that take the request on without a proxy, or end it.
Elsewhere ==
    /\ UNCHANGED <<poolVars, setting>>
    /\ ReqTyped' /\ ~Waiting'
    /\ Waiting => req'.phase # "sent"

LEMMA FailureElsewhere ==
    ASSUME ReqTyped, NEW retryable \in BOOLEAN, AttemptFails(retryable), UNCHANGED <<poolVars, setting>>
    PROVE  Elsewhere
  <1>1. CASE Failed
    BY <1>1 DEF Failed, ReqTyped, Shaped, Waiting, NoReq, Elsewhere
  <1>2. ASSUME NEW s, req' = [req EXCEPT !.phase = "backoff", !.sleep = s]
        PROVE  Elsewhere
    BY <1>2 DEF ReqTyped, Shaped, Waiting, Elsewhere
  <1>. QED
    BY <1>1, <1>2, Zenon DEF AttemptFails

LEMMA WaitElsewhere ==
    ASSUME ReqTyped, UNCHANGED <<poolVars, setting>>,
           NEW f, NEW n, NEW s, NEW l, NEW v, NEW p,
           Wait([phase |-> p, for |-> f, attempt |-> n, sleep |-> s, left |-> l, via |-> v])
    PROVE  Elsewhere
  <1>. req' = [phase |-> "pace", for |-> f, attempt |-> n, sleep |-> pace, left |-> l, via |-> v]
    BY DEF Wait
  <1>. QED
    BY DEF ReqTyped, Shaped, Waiting, Elsewhere

\* Every step is of one of these kinds.
LEMMA StepKinds ==
    ASSUME ReqTyped, [Next]_vars
    PROVE  Apart \/ Elsewhere \/ ChooseProxy \/ SendVia \/ Forbidden \/ Refresh \/ Tick
  <1>1. CASE UNCHANGED vars
    BY <1>1 DEF vars, Apart
  <1>2. CASE Search
    BY <1>2 DEF Search, Apart
  <1>3. CASE AskPage
    BY <1>3, WaitElsewhere DEF AskPage, NoReq
  <1>4. CASE AskDetail
    <2>1. PICK l : Wait([NoReq EXCEPT !.for = l])
      BY <1>4 DEF AskDetail
    <2>. QED
      BY <1>4, <2>1, WaitElsewhere DEF AskDetail, NoReq
  <1>5. CASE BeginAttempt
    BY <1>5 DEF BeginAttempt, ReqTyped, Shaped, Waiting, Elsewhere
  <1>6. CASE SendDirect
    BY <1>6 DEF SendDirect, ReqTyped, Shaped, Waiting, Elsewhere
  <1>7. CASE PoolDry
    BY <1>7, FailureElsewhere DEF PoolDry
  <1>8. CASE TimesOut
    BY <1>8, FailureElsewhere DEF TimesOut
  <1>9. CASE Faulty
    BY <1>9, FailureElsewhere DEF Faulty
  <1>10. CASE Answered
    BY <1>10 DEF Answered, NoReq, ReqTyped, Shaped, Waiting, Elsewhere
  <1>11. CASE TryAgain
    BY <1>11, WaitElsewhere DEF TryAgain, ReqTyped, Shaped
  <1>12. CASE Cancelled
    BY <1>12 DEF Cancelled, Failed, NoReq, ReqTyped, Shaped, Waiting, Elsewhere
  <1>13. CASE Cancel \/ Deadline \/ Moves
    BY <1>13 DEF Cancel, Deadline, Stops, Moves, Apart
  <1>. QED
    BY <1>1, <1>2, <1>3, <1>4, <1>5, <1>6, <1>7, <1>8, <1>9, <1>10, <1>11, <1>12, <1>13
       DEF Next, RequestStep

---------------------------------------------------------------------------
(* Typing is kept.                                                          *)

LEMMA PoolTypedKept ==
    ASSUME PoolTyped, ReqTyped,
           \/ Apart \/ Elsewhere \/ ChooseProxy \/ SendVia \/ Forbidden \/ Refresh \/ Tick
    PROVE  PoolTyped'
  <1>1. CASE UNCHANGED poolVars
    BY <1>1 DEF poolVars, PoolTyped
  <1>2. CASE ChooseProxy
    <2>1. PICK h \in Hosts : Take(h)
      BY <1>2 DEF ChooseProxy
    <2>. QED
      BY <2>1, PoolNumbers DEF Take, Reserved, PoolTyped, Clocks
  <1>3. CASE SendVia
    <2>1. UNCHANGED <<proxies, benched, busy, banned, refresh>>
      BY <1>3 DEF SendVia, Hit
    <2>2. rested' \in [Hosts -> 0 .. MinGap]
      <3>1. rested' = [rested EXCEPT ![req.via] = 0]
        BY <1>3 DEF SendVia, Hit
      <3>2. 0 \in 0 .. MinGap
        BY PoolNumbers
      <3>. QED
        BY <3>1, <3>2 DEF PoolTyped
    <2>. QED
      BY <2>1, <2>2 DEF PoolTyped
  <1>4. CASE Forbidden
    <2>1. UNCHANGED <<proxies, busy, rested, refresh>>
      BY <1>4 DEF Forbidden, Bench
    <2>2. /\ benched' = [benched EXCEPT ![req.via] = BenchFor]
          /\ banned' = [banned EXCEPT ![req.via] = BenchFor]
      BY <1>4 DEF Forbidden, Bench
    <2>3. benched' \in Clocks /\ banned' \in Clocks
      BY <2>2, PoolNumbers DEF PoolTyped, Clocks
    <2>4. \A h \in Hosts : banned'[h] <= BenchFor
      BY <2>2, PoolNumbers DEF PoolTyped, Clocks
    <2>. QED
      BY <2>1, <2>3, <2>4 DEF PoolTyped
  <1>5. CASE Refresh
    BY <1>5, PoolNumbers DEF Refresh, RefreshProxies, Replace, Keep, PoolTyped, Clocks
  <1>6. CASE PoolTick
    BY <1>6, PoolNumbers DEF PoolTick, Less, PoolTyped, Clocks
  <1>7. CASE Tick
    BY <1>7, <1>1, <1>6 DEF Tick
  <1>. QED
    BY <1>1, <1>2, <1>3, <1>4, <1>5, <1>7 DEF Apart, Elsewhere, poolVars

LEMMA ReqTypedKept ==
    ASSUME PoolTyped, ReqTyped,
           \/ Apart \/ Elsewhere \/ ChooseProxy \/ SendVia \/ Forbidden \/ Refresh \/ Tick
    PROVE  ReqTyped'
  <1>1. CASE Apart \/ Elsewhere
    BY <1>1 DEF Apart, Elsewhere, ReqTyped, Shaped, Waiting
  <1>2. CASE ChooseProxy
    <2>1. PICK h \in Hosts : req' = [req EXCEPT !.phase = "gap", !.via = h, !.sleep = busy[h]]
      BY <1>2 DEF ChooseProxy
    <2>2. setting' = setting /\ setting.mode # "off"
      BY <1>2 DEF ChooseProxy, Proxied
    <2>. QED
      BY <2>1, <2>2 DEF ReqTyped, Shaped, Waiting, PoolTyped, Clocks
  <1>3. CASE SendVia \/ Forbidden
    BY <1>3 DEF SendVia, Forbidden, ReqTyped, Shaped, Waiting
  <1>4. CASE Refresh
    BY <1>4 DEF Refresh, ReqTyped, Shaped, Waiting
  <1>5. CASE Tick
    <2>1. PICK s, l : /\ req' = [req EXCEPT !.sleep = s, !.left = l]
                      /\ req.sleep \in Nat => s \in Nat
      <3>1. req.sleep \in Nat => (IF req.sleep = 0 THEN 0 ELSE req.sleep - 1) \in Nat
        OBVIOUS
      <3>. QED
        BY <1>5, <3>1, Zenon DEF Tick
    <2>2. setting' = setting
      BY <1>5 DEF Tick
    <2>. QED
      BY <2>1, <2>2 DEF ReqTyped, Shaped, Waiting
  <1>. QED
    BY <1>1, <1>2, <1>3, <1>4, <1>5

---------------------------------------------------------------------------
(* The gap between two requests through one host.                           *)

LEMMA InitGap == Init => Reserves /\ WaitsLongEnough
  BY PoolNumbers DEF Init, PoolInit, NoReq, Reserves, WaitsLongEnough, Waiting

LEMMA GapKeptOn ==
    ASSUME GapInv,
           \/ Apart \/ Elsewhere \/ ChooseProxy \/ SendVia \/ Forbidden \/ Refresh \/ Tick
    PROVE  (Reserves /\ WaitsLongEnough)'
  <1>. USE PoolNumbers DEF GapInv
  <1>1. CASE Apart
    BY <1>1 DEF Apart, poolVars, Reserves, WaitsLongEnough, Waiting
  <1>2. CASE Elsewhere
    BY <1>2 DEF Elsewhere, poolVars, Reserves, WaitsLongEnough
  <1>3. CASE ChooseProxy
    <2>1. PICK h \in Hosts :
              Take(h) /\ req' = [req EXCEPT !.phase = "gap", !.via = h, !.sleep = busy[h]]
      BY <1>3 DEF ChooseProxy
    <2>2. req'.via = h /\ req'.sleep = busy[h]
      BY <2>1 DEF ReqTyped, Shaped
    <2>3. /\ rested' = rested
          /\ \A g \in Hosts : busy'[g] = IF g = h THEN busy[h] + MinGap ELSE busy[g]
      BY <2>1 DEF Take, Reserved, PoolTyped, Clocks
    <2>. QED
      BY <2>2, <2>3 DEF PoolTyped, Clocks, Reserves, WaitsLongEnough
  <1>4. CASE SendVia
    <2>1. busy[req.via] = MinGap /\ req.via \in Hosts
      BY <1>4 DEF SendVia, Slept, ReqTyped, WaitsLongEnough, Waiting
    <2>2. /\ busy' = busy
          /\ \A g \in Hosts : rested'[g] = IF g = req.via THEN 0 ELSE rested[g]
      BY <1>4 DEF SendVia, Hit, PoolTyped
    <2>3. ~Waiting'
      BY <1>4 DEF SendVia, ReqTyped, Shaped, Waiting
    <2>. QED
      BY <2>1, <2>2, <2>3 DEF PoolTyped, Clocks, Reserves, WaitsLongEnough
  <1>5. CASE Forbidden
    <2>1. UNCHANGED <<busy, rested>> /\ ~Waiting'
      BY <1>5 DEF Forbidden, Bench, ReqTyped, Shaped, Waiting
    <2>. QED
      BY <2>1 DEF Reserves, WaitsLongEnough
  <1>6. CASE Refresh
    BY <1>6 DEF Refresh, RefreshProxies, Reserves, WaitsLongEnough, Waiting
  <1>7. CASE Tick
    <2>1. /\ req'.phase = req.phase /\ req'.via = req.via
          /\ req'.sleep = IF req.sleep = 0 THEN 0 ELSE req.sleep - 1
      BY <1>7 DEF Tick, ReqTyped, Shaped
    <2>2. Waiting => req.sleep # 0
      BY <1>7 DEF Tick, Due, Slept, Waiting
    <2>3. CASE UNCHANGED poolVars /\ ~Waiting
      BY <2>1, <2>3 DEF poolVars, Reserves, WaitsLongEnough, Waiting
    <2>4. CASE PoolTick
      <3>1. \A g \in Hosts : /\ busy'[g] = IF busy[g] = 0 THEN 0 ELSE busy[g] - 1
                             /\ rested'[g] = IF rested[g] = MinGap THEN MinGap ELSE rested[g] + 1
        BY <2>4 DEF PoolTick, Less
      <3>2. Reserves'
        BY <3>1 DEF PoolTyped, Clocks, Reserves
      <3>3. WaitsLongEnough'
        BY <2>1, <2>2, <3>1 DEF PoolTyped, Clocks, ReqTyped, WaitsLongEnough, Waiting
      <3>. QED
        BY <3>2, <3>3
    <2>. QED
      BY <1>7, <2>3, <2>4 DEF Tick, ReqTyped
  <1>. QED
    BY <1>1, <1>2, <1>3, <1>4, <1>5, <1>6, <1>7

\* Two requests through one proxy are MinGap apart: whoever is sent through it waited
\* out what Pick found, and had reserved its turn (webshare.go:169-170).
THEOREM GapsAreKept == Spec => GapKept
  <1>1. Init => GapInv
    BY InitTyped, InitGap DEF GapInv
  <1>2. GapInv /\ [Next]_vars => GapInv'
    BY StepKinds, PoolTypedKept, ReqTypedKept, GapKeptOn, Zenon DEF GapInv
  <1>3. GapInv /\ [Next]_vars => [Sends => rested[req.via] = MinGap]_vars
    <2>. SUFFICES ASSUME GapInv, [Next]_vars, Sends
                  PROVE  rested[req.via] = MinGap
      OBVIOUS
    <2>1. SendVia
      BY StepKinds
         DEF GapInv, Sends, Apart, Elsewhere, ReqTyped, Shaped, ChooseProxy, Forbidden, Refresh, Tick, Waiting
    <2>. QED
      BY <2>1, PoolNumbers
         DEF GapInv, PoolTyped, ReqTyped, WaitsLongEnough, Waiting, SendVia, Slept
  <1>. QED
    BY <1>1, <1>2, <1>3, PTL DEF Spec, GapKept

---------------------------------------------------------------------------
(* Bans.                                                                    *)

\* The pool remembers a running ban, or the list the host is missing from is too
\* young for the host to be back before the ban has run out.
Remembers ==
    \A h \in Hosts :
        \/ banned[h] <= benched[h]
        \/ h \notin Range(proxies) /\ banned[h] <= refresh

\* Whoever waits for a host has picked it with its ban over.
WaitsUnbanned == Waiting => banned[req.via] = 0

BanInv == PoolTyped /\ ReqTyped /\ Remembers /\ WaitsUnbanned

LEMMA InitBans == Init => Remembers /\ WaitsUnbanned
  BY DEF Init, PoolInit, NoReq, Remembers, WaitsUnbanned, Waiting

LEMMA BansKeptOn ==
    ASSUME BanInv,
           \/ Apart \/ Elsewhere \/ ChooseProxy \/ SendVia \/ Forbidden \/ Refresh \/ Tick
    PROVE  (Remembers /\ WaitsUnbanned)'
  <1>. USE PoolNumbers DEF BanInv
  <1>1. CASE Apart
    BY <1>1 DEF Apart, poolVars, Remembers, WaitsUnbanned, Waiting
  <1>2. CASE Elsewhere
    BY <1>2 DEF Elsewhere, poolVars, Remembers, WaitsUnbanned
  <1>3. CASE ChooseProxy
    <2>1. PICK h \in Hosts :
              Picks(h) /\ Take(h) /\ req' = [req EXCEPT !.phase = "gap", !.via = h, !.sleep = busy[h]]
      BY <1>3 DEF ChooseProxy
    <2>2. req'.via = h
      BY <2>1 DEF ReqTyped, Shaped
    <2>3. h \in Range(proxies) /\ benched[h] = 0
      BY <2>1 DEF Picks, Usable
    <2>4. UNCHANGED <<proxies, benched, banned, refresh>>
      BY <2>1 DEF Take
    <2>. QED
      BY <2>2, <2>3, <2>4 DEF PoolTyped, Clocks, Remembers, WaitsUnbanned
  <1>4. CASE SendVia
    <2>1. UNCHANGED <<proxies, benched, banned, refresh>> /\ ~Waiting'
      BY <1>4 DEF SendVia, Hit, ReqTyped, Shaped, Waiting
    <2>. QED
      BY <2>1 DEF Remembers, WaitsUnbanned
  <1>5. CASE Forbidden
    <2>1. /\ UNCHANGED <<proxies, refresh>> /\ ~Waiting'
          /\ \A g \in Hosts : \/ benched'[g] = benched[g] /\ banned'[g] = banned[g]
                              \/ benched'[g] = BenchFor /\ banned'[g] = BenchFor
      BY <1>5 DEF Forbidden, Bench, PoolTyped, Clocks, ReqTyped, Shaped, Waiting
    <2>. QED
      BY <2>1 DEF Remembers, WaitsUnbanned
  <1>6. CASE Refresh
    <2>1. UNCHANGED <<banned, req>> /\ refresh = 0 /\ refresh' = RefreshEvery
      BY <1>6 DEF Refresh, RefreshProxies
    <2>2. \A h \in Hosts : h \in Range(proxies') => benched'[h] = benched[h]
      BY <1>6 DEF Refresh, RefreshProxies, Replace, Keep
    <2>3. Remembers'
      BY <2>1, <2>2 DEF PoolTyped, Clocks, Remembers
    <2>. QED
      BY <2>1, <2>3 DEF WaitsUnbanned, Waiting
  <1>7. CASE Tick
    <2>1. req'.phase = req.phase /\ req'.via = req.via
      BY <1>7 DEF Tick, ReqTyped, Shaped
    <2>2. CASE UNCHANGED poolVars
      BY <2>1, <2>2 DEF poolVars, Remembers, WaitsUnbanned, Waiting
    <2>3. CASE PoolTick
      <3>1. /\ proxies' = proxies
            /\ refresh' = IF refresh = 0 THEN 0 ELSE refresh - 1
            /\ \A g \in Hosts : /\ banned'[g] = IF banned[g] = 0 THEN 0 ELSE banned[g] - 1
                                /\ benched'[g] = IF benched[g] = 0 THEN 0 ELSE benched[g] - 1
        BY <2>3 DEF PoolTick, Less
      <3>2. Remembers'
        BY <3>1 DEF PoolTyped, Clocks, Remembers
      <3>3. WaitsUnbanned'
        BY <2>1, <3>1 DEF ReqTyped, WaitsUnbanned, Waiting
      <3>. QED
        BY <3>2, <3>3
    <2>. QED
      BY <1>7, <2>2, <2>3 DEF Tick
  <1>. QED
    BY <1>1, <1>2, <1>3, <1>4, <1>5, <1>6, <1>7

\* No request goes through a host whose ban still runs, not even after the list that
\* carried its bench was replaced: a host that left the list cannot be back before the
\* next refresh, and by then the ban is over (webshare.go:92-93).
THEOREM BansAreRespected == Spec => BansRespected
  <1>1. Init => BanInv
    BY InitTyped, InitBans DEF BanInv
  <1>2. BanInv /\ [Next]_vars => BanInv'
    BY StepKinds, PoolTypedKept, ReqTypedKept, BansKeptOn, Zenon DEF BanInv
  <1>3. BanInv /\ [Next]_vars => [Sends => banned[req.via] = 0]_vars
    BY DEF BanInv, WaitsUnbanned, Waiting, Sends
  <1>. QED
    BY <1>1, <1>2, <1>3, PTL DEF Spec, BansRespected

---------------------------------------------------------------------------
(* The walk: its types, and what one step can do to it.                     *)

Ends  == {e \in SUBSET Int : \A p, q \in e : p = q}
Bands == [lo : Ends, hi : Ends]

\* What is asked for in detail has been seen, and can be decoded.
WalkTyped ==
    /\ market \in Markets /\ moves \in Nat /\ stayed \subseteq Ids
    /\ walk = [status |-> walk.status, scope |-> walk.scope, bands |-> walk.bands, page |-> walk.page,
               seen |-> walk.seen, detailed |-> walk.detailed]
    /\ walk.status \in {"idle", "rejected", "walking", "complete", "aborted", "failed"}
    /\ walk.scope \in Bands /\ walk.bands \in Seq(Bands)
    /\ walk.page \in Nat \ {0} /\ (walk.status = "idle" => walk.page = 1)
    /\ walk.status = "walking" => walk.bands # <<>>
    /\ walk.status = "complete" => walk.bands = <<>>
    /\ walk.seen \subseteq Ids /\ walk.detailed \subseteq Decoded(walk)

\* Pages are asked for while the walk goes on, and only then.
Underway == req.phase # "none" /\ ~IsSite(req) => walk.status = "walking"

Ended == walk' = [walk EXCEPT !.status = "failed"] /\ UNCHANGED <<market, moves, stayed>>
Detailing ==
    /\ walk.status \in {"complete", "aborted", "failed"}
    /\ \E l \in Decoded(walk) : walk' = [walk EXCEPT !.detailed = @ \cup {l}]
    /\ UNCHANGED <<market, moves, stayed>>
PageTaken ==
    /\ walk.status = "walking"
    /\ TakePage(Answer(Head(walk.bands), walk.page))
    /\ UNCHANGED <<market, moves, stayed>>
WalkStep ==
    UNCHANGED walkVars \/ StartSearch \/ RejectSearch \/ PageTaken \/ MarketMoves \/ Ended \/ Detailing

LEMMA FailureEnds ==
    ASSUME ReqTyped, WalkTyped, Underway, NEW retryable \in BOOLEAN, AttemptFails(retryable), req.phase # "none",
           UNCHANGED <<market, moves, stayed>>
    PROVE  Underway' /\ WalkStep
  <1>1. CASE Failed
    <2>1. req'.phase = "none"
      BY <1>1 DEF Failed, NoReq
    <2>. QED
      BY <1>1, <2>1 DEF Failed, Underway, WalkStep, walkVars, Ended
  <1>2. ASSUME NEW s, req' = [req EXCEPT !.phase = "backoff", !.sleep = s], UNCHANGED walk, req.phase # "none"
        PROVE  Underway' /\ WalkStep
    <2>1. req'.for = req.for
      BY <1>2 DEF ReqTyped, Shaped
    <2>. QED
      BY <1>2, <2>1 DEF Underway, WalkStep, walkVars, IsSite
  <1>. QED
    BY <1>1, <1>2, Zenon DEF AttemptFails

\* A provider that counts and pages as it should has one answer to a page.
LEMMA TruthfulPage ==
    ASSUME Truthful, PageArrives
    PROVE  TakePage(Answer(Head(walk.bands), walk.page))
  <1>1. "counting" \notin setting.events
    BY DEF Truthful
  <1>2. Answers = {Answer(Head(walk.bands), walk.page)}
    BY DEF Answers
  <1>3. \A out : ~OneTooMany(out)
    BY <1>1 DEF OneTooMany
  <1>. QED
    BY <1>2, <1>3, Zenon DEF PageArrives

\* How the walk goes on with such a provider.
LEMMA WalkSteps ==
    ASSUME ReqTyped, WalkTyped, Underway, Truthful, [Next]_vars
    PROVE  Underway' /\ WalkStep
  <1>1. CASE UNCHANGED vars
    BY <1>1 DEF vars, walkVars, Underway, IsSite, WalkStep
  <1>2. CASE Search
    <2>1. req.phase = "none"
      BY <1>2 DEF Search, NoReq
    <2>. QED
      BY <1>2, <2>1 DEF Search, WalkStep, Underway
  <1>3. CASE AskPage
    BY <1>3 DEF AskPage, walkVars, WalkStep, Underway
  <1>4. CASE AskDetail
    <2>1. PICK l \in Decoded(walk) : /\ Wait([NoReq EXCEPT !.for = l])
                                     /\ walk' = [walk EXCEPT !.detailed = @ \cup {l}]
      <3>1. Decoded(walk) \ walk.detailed # {}
        BY <1>4 DEF AskDetail, WalkTyped
      <3>. QED
        BY <1>4, <3>1, Zenon DEF AskDetail
    <2>2. req' = [phase |-> "pace", for |-> l, attempt |-> 1, sleep |-> pace, left |-> 0, via |-> "direct"]
      BY <2>1 DEF Wait, NoReq
    <2>3. l \in Ids
      BY <2>1 DEF WalkTyped, Decoded
    <2>. QED
      BY <1>4, <2>1, <2>2, <2>3 DEF AskDetail, WalkStep, Detailing, Underway, IsSite
  <1>5. ASSUME UNCHANGED walkVars, req.phase # "none", req'.for = req.for
        PROVE  Underway' /\ WalkStep
    BY <1>5 DEF walkVars, WalkStep, Underway, IsSite
  <1>6. CASE BeginAttempt \/ SendDirect \/ SendVia \/ Forbidden
    <2>1. req.phase # "none" /\ req'.for = req.for
      BY <1>6 DEF BeginAttempt, SendDirect, SendVia, Forbidden, ReqTyped, Shaped
    <2>. QED
      BY <1>5, <1>6, <2>1 DEF BeginAttempt, SendDirect, SendVia, Forbidden
  <1>7. CASE ChooseProxy
    <2>1. PICK h \in Hosts : req' = [req EXCEPT !.phase = "gap", !.via = h, !.sleep = busy[h]]
      BY <1>7 DEF ChooseProxy
    <2>2. req'.for = req.for
      BY <2>1 DEF ReqTyped, Shaped
    <2>. QED
      BY <1>5, <1>7, <2>2 DEF ChooseProxy
  <1>8. CASE PoolDry
    BY <1>8, FailureEnds DEF PoolDry
  <1>9. CASE TimesOut
    BY <1>9, FailureEnds DEF TimesOut
  <1>10. CASE Faulty
    BY <1>10, FailureEnds DEF Faulty
  <1>11. CASE Answered
    <2>1. req'.phase = "none" /\ req.phase # "none"
      BY <1>11 DEF Answered, NoReq
    <2>2. CASE IsSite(req)
      BY <1>11, <2>1, <2>2 DEF Answered, Underway, WalkStep, walkVars
    <2>3. CASE ~IsSite(req)
      <3>1. alive => TakePage(Answer(Head(walk.bands), walk.page))
        BY <1>11, <2>3, TruthfulPage DEF Answered
      <3>. QED
        BY <1>11, <2>1, <2>3, <3>1 DEF Answered, Underway, WalkStep, PageTaken, Ended
    <2>. QED
      BY <2>2, <2>3
  <1>12. CASE TryAgain
    <2>1. req' = [phase |-> "pace", for |-> req.for, attempt |-> req.attempt + 1, sleep |-> pace,
                  left |-> req.left, via |-> req.via]
      BY <1>12 DEF TryAgain, Wait, ReqTyped, Shaped
    <2>. QED
      BY <1>5, <1>12, <2>1 DEF TryAgain
  <1>13. CASE Cancelled
    <2>1. req'.phase = "none"
      BY <1>13 DEF Cancelled, Failed, NoReq
    <2>. QED
      BY <1>13, <2>1 DEF Cancelled, Failed, Underway, WalkStep, walkVars, Ended
  <1>14. CASE Cancel \/ Deadline \/ Refresh
    BY <1>14 DEF Cancel, Deadline, Stops, Refresh, WalkStep, Underway, IsSite, walkVars
  <1>15. CASE Moves
    BY <1>15 DEF Moves, MarketMoves, WalkStep, Underway, IsSite
  <1>16. CASE Tick
    <2>1. PICK s, l : req' = [req EXCEPT !.sleep = s, !.left = l]
      BY <1>16, Zenon DEF Tick
    <2>2. req'.phase = req.phase /\ req'.for = req.for
      BY <2>1 DEF ReqTyped, Shaped
    <2>. QED
      BY <1>16, <2>2 DEF Tick, walkVars, WalkStep, Underway, IsSite
  <1>. QED
    BY <1>1, <1>2, <1>3, <1>4, <1>6, <1>7, <1>8, <1>9, <1>10, <1>11, <1>12, <1>13, <1>14, <1>15, <1>16
       DEF Next, RequestStep

---------------------------------------------------------------------------
(* What stands where in the answer to a band.                               *)

LEMMA WalkNumbers ==
    /\ IsFiniteSet(Ids) /\ Rank \in [Ids -> Nat] /\ \A k, l \in Ids : Rank[k] = Rank[l] => k = l
    /\ Prices \subseteq Nat \ {0}
    /\ PerPage \in Nat \ {0} /\ ResultCap \in Nat \ {0} /\ MaxPages \in Nat \ {0}
  BY WalkAssumption

LEMMA SmallSets ==
    \A S \in SUBSET Ids : /\ IsFiniteSet(S) /\ Cardinality(S) \in Nat
                          /\ \A x \in Ids : Cardinality(S \cup {x}) <= Cardinality(S) + 1
  <1>1. \A S \in SUBSET Ids : IsFiniteSet(S) /\ Cardinality(S) \in Nat
    BY WalkNumbers, FS_Subset, FS_CardinalityType
  <1>2. \A S \in SUBSET Ids, x \in Ids : Cardinality(S \cup {x}) <= Cardinality(S) + 1
    <2>. TAKE S \in SUBSET Ids, x \in Ids
    <2>1. IsFiniteSet(S) /\ Cardinality(S) \in Nat
      BY <1>1
    <2>. QED
      BY <2>1, FS_AddElement
  <1>. QED
    BY <1>1, <1>2

Upto(band, l) == {k \in Listed(band) : Rank[k] <= Rank[l]}

LEMMA ListedFinite ==
    ASSUME NEW band
    PROVE  /\ IsFiniteSet(Listed(band)) /\ Cardinality(Listed(band)) \in Nat
           /\ \A l : IsFiniteSet(Upto(band, l)) /\ Place(band, l) = Cardinality(Upto(band, l))
                     /\ Place(band, l) \in Nat
  <1>1. Listed(band) \subseteq Ids /\ \A l : Upto(band, l) \subseteq Ids
    BY DEF Listed, Upto
  <1>2. \A S \in SUBSET Ids : IsFiniteSet(S) /\ Cardinality(S) \in Nat
    BY SmallSets
  <1>3. \A l : Place(band, l) = Cardinality(Upto(band, l))
    BY DEF Place, Upto
  <1>. QED
    BY <1>1, <1>2, <1>3

\* Places are counted from one, and go no further than the count of the band.
LEMMA PlaceBounds ==
    ASSUME NEW band, NEW l \in Listed(band)
    PROVE  1 <= Place(band, l) /\ Place(band, l) <= Cardinality(Listed(band))
  <1>1. l \in Upto(band, l)
    BY WalkNumbers DEF Upto, Listed
  <1>2. Place(band, l) # 0
    BY <1>1, ListedFinite, FS_EmptySet
  <1>3. Upto(band, l) \in SUBSET Listed(band)
    BY DEF Upto
  <1>. QED
    BY <1>2, <1>3, ListedFinite, FS_Subset

\* No two listings stand in one place.
LEMMA PlacesDiffer ==
    ASSUME NEW band, NEW k \in Listed(band), NEW l \in Listed(band), Place(band, k) = Place(band, l)
    PROVE  k = l
  <1>1. ASSUME NEW x \in Listed(band), NEW y \in Listed(band), Rank[x] < Rank[y]
        PROVE  Place(band, x) < Place(band, y)
    <2>1. Rank[x] \in Nat /\ Rank[y] \in Nat /\ \A z \in Listed(band) : Rank[z] \in Nat
      BY WalkNumbers DEF Listed
    <2>2. Upto(band, x) \in SUBSET Upto(band, y)
      BY <1>1, <2>1 DEF Upto
    <2>3. y \in Upto(band, y) /\ y \notin Upto(band, x)
      BY <1>1, <2>1 DEF Upto
    <2>. QED
      BY <2>2, <2>3, ListedFinite, FS_Subset
  <1>2. Rank[k] \in Nat /\ Rank[l] \in Nat /\ k \in Ids /\ l \in Ids
    BY WalkNumbers DEF Listed
  <1>3. ~(Rank[k] < Rank[l]) /\ ~(Rank[l] < Rank[k])
    BY <1>1, ListedFinite
  <1>. QED
    BY <1>2, <1>3, WalkNumbers

\* Every place is taken.
LEMMA PlacesFilled ==
    ASSUME NEW band, NEW i \in 1 .. Cardinality(Listed(band))
    PROVE  \E l \in Listed(band) : Place(band, l) = i
  <1>. DEFINE n == Cardinality(Listed(band))
              f == [l \in Listed(band) |-> Place(band, l)]
  <1>1. n \in Nat /\ IsFiniteSet(1 .. n) /\ Cardinality(1 .. n) = n
    BY ListedFinite, FS_Interval
  <1>2. f \in Injection(Listed(band), 1 .. n)
    <2>1. f \in [Listed(band) -> 1 .. n]
      BY PlaceBounds, ListedFinite
    <2>2. \A k, l \in Listed(band) : f[k] = f[l] => k = l
      BY PlacesDiffer
    <2>. QED
      BY <2>1, <2>2 DEF Injection, IsInjective
  <1>3. f \in Surjection(Listed(band), 1 .. n)
    <2>. HIDE DEF f
    <2>. QED
      BY <1>1, <1>2, FS_Injection
  <1>. QED
    BY <1>3 DEF Surjection

\* What a band's page, and the pages that follow it, show.
Below(band, i) == {l \in Listed(band) : i < Place(band, l) /\ Place(band, l) <= ResultCap}

\* When one listing moves, a place moves by one at most, and all that move go one way.
LEMMA PlacesMove ==
    ASSUME market \in Markets, market' \in Markets, NEW l \in Ids, NEW band,
           \A k \in Ids \ {l} : market'[k] = market[k]
    PROVE  /\ \A k \in Ids \ {l} : k \in Listed(band) <=> k \in Listed(band)'
           /\ \/ \A k \in Ids \ {l} : Place(band, k)' \in {Place(band, k), Place(band, k) - 1}
              \/ \A k \in Ids \ {l} : Place(band, k)' \in {Place(band, k), Place(band, k) + 1}
  <1>1. \A k \in Ids \ {l} : k \in Listed(band) <=> k \in Listed(band)'
    BY DEF Listed, WithinBand
  <1>2. \A k : /\ IsFiniteSet(Upto(band, k)) /\ IsFiniteSet(Upto(band, k)')
               /\ Place(band, k) = Cardinality(Upto(band, k)) /\ Place(band, k) \in Nat
               /\ Place(band, k)' = Cardinality(Upto(band, k)') /\ Place(band, k)' \in Nat
    <2>1. \A k : Upto(band, k)' \subseteq Ids
      BY DEF Upto, Listed
    <2>2. \A k : Place(band, k)' = Cardinality(Upto(band, k)')
      BY DEF Place, Upto
    <2>3. \A k : IsFiniteSet(Upto(band, k)') /\ Cardinality(Upto(band, k)') \in Nat
      BY <2>1, SmallSets
    <2>. QED
      BY <2>2, <2>3, ListedFinite
  <1>3. \A k : Upto(band, k) \ {l} = Upto(band, k)' \ {l}
    BY <1>1 DEF Upto, Listed
  <1>4. CASE l \in Listed(band)
    <2>1. ASSUME NEW k PROVE Place(band, k)' \in {Place(band, k), Place(band, k) - 1}
      <3>1. Upto(band, k)' = Upto(band, k) \/ Upto(band, k)' = Upto(band, k) \ {l}
        BY <1>3, <1>4 DEF Upto
      <3>. QED
        BY <3>1, <1>2, FS_RemoveElement
    <2>. QED
      BY <1>1, <2>1
  <1>5. CASE l \notin Listed(band)
    <2>1. ASSUME NEW k PROVE Place(band, k)' \in {Place(band, k), Place(band, k) + 1}
      <3>1. Upto(band, k)' = Upto(band, k) \/ Upto(band, k)' = Upto(band, k) \cup {l}
        BY <1>3, <1>5 DEF Upto
      <3>. QED
        BY <3>1, <1>2, FS_AddElement
    <2>. QED
      BY <1>1, <2>1
  <1>. QED
    BY <1>4, <1>5

\* So at most two listings are no longer below where the walk stands: the one that
\* moved, and one that slipped past either end.
LEMMA BelowKept ==
    ASSUME market \in Markets, market' \in Markets, NEW l \in Ids, NEW band, NEW i \in Nat,
           \A k \in Ids \ {l} : market'[k] = market[k]
    PROVE  \E x \in Ids : \A k \in Below(band, i) : k \in {l, x} \/ k \in Below(band, i)'
  <1>1. \A k \in Ids \ {l} : k \in Listed(band) <=> k \in Listed(band)'
    BY PlacesMove
  <1>2. \A k : Place(band, k) \in Nat
    BY ListedFinite
  <1>3. ASSUME NEW j, \A k \in Below(band, i) : Place(band, k) # j => k = l \/ k \in Below(band, i)'
        PROVE  \E x \in Ids : \A k \in Below(band, i) : k \in {l, x} \/ k \in Below(band, i)'
    <2>1. CASE \E x \in Listed(band) : Place(band, x) = j
      <3>1. PICK x \in Listed(band) : Place(band, x) = j
        BY <2>1
      <3>2. x \in Ids /\ \A k \in Below(band, i) : Place(band, k) = j => k = x
        BY <3>1, PlacesDiffer DEF Below, Listed
      <3>. QED
        BY <1>3, <3>2
    <2>2. CASE ~\E x \in Listed(band) : Place(band, x) = j
      BY <1>3, <2>2 DEF Below
    <2>. QED
      BY <2>1, <2>2
  <1>4. CASE \A k \in Ids \ {l} : Place(band, k)' \in {Place(band, k), Place(band, k) - 1}
    <2>1. ASSUME NEW k \in Below(band, i), Place(band, k) # i + 1, k # l PROVE k \in Below(band, i)'
      <3>1. k \in Listed(band) /\ k \in Ids /\ k \in Listed(band)' /\ i < Place(band, k) /\ Place(band, k) <= ResultCap
        BY <1>1, <2>1 DEF Below, Listed
      <3>2. Place(band, k)' \in {Place(band, k), Place(band, k) - 1}
        BY <1>4, <2>1, <3>1
      <3>3. i < Place(band, k)' /\ Place(band, k)' <= ResultCap
        BY <1>2, <2>1, <3>1, <3>2, WalkNumbers
      <3>. QED
        BY <3>1, <3>3 DEF Below
    <2>. QED
      BY <1>3, <2>1
  <1>5. CASE \A k \in Ids \ {l} : Place(band, k)' \in {Place(band, k), Place(band, k) + 1}
    <2>1. ASSUME NEW k \in Below(band, i), Place(band, k) # ResultCap, k # l PROVE k \in Below(band, i)'
      <3>1. k \in Listed(band) /\ k \in Ids /\ k \in Listed(band)' /\ i < Place(band, k) /\ Place(band, k) <= ResultCap
        BY <1>1, <2>1 DEF Below, Listed
      <3>2. Place(band, k)' \in {Place(band, k), Place(band, k) + 1}
        BY <1>5, <2>1, <3>1
      <3>3. i < Place(band, k)' /\ Place(band, k)' <= ResultCap
        BY <1>2, <2>1, <3>1, <3>2, WalkNumbers
      <3>. QED
        BY <3>1, <3>3 DEF Below
    <2>. QED
      BY <1>3, <2>1
  <1>. QED
    BY <1>4, <1>5, PlacesMove

---------------------------------------------------------------------------
(* Where a band is split.                                                   *)

LEMMA LeastOfNats ==
    ASSUME NEW S \in SUBSET Nat, S # {}
    PROVE  Min(S) \in S /\ \A x \in S : Min(S) <= x
  <1>. DEFINE R == {p \in Nat \X Nat : p[1] < p[2]}
  <1>1. \E m \in S : \A y \in S : <<y, m>> \notin R
    <2>. HIDE DEF R
    <2>1. IsWellFoundedOn(R, Nat)
      BY NatLessThanWellFounded DEF R, OpToRel
    <2>. QED
      BY <2>1, WFMin, Zenon
  <1>2. PICK m \in S : \A y \in S : <<y, m>> \notin R
    BY <1>1
  <1>3. \A y \in S : m <= y
    <2>. TAKE y \in S
    <2>1. y \in Nat /\ m \in Nat /\ <<y, m>> \notin R
      BY <1>2
    <2>. QED
      BY <2>1
  <1>. QED
    BY <1>3 DEF Min

\* Of finitely many numbers one is the greatest: one that the fewest exceed.
LEMMA GreatestIn ==
    ASSUME NEW S, IsFiniteSet(S), S # {}, NEW f \in [S -> Nat]
    PROVE  \E m \in S : \A k \in S : f[k] <= f[m]
  <1>. DEFINE Over(m) == {k \in S : f[m] < f[k]}
              Counts == {Cardinality(Over(m)) : m \in S}
  <1>1. \A m : IsFiniteSet(Over(m)) /\ Cardinality(Over(m)) \in Nat
    <2>1. \A m : Over(m) \in SUBSET S
      OBVIOUS
    <2>. QED
      BY <2>1, FS_Subset, FS_CardinalityType
  <1>2. Counts \in SUBSET Nat /\ Counts # {}
    BY <1>1
  <1>3. PICK m \in S : \A k \in S : Cardinality(Over(m)) <= Cardinality(Over(k))
    <2>. HIDE DEF Over
    <2>1. Min(Counts) \in Counts /\ \A x \in Counts : Min(Counts) <= x
      <3>. HIDE DEF Counts
      <3>. QED
        BY <1>2, LeastOfNats
    <2>2. PICK m \in S : Min(Counts) = Cardinality(Over(m))
      BY <2>1
    <2>. QED
      BY <2>1, <2>2
  <1>4. ASSUME NEW k \in S, f[m] < f[k] PROVE FALSE
    <2>1. Over(k) \in SUBSET Over(m) /\ k \in Over(m) /\ k \notin Over(k)
      BY <1>4
    <2>2. Cardinality(Over(k)) < Cardinality(Over(m))
      <3>. HIDE DEF Over
      <3>. QED
        BY <1>1, <2>1, FS_Subset
    <2>3. Cardinality(Over(m)) <= Cardinality(Over(k))
      BY <1>3
    <2>. HIDE DEF Over
    <2>. QED
      BY <1>1, <2>2, <2>3
  <1>. QED
    BY <1>4

LEMMA PricesAreNumbers == market \in Markets => \A l \in Ids : market[l] \in Nat
  <1>1. Prices \cup {0} \subseteq Nat
    BY WalkNumbers
  <1>2. market \in [Ids -> Prices \cup {0}] => \A l \in Ids : market[l] \in Prices \cup {0}
    OBVIOUS
  <1>. QED
    BY <1>1, <1>2 DEF Markets

\* The median of a sample is one of its prices.
LEMMA MedianIsPrice ==
    ASSUME market \in Markets, NEW sample \in SUBSET Ids, sample # {}
    PROVE  \E l \in sample : Median(sample) = market[l]
  <1>. DEFINE Cheaper(p) == {l \in sample : market[l] <= p}
              Halves == {p \in {market[l] : l \in sample} : 2 * Cardinality(Cheaper(p)) > Cardinality(sample)}
  <1>1. IsFiniteSet(sample) /\ Cardinality(sample) \in Nat \ {0} /\ \A l \in Ids : market[l] \in Nat
    <2>1. IsFiniteSet(sample)
      BY WalkNumbers, FS_Subset
    <2>2. Cardinality(sample) \in Nat /\ Cardinality(sample) # 0
      BY <2>1, FS_CardinalityType, FS_EmptySet
    <2>3. \A l \in Ids : market[l] \in Nat
      BY PricesAreNumbers
    <2>. QED
      BY <2>1, <2>2, <2>3
  <1>2. PICK m \in sample : \A l \in sample : market[l] <= market[m]
    <2>1. [l \in sample |-> market[l]] \in [sample -> Nat]
      BY <1>1
    <2>2. \E m \in sample : \A l \in sample : [k \in sample |-> market[k]][l] <= [k \in sample |-> market[k]][m]
      BY <1>1, <2>1, GreatestIn
    <2>. QED
      BY <2>2
  <1>3. Cheaper(market[m]) = sample
    BY <1>2
  <1>4. market[m] \in Halves
    <2>1. 2 * Cardinality(Cheaper(market[m])) > Cardinality(sample)
      BY <1>1, <1>3
    <2>. HIDE DEF Cheaper
    <2>. QED
      BY <2>1
  <1>5. Halves \in SUBSET Nat
    BY <1>1
  <1>6. Min(Halves) \in Halves
    BY <1>4, <1>5, LeastOfNats
  <1>. QED
    BY <1>6 DEF Median

LEMMA PivotLies ==
    ASSUME market \in Markets, NEW band \in Bands, NEW edges \in SUBSET Ids, Readable(edges) # {}
    PROVE  /\ Pivot(band, edges) \in Int
           /\ \/ \E l \in edges : Pivot(band, edges) = market[l]
              \/ \E hi \in band.hi : Pivot(band, edges) = hi - 1
  <1>1. PICK l \in edges : Median(Readable(edges)) = market[l]
    <2>1. Readable(edges) \in SUBSET Ids /\ Readable(edges) \subseteq edges
      BY DEF Readable
    <2>. QED
      BY <2>1, MedianIsPrice
  <1>2. market[l] \in Nat
    BY PricesAreNumbers
  <1>. DEFINE S == {market[l]} \cup {hi - 1 : hi \in band.hi}
  <1>3. Min(S) \in S
    <2>1. CASE band.hi = {}
      <3>1. S = {market[l]}
        BY <2>1
      <3>. QED
        BY <1>2, <3>1 DEF Min
    <2>2. CASE band.hi # {}
      <3>1. PICK h \in band.hi : TRUE
        BY <2>2
      <3>2. h \in Int /\ band.hi = {h}
        BY <3>1 DEF Bands, Ends
      <3>3. S = {market[l], h - 1}
        BY <3>2
      <3>. QED
        BY <1>2, <3>2, <3>3 DEF Min
    <2>. QED
      BY <2>1, <2>2
  <1>4. Pivot(band, edges) = Min(S)
    BY <1>1 DEF Pivot
  <1>5. S \subseteq Int
    BY <1>2 DEF Bands, Ends
  <1>. HIDE DEF S
  <1>6. Pivot(band, edges) \in S /\ Pivot(band, edges) \in Int
    BY <1>3, <1>4, <1>5
  <1>. QED
    BY <1>6 DEF S

\* The two halves are bands, and what is listed in a band is listed in one of them.
LEMMA SplitCovers ==
    ASSUME market \in Markets, NEW band \in Bands, NEW edges \in SUBSET Ids, CanSplit(band, edges)
    PROVE  /\ Split(band, edges) \in Seq(Bands) /\ Len(Split(band, edges)) = 2
           /\ Listed(band) \subseteq Listed(Split(band, edges)[1]) \cup Listed(Split(band, edges)[2])
  <1>. DEFINE p == Pivot(band, edges)
              lower == [lo |-> band.lo, hi |-> {p}]
              upper == [lo |-> {p + 1}, hi |-> band.hi]
  <1>1. p \in Int
    BY PivotLies DEF CanSplit
  <1>. HIDE DEF p
  <1>2. lower \in Bands /\ upper \in Bands
    BY <1>1 DEF Bands, Ends
  <1>3. Split(band, edges) = <<lower, upper>>
    BY DEF Split, p
  <1>4. Listed(band) \subseteq Listed(lower) \cup Listed(upper)
    <2>. SUFFICES ASSUME NEW l \in Listed(band) PROVE l \in Listed(lower) \cup Listed(upper)
      OBVIOUS
    <2>1. l \in Ids /\ market[l] \in Nat /\ market[l] # 0 /\ WithinBand(market[l], band)
      BY PricesAreNumbers DEF Listed
    <2>2. CASE market[l] <= p
      BY <2>1, <2>2 DEF Listed, WithinBand
    <2>3. CASE ~(market[l] <= p)
      <3>1. p + 1 <= market[l]
        BY <1>1, <2>1, <2>3
      <3>. QED
        BY <2>1, <3>1 DEF Listed, WithinBand
    <2>. QED
      BY <2>2, <2>3
  <1>. HIDE DEF lower, upper
  <1>. QED
    BY <1>2, <1>3, <1>4

---------------------------------------------------------------------------
(* A complete sweep.                                                        *)

\* What the walk has still to show, if the market rests.
Ahead ==
    {k \in Ids :
        \/ /\ walk.bands # <<>>
           /\ IF walk.page = 1 THEN k \in Listed(walk.bands[1])
              ELSE k \in Below(walk.bands[1], (walk.page - 1) * PerPage)
        \/ \E i \in 2 .. Len(walk.bands) : k \in Listed(walk.bands[i])}

Missed == (stayed \ Anonymous) \ (walk.seen \cup Ahead)

\* What is neither shown nor ahead was lost to a move of the market.
Accounted == walk.status \in {"walking", "complete"} => Cardinality(Missed) <= 2 * moves

CoverInv == WalkTyped /\ Accounted

\* The outcomes of a page, one by one.
SplitTaken ==
    LET band == walk.bands[1]
        edges == Answer(band, 1).edges
    IN  /\ walk.page = 1 /\ CanSplit(band, edges)
        /\ walk' = [walk EXCEPT !.bands = Split(band, edges) \o Tail(@)]

PageRead == walk.seen \cup (Answer(walk.bands[1], walk.page).edges \ Anonymous)
FitsCap  == walk.page = 1 => Cardinality(Listed(walk.bands[1])) <= ResultCap

SplitFails ==
    /\ walk' = [walk EXCEPT !.status = "aborted"]
    /\ walk.page = 1 /\ Cardinality(Listed(walk.bands[1])) > ResultCap
    /\ ~CanSplit(walk.bands[1], Answer(walk.bands[1], 1).edges)

PageTurned ==
    /\ FitsCap
    /\ walk.page * PerPage < Cardinality(Listed(walk.bands[1]))
    /\ walk' = [walk EXCEPT !.seen = PageRead, !.page = @ + 1]

PagesEnd ==
    /\ FitsCap
    /\ walk.page * PerPage < Cardinality(Listed(walk.bands[1]))
    /\ walk' = [walk EXCEPT !.seen = PageRead, !.status = "aborted"]
    /\ Answer(walk.bands[1], walk.page).edges = {} \/ walk.page = MaxPages

BandThrough ==
    /\ FitsCap
    /\ Cardinality(Listed(walk.bands[1])) <= walk.page * PerPage
    /\ walk' = [walk EXCEPT !.seen = PageRead, !.bands = Tail(@), !.page = 1,
                            !.status = IF Tail(walk.bands) = <<>> THEN "complete" ELSE "walking"]

LEMMA PageOutcomes ==
    ASSUME WalkTyped, PageTaken
    PROVE  SplitTaken \/ SplitFails \/ PageTurned \/ PagesEnd \/ BandThrough
  <1>1. walk.bands # <<>> /\ walk.bands \in Seq(Bands)
    BY DEF WalkTyped, PageTaken
  <1>2. Head(walk.bands) = walk.bands[1]
    BY <1>1
  <1>. DEFINE band == walk.bands[1]
              out == Answer(band, walk.page)
  <1>3. out.total = Cardinality(Listed(band)) /\ out.hasNext = (walk.page * PerPage < Cardinality(Listed(band)))
    BY DEF Answer
  <1>4. Cardinality(Listed(band)) \in Nat /\ walk.page * PerPage \in Nat
    BY ListedFinite, WalkNumbers DEF WalkTyped
  <1>5. walk' = IF walk.page = 1 /\ out.total > ResultCap
                THEN IF CanSplit(band, out.edges)
                     THEN [walk EXCEPT !.bands = Split(band, out.edges) \o Tail(walk.bands)]
                     ELSE [walk EXCEPT !.status = "aborted"]
                ELSE IF out.hasNext
                THEN IF out.edges = {} \/ walk.page = MaxPages
                     THEN [Emit(out.edges) EXCEPT !.status = "aborted"]
                     ELSE [Emit(out.edges) EXCEPT !.page = @ + 1]
                ELSE [Emit(out.edges) EXCEPT !.bands = Tail(walk.bands), !.page = 1,
                                  !.status = IF Tail(walk.bands) = <<>> THEN "complete" ELSE "walking"]
    BY <1>2, Zenon DEF PageTaken, TakePage, Abort
  <1>. HIDE DEF band
  <1>6. \A n : [Emit(out.edges) EXCEPT !.page = n] = [walk EXCEPT !.seen = PageRead, !.page = n]
    BY DEF Emit, PageRead, WalkTyped, band
  <1>7. Emit(out.edges).page = walk.page
    BY DEF Emit, PageRead, WalkTyped, band
  <1>8. [Emit(out.edges) EXCEPT !.status = "aborted"]
          = [walk EXCEPT !.seen = PageRead, !.status = "aborted"]
    BY DEF Emit, PageRead, WalkTyped, band
  <1>9. \A b, s : [Emit(out.edges) EXCEPT !.bands = b, !.page = 1, !.status = s]
                  = [walk EXCEPT !.seen = PageRead, !.bands = b, !.page = 1, !.status = s]
    BY DEF Emit, PageRead, WalkTyped, band
  <1>. HIDE DEF out
  <1>10. CASE walk.page = 1 /\ out.total > ResultCap
    <2>1. out = Answer(band, 1)
      BY <1>10 DEF out
    <2>. QED
      BY <1>3, <1>5, <1>10, <2>1 DEF SplitTaken, SplitFails, band
  <1>13. ~(walk.page = 1 /\ out.total > ResultCap)
            => (walk.page = 1 => Cardinality(Listed(band)) <= ResultCap)
    BY <1>3, <1>4, WalkNumbers
  <1>11. CASE ~(walk.page = 1 /\ out.total > ResultCap) /\ out.hasNext
    <2>2. CASE out.edges = {} \/ walk.page = MaxPages
      BY <1>3, <1>5, <1>8, <1>11, <1>13, <2>2, Zenon DEF PagesEnd, FitsCap, band, out
    <2>3. CASE ~(out.edges = {} \/ walk.page = MaxPages)
      BY <1>3, <1>5, <1>6, <1>7, <1>11, <1>13, <2>3, Zenon DEF PageTurned, FitsCap, band, out
    <2>. QED
      BY <2>2, <2>3
  <1>12. CASE ~(walk.page = 1 /\ out.total > ResultCap) /\ ~out.hasNext
    <2>2. Cardinality(Listed(band)) <= walk.page * PerPage
      <3>1. ~(walk.page * PerPage < Cardinality(Listed(band)))
        BY <1>3, <1>12, Zenon
      <3>. QED
        BY <1>4, <3>1
    <2>. QED
      BY <1>5, <1>9, <1>12, <1>13, <2>2, Zenon DEF BandThrough, FitsCap, band, out
  <1>. QED
    BY <1>10, <1>11, <1>12

LEMMA AnswerShown ==
    ASSUME NEW band, NEW page, NEW l \in Answer(band, page).edges
    PROVE  l \in Listed(band) /\ l \in Ids
  BY DEF Answer, Listed

LEMMA InitWalk == Init => WalkTyped /\ Underway
  <1>. SUFFICES ASSUME Init PROVE WalkTyped /\ Underway
    OBVIOUS
  <1>1. PICK s \in Starts[setting.starts] :
            market = s.market /\ walk = [NoWalk EXCEPT !.scope = [lo |-> Open, hi |-> s.max]]
    BY DEF Init, WalkInit
  <1>2. /\ s.market \in Markets
        /\ s.max \in Ends
    BY <1>1, ClientAssumption DEF Init, Ends
  <1>3. {} \in Ends
    BY DEF Ends
  <1>4. walk = [status |-> "idle", scope |-> [lo |-> {}, hi |-> s.max], bands |-> <<>>, page |-> 1,
                seen |-> {}, detailed |-> {}]
    BY <1>1 DEF NoWalk, Open
  <1>5. moves = 0 /\ stayed = {}
    BY DEF Init, WalkInit
  <1>6. Underway
    BY DEF Init, NoReq, Underway
  <1>. QED
    <2>1. walk.scope \in Bands /\ walk.bands = <<>> /\ <<>> \in Seq(Bands)
      BY <1>2, <1>3, <1>4 DEF Bands
    <2>2. market \in Markets /\ moves \in Nat /\ stayed \subseteq Ids
      BY <1>1, <1>2, <1>5
    <2>. QED
      BY <1>4, <1>6, <2>1, <2>2 DEF WalkTyped

\* The listings that were seen may only grow while the walk goes on.
LEMMA TypedOn ==
    ASSUME WalkTyped, UNCHANGED <<market, moves, stayed>>,
           NEW st, NEW bs, NEW pg, NEW sn,
           walk' = [walk EXCEPT !.status = st, !.bands = bs, !.page = pg, !.seen = sn],
           st = "walking" \/ st = "complete" \/ st = "aborted", bs \in Seq(Bands), pg \in Nat \ {0},
           st = "walking" => bs # <<>>, st = "complete" => bs = <<>>,
           walk.seen \subseteq sn, sn \subseteq Ids
    PROVE  WalkTyped'
  <1>1. walk' = [status |-> st, scope |-> walk.scope, bands |-> bs, page |-> pg, seen |-> sn,
                 detailed |-> walk.detailed]
    BY DEF WalkTyped
  <1>2. walk.detailed \subseteq sn \ Mistyped
    BY DEF WalkTyped, Decoded
  <1>. QED
    BY <1>1, <1>2 DEF WalkTyped, Decoded

LEMMA WalkTypedKept ==
    ASSUME WalkTyped, WalkStep
    PROVE  WalkTyped'
  <1>1. CASE UNCHANGED walkVars
    BY <1>1 DEF walkVars, WalkTyped, Decoded
  <1>2. CASE StartSearch
    <2>1. walk' = [status |-> "walking", scope |-> walk.scope, bands |-> <<walk.scope>>, page |-> walk.page,
                   seen |-> walk.seen, detailed |-> walk.detailed]
      BY <1>2 DEF StartSearch, WalkTyped
    <2>2. stayed' \subseteq Ids /\ UNCHANGED <<market, moves>>
      BY <1>2 DEF StartSearch, Listed
    <2>3. <<walk.scope>> \in Seq(Bands) /\ <<walk.scope>> # <<>>
      BY DEF WalkTyped
    <2>. QED
      BY <2>1, <2>2, <2>3 DEF WalkTyped, Decoded
  <1>3. CASE RejectSearch
    BY <1>3 DEF RejectSearch, WalkTyped, Decoded
  <1>4. CASE PageTaken
    <2>1. walk.bands \in Seq(Bands) /\ walk.bands # <<>> /\ walk.bands[1] \in Bands /\ walk.status = "walking"
      BY <1>4 DEF PageTaken, WalkTyped
    <2>2. Tail(walk.bands) \in Seq(Bands) /\ walk.page \in Nat \ {0} /\ walk.page + 1 \in Nat \ {0}
      BY <2>1 DEF WalkTyped
    <2>3. walk.seen \subseteq PageRead /\ PageRead \subseteq Ids /\ walk.seen \subseteq Ids
      BY AnswerShown DEF PageRead, WalkTyped
    <2>4. UNCHANGED <<market, moves, stayed>>
      BY <1>4 DEF PageTaken
    <2>5. CASE SplitTaken
      <3>. DEFINE bs == Split(walk.bands[1], Answer(walk.bands[1], 1).edges) \o Tail(walk.bands)
      <3>1. Answer(walk.bands[1], 1).edges \in SUBSET Ids
        BY AnswerShown
      <3>2. /\ Split(walk.bands[1], Answer(walk.bands[1], 1).edges) \in Seq(Bands)
            /\ Len(Split(walk.bands[1], Answer(walk.bands[1], 1).edges)) = 2
        BY <2>1, <2>5, <3>1, SplitCovers DEF SplitTaken, WalkTyped
      <3>3. bs \in Seq(Bands) /\ bs # <<>>
        <4>1. \A s, t \in Seq(Bands) : Len(s) = 2 => s \o t \in Seq(Bands) /\ s \o t # <<>>
          OBVIOUS
        <4>. QED
          BY <2>2, <3>2, <4>1
      <3>4. walk' = [walk EXCEPT !.status = "walking", !.bands = bs, !.page = walk.page, !.seen = walk.seen]
        BY <2>1, <2>5 DEF SplitTaken, WalkTyped
      <3>. QED
        BY <2>2, <2>3, <2>4, <3>3, <3>4, TypedOn
    <2>6. CASE SplitFails \/ PageTurned \/ PagesEnd
      <3>1. PICK st, pg, sn :
                /\ walk' = [walk EXCEPT !.status = st, !.bands = walk.bands, !.page = pg, !.seen = sn]
                /\ st \in {"walking", "aborted"} /\ pg \in Nat \ {0} /\ sn \in {walk.seen, PageRead}
        <4>1. CASE SplitFails
          <5>1. walk' = [walk EXCEPT !.status = "aborted", !.bands = walk.bands, !.page = walk.page, !.seen = walk.seen]
            BY <4>1 DEF SplitFails, WalkTyped
          <5>. QED
            BY <2>2, <5>1
        <4>2. CASE PageTurned
          <5>1. walk' = [walk EXCEPT !.status = "walking", !.bands = walk.bands, !.page = walk.page + 1, !.seen = PageRead]
            BY <2>1, <4>2 DEF PageTurned, WalkTyped
          <5>. QED
            BY <2>2, <5>1
        <4>3. CASE PagesEnd
          <5>1. walk' = [walk EXCEPT !.status = "aborted", !.bands = walk.bands, !.page = walk.page, !.seen = PageRead]
            BY <4>3 DEF PagesEnd, WalkTyped
          <5>. QED
            BY <2>2, <5>1
        <4>. QED
          BY <2>6, <4>1, <4>2, <4>3
      <3>2. walk.seen \subseteq sn /\ sn \subseteq Ids
        BY <2>3, <3>1
      <3>. QED
        BY <2>1, <2>4, <3>1, <3>2, TypedOn
    <2>7. CASE BandThrough
      <3>1. PICK st \in {"walking", "complete"} :
                      /\ walk' = [walk EXCEPT !.status = st, !.bands = Tail(walk.bands), !.page = 1, !.seen = PageRead]
                      /\ st = "walking" => Tail(walk.bands) # <<>>
                      /\ st = "complete" => Tail(walk.bands) = <<>>
        <4>1. walk' = [walk EXCEPT !.status = IF Tail(walk.bands) = <<>> THEN "complete" ELSE "walking",
                                   !.bands = Tail(walk.bands), !.page = 1, !.seen = PageRead]
          BY <2>7 DEF BandThrough, WalkTyped
        <4>2. CASE Tail(walk.bands) = <<>>
          <5>1. walk' = [walk EXCEPT !.status = "complete", !.bands = Tail(walk.bands), !.page = 1, !.seen = PageRead]
            BY <4>1, <4>2
          <5>. QED
            BY <4>2, <5>1
        <4>3. CASE Tail(walk.bands) # <<>>
          <5>1. walk' = [walk EXCEPT !.status = "walking", !.bands = Tail(walk.bands), !.page = 1, !.seen = PageRead]
            BY <4>1, <4>3
          <5>. QED
            BY <4>3, <5>1
        <4>. QED
          BY <4>2, <4>3
      <3>2. 1 \in Nat \ {0}
        OBVIOUS
      <3>. QED
        BY <2>2, <2>3, <2>4, <3>1, <3>2, TypedOn
    <2>. QED
      BY <1>4, <2>5, <2>6, <2>7, PageOutcomes
  <1>5. CASE MarketMoves
    <2>1. market' \in Markets
      BY <1>5 DEF MarketMoves, Markets, WalkTyped
    <2>2. moves' \in Nat /\ stayed' \subseteq Ids /\ walk' = walk
      BY <1>5 DEF MarketMoves, WalkTyped
    <2>. QED
      BY <2>1, <2>2 DEF WalkTyped, Decoded
  <1>6. CASE Ended
    BY <1>6 DEF Ended, WalkTyped, Decoded
  <1>7. CASE Detailing
    <2>1. PICK l \in Decoded(walk) : walk' = [walk EXCEPT !.detailed = @ \cup {l}]
      BY <1>7 DEF Detailing
    <2>. QED
      BY <1>7, <2>1 DEF Detailing, WalkTyped, Decoded
  <1>. QED
    BY <1>1, <1>2, <1>3, <1>4, <1>5, <1>6, <1>7 DEF WalkStep

\* A page shows what stood on it.
LEMMA PageShows ==
    ASSUME WalkTyped, walk.status = "walking", FitsCap,
           NEW k, k \notin Anonymous, k \notin PageRead,
           IF walk.page = 1 THEN k \in Listed(walk.bands[1])
           ELSE k \in Below(walk.bands[1], (walk.page - 1) * PerPage)
    PROVE  /\ k \in Below(walk.bands[1], walk.page * PerPage)
           /\ walk.page * PerPage < Cardinality(Listed(walk.bands[1]))
  <1>. DEFINE band == walk.bands[1]
  <1>1. k \in Listed(band)
    BY DEF Below
  <1>2. /\ Place(band, k) \in Nat /\ 1 <= Place(band, k) /\ Place(band, k) <= Cardinality(Listed(band))
        /\ Cardinality(Listed(band)) \in Nat
    BY <1>1, PlaceBounds, ListedFinite
  <1>3. walk.page \in Nat \ {0} /\ PerPage \in Nat \ {0} /\ ResultCap \in Nat \ {0}
    BY WalkNumbers DEF WalkTyped
  <1>4. (walk.page - 1) * PerPage < Place(band, k) /\ Place(band, k) <= ResultCap
    <2>1. CASE walk.page = 1
      <3>1. (walk.page - 1) * PerPage = 0
        BY <1>3, <2>1
      <3>. QED
        BY <1>2, <1>3, <2>1, <3>1 DEF FitsCap
    <2>2. CASE walk.page # 1
      BY <2>2 DEF Below
    <2>. QED
      BY <2>1, <2>2
  <1>5. k \notin Answer(band, walk.page).edges
    BY DEF PageRead
  <1>6. ~(Place(band, k) <= walk.page * PerPage)
    BY <1>1, <1>4, <1>5 DEF Answer
  <1>7. walk.page * PerPage \in Nat
    BY <1>3
  <1>8. walk.page * PerPage < Place(band, k)
    BY <1>2, <1>6, <1>7
  <1>. QED
    BY <1>1, <1>2, <1>4, <1>7, <1>8 DEF Below

\* What is ahead stays ahead or has been shown when a page arrives.
LEMMA PageKeepsAhead ==
    ASSUME WalkTyped, PageTaken, SplitTaken \/ PageTurned \/ BandThrough,
           NEW k \in Ahead, k \notin Anonymous
    PROVE  walk.seen \subseteq walk'.seen /\ (k \in walk'.seen \/ k \in Ahead')
  <1>1. /\ walk.bands \in Seq(Bands) /\ walk.bands # <<>> /\ walk.bands[1] \in Bands /\ walk.status = "walking"
        /\ Len(walk.bands) \in Nat \ {0}
    BY DEF PageTaken, WalkTyped
  <1>2. UNCHANGED market
    BY DEF PageTaken
  <1>3. \A b : Listed(b)' = Listed(b)
    BY <1>2 DEF Listed
  <1>4. \A b, i : Below(b, i)' = Below(b, i)
    BY <1>2 DEF Below, Place, Listed
  <1>5. /\ Tail(walk.bands) \in Seq(Bands) /\ Len(Tail(walk.bands)) = Len(walk.bands) - 1
        /\ \A i \in 1 .. Len(Tail(walk.bands)) : Tail(walk.bands)[i] = walk.bands[i + 1]
    BY <1>1
  <1>6. k \in Ids
    BY DEF Ahead
  <1>7. CASE SplitTaken
    <2>. DEFINE sp == Split(walk.bands[1], Answer(walk.bands[1], 1).edges)
    <2>1. /\ sp \in Seq(Bands) /\ Len(sp) = 2
          /\ Listed(walk.bands[1]) \subseteq Listed(sp[1]) \cup Listed(sp[2])
      <3>1. Answer(walk.bands[1], 1).edges \in SUBSET Ids
        BY AnswerShown
      <3>. QED
        BY <1>1, <1>7, <3>1, SplitCovers DEF SplitTaken, WalkTyped
    <2>2. walk'.bands = sp \o Tail(walk.bands) /\ walk'.seen = walk.seen /\ walk'.page = 1 /\ walk.page = 1
      BY <1>7 DEF SplitTaken, WalkTyped
    <2>. HIDE DEF sp
    <2>3. /\ Len(walk'.bands) = Len(walk.bands) + 1 /\ walk'.bands # <<>>
          /\ walk'.bands[1] = sp[1] /\ walk'.bands[2] = sp[2]
          /\ \A i \in 2 .. Len(walk.bands) : walk'.bands[i + 1] = walk.bands[i]
      <3>. DEFINE tl == Tail(walk.bands)
      <3>9. tl \in Seq(Bands)
        BY <1>5
      <3>. HIDE DEF tl
      <3>1. /\ sp \o tl \in Seq(Bands) /\ Len(sp \o tl) = Len(sp) + Len(tl)
            /\ \A i \in 1 .. Len(sp) + Len(tl) : (sp \o tl)[i] = IF i <= Len(sp) THEN sp[i] ELSE tl[i - Len(sp)]
        BY <2>1, <3>9, ConcatProperties
      <3>3. sp \o tl \in Seq(Bands) /\ Len(sp \o tl) = Len(tl) + 2 /\ Len(tl) \in Nat
        BY <2>1, <3>1, <3>9
      <3>4. (sp \o tl)[1] = sp[1] /\ (sp \o tl)[2] = sp[2]
        BY <2>1, <3>1, <3>3
      <3>5. \A i \in 1 .. Len(tl) : (sp \o tl)[i + 2] = tl[i]
        BY <2>1, <3>1, <3>3
      <3>2. \A i \in 2 .. Len(walk.bands) : i - 1 \in 1 .. Len(Tail(walk.bands)) /\ (i - 1) + 2 = i + 1 /\ (i - 1) + 1 = i
        BY <1>1, <1>5
      <3>6. Len(tl) = Len(walk.bands) - 1 /\ walk'.bands = sp \o tl
        BY <1>5, <2>2 DEF tl
      <3>7. Len(walk'.bands) = Len(walk.bands) + 1 /\ walk'.bands # <<>>
        BY <1>1, <3>3, <3>6
      <3>8. ASSUME NEW i \in 2 .. Len(walk.bands) PROVE walk'.bands[i + 1] = walk.bands[i]
        <4>1. i - 1 \in 1 .. Len(Tail(walk.bands)) /\ (i - 1) + 2 = i + 1 /\ (i - 1) + 1 = i
          BY <3>2
        <4>2. Tail(walk.bands)[i - 1] = walk.bands[(i - 1) + 1]
          BY <1>5, <4>1
        <4>3. (sp \o tl)[(i - 1) + 2] = tl[i - 1]
          BY <3>5, <4>1 DEF tl
        <4>. QED
          BY <3>6, <4>1, <4>2, <4>3 DEF tl
      <3>. QED
        BY <3>4, <3>6, <3>7, <3>8
    <2>4. CASE k \in Listed(walk.bands[1])
      <3>1. k \in Listed(sp[1]) \/ k \in Listed(sp[2])
        BY <2>1, <2>4
      <3>2. 2 \in 2 .. Len(walk'.bands)
        BY <1>1, <2>3
      <3>. QED
        BY <1>3, <1>6, <2>2, <2>3, <3>1, <3>2 DEF Ahead
    <2>5. ASSUME NEW i \in 2 .. Len(walk.bands), k \in Listed(walk.bands[i])
          PROVE  k \in Ahead'
      <3>1. i + 1 \in 2 .. Len(walk'.bands) /\ walk'.bands[i + 1] = walk.bands[i]
        BY <1>1, <2>3
      <3>. QED
        BY <1>3, <1>6, <2>5, <3>1 DEF Ahead
    <2>. QED
      BY <2>2, <2>4, <2>5 DEF Ahead
  <1>8. CASE PageTurned
    <2>1. walk'.bands = walk.bands /\ walk'.seen = PageRead /\ walk'.page = walk.page + 1
      BY <1>8 DEF PageTurned, WalkTyped
    <2>2. walk.seen \subseteq PageRead /\ walk.page \in Nat \ {0}
      BY DEF PageRead, WalkTyped
    <2>3. walk'.page # 1 /\ walk'.page - 1 = walk.page
      BY <2>1, <2>2
    <2>4. CASE \E i \in 2 .. Len(walk.bands) : k \in Listed(walk.bands[i])
      BY <1>3, <1>6, <2>1, <2>2, <2>4 DEF Ahead
    <2>5. CASE k \notin PageRead /\ ~\E i \in 2 .. Len(walk.bands) : k \in Listed(walk.bands[i])
      <3>1. k \in Below(walk.bands[1], walk.page * PerPage)
        BY <1>1, <1>8, <2>5, PageShows DEF Ahead, PageTurned
      <3>. QED
        BY <1>1, <1>4, <1>6, <2>1, <2>2, <2>3, <3>1 DEF Ahead
    <2>. QED
      BY <2>1, <2>2, <2>4, <2>5
  <1>9. CASE BandThrough
    <2>1. walk'.bands = Tail(walk.bands) /\ walk'.seen = PageRead /\ walk'.page = 1
      BY <1>9 DEF BandThrough, WalkTyped
    <2>2. walk.seen \subseteq PageRead
      BY DEF PageRead
    <2>3. ASSUME NEW i \in 2 .. Len(walk.bands), k \in Listed(walk.bands[i])
          PROVE  k \in Ahead'
      <3>3. i - 1 \in 1 .. Len(Tail(walk.bands)) /\ (i - 1) + 1 = i
        BY <1>1, <1>5
      <3>4. Tail(walk.bands)[i - 1] = walk.bands[(i - 1) + 1]
        BY <1>5, <3>3
      <3>1. /\ i - 1 \in 1 .. Len(walk'.bands) /\ walk'.bands[i - 1] = walk.bands[i] /\ walk'.bands # <<>>
        <4>1. Tail(walk.bands) # <<>>
          BY <1>5, <3>3
        <4>. QED
          BY <2>1, <3>3, <3>4, <4>1
      <3>2. i - 1 = 1 \/ i - 1 \in 2 .. Len(walk'.bands)
        BY <3>1
      <3>. QED
        BY <1>3, <1>6, <2>1, <2>3, <3>1, <3>2 DEF Ahead
    <2>4. CASE k \notin PageRead /\ ~\E i \in 2 .. Len(walk.bands) : k \in Listed(walk.bands[i])
      <3>1. walk.page * PerPage < Cardinality(Listed(walk.bands[1]))
        BY <1>1, <1>9, <2>4, PageShows DEF Ahead, BandThrough
      <3>2. walk.page * PerPage \in Nat /\ Cardinality(Listed(walk.bands[1])) \in Nat
        BY ListedFinite, WalkNumbers DEF WalkTyped
      <3>. QED
        BY <1>9, <3>1, <3>2 DEF BandThrough
    <2>. QED
      BY <2>1, <2>2, <2>3, <2>4
  <1>. QED
    BY <1>7, <1>8, <1>9

\* A move of the market takes at most two listings from what is ahead.
LEMMA MoveKeepsAhead ==
    ASSUME WalkTyped, MarketMoves
    PROVE  \E l, x \in Ids : \A k \in Ahead : k \in {l, x} \/ k \in Ahead'
  <1>1. PICK l \in Ids, p \in Prices \cup {0} : market' = [market EXCEPT ![l] = p]
    BY DEF MarketMoves
  <1>2. /\ market \in Markets /\ market' \in Markets /\ walk' = walk
        /\ \A k \in Ids \ {l} : market'[k] = market[k]
    BY <1>1 DEF MarketMoves, WalkTyped, Markets
  <1>3. \A b : \A k \in Ids \ {l} : k \in Listed(b) <=> k \in Listed(b)'
    BY <1>2, PlacesMove
  <1>4. \A b : \A j \in Nat : \E x \in Ids : \A k \in Below(b, j) : k \in {l, x} \/ k \in Below(b, j)'
    BY <1>2, BelowKept
  <1>5. (walk.page - 1) * PerPage \in Nat
    BY WalkNumbers DEF WalkTyped
  <1>6. PICK j \in Nat : j = (walk.page - 1) * PerPage
    BY <1>5
  <1>7. PICK b \in {walk.bands[1]} : TRUE
    OBVIOUS
  <1>8. PICK x \in Ids : \A k \in Below(b, j) : k \in {l, x} \/ k \in Below(b, j)'
    BY <1>4
  <1>9. /\ Below(walk.bands[1], (walk.page - 1) * PerPage) = Below(b, j)
        /\ Below(walk.bands[1], (walk.page - 1) * PerPage)' = Below(b, j)'
    <2>1. walk'.bands[1] = b /\ (walk'.page - 1) * PerPage = j
      BY <1>2, <1>6, <1>7
    <2>. QED
      BY <1>6, <1>7, <2>1, Zenon DEF Below, Place, Listed
  <1>10. \A k \in Ahead : k \in {l, x} \/ k \in Ahead'
    <2>. TAKE k \in Ahead
    <2>. SUFFICES ASSUME k \notin {l, x} PROVE k \in Ahead'
      OBVIOUS
    <2>1. k \in Ids /\ k # l
      BY DEF Ahead
    <2>2. CASE \E i \in 2 .. Len(walk.bands) : k \in Listed(walk.bands[i])
      <3>1. PICK i \in 2 .. Len(walk.bands) : k \in Listed(walk.bands[i])
        BY <2>2
      <3>2. k \in Listed(walk.bands[i])'
        BY <1>2, <2>1, <3>1 DEF Listed
      <3>. QED
        BY <1>2, <2>1, <3>1, <3>2 DEF Ahead
    <2>3. CASE walk.bands # <<>> /\ walk.page = 1 /\ k \in Listed(walk.bands[1])
      <3>1. k \in Listed(walk.bands[1])'
        BY <1>2, <2>1, <2>3 DEF Listed
      <3>. QED
        BY <1>2, <2>1, <2>3, <3>1 DEF Ahead
    <2>4. CASE walk.bands # <<>> /\ walk.page # 1 /\ k \in Below(walk.bands[1], (walk.page - 1) * PerPage)
      <3>1. k \in Below(walk.bands[1], (walk.page - 1) * PerPage)'
        BY <1>8, <1>9, <2>4
      <3>. QED
        BY <1>2, <2>1, <2>4, <3>1 DEF Ahead
    <2>. QED
      BY <2>2, <2>3, <2>4 DEF Ahead
  <1>. QED
    BY <1>10

LEMMA AccountedKept ==
    ASSUME CoverInv, WalkStep
    PROVE  Accounted'
  <1>1. WalkTyped /\ Missed \subseteq Ids /\ Missed' \subseteq Ids
    <2>1. WalkTyped /\ WalkTyped'
      BY WalkTypedKept DEF CoverInv
    <2>. QED
      BY <2>1 DEF WalkTyped, Missed
  <1>2. moves \in Nat /\ moves' \in Nat
    BY WalkTypedKept DEF CoverInv, WalkTyped
  <1>3. ASSUME Missed' \subseteq Missed, moves' = moves, walk.status \in {"walking", "complete"}
        PROVE  Accounted'
    <2>1. Cardinality(Missed) <= 2 * moves
      BY <1>3 DEF CoverInv, Accounted
    <2>2. Cardinality(Missed') <= Cardinality(Missed)
      BY <1>1, <1>3, SmallSets, FS_Subset
    <2>3. Cardinality(Missed') <= 2 * moves'
      BY <1>1, <1>2, <1>3, <2>1, <2>2, SmallSets
    <2>. QED
      BY <2>3 DEF Accounted
  <1>4. CASE UNCHANGED walkVars \/ Detailing
    <2>1. UNCHANGED <<market, moves, stayed, walk.status, walk.bands, walk.page, walk.seen>>
      BY <1>1, <1>4 DEF walkVars, Detailing, WalkTyped
    <2>2. \A b : Listed(b)' = Listed(b) /\ \A i : Below(b, i)' = Below(b, i)
      BY <2>1 DEF Listed, Below, Place
    <2>3. Ahead' = Ahead
      BY <2>1, <2>2 DEF Ahead
    <2>. QED
      BY <2>1, <2>3 DEF CoverInv, Accounted, Missed
  <1>5. CASE StartSearch
    <2>1. /\ walk'.bands = <<walk.scope>> /\ walk'.page = 1 /\ UNCHANGED <<market, moves>>
          /\ stayed' = Listed(walk.scope)
      BY <1>1, <1>5 DEF StartSearch, WalkTyped
    <2>2. Listed(walk.scope) = Listed(walk.scope)' /\ walk'.scope = walk.scope
      BY <1>1, <1>5, <2>1 DEF StartSearch, Listed, WalkTyped
    <2>3. walk'.bands # <<>> /\ walk'.bands[1] = walk.scope
      BY <2>1
    <2>4. stayed' \subseteq Ahead'
      BY <2>1, <2>2, <2>3 DEF Ahead, Listed
    <2>5. Missed' = {}
      BY <2>4 DEF Missed
    <2>. QED
      BY <1>2, <2>5, FS_EmptySet DEF Accounted
  <1>6. CASE PageTaken
    <2>1. UNCHANGED <<moves, stayed>> /\ walk.status = "walking"
      BY <1>6 DEF PageTaken
    <2>2. CASE SplitTaken \/ PageTurned \/ BandThrough
      <3>1. Missed' \subseteq Missed
        <4>. SUFFICES ASSUME NEW k \in Missed' PROVE k \in Missed
          OBVIOUS
        <4>1. k \in stayed /\ k \notin Anonymous /\ k \notin walk'.seen /\ k \notin Ahead'
          BY <2>1 DEF Missed
        <4>2. ASSUME k \in Ahead PROVE FALSE
          BY <1>1, <1>6, <2>2, <4>1, <4>2, PageKeepsAhead
        <4>3. walk.seen \subseteq walk'.seen
          <5>1. CASE SplitTaken
            BY <1>1, <5>1 DEF SplitTaken, WalkTyped
          <5>2. CASE PageTurned \/ BandThrough
            BY <1>1, <5>2 DEF PageTurned, BandThrough, PageRead, WalkTyped
          <5>. QED
            BY <2>2, <5>1, <5>2
        <4>. QED
          BY <4>1, <4>2, <4>3 DEF Missed
      <3>. QED
        BY <1>3, <2>1, <3>1
    <2>3. CASE SplitFails \/ PagesEnd
      <3>1. walk'.status = "aborted"
        BY <1>1, <2>3 DEF SplitFails, PagesEnd, WalkTyped
      <3>. QED
        BY <3>1 DEF Accounted
    <2>. QED
      BY <1>1, <1>6, <2>2, <2>3, PageOutcomes
  <1>7. CASE MarketMoves
    <2>1. PICK l \in Ids, x \in Ids : \A k \in Ahead : k \in {l, x} \/ k \in Ahead'
      BY <1>1, <1>7, MoveKeepsAhead
    <2>2. walk' = walk /\ stayed' \subseteq stayed /\ moves' = moves + 1 /\ walk.status = "walking"
      BY <1>7 DEF MarketMoves
    <2>3. Missed' \subseteq (Missed \cup {l}) \cup {x}
      BY <2>1, <2>2 DEF Missed
    <2>4. Cardinality(Missed \cup {l}) <= Cardinality(Missed) + 1 /\ Missed \cup {l} \in SUBSET Ids
      BY <1>1, SmallSets
    <2>5. /\ Cardinality((Missed \cup {l}) \cup {x}) <= Cardinality(Missed \cup {l}) + 1
          /\ (Missed \cup {l}) \cup {x} \in SUBSET Ids
      BY <2>4, SmallSets
    <2>6. Cardinality(Missed') <= Cardinality((Missed \cup {l}) \cup {x})
      BY <2>3, <2>5, SmallSets, FS_Subset
    <2>7. Cardinality(Missed) <= 2 * moves
      BY <2>2 DEF CoverInv, Accounted
    <2>8. Cardinality(Missed') <= 2 * moves'
      <3>1. /\ Cardinality(Missed) \in Nat /\ Cardinality(Missed') \in Nat /\ Cardinality(Missed \cup {l}) \in Nat
            /\ Cardinality((Missed \cup {l}) \cup {x}) \in Nat
        BY <1>1, <2>4, <2>5, SmallSets
      <3>. QED
        BY <1>2, <2>2, <2>4, <2>5, <2>6, <2>7, <3>1
    <2>. QED
      BY <2>8 DEF Accounted
  <1>8. CASE RejectSearch \/ Ended
    <2>1. walk'.status \in {"rejected", "failed"}
      BY <1>1, <1>8 DEF RejectSearch, Ended, WalkTyped
    <2>. QED
      BY <2>1 DEF Accounted
  <1>. QED
    BY <1>4, <1>5, <1>6, <1>7, <1>8 DEF WalkStep

LEMMA InitAccounted == Init => Accounted
  BY DEF Init, WalkInit, NoWalk, Accounted

\* The invariant of the walk, with what keeps a page apart from a detail.
WalkInv == PoolTyped /\ ReqTyped /\ Underway /\ CoverInv

\* The provider is what it is for the whole of a behaviour.
LEMMA TruthfulStays == [Next]_vars => (Truthful <=> Truthful')
  <1>. SUFFICES ASSUME [Next]_vars PROVE setting' = setting
    BY DEF Truthful
  <1>1. CASE UNCHANGED vars
    BY <1>1 DEF vars
  <1>2. CASE Search \/ Cancel \/ Deadline \/ Moves \/ Refresh \/ Tick
    BY <1>2 DEF Search, Cancel, Deadline, Stops, Moves, Refresh, Tick
  <1>3. CASE RequestStep
    BY <1>3 DEF RequestStep, AskPage, AskDetail, BeginAttempt, SendDirect, ChooseProxy, SendVia, Forbidden,
                PoolDry, TimesOut, Faulty, Answered, TryAgain, Cancelled
  <1>. QED
    BY <1>1, <1>2, <1>3 DEF Next

LEMMA WalkInvHolds == Spec => [](Truthful => WalkInv)
  <1>1. Init => WalkInv
    BY InitTyped, InitWalk, InitAccounted DEF WalkInv, CoverInv
  <1>2. Truthful /\ WalkInv /\ [Next]_vars => WalkInv'
    BY StepKinds, PoolTypedKept, ReqTypedKept, WalkSteps, WalkTypedKept, AccountedKept, Zenon DEF WalkInv, CoverInv
  <1>. QED
    BY <1>1, <1>2, TruthfulStays, PTL DEF Spec

\* With a provider that counts and pages as it should, a sweep that calls itself
\* complete has shown every listing with an id that stayed
\* in the scope, but for two at most of every move of the market: the listing that
\* moved, and the one it pushed or pulled past where the walk stands or the cap
\* (client.go:130-165).
THEOREM CompleteIsCovered == Spec => []CompleteCovers
  <1>1. (Truthful => WalkInv) => CompleteCovers
    <2>. SUFFICES ASSUME WalkInv, walk.status = "complete"
                  PROVE  Cardinality((stayed \ Anonymous) \ walk.seen) <= 2 * moves
      BY DEF CompleteCovers
    <2>1. walk.bands = <<>>
      BY DEF WalkInv, CoverInv, WalkTyped
    <2>2. Ahead = {}
      BY <2>1 DEF Ahead
    <2>. QED
      BY <2>2 DEF WalkInv, CoverInv, Accounted, Missed
  <1>. QED
    BY <1>1, WalkInvHolds, PTL

---------------------------------------------------------------------------
(* A sweep given up.                                                        *)

\* The pages a band may take show all the provider would show of it
\* (client.go:33-38: 50 pages of 500 rows, a cap of 1000).
PagesSuffice == ResultCap <= MaxPages * PerPage

\* What no split can help.
Cause ==
    \/ \E p \in Prices : Cardinality({l \in Ids : market[l] = p}) > ResultCap
    \/ \E lo, hi \in Prices :
          LET out == Answer([lo |-> {lo}, hi |-> {hi}], 1)
          IN  out.total > ResultCap /\ out.edges \subseteq Unpriced

\* While the market rests, a band that is paged through fits under the cap.
PagedFits ==
    walk.status = "walking" /\ moves = 0 /\ walk.page # 1 => Cardinality(Listed(walk.bands[1])) <= ResultCap

Caused == walk.status = "aborted" /\ moves = 0 => Cause

LEMMA ListedPriced ==
    ASSUME market \in Markets, NEW band, NEW l \in Listed(band)
    PROVE  l \in Ids /\ market[l] \in Prices /\ market[l] \in Nat /\ WithinBand(market[l], band)
  <1>1. l \in Ids /\ market[l] # 0 /\ WithinBand(market[l], band)
    BY DEF Listed
  <1>2. market[l] \in Prices \cup {0}
    BY <1>1 DEF Markets
  <1>. QED
    BY <1>1, <1>2, WalkNumbers

\* A band can be narrowed to the prices it holds without changing an answer.
LEMMA Narrowed ==
    ASSUME market \in Markets, NEW band \in Bands, Listed(band) # {}
    PROVE  \E lo, hi \in Prices : /\ Listed([lo |-> {lo}, hi |-> {hi}]) = Listed(band)
                                  /\ Answer([lo |-> {lo}, hi |-> {hi}], 1) = Answer(band, 1)
  <1>. DEFINE L == Listed(band)
              price == [l \in L |-> market[l]]
              held == {market[l] : l \in L}
  <1>1. IsFiniteSet(L) /\ L # {} /\ price \in [L -> Nat] /\ held \in SUBSET Nat /\ held # {}
    BY ListedFinite, ListedPriced
  <1>2. PICK low \in L : \A l \in L : market[low] <= market[l]
    <2>1. Min(held) \in held /\ \A x \in held : Min(held) <= x
      <3>. HIDE DEF held
      <3>. QED
        BY <1>1, LeastOfNats
    <2>. QED
      BY <2>1
  <1>3. PICK high \in L : \A l \in L : market[l] <= market[high]
    <2>1. \E m \in L : \A k \in L : price[k] <= price[m]
      <3>. HIDE DEF price, L
      <3>. QED
        BY <1>1, GreatestIn
    <2>. QED
      BY <2>1
  <1>. DEFINE nb == [lo |-> {market[low]}, hi |-> {market[high]}]
  <1>4. Listed(nb) = L
    <2>1. ASSUME NEW l \in Ids, market[l] # 0, market[low] <= market[l], market[l] <= market[high]
          PROVE  l \in L
      <3>1. /\ market[l] \in Nat /\ market[low] \in Nat /\ market[high] \in Nat
            /\ WithinBand(market[low], band) /\ WithinBand(market[high], band)
        BY PricesAreNumbers, ListedPriced
      <3>2. band.lo \subseteq Int /\ band.hi \subseteq Int
        BY DEF Bands, Ends
      <3>3. WithinBand(market[l], band)
        BY <2>1, <3>1, <3>2 DEF WithinBand
      <3>. QED
        BY <2>1, <3>3 DEF Listed
    <2>2. L \subseteq {l \in Ids : market[l] # 0 /\ market[low] <= market[l] /\ market[l] <= market[high]}
      BY <1>2, <1>3 DEF Listed
    <2>3. Listed(nb) = {l \in Ids : market[l] # 0 /\ market[low] <= market[l] /\ market[l] <= market[high]}
      BY DEF Listed, WithinBand
    <2>. QED
      BY <2>1, <2>2, <2>3
  <1>5. market[low] \in Prices /\ market[high] \in Prices
    BY ListedPriced
  <1>6. Answer(nb, 1) = Answer(band, 1)
    <2>. HIDE DEF nb
    <2>. QED
      BY <1>4 DEF Answer, Place
  <1>. QED
    BY <1>4, <1>5, <1>6

\* A band that cannot be split has a cause.
LEMMA SplitCause ==
    ASSUME WalkTyped, NEW band \in Bands, Cardinality(Listed(band)) > ResultCap,
           ~CanSplit(band, Answer(band, 1).edges)
    PROVE  Cause
  <1>. DEFINE edges == Answer(band, 1).edges
  <1>1. market \in Markets /\ edges \in SUBSET Ids /\ \A l \in edges : l \in Listed(band)
    BY AnswerShown DEF WalkTyped
  <1>2. Listed(band) # {}
    BY ListedFinite, WalkNumbers, FS_EmptySet
  <1>3. CASE Readable(edges) = {}
    <2>1. PICK lo \in Prices, hi \in Prices : Answer([lo |-> {lo}, hi |-> {hi}], 1) = Answer(band, 1)
      BY <1>1, <1>2, Narrowed
    <2>2. Answer(band, 1).total > ResultCap
      BY DEF Answer
    <2>3. edges \subseteq Unpriced
      BY <1>3 DEF Readable
    <2>. QED
      BY <2>1, <2>2, <2>3, Zenon DEF Cause
  <1>4. CASE Readable(edges) # {}
    <2>1. PICK lo \in band.lo : ~(lo <= Pivot(band, edges))
      BY <1>4 DEF CanSplit
    <2>2. lo \in Int /\ Pivot(band, edges) \in Int
      BY <1>1, <1>4, PivotLies DEF Bands, Ends
    <2>3. \A l \in Listed(band) : lo <= market[l] /\ market[l] \in Nat
      BY <1>1, ListedPriced DEF WithinBand
    <2>4. PICK hi \in band.hi : Pivot(band, edges) = hi - 1
      BY <1>1, <1>4, <2>1, <2>3, PivotLies
    <2>5. hi \in Int /\ hi <= lo
      BY <2>1, <2>2, <2>4 DEF Bands, Ends
    <2>6. \A l \in Listed(band) : market[l] = lo
      <3>1. \A l \in Listed(band) : market[l] <= hi
        BY <1>1, ListedPriced DEF WithinBand
      <3>. QED
        BY <2>2, <2>3, <2>5, <3>1
    <2>7. lo \in Prices
      BY <1>1, <1>2, <2>6, ListedPriced
    <2>8. Listed(band) \in SUBSET {l \in Ids : market[l] = lo}
      BY <2>6 DEF Listed
    <2>9. /\ IsFiniteSet({l \in Ids : market[l] = lo}) /\ Cardinality({l \in Ids : market[l] = lo}) \in Nat
          /\ Cardinality(Listed(band)) <= Cardinality({l \in Ids : market[l] = lo})
      <3>1. {l \in Ids : market[l] = lo} \in SUBSET Ids
        OBVIOUS
      <3>. HIDE DEF edges
      <3>. QED
        BY <2>8, <3>1, SmallSets, FS_Subset
    <2>10. Cardinality({l \in Ids : market[l] = lo}) > ResultCap
      BY <2>9, ListedFinite, WalkNumbers
    <2>. QED
      BY <2>7, <2>10 DEF Cause
  <1>. QED
    BY <1>3, <1>4

\* While a band fits under the cap, its pages neither run empty nor run out.
LEMMA PagesSuffer ==
    ASSUME WalkTyped, PagesSuffice, walk.status = "walking", PagesEnd,
           Cardinality(Listed(walk.bands[1])) <= ResultCap
    PROVE  FALSE
  <1>. DEFINE band == walk.bands[1]
              n == Cardinality(Listed(band))
              before == (walk.page - 1) * PerPage
  <1>1. /\ n \in Nat /\ walk.page \in Nat \ {0} /\ PerPage \in Nat \ {0} /\ MaxPages \in Nat \ {0}
        /\ ResultCap \in Nat \ {0}
    BY ListedFinite, WalkNumbers DEF WalkTyped
  <1>2. walk.page * PerPage < n /\ n <= ResultCap
    BY DEF PagesEnd
  <1>3. walk.page # MaxPages
    <2>1. walk.page * PerPage \in Nat /\ MaxPages * PerPage \in Nat
      BY <1>1
    <2>. QED
      BY <1>1, <1>2, <2>1 DEF PagesSuffice
  <1>4. before \in Nat /\ walk.page * PerPage = before + PerPage
    BY <1>1
  <1>5. before + 1 \in 1 .. n
    BY <1>1, <1>2, <1>4
  <1>6. PICK l \in Listed(band) : Place(band, l) = before + 1
    BY <1>5, PlacesFilled
  <1>7. before < before + 1 /\ before + 1 <= walk.page * PerPage /\ before + 1 <= ResultCap
    BY <1>1, <1>2, <1>4
  <1>8. l \in Answer(band, walk.page).edges
    BY <1>6, <1>7 DEF Answer
  <1>. QED
    BY <1>3, <1>8 DEF PagesEnd

LEMMA CausedKept ==
    ASSUME WalkTyped, PagesSuffice, PagedFits, Caused, WalkStep
    PROVE  PagedFits' /\ Caused'
  <1>1. CASE UNCHANGED walkVars \/ Detailing
    <2>1. UNCHANGED <<market, moves, walk.status, walk.bands, walk.page>>
      BY <1>1 DEF walkVars, Detailing, WalkTyped
    <2>2. Listed(walk.bands[1])' = Listed(walk.bands[1]) /\ Cause' = Cause
      BY <2>1 DEF Listed, Cause, Answer, Place
    <2>. QED
      BY <2>1, <2>2 DEF PagedFits, Caused
  <1>2. CASE StartSearch \/ RejectSearch \/ Ended
    <2>1. walk'.status \in {"walking", "rejected", "failed"} /\ (walk'.status = "walking" => walk'.page = 1)
      BY <1>2 DEF StartSearch, RejectSearch, Ended, WalkTyped
    <2>. QED
      BY <2>1 DEF PagedFits, Caused
  <1>3. CASE MarketMoves
    <2>1. moves' # 0
      BY <1>3 DEF MarketMoves, WalkTyped
    <2>. QED
      BY <2>1 DEF PagedFits, Caused
  <1>4. CASE PageTaken
    <2>1. UNCHANGED <<market, moves>> /\ walk.status = "walking" /\ walk.bands[1] \in Bands
      BY <1>4 DEF PageTaken, WalkTyped
    <2>2. Cause' = Cause /\ \A b : Listed(b)' = Listed(b)
      BY <2>1 DEF Cause, Answer, Place, Listed
    <2>3. CASE SplitTaken \/ BandThrough
      <3>1. walk'.page = 1 /\ walk'.status # "aborted"
        BY <2>1, <2>3 DEF SplitTaken, BandThrough, WalkTyped
      <3>. QED
        BY <3>1 DEF PagedFits, Caused
    <2>4. CASE PageTurned
      <3>1. walk'.bands = walk.bands /\ walk'.status = "walking"
        BY <2>1, <2>4 DEF PageTurned, WalkTyped
      <3>2. moves = 0 => Cardinality(Listed(walk.bands[1])) <= ResultCap
        BY <2>1, <2>4 DEF PageTurned, FitsCap, PagedFits
      <3>3. Listed(walk.bands[1])' = Listed(walk.bands[1])
        BY <2>1, <3>1 DEF Listed
      <3>. QED
        BY <2>1, <3>1, <3>2, <3>3 DEF PagedFits, Caused
    <2>5. CASE SplitFails
      <3>1. Cause
        BY <2>1, <2>5, SplitCause DEF SplitFails
      <3>2. walk'.status = "aborted"
        BY <2>5 DEF SplitFails, WalkTyped
      <3>. QED
        BY <2>2, <3>1, <3>2 DEF PagedFits, Caused
    <2>6. CASE PagesEnd
      <3>1. walk'.status = "aborted"
        BY <2>6 DEF PagesEnd, WalkTyped
      <3>2. moves # 0
        BY <2>1, <2>6, PagesSuffer DEF PagesEnd, FitsCap, PagedFits
      <3>. QED
        BY <2>1, <3>1, <3>2 DEF PagedFits, Caused
    <2>. QED
      BY <1>4, <2>3, <2>4, <2>5, <2>6, PageOutcomes
  <1>. QED
    BY <1>1, <1>2, <1>3, <1>4 DEF WalkStep

\* While the market rests, and with such a provider, a sweep is given up only for what
\* no split can help: more
\* listings of one price than the provider shows, or a band of which the first page
\* shows no price that can be read.  Pages never run out on it, nor run empty, since
\* a band that is paged through fits under the cap (client.go:163-190, 229-241).
THEOREM AbortsHaveCause == PagesSuffice => (Spec => []AbortHasCause)
  <1>. SUFFICES ASSUME PagesSuffice PROVE Spec => []AbortHasCause
    OBVIOUS
  <1>1. Init => PagedFits /\ Caused
    BY DEF Init, WalkInit, NoWalk, PagedFits, Caused
  <1>2. Truthful /\ WalkInv /\ PagedFits /\ Caused /\ [Next]_vars => (PagedFits /\ Caused)'
    BY WalkSteps, CausedKept, Zenon DEF WalkInv, CoverInv
  <1>3. (Truthful => Caused) => AbortHasCause
    BY DEF Caused, Cause, AbortHasCause
  <1>. QED
    BY <1>1, <1>2, <1>3, TruthfulStays, WalkInvHolds, PTL DEF Spec
=============================================================================
