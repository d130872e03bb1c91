----------------------- MODULE ListingLifecycleProofs -----------------------
(* Type correctness of the listing lifecycle, that no run of a scope that    *)
(* does not track a listing delists it, and that search rows defer to detail *)
(* pages while runs do not overlap.                                          *)
EXTENDS ListingLifecycle, TLAPS

\* A run under way has a kind, and only a clean one judges absence.
WellRun(c) ==
    /\ crawler[c].pc # "idle" => crawler[c].kind \in RunKinds
    /\ crawler[c].pc = "mark" => crawler[c].clean

\* Besides: a listing whose absences are counted is short of the last one.
Shape ==
    /\ TypeOK
    /\ \A c \in Crawlers : WellRun(c)
    /\ \A l \in Listings : Countable(l) => missing[l] < MissingRunsToDelist

\* Whoever owns a listing's absence tracks it.
Owned ==
    \A l \in Listings : IF owner[l] = NoRun THEN trackers[l] = {} ELSE owner[l] \in trackers[l]

\* No run has the kind of no run: every scope shows something.
LEMMA NoRunIsNone == NoRun \notin RunKinds
BY LifecycleAssumption DEF NoRun, RunKinds

\* Only a page that says so delists what is seen.
LEMMA StatusAfterTyped ==
    ASSUME NEW prev \in Statuses \cup {"none"}, NEW say \in PageStatuses \cup {"", "active"}
    PROVE  /\ StatusAfter(prev, say) \in Statuses
           /\ StatusAfter(prev, say) = "delisted" => say = "delisted"
BY LifecycleAssumption DEF StatusAfter, Statuses

\* A crawler that moves on keeps the shape when the rows stay as they are.
LEMMA CrawlerMoves ==
    ASSUME Shape, NEW c \in Crawlers, NEW w \in CrawlerState, crawler' = [crawler EXCEPT ![c] = w],
           w.pc # "idle" => w.kind \in RunKinds, w.pc = "mark" => w.clean, UNCHANGED rows,
           market' \in [Listings -> PageStatuses \cup {"off"}]
    PROVE  Shape'
BY DEF Shape, WellRun, TypeOK, rows, Countable

\* An idle crawler is well typed.
LEMMA IdleTyped == IdleCrawler \in CrawlerState /\ IdleCrawler.pc = "idle"
BY DEF IdleCrawler, CrawlerState

\* The corpus starts empty and every crawler idle.
LEMMA InitShape == Init => Shape
BY LifecycleAssumption, IdleTyped DEF Init, Shape, WellRun, TypeOK, Countable

\* An apply keeps the shape.
LEMMA ApplyShape ==
    ASSUME Shape, NEW c \in Crawlers, ApplySourceProperty(c)
    PROVE  Shape'
<1> DEFINE w == [crawler[c] EXCEPT !.pc = "crawl", !.hand = {}, !.say = "", !.page = ""]
<1>1. crawler[c] \in CrawlerState /\ crawler[c].kind \in RunKinds
  BY DEF ApplySourceProperty, Shape, WellRun, TypeOK
<1>2. w \in CrawlerState /\ w.pc = "crawl" /\ w.kind = crawler[c].kind
  BY <1>1 DEF CrawlerState
<1>3. crawler' = [crawler EXCEPT ![c] = w] /\ UNCHANGED market
  BY DEF ApplySourceProperty, Shape, TypeOK
<1> HIDE DEF w
<1>4. CASE UNCHANGED rows
  BY <1>1, <1>2, <1>3, <1>4, CrawlerMoves DEF Shape, TypeOK
<1>5. CASE Applied(c)
  <2>1. PICK l \in crawler[c].hand :
            /\ status' = [status EXCEPT ![l] = StatusAfter(status[l], crawler[c].say)]
            /\ missing' = [missing EXCEPT ![l] = 0]
            /\ owner' = [owner EXCEPT ![l] = OwnerAfter(owner[l], crawler[c].kind)]
            /\ enriched' \subseteq enriched \cup {l}
            /\ trackers' = [trackers EXCEPT ![l] = TrackersAfter(trackers[l], crawler[c].kind)]
            /\ standing' = [standing EXCEPT ![l] = IF crawler[c].kind.oneOff THEN standing[l]
                                                   ELSE crawler[c].kind]
    BY <1>5 DEF Applied, Shape, TypeOK
  <2>2. l \in Listings /\ crawler[c].say \in PageStatuses \cup {"", "active"}
    BY <1>1 DEF CrawlerState
  <2>3. status' \in [Listings -> Statuses \cup {"none"}]
    BY <2>1, <2>2, StatusAfterTyped DEF Shape, TypeOK
  <2>4. missing' \in [Listings -> 0 .. MissingRunsToDelist]
    <3>1. missing \in [Listings -> 0 .. MissingRunsToDelist] /\ 0 \in 0 .. MissingRunsToDelist
      BY LifecycleAssumption DEF Shape, TypeOK
    <3> QED
      BY <2>1, <2>2, <3>1
  <2>5. /\ owner' \in [Listings -> RunKinds \cup {NoRun}]
        /\ standing' \in [Listings -> RunKinds \cup {NoRun}]
        /\ trackers' \in [Listings -> SUBSET RunKinds]
    <3>1. \A prev \in SUBSET RunKinds : TrackersAfter(prev, crawler[c].kind) \in SUBSET RunKinds
      BY <1>1 DEF TrackersAfter
    <3> QED
      BY <1>1, <2>1, <2>2, <3>1 DEF Shape, TypeOK, OwnerAfter
  <2>6. /\ crawler' \in [Crawlers -> CrawlerState]
        /\ \A d \in Crawlers : WellRun(d)'
    BY <1>1, <1>2, <1>3 DEF Shape, WellRun, TypeOK
  <2>7. \A m \in Listings : Countable(m)' => missing'[m] < MissingRunsToDelist
    <3> TAKE m \in Listings
    <3>1. CASE m = l
      <4>1. missing'[l] = 0
        BY <2>1, <2>2 DEF Shape, TypeOK
      <4>2. 0 < MissingRunsToDelist
        BY LifecycleAssumption
      <4> QED
        BY <3>1, <4>1, <4>2
    <3>2. CASE m # l
      BY <2>1, <2>2, <3>2 DEF Shape, TypeOK, Countable
    <3> QED
      BY <3>1, <3>2
  <2>8. TypeOK'
    BY <1>3, <2>1, <2>2, <2>3, <2>4, <2>5, <2>6 DEF Shape, TypeOK
  <2> QED
    BY <2>6, <2>7, <2>8 DEF Shape
<1> QED
  BY <1>4, <1>5 DEF ApplySourceProperty

\* Counting absences keeps the shape.
LEMMA MarkShape ==
    ASSUME Shape, NEW c \in Crawlers, MarkMissingSources(c)
    PROVE  Shape'
<1>1. CASE UNCHANGED rows
  BY <1>1, IdleTyped, CrawlerMoves DEF MarkMissingSources, EndRun, Shape, TypeOK
<1>2. CASE ~UNCHANGED rows
  <2>1. /\ missing' = [l \in Listings |-> missing[l] + (IF l \in Advanced(c) THEN 1 ELSE 0)]
        /\ status' = [l \in Listings |->
                        IF l \in Advanced(c) /\ missing'[l] >= MissingRunsToDelist
                        THEN "delisted" ELSE status[l]]
        /\ UNCHANGED <<owner, enriched, trackers, standing, market>>
    BY <1>2 DEF MarkMissingSources
  <2>2. \A l \in Advanced(c) : missing[l] < MissingRunsToDelist
    BY DEF Advanced, Shape
  <2>3. \A l \in Listings : missing'[l] = IF l \in Advanced(c) THEN missing[l] + 1 ELSE missing[l]
    BY <2>1 DEF Shape, TypeOK
  <2>4. missing' \in [Listings -> 0 .. MissingRunsToDelist]
    BY <2>1, <2>2, LifecycleAssumption DEF Shape, TypeOK
  <2>5. status' \in [Listings -> Statuses \cup {"none"}]
    BY <2>1 DEF Shape, TypeOK, Statuses
  <2>6. \A l \in Listings : Countable(l)' => missing'[l] < MissingRunsToDelist
    <3> TAKE l \in Listings
    <3>1. status'[l] = IF l \in Advanced(c) /\ missing'[l] >= MissingRunsToDelist
                       THEN "delisted" ELSE status[l]
      BY <2>1
    <3>2. missing'[l] \in Nat /\ MissingRunsToDelist \in Nat
      BY <2>4, LifecycleAssumption
    <3>3. CASE l \in Advanced(c)
      BY <3>1, <3>2, <3>3 DEF Countable
    <3>4. CASE l \notin Advanced(c)
      BY <2>3, <3>1, <3>4 DEF Countable, Shape
    <3> QED
      BY <3>3, <3>4
  <2>7. /\ crawler' \in [Crawlers -> CrawlerState]
        /\ \A d \in Crawlers : WellRun(d)'
    BY IdleTyped DEF MarkMissingSources, EndRun, Shape, WellRun, TypeOK
  <2>8. TypeOK'
    BY <2>1, <2>4, <2>5, <2>7 DEF Shape, TypeOK
  <2> QED
    BY <2>6, <2>7, <2>8 DEF Shape
<1> QED
  BY <1>1, <1>2

\* Every step keeps the shape, action by action.
LEMMA NextShape == Shape /\ [Next]_vars => Shape'
<1> SUFFICES ASSUME Shape, [Next]_vars PROVE Shape'
  OBVIOUS
<1>1. ASSUME NEW c \in Crawlers
      PROVE  crawler[c] \in CrawlerState /\ (crawler[c].pc # "idle" => crawler[c].kind \in RunKinds)
  BY DEF Shape, WellRun, TypeOK
<1>2. market \in [Listings -> PageStatuses \cup {"off"}] /\ crawler \in [Crawlers -> CrawlerState]
  BY DEF Shape, TypeOK
<1>3. ASSUME NEW c \in Crawlers, NEW k \in RunKinds, StartRun(c, k)
      PROVE  Shape'
  <2> DEFINE w == [crawler[c] EXCEPT !.pc = "search", !.kind = k]
  <2>1. w \in CrawlerState /\ w.kind = k /\ w.pc = "search"
    BY <1>1 DEF CrawlerState
  <2>2. crawler' = [crawler EXCEPT ![c] = w]
    BY <1>3 DEF StartRun, Shape, TypeOK
  <2> HIDE DEF w
  <2> QED
    BY <1>2, <1>3, <2>1, <2>2, CrawlerMoves DEF StartRun
<1>4. ASSUME NEW c \in Crawlers, Search(c)
      PROVE  Shape'
  <2>1. PICK seen \in SUBSET {l \in Listings : market[l] # "off"}, clean \in BOOLEAN :
            \E usable \in SUBSET seen :
               crawler' = [crawler EXCEPT ![c].pc = "rank", ![c].clean = clean,
                                          ![c].seen = seen, ![c].pending = usable]
    BY <1>4 DEF Search
  <2>2. PICK usable \in SUBSET seen :
            crawler' = [crawler EXCEPT ![c].pc = "rank", ![c].clean = clean,
                                       ![c].seen = seen, ![c].pending = usable]
    BY <2>1
  <2> DEFINE w == [crawler[c] EXCEPT !.pc = "rank", !.clean = clean, !.seen = seen,
                                     !.pending = usable]
  <2>3. w \in CrawlerState /\ w.kind = crawler[c].kind /\ w.pc = "rank"
    BY <1>1 DEF CrawlerState
  <2>4. crawler' = [crawler EXCEPT ![c] = w] /\ crawler[c].pc # "idle"
    BY <1>4, <2>2 DEF Search, Shape, TypeOK
  <2> HIDE DEF w
  <2> QED
    BY <1>1, <1>2, <1>4, <2>3, <2>4, CrawlerMoves DEF Search
<1>5. ASSUME NEW c \in Crawlers, EnrichPriority(c)
      PROVE  Shape'
  <2>1. PICK l \in crawler[c].pending :
            \/ crawler' = [crawler EXCEPT ![c] = [crawler[c] EXCEPT
                              !.pending = crawler[c].pending \ {l}, !.current = crawler[c].current \cup {l}]]
            \/ crawler' = [crawler EXCEPT ![c] = [crawler[c] EXCEPT
                              !.pending = crawler[c].pending \ {l}, !.due = crawler[c].due \cup {l}]]
    BY <1>5 DEF EnrichPriority, Shape, TypeOK
  <2>2. PICK w \in CrawlerState : /\ crawler' = [crawler EXCEPT ![c] = w]
                                 /\ w.kind = crawler[c].kind /\ w.pc = crawler[c].pc
    <3> DEFINE x == [crawler[c] EXCEPT !.pending = crawler[c].pending \ {l},
                                       !.current = crawler[c].current \cup {l}]
               y == [crawler[c] EXCEPT !.pending = crawler[c].pending \ {l},
                                       !.due = crawler[c].due \cup {l}]
    <3>1. /\ x \in CrawlerState /\ x.kind = crawler[c].kind /\ x.pc = crawler[c].pc
          /\ y \in CrawlerState /\ y.kind = crawler[c].kind /\ y.pc = crawler[c].pc
      BY <1>1 DEF CrawlerState
    <3>2. crawler' = [crawler EXCEPT ![c] = x] \/ crawler' = [crawler EXCEPT ![c] = y]
      BY <2>1
    <3> HIDE DEF x, y
    <3> QED
      BY <3>1, <3>2
  <2>3. crawler[c].pc = "rank"
    BY <1>5 DEF EnrichPriority
  <2> QED
    BY <1>1, <1>2, <1>5, <2>2, <2>3, CrawlerMoves DEF EnrichPriority
<1>6. ASSUME NEW c \in Crawlers, StartApplies(c)
      PROVE  Shape'
  <2> DEFINE w == [crawler[c] EXCEPT !.pc = "crawl"]
  <2>1. w \in CrawlerState /\ w.kind = crawler[c].kind /\ w.pc = "crawl"
    BY <1>1 DEF CrawlerState
  <2>2. crawler' = [crawler EXCEPT ![c] = w] /\ crawler[c].pc # "idle"
    BY <1>6 DEF StartApplies, Shape, TypeOK
  <2> HIDE DEF w
  <2> QED
    BY <1>1, <1>2, <1>6, <2>1, <2>2, CrawlerMoves DEF StartApplies
<1>7. ASSUME NEW c \in Crawlers, EnrichDetail(c) \/ EnrichNothing(c) \/ EnrichFails(c) \/ TakeCurrent(c)
      PROVE  Shape'
  <2>1. PICK due \in SUBSET Listings, current \in SUBSET Listings, l \in Listings,
             say \in PageStatuses \cup {"", "active"}, page \in {"", "read", "none"} :
            crawler' = [crawler EXCEPT ![c] = [crawler[c] EXCEPT !.pc = "apply",
                              !.due = due, !.current = current, !.hand = {l}, !.say = say, !.page = page]]
    <3> DEFINE hold(due, current, l, say, page) ==
                   [crawler[c] EXCEPT !.pc = "apply", !.due = due, !.current = current,
                                      !.hand = {l}, !.say = say, !.page = page]
    <3>1. CASE EnrichDetail(c)
      <4>1. PICK l \in crawler[c].due :
                /\ market[l] # "off"
                /\ crawler' = [crawler EXCEPT ![c].pc = "apply", ![c].due = @ \ {l}, ![c].hand = {l},
                                              ![c].say = market[l], ![c].page = "read"]
        BY <3>1 DEF EnrichDetail
      <4>2. crawler' = [crawler EXCEPT ![c] = hold(crawler[c].due \ {l}, crawler[c].current, l, market[l], "read")]
        BY <1>2, <4>1 DEF CrawlerState
      <4>3. l \in Listings /\ market[l] \in PageStatuses
            /\ crawler[c].due \ {l} \in SUBSET Listings /\ crawler[c].current \in SUBSET Listings
        BY <1>1, <1>2, <4>1 DEF CrawlerState
      <4> QED
        BY <4>2, <4>3
    <3>2. CASE EnrichFails(c)
      <4>1. PICK l \in crawler[c].due :
                crawler' = [crawler EXCEPT ![c].pc = "apply", ![c].due = @ \ {l}, ![c].hand = {l},
                                           ![c].say = "", ![c].page = ""]
        BY <3>2 DEF EnrichFails, ClearSearchStatus
      <4>2. crawler' = [crawler EXCEPT ![c] = hold(crawler[c].due \ {l}, crawler[c].current, l, "", "")]
        BY <1>2, <4>1 DEF CrawlerState
      <4>3. l \in Listings
            /\ crawler[c].due \ {l} \in SUBSET Listings /\ crawler[c].current \in SUBSET Listings
        BY <1>1, <4>1 DEF CrawlerState
      <4> QED
        BY <4>2, <4>3
    <3>3. CASE TakeCurrent(c)
      <4>1. PICK l \in crawler[c].current :
                crawler' = [crawler EXCEPT ![c].pc = "apply", ![c].current = @ \ {l}, ![c].hand = {l},
                                           ![c].say = "active", ![c].page = ""]
        BY <3>3 DEF TakeCurrent
      <4>2. crawler' = [crawler EXCEPT ![c] = hold(crawler[c].due, crawler[c].current \ {l}, l, "active", "")]
        BY <1>2, <4>1 DEF CrawlerState
      <4>3. l \in Listings
            /\ crawler[c].due \in SUBSET Listings /\ crawler[c].current \ {l} \in SUBSET Listings
        BY <1>1, <4>1 DEF CrawlerState
      <4> QED
        BY <4>2, <4>3
    <3>4. CASE EnrichNothing(c)
      <4>1. PICK l \in crawler[c].due :
                crawler' = [crawler EXCEPT ![c].pc = "apply", ![c].due = @ \ {l}, ![c].hand = {l},
                                           ![c].say = "active", ![c].page = "none"]
        BY <3>4 DEF EnrichNothing
      <4>2. crawler' = [crawler EXCEPT ![c] = hold(crawler[c].due \ {l}, crawler[c].current, l, "active", "none")]
        BY <1>2, <4>1 DEF CrawlerState
      <4>3. l \in Listings
            /\ crawler[c].due \ {l} \in SUBSET Listings /\ crawler[c].current \in SUBSET Listings
        BY <1>1, <4>1 DEF CrawlerState
      <4> QED
        BY <4>2, <4>3
    <3> QED
      BY <1>7, <3>1, <3>2, <3>3, <3>4
  <2> DEFINE w == [crawler[c] EXCEPT !.pc = "apply", !.due = due, !.current = current,
                                     !.hand = {l}, !.say = say, !.page = page]
  <2>2. w \in CrawlerState /\ w.kind = crawler[c].kind /\ w.pc = "apply"
    BY <1>1 DEF CrawlerState
  <2>3. crawler[c].pc # "idle" /\ UNCHANGED <<rows, market>>
    BY <1>7 DEF EnrichDetail, EnrichNothing, EnrichFails, TakeCurrent
  <2> QED
    BY <1>1, <1>2, <2>1, <2>2, <2>3, CrawlerMoves
<1>8. ASSUME NEW c \in Crawlers, EndRun(c), UNCHANGED <<rows, market>>
      PROVE  Shape'
  BY <1>2, <1>8, IdleTyped, CrawlerMoves DEF EndRun
<1>9. ASSUME NEW c \in Crawlers, FinishRun(c)
      PROVE  Shape'
  <2>1. CASE EndRun(c)
    BY <1>8, <1>9, <2>1 DEF FinishRun
  <2>2. CASE ~EndRun(c)
    <3> DEFINE w == [crawler[c] EXCEPT !.pc = "mark"]
    <3>1. w \in CrawlerState /\ w.kind = crawler[c].kind /\ w.clean = crawler[c].clean
      BY <1>1 DEF CrawlerState
    <3>2. crawler' = [crawler EXCEPT ![c] = w] /\ crawler[c].pc # "idle" /\ crawler[c].clean
      BY <1>9, <2>2 DEF FinishRun, Shape, TypeOK
    <3> HIDE DEF w
    <3> QED
      BY <1>1, <1>2, <1>9, <3>1, <3>2, CrawlerMoves DEF FinishRun
  <2> QED
    BY <2>1, <2>2
<1>10. ASSUME NEW c \in Crawlers, Interrupt(c)
       PROVE  Shape'
  <2> DEFINE w == [IdleCrawler EXCEPT !.pc = "crawl", !.kind = crawler[c].kind, !.seen = crawler[c].seen]
  <2>1. w \in CrawlerState /\ w.kind = crawler[c].kind /\ w.pc = "crawl"
    BY <1>1 DEF CrawlerState, IdleCrawler
  <2>2. crawler' = [crawler EXCEPT ![c] = w] /\ crawler[c].pc # "idle"
    BY <1>10 DEF Interrupt
  <2> HIDE DEF w
  <2> QED
    BY <1>1, <1>2, <1>10, <2>1, <2>2, CrawlerMoves DEF Interrupt
<1>11. ASSUME NEW l \in Listings, MarketMoves(l)
       PROVE  Shape'
  <2>1. market' \in [Listings -> PageStatuses \cup {"off"}]
    BY <1>2, <1>11 DEF MarketMoves
  <2> QED
    BY <1>11, <2>1 DEF MarketMoves, rows, Shape, WellRun, TypeOK, Countable
<1>12. CASE UNCHANGED vars
  BY <1>12 DEF vars, rows, Shape, WellRun, TypeOK, Countable
<1> QED
  BY <1>3, <1>4, <1>5, <1>6, <1>7, <1>8, <1>9, <1>10, <1>11, <1>12, ApplyShape, MarkShape
     DEF Next, RunStep, Crash

\* In every reachable state every row and every run is well typed, and no
\* listing is absence-counted past the delisting: for any number of crawlers,
\* listings, scopes and threshold.
THEOREM TypeCorrect == Spec => []TypeOK
<1>1. Spec => []Shape
  BY InitShape, NextShape, PTL DEF Spec
<1>2. Shape => TypeOK
  BY DEF Shape
<1> QED
  BY <1>1, <1>2, PTL

-----------------------------------------------------------------------------
(* Absence ownership: the run that owns a listing's absence is one that    *)
(* tracks it, and a one-off that came by never takes the listing from a    *)
(* standing run; so whoever judges a listing absent covers a tracker of it. *)

\* An apply leaves the ownership with a tracker.
LEMMA ApplyOwned ==
    ASSUME Shape, Owned, NEW c \in Crawlers, ApplySourceProperty(c)
    PROVE  Owned'
<1>1. CASE UNCHANGED rows
  BY <1>1 DEF rows, Owned
<1>2. CASE Applied(c)
  <2> DEFINE kind == crawler[c].kind
  <2>1. kind \in RunKinds /\ kind # NoRun /\ crawler[c].hand \subseteq Listings
    BY NoRunIsNone DEF ApplySourceProperty, Shape, WellRun, TypeOK, CrawlerState
  <2>2. PICK l \in Listings :
            /\ owner' = [owner EXCEPT ![l] = OwnerAfter(owner[l], kind)]
            /\ trackers' = [trackers EXCEPT ![l] = TrackersAfter(trackers[l], kind)]
    BY <1>2, <2>1 DEF Applied, Shape, TypeOK
  <2> HIDE DEF kind
  <2>3. /\ owner'[l] = OwnerAfter(owner[l], kind)
        /\ trackers'[l] = TrackersAfter(trackers[l], kind)
        /\ \A m \in Listings \ {l} : owner'[m] = owner[m] /\ trackers'[m] = trackers[m]
    BY <2>2 DEF Shape, TypeOK
  <2>4. ASSUME NEW m \in Listings \ {l}
        PROVE  IF owner'[m] = NoRun THEN trackers'[m] = {} ELSE owner'[m] \in trackers'[m]
    BY <2>3 DEF Owned
  <2>5. owner'[l] # NoRun /\ owner'[l] \in trackers'[l]
    <3>1. CASE owner[l] # NoRun /\ kind.oneOff
      <4>1. owner'[l] = owner[l]
        BY <2>3, <3>1 DEF OwnerAfter
      <4>2. owner[l] \in trackers[l] /\ owner[l] \in RunKinds
        BY <3>1 DEF Owned, Shape, TypeOK
      <4>3. owner[l].oneOff = kind.oneOff \/ owner[l] \in Standing(trackers[l])
        BY <2>1, <3>1, <4>2 DEF Standing, RunKinds
      <4> QED
        BY <2>3, <3>1, <4>1, <4>2, <4>3 DEF TrackersAfter
    <3>2. CASE owner[l] = NoRun \/ ~kind.oneOff
      <4>1. owner'[l] = kind
        BY <2>3, <3>2 DEF OwnerAfter
      <4>2. kind \in TrackersAfter(trackers[l], kind)
        <5>1. CASE kind.oneOff /\ Standing(trackers[l]) # {}
          BY <3>2, <5>1 DEF Owned, Standing
        <5>2. CASE ~(kind.oneOff /\ Standing(trackers[l]) # {})
          BY <5>2 DEF TrackersAfter
        <5> QED
          BY <5>1, <5>2
      <4> QED
        BY <2>1, <2>3, <4>1, <4>2
    <3> QED
      BY <3>1, <3>2
  <2> QED
    BY <2>4, <2>5 DEF Owned
<1> QED
  BY <1>1, <1>2 DEF ApplySourceProperty

\* Every other step leaves owners and trackers alone.
LEMMA NextOwned == Shape /\ Owned /\ [Next]_vars => Owned'
<1> SUFFICES ASSUME Shape, Owned, [Next]_vars PROVE Owned'
  OBVIOUS
<1>1. (\E c \in Crawlers : ApplySourceProperty(c)) \/ UNCHANGED <<owner, trackers>>
  <2>1. ASSUME NEW c \in Crawlers, RunStep(c), ~ApplySourceProperty(c)
        PROVE  UNCHANGED <<owner, trackers>>
    BY <2>1 DEF RunStep, Search, EnrichPriority, StartApplies, EnrichDetail, EnrichNothing,
       EnrichFails, TakeCurrent, FinishRun, MarkMissingSources, rows
  <2> QED
    BY <2>1 DEF Next, StartRun, Interrupt, Crash, MarketMoves, rows, vars
<1> QED
  BY <1>1, ApplyOwned DEF Owned

\* Only counting absences delists, and only what an owner in the run's scope saw.
LEMMA DelistsInScope ==
    ASSUME Shape, Owned, [Next]_vars, NEW l \in Listings,
           status[l] # "delisted", status'[l] = "delisted"
    PROVE  \E c \in Crawlers : PageSaysDelisted(c, l) \/ JudgesAbsent(c, l)
<1>1. PICK c \in Crawlers : ApplySourceProperty(c) \/ MarkMissingSources(c)
  BY DEF Next, RunStep, StartRun, Search, EnrichPriority, StartApplies, EnrichDetail,
     EnrichNothing, EnrichFails,
     TakeCurrent, FinishRun, Interrupt, Crash, MarketMoves, rows, vars
<1>2. CASE ApplySourceProperty(c)
  <2>1. PICK m \in crawler[c].hand : status' = [status EXCEPT ![m] = StatusAfter(@, crawler[c].say)]
    BY <1>2 DEF ApplySourceProperty, Applied, rows
  <2>2. crawler[c].say \in PageStatuses \cup {"", "active"} /\ m \in Listings
    BY DEF Shape, TypeOK, CrawlerState
  <2>3. status[m] \in Statuses \cup {"none"}
    BY <2>2 DEF Shape, TypeOK
  <2>4. /\ status'[m] = "delisted" => crawler[c].say = "delisted"
        /\ l # m => status'[l] = status[l]
    BY <2>1, <2>2, <2>3, StatusAfterTyped DEF Shape, TypeOK
  <2> QED
    BY <2>1, <2>4 DEF PageSaysDelisted
<1>3. CASE MarkMissingSources(c)
  <2>1. l \in Advanced(c)
    BY <1>3 DEF MarkMissingSources, rows
  <2>2. owner[l] \in trackers[l] /\ l \notin crawler[c].seen /\ Ages(crawler[c].kind, owner[l])
    BY <2>1 DEF Advanced, Owned
  <2>3. crawler[c].pc = "mark" /\ crawler[c].clean
    BY <1>3 DEF MarkMissingSources, Shape, WellRun
  <2>4. InScope(crawler[c].kind, owner[l])
    BY <2>2 DEF Ages, InScope
  <2> QED
    BY <2>2, <2>3, <2>4 DEF JudgesAbsent
<1> QED
  BY <1>1, <1>2, <1>3

\* A listing is delisted only because its page says so or by a complete
\* run that did not see it, of a scope that tracks it or covers one that does: for any number of overlapping runs, any
\* scopes and listings, and whatever applies, searches and runs fail.
THEOREM TrackersDelist == Spec => OnlyTrackersDelist
<1>1. Init => Shape /\ Owned
  BY InitShape DEF Init, Owned
<1>2. Shape /\ Owned /\ [Next]_vars => Shape' /\ Owned'
  BY NextShape, NextOwned
<1>3. Shape /\ Owned /\ [Next]_vars
      => [\A l \in Listings :
            status[l] # "delisted" /\ status'[l] = "delisted"
               => \E c \in Crawlers : PageSaysDelisted(c, l) \/ JudgesAbsent(c, l)]_vars
  BY DelistsInScope
<1> QED
  BY <1>1, <1>2, <1>3, PTL DEF Spec, OnlyTrackersDelist
-----------------------------------------------------------------------------
(* Search rows defer to pages while runs do not overlap: the rank a run    *)
(* gave its rows is then still true when it applies them, because the run  *)
(* itself fetches or applies no listing twice.                             *)

\* A listing is in one place of its run, and at most one is in hand.
Placed(w) ==
    /\ w.pc \in {"idle", "search"} => w.due = {} /\ w.current = {}
    /\ w.pc # "apply" => w.hand = {}
    /\ \A l \in w.current : l \notin w.pending /\ l \notin w.due /\ l \notin w.hand
    /\ \A l \in w.due : l \notin w.pending
    /\ \A l, m \in w.hand : l = m

\* One that is applied without its page and with the search row's status has no
\* status that only a page reports.
Deferring(w) ==
    /\ \A l \in w.current : ~DetailStatus(l)
    /\ \A l \in w.hand : w.page # "" \/ w.say = "" \/ ~DetailStatus(l)

RankHolds(c) == Placed(crawler[c]) /\ Deferring(crawler[c])

\* Statuses change only by an apply or by counting absences.
LEMMA StatusStep ==
    ASSUME Shape, [Next]_vars, status' # status
    PROVE  \E c \in Crawlers :
              \/ ApplySourceProperty(c) /\ Applied(c)
              \/ /\ MarkMissingSources(c)
                 /\ \A l \in Listings : status'[l] \in {status[l], "delisted"}
<1>1. ASSUME NEW c \in Crawlers, MarkMissingSources(c)
      PROVE  \A l \in Listings : status'[l] \in {status[l], "delisted"}
  BY <1>1 DEF MarkMissingSources, rows
<1> QED
  BY <1>1 DEF Next, RunStep, StartRun, Search, EnrichPriority, StartApplies, EnrichDetail,
     EnrichNothing, EnrichFails, TakeCurrent, ApplySourceProperty, FinishRun, Interrupt, Crash, MarketMoves,
     rows, vars

\* What an apply does to the statuses: the listing in hand gets what is said of it.
LEMMA AppliedStatus ==
    ASSUME Shape, NEW c \in Crawlers, RankHolds(c), Applied(c)
    PROVE  \E l \in Listings :
              /\ crawler[c].hand = {l}
              /\ status'[l] = StatusAfter(status[l], crawler[c].say)
              /\ \A m \in Listings \ {l} : status'[m] = status[m]
<1>1. PICK l \in crawler[c].hand : status' = [status EXCEPT ![l] = StatusAfter(@, crawler[c].say)]
  BY DEF Applied
<1>2. l \in Listings /\ crawler[c].hand = {l}
  <2>1. crawler[c].hand \subseteq Listings
    BY DEF Shape, TypeOK, CrawlerState
  <2>2. \A m \in crawler[c].hand : l = m
    BY <1>1 DEF RankHolds, Placed
  <2> QED
    BY <1>1, <2>1, <2>2
<1> QED
  BY <1>1, <1>2 DEF Shape, TypeOK

\* A lone crawler's steps keep its rows where they belong.
LEMMA NextRankHolds ==
    ASSUME \A c, e \in Crawlers : c = e, NEW c \in Crawlers
    PROVE  Shape /\ RankHolds(c) /\ [Next]_vars => RankHolds(c)'
<1> SUFFICES ASSUME Shape, RankHolds(c), [Next]_vars PROVE RankHolds(c)'
  OBVIOUS
<1>1. crawler[c] \in CrawlerState
  BY DEF Shape, TypeOK
<1> DEFINE w == crawler[c]
           v == crawler'[c]
<1>2. ASSUME status' = status, Placed(v), \A l \in v.current : l \in w.current \/ ~DetailStatus(l),
             \/ v.page = w.page /\ v.say = w.say /\ v.hand \subseteq w.hand
             \/ \A l \in v.hand : v.page # "" \/ v.say = "" \/ l \in w.current
      PROVE  RankHolds(c)'
  BY <1>2 DEF RankHolds, Deferring, DetailStatus
<1>3. ASSUME UNCHANGED <<status, crawler>>
      PROVE  RankHolds(c)'
  BY <1>3 DEF RankHolds, Placed, Deferring, DetailStatus
<1>4. ASSUME (\E k \in RunKinds : StartRun(c, k)) \/ Search(c) \/ StartApplies(c)
      PROVE  RankHolds(c)'
  <2>1. /\ v.page = w.page /\ v.say = w.say /\ v.hand = w.hand /\ status' = status
        /\ v.current = w.current /\ v.due = w.due /\ w.pc # "apply" /\ v.pc # "apply"
        /\ v.pc \in {"idle", "search"} => v.due = {} /\ v.current = {}
        /\ v.pending = w.pending \/ w.pc = "search"
    <3>1. CASE \E k \in RunKinds : StartRun(c, k)
      <4>1. PICK k \in RunKinds : StartRun(c, k)
        BY <3>1
      <4> QED
        BY <1>1, <4>1 DEF StartRun, RankHolds, Placed, rows, CrawlerState, Shape, TypeOK
    <3>2. CASE Search(c)
      <4>1. PICK seen \in SUBSET {l \in Listings : market[l] # "off"}, clean \in BOOLEAN :
                \E usable \in SUBSET seen :
                   crawler' = [crawler EXCEPT ![c].pc = "rank", ![c].clean = clean,
                                              ![c].seen = seen, ![c].pending = usable]
        BY <3>2 DEF Search
      <4>2. PICK usable \in SUBSET seen :
                crawler' = [crawler EXCEPT ![c].pc = "rank", ![c].clean = clean,
                                           ![c].seen = seen, ![c].pending = usable]
        BY <4>1
      <4>3. /\ v.page = w.page /\ v.say = w.say /\ v.hand = w.hand
            /\ v.current = w.current /\ v.due = w.due /\ v.pc = "rank"
        BY <1>1, <4>2 DEF CrawlerState, Shape, TypeOK
      <4> QED
        BY <3>2, <4>3 DEF Search, rows
    <3>3. CASE StartApplies(c)
      BY <1>1, <3>3 DEF StartApplies, RankHolds, Placed, rows, CrawlerState, Shape, TypeOK
    <3> QED
      BY <1>4, <3>1, <3>2, <3>3
  <2>2. Placed(v)
    BY <2>1 DEF RankHolds, Placed
  <2> QED
    BY <2>1, <2>2, <1>2
<1>5. ASSUME EnrichPriority(c)
      PROVE  RankHolds(c)'
  <2>1. PICK l \in w.pending :
            /\ v.page = w.page /\ v.say = w.say /\ v.hand = w.hand /\ status' = status
            /\ v.pc = "rank" /\ w.pc = "rank" /\ v.pending = w.pending \ {l}
            /\ \/ EnrichmentCurrent(l) /\ v.current = w.current \cup {l} /\ v.due = w.due
               \/ v.current = w.current /\ v.due = w.due \cup {l}
    <3>1. PICK l \in w.pending :
              \/ /\ EnrichmentCurrent(l)
                 /\ crawler' = [crawler EXCEPT ![c].pending = @ \ {l}, ![c].current = @ \cup {l}]
              \/ crawler' = [crawler EXCEPT ![c].pending = @ \ {l}, ![c].due = @ \cup {l}]
      BY <1>5 DEF EnrichPriority
    <3>2. status' = status /\ w.pc = "rank"
      BY <1>5 DEF EnrichPriority, rows
    <3>3. /\ v.page = w.page /\ v.say = w.say /\ v.hand = w.hand
          /\ v.pc = w.pc /\ v.pending = w.pending \ {l}
          /\ \/ EnrichmentCurrent(l) /\ v.current = w.current \cup {l} /\ v.due = w.due
             \/ v.current = w.current /\ v.due = w.due \cup {l}
      <4>1. CASE /\ EnrichmentCurrent(l)
                 /\ crawler' = [crawler EXCEPT ![c].pending = @ \ {l}, ![c].current = @ \cup {l}]
        BY <1>1, <4>1 DEF CrawlerState, Shape, TypeOK
      <4>2. CASE crawler' = [crawler EXCEPT ![c].pending = @ \ {l}, ![c].due = @ \cup {l}]
        BY <1>1, <4>2 DEF CrawlerState, Shape, TypeOK
      <4> QED
        BY <3>1, <4>1, <4>2
    <3> QED
      BY <3>2, <3>3
  <2>2. Placed(v)
    BY <2>1 DEF RankHolds, Placed
  <2> QED
    BY <2>1, <2>2, <1>2 DEF EnrichmentCurrent, DetailStatus
<1>6. ASSUME EnrichDetail(c) \/ EnrichNothing(c) \/ EnrichFails(c)
      PROVE  RankHolds(c)'
  <2>1. PICK l \in w.due :
            /\ v.page # "" \/ v.say = ""
            /\ v.pc = "apply" /\ v.pending = w.pending /\ v.current = w.current
            /\ v.due = w.due \ {l} /\ v.hand = {l} /\ status' = status
    <3>1. CASE EnrichDetail(c)
      <4>1. PICK l \in w.due :
                crawler' = [crawler EXCEPT ![c].pc = "apply", ![c].due = @ \ {l}, ![c].hand = {l},
                                           ![c].say = market[l], ![c].page = "read"]
        BY <3>1 DEF EnrichDetail
      <4> QED
        BY <1>1, <3>1, <4>1 DEF EnrichDetail, rows, CrawlerState, Shape, TypeOK
    <3>2. CASE EnrichFails(c)
      <4>1. PICK l \in w.due :
                crawler' = [crawler EXCEPT ![c].pc = "apply", ![c].due = @ \ {l}, ![c].hand = {l},
                                           ![c].say = ClearSearchStatus, ![c].page = ""]
        BY <3>2 DEF EnrichFails
      <4> QED
        BY <1>1, <3>2, <4>1 DEF EnrichFails, ClearSearchStatus, rows, CrawlerState, Shape, TypeOK
    <3>3. CASE EnrichNothing(c)
      <4>1. PICK l \in w.due :
                crawler' = [crawler EXCEPT ![c].pc = "apply", ![c].due = @ \ {l}, ![c].hand = {l},
                                           ![c].say = "active", ![c].page = "none"]
        BY <3>3 DEF EnrichNothing
      <4> QED
        BY <1>1, <3>3, <4>1 DEF EnrichNothing, rows, CrawlerState, Shape, TypeOK
    <3> QED
      BY <1>6, <3>1, <3>2, <3>3
  <2>2. Placed(v)
    BY <2>1 DEF RankHolds, Placed
  <2> QED
    BY <2>1, <2>2, <1>2
<1>7. ASSUME TakeCurrent(c)
      PROVE  RankHolds(c)'
  <2>1. PICK l \in w.current :
            /\ v.pc = "apply" /\ v.pending = w.pending /\ v.due = w.due
            /\ v.current = w.current \ {l} /\ v.hand = {l} /\ status' = status
    <3>1. PICK l \in w.current :
              crawler' = [crawler EXCEPT ![c].pc = "apply", ![c].current = @ \ {l},
                                         ![c].hand = {l}, ![c].say = "active", ![c].page = ""]
      BY <1>7 DEF TakeCurrent
    <3>2. status' = status
      BY <1>7 DEF TakeCurrent, rows
    <3> QED
      BY <1>1, <3>1, <3>2 DEF CrawlerState, Shape, TypeOK
  <2>2. Placed(v)
    BY <2>1 DEF RankHolds, Placed
  <2> QED
    BY <2>1, <2>2, <1>2
<1>8. ASSUME ApplySourceProperty(c)
      PROVE  RankHolds(c)'
  <2>1. /\ v.pc = "crawl" /\ v.hand = {}
        /\ v.pending = w.pending /\ v.due = w.due /\ v.current = w.current
    BY <1>1, <1>8 DEF ApplySourceProperty, CrawlerState, Shape, TypeOK
  <2>2. \A l \in w.current : l \in Listings /\ l \notin w.hand
    BY <1>1 DEF RankHolds, Placed, CrawlerState
  <2>3. \A l \in w.current : status'[l] = status[l]
    <3>1. CASE UNCHANGED rows
      BY <3>1 DEF rows
    <3>2. CASE Applied(c)
      BY <2>2, <3>2, AppliedStatus
    <3> QED
      BY <1>8, <3>1, <3>2 DEF ApplySourceProperty
  <2>4. Placed(v)
    BY <2>1 DEF RankHolds, Placed
  <2> QED
    BY <2>1, <2>3, <2>4 DEF RankHolds, Deferring, DetailStatus
<1>9. ASSUME FinishRun(c) \/ MarkMissingSources(c) \/ Interrupt(c) \/ Crash(c)
      PROVE  RankHolds(c)'
  <2>1. v.due = {} /\ v.current = {} /\ v.hand = {}
    <3>1. CASE crawler' = [crawler EXCEPT ![c] = IdleCrawler]
      BY <3>1 DEF IdleCrawler, Shape, TypeOK
    <3>3. CASE Interrupt(c)
      <4>1. v = [IdleCrawler EXCEPT !.pc = "crawl", !.kind = w.kind, !.seen = w.seen]
        BY <3>3 DEF Interrupt, Shape, TypeOK
      <4> QED
        BY <4>1 DEF IdleCrawler
    <3>2. CASE FinishRun(c) /\ crawler' = [crawler EXCEPT ![c].pc = "mark"]
      BY <1>1, <3>2 DEF FinishRun, RankHolds, Placed, CrawlerState, Shape, TypeOK
    <3> QED
      BY <1>9, <3>1, <3>2, <3>3 DEF FinishRun, MarkMissingSources, Crash, EndRun
  <2> QED
    BY <2>1 DEF RankHolds, Placed, Deferring
<1>10. ASSUME NEW l \in Listings, MarketMoves(l)
       PROVE  RankHolds(c)'
  BY <1>3, <1>10 DEF MarketMoves, rows
<1>11. CASE UNCHANGED vars
  BY <1>3, <1>11 DEF vars, rows
<1> HIDE DEF w, v
<1> QED
  BY <1>4, <1>5, <1>6, <1>7, <1>8, <1>9, <1>10, <1>11 DEF Next, RunStep

\* A status that only a detail page reports is overturned only by a page, by absence
\* or by a row that has no page to read, never by one whose page was due and not
\* read or that was ranked as needing none (clearSearchStatus, enrichPriority), for any scopes,
\* listings and threshold, as long as runs do not overlap; when they do it is not so, as
\* LifecycleStaleRank shows.
THEOREM SearchRowsDefer ==
    ASSUME \A c, e \in Crawlers : c = e
    PROVE  Spec => UnreadRowKeepsDetailStatus
<1> DEFINE RankInv == \A c \in Crawlers : RankHolds(c)
<1>1. Init => RankInv
  <2>1. Placed(IdleCrawler) /\ Deferring(IdleCrawler)
    BY DEF Placed, Deferring, IdleCrawler
  <2>2. Init => \A c \in Crawlers : crawler[c] = IdleCrawler
    BY DEF Init
  <2> QED
    BY <2>1, <2>2 DEF RankHolds
<1>2. Shape /\ RankInv /\ [Next]_vars => RankInv'
  BY NextRankHolds
<1>3. Shape /\ RankInv /\ [Next]_vars =>
          [\A l \in Listings :
             Overturned(l) => \E c \in Crawlers : crawler[c].hand = {l} /\ crawler[c].page # ""]_vars
  <2> SUFFICES ASSUME Shape, RankInv, [Next]_vars, NEW l \in Listings, Overturned(l)
               PROVE  \E c \in Crawlers : crawler[c].hand = {l} /\ crawler[c].page # ""
    OBVIOUS
  <2>1. PICK c \in Crawlers : ApplySourceProperty(c) /\ Applied(c)
    BY StatusStep DEF Overturned
  <2>2. crawler[c].hand = {l} /\ status'[l] = StatusAfter(status[l], crawler[c].say)
    BY <2>1, AppliedStatus DEF Overturned
  <2>3. crawler[c].say # ""
    BY <2>2 DEF StatusAfter, Overturned, DetailStatus
  <2>4. crawler[c].page # ""
    BY <2>2, <2>3 DEF RankHolds, Deferring, Overturned
  <2> QED
    BY <2>2, <2>4
<1> HIDE DEF RankInv
<1> QED
  BY <1>1, <1>2, <1>3, InitShape, NextShape, PTL DEF Spec, UnreadRowKeepsDetailStatus
=============================================================================
