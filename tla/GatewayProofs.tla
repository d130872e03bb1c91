--------------------------- MODULE GatewayProofs ---------------------------
(***************************************************************************)
(* What the server's front keeps whatever agents and browsers send: what   *)
(* is refused has written nothing, only a fault is answered as one, a tool *)
(* or route does to the tables what it is annotated with, and nobody gets  *)
(* more guesses at the bearer than the login page allows.                  *)
(*                                                                         *)
(* The argument goes by what each service call may do (Readers, Adders,    *)
(* Certain) and by how a handler puts its calls in order (Ordered).        *)
(***************************************************************************)
EXTENDS Gateway, SequenceTheorems, WellFoundedInduction, TLAPS

---------------------------------------------------------------------------
(* Guesses at the login page.                                               *)

\* While the window runs, every guess has been paid for.
GuessInv ==
    /\ guesses \in Nat /\ guesses <= MaxLoginFailures
    /\ limiter = [failures |-> limiter.failures, passed |-> limiter.passed]
    /\ limiter.failures \in Nat /\ limiter.passed \in BOOLEAN
    /\ ~limiter.passed => guesses <= limiter.failures /\ limiter.failures <= MaxLoginFailures

\* An attempt is counted before its probe leaves, so probes that overlap in flight
\* cannot slip past the limit together (cmd/console/main.go:71-72).
THEOREM GuessesAreBounded == Spec => []GuessesBounded
  <1>. USE GatewayAssumption
  <1>1. Init => GuessInv
    BY DEF Init, GuessInv
  <1>2. GuessInv /\ [Next]_vars => GuessInv'
    <2>. SUFFICES ASSUME GuessInv, [Next]_vars PROVE GuessInv'
      OBVIOUS
    <2>1. ASSUME NEW t \in Tokens, DoLogin(t) PROVE GuessInv'
      <3>. DEFINE before == IF limiter.passed THEN 0 ELSE guesses
      <3>1. Spent < MaxLoginFailures /\ limiter' = [failures |-> Spent + 1, passed |-> FALSE]
        BY <2>1 DEF DoLogin, Allow
      <3>2. before \in Nat /\ Spent \in Nat /\ before <= Spent
        BY DEF GuessInv, Spent
      <3>3. guesses' = before \/ guesses' = before + 1
        <4>1. guesses' = before + (IF t # token THEN 1 ELSE 0)
          BY <2>1, Zenon DEF DoLogin
        <4>. QED
          BY <3>2, <4>1
      <3>. HIDE DEF before
      <3>. QED
        BY <3>1, <3>2, <3>3 DEF GuessInv
    <2>2. ASSUME NEW t \in Tokens, ProbeAnswered(t) PROVE GuessInv'
      BY <2>2 DEF ProbeAnswered, GuessInv
    <2>3. ASSUME NEW t \in Tokens, ProbeFails(t) PROVE GuessInv'
      BY <2>3 DEF ProbeFails, GuessInv
    <2>4. CASE WindowPasses
      BY <2>4 DEF WindowPasses, GuessInv
    <2>5. CASE UNCHANGED loginVars
      BY <2>5 DEF loginVars, GuessInv
    <2>6. LoginStep \/ UNCHANGED loginVars
      BY DEF Next, AgentStep, Ask, Reply, AnswerLost, ServerStep, Work, CallFails, PageStep, Visit, PageAsks,
             PageAnswered, PageUnanswered, PageEnds, Logout, RotateToken, CrawlerMoves, vars
    <2>. QED
      BY <2>1, <2>2, <2>3, <2>4, <2>5, <2>6 DEF LoginStep
  <1>3. GuessInv => GuessesBounded
    BY DEF GuessInv, GuessesBounded
  <1>. QED
    BY <1>1, <1>2, <1>3, PTL DEF Spec

---------------------------------------------------------------------------
(* What a call of the service may do.                                       *)

\* Calls that only look ...
Readers == {"Search", "Listing", "ContactSheet", "PhotoKeyAt", "PhotoObject", "CheckBatch", "CrawlStatus",
            "ListMembers", "State", "VerdictsFor", "Candidates", "PhotosForListings",
            "UnmatchedNeighborhoods", "CrawlTargets", "CorpusStats", "RatedListings", "Lists",
            "ListBySlug", "ListsForProperty", "ResolveAreas"}
\* ... that only add ...
Adders == {"MarkShown", "RecordVerdict", "BatchItem", "SetProfile", "UpdateRubric", "RequestCrawl",
           "CreateList", "AddToList", "AddToListBySlug"}
\* ... and that change or remove.
Changers == {"ResetState", "SetCrawlTargetEnabled", "MakeCrawlTargetRecurring", "DeleteCrawlTarget",
             "DeleteList", "RemoveFromList"}
Calls == Readers \cup Adders \cup Changers

Known(c) == c.do \in Calls

\* The text that a call binds into its statement is one that cannot be stored.
Soiled(c) ==
    \/ c.do \in {"RecordVerdict", "BatchItem", "RequestCrawl", "AddToList", "AddToListBySlug"} /\ c.in.note = "nul"
    \/ c.do \in {"Search", "CreateList"} /\ c.in.text = "nul"
    \/ c.do = "UpdateRubric" /\ c.in.content = "nul"
    \/ c.do = "SetProfile" /\ c.in.value = "nul"

\* A lookup that finds a target goes on with the outcome of one of them.
LEMMA LookupOutcome ==
    ASSUME NEW d, NEW outcomes, outcomes # {}
    PROVE  WithTarget(d, outcomes) \in outcomes
  BY DEF WithTarget

LEMMA LookupMissed ==
    ASSUME NEW d
    PROVE  WithTarget(d, {}) = Refused(d, "targetNotFound")
  BY DEF WithTarget

\* A call that only looks leaves the tables as they are.
LEMMA ReadersKeep ==
    ASSUME NEW c, NEW d, c.do \in Readers
    PROVE  Perform(c, d).db = d
  <1>1. CASE c.do = "CrawlStatus"
    <2>1. Perform(c, d) = WithTarget(d, {Shown(d, {t}) : t \in TargetNamed(d, c.in)})
      BY <1>1 DEF Perform, CrawlStatus
    <2>2. Perform(c, d) \in {Shown(d, {t}) : t \in TargetNamed(d, c.in)} \cup {Refused(d, "targetNotFound")}
      BY <2>1, LookupOutcome, LookupMissed
    <2>. QED
      BY <2>2 DEF Shown, Refused
  <1>2. CASE c.do # "CrawlStatus"
    BY <1>2 DEF Readers, Perform, Checked, Found, Stored, Done, Shown, Refused,
         Search, Listing, ContactSheet, PhotoKeyAt, PhotoObject, CheckBatch, ListMembers, State,
         VerdictsFor, Candidates, PhotosForListings, UnmatchedNeighborhoods, CrawlTargets, CorpusStats,
         RatedListings, Lists, ListBySlug, ListsForProperty, ResolveAreas
  <1>. QED
    BY <1>1, <1>2

\* What a call of the service answers: fine, one of its sentinels, or that a text was
\* not stored.
LEMMA PerformAnswers ==
    ASSUME NEW c, NEW d, Known(c)
    PROVE  /\ Perform(c, d).err \in {"ok", Unstorable} \cup Sentinels
           /\ Perform(c, d).err = Unstorable => Soiled(c)
           /\ Perform(c, d).err = "duplicateList" => c.do = "CreateList"
           /\ Perform(c, d).err # "ok" => Perform(c, d).db = d
  <1>. DEFINE Fair(o) == /\ o.err \in {"ok", "invalid", "notFound", "futureThrough", "queueFull",
                                       "targetNotFound", "listNotFound", "defaultList"}
                         /\ o.err # "ok" => o.db = d
  <1>1. ASSUME NEW outcomes, \A o \in outcomes : Fair(o)
        PROVE  Fair(WithTarget(d, outcomes))
    <2>1. CASE outcomes = {}
      BY <2>1, LookupMissed DEF Refused
    <2>2. CASE outcomes # {}
      BY <1>1, <2>2, LookupOutcome
    <2>. QED
      BY <2>1, <2>2
  <1>2. CASE c.do = "CrawlStatus"
    <2>1. Perform(c, d) = WithTarget(d, {Shown(d, {t}) : t \in TargetNamed(d, c.in)})
      BY <1>2 DEF Perform, CrawlStatus
    <2>2. \A o \in {Shown(d, {t}) : t \in TargetNamed(d, c.in)} : Fair(o)
      BY DEF Shown
    <2>. QED
      BY <1>1, <1>2, <2>1, <2>2, Zenon DEF Sentinels, Unstorable
  <1>3. CASE c.do = "SetCrawlTargetEnabled"
    <2>. DEFINE Out(t) == Checked(d, t.kind = "standing", Put(d, t, [t EXCEPT !.enabled = c.in.enabled]))
    <2>1. Perform(c, d) = WithTarget(d, {Out(t) : t \in TargetNamed(d, c.in)})
      BY <1>3 DEF Perform, SetCrawlTargetEnabled
    <2>2. \A o \in {Out(t) : t \in TargetNamed(d, c.in)} : Fair(o)
      BY DEF Checked, Put, Done, Refused
    <2>. QED
      BY <1>1, <1>3, <2>1, <2>2, Zenon DEF Sentinels, Unstorable
  <1>4. CASE c.do = "MakeCrawlTargetRecurring"
    <2>. DEFINE Out(t) == Checked(d, t.kind = "once",
                                  Put(d, t, [t EXCEPT !.kind = "standing", !.enabled = TRUE]))
    <2>1. Perform(c, d) = WithTarget(d, {Out(t) : t \in TargetNamed(d, c.in)})
      BY <1>4 DEF Perform, MakeCrawlTargetRecurring
    <2>2. \A t, u : Put(d, t, u).err = "ok"
      BY DEF Put, Done
    <2>3. \A t, u : Fair(Checked(d, t.kind = "once", Put(d, t, u)))
      BY <2>2 DEF Checked, Refused
    <2>4. ASSUME NEW t \in TargetNamed(d, c.in) PROVE Fair(Out(t))
      <3>. DEFINE u == [t EXCEPT !.kind = "standing", !.enabled = TRUE]
      <3>. HIDE DEF u
      <3>1. Fair(Checked(d, t.kind = "once", Put(d, t, u)))
        BY <2>3
      <3>. QED
        BY <3>1 DEF u
    <2>. HIDE DEF Fair, Out
    <2>5. \A o \in {Out(t) : t \in TargetNamed(d, c.in)} : Fair(o)
      BY <2>4
    <2>6. Fair(WithTarget(d, {Out(t) : t \in TargetNamed(d, c.in)}))
      BY <1>1, <2>5
    <2>. USE DEF Fair
    <2>. QED
      BY <1>4, <2>1, <2>6, Zenon DEF Sentinels, Unstorable
  <1>5. CASE c.do = "DeleteCrawlTarget"
    <2>. DEFINE Out(t) == Done([d EXCEPT !.targets = @ \ {t}])
    <2>1. Perform(c, d) = WithTarget(d, {Out(t) : t \in TargetNamed(d, c.in)})
      BY <1>5 DEF Perform, DeleteCrawlTarget
    <2>2. \A o \in {Out(t) : t \in TargetNamed(d, c.in)} : Fair(o)
      BY DEF Done
    <2>. QED
      BY <1>1, <1>5, <2>1, <2>2, Zenon DEF Sentinels, Unstorable
  <1>6. CASE c.do \in Readers \ {"CrawlStatus"}
    <2>. USE DEF Checked, Found, Stored, Done, Shown, Refused, Sentinels, Unstorable, Soiled
    <2>1. CASE c.do \in {"Search", "Listing", "ContactSheet", "PhotoKeyAt", "PhotoObject"}
      BY <2>1 DEF Perform, Search, Listing, ContactSheet, PhotoKeyAt, PhotoObject
    <2>2. CASE c.do \in {"CheckBatch", "ListMembers", "State", "VerdictsFor", "Candidates"}
      BY <2>2 DEF Perform, CheckBatch, ListMembers, State, VerdictsFor, Candidates
    <2>3. CASE c.do \in {"PhotosForListings", "UnmatchedNeighborhoods", "CrawlTargets", "CorpusStats"}
      BY <2>3 DEF Perform, PhotosForListings, UnmatchedNeighborhoods, CrawlTargets, CorpusStats
    <2>4. CASE c.do \in {"RatedListings", "Lists", "ListBySlug", "ListsForProperty", "ResolveAreas"}
      BY <2>4 DEF Perform, RatedListings, Lists, ListBySlug, ListsForProperty, ResolveAreas
    <2>. QED
      BY <1>6, <2>1, <2>2, <2>3, <2>4 DEF Readers
  <1>7. CASE c.do = "RequestCrawl"
    BY <1>7 DEF Perform, RequestCrawl, CreateCrawlTarget, Put, Checked, Found, Stored, Done, Refused,
                Sentinels, Unstorable, Soiled
  <1>8. CASE c.do \in {"MarkShown", "RecordVerdict", "BatchItem", "SetProfile", "UpdateRubric",
                       "CreateList", "AddToList", "AddToListBySlug"}
    <2>. USE DEF Checked, Found, Stored, Done, Refused, Sentinels, Unstorable, Soiled
    <2>1. CASE c.do \in {"MarkShown", "SetProfile", "UpdateRubric"}
      BY <2>1 DEF Perform, MarkShown, SetProfile, UpdateRubric
    <2>2. CASE c.do \in {"RecordVerdict", "BatchItem"}
      BY <2>2 DEF Perform, RecordVerdict, BatchItem
    <2>3. CASE c.do \in {"CreateList", "AddToList", "AddToListBySlug"}
      BY <2>3 DEF Perform, CreateList, AddToList, AddToListBySlug
    <2>. QED
      BY <1>8, <2>1, <2>2, <2>3
  <1>9. CASE c.do \in {"ResetState", "DeleteList", "RemoveFromList"}
    BY <1>9 DEF Perform, ResetState, DeleteList, RemoveFromList, Checked, Found, Done, Refused, Sentinels,
                Unstorable
  <1>. QED
    BY <1>2, <1>3, <1>4, <1>5, <1>6, <1>7, <1>8, <1>9 DEF Known, Calls, Readers, Adders, Changers

---------------------------------------------------------------------------
(* How a handler puts its calls in order.                                   *)

IsSeq(s) == s \in Seq(Range(s))

LEMMA SeqOfItsRange ==
    ASSUME NEW S, NEW s \in Seq(S)
    PROVE  IsSeq(s)
  <1>1. s \in [1 .. Len(s) -> Range(s)]
    BY DEF Range
  <1>. QED
    BY <1>1 DEF IsSeq

\* What is made of a sequence item by item is one.
LEMMA MappedSeq ==
    ASSUME NEW s, IsSeq(s), NEW f, f = [i \in DOMAIN s |-> f[i]]
    PROVE  IsSeq(f)
  <1>1. DOMAIN s = 1 .. Len(s) /\ Len(s) \in Nat
    BY LenProperties DEF IsSeq
  <1>2. DOMAIN f = 1 .. Len(s)
    BY <1>1
  <1>3. f \in [1 .. Len(s) -> Range(f)]
    BY <1>1, <1>2 DEF Range
  <1>4. f \in Seq(Range(f))
    BY <1>1, <1>3, SeqDef
  <1>. QED
    BY <1>4 DEF IsSeq

LEMMA SingletonSeq ==
    ASSUME NEW c
    PROVE  IsSeq(<<c>>) /\ DOMAIN <<c>> = {1} /\ <<c>>[1] = c
  <1>1. <<c>> \in Seq({c}) /\ DOMAIN <<c>> = {1} /\ <<c>>[1] = c
    OBVIOUS
  <1>. QED
    BY <1>1, SeqOfItsRange

LEMMA NoneIsSeq == IsSeq(<<>>)
  BY EmptySeq DEF IsSeq

\* The calls that are left once the first was made.
LEMMA TailSeq ==
    ASSUME NEW s, IsSeq(s), s # <<>>
    PROVE  /\ IsSeq(Tail(s)) /\ 1 \in DOMAIN s /\ Head(s) = s[1]
           /\ \A i \in DOMAIN Tail(s) : i \in Nat /\ i >= 1 /\ i + 1 \in DOMAIN s /\ Tail(s)[i] = s[i + 1]
  <1>1. /\ Tail(s) \in Seq(Range(s)) /\ Len(Tail(s)) = Len(s) - 1 /\ Len(s) \in Nat \ {0}
        /\ \A i \in 1 .. Len(Tail(s)) : Tail(s)[i] = s[i + 1]
    BY HeadTailProperties, LenProperties, EmptySeq DEF IsSeq
  <1>2. IsSeq(Tail(s))
    BY <1>1, SeqOfItsRange
  <1>3. DOMAIN s = 1 .. Len(s) /\ DOMAIN Tail(s) = 1 .. Len(Tail(s))
    BY <1>1, LenProperties DEF IsSeq
  <1>4. Head(s) = s[1]
    BY DEF IsSeq
  <1>. QED
    BY <1>1, <1>2, <1>3, <1>4

\* A call that is not refused for what the client got wrong.
Certain(c) ==
    \/ c.do = "UnmatchedNeighborhoods"
    \/ Sentinels \cup {Unstorable} \subseteq c.spared
    \/ c.do = "BatchItem" /\ NoteOK(c.in.note)

LEMMA CertainAnswers ==
    ASSUME NEW c, NEW d, Known(c), Certain(c)
    PROVE  Perform(c, d).err \in {"ok", Unstorable} \cup c.spared
  <1>1. CASE c.do = "UnmatchedNeighborhoods"
    BY <1>1 DEF Perform, UnmatchedNeighborhoods, Shown
  <1>2. CASE Sentinels \cup {Unstorable} \subseteq c.spared
    BY <1>2, PerformAnswers
  <1>3. CASE c.do = "BatchItem" /\ NoteOK(c.in.note)
    BY <1>3 DEF Perform, BatchItem, RecordVerdict, Checked, Stored, Found, Done, Refused, Unstorable
  <1>. QED
    BY <1>1, <1>2, <1>3 DEF Certain

\* Nothing that may be refused comes after something that writes ...
Ordered(calls) ==
    \A i, j \in DOMAIN calls : i < j => calls[i].do \in Readers \/ Certain(calls[j])

\* ... or the first call judges all the items the others record.
Judged(c, batch) == c.do = "BatchItem" /\ \E k \in DOMAIN batch : c.in = batch[k]
Vetted(calls) ==
    /\ calls # <<>> /\ calls[1].do = "CheckBatch" /\ calls[1].spared = {}
    /\ \A j \in DOMAIN calls : j > 1 => Certain(calls[j]) \/ Judged(calls[j], calls[1].in.batch)

\* What a call may be, by what the tool or route is annotated with.
Fits(via, op, c) ==
    /\ Known(c)
    /\ c.do = "CreateList" => "duplicateList" \in c.spared
    /\ c.do = "SetCrawlTargetEnabled" => c.in.enabled \in BOOLEAN
    /\ via = "mcp" /\ op \in Mcp!ReadOnly => c.do \in Readers
    /\ via = "mcp" /\ op \in Mcp!Additive => c.do \in Readers \cup Adders
    /\ via = "rest" /\ op \in Rest!Safe => c.do \in Readers

PlanErrors == {"ok", "invalid", "notFound", "forbidden"}

GoodPlan(via, op, plan) ==
    /\ plan.err \in PlanErrors
    /\ IsSeq(plan.calls)
    /\ \A i \in DOMAIN plan.calls : Fits(via, op, plan.calls[i])
    /\ Ordered(plan.calls) \/ Vetted(plan.calls)

LEMMA NoCalls ==
    ASSUME NEW via, NEW op, NEW e \in PlanErrors
    PROVE  GoodPlan(via, op, [err |-> e, calls |-> <<>>])
  BY NoneIsSeq DEF GoodPlan, Ordered

LEMMA OneCall ==
    ASSUME NEW via, NEW op, NEW c, Fits(via, op, c)
    PROVE  GoodPlan(via, op, [err |-> "ok", calls |-> <<c>>])
  BY SingletonSeq DEF GoodPlan, Ordered, PlanErrors

LEMMA TwoCalls ==
    ASSUME NEW via, NEW op, NEW c, NEW d, Fits(via, op, c), Fits(via, op, d),
           c.do \in Readers \/ Certain(d)
    PROVE  GoodPlan(via, op, [err |-> "ok", calls |-> <<c, d>>])
  <1>1. <<c, d>> \in Seq({c, d}) /\ DOMAIN <<c, d>> = {1, 2} /\ <<c, d>>[1] = c /\ <<c, d>>[2] = d
    OBVIOUS
  <1>2. IsSeq(<<c, d>>)
    BY <1>1, SeqOfItsRange
  <1>. QED
    BY <1>1, <1>2 DEF GoodPlan, Ordered, PlanErrors

LEMMA ThreeLooks ==
    ASSUME NEW via, NEW op, NEW a, NEW b, NEW c, Fits(via, op, a), Fits(via, op, b), Fits(via, op, c),
           a.do \in Readers, b.do \in Readers
    PROVE  GoodPlan(via, op, [err |-> "ok", calls |-> <<a, b, c>>])
  <1>1. /\ <<a, b, c>> \in Seq({a, b, c}) /\ DOMAIN <<a, b, c>> = {1, 2, 3}
        /\ <<a, b, c>>[1] = a /\ <<a, b, c>>[2] = b /\ <<a, b, c>>[3] = c
    OBVIOUS
  <1>2. IsSeq(<<a, b, c>>)
    BY <1>1, SeqOfItsRange
  <1>3. Ordered(<<a, b, c>>)
    BY <1>1 DEF Ordered
  <1>. QED
    BY <1>1, <1>2, <1>3 DEF GoodPlan, PlanErrors

\* The calls of a batch: the whole judged first, then its items, then what follows them.
WholeBatch(first, items, after) == <<first>> \o items \o after

\* The members of a sequence put together like a batch.
LEMMA BatchMembers ==
    ASSUME NEW first, NEW items, NEW after, IsSeq(items), IsSeq(after)
    PROVE  LET all == WholeBatch(first, items, after)
           IN  /\ IsSeq(all) /\ all # <<>> /\ all[1] = first
               /\ \A i \in DOMAIN all :
                     \/ i = 1
                     \/ \E k \in DOMAIN items : all[i] = items[k]
                     \/ \E k \in DOMAIN after : all[i] = after[k]
  <1>. DEFINE S == {first} \cup Range(items) \cup Range(after)
              start == <<first>> \o items
              all == start \o after
  <1>1. items \in Seq(S) /\ after \in Seq(S) /\ <<first>> \in Seq(S)
    BY SeqMonotonic DEF IsSeq
  <1>2. /\ start \in Seq(S) /\ Len(start) = 1 + Len(items)
        /\ \A i \in 1 .. Len(start) : start[i] = IF i <= 1 THEN first ELSE items[i - 1]
    BY <1>1, ConcatProperties
  <1>3. /\ all \in Seq(S) /\ Len(all) = Len(start) + Len(after)
        /\ \A i \in 1 .. Len(all) : all[i] = IF i <= Len(start) THEN start[i] ELSE after[i - Len(start)]
    <2>1. start \in Seq(S) /\ after \in Seq(S)
      BY <1>1, <1>2
    <2>2. ASSUME NEW s \in Seq(S), NEW t \in Seq(S)
          PROVE  /\ s \o t \in Seq(S) /\ Len(s \o t) = Len(s) + Len(t)
                 /\ \A i \in 1 .. Len(s \o t) : (s \o t)[i] = IF i <= Len(s) THEN s[i] ELSE t[i - Len(s)]
      BY ConcatProperties
    <2>. HIDE DEF start, S
    <2>. QED
      BY <2>1, <2>2
  <1>4. /\ DOMAIN items = 1 .. Len(items) /\ Len(items) \in Nat
        /\ DOMAIN after = 1 .. Len(after) /\ Len(after) \in Nat
        /\ DOMAIN all = 1 .. Len(all)
    BY <1>1, <1>3, LenProperties
  <1>. HIDE DEF S, start, all
  <1>5. all # <<>> /\ all[1] = first
    BY <1>2, <1>3, <1>4, EmptySeq
  <1>6. ASSUME NEW i \in DOMAIN all, i # 1
        PROVE  \/ \E k \in DOMAIN items : all[i] = items[k]
               \/ \E k \in DOMAIN after : all[i] = after[k]
    <2>1. CASE i <= Len(start)
      <3>1. i - 1 \in DOMAIN items /\ all[i] = items[i - 1]
        BY <1>2, <1>3, <1>4, <1>6, <2>1
      <3>. QED
        BY <3>1
    <2>2. CASE i > Len(start)
      <3>1. i - Len(start) \in DOMAIN after /\ all[i] = after[i - Len(start)]
        BY <1>2, <1>3, <1>4, <2>2
      <3>. QED
        BY <3>1
    <2>. QED
      BY <1>2, <1>3, <1>4, <2>1, <2>2
  <1>7. IsSeq(all)
    BY <1>3, SeqOfItsRange
  <1>. QED
    BY <1>5, <1>6, <1>7 DEF all, start, WholeBatch

\* A batch with nothing after it.
LEMMA WithoutMore ==
    ASSUME NEW first, NEW items, IsSeq(items)
    PROVE  IsSeq(<<first>> \o items) /\ <<first>> \o items \o <<>> = <<first>> \o items
  <1>1. <<first>> \in Seq({first} \cup Range(items)) /\ items \in Seq({first} \cup Range(items))
    BY SeqMonotonic DEF IsSeq
  <1>2. <<first>> \o items \in Seq({first} \cup Range(items))
    BY <1>1, ConcatProperties
  <1>. QED
    BY <1>2, SeqOfItsRange, ConcatEmptySeq

\* A batch is judged as a whole before its items are recorded.
LEMMA BatchCalls ==
    ASSUME NEW via, NEW op, NEW first, NEW items, NEW after,
           IsSeq(items), IsSeq(after),
           first.do = "CheckBatch", first.spared = {}, Fits(via, op, first),
           \A i \in DOMAIN items : Fits(via, op, items[i]) /\ Judged(items[i], first.in.batch),
           \A i \in DOMAIN after : Fits(via, op, after[i]) /\ Certain(after[i])
    PROVE  GoodPlan(via, op, [err |-> "ok", calls |-> <<first>> \o items \o after])
  <1>. DEFINE all == WholeBatch(first, items, after)
  <1>1. /\ IsSeq(all) /\ all # <<>> /\ all[1] = first
        /\ \A i \in DOMAIN all : \/ i = 1
                                 \/ \E k \in DOMAIN items : all[i] = items[k]
                                 \/ \E k \in DOMAIN after : all[i] = after[k]
    BY BatchMembers
  <1>. HIDE DEF all
  <1>2. \A i \in DOMAIN all : Fits(via, op, all[i])
    BY <1>1
  <1>3. \A i \in DOMAIN all : i > 1 => Certain(all[i]) \/ Judged(all[i], first.in.batch)
    BY <1>1
  <1>4. Vetted(all)
    BY <1>1, <1>3 DEF Vetted
  <1>. QED
    BY <1>1, <1>2, <1>4 DEF GoodPlan, PlanErrors, all, WholeBatch

\* The plans of one call, or of none.
One(do, in) == [err |-> "ok", calls |-> <<[do |-> do, in |-> in, spared |-> {}]>>]
None(e)     == [err |-> e, calls |-> <<>>]

LEMMA SingleCall ==
    ASSUME NEW via, NEW op, NEW do \in Calls, NEW in,
           do # "CreateList", do = "SetCrawlTargetEnabled" => in.enabled \in BOOLEAN,
           via = "mcp" /\ op \in Mcp!ReadOnly => do \in Readers,
           via = "mcp" /\ op \in Mcp!Additive => do \in Readers \cup Adders,
           via = "rest" /\ op \in Rest!Safe => do \in Readers
    PROVE  GoodPlan(via, op, One(do, in))
  BY OneCall DEF One, Fits, Known

LEMMA NoCall ==
    ASSUME NEW via, NEW op, NEW e \in PlanErrors
    PROVE  GoodPlan(via, op, None(e))
  BY NoCalls DEF None

LEMMA SameErrors == Mcp!AnyError = AnyError
  BY DEF Mcp!AnyError, Mcp!Sentinels, Mcp!Outage, Mcp!Unstorable, AnyError, Sentinels, Outage, Unstorable

\* The tools that only look make one call that only looks, or none.
LEMMA LookingTools ==
    ASSUME NEW op \in Mcp!ReadOnly, NEW in
    PROVE  GoodPlan("mcp", op, Mcp!ToolPlan(op, in))
  <1>. DEFINE plan == Mcp!ToolPlan(op, in)
  <1>. SUFFICES (\E do \in Readers : plan = One(do, in)) \/ (\E e \in PlanErrors : plan = None(e))
    BY SingleCall, NoCall DEF Calls, Readers
  <1>. USE DEF Mcp!ToolPlan, Mcp!Plan, Mcp!Must, Mcp!Parsed, Mcp!Reject, Mcp!RejectAs, One, None, Readers, PlanErrors
  <1>1. CASE op \in {"getState", "searchListings", "getCandidates", "getListing"}
    BY <1>1 DEF Mcp!GetState, Mcp!SearchListings, Mcp!GetCandidates, Mcp!GetListing
  <1>2. CASE op \in {"getListingsPhotos", "listCrawlTargets", "getCrawlStatus", "getCorpusStats"}
    BY <1>2 DEF Mcp!GetListingsPhotos, Mcp!ListCrawlTargets, Mcp!GetCrawlStatus, Mcp!GetCorpusStats
  <1>3. CASE op \in {"resolveAreas", "getLists", "getList", "getConsoleURL"}
    BY <1>3 DEF Mcp!AreasTool, Mcp!GetLists, Mcp!GetList, Mcp!GetConsoleURL
  <1>. QED
    BY <1>1, <1>2, <1>3 DEF Mcp!ReadOnly

\* The tools that write make their one call; those with more put last what the client
\* cannot spoil.
LEMMA WritingTools ==
    ASSUME NEW op \in Mcp!Additive \cup Mcp!Destructive, NEW in,
           op = "recordVerdicts" => IsSeq(in.batch)
    PROVE  GoodPlan("mcp", op, Mcp!ToolPlan(op, in))
  <1>. DEFINE plan == Mcp!ToolPlan(op, in)
              Spared(do, i, S) == [do |-> do, in |-> i, spared |-> S]
  <1>. USE DEF Mcp!Plan, Mcp!Must, Mcp!Parsed, Mcp!Reject, Mcp!RejectAs, One, None
  <1>1. op \notin Mcp!ReadOnly
    BY DEF Mcp!ReadOnly, Mcp!Additive, Mcp!Destructive
  <1>2. CASE op \in {"markShown", "updateRubric", "requestCrawl"}
    <2>1. (\E do \in Adders \ {"CreateList"} : plan = One(do, in)) \/ (\E e \in PlanErrors : plan = None(e))
      BY <1>2 DEF Mcp!ToolPlan, Mcp!ShowTool, Mcp!RubricTool, Mcp!CrawlTool, Adders, PlanErrors
    <2>. QED
      BY <1>1, <2>1, SingleCall, NoCall DEF Calls, Adders
  <1>3. CASE op \in {"resetState", "removeFromList"}
    <2>1. \/ \E do \in {"ResetState", "RemoveFromList"} : plan = One(do, in)
          \/ \E e \in PlanErrors : plan = None(e)
      BY <1>3 DEF Mcp!ToolPlan, Mcp!ResetTool, Mcp!RemoveTool, PlanErrors
    <2>2. op \notin Mcp!Additive
      BY <1>3 DEF Mcp!Additive
    <2>. QED
      BY <1>1, <2>1, <2>2, SingleCall, NoCall DEF Calls, Changers
  <1>4. CASE op = "manageCrawlTarget"
    <2>1. \/ \E b \in BOOLEAN : plan = One("SetCrawlTargetEnabled", [id |-> in.id, enabled |-> b])
          \/ plan = One("MakeCrawlTargetRecurring", in)
          \/ plan = One("DeleteCrawlTarget", in)
          \/ plan = None("invalid")
      BY <1>4 DEF Mcp!ToolPlan, Mcp!ManageCrawlTarget
    <2>2. op \notin Mcp!Additive
      BY <1>4 DEF Mcp!Additive
    <2>. QED
      BY <1>1, <2>1, <2>2, SingleCall, NoCall DEF Calls, Changers, PlanErrors
  <1>5. CASE op = "createList"
    <2>1. plan = [err |-> "ok", calls |-> <<Spared("CreateList", in, {"duplicateList"})>>]
      BY <1>5 DEF Mcp!ToolPlan, Mcp!ListTool, Mcp!Sparing
    <2>2. Fits("mcp", op, Spared("CreateList", in, {"duplicateList"}))
      BY <1>1 DEF Fits, Known, Calls, Adders
    <2>. QED
      BY <2>1, <2>2, OneCall
  <1>6. CASE op = "addToList"
    <2>1. plan = [err |-> "ok", calls |-> <<Spared("AddToListBySlug", in, {}), Spared("ListBySlug", in, AnyError)>>]
      BY <1>6, SameErrors DEF Mcp!ToolPlan, Mcp!AddTool, Mcp!Try, Mcp!Sparing
    <2>2. /\ Fits("mcp", op, Spared("AddToListBySlug", in, {}))
          /\ Fits("mcp", op, Spared("ListBySlug", in, AnyError))
          /\ Certain(Spared("ListBySlug", in, AnyError))
      BY <1>1 DEF Fits, Known, Calls, Adders, Readers, Certain, AnyError
    <2>. QED
      BY <2>1, <2>2, TwoCalls
  <1>7. CASE op = "setProfile"
    <2>1. \/ plan = [err |-> "ok", calls |-> <<Spared("SetProfile", in, {}),
                                               Spared("UnmatchedNeighborhoods", in, {})>>]
          \/ plan = None("invalid")
      BY <1>7 DEF Mcp!ToolPlan, Mcp!ProfileTool
    <2>2. /\ Fits("mcp", op, Spared("SetProfile", in, {}))
          /\ Fits("mcp", op, Spared("UnmatchedNeighborhoods", in, {}))
          /\ Certain(Spared("UnmatchedNeighborhoods", in, {}))
      BY <1>1 DEF Fits, Known, Calls, Adders, Readers, Certain
    <2>. QED
      BY <2>1, <2>2, TwoCalls, NoCall DEF PlanErrors
  <1>8. ASSUME NEW i
        PROVE  /\ Fits("mcp", op, Spared("PhotosForListings", i, AnyError))
               /\ Certain(Spared("PhotosForListings", i, AnyError))
    BY <1>1 DEF Fits, Known, Calls, Readers, Certain, AnyError
  <1>9. CASE op = "recordVerdict"
    <2>1. \/ plan = [err |-> "ok", calls |-> <<Spared("RecordVerdict", in, {}),
                                               Spared("PhotosForListings", [ids |-> {in.id}], AnyError)>>]
          \/ plan = None("invalid")
      BY <1>9, SameErrors DEF Mcp!ToolPlan, Mcp!VerdictTool, Mcp!AnyHavePhotos, Mcp!Try, Mcp!Sparing
    <2>2. Fits("mcp", op, Spared("RecordVerdict", in, {}))
      BY <1>1 DEF Fits, Known, Calls, Adders
    <2>. QED
      BY <1>8, <2>1, <2>2, TwoCalls, NoCall DEF PlanErrors
  <1>10. CASE op = "recordVerdicts"
    <2>. DEFINE first == Spared("CheckBatch", in, {})
                items == [i \in DOMAIN in.batch |-> Spared("BatchItem", in.batch[i], {})]
                shown == [ids |-> {in.batch[i].id : i \in DOMAIN in.batch} \cap Listings]
                after == <<Spared("PhotosForListings", shown, AnyError)>>
    <2>1. plan = [err |-> "ok", calls |-> <<first>> \o items \o after] \/ plan = None("invalid")
      BY <1>10, SameErrors, Zenon DEF Mcp!ToolPlan, Mcp!VerdictsTool, Mcp!AnyHavePhotos, Mcp!Try, Mcp!Sparing
    <2>2. IsSeq(items)
      BY <1>10, MappedSeq
    <2>3. IsSeq(after) /\ DOMAIN after = {1} /\ after[1] = Spared("PhotosForListings", shown, AnyError)
      BY SingletonSeq
    <2>4. /\ Fits("mcp", op, first)
          /\ \A i \in DOMAIN items : Fits("mcp", op, items[i]) /\ Judged(items[i], first.in.batch)
      BY <1>1 DEF Fits, Known, Calls, Adders, Readers, Judged
    <2>5. \A i \in DOMAIN after : Fits("mcp", op, after[i]) /\ Certain(after[i])
      BY <1>8, <2>3
    <2>6. first.do = "CheckBatch" /\ first.spared = {}
      OBVIOUS
    <2>. HIDE DEF first, items, shown, after
    <2>7. GoodPlan("mcp", op, [err |-> "ok", calls |-> <<first>> \o items \o after])
      BY <2>2, <2>3, <2>4, <2>5, <2>6, BatchCalls
    <2>. QED
      BY <2>1, <2>7, NoCall DEF PlanErrors
  <1>. QED
    BY <1>2, <1>3, <1>4, <1>5, <1>6, <1>7, <1>9, <1>10 DEF Mcp!Additive, Mcp!Destructive

\* The routes that only look make calls that only look.
LEMMA LookingRoutes ==
    ASSUME NEW op \in Rest!Safe, NEW in
    PROVE  GoodPlan("rest", op, Rest!RoutePlan(op, in))
  <1>. DEFINE plan == Rest!RoutePlan(op, in)
              Call(do) == [do |-> do, in |-> in, spared |-> {}]
  <1>. USE DEF Rest!RoutePlan, Rest!Plan, Rest!Must, Rest!Parsed, Rest!Reject, Rest!RejectAs, One, None
  <1>1. \A do \in Readers : GoodPlan("rest", op, One(do, in))
    BY SingleCall DEF Calls, Readers
  <1>2. \A e \in PlanErrors : GoodPlan("rest", op, None(e))
    BY NoCall
  <1>3. CASE op \in {"getState", "getCandidates", "getContactSheet", "listCrawlTargets"}
    <2>1. \E do \in Readers : plan = One(do, in)
      BY <1>3 DEF Rest!GetState, Rest!GetCandidates, Rest!GetContactSheet, Rest!GetCrawlTargets, Readers
    <2>. QED
      BY <1>1, <2>1
  <1>4. CASE op \in {"getCrawlStatus", "getCorpusStats", "resolveAreas", "getVerdicts", "getLists", "getList"}
    <2>1. \E do \in Readers : plan = One(do, in)
      BY <1>4 DEF Rest!GetCrawlRequest, Rest!GetCorpusStats, Rest!GetAreas, Rest!GetVerdicts,
                  Rest!ListLists, Rest!GetList, Readers
    <2>. QED
      BY <1>1, <2>1
  <1>5. CASE op = "searchListings"
    <2>. DEFINE asked == [price |-> IF in.price = "zero" THEN "none" ELSE in.price, text |-> in.text]
    <2>1. plan = One("Search", asked) \/ plan = None("invalid")
      BY <1>5 DEF Rest!SearchListings
    <2>. HIDE DEF asked
    <2>2. GoodPlan("rest", op, One("Search", asked))
      BY SingleCall DEF Calls, Readers
    <2>. QED
      BY <1>2, <2>1, <2>2 DEF PlanErrors
  <1>6. \A do \in Readers : Fits("rest", op, Call(do))
    BY DEF Fits, Known, Calls, Readers
  <1>7. CASE op = "getListingPhoto"
    <2>1. plan = [err |-> "ok", calls |-> <<Call("PhotoKeyAt"), Call("PhotoObject")>>]
      BY <1>7 DEF Rest!GetListingPhoto
    <2>. QED
      BY <1>6, <2>1, TwoCalls DEF Readers
  <1>8. CASE op = "imageByListing"
    <2>1. \/ plan = None("notFound")
          \/ plan = [err |-> "ok", calls |-> <<Call("PhotoKeyAt")>>]
          \/ plan = [err |-> "ok", calls |-> <<Call("PhotoKeyAt"), Call("PhotoObject")>>]
      BY <1>8 DEF Rest!ImageByListing
    <2>2. GoodPlan("rest", op, [err |-> "ok", calls |-> <<Call("PhotoKeyAt")>>])
      BY <1>6, OneCall DEF Readers
    <2>3. GoodPlan("rest", op, [err |-> "ok", calls |-> <<Call("PhotoKeyAt"), Call("PhotoObject")>>])
      BY <1>6, TwoCalls DEF Readers
    <2>. QED
      BY <1>2, <2>1, <2>2, <2>3 DEF PlanErrors
  <1>9. CASE op = "image"
    <2>1. plan = None("forbidden") \/ plan = One("PhotoObject", in)
      BY <1>9 DEF Rest!Image
    <2>. QED
      BY <1>1, <1>2, <2>1 DEF Readers, PlanErrors
  <1>10. CASE op = "getListing"
    <2>1. plan = [err |-> "ok", calls |-> <<Call("Listing"), Call("ListsForProperty"), Call("VerdictsFor")>>]
      BY <1>10 DEF Rest!GetListing
    <2>2. /\ Fits("rest", op, Call("Listing")) /\ Fits("rest", op, Call("ListsForProperty"))
          /\ Fits("rest", op, Call("VerdictsFor"))
      BY <1>6 DEF Readers
    <2>. QED
      BY <2>1, <2>2, ThreeLooks DEF Readers
  <1>. QED
    BY <1>3, <1>4, <1>5, <1>7, <1>8, <1>9, <1>10 DEF Rest!Safe

LEMMA WritingRoutes ==
    ASSUME NEW op \in Rest!Unsafe, NEW in,
           op = "recordVerdicts" => IsSeq(in.batch)
    PROVE  GoodPlan("rest", op, Rest!RoutePlan(op, in))
  <1>. DEFINE plan == Rest!RoutePlan(op, in)
              Spared(do, i, S) == [do |-> do, in |-> i, spared |-> S]
  <1>. USE DEF Rest!RoutePlan, Rest!Plan, Rest!Must, Rest!Parsed, Rest!Reject, Rest!RejectAs, One, None
  <1>1. op \notin Rest!Safe
    BY DEF Rest!Safe, Rest!Unsafe
  <1>2. \A do \in Calls \ {"CreateList", "SetCrawlTargetEnabled"} : GoodPlan("rest", op, One(do, in))
    BY <1>1, SingleCall
  <1>3. GoodPlan("rest", op, None("invalid"))
    BY NoCall DEF PlanErrors
  <1>4. CASE op \in {"resetState", "markShown", "recordVerdict", "updateRubric", "requestCrawl"}
    <2>1. \/ plan = None("invalid") \/ plan = None("ok")
          \/ \E do \in {"ResetState", "MarkShown", "RecordVerdict", "UpdateRubric", "RequestCrawl"} :
                plan = One(do, in)
      <3>1. CASE op = "resetState"
        BY <3>1 DEF Rest!Reset
      <3>2. CASE op \in {"markShown", "recordVerdict"}
        BY <3>2 DEF Rest!PostShown, Rest!PostVerdict
      <3>3. CASE op = "updateRubric"
        BY <3>3 DEF Rest!PostRubric
      <3>4. CASE op = "requestCrawl"
        BY <3>4 DEF Rest!PostCrawl
      <3>. QED
        BY <1>4, <3>1, <3>2, <3>3, <3>4
    <2>. QED
      BY <1>2, <1>3, <2>1, NoCall DEF Calls, Adders, Changers, PlanErrors
  <1>5. CASE op \in {"getListingsPhotos", "deleteCrawlTarget", "deleteList", "addToList", "removeFromList"}
    <2>1. \E do \in {"PhotosForListings", "DeleteCrawlTarget", "DeleteList", "AddToList", "RemoveFromList"} :
                plan = One(do, in)
      BY <1>5 DEF Rest!GetListingsPhotos, Rest!RemoveCrawlTarget, Rest!RemoveList, Rest!PostItem,
                  Rest!RemoveItem
    <2>. QED
      BY <1>2, <2>1 DEF Calls, Readers, Adders, Changers
  <1>6. CASE op = "updateCrawlTarget"
    <2>1. \/ plan = None("invalid") \/ plan = One("MakeCrawlTargetRecurring", in)
          \/ plan = One("SetCrawlTargetEnabled", [id |-> in.id, enabled |-> in.enabled = "true"])
      BY <1>6 DEF Rest!UpdateCrawlTarget
    <2>2. GoodPlan("rest", op, One("SetCrawlTargetEnabled", [id |-> in.id, enabled |-> in.enabled = "true"]))
      BY <1>1, SingleCall DEF Calls, Changers
    <2>. QED
      BY <1>2, <1>3, <2>1, <2>2 DEF Calls, Changers
  <1>7. CASE op = "createList"
    <2>1. plan = [err |-> "ok", calls |-> <<Spared("CreateList", in, {"duplicateList"})>>]
      BY <1>7 DEF Rest!PostList, Rest!Sparing
    <2>2. Fits("rest", op, Spared("CreateList", in, {"duplicateList"}))
      BY <1>1 DEF Fits, Known, Calls, Adders
    <2>. QED
      BY <2>1, <2>2, OneCall
  <1>8. CASE op = "setProfile"
    <2>1. \/ plan = [err |-> "ok", calls |-> <<Spared("SetProfile", in, {}),
                                               Spared("UnmatchedNeighborhoods", in, {})>>]
          \/ plan = None("invalid")
      BY <1>8 DEF Rest!PatchProfile
    <2>2. /\ Fits("rest", op, Spared("SetProfile", in, {}))
          /\ Fits("rest", op, Spared("UnmatchedNeighborhoods", in, {}))
          /\ Certain(Spared("UnmatchedNeighborhoods", in, {}))
      BY <1>1 DEF Fits, Known, Calls, Adders, Readers, Certain
    <2>. QED
      BY <1>3, <2>1, <2>2, TwoCalls
  <1>9. CASE op = "recordVerdicts"
    <2>. DEFINE first == Spared("CheckBatch", in, {})
                items == [i \in DOMAIN in.batch |-> Spared("BatchItem", in.batch[i], {})]
    <2>1. plan = [err |-> "ok", calls |-> <<first>> \o items] \/ plan = None("invalid")
      BY <1>9, Zenon DEF Rest!PostVerdicts
    <2>2. IsSeq(items)
      BY <1>9, MappedSeq
    <2>3. /\ Fits("rest", op, first) /\ first.do = "CheckBatch" /\ first.spared = {}
          /\ \A i \in DOMAIN items : Fits("rest", op, items[i]) /\ Judged(items[i], first.in.batch)
      BY <1>1 DEF Fits, Known, Calls, Adders, Readers, Judged
    <2>. HIDE DEF first, items
    <2>5. <<first>> \o items \o <<>> = <<first>> \o items
      BY <2>2, WithoutMore
    <2>6. GoodPlan("rest", op, [err |-> "ok", calls |-> <<first>> \o items \o <<>>])
      BY <2>2, <2>3, NoneIsSeq, BatchCalls
    <2>. QED
      BY <1>3, <2>1, <2>5, <2>6
  <1>. QED
    BY <1>4, <1>5, <1>6, <1>7, <1>8, <1>9 DEF Rest!Unsafe

\* Every request an agent or a page can make is planned like that.
Askable(r) ==
    /\ \/ r.via = "mcp" /\ r.op \in Mcp!Tools
       \/ r.via = "rest" /\ r.op \in Rest!Safe \cup Rest!Unsafe
    /\ r.op = "recordVerdicts" => IsSeq(r.in.batch)

LEMMA WellPlanned ==
    ASSUME NEW r, Askable(r)
    PROVE  GoodPlan(r.via, r.op, PlanOf(r))
  <1>1. CASE r.via = "mcp" /\ r.op \in Mcp!ReadOnly
    BY <1>1, LookingTools DEF PlanOf
  <1>2. CASE r.via = "mcp" /\ r.op \in Mcp!Additive \cup Mcp!Destructive
    BY <1>2, WritingTools DEF PlanOf, Askable
  <1>3. CASE r.via = "rest" /\ r.op \in Rest!Safe
    BY <1>3, LookingRoutes DEF PlanOf
  <1>4. CASE r.via = "rest" /\ r.op \in Rest!Unsafe
    BY <1>4, WritingRoutes DEF PlanOf, Askable
  <1>. QED
    BY <1>1, <1>2, <1>3, <1>4 DEF Askable, Mcp!Tools

\* No call of the plan binds a text that cannot be stored.
CleanPlan(plan) == \A i \in DOMAIN plan.calls : ~Soiled(plan.calls[i])

\* Calls that bind no text.
Silent == Calls \ {"RecordVerdict", "BatchItem", "RequestCrawl", "AddToList", "AddToListBySlug", "Search",
                   "CreateList", "UpdateRubric", "SetProfile"}

LEMMA NothingIsClean ==
    ASSUME NEW e
    PROVE  CleanPlan([err |-> e, calls |-> <<>>])
  <1>1. DOMAIN <<>> = {}
    OBVIOUS
  <1>. QED
    BY <1>1 DEF CleanPlan

LEMMA FewCleanCalls ==
    ASSUME NEW a, NEW b, NEW c, ~Soiled(a), ~Soiled(b), ~Soiled(c), NEW e
    PROVE  /\ CleanPlan([err |-> e, calls |-> <<>>])
           /\ CleanPlan([err |-> e, calls |-> <<a>>])
           /\ CleanPlan([err |-> e, calls |-> <<a, b>>])
           /\ CleanPlan([err |-> e, calls |-> <<a, b, c>>])
  <1>. DEFINE one == <<a>>
              two == <<a, b>>
              three == <<a, b, c>>
  <1>1. DOMAIN one = {1} /\ one[1] = a
    OBVIOUS
  <1>2. DOMAIN two = {1, 2} /\ two[1] = a /\ two[2] = b
    OBVIOUS
  <1>3. DOMAIN three = {1, 2, 3} /\ three[1] = a /\ three[2] = b /\ three[3] = c
    OBVIOUS
  <1>4. DOMAIN <<>> = {}
    OBVIOUS
  <1>. HIDE DEF one, two, three
  <1>. QED
    BY <1>1, <1>2, <1>3, <1>4 DEF CleanPlan, one, two, three

LEMMA CleanBatch ==
    ASSUME NEW first, NEW items, NEW after, IsSeq(items), IsSeq(after), ~Soiled(first),
           \A i \in DOMAIN items : ~Soiled(items[i]), \A i \in DOMAIN after : ~Soiled(after[i])
    PROVE  CleanPlan([err |-> "ok", calls |-> <<first>> \o items \o after])
  <1>. DEFINE all == WholeBatch(first, items, after)
  <1>1. /\ all[1] = first
        /\ \A i \in DOMAIN all : \/ i = 1
                                 \/ \E k \in DOMAIN items : all[i] = items[k]
                                 \/ \E k \in DOMAIN after : all[i] = after[k]
    BY BatchMembers
  <1>. HIDE DEF all
  <1>2. \A i \in DOMAIN all : ~Soiled(all[i])
    BY <1>1
  <1>. QED
    BY <1>2 DEF CleanPlan, all, WholeBatch

LEMMA ToolTexts ==
    ASSUME NEW r, r.via = "mcp", r.op \in Mcp!Tools, r.op = "recordVerdicts" => IsSeq(r.in.batch),
           "nul" \notin Texts(r)
    PROVE  CleanPlan(Mcp!ToolPlan(r.op, r.in))
  <1>. DEFINE in == r.in
              plan == Mcp!ToolPlan(r.op, in)
              Spared(do, i, S) == [do |-> do, in |-> i, spared |-> S]
  <1>. USE DEF Mcp!Plan, Mcp!Must, Mcp!Sparing, Mcp!Try, Mcp!Parsed, Mcp!Reject, Mcp!RejectAs
  <1>1. \A do \in Silent : \A i, S : ~Soiled(Spared(do, i, S))
    BY DEF Soiled, Silent
  <1>2. \A e : CleanPlan([err |-> e, calls |-> <<>>])
    BY NothingIsClean
  <1>3. \A e, c : ~Soiled(c) => CleanPlan([err |-> e, calls |-> <<c>>])
    BY FewCleanCalls
  <1>4. \A e, c, x : ~Soiled(c) /\ ~Soiled(x) => CleanPlan([err |-> e, calls |-> <<c, x>>])
    BY FewCleanCalls
  <1>5. CASE r.op \in Mcp!ReadOnly \ {"searchListings"}
    <2>1. \/ \E e : plan = [err |-> e, calls |-> <<>>]
          \/ \E do \in Silent : plan = [err |-> "ok", calls |-> <<Spared(do, in, {})>>]
      <3>1. CASE r.op \in {"getState", "getCandidates", "getListing", "getListingsPhotos", "listCrawlTargets"}
        BY <3>1 DEF Mcp!ToolPlan, Silent, Calls, Readers, Mcp!GetState, Mcp!GetCandidates, Mcp!GetListing,
                    Mcp!GetListingsPhotos, Mcp!ListCrawlTargets
      <3>2. CASE r.op \in {"getCrawlStatus", "getCorpusStats", "resolveAreas", "getLists", "getList", "getConsoleURL"}
        BY <3>2 DEF Mcp!ToolPlan, Silent, Calls, Readers, Mcp!GetCrawlStatus, Mcp!GetCorpusStats, Mcp!AreasTool,
                    Mcp!GetLists, Mcp!GetList, Mcp!GetConsoleURL
      <3>. QED
        BY <1>5, <3>1, <3>2 DEF Mcp!ReadOnly
    <2>. HIDE DEF plan, Spared
    <2>. QED
      BY <1>1, <1>2, <1>3, <2>1 DEF plan
  <1>6. CASE r.op \in {"searchListings", "updateRubric", "requestCrawl", "createList"}
    <2>1. \/ \E e : plan = [err |-> e, calls |-> <<>>]
          \/ r.op = "searchListings" /\ plan = [err |-> "ok", calls |-> <<Spared("Search", in, {})>>]
          \/ r.op = "updateRubric" /\ plan = [err |-> "ok", calls |-> <<Spared("UpdateRubric", in, {})>>]
          \/ r.op = "requestCrawl" /\ plan = [err |-> "ok", calls |-> <<Spared("RequestCrawl", in, {})>>]
          \/ r.op = "createList"
             /\ plan = [err |-> "ok", calls |-> <<Spared("CreateList", in, {"duplicateList"})>>]
      BY <1>6 DEF Mcp!ToolPlan, Mcp!SearchListings, Mcp!RubricTool, Mcp!CrawlTool, Mcp!ListTool
    <2>2. /\ r.op = "searchListings" => ~Soiled(Spared("Search", in, {}))
          /\ r.op = "updateRubric" => ~Soiled(Spared("UpdateRubric", in, {}))
          /\ r.op = "requestCrawl" => ~Soiled(Spared("RequestCrawl", in, {}))
          /\ r.op = "createList" => ~Soiled(Spared("CreateList", in, {"duplicateList"}))
      BY DEF Texts, Soiled
    <2>. HIDE DEF plan, Spared
    <2>. QED
      BY <1>2, <1>3, <2>1, <2>2 DEF plan
  <1>7. CASE r.op \in {"resetState", "removeFromList", "manageCrawlTarget", "markShown"}
    <2>1. \/ \E e : plan = [err |-> e, calls |-> <<>>]
          \/ \E do \in Silent : \E i : plan = [err |-> "ok", calls |-> <<Spared(do, i, {})>>]
      BY <1>7 DEF Mcp!ToolPlan, Silent, Calls, Adders, Changers, Mcp!ResetTool, Mcp!RemoveTool,
                  Mcp!ManageCrawlTarget, Mcp!ShowTool
    <2>. HIDE DEF plan, Spared
    <2>. QED
      BY <1>1, <1>2, <1>3, <2>1 DEF plan
  <1>8. CASE r.op \in {"addToList", "setProfile", "recordVerdict"}
    <2>1. \/ \E e : plan = [err |-> e, calls |-> <<>>]
          \/ \E do \in Silent : \E i, S, c :
                /\ plan = [err |-> "ok", calls |-> <<c, Spared(do, i, S)>>]
                /\ \/ r.op = "addToList" /\ c = Spared("AddToListBySlug", in, {})
                   \/ r.op = "setProfile" /\ c = Spared("SetProfile", in, {})
                   \/ r.op = "recordVerdict" /\ c = Spared("RecordVerdict", in, {})
      BY <1>8 DEF Mcp!ToolPlan, Silent, Calls, Readers, Mcp!AddTool, Mcp!ProfileTool, Mcp!VerdictTool,
                  Mcp!AnyHavePhotos
    <2>2. /\ r.op = "addToList" => ~Soiled(Spared("AddToListBySlug", in, {}))
          /\ r.op = "setProfile" => ~Soiled(Spared("SetProfile", in, {}))
          /\ r.op = "recordVerdict" => ~Soiled(Spared("RecordVerdict", in, {}))
      BY DEF Texts, Soiled
    <2>. HIDE DEF plan, Spared
    <2>. QED
      BY <1>1, <1>2, <1>4, <2>1, <2>2 DEF plan
  <1>9. CASE r.op = "recordVerdicts"
    <2>. DEFINE first == Spared("CheckBatch", in, {})
                items == [i \in DOMAIN in.batch |-> Spared("BatchItem", in.batch[i], {})]
                x == Mcp!AnyHavePhotos({in.batch[i].id : i \in DOMAIN in.batch} \cap Listings)
    <2>1. plan = [err |-> "ok", calls |-> <<first>> \o items \o <<x>>] \/ plan = [err |-> "invalid", calls |-> <<>>]
      BY <1>9, Zenon DEF Mcp!ToolPlan, Mcp!VerdictsTool
    <2>2. ~Soiled(first) /\ ~Soiled(x)
      BY DEF Soiled, Mcp!AnyHavePhotos
    <2>3. \A i \in DOMAIN items : ~Soiled(items[i])
      BY <1>9 DEF Texts, Soiled
    <2>4. IsSeq(items) /\ IsSeq(<<x>>) /\ \A i \in DOMAIN <<x>> : <<x>>[i] = x
      BY <1>9, MappedSeq, SingletonSeq
    <2>. HIDE DEF plan, first, items, x
    <2>5. CleanPlan([err |-> "ok", calls |-> <<first>> \o items \o <<x>>])
      BY <2>2, <2>3, <2>4, CleanBatch
    <2>. QED
      BY <1>2, <2>1, <2>5 DEF plan
  <1>. QED
    BY <1>5, <1>6, <1>7, <1>8, <1>9 DEF Mcp!Tools, Mcp!ReadOnly, Mcp!Additive, Mcp!Destructive

LEMMA RouteTexts ==
    ASSUME NEW r, r.op \in Rest!Safe \cup Rest!Unsafe, r.op = "recordVerdicts" => IsSeq(r.in.batch),
           "nul" \notin Texts(r)
    PROVE  CleanPlan(Rest!RoutePlan(r.op, r.in))
  <1>. DEFINE in == r.in
              plan == Rest!RoutePlan(r.op, in)
              Spared(do, i, S) == [do |-> do, in |-> i, spared |-> S]
  <1>. USE DEF Rest!Plan, Rest!Must, Rest!Sparing, Rest!Parsed, Rest!Reject, Rest!RejectAs
  <1>1. \A do \in Silent : \A i, S : ~Soiled(Spared(do, i, S))
    BY DEF Soiled, Silent
  <1>2. \A e : CleanPlan([err |-> e, calls |-> <<>>])
    BY NothingIsClean
  <1>3. \A e, c : ~Soiled(c) => CleanPlan([err |-> e, calls |-> <<c>>])
    BY FewCleanCalls
  <1>4. \A e, c, x : ~Soiled(c) /\ ~Soiled(x) => CleanPlan([err |-> e, calls |-> <<c, x>>])
    BY FewCleanCalls
  <1>5. CASE r.op \in (Rest!Safe \ {"searchListings", "getListing", "getListingPhoto", "imageByListing"})
                      \cup {"getListingsPhotos", "deleteCrawlTarget", "updateCrawlTarget", "deleteList",
                           "removeFromList", "resetState", "markShown"}
    <2>1. \/ \E e : plan = [err |-> e, calls |-> <<>>]
          \/ \E do \in Silent : \E i : plan = [err |-> "ok", calls |-> <<Spared(do, i, {})>>]
      <3>. USE DEF Rest!RoutePlan, Silent, Calls, Readers, Adders, Changers
      <3>1. CASE r.op \in {"getState", "getCandidates", "getContactSheet", "listCrawlTargets", "getCrawlStatus"}
        BY <3>1 DEF Rest!GetState, Rest!GetCandidates, Rest!GetContactSheet, Rest!GetCrawlTargets,
                    Rest!GetCrawlRequest
      <3>2. CASE r.op \in {"getCorpusStats", "resolveAreas", "getVerdicts", "getLists", "getList", "image"}
        BY <3>2 DEF Rest!GetCorpusStats, Rest!GetAreas, Rest!GetVerdicts, Rest!ListLists, Rest!GetList, Rest!Image
      <3>3. CASE r.op \in {"getListingsPhotos", "deleteCrawlTarget", "updateCrawlTarget", "deleteList"}
        BY <3>3 DEF Rest!GetListingsPhotos, Rest!RemoveCrawlTarget, Rest!UpdateCrawlTarget, Rest!RemoveList
      <3>4. CASE r.op \in {"removeFromList", "resetState", "markShown"}
        BY <3>4 DEF Rest!RemoveItem, Rest!Reset, Rest!PostShown
      <3>. QED
        BY <1>5, <3>1, <3>2, <3>3, <3>4 DEF Rest!Safe
    <2>. HIDE DEF plan, Spared
    <2>. QED
      BY <1>1, <1>2, <1>3, <2>1 DEF plan
  <1>6. CASE r.op \in {"searchListings", "updateRubric", "requestCrawl", "createList", "addToList", "recordVerdict"}
    <2>. DEFINE asked == [price |-> IF in.price = "zero" THEN "none" ELSE in.price, text |-> in.text]
    <2>1. \/ \E e : plan = [err |-> e, calls |-> <<>>]
          \/ r.op = "searchListings" /\ plan = [err |-> "ok", calls |-> <<Spared("Search", asked, {})>>]
          \/ r.op = "updateRubric" /\ plan = [err |-> "ok", calls |-> <<Spared("UpdateRubric", in, {})>>]
          \/ r.op = "requestCrawl" /\ plan = [err |-> "ok", calls |-> <<Spared("RequestCrawl", in, {})>>]
          \/ r.op = "createList"
             /\ plan = [err |-> "ok", calls |-> <<Spared("CreateList", in, {"duplicateList"})>>]
          \/ r.op = "addToList" /\ plan = [err |-> "ok", calls |-> <<Spared("AddToList", in, {})>>]
          \/ r.op = "recordVerdict" /\ plan = [err |-> "ok", calls |-> <<Spared("RecordVerdict", in, {})>>]
      <3>. USE DEF Rest!RoutePlan
      <3>1. CASE r.op = "searchListings"
        BY <3>1 DEF Rest!SearchListings
      <3>2. CASE r.op = "updateRubric"
        BY <3>2 DEF Rest!PostRubric
      <3>3. CASE r.op = "requestCrawl"
        BY <3>3 DEF Rest!PostCrawl
      <3>4. CASE r.op \in {"createList", "addToList", "recordVerdict"}
        BY <3>4 DEF Rest!PostList, Rest!PostItem, Rest!PostVerdict
      <3>. QED
        BY <1>6, <3>1, <3>2, <3>3, <3>4
    <2>2. /\ r.op = "searchListings" => ~Soiled(Spared("Search", asked, {}))
          /\ r.op = "updateRubric" => ~Soiled(Spared("UpdateRubric", in, {}))
          /\ r.op = "requestCrawl" => ~Soiled(Spared("RequestCrawl", in, {}))
          /\ r.op = "createList" => ~Soiled(Spared("CreateList", in, {"duplicateList"}))
          /\ r.op = "addToList" => ~Soiled(Spared("AddToList", in, {}))
          /\ r.op = "recordVerdict" => ~Soiled(Spared("RecordVerdict", in, {}))
      BY DEF Texts, Soiled
    <2>. HIDE DEF plan, Spared, asked
    <2>. QED
      BY <1>2, <1>3, <2>1, <2>2 DEF plan
  <1>7. CASE r.op \in {"getListing", "getListingPhoto", "imageByListing", "setProfile"}
    <2>1. \/ \E e : plan = [err |-> e, calls |-> <<>>]
          \/ plan = [err |-> "ok", calls |-> <<Spared("PhotoKeyAt", in, {})>>]
          \/ plan = [err |-> "ok", calls |-> <<Spared("PhotoKeyAt", in, {}), Spared("PhotoObject", in, {})>>]
          \/ plan = [err |-> "ok", calls |-> <<Spared("Listing", in, {}), Spared("ListsForProperty", in, {}),
                                               Spared("VerdictsFor", in, {})>>]
          \/ /\ r.op = "setProfile"
             /\ plan = [err |-> "ok", calls |-> <<Spared("SetProfile", in, {}),
                                                  Spared("UnmatchedNeighborhoods", in, {})>>]
      <3>. USE DEF Rest!RoutePlan
      <3>1. CASE r.op = "getListing"
        BY <3>1 DEF Rest!GetListing
      <3>2. CASE r.op = "getListingPhoto"
        BY <3>2 DEF Rest!GetListingPhoto
      <3>3. CASE r.op = "imageByListing"
        BY <3>3 DEF Rest!ImageByListing
      <3>4. CASE r.op = "setProfile"
        BY <3>4 DEF Rest!PatchProfile
      <3>. QED
        BY <1>7, <3>1, <3>2, <3>3, <3>4
    <2>2. r.op = "setProfile" => ~Soiled(Spared("SetProfile", in, {}))
      BY DEF Texts, Soiled
    <2>3. \A do \in {"PhotoKeyAt", "PhotoObject", "Listing", "ListsForProperty", "VerdictsFor",
                    "UnmatchedNeighborhoods"} : ~Soiled(Spared(do, in, {}))
      BY <1>1 DEF Silent, Calls, Readers, Adders, Changers
    <2>. HIDE DEF plan, Spared
    <2>4. /\ CleanPlan([err |-> "ok", calls |-> <<Spared("PhotoKeyAt", in, {}), Spared("PhotoObject", in, {})>>])
          /\ CleanPlan([err |-> "ok", calls |-> <<Spared("Listing", in, {}), Spared("ListsForProperty", in, {}),
                                                  Spared("VerdictsFor", in, {})>>])
      BY <2>3, FewCleanCalls
    <2>5. r.op = "setProfile" => CleanPlan([err |-> "ok", calls |-> <<Spared("SetProfile", in, {}),
                                                              Spared("UnmatchedNeighborhoods", in, {})>>])
      BY <1>4, <2>2, <2>3
    <2>. QED
      BY <1>2, <1>3, <2>1, <2>3, <2>4, <2>5 DEF plan
  <1>8. CASE r.op = "recordVerdicts"
    <2>. DEFINE first == Spared("CheckBatch", in, {})
                items == [i \in DOMAIN in.batch |-> Spared("BatchItem", in.batch[i], {})]
    <2>1. plan = [err |-> "ok", calls |-> <<first>> \o items] \/ plan = [err |-> "invalid", calls |-> <<>>]
      BY <1>8, Zenon DEF Rest!RoutePlan, Rest!PostVerdicts
    <2>2. ~Soiled(first)
      BY DEF Soiled
    <2>3. \A i \in DOMAIN items : ~Soiled(items[i])
      BY <1>8 DEF Texts, Soiled
    <2>4. IsSeq(items) /\ IsSeq(<<>>) /\ DOMAIN <<>> = {}
      BY <1>8, MappedSeq, NoneIsSeq
    <2>. HIDE DEF plan, first, items
    <2>5. <<first>> \o items \o <<>> = <<first>> \o items
      BY <2>4, WithoutMore
    <2>6. CleanPlan([err |-> "ok", calls |-> <<first>> \o items \o <<>>])
      BY <2>2, <2>3, <2>4, CleanBatch
    <2>. QED
      BY <1>2, <2>1, <2>5, <2>6 DEF plan
  <1>. QED
    BY <1>5, <1>6, <1>7, <1>8 DEF Rest!Safe, Rest!Unsafe

\* What a request binds into its statements are the texts it came with.
LEMMA PlannedTexts ==
    ASSUME NEW r, Askable(r), "nul" \notin Texts(r)
    PROVE  CleanPlan(PlanOf(r))
  BY ToolTexts, RouteTexts DEF Askable, PlanOf

---------------------------------------------------------------------------
(* The pages of the console.                                                *)

\* What a page may ask for: a page that does not write makes safe requests.
Asked(name, write, q) ==
    /\ q.op \in (Rest!Safe \cup Rest!Unsafe) \ {"recordVerdicts"}
    /\ q.op \in Rest!Safe \/ (name \in Web!Writes /\ write)

GoodAsks(name, write, requests) ==
    IsSeq(requests) /\ \A i \in DOMAIN requests : Asked(name, write, requests[i])

LEMMA NoAsks ==
    ASSUME NEW name, NEW write
    PROVE  GoodAsks(name, write, <<>>)
  BY NoneIsSeq DEF GoodAsks

LEMMA OneAsk ==
    ASSUME NEW name, NEW write, NEW op, NEW in, NEW fatal, NEW gates,
           \/ op \in Rest!Safe
           \/ op \in Rest!Unsafe \ {"recordVerdicts"} /\ name \in Web!Writes /\ write
    PROVE  GoodAsks(name, write, <<[op |-> op, in |-> in, fatal |-> fatal, gates |-> gates]>>)
  <1>1. Asked(name, write, [op |-> op, in |-> in, fatal |-> fatal, gates |-> gates])
    BY DEF Asked, Rest!Safe
  <1>. QED
    BY <1>1, SingletonSeq DEF GoodAsks

LEMMA MoreAsks ==
    ASSUME NEW name, NEW write, NEW p, NEW q, GoodAsks(name, write, p), GoodAsks(name, write, q)
    PROVE  GoodAsks(name, write, p \o q)
  <1>. DEFINE S == Range(p) \cup Range(q)
              r == p \o q
  <1>1. p \in Seq(S) /\ q \in Seq(S)
    BY SeqMonotonic DEF GoodAsks, IsSeq
  <1>2. /\ r \in Seq(S) /\ Len(r) = Len(p) + Len(q)
        /\ \A i \in 1 .. Len(p) + Len(q) : r[i] = IF i <= Len(p) THEN p[i] ELSE q[i - Len(p)]
    <2>. HIDE DEF S
    <2>. QED
      BY <1>1, ConcatProperties
  <1>3. /\ DOMAIN r = 1 .. Len(r) /\ DOMAIN p = 1 .. Len(p) /\ DOMAIN q = 1 .. Len(q)
        /\ Len(p) \in Nat /\ Len(q) \in Nat
    BY <1>1, <1>2, LenProperties
  <1>. HIDE DEF r, S
  <1>4. ASSUME NEW i \in DOMAIN r PROVE Asked(name, write, r[i])
    <2>1. CASE i <= Len(p)
      BY <1>2, <1>3, <1>4, <2>1 DEF GoodAsks
    <2>2. CASE i > Len(p)
      <3>1. r[i] = q[i - Len(p)] /\ i - Len(p) \in DOMAIN q
        BY <1>2, <1>3, <1>4, <2>2
      <3>. QED
        BY <3>1 DEF GoodAsks
    <2>. QED
      BY <1>2, <1>3, <1>4, <2>1, <2>2
  <1>5. IsSeq(r)
    BY <1>2, SeqOfItsRange
  <1>. QED
    BY <1>4, <1>5 DEF GoodAsks, r

LEMMA PagesAsk ==
    ASSUME NEW name \in Web!Reads \cup Web!Writes, NEW in, NEW write \in BOOLEAN
    PROVE  GoodAsks(name, write, Web!PagePlan(name, in, write).requests)
  <1>. DEFINE plan == Web!PagePlan(name, in, write)
              fatal == {"refusal", "silence"}
              Ask1(op, i, f) == <<[op |-> op, in |-> i, fatal |-> f, gates |-> FALSE]>>
              Gate(op, i) == <<[op |-> op, in |-> i, fatal |-> {}, gates |-> TRUE]>>
  <1>2. ASSUME NEW op \in Rest!Safe, NEW i, NEW f
        PROVE  GoodAsks(name, write, Ask1(op, i, f)) /\ GoodAsks(name, write, Gate(op, i))
    BY OneAsk
  <1>. USE DEF Web!Answers, Web!Asks, Web!Redirects, Web!Numbered, Web!Needs, Web!Wants, Web!Posts, Web!Gates
  <1>1. CASE name \notin Web!Routes(write)
    BY <1>1, NoAsks DEF Web!PagePlan
  <1>3. {"getState", "searchListings", "getCorpusStats", "listCrawlTargets", "getListing", "getLists",
         "getList", "getVerdicts"} \subseteq Rest!Safe
    BY DEF Rest!Safe
  <1>4. CASE name = "dashboard"
    <2>. DEFINE corpus == IF in.rent THEN Gate("getCorpusStats", in) \o Ask1("searchListings", Web!NoPrice, {})
                          ELSE Ask1("getCorpusStats", in, {})
                first == Ask1("getState", in, fatal) \o Ask1("searchListings", Web!NoPrice, fatal)
    <2>1. plan.requests = first \o corpus \o Ask1("listCrawlTargets", in, {})
      BY <1>4, Zenon DEF Web!PagePlan, Web!Dashboard, Web!Routes, Web!Reads
    <2>2. GoodAsks(name, write, corpus)
      BY <1>2, <1>3, MoreAsks
    <2>3. GoodAsks(name, write, first)
      BY <1>2, <1>3, MoreAsks
    <2>. HIDE DEF corpus, first
    <2>5. GoodAsks(name, write, first \o corpus)
      BY <2>2, <2>3, MoreAsks
    <2>6. GoodAsks(name, write, Ask1("listCrawlTargets", in, {}))
      BY <1>2, <1>3
    <2>. QED
      BY <2>1, <2>5, <2>6, MoreAsks
  <1>5. CASE name = "listing"
    <2>1. \/ plan.requests = <<>>
          \/ plan.requests = Ask1("getListing", in, fatal) \o <<>>
          \/ plan.requests = Ask1("getListing", in, fatal) \o Ask1("getLists", in, {})
      BY <1>5 DEF Web!PagePlan, Web!ListingPage, Web!Routes, Web!Reads
    <2>. QED
      BY <1>2, <1>3, <2>1, NoAsks, MoreAsks
  <1>6. CASE name = "crawls"
    <2>1. plan.requests = Ask1("listCrawlTargets", in, fatal) \o Ask1("getCorpusStats", in, {})
      BY <1>6 DEF Web!PagePlan, Web!CrawlsPage, Web!Routes, Web!Reads
    <2>. QED
      BY <1>2, <1>3, <2>1, MoreAsks
  <1>7. CASE name \in {"listings", "lists", "list", "verdicts"}
    <2>1. \/ plan.requests = <<>>
          \/ \E op \in {"searchListings", "getLists", "getList", "getVerdicts"} :
                plan.requests = Ask1(op, in, fatal)
      BY <1>7 DEF Web!PagePlan, Web!ListingsPage, Web!ListsPage, Web!ListDetail, Web!VerdictsPage,
                  Web!Routes, Web!Reads
    <2>. QED
      BY <1>2, <1>3, <2>1, NoAsks
  <1>8. CASE name \in Web!Writes /\ name \in Web!Routes(write)
    <2>1. write
      BY <1>8 DEF Web!Routes, Web!Reads, Web!Writes
    <2>2. ASSUME NEW op \in Rest!Unsafe \ {"recordVerdicts"}, NEW i, NEW f
          PROVE  GoodAsks(name, write, Ask1(op, i, f))
      BY <1>8, <2>1, OneAsk
    <2>3. {"createList", "deleteList", "addToList", "removeFromList", "requestCrawl", "updateCrawlTarget",
           "deleteCrawlTarget", "resetState"} \subseteq Rest!Unsafe \ {"recordVerdicts"}
      BY DEF Rest!Unsafe
    <2>4. CASE name \in {"settings", "createList", "deleteList", "addToList", "removeFromList"}
      <3>1. \/ plan.requests = <<>>
            \/ \E op \in {"createList", "deleteList", "addToList", "removeFromList"} :
                  plan.requests = Ask1(op, in, fatal)
        BY <1>8, <2>4 DEF Web!PagePlan, Web!Settings, Web!CreateList, Web!DeleteList, Web!AddToList,
                          Web!RemoveFromList
      <3>. QED
        BY <2>2, <2>3, <3>1, NoAsks
    <2>5. CASE name = "queueCrawl"
      <3>. DEFINE form == [in EXCEPT !.price = IF in.price \in {"ok", "huge"} THEN in.price ELSE "none",
                                     !.oneOff = FALSE]
      <3>1. plan.requests = <<>> \/ plan.requests = Ask1("requestCrawl", form, {"silence"})
        BY <1>8, <2>5 DEF Web!PagePlan, Web!QueueCrawl
      <3>. HIDE DEF form
      <3>. QED
        BY <2>2, <2>3, <3>1, NoAsks
    <2>6. CASE name \in {"setCrawlEnabled", "makeCrawlRecurring", "deleteCrawl", "resetData"}
      <3>1. \/ plan.requests = <<>>
            \/ plan.requests = Ask1("updateCrawlTarget",
                                    [id |-> in.id, recurring |-> FALSE, enabled |-> in.enabled], fatal)
            \/ plan.requests = Ask1("updateCrawlTarget",
                                    [id |-> in.id, recurring |-> TRUE, enabled |-> "absent"], fatal)
            \/ plan.requests = Ask1("deleteCrawlTarget", in, fatal)
            \/ plan.requests = Ask1("resetState", in, fatal)
        BY <1>8, <2>6 DEF Web!PagePlan, Web!SetCrawlEnabled, Web!MakeCrawlRecurring, Web!DeleteCrawl,
                          Web!ResetData
      <3>. QED
        BY <2>2, <2>3, <3>1, NoAsks
    <2>. QED
      BY <1>8, <2>4, <2>5, <2>6 DEF Web!Writes
  <1>. QED
    BY <1>1, <1>4, <1>5, <1>6, <1>7, <1>8 DEF Web!Reads

---------------------------------------------------------------------------
(* Requests and pages under way.                                            *)

MayWrite == "write" \in menu

\* The page under way has only asks of its kind left.
PageInv ==
    page # NoPage =>
        /\ page = [name |-> page.name, status |-> page.status, rest |-> page.rest,
                   served |-> page.served, failed |-> page.failed]
        /\ GoodAsks(page.name, MayWrite, page.rest)

Shaped(r) ==
    r = [via |-> r.via, op |-> r.op, in |-> r.in, err |-> r.err, calls |-> r.calls, landed |-> r.landed,
         failed |-> r.failed, started |-> r.started, base |-> r.base]

\* So has the request; one that a page makes does what the page may do.
RequestInv ==
    request # NoRequest =>
        /\ Shaped(request) /\ request.failed \in BOOLEAN
        /\ Askable(request)
        /\ IsSeq(request.calls)
        /\ \A i \in DOMAIN request.calls : Fits(request.via, request.op, request.calls[i])
        /\ "nul" \notin Texts(request) => \A i \in DOMAIN request.calls : ~Soiled(request.calls[i])
        /\ page # NoPage => /\ request.via = "rest" /\ page.rest # <<>>
                            /\ request.op \in Rest!Safe \/ (page.name \in Web!Writes /\ MayWrite)

\* Without a fault, a request fails on a text that cannot be stored, or on one of the
\* sentinels its transport knows, and then nothing is written; once something is, only
\* calls are left that are not refused.
RefusalInv ==
    request # NoRequest /\ ~request.failed =>
        /\ request.err \in ({"ok", Unstorable, "unauthorized", "forbidden"} \cup Sentinels) \ {"duplicateList"}
        /\ request.err = Unstorable => "nul" \in Texts(request)
        /\ request.err \notin {"ok", Unstorable} => db = request.started
        /\ request.err = "ok" =>
              /\ Ordered(request.calls) \/ Vetted(request.calls)
              /\ db # request.started => \A i \in DOMAIN request.calls : Certain(request.calls[i])

FrontInv == menu \in Menus /\ PageInv /\ RequestInv /\ RefusalInv

LEMMA InitFront == Init => FrontInv
  BY DEF Init, FrontInv, PageInv, RequestInv, RefusalInv

\* A request as it is opened.
LEMMA OpenedWell ==
    ASSUME NEW r, NEW presented, Askable(r), request' = Opened(r, presented), db' = db,
           page' # NoPage => /\ r.via = "rest" /\ page'.rest # <<>>
                             /\ r.op \in Rest!Safe \/ (page'.name \in Web!Writes /\ MayWrite')
    PROVE  RequestInv' /\ RefusalInv'
  <1>. DEFINE plan == PlanOf(r)
              e == IF Authorized(r, presented) THEN plan.err ELSE "unauthorized"
  <1>1. GoodPlan(r.via, r.op, plan)
    BY WellPlanned
  <1>2. PICK b : request' = [via |-> r.via, op |-> r.op, in |-> r.in, err |-> e, calls |-> plan.calls,
                             landed |-> 0, failed |-> FALSE, started |-> db, base |-> b]
    BY DEF Opened
  <1>3. e \in PlanErrors \cup {"unauthorized"}
    BY <1>1 DEF GoodPlan
  <1>. HIDE DEF plan, e
  <1>4. /\ request'.via = r.via /\ request'.op = r.op /\ request'.in = r.in /\ request'.err = e
        /\ request'.calls = plan.calls /\ request'.failed = FALSE /\ request'.started = db
        /\ Shaped(request')
    BY <1>2 DEF Shaped
  <1>5. "nul" \notin Texts(request') => \A i \in DOMAIN request'.calls : ~Soiled(request'.calls[i])
    <2>1. Texts(request') = Texts(r)
      BY <1>4 DEF Texts
    <2>. QED
      BY <1>4, <2>1, PlannedTexts DEF plan, CleanPlan
  <1>6. RequestInv'
    BY <1>1, <1>4, <1>5 DEF RequestInv, Askable, GoodPlan
  <1>7. RefusalInv'
    BY <1>1, <1>3, <1>4 DEF RefusalInv, GoodPlan, PlanErrors, Sentinels, Unstorable
  <1>. QED
    BY <1>6, <1>7

\* What a call made by the request does to it.
LEMMA CallMade ==
    ASSUME RequestInv, Serving, NEW l, NEW f \in BOOLEAN, NEW e,
           request' = [request EXCEPT !.calls = Tail(@), !.landed = l, !.failed = f, !.err = e],
           UNCHANGED <<menu, page>>
    PROVE  /\ RequestInv'
           /\ request' # NoRequest
           /\ request'.calls = Tail(request.calls) /\ request'.failed = f /\ request'.err = e
           /\ request'.started = request.started /\ request'.via = request.via /\ request'.op = request.op
           /\ Texts(request') = Texts(request)
  <1>1. Shaped(request) /\ request # NoRequest /\ request.calls # <<>>
    BY DEF RequestInv, Serving
  <1>2. /\ Shaped(request')
        /\ request'.calls = Tail(request.calls) /\ request'.failed = f /\ request'.err = e
        /\ request'.started = request.started /\ request'.via = request.via /\ request'.op = request.op
        /\ request'.in = request.in
    BY <1>1 DEF Shaped
  <1>3. Askable(request') /\ request' # NoRequest
    BY <1>1, <1>2 DEF RequestInv, Askable, NoRequest
  <1>4. /\ IsSeq(request'.calls)
        /\ \A i \in DOMAIN request'.calls : Fits(request'.via, request'.op, request'.calls[i])
    BY <1>1, <1>2, TailSeq DEF RequestInv
  <1>5. Texts(request') = Texts(request)
    BY <1>2 DEF Texts
  <1>6. "nul" \notin Texts(request') => \A i \in DOMAIN request'.calls : ~Soiled(request'.calls[i])
    BY <1>1, <1>2, <1>5, TailSeq DEF RequestInv
  <1>7. RequestInv'
    BY <1>1, <1>2, <1>3, <1>4, <1>6 DEF RequestInv, MayWrite
  <1>. QED
    BY <1>2, <1>3, <1>5, <1>7

LEMMA WorkKeeps ==
    ASSUME FrontInv, Work
    PROVE  RequestInv' /\ RefusalInv'
  <1>. DEFINE c == Head(request.calls)
              out == Perform(c, db)
              e == IF out.err \in c.spared THEN "ok" ELSE out.err
              rest == Tail(request.calls)
  <1>1. /\ Serving /\ UNCHANGED <<menu, page>> /\ db' = out.db
        /\ \E l : request' = [request EXCEPT !.calls = Tail(@), !.landed = l, !.err = e]
    BY Zenon DEF Work
  <1>2. /\ IsSeq(request.calls) /\ request.calls # <<>> /\ c = request.calls[1] /\ 1 \in DOMAIN request.calls
        /\ Fits(request.via, request.op, c) /\ Known(c) /\ request.err = "ok" /\ request # NoRequest
        /\ request.failed \in BOOLEAN /\ Shaped(request)
    BY <1>1, TailSeq DEF FrontInv, RequestInv, Serving, Fits
  <1>3. \A i \in DOMAIN rest : i \in Nat /\ i >= 1 /\ i + 1 \in DOMAIN request.calls /\ rest[i] = request.calls[i + 1]
    BY <1>2, TailSeq
  <1>4. /\ RequestInv' /\ request' # NoRequest /\ request'.calls = rest
        /\ request'.failed = request.failed /\ request'.err = e /\ request'.started = request.started
        /\ Texts(request') = Texts(request)
    <2>1. PICK l : request' = [request EXCEPT !.calls = Tail(@), !.landed = l, !.err = e]
      BY <1>1
    <2>2. request' = [request EXCEPT !.calls = Tail(@), !.landed = l, !.failed = request.failed, !.err = e]
      BY <1>2, <2>1 DEF Shaped
    <2>. HIDE DEF c, out, e, rest
    <2>3. RequestInv
      BY DEF FrontInv
    <2>. QED
      BY <1>1, <1>2, <2>2, <2>3, CallMade DEF rest
  <1>5. /\ out.err \in {"ok", Unstorable} \cup Sentinels
        /\ out.err = Unstorable => "nul" \in Texts(request)
        /\ out.err = "duplicateList" => "duplicateList" \in c.spared
        /\ out.err # "ok" => out.db = db
        /\ c.do \in Readers => out.db = db
    <2>1. "nul" \notin Texts(request) => ~Soiled(c)
      BY <1>2 DEF FrontInv, RequestInv
    <2>. QED
      BY <1>2, <2>1, PerformAnswers, ReadersKeep DEF Fits
  <1>6. Certain(c) => e \in {"ok", Unstorable}
    BY <1>2, CertainAnswers
  <1>7. Vetted(request.calls) /\ e = "ok" => \A i \in DOMAIN rest : Certain(rest[i])
    <2>. SUFFICES ASSUME Vetted(request.calls), e = "ok", NEW i \in DOMAIN rest
                  PROVE  Certain(rest[i])
      OBVIOUS
    <2>1. c.do = "CheckBatch" /\ c.spared = {} /\ out.err = "ok"
      BY <1>2 DEF Vetted
    <2>2. \A k \in DOMAIN c.in.batch : NoteOK(c.in.batch[k].note)
      BY <2>1 DEF Perform, CheckBatch, Checked, Refused
    <2>3. Certain(rest[i]) \/ Judged(rest[i], c.in.batch)
      BY <1>2, <1>3 DEF Vetted
    <2>. QED
      BY <2>2, <2>3 DEF Judged, Certain
  <1>8. Vetted(request.calls) => c.do \in Readers
    BY <1>2 DEF Vetted, Readers
  <1>9. Ordered(request.calls) => Ordered(rest) /\ (c.do \in Readers \/ \A i \in DOMAIN rest : Certain(rest[i]))
    BY <1>2, <1>3 DEF Ordered
  <1>10. (\A i \in DOMAIN rest : Certain(rest[i])) => Ordered(rest)
    BY DEF Ordered
  <1>. HIDE DEF c, out, e, rest
  <1>11. ASSUME ~request.failed
         PROVE  /\ e \in ({"ok", Unstorable} \cup Sentinels) \ {"duplicateList"}
                /\ e = Unstorable => "nul" \in Texts(request)
                /\ e \notin {"ok", Unstorable} => db' = request.started
                /\ e = "ok" => /\ Ordered(rest) \/ Vetted(rest)
                               /\ db' # request.started => \A i \in DOMAIN rest : Certain(rest[i])
    <2>1. /\ Ordered(request.calls) \/ Vetted(request.calls)
          /\ db # request.started => \A i \in DOMAIN request.calls : Certain(request.calls[i])
      BY <1>2, <1>11 DEF FrontInv, RefusalInv
    <2>2. CASE db # request.started
      BY <1>2, <1>3, <1>5, <1>6, <1>10, <2>1, <2>2 DEF Sentinels, Unstorable, e
    <2>3. CASE db = request.started
      <3>1. /\ e \in ({"ok", Unstorable} \cup Sentinels) \ {"duplicateList"} /\ (e # "ok" => out.db = db)
            /\ e = Unstorable => "nul" \in Texts(request)
        BY <1>5 DEF e, Sentinels, Unstorable
      <3>. QED
        BY <1>1, <1>5, <1>7, <1>8, <1>9, <1>10, <2>1, <2>3, <3>1
    <2>. QED
      BY <2>2, <2>3
  <1>. QED
    BY <1>4, <1>11 DEF RefusalInv

\* A page that goes on, or stops, has no more to ask than before.
LEMMA PageGoesKeeps ==
    ASSUME PageInv, page # NoPage, page.rest # <<>>, menu' = menu, NEW s,
           \/ page' = [page EXCEPT !.status = s, !.rest = <<>>]
           \/ page' = [page EXCEPT !.rest = Tail(@)]
           \/ page' = [page EXCEPT !.rest = Tail(Tail(@))] /\ Tail(page.rest) # <<>>
    PROVE  PageInv'
  <1>1. GoodAsks(page.name, MayWrite, <<>>)
    BY NoAsks
  <1>2. GoodAsks(page.name, MayWrite, Tail(page.rest))
    BY TailSeq DEF PageInv, GoodAsks
  <1>3. Tail(page.rest) # <<>> => GoodAsks(page.name, MayWrite, Tail(Tail(page.rest)))
    <2>. DEFINE t == Tail(page.rest)
    <2>1. GoodAsks(page.name, MayWrite, t)
      BY <1>2
    <2>. HIDE DEF t
    <2>2. t # <<>> => GoodAsks(page.name, MayWrite, Tail(t))
      BY <2>1, TailSeq DEF GoodAsks
    <2>. QED
      BY <2>2 DEF t
  <1>. QED
    BY <1>1, <1>2, <1>3 DEF PageInv, MayWrite

LEMMA AskKeeps ==
    ASSUME FrontInv, NEW r \in Requests, Ask(r)
    PROVE  FrontInv'
  <1>1. Askable(r)
    BY RequestsAssumption DEF Askable, IsSeq
  <1>2. page' = NoPage /\ request' = Opened(r, token) /\ db' = db /\ menu' = menu
    BY DEF Ask
  <1>3. RequestInv' /\ RefusalInv'
    BY <1>1, <1>2, OpenedWell
  <1>. QED
    BY <1>2, <1>3 DEF FrontInv, PageInv

LEMMA VisitKeeps ==
    ASSUME FrontInv, NEW v \in PageVisits, Visit(v)
    PROVE  FrontInv'
  <1>. DEFINE name == Landing(v)
              plan == Web!PagePlan(name, v.in, MayWrite)
  <1>1. /\ page' = [name |-> name, status |-> plan.status, rest |-> plan.requests,
                    served |-> FALSE, failed |-> FALSE]
        /\ request = NoRequest /\ UNCHANGED <<menu, request, db>>
    BY DEF Visit, MayWrite
  <1>2. name \in Web!Reads \cup Web!Writes /\ MayWrite \in BOOLEAN
    BY RequestsAssumption DEF Landing, Web!Reads, MayWrite
  <1>3. GoodAsks(name, MayWrite, plan.requests)
    <2>. HIDE DEF name
    <2>. QED
      BY <1>2, PagesAsk
  <1>. HIDE DEF name, plan
  <1>4. PageInv'
    BY <1>1, <1>3 DEF PageInv, MayWrite
  <1>. QED
    BY <1>1, <1>4 DEF FrontInv, RequestInv, RefusalInv

LEMMA PageAsksKeeps ==
    ASSUME FrontInv, PageAsks
    PROVE  FrontInv'
  <1>. DEFINE q == Head(page.rest)
              r == [via |-> "rest", op |-> q.op, in |-> q.in]
  <1>1. /\ page # NoPage /\ page.rest # <<>> /\ UNCHANGED <<menu, page, db>>
        /\ request' = Opened(r, cookie)
    BY DEF PageAsks
  <1>2. Asked(page.name, MayWrite, q)
    <2>1. 1 \in DOMAIN page.rest /\ q = page.rest[1]
      BY <1>1, TailSeq DEF FrontInv, PageInv, GoodAsks
    <2>. QED
      BY <1>1, <2>1 DEF FrontInv, PageInv, GoodAsks
  <1>. HIDE DEF q
  <1>3. Askable(r) /\ r.via = "rest" /\ (r.op \in Rest!Safe \/ (page'.name \in Web!Writes /\ MayWrite'))
        /\ page'.rest # <<>>
    BY <1>1, <1>2 DEF Asked, Askable, MayWrite
  <1>4. RequestInv' /\ RefusalInv'
    <2>. HIDE DEF r
    <2>. QED
      BY <1>1, <1>3, OpenedWell
  <1>. QED
    BY <1>1, <1>4 DEF FrontInv, PageInv, MayWrite

LEMMA PageAnsweredKeeps ==
    ASSUME FrontInv, PageAnswered \/ PageUnanswered
    PROVE  FrontInv'
  <1>1. request' = NoRequest /\ menu' = menu /\ page # NoPage /\ request # NoRequest
    BY DEF PageAnswered, PageUnanswered, Close, Served
  <1>2. PageInv'
    <2>1. page.rest # <<>>
      BY <1>1 DEF FrontInv, RequestInv
    <2>2. \E s : \/ page' = [page EXCEPT !.status = s, !.rest = <<>>]
                 \/ \E a : PageGoesOn(a)
      BY Zenon DEF PageAnswered, PageUnanswered, PageStops
    <2>3. (\E a : PageGoesOn(a)) => \/ page' = [page EXCEPT !.rest = Tail(@)]
                                    \/ page' = [page EXCEPT !.rest = Tail(Tail(@))] /\ Tail(page.rest) # <<>>
      BY DEF PageGoesOn, LeftToAsk
    <2>. QED
      BY <1>1, <2>1, <2>2, <2>3, PageGoesKeeps DEF FrontInv
  <1>. QED
    BY <1>1, <1>2 DEF FrontInv, RequestInv, RefusalInv

LEMMA NextFront == FrontInv /\ [Next]_vars => FrontInv'
  <1>. SUFFICES ASSUME FrontInv, [Next]_vars PROVE FrontInv'
    OBVIOUS
  <1>1. ASSUME NEW r \in Requests, Ask(r) PROVE FrontInv'
    BY <1>1, AskKeeps
  <1>2. ASSUME NEW v \in PageVisits, Visit(v) PROVE FrontInv'
    BY <1>2, VisitKeeps
  <1>3. CASE PageAsks
    BY <1>3, PageAsksKeeps
  <1>4. CASE PageAnswered \/ PageUnanswered
    BY <1>4, PageAnsweredKeeps
  <1>5. CASE Work
    <2>1. UNCHANGED <<menu, page>>
      BY <1>5 DEF Work
    <2>. QED
      BY <1>5, <2>1, WorkKeeps DEF FrontInv, PageInv, MayWrite
  <1>6. CASE CallFails
    <2>1. Serving /\ UNCHANGED <<menu, page>>
      BY <1>6 DEF CallFails
    <2>2. PICK e : request' = [request EXCEPT !.calls = Tail(@), !.failed = TRUE, !.err = e]
      BY <1>6, Zenon DEF CallFails
    <2>3. request' = [request EXCEPT !.calls = Tail(@), !.landed = request.landed, !.failed = TRUE, !.err = e]
      BY <2>1, <2>2 DEF FrontInv, RequestInv, Serving, Shaped
    <2>4. RequestInv' /\ request'.failed = TRUE
      BY <2>1, <2>3, CallMade DEF FrontInv
    <2>. QED
      BY <2>1, <2>4 DEF FrontInv, RefusalInv, PageInv, MayWrite
  <1>7. CASE Reply \/ AnswerLost
    BY <1>7 DEF Reply, AnswerLost, Close, FrontInv, PageInv, RequestInv, RefusalInv, MayWrite
  <1>8. CASE PageEnds
    BY <1>8 DEF PageEnds, FrontInv, PageInv, RequestInv, RefusalInv, MayWrite
  <1>9. CASE CrawlerMoves
    BY <1>9 DEF CrawlerMoves, FrontInv, PageInv, RequestInv, RefusalInv, MayWrite
  <1>10. CASE UNCHANGED <<menu, db, request, page>>
    BY <1>10 DEF FrontInv, PageInv, RequestInv, RefusalInv, MayWrite
  <1>11. Logout \/ LoginStep \/ RotateToken \/ UNCHANGED vars => UNCHANGED <<menu, db, request, page>>
    BY DEF Logout, LoginStep, WindowPasses, DoLogin, ProbeAnswered, ProbeFails, RotateToken, vars
  <1>. QED
    BY <1>1, <1>2, <1>3, <1>4, <1>5, <1>6, <1>7, <1>8, <1>9, <1>10, <1>11
       DEF Next, AgentStep, ServerStep, PageStep

LEMMA AlwaysFront == Spec => []FrontInv
  BY InitFront, NextFront, PTL DEF Spec

---------------------------------------------------------------------------
(* What is answered.                                                        *)

\* A refused request has written nothing, however many calls it makes: nothing that
\* can be refused comes after something that writes, and a batch is judged whole first
\* (service.go:249-254).
THEOREM RefusedWroteNothing == Spec => []RefusalWritesNothing
  <1>1. FrontInv => RefusalWritesNothing
    <2>. SUFFICES ASSUME FrontInv, Served, IsRefusal, ~request.failed
                  PROVE  db = request.started
      BY DEF RefusalWritesNothing
    <2>1. request # NoRequest
      BY DEF Served
    <2>2. request.err \notin {"ok", Unstorable}
      BY DEF IsRefusal, Answer, Mcp!Guard, Mcp!IsInfrastructureError, Mcp!Unstorable, Rest!MapServiceError,
             Unstorable
    <2>. QED
      BY <2>1, <2>2 DEF FrontInv, RefusalInv
  <1>. QED
    BY AlwaysFront, <1>1, PTL

\* Only a fault is answered as one, or a text that cannot be stored: the switch knows
\* every sentinel that gets to it (internal/restapi/server.go:662-683), the one it lacks
\* is always tolerated, and no other call of the service reaches its default.
THEOREM FaultsAre500 == Spec => []OnlyFaultsAre500
  <1>1. FrontInv => OnlyFaultsAre500
    <2>. SUFFICES ASSUME FrontInv, Served, ~request.failed, "nul" \notin Texts(request)
                  PROVE  ~IsFailure
      BY DEF OnlyFaultsAre500, FrontInv, RequestInv, Served
    <2>1. request.err \in ({"ok", "unauthorized", "forbidden"} \cup Sentinels) \ {"duplicateList"}
      BY DEF Served, FrontInv, RefusalInv
    <2>2. CASE request.via = "mcp"
      BY <2>1, <2>2 DEF Sentinels, IsFailure, Answer, Mcp!Guard, Mcp!IsInfrastructureError, Mcp!Outage,
                        Mcp!Unstorable
    <2>3. CASE request.via # "mcp"
      BY <2>1, <2>3 DEF Sentinels, IsFailure, Answer, Rest!MapServiceError
    <2>. QED
      BY <2>2, <2>3
  <1>. QED
    BY AlwaysFront, <1>1, PTL
---------------------------------------------------------------------------
(* What is done to the tables.                                              *)

Target == [id : Nat, scope : Scopes, kind : {"once", "standing"}, enabled : BOOLEAN,
           status : {"pending", "running", "done"}]

\* Tables hold what their columns may: ids of the corpus, slugs, members of lists; a
\* target's id is its own, and the counter is past it.
Tables(d) ==
    /\ d = [verdicts |-> d.verdicts, rubrics |-> d.rubrics, shown |-> d.shown, profile |-> d.profile,
            lists |-> d.lists, items |-> d.items, targets |-> d.targets, nextTarget |-> d.nextTarget]
    /\ d.verdicts \in Seq(Listings) /\ d.rubrics \in Nat /\ d.shown \subseteq Listings
    /\ d.lists \subseteq Slugs /\ d.items \subseteq Slugs \X Listings
    /\ d.targets \subseteq Target /\ d.nextTarget \in Nat
    /\ \A t \in d.targets : t.id < d.nextTarget
    /\ \A t, u \in d.targets : t.id = u.id => t = u

LEMMA EmptyTables == Tables(EmptyDb)
  BY ServiceAssumption, EmptySeq DEF Tables, EmptyDb

\* A non-empty set of targets has one with the least id.
LEMMA LeastTarget ==
    ASSUME NEW S \in SUBSET Target, S # {}
    PROVE  \E x \in S : \A y \in S : x.id <= y.id
  <1>. DEFINE ids == {t.id : t \in S}
              R == {p \in Nat \X Nat : p[1] < p[2]}
  <1>1. \E m \in ids : \A n \in ids : <<n, m>> \notin R
    <2>1. ids \in SUBSET Nat /\ ids # {}
      BY DEF Target
    <2>. HIDE DEF ids, R
    <2>2. IsWellFoundedOn(R, Nat)
      BY NatLessThanWellFounded DEF R, OpToRel
    <2>. QED
      BY <2>1, <2>2, WFMin, Zenon
  <1>2. PICK x \in S : \A y \in S : <<y.id, x.id>> \notin R
    BY <1>1
  <1>3. ASSUME NEW y \in S PROVE x.id <= y.id
    <2>1. x.id \in Nat /\ y.id \in Nat /\ <<y.id, x.id>> \notin R
      BY <1>2 DEF Target
    <2>. QED
      BY <2>1
  <1>. QED
    BY <1>3

\* So a non-empty set of targets has a first one in the order they are listed in.
LEMMA FirstIsListed ==
    ASSUME NEW S \in SUBSET Target, S # {}
    PROVE  /\ ListedFirst(S) \in S
           /\ \A y \in S : y.enabled /\ ~ListedFirst(S).enabled => FALSE
           /\ \A x \in S : x.enabled /\ (\A y \in S : y = x \/ ~y.enabled) => ListedFirst(S) = x
  <1>. DEFINE on == {t \in S : t.enabled}
              First(x) == \A y \in S : IF x.enabled = y.enabled THEN x.id <= y.id ELSE x.enabled
  <1>1. \A t \in S : t.enabled \in BOOLEAN
    BY DEF Target
  <1>2. \E x \in S : First(x)
    <2>1. CASE on = {}
      <3>1. \A t \in S : t.enabled = FALSE
        BY <1>1, <2>1
      <3>2. PICK x \in S : \A y \in S : x.id <= y.id
        BY LeastTarget
      <3>3. First(x)
        BY <3>1, <3>2
      <3>. QED
        BY <3>3
    <2>2. CASE on # {}
      <3>1. PICK x \in on : \A y \in on : x.id <= y.id
        BY <2>2, LeastTarget
      <3>2. First(x)
        BY <1>1, <3>1
      <3>. QED
        BY <3>1, <3>2
    <2>. QED
      BY <2>1, <2>2
  <1>. HIDE DEF First
  <1>3. First(CHOOSE x \in S : First(x)) /\ (CHOOSE x \in S : First(x)) \in S
    BY <1>2
  <1>4. First(ListedFirst(S)) /\ ListedFirst(S) \in S
    BY <1>3 DEF First, ListedFirst
  <1>. QED
    BY <1>1, <1>4 DEF First

\* The tables with other targets, ...
LEMMA TargetsPut ==
    ASSUME NEW d, Tables(d), NEW T, NEW e, e = [d EXCEPT !.targets = T]
    PROVE  /\ e.verdicts = d.verdicts /\ e.rubrics = d.rubrics /\ e.shown = d.shown /\ e.lists = d.lists
           /\ e.items = d.items /\ e.profile = d.profile /\ e.nextTarget = d.nextTarget /\ e.targets = T
           /\ e = [verdicts |-> e.verdicts, rubrics |-> e.rubrics, shown |-> e.shown, profile |-> e.profile,
                   lists |-> e.lists, items |-> e.items, targets |-> e.targets, nextTarget |-> e.nextTarget]
  BY DEF Tables

\* ... with a row in place of one with its id, ...
LEMMA PutTables ==
    ASSUME NEW d, Tables(d), NEW t \in d.targets, NEW u \in Target, u.id = t.id
    PROVE  /\ Tables(Put(d, t, u).db)
           /\ Put(d, t, u).db.targets = (d.targets \ {t}) \cup {u}
           /\ u = t => Put(d, t, u).db = d
  <1>. DEFINE T == (d.targets \ {t}) \cup {u}
              e == [d EXCEPT !.targets = T]
  <1>1. Put(d, t, u).db = e
    BY DEF Put, Done
  <1>2. e.targets = T /\ (T = d.targets => e = d)
    BY TargetsPut DEF Tables
  <1>3. Tables(e)
    <2>1. /\ T \subseteq Target /\ \A x \in T : x.id < d.nextTarget
          /\ \A x, y \in T : x.id = y.id => x = y
      BY DEF Tables
    <2>. HIDE DEF T
    <2>. QED
      BY <2>1, TargetsPut DEF Tables
  <1>. HIDE DEF e
  <1>. QED
    BY <1>1, <1>2, <1>3

\* ... and with a new row.
LEMMA InsertTables ==
    ASSUME NEW d, Tables(d), NEW u \in Target, u.id = d.nextTarget, NEW e,
           e = [d EXCEPT !.nextTarget = @ + 1, !.targets = @ \cup {u}]
    PROVE  Tables(e) /\ e.targets = d.targets \cup {u}
  <1>1. /\ e.verdicts = d.verdicts /\ e.rubrics = d.rubrics /\ e.shown = d.shown
        /\ e.lists = d.lists /\ e.items = d.items /\ e.targets = d.targets \cup {u}
        /\ e.profile = d.profile /\ e.nextTarget = d.nextTarget + 1
        /\ e = [verdicts |-> e.verdicts, rubrics |-> e.rubrics, shown |-> e.shown, profile |-> e.profile,
                lists |-> e.lists, items |-> e.items, targets |-> e.targets, nextTarget |-> e.nextTarget]
    BY DEF Tables
  <1>2. /\ d.nextTarget \in Nat /\ \A t \in d.targets : t.id \in Nat /\ t.id < d.nextTarget
        /\ d.targets \subseteq Target /\ \A t, x \in d.targets : t.id = x.id => t = x
    BY DEF Tables, Target
  <1>3. /\ e.targets \subseteq Target /\ \A t \in e.targets : t.id < e.nextTarget
        /\ \A t, x \in e.targets : t.id = x.id => t = x
    BY <1>1, <1>2
  <1>. QED
    BY <1>1, <1>2, <1>3 DEF Tables

\* The rows asked for a crawl: a known standing scope resumed, a new row, or none.
Asking(d, e) ==
    \/ e = d
    \/ \E t \in d.targets, u \in Target :
          u.id = t.id /\ u.kind = t.kind /\ u.enabled /\ e = Put(d, t, u).db
    \/ \E u \in Target : u.id = d.nextTarget /\ e = [d EXCEPT !.nextTarget = @ + 1, !.targets = @ \cup {u}]

LEMMA CrawlAsked ==
    ASSUME NEW c, NEW d, Tables(d), c.do = "RequestCrawl"
    PROVE  Asking(d, Perform(c, d).db)
  <1>. DEFINE in == c.in
              known == IF in.oneOff THEN {} ELSE MatchingTargets(d, in)
              t == ListedFirst(known)
              u == [t EXCEPT !.enabled = TRUE]
              v == [id |-> d.nextTarget, scope |-> in.scope, kind |-> IF in.oneOff THEN "once" ELSE "standing",
                    enabled |-> TRUE, status |-> "pending"]
              new == [d EXCEPT !.nextTarget = @ + 1, !.targets = @ \cup {v}]
  <1>2. CASE in.scope \notin Scopes
    BY <1>2 DEF Perform, RequestCrawl, Checked, Refused, Asking
  <1>3. CASE in.scope \in Scopes /\ known # {}
    <2>1. Perform(c, d).db \in {d, Put(d, t, u).db}
      BY <1>3 DEF Perform, RequestCrawl, Checked, Refused
    <2>2. known \subseteq d.targets /\ known \subseteq Target
      BY DEF MatchingTargets, Tables
    <2>3. t \in known
      BY <1>3, <2>2, FirstIsListed
    <2>4. t \in d.targets /\ t \in Target
      BY <2>2, <2>3
    <2>. HIDE DEF t, known
    <2>5. u \in Target /\ u.id = t.id /\ u.kind = t.kind /\ u.enabled
      BY <2>4 DEF Target
    <2>. HIDE DEF u
    <2>. QED
      BY <2>1, <2>4, <2>5 DEF Asking
  <1>4. CASE in.scope \in Scopes /\ known = {}
    <2>1. Perform(c, d).db \in {d, CreateCrawlTarget(d, in).db}
      BY <1>4 DEF Perform, RequestCrawl, Checked, Found, Refused
    <2>2. CreateCrawlTarget(d, in).db \in {d, new}
      BY DEF CreateCrawlTarget, Stored, Refused, Done
    <2>3. v \in Target /\ v.id = d.nextTarget
      BY <1>4 DEF Target, Tables
    <2>. HIDE DEF v
    <2>. QED
      BY <2>1, <2>2, <2>3 DEF Asking
  <1>. QED
    BY <1>2, <1>3, <1>4

\* A target that a call changes or removes.
LEMMA TargetCalls ==
    ASSUME NEW c, NEW d, Tables(d),
           c.do \in {"SetCrawlTargetEnabled", "MakeCrawlTargetRecurring", "DeleteCrawlTarget"},
           c.do = "SetCrawlTargetEnabled" => c.in.enabled \in BOOLEAN
    PROVE  Tables(Perform(c, d).db)
  <1>1. ASSUME NEW outcomes, \A o \in outcomes : Tables(o.db)
        PROVE  Tables(WithTarget(d, outcomes).db)
    BY <1>1, LookupOutcome, LookupMissed DEF Refused
  <1>2. TargetNamed(d, c.in) \subseteq d.targets /\ TargetNamed(d, c.in) \subseteq Target
    BY DEF TargetNamed, Tables
  <1>3. ASSUME NEW valid, NEW t \in d.targets, NEW u \in Target, u.id = t.id
        PROVE  Tables(Checked(d, valid, Put(d, t, u)).db)
    <2>1. Checked(d, valid, Put(d, t, u)).db \in {d, Put(d, t, u).db}
      BY DEF Checked, Refused
    <2>2. Tables(Put(d, t, u).db)
      BY <1>3, PutTables
    <2>. QED
      BY <2>1, <2>2
  <1>4. CASE c.do = "SetCrawlTargetEnabled"
    <2>. DEFINE Out(t) == Checked(d, t.kind = "standing", Put(d, t, [t EXCEPT !.enabled = c.in.enabled]))
    <2>1. Perform(c, d) = WithTarget(d, {Out(t) : t \in TargetNamed(d, c.in)})
      BY <1>4 DEF Perform, SetCrawlTargetEnabled
    <2>2. ASSUME NEW t \in TargetNamed(d, c.in) PROVE Tables(Out(t).db)
      <3>1. [t EXCEPT !.enabled = c.in.enabled] \in Target /\ [t EXCEPT !.enabled = c.in.enabled].id = t.id
        BY <1>2, <1>4 DEF Target
      <3>. QED
        BY <1>2, <1>3, <3>1
    <2>. HIDE DEF Out
    <2>3. \A o \in {Out(t) : t \in TargetNamed(d, c.in)} : Tables(o.db)
      BY <2>2
    <2>. QED
      BY <1>1, <2>1, <2>3
  <1>5. CASE c.do = "MakeCrawlTargetRecurring"
    <2>. DEFINE Out(t) == Checked(d, t.kind = "once",
                                  Put(d, t, [t EXCEPT !.kind = "standing", !.enabled = TRUE]))
    <2>1. Perform(c, d) = WithTarget(d, {Out(t) : t \in TargetNamed(d, c.in)})
      BY <1>5 DEF Perform, MakeCrawlTargetRecurring
    <2>2. ASSUME NEW t \in TargetNamed(d, c.in) PROVE Tables(Out(t).db)
      <3>. DEFINE u == [t EXCEPT !.kind = "standing", !.enabled = TRUE]
      <3>1. u \in Target /\ u.id = t.id
        BY <1>2 DEF Target
      <3>. HIDE DEF u
      <3>2. Tables(Checked(d, t.kind = "once", Put(d, t, u)).db)
        BY <1>2, <1>3, <3>1
      <3>. QED
        BY <3>2 DEF u
    <2>. HIDE DEF Out
    <2>3. \A o \in {Out(t) : t \in TargetNamed(d, c.in)} : Tables(o.db)
      BY <2>2
    <2>. QED
      BY <1>1, <2>1, <2>3
  <1>6. CASE c.do = "DeleteCrawlTarget"
    <2>. DEFINE Out(t) == Done([d EXCEPT !.targets = @ \ {t}])
    <2>1. Perform(c, d) = WithTarget(d, {Out(t) : t \in TargetNamed(d, c.in)})
      BY <1>6 DEF Perform, DeleteCrawlTarget
    <2>2. ASSUME NEW t PROVE Tables(Out(t).db)
      <3>1. Out(t).db = [d EXCEPT !.targets = @ \ {t}]
        BY DEF Done
      <3>. HIDE DEF Out
      <3>. QED
        BY <3>1, TargetsPut DEF Tables
    <2>. HIDE DEF Out
    <2>3. \A o \in {Out(t) : t \in TargetNamed(d, c.in)} : Tables(o.db)
      BY <2>2
    <2>. QED
      BY <1>1, <2>1, <2>3
  <1>. QED
    BY <1>4, <1>5, <1>6

\* What the other calls that write make of the tables.
LEMMA RowsWritten ==
    ASSUME NEW c, NEW d, c.do \in (Adders \cup Changers) \ {"RequestCrawl", "SetCrawlTargetEnabled",
                                       "MakeCrawlTargetRecurring", "DeleteCrawlTarget"}
    PROVE  LET in == c.in
               e  == Perform(c, d).db
           IN  \/ e = d
               \/ c.do = "MarkShown" /\ e = [d EXCEPT !.shown = @ \cup (in.ids \cap Listings)]
               \/ c.do \in {"RecordVerdict", "BatchItem"} /\ in.id \in Listings
                                                       /\ e = [d EXCEPT !.verdicts = Append(@, in.id)]
               \/ c.do = "SetProfile" /\ e = [d EXCEPT !.profile = (@ \cup in.set) \ in.clear]
               \/ c.do = "UpdateRubric" /\ e = [d EXCEPT !.rubrics = @ + 1]
               \/ c.do = "CreateList" /\ in.name \in Slugs /\ e = [d EXCEPT !.lists = @ \cup {in.name}]
               \/ c.do \in {"AddToList", "AddToListBySlug"} /\ in.list \in d.lists /\ in.id \in Listings
                                     /\ e = [d EXCEPT !.items = @ \cup {<<in.list, in.id>>}]
               \/ c.do = "ResetState" /\ e = [EmptyDb EXCEPT !.nextTarget = d.nextTarget]
               \/ c.do = "DeleteList" /\ e = [d EXCEPT !.lists = @ \ {in.list},
                                                       !.items = {x \in @ : x[1] # in.list}]
               \/ c.do = "RemoveFromList" /\ e = [d EXCEPT !.items = @ \ {<<in.list, in.id>>}]
  <1>. USE DEF Checked, Found, Stored, Done, Refused
  <1>1. CASE c.do = "MarkShown"
    BY <1>1 DEF Perform, MarkShown
  <1>2. CASE c.do = "SetProfile"
    BY <1>2 DEF Perform, SetProfile
  <1>3. CASE c.do = "UpdateRubric"
    BY <1>3 DEF Perform, UpdateRubric
  <1>4. CASE c.do \in {"RecordVerdict", "BatchItem"}
    <2>1. Perform(c, d).db \in {d, RecordVerdict(d, c.in).db}
      BY <1>4 DEF Perform, BatchItem
    <2>2. RecordVerdict(d, c.in).db = d
          \/ (c.in.id \in Listings
              /\ RecordVerdict(d, c.in).db = [d EXCEPT !.verdicts = Append(@, c.in.id)])
      BY DEF RecordVerdict
    <2>. QED
      BY <1>4, <2>1, <2>2
  <1>5. CASE c.do = "CreateList"
    BY <1>5 DEF Perform, CreateList
  <1>6. CASE c.do \in {"AddToList", "AddToListBySlug"}
    BY <1>6 DEF Perform, AddToList, AddToListBySlug
  <1>7. CASE c.do \in {"ResetState", "DeleteList", "RemoveFromList"}
    BY <1>7 DEF Perform, ResetState, DeleteList, RemoveFromList
  <1>. QED
    BY <1>1, <1>2, <1>3, <1>4, <1>5, <1>6, <1>7, Zenon DEF Adders, Changers

\* Every call leaves tables behind.
LEMMA PerformTyped ==
    ASSUME NEW via, NEW op, NEW c, NEW d, Fits(via, op, c), Tables(d)
    PROVE  Tables(Perform(c, d).db)
  <1>1. CASE c.do \in Readers
    BY <1>1, ReadersKeep
  <1>2. CASE c.do = "RequestCrawl"
    <2>. DEFINE e == Perform(c, d).db
    <2>1. ASSUME NEW u \in Target, u.id = d.nextTarget,
                 e = [d EXCEPT !.nextTarget = @ + 1, !.targets = @ \cup {u}]
          PROVE  Tables(e)
      BY <2>1, InsertTables
    <2>2. ASSUME NEW t \in d.targets, NEW u \in Target, u.id = t.id, e = Put(d, t, u).db PROVE Tables(e)
      BY <2>2, PutTables
    <2>3. Asking(d, e)
      BY <1>2, CrawlAsked
    <2>. HIDE DEF e
    <2>4. Tables(e)
      BY <2>1, <2>2, <2>3 DEF Asking
    <2>. QED
      BY <2>4 DEF e
  <1>3. CASE c.do \in {"SetCrawlTargetEnabled", "MakeCrawlTargetRecurring", "DeleteCrawlTarget"}
    BY <1>3, TargetCalls DEF Fits
  <1>4. CASE c.do \in (Adders \cup Changers) \ {"RequestCrawl", "SetCrawlTargetEnabled",
                                                "MakeCrawlTargetRecurring", "DeleteCrawlTarget"}
    <2>. DEFINE in == c.in
                e == Perform(c, d).db
    <2>1. CASE e = d
      BY <2>1
    <2>2. CASE e = [d EXCEPT !.shown = @ \cup (in.ids \cap Listings)]
      BY <2>2 DEF Tables
    <2>3. CASE in.id \in Listings /\ e = [d EXCEPT !.verdicts = Append(@, in.id)]
      <3>1. Append(d.verdicts, in.id) \in Seq(Listings)
        BY <2>3, AppendProperties DEF Tables
      <3>. QED
        BY <2>3, <3>1 DEF Tables
    <2>4. CASE e = [d EXCEPT !.profile = (@ \cup in.set) \ in.clear]
      BY <2>4 DEF Tables
    <2>5. CASE e = [d EXCEPT !.rubrics = @ + 1]
      BY <2>5 DEF Tables
    <2>6. CASE in.name \in Slugs /\ e = [d EXCEPT !.lists = @ \cup {in.name}]
      <3>1. d.lists \cup {in.name} \subseteq Slugs
        BY <2>6 DEF Tables
      <3>. QED
        BY <2>6, <3>1 DEF Tables
    <2>7. CASE in.list \in d.lists /\ in.id \in Listings /\ e = [d EXCEPT !.items = @ \cup {<<in.list, in.id>>}]
      <3>1. <<in.list, in.id>> \in Slugs \X Listings
        BY <2>7 DEF Tables
      <3>2. d.items \cup {<<in.list, in.id>>} \subseteq Slugs \X Listings
        BY <3>1 DEF Tables
      <3>. QED
        BY <2>7, <3>2 DEF Tables
    <2>8. CASE e = [EmptyDb EXCEPT !.nextTarget = d.nextTarget]
      BY <2>8, EmptyTables DEF Tables, EmptyDb
    <2>9. CASE e = [d EXCEPT !.lists = @ \ {in.list}, !.items = {x \in @ : x[1] # in.list}]
      BY <2>9 DEF Tables
    <2>10. CASE e = [d EXCEPT !.items = @ \ {<<in.list, in.id>>}]
      BY <2>10 DEF Tables
    <2>. HIDE DEF e
    <2>. QED
      BY <1>4, <2>1, <2>2, <2>3, <2>4, <2>5, <2>6, <2>7, <2>8, <2>9, <2>10, RowsWritten DEF e
  <1>. QED
    BY <1>1, <1>2, <1>3, <1>4 DEF Fits, Known, Calls, Changers, Adders

LEMMA SeqIsItsPrefix ==
    ASSUME NEW S, NEW s \in Seq(S)
    PROVE  IsPrefix(s, s)
  BY LenProperties DEF IsPrefix

LEMMA PrefixOfAppended ==
    ASSUME NEW S, NEW s \in Seq(S), NEW x \in S
    PROVE  IsPrefix(s, Append(s, x))
  <1>. DEFINE t == Append(s, x)
  <1>1. /\ Len(s) \in Nat /\ Len(t) = Len(s) + 1
        /\ \A i \in 1 .. Len(s) : t[i] = s[i] /\ s[i] \in S
    BY LenProperties, AppendProperties, ElementOfSeq
  <1>. HIDE DEF t
  <1>2. SubSeq(s, 1, Len(s)) = SubSeq(t, 1, Len(s))
    <2>. DEFINE a == SubSeq(s, 1, Len(s))
                b == SubSeq(t, 1, Len(s))
    <2>1. /\ a \in Seq(S) /\ Len(a) = Len(s)
          /\ \A i \in 1 .. Len(s) : a[i] = s[i]
      BY <1>1, SubSeqProperties
    <2>2. /\ b \in Seq(S) /\ Len(b) = Len(s)
          /\ \A i \in 1 .. Len(s) : b[i] = t[i]
      BY <1>1, SubSeqProperties
    <2>. HIDE DEF a, b
    <2>3. a = b
      BY <1>1, <2>1, <2>2, SeqEqual
    <2>. QED
      BY <2>3 DEF a, b
  <1>. QED
    BY <1>1, <1>2 DEF IsPrefix, t

\* Tables that keep their targets and whose other rows only grow.
LEMMA RowsGrow ==
    ASSUME NEW d, NEW e, e.targets = d.targets, IsPrefix(d.verdicts, e.verdicts), d.rubrics <= e.rubrics,
           d.shown \subseteq e.shown, d.lists \subseteq e.lists, d.items \subseteq e.items
    PROVE  Keeps(d, e)
  <1>1. ASSUME NEW t \in d.targets
        PROVE  \E u \in e.targets : u.id = t.id /\ u.kind = t.kind /\ (t.enabled => u.enabled)
    OBVIOUS
  <1>. QED
    BY <1>1 DEF Keeps

\* A crawl that is asked for leaves every other row, and the target it finds is resumed.
LEMMA TargetsGrow ==
    ASSUME NEW d, NEW e, Tables(d), NEW t, NEW u,
           t \in d.targets => u.id = t.id /\ u.kind = t.kind /\ u.enabled,
           e.targets = (d.targets \ {t}) \cup {u}, e.verdicts = d.verdicts, e.rubrics = d.rubrics,
           e.shown = d.shown, e.lists = d.lists, e.items = d.items
    PROVE  Keeps(d, e)
  <1>1. ASSUME NEW x \in d.targets
        PROVE  \E y \in e.targets : y.id = x.id /\ y.kind = x.kind /\ (x.enabled => y.enabled)
    <2>1. CASE x = t
      BY <2>1
    <2>2. CASE x # t
      BY <2>2
    <2>. QED
      BY <2>1, <2>2
  <1>2. IsPrefix(d.verdicts, e.verdicts) /\ d.rubrics <= e.rubrics
    BY SeqIsItsPrefix DEF Tables
  <1>. QED
    BY <1>1, <1>2 DEF Keeps

\* A call that only adds removes nothing.
LEMMA AddersGrow ==
    ASSUME NEW c, NEW d, Tables(d), c.do \in Adders
    PROVE  Keeps(d, Perform(c, d).db)
  <1>. DEFINE in == c.in
              e == Perform(c, d).db
  <1>. SUFFICES Keeps(d, e)
    OBVIOUS
  <1>1. IsPrefix(d.verdicts, d.verdicts) /\ d.rubrics \in Nat /\ d.targets \subseteq Target
    BY SeqIsItsPrefix DEF Tables
  <1>2. CASE e = d
    BY <1>1, <1>2, RowsGrow
  <1>3. CASE c.do = "RequestCrawl"
    <2>1. ASSUME NEW t \in d.targets, NEW u \in Target, u.id = t.id, u.kind = t.kind, u.enabled,
                 e = Put(d, t, u).db
          PROVE  Keeps(d, e)
      <3>1. /\ e.verdicts = d.verdicts /\ e.rubrics = d.rubrics /\ e.shown = d.shown
            /\ e.lists = d.lists /\ e.items = d.items /\ e.targets = (d.targets \ {t}) \cup {u}
        BY <2>1 DEF Put, Done, Tables
      <3>. HIDE DEF e
      <3>. QED
        BY <2>1, <3>1, TargetsGrow
    <2>2. ASSUME NEW u \in Target, e = [d EXCEPT !.nextTarget = @ + 1, !.targets = @ \cup {u}]
          PROVE  Keeps(d, e)
      <3>1. /\ e.verdicts = d.verdicts /\ e.rubrics = d.rubrics /\ e.shown = d.shown
            /\ e.lists = d.lists /\ e.items = d.items /\ e.targets = d.targets \cup {u}
        BY <2>2 DEF Tables
      <3>. HIDE DEF e
      <3>2. ASSUME NEW x \in d.targets
            PROVE  \E y \in e.targets : y.id = x.id /\ y.kind = x.kind /\ (x.enabled => y.enabled)
        BY <3>1
      <3>. QED
        BY <1>1, <3>1, <3>2 DEF Keeps
    <2>3. Asking(d, e)
      BY <1>3, CrawlAsked
    <2>. HIDE DEF e
    <2>. QED
      BY <1>2, <2>1, <2>2, <2>3 DEF Asking
  <1>4. CASE c.do # "RequestCrawl"
    <2>1. CASE e = [d EXCEPT !.shown = @ \cup (in.ids \cap Listings)]
      <3>1. /\ e.verdicts = d.verdicts /\ e.rubrics = d.rubrics /\ d.shown \subseteq e.shown
            /\ e.lists = d.lists /\ e.items = d.items /\ e.targets = d.targets
        BY <2>1 DEF Tables
      <3>. HIDE DEF e
      <3>. QED
        BY <1>1, <3>1, RowsGrow
    <2>2. CASE in.id \in Listings /\ e = [d EXCEPT !.verdicts = Append(@, in.id)]
      <3>1. /\ e.verdicts = Append(d.verdicts, in.id) /\ e.rubrics = d.rubrics /\ e.shown = d.shown
            /\ e.lists = d.lists /\ e.items = d.items /\ e.targets = d.targets
        BY <2>2 DEF Tables
      <3>2. IsPrefix(d.verdicts, e.verdicts)
        BY <2>2, <3>1, PrefixOfAppended DEF Tables
      <3>. HIDE DEF e
      <3>3. /\ e.targets = d.targets /\ d.rubrics <= e.rubrics
            /\ d.shown \subseteq e.shown /\ d.lists \subseteq e.lists /\ d.items \subseteq e.items
        BY <1>1, <3>1
      <3>. QED
        BY <3>2, <3>3, RowsGrow
    <2>3. CASE e = [d EXCEPT !.profile = (@ \cup in.set) \ in.clear]
      <3>1. /\ e.verdicts = d.verdicts /\ e.rubrics = d.rubrics /\ e.shown = d.shown
            /\ e.lists = d.lists /\ e.items = d.items /\ e.targets = d.targets
        BY <2>3 DEF Tables
      <3>. HIDE DEF e
      <3>. QED
        BY <1>1, <3>1, RowsGrow
    <2>4. CASE e = [d EXCEPT !.rubrics = @ + 1]
      <3>1. /\ e.verdicts = d.verdicts /\ e.rubrics = d.rubrics + 1 /\ e.shown = d.shown
            /\ e.lists = d.lists /\ e.items = d.items /\ e.targets = d.targets
        BY <2>4 DEF Tables
      <3>. HIDE DEF e
      <3>. QED
        BY <1>1, <3>1, RowsGrow
    <2>5. CASE e = [d EXCEPT !.lists = @ \cup {in.name}]
      <3>1. /\ e.verdicts = d.verdicts /\ e.rubrics = d.rubrics /\ e.shown = d.shown
            /\ d.lists \subseteq e.lists /\ e.items = d.items /\ e.targets = d.targets
        BY <2>5 DEF Tables
      <3>. HIDE DEF e
      <3>. QED
        BY <1>1, <3>1, RowsGrow
    <2>6. CASE e = [d EXCEPT !.items = @ \cup {<<in.list, in.id>>}]
      <3>1. /\ e.verdicts = d.verdicts /\ e.rubrics = d.rubrics /\ e.shown = d.shown
            /\ e.lists = d.lists /\ d.items \subseteq e.items /\ e.targets = d.targets
        BY <2>6 DEF Tables
      <3>. HIDE DEF e
      <3>. QED
        BY <1>1, <3>1, RowsGrow
    <2>7. /\ c.do \in (Adders \cup Changers) \ {"RequestCrawl", "SetCrawlTargetEnabled",
                                               "MakeCrawlTargetRecurring", "DeleteCrawlTarget"}
          /\ c.do \notin {"ResetState", "DeleteList", "RemoveFromList"}
      BY <1>4 DEF Adders, Changers
    <2>. HIDE DEF e
    <2>. QED
      BY <1>2, <2>1, <2>2, <2>3, <2>4, <2>5, <2>6, <2>7, RowsWritten DEF e
  <1>. QED
    BY <1>3, <1>4

\* A step that changes the tables makes the call at the head of the request, or is the
\* crawler's.
LEMMA TablesChange ==
    ASSUME FrontInv, [Next]_vars, db' # db
    PROVE  \/ /\ request # NoRequest /\ db' = Perform(request.calls[1], db).db
              /\ Fits(request.via, request.op, request.calls[1])
           \/ CrawlerMoves
  <1>1. CASE Work \/ CallFails
    <2>1. Serving /\ db' \in {db, Perform(Head(request.calls), db).db}
      BY <1>1, Zenon DEF Work, CallFails
    <2>2. Head(request.calls) = request.calls[1] /\ 1 \in DOMAIN request.calls
      BY <2>1, TailSeq DEF FrontInv, RequestInv, Serving
    <2>. QED
      BY <2>1, <2>2 DEF FrontInv, RequestInv, Serving
  <1>2. Work \/ CallFails \/ CrawlerMoves \/ UNCHANGED db
    BY DEF Next, AgentStep, Ask, Reply, AnswerLost, ServerStep, PageStep, Visit, PageAsks, PageAnswered,
           PageUnanswered, PageEnds, Logout, LoginStep, WindowPasses, DoLogin, ProbeAnswered, ProbeFails,
           RotateToken, vars
  <1>. QED
    BY <1>1, <1>2

LEMMA NextTables == FrontInv /\ Tables(db) /\ [Next]_vars => Tables(db)'
  <1>. SUFFICES ASSUME FrontInv, Tables(db), [Next]_vars, db' # db PROVE Tables(db')
    OBVIOUS
  <1>1. CASE CrawlerMoves
    <2>1. PICK t \in db.targets, next \in {<<"pending", "running">>, <<"running", "done">>} :
             db' = Put(db, t, [t EXCEPT !.status = next[2]]).db
      BY <1>1 DEF CrawlerMoves
    <2>2. next[2] \in {"running", "done"} /\ t \in Target
      BY DEF Tables
    <2>3. [t EXCEPT !.status = next[2]] \in Target /\ [t EXCEPT !.status = next[2]].id = t.id
      BY <2>2 DEF Target
    <2>. QED
      BY <2>1, <2>3, PutTables
  <1>. QED
    BY <1>1, TablesChange, PerformTyped

\* A tool or a route does what it is annotated with, and a page of a read-only console
\* only looks, on whatever the tables hold (guard.go:18-22, cmd/console/main.go:150-161).
THEOREM ToolsDoAsAnnotated == Spec => EffectsAsAnnotated
  <1>. DEFINE Annotated ==
          request # NoRequest /\ db' # db =>
             /\ request.via = "mcp" => request.op \notin Mcp!ReadOnly
             /\ request.via = "mcp" /\ request.op \in Mcp!Additive => Keeps(db, db')
             /\ request.via = "rest" => request.op \notin Rest!Safe
             /\ page # NoPage => "write" \in menu /\ page.name \in Web!Writes
  <1>1. Init => Tables(db)
    BY EmptyTables DEF Init
  <1>2. FrontInv /\ Tables(db) /\ [Next]_vars => [Annotated]_vars
    <2>. SUFFICES ASSUME FrontInv, Tables(db), [Next]_vars, request # NoRequest, db' # db
                  PROVE  Annotated
      OBVIOUS
    <2>. DEFINE c == request.calls[1]
    <2>1. db' = Perform(c, db).db /\ Fits(request.via, request.op, c)
      BY TablesChange DEF CrawlerMoves
    <2>2. c.do \notin Readers
      BY <2>1, ReadersKeep
    <2>3. request.via = "mcp" /\ request.op \in Mcp!Additive => Keeps(db, db')
      BY <2>1, <2>2, AddersGrow DEF Fits
    <2>4. page # NoPage => request.via = "rest"
                           /\ (request.op \in Rest!Safe \/ (page.name \in Web!Writes /\ MayWrite))
      BY DEF FrontInv, RequestInv
    <2>. QED
      BY <2>1, <2>2, <2>3, <2>4 DEF Fits, MayWrite
  <1>. QED
    BY AlwaysFront, NextTables, <1>1, <1>2, PTL DEF Spec, EffectsAsAnnotated
---------------------------------------------------------------------------
(* Calls made twice.                                                        *)

\* What repeatable tools ask for.
Redoable == {"MarkShown", "SetProfile", "RequestCrawl", "CreateList", "AddToListBySlug", "ResetState",
             "RemoveFromList", "SetCrawlTargetEnabled", "MakeCrawlTargetRecurring", "DeleteCrawlTarget"}

\* A lookup finds at most one target.
LEMMA OneNamed ==
    ASSUME NEW d, Tables(d), NEW in, NEW t \in TargetNamed(d, in)
    PROVE  TargetNamed(d, in) = {t} /\ t \in d.targets /\ t \in Target /\ t.id = in.id
  BY DEF TargetNamed, Tables

LEMMA OneOutcome ==
    ASSUME NEW d, NEW o
    PROVE  WithTarget(d, {o}) = o
  BY LookupOutcome

\* A row changed in place is the one that is found the next time.
LEMMA FoundAgain ==
    ASSUME NEW d, Tables(d), NEW in, NEW t \in TargetNamed(d, in), NEW u \in Target, u.id = t.id
    PROVE  LET e == Put(d, t, u).db
           IN  Tables(e) /\ u \in TargetNamed(e, in) /\ Put(e, u, u).db = e
  <1>. DEFINE e == Put(d, t, u).db
  <1>1. t \in d.targets /\ t.id = in.id
    BY OneNamed
  <1>2. Tables(e) /\ e.targets = (d.targets \ {t}) \cup {u}
    BY <1>1, PutTables
  <1>3. u \in TargetNamed(e, in)
    BY <1>1, <1>2 DEF TargetNamed
  <1>. HIDE DEF e
  <1>4. Put(e, u, u).db = e
    BY <1>2, PutTables
  <1>. QED
    BY <1>2, <1>3, <1>4 DEF e

LEMMA TargetRedone ==
    ASSUME NEW c, NEW d, Tables(d),
           c.do \in {"SetCrawlTargetEnabled", "MakeCrawlTargetRecurring", "DeleteCrawlTarget"},
           c.do = "SetCrawlTargetEnabled" => c.in.enabled \in BOOLEAN
    PROVE  Perform(c, Perform(c, d).db).db = Perform(c, d).db
  <1>. DEFINE in == c.in
              e == Perform(c, d).db
  <1>1. CASE TargetNamed(d, in) = {}
    <2>1. Perform(c, d) = Refused(d, "targetNotFound")
      <3>1. CASE c.do = "SetCrawlTargetEnabled"
        BY <1>1, <3>1, LookupMissed, Zenon DEF Perform, SetCrawlTargetEnabled
      <3>2. CASE c.do = "MakeCrawlTargetRecurring"
        BY <1>1, <3>2, LookupMissed DEF Perform, MakeCrawlTargetRecurring
      <3>3. CASE c.do = "DeleteCrawlTarget"
        BY <1>1, <3>3, LookupMissed DEF Perform, DeleteCrawlTarget
      <3>. QED
        BY <3>1, <3>2, <3>3
    <2>2. e = d
      BY <2>1 DEF Refused
    <2>. QED
      BY <2>2
  <1>2. ASSUME NEW t \in TargetNamed(d, in), c.do = "SetCrawlTargetEnabled"
        PROVE  Perform(c, e).db = e
    <2>. DEFINE Out(x, r) == Checked(x, r.kind = "standing", Put(x, r, [r EXCEPT !.enabled = in.enabled]))
                u == [t EXCEPT !.enabled = in.enabled]
    <2>1. ASSUME NEW x, NEW r, TargetNamed(x, in) = {r}
          PROVE  Perform(c, x) = Out(x, r)
      <3>1. Perform(c, x) = WithTarget(x, {Out(x, q) : q \in TargetNamed(x, in)})
        BY <1>2 DEF Perform, SetCrawlTargetEnabled
      <3>. HIDE DEF Out
      <3>2. {Out(x, q) : q \in TargetNamed(x, in)} = {Out(x, r)}
        BY <2>1
      <3>. QED
        BY <3>1, <3>2, OneOutcome
    <2>2. Perform(c, d) = Out(d, t) /\ t \in Target
      BY <2>1, OneNamed
    <2>3. u \in Target /\ u.id = t.id /\ u.kind = t.kind /\ [u EXCEPT !.enabled = in.enabled] = u
      BY <1>2, <2>2 DEF Target
    <2>4. CASE t.kind # "standing"
      BY <2>2, <2>4 DEF Checked, Refused
    <2>5. CASE t.kind = "standing"
      <3>1. e = Put(d, t, u).db
        BY <2>2, <2>5 DEF Checked
      <3>. HIDE DEF u, e
      <3>2. Tables(e) /\ u \in TargetNamed(e, in) /\ Put(e, u, u).db = e
        BY <2>3, <3>1, FoundAgain
      <3>3. Perform(c, e) = Out(e, u)
        BY <2>1, <3>2, OneNamed
      <3>4. Perform(c, e).db = Put(e, u, u).db
        BY <2>3, <2>5, <3>3 DEF Checked
      <3>. QED
        BY <3>2, <3>4
    <2>. QED
      BY <2>4, <2>5
  <1>3. ASSUME NEW t \in TargetNamed(d, in), c.do = "MakeCrawlTargetRecurring"
        PROVE  Perform(c, e).db = e
    <2>. DEFINE Out(x, r) == Checked(x, r.kind = "once", Put(x, r, [r EXCEPT !.kind = "standing", !.enabled = TRUE]))
                u == [t EXCEPT !.kind = "standing", !.enabled = TRUE]
    <2>1. ASSUME NEW x, NEW r, TargetNamed(x, in) = {r}
          PROVE  Perform(c, x) = Out(x, r)
      <3>1. Perform(c, x) = WithTarget(x, {Out(x, q) : q \in TargetNamed(x, in)})
        BY <1>3 DEF Perform, MakeCrawlTargetRecurring
      <3>. HIDE DEF Out
      <3>2. {Out(x, q) : q \in TargetNamed(x, in)} = {Out(x, r)}
        BY <2>1
      <3>. QED
        BY <3>1, <3>2, OneOutcome
    <2>. HIDE DEF Out
    <2>2. Perform(c, d) = Out(d, t) /\ t \in Target
      BY <2>1, OneNamed
    <2>3. u \in Target /\ u.id = t.id /\ u.kind = "standing"
      BY <2>2 DEF Target
    <2>4. Perform(c, d) = Checked(d, t.kind = "once", Put(d, t, u))
      BY <2>2 DEF Out
    <2>. HIDE DEF u
    <2>5. CASE t.kind # "once"
      BY <2>4, <2>5 DEF Checked, Refused
    <2>6. CASE t.kind = "once"
      <3>1. e = Put(d, t, u).db
        BY <2>4, <2>6 DEF Checked
      <3>. HIDE DEF e
      <3>2. Tables(e) /\ u \in TargetNamed(e, in)
        BY <2>3, <3>1, FoundAgain
      <3>3. Perform(c, e) = Out(e, u)
        BY <2>1, <3>2, OneNamed
      <3>. DEFINE v == [u EXCEPT !.kind = "standing", !.enabled = TRUE]
      <3>4. Out(e, u) = Checked(e, u.kind = "once", Put(e, u, v))
        BY DEF Out
      <3>. HIDE DEF v
      <3>5. Out(e, u).db = e
        BY <2>3, <3>4 DEF Checked, Refused
      <3>. QED
        BY <3>3, <3>5
    <2>. QED
      BY <2>5, <2>6
  <1>4. ASSUME NEW t \in TargetNamed(d, in), c.do = "DeleteCrawlTarget"
        PROVE  Perform(c, e).db = e
    <2>1. Perform(c, d) = WithTarget(d, {Done([d EXCEPT !.targets = @ \ {q}]) : q \in TargetNamed(d, in)})
      BY <1>4 DEF Perform, DeleteCrawlTarget
    <2>2. TargetNamed(d, in) = {t}
      BY OneNamed
    <2>3. {Done([d EXCEPT !.targets = @ \ {q}]) : q \in TargetNamed(d, in)} = {Done([d EXCEPT !.targets = @ \ {t}])}
      BY <2>2
    <2>. DEFINE gone == [d EXCEPT !.targets = @ \ {t}]
    <2>4. e = gone
      <3>1. Perform(c, d) = WithTarget(d, {Done(gone)})
        BY <2>1, <2>3
      <3>. HIDE DEF gone
      <3>2. Perform(c, d) = Done(gone)
        BY <3>1, OneOutcome
      <3>. QED
        BY <3>2 DEF Done
    <2>. HIDE DEF e
    <2>5. e.targets = d.targets \ {t}
      BY <2>4, TargetsPut
    <2>6. TargetNamed(e, in) = {}
      BY <2>2, <2>5 DEF TargetNamed
    <2>7. Perform(c, e) = Refused(e, "targetNotFound")
      BY <1>4, <2>6, LookupMissed DEF Perform, DeleteCrawlTarget
    <2>. QED
      BY <2>7 DEF Refused
  <1>. QED
    BY <1>1, <1>2, <1>3, <1>4

\* A crawl asked for twice is the same row: the one that was found is on by now and
\* comes first, and the one that was made is found.
LEMMA CrawlRedone ==
    ASSUME NEW c, NEW d, Tables(d), c.do = "RequestCrawl"
    PROVE  Perform(c, Perform(c, d).db).db = Perform(c, d).db
  <1>. DEFINE in == c.in
              e == Perform(c, d).db
              Matching(x) == MatchingTargets(x, in)
              On(t) == [t EXCEPT !.enabled = TRUE]
              Sound == in.scope \in Scopes /\ MoneyOK(in.price) /\ NoteOK(in.note)
  <1>. SUFFICES Perform(c, e).db = e
    OBVIOUS
  <1>1. CASE ~Sound
    BY <1>1 DEF Perform, RequestCrawl, Checked, Refused
  <1>2. ASSUME NEW x, Sound, ~in.oneOff, Matching(x) # {}
        PROVE  Perform(c, x).db = Put(x, ListedFirst(Matching(x)), On(ListedFirst(Matching(x)))).db
    BY <1>2 DEF Perform, RequestCrawl, Checked
  <1>3. ASSUME NEW x, Sound, in.oneOff \/ Matching(x) = {}
        PROVE  Perform(c, x).db \in {x, CreateCrawlTarget(x, in).db}
    BY <1>3 DEF Perform, RequestCrawl, Checked, Found, Refused
  <1>4. ASSUME NEW x, Matching(x) # {}
        PROVE  CreateCrawlTarget(x, in).db = x
    BY <1>4 DEF CreateCrawlTarget, Done
  <1>5. \A x, t : t \in Matching(x) <=>
            /\ t \in x.targets /\ t.scope = in.scope
            /\ IF in.oneOff THEN t.kind = "once" /\ t.status \in {"pending", "running"} ELSE t.kind = "standing"
    BY DEF MatchingTargets
  <1>6. CASE Sound /\ ~in.oneOff /\ Matching(d) # {}
    <2>. DEFINE t == ListedFirst(Matching(d))
                u == On(t)
    <2>1. Matching(d) \subseteq d.targets /\ Matching(d) \subseteq Target
      BY DEF MatchingTargets, Tables
    <2>. HIDE DEF Matching
    <2>2. t \in Matching(d) /\ t \in d.targets /\ t \in Target
      BY <1>6, <2>1, FirstIsListed
    <2>3. e = Put(d, t, u).db
      BY <1>2, <1>6
    <2>. HIDE DEF e
    <2>4. \A r \in Matching(d) : r.enabled => t.enabled
      BY <1>6, <2>1, FirstIsListed
    <2>. HIDE DEF t
    <2>5. /\ u \in Target /\ u.id = t.id /\ u.kind = t.kind /\ u.scope = t.scope /\ u.enabled = TRUE
          /\ On(u) = u /\ (t.enabled => u = t)
      BY <2>2 DEF Target
    <2>. HIDE DEF u, On
    <2>6. Tables(e) /\ e.targets = (d.targets \ {t}) \cup {u} /\ (u = t => e = d)
      BY <2>2, <2>3, <2>5, PutTables
    <2>7. CASE t.enabled
      BY <2>5, <2>6, <2>7 DEF e
    <2>8. CASE ~t.enabled
      <3>1. u \in Matching(e) /\ \A r \in Matching(e) : r = u \/ ~r.enabled
        BY <1>5, <1>6, <2>2, <2>4, <2>5, <2>6, <2>8
      <3>2. Matching(e) \in SUBSET Target /\ Matching(e) # {}
        BY <1>5, <2>6, <3>1 DEF Tables
      <3>3. ListedFirst(Matching(e)) = u
        BY <2>5, <3>1, <3>2, FirstIsListed
      <3>4. Perform(c, e).db = Put(e, u, u).db
        BY <1>2, <1>6, <2>5, <3>2, <3>3
      <3>5. Put(e, u, u).db = e
        BY <2>5, <2>6, PutTables
      <3>. QED
        BY <3>4, <3>5
    <2>. QED
      BY <2>7, <2>8
  <1>7. CASE Sound /\ (in.oneOff \/ Matching(d) = {})
    <2>. DEFINE k == IF in.oneOff THEN "once" ELSE "standing"
                v == [id |-> d.nextTarget, scope |-> in.scope, kind |-> k, enabled |-> TRUE, status |-> "pending"]
                new == [d EXCEPT !.nextTarget = @ + 1, !.targets = @ \cup {v}]
    <2>1. e \in {d, CreateCrawlTarget(d, in).db}
      BY <1>3, <1>7
    <2>2. CreateCrawlTarget(d, in).db \in {d, new}
      BY DEF CreateCrawlTarget, Stored, Refused, Done
    <2>3. CASE e = d
      BY <2>3
    <2>4. CASE e = new
      <3>1. /\ v \in Target /\ v.id = d.nextTarget /\ v.scope = in.scope /\ v.status = "pending" /\ v.enabled = TRUE
            /\ v.kind = k /\ On(v) = v
        <4>1. d.nextTarget \in Nat /\ k \in {"once", "standing"} /\ in.scope \in Scopes
          BY <1>7 DEF Tables
        <4>. HIDE DEF k
        <4>2. v = [id |-> d.nextTarget, scope |-> in.scope, kind |-> k, enabled |-> TRUE, status |-> "pending"]
          OBVIOUS
        <4>. HIDE DEF v
        <4>3. /\ v \in Target /\ v.id = d.nextTarget /\ v.scope = in.scope /\ v.status = "pending"
              /\ v.enabled = TRUE /\ v.kind = k
          BY <4>1, <4>2 DEF Target
        <4>4. On(v) = v
          BY <4>3 DEF Target
        <4>. QED
          BY <4>3, <4>4
      <3>. HIDE DEF v, Matching, On, e
      <3>2. Tables(e) /\ e.targets = d.targets \cup {v}
        <4>1. v \in Target /\ v.id = d.nextTarget
          BY <3>1
        <4>. QED
          BY <2>4, <4>1, InsertTables
      <3>. HIDE DEF new
      <3>3. v \in Matching(e)
        BY <1>5, <3>1, <3>2
      <3>4. CASE in.oneOff
        BY <1>3, <1>4, <1>7, <3>3, <3>4
      <3>5. CASE ~in.oneOff
        <4>1. \A r \in Matching(e) : r = v
          BY <1>5, <1>7, <3>2, <3>5
        <4>2. Matching(e) \in SUBSET Target /\ Matching(e) # {}
          BY <1>5, <3>2, <3>3 DEF Tables
        <4>3. ListedFirst(Matching(e)) = v
          BY <4>1, <4>2, FirstIsListed
        <4>4. Perform(c, e).db = Put(e, v, v).db
          BY <1>2, <1>7, <3>1, <3>5, <4>2, <4>3
        <4>5. Put(e, v, v).db = e
          BY <3>1, <3>2, PutTables
        <4>. QED
          BY <4>4, <4>5
      <3>. QED
        BY <3>4, <3>5
    <2>. QED
      BY <2>1, <2>2, <2>3, <2>4
  <1>. QED
    BY <1>1, <1>6, <1>7

\* A repeatable call made twice leaves the tables as it left them at first.
LEMMA Redone ==
    ASSUME NEW c, NEW d, Tables(d), c.do \in Redoable,
           c.do = "SetCrawlTargetEnabled" => c.in.enabled \in BOOLEAN
    PROVE  Perform(c, Perform(c, d).db).db = Perform(c, d).db
  <1>. DEFINE in == c.in
              e == Perform(c, d).db
  <1>. SUFFICES Perform(c, e).db = e
    OBVIOUS
  <1>1. CASE c.do \in {"SetCrawlTargetEnabled", "MakeCrawlTargetRecurring", "DeleteCrawlTarget"}
    BY <1>1, TargetRedone
  <1>2. CASE c.do = "RequestCrawl"
    BY <1>2, CrawlRedone
  <1>3. CASE c.do = "MarkShown"
    <2>. DEFINE F(x) == [x EXCEPT !.shown = @ \cup (in.ids \cap Listings)]
    <2>1. ASSUME NEW x PROVE Perform(c, x).db \in {x, F(x)}
      BY <1>3, RowsWritten DEF Adders, Changers
    <2>2. F(F(d)) = F(d)
      BY DEF Tables
    <2>3. e \in {d, F(d)}
      BY <2>1
    <2>. HIDE DEF F, e
    <2>4. Perform(c, e).db \in {e, F(e)}
      BY <2>1
    <2>. QED
      BY <2>2, <2>3, <2>4 DEF e
  <1>4. CASE c.do = "SetProfile"
    <2>. DEFINE F(x) == [x EXCEPT !.profile = (@ \cup in.set) \ in.clear]
    <2>1. ASSUME NEW x PROVE Perform(c, x).db \in {x, F(x)}
      BY <1>4, RowsWritten DEF Adders, Changers
    <2>2. F(F(d)) = F(d)
      BY DEF Tables
    <2>3. e \in {d, F(d)}
      BY <2>1
    <2>. HIDE DEF F, e
    <2>4. Perform(c, e).db \in {e, F(e)}
      BY <2>1
    <2>. QED
      BY <2>2, <2>3, <2>4 DEF e
  <1>5. CASE c.do = "CreateList"
    <2>. DEFINE F(x) == [x EXCEPT !.lists = @ \cup {in.name}]
    <2>1. ASSUME NEW x PROVE Perform(c, x).db \in {x, F(x)}
      BY <1>5, RowsWritten DEF Adders, Changers
    <2>2. F(F(d)) = F(d)
      BY DEF Tables
    <2>3. e \in {d, F(d)}
      BY <2>1
    <2>. HIDE DEF F, e
    <2>4. Perform(c, e).db \in {e, F(e)}
      BY <2>1
    <2>. QED
      BY <2>2, <2>3, <2>4 DEF e
  <1>6. CASE c.do = "AddToListBySlug"
    <2>. DEFINE F(x) == [x EXCEPT !.items = @ \cup {<<in.list, in.id>>}]
    <2>1. ASSUME NEW x PROVE Perform(c, x).db \in {x, F(x)}
      BY <1>6, RowsWritten DEF Adders, Changers
    <2>2. F(F(d)) = F(d)
      BY DEF Tables
    <2>3. e \in {d, F(d)}
      BY <2>1
    <2>. HIDE DEF F, e
    <2>4. Perform(c, e).db \in {e, F(e)}
      BY <2>1
    <2>. QED
      BY <2>2, <2>3, <2>4 DEF e
  <1>7. CASE c.do = "ResetState"
    <2>. DEFINE F(x) == [EmptyDb EXCEPT !.nextTarget = x.nextTarget]
    <2>1. ASSUME NEW x PROVE Perform(c, x).db \in {x, F(x)}
      BY <1>7, RowsWritten DEF Adders, Changers
    <2>2. F(F(d)) = F(d)
      BY DEF EmptyDb
    <2>3. e \in {d, F(d)}
      BY <2>1
    <2>. HIDE DEF F, e
    <2>4. Perform(c, e).db \in {e, F(e)}
      BY <2>1
    <2>. QED
      BY <2>2, <2>3, <2>4 DEF e
  <1>8. CASE c.do = "RemoveFromList"
    <2>. DEFINE F(x) == [x EXCEPT !.items = @ \ {<<in.list, in.id>>}]
    <2>1. ASSUME NEW x PROVE Perform(c, x).db \in {x, F(x)}
      BY <1>8, RowsWritten DEF Adders, Changers
    <2>2. F(F(d)) = F(d)
      BY DEF Tables
    <2>3. e \in {d, F(d)}
      BY <2>1
    <2>. HIDE DEF F, e
    <2>4. Perform(c, e).db \in {e, F(e)}
      BY <2>1
    <2>. QED
      BY <2>2, <2>3, <2>4 DEF e
  <1>. QED
    BY <1>1, <1>2, <1>3, <1>4, <1>5, <1>6, <1>7, <1>8 DEF Redoable

---------------------------------------------------------------------------
(* The calls of a request in a row.                                         *)

Unfolds(f, calls, start, n) ==
    f = [i \in 0 .. n |-> IF i = 0 THEN start ELSE AfterCall(f[i - 1], calls[i])]

\* The states a request goes through are well defined, call by call: there is no least
\* number of calls for which they are not.
LEMMA CallsUnfold ==
    ASSUME NEW calls, Len(calls) \in Nat, NEW start
    PROVE  Unfolds(AfterCalls(calls, start), calls, start, Len(calls))
  <1>. DEFINE Undefined == {n \in Nat : ~\E f : Unfolds(f, calls, start, n)}
              R == {p \in Nat \X Nat : p[1] < p[2]}
  <1>1. ASSUME Undefined # {} PROVE FALSE
    <2>1. \E m \in Undefined : \A n \in Undefined : <<n, m>> \notin R
      <3>1. Undefined \in SUBSET Nat
        OBVIOUS
      <3>. HIDE DEF Undefined, R
      <3>2. IsWellFoundedOn(R, Nat)
        BY NatLessThanWellFounded DEF R, OpToRel
      <3>. QED
        BY <1>1, <3>1, <3>2, WFMin, Zenon
    <2>2. PICK m \in Undefined : \A n \in Undefined : <<n, m>> \notin R
      BY <2>1
    <2>3. m # 0
      <3>. DEFINE f == [i \in 0 .. 0 |-> start]
      <3>1. f = [i \in 0 .. 0 |-> IF i = 0 THEN start ELSE AfterCall(f[i - 1], calls[i])]
        OBVIOUS
      <3>. HIDE DEF f
      <3>2. \E g : Unfolds(g, calls, start, 0)
        BY <3>1, Zenon DEF Unfolds
      <3>. QED
        BY <3>2
    <2>4. m \in Nat /\ m - 1 \in Nat /\ m - 1 \notin Undefined
      <3>1. m \in Nat /\ m - 1 \in Nat
        BY <2>3
      <3>2. <<m - 1, m>> \in R
        BY <3>1
      <3>. QED
        BY <2>2, <3>1, <3>2
    <2>5. PICK f : Unfolds(f, calls, start, m - 1)
      BY <2>4, Zenon
    <2>. DEFINE g == [i \in 0 .. m |-> IF i = m THEN AfterCall(f[m - 1], calls[m]) ELSE f[i]]
                h == [i \in 0 .. m |-> IF i = 0 THEN start ELSE AfterCall(g[i - 1], calls[i])]
    <2>6. \A i \in 0 .. m : g[i] = h[i]
      <3>. SUFFICES ASSUME NEW i \in 0 .. m PROVE g[i] = h[i]
        OBVIOUS
      <3>1. \A k \in 0 .. m - 1 : f[k] = IF k = 0 THEN start ELSE AfterCall(f[k - 1], calls[k])
        BY <2>5 DEF Unfolds
      <3>2. CASE i = 0
        BY <2>3, <2>4, <3>1, <3>2
      <3>3. CASE i # 0
        <4>1. i - 1 \in 0 .. m /\ i - 1 # m /\ m \in Nat
          BY <3>3
        <4>2. g[i - 1] = f[i - 1]
          BY <4>1
        <4>3. g[i] = AfterCall(f[i - 1], calls[i])
          BY <3>1, <3>3
        <4>. QED
          BY <3>3, <4>2, <4>3
      <3>. QED
        BY <3>2, <3>3
    <2>7. g = h
      BY <2>6
    <2>8. \E k : Unfolds(k, calls, start, m)
      <3>1. g = [i \in 0 .. m |-> IF i = 0 THEN start ELSE AfterCall(g[i - 1], calls[i])]
        BY <2>7
      <3>. HIDE DEF g
      <3>. QED
        BY <3>1, Zenon DEF Unfolds
    <2>. QED
      BY <2>8
  <1>2. \E f : Unfolds(f, calls, start, Len(calls))
    BY <1>1
  <1>. QED
    BY <1>2, Zenon DEF AfterCalls, Unfolds

LEMMA CallByCall ==
    ASSUME NEW calls, Len(calls) \in Nat, NEW start
    PROVE  /\ AfterCalls(calls, start)[0] = start
           /\ \A n \in 1 .. Len(calls) :
                 AfterCalls(calls, start)[n] = AfterCall(AfterCalls(calls, start)[n - 1], calls[n])
  <1>. DEFINE f == AfterCalls(calls, start)
  <1>1. f = [i \in 0 .. Len(calls) |-> IF i = 0 THEN start ELSE AfterCall(f[i - 1], calls[i])]
    BY CallsUnfold DEF Unfolds
  <1>. HIDE DEF f
  <1>2. f[0] = start /\ \A n \in 1 .. Len(calls) : f[n] = AfterCall(f[n - 1], calls[n])
    BY <1>1
  <1>. QED
    BY <1>2 DEF f

\* Requests of no call, of one and of two.
LEMMA EffectOfNone ==
    ASSUME NEW e, NEW d
    PROVE  Effect(None(e), d) = [db |-> d, err |-> e, shows |-> {}]
  <1>1. Len(<<>>) = 0 /\ None(e).calls = <<>> /\ None(e).err = e
    BY DEF None
  <1>2. [Done(d) EXCEPT !.err = e] = [db |-> d, err |-> e, shows |-> {}]
    BY DEF Done
  <1>3. AfterCalls(<<>>, [db |-> d, err |-> e, shows |-> {}])[0] = [db |-> d, err |-> e, shows |-> {}]
    BY <1>1, CallByCall
  <1>. HIDE DEF Done
  <1>. QED
    BY <1>1, <1>2, <1>3 DEF Effect

LEMMA EffectOfOne ==
    ASSUME NEW c, NEW d
    PROVE  Effect([err |-> "ok", calls |-> <<c>>], d) = AfterCall(Done(d), c)
  <1>1. Len(<<c>>) = 1 /\ <<c>>[1] = c /\ 1 \in 1 .. Len(<<c>>)
    OBVIOUS
  <1>2. [Done(d) EXCEPT !.err = "ok"] = Done(d)
    BY DEF Done
  <1>. HIDE DEF Done
  <1>. QED
    BY <1>1, <1>2, CallByCall DEF Effect

LEMMA EffectOfTwo ==
    ASSUME NEW c, NEW x, NEW d
    PROVE  Effect([err |-> "ok", calls |-> <<c, x>>], d) = AfterCall(AfterCall(Done(d), c), x)
  <1>1. /\ Len(<<c, x>>) = 2 /\ <<c, x>>[1] = c /\ <<c, x>>[2] = x
        /\ 1 \in 1 .. Len(<<c, x>>) /\ 2 \in 1 .. Len(<<c, x>>)
    OBVIOUS
  <1>2. [Done(d) EXCEPT !.err = "ok"] = Done(d)
    BY DEF Done
  <1>. HIDE DEF Done
  <1>. QED
    BY <1>1, <1>2, CallByCall DEF Effect

\* A call that only looks changes nothing when it comes last.
LEMMA LastLook ==
    ASSUME NEW acc, NEW x, x.do \in Readers
    PROVE  AfterCall(acc, x).db = acc.db
  BY ReadersKeep DEF AfterCall, Done

---------------------------------------------------------------------------
(* Tools sent again.                                                        *)

Repeats == Mcp!Idempotent \ Mcp!ReadOnly

Rewrites(c) ==
    /\ c.do \in Redoable /\ Outage \notin c.spared
    /\ c.do = "SetCrawlTargetEnabled" => c.in.enabled \in BOOLEAN

\* A repeatable tool makes one call that writes and may look at what it wrote.
OneWrite(plan) ==
    \/ plan = None(plan.err)
    \/ plan = [err |-> "ok", calls |-> <<plan.calls[1]>>] /\ Rewrites(plan.calls[1])
    \/ /\ plan = [err |-> "ok", calls |-> <<plan.calls[1], plan.calls[2]>>]
       /\ Rewrites(plan.calls[1]) /\ plan.calls[2].do \in Readers

LEMMA RepeatedPlans ==
    ASSUME NEW op \in Repeats, NEW in
    PROVE  OneWrite(Mcp!ToolPlan(op, in))
  <1>. DEFINE plan == Mcp!ToolPlan(op, in)
  <1>. SUFFICES OneWrite(plan)
    OBVIOUS
  <1>. USE DEF Mcp!Plan, Mcp!Must, Mcp!Parsed, Mcp!Reject, Mcp!RejectAs
  <1>1. ASSUME NEW e, plan = [err |-> e, calls |-> <<>>] PROVE OneWrite(plan)
    BY <1>1 DEF OneWrite, None
  <1>2. ASSUME NEW c, Rewrites(c), plan = [err |-> "ok", calls |-> <<c>>] PROVE OneWrite(plan)
    BY <1>2 DEF OneWrite
  <1>3. ASSUME NEW c, NEW x, Rewrites(c), x.do \in Readers, plan = [err |-> "ok", calls |-> <<c, x>>]
        PROVE  OneWrite(plan)
    BY <1>3 DEF OneWrite
  <1>4. ASSUME NEW do \in Redoable, NEW i, do = "SetCrawlTargetEnabled" => i.enabled \in BOOLEAN
        PROVE  Rewrites([do |-> do, in |-> i, spared |-> {}])
    BY <1>4 DEF Rewrites
  <1>5. CASE op = "markShown"
    <2>1. Rewrites([do |-> "MarkShown", in |-> in, spared |-> {}])
      BY <1>4 DEF Redoable
    <2>. QED
      BY <1>1, <1>2, <1>5, <2>1 DEF Mcp!ToolPlan, Mcp!ShowTool
  <1>6. CASE op = "setProfile"
    <2>. DEFINE c == [do |-> "SetProfile", in |-> in, spared |-> {}]
                x == [do |-> "UnmatchedNeighborhoods", in |-> in, spared |-> {}]
    <2>1. Rewrites(c)
      BY <1>4 DEF Redoable
    <2>2. plan \in {[err |-> "ok", calls |-> <<c, x>>], [err |-> "invalid", calls |-> <<>>]}
      BY <1>6 DEF Mcp!ToolPlan, Mcp!ProfileTool
    <2>3. x.do \in Readers
      BY DEF Readers
    <2>. HIDE DEF c, x, plan
    <2>. QED
      BY <1>1, <1>3, <2>1, <2>2, <2>3
  <1>7. CASE op = "requestCrawl"
    <2>1. Rewrites([do |-> "RequestCrawl", in |-> in, spared |-> {}])
      BY <1>4 DEF Redoable
    <2>. QED
      BY <1>1, <1>2, <1>7, <2>1 DEF Mcp!ToolPlan, Mcp!CrawlTool
  <1>8. CASE op = "createList"
    <2>1. Rewrites([do |-> "CreateList", in |-> in, spared |-> {"duplicateList"}])
      BY DEF Rewrites, Redoable, Outage
    <2>. QED
      BY <1>2, <1>8, <2>1 DEF Mcp!ToolPlan, Mcp!ListTool, Mcp!Sparing
  <1>9. CASE op = "addToList"
    <2>1. Rewrites([do |-> "AddToListBySlug", in |-> in, spared |-> {}])
      BY <1>4 DEF Redoable
    <2>. QED
      BY <1>3, <1>9, <2>1 DEF Mcp!ToolPlan, Mcp!AddTool, Mcp!Try, Mcp!Sparing, Readers
  <1>10. CASE op = "resetState"
    <2>1. Rewrites([do |-> "ResetState", in |-> in, spared |-> {}])
      BY <1>4 DEF Redoable
    <2>. QED
      BY <1>1, <1>2, <1>10, <2>1 DEF Mcp!ToolPlan, Mcp!ResetTool
  <1>11. CASE op = "removeFromList"
    <2>1. Rewrites([do |-> "RemoveFromList", in |-> in, spared |-> {}])
      BY <1>4 DEF Redoable
    <2>. QED
      BY <1>2, <1>11, <2>1 DEF Mcp!ToolPlan, Mcp!RemoveTool
  <1>12. CASE op = "manageCrawlTarget"
    <2>1. ASSUME NEW b \in BOOLEAN
          PROVE  Rewrites([do |-> "SetCrawlTargetEnabled", in |-> [id |-> in.id, enabled |-> b], spared |-> {}])
      BY <1>4 DEF Redoable
    <2>2. ASSUME NEW do \in {"MakeCrawlTargetRecurring", "DeleteCrawlTarget"}
          PROVE  Rewrites([do |-> do, in |-> in, spared |-> {}])
      BY <1>4 DEF Redoable
    <2>. QED
      BY <1>1, <1>2, <1>12, <2>1, <2>2 DEF Mcp!ToolPlan, Mcp!ManageCrawlTarget
  <1>13. op \in {"markShown", "setProfile", "requestCrawl", "createList", "addToList", "resetState",
                 "removeFromList", "manageCrawlTarget"}
    BY DEF Repeats, Mcp!Idempotent, Mcp!Additive, Mcp!Destructive
  <1>. QED
    BY <1>5, <1>6, <1>7, <1>8, <1>9, <1>10, <1>11, <1>12, <1>13

\* Undisturbed, such a tool leaves what its one call leaves.
LEMMA EffectIsTheWrite ==
    ASSUME NEW plan, OneWrite(plan), NEW d
    PROVE  Effect(plan, d).db = IF plan.calls = <<>> THEN d ELSE Perform(plan.calls[1], d).db
  <1>1. \A c : AfterCall(Done(d), c).db = Perform(c, d).db
    BY DEF AfterCall, Done
  <1>2. CASE plan = None(plan.err)
    <2>1. Effect(None(plan.err), d) = [db |-> d, err |-> plan.err, shows |-> {}]
      BY EffectOfNone
    <2>2. Effect(plan, d).db = d
      BY <1>2, <2>1
    <2>3. plan.calls = <<>>
      BY <1>2 DEF None
    <2>. QED
      BY <2>2, <2>3
  <1>3. CASE plan = [err |-> "ok", calls |-> <<plan.calls[1]>>]
    <2>1. plan.calls # <<>>
      BY <1>3
    <2>. QED
      BY <1>1, <1>3, <2>1, EffectOfOne
  <1>4. CASE plan = [err |-> "ok", calls |-> <<plan.calls[1], plan.calls[2]>>] /\ plan.calls[2].do \in Readers
    <2>1. plan.calls # <<>>
      BY <1>4
    <2>2. Effect(plan, d) = AfterCall(AfterCall(Done(d), plan.calls[1]), plan.calls[2])
      BY <1>4, EffectOfTwo
    <2>. QED
      BY <1>1, <1>4, <2>1, <2>2, LastLook
  <1>. QED
    BY <1>2, <1>3, <1>4 DEF OneWrite

\* What a repeatable request is to leave in the end.
Left(r) == Effect(Mcp!ToolPlan(r.op, r.in), r.base).db

\* The tables are as the first of a row of identical requests found them, or as it
\* leaves them: between requests, ...
LastInv ==
    request = NoRequest /\ last # NoRequest =>
        last.op \in Repeats /\ Tables(last.base) /\ db \in {last.base, Left(last)}

\* ... and while one is served: its write is still to come, or done, or failed.
RepeatInv ==
    request # NoRequest /\ Repeatable(request) =>
        /\ Tables(request.base) /\ db \in {request.base, Left(request)}
        /\ \/ /\ request.err = Mcp!ToolPlan(request.op, request.in).err
              /\ request.calls = Mcp!ToolPlan(request.op, request.in).calls
           \/ /\ \A i \in DOMAIN request.calls : request.calls[i].do \in Readers
              /\ db = Left(request) \/ request.err = Outage

RetryInv == Tables(db) /\ LastInv /\ RepeatInv

\* A call made by the request under way.
LEMMA CallKeepsRepeat ==
    ASSUME FrontInv, Tables(db), RepeatInv, Serving, NEW l, NEW f, NEW e,
           request' = [request EXCEPT !.calls = Tail(@), !.landed = l, !.failed = f, !.err = e],
           \/ db' = Perform(Head(request.calls), db).db
           \/ /\ db' \in {db, Perform(Head(request.calls), db).db}
              /\ Outage \notin Head(request.calls).spared => e = Outage
    PROVE  RepeatInv' /\ request' # NoRequest
  <1>. DEFINE c == Head(request.calls)
              plan == Mcp!ToolPlan(request.op, request.in)
  <1>1. /\ request # NoRequest /\ Shaped(request) /\ request.calls # <<>> /\ request.err = "ok"
        /\ IsSeq(request.calls)
    BY DEF FrontInv, RequestInv, Serving
  <1>2. /\ request'.via = request.via /\ request'.op = request.op /\ request'.in = request.in
        /\ request'.base = request.base /\ request'.calls = Tail(request.calls) /\ request'.err = e
        /\ Shaped(request')
    BY <1>1 DEF Shaped
  <1>3. request' # NoRequest
    BY <1>2 DEF Shaped, NoRequest
  <1>4. /\ c = request.calls[1] /\ 1 \in DOMAIN request.calls
        /\ \A i \in DOMAIN Tail(request.calls) : i + 1 \in DOMAIN request.calls
                                                 /\ Tail(request.calls)[i] = request.calls[i + 1]
    BY <1>1, TailSeq
  <1>5. ASSUME Repeatable(request)
        PROVE  /\ Tables(request.base) /\ db' \in {request.base, Left(request)}
               /\ \A i \in DOMAIN Tail(request.calls) : Tail(request.calls)[i].do \in Readers
               /\ db' = Left(request) \/ e = Outage
    <2>1. request.op \in Repeats /\ OneWrite(plan)
      BY <1>5, RepeatedPlans DEF Repeatable, Repeats
    <2>2. CASE \A i \in DOMAIN request.calls : request.calls[i].do \in Readers
      <3>1. Perform(c, db).db = db
        BY <1>4, <2>2, ReadersKeep
      <3>2. request.calls = plan.calls => FALSE
        <4>1. request.calls = plan.calls => c.do \in Redoable
          BY <1>1, <1>4, <2>1 DEF OneWrite, None, Rewrites
        <4>. QED
          BY <1>4, <2>2, <4>1 DEF Redoable, Readers
      <3>3. db = Left(request)
        BY <1>1, <1>5, <3>2 DEF RepeatInv, Outage
      <3>. QED
        BY <1>4, <1>5, <2>2, <3>1, <3>3, <1>1 DEF RepeatInv
    <2>3. CASE request.calls = plan.calls
      <3>1. /\ Left(request) = Perform(c, request.base).db
            /\ Rewrites(c)
        BY <1>1, <1>4, <2>1, <2>3, EffectIsTheWrite DEF OneWrite, None, Left
      <3>2. \A i \in DOMAIN Tail(request.calls) : Tail(request.calls)[i].do \in Readers
        <4>1. CASE plan = [err |-> "ok", calls |-> <<plan.calls[1]>>]
          <5>1. DOMAIN request.calls = {1}
            BY <2>3, <4>1
          <5>. QED
            BY <1>1, <1>4, <5>1, TailSeq
        <4>2. CASE plan = [err |-> "ok", calls |-> <<plan.calls[1], plan.calls[2]>>] /\ plan.calls[2].do \in Readers
          <5>1. DOMAIN request.calls = {1, 2} /\ request.calls[2].do \in Readers
            BY <2>3, <4>2
          <5>. QED
            BY <1>1, <1>4, <5>1, TailSeq
        <4>. QED
          BY <1>1, <2>1, <2>3, <4>1, <4>2 DEF OneWrite, None
      <3>3. Tables(request.base) /\ db \in {request.base, Left(request)}
        BY <1>1, <1>5 DEF RepeatInv
      <3>4. Perform(c, db).db = Left(request)
        <4>1. Perform(c, Perform(c, request.base).db).db = Perform(c, request.base).db
          BY <3>1, <3>3, Redone DEF Rewrites
        <4>. QED
          BY <3>1, <3>3, <4>1
      <3>5. Outage \notin c.spared
        BY <3>1 DEF Rewrites
      <3>. QED
        BY <3>2, <3>3, <3>4, <3>5
    <2>. QED
      BY <1>1, <1>5, <2>2, <2>3 DEF RepeatInv
  <1>6. Repeatable(request') = Repeatable(request) /\ Left(request') = Left(request)
    BY <1>2 DEF Repeatable, Left
  <1>. QED
    BY <1>2, <1>3, <1>5, <1>6 DEF RepeatInv

LEMMA NextRetry == FrontInv /\ RetryInv /\ [Next]_vars => RetryInv'
  <1>. SUFFICES ASSUME FrontInv, RetryInv, [Next]_vars PROVE RetryInv'
    OBVIOUS
  <1>1. Tables(db)'
    BY NextTables DEF RetryInv
  <1>2. ASSUME NEW r \in Requests, Ask(r) PROVE RetryInv'
    <2>. DEFINE plan == PlanOf(r)
                b == IF last # NoRequest /\ last.op = r.op /\ last.in = r.in THEN last.base ELSE db
    <2>1. /\ request = NoRequest /\ db' = db /\ last' = last
          /\ request' = Opened(r, token)
      BY <1>2 DEF Ask
    <2>2. /\ request'.via = r.via /\ request'.op = r.op /\ request'.in = r.in /\ request'.err = plan.err
          /\ request'.calls = plan.calls /\ request'.base = b
          /\ request' # NoRequest
      BY <2>1 DEF Opened, Authorized, NoRequest
    <2>3. Repeatable(request') => r.via = "mcp" /\ r.op \in Repeats /\ plan = Mcp!ToolPlan(r.op, r.in)
      BY <2>2 DEF Repeatable, Repeats, PlanOf
    <2>4. CASE last # NoRequest /\ last.op = r.op /\ last.in = r.in
      <3>1. /\ b = last.base /\ Tables(last.base) /\ db \in {last.base, Left(last)}
        BY <2>1, <2>4 DEF RetryInv, LastInv
      <3>2. Left(request') = Left(last)
        BY <2>2, <2>4, <3>1 DEF Left
      <3>. QED
        BY <1>1, <2>1, <2>2, <2>3, <3>1, <3>2 DEF RetryInv, LastInv, RepeatInv
    <2>5. CASE ~(last # NoRequest /\ last.op = r.op /\ last.in = r.in)
      <3>1. b = db /\ Tables(db)
        BY <2>5 DEF RetryInv
      <3>. QED
        BY <1>1, <2>1, <2>2, <2>3, <3>1 DEF RetryInv, LastInv, RepeatInv
    <2>. QED
      BY <2>4, <2>5
  <1>3. CASE Work \/ CallFails
    <2>1. Serving /\ UNCHANGED last
      BY <1>3 DEF Work, CallFails
    <2>2. Shaped(request)
      BY <2>1 DEF Serving, FrontInv, RequestInv
    <2>3. /\ \E l, f, e :
               /\ request' = [request EXCEPT !.calls = Tail(@), !.landed = l, !.failed = f, !.err = e]
               /\ \/ db' = Perform(Head(request.calls), db).db
                  \/ /\ db' \in {db, Perform(Head(request.calls), db).db}
                     /\ Outage \notin Head(request.calls).spared => e = Outage
      <3>1. CASE Work
        <4>1. \E l, e : request' = [request EXCEPT !.calls = Tail(@), !.landed = l, !.err = e]
          BY <3>1, Zenon DEF Work
        <4>2. PICK l, e : request' = [request EXCEPT !.calls = Tail(@), !.landed = l, !.err = e]
          BY <4>1
        <4>3. request' = [request EXCEPT !.calls = Tail(@), !.landed = l, !.failed = request.failed, !.err = e]
          BY <2>2, <4>2 DEF Shaped
        <4>4. db' = Perform(Head(request.calls), db).db
          BY <3>1 DEF Work
        <4>. QED
          BY <4>3, <4>4, Zenon
      <3>2. CASE CallFails
        <4>. DEFINE e == IF Outage \in Head(request.calls).spared THEN "ok" ELSE Outage
        <4>1. request' = [request EXCEPT !.calls = Tail(@), !.failed = TRUE, !.err = e]
          BY <3>2, Zenon DEF CallFails
        <4>. HIDE DEF e
        <4>2. request' = [request EXCEPT !.calls = Tail(@), !.landed = request.landed, !.failed = TRUE, !.err = e]
          BY <2>2, <4>1 DEF Shaped
        <4>3. db' \in {db, Perform(Head(request.calls), db).db}
          BY <3>2, Zenon DEF CallFails
        <4>4. Outage \notin Head(request.calls).spared => e = Outage
          BY DEF e
        <4>. QED
          BY <4>2, <4>3, <4>4, Zenon
      <3>. QED
        BY <1>3, <3>1, <3>2
    <2>4. PICK l, f, e :
               /\ request' = [request EXCEPT !.calls = Tail(@), !.landed = l, !.failed = f, !.err = e]
               /\ \/ db' = Perform(Head(request.calls), db).db
                  \/ /\ db' \in {db, Perform(Head(request.calls), db).db}
                     /\ Outage \notin Head(request.calls).spared => e = Outage
      BY <2>3
    <2>5. RepeatInv' /\ request' # NoRequest
      BY <2>1, <2>4, CallKeepsRepeat DEF RetryInv
    <2>. QED
      BY <1>1, <2>5 DEF RetryInv, LastInv
  <1>4. CASE Close /\ UNCHANGED db /\ request # NoRequest
    <2>1. last' # NoRequest => Repeatable(request) /\ last'.op = request.op /\ last'.in = request.in
                               /\ last'.base = request.base
      BY <1>4 DEF Close
    <2>2. last' # NoRequest => Left(last') = Left(request) /\ last'.op \in Repeats
      BY <2>1 DEF Left, Repeatable, Repeats
    <2>. QED
      BY <1>1, <1>4, <2>1, <2>2 DEF RetryInv, LastInv, RepeatInv, Close
  <1>5. CASE PageAsks
    <2>1. /\ request' # NoRequest /\ request'.via = "rest"
      BY <1>5 DEF PageAsks, Opened, NoRequest
    <2>. QED
      BY <1>1, <2>1 DEF RetryInv, LastInv, RepeatInv, Repeatable
  <1>6. CASE CrawlerMoves
    BY <1>1, <1>6 DEF CrawlerMoves, RetryInv, LastInv, RepeatInv
  <1>7. CASE UNCHANGED <<db, request, last>>
    BY <1>7 DEF RetryInv, LastInv, RepeatInv, Repeatable, Left
  <1>8. /\ Reply \/ AnswerLost \/ PageAnswered \/ PageUnanswered => Close /\ UNCHANGED db /\ request # NoRequest
        /\ (\E v \in PageVisits : Visit(v)) \/ PageEnds \/ Logout \/ LoginStep \/ RotateToken \/ UNCHANGED vars
              => UNCHANGED <<db, request, last>>
    BY DEF Reply, AnswerLost, PageAnswered, PageUnanswered, Served, Visit, PageEnds, Logout, LoginStep,
           WindowPasses, DoLogin, ProbeAnswered, ProbeFails, RotateToken, vars
  <1>. QED
    BY <1>2, <1>3, <1>4, <1>5, <1>6, <1>7, <1>8 DEF Next, AgentStep, ServerStep, PageStep

\* An idempotent tool that is sent again, after an answer that was lost, a fault or for
\* no reason, ends with the tables that one undisturbed call leaves (guard.go:25).
THEOREM RetriesAreSafe == Spec => []SafeRetry
  <1>1. Init => RetryInv
    BY EmptyTables DEF Init, RetryInv, LastInv, RepeatInv
  <1>2. FrontInv /\ RetryInv => SafeRetry
    <2>. SUFFICES ASSUME FrontInv, RetryInv, Served, Repeatable(request), ~IsFailure
                  PROVE  db = Left(request)
      BY DEF SafeRetry, PlanOf, Left, Repeatable
    <2>. DEFINE plan == Mcp!ToolPlan(request.op, request.in)
    <2>1. request # NoRequest /\ request.via = "mcp" /\ request.op \in Repeats /\ OneWrite(plan)
      BY RepeatedPlans DEF Served, Repeatable, Repeats
    <2>2. request.err \notin {Outage, Unstorable}
      BY <2>1 DEF IsFailure, Answer, Mcp!Guard, Mcp!IsInfrastructureError, Mcp!Outage,
                    Mcp!Unstorable, Outage, Unstorable
    <2>3. CASE request.err = plan.err /\ request.calls = plan.calls
      <3>1. plan.calls = <<>>
        BY <2>1, <2>3 DEF Served, OneWrite, None
      <3>2. Left(request) = request.base
        BY <2>1, <3>1, EffectIsTheWrite DEF Left
      <3>. QED
        BY <2>1, <3>2 DEF RetryInv, RepeatInv
    <2>. QED
      BY <2>1, <2>2, <2>3 DEF RetryInv, RepeatInv
  <1>. QED
    BY AlwaysFront, NextRetry, <1>1, <1>2, PTL DEF Spec
---------------------------------------------------------------------------
(* Tools and routes that do the same.                                       *)

\* What two ways of asking have in common: the tables they leave, and success.
Alike(p, q, d) ==
    /\ Effect(p, d).db = Effect(q, d).db
    /\ (Effect(p, d).err = "ok") = (Effect(q, d).err = "ok")

\* Requests whose first n calls are the same are the same by then: there is no least
\* number of calls after which they are not.
LEMMA SameSoFar ==
    ASSUME NEW s, Len(s) \in Nat, NEW t, Len(t) \in Nat, NEW start, NEW n \in Nat,
           n <= Len(s), n <= Len(t), \A i \in 1 .. n : s[i] = t[i]
    PROVE  AfterCalls(s, start)[n] = AfterCalls(t, start)[n]
  <1>. DEFINE f == AfterCalls(s, start)
              g == AfterCalls(t, start)
              Different == {i \in 0 .. n : f[i] # g[i]}
              R == {p \in Nat \X Nat : p[1] < p[2]}
  <1>1. ASSUME Different # {} PROVE FALSE
    <2>1. \E m \in Different : \A i \in Different : <<i, m>> \notin R
      <3>1. Different \in SUBSET Nat
        OBVIOUS
      <3>. HIDE DEF Different, R
      <3>2. IsWellFoundedOn(R, Nat)
        BY NatLessThanWellFounded DEF R, OpToRel
      <3>. QED
        BY <1>1, <3>1, <3>2, WFMin, Zenon
    <2>2. PICK m \in Different : \A i \in Different : <<i, m>> \notin R
      BY <2>1
    <2>3. m # 0
      BY <2>2, CallByCall
    <2>4. m \in Nat /\ m - 1 \in Nat /\ m \in 1 .. n /\ m - 1 \in 0 .. n
      BY <2>3
    <2>5. <<m - 1, m>> \in R
      BY <2>4
    <2>6. f[m - 1] = g[m - 1]
      BY <2>2, <2>4, <2>5
    <2>7. f[m] = AfterCall(f[m - 1], s[m]) /\ g[m] = AfterCall(g[m - 1], t[m]) /\ s[m] = t[m]
      <3>1. m \in 1 .. Len(s) /\ m \in 1 .. Len(t)
        BY <2>4
      <3>. QED
        BY <2>4, <3>1, CallByCall
    <2>. QED
      BY <2>2, <2>6, <2>7
  <1>2. n \notin Different
    BY <1>1
  <1>. HIDE DEF f, g
  <1>3. f[n] = g[n]
    BY <1>2
  <1>. QED
    BY <1>3 DEF f, g

\* One more call that looks, and whose errors the handler carries on after, makes no
\* difference.
LEMMA LookMakesNoDifference ==
    ASSUME NEW s, IsSeq(s), NEW x, x.do \in Readers, Sentinels \cup {Unstorable} \subseteq x.spared, NEW d
    PROVE  Alike([err |-> "ok", calls |-> s \o <<x>>], [err |-> "ok", calls |-> s], d)
  <1>. DEFINE t == s \o <<x>>
              n == Len(s)
              start == [Done(d) EXCEPT !.err = "ok"]
              f == AfterCalls(t, start)
  <1>1. /\ n \in Nat /\ Len(t) = n + 1 /\ t[n + 1] = x
        /\ \A i \in 1 .. n : s[i] = t[i]
    <2>. DEFINE S == Range(s) \cup {x}
    <2>1. s \in Seq(S) /\ <<x>> \in Seq(S) /\ Len(<<x>>) = 1 /\ <<x>>[1] = x
      BY SeqMonotonic DEF IsSeq
    <2>2. ASSUME NEW a \in Seq(S), NEW b \in Seq(S)
          PROVE  /\ Len(a) \in Nat /\ Len(a \o b) = Len(a) + Len(b)
                 /\ \A i \in 1 .. Len(a \o b) : (a \o b)[i] = IF i <= Len(a) THEN a[i] ELSE b[i - Len(a)]
      BY ConcatProperties, LenProperties
    <2>. HIDE DEF S
    <2>. QED
      BY <2>1, <2>2
  <1>. HIDE DEF t, n, start
  <1>2. f[n] = AfterCalls(s, start)[n]
    BY <1>1, SameSoFar DEF n
  <1>3. f[n + 1] = AfterCall(f[n], x)
    <2>1. n + 1 \in 1 .. Len(t) /\ (n + 1) - 1 = n
      BY <1>1
    <2>. QED
      BY <1>1, <2>1, CallByCall
  <1>4. \A acc : /\ AfterCall(acc, x).db = acc.db
                 /\ (AfterCall(acc, x).err = "ok") = (acc.err = "ok")
    <2>1. ASSUME NEW acc
          PROVE  (AfterCall(acc, x).err = "ok") = (acc.err = "ok")
      <3>1. Perform(x, acc.db).err \in {"ok", Unstorable} \cup Sentinels
        BY PerformAnswers DEF Known, Calls
      <3>. QED
        BY <3>1 DEF AfterCall, Done
    <2>. QED
      BY <2>1, LastLook
  <1>. HIDE DEF f
  <1>5. /\ Effect([err |-> "ok", calls |-> t], d) = f[n + 1]
        /\ Effect([err |-> "ok", calls |-> s], d) = AfterCalls(s, start)[n]
    BY <1>1 DEF Effect, f, n, start
  <1>. QED
    BY <1>2, <1>3, <1>4, <1>5 DEF Alike, t

LEMMA Joined ==
    ASSUME NEW c, NEW x
    PROVE  <<c>> \o <<x>> = <<c, x>>
  <1>. DEFINE S == {c, x}
              joined == <<c>> \o <<x>>
              pair == <<c, x>>
  <1>1. /\ <<c>> \in Seq(S) /\ <<x>> \in Seq(S) /\ Len(<<c>>) = 1 /\ Len(<<x>>) = 1
        /\ <<c>>[1] = c /\ <<x>>[1] = x
    OBVIOUS
  <1>2. pair \in Seq(S) /\ Len(pair) = 2 /\ pair[1] = c /\ pair[2] = x
    OBVIOUS
  <1>3. /\ joined \in Seq(S) /\ Len(joined) = 2
        /\ \A i \in 1 .. Len(joined) : joined[i] = IF i <= 1 THEN <<c>>[i] ELSE <<x>>[i - 1]
    BY <1>1, ConcatProperties
  <1>. HIDE DEF S, joined, pair
  <1>4. \A i \in 1 .. Len(joined) : joined[i] = pair[i]
    <2>. SUFFICES ASSUME NEW i \in 1 .. Len(joined) PROVE joined[i] = pair[i]
      OBVIOUS
    <2>1. i = 1 \/ i = 2
      BY <1>3
    <2>. QED
      BY <1>1, <1>2, <1>3, <2>1
  <1>5. joined = pair
    BY <1>2, <1>3, <1>4, SeqEqual
  <1>. QED
    BY <1>5 DEF joined, pair

LEMMA SameIsAlike ==
    ASSUME NEW p, NEW q, p = q, NEW d
    PROVE  Alike(p, q, d)
  BY DEF Alike

LEMMA OneCallAlike ==
    ASSUME NEW c, NEW b, NEW d, Perform(c, d) = Perform(b, d), c.spared = b.spared
    PROVE  Alike([err |-> "ok", calls |-> <<c>>], [err |-> "ok", calls |-> <<b>>], d)
  <1>1. AfterCall(Done(d), c) = AfterCall(Done(d), b)
    BY DEF AfterCall, Done
  <1>2. /\ Effect([err |-> "ok", calls |-> <<c>>], d) = AfterCall(Done(d), c)
        /\ Effect([err |-> "ok", calls |-> <<b>>], d) = AfterCall(Done(d), b)
    BY EffectOfOne
  <1>. QED
    BY <1>1, <1>2, Zenon DEF Alike

\* What the service would refuse may be refused before it is asked.
LEMMA RefusedBefore ==
    ASSUME NEW c, NEW d, NEW sentinel, sentinel # "ok", Perform(c, d) = Refused(d, sentinel), c.spared = {}
    PROVE  Alike([err |-> "ok", calls |-> <<c>>], None("invalid"), d)
  <1>1. AfterCall(Done(d), c) = Refused(d, sentinel)
    BY DEF AfterCall, Done
  <1>2. /\ Effect([err |-> "ok", calls |-> <<c>>], d) = AfterCall(Done(d), c)
        /\ Effect(None("invalid"), d) = [db |-> d, err |-> "invalid", shows |-> {}]
    BY EffectOfOne, EffectOfNone
  <1>3. /\ Effect([err |-> "ok", calls |-> <<c>>], d).db = d
        /\ Effect([err |-> "ok", calls |-> <<c>>], d).err = sentinel
        /\ Effect(None("invalid"), d).db = d /\ Effect(None("invalid"), d).err = "invalid"
    BY <1>1, <1>2 DEF Refused
  <1>. QED
    BY <1>3 DEF Alike

\* A tool that puts its route's call first and looks once more.
LEMMA LookAfter ==
    ASSUME NEW c, NEW b, NEW x, NEW d, x.do \in Readers, Sentinels \cup {Unstorable} \subseteq x.spared,
           Alike([err |-> "ok", calls |-> <<c>>], [err |-> "ok", calls |-> <<b>>], d)
    PROVE  Alike([err |-> "ok", calls |-> <<c, x>>], [err |-> "ok", calls |-> <<b>>], d)
  <1>1. Alike([err |-> "ok", calls |-> <<c>> \o <<x>>], [err |-> "ok", calls |-> <<c>>], d)
    BY SingletonSeq, LookMakesNoDifference
  <1>2. <<c>> \o <<x>> = <<c, x>>
    BY Joined
  <1>3. Alike([err |-> "ok", calls |-> <<c, x>>], [err |-> "ok", calls |-> <<c>>], d)
    BY <1>1, <1>2, Zenon
  <1>. QED
    BY <1>3 DEF Alike

\* Asking for the list first does not change what becomes of it, whatever the request
\* is refused for.
LEMMA BySlugOrNot ==
    ASSUME NEW in, NEW d
    PROVE  Alike([err |-> "ok", calls |-> <<[do |-> "AddToListBySlug", in |-> in, spared |-> {}]>>],
                 [err |-> "ok", calls |-> <<[do |-> "AddToList", in |-> in, spared |-> {}]>>], d)
  <1>. DEFINE c == [do |-> "AddToListBySlug", in |-> in, spared |-> {}]
              b == [do |-> "AddToList", in |-> in, spared |-> {}]
  <1>1. /\ Perform(c, d) = AddToListBySlug(d, in) /\ Perform(b, d) = AddToList(d, in)
        /\ c.spared = {} /\ b.spared = {}
    BY DEF Perform
  <1>2. /\ AddToListBySlug(d, in).db = AddToList(d, in).db
        /\ (AddToListBySlug(d, in).err = "ok") = (AddToList(d, in).err = "ok")
    BY DEF AddToListBySlug, AddToList, Checked, Found, Stored, Refused, Done, Unstorable
  <1>. HIDE DEF c, b
  <1>3. /\ Effect([err |-> "ok", calls |-> <<c>>], d) = AfterCall(Done(d), c)
        /\ Effect([err |-> "ok", calls |-> <<b>>], d) = AfterCall(Done(d), b)
    BY EffectOfOne
  <1>4. AfterCall(Done(d), c) = Perform(c, d) /\ AfterCall(Done(d), b) = Perform(b, d)
    BY <1>1 DEF AfterCall, Done
  <1>5. Alike([err |-> "ok", calls |-> <<c>>], [err |-> "ok", calls |-> <<b>>], d)
    BY <1>1, <1>2, <1>3, <1>4 DEF Alike
  <1>. QED
    BY <1>5 DEF c, b

\* How a profile's enum values are spelled is no matter once they are parsed.
LEMMA ProfileRoute ==
    ASSUME NEW r, r.via = "mcp", r.op = "setProfile", NEW d
    PROVE  /\ Alike(PlanOf(Exact(r)), PlanOf(Twin(r)), d)
           /\ Loose(r) => PlanOf(r) = None("invalid")
  <1>. DEFINE in == r.in
              exact == [form |-> "ok", value |-> in.value, set |-> in.set, clear |-> in.clear]
              Saves(i) == [do |-> "SetProfile", in |-> i, spared |-> {}]
              Names(i) == [do |-> "UnmatchedNeighborhoods", in |-> i, spared |-> {}]
              Save(i) == [err |-> "ok", calls |-> <<Saves(i), Names(i)>>]
  <1>. USE DEF Mcp!Plan, Mcp!Must, Mcp!Parsed, Mcp!Reject, Mcp!RejectAs, Rest!Plan, Rest!Must, Rest!Reject,
               Rest!RejectAs, None
  <1>1. PlanOf(r) = IF in.form = "ok" THEN Save(in) ELSE None("invalid")
    BY DEF PlanOf, Mcp!ToolPlan, Mcp!ProfileTool
  <1>2. PlanOf(Twin(r)) = IF in.form \in {"ok", "folded", "blank"} THEN Save(in) ELSE None("invalid")
    BY DEF PlanOf, Twin, Rest!RoutePlan, Rest!PatchProfile
  <1>3. CASE Loose(r)
    <2>1. PlanOf(Exact(r)) = Save(exact)
      BY <1>3 DEF Exact, PlanOf, Mcp!ToolPlan, Mcp!ProfileTool
    <2>2. /\ Perform(Saves(exact), d) = Perform(Saves(in), d)
          /\ \A e : Perform(Names(exact), e) = Perform(Names(in), e)
      BY DEF Perform, SetProfile, UnmatchedNeighborhoods
    <2>3. \A i, acc : /\ AfterCall(acc, Saves(i)) = IF acc.err # "ok" THEN acc ELSE Perform(Saves(i), acc.db)
                      /\ AfterCall(acc, Names(i)) = IF acc.err # "ok" THEN acc ELSE Perform(Names(i), acc.db)
      BY DEF AfterCall
    <2>. HIDE DEF Saves, Names, exact
    <2>4. \A i : Effect(Save(i), d) = AfterCall(AfterCall(Done(d), Saves(i)), Names(i))
      BY EffectOfTwo
    <2>5. AfterCall(Done(d), Saves(exact)) = AfterCall(Done(d), Saves(in))
      BY <2>2, <2>3 DEF Done
    <2>6. Effect(Save(exact), d) = Effect(Save(in), d)
      BY <2>2, <2>3, <2>4, <2>5
    <2>7. in.form # "ok" /\ PlanOf(Twin(r)) = Save(in)
      BY <1>2, <1>3 DEF Loose
    <2>. HIDE DEF Save
    <2>. QED
      BY <1>1, <2>1, <2>6, <2>7 DEF Alike
  <1>4. CASE ~Loose(r)
    <2>1. PlanOf(Exact(r)) = PlanOf(Twin(r))
      BY <1>1, <1>2, <1>4 DEF Exact, Loose
    <2>. QED
      BY <1>4, <2>1, SameIsAlike
  <1>. QED
    BY <1>3, <1>4

\* The plans of a tool that writes and of its route.
LEMMA ToolAndRoute ==
    ASSUME NEW r, r.via = "mcp", r.op \in Mcp!Tools \ (Mcp!ReadOnly \cup {"setProfile"}),
           r.op = "recordVerdicts" => IsSeq(r.in.batch), NEW d
    PROVE  Alike(PlanOf(r), PlanOf(Twin(r)), d)
  <1>. DEFINE in == r.in
              tool == Mcp!ToolPlan(r.op, in)
              route == Rest!RoutePlan(r.op, in)
  <1>. USE DEF Mcp!Plan, Mcp!Must, Mcp!Sparing, Mcp!Parsed, Mcp!Reject, Mcp!RejectAs,
               Rest!Plan, Rest!Must, Rest!Sparing, Rest!Parsed, Rest!Reject, Rest!RejectAs
  <1>1. PlanOf(r) = tool
    BY DEF PlanOf
  <1>2. r.op # "manageCrawlTarget" => PlanOf(Twin(r)) = route
    BY DEF PlanOf, Twin
  <1>3. CASE r.op \in {"resetState", "markShown", "createList", "removeFromList"}
    <2>1. tool = route
      BY <1>3 DEF Mcp!ToolPlan, Mcp!ResetTool, Mcp!ShowTool, Mcp!ListTool, Mcp!RemoveTool,
                  Rest!RoutePlan, Rest!Reset, Rest!PostShown, Rest!PostList, Rest!RemoveItem
    <2>. QED
      BY <1>1, <1>2, <1>3, <2>1 DEF Alike
  <1>4. CASE r.op \in {"recordVerdict", "addToList"}
    <2>. DEFINE Writes(do) == [do |-> do, in |-> in, spared |-> {}]
                Looks(do, i) == [do |-> do, in |-> i, spared |-> AnyError]
    <2>1. \A do \in Readers : \A i :
             Looks(do, i).do \in Readers /\ Sentinels \cup {Unstorable} \subseteq Looks(do, i).spared
      BY DEF AnyError
    <2>2. CASE r.op = "recordVerdict"
      <3>1. \/ tool = route
            \/ /\ tool = [err |-> "ok", calls |-> <<Writes("RecordVerdict"), Looks("PhotosForListings", [ids |-> {in.id}])>>]
               /\ route = [err |-> "ok", calls |-> <<Writes("RecordVerdict")>>]
        BY <2>2, SameErrors DEF Mcp!ToolPlan, Mcp!VerdictTool, Mcp!AnyHavePhotos, Mcp!Try, Rest!RoutePlan,
                                Rest!PostVerdict
      <3>2. "PhotosForListings" \in Readers
        BY DEF Readers
      <3>. HIDE DEF Writes, Looks, tool, route
      <3>3. Alike(tool, route, d)
        BY <2>1, <3>1, <3>2, SameIsAlike, LookAfter
      <3>. QED
        BY <1>1, <1>2, <2>2, <3>3
    <2>3. CASE r.op = "addToList"
      <3>1. /\ tool = [err |-> "ok", calls |-> <<Writes("AddToListBySlug"), Looks("ListBySlug", in)>>]
            /\ route = [err |-> "ok", calls |-> <<Writes("AddToList")>>]
        BY <2>3, SameErrors DEF Mcp!ToolPlan, Mcp!AddTool, Mcp!Try, Rest!RoutePlan, Rest!PostItem
      <3>2. "ListBySlug" \in Readers
        BY DEF Readers
      <3>3. Alike([err |-> "ok", calls |-> <<Writes("AddToListBySlug")>>],
                  [err |-> "ok", calls |-> <<Writes("AddToList")>>], d)
        BY BySlugOrNot
      <3>. HIDE DEF Writes, Looks, tool, route
      <3>4. Alike(tool, route, d)
        BY <2>1, <3>1, <3>2, <3>3, LookAfter
      <3>. QED
        BY <1>1, <1>2, <2>3, <3>4
    <2>. QED
      BY <1>4, <2>2, <2>3
  <1>5. CASE r.op = "recordVerdicts"
    <2>. DEFINE first == [do |-> "CheckBatch", in |-> in, spared |-> {}]
                items == [i \in DOMAIN in.batch |-> [do |-> "BatchItem", in |-> in.batch[i], spared |-> {}]]
                x == [do |-> "PhotosForListings",
                      in |-> [ids |-> {in.batch[i].id : i \in DOMAIN in.batch} \cap Listings],
                      spared |-> AnyError]
    <2>1. \/ tool = route
          \/ /\ tool = [err |-> "ok", calls |-> <<first>> \o items \o <<x>>]
             /\ route = [err |-> "ok", calls |-> <<first>> \o items]
      BY <1>5, SameErrors DEF Mcp!ToolPlan, Mcp!VerdictsTool, Mcp!AnyHavePhotos, Mcp!Try, Rest!RoutePlan,
                             Rest!PostVerdicts
    <2>2. x.do \in Readers /\ Sentinels \cup {Unstorable} \subseteq x.spared
      BY DEF Readers, AnyError
    <2>3. IsSeq(<<first>> \o items)
      <3>1. IsSeq(items)
        BY <1>5, MappedSeq
      <3>. HIDE DEF first, items
      <3>. QED
        BY <3>1, WithoutMore
    <2>. HIDE DEF first, items, x, tool, route
    <2>4. Alike([err |-> "ok", calls |-> <<first>> \o items \o <<x>>], [err |-> "ok", calls |-> <<first>> \o items], d)
      BY <2>2, <2>3, LookMakesNoDifference
    <2>5. Alike(tool, route, d)
      BY <2>1, <2>4, SameIsAlike, Zenon
    <2>. QED
      BY <1>1, <1>2, <1>5, <2>5
  <1>6. CASE r.op \in {"updateRubric", "requestCrawl"}
    <2>1. CASE tool = route
      BY <1>1, <1>2, <1>6, <2>1 DEF Alike
    <2>2. ASSUME tool # route
          PROVE  \E c : /\ tool = [err |-> "ok", calls |-> <<c>>] /\ route = None("invalid")
                        /\ c.spared = {} /\ Perform(c, d) = Refused(d, "invalid")
      <3>1. CASE r.op = "updateRubric"
        <4>. DEFINE c == [do |-> "UpdateRubric", in |-> in, spared |-> {}]
        <4>1. /\ tool = [err |-> "ok", calls |-> <<c>>] /\ route = None("invalid") /\ c.spared = {}
              /\ ~(in.content # "empty" /\ in.through # "negative")
          BY <2>2, <3>1 DEF Mcp!ToolPlan, Mcp!RubricTool, Rest!RoutePlan, Rest!PostRubric, None
        <4>2. Perform(c, d) = Refused(d, "invalid")
          BY <4>1 DEF Perform, UpdateRubric, Checked
        <4>. QED
          BY <4>1, <4>2, Zenon
      <3>2. CASE r.op = "requestCrawl"
        <4>. DEFINE c == [do |-> "RequestCrawl", in |-> in, spared |-> {}]
        <4>1. /\ tool = [err |-> "ok", calls |-> <<c>>] /\ route = None("invalid") /\ c.spared = {}
              /\ ~(in.scope \in Scopes /\ MoneyOK(in.price))
          BY <2>2, <3>2 DEF Mcp!ToolPlan, Mcp!CrawlTool, Rest!RoutePlan, Rest!PostCrawl, None, Rest!MoneyOK, MoneyOK
        <4>2. Perform(c, d) = Refused(d, "invalid")
          BY <4>1 DEF Perform, RequestCrawl, Checked
        <4>. QED
          BY <4>1, <4>2, Zenon
      <3>. QED
        BY <1>6, <3>1, <3>2
    <2>3. ASSUME NEW c, tool = [err |-> "ok", calls |-> <<c>>], route = None("invalid"), c.spared = {},
                 Perform(c, d) = Refused(d, "invalid")
          PROVE  Alike(tool, route, d)
      BY <2>3, RefusedBefore
    <2>. HIDE DEF tool, route
    <2>. QED
      BY <1>1, <1>2, <1>6, <2>1, <2>2, <2>3
  <1>7. CASE r.op = "manageCrawlTarget"
    <2>1. CASE in.action = "pause"
      BY <1>1, <1>7, <2>1 DEF Alike, PlanOf, Twin, Mcp!ToolPlan, Mcp!ManageCrawlTarget, Rest!RoutePlan, Rest!UpdateCrawlTarget
    <2>2. CASE in.action = "resume"
      BY <1>1, <1>7, <2>2 DEF Alike, PlanOf, Twin, Mcp!ToolPlan, Mcp!ManageCrawlTarget, Rest!RoutePlan, Rest!UpdateCrawlTarget
    <2>3. CASE in.action \notin {"pause", "resume", "make_recurring", "delete"}
      BY <1>1, <1>7, <2>3 DEF Alike, PlanOf, Twin, Mcp!ToolPlan, Mcp!ManageCrawlTarget, Rest!RoutePlan, Rest!UpdateCrawlTarget
    <2>4. CASE in.action \in {"make_recurring", "delete"}
      <3>1. ASSUME NEW i, NEW j, i.id = j.id, NEW do \in {"MakeCrawlTargetRecurring", "DeleteCrawlTarget"}
            PROVE  Alike([err |-> "ok", calls |-> <<[do |-> do, in |-> i, spared |-> {}]>>],
                         [err |-> "ok", calls |-> <<[do |-> do, in |-> j, spared |-> {}]>>], d)
        <4>1. TargetNamed(d, i) = TargetNamed(d, j)
          BY <3>1 DEF TargetNamed
        <4>2. /\ MakeCrawlTargetRecurring(d, i) = MakeCrawlTargetRecurring(d, j)
              /\ DeleteCrawlTarget(d, i) = DeleteCrawlTarget(d, j)
          BY <4>1, Zenon DEF MakeCrawlTargetRecurring, DeleteCrawlTarget
        <4>3. Perform([do |-> do, in |-> i, spared |-> {}], d) = Perform([do |-> do, in |-> j, spared |-> {}], d)
          BY <3>1, <4>2 DEF Perform
        <4>. QED
          BY <4>3, OneCallAlike
      <3>. DEFINE other == Twin(r).in
                  do == IF in.action = "delete" THEN "DeleteCrawlTarget" ELSE "MakeCrawlTargetRecurring"
      <3>2. /\ other.id = in.id
            /\ tool = [err |-> "ok", calls |-> <<[do |-> do, in |-> in, spared |-> {}]>>]
            /\ PlanOf(Twin(r)) = [err |-> "ok", calls |-> <<[do |-> do, in |-> other, spared |-> {}]>>]
        BY <1>7, <2>4 DEF PlanOf, Twin, Mcp!ToolPlan, Mcp!ManageCrawlTarget, Rest!RoutePlan,
                          Rest!UpdateCrawlTarget, Rest!RemoveCrawlTarget
      <3>3. do \in {"MakeCrawlTargetRecurring", "DeleteCrawlTarget"}
        OBVIOUS
      <3>. HIDE DEF other, do, tool
      <3>. QED
        BY <1>1, <3>1, <3>2, <3>3
    <2>. QED
      BY <2>1, <2>2, <2>3, <2>4
  <1>. QED
    BY <1>3, <1>4, <1>5, <1>6, <1>7 DEF Mcp!Tools, Mcp!Additive, Mcp!Destructive

\* What an agent may do through one transport it may do through the other, whatever it
\* sends and whatever the tables hold: each tool that writes makes the calls of its route,
\* or looks once more, or leaves to the service what the route refuses itself.  A profile
\* whose values are spelled loosely is the exception: the route saves what the tool would
\* have saved of the exact spelling, and the tool refuses it.
THEOREM TransportsAreTwins == Spec => []TransportsAgree
  <1>1. TransportsAgree
    <2>. SUFFICES ASSUME NEW r \in Requests, r.via = "mcp", r.op \notin Mcp!ReadOnly
                  PROVE  /\ Alike(PlanOf(Exact(r)), PlanOf(Twin(r)), db)
                         /\ Loose(r) => Effect(PlanOf(r), db) = [Done(db) EXCEPT !.err = "invalid"]
      BY DEF TransportsAgree, Alike
    <2>1. r.op \in Mcp!Tools /\ (r.op = "recordVerdicts" => IsSeq(r.in.batch))
      BY RequestsAssumption DEF IsSeq
    <2>2. CASE r.op # "setProfile"
      <3>1. Exact(r) = r /\ ~Loose(r)
        BY <2>2 DEF Exact, Loose
      <3>. QED
        BY <2>1, <2>2, <3>1, ToolAndRoute
    <2>3. CASE r.op = "setProfile"
      <3>1. Effect(None("invalid"), db) = [Done(db) EXCEPT !.err = "invalid"]
        BY EffectOfNone DEF Done
      <3>. QED
        BY <2>3, <3>1, ProfileRoute
    <2>. QED
      BY <2>2, <2>3
  <1>. QED
    BY <1>1, PTL
=============================================================================
