------------------------- MODULE TasteMemoryProofs -------------------------
(* What overlapping sessions and crawls may not do to the taste memory.       *)
EXTENDS TasteMemory, SequenceTheorems, WellFoundedInduction, TLAPS

\* A non-empty set of numbers has a least one, and Min is it.
LEMMA MinOfNats ==
    ASSUME NEW S \in SUBSET Nat, S # {}
    PROVE  Min(S) \in S /\ \A x \in S : Min(S) <= x
<1> DEFINE R == {p \in Nat \X Nat : p[1] < p[2]}
<1>1. \E m \in S : \A y \in S : <<y, m>> \notin R
  <2> HIDE DEF R
  <2>1. IsWellFoundedOn(R, Nat)
    BY NatLessThanWellFounded DEF R, OpToRel
  <2> QED
    BY <2>1, WFMin, Zenon
<1>2. PICK m \in S : \A y \in S : <<y, m>> \notin R
  BY <1>1
<1>3. \A y \in S : m <= y
  <2> TAKE y \in S
  <2>1. <<y, m>> \notin R
    BY <1>2
  <2>2. y \in Nat /\ m \in Nat
    OBVIOUS
  <2>3. y < m => <<y, m>> \in R
    BY <2>2
  <2> QED
    BY <2>1, <2>2, <2>3
<1> QED
  BY <1>3 DEF Min

\* A non-empty set of numbers below n has a greatest one, and Max is it.
LEMMA MaxOfNats ==
    ASSUME NEW S \in SUBSET Nat, S # {}, NEW n \in Nat, \A x \in S : x < n
    PROVE  Max(S) \in S /\ \A x \in S : x <= Max(S)
<1> DEFINE T == {n - x : x \in S}
<1>1. T \in SUBSET Nat /\ T # {}
  <2>1. \A x \in S : x \in Nat /\ x < n
    OBVIOUS
  <2>2. \A x \in S : n - x \in Nat
    BY <2>1
  <2> QED
    BY <2>2
<1>2. Min(T) \in T /\ \A y \in T : Min(T) <= y
  BY <1>1, MinOfNats
<1>3. PICK m \in S : Min(T) = n - m
  BY <1>2
<1>4. \A x \in S : x <= m
  <2> TAKE x \in S
  <2>1. n - m <= n - x
    BY <1>2, <1>3
  <2> QED
    BY <2>1
<1> QED
  BY <1>4 DEF Max

---------------------------------------------------------------------------
(* The steps by the tables they are about, and what each leaves alone.        *)

ShownStep ==
    \/ \E c \in Crawlers : CrawlStep(c)
    \/ \E a \in Agents : \/ GetCandidates(a) \/ ReadCandidates(a)
                         \/ \E l \in Listings, asOf \in {{}, {view[a].at}} : MarkShown(a, l, asOf)

VerdictStep == \E a \in Agents : CommitVerdict(a) \/ \E l \in Listings : RecordVerdict(a, l)

BatchStep ==
    \E a \in Agents : \/ BatchItem(a) \/ BatchFails(a) \/ BatchEnds(a)
                      \/ \E batch \in Batch, via \in Transports, valid \in BOOLEAN :
                            RecordVerdicts(a, batch, via, valid)

RubricStep ==
    \E a \in Agents : GetState(a) \/ AppendRubric(a) \/ CheckVerdict(a) \/ InsertRubric(a) \/ CommitRubric(a)

ProfileStep ==
    \E a \in Agents : \/ SetProfile(a) \/ CommitProfile(a)
                      \/ \E f \in Fields, v \in 0 .. MaxWrites : UpdateProfile(a, f, v)

\* The two ways a deadlock between a reset and the deletion of a list is broken.
DeleteGivesUp(a) ==
    /\ call[a].op = "delete" /\ End(a)
    /\ UNCHANGED <<menu, clock, listing, flight, shown, feedVars, profileVars, listVars, view, resets, landed>>

ResetGivesUp(a) ==
    /\ call[a].op = "reset" /\ call[a].next <= Len(ResetOrder) /\ End(a)
    /\ UNCHANGED <<menu, clock, listing, flight, shown, feedVars, profileVars, listVars, view, resets, landed>>

ListStep ==
    \/ EnsureDefaultList
    \/ \E a \in Agents :
          \/ ReadExisting(a) \/ AddToList(a) \/ RemoveFromList(a)
          \/ LockList(a) \/ DropList(a) \/ DeleteGivesUp(a)
          \/ \E s \in Slugs : CreateList(a, s)
          \/ \E s \in Slugs, op \in {"add", "remove"}, l \in Listings : GetListBySlug(a, s, op, l)
          \/ \E x \in lists : DeleteList(a, x)

ResetStep ==
    \E a \in Agents : ResetTasteState(a) \/ ResetStatement(a) \/ CommitReset(a) \/ ResetGivesUp(a)

LEMMA StepKinds ==
    Next => ShownStep \/ VerdictStep \/ BatchStep \/ RubricStep \/ ProfileStep \/ ListStep \/ ResetStep
<1>1. ASSUME NEW a \in Agents, NEW b \in Agents, DeadlockBroken(a, b)
      PROVE  ResetGivesUp(a) \/ DeleteGivesUp(b)
  BY <1>1, Zenon DEF DeadlockBroken, Deadlocked, ResetGivesUp, DeleteGivesUp
<1>2. ASSUME NEW a \in Agents, NEW b \in Agents, DeadlockBroken(a, b)
      PROVE  ListStep \/ ResetStep
  BY <1>1, <1>2, Zenon DEF ListStep, ResetStep
<1> QED
  BY <1>2, Zenon DEF Next, CallStep, NewCall, ShownStep, VerdictStep, BatchStep, RubricStep, ProfileStep,
                     ListStep, ResetStep

\* Another session's reset keeps its place; a removal by hand may shorten its history.
ResetStands(a) ==
    /\ call[a].op = "reset" /\ call'[a].op = "reset"
    /\ call'[a].next = call[a].next /\ call'[a].doomed = call[a].doomed
    /\ \A t \in DOMAIN NothingDoomed \ {"items"} : call'[a].before[t] = call[a].before[t]
    /\ call'[a].before.items \subseteq call[a].before.items

\* Only calls of these operations begin, go on or end.
CallsOf(ops) ==
    \A a \in Agents :
        \/ call'[a] = call[a]
        \/ call[a].op \in ops \cup {"idle"} /\ call'[a].op \in ops \cup {"idle"}
        \/ ResetStands(a)

\* What an open call holds, by its operation.
LEMMA CallTypes ==
    ASSUME TypeOK, NEW a \in Agents
    PROVE  /\ call[a].op = "candidates" => call[a] \in CandidateCalls
           /\ call[a].op = "verdict" => call[a] \in VerdictCalls
           /\ call[a].op = "batch" => call[a] \in BatchCalls
           /\ call[a].op = "rubric" => call[a] \in RubricDrafts \cup RubricInserts
           /\ call[a].op = "profile" => call[a] \in ProfileCalls
           /\ call[a].op = "existing" => call[a] \in ExistingCalls
           /\ call[a].op \in {"add", "remove"} => call[a] \in MemberCalls
           /\ call[a].op = "delete" => call[a] \in DeleteCalls
           /\ call[a].op = "reset" => call[a] \in ResetCalls
           /\ call[a].op = "idle" => call[a] = Idle
<1>1. call[a] \in CallState
  BY DEF TypeOK
<1>2. /\ \A r \in CandidateCalls : r.op = "candidates"
      /\ \A r \in VerdictCalls : r.op = "verdict"
      /\ \A r \in BatchCalls : r.op = "batch"
      /\ \A r \in RubricDrafts \cup RubricInserts : r.op = "rubric"
      /\ \A r \in ProfileCalls : r.op = "profile"
      /\ \A r \in ExistingCalls : r.op = "existing"
      /\ \A r \in MemberCalls : r.op \in {"add", "remove"}
      /\ \A r \in DeleteCalls : r.op = "delete"
      /\ \A r \in ResetCalls : r.op = "reset"
      /\ Idle.op = "idle"
  BY DEF CandidateCalls, VerdictCalls, BatchCalls, RubricDrafts, RubricInserts, ProfileCalls,
         ExistingCalls, MemberCalls, DeleteCalls, ResetCalls, Idle
<1> QED
  BY <1>1, <1>2 DEF CallState

\* One call moves.
LEMMA CallMoves ==
    ASSUME TypeOK, NEW a \in Agents, NEW r \in CallState, call' = [call EXCEPT ![a] = r]
    PROVE  /\ call' \in [Agents -> CallState]
           /\ call'[a] = r /\ \A b \in Agents \ {a} : call'[b] = call[b]
BY DEF TypeOK

LEMMA CallMovesIn ==
    ASSUME NEW a \in Agents, NEW ops,
           \A b \in Agents \ {a} : call'[b] = call[b],
           call[a].op \in ops \cup {"idle"}, call'[a].op \in ops \cup {"idle"}
    PROVE  CallsOf(ops)
BY DEF CallsOf

LEMMA ShownFrame ==
    ASSUME TypeOK, ShownStep
    PROVE  UNCHANGED <<feedVars, profileVars, listVars, resets, landed>> /\ CallsOf({"candidates"})
<1>1. ASSUME NEW c \in Crawlers, CrawlStep(c)
      PROVE  UNCHANGED <<feedVars, profileVars, listVars, resets, landed>> /\ CallsOf({"candidates"})
  BY <1>1, Zenon DEF CrawlStep, StampChange, CommitChange, CallsOf
<1>2. ASSUME NEW a \in Agents, GetCandidates(a) \/ ReadCandidates(a)
      PROVE  UNCHANGED <<feedVars, profileVars, listVars, resets, landed>> /\ CallsOf({"candidates"})
  <2>1. UNCHANGED <<feedVars, profileVars, listVars, resets, landed>>
    BY <1>2, Zenon DEF GetCandidates, ReadCandidates
  <2>2. CallsOf({"candidates"})
    <3>1. /\ \A b \in Agents \ {a} : call'[b] = call[b]
          /\ {call[a].op, call'[a].op} \subseteq {"candidates", "idle"}
      BY <1>2 DEF GetCandidates, ReadCandidates, Begin, End, Idle, TypeOK
    <3> QED
      BY <3>1, CallMovesIn
  <2> QED
    BY <2>1, <2>2
<1>3. ASSUME NEW a \in Agents, NEW l, NEW asOf, MarkShown(a, l, asOf)
      PROVE  UNCHANGED <<feedVars, profileVars, listVars, resets, landed>> /\ CallsOf({"candidates"})
  BY <1>3, Zenon DEF MarkShown, CallsOf
<1> QED
  BY <1>1, <1>2, <1>3, Zenon DEF ShownStep

LEMMA VerdictFrame ==
    ASSUME TypeOK, VerdictStep
    PROVE  /\ UNCHANGED <<clock, listing, flight, shown, rubrics, nextRubric, profileVars, listVars,
                          view, resets, landed>>
           /\ CallsOf({"verdict"})
<1>1. PICK a \in Agents : CommitVerdict(a) \/ \E l \in Listings : RecordVerdict(a, l)
  BY DEF VerdictStep
<1>2. /\ \A b \in Agents \ {a} : call'[b] = call[b]
      /\ {call[a].op, call'[a].op} \subseteq {"verdict", "idle"}
  BY <1>1 DEF RecordVerdict, CommitVerdict, Begin, End, Idle, TypeOK
<1> QED
  BY <1>1, <1>2, CallMovesIn DEF RecordVerdict, CommitVerdict

LEMMA BatchFrame ==
    ASSUME TypeOK, BatchStep
    PROVE  /\ UNCHANGED <<clock, listing, flight, shown, feedVars, profile, lock, lastSet, revived,
                          listVars, view, resets>>
           /\ CallsOf({"batch"})
<1>1. PICK a \in Agents : \/ BatchItem(a) \/ BatchFails(a) \/ BatchEnds(a)
                          \/ \E batch \in Batch, via \in Transports, valid \in BOOLEAN :
                                RecordVerdicts(a, batch, via, valid)
  BY Zenon DEF BatchStep
<1>2. /\ \A b \in Agents \ {a} : call'[b] = call[b]
      /\ {call[a].op, call'[a].op} \subseteq {"batch", "idle"}
  <2>1. CASE BatchItem(a) \/ BatchFails(a) \/ BatchEnds(a)
    <3>1. call[a].op = "batch" /\ call[a] \in BatchCalls
      BY <2>1, CallTypes DEF BatchItem, BatchFails, BatchEnds
    <3>2. CASE BatchItem(a)
      <4>1. PICK T : call' = [call EXCEPT ![a] = [call[a] EXCEPT !.todo = T]]
        BY <3>2, Zenon DEF BatchItem, Continue
      <4> QED
        BY <3>1, <4>1 DEF BatchCalls, TypeOK
    <3>3. CASE BatchFails(a)
      BY <3>1, <3>3 DEF BatchCalls, BatchFails, Continue, TypeOK
    <3>4. CASE BatchEnds(a)
      BY <3>1, <3>4 DEF BatchEnds, End, Idle, TypeOK
    <3> QED
      BY <2>1, <3>2, <3>3, <3>4
  <2>2. ASSUME NEW batch, NEW via, NEW valid, RecordVerdicts(a, batch, via, valid)
        PROVE  /\ \A b \in Agents \ {a} : call'[b] = call[b]
               /\ {call[a].op, call'[a].op} \subseteq {"batch", "idle"}
    BY <2>2 DEF RecordVerdicts, Begin, Idle, TypeOK
  <2> QED
    BY <1>1, <2>1, <2>2, Zenon
<1>3. UNCHANGED <<clock, listing, flight, shown, feedVars, profile, lock, lastSet, revived,
                  listVars, view, resets>>
  BY <1>1, Zenon DEF BatchItem, BatchFails, BatchEnds, RecordVerdicts, profileVars
<1> QED
  BY <1>2, <1>3, CallMovesIn

LEMMA RubricFrame ==
    ASSUME TypeOK, RubricStep
    PROVE  /\ UNCHANGED <<clock, listing, flight, shown, verdicts, nextVerdict, profileVars, listVars,
                          resets, landed>>
           /\ CallsOf({"rubric"})
<1>1. PICK a \in Agents :
         GetState(a) \/ AppendRubric(a) \/ CheckVerdict(a) \/ InsertRubric(a) \/ CommitRubric(a)
  BY DEF RubricStep
<1>2. CASE GetState(a)
  BY <1>2 DEF GetState, CallsOf, feedVars
<1>3. CASE AppendRubric(a)
  <2>1. /\ \A b \in Agents \ {a} : call'[b] = call[b]
        /\ {call[a].op, call'[a].op} \subseteq {"rubric", "idle"}
    BY <1>3 DEF AppendRubric, Begin, Idle, TypeOK
  <2> QED
    BY <1>3, <2>1, CallMovesIn DEF AppendRubric, feedVars
<1>4. CASE CheckVerdict(a) \/ InsertRubric(a) \/ CommitRubric(a)
  <2>1. call[a].op = "rubric"
    BY <1>4 DEF CheckVerdict, InsertRubric, CommitRubric
  <2>2. CASE CheckVerdict(a)
    <3>1. call[a] \in RubricDrafts
      BY <2>1, <2>2, CallTypes DEF CheckVerdict, RubricInserts
    <3>2. /\ \A b \in Agents \ {a} : call'[b] = call[b]
          /\ {call[a].op, call'[a].op} \subseteq {"rubric", "idle"}
      BY <2>2, <3>1 DEF RubricDrafts, CheckVerdict, Continue, End, Idle, TypeOK
    <3> QED
      BY <2>2, <3>2, CallMovesIn DEF CheckVerdict, feedVars
  <2>3. CASE InsertRubric(a) \/ CommitRubric(a)
    <3>1. /\ \A b \in Agents \ {a} : call'[b] = call[b]
          /\ {call[a].op, call'[a].op} \subseteq {"rubric", "idle"}
      BY <2>1, <2>3 DEF InsertRubric, CommitRubric, Continue, End, Idle, TypeOK
    <3> QED
      BY <2>3, <3>1, CallMovesIn DEF InsertRubric, CommitRubric
  <2> QED
    BY <1>4, <2>2, <2>3
<1> QED
  BY <1>1, <1>2, <1>3, <1>4

LEMMA ProfileFrame ==
    ASSUME TypeOK, ProfileStep
    PROVE  /\ UNCHANGED <<clock, listing, flight, shown, feedVars, listVars, view, resets, landed>>
           /\ writes' \in {writes, writes + 1}
           /\ CallsOf({"profile"})
<1>1. PICK a \in Agents : \/ SetProfile(a) \/ CommitProfile(a)
                          \/ \E f \in Fields, v \in 0 .. MaxWrites : UpdateProfile(a, f, v)
  BY Zenon DEF ProfileStep
<1>2. CASE SetProfile(a) \/ CommitProfile(a)
  <2>1. call[a].op = "profile" /\ call[a] \in ProfileCalls
    BY <1>2, CallTypes DEF SetProfile, CommitProfile
  <2>2. /\ \A b \in Agents \ {a} : call'[b] = call[b]
        /\ {call[a].op, call'[a].op} \subseteq {"profile", "idle"}
    BY <1>2, <2>1 DEF ProfileCalls, SetProfile, CommitProfile, Continue, End, Idle, TypeOK
  <2> QED
    BY <1>2, <2>2, CallMovesIn DEF SetProfile, CommitProfile, profileVars
<1>3. ASSUME NEW f \in Fields, NEW v \in 0 .. MaxWrites, UpdateProfile(a, f, v)
      PROVE  /\ UNCHANGED <<clock, listing, flight, shown, feedVars, listVars, view, resets, landed>>
             /\ writes' \in {writes, writes + 1}
             /\ CallsOf({"profile"})
  <2>1. /\ \A b \in Agents \ {a} : call'[b] = call[b]
        /\ {call[a].op, call'[a].op} \subseteq {"profile", "idle"}
    BY <1>3 DEF UpdateProfile, Begin, Idle, TypeOK
  <2> QED
    BY <1>3, <2>1, CallMovesIn DEF UpdateProfile
<1> QED
  BY <1>1, <1>2, <1>3, Zenon

LEMMA ListFrame ==
    ASSUME TypeOK, ListStep
    PROVE  /\ UNCHANGED <<clock, listing, flight, shown, feedVars, profileVars, view, resets, landed>>
           /\ CallsOf({"existing", "add", "remove", "delete"})
<1> DEFINE Ops == {"existing", "add", "remove", "delete", "idle"}
<1>1. ASSUME NEW a \in Agents,
             \A b \in Agents \ {a} : call'[b] = call[b],
             {call[a].op, call'[a].op} \subseteq Ops
      PROVE  CallsOf({"existing", "add", "remove", "delete"})
  BY <1>1, CallMovesIn
<1>2. UNCHANGED <<clock, listing, flight, shown, feedVars, profileVars, view, resets, landed>>
  BY Zenon DEF ListStep, EnsureDefaultList, ReadExisting, AddToList, RemoveFromList, LockList, DropList,
               DeleteGivesUp, CreateList, GetListBySlug, DeleteList, listVars
<1>3. CASE EnsureDefaultList
  BY <1>3 DEF EnsureDefaultList, CallsOf
<1>4. ASSUME NEW a \in Agents, ReadExisting(a) \/ AddToList(a) \/ DropList(a) \/ DeleteGivesUp(a)
      PROVE  CallsOf({"existing", "add", "remove", "delete"})
  <2>1. \A b \in Agents \ {a} : call'[b] = call[b]
    BY <1>4 DEF ReadExisting, AddToList, DropList, DeleteGivesUp, End, TypeOK
  <2>2. {call[a].op, call'[a].op} \subseteq Ops
    BY <1>4 DEF ReadExisting, AddToList, DropList, DeleteGivesUp, End, Idle, TypeOK
  <2> QED
    BY <2>1, <2>2, <1>1
<1>9. ASSUME NEW a \in Agents, LockList(a)
      PROVE  CallsOf({"existing", "add", "remove", "delete"})
  <2>1. call[a].op = "delete" /\ call[a] \in DeleteCalls
    BY <1>9, CallTypes DEF LockList
  <2>2. /\ \A b \in Agents \ {a} : call'[b] = call[b]
        /\ call'[a].op \in {"delete", "idle"}
    BY <1>9, <2>1 DEF LockList, Continue, End, Idle, DeleteCalls, TypeOK
  <2> QED
    BY <2>1, <2>2, <1>1
<1>5. ASSUME NEW a \in Agents, NEW s \in Slugs, CreateList(a, s)
      PROVE  CallsOf({"existing", "add", "remove", "delete"})
  <2>1. /\ \A b \in Agents \ {a} : call'[b] = call[b]
        /\ call[a] = Idle /\ call'[a] \in {Idle, [op |-> "existing", slug |-> s]}
    <3>1. call[a] = Idle /\ (call' = call \/ call' = [call EXCEPT ![a] = [op |-> "existing", slug |-> s]])
      BY <1>5, Zenon DEF CreateList, Continue
    <3> QED
      BY <3>1 DEF TypeOK
  <2>2. {call[a].op, call'[a].op} \subseteq Ops
    BY <2>1 DEF Idle
  <2> QED
    BY <1>1, <2>1, <2>2
<1>6. ASSUME NEW a \in Agents, NEW s \in Slugs, NEW op \in {"add", "remove"}, NEW l \in Listings,
             GetListBySlug(a, s, op, l)
      PROVE  CallsOf({"existing", "add", "remove", "delete"})
  BY <1>1, <1>6 DEF GetListBySlug, Begin, Idle, TypeOK
<1>7. ASSUME NEW a \in Agents, NEW x \in lists, DeleteList(a, x)
      PROVE  CallsOf({"existing", "add", "remove", "delete"})
  BY <1>1, <1>7 DEF DeleteList, Begin, Idle, TypeOK
<1>8. ASSUME NEW a \in Agents, RemoveFromList(a)
      PROVE  CallsOf({"existing", "add", "remove", "delete"})
  <2> SUFFICES ASSUME NEW b \in Agents
               PROVE  \/ call'[b] = call[b]
                      \/ {call[b].op, call'[b].op} \subseteq Ops
                      \/ ResetStands(b)
    BY DEF CallsOf
  <2>1. CASE b = a
    BY <1>8, <2>1 DEF RemoveFromList, Idle
  <2>2. CASE b # a /\ call[b].op = "reset"
    <3>1. call[b] \in ResetCalls
      BY <2>2, CallTypes
    <3>2. call'[b] = [call[b] EXCEPT !.before.items = @ \ {<<call[a].id, call[a].listing>>}]
      BY <1>8, <2>2, Zenon DEF RemoveFromList
    <3> QED
      BY <2>2, <3>1, <3>2 DEF ResetStands, ResetCalls, TableRows, NothingDoomed
  <2>3. CASE b # a /\ call[b].op # "reset"
    BY <1>8, <2>3 DEF RemoveFromList
  <2> QED
    BY <2>1, <2>2, <2>3
<1> QED
  BY <1>2, <1>3, <1>4, <1>5, <1>6, <1>7, <1>8, <1>9, Zenon DEF ListStep

LEMMA ResetFrame ==
    ASSUME TypeOK, ResetStep
    PROVE  /\ UNCHANGED <<clock, listing, flight, nextVerdict, nextRubric, lock, writes, nextList, view, landed>>
           /\ shown' \subseteq shown /\ verdicts' \subseteq verdicts /\ rubrics' \subseteq rubrics
           /\ lists' \subseteq lists /\ items' \subseteq items
           /\ CallsOf({"reset", "profile"})
<1>1. PICK a \in Agents : ResetTasteState(a) \/ ResetStatement(a) \/ CommitReset(a) \/ ResetGivesUp(a)
  BY DEF ResetStep
<1>5. CASE ResetGivesUp(a)
  <2>1. /\ \A b \in Agents \ {a} : call'[b] = call[b]
        /\ {call[a].op, call'[a].op} \subseteq {"reset", "profile", "idle"}
    BY <1>5 DEF ResetGivesUp, End, Idle, TypeOK
  <2> QED
    BY <1>5, <2>1, CallMovesIn DEF ResetGivesUp, feedVars, profileVars, listVars
<1>2. CASE ResetTasteState(a)
  <2>1. /\ \A b \in Agents \ {a} : call'[b] = call[b]
        /\ {call[a].op, call'[a].op} \subseteq {"reset", "profile", "idle"}
    BY <1>2 DEF ResetTasteState, Begin, Idle, TypeOK
  <2> QED
    BY <1>2, <2>1, CallMovesIn DEF ResetTasteState, feedVars, profileVars, listVars
<1>3. CASE ResetStatement(a)
  <2>1. call[a].op = "reset" /\ call[a] \in ResetCalls
    BY <1>3, CallTypes DEF ResetStatement
  <2>2. /\ \A b \in Agents \ {a} : call'[b] = call[b]
        /\ {call[a].op, call'[a].op} \subseteq {"reset", "profile", "idle"}
    <3>1. CASE End(a)
      BY <2>1, <3>1 DEF End, Idle, TypeOK
    <3>2. ASSUME NEW T, NEW R,
                 call' = [call EXCEPT ![a] = [call[a] EXCEPT !.next = @ + 1, !.doomed[T] = R]]
          PROVE  /\ \A b \in Agents \ {a} : call'[b] = call[b]
                 /\ call'[a].op = "reset"
      BY <2>1, <3>2 DEF ResetCalls, TypeOK
    <3> QED
      BY <1>3, <2>1, <3>1, <3>2 DEF ResetStatement, Continue, End, Idle, TypeOK
  <2> QED
    BY <1>3, <2>2, CallMovesIn DEF ResetStatement, feedVars, profileVars, listVars
<1>4. CASE CommitReset(a)
  <2>1. CallsOf({"reset", "profile"})
    <3> SUFFICES ASSUME NEW b \in Agents
                 PROVE  \/ call'[b] = call[b]
                        \/ {call[b].op, call'[b].op} \subseteq {"reset", "profile", "idle"}
      BY DEF CallsOf
    <3>1. CASE b = a
      BY <1>4, <3>1 DEF CommitReset, Idle
    <3>2. CASE b # a /\ call[b].op = "profile"
      <4>1. call[b] \in ProfileCalls
        BY <3>2, CallTypes
      <4> QED
        BY <1>4, <3>2, <4>1 DEF CommitReset, ProfileCalls
    <3>3. CASE b # a /\ call[b].op # "profile"
      BY <1>4, <3>3 DEF CommitReset
    <3> QED
      BY <3>1, <3>2, <3>3
  <2> QED
    BY <1>4, <2>1 DEF CommitReset
<1> QED
  BY <1>1, <1>2, <1>3, <1>4, <1>5

---------------------------------------------------------------------------
(* Type correctness.                                                         *)

LEMMA InitTyped == Init => TypeOK
<1> SUFFICES ASSUME Init PROVE TypeOK
  OBVIOUS
<1>1. Idle \in CallState /\ NoView \in ViewState /\ NoProfile \in Profiles /\ ZeroProfile \in [Fields -> Nat]
  BY DEF CallState, NoView, ViewState, Changes, Profiles, ZeroProfile
<1>2. <<>> \in Seq(Nat)
  OBVIOUS
<1>3. lists \subseteq ListRows
  BY TasteAssumption DEF Init, ListRows
<1> QED
  BY <1>1, <1>2, <1>3 DEF Init, TypeOK, NoChange

\* A set of numbers, and the ids of a table.
LEMMA LeastTyped ==
    ASSUME NEW stamp \in Nat, NEW cap, cap = {} \/ \E n \in Nat : cap = {n}
    PROVE  /\ Least(stamp, cap) \in Nat
           /\ cap = {} => Least(stamp, cap) = stamp
           /\ \A n \in Nat : cap = {n} => Least(stamp, cap) <= n /\ Least(stamp, cap) <= stamp
<1>1. CASE cap = {}
  BY <1>1 DEF Least
<1>2. ASSUME NEW n \in Nat, cap = {n}
      PROVE  /\ Least(stamp, cap) \in Nat
             /\ Least(stamp, cap) <= n /\ Least(stamp, cap) <= stamp
  <2>1. {stamp} \cup cap \in SUBSET Nat /\ {stamp} \cup cap # {}
    BY <1>2
  <2>2. Min({stamp} \cup cap) \in {stamp} \cup cap /\ \A x \in {stamp} \cup cap : Min({stamp} \cup cap) <= x
    BY <2>1, MinOfNats
  <2> QED
    BY <1>2, <2>2 DEF Least
<1> QED
  BY <1>1, <1>2

LEMMA ShownTyped ==
    ASSUME TypeOK, ShownStep
    PROVE  TypeOK'
<1>1. ASSUME NEW c \in Crawlers, NEW l \in Listings, StampChange(c, l)
      PROVE  TypeOK'
  <2>1. [stamp |-> clock, listing |-> l] \in Changes /\ clock' \in Nat \ {0}
    BY <1>1 DEF StampChange, Changes, TypeOK
  <2> QED
    BY <1>1, <2>1 DEF StampChange, TypeOK, feedVars, profileVars, listVars
<1>2. ASSUME NEW c \in Crawlers, NEW status \in {"active", "delisted"}, CommitChange(c, status)
      PROVE  TypeOK'
  <2>1. flight[c] \in Changes
    BY <1>2 DEF CommitChange, TypeOK
  <2>2. listing' \in [Listings -> [stamp : Nat, version : Nat, status : {"active", "delisted"}]]
    BY <1>2, <2>1 DEF CommitChange, TypeOK, Changes
  <2> QED
    BY <1>2, <2>1, <2>2 DEF CommitChange, TypeOK, feedVars, profileVars, listVars
<1>3. ASSUME NEW a \in Agents, GetCandidates(a)
      PROVE  TypeOK'
  <2>1. [op |-> "candidates", at |-> clock] \in CallState /\ clock' \in Nat \ {0}
    BY <1>3 DEF GetCandidates, CallState, CandidateCalls, TypeOK
  <2> QED
    BY <1>3, <2>1 DEF GetCandidates, Begin, TypeOK, feedVars, profileVars, listVars
<1>4. ASSUME NEW a \in Agents, ReadCandidates(a)
      PROVE  TypeOK'
  <2>1. call[a] \in CandidateCalls
    BY <1>4, CallTypes DEF ReadCandidates
  <2>2. Candidates \subseteq Listings /\ [l \in Listings |-> listing[l].version] \in [Listings -> Nat]
    BY DEF Candidates, TypeOK
  <2>3. {flight[c] : c \in Crawlers} \ {NoChange} \subseteq Changes
    BY DEF TypeOK
  <2>4. view' \in [Agents -> ViewState]
    <3> DEFINE versions == [l \in Listings |-> listing[l].version]
               changes == {flight[c] : c \in Crawlers} \ {NoChange}
    <3>1. view' = [view EXCEPT ![a] = [@ EXCEPT !.at = call[a].at, !.rows = Candidates,
                                                !.version = versions, !.open = changes]]
      BY <1>4 DEF ReadCandidates
    <3>2. view[a] \in ViewState /\ call[a].at \in Nat
      BY <2>1 DEF TypeOK, CandidateCalls
    <3>3. versions \in [Listings -> Nat] /\ changes \subseteq Changes
      BY <2>2, <2>3
    <3> HIDE DEF versions, changes
    <3>4. [view[a] EXCEPT !.at = call[a].at, !.rows = Candidates,
                          !.version = versions, !.open = changes] \in ViewState
      BY <2>2, <3>2, <3>3 DEF ViewState
    <3> QED
      BY <3>1, <3>4 DEF TypeOK
  <2>5. call' \in [Agents -> CallState]
    BY <1>4 DEF ReadCandidates, End, CallState, TypeOK
  <2> QED
    BY <1>4, <2>4, <2>5 DEF ReadCandidates, TypeOK, feedVars, profileVars, listVars
<1>5. ASSUME NEW a \in Agents, NEW l \in Listings, NEW asOf \in {{}, {view[a].at}}, MarkShown(a, l, asOf)
      PROVE  TypeOK'
  <2>1. view[a] \in ViewState
    BY DEF TypeOK
  <2>2. Least(listing[l].stamp, asOf) \in Nat
    BY <2>1, LeastTyped DEF ViewState, TypeOK
  <2>3. {x.stamp : x \in {y \in view[a].open : y.listing = l}} \in SUBSET Nat
    BY <2>1 DEF ViewState, Changes
  <2>4. view[a].version[l] \in Nat
    BY <2>1 DEF ViewState
  <2>5. shown' \subseteq ShownRows
    <3> DEFINE row == [listing |-> l, seen |-> Least(listing[l].stamp, asOf), capped |-> asOf # {},
                       saw |-> view[a].version[l],
                       open |-> {x.stamp : x \in {y \in view[a].open : y.listing = l}}]
    <3>1. row \in ShownRows
      BY <2>2, <2>3, <2>4 DEF ShownRows
    <3>2. shown' = (shown \ ShownRow(l)) \cup {row}
      BY <1>5 DEF MarkShown
    <3> HIDE DEF row
    <3> QED
      BY <3>1, <3>2 DEF TypeOK
  <2> QED
    BY <1>5, <2>5 DEF MarkShown, TypeOK, feedVars, profileVars, listVars
<1> QED
  BY <1>1, <1>2, <1>3, <1>4, <1>5, Zenon DEF ShownStep, CrawlStep

LEMMA VerdictTyped ==
    ASSUME TypeOK, VerdictStep
    PROVE  TypeOK'
<1>1. ASSUME NEW a \in Agents, NEW l \in Listings, RecordVerdict(a, l)
      PROVE  TypeOK'
  <2>1. [op |-> "verdict", id |-> nextVerdict, listing |-> l] \in CallState /\ nextVerdict' \in Nat \ {0}
    BY <1>1 DEF RecordVerdict, CallState, VerdictCalls, TypeOK
  <2> QED
    BY <1>1, <2>1 DEF RecordVerdict, Begin, TypeOK, profileVars, listVars
<1>2. ASSUME NEW a \in Agents, CommitVerdict(a)
      PROVE  TypeOK'
  <2>1. call[a] \in VerdictCalls
    BY <1>2, CallTypes DEF CommitVerdict
  <2>2. verdicts' \subseteq VerdictRows
    BY <1>2, <2>1 DEF CommitVerdict, TypeOK, VerdictCalls, VerdictRows
  <2>3. call' \in [Agents -> CallState]
    BY <1>2 DEF CommitVerdict, End, CallState, TypeOK
  <2> QED
    BY <1>2, <2>2, <2>3 DEF CommitVerdict, TypeOK, profileVars, listVars
<1> QED
  BY <1>1, <1>2, Zenon DEF VerdictStep

LEMMA BatchTyped ==
    ASSUME TypeOK, BatchStep
    PROVE  TypeOK'
<1>1. ASSUME NEW a \in Agents, NEW batch \in Batch, NEW via \in Transports, NEW valid \in BOOLEAN,
             RecordVerdicts(a, batch, via, valid)
      PROVE  TypeOK'
  <2>1. Len(batch) \in Nat
    BY TasteAssumption
  <2>2. [op |-> "batch", via |-> via, todo |-> 1 .. Len(batch), valid |-> valid, sent |-> 1 .. Len(batch)]
            \in CallState
    BY <2>1 DEF CallState, BatchCalls
  <2>3. [i \in 1 .. Len(batch) |-> 0] \in Seq(Nat)
    BY <2>1, IsASeq
  <2> QED
    BY <1>1, <2>2, <2>3 DEF RecordVerdicts, Begin, TypeOK, feedVars, profileVars, listVars
<1>2. ASSUME NEW a \in Agents, BatchItem(a)
      PROVE  TypeOK'
  <2>1. call[a] \in BatchCalls /\ landed[a] \in Seq(Nat)
    BY <1>2, CallTypes DEF BatchItem, TypeOK
  <2>2. Min(call[a].todo) \in call[a].todo
    BY <1>2, <2>1, MinOfNats DEF BatchCalls, BatchItem
  <2> DEFINE i == Min(call[a].todo)
  <2>3. [call[a] EXCEPT !.todo = @ \ {i}] \in CallState
    BY <2>1 DEF BatchCalls, CallState
  <2>4. call' \in [Agents -> CallState]
    BY <1>2, <2>3 DEF BatchItem, Continue, TypeOK
  <2>5. [landed[a] EXCEPT ![i] = @ + 1] \in Seq(Nat)
    <3>1. CASE i \in 1 .. Len(landed[a])
      BY <2>1, <3>1, ExceptSeq
    <3>2. CASE i \notin 1 .. Len(landed[a])
      <4>1. landed[a] = [j \in 1 .. Len(landed[a]) |-> landed[a][j]]
        BY <2>1
      <4>2. [landed[a] EXCEPT ![i] = @ + 1] = landed[a]
        BY <3>2, <4>1
      <4> QED
        BY <2>1, <4>2
    <3> QED
      BY <3>1, <3>2
  <2>6. landed' \in [Agents -> Seq(Nat)]
    BY <1>2, <2>5 DEF BatchItem, TypeOK
  <2> QED
    BY <1>2, <2>4, <2>6 DEF BatchItem, TypeOK, feedVars, profileVars, listVars
<1>3. ASSUME NEW a \in Agents, BatchFails(a)
      PROVE  TypeOK'
  <2>1. call[a] \in BatchCalls
    BY <1>3, CallTypes DEF BatchFails
  <2>2. Unreported(a) \subseteq call[a].sent
    BY DEF Unreported
  <2>3. [call[a] EXCEPT !.todo = Unreported(a), !.sent = Unreported(a)] \in CallState
    BY <2>1, <2>2 DEF BatchCalls, CallState
  <2> QED
    BY <1>3, <2>3 DEF BatchFails, Continue, TypeOK, feedVars, listVars
<1>4. ASSUME NEW a \in Agents, BatchEnds(a)
      PROVE  TypeOK'
  BY <1>4 DEF BatchEnds, End, CallState, TypeOK, feedVars, profileVars, listVars
<1> QED
  BY <1>1, <1>2, <1>3, <1>4, Zenon DEF BatchStep

\* The newest id of a table is a number.
LEMMA LatestTyped ==
    ASSUME NEW S, NEW n \in Nat \ {0}, \A r \in S : r.id \in Nat /\ r.id < n
    PROVE  /\ Latest(S) \in Nat /\ Latest(S) < n
           /\ \A r \in S : r.id <= Latest(S)
           /\ S # {} => \E r \in S : r.id = Latest(S)
<1>1. CASE S = {}
  BY <1>1 DEF Latest
<1>2. CASE S # {}
  <2>1. Ids(S) \in SUBSET Nat /\ Ids(S) # {} /\ \A x \in Ids(S) : x < n
    BY <1>2 DEF Ids
  <2>2. Max(Ids(S)) \in Ids(S) /\ \A x \in Ids(S) : x <= Max(Ids(S))
    BY <2>1, MaxOfNats
  <2> QED
    BY <1>2, <2>1, <2>2 DEF Latest, Ids
<1> QED
  BY <1>1, <1>2

\* The verdict ids that are there or may still appear, all below the sequence.
Known == Ids(verdicts) \cup {call[b].id : b \in {x \in Agents : call[x].op = "verdict"}}
KnownBelow == \A id \in Known : id < nextVerdict

LEMMA KnownTyped ==
    ASSUME TypeOK
    PROVE  Known \subseteq Nat \ {0}
BY CallTypes DEF Known, Ids, TypeOK, VerdictRows, VerdictCalls

LEMMA RubricTyped ==
    ASSUME TypeOK, KnownBelow, RubricStep
    PROVE  TypeOK'
<1>0. Latest(verdicts) \in Nat
  <2>1. \A v \in verdicts : v.id \in Nat /\ v.id < nextVerdict
    BY DEF KnownBelow, Known, Ids, TypeOK, VerdictRows
  <2> QED
    BY <2>1, LatestTyped DEF TypeOK
<1>1. ASSUME NEW a \in Agents, GetState(a)
      PROVE  TypeOK'
  <2>1. Ids(verdicts) \in SUBSET Nat
    BY DEF Ids, TypeOK, VerdictRows
  <2> DEFINE taken == {call[b].id : b \in {x \in Agents : call[x].op = "verdict"}}
  <2>2. taken \in SUBSET Nat
    BY CallTypes DEF VerdictCalls
  <2>3. view' = [view EXCEPT ![a] = [@ EXCEPT !.latest = Latest(verdicts), !.seen = Ids(verdicts),
                                              !.pending = taken]]
    BY <1>1 DEF GetState
  <2> HIDE DEF taken
  <2>4. [view[a] EXCEPT !.latest = Latest(verdicts), !.seen = Ids(verdicts), !.pending = taken] \in ViewState
    BY <1>0, <2>1, <2>2 DEF TypeOK, ViewState
  <2>5. view' \in [Agents -> ViewState]
    BY <2>3, <2>4 DEF TypeOK
  <2> QED
    BY <1>1, <2>5 DEF GetState, TypeOK, feedVars, profileVars, listVars
<1>2. ASSUME NEW a \in Agents, AppendRubric(a)
      PROVE  TypeOK'
  <2>1. view[a] \in ViewState
    BY DEF TypeOK
  <2>2. [op |-> "rubric", pc |-> "exists", through |-> Through(a),
         seen |-> view[a].seen, pending |-> view[a].pending] \in CallState
    BY <2>1 DEF ViewState, Through, CallState, RubricDrafts
  <2> QED
    BY <1>2, <2>2 DEF AppendRubric, Begin, TypeOK, feedVars, profileVars, listVars
<1>3. ASSUME NEW a \in Agents, CheckVerdict(a)
      PROVE  TypeOK'
  <2>1. call[a] \in RubricDrafts
    BY <1>3, CallTypes DEF CheckVerdict, RubricInserts
  <2>2. [call[a] EXCEPT !.pc = "insert"] \in CallState
    BY <2>1 DEF RubricDrafts, CallState
  <2> QED
    BY <1>3, <2>2 DEF CheckVerdict, Continue, End, CallState, TypeOK, feedVars, profileVars, listVars
<1>4. ASSUME NEW a \in Agents, InsertRubric(a)
      PROVE  TypeOK'
  <2>1. call[a] \in RubricDrafts
    BY <1>4, CallTypes DEF InsertRubric, RubricInserts
  <2>2. [op |-> "rubric", pc |-> "commit",
         row |-> [id |-> nextRubric, through |-> call[a].through,
                  seen |-> call[a].seen, pending |-> call[a].pending]] \in CallState
    BY <2>1 DEF RubricDrafts, CallState, RubricInserts, RubricRows, TypeOK
  <2>3. nextRubric' \in Nat \ {0}
    BY <1>4 DEF InsertRubric, TypeOK
  <2>4. call' \in [Agents -> CallState]
    <3> DEFINE r == [op |-> "rubric", pc |-> "commit",
                     row |-> [id |-> nextRubric, through |-> call[a].through,
                              seen |-> call[a].seen, pending |-> call[a].pending]]
    <3>1. call' = [call EXCEPT ![a] = r] \/ call' = [call EXCEPT ![a] = Idle]
      BY <1>4, Zenon DEF InsertRubric, Continue, End
    <3>2. r \in CallState /\ Idle \in CallState
      BY <2>2 DEF CallState
    <3> HIDE DEF r
    <3> QED
      BY <3>1, <3>2 DEF TypeOK
  <2> QED
    BY <1>4, <2>3, <2>4 DEF InsertRubric, TypeOK, profileVars, listVars
<1>5. ASSUME NEW a \in Agents, CommitRubric(a)
      PROVE  TypeOK'
  <2>1. call[a] \in RubricInserts
    BY <1>5, CallTypes DEF CommitRubric, RubricDrafts
  <2>2. rubrics' \subseteq RubricRows /\ call' \in [Agents -> CallState]
    BY <1>5, <2>1 DEF CommitRubric, End, CallState, TypeOK, RubricInserts
  <2> QED
    BY <1>5, <2>2 DEF CommitRubric, TypeOK, profileVars, listVars
<1> QED
  BY <1>1, <1>2, <1>3, <1>4, <1>5, Zenon DEF RubricStep

LEMMA ProfileTyped ==
    ASSUME TypeOK, ProfileStep
    PROVE  TypeOK'
<1>1. ASSUME NEW a \in Agents, NEW f \in Fields, NEW v \in 0 .. MaxWrites, UpdateProfile(a, f, v)
      PROVE  TypeOK'
  <2>1. v \in Nat
    BY <1>1 DEF UpdateProfile, TypeOK
  <2>2. GetProfile \in [Fields -> Nat]
    BY DEF GetProfile, ZeroProfile, TypeOK, Profiles
  <2>3. Merge(GetProfile, f, v) \in [Fields -> Nat]
    BY <2>1, <2>2 DEF Merge
  <2>4. [op |-> "profile", pc |-> "upsert", field |-> f, value |-> v,
         next |-> Merge(GetProfile, f, v), spans |-> FALSE] \in CallState
    BY <2>1, <2>3 DEF CallState, ProfileCalls
  <2> QED
    BY <1>1, <2>4 DEF UpdateProfile, Begin, TypeOK, feedVars, listVars
<1>2. ASSUME NEW a \in Agents, SetProfile(a)
      PROVE  TypeOK'
  <2>1. call[a] \in ProfileCalls
    BY <1>2, CallTypes DEF SetProfile
  <2>2. [call[a] EXCEPT !.pc = "commit"] \in CallState
    BY <2>1 DEF ProfileCalls, CallState
  <2> QED
    BY <1>2, <2>2 DEF SetProfile, Continue, TypeOK, feedVars, profileVars, listVars
<1>3. ASSUME NEW a \in Agents, CommitProfile(a)
      PROVE  TypeOK'
  <2>1. call[a] \in ProfileCalls
    BY <1>3, CallTypes DEF CommitProfile
  <2>2. profile' \in Profiles /\ lastSet' \in [Fields -> Nat] /\ revived' \subseteq Fields
    BY <1>3, <2>1 DEF CommitProfile, ProfileCalls, TypeOK, Profiles
  <2>3. call' \in [Agents -> CallState] /\ lock' \subseteq Agents
    BY <1>3 DEF CommitProfile, End, CallState, TypeOK
  <2> QED
    BY <1>3, <2>2, <2>3 DEF CommitProfile, TypeOK, feedVars, listVars
<1> QED
  BY <1>1, <1>2, <1>3, Zenon DEF ProfileStep

LEMMA ListTyped ==
    ASSUME TypeOK, ListStep
    PROVE  TypeOK'
<1>0. Favorites \in Slugs
  BY TasteAssumption
<1>1. CASE EnsureDefaultList
  <2>1. lists' \subseteq ListRows /\ nextList' \in Nat \ {0}
    <3>1. [id |-> nextList, slug |-> Favorites, default |-> TRUE] \in ListRows
      BY <1>0 DEF TypeOK, ListRows
    <3>2. /\ lists' \in {lists, lists \cup {[id |-> nextList, slug |-> Favorites, default |-> TRUE]}}
          /\ nextList' = nextList + 1
      BY <1>1 DEF EnsureDefaultList, NewListId
    <3>3. nextList + 1 \in Nat \ {0}
      BY DEF TypeOK
    <3> QED
      BY <3>1, <3>2, <3>3 DEF TypeOK
  <2> QED
    BY <1>1, <2>1 DEF EnsureDefaultList, TypeOK, feedVars, profileVars
<1>2. ASSUME NEW a \in Agents, NEW s \in Slugs, CreateList(a, s)
      PROVE  TypeOK'
  <2>1. lists' \subseteq ListRows /\ nextList' \in Nat \ {0}
    <3>1. [id |-> nextList, slug |-> s, default |-> FALSE] \in ListRows
      BY DEF TypeOK, ListRows
    <3>2. /\ lists' \in {lists, lists \cup {[id |-> nextList, slug |-> s, default |-> FALSE]}}
          /\ nextList' = nextList + 1
      BY <1>2 DEF CreateList, NewListId
    <3>3. nextList + 1 \in Nat \ {0}
      BY DEF TypeOK
    <3> QED
      BY <3>1, <3>2, <3>3 DEF TypeOK
  <2>2. [op |-> "existing", slug |-> s] \in CallState
    BY DEF CallState, ExistingCalls
  <2>3. call' \in [Agents -> CallState]
    BY <1>2, <2>2 DEF CreateList, Continue, TypeOK
  <2> QED
    BY <1>2, <2>1, <2>3 DEF CreateList, TypeOK, feedVars, profileVars
<1>3. ASSUME NEW a \in Agents, ReadExisting(a)
      PROVE  TypeOK'
  BY <1>3 DEF ReadExisting, End, CallState, TypeOK, feedVars, profileVars, listVars
<1>4. ASSUME NEW a \in Agents, NEW s \in Slugs, NEW op \in {"add", "remove"}, NEW l \in Listings,
             GetListBySlug(a, s, op, l)
      PROVE  TypeOK'
  <2> DEFINE x == CHOOSE x \in BySlug(s) : TRUE
  <2>1. BySlug(s) # {} => x \in ListRows
    BY DEF BySlug, TypeOK
  <2>2. BySlug(s) # {} => [op |-> op, slug |-> s, id |-> x.id, listing |-> l] \in CallState
    BY <2>1 DEF ListRows, CallState, MemberCalls
  <2> HIDE DEF x
  <2>3. call' = [call EXCEPT ![a] = IF BySlug(s) = {} THEN Idle
                                    ELSE [op |-> op, slug |-> s, id |-> x.id, listing |-> l]]
    BY <1>4, Zenon DEF GetListBySlug, Begin, x
  <2>4. call' \in [Agents -> CallState]
    BY <2>2, <2>3 DEF CallState, TypeOK
  <2> QED
    BY <1>4, <2>4 DEF GetListBySlug, TypeOK, feedVars, profileVars, listVars
<1>5. ASSUME NEW a \in Agents, AddToList(a)
      PROVE  TypeOK'
  <2>1. call[a] \in MemberCalls
    BY <1>5, CallTypes DEF AddToList
  <2>2. \A x \in ById(call[a].id) : <<x.id, call[a].listing>> \in ItemRows
    BY <2>1 DEF ById, TypeOK, ListRows, MemberCalls, ItemRows
  <2>3. items' \subseteq ItemRows /\ call' \in [Agents -> CallState]
    BY <1>5, <2>2 DEF AddToList, End, CallState, TypeOK
  <2> QED
    BY <1>5, <2>3 DEF AddToList, TypeOK, feedVars, profileVars
<1>6. ASSUME NEW a \in Agents, RemoveFromList(a)
      PROVE  TypeOK'
  <2>1. \A b \in Agents : call[b].op = "reset" =>
            [call[b] EXCEPT !.before.items = @ \ {<<call[a].id, call[a].listing>>}] \in CallState
    <3> DEFINE item == <<call[a].id, call[a].listing>>
    <3> SUFFICES ASSUME NEW b \in Agents, call[b] \in ResetCalls
                 PROVE  [call[b] EXCEPT !.before.items = @ \ {item}] \in ResetCalls
      BY CallTypes DEF CallState
    <3> HIDE DEF item
    <3>1. call[b].before \in TableRows
      BY DEF ResetCalls
    <3>2. [call[b].before EXCEPT !.items = @ \ {item}] \in TableRows
      BY <3>1 DEF TableRows
    <3>3. [call[b] EXCEPT !.before.items = @ \ {item}]
              = [call[b] EXCEPT !.before = [call[b].before EXCEPT !.items = @ \ {item}]]
      OBVIOUS
    <3> QED
      BY <3>2, <3>3 DEF ResetCalls
  <2>2. items' \subseteq ItemRows /\ call' \in [Agents -> CallState]
    BY <1>6, <2>1 DEF RemoveFromList, CallState, TypeOK
  <2> QED
    BY <1>6, <2>2 DEF RemoveFromList, TypeOK, feedVars, profileVars
<1>7. ASSUME NEW a \in Agents, NEW x \in lists, DeleteList(a, x)
      PROVE  TypeOK'
  <2>1. [op |-> "delete", pc |-> "lock", id |-> x.id] \in CallState
    BY DEF TypeOK, ListRows, CallState, DeleteCalls
  <2> QED
    BY <1>7, <2>1 DEF DeleteList, Begin, TypeOK, feedVars, profileVars, listVars
<1>8. ASSUME NEW a \in Agents, DropList(a)
      PROVE  TypeOK'
  <2>1. lists' \subseteq lists /\ items' \subseteq items
    BY <1>8 DEF DropList
  <2> QED
    BY <1>8, <2>1 DEF DropList, End, CallState, TypeOK, feedVars, profileVars
<1>9. ASSUME NEW a \in Agents, LockList(a)
      PROVE  TypeOK'
  <2>1. call[a] \in DeleteCalls
    BY <1>9, CallTypes DEF LockList
  <2>2. [call[a] EXCEPT !.pc = "cascade"] \in CallState
    BY <2>1 DEF DeleteCalls, CallState
  <2>3. call' \in [Agents -> CallState]
    BY <1>9, <2>2 DEF LockList, Continue, End, CallState, TypeOK
  <2> QED
    BY <1>9, <2>3 DEF LockList, TypeOK, feedVars, profileVars, listVars
<1>10. ASSUME NEW a \in Agents, DeleteGivesUp(a)
       PROVE  TypeOK'
  BY <1>10 DEF DeleteGivesUp, End, CallState, TypeOK, feedVars, profileVars, listVars
<1> QED
  BY <1>1, <1>2, <1>3, <1>4, <1>5, <1>6, <1>7, <1>8, <1>9, <1>10, Zenon DEF ListStep

\* Every statement of a reset clears one of the tables, and each table is cleared.
LEMMA ResetOrderTables ==
    /\ Len(ResetOrder) = 6
    /\ \A n \in 1 .. 6 : ResetOrder[n] \in DOMAIN NothingDoomed
    /\ ResetOrder[1] = "rubrics" /\ ResetOrder[2] = "verdicts" /\ ResetOrder[3] = "shown"
    /\ ResetOrder[4] = "profile" /\ ResetOrder[5] = "items" /\ ResetOrder[6] = "lists"
BY DEF ResetOrder, NothingDoomed

LEMMA ResetTyped ==
    ASSUME TypeOK, ResetStep
    PROVE  TypeOK'
<1>0. /\ ResetRows("rubrics") \subseteq RubricRows /\ ResetRows("verdicts") \subseteq VerdictRows
      /\ ResetRows("shown") \subseteq ShownRows /\ ResetRows("profile") \subseteq Profiles
      /\ ResetRows("items") \subseteq ItemRows /\ ResetRows("lists") \subseteq ListRows
  BY DEF ResetRows, TypeOK
<1>1. ASSUME NEW a \in Agents, ResetTasteState(a)
      PROVE  TypeOK'
  <2> DEFINE saved == [t \in DOMAIN NothingDoomed |-> ResetRows(t)]
  <2>1. saved \in TableRows
    BY <1>0 DEF NothingDoomed, TableRows
  <2>2. NothingDoomed \in TableRows
    BY DEF NothingDoomed, TableRows
  <2>3. call' = [call EXCEPT ![a] = [op |-> "reset", next |-> 1, doomed |-> NothingDoomed, before |-> saved]]
    BY <1>1, Zenon DEF ResetTasteState, Begin
  <2> HIDE DEF saved
  <2>4. [op |-> "reset", next |-> 1, doomed |-> NothingDoomed, before |-> saved] \in CallState
    BY <2>1, <2>2 DEF CallState, ResetCalls
  <2>5. call' \in [Agents -> CallState] /\ resets' \in Nat
    BY <1>1, <2>3, <2>4 DEF ResetTasteState, TypeOK
  <2> QED
    BY <1>1, <2>5 DEF ResetTasteState, TypeOK, feedVars, profileVars, listVars
<1>2. ASSUME NEW a \in Agents, ResetStatement(a)
      PROVE  TypeOK'
  <2>1. call[a] \in ResetCalls
    BY <1>2, CallTypes DEF ResetStatement
  <2> DEFINE t == ResetOrder[call[a].next]
  <2>2. t \in DOMAIN NothingDoomed
    BY <1>2, <2>1, ResetOrderTables DEF ResetStatement, ResetCalls
  <2>3. [call[a] EXCEPT !.next = @ + 1, !.doomed[t] = ResetRows(t)] \in ResetCalls
    <3> HIDE DEF t
    <3> DEFINE gone == [call[a].doomed EXCEPT ![t] = ResetRows(t)]
    <3>1. gone \in TableRows
      <4>1. call[a].doomed \in TableRows
        BY <2>1 DEF ResetCalls
      <4> QED
        BY <1>0, <2>2, <4>1 DEF TableRows, NothingDoomed
    <3>2. [call[a] EXCEPT !.next = @ + 1, !.doomed[t] = ResetRows(t)]
              = [call[a] EXCEPT !.next = @ + 1, !.doomed = gone]
      BY <2>1 DEF ResetCalls
    <3> HIDE DEF gone
    <3>3. [call[a] EXCEPT !.next = @ + 1, !.doomed = gone] \in ResetCalls
      <4>1. call[a].next + 1 \in Nat \ {0}
        BY <2>1 DEF ResetCalls
      <4> QED
        BY <2>1, <3>1, <4>1 DEF ResetCalls
    <3> QED
      BY <3>2, <3>3
  <2>4. \/ call' = [call EXCEPT ![a] = Idle]
        \/ call' = [call EXCEPT ![a] = [call[a] EXCEPT !.next = @ + 1, !.doomed[t] = ResetRows(t)]]
    BY <1>2, Zenon DEF ResetStatement, Continue, End
  <2>5. call' \in [Agents -> CallState]
    <3> HIDE DEF t
    <3> QED
      BY <2>3, <2>4 DEF CallState, TypeOK
  <2> QED
    BY <1>2, <2>5 DEF ResetStatement, TypeOK, feedVars, profileVars, listVars
<1>3. ASSUME NEW a \in Agents, CommitReset(a)
      PROVE  TypeOK'
  <2>1. \A b \in Agents : call[b].op = "profile" => [call[b] EXCEPT !.spans = TRUE] \in CallState
    BY CallTypes DEF ProfileCalls, CallState
  <2>2. call' \in [Agents -> CallState]
    BY <1>3, <2>1 DEF CommitReset, CallState, TypeOK
  <2>3. profile' \in Profiles /\ lastSet' \in [Fields -> Nat] /\ revived' \subseteq Fields
    BY <1>3 DEF CommitReset, TypeOK, Profiles, ZeroProfile
  <2> QED
    BY <1>3, <2>2, <2>3 DEF CommitReset, TypeOK
<1>4. ASSUME NEW a \in Agents, ResetGivesUp(a)
      PROVE  TypeOK'
  BY <1>4 DEF ResetGivesUp, End, CallState, TypeOK, feedVars, profileVars, listVars
<1> QED
  BY <1>1, <1>2, <1>3, <1>4, Zenon DEF ResetStep

\* No step brings in a verdict id but the next of the sequence.
FeedGrows ==
    /\ nextVerdict' \in {nextVerdict, nextVerdict + 1}
    /\ \A id \in Known' : id \in Known \/ (id = nextVerdict /\ nextVerdict' = nextVerdict + 1)

LEMMA KnownShrinks ==
    ASSUME Ids(verdicts)' \subseteq Known, UNCHANGED nextVerdict,
           \A b \in Agents : call'[b].op = "verdict" => call'[b] = call[b]
    PROVE  FeedGrows
<1>1. Known' \subseteq Known
  <2> SUFFICES ASSUME NEW b \in Agents, call'[b].op = "verdict"
               PROVE  call'[b].id \in Known
    BY DEF Known
  <2> QED
    BY DEF Known
<1>2. \A id \in Known' : id \in Known
  BY <1>1
<1> QED
  BY <1>2 DEF FeedGrows

LEMMA KnownGrows ==
    ASSUME TypeOK, Next
    PROVE  FeedGrows
<1>1. ASSUME verdicts' \subseteq verdicts, UNCHANGED nextVerdict, NEW ops, "verdict" \notin ops, CallsOf(ops)
      PROVE  FeedGrows
  <2>1. \A b \in Agents : call'[b].op = "verdict" => call'[b] = call[b]
    BY <1>1 DEF CallsOf, ResetStands
  <2>2. Ids(verdicts)' \subseteq Known
    BY <1>1 DEF Known, Ids
  <2> QED
    BY <1>1, <2>1, <2>2, KnownShrinks
<1>2. CASE ShownStep
  BY <1>1, <1>2, ShownFrame DEF feedVars
<1>3. CASE BatchStep
  BY <1>1, <1>3, BatchFrame DEF feedVars
<1>4. CASE RubricStep
  BY <1>1, <1>4, RubricFrame
<1>5. CASE ProfileStep
  BY <1>1, <1>5, ProfileFrame DEF feedVars
<1>6. CASE ListStep
  BY <1>1, <1>6, ListFrame DEF feedVars
<1>7. CASE ResetStep
  BY <1>1, <1>7, ResetFrame
<1>8. CASE VerdictStep
  <2>1. PICK a \in Agents : CommitVerdict(a) \/ \E l \in Listings : RecordVerdict(a, l)
    BY <1>8 DEF VerdictStep
  <2>2. CASE CommitVerdict(a)
    <3>1. call[a] \in VerdictCalls /\ call[a].op = "verdict"
      BY <2>2, CallTypes DEF CommitVerdict
    <3>2. call' = [call EXCEPT ![a] = Idle] /\ UNCHANGED nextVerdict
      BY <2>2 DEF CommitVerdict, End
    <3>3. verdicts' \subseteq verdicts \cup {[id |-> call[a].id, listing |-> call[a].listing]}
      BY <2>2 DEF CommitVerdict
    <3>4. Ids(verdicts)' \subseteq Ids(verdicts) \cup {call[a].id}
      BY <3>3 DEF Ids
    <3>5. \A b \in Agents : call'[b].op = "verdict" => call'[b] = call[b]
      BY <3>2 DEF Idle, TypeOK
    <3>6. Ids(verdicts)' \subseteq Known
      BY <3>1, <3>4 DEF Known
    <3> QED
      BY <3>2, <3>5, <3>6, KnownShrinks
  <2>3. ASSUME NEW l \in Listings, RecordVerdict(a, l)
        PROVE  FeedGrows
    <3>1. /\ call' = [call EXCEPT ![a] = [op |-> "verdict", id |-> nextVerdict, listing |-> l]]
          /\ UNCHANGED verdicts /\ nextVerdict' = nextVerdict + 1
      BY <2>3 DEF RecordVerdict, Begin
    <3>2. \A b \in Agents : call'[b] = call[b] \/ call'[b].id = nextVerdict
      BY <3>1 DEF TypeOK
    <3> QED
      BY <3>1, <3>2 DEF FeedGrows, Known, Ids
  <2> QED
    BY <2>1, <2>2, <2>3
<1> QED
  BY <1>2, <1>3, <1>4, <1>5, <1>6, <1>7, <1>8, StepKinds

Typed == TypeOK /\ KnownBelow

LEMMA TypesHold == Spec => []Typed
<1>1. Init => Typed
  BY InitTyped DEF Typed, Init, KnownBelow, Known, Ids, Idle
<1>2. Typed /\ [Next]_vars => Typed'
  <2> SUFFICES ASSUME Typed, [Next]_vars
               PROVE  Typed'
    OBVIOUS
  <2>1. CASE Next
    <3>1. TypeOK'
      BY <2>1, StepKinds, ShownTyped, VerdictTyped, BatchTyped, RubricTyped, ProfileTyped, ListTyped,
         ResetTyped DEF Typed
    <3>2. KnownBelow'
      <4>1. FeedGrows
        BY <2>1, KnownGrows DEF Typed
      <4>2. nextVerdict \in Nat /\ \A id \in Known : id \in Nat /\ id < nextVerdict
        BY KnownTyped DEF Typed, KnownBelow, TypeOK
      <4> QED
        BY <4>1, <4>2 DEF FeedGrows, KnownBelow
    <3> QED
      BY <3>1, <3>2 DEF Typed
  <2>2. CASE UNCHANGED vars
    BY <2>2 DEF vars, feedVars, profileVars, listVars, Typed, TypeOK, KnownBelow, Known, Ids
  <2> QED
    BY <2>1, <2>2
<1> QED
  BY <1>1, <1>2, PTL DEF Spec

\* Every reachable state of the taste memory is well typed, for any number of
\* sessions, crawls, listings and fields.
THEOREM TypeCorrect == Spec => []TypeOK
BY TypesHold, PTL DEF Typed

---------------------------------------------------------------------------
(* A fresh rubric saw every verdict.                                         *)

\* Whoever wrote this rubric, or may write it, knew of every verdict up to the one
\* it stamps it with: it saw it, or it was on its way when it looked.
Accounted(t, S, P) == t < nextVerdict /\ \A id \in Known : id <= t => id \in S \cup P

Inserting(a) == call[a].op = "rubric" /\ call[a].pc = "commit"

ViewAccounts(a)   == Accounted(view[a].latest, view[a].seen, view[a].pending)
DraftAccounts(a)  == call[a].op = "rubric" /\ call[a].pc # "commit" =>
                         Accounted(call[a].through, call[a].seen, call[a].pending)
InsertAccounts(a) == Inserting(a) =>
                         Accounted(call[a].row.through, call[a].row.seen, call[a].row.pending)
RubricAccounts(r) == Accounted(r.through, r.seen, r.pending)

\* A rubric's id is its own.
RubricIds ==
    /\ \A r \in rubrics : r.id < nextRubric
    /\ \A r, s \in rubrics : r.id = s.id => r = s
    /\ \A a \in Agents : Inserting(a) =>
          /\ call[a].row.id < nextRubric
          /\ \A r \in rubrics : r.id # call[a].row.id
          /\ \A b \in Agents \ {a} : Inserting(b) => call[b].row.id # call[a].row.id

RubricInv ==
    /\ \A a \in Agents : ViewAccounts(a) /\ DraftAccounts(a) /\ InsertAccounts(a)
    /\ \A r \in rubrics : RubricAccounts(r)
    /\ RubricIds

\* What is accounted for stays so: a new verdict comes after it.
LEMMA AccountedStays ==
    ASSUME Typed, FeedGrows, NEW t, NEW S, NEW P, t \in Nat, Accounted(t, S, P)
    PROVE  t < nextVerdict' /\ \A id \in Known' : id <= t => id \in S \cup P
<1>1. nextVerdict \in Nat
  BY DEF Typed, TypeOK
<1> QED
  BY <1>1 DEF FeedGrows, Accounted

\* What the agent read for a rubric stays.
SameReading(a) ==
    /\ view'[a].latest = view[a].latest /\ view'[a].seen = view[a].seen
    /\ view'[a].pending = view[a].pending

\* A view, an open call and a rubric that stay as they are stay accounted for.
LEMMA AccountsStay ==
    ASSUME Typed, Next, RubricInv
    PROVE  /\ \A a \in Agents : SameReading(a) => ViewAccounts(a)'
           /\ \A a \in Agents : call'[a] = call[a] => DraftAccounts(a)' /\ InsertAccounts(a)'
           /\ \A r \in rubrics : r.through < nextVerdict' /\ \A id \in Known' : id <= r.through => id \in r.seen \cup r.pending
<1>0. FeedGrows
  BY KnownGrows DEF Typed
<1>1. ASSUME NEW a \in Agents, SameReading(a)
      PROVE  ViewAccounts(a)'
  <2>1. view[a].latest \in Nat
    BY DEF Typed, TypeOK, ViewState
  <2> QED
    BY <1>0, <1>1, <2>1, AccountedStays DEF RubricInv, ViewAccounts, Accounted, SameReading
<1>2. ASSUME NEW a \in Agents, call'[a] = call[a], call[a].op = "rubric", call[a].pc # "commit"
      PROVE  Accounted(call[a].through, call[a].seen, call[a].pending)'
  <2>1. call[a].through \in Nat
    BY <1>2, CallTypes DEF Typed, RubricDrafts, RubricInserts
  <2> QED
    BY <1>0, <1>2, <2>1, AccountedStays DEF RubricInv, DraftAccounts, Accounted
<1>3. ASSUME NEW a \in Agents, call'[a] = call[a], Inserting(a)
      PROVE  Accounted(call[a].row.through, call[a].row.seen, call[a].row.pending)'
  <2>1. call[a].row.through \in Nat
    BY <1>3, CallTypes DEF Inserting, Typed, RubricDrafts, RubricInserts, RubricRows
  <2> QED
    BY <1>0, <1>3, <2>1, AccountedStays DEF RubricInv, InsertAccounts, Accounted
<1>4. ASSUME NEW r \in rubrics
      PROVE  r.through < nextVerdict' /\ \A id \in Known' : id <= r.through => id \in r.seen \cup r.pending
  <2>1. r.through \in Nat /\ Accounted(r.through, r.seen, r.pending)
    BY DEF RubricInv, RubricAccounts, Typed, TypeOK, RubricRows
  <2> QED
    BY <1>0, <2>1, AccountedStays
<1>5. ASSUME NEW a \in Agents, call'[a] = call[a]
      PROVE  DraftAccounts(a)' /\ InsertAccounts(a)'
  BY <1>2, <1>3, <1>5 DEF DraftAccounts, InsertAccounts, Inserting
<1> QED
  BY <1>1, <1>4, <1>5

\* A step that neither writes nor reads for a rubric.
FeedStands ==
    /\ rubrics' \subseteq rubrics /\ UNCHANGED nextRubric
    /\ \A a \in Agents : SameReading(a) /\ (call'[a].op = "rubric" => call'[a] = call[a])

LEMMA RubricStands ==
    ASSUME Typed, Next, FeedStands, RubricInv
    PROVE  RubricInv'
<1>1. \A a \in Agents : ViewAccounts(a)'
  BY AccountsStay DEF FeedStands
<1>2. \A a \in Agents : DraftAccounts(a)' /\ InsertAccounts(a)'
  <2> TAKE a \in Agents
  <2>1. CASE call'[a].op = "rubric"
    BY <2>1, AccountsStay DEF FeedStands
  <2>2. CASE call'[a].op # "rubric"
    BY <2>2 DEF DraftAccounts, InsertAccounts, Inserting
  <2> QED
    BY <2>1, <2>2
<1>3. \A r \in rubrics' : RubricAccounts(r)'
  BY AccountsStay DEF FeedStands, RubricAccounts, Accounted
<1>4. RubricIds'
  <2>1. \A a \in Agents : Inserting(a)' => Inserting(a) /\ call'[a] = call[a]
    BY DEF FeedStands, Inserting
  <2> QED
    BY <2>1 DEF RubricInv, RubricIds, FeedStands
<1> QED
  BY <1>1, <1>2, <1>3, <1>4 DEF RubricInv

\* One session's call for a rubric moves on; its views stay.
LEMMA RubricMoves ==
    ASSUME Typed, Next, RubricInv, UNCHANGED view, NEW a \in Agents,
           \A b \in Agents \ {a} : call'[b] = call[b],
           DraftAccounts(a)', InsertAccounts(a)', rubrics' = rubrics
    PROVE  /\ \A b \in Agents : ViewAccounts(b)' /\ DraftAccounts(b)' /\ InsertAccounts(b)'
           /\ \A r \in rubrics' : RubricAccounts(r)'
<1>1. \A b \in Agents : ViewAccounts(b)'
  BY AccountsStay DEF SameReading
<1>2. \A b \in Agents \ {a} : DraftAccounts(b)' /\ InsertAccounts(b)'
  BY AccountsStay
<1>3. \A r \in rubrics' : RubricAccounts(r)'
  BY AccountsStay DEF RubricAccounts, Accounted
<1> QED
  BY <1>1, <1>2, <1>3

\* Reading the state accounts for all there is.
LEMMA GetStateAccounts ==
    ASSUME Typed, Next, RubricInv, NEW a \in Agents, GetState(a)
    PROVE  RubricInv'
<1> DEFINE taken == {call[b].id : b \in {x \in Agents : call[x].op = "verdict"}}
<1>1. /\ view' = [view EXCEPT ![a] = [@ EXCEPT !.latest = Latest(verdicts), !.seen = Ids(verdicts),
                                               !.pending = taken]]
      /\ UNCHANGED <<verdicts, nextVerdict, rubrics, nextRubric, call>>
  BY DEF GetState, feedVars
<1>2. Known' = Known /\ Known = Ids(verdicts) \cup taken
  BY <1>1 DEF Known, Ids
<1>3. Latest(verdicts) < nextVerdict
  <2>1. \A v \in verdicts : v.id \in Nat /\ v.id < nextVerdict
    BY DEF Typed, KnownBelow, Known, Ids, TypeOK, VerdictRows
  <2> QED
    BY <2>1, LatestTyped DEF Typed, TypeOK
<1> HIDE DEF taken
<1>4. ViewAccounts(a)'
  BY <1>1, <1>2, <1>3 DEF ViewAccounts, Accounted, Typed, TypeOK, ViewState
<1>5. \A b \in Agents \ {a} : ViewAccounts(b)'
  BY <1>1, AccountsStay DEF SameReading, Typed, TypeOK
<1>6. /\ \A b \in Agents : DraftAccounts(b)' /\ InsertAccounts(b)'
      /\ \A r \in rubrics' : RubricAccounts(r)'
  BY <1>1, AccountsStay DEF RubricAccounts, Accounted
<1>7. RubricIds'
  BY <1>1 DEF RubricInv, RubricIds, Inserting
<1> QED
  BY <1>4, <1>5, <1>6, <1>7 DEF RubricInv

LEMMA AppendRubricAccounts ==
    ASSUME Typed, Next, RubricInv, NEW a \in Agents, AppendRubric(a)
    PROVE  RubricInv'
<1>1. /\ call' = [call EXCEPT ![a] = [op |-> "rubric", pc |-> "exists", through |-> view[a].latest,
                                      seen |-> view[a].seen, pending |-> view[a].pending]]
      /\ UNCHANGED <<rubrics, nextRubric, view>>
  BY DEF AppendRubric, Begin, Through, feedVars
<1>2. DraftAccounts(a)' /\ InsertAccounts(a)'
  <2>1. ViewAccounts(a)'
    BY <1>1, AccountsStay DEF SameReading
  <2> QED
    BY <1>1, <2>1 DEF ViewAccounts, DraftAccounts, InsertAccounts, Inserting, Accounted, Typed, TypeOK
<1>3. \A b \in Agents \ {a} : call'[b] = call[b]
  BY <1>1 DEF Typed, TypeOK
<1>4. RubricIds'
  <2>1. \A b \in Agents : Inserting(b)' => Inserting(b) /\ call'[b] = call[b]
    BY <1>1, <1>3 DEF Inserting, Typed, TypeOK
  <2> QED
    BY <1>1, <2>1 DEF RubricInv, RubricIds
<1> QED
  BY <1>1, <1>2, <1>3, <1>4, RubricMoves DEF RubricInv

LEMMA CheckVerdictAccounts ==
    ASSUME Typed, Next, RubricInv, NEW a \in Agents, CheckVerdict(a)
    PROVE  RubricInv'
<1>1. call[a] \in RubricDrafts /\ call[a].pc = "exists"
  BY CallTypes DEF CheckVerdict, RubricInserts, Typed
<1>2. /\ call' \in {[call EXCEPT ![a] = [call[a] EXCEPT !.pc = "insert"]], [call EXCEPT ![a] = Idle]}
      /\ UNCHANGED <<rubrics, nextRubric, view>>
  BY DEF CheckVerdict, Continue, End, feedVars
<1>3. \A b \in Agents \ {a} : call'[b] = call[b]
  BY <1>2 DEF Typed, TypeOK
<1>4. /\ call'[a].op = "rubric" => /\ call'[a].pc = "insert" /\ call'[a].through = call[a].through
                                   /\ call'[a].seen = call[a].seen /\ call'[a].pending = call[a].pending
      /\ ~Inserting(a)'
  BY <1>1, <1>2 DEF RubricDrafts, Idle, Inserting, Typed, TypeOK
<1>5. DraftAccounts(a)' /\ InsertAccounts(a)'
  <2>1. call[a].op = "rubric" /\ call[a].pc # "commit" /\ call[a].through \in Nat
    BY <1>1 DEF RubricDrafts
  <2>2. Accounted(call[a].through, call[a].seen, call[a].pending)
    BY <2>1 DEF RubricInv, DraftAccounts
  <2>3. FeedGrows
    BY KnownGrows DEF Typed
  <2>4. /\ call[a].through < nextVerdict'
        /\ \A id \in Known' : id <= call[a].through => id \in call[a].seen \cup call[a].pending
    BY <2>1, <2>2, <2>3, AccountedStays
  <2> QED
    BY <1>4, <2>4 DEF DraftAccounts, InsertAccounts, Accounted
<1>6. RubricIds'
  <2>1. \A b \in Agents : Inserting(b)' => Inserting(b) /\ call'[b] = call[b]
    BY <1>3, <1>4 DEF Inserting
  <2> QED
    BY <1>2, <2>1 DEF RubricInv, RubricIds
<1> QED
  BY <1>2, <1>3, <1>5, <1>6, RubricMoves DEF RubricInv

LEMMA InsertRubricAccounts ==
    ASSUME Typed, Next, RubricInv, NEW a \in Agents, InsertRubric(a)
    PROVE  RubricInv'
<1> DEFINE row == [id |-> nextRubric, through |-> call[a].through,
                   seen |-> call[a].seen, pending |-> call[a].pending]
<1>1. call[a] \in RubricDrafts /\ call[a].pc = "insert"
  BY CallTypes DEF InsertRubric, RubricInserts, Typed
<1>2. /\ \/ /\ call' = [call EXCEPT ![a] = [op |-> "rubric", pc |-> "commit", row |-> row]]
            /\ nextRubric' = nextRubric + 1
         \/ call' = [call EXCEPT ![a] = Idle] /\ UNCHANGED nextRubric
      /\ UNCHANGED <<rubrics, view>>
  BY DEF InsertRubric, Continue, End
<1>3. row.id = nextRubric /\ row.through = call[a].through /\ row.seen = call[a].seen
      /\ row.pending = call[a].pending
  OBVIOUS
<1> HIDE DEF row
<1>4. \A b \in Agents \ {a} : call'[b] = call[b]
  BY <1>2 DEF Typed, TypeOK
<1>5. Inserting(a)' => call'[a].row = row /\ nextRubric' = nextRubric + 1
  BY <1>1, <1>2 DEF Inserting, Idle, Typed, TypeOK
<1>6. DraftAccounts(a)' /\ InsertAccounts(a)'
  <2>1. call[a].op = "rubric" /\ call[a].pc # "commit" /\ call[a].through \in Nat
    BY <1>1 DEF RubricDrafts
  <2>2. Accounted(call[a].through, call[a].seen, call[a].pending)
    BY <2>1 DEF RubricInv, DraftAccounts
  <2>3. FeedGrows
    BY KnownGrows DEF Typed
  <2>4. /\ call[a].through < nextVerdict'
        /\ \A id \in Known' : id <= call[a].through => id \in call[a].seen \cup call[a].pending
    BY <2>1, <2>2, <2>3, AccountedStays
  <2>5. InsertAccounts(a)'
    BY <1>3, <1>5, <2>4 DEF InsertAccounts, Accounted
  <2>6. DraftAccounts(a)'
    BY <1>2 DEF DraftAccounts, Idle, Typed, TypeOK
  <2> QED
    BY <2>5, <2>6
<1>7. RubricIds'
  <2>1. nextRubric \in Nat /\ nextRubric' \in {nextRubric, nextRubric + 1}
    BY <1>2 DEF Typed, TypeOK
  <2>2. \A b \in Agents \ {a} : Inserting(b)' => Inserting(b) /\ call'[b].row = call[b].row
    BY <1>4 DEF Inserting
  <2>3. \A b \in Agents : Inserting(b) => call[b].row.id \in Nat /\ call[b].row.id < nextRubric
    BY CallTypes DEF RubricInv, RubricIds, Inserting, Typed, RubricInserts, RubricDrafts, RubricRows
  <2>4. \A r \in rubrics : r.id \in Nat /\ r.id < nextRubric
    BY DEF RubricInv, RubricIds, Typed, TypeOK, RubricRows
  <2>5. /\ \A r \in rubrics' : r.id < nextRubric'
        /\ \A r, s \in rubrics' : r.id = s.id => r = s
    BY <1>2, <2>1, <2>4 DEF RubricInv, RubricIds
  <2>6. ASSUME NEW b \in Agents, Inserting(b)'
        PROVE  /\ call'[b].row.id < nextRubric'
               /\ \A r \in rubrics' : r.id # call'[b].row.id
               /\ \A c \in Agents \ {b} : Inserting(c)' => call'[c].row.id # call'[b].row.id
    <3>1. CASE b = a
      <4>1. call'[b].row.id = nextRubric /\ nextRubric' = nextRubric + 1
        BY <1>3, <1>5, <2>6, <3>1
      <4>2. \A c \in Agents \ {b} : Inserting(c)' => call'[c].row.id < nextRubric /\ call'[c].row.id \in Nat
        BY <2>2, <2>3, <3>1
      <4> QED
        BY <1>2, <2>1, <2>4, <4>1, <4>2
    <3>2. CASE b # a
      <4>1. Inserting(b) /\ call'[b].row = call[b].row
        BY <2>2, <2>6, <3>2
      <4>2. \A r \in rubrics' : r.id # call'[b].row.id
        BY <1>2, <4>1 DEF RubricInv, RubricIds
      <4>3. \A c \in Agents \ {b} : Inserting(c)' => call'[c].row.id # call'[b].row.id
        <5> SUFFICES ASSUME NEW c \in Agents \ {b}, Inserting(c)'
                     PROVE  call'[c].row.id # call'[b].row.id
          OBVIOUS
        <5>1. CASE c = a
          BY <1>3, <1>5, <2>3, <4>1, <5>1 DEF Typed, TypeOK
        <5>2. CASE c # a
          BY <2>2, <4>1, <5>2 DEF RubricInv, RubricIds
        <5> QED
          BY <5>1, <5>2
      <4> QED
        BY <2>1, <2>3, <4>1, <4>2, <4>3
    <3> QED
      BY <3>1, <3>2
  <2> QED
    BY <2>5, <2>6 DEF RubricIds
<1> QED
  BY <1>2, <1>4, <1>6, <1>7, RubricMoves DEF RubricInv

LEMMA CommitRubricAccounts ==
    ASSUME Typed, Next, RubricInv, NEW a \in Agents, CommitRubric(a)
    PROVE  RubricInv'
<1>1. Inserting(a) /\ call[a].row \in RubricRows
  BY CallTypes DEF CommitRubric, Inserting, RubricInserts, RubricDrafts, Typed
<1>2. /\ call' = [call EXCEPT ![a] = Idle] /\ rubrics' = rubrics \cup {call[a].row}
      /\ UNCHANGED <<nextRubric, view>>
  BY DEF CommitRubric, End
<1>3. /\ \A b \in Agents \ {a} : call'[b] = call[b]
      /\ call'[a].op = "idle"
  BY <1>2 DEF Idle, Typed, TypeOK
<1>4. \A b \in Agents : ViewAccounts(b)' /\ DraftAccounts(b)' /\ InsertAccounts(b)'
  <2>1. DraftAccounts(a)' /\ InsertAccounts(a)'
    BY <1>3 DEF DraftAccounts, InsertAccounts, Inserting
  <2> QED
    BY <1>2, <1>3, <2>1, AccountsStay DEF SameReading
<1>5. \A r \in rubrics' : RubricAccounts(r)'
  <2>1. FeedGrows
    BY KnownGrows DEF Typed
  <2>2. Accounted(call[a].row.through, call[a].row.seen, call[a].row.pending) /\ call[a].row.through \in Nat
    BY <1>1 DEF RubricInv, InsertAccounts, RubricRows
  <2>3. \A r \in rubrics \cup {call[a].row} :
           r.through < nextVerdict' /\ \A id \in Known' : id <= r.through => id \in r.seen \cup r.pending
    BY <2>1, <2>2, AccountedStays, AccountsStay
  <2> QED
    BY <1>2, <2>3 DEF RubricAccounts, Accounted
<1>6. RubricIds'
  <2>1. \A b \in Agents : Inserting(b)' => b # a /\ Inserting(b) /\ call'[b] = call[b]
    BY <1>3 DEF Inserting
  <2> QED
    BY <1>1, <1>2, <2>1 DEF RubricInv, RubricIds
<1> QED
  BY <1>4, <1>5, <1>6 DEF RubricInv

LEMMA RubricInvHolds == Spec => []RubricInv
<1>1. Init => RubricInv
  <2> SUFFICES ASSUME Init PROVE RubricInv
    OBVIOUS
  <2>1. \A a \in Agents : call[a].op = "idle" /\ view[a] = NoView
    BY DEF Init, Idle
  <2>2. Known = {} /\ nextVerdict = 1 /\ rubrics = {}
    BY <2>1 DEF Init, Known, Ids
  <2> QED
    BY <2>1, <2>2 DEF RubricInv, ViewAccounts, DraftAccounts, InsertAccounts, Inserting, Accounted,
                      RubricIds, NoView
<1>2. RubricInv /\ Typed /\ [Next]_vars => RubricInv'
  <2> SUFFICES ASSUME RubricInv, Typed, [Next]_vars
               PROVE  RubricInv'
    OBVIOUS
  <2>1. CASE Next
    <3>1. CASE RubricStep
      BY <2>1, <3>1, GetStateAccounts, AppendRubricAccounts, CheckVerdictAccounts, InsertRubricAccounts,
         CommitRubricAccounts DEF RubricStep
    <3>2. ASSUME NEW ops, "rubric" \notin ops, CallsOf(ops), rubrics' \subseteq rubrics,
                 UNCHANGED nextRubric, \A a \in Agents : SameReading(a)
          PROVE  RubricInv'
      <4>1. FeedStands
        BY <3>2 DEF FeedStands, CallsOf, ResetStands
      <4> QED
        BY <2>1, <4>1, RubricStands
    <3>3. CASE ShownStep
      <4>1. ASSUME NEW a \in Agents
            PROVE  SameReading(a)
        <5>1. CASE UNCHANGED view
          BY <5>1 DEF SameReading
        <5>2. ASSUME NEW b \in Agents, ReadCandidates(b)
              PROVE  SameReading(a)
          <6>1. PICK at, rows, version, open :
                    view' = [view EXCEPT ![b] = [@ EXCEPT !.at = at, !.rows = rows,
                                                          !.version = version, !.open = open]]
            BY <5>2, Zenon DEF ReadCandidates
          <6> QED
            BY <6>1 DEF SameReading, Typed, TypeOK, ViewState
        <5> QED
          BY <3>3, <5>1, <5>2, Zenon DEF ShownStep, CrawlStep, StampChange, CommitChange, GetCandidates, MarkShown
      <4> QED
        BY <3>2, <3>3, <4>1, ShownFrame DEF feedVars, Typed
    <3>4. CASE VerdictStep
      BY <3>2, <3>4, VerdictFrame DEF Typed, SameReading
    <3>5. CASE BatchStep
      BY <3>2, <3>5, BatchFrame DEF Typed, SameReading, feedVars
    <3>6. CASE ProfileStep
      BY <3>2, <3>6, ProfileFrame DEF Typed, SameReading, feedVars
    <3>7. CASE ListStep
      BY <3>2, <3>7, ListFrame DEF Typed, SameReading, feedVars
    <3>8. CASE ResetStep
      BY <3>2, <3>8, ResetFrame DEF Typed, SameReading
    <3> QED
      BY <2>1, <3>1, <3>3, <3>4, <3>5, <3>6, <3>7, <3>8, StepKinds
  <2>2. CASE UNCHANGED vars
    <3>1. Known' = Known /\ UNCHANGED <<nextVerdict, nextRubric, rubrics, view, call>>
      BY <2>2 DEF vars, feedVars, Known, Ids
    <3> QED
      BY <3>1 DEF RubricInv, ViewAccounts, DraftAccounts, InsertAccounts, Inserting, Accounted,
                  RubricIds, RubricAccounts
  <2> QED
    BY <2>1, <2>2
<1> QED
  BY <1>1, <1>2, TypesHold, PTL DEF Spec

\* A rubric reported fresh accounts for every verdict there is, for any number of
\* sessions, verdicts, lost calls and resets in between: its author saw it, or its
\* id was already taken when the author read.
THEOREM FreshRubricAccounts == Spec => []FreshRubricSawAll
<1>1. Typed /\ RubricInv => FreshRubricSawAll
  <2> SUFFICES ASSUME Typed, RubricInv, verdicts # {}, ~Stale, NEW r \in CurrentRubric,
                      NEW v \in verdicts
               PROVE  v.id \in r.seen \cup r.pending
    BY DEF FreshRubricSawAll, Ids
  <2>1. PICK s \in CurrentRubric : ~ (Latest(verdicts) > s.through)
    BY DEF Stale
  <2>2. s = r
    BY <2>1 DEF CurrentRubric, RubricInv, RubricIds
  <2>3. v.id <= Latest(verdicts) /\ Latest(verdicts) \in Nat /\ v.id \in Nat
    <3>1. \A w \in verdicts : w.id \in Nat /\ w.id < nextVerdict
      BY DEF Typed, KnownBelow, Known, Ids, TypeOK, VerdictRows
    <3> QED
      BY <3>1, LatestTyped DEF Typed, TypeOK
  <2>4. r \in rubrics /\ r.through \in Nat /\ Accounted(r.through, r.seen, r.pending)
    BY DEF CurrentRubric, RubricInv, RubricAccounts, Typed, TypeOK, RubricRows
  <2>5. v.id <= r.through /\ v.id \in Known
    BY <2>1, <2>2, <2>3, <2>4 DEF Known, Ids
  <2> QED
    BY <2>4, <2>5 DEF Accounted
<1> QED
  BY <1>1, TypesHold, RubricInvHolds, PTL

---------------------------------------------------------------------------
(* The profile keeps its fields.                                             *)

\* Whoever updates the profile holds its lock, and is alone.
LockHeld ==
    /\ \A a \in Agents : call[a].op = "profile" => lock = {a}
    /\ \A a \in lock : call[a].op = "profile"

\* What an update is about to write is what the profile holds, but for its field;
\* a reset may have come in between.
UpdateFits(a) ==
    call[a].op = "profile" =>
        /\ call[a].next[call[a].field] = call[a].value
        /\ ~call[a].spans =>
              \A f \in Fields \ (revived \cup {call[a].field}) : call[a].next[f] = lastSet[f]

\* A reset that has deleted the row keeps every update from writing it.
ResetOwnsProfile(a) ==
    call[a].op = "reset" /\ call[a].doomed.profile # {} =>
        /\ call[a].doomed.profile = {profile}
        /\ \A b \in Agents : call[b].op = "profile" => call[b].pc = "upsert"

\* One reset at a time.
SoleReset == \A a, b \in Agents : call[a].op = "reset" /\ call[b].op = "reset" => a = b

ProfileInv ==
    /\ LockHeld /\ ProfileKeepsFields
    /\ \A a \in Agents : UpdateFits(a) /\ ResetOwnsProfile(a)

\* Steps of other tables.
LEMMA ProfileStands ==
    ASSUME Typed, ProfileInv, UNCHANGED <<profile, lock, lastSet, revived>>,
           NEW ops, CallsOf(ops), {"profile", "reset"} \cap ops = {}
    PROVE  ProfileInv'
<1>1. \A a \in Agents : call'[a].op = "profile" \/ call[a].op = "profile" => call'[a] = call[a]
  BY DEF CallsOf, ResetStands
<1>2. \A a \in Agents : call'[a].op = "reset" =>
          call[a].op = "reset" /\ call'[a].doomed = call[a].doomed
  BY DEF CallsOf, ResetStands
<1>3. LockHeld'
  <2>1. lock' = lock /\ lock \subseteq Agents
    BY DEF Typed, TypeOK
  <2>2. \A a \in Agents : call'[a].op = "profile" => lock' = {a}
    BY <1>1, <2>1 DEF ProfileInv, LockHeld
  <2>3. \A a \in lock' : call'[a].op = "profile"
    BY <1>1, <2>1 DEF ProfileInv, LockHeld
  <2> QED
    BY <2>2, <2>3 DEF LockHeld
<1>4. ProfileKeepsFields'
  BY DEF ProfileInv, ProfileKeepsFields, GetProfile
<1>5. \A a \in Agents : UpdateFits(a)' /\ ResetOwnsProfile(a)'
  BY <1>1, <1>2 DEF ProfileInv, UpdateFits, ResetOwnsProfile
<1> QED
  BY <1>3, <1>4, <1>5 DEF ProfileInv

LEMMA UpdateProfileFits ==
    ASSUME Typed, ProfileInv, NEW a \in Agents, NEW f \in Fields, NEW v \in 0 .. MaxWrites,
           UpdateProfile(a, f, v)
    PROVE  ProfileInv'
<1> DEFINE next == Merge(GetProfile, f, v)
<1>1. /\ call[a] = Idle /\ lock = {} /\ lock' = {a}
      /\ call' = [call EXCEPT ![a] = [op |-> "profile", pc |-> "upsert", field |-> f, value |-> v,
                                      next |-> next, spans |-> FALSE]]
      /\ UNCHANGED <<profile, lastSet, revived>>
  BY DEF UpdateProfile, Begin, CanLockProfile
<1>2. GetProfile \in [Fields -> Nat]
  BY DEF GetProfile, ZeroProfile, Typed, TypeOK, Profiles
<1>3. next[f] = v /\ \A g \in Fields \ {f} : next[g] = GetProfile[g]
  BY <1>2 DEF Merge
<1> HIDE DEF next
<1>4. /\ call'[a].op = "profile" /\ call'[a].pc = "upsert" /\ call'[a].field = f /\ call'[a].value = v
      /\ call'[a].next = next
      /\ \A b \in Agents \ {a} : call'[b] = call[b] /\ call[b].op # "profile"
  BY <1>1 DEF Typed, TypeOK, ProfileInv, LockHeld
<1>5. LockHeld'
  BY <1>1, <1>4 DEF LockHeld
<1>6. ProfileKeepsFields'
  BY <1>1 DEF ProfileInv, ProfileKeepsFields, GetProfile
<1>7. \A b \in Agents : UpdateFits(b)' /\ ResetOwnsProfile(b)'
  <2>1. UpdateFits(a)'
    BY <1>1, <1>3, <1>4 DEF ProfileInv, ProfileKeepsFields, UpdateFits
  <2>2. \A b \in Agents \ {a} : UpdateFits(b)'
    BY <1>4 DEF UpdateFits
  <2>3. \A b \in Agents : ResetOwnsProfile(b)'
    BY <1>1, <1>4 DEF ProfileInv, ResetOwnsProfile
  <2> QED
    BY <2>1, <2>2, <2>3
<1> QED
  BY <1>5, <1>6, <1>7 DEF ProfileInv

LEMMA SetProfileFits ==
    ASSUME Typed, ProfileInv, NEW a \in Agents, SetProfile(a)
    PROVE  ProfileInv'
<1>1. call[a] \in ProfileCalls /\ call[a].op = "profile"
  BY CallTypes DEF SetProfile, Typed
<1>2. /\ call' = [call EXCEPT ![a] = [call[a] EXCEPT !.pc = "commit"]]
      /\ UNCHANGED <<profile, lock, lastSet, revived>> /\ Doomed("profile") = {}
  BY DEF SetProfile, Continue, profileVars
<1>3. /\ call'[a].op = "profile" /\ call'[a].field = call[a].field /\ call'[a].value = call[a].value
      /\ call'[a].next = call[a].next /\ call'[a].spans = call[a].spans
      /\ \A b \in Agents \ {a} : call'[b] = call[b]
  BY <1>1, <1>2 DEF ProfileCalls, Typed, TypeOK
<1>4. LockHeld'
  BY <1>1, <1>2, <1>3 DEF ProfileInv, LockHeld
<1>5. ProfileKeepsFields'
  BY <1>2 DEF ProfileInv, ProfileKeepsFields, GetProfile
<1>6. \A b \in Agents : UpdateFits(b)'
  BY <1>1, <1>2, <1>3 DEF ProfileInv, UpdateFits
<1>7. \A b \in Agents : ResetOwnsProfile(b)'
  <2>1. \A b \in Agents : call[b].op = "reset" => call[b].doomed.profile = {}
    BY <1>2 DEF Doomed, Resetting
  <2> QED
    BY <1>3, <2>1 DEF ResetOwnsProfile
<1> QED
  BY <1>4, <1>5, <1>6, <1>7 DEF ProfileInv

LEMMA CommitProfileFits ==
    ASSUME Typed, ProfileInv, NEW a \in Agents, CommitProfile(a)
    PROVE  ProfileInv'
<1>1. call[a] \in ProfileCalls /\ call[a].op = "profile" /\ call[a].pc = "commit"
  BY CallTypes DEF CommitProfile, Typed
<1>2. /\ call' = [call EXCEPT ![a] = Idle] /\ profile' = call[a].next /\ lock' = lock \ {a}
      /\ lastSet' = [lastSet EXCEPT ![call[a].field] = call[a].value]
      /\ revived' = (IF call[a].spans THEN Fields ELSE revived) \ {call[a].field}
  BY DEF CommitProfile, End
<1>3. /\ call'[a].op = "idle" /\ \A b \in Agents \ {a} : call'[b] = call[b]
      /\ lock = {a} /\ \A b \in Agents \ {a} : call[b].op # "profile"
  BY <1>1, <1>2 DEF Idle, Typed, TypeOK, ProfileInv, LockHeld
<1>4. LockHeld'
  BY <1>2, <1>3 DEF LockHeld
<1>5. ProfileKeepsFields'
  <2> SUFFICES ASSUME NEW f \in Fields, f \notin revived'
               PROVE  GetProfile'[f] = lastSet'[f]
    BY DEF ProfileKeepsFields
  <2>1. GetProfile'[f] = call[a].next[f]
    <3>1. call[a].next = NoProfile => Fields = {}
      BY <1>1 DEF ProfileCalls, NoProfile
    <3> QED
      BY <1>2, <3>1 DEF GetProfile
  <2>2. CASE f = call[a].field
    BY <1>1, <1>2, <2>1, <2>2 DEF ProfileInv, UpdateFits, Typed, TypeOK, ProfileCalls
  <2>3. CASE f # call[a].field
    <3>1. ~call[a].spans /\ f \notin revived
      BY <1>2, <2>3
    <3> QED
      BY <1>1, <1>2, <2>1, <2>3, <3>1 DEF ProfileInv, UpdateFits, Typed, TypeOK
  <2> QED
    BY <2>2, <2>3
<1>6. \A b \in Agents : UpdateFits(b)'
  BY <1>3 DEF UpdateFits
<1>7. \A b \in Agents : ResetOwnsProfile(b)'
  BY <1>1, <1>3 DEF ProfileInv, ResetOwnsProfile
<1> QED
  BY <1>4, <1>5, <1>6, <1>7 DEF ProfileInv

LEMMA OneReset ==
    ASSUME Typed, SoleReset, Next
    PROVE  SoleReset'
<1>1. ASSUME NEW ops, "reset" \notin ops, CallsOf(ops)
      PROVE  SoleReset'
  BY <1>1 DEF CallsOf, ResetStands, SoleReset
<1>2. CASE ShownStep \/ VerdictStep \/ BatchStep
  BY <1>1, <1>2, ShownFrame, VerdictFrame, BatchFrame DEF Typed
<1>3. CASE RubricStep \/ ProfileStep \/ ListStep
  BY <1>1, <1>3, RubricFrame, ProfileFrame, ListFrame DEF Typed
<1>4. CASE ResetStep
  <2>1. PICK a \in Agents : ResetTasteState(a) \/ ResetStatement(a) \/ CommitReset(a) \/ ResetGivesUp(a)
    BY <1>4 DEF ResetStep
  <2>5. CASE ResetGivesUp(a)
    <3>1. call[a].op = "reset" /\ \A b \in Agents \ {a} : call'[b] = call[b]
      BY <2>5 DEF ResetGivesUp, End, Typed, TypeOK
    <3> QED
      BY <3>1 DEF SoleReset
  <2>2. CASE ResetTasteState(a)
    <3>1. \A b \in Agents : call[b].op # "reset"
      BY <2>2 DEF ResetTasteState, Resetting
    <3>2. \A b \in Agents \ {a} : call'[b] = call[b]
      BY <2>2 DEF ResetTasteState, Begin, Typed, TypeOK
    <3> QED
      BY <3>1, <3>2 DEF SoleReset
  <2>3. CASE ResetStatement(a)
    <3>1. call[a].op = "reset" /\ \A b \in Agents \ {a} : call'[b] = call[b]
      BY <2>3 DEF ResetStatement, Continue, End, Typed, TypeOK
    <3> QED
      BY <3>1 DEF SoleReset
  <2>4. CASE CommitReset(a)
    <3>1. \A b \in Agents : call'[b].op = "reset" => call[b].op = "reset"
      <4> TAKE b \in Agents
      <4>1. CASE b = a
        BY <2>4, <4>1 DEF CommitReset, Idle
      <4>2. CASE b # a /\ call[b].op = "profile"
        <5>1. call[b] \in ProfileCalls
          BY <4>2, CallTypes DEF Typed
        <5> QED
          BY <2>4, <4>2, <5>1 DEF CommitReset, ProfileCalls
      <4>3. CASE b # a /\ call[b].op # "profile"
        BY <2>4, <4>3 DEF CommitReset
      <4> QED
        BY <4>1, <4>2, <4>3
    <3> QED
      BY <3>1 DEF SoleReset
  <2> QED
    BY <2>1, <2>2, <2>3, <2>4, <2>5
<1> QED
  BY <1>2, <1>3, <1>4, StepKinds

\* A reset begins: it has deleted nothing yet.
LEMMA ResetBegins ==
    ASSUME Typed, NEW a \in Agents, ResetTasteState(a)
    PROVE  /\ \A b \in Agents \ {a} : call'[b] = call[b] /\ call[b].op # "reset"
           /\ call[a].op = "idle" /\ call'[a].op = "reset"
           /\ call'[a].next = 1 /\ call'[a].doomed = NothingDoomed
           /\ call'[a].before = [t \in DOMAIN NothingDoomed |-> ResetRows(t)]
<1>1. call' = [call EXCEPT ![a] = [op |-> "reset", next |-> 1, doomed |-> NothingDoomed,
                                   before |-> [t \in DOMAIN NothingDoomed |-> ResetRows(t)]]]
  BY DEF ResetTasteState, Begin
<1>2. call[a].op = "idle" /\ \A b \in Agents : call[b].op # "reset"
  BY DEF ResetTasteState, Begin, Idle, Resetting
<1> DEFINE saved == [t \in DOMAIN NothingDoomed |-> ResetRows(t)]
<1> HIDE DEF saved
<1>3. call' = [call EXCEPT ![a] = [op |-> "reset", next |-> 1, doomed |-> NothingDoomed, before |-> saved]]
  BY <1>1 DEF saved
<1>4. /\ \A b \in Agents \ {a} : call'[b] = call[b]
      /\ call'[a].op = "reset" /\ call'[a].next = 1 /\ call'[a].doomed = NothingDoomed
      /\ call'[a].before = saved
  BY <1>3 DEF Typed, TypeOK
<1> QED
  BY <1>2, <1>4 DEF saved

\* The tables a statement has not come to yet keep their rows.
LEMMA StatementDeletes ==
    ASSUME Typed, NEW a \in Agents, ResetStatement(a), call'[a] # Idle
    PROVE  /\ \A b \in Agents \ {a} : call'[b] = call[b]
           /\ call[a].op = "reset" /\ call'[a].op = "reset" /\ call[a].next \in 1 .. 6
           /\ call'[a].next = call[a].next + 1 /\ call'[a].before = call[a].before
           /\ ~ResetWaits(ResetOrder[call[a].next])
           /\ call'[a].doomed[ResetOrder[call[a].next]] = ResetRows(ResetOrder[call[a].next])
           /\ \A t \in DOMAIN NothingDoomed \ {ResetOrder[call[a].next]} :
                 call'[a].doomed[t] = call[a].doomed[t]
<1>1. call[a] \in ResetCalls /\ call[a].op = "reset" /\ call[a].next \in 1 .. 6
  BY CallTypes, ResetOrderTables DEF ResetStatement, ResetCalls, Typed
<1> DEFINE table == ResetOrder[call[a].next]
           rows  == ResetRows(table)
<1>2. table \in DOMAIN NothingDoomed
  BY <1>1, ResetOrderTables DEF NothingDoomed
<1> HIDE DEF table, rows
<1>3. call' = [call EXCEPT ![a] = [call[a] EXCEPT !.next = @ + 1, !.doomed = [@ EXCEPT ![table] = rows]]]
  <2>1. call' = [call EXCEPT ![a] = [call[a] EXCEPT !.next = @ + 1, !.doomed[table] = rows]]
    BY DEF ResetStatement, Continue, End, table, rows, Typed, TypeOK
  <2> QED
    BY <2>1
<1>4. ~ResetWaits(table)
  BY DEF ResetStatement, table
<1>5. call[a].doomed \in TableRows /\ DOMAIN call[a].doomed = DOMAIN NothingDoomed
  BY <1>1 DEF ResetCalls, TableRows, NothingDoomed
<1> DEFINE doomed == [call[a].doomed EXCEPT ![table] = rows]
<1>6. doomed[table] = rows /\ \A t \in DOMAIN NothingDoomed \ {table} : doomed[t] = call[a].doomed[t]
  BY <1>2, <1>5
<1> HIDE DEF doomed
<1>7. call' = [call EXCEPT ![a] = [call[a] EXCEPT !.next = @ + 1, !.doomed = doomed]]
  BY <1>3 DEF doomed
<1>8. /\ \A b \in Agents \ {a} : call'[b] = call[b]
      /\ call'[a].op = "reset" /\ call'[a].next = call[a].next + 1
      /\ call'[a].before = call[a].before /\ call'[a].doomed = doomed
  BY <1>1, <1>7 DEF ResetCalls, Typed, TypeOK
<1> QED
  BY <1>1, <1>4, <1>6, <1>8 DEF table, rows

\* A statement that meets a rubric it cannot cut loose gives the reset up.
LEMMA StatementGivesUp ==
    ASSUME Typed, NEW a \in Agents, ResetStatement(a), call'[a] = Idle
    PROVE  call[a].op = "reset" /\ \A b \in Agents \ {a} : call'[b] = call[b]
BY DEF ResetStatement, Continue, End, Typed, TypeOK

\* A reset that a deadlock ends leaves everything as it was.
LEMMA ResetAborts ==
    ASSUME Typed, NEW a \in Agents, ResetGivesUp(a)
    PROVE  /\ call[a].op = "reset" /\ call[a].next <= 6 /\ call'[a] = Idle
           /\ \A b \in Agents \ {a} : call'[b] = call[b]
           /\ UNCHANGED <<shown, feedVars, profileVars, listVars>>
BY ResetOrderTables DEF ResetGivesUp, End, Typed, TypeOK

\* What a committed reset leaves of the open calls.
LEMMA ResetCommits ==
    ASSUME Typed, NEW a \in Agents, CommitReset(a)
    PROVE  /\ call[a] \in ResetCalls /\ call[a].op = "reset" /\ call[a].next > 6 /\ call'[a] = Idle
           /\ \A b \in Agents \ {a} :
                 /\ call'[b].op = call[b].op
                 /\ call'[b] # call[b] =>
                      call[b] \in ProfileCalls /\ call[a].doomed.profile # {}
                      /\ call'[b] = [call[b] EXCEPT !.spans = TRUE]
                 /\ call[b].op = "profile" /\ call[a].doomed.profile # {} => call'[b].spans
<1>1. call[a] \in ResetCalls /\ call[a].op = "reset" /\ call[a].next > 6 /\ call'[a] = Idle
  BY CallTypes, ResetOrderTables DEF CommitReset, Typed
<1>2. ASSUME NEW b \in Agents \ {a}, call[b].op = "profile", call[a].doomed.profile # {}
      PROVE  /\ call[b] \in ProfileCalls /\ call'[b] = [call[b] EXCEPT !.spans = TRUE]
             /\ call'[b].op = call[b].op /\ call'[b].spans
  <2>1. call[b] \in ProfileCalls
    BY <1>2, CallTypes DEF Typed
  <2>2. call'[b] = [call[b] EXCEPT !.spans = TRUE]
    BY <1>2 DEF CommitReset
  <2> QED
    BY <2>1, <2>2 DEF ProfileCalls
<1>3. ASSUME NEW b \in Agents \ {a}, call[b].op # "profile" \/ call[a].doomed.profile = {}
      PROVE  call'[b] = call[b]
  BY <1>3 DEF CommitReset
<1> QED
  BY <1>1, <1>2, <1>3

LEMMA ResetFits ==
    ASSUME Typed, SoleReset, ProfileInv, ResetStep
    PROVE  ProfileInv'
<1>1. PICK a \in Agents : ResetTasteState(a) \/ ResetStatement(a) \/ CommitReset(a) \/ ResetGivesUp(a)
  BY DEF ResetStep
<1>5. CASE ResetGivesUp(a)
  <2>1. call[a].op = "reset" /\ call'[a] = Idle /\ \A b \in Agents \ {a} : call'[b] = call[b]
    BY <1>5, ResetAborts
  <2>2. UNCHANGED <<profile, lock, lastSet, revived>>
    BY <1>5, ResetAborts DEF profileVars
  <2>3. LockHeld'
    <3>1. lock \subseteq Agents
      BY DEF Typed, TypeOK
    <3> QED
      BY <2>1, <2>2, <3>1 DEF ProfileInv, LockHeld, Idle
  <2>4. ProfileKeepsFields'
    BY <2>2 DEF ProfileInv, ProfileKeepsFields, GetProfile
  <2>5. \A b \in Agents : UpdateFits(b)'
    BY <2>1, <2>2 DEF ProfileInv, UpdateFits, Idle
  <2>6. \A b \in Agents : ResetOwnsProfile(b)'
    BY <2>1 DEF ResetOwnsProfile, SoleReset, Idle
  <2> QED
    BY <2>3, <2>4, <2>5, <2>6 DEF ProfileInv
<1>2. CASE ResetTasteState(a)
  <2>1. /\ \A b \in Agents \ {a} : call'[b] = call[b] /\ call[b].op # "reset"
        /\ call[a].op = "idle" /\ call'[a].op = "reset" /\ call'[a].doomed.profile = {}
    <3>1. NothingDoomed.profile = {}
      BY DEF NothingDoomed
    <3>2. /\ \A b \in Agents \ {a} : call'[b] = call[b] /\ call[b].op # "reset"
          /\ call[a].op = "idle" /\ call'[a].op = "reset" /\ call'[a].doomed = NothingDoomed
      BY <1>2, ResetBegins, Zenon
    <3> QED
      BY <3>1, <3>2
  <2>2. UNCHANGED <<profile, lock, lastSet, revived>>
    BY <1>2 DEF ResetTasteState, profileVars
  <2>3. LockHeld'
    BY <2>1, <2>2 DEF ProfileInv, LockHeld, Typed, TypeOK
  <2>4. ProfileKeepsFields'
    BY <2>2 DEF ProfileInv, ProfileKeepsFields, GetProfile
  <2>5. \A b \in Agents : UpdateFits(b)' /\ ResetOwnsProfile(b)'
    BY <2>1, <2>2 DEF ProfileInv, UpdateFits, ResetOwnsProfile
  <2> QED
    BY <2>3, <2>4, <2>5 DEF ProfileInv
<1>3. CASE ResetStatement(a)
  <2>1. UNCHANGED <<profile, lock, lastSet, revived>>
    BY <1>3 DEF ResetStatement, profileVars
  <2>2. call[a].op = "reset" /\ call'[a].op # "profile" /\ \A b \in Agents \ {a} : call'[b] = call[b]
    BY <1>3, StatementDeletes, StatementGivesUp DEF Idle
  <2>3. LockHeld'
    <3>1. lock \subseteq Agents
      BY DEF Typed, TypeOK
    <3> QED
      BY <2>1, <2>2, <3>1 DEF ProfileInv, LockHeld
  <2>4. ProfileKeepsFields'
    BY <2>1 DEF ProfileInv, ProfileKeepsFields, GetProfile
  <2>5. \A b \in Agents : UpdateFits(b)'
    BY <2>1, <2>2 DEF ProfileInv, UpdateFits
  <2>6. \A b \in Agents \ {a} : ResetOwnsProfile(b)'
    BY <2>2 DEF ResetOwnsProfile, SoleReset
  <2>7. ResetOwnsProfile(a)'
    <3>1. CASE call'[a] = Idle
      BY <3>1 DEF ResetOwnsProfile, Idle
    <3> DEFINE table == ResetOrder[call[a].next]
    <3>2. CASE call'[a] # Idle /\ table # "profile"
      <4>1. call'[a].doomed.profile = call[a].doomed.profile
        BY <1>3, <3>2, StatementDeletes DEF NothingDoomed
      <4> QED
        BY <2>1, <2>2, <4>1 DEF ProfileInv, ResetOwnsProfile
    <3>3. CASE call'[a] # Idle /\ table = "profile"
      <4>1. call'[a].doomed.profile = {profile} \ {NoProfile} /\ ~ResetWaits("profile")
        BY <1>3, <3>3, StatementDeletes DEF ResetRows
      <4>2. profile # NoProfile => \A b \in Agents : call[b].op = "profile" => call[b].pc # "commit"
        BY <4>1 DEF ResetWaits
      <4>3. \A b \in Agents : call[b].op = "profile" => call[b].pc \in {"upsert", "commit"}
        BY CallTypes DEF Typed, ProfileCalls
      <4> QED
        BY <2>1, <2>2, <4>1, <4>2, <4>3 DEF ResetOwnsProfile
    <3> QED
      BY <3>1, <3>2, <3>3
  <2> QED
    BY <2>3, <2>4, <2>5, <2>6, <2>7 DEF ProfileInv
<1>4. CASE CommitReset(a)
  <2> DEFINE gone == call[a].doomed.profile
  <2>1. /\ profile' = IF profile \in gone THEN NoProfile ELSE profile
        /\ lastSet' = IF gone = {} THEN lastSet ELSE ZeroProfile
        /\ revived' = IF gone = {} THEN revived ELSE {}
        /\ lock' = lock
    BY <1>4 DEF CommitReset
  <2>2. call[a].op = "reset" /\ call'[a].op = "idle" /\ \A b \in Agents \ {a} : call'[b].op = call[b].op
    <3>1. Idle.op = "idle"
      BY DEF Idle
    <3>2. call[a].op = "reset" /\ call'[a] = Idle /\ \A b \in Agents \ {a} : call'[b].op = call[b].op
      BY <1>4, ResetCommits, Zenon
    <3> QED
      BY <3>1, <3>2
  <2>3. LockHeld'
    <3>1. lock \subseteq Agents
      BY DEF Typed, TypeOK
    <3> QED
      BY <2>1, <2>2, <3>1 DEF ProfileInv, LockHeld
  <2>4. gone # {} => gone = {profile}
    BY <2>2 DEF ProfileInv, ResetOwnsProfile
  <2>5. ProfileKeepsFields'
    <3>1. CASE gone = {}
      BY <2>1, <3>1 DEF ProfileInv, ProfileKeepsFields, GetProfile
    <3>2. CASE gone # {}
      <4>1. profile' = NoProfile /\ lastSet' = ZeroProfile
        BY <2>1, <2>4, <3>2
      <4> QED
        BY <4>1 DEF ProfileKeepsFields, GetProfile
    <3> QED
      BY <3>1, <3>2
  <2>6. \A b \in Agents : UpdateFits(b)'
    <3> TAKE b \in Agents
    <3>1. CASE b = a
      BY <2>2, <3>1 DEF UpdateFits
    <3>2. CASE b # a /\ call'[b] = call[b]
      <4>1. call[b].op = "profile" => gone = {} \/ call[b].spans
        BY <1>4, <3>2, ResetCommits
      <4> QED
        BY <2>1, <3>2, <4>1 DEF ProfileInv, UpdateFits
    <3>3. CASE b # a /\ call'[b] # call[b]
      <4>1. call[b] \in ProfileCalls /\ call'[b] = [call[b] EXCEPT !.spans = TRUE]
        BY <1>4, <3>3, ResetCommits
      <4> QED
        BY <4>1 DEF ProfileInv, UpdateFits, ProfileCalls
    <3> QED
      BY <3>1, <3>2, <3>3
  <2>7. \A b \in Agents : ResetOwnsProfile(b)'
    BY <2>2 DEF ResetOwnsProfile, SoleReset
  <2> QED
    BY <2>3, <2>5, <2>6, <2>7 DEF ProfileInv
<1> QED
  BY <1>1, <1>2, <1>3, <1>4, <1>5

LEMMA ResetsAlone == Spec => []SoleReset
<1>1. Init => SoleReset
  BY DEF Init, SoleReset, Idle
<1>2. SoleReset /\ Typed /\ [Next]_vars => SoleReset'
  <2> SUFFICES ASSUME SoleReset, Typed, [Next]_vars
               PROVE  SoleReset'
    OBVIOUS
  <2>1. CASE UNCHANGED vars
    BY <2>1 DEF vars, SoleReset
  <2> QED
    BY <2>1, OneReset
<1> QED
  BY <1>1, <1>2, TypesHold, PTL DEF Spec

LEMMA ProfileInvHolds == Spec => []ProfileInv
<1>1. Init => ProfileInv
  <2> SUFFICES ASSUME Init PROVE ProfileInv
    OBVIOUS
  <2>1. lock = {} /\ profile = NoProfile /\ lastSet = ZeroProfile /\ \A a \in Agents : call[a].op = "idle"
    BY DEF Init, Idle
  <2> QED
    BY <2>1 DEF ProfileInv, LockHeld, ProfileKeepsFields, GetProfile, UpdateFits, ResetOwnsProfile
<1>2. ProfileInv /\ SoleReset /\ Typed /\ [Next]_vars => ProfileInv'
  <2> SUFFICES ASSUME ProfileInv, SoleReset, Typed, [Next]_vars
               PROVE  ProfileInv'
    OBVIOUS
  <2>1. CASE Next
    <3>1. CASE ShownStep
      BY <3>1, ShownFrame, ProfileStands DEF Typed, profileVars
    <3>2. CASE VerdictStep
      BY <3>2, VerdictFrame, ProfileStands DEF Typed, profileVars
    <3>3. CASE BatchStep
      BY <3>3, BatchFrame, ProfileStands DEF Typed
    <3>4. CASE RubricStep
      BY <3>4, RubricFrame, ProfileStands DEF Typed, profileVars
    <3>5. CASE ProfileStep
      BY <3>5, UpdateProfileFits, SetProfileFits, CommitProfileFits DEF ProfileStep
    <3>6. CASE ListStep
      BY <3>6, ListFrame, ProfileStands DEF Typed, profileVars
    <3>7. CASE ResetStep
      BY <3>7, ResetFits
    <3> QED
      BY <2>1, <3>1, <3>2, <3>3, <3>4, <3>5, <3>6, <3>7, StepKinds
  <2>2. CASE UNCHANGED vars
    BY <2>2 DEF vars, profileVars, ProfileInv, LockHeld, ProfileKeepsFields, GetProfile,
                UpdateFits, ResetOwnsProfile
  <2> QED
    BY <2>1, <2>2
<1> QED
  BY <1>1, <1>2, TypesHold, ResetsAlone, PTL DEF Spec

\* Overlapping field updates never drop each other's fields, for any number of
\* sessions, fields and resets: what the profile holds is what was last saved into
\* each field, unless an update carried it across a reset.
THEOREM ProfileUpdatesKept == Spec => []ProfileKeepsFields
BY ProfileInvHolds, PTL DEF ProfileInv

---------------------------------------------------------------------------
(* A batch that is sent again.                                               *)

\* How often an item of the batch may have been recorded, and how often one that
\* is still to be sent.
MayLand(r) == IF ~r.valid THEN 0 ELSE IF r.via = "mcp" THEN 1 ELSE 1 + writes
MayResend(r) == IF ~r.valid THEN 0 ELSE IF r.via = "mcp" THEN 0 ELSE writes

BatchFits(a) ==
    call[a].op = "batch" =>
        /\ call[a].todo \subseteq call[a].sent /\ call[a].sent \subseteq DOMAIN landed[a]
        /\ \A i \in DOMAIN landed[a] : landed[a][i] <= MayLand(call[a])
        /\ \A i \in call[a].todo : landed[a][i] <= MayResend(call[a])

BatchInv == \A a \in Agents : BatchFits(a)

\* A failure counted elsewhere only widens what a batch over REST may record.
LEMMA BatchStands ==
    ASSUME Typed, NEW a \in Agents, BatchFits(a), writes' \in {writes, writes + 1},
           landed'[a] = landed[a], call'[a].op = "batch" => call'[a] = call[a]
    PROVE  BatchFits(a)'
<1> SUFFICES ASSUME call'[a] = call[a], call[a].op = "batch"
             PROVE  BatchFits(a)'
  BY DEF BatchFits
<1>1. call[a] \in BatchCalls /\ writes \in Nat /\ landed[a] \in Seq(Nat)
  BY CallTypes DEF Typed, TypeOK
<1>2. \A i \in DOMAIN landed[a] : landed[a][i] \in Nat
  BY <1>1
<1>3. /\ MayLand(call[a]) \in Nat /\ MayLand(call[a])' \in Nat /\ MayLand(call[a]) <= MayLand(call[a])'
      /\ MayResend(call[a]) \in Nat /\ MayResend(call[a])' \in Nat /\ MayResend(call[a]) <= MayResend(call[a])'
  BY <1>1 DEF MayLand, MayResend, BatchCalls
<1>4. /\ call[a].todo \subseteq call[a].sent /\ call[a].sent \subseteq DOMAIN landed[a]
      /\ \A i \in DOMAIN landed[a] : landed[a][i] <= MayLand(call[a])
      /\ \A i \in call[a].todo : landed[a][i] <= MayResend(call[a])
  BY DEF BatchFits
<1> QED
  BY <1>2, <1>3, <1>4 DEF BatchFits

LEMMA BatchStepFits ==
    ASSUME Typed, BatchInv, BatchStep
    PROVE  BatchInv'
<1>1. PICK a \in Agents : \/ BatchItem(a) \/ BatchFails(a) \/ BatchEnds(a)
                          \/ \E batch \in Batch, via \in Transports, valid \in BOOLEAN :
                                RecordVerdicts(a, batch, via, valid)
  BY Zenon DEF BatchStep
<1>2. writes \in Nat /\ landed[a] \in Seq(Nat) /\ a \in DOMAIN landed
  BY DEF Typed, TypeOK
<1>3. CASE BatchItem(a)
  <2> DEFINE i == Min(call[a].todo)
  <2>1. call[a] \in BatchCalls /\ call[a].op = "batch" /\ call[a].valid /\ call[a].todo # {}
    BY <1>3, CallTypes DEF BatchItem, Typed
  <2>2. i \in call[a].todo
    BY <2>1, MinOfNats DEF BatchCalls
  <2> HIDE DEF i
  <2>3. /\ call' = [call EXCEPT ![a] = [call[a] EXCEPT !.todo = @ \ {i}]]
        /\ landed' = [landed EXCEPT ![a][i] = @ + 1] \/ landed' = landed
        /\ writes' = writes
    BY <1>3 DEF BatchItem, Continue, profileVars, i
  <2>4. /\ call'[a].todo = call[a].todo \ {i} /\ call'[a].sent = call[a].sent
        /\ call'[a].valid = call[a].valid /\ call'[a].via = call[a].via
        /\ \A b \in Agents \ {a} : call'[b] = call[b]
    BY <2>1, <2>3 DEF BatchCalls, Typed, TypeOK
  <2>5. /\ call[a].todo \subseteq call[a].sent /\ call[a].sent \subseteq DOMAIN landed[a]
        /\ \A j \in DOMAIN landed[a] : landed[a][j] \in Nat /\ landed[a][j] <= MayLand(call[a])
        /\ \A j \in call[a].todo : landed[a][j] <= MayResend(call[a])
    BY <1>2, <2>1 DEF BatchInv, BatchFits
  <2>6. landed'[a] \in {landed[a], [landed[a] EXCEPT ![i] = @ + 1]}
    BY <1>2, <2>3
  <2>7. /\ DOMAIN landed'[a] = DOMAIN landed[a] /\ landed'[a][i] \in {landed[a][i], landed[a][i] + 1}
        /\ \A j \in DOMAIN landed[a] \ {i} : landed'[a][j] = landed[a][j]
    BY <2>2, <2>5, <2>6
  <2>8. /\ MayLand(call[a])' = MayLand(call[a]) /\ MayResend(call[a])' = MayResend(call[a])
        /\ MayLand(call[a]) = MayResend(call[a]) + 1 /\ MayResend(call[a]) \in Nat
    BY <1>2, <2>1, <2>3, <2>4 DEF MayLand, MayResend
  <2>9. BatchFits(a)'
    BY <2>2, <2>4, <2>5, <2>7, <2>8 DEF BatchFits
  <2>10. ASSUME NEW b \in Agents \ {a}
         PROVE  BatchFits(b)'
    <3>1. landed'[b] = landed[b]
      BY <2>3 DEF Typed, TypeOK
    <3> QED
      BY <2>3, <2>4, <3>1, BatchStands DEF BatchInv
  <2> QED
    BY <2>9, <2>10 DEF BatchInv
<1>4. CASE BatchFails(a)
  <2>1. call[a] \in BatchCalls /\ call[a].op = "batch" /\ call[a].valid
    BY <1>4, CallTypes DEF BatchFails, Typed
  <2>2. /\ call' = [call EXCEPT ![a] = [call[a] EXCEPT !.todo = Unreported(a), !.sent = Unreported(a)]]
        /\ landed' = landed /\ writes' = writes + 1
    BY <1>4 DEF BatchFails, Continue
  <2>3. /\ call'[a].todo = Unreported(a) /\ call'[a].sent = Unreported(a) /\ call'[a].op = "batch"
        /\ call'[a].valid = call[a].valid /\ call'[a].via = call[a].via
        /\ \A b \in Agents \ {a} : call'[b] = call[b]
    BY <2>1, <2>2 DEF BatchCalls, Typed, TypeOK
  <2>4. /\ call[a].todo \subseteq call[a].sent /\ call[a].sent \subseteq DOMAIN landed[a]
        /\ \A j \in DOMAIN landed[a] : landed[a][j] \in Nat /\ landed[a][j] <= MayLand(call[a])
        /\ \A j \in call[a].todo : landed[a][j] <= MayResend(call[a])
    BY <1>2, <2>1 DEF BatchInv, BatchFits
  <2>5. Unreported(a) \subseteq DOMAIN landed[a]
    BY <2>4 DEF Unreported
  <2>6. CASE call[a].via = "mcp"
    <3>1. MayResend(call[a]) = 0 /\ MayLand(call[a]) = 1
      BY <2>1, <2>6 DEF MayResend, MayLand
    <3>2. MayResend(call[a])' = 0 /\ MayLand(call[a])' = 1
      BY <2>1, <2>3, <2>6 DEF MayResend, MayLand
    <3>3. \A i \in Unreported(a) : landed[a][i] <= 0
      BY <2>4, <2>6, <3>1 DEF Unreported
    <3> QED
      <4>1. BatchFits(a)'
        BY <2>2, <2>3, <2>4, <2>5, <3>1, <3>2, <3>3 DEF BatchFits
      <4>2. \A b \in Agents \ {a} : BatchFits(b)'
        BY <2>2, <2>3, BatchStands DEF BatchInv
      <4> QED
        BY <4>1, <4>2 DEF BatchInv
  <2>7. CASE call[a].via # "mcp"
    <3>1. MayLand(call[a]) = 1 + writes
      BY <2>1, <2>7 DEF MayLand
    <3>2. MayResend(call[a])' = writes + 1 /\ MayLand(call[a])' = writes + 2
      BY <1>2, <2>1, <2>2, <2>3, <2>7 DEF MayResend, MayLand
    <3>3. BatchFits(a)'
      BY <1>2, <2>2, <2>3, <2>4, <2>5, <3>1, <3>2 DEF BatchFits
    <3>4. \A b \in Agents \ {a} : BatchFits(b)'
      BY <2>2, <2>3, BatchStands DEF BatchInv
    <3> QED
      BY <3>3, <3>4 DEF BatchInv
  <2> QED
    BY <2>6, <2>7
<1>5. CASE BatchEnds(a)
  <2>1. call' = [call EXCEPT ![a] = Idle] /\ UNCHANGED <<landed, writes>>
    BY <1>5 DEF BatchEnds, End, profileVars
  <2>2. call'[a].op # "batch" /\ \A b \in Agents \ {a} : call'[b] = call[b]
    BY <2>1 DEF Idle, Typed, TypeOK
  <2> QED
    BY <2>1, <2>2, BatchStands DEF BatchInv
<1>6. ASSUME NEW batch \in Batch, NEW via \in Transports, NEW valid \in BOOLEAN,
             RecordVerdicts(a, batch, via, valid)
      PROVE  BatchInv'
  <2> DEFINE N == 1 .. Len(batch)
  <2> HIDE DEF N
  <2>1. /\ call' = [call EXCEPT ![a] = [op |-> "batch", via |-> via, todo |-> N, valid |-> valid, sent |-> N]]
        /\ landed' = [landed EXCEPT ![a] = [i \in N |-> 0]]
        /\ writes' = writes
    BY <1>6 DEF RecordVerdicts, Begin, profileVars, N
  <2>2. /\ call'[a].todo = N /\ call'[a].sent = N /\ landed'[a] = [i \in N |-> 0]
        /\ \A b \in Agents \ {a} : call'[b] = call[b] /\ landed'[b] = landed[b]
    BY <2>1 DEF Typed, TypeOK
  <2>3. BatchFits(a)'
    BY <1>2, <2>1, <2>2 DEF BatchFits, MayLand, MayResend
  <2>4. \A b \in Agents \ {a} : BatchFits(b)'
    BY <2>1, <2>2, BatchStands DEF BatchInv
  <2> QED
    BY <2>3, <2>4 DEF BatchInv
<1> QED
  BY <1>1, <1>3, <1>4, <1>5, <1>6, Zenon

LEMMA BatchInvHolds == Spec => []BatchInv
<1>1. Init => BatchInv
  BY DEF Init, BatchInv, BatchFits, Idle
<1>2. BatchInv /\ Typed /\ [Next]_vars => BatchInv'
  <2> SUFFICES ASSUME BatchInv, Typed, [Next]_vars
               PROVE  BatchInv'
    OBVIOUS
  <2>1. ASSUME NEW ops, "batch" \notin ops, CallsOf(ops), UNCHANGED landed, writes' \in {writes, writes + 1}
        PROVE  BatchInv'
    <3>1. \A a \in Agents : call'[a].op = "batch" => call'[a] = call[a]
      BY <2>1 DEF CallsOf, ResetStands
    <3> QED
      BY <2>1, <3>1, BatchStands DEF BatchInv
  <2>2. CASE Next
    <3>1. CASE ShownStep
      BY <2>1, <3>1, ShownFrame DEF Typed, profileVars
    <3>2. CASE VerdictStep
      BY <2>1, <3>2, VerdictFrame DEF Typed, profileVars
    <3>3. CASE RubricStep
      BY <2>1, <3>3, RubricFrame DEF Typed, profileVars
    <3>4. CASE ProfileStep
      BY <2>1, <3>4, ProfileFrame DEF Typed
    <3>5. CASE ListStep
      BY <2>1, <3>5, ListFrame DEF Typed, profileVars
    <3>6. CASE ResetStep
      BY <2>1, <3>6, ResetFrame DEF Typed
    <3> QED
      BY <2>2, <3>1, <3>2, <3>3, <3>4, <3>5, <3>6, BatchStepFits, StepKinds
  <2>3. CASE UNCHANGED vars
    BY <2>3 DEF vars, profileVars, BatchInv, BatchFits, MayLand, MayResend
  <2> QED
    BY <2>2, <2>3
<1> QED
  BY <1>1, <1>2, TypesHold, PTL DEF Spec

\* However often a batch fails and is sent again, an item of it is recorded at most
\* once over MCP, and a batch with an invalid item records nothing.
THEOREM BatchSentAgain == Spec => []BatchRecordedOnce
<1>1. BatchInv => BatchRecordedOnce
  BY DEF BatchInv, BatchFits, BatchRecordedOnce, MayLand
<1> QED
  BY <1>1, BatchInvHolds, PTL

---------------------------------------------------------------------------
(* Lists and their items.                                                    *)

\* A list's id is its own and is never given out again, and whoever is adding under
\* a name holds the id of a list of that name.
ListInv ==
    /\ \A x \in lists : x.id < nextList
    /\ \A x, y \in lists : x.id = y.id => x = y
    /\ \A i \in items : i[1] < nextList
    /\ \A a \in Agents : call[a].op = "add" =>
          call[a].id < nextList /\ \A x \in lists : x.id = call[a].id => x.slug = call[a].slug

\* What one step does to lists and items.
ListsMove ==
    /\ nextList' \in {nextList, nextList + 1}
    /\ \A x \in lists' \ lists : x.id = nextList /\ nextList' = nextList + 1
    /\ \A x, y \in lists' \ lists : x = y
    /\ \A i \in items' \ items : \E a \in Agents, x \in lists :
          call[a].op = "add" /\ x.id = call[a].id /\ i = <<x.id, call[a].listing>>

\* An open reset whose history, if it changes, is shortened by one removed item.
HistoryShortens(a) ==
    call'[a].op = "reset" =>
        /\ ResetStands(a)
        /\ \A i \in items \ items' : i[1] \in Ids(lists') => i \notin call'[a].before.items

LEMMA LockStaysDelete ==
    ASSUME Typed, NEW a \in Agents, LockList(a)
    PROVE  call'[a].op \in {"delete", "idle"} /\ \A b \in Agents \ {a} : call'[b] = call[b]
<1>1. call[a].op = "delete" /\ call[a] \in DeleteCalls
  BY CallTypes DEF LockList, Typed
<1> QED
  BY <1>1 DEF LockList, Continue, End, Idle, DeleteCalls, Typed, TypeOK

LEMMA ListsGrow ==
    ASSUME Typed, ListStep
    PROVE  ListsMove /\ \A a \in Agents : HistoryShortens(a)
<1>0. nextList \in Nat
  BY DEF Typed, TypeOK
<1>1. ASSUME ListsMove, items' = items, NEW a \in Agents, \A b \in Agents \ {a} : call'[b] = call[b],
             call'[a].op # "reset"
      PROVE  \A b \in Agents : HistoryShortens(b)
  BY <1>1 DEF HistoryShortens, ResetStands
<1>2. CASE EnsureDefaultList
  <2>1. ListsMove
    <3> DEFINE row == [id |-> nextList, slug |-> Favorites, default |-> TRUE]
    <3>1. row.id = nextList
      OBVIOUS
    <3> HIDE DEF row
    <3>2. lists' \in {lists, lists \cup {row}} /\ nextList' = nextList + 1 /\ items' = items
      BY <1>2 DEF EnsureDefaultList, NewListId, row
    <3> QED
      BY <1>0, <3>1, <3>2 DEF ListsMove
  <2>2. \A b \in Agents : HistoryShortens(b)
    BY <1>2 DEF EnsureDefaultList, HistoryShortens, ResetStands
  <2> QED
    BY <2>1, <2>2
<1>3. ASSUME NEW a \in Agents, NEW s \in Slugs, CreateList(a, s)
      PROVE  ListsMove /\ \A b \in Agents : HistoryShortens(b)
  <2>1. ListsMove /\ items' = items
    <3> DEFINE row == [id |-> nextList, slug |-> s, default |-> FALSE]
    <3>1. row.id = nextList
      OBVIOUS
    <3> HIDE DEF row
    <3>2. lists' \in {lists, lists \cup {row}} /\ nextList' = nextList + 1 /\ items' = items
      BY <1>3 DEF CreateList, NewListId, row
    <3> QED
      BY <1>0, <3>1, <3>2 DEF ListsMove
  <2>2. call'[a].op # "reset" /\ \A b \in Agents \ {a} : call'[b] = call[b]
    BY <1>3 DEF CreateList, Continue, Idle, Typed, TypeOK
  <2> QED
    BY <1>1, <2>1, <2>2
<1>4. ASSUME NEW a \in Agents, NEW s \in Slugs, NEW op \in {"add", "remove"}, NEW l \in Listings,
             GetListBySlug(a, s, op, l)
      PROVE  ListsMove /\ \A b \in Agents : HistoryShortens(b)
  <2>1. ListsMove /\ items' = items
    BY <1>4 DEF GetListBySlug, ListsMove, listVars
  <2>2. call'[a].op # "reset" /\ \A b \in Agents \ {a} : call'[b] = call[b]
    BY <1>4 DEF GetListBySlug, Begin, Idle, Typed, TypeOK
  <2> QED
    BY <1>1, <2>1, <2>2
<1>5. ASSUME NEW a \in Agents,
             ReadExisting(a) \/ LockList(a) \/ DeleteGivesUp(a) \/ \E x \in lists : DeleteList(a, x)
      PROVE  ListsMove /\ \A b \in Agents : HistoryShortens(b)
  <2>1. ListsMove /\ items' = items
    BY <1>5 DEF ReadExisting, LockList, DeleteGivesUp, DeleteList, ListsMove, listVars
  <2>2. call'[a].op # "reset" /\ \A b \in Agents \ {a} : call'[b] = call[b]
    <3>1. CASE LockList(a)
      BY <3>1, LockStaysDelete
    <3>2. CASE ~LockList(a)
      BY <1>5, <3>2 DEF ReadExisting, DeleteGivesUp, DeleteList, Begin, End, Idle, Typed, TypeOK
    <3> QED
      BY <3>1, <3>2
  <2> QED
    BY <1>1, <2>1, <2>2
<1>6. ASSUME NEW a \in Agents, AddToList(a) \/ DropList(a)
      PROVE  ListsMove /\ \A b \in Agents : HistoryShortens(b)
  <2>1. ListsMove /\ \A i \in items \ items' : i[1] \notin Ids(lists')
    <3>1. CASE AddToList(a)
      BY <1>6, <3>1 DEF AddToList, ById, ListsMove
    <3>2. CASE DropList(a)
      BY <3>2 DEF DropList, ItemsOf, Ids, ListsMove
    <3> QED
      BY <1>6, <3>1, <3>2
  <2>2. call'[a].op # "reset" /\ \A b \in Agents \ {a} : call'[b] = call[b]
    BY <1>6 DEF AddToList, DropList, End, Idle, Typed, TypeOK
  <2> QED
    BY <2>1, <2>2 DEF HistoryShortens, ResetStands
<1>7. ASSUME NEW a \in Agents, RemoveFromList(a)
      PROVE  ListsMove /\ \A b \in Agents : HistoryShortens(b)
  <2> DEFINE item == <<call[a].id, call[a].listing>>
  <2>1. items' = items \ {item} /\ lists' = lists /\ nextList' = nextList /\ call'[a] = Idle
    BY <1>7 DEF RemoveFromList
  <2>2. ListsMove
    BY <2>1 DEF ListsMove
  <2>3. ASSUME NEW b \in Agents, call'[b].op = "reset"
        PROVE  HistoryShortens(b)
    <3>1. b # a /\ call[b].op = "reset" /\ call[b] \in ResetCalls
      <4>1. b # a
        BY <2>1, <2>3 DEF Idle
      <4>2. call[b].op = "reset"
        BY <1>7, <2>3, <4>1 DEF RemoveFromList
      <4> QED
        BY <4>1, <4>2, CallTypes DEF Typed
    <3> HIDE DEF item
    <3>2. call'[b] = [call[b] EXCEPT !.before.items = @ \ {item}]
      BY <1>7, <3>1, Zenon DEF RemoveFromList, item
    <3>3. ResetStands(b) /\ call'[b].before.items = call[b].before.items \ {item}
      BY <2>3, <3>1, <3>2 DEF ResetStands, ResetCalls, TableRows, NothingDoomed
    <3> QED
      BY <2>1, <3>3 DEF HistoryShortens
  <2> QED
    BY <2>2, <2>3 DEF HistoryShortens
<1> QED
  BY <1>2, <1>3, <1>4, <1>5, <1>6, <1>7, Zenon DEF ListStep

LEMMA ListInvKept ==
    ASSUME Typed, ListInv, Next
    PROVE  ListInv'
<1>0. /\ nextList \in Nat /\ \A x \in lists : x.id \in Nat
      /\ \A a \in Agents : call[a].op = "add" => call[a].id \in Nat
      /\ \A i \in items : i[1] \in Nat
  BY CallTypes DEF Typed, TypeOK, ListRows, MemberCalls, ItemRows
<1>2. ASSUME ListsMove,
             \A a \in Agents : call'[a].op = "add" =>
                 /\ call'[a].id \in Nat /\ call'[a].id < nextList
                 /\ \A x \in lists : x.id = call'[a].id => x.slug = call'[a].slug
      PROVE  ListInv'
  <2>1. \A x \in lists' : x.id < nextList' /\ (x \in lists \/ x.id = nextList)
    BY <1>0, <1>2 DEF ListInv, ListsMove
  <2>2. \A x, y \in lists' : x.id = y.id => x = y
    BY <1>0, <1>2 DEF ListInv, ListsMove
  <2>3. \A i \in items' : i[1] < nextList'
    BY <1>0, <1>2 DEF ListInv, ListsMove
  <2>4. ASSUME NEW a \in Agents, call'[a].op = "add"
        PROVE  call'[a].id < nextList' /\ \A x \in lists' : x.id = call'[a].id => x.slug = call'[a].slug
    BY <1>0, <1>2, <2>1, <2>4 DEF ListsMove
  <2> QED
    BY <2>1, <2>2, <2>3, <2>4 DEF ListInv
<1>3. ASSUME ListsMove, \A a \in Agents : call'[a].op = "add" => call'[a] = call[a]
      PROVE  ListInv'
  BY <1>0, <1>2, <1>3 DEF ListInv
<1>4. ASSUME NEW ops, "add" \notin ops, CallsOf(ops), UNCHANGED nextList,
             lists' \subseteq lists, items' \subseteq items
      PROVE  ListInv'
  BY <1>3, <1>4 DEF CallsOf, ResetStands, ListsMove
<1>5. CASE ShownStep \/ VerdictStep \/ BatchStep
  BY <1>4, <1>5, ShownFrame, VerdictFrame, BatchFrame DEF Typed, listVars
<1>6. CASE RubricStep \/ ProfileStep \/ ResetStep
  BY <1>4, <1>6, RubricFrame, ProfileFrame, ResetFrame DEF Typed, listVars
<1>7. CASE ListStep
  <2>1. ListsMove
    BY <1>7, ListsGrow
  <2>2. ASSUME NEW a \in Agents, NEW s \in Slugs, NEW op \in {"add", "remove"}, NEW l \in Listings,
               GetListBySlug(a, s, op, l)
        PROVE  ListInv'
    <3>1. \A b \in Agents \ {a} : call'[b] = call[b]
      BY <2>2 DEF GetListBySlug, Begin, Typed, TypeOK
    <3>2. CASE call'[a].op = "add"
      <4>1. BySlug(s) # {}
        BY <2>2, <3>2 DEF GetListBySlug, Begin, Idle, Typed, TypeOK
      <4>2. PICK x \in lists : x.slug = s /\ call'[a] = [op |-> op, slug |-> s, id |-> x.id, listing |-> l]
        <5> DEFINE x == CHOOSE y \in BySlug(s) : TRUE
        <5>1. x \in lists /\ x.slug = s
          BY <4>1 DEF BySlug
        <5>2. call' = [call EXCEPT ![a] = [op |-> op, slug |-> s, id |-> x.id, listing |-> l]]
          BY <2>2, <4>1 DEF GetListBySlug, Begin
        <5> HIDE DEF x
        <5> QED
          BY <5>1, <5>2 DEF Typed, TypeOK
      <4>3. /\ call'[a].id = x.id /\ call'[a].slug = s
            /\ \A y \in lists : y.id = x.id => y.slug = s
        BY <4>2 DEF ListInv
      <4> QED
        BY <1>0, <1>2, <2>1, <3>1, <4>2, <4>3 DEF ListInv
    <3>3. CASE call'[a].op # "add"
      BY <1>3, <2>1, <3>1, <3>3
    <3> QED
      BY <3>2, <3>3
  <2>3. CASE EnsureDefaultList
    BY <1>3, <2>1, <2>3 DEF EnsureDefaultList
  <2>4. ASSUME NEW a \in Agents,
               \/ ReadExisting(a) \/ AddToList(a) \/ LockList(a) \/ DropList(a) \/ DeleteGivesUp(a)
               \/ \E x \in lists : DeleteList(a, x)
        PROVE  ListInv'
    <3>1. call'[a].op # "add" /\ \A b \in Agents \ {a} : call'[b] = call[b]
      <4>1. CASE LockList(a)
        BY <4>1, LockStaysDelete
      <4>2. CASE ~LockList(a)
        BY <2>4, <4>2 DEF ReadExisting, AddToList, DropList, DeleteGivesUp, DeleteList, Begin, End, Idle,
                          Typed, TypeOK
      <4> QED
        BY <4>1, <4>2
    <3> QED
      BY <1>3, <2>1, <3>1
  <2>5. ASSUME NEW a \in Agents, NEW s \in Slugs, CreateList(a, s)
        PROVE  ListInv'
    <3>1. call'[a].op # "add" /\ \A b \in Agents \ {a} : call'[b] = call[b]
      BY <2>5 DEF CreateList, Continue, Idle, Typed, TypeOK
    <3> QED
      BY <1>3, <2>1, <3>1
  <2>6. ASSUME NEW a \in Agents, RemoveFromList(a)
        PROVE  ListInv'
    <3>1. \A b \in Agents : call'[b].op = "add" => call'[b] = call[b]
      <4> SUFFICES ASSUME NEW b \in Agents, call'[b].op = "add"
                   PROVE  call'[b] = call[b]
        OBVIOUS
      <4>1. b # a
        BY <2>6 DEF RemoveFromList, Idle
      <4>2. call[b].op # "reset"
        <5>1. call'[b].op = "reset" \/ call[b].op # "reset"
          BY <1>7, ListFrame DEF CallsOf, ResetStands, Typed
        <5> QED
          BY <5>1
      <4> QED
        BY <2>6, <4>1, <4>2 DEF RemoveFromList
    <3> QED
      BY <1>3, <2>1, <3>1
  <2> QED
    BY <1>7, <2>2, <2>3, <2>4, <2>5, <2>6, Zenon DEF ListStep
<1> QED
  BY <1>5, <1>6, <1>7, StepKinds

LEMMA ListInvHolds == Spec => []ListInv
<1>1. Init => ListInv
  BY DEF Init, ListInv, Idle
<1>2. ListInv /\ Typed /\ [Next]_vars => ListInv'
  <2> SUFFICES ASSUME ListInv, Typed, [Next]_vars
               PROVE  ListInv'
    OBVIOUS
  <2>1. CASE UNCHANGED vars
    BY <2>1 DEF vars, listVars, ListInv
  <2> QED
    BY <2>1, ListInvKept
<1> QED
  BY <1>1, <1>2, TypesHold, PTL DEF Spec

\* An item comes only to a list of the name its caller gave, for any number of
\* sessions and lists, whatever was deleted and created again in between.
THEOREM ItemsUnderTheirName == Spec => AddedUnderItsName
<1>1. Typed /\ ListInv /\ [Next]_vars =>
          [\A i \in items' \ items : \E a \in Agents, x \in lists :
              /\ x.id = i[1] /\ call[a].op = "add"
              /\ call[a].listing = i[2] /\ call[a].slug = x.slug]_vars
  <2> SUFFICES ASSUME Typed, ListInv, Next, NEW i \in items' \ items
               PROVE  \E a \in Agents, x \in lists :
                         /\ x.id = i[1] /\ call[a].op = "add"
                         /\ call[a].listing = i[2] /\ call[a].slug = x.slug
    OBVIOUS
  <2>1. ListStep
    BY StepKinds, ShownFrame, VerdictFrame, BatchFrame, RubricFrame, ProfileFrame, ResetFrame
       DEF Typed, listVars
  <2>2. PICK a \in Agents, x \in lists :
            call[a].op = "add" /\ x.id = call[a].id /\ i = <<x.id, call[a].listing>>
    BY <2>1, ListsGrow DEF ListsMove
  <2> QED
    BY <2>2 DEF ListInv
<1> QED
  BY <1>1, TypesHold, ListInvHolds, PTL DEF Spec, AddedUnderItsName

---------------------------------------------------------------------------
(* A reset erases what was saved before it began.                            *)

\* Until an open reset commits, what was saved before it is still where it was, was
\* replaced, or cannot come back; once its statement has run it is doomed.
FeedErased(a) ==
    /\ call[a].before.rubrics \subseteq rubrics /\ call[a].before.verdicts \subseteq verdicts
    /\ call[a].next > 1 => call[a].before.rubrics \subseteq call[a].doomed.rubrics
    /\ call[a].next > 2 => call[a].before.verdicts \subseteq call[a].doomed.verdicts

ShownErased(a) ==
    \A r \in call[a].before.shown :
        /\ ShownRow(r.listing) # {}
        /\ call[a].next > 3 => ShownRow(r.listing) \subseteq call[a].doomed.shown

ProfileErased(a) ==
    call[a].before.profile # {} =>
        /\ profile # NoProfile
        /\ call[a].next > 4 => call[a].doomed.profile # {}

ItemsErased(a) ==
    \A i \in call[a].before.items :
        /\ i[1] < nextList
        /\ i \in items \/ i[1] \notin Ids(lists)
        /\ call[a].next > 5 /\ i \in items => i \in call[a].doomed.items

ListsErased(a) ==
    \A x \in call[a].before.lists :
        /\ x.id < nextList /\ ~x.default
        /\ call[a].next > 6 /\ x \in lists => x \in call[a].doomed.lists

EraseInv ==
    \A a \in Agents : call[a].op = "reset" =>
        FeedErased(a) /\ ShownErased(a) /\ ProfileErased(a) /\ ItemsErased(a) /\ ListsErased(a)

LEMMA ResetFields ==
    ASSUME Typed, NEW a \in Agents, call[a].op = "reset"
    PROVE  /\ call[a].before.rubrics \subseteq RubricRows /\ call[a].before.verdicts \subseteq VerdictRows
           /\ call[a].before.shown \subseteq ShownRows /\ call[a].before.profile \subseteq Profiles
           /\ call[a].before.items \subseteq ItemRows /\ call[a].before.lists \subseteq ListRows
           /\ call[a].next \in Nat
<1>1. call[a] \in ResetCalls
  BY CallTypes DEF Typed
<1> QED
  BY <1>1 DEF ResetCalls, TableRows

\* What MarkShown leaves: the rows of other listings, and one of this one.
LEMMA MarkShownReplaces ==
    ASSUME NEW a \in Agents, NEW l, NEW asOf, MarkShown(a, l, asOf)
    PROVE  /\ ShownRow(l) \cap Doomed("shown") = {} /\ UNCHANGED call
           /\ \E r : r.listing = l /\ shown' = (shown \ ShownRow(l)) \cup {r}
<1> DEFINE r == [listing |-> l, seen |-> Least(listing[l].stamp, asOf), capped |-> asOf # {},
                 saw |-> view[a].version[l], open |-> {x.stamp : x \in {y \in view[a].open : y.listing = l}}]
<1>1. r.listing = l
  OBVIOUS
<1> HIDE DEF r
<1>2. shown' = (shown \ ShownRow(l)) \cup {r}
  BY DEF MarkShown, r
<1> QED
  BY <1>1, <1>2 DEF MarkShown

\* A step that is not the reset's own.
LEMMA OthersEraseNothing ==
    ASSUME Typed, ListInv, EraseInv, NEW a \in Agents, call[a].op = "reset", HistoryShortens(a),
           call'[a].op = "reset", rubrics \subseteq rubrics', verdicts \subseteq verdicts',
           profile' = profile \/ profile' \in [Fields -> Nat], ListsMove,
           \/ shown' = shown
           \/ \E b \in Agents : \E l \in Listings, asOf \in {{}, {view[b].at}} : MarkShown(b, l, asOf)
    PROVE  FeedErased(a)' /\ ShownErased(a)' /\ ProfileErased(a)' /\ ItemsErased(a)' /\ ListsErased(a)'
<1> DEFINE R == call[a]
           S == call'[a]
<1>1. /\ S.next = R.next /\ S.doomed = R.doomed /\ S.before.rubrics = R.before.rubrics
      /\ S.before.verdicts = R.before.verdicts /\ S.before.shown = R.before.shown
      /\ S.before.profile = R.before.profile /\ S.before.lists = R.before.lists
      /\ S.before.items \subseteq R.before.items
  BY DEF HistoryShortens, ResetStands, NothingDoomed
<1>2. FeedErased(a) /\ ShownErased(a) /\ ProfileErased(a) /\ ItemsErased(a) /\ ListsErased(a)
  BY DEF EraseInv
<1>3. /\ R.before.items \subseteq ItemRows /\ R.before.lists \subseteq ListRows
      /\ R.before.profile \subseteq Profiles /\ R.next \in Nat /\ nextList \in Nat
  BY ResetFields DEF Typed, TypeOK
<1>4. FeedErased(a)'
  BY <1>1, <1>2 DEF FeedErased
<1>5. ShownErased(a)'
  <2>1. CASE shown' = shown
    BY <1>1, <1>2, <2>1 DEF ShownErased, ShownRow
  <2>2. ASSUME NEW b \in Agents, NEW l \in Listings, NEW asOf \in {{}, {view[b].at}}, MarkShown(b, l, asOf)
        PROVE  ShownErased(a)'
    <3>1. PICK r : r.listing = l /\ shown' = (shown \ ShownRow(l)) \cup {r}
      BY <2>2, MarkShownReplaces
    <3>2. ShownRow(l) \cap call[a].doomed.shown = {}
      BY <2>2, MarkShownReplaces DEF Doomed, Resetting
    <3>3. ASSUME NEW s \in R.before.shown
          PROVE  /\ ShownRow(s.listing)' # {}
                 /\ R.next > 3 => ShownRow(s.listing)' \subseteq R.doomed.shown
      <4>1. CASE s.listing = l
        BY <1>2, <3>1, <3>2, <3>3, <4>1 DEF ShownErased, ShownRow
      <4>2. CASE s.listing # l
        BY <1>2, <3>1, <3>3, <4>2 DEF ShownErased, ShownRow
      <4> QED
        BY <4>1, <4>2
    <3> QED
      BY <1>1, <3>3 DEF ShownErased
  <2> QED
    BY <2>1, <2>2
<1>6. ProfileErased(a)'
  <2>1. R.before.profile # {} => profile' # NoProfile
    <3>1. CASE profile' = profile
      BY <1>2, <3>1 DEF ProfileErased
    <3>2. CASE profile' \in [Fields -> Nat]
      <4>1. R.before.profile # {} => profile \in [Fields -> Nat] /\ profile # NoProfile
        BY <1>2 DEF ProfileErased, Profiles, Typed, TypeOK
      <4>2. Fields = {} => \A p \in [Fields -> Nat] : p = NoProfile
        BY DEF NoProfile
      <4>3. Fields # {} => profile' # NoProfile
        BY <3>2 DEF NoProfile
      <4> QED
        BY <4>1, <4>2, <4>3
    <3> QED
      BY <3>1, <3>2
  <2> QED
    BY <1>1, <1>2, <2>1 DEF ProfileErased
<1>7. ItemsErased(a)'
  <2> SUFFICES ASSUME NEW i \in S.before.items
               PROVE  /\ i[1] < nextList'
                      /\ i \in items' \/ i[1] \notin Ids(lists')
                      /\ R.next > 5 /\ i \in items' => i \in R.doomed.items
    BY <1>1 DEF ItemsErased
  <2>1. /\ i[1] < nextList /\ i[1] \in Nat
        /\ i \in items \/ i[1] \notin Ids(lists)
        /\ R.next > 5 /\ i \in items => i \in R.doomed.items
    BY <1>1, <1>2, <1>3 DEF ItemsErased, ItemRows
  <2>2. i[1] \in Ids(lists') => i[1] \in Ids(lists)
    BY <1>3, <2>1 DEF ListsMove, Ids
  <2>3. i \in items' => i \in items
    <3> SUFFICES ASSUME i \in items' \ items PROVE FALSE
      OBVIOUS
    <3>1. PICK x \in lists : i[1] = x.id
      BY DEF ListsMove
    <3> QED
      BY <2>1, <3>1 DEF Ids
  <2>4. i \in items \ items' => i[1] \notin Ids(lists')
    BY DEF HistoryShortens
  <2>5. i[1] < nextList'
    BY <1>3, <2>1 DEF ListsMove
  <2> QED
    BY <2>1, <2>2, <2>3, <2>4, <2>5
<1>8. ListsErased(a)'
  <2> SUFFICES ASSUME NEW x \in R.before.lists
               PROVE  /\ x.id < nextList' /\ ~x.default
                      /\ R.next > 6 /\ x \in lists' => x \in R.doomed.lists
    BY <1>1 DEF ListsErased
  <2>1. x.id < nextList /\ x.id \in Nat /\ ~x.default /\ (R.next > 6 /\ x \in lists => x \in R.doomed.lists)
    BY <1>2, <1>3 DEF ListsErased, ListRows
  <2> QED
    BY <1>3, <2>1 DEF ListsMove
<1> QED
  BY <1>4, <1>5, <1>6, <1>7, <1>8

LEMMA ResetBeginsErased ==
    ASSUME Typed, ListInv, NEW a \in Agents, ResetTasteState(a)
    PROVE  EraseInv'
<1>1. /\ \A b \in Agents \ {a} : call'[b].op # "reset"
      /\ call'[a].next = 1 /\ call'[a].before = [t \in DOMAIN NothingDoomed |-> ResetRows(t)]
  BY ResetBegins, Zenon
<1>2. UNCHANGED <<shown, verdicts, rubrics, profile, lists, items, nextList>>
  BY DEF ResetTasteState, feedVars, profileVars, listVars
<1>3. /\ call'[a].before.rubrics = rubrics /\ call'[a].before.verdicts = verdicts
      /\ call'[a].before.shown = shown /\ call'[a].before.profile = {profile} \ {NoProfile}
      /\ call'[a].before.items = items /\ call'[a].before.lists = {x \in lists : ~x.default}
  BY <1>1 DEF NothingDoomed, ResetRows
<1>4. /\ FeedErased(a)' /\ ProfileErased(a)'
      /\ ItemsErased(a)' /\ ListsErased(a)'
  BY <1>1, <1>2, <1>3 DEF FeedErased, ProfileErased, ItemsErased, ListsErased, ListInv
<1>5. ShownErased(a)'
  BY <1>1, <1>2, <1>3 DEF ShownErased, ShownRow
<1> QED
  BY <1>1, <1>4, <1>5 DEF EraseInv

LEMMA StatementErases ==
    ASSUME Typed, SoleReset, EraseInv, NEW a \in Agents, ResetStatement(a)
    PROVE  EraseInv'
<1>1. UNCHANGED <<shown, verdicts, rubrics, profile, lists, items, nextList>>
  BY DEF ResetStatement, feedVars, profileVars, listVars
<1>2. call[a].op = "reset" /\ \A b \in Agents \ {a} : call'[b].op # "reset"
  BY StatementDeletes, StatementGivesUp DEF SoleReset
<1>3. CASE call'[a] = Idle
  BY <1>2, <1>3 DEF EraseInv, Idle
<1>4. CASE call'[a] # Idle
  <2> DEFINE n == call[a].next
             table == ResetOrder[n]
             gone == call'[a].doomed
  <2>1. /\ n \in 1 .. 6 /\ call'[a].next = n + 1 /\ call'[a].before = call[a].before
        /\ gone[table] = ResetRows(table)
        /\ \A t \in DOMAIN NothingDoomed \ {table} : gone[t] = call[a].doomed[t]
    BY <1>4, StatementDeletes, Zenon
  <2>2. FeedErased(a) /\ ShownErased(a) /\ ProfileErased(a) /\ ItemsErased(a) /\ ListsErased(a)
    BY <1>2 DEF EraseInv
  <2>3. /\ n = 1 => gone.rubrics = rubrics
        /\ n # 1 => gone.rubrics = call[a].doomed.rubrics
        /\ n = 2 => gone.verdicts = verdicts
        /\ n # 2 => gone.verdicts = call[a].doomed.verdicts
    BY <2>1, ResetOrderTables DEF NothingDoomed, ResetRows
  <2>4. /\ n = 3 => gone.shown = shown
        /\ n # 3 => gone.shown = call[a].doomed.shown
        /\ n = 4 => gone.profile = {profile} \ {NoProfile}
        /\ n # 4 => gone.profile = call[a].doomed.profile
    BY <2>1, ResetOrderTables DEF NothingDoomed, ResetRows
  <2>5. /\ n = 5 => gone.items = items
        /\ n # 5 => gone.items = call[a].doomed.items
        /\ n = 6 => gone.lists = {x \in lists : ~x.default}
        /\ n # 6 => gone.lists = call[a].doomed.lists
    BY <2>1, ResetOrderTables DEF NothingDoomed, ResetRows
  <2> HIDE DEF table
  <2>6. FeedErased(a)'
    BY <1>1, <2>1, <2>2, <2>3 DEF FeedErased
  <2>7. ShownErased(a)'
    BY <1>1, <2>1, <2>2, <2>4 DEF ShownErased, ShownRow
  <2>8. ProfileErased(a)'
    BY <1>1, <2>1, <2>2, <2>4 DEF ProfileErased
  <2>9. ItemsErased(a)' /\ ListsErased(a)'
    BY <1>1, <2>1, <2>2, <2>5 DEF ItemsErased, ListsErased
  <2> QED
    BY <1>2, <2>6, <2>7, <2>8, <2>9 DEF EraseInv
<1> QED
  BY <1>3, <1>4

LEMMA EraseInvKept ==
    ASSUME Typed, SoleReset, ListInv, EraseInv, Next
    PROVE  EraseInv'
<1>1. ASSUME NEW ops, "reset" \notin ops, CallsOf(ops), UNCHANGED <<lists, items, nextList>>,
             rubrics \subseteq rubrics', verdicts \subseteq verdicts',
             profile' = profile \/ profile' \in [Fields -> Nat],
             \/ shown' = shown
             \/ \E b \in Agents : \E l \in Listings, asOf \in {{}, {view[b].at}} : MarkShown(b, l, asOf)
      PROVE  EraseInv'
  <2>1. ListsMove
    BY <1>1 DEF ListsMove
  <2>2. ASSUME NEW a \in Agents, call'[a].op = "reset"
        PROVE  call[a].op = "reset" /\ HistoryShortens(a)
    BY <1>1, <2>2 DEF CallsOf, ResetStands, HistoryShortens
  <2> QED
    BY <1>1, <2>1, <2>2, OthersEraseNothing DEF EraseInv
<1>2. CASE ShownStep
  <2>1. \/ shown' = shown
        \/ \E b \in Agents : \E l \in Listings, asOf \in {{}, {view[b].at}} : MarkShown(b, l, asOf)
    BY <1>2, Zenon DEF ShownStep, CrawlStep, StampChange, CommitChange, GetCandidates, ReadCandidates
  <2> QED
    BY <1>1, <1>2, <2>1, ShownFrame DEF Typed, feedVars, profileVars, listVars
<1>3. CASE VerdictStep
  <2>1. verdicts \subseteq verdicts'
    BY <1>3 DEF VerdictStep, CommitVerdict, RecordVerdict
  <2> QED
    BY <1>1, <1>3, <2>1, VerdictFrame DEF Typed, profileVars, listVars
<1>4. CASE BatchStep
  BY <1>1, <1>4, BatchFrame DEF Typed, feedVars, listVars
<1>5. CASE RubricStep
  <2>1. rubrics \subseteq rubrics'
    BY <1>5 DEF RubricStep, GetState, AppendRubric, CheckVerdict, InsertRubric, CommitRubric, feedVars
  <2> QED
    BY <1>1, <1>5, <2>1, RubricFrame DEF Typed, profileVars, listVars
<1>6. CASE ProfileStep
  <2>1. profile' = profile \/ profile' \in [Fields -> Nat]
    <3>1. ASSUME NEW a \in Agents, CommitProfile(a)
          PROVE  profile' \in [Fields -> Nat]
      <4>1. call[a] \in ProfileCalls
        BY <3>1, CallTypes DEF CommitProfile, Typed
      <4> QED
        BY <3>1, <4>1 DEF CommitProfile, ProfileCalls
    <3> QED
      BY <1>6, <3>1 DEF ProfileStep, SetProfile, UpdateProfile, profileVars
  <2> QED
    BY <1>1, <1>6, <2>1, ProfileFrame DEF Typed, feedVars, listVars
<1>7. CASE ListStep
  <2>1. ListsMove /\ \A a \in Agents : HistoryShortens(a)
    BY <1>7, ListsGrow
  <2>2. UNCHANGED <<shown, verdicts, rubrics, profile>>
    BY <1>7, ListFrame DEF Typed, feedVars, profileVars
  <2> QED
    BY <2>1, <2>2, OthersEraseNothing DEF EraseInv, HistoryShortens, ResetStands
<1>8. CASE ResetStep
  <2>1. ASSUME NEW a \in Agents, CommitReset(a)
        PROVE  EraseInv'
    <3>1. /\ call[a].op = "reset" /\ call'[a] = Idle
          /\ \A b \in Agents \ {a} : call'[b].op = call[b].op
      BY <2>1, ResetCommits, Zenon
    <3>2. \A b \in Agents : call'[b].op # "reset"
      BY <3>1 DEF SoleReset, Idle
    <3> QED
      BY <3>2 DEF EraseInv
  <2>2. ASSUME NEW a \in Agents, ResetGivesUp(a)
        PROVE  EraseInv'
    <3>1. \A b \in Agents : call'[b].op # "reset"
      BY <2>2, ResetAborts DEF SoleReset, Idle
    <3> QED
      BY <3>1 DEF EraseInv
  <2> QED
    BY <1>8, <2>1, <2>2, ResetBeginsErased, StatementErases DEF ResetStep
<1> QED
  BY <1>2, <1>3, <1>4, <1>5, <1>6, <1>7, <1>8, StepKinds

LEMMA EraseInvHolds == Spec => []EraseInv
<1>1. Init => EraseInv
  BY DEF Init, EraseInv, Idle
<1>2. EraseInv /\ SoleReset /\ ListInv /\ Typed /\ [Next]_vars => EraseInv'
  <2> SUFFICES ASSUME EraseInv, SoleReset, ListInv, Typed, [Next]_vars
               PROVE  EraseInv'
    OBVIOUS
  <2>1. CASE UNCHANGED vars
    BY <2>1 DEF vars, feedVars, profileVars, listVars, EraseInv, FeedErased, ShownErased, ProfileErased,
                ItemsErased, ListsErased, ShownRow
  <2> QED
    BY <2>1, EraseInvKept
<1> QED
  BY <1>1, <1>2, TypesHold, ResetsAlone, ListInvHolds, PTL DEF Spec

\* A reset that commits leaves nothing of what was saved before it began, whatever
\* other sessions save, replace and remove while its statements run.
THEOREM ResetLeavesNothing == Spec => ResetErases
<1> DEFINE Erased ==
       \A a \in Agents :
          call[a].op = "reset" /\ call[a].next > Len(ResetOrder) /\ call'[a] = Idle =>
              \A t \in DOMAIN NothingDoomed : call[a].before[t] \cap ResetRows(t)' = {}
<1>1. Typed /\ EraseInv /\ ProfileInv /\ [Next]_vars => [Erased]_vars
  <2> SUFFICES ASSUME Typed, EraseInv, ProfileInv, Next, NEW a \in Agents,
                      call[a].op = "reset", call[a].next > 6, call'[a] = Idle
               PROVE  \A t \in DOMAIN NothingDoomed : call[a].before[t] \cap ResetRows(t)' = {}
    BY ResetOrderTables
  <2>1. CommitReset(a)
    <3>1. ASSUME NEW ops, "reset" \notin ops, CallsOf(ops)
          PROVE  FALSE
      BY <3>1 DEF CallsOf, ResetStands, Idle
    <3>2. ResetStep
      BY <3>1, StepKinds, ShownFrame, VerdictFrame, BatchFrame, RubricFrame, ProfileFrame, ListFrame DEF Typed
    <3>3. PICK b \in Agents : ResetTasteState(b) \/ ResetStatement(b) \/ CommitReset(b) \/ ResetGivesUp(b)
      BY <3>2 DEF ResetStep
    <3>7. CASE ResetGivesUp(b)
      <4>1. b # a /\ call'[a] = call[a]
        <5>1. call[a].next \in Nat
          BY CallTypes DEF ResetCalls, Typed
        <5> QED
          BY <3>7, <5>1, ResetAborts
      <4> QED
        BY <4>1 DEF Idle
    <3>4. CASE ResetTasteState(b)
      BY <3>4, ResetBegins DEF Idle
    <3>5. CASE ResetStatement(b)
      <4>1. b # a => call'[a] = call[a]
        BY <3>5, StatementDeletes, StatementGivesUp
      <4>2. b # a
        BY <3>5, ResetOrderTables, CallTypes DEF ResetStatement, Typed, ResetCalls
      <4> QED
        BY <4>1, <4>2 DEF Idle
    <3>6. CASE CommitReset(b) /\ b # a
      <4>1. call'[a].op = "reset"
        BY <3>6, ResetCommits, Zenon
      <4> QED
        BY <4>1 DEF Idle
    <3> QED
      BY <3>3, <3>4, <3>5, <3>6, <3>7
  <2> DEFINE gone == call[a].doomed
  <2>2. FeedErased(a) /\ ShownErased(a) /\ ProfileErased(a) /\ ItemsErased(a) /\ ListsErased(a)
    BY DEF EraseInv
  <2>3. /\ rubrics' = rubrics \ gone.rubrics /\ verdicts' = verdicts \ gone.verdicts
        /\ shown' = shown \ gone.shown
        /\ profile' = IF profile \in gone.profile THEN NoProfile ELSE profile
        /\ lists' = lists \ gone.lists /\ items' \subseteq items \ gone.items
    BY <2>1 DEF CommitReset
  <2>4. call[a].next \in Nat
    BY ResetFields
  <2>5. call[a].before.rubrics \cap ResetRows("rubrics")' = {}
    BY <2>2, <2>3, <2>4 DEF FeedErased, ResetRows
  <2>6. call[a].before.verdicts \cap ResetRows("verdicts")' = {}
    BY <2>2, <2>3, <2>4 DEF FeedErased, ResetRows
  <2>7. call[a].before.shown \cap ResetRows("shown")' = {}
    BY <2>2, <2>3, <2>4 DEF ShownErased, ShownRow, ResetRows
  <2>8. call[a].before.profile \cap ResetRows("profile")' = {}
    <3>1. call[a].before.profile # {} => gone.profile = {profile}
      BY <2>2, <2>4 DEF ProfileErased, ProfileInv, ResetOwnsProfile
    <3> QED
      BY <2>3, <3>1 DEF ResetRows
  <2>9. call[a].before.items \cap ResetRows("items")' = {}
    BY <2>2, <2>3, <2>4 DEF ItemsErased, ResetRows
  <2>10. call[a].before.lists \cap ResetRows("lists")' = {}
    BY <2>2, <2>3, <2>4 DEF ListsErased, ResetRows
  <2> QED
    BY <2>5, <2>6, <2>7, <2>8, <2>9, <2>10 DEF NothingDoomed
<1> QED
  BY <1>1, TypesHold, EraseInvHolds, ProfileInvHolds, PTL DEF Spec, ResetErases

---------------------------------------------------------------------------
(* What mark_shown may hide.                                                 *)

StampsOf(changes, l) == {x.stamp : x \in {y \in changes : y.listing = l}}

\* What the agent was shown: every change of it up to the instant of its question
\* was committed and read, or was in flight and noted.
ViewCovers(a) ==
    /\ view[a].at < clock
    /\ \A l \in Listings : listing[l].stamp <= view[a].at =>
          \/ listing[l].version <= view[a].version[l]
          \/ listing[l].stamp \in StampsOf(view[a].open, l)
    /\ \A c \in Crawlers : flight[c] # NoChange /\ flight[c].stamp <= view[a].at => flight[c] \in view[a].open

AskedBefore(a) == call[a].op = "candidates" => call[a].at < clock

\* The same of what it then marked as shown, for the listing of the row.
RowCovers(r) ==
    r.capped =>
        /\ r.seen < clock
        /\ r.seen >= listing[r.listing].stamp =>
              listing[r.listing].version <= r.saw \/ listing[r.listing].stamp \in r.open
        /\ \A c \in Crawlers :
              flight[c] # NoChange /\ flight[c].listing = r.listing /\ flight[c].stamp <= r.seen
                  => flight[c].stamp \in r.open

ShownInv ==
    /\ \A a \in Agents : ViewCovers(a) /\ AskedBefore(a)
    /\ \A r \in shown : RowCovers(r)

\* What a session last read of the candidates stays.
SameCandidates(a) ==
    /\ view'[a].at = view[a].at /\ view'[a].version = view[a].version /\ view'[a].open = view[a].open

LEMMA StampCovers ==
    ASSUME Typed, ShownInv, NEW c \in Crawlers, NEW l \in Listings, StampChange(c, l)
    PROVE  ShownInv'
<1> DEFINE change == [stamp |-> clock, listing |-> l]
<1>1. /\ flight' = [flight EXCEPT ![c] = change] /\ clock' = clock + 1 /\ clock \in Nat
      /\ UNCHANGED <<listing, shown, view, call>> /\ change.stamp = clock
  BY DEF StampChange, Typed, TypeOK
<1> HIDE DEF change
<1>2. flight'[c] = change /\ \A d \in Crawlers \ {c} : flight'[d] = flight[d]
  BY <1>1 DEF Typed, TypeOK
<1>3. ASSUME NEW a \in Agents
      PROVE  ViewCovers(a)' /\ AskedBefore(a)'
  <2>1. view[a] \in ViewState /\ ViewCovers(a) /\ AskedBefore(a)
    BY DEF ShownInv, Typed, TypeOK
  <2>2. call[a].op = "candidates" => call[a].at \in Nat
    BY CallTypes DEF Typed, CandidateCalls
  <2> QED
    BY <1>1, <1>2, <2>1, <2>2 DEF ViewCovers, AskedBefore, ViewState
<1>4. ASSUME NEW r \in shown
      PROVE  RowCovers(r)'
  <2>1. r \in ShownRows /\ RowCovers(r)
    BY DEF ShownInv, Typed, TypeOK
  <2> QED
    BY <1>1, <1>2, <2>1 DEF RowCovers, ShownRows
<1> QED
  BY <1>1, <1>3, <1>4 DEF ShownInv

LEMMA CommitCovers ==
    ASSUME Typed, ShownInv, NEW c \in Crawlers, NEW status \in {"active", "delisted"},
           CommitChange(c, status)
    PROVE  ShownInv'
<1> DEFINE l == flight[c].listing
<1>1. /\ flight[c] \in Changes /\ flight[c] # NoChange /\ l \in Listings
      /\ flight' = [flight EXCEPT ![c] = NoChange] /\ UNCHANGED <<clock, shown, view, call>>
  BY DEF CommitChange, Typed, TypeOK, Changes
<1>2. /\ listing'[l].stamp = flight[c].stamp
      /\ \A m \in Listings \ {l} : listing'[m] = listing[m]
  BY <1>1 DEF CommitChange, Typed, TypeOK
<1>3. flight'[c] = NoChange /\ \A d \in Crawlers \ {c} : flight'[d] = flight[d]
  BY <1>1 DEF Typed, TypeOK
<1>4. ASSUME NEW a \in Agents
      PROVE  ViewCovers(a)' /\ AskedBefore(a)'
  <2>1. ViewCovers(a) /\ AskedBefore(a) /\ view[a].open \subseteq Changes
    BY DEF ShownInv, Typed, TypeOK, ViewState
  <2>2. flight[c].stamp <= view[a].at => flight[c].stamp \in StampsOf(view[a].open, l)
    BY <1>1, <2>1 DEF ViewCovers, StampsOf
  <2> HIDE DEF l
  <2>3. \A m \in Listings : listing'[m].stamp <= view[a].at =>
           \/ listing'[m].version <= view[a].version[m]
           \/ listing'[m].stamp \in StampsOf(view[a].open, m)
    BY <1>2, <2>1, <2>2 DEF ViewCovers
  <2> QED
    BY <1>1, <1>3, <2>1, <2>3 DEF ViewCovers, AskedBefore
<1>5. ASSUME NEW r \in shown
      PROVE  RowCovers(r)'
  <2>1. r \in ShownRows /\ RowCovers(r) /\ flight[c].stamp \in Nat
    BY <1>1 DEF ShownInv, Typed, TypeOK, Changes
  <2>2. r.capped /\ r.listing = l /\ r.seen >= flight[c].stamp => flight[c].stamp \in r.open
    BY <1>1, <2>1 DEF RowCovers, ShownRows
  <2> HIDE DEF l
  <2>3. r.capped /\ r.seen >= listing'[r.listing].stamp =>
            listing'[r.listing].version <= r.saw \/ listing'[r.listing].stamp \in r.open
    BY <1>2, <2>1, <2>2 DEF RowCovers, ShownRows
  <2> QED
    BY <1>1, <1>3, <2>1, <2>3 DEF RowCovers
<1> QED
  BY <1>1, <1>4, <1>5 DEF ShownInv

LEMMA ReadCovers ==
    ASSUME Typed, ShownInv, NEW a \in Agents, ReadCandidates(a)
    PROVE  ShownInv'
<1> DEFINE versions == [l \in Listings |-> listing[l].version]
           changes == {flight[c] : c \in Crawlers} \ {NoChange}
<1>1. /\ view' = [view EXCEPT ![a] = [@ EXCEPT !.at = call[a].at, !.rows = Candidates,
                                                !.version = versions, !.open = changes]]
      /\ UNCHANGED <<clock, listing, flight, shown>> /\ call' = [call EXCEPT ![a] = Idle]
  BY DEF ReadCandidates, End
<1>2. call[a].at < clock
  BY DEF ReadCandidates, ShownInv, AskedBefore
<1>3. /\ \A l \in Listings : versions[l] = listing[l].version /\ listing[l].version \in Nat
      /\ \A c \in Crawlers : flight[c] # NoChange => flight[c] \in changes
  BY DEF Typed, TypeOK
<1> HIDE DEF versions, changes
<1>4. /\ view'[a].at = call[a].at /\ view'[a].version = versions /\ view'[a].open = changes
      /\ \A b \in Agents \ {a} : view'[b] = view[b]
  BY <1>1 DEF Typed, TypeOK, ViewState
<1>5. call'[a].op = "idle" /\ \A b \in Agents \ {a} : call'[b] = call[b]
  BY <1>1 DEF Idle, Typed, TypeOK
<1>6. ViewCovers(a)' /\ AskedBefore(a)'
  BY <1>1, <1>2, <1>3, <1>4, <1>5 DEF ViewCovers, AskedBefore
<1>7. \A b \in Agents \ {a} : ViewCovers(b)' /\ AskedBefore(b)'
  BY <1>1, <1>4, <1>5 DEF ShownInv, ViewCovers, AskedBefore
<1>8. \A r \in shown' : RowCovers(r)'
  BY <1>1 DEF ShownInv, RowCovers
<1> QED
  BY <1>6, <1>7, <1>8 DEF ShownInv

LEMMA MarkCovers ==
    ASSUME Typed, ShownInv, NEW a \in Agents, NEW l \in Listings, NEW asOf \in {{}, {view[a].at}},
           MarkShown(a, l, asOf)
    PROVE  ShownInv'
<1> DEFINE r == [listing |-> l, seen |-> Least(listing[l].stamp, asOf), capped |-> asOf # {},
                 saw |-> view[a].version[l], open |-> StampsOf(view[a].open, l)]
<1>1. /\ shown' = (shown \ ShownRow(l)) \cup {r}
      /\ UNCHANGED <<clock, listing, flight, view, call>>
  BY DEF MarkShown, StampsOf
<1>2. /\ r.listing = l /\ r.seen = Least(listing[l].stamp, asOf) /\ (r.capped => asOf = {view[a].at})
      /\ r.saw = view[a].version[l] /\ r.open = StampsOf(view[a].open, l)
  OBVIOUS
<1> HIDE DEF r
<1>3. /\ listing[l].stamp \in Nat /\ view[a].at \in Nat /\ ViewCovers(a) /\ clock \in Nat
  BY DEF ShownInv, Typed, TypeOK, ViewState
<1>4. r.capped => r.seen \in Nat /\ r.seen <= view[a].at
  BY <1>2, <1>3, LeastTyped
<1>5. RowCovers(r)
  <2> SUFFICES ASSUME r.capped PROVE RowCovers(r)
    BY DEF RowCovers
  <2>1. r.seen < clock
    BY <1>3, <1>4 DEF ViewCovers
  <2>2. r.seen >= listing[l].stamp => listing[l].version <= r.saw \/ listing[l].stamp \in r.open
    BY <1>2, <1>3, <1>4 DEF ViewCovers
  <2>3. ASSUME NEW c \in Crawlers, flight[c] # NoChange, flight[c].listing = l, flight[c].stamp <= r.seen
        PROVE  flight[c].stamp \in r.open
    <3>1. flight[c].stamp \in Nat
      BY <2>3 DEF Typed, TypeOK, Changes
    <3>2. flight[c].stamp <= view[a].at
      BY <1>3, <1>4, <2>3, <3>1
    <3>3. flight[c] \in view[a].open
      BY <1>3, <2>3, <3>2 DEF ViewCovers
    <3> QED
      BY <1>2, <2>3, <3>3 DEF StampsOf
  <2> QED
    BY <1>2, <2>1, <2>2, <2>3 DEF RowCovers
<1>6. \A s \in shown' : RowCovers(s)'
  BY <1>1, <1>5 DEF ShownInv, RowCovers
<1>7. \A b \in Agents : ViewCovers(b)' /\ AskedBefore(b)'
  BY <1>1 DEF ShownInv, ViewCovers, AskedBefore
<1> QED
  BY <1>6, <1>7 DEF ShownInv

LEMMA ShownInvHolds == Spec => []ShownInv
<1>1. Init => ShownInv
  <2> SUFFICES ASSUME Init PROVE ShownInv
    OBVIOUS
  <2>1. /\ \A a \in Agents : view[a].at = 0 /\ call[a].op = "idle" /\ view[a].version = [l \in Listings |-> 0]
        /\ \A c \in Crawlers : flight[c] = NoChange
    BY DEF Init, NoView, Idle
  <2> QED
    BY <2>1 DEF Init, ShownInv, ViewCovers, AskedBefore
<1>2. ShownInv /\ Typed /\ [Next]_vars => ShownInv'
  <2> SUFFICES ASSUME ShownInv, Typed, [Next]_vars
               PROVE  ShownInv'
    OBVIOUS
  <2>1. ASSUME UNCHANGED <<clock, listing, flight>>, shown' \subseteq shown,
               \A a \in Agents : SameCandidates(a),
               \A a \in Agents : call'[a].op = "candidates" => call'[a] = call[a]
        PROVE  ShownInv'
    BY <2>1 DEF ShownInv, ViewCovers, AskedBefore, RowCovers, SameCandidates
  <2>2. ASSUME NEW ops, "candidates" \notin ops, CallsOf(ops), UNCHANGED <<clock, listing, flight>>,
               shown' \subseteq shown, \A a \in Agents : SameCandidates(a)
        PROVE  ShownInv'
    BY <2>1, <2>2 DEF CallsOf, ResetStands
  <2>3. CASE Next
    <3>1. CASE ShownStep
      <4>1. ASSUME NEW a \in Agents, GetCandidates(a)
            PROVE  ShownInv'
        <5>1. /\ call' = [call EXCEPT ![a] = [op |-> "candidates", at |-> clock]] /\ clock' = clock + 1
              /\ UNCHANGED <<listing, flight, shown, view>> /\ clock \in Nat
          BY <4>1 DEF GetCandidates, Begin, Typed, TypeOK
        <5>2. call'[a].at = clock /\ \A b \in Agents \ {a} : call'[b] = call[b]
          BY <5>1 DEF Typed, TypeOK
        <5>3. ASSUME NEW b \in Agents
              PROVE  ViewCovers(b)' /\ AskedBefore(b)'
          <6>1. view[b].at \in Nat /\ (call[b].op = "candidates" => call[b].at \in Nat)
            BY CallTypes DEF Typed, TypeOK, ViewState, CandidateCalls
          <6> QED
            BY <5>1, <5>2, <6>1 DEF ShownInv, ViewCovers, AskedBefore
        <5>4. ASSUME NEW r \in shown
              PROVE  RowCovers(r)'
          <6>1. r.seen \in Nat
            BY DEF Typed, TypeOK, ShownRows
          <6> QED
            BY <5>1, <6>1 DEF ShownInv, RowCovers
        <5> QED
          BY <5>1, <5>3, <5>4 DEF ShownInv
      <4> QED
        BY <3>1, <4>1, StampCovers, CommitCovers, ReadCovers, MarkCovers, Zenon DEF ShownStep, CrawlStep
    <3>2. CASE VerdictStep
      BY <2>2, <3>2, VerdictFrame DEF Typed, SameCandidates
    <3>3. CASE BatchStep
      BY <2>2, <3>3, BatchFrame DEF Typed, SameCandidates
    <3>4. CASE RubricStep
      <4>1. ASSUME NEW a \in Agents
            PROVE  SameCandidates(a)
        <5>1. CASE UNCHANGED view
          BY <5>1 DEF SameCandidates
        <5>2. ASSUME NEW b \in Agents, GetState(b)
              PROVE  SameCandidates(a)
          <6>1. PICK latest, seen, pending :
                    view' = [view EXCEPT ![b] = [@ EXCEPT !.latest = latest, !.seen = seen, !.pending = pending]]
            BY <5>2, Zenon DEF GetState
          <6> QED
            BY <6>1 DEF SameCandidates, Typed, TypeOK, ViewState
        <5> QED
          BY <3>4, <5>1, <5>2, Zenon DEF RubricStep, AppendRubric, CheckVerdict, InsertRubric, CommitRubric
      <4> QED
        BY <2>2, <3>4, <4>1, RubricFrame DEF Typed
    <3>5. CASE ProfileStep
      BY <2>2, <3>5, ProfileFrame DEF Typed, SameCandidates
    <3>6. CASE ListStep
      BY <2>2, <3>6, ListFrame DEF Typed, SameCandidates
    <3>7. CASE ResetStep
      BY <2>2, <3>7, ResetFrame DEF Typed, SameCandidates
    <3> QED
      BY <2>3, <3>1, <3>2, <3>3, <3>4, <3>5, <3>6, <3>7, StepKinds
  <2>4. CASE UNCHANGED vars
    BY <2>4 DEF vars, ShownInv, ViewCovers, AskedBefore, RowCovers
  <2> QED
    BY <2>3, <2>4
<1> QED
  BY <1>1, <1>2, TypesHold, PTL DEF Spec

\* A change that a session hides without having seen it was in flight when the
\* session asked, for any number of crawls, sessions and listings, and in whatever
\* order the crawls commit what they have stamped.
THEOREM OnlyInFlightHidden == Spec => []OnlyInFlightBurned
<1>1. ShownInv => OnlyInFlightBurned
  BY DEF ShownInv, RowCovers, OnlyInFlightBurned
<1> QED
  BY <1>1, ShownInvHolds, PTL

=============================================================================
