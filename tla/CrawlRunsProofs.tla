--------------------------- MODULE CrawlRunsProofs ---------------------------
(* The volume guardrail: runs with it are runs of the listing lifecycle; a   *)
(* scope whose runs do not overlap is not locked out by it; and an outage of *)
(* such a scope judges no listing absent.                                    *)
EXTENDS CrawlRuns, ListingLifecycleProofs, FiniteSetTheorems, SequenceTheorems, NaturalsInduction, WellFoundedInduction, TLAPS

---------------------------------------------------------------------------
(* The guardrail only takes steps away from the listing lifecycle.          *)

\* What a step of a run with the guardrail is to the listings and the crawlers.
LEMMA RunsNextIsNext == [RunsNext]_runVars => [Next]_vars
  <1>1. UNCHANGED runVars => UNCHANGED vars
    BY DEF runVars
  <1>2. ASSUME NEW c \in Crawlers, NEW k \in RunKinds, Open(c, k) PROVE Next
    BY <1>2 DEF Open, Next
  <1>3. ASSUME NEW c \in Crawlers, Enumerate(c) \/ Work(c) \/ Deadline(c) \/ RecordRun(c) \/ JudgeAbsence(c) \/ Die(c)
        PROVE  Next
    BY <1>3 DEF Enumerate, Work, Deadline, RecordRun, JudgeAbsence, Die, Next, RunStep
  <1>4. ASSUME NEW c \in Crawlers, RecordFails(c) PROVE Next
    <2>1. FinishRun(c)
      BY <1>4 DEF RecordFails, Crawled, FinishRun
    <2>. QED
      BY <2>1 DEF Next, RunStep
  <1>5. ASSUME NEW c \in Crawlers, BaselineVolume(c) PROVE UNCHANGED vars
    BY <1>5 DEF BaselineVolume
  <1>6. ASSUME NEW s \in Scopes, LevelMoves(s) PROVE UNCHANGED vars
    BY <1>6 DEF LevelMoves
  <1>7. ASSUME NEW l \in Listings, PageChanges(l) PROVE Next
    BY <1>7 DEF PageChanges, Next
  <1>. QED
    BY <1>1, <1>2, <1>3, <1>4, <1>5, <1>6, <1>7 DEF RunsNext

\* Runs that are judged against the volumes of the runs before them are runs of the
\* listing lifecycle, which leaves open what the guardrail decides: what holds there
\* of every run holds of them (ingest/service.go:98-143).
THEOREM RunsAreRuns == RunsSpec => Spec
  <1>1. RunsInit => Init
    BY DEF RunsInit
  <1>. QED
    BY <1>1, RunsNextIsNext, PTL DEF RunsSpec, Spec

\* So a status that only a detail page reports is overturned by a page, by absence or
\* by a row without a page to read in them too, as long as runs do not overlap
\* (clearSearchStatus, enrichPriority).
THEOREM GuardedSearchRowsDefer ==
    ASSUME \A c, e \in Crawlers : c = e
    PROVE  RunsSpec => UnreadRowKeepsDetailStatus
  BY RunsAreRuns, SearchRowsDefer, PTL

\* And only runs of scopes that track a listing delist it.
THEOREM GuardedTrackersDelist == RunsSpec => OnlyTrackersDelist
  BY RunsAreRuns, TrackersDelist, PTL

---------------------------------------------------------------------------
(* Numbers.                                                                 *)

\* The numbers of the guardrail, one by one.
LEMMA BaselineNumbers ==
    /\ BaselineWindow \in Nat \ {0} /\ BaselineScan \in Nat \ {0} /\ BaselineAcceptRuns \in Nat \ {0}
    /\ MinBaselineRuns \in Nat \ {0} /\ StablePercent \in 0 .. 100 /\ SuspectPercent \in 0 .. 100
  BY BaselineAssumption

\* A set of naturals has a least one, a bounded one a greatest.
LEMMA LeastNumber ==
    ASSUME NEW S \in SUBSET Nat, S # {}
    PROVE  Min(S) \in S /\ \A x \in S : Min(S) <= x
  <1>. DEFINE R == {p \in Nat \X Nat : p[1] < p[2]}
  <1>1. \E m \in S : \A y \in S : <<y, m>> \notin R
    <2>. HIDE DEF R
    <2>1. IsWellFoundedOn(R, Nat)
      BY NatLessThanWellFounded DEF R, OpToRel
    <2>. QED
      BY <2>1, WFMin, Zenon
  <1>2. PICK m \in S : \A y \in S : <<y, m>> \notin R
    BY <1>1
  <1>3. \A y \in S : m <= y
    <2>. TAKE y \in S
    <2>1. y \in Nat /\ m \in Nat /\ <<y, m>> \notin R
      BY <1>2
    <2>. QED
      BY <2>1
  <1>. QED
    BY <1>3 DEF Min

\* The same from above: what is below a bound, counted down from it, has a least.
LEMMA GreatestNumber ==
    ASSUME NEW n \in Nat, NEW S \in SUBSET (1 .. n), S # {}
    PROVE  Max(S) \in S /\ \A x \in S : x <= Max(S)
  <1>. DEFINE T == {n - x : x \in S}
  <1>0. \A x \in S : x \in Nat /\ x <= n
    OBVIOUS
  <1>1. T \in SUBSET Nat /\ T # {}
    <2>1. \A x \in S : n - x \in Nat
      BY <1>0
    <2>. QED
      BY <2>1
  <1>2. Min(T) \in T /\ \A x \in T : Min(T) <= x
    <2>. HIDE DEF T
    <2>. QED
      BY <1>1, LeastNumber
  <1>3. PICK m \in S : Min(T) = n - m
    BY <1>2
  <1>4. \A x \in S : x <= m
    <2>. TAKE x \in S
    <2>1. n - x \in T /\ x \in Nat /\ m \in Nat
      BY <1>0
    <2>2. n - m <= n - x
      BY <1>2, <1>3, <2>1
    <2>. QED
      BY <2>1, <2>2
  <1>. QED
    BY <1>4 DEF Max

\* Positions are finitely many.
LEMMA UpToFinite ==
    ASSUME NEW n \in Nat, NEW S \in SUBSET (1 .. n)
    PROVE  IsFiniteSet(S) /\ Cardinality(S) \in Nat /\ Cardinality(S) <= n
  <1>1. IsFiniteSet(1 .. n) /\ Cardinality(1 .. n) = n
    BY FS_Interval
  <1>. QED
    BY <1>1, FS_Subset, FS_CardinalityType

\* What is newest is among the positions, is not too much, is all there is or as much
\* as may be, and leaves nothing newer out.
LEMMA NewestShape ==
    ASSUME NEW n \in Nat, NEW S \in SUBSET (1 .. n), NEW most \in Nat
    PROVE  /\ Newest(S, most) \in SUBSET S
           /\ Cardinality(Newest(S, most)) <= most
           /\ Newest(S, most) = S \/ Cardinality(Newest(S, most)) = most
           /\ \A i \in Newest(S, most), j \in S : j <= i => j \in Newest(S, most)
  <1>. DEFINE Rank(i) == {j \in S : j <= i}
              N == Newest(S, most)
  <1>0. \A i \in S : i \in Nat
    OBVIOUS
  <1>1. \A i : Rank(i) \in SUBSET S /\ IsFiniteSet(Rank(i)) /\ Cardinality(Rank(i)) \in Nat
    <2>1. \A i : Rank(i) \in SUBSET (1 .. n)
      OBVIOUS
    <2>. HIDE DEF Rank
    <2>2. \A i : IsFiniteSet(Rank(i)) /\ Cardinality(Rank(i)) \in Nat
      BY <2>1, UpToFinite
    <2>. QED
      BY <2>2 DEF Rank
  <1>2. N = {i \in S : Cardinality(Rank(i)) <= most} /\ N \in SUBSET S
    BY DEF Newest, Ordinal
  <1>3. IsFiniteSet(N) /\ Cardinality(N) \in Nat
    BY <1>2, UpToFinite
  <1>4. \A i \in N, j \in S : j <= i => j \in N
    <2>. SUFFICES ASSUME NEW i \in N, NEW j \in S, j <= i PROVE j \in N
      OBVIOUS
    <2>1. Rank(j) \in SUBSET Rank(i)
      <3>1. i \in Nat /\ j \in Nat
        BY <1>0, <1>2
      <3>2. ASSUME NEW k \in S, k <= j PROVE k <= i
        <4>1. k \in Nat
          BY <1>0
        <4>. QED
          BY <3>1, <3>2, <4>1
      <3>. QED
        BY <3>2
    <2>. HIDE DEF Rank, N
    <2>2. Cardinality(Rank(j)) <= Cardinality(Rank(i))
      BY <1>1, <2>1, FS_Subset
    <2>. QED
      BY <1>1, <1>2, <2>2
  <1>5. Cardinality(N) <= most
    <2>1. CASE N = {}
      BY <2>1, FS_EmptySet
    <2>2. CASE N # {}
      <3>1. Max(N) \in N /\ \A x \in N : x <= Max(N)
        <4>. HIDE DEF N
        <4>. QED
          BY <1>2, <2>2, GreatestNumber
      <3>2. N \in SUBSET Rank(Max(N))
        BY <1>2, <3>1
      <3>. HIDE DEF N, Rank
      <3>3. Cardinality(N) <= Cardinality(Rank(Max(N)))
        BY <1>1, <3>2, FS_Subset
      <3>. QED
        BY <1>1, <1>2, <1>3, <3>1, <3>3
    <2>. QED
      BY <2>1, <2>2
  <1>6. N = S \/ Cardinality(N) = most
    <2>. SUFFICES ASSUME N # S PROVE Cardinality(N) = most
      OBVIOUS
    <2>. DEFINE out == S \ N
                least == Min(out)
    <2>1. out \in SUBSET Nat /\ out # {}
      BY <1>0, <1>2
    <2>2. least \in out /\ \A x \in out : least <= x
      <3>. HIDE DEF out
      <3>. QED
        BY <2>1, LeastNumber
    <2>. HIDE DEF least
    <2>3. Rank(least) \ {least} \in SUBSET N
      BY <2>1, <2>2
    <2>4. least \in Rank(least) /\ ~(Cardinality(Rank(least)) <= most)
      BY <1>2, <2>1, <2>2
    <2>. HIDE DEF N, Rank, out
    <2>5. Cardinality(Rank(least) \ {least}) = Cardinality(Rank(least)) - 1
      BY <1>1, <2>4, FS_RemoveElement
    <2>6. Cardinality(Rank(least) \ {least}) <= Cardinality(N)
      BY <1>3, <2>3, FS_Subset
    <2>. QED
      BY <1>1, <1>3, <1>5, <2>4, <2>5, <2>6
  <1>. QED
    BY <1>2, <1>4, <1>5, <1>6

\* Which of some runs saw a volume.
Seeing(recent, positions, v) == {i \in positions : recent[i].seen = v}

\* A volume that more than half of the runs saw is the median.
LEMMA MajorityIsMedian ==
    ASSUME NEW n \in Nat, NEW P \in SUBSET (1 .. n), NEW recent, \A i \in P : recent[i].seen \in Nat,
           NEW v \in Nat, Cardinality(P) < 2 * Cardinality(Seeing(recent, P, v))
    PROVE  MedianTwice(recent, P) = 2 * v
  <1>. DEFINE All == Cardinality(P)
              Same == Seeing(recent, P, v)
              Up(u) == {i \in P : recent[i].seen <= u}
              volumes == {recent[i].seen : i \in P}
              Lower == {u \in volumes : 2 * Cardinality(Up(u)) >= All}
              Upper == {u \in volumes : 2 * Cardinality(Up(u)) > All}
  <1>1. /\ All \in Nat /\ IsFiniteSet(Same) /\ Cardinality(Same) \in Nat
        /\ \A u : IsFiniteSet(Up(u)) /\ Cardinality(Up(u)) \in Nat
    <2>1. Same \in SUBSET (1 .. n) /\ \A u : Up(u) \in SUBSET (1 .. n)
      BY DEF Seeing
    <2>. HIDE DEF Same, Up
    <2>2. IsFiniteSet(Same) /\ Cardinality(Same) \in Nat /\ \A u : IsFiniteSet(Up(u)) /\ Cardinality(Up(u)) \in Nat
      BY <2>1, UpToFinite
    <2>. QED
      BY <2>2, UpToFinite
  <1>2. Same # {}
    <2>1. Cardinality(Same) # 0
      <3>1. All < 2 * Cardinality(Same)
        OBVIOUS
      <3>. HIDE DEF Same, All
      <3>. QED
        BY <1>1, <3>1
    <2>. HIDE DEF Same
    <2>. QED
      BY <2>1, FS_EmptySet
  <1>3. v \in volumes /\ volumes \subseteq Nat
    BY <1>2 DEF Seeing
  <1>4. 2 * Cardinality(Up(v)) > All
    <2>1. Same \in SUBSET Up(v)
      BY DEF Seeing
    <2>. HIDE DEF Same, Up
    <2>2. Cardinality(Same) <= Cardinality(Up(v))
      BY <1>1, <2>1, FS_Subset
    <2>. QED
      BY <1>1, <2>2 DEF Same
  <1>5. ASSUME NEW u \in volumes, u < v PROVE 2 * Cardinality(Up(u)) < All
    <2>1. u \in Nat /\ Up(u) \in SUBSET P /\ Same \in SUBSET P /\ Up(u) \cap Same = {} /\ IsFiniteSet(P)
      <3>1. u \in Nat
        BY <1>3
      <3>2. Up(u) \cap Same = {}
        BY <1>5, <3>1 DEF Seeing
      <3>. QED
        BY <3>1, <3>2, UpToFinite DEF Seeing
    <2>. HIDE DEF Same, Up
    <2>2. Cardinality(Up(u) \cup Same) = Cardinality(Up(u)) + Cardinality(Same) - Cardinality(Up(u) \cap Same)
      BY <1>1, FS_Union
    <2>3. Cardinality(Up(u) \cap Same) = 0
      BY <2>1, FS_EmptySet
    <2>4. Up(u) \cup Same \in SUBSET P
      BY <2>1
    <2>5. Cardinality(Up(u) \cup Same) <= All
      BY <2>1, <2>4, FS_Subset
    <2>. QED
      BY <1>1, <2>2, <2>3, <2>5 DEF Same
  <1>. HIDE DEF Up, volumes
  <1>6. /\ v \in Lower /\ \A u \in Lower : v <= u /\ u \in Nat
        /\ v \in Upper /\ \A u \in Upper : v <= u /\ u \in Nat
    BY <1>1, <1>3, <1>4, <1>5
  <1>7. MedianTwice(recent, P) = Min(Lower) + Min(Upper)
    BY DEF MedianTwice, volumes, Up
  <1>. HIDE DEF Lower, Upper
  <1>8. \A S \in SUBSET Nat : v \in S /\ (\A u \in S : v <= u) => Min(S) = v
    <2>. SUFFICES ASSUME NEW S \in SUBSET Nat, v \in S, \A u \in S : v <= u PROVE Min(S) = v
      OBVIOUS
    <2>1. Min(S) \in S /\ Min(S) <= v
      BY LeastNumber
    <2>2. Min(S) \in Nat /\ v <= Min(S)
      BY <2>1
    <2>. QED
      BY <2>1, <2>2
  <1>9. Lower \in SUBSET Nat /\ Upper \in SUBSET Nat
    BY <1>6
  <1>10. Min(Lower) = v /\ Min(Upper) = v
    BY <1>6, <1>8, <1>9
  <1>. QED
    BY <1>7, <1>10

---------------------------------------------------------------------------
(* Stretches of suspect runs.                                               *)

\* Products, which the solver does not find: what is needed of blocks of equal length.
LEMMA BlockBounds ==
    /\ \A a \in Nat, b \in Nat, h \in Nat : b <= h => b * a <= h * a
    /\ \A a \in Nat, b \in Nat \ {0} : (b - 1) * a \in Nat /\ b * a \in Nat /\ (b - 1) * a + a = b * a
  <1>1. ASSUME NEW a \in Nat, NEW b \in Nat, NEW h \in Nat, b <= h PROVE b * a <= h * a
    BY <1>1
  <1>. QED
    BY <1>1

\* So many blocks of positions, each with one of a set, so many are in the set.
LEMMA OnePerBlock ==
    ASSUME NEW n \in Nat, NEW S \in SUBSET (1 .. n), NEW a \in Nat \ {0}, NEW h \in Nat,
           \A b \in 1 .. h : \E i \in S : (b - 1) * a < i /\ i <= b * a
    PROVE  h <= Cardinality(S)
  <1>. DEFINE In(b) == {i \in S : (b - 1) * a < i /\ i <= b * a}
              f == [b \in 1 .. h |-> CHOOSE i \in S : (b - 1) * a < i /\ i <= b * a]
  <1>1. \A b \in 1 .. h : f[b] \in S /\ (b - 1) * a < f[b] /\ f[b] <= b * a
    OBVIOUS
  <1>2. \A i \in S : i \in Nat
    OBVIOUS
  <1>3. ASSUME NEW b \in 1 .. h, NEW c \in 1 .. h, b < c PROVE f[b] # f[c]
    <2>1. b \in Nat /\ c - 1 \in Nat /\ b <= c - 1
      BY <1>3
    <2>2. b * a <= (c - 1) * a /\ b * a \in Nat /\ (c - 1) * a \in Nat
      BY <2>1, BlockBounds
    <2>3. f[b] \in Nat /\ f[c] \in Nat /\ f[b] <= b * a /\ (c - 1) * a < f[c]
      BY <1>1, <1>2
    <2>. HIDE DEF f
    <2>. QED
      BY <2>2, <2>3
  <1>4. f \in Injection(1 .. h, S)
    <2>1. f \in [1 .. h -> S]
      BY <1>1
    <2>2. \A b, c \in 1 .. h : f[b] = f[c] => b = c
      <3>. HIDE DEF f
      <3>. SUFFICES ASSUME NEW b \in 1 .. h, NEW c \in 1 .. h, b # c PROVE f[b] # f[c]
        OBVIOUS
      <3>1. b < c \/ c < b
        OBVIOUS
      <3>. QED
        BY <1>3, <3>1
    <2>. HIDE DEF f
    <2>. QED
      BY <2>1, <2>2 DEF Injection, IsInjective
  <1>5. IsFiniteSet(S)
    BY UpToFinite
  <1>6. Cardinality(1 .. h) = h
    BY FS_Interval
  <1>. HIDE DEF f
  <1>. QED
    BY <1>4, <1>5, <1>6, FS_Injection

\* A history as BaselineVolume reads it.
Judged(recent) ==
    /\ Len(recent) \in Nat /\ DOMAIN recent = 1 .. Len(recent)
    /\ \A i \in 1 .. Len(recent) : recent[i].seen \in Nat \ {0} /\ recent[i].suspect \in BOOLEAN

StretchStarts(recent) ==
    {i \in 1 .. Len(recent) - (BaselineAcceptRuns - 1) : Agreeing(recent, i .. i + BaselineAcceptRuns - 1)}

\* What is accepted are the positions from the newest stretch's start to its end.
LEMMA StretchShape ==
    ASSUME NEW recent, Judged(recent)
    PROVE  \/ AcceptedStretch(recent) = {} /\ StretchStarts(recent) = {}
           \/ \E first \in StretchStarts(recent), last \in 1 .. Len(recent) :
                 /\ AcceptedStretch(recent) = first .. last /\ Max(AcceptedStretch(recent)) = last
                 /\ first <= last /\ Agreeing(recent, first .. last)
                 /\ \A i \in StretchStarts(recent) : first <= i
  <1>. DEFINE starts == StretchStarts(recent)
              n == Len(recent)
              A == BaselineAcceptRuns
              first == Min(starts)
              st == AcceptedStretch(recent)
  <1>1. st = {k \in 1 .. n : \E i \in starts : k >= i /\ Agreeing(recent, first .. k)}
    BY DEF AcceptedStretch, StretchStarts, Judged
  <1>2. n \in Nat /\ A \in Nat \ {0} /\ st \in SUBSET (1 .. n)
    BY <1>1, BaselineNumbers DEF Judged
  <1>3. \A i \in starts : i \in Nat /\ 1 <= i /\ i <= n - (A - 1) /\ Agreeing(recent, i .. i + A - 1)
    BY <1>2 DEF StretchStarts
  <1>4. CASE starts = {}
    BY <1>1, <1>4
  <1>5. CASE starts # {}
    <2>1. first \in starts /\ \A i \in starts : first <= i
      <3>1. starts \in SUBSET Nat
        BY <1>3
      <3>. HIDE DEF starts
      <3>. QED
        BY <1>5, <3>1, LeastNumber
    <2>2. first \in Nat /\ 1 <= first /\ first + A - 1 \in 1 .. n /\ first <= first + A - 1
      <3>. HIDE DEF first, n, A
      <3>. QED
        BY <1>2, <1>3, <2>1
    <2>. HIDE DEF first
    <2>3. \A k \in st : k \in 1 .. n /\ first <= k /\ Agreeing(recent, first .. k)
      <3>. SUFFICES ASSUME NEW k \in st PROVE k \in 1 .. n /\ first <= k /\ Agreeing(recent, first .. k)
        OBVIOUS
      <3>1. PICK i \in starts : k >= i /\ Agreeing(recent, first .. k) /\ k \in 1 .. n
        BY <1>1
      <3>2. i \in Nat /\ first <= i
        BY <1>3, <2>1
      <3>. QED
        BY <1>2, <2>2, <3>1, <3>2
    <2>4. \A k \in 1 .. n : first <= k /\ Agreeing(recent, first .. k) => k \in st
      BY <1>1, <2>1, <2>2
    <2>5. first + A - 1 \in st
      BY <1>3, <2>1, <2>2, <2>4
    <2>. DEFINE last == Max(st)
    <2>6. last \in st /\ \A k \in st : k <= last
      <3>. HIDE DEF st, n
      <3>. QED
        BY <1>2, <2>5, GreatestNumber
    <2>. HIDE DEF last, st
    <2>7. last \in 1 .. n /\ first <= last /\ Agreeing(recent, first .. last)
      BY <2>3, <2>6
    <2>8. ASSUME NEW k \in first .. last PROVE k \in st
      <3>1. k \in 1 .. n /\ first <= k /\ first .. k \subseteq first .. last
        BY <1>2, <2>2, <2>7, <2>8
      <3>2. Agreeing(recent, first .. k)
        BY <2>7, <3>1 DEF Agreeing
      <3>. QED
        BY <2>4, <3>1, <3>2
    <2>9. st = first .. last
      <3>1. \A k \in st : k \in first .. last
        <4>. TAKE k \in st
        <4>1. k \in 1 .. n /\ first <= k /\ k <= last
          BY <2>3, <2>6
        <4>. QED
          BY <1>2, <2>2, <2>7, <4>1
      <3>. QED
        BY <2>8, <3>1
    <2>. QED
      BY <2>1, <2>7, <2>9 DEF last, st
  <1>. QED
    BY <1>4, <1>5

\* The runs that may form the baseline, of which it takes the newest.
Counted(recent) ==
    {i \in DOMAIN recent : /\ ~recent[i].suspect \/ i \in AcceptedStretch(recent)
                           /\ AcceptedStretch(recent) # {} => i <= Max(AcceptedStretch(recent))}

\* The baseline in terms of what counts.
LEMMA BaselineIsNewest == \A recent : BaselineVolumes(recent) = Newest(Counted(recent), BaselineWindow)
  BY DEF BaselineVolumes, Counted

\* A volume is stable against itself.
LEMMA OwnVolumeStable == \A v \in Nat \ {0} : StableVolume(v, v)
  <1>. SUFFICES ASSUME NEW v \in Nat \ {0} PROVE StableVolume(v, v)
    OBVIOUS
  <1>1. Min({v, v}) = v /\ Max({v, v}) = v
    BY DEF Min, Max
  <1>2. StablePercent * v <= 100 * v
    BY BaselineNumbers, BlockBounds
  <1>. QED
    BY <1>1, <1>2 DEF StableVolume

\* A run of the volume of the baseline is not suspect, one far below is.
LEMMA MedianJudges ==
    ASSUME NEW recent, NEW v \in Nat, NEW w \in Nat, MedianTwice(recent, BaselineVolumes(recent)) = 2 * w
    PROVE  /\ IsSuspect(recent, v) => 100 * v < SuspectPercent * w
           /\ w <= v => ~IsSuspect(recent, v)
           /\ Cardinality(BaselineVolumes(recent)) >= MinBaselineRuns /\ 100 * v < SuspectPercent * w
                => IsSuspect(recent, v)
  <1>1. SuspectPercent * w <= 100 * w /\ SuspectPercent * w \in Nat
    BY BaselineNumbers, BlockBounds
  <1>2. SuspectPercent * (2 * w) = 2 * (SuspectPercent * w)
    BY BaselineNumbers
  <1>3. 200 * v < SuspectPercent * (2 * w) <=> 100 * v < SuspectPercent * w
    BY <1>1, <1>2
  <1>. QED
    BY <1>1, <1>3 DEF IsSuspect

---------------------------------------------------------------------------
(* A level is accepted.                                                     *)

Long == (BaselineWindow \div 2 + 1) * BaselineAcceptRuns

\* Of so many runs in a row that saw the same, so many form the baseline that they
\* are most of it: any BaselineAcceptRuns of them hold a clean run, or are a stretch.
LEMMA SameVolumeAccepted ==
    ASSUME NEW recent, Judged(recent), NEW v \in Nat \ {0}, Long <= Len(recent),
           \A i \in 1 .. Long : recent[i].seen = v
    PROVE  ~IsSuspect(recent, v)
  <1>. DEFINE P == BaselineVolumes(recent)
              C == Counted(recent)
              half == BaselineWindow \div 2 + 1
              A == BaselineAcceptRuns
              n == Len(recent)
              st == AcceptedStretch(recent)
              Same == Seeing(recent, P, v)
  <1>1. /\ half \in Nat \ {0} /\ A \in Nat \ {0} /\ Long \in Nat /\ n \in Nat /\ Long = half * A
        /\ BaselineWindow < 2 * half
    BY BaselineNumbers, BlockBounds DEF Judged, Long
  <1>2. C \in SUBSET (1 .. n) /\ P \in SUBSET C
    <2>1. C \in SUBSET (1 .. n)
      BY DEF Counted, Judged
    <2>. HIDE DEF C, n
    <2>. QED
      BY <1>1, <2>1, BaselineIsNewest, NewestShape, BaselineNumbers DEF C
  <1>3. /\ P = C \/ Cardinality(P) = BaselineWindow
        /\ Cardinality(P) <= BaselineWindow
        /\ \A i \in P, j \in C : j <= i => j \in P
    <2>. HIDE DEF C, n
    <2>. QED
      BY <1>1, <1>2, BaselineIsNewest, NewestShape, BaselineNumbers DEF C
  <1>4. /\ IsFiniteSet(P) /\ Cardinality(P) \in Nat /\ IsFiniteSet(Same) /\ Cardinality(Same) \in Nat
        /\ \A i \in P : recent[i].seen \in Nat /\ i \in 1 .. n
    <2>1. P \in SUBSET (1 .. n) /\ Same \in SUBSET (1 .. n)
      BY <1>2 DEF Seeing
    <2>2. \A i \in P : recent[i].seen \in Nat
      BY <2>1 DEF Judged
    <2>. HIDE DEF P, Same, n
    <2>. QED
      BY <1>1, <2>1, <2>2, UpToFinite
  <1>10. ASSUME Cardinality(P) < 2 * Cardinality(Same) PROVE ~IsSuspect(recent, v)
    <2>1. P \in SUBSET (1 .. n)
      BY <1>4
    <2>2. MedianTwice(recent, P) = 2 * v
      <3>1. n \in Nat /\ v \in Nat /\ \A i \in P : recent[i].seen \in Nat
        BY <1>1, <1>4
      <3>. HIDE DEF P, n
      <3>. QED
        BY <1>10, <2>1, <3>1, MajorityIsMedian
    <2>. QED
      BY <2>2, MedianJudges
  <1>. SUFFICES ASSUME IsSuspect(recent, v) PROVE Cardinality(P) < 2 * Cardinality(Same)
    BY <1>10
  <1>5. Cardinality(P) >= 1
    BY <1>4, BaselineNumbers DEF IsSuspect
  <1>6. ASSUME \A i \in P : i <= Long PROVE Cardinality(P) < 2 * Cardinality(Same)
    <2>1. Same = P
      BY <1>1, <1>4, <1>6 DEF Seeing
    <2>. HIDE DEF P, Same
    <2>. QED
      BY <1>4, <1>5, <2>1
  <1>7. CASE st # {} /\ Max(st) <= Long
    <2>1. PICK last \in 1 .. n : Max(st) = last
      BY <1>7, StretchShape
    <2>2. \A i \in C : i <= last
      BY <1>7, <2>1 DEF Counted
    <2>3. \A i \in P : i <= Long
      BY <1>1, <1>2, <1>4, <1>7, <2>1, <2>2
    <2>. QED
      BY <1>6, <2>3
  <1>8. CASE ~(st # {} /\ Max(st) <= Long)
    <2>. DEFINE T == {i \in C : i <= Long}
    <2>1. ASSUME NEW b \in 1 .. half
          PROVE  \E i \in T : (b - 1) * A < i /\ i <= b * A
      <3>. DEFINE before == (b - 1) * A
      <3>. HIDE DEF half
      <3>0. b \in Nat \ {0} /\ b <= half
        BY <1>1
      <3>1. before \in Nat /\ before + A = b * A /\ b * A <= Long
        BY <1>1, <3>0, BlockBounds
      <3>. HIDE DEF before
      <3>2. CASE \E i \in before + 1 .. before + A : ~recent[i].suspect
        <4>1. PICK i \in before + 1 .. before + A : ~recent[i].suspect
          BY <3>2
        <4>2. i \in 1 .. n /\ i <= Long /\ before < i /\ i <= b * A
          BY <1>1, <3>1
        <4>3. st # {} => i <= Max(st)
          <5>. SUFFICES ASSUME st # {} PROVE i <= Max(st)
            OBVIOUS
          <5>1. PICK last \in 1 .. n : Max(st) = last
            BY StretchShape
          <5>. QED
            BY <1>1, <1>8, <4>2, <5>1
        <4>4. i \in C
          BY <4>1, <4>2, <4>3 DEF Counted, Judged
        <4>. QED
          BY <4>2, <4>4 DEF before
      <3>3. CASE \A i \in before + 1 .. before + A : recent[i].suspect
        <4>. DEFINE s == before + 1
        <4>1. s \in Nat \ {0} /\ s + A - 1 = before + A /\ s <= Long /\ s \in 1 .. n - (A - 1) /\ s <= b * A /\ before < s
          BY <1>1, <3>1
        <4>2. Agreeing(recent, s .. s + A - 1)
          <5>0. \A k \in s .. s + A - 1 : k \in 1 .. Long /\ k \in before + 1 .. before + A
            BY <1>1, <3>1, <4>1
          <5>1. \A k \in s .. s + A - 1 : k \in 1 .. Long /\ recent[k].suspect
            BY <3>3, <5>0
          <5>2. \A k \in s .. s + A - 1 : recent[k].seen = v
            BY <5>1
          <5>. HIDE DEF s
          <5>. QED
            BY <5>1, <5>2, OwnVolumeStable DEF Agreeing
        <4>3. s \in StretchStarts(recent)
          BY <4>1, <4>2 DEF StretchStarts
        <4>4. PICK first \in StretchStarts(recent), last \in 1 .. n :
                  st = first .. last /\ Max(st) = last /\ first <= last /\ first <= s
          BY <4>3, StretchShape
        <4>5. first \in Nat /\ last \in Nat
          BY <1>1, <4>4 DEF StretchStarts
        <4>6. Long < last /\ s \in st
          <5>1. first \in st
            BY <4>4, <4>5
          <5>2. ~(last <= Long)
            BY <1>8, <4>4, <5>1
          <5>. HIDE DEF s
          <5>3. Long < last /\ s \in first .. last
            BY <1>1, <4>1, <4>4, <4>5, <5>2
          <5>. QED
            BY <4>4, <5>3
        <4>7. s \in C
          <5>1. s \in 1 .. n /\ s <= last
            BY <1>1, <4>1, <4>5, <4>6
          <5>. HIDE DEF s
          <5>. QED
            BY <4>4, <4>6, <5>1 DEF Counted, Judged
        <4>. HIDE DEF s
        <4>. QED
          BY <4>1, <4>7 DEF before
      <3>. QED
        BY <3>2, <3>3
    <2>2. half <= Cardinality(T)
      <3>1. T \in SUBSET (1 .. n)
        BY <1>2
      <3>. HIDE DEF T, n, half, A
      <3>. QED
        BY <1>1, <2>1, <3>1, OnePerBlock
    <2>3. CASE T \subseteq P
      <3>1. T \in SUBSET Same
        <4>1. \A i \in T : i \in 1 .. Long
          BY <1>1, <1>2
        <4>. QED
          BY <2>3, <4>1 DEF Seeing
      <3>. HIDE DEF T, Same, P, half
      <3>2. Cardinality(T) <= Cardinality(Same) /\ Cardinality(T) \in Nat
        BY <1>4, <3>1, FS_Subset, FS_CardinalityType
      <3>3. Cardinality(P) < 2 * Cardinality(Same)
        BY <1>1, <1>3, <1>4, <2>2, <3>2, BaselineNumbers
      <3>. QED
        BY <3>3
    <2>4. CASE ~(T \subseteq P)
      <3>1. PICK t \in T : t \notin P
        BY <2>4
      <3>2. \A i \in P : i <= Long
        <4>. TAKE i \in P
        <4>1. i \in Nat /\ t \in Nat /\ t <= Long /\ t \in C
          BY <1>2, <1>4, <3>1
        <4>2. ~(t <= i)
          BY <1>3, <3>1, <4>1
        <4>. QED
          BY <1>1, <4>1, <4>2
      <3>. QED
        BY <1>6, <3>2
    <2>. QED
      BY <2>3, <2>4
  <1>. QED
    BY <1>7, <1>8

---------------------------------------------------------------------------
(* The rows of a scope, while no two of its runs overlap.                   *)

\* No two runs of one scope are under way at once.
OneRunPerScope ==
    \A c, d \in Crawlers :
        crawler[c].pc # "idle" /\ crawler[d].pc # "idle" /\ ScopeOf(c) = ScopeOf(d) => c = d

Rows == [by : SUBSET Crawlers, seen : Nat, suspect : BOOLEAN]
Unfinished(c) == crawler[c].pc \in {"search", "rank", "crawl", "apply"}

\* The rows behind the one of the run that has not finished.
Log(history) == IF history # <<>> /\ history[1].by # {} THEN Tail(history) ELSE history

\* A row that counts.
Counts(row) == row.by = {} /\ row.seen # 0

\* Positions in a row are numbered in order.
LEMMA OrdinalInInterval ==
    ASSUME NEW a \in Nat, NEW b \in Int, NEW i \in a .. b
    PROVE  Ordinal(a .. b, i) = i - a + 1
  <1>1. {j \in a .. b : j <= i} = a .. i
    OBVIOUS
  <1>2. Cardinality(a .. i) = i - a + 1
    BY FS_Interval
  <1>. QED
    BY <1>1, <1>2 DEF Ordinal

\* The rows at positions in a row are those rows.
LEMMA RowsAtInterval ==
    ASSUME NEW history \in Seq(Rows), NEW a \in Nat \ {0}, NEW b \in Nat, b <= Len(history), a <= b + 1
    PROVE  /\ RowsAt(history, a .. b) \in Seq(Rows) /\ Len(RowsAt(history, a .. b)) = b - a + 1
           /\ \A n \in 1 .. b - a + 1 : RowsAt(history, a .. b)[n] = history[a + n - 1]
  <1>. DEFINE S == a .. b
              m == b - a + 1
  <1>0. m \in Nat /\ Len(history) \in Nat
    OBVIOUS
  <1>1. Cardinality(S) = m
    <2>1. a \in Int /\ b \in Int /\ (a > b => m = 0)
      OBVIOUS
    <2>. QED
      BY <2>1, FS_Interval
  <1>2. \A i \in S : Ordinal(S, i) = i - a + 1
    <2>1. a \in Nat /\ b \in Int
      OBVIOUS
    <2>. QED
      BY <2>1, OrdinalInInterval
  <1>3. ASSUME NEW n \in 1 .. m PROVE Nth(S, n) = a + n - 1
    <2>1. a + n - 1 \in S /\ Ordinal(S, a + n - 1) = n
      BY <1>2
    <2>2. \A i \in S : Ordinal(S, i) = n => i = a + n - 1
      BY <1>2
    <2>. HIDE DEF S
    <2>. QED
      BY <2>1, <2>2 DEF Nth
  <1>4. \A n \in 1 .. m : a + n - 1 \in 1 .. Len(history)
    BY <1>0
  <1>. HIDE DEF S
  <1>5. RowsAt(history, S) = [n \in 1 .. m |-> history[Nth(S, n)]]
    BY <1>1 DEF RowsAt
  <1>6. \A n \in 1 .. m : history[Nth(S, n)] = history[a + n - 1] /\ history[Nth(S, n)] \in Rows
    BY <1>3, <1>4
  <1>. HIDE DEF m
  <1>7. RowsAt(history, S) \in [1 .. m -> Rows] /\ \A n \in 1 .. m : RowsAt(history, S)[n] = history[a + n - 1]
    BY <1>5, <1>6
  <1>8. RowsAt(history, S) \in Seq(Rows) /\ Len(RowsAt(history, S)) = m
    BY <1>0, <1>7
  <1>. QED
    BY <1>7, <1>8 DEF S, m

\* The rows at all positions, and at all but the first.
LEMMA RowsAtAll ==
    ASSUME NEW history \in Seq(Rows)
    PROVE  /\ RowsAt(history, 1 .. Len(history)) = history
           /\ history # <<>> => RowsAt(history, 2 .. Len(history)) = Tail(history)
  <1>. DEFINE n == Len(history)
  <1>1. n \in Nat
    OBVIOUS
  <1>2. RowsAt(history, 1 .. n) = history
    <2>. DEFINE r == RowsAt(history, 1 .. n)
    <2>1. r \in Seq(Rows) /\ Len(r) = n - 1 + 1 /\ \A k \in 1 .. n - 1 + 1 : r[k] = history[1 + k - 1]
      <3>1. 1 \in Nat \ {0} /\ n <= Len(history) /\ 1 <= n + 1
        BY <1>1
      <3>. HIDE DEF n
      <3>. QED
        BY <1>1, <3>1, RowsAtInterval
    <2>. HIDE DEF r
    <2>2. Len(r) = n /\ \A k \in 1 .. n : r[k] = history[k]
      BY <1>1, <2>1
    <2>. QED
      BY <1>1, <2>1, <2>2, SeqEqual DEF r
  <1>3. ASSUME history # <<>> PROVE RowsAt(history, 2 .. n) = Tail(history)
    <2>. DEFINE r == RowsAt(history, 2 .. n)
    <2>0. 2 <= n + 1
      BY <1>1, <1>3
    <2>1. r \in Seq(Rows) /\ Len(r) = n - 2 + 1 /\ \A k \in 1 .. n - 2 + 1 : r[k] = history[2 + k - 1]
      <3>1. 2 \in Nat \ {0} /\ n <= Len(history)
        BY <1>1
      <3>. HIDE DEF n
      <3>. QED
        BY <1>1, <2>0, <3>1, RowsAtInterval
    <2>. HIDE DEF r
    <2>2. Tail(history) \in Seq(Rows) /\ Len(Tail(history)) = n - 1 /\ \A k \in 1 .. n - 1 : Tail(history)[k] = history[k + 1]
      BY <1>3
    <2>3. Len(r) = n - 1 /\ \A k \in 1 .. n - 1 : r[k] = history[k + 1]
      BY <1>1, <2>1
    <2>. QED
      BY <2>1, <2>2, <2>3, SeqEqual DEF r
  <1>. QED
    BY <1>2, <1>3

\* Every row counts but perhaps the first, which is then unfinished.
LogBehind(history) ==
    /\ history \in Seq(Rows) /\ \A i \in 2 .. Len(history) : Counts(history[i])
    /\ history # <<>> => Counts(history[1]) \/ (history[1].by # {} /\ history[1].seen = 0)

\* Where the rows that count stand: all of them, or all but the first.
LEMMA LogRows ==
    ASSUME NEW history, LogBehind(history)
    PROVE  /\ Log(history) \in Seq(Rows) /\ Judged(Log(history))
           /\ \A i \in 1 .. Len(Log(history)) : Counts(Log(history)[i])
           /\ \/ /\ history # <<>> /\ history[1].by # {} /\ Recorded(history) = 2 .. Len(history)
                 /\ Log(history) = Tail(history) /\ Len(Log(history)) = Len(history) - 1
                 /\ \A i \in 2 .. Len(history) : Log(history)[i - 1] = history[i]
              \/ /\ Log(history) = history /\ Recorded(history) = 1 .. Len(history)
                 /\ history # <<>> => history[1].by = {}
  <1>. DEFINE n == Len(history)
  <1>1. /\ n \in Nat /\ DOMAIN history = 1 .. n /\ history \in Seq(Rows)
        /\ \A i \in 1 .. n : history[i].by \in SUBSET Crawlers /\ history[i].seen \in Nat /\ history[i].suspect \in BOOLEAN
    <2>1. history \in Seq(Rows)
      BY DEF LogBehind
    <2>2. n \in Nat /\ DOMAIN history = 1 .. n /\ \A i \in 1 .. n : history[i] \in Rows
      BY <2>1
    <2>3. \A row \in Rows : row.by \in SUBSET Crawlers /\ row.seen \in Nat /\ row.suspect \in BOOLEAN
      BY DEF Rows
    <2>. QED
      BY <2>1, <2>2, <2>3
  <1>2. CASE history # <<>> /\ history[1].by # {}
    <2>1. Log(history) = Tail(history) /\ 1 <= n
      BY <1>1, <1>2 DEF Log
    <2>2. /\ Tail(history) \in Seq(Rows) /\ Len(Tail(history)) = n - 1 /\ DOMAIN Tail(history) = 1 .. n - 1
          /\ \A k \in 1 .. n - 1 : Tail(history)[k] = history[k + 1]
      BY <1>1, <1>2
    <2>3. history[1].seen = 0 /\ \A i \in 2 .. n : Counts(history[i]) /\ history[i].seen > 0
      BY <1>1, <1>2, <2>1 DEF Counts, LogBehind
    <2>4. Recorded(history) = 2 .. n
      BY <1>1, <2>1, <2>3 DEF Recorded
    <2>5. \A k \in 1 .. n - 1 : k + 1 \in 2 .. n
      BY <1>1
    <2>6. \A k \in 1 .. n - 1 : Counts(Tail(history)[k])
      BY <2>2, <2>3, <2>5
    <2>7. Judged(Tail(history))
      <3>1. \A k \in 1 .. n - 1 : Tail(history)[k].seen \in Nat \ {0} /\ Tail(history)[k].suspect \in BOOLEAN
        BY <1>1, <2>2, <2>3, <2>5
      <3>. QED
        BY <1>1, <2>1, <2>2, <3>1 DEF Judged
    <2>8. \A i \in 2 .. n : Tail(history)[i - 1] = history[i]
      <3>. TAKE i \in 2 .. n
      <3>1. i - 1 \in 1 .. n - 1 /\ (i - 1) + 1 = i
        BY <1>1
      <3>. QED
        BY <2>2, <3>1
    <2>. QED
      BY <1>2, <2>1, <2>2, <2>4, <2>6, <2>7, <2>8
  <1>3. CASE ~(history # <<>> /\ history[1].by # {})
    <2>1. Log(history) = history
      BY <1>3 DEF Log
    <2>2. \A i \in 1 .. n : Counts(history[i])
      <3>. TAKE i \in 1 .. n
      <3>1. CASE i = 1
        <4>1. history # <<>>
          BY <1>1, <3>1
        <4>. QED
          BY <1>3, <3>1, <4>1 DEF LogBehind
      <3>2. CASE i # 1
        <4>1. i \in 2 .. n
          BY <1>1, <3>2
        <4>. QED
          BY <4>1 DEF LogBehind
      <3>. QED
        BY <3>1, <3>2
    <2>3. \A i \in 1 .. n : history[i].seen > 0 /\ history[i].seen \in Nat \ {0}
      BY <1>1, <2>2 DEF Counts
    <2>4. Recorded(history) = 1 .. n
      BY <1>1, <2>3 DEF Recorded
    <2>5. Judged(history)
      BY <1>1, <2>3 DEF Judged
    <2>. QED
      BY <1>1, <1>3, <2>1, <2>2, <2>4, <2>5
  <1>. QED
    BY <1>2, <1>3

\* The baseline looks at the rows that count.
LEMMA RecentIsLog ==
    ASSUME NEW history, LogBehind(history), Len(Log(history)) <= BaselineScan
    PROVE  Recent(history) = Log(history)
  <1>. DEFINE n == Len(history)
  <1>1. n \in Nat /\ history \in Seq(Rows)
    BY DEF LogBehind
  <1>2. CASE history # <<>> /\ Recorded(history) = 2 .. n /\ Log(history) = Tail(history) /\ Len(Log(history)) = n - 1
    <2>1. \A i \in 2 .. n : Ordinal(2 .. n, i) <= BaselineScan
      <3>. TAKE i \in 2 .. n
      <3>1. Ordinal(2 .. n, i) = i - 2 + 1
        <4>1. 2 \in Nat /\ n \in Int
          BY <1>1
        <4>. HIDE DEF n
        <4>. QED
          BY <4>1, OrdinalInInterval
      <3>. QED
        BY <1>1, <1>2, <3>1, BaselineNumbers
    <2>2. Newest(2 .. n, BaselineScan) = 2 .. n
      BY <2>1 DEF Newest
    <2>. QED
      BY <1>1, <1>2, <2>2, RowsAtAll DEF Recent
  <1>3. CASE Recorded(history) = 1 .. n /\ Log(history) = history
    <2>1. \A i \in 1 .. n : Ordinal(1 .. n, i) <= BaselineScan
      <3>. TAKE i \in 1 .. n
      <3>1. Ordinal(1 .. n, i) = i - 1 + 1
        <4>1. 1 \in Nat /\ n \in Int
          BY <1>1
        <4>. HIDE DEF n
        <4>. QED
          BY <4>1, OrdinalInInterval
      <3>. QED
        BY <1>1, <1>3, <3>1, BaselineNumbers
    <2>2. Newest(1 .. n, BaselineScan) = 1 .. n
      BY <2>1 DEF Newest
    <2>. QED
      BY <1>1, <1>3, <2>2, RowsAtAll DEF Recent
  <1>. QED
    BY <1>2, <1>3, LogRows

---------------------------------------------------------------------------
(* What opening and closing a row does to a scope's rows.                   *)

OpenRow(c) == [by |-> {c}, seen |-> 0, suspect |-> FALSE]
DoneRow(seen, suspect) == [by |-> {}, seen |-> seen, suspect |-> suspect]

\* A run starts while none is under way: the rows behind its own stay as they are.
LEMMA OpenLog ==
    ASSUME NEW history, LogBehind(history), NEW c \in Crawlers, history # <<>> => history[1].by = {}
    PROVE  /\ LogBehind(<<OpenRow(c)>> \o history) /\ Log(<<OpenRow(c)>> \o history) = Log(history)
           /\ <<OpenRow(c)>> \o history # <<>> /\ (<<OpenRow(c)>> \o history)[1].by = {c}
  <1>. DEFINE opened == <<OpenRow(c)>> \o history
              n == Len(history)
  <1>1. /\ n \in Nat /\ history \in Seq(Rows) /\ Log(history) = history
        /\ \A i \in 1 .. n : Counts(history[i])
    <2>1. history \in Seq(Rows) /\ Log(history) = history
      BY DEF LogBehind, Log
    <2>. QED
      BY <2>1, LogRows
  <1>2. OpenRow(c) \in Rows /\ OpenRow(c).by = {c} /\ OpenRow(c).by # {} /\ OpenRow(c).seen = 0
    BY DEF OpenRow, Rows
  <1>. HIDE DEF OpenRow
  <1>3. /\ opened \in Seq(Rows) /\ Len(opened) = n + 1 /\ opened[1] = OpenRow(c)
        /\ \A i \in 2 .. n + 1 : opened[i] = history[i - 1]
    BY <1>1, <1>2
  <1>4. Tail(opened) = history /\ opened # <<>>
    <2>1. /\ Tail(opened) \in Seq(Rows) /\ Len(Tail(opened)) = n /\ opened # <<>>
          /\ \A i \in 1 .. n : Tail(opened)[i] = opened[i + 1]
      BY <1>1, <1>3
    <2>2. \A i \in 1 .. n : Tail(opened)[i] = history[i]
      <3>. TAKE i \in 1 .. n
      <3>1. i + 1 \in 2 .. n + 1 /\ (i + 1) - 1 = i
        BY <1>1
      <3>. QED
        BY <1>3, <2>1, <3>1
    <2>. QED
      BY <1>1, <2>1, <2>2, SeqEqual
  <1>. HIDE DEF opened
  <1>5. \A i \in 2 .. Len(opened) : Counts(opened[i])
    <2>. TAKE i \in 2 .. Len(opened)
    <2>1. i \in 2 .. n + 1 /\ i - 1 \in 1 .. n
      BY <1>1, <1>3
    <2>. QED
      BY <1>1, <1>3, <2>1
  <1>6. LogBehind(opened)
    BY <1>2, <1>3, <1>5 DEF LogBehind
  <1>7. Log(opened) = history
    BY <1>2, <1>3, <1>4 DEF Log
  <1>. QED
    BY <1>1, <1>2, <1>3, <1>4, <1>6, <1>7 DEF opened

\* The rows with what the run of `c` found in its own, before old ones are dropped.
Finished(history, c, seen, suspect) ==
    [i \in DOMAIN history |-> IF history[i].by = {c} THEN DoneRow(seen, suspect) ELSE history[i]]

\* What closing a run's row does to the rows of its scope.
LEMMA ClosedIsTrimmed ==
    \A c, seen : Closed(c, seen) =
        [runs EXCEPT ![ScopeOf(c)] = Trim(Finished(runs[ScopeOf(c)], c, seen, tally[c].verdict = "suspect"))]
  BY DEF Closed, Finished, DoneRow

\* A row in front of those that count, the last of which it may push out.
InFront(row, before, after) ==
    /\ Len(after) = IF Len(before) + 1 <= BaselineScan THEN Len(before) + 1 ELSE BaselineScan
    /\ after[1] = row
    /\ \A i \in 2 .. Len(after) : after[i] = before[i - 1]

\* Whether the row that is closed is kept, and which of the others.
LEMMA CloseLog ==
    ASSUME NEW history, LogBehind(history), Len(Log(history)) <= BaselineScan, NEW c \in Crawlers,
           history # <<>>, history[1].by = {c}, NEW seen \in Nat, NEW suspect \in BOOLEAN,
           NEW after, after = Trim(Finished(history, c, seen, suspect))
    PROVE  /\ LogBehind(after) /\ Log(after) = after /\ Len(after) <= BaselineScan
           /\ after # <<>> => after[1].by = {}
           /\ seen = 0 => after = Log(history)
           /\ seen # 0 => InFront(DoneRow(seen, suspect), Log(history), after)
  <1>. DEFINE n == Len(history)
              done == Finished(history, c, seen, suspect)
  <1>1. /\ n \in Nat /\ 1 <= n /\ BaselineScan \in Nat \ {0} /\ history \in Seq(Rows)
        /\ Log(history) = Tail(history) /\ Len(Log(history)) = n - 1 /\ {c} # {}
    <2>1. history \in Seq(Rows) /\ Log(history) = Tail(history)
      BY DEF LogBehind, Log
    <2>. QED
      BY <2>1, BaselineNumbers
  <1>2. \A i \in 2 .. n : Counts(history[i]) /\ history[i].by = {} /\ history[i].seen > 0 /\ history[i] \in Rows
    <2>. TAKE i \in 2 .. n
    <2>1. i \in 1 .. n /\ Counts(history[i])
      BY <1>1 DEF LogBehind
    <2>2. history[i] \in Rows
      BY <1>1, <2>1
    <2>3. history[i].seen \in Nat
      BY <2>2 DEF Rows
    <2>. QED
      BY <2>1, <2>2, <2>3 DEF Counts
  <1>3. DoneRow(seen, suspect) \in Rows /\ DoneRow(seen, suspect).by = {} /\ DoneRow(seen, suspect).seen = seen
    BY DEF DoneRow, Rows
  <1>4. /\ done \in Seq(Rows) /\ Len(done) = n /\ DOMAIN done = 1 .. n /\ done[1] = DoneRow(seen, suspect)
        /\ \A i \in 2 .. n : done[i] = history[i]
    <2>1. DOMAIN history = 1 .. n /\ 1 \in 1 .. n /\ \A i \in 2 .. n : i \in 1 .. n /\ history[i].by # {c}
      <3>1. DOMAIN history = 1 .. n /\ 1 \in 1 .. n /\ \A i \in 2 .. n : i \in 1 .. n
        BY <1>1
      <3>. QED
        BY <1>2, <3>1
    <2>2. done[1] = DoneRow(seen, suspect) /\ \A i \in 2 .. n : done[i] = history[i]
      BY <2>1 DEF Finished
    <2>3. \A i \in 1 .. n : i = 1 \/ i \in 2 .. n
      BY <1>1
    <2>4. DOMAIN done = 1 .. n /\ \A i \in 1 .. n : done[i] \in Rows
      <3>1. \A i \in 1 .. n : done[i] \in Rows
        BY <1>2, <1>3, <2>2, <2>3
      <3>. QED
        BY <2>1, <3>1 DEF Finished
    <2>5. done \in [1 .. n -> Rows]
      BY <2>1, <2>4 DEF Finished
    <2>. HIDE DEF done
    <2>. QED
      BY <1>1, <2>2, <2>4, <2>5
  <1>5. \A i \in 2 .. n : done[i].by = {} /\ done[i].seen > 0
    BY <1>2, <1>4
  <1>. HIDE DEF done
  <1>6. CASE seen = 0
    <2>1. Recorded(done) = 2 .. n
      <3>1. \A i \in 1 .. n : done[i].seen > 0 <=> i \in 2 .. n
        <4>. TAKE i \in 1 .. n
        <4>1. CASE i = 1
          BY <1>1, <1>3, <1>4, <1>6, <4>1
        <4>2. CASE i # 1
          <5>1. i \in 2 .. n
            BY <1>1, <4>2
          <5>. QED
            BY <1>5, <5>1
        <4>. QED
          BY <4>1, <4>2
      <3>. QED
        BY <1>1, <1>4, <3>1 DEF Recorded
    <2>2. \A i \in 2 .. n : Ordinal(2 .. n, i) <= BaselineScan
      <3>. TAKE i \in 2 .. n
      <3>1. Ordinal(2 .. n, i) = i - 2 + 1
        <4>1. 2 \in Nat /\ n \in Int
          BY <1>1
        <4>. HIDE DEF n
        <4>. QED
          BY <4>1, OrdinalInInterval
      <3>. QED
        BY <1>1, <3>1
    <2>3. after = RowsAt(done, 2 .. n)
      <3>1. \A i \in 1 .. n : (done[i].seen > 0 \/ done[i].by # {}) /\ Ordinal(Recorded(done), i) <= BaselineScan <=> i \in 2 .. n
        <4>. TAKE i \in 1 .. n
        <4>1. CASE i = 1
          BY <1>1, <1>3, <1>4, <1>6, <4>1
        <4>2. CASE i # 1
          <5>1. i \in 2 .. n
            BY <1>1, <4>2
          <5>. QED
            BY <1>5, <2>1, <2>2, <5>1
        <4>. QED
          BY <4>1, <4>2
      <3>2. {i \in DOMAIN done : (done[i].seen > 0 \/ done[i].by # {}) /\ Ordinal(Recorded(done), i) <= BaselineScan} = 2 .. n
        BY <1>1, <1>4, <3>1
      <3>. QED
        BY <3>2 DEF Trim, done
    <2>4. after = Tail(history)
      <3>0. 2 \in Nat \ {0} /\ n <= Len(done) /\ 2 <= n + 1
        BY <1>1, <1>4
      <3>1. /\ after \in Seq(Rows) /\ Len(after) = n - 2 + 1
            /\ \A k \in 1 .. n - 2 + 1 : after[k] = done[2 + k - 1]
        <4>1. /\ RowsAt(done, 2 .. n) \in Seq(Rows) /\ Len(RowsAt(done, 2 .. n)) = n - 2 + 1
              /\ \A k \in 1 .. n - 2 + 1 : RowsAt(done, 2 .. n)[k] = done[2 + k - 1]
          <5>1. done \in Seq(Rows) /\ n \in Nat
            BY <1>1, <1>4
          <5>. HIDE DEF n
          <5>. QED
            BY <3>0, <5>1, RowsAtInterval
        <4>. QED
          BY <2>3, <4>1
      <3>2. /\ Tail(history) \in Seq(Rows) /\ Len(Tail(history)) = n - 1
            /\ \A k \in 1 .. n - 1 : Tail(history)[k] = history[k + 1]
        BY <1>1
      <3>3. Len(after) = n - 1 /\ \A k \in 1 .. n - 1 : after[k] = history[k + 1]
        <4>1. \A k \in 1 .. n - 1 : k \in 1 .. n - 2 + 1 /\ 2 + k - 1 = k + 1 /\ k + 1 \in 2 .. n
          BY <1>1
        <4>2. Len(after) = n - 1
          BY <1>1, <3>1
        <4>. QED
          BY <1>4, <3>1, <4>1, <4>2
      <3>. QED
        BY <3>1, <3>2, <3>3, SeqEqual
    <2>5. \A i \in 1 .. n - 1 : Counts(Tail(history)[i])
      BY <1>1, LogRows
    <2>6. LogBehind(after) /\ (after # <<>> => after[1].by = {})
      <3>1. after \in Seq(Rows) /\ Len(after) = n - 1 /\ \A i \in 1 .. n - 1 : Counts(after[i])
        BY <1>1, <2>4, <2>5
      <3>2. \A i \in 2 .. Len(after) : Counts(after[i])
        BY <1>1, <3>1
      <3>3. after # <<>> => Counts(after[1])
        BY <1>1, <3>1
      <3>. QED
        <4>1. LogBehind(after)
          BY <3>1, <3>2, <3>3 DEF LogBehind
        <4>2. after # <<>> => after[1].by = {}
          BY <3>3 DEF Counts
        <4>. QED
          BY <4>1, <4>2
    <2>. QED
      BY <1>1, <1>6, <2>4, <2>6 DEF Log
  <1>7. CASE seen # 0
    <2>. DEFINE m == IF n <= BaselineScan THEN n ELSE BaselineScan
    <2>0. m \in Nat /\ 1 <= m /\ m <= n /\ m <= BaselineScan
      BY <1>1
    <2>1. \A i \in 1 .. n : done[i].by = {} /\ done[i].seen > 0
      <3>. TAKE i \in 1 .. n
      <3>1. CASE i = 1
        BY <1>1, <1>3, <1>4, <1>7, <3>1
      <3>2. CASE i # 1
        <4>1. i \in 2 .. n
          BY <1>1, <3>2
        <4>. QED
          BY <1>5, <4>1
      <3>. QED
        BY <3>1, <3>2
    <2>2. Recorded(done) = 1 .. n
      BY <1>4, <2>1 DEF Recorded
    <2>3. \A i \in 1 .. n : Ordinal(1 .. n, i) = i
      <3>. TAKE i \in 1 .. n
      <3>1. Ordinal(1 .. n, i) = i - 1 + 1
        <4>1. 1 \in Nat /\ n \in Int
          BY <1>1
        <4>. HIDE DEF n
        <4>. QED
          BY <4>1, OrdinalInInterval
      <3>. QED
        BY <1>1, <3>1
    <2>4. after = RowsAt(done, 1 .. m)
      <3>1. \A i \in 1 .. n : (done[i].seen > 0 \/ done[i].by # {}) /\ Ordinal(Recorded(done), i) <= BaselineScan <=> i \in 1 .. m
        <4>. TAKE i \in 1 .. n
        <4>1. i <= BaselineScan <=> i \in 1 .. m
          BY <1>1
        <4>. QED
          BY <2>1, <2>2, <2>3, <4>1
      <3>2. {i \in DOMAIN done : (done[i].seen > 0 \/ done[i].by # {}) /\ Ordinal(Recorded(done), i) <= BaselineScan} = 1 .. m
        <4>1. \A i \in 1 .. m : i \in 1 .. n
          BY <1>1
        <4>. HIDE DEF m
        <4>. QED
          BY <1>4, <3>1, <4>1
      <3>. QED
        BY <3>2 DEF Trim, done
    <2>. HIDE DEF m
    <2>5. /\ after \in Seq(Rows) /\ Len(after) = m
          /\ \A k \in 1 .. m : after[k] = done[k]
      <3>0. 1 \in Nat \ {0} /\ m <= Len(done) /\ 1 <= m + 1
        BY <1>1, <1>4, <2>0
      <3>1. /\ after \in Seq(Rows) /\ Len(after) = m - 1 + 1
            /\ \A k \in 1 .. m - 1 + 1 : after[k] = done[1 + k - 1]
        <4>1. /\ RowsAt(done, 1 .. m) \in Seq(Rows) /\ Len(RowsAt(done, 1 .. m)) = m - 1 + 1
              /\ \A k \in 1 .. m - 1 + 1 : RowsAt(done, 1 .. m)[k] = done[1 + k - 1]
          <5>1. done \in Seq(Rows)
            BY <1>4
          <5>. QED
            BY <2>0, <3>0, <5>1, RowsAtInterval
        <4>. QED
          BY <2>4, <4>1
      <3>2. m - 1 + 1 = m /\ \A k \in 1 .. m : 1 + k - 1 = k
        BY <2>0
      <3>. QED
        BY <3>1, <3>2
    <2>6. \A i \in 1 .. m : i \in 1 .. n /\ Counts(after[i])
      <3>. TAKE i \in 1 .. m
      <3>1. i \in 1 .. n
        BY <1>1, <2>0
      <3>. QED
        BY <2>1, <2>5, <3>1 DEF Counts
    <2>7. 1 \in 1 .. m /\ \A i \in 2 .. m : i \in 1 .. m
      BY <2>0
    <2>8. LogBehind(after) /\ (after # <<>> => after[1].by = {})
      <3>1. Counts(after[1]) /\ \A i \in 2 .. Len(after) : Counts(after[i])
        BY <2>5, <2>6, <2>7
      <3>. QED
        <4>1. LogBehind(after)
          BY <2>5, <3>1 DEF LogBehind
        <4>2. after[1].by = {}
          BY <3>1 DEF Counts
        <4>. QED
          BY <4>1, <4>2
    <2>9. \A i \in 2 .. m : after[i] = Log(history)[i - 1]
      <3>. TAKE i \in 2 .. m
      <3>1. i \in 2 .. n /\ i \in 1 .. m /\ i - 1 \in 1 .. n - 1 /\ (i - 1) + 1 = i
        BY <1>1, <2>0
      <3>2. Tail(history)[i - 1] = history[i]
        BY <1>1, <3>1
      <3>. QED
        BY <1>1, <1>4, <2>5, <3>1, <3>2
    <2>. QED
      <3>1. InFront(DoneRow(seen, suspect), Log(history), after)
        BY <1>1, <1>4, <2>5, <2>7, <2>9 DEF InFront, m
      <3>2. Log(after) = after /\ Len(after) <= BaselineScan
        BY <2>0, <2>5, <2>8 DEF Log
      <3>. QED
        BY <1>7, <2>8, <3>1, <3>2
  <1>. QED
    BY <1>6, <1>7

---------------------------------------------------------------------------
(* What holds of the runs of a scope, while they do not overlap.            *)

Verdicts == {"none", "unknown", "suspect", "clean"}

\* The rows of a scope: only a run under way has one that is not finished.
Kept(s) ==
    /\ LogBehind(runs[s]) /\ Len(Log(runs[s])) <= BaselineScan
    /\ runs[s] # <<>> /\ runs[s][1].by # {} => \E c \in Crawlers : Unfinished(c) /\ ScopeOf(c) = s

\* What a run knows: its verdict is the one its own volume has against the runs before it.
Told(c) ==
    /\ Unfinished(c) => runs[ScopeOf(c)] # <<>> /\ runs[ScopeOf(c)][1].by = {c}
    /\ crawler[c].pc \in {"idle", "search"} => tally[c].verdict = "none"
    /\ crawler[c].clean \/ tally[c].verdict # "none" => tally[c].seen # 0
    /\ Unfinished(c) /\ tally[c].verdict = "suspect" => IsSuspect(Log(runs[ScopeOf(c)]), tally[c].seen)
    /\ Unfinished(c) /\ tally[c].verdict = "clean" => ~IsSuspect(Log(runs[ScopeOf(c)]), tally[c].seen)

\* The variables of the guardrail hold what they should.
RunsTyped ==
    /\ world \in Worlds
    /\ runs \in [Scopes -> Seq(Rows)]
    /\ tally \in [Crawlers -> [seen : Nat, verdict : Verdicts]]
    /\ level \in [Scopes -> world.levels]
    /\ steady \in SUBSET Scopes

GuardInv ==
    /\ Shape /\ RunsTyped
    /\ \A s \in Scopes : Kept(s)
    /\ \A c \in Crawlers : Told(c)

Healthy(row, l) == row.seen = l /\ ~row.suspect
Outage(row, l) == 100 * row.seen < SuspectPercent * l /\ row.suspect
Well(recent, m, l) == {i \in 1 .. m : Healthy(recent[i], l)}

\* The first rows are of healthy runs and of outages that BaselineAcceptRuns runs in a
\* row never show, and either hold a whole window of healthy ones, or are all there is.
CalmUpTo(recent, l, m) ==
    /\ \A i \in 1 .. m : Healthy(recent[i], l) \/ Outage(recent[i], l)
    /\ \A i \in 1 .. m : i + BaselineAcceptRuns - 1 <= m
           => \E k \in 1 .. m : i <= k /\ k <= i + BaselineAcceptRuns - 1 /\ Healthy(recent[k], l)
    /\ \/ Cardinality(Well(recent, m, l)) >= BaselineWindow /\ Healthy(recent[m], l)
       \/ m = Len(recent) /\ m = BaselineScan

Calm(recent, l) == \E m \in 1 .. Len(recent) : CalmUpTo(recent, l, m)

SteadyCalm == \A s \in steady : Calm(Log(runs[s]), level[s])

---------------------------------------------------------------------------
(* Calm rows judge outages, and stay calm.                                  *)

\* The numbers the guardrail is used with make a window, and a scan of outages as
\* frequent as may be, hold a baseline (store/runs.go:15-23, ingest/service.go:24).
BaselineFits ==
    MinBaselineRuns <= BaselineWindow /\ MinBaselineRuns * BaselineAcceptRuns <= BaselineScan

\* No level is short of itself.
LEMMA HealthyIsNoOutage ==
    ASSUME NEW l \in Nat
    PROVE  ~(100 * l < SuspectPercent * l)
  <1>1. SuspectPercent * l <= 100 * l /\ SuspectPercent * l \in Nat
    BY BaselineNumbers, BlockBounds
  <1>. QED
    BY <1>1

\* Calm rows hold no stretch that is accepted, so the healthy ones are all that counts.
LEMMA CalmCounted ==
    ASSUME NEW recent, Judged(recent), NEW l \in Nat, NEW m \in 1 .. Len(recent), CalmUpTo(recent, l, m)
    PROVE  /\ Counted(recent) \in SUBSET (1 .. Len(recent)) /\ Well(recent, m, l) \in SUBSET (1 .. m)
           /\ \A i \in 1 .. m : i \in Counted(recent) <=> i \in Well(recent, m, l)
  <1>. DEFINE n == Len(recent)
              A == BaselineAcceptRuns
              st == AcceptedStretch(recent)
  <1>1. n \in Nat /\ A \in Nat \ {0} /\ m \in Nat /\ 1 <= m /\ m <= n /\ DOMAIN recent = 1 .. n
    BY BaselineNumbers DEF Judged
  <1>2. \A i \in 1 .. m : Healthy(recent[i], l) <=> ~recent[i].suspect
    BY DEF CalmUpTo, Healthy, Outage
  <1>3. ASSUME NEW i \in StretchStarts(recent) PROVE i \in Nat /\ m < i
    <2>1. i \in 1 .. n /\ Agreeing(recent, i .. i + A - 1) /\ i <= n - (A - 1) /\ i \in Nat
      BY <1>1 DEF StretchStarts
    <2>2. \A k \in i .. i + A - 1 : recent[k].suspect
      BY <2>1 DEF Agreeing
    <2>3. ASSUME i <= m PROVE FALSE
      <3>1. i \in 1 .. m
        BY <1>1, <2>1, <2>3
      <3>2. CASE i + A - 1 <= m
        <4>1. PICK k \in 1 .. m : i <= k /\ k <= i + A - 1 /\ Healthy(recent[k], l)
          BY <3>1, <3>2 DEF CalmUpTo
        <4>2. k \in i .. i + A - 1
          BY <1>1, <2>1, <4>1
        <4>. QED
          BY <1>2, <2>2, <4>1, <4>2
      <3>3. CASE ~(i + A - 1 <= m)
        <4>1. m \in i .. i + A - 1 /\ m \in 1 .. m
          BY <1>1, <2>1, <2>3, <3>3
        <4>2. m # n
          <5>1. m < i + A - 1 /\ i + A - 1 <= n
            BY <1>1, <2>1, <3>3
          <5>. HIDE DEF n, A
          <5>. QED
            BY <1>1, <2>1, <5>1
        <4>3. Healthy(recent[m], l)
          BY <4>2 DEF CalmUpTo
        <4>. QED
          BY <1>2, <2>2, <4>1, <4>3
      <3>. QED
        BY <3>2, <3>3
    <2>. QED
      BY <1>1, <2>1, <2>3
  <1>4. st = {} \/ (m < Max(st) /\ Max(st) \in Nat /\ \A i \in 1 .. m : i \notin st)
    <2>1. CASE st = {}
      BY <2>1
    <2>2. CASE st # {}
      <3>1. PICK first \in StretchStarts(recent), last \in 1 .. n :
                st = first .. last /\ Max(st) = last /\ first <= last
        BY <2>2, StretchShape
      <3>2. first \in Nat /\ m < first
        BY <1>3
      <3>. QED
        BY <1>1, <3>1, <3>2
    <2>. QED
      BY <2>1, <2>2
  <1>5. \A i \in 1 .. m : i \in 1 .. n
    BY <1>1
  <1>6. \A i \in 1 .. m : i \in Counted(recent) <=> ~recent[i].suspect
    <2>. TAKE i \in 1 .. m
    <2>1. CASE st = {}
      BY <1>1, <1>5, <2>1 DEF Counted
    <2>2. CASE st # {}
      <3>1. i \notin st /\ i <= Max(st)
        BY <1>1, <1>4, <2>2
      <3>. QED
        BY <1>1, <1>5, <3>1 DEF Counted
    <2>. QED
      BY <2>1, <2>2
  <1>. QED
    BY <1>1, <1>2, <1>6 DEF Well, Counted

\* So the baseline of calm rows are healthy runs, and enough of them.
LEMMA CalmBaseline ==
    ASSUME BaselineFits, NEW recent, Judged(recent), NEW l \in Nat,
           NEW m \in 1 .. Len(recent), CalmUpTo(recent, l, m)
    PROVE  /\ Cardinality(BaselineVolumes(recent)) \in Nat
           /\ BaselineVolumes(recent) \in SUBSET (1 .. Len(recent))
           /\ MinBaselineRuns <= Cardinality(BaselineVolumes(recent))
           /\ \A i \in BaselineVolumes(recent) : recent[i].seen = l
  <1>. DEFINE n == Len(recent)
              W == BaselineWindow
              C == Counted(recent)
              H == Well(recent, m, l)
              P == BaselineVolumes(recent)
  <1>1. n \in Nat /\ W \in Nat \ {0} /\ m \in Nat /\ 1 <= m /\ m <= n /\ MinBaselineRuns \in Nat \ {0} /\ MinBaselineRuns <= W
    BY BaselineNumbers DEF Judged, BaselineFits
  <1>2. /\ C \in SUBSET (1 .. n) /\ H \in SUBSET (1 .. m)
        /\ \A i \in 1 .. m : i \in C <=> i \in H
    BY CalmCounted
  <1>3. H \in SUBSET C /\ H \in SUBSET (1 .. n)
    BY <1>2
  <1>4. /\ P \in SUBSET C /\ P \in SUBSET (1 .. n) /\ Cardinality(P) <= W /\ (P = C \/ Cardinality(P) = W)
        /\ \A i \in P, j \in C : j <= i => j \in P
    <2>1. P = Newest(C, W)
      BY BaselineIsNewest
    <2>. HIDE DEF C, P
    <2>2. W \in Nat /\ C \in SUBSET (1 .. n)
      BY <1>1, <1>2
    <2>3. /\ Newest(C, W) \in SUBSET C /\ Cardinality(Newest(C, W)) <= W
          /\ Newest(C, W) = C \/ Cardinality(Newest(C, W)) = W
          /\ \A i \in Newest(C, W), j \in C : j <= i => j \in Newest(C, W)
      <3>. HIDE DEF W, n
      <3>. QED
        BY <1>1, <2>2, NewestShape
    <2>. QED
      BY <2>1, <2>2, <2>3
  <1>. HIDE DEF C, P
  <1>5. IsFiniteSet(P) /\ Cardinality(P) \in Nat /\ IsFiniteSet(H) /\ Cardinality(H) \in Nat
    <2>. HIDE DEF n, H
    <2>. QED
      BY <1>1, <1>2, <1>4, UpToFinite
  <1>6. P \in SUBSET H
    <2>. SUFFICES ASSUME NEW i \in P, i \notin H PROVE FALSE
      OBVIOUS
    <2>1. i \in 1 .. n /\ ~(i \in 1 .. m) /\ i \in Nat /\ m < i
      BY <1>1, <1>2, <1>4
    <2>2. m # n
      BY <1>1, <2>1
    <2>3. Cardinality(H) >= W
      BY <2>2 DEF CalmUpTo
    <2>4. \A j \in H : j <= i /\ j \in C
      BY <1>1, <1>2, <1>3, <2>1
    <2>5. H \in SUBSET (P \ {i})
      BY <1>4, <2>4
    <2>. HIDE DEF H
    <2>6. IsFiniteSet(P \ {i}) /\ Cardinality(P \ {i}) = Cardinality(P) - 1
      BY <1>5, FS_RemoveElement
    <2>7. Cardinality(H) <= Cardinality(P \ {i})
      BY <2>5, <2>6, FS_Subset
    <2>. QED
      BY <1>1, <1>4, <1>5, <2>3, <2>6, <2>7
  <1>7. \A i \in P : recent[i].seen = l
    BY <1>6 DEF Well, Healthy
  <1>8. MinBaselineRuns <= Cardinality(P)
    <2>1. CASE Cardinality(P) = W
      BY <1>1, <2>1
    <2>2. CASE P = C
      <3>1. P = H
        BY <1>3, <1>6, <2>2
      <3>2. CASE Cardinality(H) >= W
        BY <1>1, <1>5, <3>1, <3>2
      <3>3. CASE ~(Cardinality(H) >= W)
        <4>1. m = n /\ m = BaselineScan
          BY <3>3 DEF CalmUpTo
        <4>2. \A b \in 1 .. MinBaselineRuns :
                 \E i \in H : (b - 1) * BaselineAcceptRuns < i /\ i <= b * BaselineAcceptRuns
          <5>. TAKE b \in 1 .. MinBaselineRuns
          <5>. DEFINE A == BaselineAcceptRuns
                      low == (b - 1) * A
                      high == b * A
          <5>1. A \in Nat \ {0} /\ b \in Nat \ {0} /\ b <= MinBaselineRuns
            BY <1>1, BaselineNumbers
          <5>2. low \in Nat /\ high \in Nat /\ low + A = high
            BY <5>1, BlockBounds
          <5>3. high <= MinBaselineRuns * A
            BY <1>1, <5>1, BlockBounds
          <5>4. MinBaselineRuns * A <= BaselineScan /\ MinBaselineRuns * A \in Nat
            BY <1>1, <5>1 DEF BaselineFits
          <5>. HIDE DEF low, high, A
          <5>5. high <= m
            BY <1>1, <4>1, <5>2, <5>3, <5>4
          <5>6. low + 1 \in 1 .. m /\ low + 1 + A - 1 <= m
            BY <1>1, <5>1, <5>2, <5>5
          <5>7. PICK k \in 1 .. m : low + 1 <= k /\ k <= low + 1 + A - 1 /\ Healthy(recent[k], l)
            BY <5>6 DEF CalmUpTo, A
          <5>8. k \in H /\ low < k /\ k <= high
            BY <1>1, <5>1, <5>2, <5>7 DEF Well
          <5>. QED
            BY <5>8 DEF low, high, A
        <4>3. MinBaselineRuns <= Cardinality(H)
          <5>1. MinBaselineRuns \in Nat /\ BaselineAcceptRuns \in Nat \ {0}
            BY <1>1, BaselineNumbers
          <5>. HIDE DEF H
          <5>. QED
            BY <1>1, <1>2, <4>2, <5>1, OnePerBlock
        <4>. QED
          BY <3>1, <4>3
      <3>. QED
        BY <3>2, <3>3
    <2>. QED
      BY <1>4, <2>1, <2>2
  <1>. QED
    BY <1>4, <1>5, <1>7, <1>8 DEF P

\* So calm rows suspect a volume just if it is short of the level.
LEMMA CalmJudges ==
    ASSUME BaselineFits, NEW recent, Judged(recent), NEW l \in Nat, Calm(recent, l), NEW v \in Nat
    PROVE  IsSuspect(recent, v) <=> 100 * v < SuspectPercent * l
  <1>. DEFINE P == BaselineVolumes(recent)
  <1>1. PICK m \in 1 .. Len(recent) : CalmUpTo(recent, l, m)
    BY DEF Calm
  <1>2. /\ Cardinality(P) \in Nat /\ P \in SUBSET (1 .. Len(recent)) /\ MinBaselineRuns <= Cardinality(P)
        /\ \A i \in P : recent[i].seen = l
    BY <1>1, CalmBaseline
  <1>3. Len(recent) \in Nat /\ MinBaselineRuns \in Nat \ {0}
    BY BaselineNumbers DEF Judged
  <1>. HIDE DEF P
  <1>4. Seeing(recent, P, l) = P
    BY <1>2 DEF Seeing
  <1>5. Cardinality(P) < 2 * Cardinality(Seeing(recent, P, l))
    BY <1>2, <1>3, <1>4
  <1>6. \A i \in P : recent[i].seen \in Nat
    BY <1>2
  <1>7. MedianTwice(recent, P) = 2 * l
    BY <1>2, <1>3, <1>5, <1>6, MajorityIsMedian
  <1>. QED
    BY <1>2, <1>3, <1>7, MedianJudges DEF P

\* A whole window of healthy runs is calm.
LEMMA CalmStarts ==
    ASSUME NEW recent, Judged(recent), NEW l \in Nat, BaselineWindow <= Len(recent),
           \A i \in 1 .. BaselineWindow : recent[i].seen = l /\ ~recent[i].suspect
    PROVE  Calm(recent, l)
  <1>. DEFINE W == BaselineWindow
  <1>1. W \in Nat \ {0} /\ BaselineAcceptRuns \in Nat \ {0} /\ W \in 1 .. Len(recent) /\ W \in 1 .. W
    BY BaselineNumbers DEF Judged
  <1>2. \A i \in 1 .. W : Healthy(recent[i], l)
    BY DEF Healthy
  <1>3. Well(recent, W, l) = 1 .. W /\ Cardinality(1 .. W) = W
    <2>1. Well(recent, W, l) = 1 .. W
      BY <1>2 DEF Well
    <2>2. 1 \in Int /\ W \in Int /\ ~(1 > W) /\ W - 1 + 1 = W
      BY <1>1
    <2>. HIDE DEF W
    <2>3. Cardinality(1 .. W) = W
      BY <2>2, FS_Interval
    <2>. QED
      BY <2>1, <2>3
  <1>4. \A i \in 1 .. W : i <= i /\ i <= i + BaselineAcceptRuns - 1
    BY <1>1
  <1>5. CalmUpTo(recent, l, W)
    BY <1>1, <1>2, <1>3, <1>4 DEF CalmUpTo
  <1>. QED
    BY <1>1, <1>5 DEF Calm

\* Rows that were calm stay so with one more healthy run or outage in front, if that
\* does not make BaselineAcceptRuns outages in a row.
LEMMA CalmKept ==
    ASSUME NEW recent, Judged(recent), NEW l \in Nat, Calm(recent, l), Len(recent) <= BaselineScan,
           NEW after, Judged(after), Healthy(after[1], l) \/ Outage(after[1], l),
           Len(after) = IF Len(recent) + 1 <= BaselineScan THEN Len(recent) + 1 ELSE BaselineScan,
           \A i \in 2 .. Len(after) : after[i] = recent[i - 1],
           BaselineAcceptRuns <= Len(after)
               => \E k \in 1 .. BaselineAcceptRuns : ~(100 * after[k].seen < SuspectPercent * l)
    PROVE  Calm(after, l)
  <1>. DEFINE A == BaselineAcceptRuns
              n == Len(recent)
              e == Len(after)
  <1>1. PICK m \in 1 .. n : CalmUpTo(recent, l, m)
    BY DEF Calm
  <1>. DEFINE o == IF m + 1 <= BaselineScan THEN m + 1 ELSE BaselineScan
  <1>2. /\ A \in Nat \ {0} /\ BaselineScan \in Nat \ {0} /\ n \in Nat /\ e \in Nat /\ m \in Nat /\ 1 <= m /\ m <= n
        /\ n <= BaselineScan /\ e = IF n + 1 <= BaselineScan THEN n + 1 ELSE BaselineScan
    BY BaselineNumbers DEF Judged
  <1>3. o \in 1 .. e /\ o \in Nat /\ o <= m + 1 /\ 1 <= o /\ o <= e /\ (o = m + 1 \/ (o = BaselineScan /\ o = e /\ o = m))
    BY <1>2
  <1>. HIDE DEF n, e, o, A
  <1>4. \A i \in 2 .. o : after[i] = recent[i - 1] /\ i - 1 \in 1 .. m /\ i \in Nat
    <2>. TAKE i \in 2 .. o
    <2>1. i \in 2 .. e /\ i - 1 \in 1 .. m /\ i \in Nat
      BY <1>2, <1>3
    <2>. QED
      BY <2>1 DEF e
  <1>5. \A i \in 1 .. o : Healthy(after[i], l) \/ Outage(after[i], l)
    <2>. TAKE i \in 1 .. o
    <2>1. CASE i = 1
      BY <2>1
    <2>2. CASE i # 1
      <3>1. i \in 2 .. o
        BY <1>3, <2>2
      <3>2. after[i] = recent[i - 1] /\ i - 1 \in 1 .. m
        BY <1>4, <3>1
      <3>3. Healthy(recent[i - 1], l) \/ Outage(recent[i - 1], l)
        BY <1>1, <3>2 DEF CalmUpTo
      <3>. QED
        BY <3>2, <3>3
    <2>. QED
      BY <2>1, <2>2
  <1>6. ASSUME NEW i \in 1 .. o, i + A - 1 <= o
        PROVE  \E k \in 1 .. o : i <= k /\ k <= i + A - 1 /\ Healthy(after[k], l)
    <2>1. CASE i = 1
      <3>1. A <= o /\ A <= e
        BY <1>2, <1>3, <1>6, <2>1
      <3>2. PICK k \in 1 .. A : ~(100 * after[k].seen < SuspectPercent * l)
        BY <3>1 DEF A, e
      <3>3. k \in 1 .. o /\ i <= k /\ k <= i + A - 1
        BY <1>2, <1>3, <2>1, <3>1
      <3>4. Healthy(after[k], l)
        BY <1>5, <3>2, <3>3 DEF Outage
      <3>. QED
        BY <3>3, <3>4
    <2>2. CASE i # 1
      <3>1. i - 1 \in 1 .. m /\ (i - 1) + A - 1 <= m
        BY <1>2, <1>3, <1>6, <2>2
      <3>2. PICK k \in 1 .. m : i - 1 <= k /\ k <= (i - 1) + A - 1 /\ Healthy(recent[k], l)
        BY <1>1, <3>1 DEF CalmUpTo, A
      <3>3. k + 1 \in 2 .. o /\ k + 1 \in 1 .. o /\ (k + 1) - 1 = k /\ i <= k + 1 /\ k + 1 <= i + A - 1
        BY <1>2, <1>3, <1>6, <3>2
      <3>4. after[k + 1] = recent[k]
        BY <1>4, <3>3
      <3>. QED
        BY <3>2, <3>3, <3>4
    <2>. QED
      BY <2>1, <2>2
  <1>7. \/ Cardinality(Well(after, o, l)) >= BaselineWindow /\ Healthy(after[o], l)
        \/ o = e /\ o = BaselineScan
    <2>1. CASE o # m + 1
      BY <1>3, <2>1
    <2>2. CASE o = m + 1 /\ m = n /\ m = BaselineScan
      BY <1>2, <1>3, <2>2
    <2>3. CASE o = m + 1 /\ Cardinality(Well(recent, m, l)) >= BaselineWindow /\ Healthy(recent[m], l)
      <3>. DEFINE H == Well(recent, m, l)
                  G == Well(after, o, l)
                  f == [i \in H |-> i + 1]
      <3>1. \A i \in H : i \in 1 .. m /\ i \in Nat /\ i + 1 \in G
        <4>. TAKE i \in H
        <4>1. i \in 1 .. m /\ Healthy(recent[i], l) /\ i \in Nat
          BY DEF Well
        <4>2. i + 1 \in 2 .. o /\ i + 1 \in 1 .. o /\ (i + 1) - 1 = i
          BY <1>2, <2>3, <4>1
        <4>3. after[i + 1] = recent[i]
          BY <1>4, <4>2
        <4>. QED
          BY <4>1, <4>2, <4>3 DEF Well
      <3>2. H \in SUBSET (1 .. m) /\ G \in SUBSET (1 .. o)
        BY DEF Well
      <3>. HIDE DEF H, G
      <3>3. f \in Injection(H, G)
        <4>1. f \in [H -> G]
          BY <3>1
        <4>2. \A i, j \in H : f[i] = f[j] => i = j
          BY <3>1
        <4>. HIDE DEF f
        <4>. QED
          BY <4>1, <4>2 DEF Injection, IsInjective
      <3>4. IsFiniteSet(H) /\ IsFiniteSet(G) /\ Cardinality(H) \in Nat /\ Cardinality(G) \in Nat
        BY <1>2, <1>3, <3>2, UpToFinite
      <3>. HIDE DEF f
      <3>5. Cardinality(H) <= Cardinality(G)
        BY <3>3, <3>4, FS_Injection
      <3>6. Cardinality(G) >= BaselineWindow
        BY <2>3, <3>4, <3>5, BaselineNumbers DEF H
      <3>7. o \in 2 .. o /\ o - 1 = m
        BY <1>2, <2>3
      <3>8. Healthy(after[o], l)
        BY <1>4, <2>3, <3>7
      <3>. QED
        BY <3>6, <3>8 DEF G
    <2>. QED
      BY <1>1, <2>1, <2>2, <2>3 DEF CalmUpTo, n
  <1>8. CalmUpTo(after, l, o)
    BY <1>5, <1>6, <1>7 DEF CalmUpTo, A, e
  <1>. QED
    BY <1>3, <1>8 DEF Calm, e

---------------------------------------------------------------------------
(* Every step keeps what holds of the runs.                                 *)

Apart(c) == \A d \in Crawlers : d # c => crawler'[d] = crawler[d]

\* A run under way has a scope.
LEMMA RunsWhere ==
    ASSUME Shape, NEW c \in Crawlers, crawler[c].pc # "idle"
    PROVE  ScopeOf(c) \in Scopes
  <1>1. crawler[c].kind \in RunKinds
    BY DEF Shape, WellRun
  <1>. QED
    BY <1>1 DEF RunKinds, ScopeOf, Scopes

\* Levels and volumes are not zero.
LEMMA LevelTyped ==
    ASSUME RunsTyped
    PROVE  /\ \A s \in Scopes : level[s] \in Nat
           /\ world.volumes \in SUBSET (Nat \ {0}) /\ world.levels \in SUBSET world.volumes
  BY WorldAssumption DEF RunsTyped

\* What the actions do to their crawler.
LEMMA StepMoves ==
    ASSUME Shape, NEW c \in Crawlers
    PROVE  /\ \A k \in RunKinds : StartRun(c, k)
                  => /\ Apart(c) /\ crawler[c].pc = "idle" /\ crawler'[c].pc = "search"
                     /\ crawler'[c].kind = k /\ crawler'[c].clean = crawler[c].clean
           /\ Search(c) => /\ Apart(c) /\ crawler[c].pc = "search" /\ crawler'[c].pc = "rank"
                           /\ crawler'[c].kind = crawler[c].kind
           /\ Work(c) => /\ Apart(c) /\ crawler'[c].kind = crawler[c].kind /\ crawler'[c].clean = crawler[c].clean
                         /\ crawler[c].pc \in {"rank", "crawl", "apply"} /\ crawler'[c].pc \in {"rank", "crawl", "apply"}
           /\ Interrupt(c) => /\ Apart(c) /\ crawler'[c].kind = crawler[c].kind /\ ~crawler'[c].clean
                              /\ Unfinished(c) /\ crawler'[c].pc = "crawl"
           /\ FinishRun(c) => /\ Apart(c) /\ crawler[c].pc = "crawl"
                              /\ \/ /\ crawler'[c].pc = "mark" /\ crawler[c].clean /\ crawler'[c].clean
                                    /\ crawler'[c].kind = crawler[c].kind
                                 \/ crawler'[c].pc = "idle" /\ ~crawler'[c].clean
           /\ MarkMissingSources(c) => Apart(c) /\ crawler[c].pc = "mark" /\ crawler'[c].pc = "idle" /\ ~crawler'[c].clean
           /\ EndRun(c) => Apart(c) /\ crawler'[c].pc = "idle" /\ ~crawler'[c].clean
  <1>1. crawler \in [Crawlers -> CrawlerState] /\ crawler[c] \in CrawlerState
    BY DEF Shape, TypeOK
  <1>2. DOMAIN crawler = Crawlers /\ DOMAIN crawler[c] =
            {"pc", "kind", "clean", "seen", "pending", "due", "current", "hand", "say", "page"}
    BY <1>1 DEF CrawlerState
  <1>3. ASSUME NEW k \in RunKinds, StartRun(c, k)
        PROVE  /\ Apart(c) /\ crawler[c].pc = "idle" /\ crawler'[c].pc = "search"
               /\ crawler'[c].kind = k /\ crawler'[c].clean = crawler[c].clean
    BY <1>2, <1>3 DEF StartRun, Apart
  <1>4. Search(c) => /\ Apart(c) /\ crawler[c].pc = "search" /\ crawler'[c].pc = "rank"
                     /\ crawler'[c].kind = crawler[c].kind
    BY <1>2 DEF Search, Apart
  <1>5. ASSUME Work(c)
        PROVE  /\ Apart(c) /\ crawler'[c].kind = crawler[c].kind /\ crawler'[c].clean = crawler[c].clean
               /\ crawler[c].pc \in {"rank", "crawl", "apply"} /\ crawler'[c].pc \in {"rank", "crawl", "apply"}
    <2>1. CASE EnrichPriority(c)
      BY <1>2, <2>1 DEF EnrichPriority, Apart
    <2>2. CASE StartApplies(c)
      BY <1>2, <2>2 DEF StartApplies, Apart
    <2>3. CASE EnrichDetail(c)
      BY <1>2, <2>3 DEF EnrichDetail, Apart
    <2>4. CASE EnrichFails(c)
      <3>1. PICK l \in crawler[c].due :
                crawler' = [crawler EXCEPT ![c].pc = "apply", ![c].due = @ \ {l}, ![c].hand = {l},
                                           ![c].say = ClearSearchStatus, ![c].page = ""]
        BY <2>4 DEF EnrichFails
      <3>. QED
        BY <1>1, <1>2, <2>4, <3>1 DEF EnrichFails, Apart
    <2>5. CASE TakeCurrent(c)
      <3>1. PICK l \in crawler[c].current :
                crawler' = [crawler EXCEPT ![c].pc = "apply", ![c].current = @ \ {l},
                                           ![c].hand = {l}, ![c].say = "active", ![c].page = ""]
        BY <2>5 DEF TakeCurrent
      <3>. QED
        BY <1>1, <1>2, <2>5, <3>1 DEF TakeCurrent, Apart
    <2>6. CASE ApplySourceProperty(c)
      BY <1>2, <2>6 DEF ApplySourceProperty, Apart
    <2>7. CASE EnrichNothing(c)
      BY <1>2, <2>7 DEF EnrichNothing, Apart
    <2>. QED
      BY <1>5, <2>1, <2>2, <2>3, <2>4, <2>5, <2>6, <2>7 DEF Work
  <1>6. Interrupt(c) => /\ Apart(c) /\ crawler'[c].kind = crawler[c].kind /\ ~crawler'[c].clean
                        /\ Unfinished(c) /\ crawler'[c].pc = "crawl"
    BY <1>2 DEF Interrupt, Apart, IdleCrawler, Unfinished
  <1>7. EndRun(c) => Apart(c) /\ crawler'[c].pc = "idle" /\ ~crawler'[c].clean
    <2>1. IdleCrawler.pc = "idle" /\ ~IdleCrawler.clean
      BY DEF IdleCrawler
    <2>. QED
      BY <1>2, <2>1 DEF EndRun, Apart
  <1>8. ASSUME FinishRun(c)
        PROVE  /\ Apart(c) /\ crawler[c].pc = "crawl"
               /\ \/ /\ crawler'[c].pc = "mark" /\ crawler[c].clean /\ crawler'[c].clean
                     /\ crawler'[c].kind = crawler[c].kind
                  \/ crawler'[c].pc = "idle" /\ ~crawler'[c].clean
    <2>1. CASE EndRun(c)
      BY <1>7, <1>8, <2>1 DEF FinishRun
    <2>2. CASE crawler[c].clean /\ crawler' = [crawler EXCEPT ![c].pc = "mark"]
      BY <1>2, <1>8, <2>2 DEF FinishRun, Apart
    <2>. QED
      BY <1>8, <2>1, <2>2 DEF FinishRun
  <1>9. MarkMissingSources(c) => Apart(c) /\ crawler[c].pc = "mark" /\ crawler'[c].pc = "idle" /\ ~crawler'[c].clean
    BY <1>7 DEF MarkMissingSources
  <1>. QED
    BY <1>3, <1>4, <1>5, <1>6, <1>7, <1>8, <1>9

\* A step that leaves rows and volumes alone, and what a run is under way for.
LEMMA QuietGuard ==
    ASSUME GuardInv, UNCHANGED <<runs, tally>>,
           \A d \in Crawlers : /\ Unfinished(d)' <=> Unfinished(d)
                               /\ Unfinished(d) => ScopeOf(d)' = ScopeOf(d)
                               /\ crawler'[d].pc \in {"idle", "search"} => crawler[d].pc \in {"idle", "search"}
                               /\ crawler'[d].clean => crawler[d].clean
    PROVE  /\ \A s \in Scopes : Kept(s)'
           /\ \A d \in Crawlers : Told(d)'
  <1>1. ASSUME NEW s \in Scopes PROVE Kept(s)'
    BY DEF GuardInv, Kept
  <1>2. ASSUME NEW d \in Crawlers PROVE Told(d)'
    <2>1. Told(d)
      BY DEF GuardInv
    <2>. QED
      BY <2>1 DEF Told
  <1>. QED
    BY <1>1, <1>2

\* The end of a run's bookkeeping: its row is closed, and nobody else's touched.
LEMMA FinishGuard ==
    ASSUME GuardInv, OneRunPerScope, NEW c \in Crawlers, Unfinished(c), Apart(c), ~Unfinished(c)',
           NEW seen \in Nat, runs' = Closed(c, seen)
    PROVE  /\ ScopeOf(c) \in Scopes /\ LogBehind(runs[ScopeOf(c)]) /\ Len(Log(runs[ScopeOf(c)])) <= BaselineScan
           /\ runs[ScopeOf(c)] # <<>> /\ runs[ScopeOf(c)][1].by = {c}
           /\ runs' \in [Scopes -> Seq(Rows)]
           /\ runs'[ScopeOf(c)] = Trim(Finished(runs[ScopeOf(c)], c, seen, tally[c].verdict = "suspect"))
           /\ \A s \in Scopes : s # ScopeOf(c) => runs'[s] = runs[s]
           /\ \A s \in Scopes : Kept(s)'
           /\ \A d \in Crawlers : d # c /\ Unfinished(d) => ScopeOf(d) # ScopeOf(c)
  <1>. DEFINE s0 == ScopeOf(c)
              suspect == tally[c].verdict = "suspect"
              after == Trim(Finished(runs[s0], c, seen, suspect))
  <1>1. crawler[c].pc # "idle" /\ s0 \in Scopes
    BY RunsWhere DEF GuardInv, Unfinished
  <1>2. /\ LogBehind(runs[s0]) /\ Len(Log(runs[s0])) <= BaselineScan
        /\ runs[s0] # <<>> /\ runs[s0][1].by = {c} /\ runs \in [Scopes -> Seq(Rows)]
    BY <1>1 DEF GuardInv, Kept, Told, RunsTyped
  <1>3. runs' = [runs EXCEPT ![s0] = after]
    BY ClosedIsTrimmed
  <1>4. LogBehind(after) /\ Log(after) = after /\ Len(after) <= BaselineScan /\ (after # <<>> => after[1].by = {})
    <2>1. suspect \in BOOLEAN
      OBVIOUS
    <2>. DEFINE rows0 == runs[s0]
    <2>2. after = Trim(Finished(rows0, c, seen, suspect))
      OBVIOUS
    <2>3. LogBehind(rows0) /\ Len(Log(rows0)) <= BaselineScan /\ rows0 # <<>> /\ rows0[1].by = {c}
      BY <1>2
    <2>. HIDE DEF suspect, rows0, after
    <2>. QED
      BY <2>1, <2>2, <2>3, CloseLog
  <1>. HIDE DEF s0, after
  <1>5. runs'[s0] = after /\ runs' \in [Scopes -> Seq(Rows)] /\ \A s \in Scopes : s # s0 => runs'[s] = runs[s]
    <2>1. after \in Seq(Rows)
      BY <1>4 DEF LogBehind
    <2>. QED
      BY <1>1, <1>2, <1>3, <2>1
  <1>6. \A d \in Crawlers : d # c /\ Unfinished(d) => ScopeOf(d) # s0
    BY <1>1 DEF OneRunPerScope, Unfinished, s0
  <1>7. ASSUME NEW s \in Scopes PROVE Kept(s)'
    <2>1. CASE s = s0
      BY <1>4, <1>5, <2>1 DEF Kept
    <2>2. CASE s # s0
      <3>1. runs'[s] = runs[s] /\ Kept(s)
        BY <1>5, <2>2 DEF GuardInv
      <3>2. ASSUME runs[s] # <<>>, runs[s][1].by # {} PROVE \E d \in Crawlers : Unfinished(d)' /\ ScopeOf(d)' = s
        <4>1. PICK d \in Crawlers : Unfinished(d) /\ ScopeOf(d) = s
          BY <3>1, <3>2 DEF Kept
        <4>2. d # c
          BY <2>2, <4>1 DEF s0
        <4>3. crawler'[d] = crawler[d]
          BY <4>2 DEF Apart
        <4>. QED
          BY <4>1, <4>3 DEF Unfinished, ScopeOf
      <3>. QED
        BY <3>1, <3>2 DEF Kept
    <2>. QED
      BY <2>1, <2>2
  <1>. QED
    BY <1>1, <1>2, <1>5, <1>6, <1>7 DEF s0, after

\* So those still under way know what they knew.
LEMMA FinishTold ==
    ASSUME GuardInv, OneRunPerScope, NEW c \in Crawlers, Unfinished(c), Apart(c), ~Unfinished(c)',
           NEW seen \in Nat, runs' = Closed(c, seen), \A d \in Crawlers : d # c => tally'[d] = tally[d]
    PROVE  \A d \in Crawlers : d # c => Told(d)'
  <1>. SUFFICES ASSUME NEW d \in Crawlers, d # c PROVE Told(d)'
    OBVIOUS
  <1>1. Told(d) /\ crawler'[d] = crawler[d] /\ tally'[d] = tally[d]
    BY DEF GuardInv, Apart
  <1>2. Unfinished(d)' <=> Unfinished(d)
    BY <1>1 DEF Unfinished
  <1>3. ScopeOf(d)' = ScopeOf(d)
    BY <1>1 DEF ScopeOf
  <1>4. ASSUME Unfinished(d) PROVE runs'[ScopeOf(d)] = runs[ScopeOf(d)]
    <2>1. ScopeOf(d) \in Scopes /\ ScopeOf(d) # ScopeOf(c)
      BY <1>4, RunsWhere, FinishGuard DEF GuardInv, Unfinished
    <2>. QED
      BY <2>1, FinishGuard
  <1>. QED
    BY <1>1, <1>2, <1>3, <1>4 DEF Told

\* Nothing has run yet.
LEMMA InitGuard == RunsInit => GuardInv
  <1>. SUFFICES ASSUME RunsInit PROVE GuardInv
    OBVIOUS
  <1>1. Shape
    BY InitShape DEF RunsInit
  <1>2. <<>> \in Seq(Rows) /\ LogBehind(<<>>) /\ Log(<<>>) = <<>> /\ Len(<<>>) = 0
    BY DEF LogBehind, Log
  <1>3. \A s \in Scopes : runs[s] = <<>>
    BY DEF RunsInit
  <1>4. \A c \in Crawlers : tally[c] = NoTally /\ crawler[c].pc = "idle" /\ ~crawler[c].clean
    <2>1. IdleCrawler.pc = "idle" /\ ~IdleCrawler.clean
      BY DEF IdleCrawler
    <2>. QED
      BY <2>1 DEF RunsInit, Init
  <1>5. NoTally \in [seen : Nat, verdict : Verdicts] /\ NoTally.verdict = "none"
    BY DEF NoTally, Verdicts
  <1>6. RunsTyped
    BY <1>2, <1>5 DEF RunsTyped, RunsInit
  <1>7. \A s \in Scopes : Kept(s)
    BY <1>2, <1>3, BaselineNumbers DEF Kept
  <1>8. \A c \in Crawlers : Told(c)
    BY <1>4, <1>5 DEF Told, Unfinished
  <1>. QED
    BY <1>1, <1>6, <1>7, <1>8 DEF GuardInv

\* A run that starts opens the only unfinished row of its scope.
LEMMA OpenGuard ==
    ASSUME GuardInv, OneRunPerScope', NEW c \in Crawlers, NEW k \in RunKinds, Open(c, k)
    PROVE  /\ RunsTyped' /\ (\A s \in Scopes : Kept(s)') /\ (\A d \in Crawlers : Told(d)')
           /\ \A s \in Scopes : Log(runs'[s]) = Log(runs[s])
  <1>. DEFINE s0 == k.scope
              opened == <<OpenRow(c)>> \o runs[s0]
  <1>1. /\ Apart(c) /\ crawler[c].pc = "idle" /\ crawler'[c].pc = "search"
        /\ crawler'[c].kind = k /\ crawler'[c].clean = crawler[c].clean
    BY StepMoves DEF Open, GuardInv
  <1>2. s0 \in Scopes /\ runs \in [Scopes -> Seq(Rows)] /\ ScopeOf(c)' = s0
    BY <1>1 DEF RunKinds, Scopes, GuardInv, RunsTyped, ScopeOf
  <1>3. runs' = [runs EXCEPT ![s0] = opened] /\ UNCHANGED <<world, tally, level, steady>>
    BY DEF Open, OpenRow
  <1>. HIDE DEF s0
  <1>4. ASSUME NEW d \in Crawlers, Unfinished(d)
        PROVE  d # c /\ crawler'[d] = crawler[d] /\ ScopeOf(d) # s0 /\ ScopeOf(d)' = ScopeOf(d)
    <2>1. d # c
      BY <1>1, <1>4 DEF Unfinished
    <2>2. crawler'[d] = crawler[d]
      BY <1>1, <2>1 DEF Apart
    <2>3. ScopeOf(d)' = ScopeOf(d)
      BY <2>2 DEF ScopeOf
    <2>4. crawler'[c].pc # "idle" /\ crawler'[d].pc # "idle"
      BY <1>1, <1>4, <2>2 DEF Unfinished
    <2>. QED
      BY <1>2, <2>1, <2>2, <2>3, <2>4 DEF OneRunPerScope
  <1>5. runs[s0] # <<>> => runs[s0][1].by = {}
    BY <1>2, <1>4 DEF GuardInv, Kept
  <1>6. /\ LogBehind(opened) /\ Log(opened) = Log(runs[s0])
        /\ opened # <<>> /\ opened[1].by = {c}
    <2>1. LogBehind(runs[s0])
      BY <1>2 DEF GuardInv, Kept
    <2>. QED
      BY <1>5, <2>1, OpenLog
  <1>. HIDE DEF opened
  <1>7. runs'[s0] = opened /\ runs' \in [Scopes -> Seq(Rows)] /\ \A s \in Scopes : s # s0 => runs'[s] = runs[s]
    <2>1. opened \in Seq(Rows)
      BY <1>6 DEF LogBehind
    <2>. QED
      BY <1>2, <1>3, <2>1
  <1>8. Unfinished(c)'
    BY <1>1 DEF Unfinished
  <1>9. ASSUME NEW s \in Scopes PROVE Kept(s)'
    <2>1. CASE s = s0
      <3>1. Kept(s0)
        BY <1>2 DEF GuardInv
      <3>. QED
        BY <1>2, <1>6, <1>7, <1>8, <2>1, <3>1 DEF Kept
    <2>2. CASE s # s0
      <3>1. runs'[s] = runs[s] /\ Kept(s)
        BY <1>7, <2>2 DEF GuardInv
      <3>2. ASSUME runs[s] # <<>>, runs[s][1].by # {} PROVE \E d \in Crawlers : Unfinished(d)' /\ ScopeOf(d)' = s
        <4>1. PICK d \in Crawlers : Unfinished(d) /\ ScopeOf(d) = s
          BY <3>1, <3>2 DEF Kept
        <4>2. crawler'[d] = crawler[d]
          BY <1>4, <4>1
        <4>. QED
          BY <4>1, <4>2 DEF Unfinished, ScopeOf
      <3>. QED
        BY <3>1, <3>2 DEF Kept
    <2>. QED
      BY <2>1, <2>2
  <1>10. ASSUME NEW d \in Crawlers PROVE Told(d)'
    <2>1. Told(d) /\ tally' = tally
      BY <1>3 DEF GuardInv
    <2>2. CASE d = c
      BY <1>1, <1>2, <1>6, <1>7, <2>1, <2>2 DEF Told
    <2>3. CASE d # c
      <3>1. crawler'[d] = crawler[d]
        BY <1>1, <2>3 DEF Apart
      <3>2. Unfinished(d)' <=> Unfinished(d)
        BY <3>1 DEF Unfinished
      <3>3. Unfinished(d) => ScopeOf(d)' = ScopeOf(d) /\ runs'[ScopeOf(d)] = runs[ScopeOf(d)]
        <4>1. Unfinished(d) => ScopeOf(d) \in Scopes
          BY RunsWhere DEF GuardInv, Unfinished
        <4>. QED
          BY <1>4, <1>7, <4>1
      <3>. QED
        BY <2>1, <3>1, <3>2, <3>3 DEF Told
    <2>. QED
      BY <2>2, <2>3
  <1>11. RunsTyped'
    BY <1>3, <1>7 DEF GuardInv, RunsTyped, Scopes
  <1>12. \A s \in Scopes : Log(runs'[s]) = Log(runs[s])
    BY <1>6, <1>7
  <1>. QED
    BY <1>9, <1>10, <1>11, <1>12

\* A run that has searched knows its volume, and nothing of a baseline.
LEMMA EnumerateGuard ==
    ASSUME GuardInv, NEW c \in Crawlers, Enumerate(c)
    PROVE  RunsTyped' /\ (\A s \in Scopes : Kept(s)') /\ (\A d \in Crawlers : Told(d)')
  <1>1. /\ Apart(c) /\ crawler[c].pc = "search" /\ crawler'[c].pc = "rank" /\ crawler'[c].kind = crawler[c].kind
        /\ UNCHANGED <<world, runs, level, steady>>
    BY StepMoves DEF Enumerate, GuardInv
  <1>2. PICK v \in world.volumes : tally' = [tally EXCEPT ![c].seen = v]
    BY DEF Enumerate
  <1>3. v \in Nat \ {0} /\ tally \in [Crawlers -> [seen : Nat, verdict : Verdicts]]
    BY LevelTyped DEF GuardInv, RunsTyped
  <1>4. /\ tally' \in [Crawlers -> [seen : Nat, verdict : Verdicts]]
        /\ tally'[c].seen = v /\ tally'[c].verdict = tally[c].verdict
        /\ \A d \in Crawlers : d # c => tally'[d] = tally[d]
    BY <1>2, <1>3
  <1>5. /\ \A d \in Crawlers : Unfinished(d)' <=> Unfinished(d)
        /\ \A d \in Crawlers : ScopeOf(d)' = ScopeOf(d)
    <2>1. (Unfinished(c)' <=> Unfinished(c)) /\ ScopeOf(c)' = ScopeOf(c)
      BY <1>1 DEF Unfinished, ScopeOf
    <2>2. \A d \in Crawlers : d # c => (Unfinished(d)' <=> Unfinished(d)) /\ ScopeOf(d)' = ScopeOf(d)
      BY <1>1 DEF Apart, Unfinished, ScopeOf
    <2>. QED
      BY <2>1, <2>2
  <1>6. \A s \in Scopes : Kept(s)'
    BY <1>1, <1>5 DEF GuardInv, Kept
  <1>7. ASSUME NEW d \in Crawlers PROVE Told(d)'
    <2>1. Told(d)
      BY DEF GuardInv
    <2>2. CASE d = c
      <3>1. tally'[c].verdict = "none"
        BY <1>1, <1>4, <2>1, <2>2 DEF Told
      <3>. QED
        BY <1>1, <1>3, <1>4, <1>5, <2>1, <2>2, <3>1 DEF Told
    <2>3. CASE d # c
      BY <1>1, <1>4, <1>5, <2>1, <2>3 DEF Told, Apart
    <2>. QED
      BY <2>2, <2>3
  <1>8. RunsTyped'
    BY <1>1, <1>4 DEF GuardInv, RunsTyped, Scopes
  <1>. QED
    BY <1>6, <1>7, <1>8

\* The verdict comes from the rows that count.
LEMMA BaselineGuard ==
    ASSUME GuardInv, NEW c \in Crawlers, BaselineVolume(c)
    PROVE  RunsTyped' /\ (\A s \in Scopes : Kept(s)') /\ (\A d \in Crawlers : Told(d)')
  <1>. DEFINE s0 == ScopeOf(c)
              v == tally[c].seen
  <1>1. /\ crawler[c].pc = "crawl" /\ crawler[c].clean /\ UNCHANGED <<crawler, world, runs, level, steady>>
        /\ Unfinished(c)
    BY DEF BaselineVolume, Crawled, vars, Unfinished
  <1>2. s0 \in Scopes /\ LogBehind(runs[s0]) /\ Len(Log(runs[s0])) <= BaselineScan
    <2>1. s0 \in Scopes
      BY <1>1, RunsWhere DEF GuardInv
    <2>. QED
      BY <2>1 DEF GuardInv, Kept
  <1>3. Recent(runs[s0]) = Log(runs[s0])
    BY <1>2, RecentIsLog
  <1>4. PICK verdict \in {"unknown", "suspect", "clean"} :
            /\ tally' = [tally EXCEPT ![c].verdict = verdict]
            /\ verdict = "suspect" => IsSuspect(Log(runs[s0]), v)
            /\ verdict = "clean" => ~IsSuspect(Log(runs[s0]), v)
    BY <1>3 DEF BaselineVolume
  <1>5. /\ tally' \in [Crawlers -> [seen : Nat, verdict : Verdicts]]
        /\ tally'[c].seen = v /\ tally'[c].verdict = verdict
        /\ \A d \in Crawlers : d # c => tally'[d] = tally[d]
    BY <1>4 DEF GuardInv, RunsTyped, Verdicts
  <1>6. \A d \in Crawlers : (Unfinished(d)' <=> Unfinished(d)) /\ ScopeOf(d)' = ScopeOf(d)
    BY <1>1 DEF Unfinished, ScopeOf
  <1>7. \A s \in Scopes : Kept(s)'
    BY <1>1, <1>6 DEF GuardInv, Kept
  <1>8. ASSUME NEW d \in Crawlers PROVE Told(d)'
    <2>1. Told(d)
      BY DEF GuardInv
    <2>2. CASE d = c
      BY <1>1, <1>4, <1>5, <1>6, <2>1, <2>2 DEF Told
    <2>3. CASE d # c
      BY <1>1, <1>5, <1>6, <2>1, <2>3 DEF Told
    <2>. QED
      BY <2>2, <2>3
  <1>9. RunsTyped'
    BY <1>1, <1>5 DEF GuardInv, RunsTyped, Scopes
  <1>. QED
    BY <1>7, <1>8, <1>9

\* A crawler at rest has no verdict.
LEMMA NoTallyTyped == NoTally \in [seen : Nat, verdict : Verdicts] /\ NoTally.verdict = "none"
  BY DEF NoTally, Verdicts

\* A run whose bookkeeping ends while it has not finished: recorded, not recorded, or dead.
LEMMA ClosesGuard ==
    ASSUME GuardInv, OneRunPerScope, NEW c \in Crawlers, Unfinished(c), Apart(c),
           NEW seen \in Nat, runs' = Closed(c, seen), UNCHANGED <<world, level>>, steady' \in SUBSET Scopes,
           \/ crawler'[c].pc = "idle" /\ ~crawler'[c].clean /\ tally' = [tally EXCEPT ![c] = NoTally]
           \/ crawler'[c].pc = "mark" /\ crawler[c].clean /\ tally' = tally
    PROVE  RunsTyped' /\ (\A s \in Scopes : Kept(s)') /\ (\A d \in Crawlers : Told(d)')
  <1>1. ~Unfinished(c)'
    BY DEF Unfinished
  <1>2. tally \in [Crawlers -> [seen : Nat, verdict : Verdicts]]
    BY DEF GuardInv, RunsTyped
  <1>3. /\ tally' \in [Crawlers -> [seen : Nat, verdict : Verdicts]]
        /\ \A d \in Crawlers : d # c => tally'[d] = tally[d]
        /\ crawler'[c].pc = "idle" => tally'[c].verdict = "none"
    BY <1>2, NoTallyTyped
  <1>4. runs' \in [Scopes -> Seq(Rows)] /\ \A s \in Scopes : Kept(s)'
    BY <1>1, FinishGuard
  <1>5. \A d \in Crawlers : d # c => Told(d)'
    BY <1>1, <1>3, FinishTold
  <1>6. Told(c)'
    <2>1. Told(c)
      BY DEF GuardInv
    <2>2. CASE crawler'[c].pc = "idle" /\ ~crawler'[c].clean
      BY <1>1, <1>3, <2>2 DEF Told
    <2>3. CASE crawler'[c].pc = "mark" /\ crawler[c].clean /\ tally' = tally
      BY <1>1, <2>1, <2>3 DEF Told
    <2>. QED
      BY <2>2, <2>3
  <1>7. RunsTyped'
    BY <1>3, <1>4 DEF GuardInv, RunsTyped, Scopes
  <1>. QED
    BY <1>4, <1>5, <1>6, <1>7

\* A run that has judged absence, or dies before it does.
LEMMA JudgedGuard ==
    ASSUME GuardInv, NEW c \in Crawlers, crawler[c].pc = "mark", Apart(c),
           crawler'[c].pc = "idle", ~crawler'[c].clean, tally' = [tally EXCEPT ![c] = NoTally],
           UNCHANGED <<world, runs, level, steady>>
    PROVE  RunsTyped' /\ (\A s \in Scopes : Kept(s)') /\ (\A d \in Crawlers : Told(d)')
  <1>1. ~Unfinished(c)' /\ ~Unfinished(c)
    BY DEF Unfinished
  <1>2. tally \in [Crawlers -> [seen : Nat, verdict : Verdicts]]
    BY DEF GuardInv, RunsTyped
  <1>3. /\ tally' \in [Crawlers -> [seen : Nat, verdict : Verdicts]] /\ tally'[c].verdict = "none"
        /\ \A d \in Crawlers : d # c => tally'[d] = tally[d]
    BY <1>2, NoTallyTyped
  <1>4. \A d \in Crawlers : /\ Unfinished(d)' <=> Unfinished(d)
                            /\ Unfinished(d) => ScopeOf(d)' = ScopeOf(d)
    <2>. TAKE d \in Crawlers
    <2>1. CASE d = c
      BY <1>1, <2>1
    <2>2. CASE d # c
      BY <2>2 DEF Apart, Unfinished, ScopeOf
    <2>. QED
      BY <2>1, <2>2
  <1>5. ASSUME NEW s \in Scopes PROVE Kept(s)'
    BY <1>4 DEF GuardInv, Kept
  <1>6. ASSUME NEW d \in Crawlers PROVE Told(d)'
    <2>1. Told(d)
      BY DEF GuardInv
    <2>2. CASE d = c
      BY <1>1, <1>3, <2>2 DEF Told
    <2>3. CASE d # c
      BY <1>3, <1>4, <2>1, <2>3 DEF Told, Apart
    <2>. QED
      BY <2>2, <2>3
  <1>7. RunsTyped'
    BY <1>3 DEF GuardInv, RunsTyped, Scopes
  <1>. QED
    BY <1>5, <1>6, <1>7

\* What the recording of a run is to its crawler and to its row.
LEMMA RecordMoves ==
    ASSUME GuardInv, NEW c \in Crawlers, RecordRun(c)
    PROVE  /\ Apart(c) /\ Unfinished(c) /\ UNCHANGED <<world, level>>
           /\ \/ crawler'[c].pc = "idle" /\ ~crawler'[c].clean /\ tally' = [tally EXCEPT ![c] = NoTally]
              \/ crawler'[c].pc = "mark" /\ crawler[c].clean /\ tally' = tally
           /\ crawler'[c].pc = "mark" => ScopeOf(c)' = ScopeOf(c) /\ tally[c].verdict = "clean"
           /\ ScopeOf(c) \in Scopes /\ tally[c].seen \in Nat
           /\ crawler[c].clean => tally[c].seen # 0 /\ tally[c].verdict # "none" /\ runs' = Closed(c, tally[c].seen)
           /\ ~crawler[c].clean => runs' = Closed(c, 0) /\ steady' = steady
           /\ steady' \in SUBSET Scopes
  <1>1. /\ Apart(c) /\ crawler[c].pc = "crawl"
        /\ \/ crawler'[c].pc = "mark" /\ crawler[c].clean /\ crawler'[c].clean /\ crawler'[c].kind = crawler[c].kind
           \/ crawler'[c].pc = "idle" /\ ~crawler'[c].clean
    BY StepMoves DEF RecordRun, GuardInv
  <1>2. Unfinished(c) /\ ScopeOf(c) \in Scopes
    BY <1>1, RunsWhere DEF GuardInv, Unfinished
  <1>3. steady' \in SUBSET Scopes
    BY <1>2 DEF RecordRun, GuardInv, RunsTyped
  <1>4. tally[c].seen \in Nat /\ (crawler[c].clean => tally[c].seen # 0)
    BY DEF GuardInv, RunsTyped, Told
  <1>5. /\ crawler[c].clean => tally[c].verdict # "none" /\ runs' = Closed(c, tally[c].seen)
        /\ ~crawler[c].clean => runs' = Closed(c, 0) /\ steady' = steady
        /\ crawler'[c].pc = "mark" => tally[c].verdict = "clean" /\ tally' = tally
        /\ crawler'[c].pc # "mark" => tally' = [tally EXCEPT ![c] = NoTally]
        /\ UNCHANGED <<world, level>>
    BY DEF RecordRun
  <1>6. crawler'[c].pc = "mark" => ScopeOf(c)' = ScopeOf(c)
    BY <1>1 DEF ScopeOf
  <1>. QED
    BY <1>1, <1>2, <1>3, <1>4, <1>5, <1>6

\* A run that dies, or whose row cannot be written.
LEMMA FailMoves ==
    ASSUME GuardInv, NEW c \in Crawlers, RecordFails(c) \/ Die(c)
    PROVE  /\ Apart(c) /\ crawler'[c].pc = "idle" /\ ~crawler'[c].clean
           /\ tally' = [tally EXCEPT ![c] = NoTally] /\ UNCHANGED <<world, level, steady>>
           /\ \/ crawler[c].pc = "mark" /\ runs' = runs
              \/ Unfinished(c) /\ runs' = Closed(c, 0)
  <1>1. EndRun(c) /\ crawler[c].pc # "idle"
    BY DEF RecordFails, Die, Crash, Crawled
  <1>2. Apart(c) /\ crawler'[c].pc = "idle" /\ ~crawler'[c].clean
    BY <1>1, StepMoves DEF GuardInv
  <1>3. tally' = [tally EXCEPT ![c] = NoTally] /\ UNCHANGED <<world, level, steady>>
    BY DEF RecordFails, Die
  <1>4. crawler[c].pc = "mark" \/ Unfinished(c)
    <2>1. crawler[c] \in CrawlerState
      BY DEF GuardInv, Shape, TypeOK
    <2>. QED
      BY <1>1, <2>1 DEF CrawlerState, Unfinished
  <1>5. \/ crawler[c].pc = "mark" /\ runs' = runs
        \/ Unfinished(c) /\ runs' = Closed(c, 0)
    <2>1. CASE RecordFails(c)
      BY <2>1 DEF RecordFails, Crawled, Unfinished
    <2>2. CASE Die(c)
      BY <1>4, <2>2 DEF Die
    <2>. QED
      BY <2>1, <2>2
  <1>. QED
    BY <1>2, <1>3, <1>5

\* Every step keeps what holds of the runs, action by action.
LEMMA GuardNext == GuardInv /\ OneRunPerScope /\ OneRunPerScope' /\ [RunsNext]_runVars => GuardInv'
  <1>. SUFFICES ASSUME GuardInv, OneRunPerScope, OneRunPerScope', [RunsNext]_runVars
                PROVE  RunsTyped' /\ (\A s \in Scopes : Kept(s)') /\ (\A d \in Crawlers : Told(d)')
    <2>1. GuardInv /\ [RunsNext]_runVars => Shape'
      BY RunsNextIsNext, NextShape DEF GuardInv
    <2>. QED
      BY <2>1 DEF GuardInv, Scopes
  <1>1. CASE UNCHANGED runVars
    BY <1>1, QuietGuard DEF runVars, vars, GuardInv, RunsTyped, Scopes, Unfinished, ScopeOf
  <1>2. ASSUME NEW c \in Crawlers, NEW k \in RunKinds, Open(c, k)
        PROVE  RunsTyped' /\ (\A s \in Scopes : Kept(s)') /\ (\A d \in Crawlers : Told(d)')
    BY <1>2, OpenGuard
  <1>3. ASSUME NEW c \in Crawlers, Enumerate(c)
        PROVE  RunsTyped' /\ (\A s \in Scopes : Kept(s)') /\ (\A d \in Crawlers : Told(d)')
    BY <1>3, EnumerateGuard
  <1>4. ASSUME NEW c \in Crawlers, Work(c) \/ Deadline(c)
        PROVE  RunsTyped' /\ (\A s \in Scopes : Kept(s)') /\ (\A d \in Crawlers : Told(d)')
    <2>1. UNCHANGED <<world, runs, tally, level, steady>>
      BY <1>4 DEF Work, Deadline
    <2>2. /\ Apart(c) /\ crawler'[c].kind = crawler[c].kind
          /\ Unfinished(c) /\ Unfinished(c)' /\ crawler'[c].pc \notin {"idle", "search"}
          /\ crawler'[c].clean => crawler[c].clean
      <3>1. CASE Work(c)
        BY <3>1, StepMoves DEF GuardInv, Unfinished
      <3>2. CASE Deadline(c)
        BY <3>2, StepMoves DEF GuardInv, Deadline, Unfinished
      <3>. QED
        BY <1>4, <3>1, <3>2
    <2>3. ASSUME NEW d \in Crawlers
          PROVE  /\ Unfinished(d)' <=> Unfinished(d)
                 /\ Unfinished(d) => ScopeOf(d)' = ScopeOf(d)
                 /\ crawler'[d].pc \in {"idle", "search"} => crawler[d].pc \in {"idle", "search"}
                 /\ crawler'[d].clean => crawler[d].clean
      <3>1. CASE d = c
        BY <2>2, <3>1 DEF ScopeOf
      <3>2. CASE d # c
        BY <2>2, <3>2 DEF Apart, Unfinished, ScopeOf
      <3>. QED
        BY <3>1, <3>2
    <2>4. RunsTyped'
      BY <2>1 DEF GuardInv, RunsTyped, Scopes
    <2>. QED
      BY <2>1, <2>3, <2>4, QuietGuard
  <1>5. ASSUME NEW c \in Crawlers, BaselineVolume(c)
        PROVE  RunsTyped' /\ (\A s \in Scopes : Kept(s)') /\ (\A d \in Crawlers : Told(d)')
    BY <1>5, BaselineGuard
  <1>6. ASSUME NEW c \in Crawlers, RecordRun(c)
        PROVE  RunsTyped' /\ (\A s \in Scopes : Kept(s)') /\ (\A d \in Crawlers : Told(d)')
    <2>1. 0 \in Nat
      OBVIOUS
    <2>2. CASE crawler[c].clean
      BY <1>6, <2>2, RecordMoves, ClosesGuard
    <2>3. CASE ~crawler[c].clean
      BY <1>6, <2>1, <2>3, RecordMoves, ClosesGuard
    <2>. QED
      BY <2>2, <2>3
  <1>7. ASSUME NEW c \in Crawlers, RecordFails(c) \/ Die(c)
        PROVE  RunsTyped' /\ (\A s \in Scopes : Kept(s)') /\ (\A d \in Crawlers : Told(d)')
    <2>1. /\ Apart(c) /\ crawler'[c].pc = "idle" /\ ~crawler'[c].clean
          /\ tally' = [tally EXCEPT ![c] = NoTally] /\ UNCHANGED <<world, level, steady>>
          /\ \/ crawler[c].pc = "mark" /\ runs' = runs
             \/ Unfinished(c) /\ runs' = Closed(c, 0)
      BY <1>7, FailMoves
    <2>2. CASE crawler[c].pc = "mark" /\ runs' = runs
      BY <2>1, <2>2, JudgedGuard
    <2>3. CASE Unfinished(c) /\ runs' = Closed(c, 0)
      <3>1. steady' \in SUBSET Scopes /\ 0 \in Nat
        BY <2>1 DEF GuardInv, RunsTyped
      <3>. QED
        BY <2>1, <2>3, <3>1, ClosesGuard
    <2>. QED
      BY <2>1, <2>2, <2>3
  <1>8. ASSUME NEW c \in Crawlers, JudgeAbsence(c)
        PROVE  RunsTyped' /\ (\A s \in Scopes : Kept(s)') /\ (\A d \in Crawlers : Told(d)')
    <2>1. Apart(c) /\ crawler[c].pc = "mark" /\ crawler'[c].pc = "idle" /\ ~crawler'[c].clean
      BY <1>8, StepMoves DEF GuardInv, JudgeAbsence
    <2>2. tally' = [tally EXCEPT ![c] = NoTally] /\ UNCHANGED <<world, runs, level, steady>>
      BY <1>8 DEF JudgeAbsence
    <2>. QED
      BY <2>1, <2>2, JudgedGuard
  <1>9. ASSUME NEW s \in Scopes, LevelMoves(s)
        PROVE  RunsTyped' /\ (\A t \in Scopes : Kept(t)') /\ (\A d \in Crawlers : Told(d)')
    <2>1. UNCHANGED <<crawler, world, runs, tally>>
      BY <1>9 DEF LevelMoves, vars
    <2>2. level' \in [Scopes -> world.levels] /\ steady' \in SUBSET Scopes
      BY <1>9 DEF LevelMoves, GuardInv, RunsTyped
    <2>3. RunsTyped'
      BY <2>1, <2>2 DEF GuardInv, RunsTyped, Scopes
    <2>. QED
      BY <2>1, <2>3, QuietGuard DEF Unfinished, ScopeOf
  <1>10. ASSUME NEW l \in Listings, PageChanges(l)
         PROVE  RunsTyped' /\ (\A s \in Scopes : Kept(s)') /\ (\A d \in Crawlers : Told(d)')
    <2>1. UNCHANGED <<crawler, world, runs, tally, level, steady>>
      BY <1>10 DEF PageChanges, MarketMoves
    <2>2. RunsTyped'
      BY <2>1 DEF GuardInv, RunsTyped, Scopes
    <2>. QED
      BY <2>1, <2>2, QuietGuard DEF Unfinished, ScopeOf
  <1>. QED
    BY <1>1, <1>2, <1>3, <1>4, <1>5, <1>6, <1>7, <1>8, <1>9, <1>10 DEF RunsNext

\* What a run that cannot shake off suspicion would need never comes to be.
LEMMA GuardAccepts == GuardInv => LevelIsAccepted
  <1>. SUFFICES ASSUME GuardInv, NEW c \in Crawlers, crawler[c].pc = "crawl", tally[c].verdict = "suspect",
                       Len(Recent(runs[ScopeOf(c)])) >= Long
                PROVE  \E i \in 1 .. Long : Recent(runs[ScopeOf(c)])[i].seen # tally[c].seen
    BY DEF LevelIsAccepted, Long
  <1>. DEFINE history == runs[ScopeOf(c)]
              v == tally[c].seen
  <1>1. Unfinished(c) /\ ScopeOf(c) \in Scopes
    BY RunsWhere DEF Unfinished, GuardInv
  <1>2. LogBehind(history) /\ Len(Log(history)) <= BaselineScan
    BY <1>1 DEF GuardInv, Kept
  <1>3. Recent(history) = Log(history) /\ Judged(Log(history))
    BY <1>2, RecentIsLog, LogRows
  <1>4. v \in Nat \ {0} /\ IsSuspect(Log(history), v)
    BY <1>1 DEF GuardInv, RunsTyped, Told
  <1>5. Len(Log(history)) \in Nat /\ Long <= Len(Log(history))
    <2>1. Long \in Nat
      BY BaselineNumbers, BlockBounds DEF Long
    <2>. QED
      BY <1>3, <2>1 DEF Judged
  <1>. HIDE DEF history, v
  <1>6. \E i \in 1 .. Long : Log(history)[i].seen # v
    BY <1>3, <1>4, <1>5, SameVolumeAccepted
  <1>. QED
    BY <1>3, <1>6 DEF history, v

\* A scope whose runs do not overlap is not locked out, for whatever window and stretch
\* the baseline is configured with (store/runs.go:131-204): a run that sees what enough
\* runs in a row have seen is not suspect.
THEOREM LevelsAreAccepted == RunsSpec /\ []OneRunPerScope => []LevelIsAccepted
  <1>1. RunsInit => GuardInv
    BY InitGuard
  <1>2. GuardInv /\ OneRunPerScope /\ OneRunPerScope' /\ [RunsNext]_runVars => GuardInv'
    BY GuardNext
  <1>3. GuardInv => LevelIsAccepted
    BY GuardAccepts
  <1>. QED
    BY <1>1, <1>2, <1>3, PTL DEF RunsSpec

---------------------------------------------------------------------------
(* A steady scope stays calm, so an outage in it judges nothing.            *)

\* A step that adds no row that counts, and lets nobody judge.
LEMMA CalmQuiet ==
    ASSUME SteadyCalm, OutageJudgesNothing, steady' \in SUBSET steady,
           \A s \in steady' : Log(runs'[s]) = Log(runs[s]) /\ level'[s] = level[s],
           \A d \in Crawlers : crawler'[d].pc = "mark"
               => crawler[d].pc = "mark" /\ ScopeOf(d)' = ScopeOf(d) /\ tally'[d] = tally[d]
    PROVE  SteadyCalm' /\ OutageJudgesNothing'
  <1>1. SteadyCalm'
    BY DEF SteadyCalm
  <1>2. OutageJudgesNothing'
    <2>. SUFFICES ASSUME NEW d \in Crawlers, crawler'[d].pc = "mark", ScopeOf(d)' \in steady',
                         100 * tally'[d].seen < SuspectPercent * level'[ScopeOf(d)']
                  PROVE  FALSE
      BY DEF OutageJudgesNothing, Short
    <2>1. /\ crawler[d].pc = "mark" /\ ScopeOf(d)' = ScopeOf(d) /\ tally'[d] = tally[d]
          /\ ScopeOf(d) \in steady /\ level'[ScopeOf(d)] = level[ScopeOf(d)]
      OBVIOUS
    <2>. QED
      BY <2>1 DEF OutageJudgesNothing, Short
  <1>. QED
    BY <1>1, <1>2

\* A run that is recorded, and leaves its scope steady: its volume is the level, or a
\* shortage that it was suspected for.
LEMMA SteadyRecord ==
    ASSUME BaselineFits, GuardInv, OneRunPerScope, SteadyCalm,
           NEW c \in Crawlers, RecordRun(c), crawler[c].clean,
           SteadyAfter(ScopeOf(c), c, Recent(runs'[ScopeOf(c)]))
    PROVE  /\ Calm(Log(runs'[ScopeOf(c)]), level[ScopeOf(c)])
           /\ tally[c].verdict = "clean" => tally[c].seen = level[ScopeOf(c)]
  <1>. DEFINE s0 == ScopeOf(c)
              v == tally[c].seen
              l == level[s0]
              before == Log(runs[s0])
              after == runs'[s0]
              suspect == tally[c].verdict = "suspect"
  <1>1. /\ Apart(c) /\ Unfinished(c) /\ ~Unfinished(c)' /\ s0 \in Scopes /\ v \in Nat \ {0}
        /\ tally[c].verdict # "none" /\ runs' = Closed(c, v)
    BY RecordMoves DEF Unfinished
  <1>2. l \in Nat /\ tally[c].verdict \in Verdicts
    BY <1>1, LevelTyped DEF GuardInv, RunsTyped
  <1>3. /\ LogBehind(runs[s0]) /\ Len(before) <= BaselineScan /\ runs[s0] # <<>> /\ runs[s0][1].by = {c}
        /\ after = Trim(Finished(runs[s0], c, v, suspect)) /\ Judged(before)
    <2>1. v \in Nat
      BY <1>1
    <2>. HIDE DEF v
    <2>2. /\ LogBehind(runs[s0]) /\ Len(before) <= BaselineScan /\ runs[s0] # <<>> /\ runs[s0][1].by = {c}
          /\ after = Trim(Finished(runs[s0], c, v, suspect))
      BY <1>1, <2>1, FinishGuard
    <2>. QED
      BY <2>2, LogRows
  <1>4. suspect \in BOOLEAN
    OBVIOUS
  <1>. HIDE DEF suspect, after
  <1>5. /\ LogBehind(after) /\ Log(after) = after /\ Len(after) <= BaselineScan
        /\ Len(after) = IF Len(before) + 1 <= BaselineScan THEN Len(before) + 1 ELSE BaselineScan
        /\ after[1] = DoneRow(v, suspect)
        /\ \A i \in 2 .. Len(after) : after[i] = before[i - 1]
    <2>1. v \in Nat /\ v # 0
      BY <1>1
    <2>. DEFINE rows0 == runs[s0]
    <2>. HIDE DEF v, rows0
    <2>2. /\ LogBehind(rows0) /\ Len(Log(rows0)) <= BaselineScan /\ rows0 # <<>> /\ rows0[1].by = {c}
          /\ after = Trim(Finished(rows0, c, v, suspect)) /\ before = Log(rows0)
      BY <1>3 DEF rows0
    <2>. HIDE DEF before
    <2>3. LogBehind(after) /\ Log(after) = after /\ Len(after) <= BaselineScan /\ InFront(DoneRow(v, suspect), before, after)
      BY <1>4, <2>1, <2>2, CloseLog
    <2>. QED
      BY <2>3 DEF InFront
  <1>6. Recent(after) = after /\ Judged(after)
    BY <1>5, RecentIsLog, LogRows
  <1>7. after[1].seen = v /\ after[1].suspect = suspect /\ (suspect <=> tally[c].verdict = "suspect")
    BY <1>5 DEF DoneRow, suspect
  <1>8. /\ tally[c].verdict = "suspect" => IsSuspect(before, v)
        /\ tally[c].verdict = "clean" => ~IsSuspect(before, v)
    BY <1>1 DEF GuardInv, Told
  <1>9. SteadyAfter(s0, c, after)
    BY <1>6 DEF after
  <1>. HIDE DEF s0, v, l, before
  <1>10. CASE Len(after) >= BaselineWindow /\ \A i \in 1 .. BaselineWindow : after[i].seen = l /\ ~after[i].suspect
    <2>1. 1 \in 1 .. BaselineWindow /\ BaselineWindow <= Len(after)
      BY <1>6, <1>10, BaselineNumbers DEF Judged
    <2>2. Calm(after, l) /\ v = l
      BY <1>2, <1>6, <1>7, <1>10, <2>1, CalmStarts
    <2>. QED
      BY <1>5, <2>2 DEF after, l, v, s0
  <1>11. CASE /\ s0 \in steady
              /\ v # l => 100 * v < SuspectPercent * l /\ tally[c].verdict # "unknown"
              /\ ~ /\ Len(after) >= BaselineAcceptRuns
                   /\ \A i \in 1 .. BaselineAcceptRuns : 100 * after[i].seen < SuspectPercent * l
    <2>1. Calm(before, l)
      BY <1>11 DEF SteadyCalm, before, l
    <2>2. IsSuspect(before, v) <=> 100 * v < SuspectPercent * l
      BY <1>1, <1>2, <1>3, <2>1, CalmJudges
    <2>3. ~(100 * l < SuspectPercent * l)
      BY <1>2, HealthyIsNoOutage
    <2>4. tally[c].verdict = "clean" => v = l
      BY <1>8, <1>11, <2>2
    <2>5. v = l => ~suspect
      BY <1>7, <1>8, <2>2, <2>3
    <2>6. v # l => suspect /\ 100 * v < SuspectPercent * l
      BY <1>1, <1>2, <1>7, <1>11, <2>4 DEF Verdicts
    <2>7. Healthy(after[1], l) \/ Outage(after[1], l)
      BY <1>7, <2>5, <2>6 DEF Healthy, Outage
    <2>8. BaselineAcceptRuns <= Len(after)
            => \E k \in 1 .. BaselineAcceptRuns : ~(100 * after[k].seen < SuspectPercent * l)
      BY <1>6, <1>11, BaselineNumbers DEF Judged
    <2>9. Calm(after, l)
      BY <1>2, <1>3, <1>5, <1>6, <2>1, <2>7, <2>8, CalmKept
    <2>. QED
      BY <1>5, <2>4, <2>9 DEF after, l, v, s0
  <1>. QED
    BY <1>9, <1>10, <1>11 DEF SteadyAfter, Short, l, v

\* A run that counts for nothing leaves the rows that count as they are.
LEMMA ClosedEmpty ==
    ASSUME GuardInv, OneRunPerScope, NEW c \in Crawlers, Unfinished(c), Apart(c), ~Unfinished(c)',
           runs' = Closed(c, 0)
    PROVE  \A s \in Scopes : Log(runs'[s]) = Log(runs[s])
  <1>. DEFINE s0 == ScopeOf(c)
              suspect == tally[c].verdict = "suspect"
  <1>1. /\ LogBehind(runs[s0]) /\ Len(Log(runs[s0])) <= BaselineScan
        /\ runs[s0] # <<>> /\ runs[s0][1].by = {c}
        /\ runs'[s0] = Trim(Finished(runs[s0], c, 0, suspect))
        /\ \A s \in Scopes : s # s0 => runs'[s] = runs[s]
    <2>1. 0 \in Nat
      OBVIOUS
    <2>. QED
      BY <2>1, FinishGuard
  <1>2. suspect \in BOOLEAN /\ 0 \in Nat
    OBVIOUS
  <1>. HIDE DEF s0, suspect
  <1>3. Log(runs'[s0]) = Log(runs[s0])
    BY <1>1, <1>2, CloseLog
  <1>. QED
    BY <1>1, <1>3

\* So a scope that a recorded run leaves steady is calm, and the run judges no outage.
LEMMA CalmRecord ==
    ASSUME BaselineFits, GuardInv, OneRunPerScope, SteadyCalm, OutageJudgesNothing,
           NEW c \in Crawlers, RecordRun(c)
    PROVE  SteadyCalm' /\ OutageJudgesNothing'
  <1>. DEFINE s0 == ScopeOf(c)
  <1>1. /\ Apart(c) /\ Unfinished(c) /\ ~Unfinished(c)' /\ UNCHANGED <<world, level>> /\ s0 \in Scopes
        /\ crawler'[c].pc = "mark" => ScopeOf(c)' = s0 /\ tally[c].verdict = "clean" /\ tally' = tally /\ crawler[c].clean
        /\ tally[c].seen \in Nat
        /\ crawler[c].clean => runs' = Closed(c, tally[c].seen)
        /\ ~crawler[c].clean => runs' = Closed(c, 0) /\ steady' = steady
    BY RecordMoves DEF Unfinished
  <1>2. steady \in SUBSET Scopes /\ level \in [Scopes -> world.levels]
    BY DEF GuardInv, RunsTyped
  <1>3. \A d \in Crawlers : d # c => crawler'[d] = crawler[d] /\ ScopeOf(d)' = ScopeOf(d) /\ tally'[d] = tally[d]
    <2>1. \A d \in Crawlers : d # c => tally'[d] = tally[d]
      BY RecordMoves DEF GuardInv, RunsTyped
    <2>. QED
      BY <1>1, <2>1 DEF Apart, ScopeOf
  <1>4. CASE ~crawler[c].clean
    <2>1. \A s \in Scopes : Log(runs'[s]) = Log(runs[s])
      BY <1>1, <1>4, ClosedEmpty
    <2>2. \A d \in Crawlers : crawler'[d].pc = "mark"
            => crawler[d].pc = "mark" /\ ScopeOf(d)' = ScopeOf(d) /\ tally'[d] = tally[d]
      BY <1>1, <1>3, <1>4
    <2>. QED
      BY <1>1, <1>2, <1>4, <2>1, <2>2, CalmQuiet
  <1>5. CASE crawler[c].clean
    <2>1. /\ \A s \in Scopes : s # s0 => runs'[s] = runs[s]
          /\ \A d \in Crawlers : d # c /\ Unfinished(d) => ScopeOf(d) # s0
      BY <1>1, <1>5, FinishGuard
    <2>2. /\ \A s \in steady' : s \in Scopes /\ (s # s0 => s \in steady)
          /\ s0 \in steady' => SteadyAfter(s0, c, Recent(runs'[s0]))
      BY <1>1, <1>2, <1>5 DEF RecordRun
    <2>3. s0 \in steady' => /\ Calm(Log(runs'[s0]), level[s0])
                            /\ tally[c].verdict = "clean" => tally[c].seen = level[s0]
      BY <1>5, <2>2, SteadyRecord
    <2>4. SteadyCalm'
      BY <1>1, <2>1, <2>2, <2>3 DEF SteadyCalm
    <2>5. ASSUME NEW d \in Crawlers, crawler'[d].pc = "mark", ScopeOf(d)' \in steady',
                 100 * tally'[d].seen < SuspectPercent * level'[ScopeOf(d)']
          PROVE  FALSE
      <3>1. CASE d = c
        <4>1. /\ ScopeOf(c)' = s0 /\ tally'[c].seen = level[s0] /\ level' = level
              /\ 100 * tally'[c].seen < SuspectPercent * level'[ScopeOf(c)']
          BY <1>1, <2>3, <2>5, <3>1
        <4>2. 100 * level[s0] < SuspectPercent * level[s0]
          BY <4>1
        <4>3. level[s0] \in Nat
          BY <1>1, LevelTyped DEF GuardInv
        <4>. QED
          BY <4>2, <4>3, HealthyIsNoOutage
      <3>2. CASE d # c
        <4>1. crawler[d].pc = "mark" /\ ScopeOf(d)' = ScopeOf(d) /\ tally'[d] = tally[d] /\ level' = level
          BY <1>1, <1>3, <2>5, <3>2
        <4>2. ScopeOf(d) # s0
          BY <1>1, <3>2, <4>1 DEF OneRunPerScope, Unfinished
        <4>3. ScopeOf(d) \in steady
          BY <2>2, <2>5, <4>1, <4>2
        <4>. QED
          BY <2>5, <4>1, <4>3 DEF OutageJudgesNothing, Short
      <3>. QED
        BY <3>1, <3>2
    <2>6. OutageJudgesNothing'
      BY <2>5 DEF OutageJudgesNothing, Short
    <2>. QED
      BY <2>4, <2>6
  <1>. QED
    BY <1>4, <1>5

\* Every step keeps steady scopes calm and outages unjudged, action by action.
LEMMA CalmNext ==
    ASSUME BaselineFits, GuardInv, OneRunPerScope, OneRunPerScope', SteadyCalm, OutageJudgesNothing, [RunsNext]_runVars
    PROVE  SteadyCalm' /\ OutageJudgesNothing'
  <1>0. steady \in SUBSET Scopes
    BY DEF GuardInv, RunsTyped
  <1>1. CASE UNCHANGED runVars
    BY <1>1, CalmQuiet DEF runVars, vars, ScopeOf
  <1>2. ASSUME NEW c \in Crawlers, NEW k \in RunKinds, Open(c, k) PROVE SteadyCalm' /\ OutageJudgesNothing'
    <2>1. UNCHANGED <<tally, level, steady>> /\ Apart(c) /\ crawler'[c].pc = "search"
      BY <1>2, StepMoves DEF Open, GuardInv
    <2>2. \A s \in Scopes : Log(runs'[s]) = Log(runs[s])
      BY <1>2, OpenGuard
    <2>3. \A d \in Crawlers : crawler'[d].pc = "mark" => crawler[d].pc = "mark" /\ ScopeOf(d)' = ScopeOf(d)
      BY <2>1 DEF Apart, ScopeOf
    <2>. QED
      BY <1>0, <2>1, <2>2, <2>3, CalmQuiet
  <1>3. ASSUME NEW c \in Crawlers, Enumerate(c) \/ Work(c) \/ Deadline(c) \/ BaselineVolume(c) \/ JudgeAbsence(c)
        PROVE  SteadyCalm' /\ OutageJudgesNothing'
    <2>1. Apart(c) /\ crawler'[c].pc # "mark"
      <3>1. CASE Enumerate(c)
        BY <3>1, StepMoves DEF Enumerate, GuardInv
      <3>2. CASE Work(c)
        BY <3>2, StepMoves DEF GuardInv
      <3>3. CASE Deadline(c)
        BY <3>3, StepMoves DEF Deadline, GuardInv
      <3>4. CASE BaselineVolume(c)
        BY <3>4 DEF BaselineVolume, Crawled, vars, Apart
      <3>5. CASE JudgeAbsence(c)
        BY <3>5, StepMoves DEF JudgeAbsence, GuardInv
      <3>. QED
        BY <1>3, <3>1, <3>2, <3>3, <3>4, <3>5
    <2>2. UNCHANGED <<runs, level, steady>> /\ \A d \in Crawlers : d # c => tally'[d] = tally[d]
      <3>0. tally \in [Crawlers -> [seen : Nat, verdict : Verdicts]]
        BY DEF GuardInv, RunsTyped
      <3>1. CASE Enumerate(c)
        BY <3>0, <3>1 DEF Enumerate
      <3>2. CASE Work(c) \/ Deadline(c)
        BY <3>2 DEF Work, Deadline
      <3>3. CASE BaselineVolume(c)
        BY <3>0, <3>3 DEF BaselineVolume
      <3>4. CASE JudgeAbsence(c)
        BY <3>0, <3>4 DEF JudgeAbsence
      <3>. QED
        BY <1>3, <3>1, <3>2, <3>3, <3>4
    <2>3. \A d \in Crawlers : crawler'[d].pc = "mark"
            => crawler[d].pc = "mark" /\ ScopeOf(d)' = ScopeOf(d) /\ tally'[d] = tally[d]
      BY <2>1, <2>2 DEF Apart, ScopeOf
    <2>. QED
      BY <2>2, <2>3, CalmQuiet
  <1>4. ASSUME NEW c \in Crawlers, RecordFails(c) \/ Die(c) PROVE SteadyCalm' /\ OutageJudgesNothing'
    <2>1. /\ Apart(c) /\ crawler'[c].pc = "idle"
          /\ tally' = [tally EXCEPT ![c] = NoTally] /\ UNCHANGED <<level, steady>>
          /\ (crawler[c].pc = "mark" /\ runs' = runs) \/ (Unfinished(c) /\ runs' = Closed(c, 0))
      BY <1>4, FailMoves
    <2>2. \A d \in Crawlers : d # c => tally'[d] = tally[d]
      BY <2>1 DEF GuardInv, RunsTyped
    <2>3. \A d \in Crawlers : crawler'[d].pc = "mark"
            => crawler[d].pc = "mark" /\ ScopeOf(d)' = ScopeOf(d) /\ tally'[d] = tally[d]
      BY <2>1, <2>2 DEF Apart, ScopeOf
    <2>4. \A s \in Scopes : Log(runs'[s]) = Log(runs[s])
      <3>1. CASE runs' = runs
        BY <3>1
      <3>2. CASE Unfinished(c) /\ runs' = Closed(c, 0)
        <4>1. ~Unfinished(c)'
          BY <2>1 DEF Unfinished
        <4>. QED
          BY <2>1, <3>2, <4>1, ClosedEmpty
      <3>. QED
        BY <2>1, <3>1, <3>2
    <2>. QED
      BY <1>0, <2>1, <2>3, <2>4, CalmQuiet
  <1>5. ASSUME NEW c \in Crawlers, RecordRun(c) PROVE SteadyCalm' /\ OutageJudgesNothing'
    BY <1>5, CalmRecord
  <1>6. ASSUME NEW s \in Scopes, LevelMoves(s) PROVE SteadyCalm' /\ OutageJudgesNothing'
    <2>1. /\ UNCHANGED <<crawler, runs, tally>> /\ steady' = steady \ {s}
          /\ \A t \in Scopes : t # s => level'[t] = level[t]
      BY <1>6 DEF LevelMoves, vars, GuardInv, RunsTyped
    <2>2. \A d \in Crawlers : ScopeOf(d)' = ScopeOf(d)
      BY <2>1 DEF ScopeOf
    <2>. QED
      BY <1>0, <2>1, <2>2, CalmQuiet
  <1>7. ASSUME NEW l \in Listings, PageChanges(l) PROVE SteadyCalm' /\ OutageJudgesNothing'
    <2>1. UNCHANGED <<crawler, runs, tally, level, steady>>
      BY <1>7 DEF PageChanges, MarketMoves
    <2>2. \A d \in Crawlers : ScopeOf(d)' = ScopeOf(d)
      BY <2>1 DEF ScopeOf
    <2>. QED
      BY <2>1, <2>2, CalmQuiet
  <1>. QED
    BY <1>1, <1>2, <1>3, <1>4, <1>5, <1>6, <1>7 DEF RunsNext

\* In a scope whose runs do not overlap, a shortage judges no listing absent, for any
\* numbers with which a window holds a baseline (store/runs.go:131-204): neither one
\* that comes and goes, nor one that follows runs that saw the whole scope.
THEOREM OutagesJudgeNothing == ASSUME BaselineFits PROVE RunsSpec /\ []OneRunPerScope => []OutageJudgesNothing
  <1>. DEFINE I == GuardInv /\ SteadyCalm /\ OutageJudgesNothing
  <1>1. RunsInit => I
    <2>1. RunsInit => SteadyCalm
      BY DEF RunsInit, SteadyCalm
    <2>2. RunsInit => OutageJudgesNothing
      <3>1. IdleCrawler.pc = "idle"
        BY DEF IdleCrawler
      <3>. QED
        BY <3>1 DEF RunsInit, Init, OutageJudgesNothing
    <2>. QED
      BY <2>1, <2>2, InitGuard
  <1>2. I /\ OneRunPerScope /\ OneRunPerScope' /\ [RunsNext]_runVars => I'
    BY GuardNext, CalmNext
  <1>3. I => OutageJudgesNothing
    OBVIOUS
  <1>. HIDE DEF I
  <1>. QED
    BY <1>1, <1>2, <1>3, PTL DEF RunsSpec
=============================================================================
