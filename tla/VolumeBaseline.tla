--------------------------- MODULE VolumeBaseline ---------------------------
(***************************************************************************)
(* The volume guardrail of a scope: from its recent complete runs, how     *)
(* many listings a run is expected to see, and which runs see suspiciously *)
(* few (store/runs.go, BaselineVolume; ingest/service.go, isSuspect).      *)
(* A history is a sequence of [seen, suspect], newest first.               *)
(***************************************************************************)
EXTENDS Naturals, Sequences, FiniteSets, FiniteSetsExt

CONSTANTS
    BaselineWindow,       \* at most so many runs form the baseline
    BaselineScan,         \* at most so many are looked at
    BaselineAcceptRuns,   \* suspect runs in a row that make a new level
    StablePercent,        \* baselineStableRatio and suspectFraction, in percent
    SuspectPercent,
    MinBaselineRuns

ASSUME BaselineAssumption ==
    /\ {BaselineWindow, BaselineScan, BaselineAcceptRuns, MinBaselineRuns} \subseteq Nat \ {0}
    /\ {StablePercent, SuspectPercent} \subseteq 0 .. 100

\* Zero never counts.
StableVolume(a, b) ==
    /\ a > 0 /\ b > 0
    /\ 100 * Min({a, b}) >= StablePercent * Max({a, b})

\* Suspect runs that are each stable against the one before.
Agreeing(recent, positions) ==
    \A k \in positions :
        /\ recent[k].suspect
        /\ k - 1 \in positions => StableVolume(recent[k - 1].seen, recent[k].seen)

\* Mutant: one suspect run fewer makes a level.
AcceptedEarly(recent) ==
    LET starts == {i \in 1 .. Len(recent) - (BaselineAcceptRuns - 2) :
                       Agreeing(recent, i .. i + BaselineAcceptRuns - 2)}
    IN  {k \in DOMAIN recent : \E i \in starts : k >= i /\ Agreeing(recent, Min(starts) .. k)}

\* Mutant: suspect runs never make a level.
NeverAccepted(recent) == {}

\* The newest stretch of enough suspect runs that agree, all of it; empty if there is none.
AcceptedStretch(recent) ==
    LET starts == {i \in 1 .. Len(recent) - (BaselineAcceptRuns - 1) :
                       Agreeing(recent, i .. i + BaselineAcceptRuns - 1)}
    IN  {k \in DOMAIN recent : \E i \in starts : k >= i /\ Agreeing(recent, Min(starts) .. k)}

\* Which of some positions, counted from the first, a position is.
Ordinal(positions, i) == Cardinality({j \in positions : j <= i})

\* The first of some positions, so many at most.
Newest(positions, most) == {i \in positions : Ordinal(positions, i) <= most}

\* Where the volumes stand that form the baseline: clean runs and the accepted
\* stretch, nothing older than the stretch; the newest of them.
BaselineVolumes(recent) ==
    LET stretch == AcceptedStretch(recent)
        counted == {i \in DOMAIN recent : /\ ~recent[i].suspect \/ i \in stretch
                                          /\ stretch # {} => i <= Max(stretch)}
    IN  Newest(counted, BaselineWindow)

\* Twice the median, so that the mean of two middle volumes stays whole.
MedianTwice(recent, positions) ==
    LET volumes == {recent[i].seen : i \in positions}
        upTo(v) == 2 * Cardinality({i \in positions : recent[i].seen <= v})
    IN  Min({v \in volumes : upTo(v) >= Cardinality(positions)})
          + Min({v \in volumes : upTo(v) > Cardinality(positions)})

IsSuspect(recent, seen) ==
    LET volumes == BaselineVolumes(recent)
    IN  /\ Cardinality(volumes) >= MinBaselineRuns
        /\ 200 * seen < SuspectPercent * MedianTwice(recent, volumes)
=============================================================================
