----------------------------- MODULE CrawlRuns -----------------------------
(***************************************************************************)
(* ListingLifecycle with the volume guardrail in it: ingest_runs keeps how *)
(* many listings each run of a scope saw, and whether a run may judge      *)
(* absence is decided against the runs before it, not left open.           *)
(***************************************************************************)
EXTENDS ListingLifecycle, VolumeBaseline

CONSTANT
    Worlds       \* [volumes: what a run may see; levels: what a scope really has;
                 \*  pages: whether the listings followed come, go and change]

ASSUME WorldAssumption ==
    \A w \in Worlds : w.volumes \subseteq Nat \ {0} /\ w.levels \subseteq w.volumes

VARIABLES
    world,
    runs,        \* per scope: its rows of ingest_runs, the latest started first
    tally,       \* per crawler: listings_seen, and what the baseline says of it
    level,       \* per scope: what a healthy search of it sees
    steady       \* history: the scopes in which nothing but short outages has
                 \* happened since a whole window of healthy runs

runVars == <<vars, world, runs, tally, level, steady>>

Scopes == StandingScopes \cup OnceScopes
ScopeOf(c) == crawler[c].kind.scope
NoTally == [seen |-> 0, verdict |-> "none"]

Nth(positions, n) == CHOOSE i \in positions : Ordinal(positions, i) = n
RowsAt(history, positions) == [n \in 1 .. Cardinality(positions) |-> history[Nth(positions, n)]]

\* The complete, not empty runs BaselineVolume looks at.  A row that has not been
\* finished, or was finished incomplete, has seen nothing here.
Recorded(history) == {i \in DOMAIN history : history[i].seen > 0}
Recent(history) == RowsAt(history, Newest(Recorded(history), BaselineScan))

\* Rows too old to be looked at again, and those that count for nothing, are dropped.
Trim(history) ==
    RowsAt(history, {i \in DOMAIN history : /\ history[i].seen > 0 \/ history[i].by # {}
                                            /\ Ordinal(Recorded(history), i) <= BaselineScan})

RunsInit ==
    /\ Init
    /\ runs = [s \in Scopes |-> <<>>]
    /\ tally = [c \in Crawlers |-> NoTally]
    /\ world \in Worlds
    /\ level \in [Scopes -> world.levels]
    /\ steady = {}

-----------------------------------------------------------------------------
Open(c, k) ==
    /\ StartRun(c, k)
    /\ runs' = [runs EXCEPT ![k.scope] = <<[by |-> {c}, seen |-> 0, suspect |-> FALSE]>> \o @]
    /\ UNCHANGED <<world, tally, level, steady>>

\* A run sees what the scope has, or less.
Enumerate(c) ==
    /\ Search(c)
    /\ \E v \in world.volumes :
          /\ v <= level[ScopeOf(c)]
          /\ tally' = [tally EXCEPT ![c].seen = v]
    /\ UNCHANGED <<world, runs, level, steady>>

\* The steps between that touch no run row.
Work(c) ==
    /\ \/ EnrichPriority(c) \/ StartApplies(c) \/ EnrichDetail(c) \/ EnrichNothing(c)
       \/ EnrichFails(c) \/ TakeCurrent(c) \/ ApplySourceProperty(c)
    /\ UNCHANGED <<world, runs, tally, level, steady>>

\* Once the baseline has been read the run is past its crawl, and finishContext
\* keeps its bookkeeping going.
Deadline(c) ==
    /\ Interrupt(c) /\ tally[c].verdict = "none"
    /\ UNCHANGED <<world, runs, tally, level, steady>>

Crawled(c) ==
    crawler[c].pc = "crawl" /\ crawler[c].due = {} /\ crawler[c].current = {}

\* BaselineVolume and isSuspect; without a baseline a run is not suspect.
BaselineVolume(c) ==
    /\ Crawled(c) /\ crawler[c].clean /\ tally[c].verdict = "none"
    /\ \E verdict \in {"unknown", IF IsSuspect(Recent(runs[ScopeOf(c)]), tally[c].seen)
                                  THEN "suspect" ELSE "clean"} :
          tally' = [tally EXCEPT ![c].verdict = verdict]
    /\ UNCHANGED <<vars, world, runs, level, steady>>

\* The crawler's row with what the run found, or with nothing.
Closed(c, seen) ==
    [runs EXCEPT ![ScopeOf(c)] = Trim([i \in DOMAIN @ |->
        IF @[i].by = {c}
        THEN [by |-> {}, seen |-> seen, suspect |-> tally[c].verdict = "suspect"]
        ELSE @[i]])]

\* Far fewer than the scope has.
Short(s, v) == 100 * v < SuspectPercent * level[s]

\* Whether the scope is steady, now that c's run is in its history.
SteadyAfter(s, c, history) ==
    \/ /\ Len(history) >= BaselineWindow
       /\ \A i \in 1 .. BaselineWindow : history[i].seen = level[s] /\ ~history[i].suspect
    \/ /\ s \in steady
       /\ tally[c].seen # level[s] => Short(s, tally[c].seen) /\ tally[c].verdict # "unknown"
       /\ ~ /\ Len(history) >= BaselineAcceptRuns
            /\ \A i \in 1 .. BaselineAcceptRuns : Short(s, history[i].seen)

\* The run is recorded.  Absence is judged by a run that is complete, not empty
\* and not suspect, if a baseline was there to say so and the answer of the write
\* came back.
RecordRun(c) ==
    /\ FinishRun(c)
    /\ crawler[c].clean => tally[c].verdict # "none"
    /\ crawler'[c].pc = "mark" => tally[c].verdict = "clean"
    /\ LET s == ScopeOf(c) IN
       /\ runs' = Closed(c, IF crawler[c].clean THEN tally[c].seen ELSE 0)
       /\ steady' = IF ~crawler[c].clean THEN steady
                    ELSE IF SteadyAfter(s, c, Recent(runs'[s])) THEN steady \cup {s} ELSE steady \ {s}
    /\ tally' = IF crawler'[c].pc = "mark" THEN tally ELSE [tally EXCEPT ![c] = NoTally]
    /\ UNCHANGED <<world, level>>

\* The row cannot be written: the run counts for nothing.
RecordFails(c) ==
    /\ Crawled(c) /\ (crawler[c].clean => tally[c].verdict # "none")
    /\ EndRun(c)
    /\ runs' = Closed(c, 0)
    /\ tally' = [tally EXCEPT ![c] = NoTally]
    /\ UNCHANGED <<rows, market, world, level, steady>>

JudgeAbsence(c) ==
    /\ MarkMissingSources(c)
    /\ tally' = [tally EXCEPT ![c] = NoTally]
    /\ UNCHANGED <<world, runs, level, steady>>

Die(c) ==
    /\ Crash(c)
    /\ runs' = IF crawler[c].pc = "mark" THEN runs ELSE Closed(c, 0)
    /\ tally' = [tally EXCEPT ![c] = NoTally]
    /\ UNCHANGED <<world, level, steady>>

\* External: the scope gains or loses listings for good.
LevelMoves(s) ==
    /\ \E v \in world.levels \ {level[s]} : level' = [level EXCEPT ![s] = v]
    /\ steady' = steady \ {s}
    /\ UNCHANGED <<vars, world, runs, tally>>

PageChanges(l) == world.pages /\ MarketMoves(l) /\ UNCHANGED <<world, runs, tally, level, steady>>

RunsNext ==
    \/ \E c \in Crawlers, k \in RunKinds : Open(c, k)
    \/ \E c \in Crawlers :
          \/ Enumerate(c) \/ Work(c) \/ Deadline(c) \/ BaselineVolume(c) \/ RecordRun(c)
          \/ RecordFails(c) \/ JudgeAbsence(c) \/ Die(c)
    \/ \E s \in Scopes : LevelMoves(s)
    \/ \E l \in Listings : PageChanges(l)

RunsSpec == RunsInit /\ [][RunsNext]_runVars

-----------------------------------------------------------------------------
(* Properties.                                                             *)

\* An outage that shows far too few listings, and never for BaselineAcceptRuns runs
\* in a row, judges no listing absent, however often it comes back
\* (store/runs.go:132-133: only suspect runs in a row that agree are accepted).
OutageJudgesNothing ==
    \A c \in Crawlers :
        crawler[c].pc = "mark" => ~(ScopeOf(c) \in steady /\ Short(ScopeOf(c), tally[c].seen))

\* A scope is not locked out: once so many runs in a row have seen the same that each
\* of the volumes that make a median's majority took BaselineAcceptRuns of them, one
\* more run that sees it is not suspect, whatever was seen before and even if the
\* baseline could not be read for some (store/runs.go:132-133: a drop is accepted).
LevelIsAccepted ==
    \A c \in Crawlers :
        LET history == Recent(runs[ScopeOf(c)])
            long    == (BaselineWindow \div 2 + 1) * BaselineAcceptRuns
        IN  crawler[c].pc = "crawl" /\ tally[c].verdict = "suspect" /\ Len(history) >= long
                => \E i \in 1 .. long : history[i].seen # tally[c].seen
=============================================================================
