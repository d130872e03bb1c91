---------------------------- MODULE CrawlLedger ----------------------------
(***************************************************************************)
(* What the crawl queue promises, without the means: no locks, snapshots,  *)
(* process states, clocks or contexts.  A ledger of jobs, and for each job *)
(* the workers that are crawling it.  A job is started when nobody is      *)
(* crawling it, its outcome is entered by the one who crawled it, and only *)
(* a job that lost its worker is settled by somebody else.                 *)
(***************************************************************************)
EXTENDS Naturals

CONSTANTS Scopes, Workers, MaxJobs

VARIABLES
    job,         \* [kind, scope, status] by id
    issued,      \* ids handed out, withdrawn jobs included
    crawling     \* per id: the workers crawling it

ledgerVars == <<job, issued, crawling>>

Jobs == 1 .. MaxJobs
NoJob == [kind |-> "absent", scope |-> "none", status |-> "done"]

Queued(i) == job[i].kind = "once" /\ job[i].status = "pending"
Ready(i) ==
    \/ Queued(i)
    \/ job[i].kind = "standing" /\ job[i].status # "running"

\* No other request for the scope is queued.
Alone(i, s) == \A j \in Jobs \ {i} : Queued(j) => job[j].scope # s

Init ==
    /\ job = [i \in Jobs |-> NoJob]
    /\ issued = 0
    /\ crawling = [i \in Jobs |-> {}]

Submit(k, s) ==
    LET i == issued + 1 IN
    /\ i \in Jobs
    /\ k = "once" => Alone(i, s)
    /\ job' = [job EXCEPT ![i] = [kind |-> k, scope |-> s, status |-> "pending"]]
    /\ issued' = i
    /\ UNCHANGED crawling

Promote(i) ==
    /\ job[i].kind = "once"
    /\ job' = [job EXCEPT ![i].kind = "standing"]
    /\ UNCHANGED <<issued, crawling>>

\* Removed, reset or pruned; a worker on it goes on, and its outcome is dropped.
Withdraw(gone) ==
    /\ job' = [i \in Jobs |-> IF i \in gone THEN NoJob ELSE job[i]]
    /\ UNCHANGED <<issued, crawling>>

\* With no worker: the start was entered, but the worker never learned of it.
Start(i, by) ==
    /\ Ready(i) /\ crawling[i] = {}
    /\ job' = [job EXCEPT ![i].status = "running"]
    /\ crawling' = [crawling EXCEPT ![i] = by]
    /\ UNCHANGED issued

\* An interrupted request returns to the queue only if no newer one took its place.
Report(i, d, status) ==
    /\ d \in crawling[i]
    /\ job[i].kind = "once" /\ status = "pending" => Alone(i, job[i].scope)
    /\ job' = IF job[i].kind = "absent" THEN job ELSE [job EXCEPT ![i].status = status]
    /\ crawling' = [crawling EXCEPT ![i] = @ \ {d}]
    /\ UNCHANGED issued

\* A worker dies, or the ledger cannot be reached to report to.
Lose(i, d) ==
    /\ d \in crawling[i]
    /\ crawling' = [crawling EXCEPT ![i] = @ \ {d}]
    /\ UNCHANGED <<job, issued>>

Recover(lost) ==
    /\ \A i \in lost : job[i].status = "running" /\ crawling[i] = {}
    /\ job' = [i \in Jobs |->
                 IF i \in lost
                 THEN [job[i] EXCEPT !.status = IF job[i].kind = "once" THEN "failed" ELSE "pending"]
                 ELSE job[i]]
    /\ UNCHANGED <<issued, crawling>>

Next ==
    \/ \E k \in {"standing", "once"}, s \in Scopes : Submit(k, s)
    \/ \E i \in Jobs : Promote(i)
    \/ \E gone \in SUBSET Jobs : Withdraw(gone) \/ Recover(gone)
    \/ \E i \in Jobs, by \in {{}} \cup {{d} : d \in Workers} : Start(i, by)
    \/ \E i \in Jobs, d \in Workers :
          Lose(i, d) \/ \E status \in {"done", "failed", "pending"} : Report(i, d, status)

Spec == Init /\ [][Next]_ledgerVars
=============================================================================
