------------------------------ MODULE ProxyPool ------------------------------
(***************************************************************************)
(* streeteasy.ProxyPool: which proxy a request goes through, and when.     *)
(* Times are kept as what is left of them, in ticks, so that the model     *)
(* needs no clock: lastUsed + minGap - now, the end of a bench - now.      *)
(***************************************************************************)
EXTENDS Naturals, Sequences, FiniteSets, SequencesExt

CONSTANTS
    Hosts,           \* proxies
    ProxyLists,      \* the lists of proxies Webshare may answer, in its order
    MinGap, BenchFor, RefreshEvery

\* A proxy that leaves the list comes back no earlier than the next refresh.
ASSUME PoolAssumption ==
    /\ ProxyLists \subseteq Seq(Hosts) /\ \A list \in ProxyLists : list # <<>>
    /\ MinGap \in Nat /\ BenchFor \in Nat /\ RefreshEvery \in Nat /\ BenchFor < RefreshEvery

VARIABLES
    proxies,         \* ProxyPool.proxies
    benched,         \* per host: what is left of its bench
    used,            \* the hosts with a lastUsed, in its order, oldest first
    busy,            \* per host: what is left until lastUsed + minGap
    refresh,         \* what is left until refreshProxies asks for a new list
    banned,          \* history, per host: what is left of BenchFor since its last 403
    rested           \* history, per host: time since the last request through it, up to MinGap

poolVars == <<proxies, benched, used, busy, refresh, banned, rested>>

PoolInit ==
    /\ proxies \in ProxyLists
    /\ benched = [h \in Hosts |-> 0] /\ busy = [h \in Hosts |-> 0] /\ used = <<>>
    /\ refresh \in 1 .. RefreshEvery
    /\ banned = [h \in Hosts |-> 0] /\ rested = [h \in Hosts |-> MinGap]

Usable == {h \in Range(proxies) : benched[h] = 0}

\* The place in the order of lastUsed; a host that was never used comes before all others.
LastUse(h) == IF h \in Range(used) THEN CHOOSE i \in DOMAIN used : used[i] = h ELSE 0

\* The least recently used proxy that is not benched, the first such of the list.
Picks(h) ==
    \E i \in DOMAIN proxies :
        /\ proxies[i] = h /\ h \in Usable
        /\ \A j \in DOMAIN proxies :
              proxies[j] \in Usable =>
                  \/ LastUse(h) < LastUse(proxies[j])
                  \/ LastUse(h) = LastUse(proxies[j]) /\ i <= j

\* Mutant: the slot is taken now, whatever the wait.
ReserveNow(h) == [busy EXCEPT ![h] = MinGap]

\* What lastUsed is set to: the moment the wait is over.
Reserved(h) == [busy EXCEPT ![h] = @ + MinGap]

\* h is used from now on at its reserved moment, which may come before that of a proxy
\* picked earlier.
UsedAfter(h) ==
    LET others == SelectSeq(used, LAMBDA g : g # h)
        sooner(g) == busy[g] <= Reserved(h)[h]
    IN  SelectSeq(others, sooner) \o <<h>> \o SelectSeq(others, LAMBDA g : ~sooner(g))

\* A pick is used once busy[h] has passed.
Take(h) ==
    /\ busy' = Reserved(h)
    /\ used' = UsedAfter(h)
    /\ UNCHANGED <<proxies, benched, refresh, banned, rested>>

Hit(h) ==
    /\ rested' = [rested EXCEPT ![h] = 0]
    /\ UNCHANGED <<proxies, benched, used, busy, refresh, banned>>

\* A 403 came back through h, which may have left the list meanwhile.
Bench(h) ==
    /\ benched' = [benched EXCEPT ![h] = BenchFor]
    /\ banned' = [banned EXCEPT ![h] = BenchFor]
    /\ UNCHANGED <<proxies, used, busy, refresh, rested>>

\* Mutant: a refreshed list starts without benches.
KeepNone(list) == [h \in Hosts |-> 0]

\* A proxy still listed keeps its bench.
Keep(list) == [h \in Hosts |-> IF h \in Range(list) THEN benched[h] ELSE 0]

Replace(list) == proxies' = list /\ benched' = Keep(list)

\* A list without a valid proxy is an error, and a failed refresh keeps the list.
RefreshProxies ==
    /\ refresh = 0
    /\ refresh' = RefreshEvery
    /\ \/ \E list \in ProxyLists : Replace(list)
       \/ UNCHANGED <<proxies, benched>>
    /\ UNCHANGED <<used, busy, banned, rested>>

Less(left) == [h \in Hosts |-> IF left[h] = 0 THEN 0 ELSE left[h] - 1]

PoolTick ==
    /\ benched' = Less(benched) /\ busy' = Less(busy) /\ banned' = Less(banned)
    /\ rested' = [h \in Hosts |-> IF rested[h] = MinGap THEN MinGap ELSE rested[h] + 1]
    /\ refresh' = IF refresh = 0 THEN 0 ELSE refresh - 1
    /\ UNCHANGED <<proxies, used>>

=============================================================================
