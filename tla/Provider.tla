------------------------------ MODULE Provider ------------------------------
(***************************************************************************)
(* A crawl at the provider (internal/streeteasy): it walks the search      *)
(* pages, then fetches the details of what it found, one request at a      *)
(* time.  A request is tried MaxAttempts times; an attempt may go through  *)
(* a proxy, and a 403 sends it on through the next until the pool is dry.  *)
(* A watch worker refreshes the list of proxies meanwhile.                 *)
(*                                                                         *)
(* Timers run out exactly: what sleeps goes on before the next tick.       *)
(***************************************************************************)
EXTENDS SearchWalk, ProxyPool

CONSTANTS
    Settings,            \* [mode: "off", "split" or "all"; starts: which of Starts; detail: are details
                         \*  fetched; events: what may happen besides answers: "slow", "fault", "ban",
                         \*  "cancel", "move", "watch", "deadline", or a provider that gets its
                         \*  "paging" or its "counting" wrong]
    Starts,              \* named sets of [market, max] a search may begin on
    Delay, Timeout, MaxAttempts, RetryBackoff,
    MaxFaults,           \* bound: answers other than 200 and 403
    MaxBands             \* bound: bands to walk when the counts do not follow them

ASSUME ClientAssumption ==
    /\ \A s \in Settings : \A start \in Starts[s.starts] :
          /\ start.market \in Markets
          /\ start.max \subseteq Nat /\ \A p, q \in start.max : p = q
    /\ {Delay, Timeout, MaxAttempts, RetryBackoff} \subseteq Nat /\ MaxAttempts > 0
    /\ MaxFaults \in Nat /\ MaxBands \in Nat

VARIABLES
    setting,
    alive,               \* the context of the crawl: not shut down, within its deadline
    req,                 \* the request under way
    pace,                \* what is left until nextAllowed
    faults

vars == <<walkVars, poolVars, setting, alive, req, pace, faults>>

NoReq == [phase |-> "none", for |-> "page", attempt |-> 1, sleep |-> 0, left |-> 0, via |-> "direct"]
IsSite(r) == r.for \in Ids

Init ==
    /\ setting \in Settings
    /\ WalkInit(Starts[setting.starts]) /\ PoolInit
    /\ alive = TRUE /\ req = NoReq /\ pace = 0 /\ faults = 0

---------------------------------------------------------------------------
(* What is fetched: pages while the walk goes on, then details.             *)

Search ==
    /\ req = NoReq
    /\ (StartSearch \/ RejectSearch)
    /\ UNCHANGED <<poolVars, setting, alive, req, pace, faults>>

NextAllowed(d) == Delay + d

\* Client.wait: the slot is taken before the sleep.
Wait(r) ==
    /\ pace' = NextAllowed(pace)
    /\ req' = [r EXCEPT !.phase = "pace", !.sleep = pace]

AskPage ==
    /\ req = NoReq /\ walk.status = "walking"
    /\ Wait([NoReq EXCEPT !.for = "page"])
    /\ UNCHANGED <<walkVars, poolVars, setting, alive, faults>>

\* What was found is looked at even when the search was aborted; DisableDetail is a setting.
AskDetail ==
    /\ req = NoReq /\ walk.status \in {"complete", "aborted", "failed"} /\ alive /\ setting.detail
    /\ Decoded(walk) # walk.detailed
    /\ LET l == CHOOSE l \in Decoded(walk) \ walk.detailed : TRUE
       IN  /\ Wait([NoReq EXCEPT !.for = l])
           /\ walk' = [walk EXCEPT !.detailed = @ \cup {l}]
    /\ UNCHANGED <<market, moves, stayed, poolVars, setting, alive, faults>>

---------------------------------------------------------------------------
(* One attempt.                                                             *)

Slept == req.sleep = 0

BeginAttempt ==
    /\ req.phase = "pace" /\ Slept
    /\ req' = [req EXCEPT !.phase = "choose", !.left = Timeout]
    /\ UNCHANGED <<walkVars, poolVars, setting, alive, pace, faults>>

Proxied == \/ setting.mode = "all"
           \/ setting.mode = "split" /\ IsSite(req)

SendDirect ==
    /\ req.phase = "choose" /\ ~Proxied
    /\ req' = [req EXCEPT !.phase = "sent", !.via = "direct"]
    /\ UNCHANGED <<walkVars, poolVars, setting, alive, pace, faults>>

ChooseProxy ==
    /\ req.phase = "choose" /\ Proxied /\ req.left > 0
    /\ \E h \in Hosts :
          /\ Picks(h) /\ Take(h)
          /\ req' = [req EXCEPT !.phase = "gap", !.via = h, !.sleep = busy[h]]
    /\ UNCHANGED <<walkVars, setting, alive, pace, faults>>

SendVia ==
    /\ req.phase = "gap" /\ Slept /\ req.left > 0
    /\ Hit(req.via)
    /\ req' = [req EXCEPT !.phase = "sent"]
    /\ UNCHANGED <<walkVars, setting, alive, pace, faults>>

\* A 403 is the proxy's: the request is sent again, its body included.
Forbidden ==
    /\ req.phase = "sent" /\ req.via # "direct" /\ "ban" \in setting.events
    /\ Bench(req.via)
    /\ req' = [req EXCEPT !.phase = "choose"]
    /\ UNCHANGED <<walkVars, setting, alive, pace, faults>>

---------------------------------------------------------------------------
(* What becomes of the request.                                             *)

\* Client.do goes on with another attempt, or the request has failed.
Failed ==
    /\ req' = NoReq
    /\ walk' = IF IsSite(req) THEN walk ELSE [walk EXCEPT !.status = "failed"]

AttemptFails(retryable) ==
    IF retryable /\ alive /\ req.attempt < MaxAttempts
    THEN /\ req' = [req EXCEPT !.phase = "backoff", !.sleep = RetryBackoff * 2 ^ (req.attempt - 1)]
         /\ UNCHANGED walk
    ELSE Failed

\* A pool without a usable proxy sends nothing, and is not waited for.
PoolDry ==
    /\ req.phase = "choose" /\ Proxied /\ Usable = {}
    /\ AttemptFails(FALSE)
    /\ UNCHANGED <<market, moves, stayed, poolVars, setting, alive, pace, faults>>

\* http.Client gives up on the attempt, in a wait for a proxy too.
TimesOut ==
    /\ req.phase \in {"choose", "gap", "sent"} /\ req.left = 0
    /\ AttemptFails(TRUE)
    /\ UNCHANGED <<market, moves, stayed, poolVars, setting, alive, pace, faults>>

\* A status, a broken connection (to be tried again), or an answer that cannot be
\* decoded or shows another listing.
Faulty ==
    /\ "fault" \in setting.events /\ req.phase = "sent" /\ faults < MaxFaults
    /\ faults' = faults + 1
    /\ \E retryable \in BOOLEAN : AttemptFails(retryable)
    /\ UNCHANGED <<market, moves, stayed, poolVars, setting, alive, pace>>

Truthful == {"paging", "counting"} \cap setting.events = {}

\* What the provider may answer to the page asked for.
Answers ==
    LET out      == Answer(Head(walk.bands), walk.page)
        onMarket == {l \in Ids : market[l] # 0}
    IN  IF Truthful THEN {out}
        ELSE [total   : IF "counting" \in setting.events THEN 0 .. ResultCap + 1 ELSE {out.total},
              edges   : SUBSET onMarket,
              hasNext : BOOLEAN]

\* Bound: the halves of one band more are not told from the band itself, which is
\* asked for again.
OneTooMany(out) ==
    /\ "counting" \in setting.events /\ Len(walk.bands) >= MaxBands
    /\ walk.page = 1 /\ out.total > ResultCap /\ CanSplit(Head(walk.bands), out.edges)

PageArrives == \E out \in Answers : IF OneTooMany(out) THEN UNCHANGED walk ELSE TakePage(out)

Answered ==
    /\ req.phase = "sent"
    /\ req' = NoReq
    /\ IF IsSite(req) THEN UNCHANGED walk
       ELSE IF alive THEN PageArrives ELSE walk' = [walk EXCEPT !.status = "failed"]
    /\ UNCHANGED <<market, moves, stayed, poolVars, setting, alive, pace, faults>>

TryAgain ==
    /\ req.phase = "backoff" /\ Slept
    /\ Wait([req EXCEPT !.attempt = @ + 1])
    /\ UNCHANGED <<walkVars, poolVars, setting, alive, faults>>

Stops ==
    /\ alive /\ walk.status # "idle"
    /\ alive' = FALSE
    /\ UNCHANGED <<walkVars, poolVars, setting, req, pace, faults>>

\* Shutdown.
Cancel == "cancel" \in setting.events /\ Stops

\* A drain is given so long and no longer.
Deadline == "deadline" \in setting.events /\ Stops

Cancelled ==
    /\ req # NoReq /\ ~alive
    /\ Failed
    /\ UNCHANGED <<market, moves, stayed, poolVars, setting, alive, pace, faults>>

---------------------------------------------------------------------------
(* Around it.                                                               *)

\* The market is looked at when an answer is made, so it moves just before one.
Moves ==
    /\ "move" \in setting.events /\ req.phase = "sent" /\ MarketMoves
    /\ UNCHANGED <<poolVars, setting, alive, req, pace, faults>>

Refresh ==
    /\ "watch" \in setting.events /\ RefreshProxies
    /\ UNCHANGED <<walkVars, setting, alive, req, pace, faults>>

\* Time passes unless something is due.
Due ==
    \/ req.phase \in {"pace", "gap", "backoff"} /\ Slept
    \/ req.phase \in {"choose", "gap", "sent"} /\ req.left = 0
    \/ req.phase = "choose"
    \/ req.phase = "sent" /\ "slow" \notin setting.events
    \/ walk.status = "idle"

Tick ==
    /\ ~Due
    /\ IF setting.mode = "off" THEN UNCHANGED poolVars ELSE PoolTick
    /\ pace' = IF pace = 0 THEN 0 ELSE pace - 1
    /\ req' = [req EXCEPT !.sleep = IF @ = 0 THEN 0 ELSE @ - 1, !.left = IF @ = 0 THEN 0 ELSE @ - 1]
    /\ UNCHANGED <<walkVars, setting, alive, faults>>

RequestStep ==
    \/ AskPage \/ AskDetail \/ BeginAttempt \/ SendDirect \/ ChooseProxy \/ SendVia \/ Forbidden
    \/ PoolDry \/ TimesOut \/ Faulty \/ Answered \/ TryAgain \/ Cancelled

Next == Search \/ RequestStep \/ Cancel \/ Deadline \/ Moves \/ Refresh \/ Tick

Spec == Init /\ [][Next]_vars

\* The crawl's goroutine runs, and time passes, up to the deadline in the end.
FairSpec == Spec /\ WF_vars(RequestStep) /\ WF_vars(Tick) /\ WF_vars(Deadline)

---------------------------------------------------------------------------
(* Properties.                                                              *)

\* With a provider that counts and pages as it should, a sweep that calls itself
\* complete has shown every listing with an id that was in the scope all along,
\* except at most two for every move of the market while it was paging, one that
\* slips to a page or a band already read and one that is pushed past the cap of a
\* band already counted (client.go:163-165).
CompleteCovers ==
    Truthful /\ walk.status = "complete" => Cardinality((stayed \ Anonymous) \ walk.seen) <= 2 * moves

\* While the market rests, and with such a provider, a scope is given up only for
\* what no split can help: more listings of one price than the provider shows, or a
\* band that is too large and of which the first page shows no price that can be read
\* (client.go:163-165).
AbortHasCause ==
    Truthful /\ walk.status = "aborted" /\ moves = 0 =>
        \/ \E p \in Prices : Cardinality({l \in Ids : market[l] = p}) > ResultCap
        \/ \E lo, hi \in Prices :
              LET out == Answer([lo |-> {lo}, hi |-> {hi}], 1)
              IN  out.total > ResultCap /\ out.edges \subseteq Unpriced

Sends == req.phase = "gap" /\ req'.phase = "sent"

\* Nothing is sent through an address within BenchFor of a 403 it answered, not
\* even when the list was replaced meanwhile (webshare.go:92-93: a ban lengthens
\* on every hit).
BansRespected == [][ Sends => banned[req.via] = 0 ]_vars

\* Two requests through one address are MinGap apart, across attempts, time-outs
\* and refreshed lists (webshare.go:95-97).
GapKept == [][ Sends => rested[req.via] = MinGap ]_vars

\* A search ends by itself, however the market moves and whatever a provider shows on
\* its pages and claims of more of them, as long as its counts follow the band asked
\* for; when they do not, it is the deadline that ends it (client.go:172-203).
SearchEnds == walk.status = "walking" ~> walk.status \in {"complete", "aborted", "failed"}
=============================================================================
