------------------------------ MODULE Gateway ------------------------------
(***************************************************************************)
(* The server's front: agents call MCP tools and REST routes, a browser    *)
(* opens pages of the console, which asks the REST API on its behalf.      *)
(* A request is served one service call at a time; Postgres or the network *)
(* may fail at any of them, before or after the call took effect, and an   *)
(* answer may never arrive.  The bearer token may be rotated, which leaves *)
(* the browser with a cookie that is refused.                              *)
(*                                                                         *)
(* One request is open at a time: TasteMemory and CrawlQueue interleave    *)
(* the statements inside.  menu says what takes part in a behaviour.       *)
(***************************************************************************)
EXTENDS Service

CONSTANTS
    Menus,               \* sets of operations, pages and events that go together
    Requests,            \* [via, op, in]: what agents send
    PageVisits,          \* [name, in]: what the browser opens
    MaxVerdicts, MaxRubrics, MaxFaults, MaxRotations, MaxProbes,   \* bounds
    MaxLoginFailures

ASSUME GatewayAssumption ==
    {MaxVerdicts, MaxRubrics, MaxFaults, MaxRotations, MaxProbes, MaxLoginFailures} \subseteq Nat

Mcp  == INSTANCE McpTools
Rest == INSTANCE RestApi
Web  == INSTANCE Console

\* Agents call what there is; a batch of verdicts is a list.
ASSUME RequestsAssumption ==
    /\ \A r \in Requests :
          /\ \/ r.via = "mcp" /\ r.op \in Mcp!Tools
             \/ r.via = "rest" /\ r.op \in Rest!Safe \cup Rest!Unsafe
          /\ r.op = "recordVerdicts" => r.in.batch \in Seq(Range(r.in.batch))
    /\ \A v \in PageVisits : v.name \in Web!Reads \cup Web!Writes \cup {"login"}

VARIABLES
    menu,          \* with "write": the console is not CONSOLE_READONLY
    db,
    token,         \* the bearer the server accepts; rotations count up
    cookie,        \* the bearer in the browser's cookie, 0 for none
    request,       \* the request being served
    last,          \* the idempotent tool call before, and the tables from before its first
    page,          \* the page being built
    faults,        \* faults so far
    limiter,       \* loginLimiter: failures, and whether its window has passed
    probes,        \* per presented token (0: a guess): login probes in flight
    guesses        \* history: wrong tokens tried in this window since a login succeeded

loginVars == <<limiter, probes, guesses>>
vars == <<menu, db, token, cookie, request, last, page, faults, loginVars>>

NoRequest == [via |-> "none"]
NoPage    == [name |-> "none"]
Tokens    == 0 .. MaxRotations + 1

Init ==
    /\ menu \in Menus
    /\ db = EmptyDb
    /\ token = 1 /\ cookie \in {0, 1}
    /\ request = NoRequest /\ last = NoRequest /\ page = NoPage
    /\ faults = 0
    /\ limiter = [failures |-> 0, passed |-> TRUE]
    /\ probes = [t \in Tokens |-> 0]
    /\ guesses = 0

---------------------------------------------------------------------------
(* One request.                                                             *)

PlanOf(r) == IF r.via = "mcp" THEN Mcp!ToolPlan(r.op, r.in) ELSE Rest!RoutePlan(r.op, r.in)

\* Every data route and the MCP stream want the bearer; the photo proxy does not.
Authorized(r, presented) == presented = token \/ r.op \in {"image", "imageByListing"}

\* `base` is the tables before the first of a row of identical requests.
Opened(r, presented) ==
    [via |-> r.via, op |-> r.op, in |-> r.in,
     err |-> IF Authorized(r, presented) THEN PlanOf(r).err ELSE "unauthorized",
     calls |-> PlanOf(r).calls, landed |-> 0, failed |-> FALSE, started |-> db,
     base |-> IF last # NoRequest /\ last.op = r.op /\ last.in = r.in THEN last.base ELSE db]

\* Bounds: the tables have room for what the request may add.
Room(r) ==
    /\ r.op \in {"recordVerdict", "recordVerdicts"} => Len(db.verdicts) + MaxVerdictBatch <= MaxVerdicts
    /\ r.op = "updateRubric" => db.rubrics < MaxRubrics
    /\ r.op \in {"requestCrawl", "queueCrawl"} => db.nextTarget <= MaxTargets

Ask(r) ==
    /\ request = NoRequest /\ page = NoPage
    /\ {"agents", r.op} \subseteq menu /\ Room(r)
    /\ request' = Opened(r, token)
    /\ UNCHANGED <<menu, db, token, cookie, last, page, faults, loginVars>>

Serving == request # NoRequest /\ request.err = "ok" /\ request.calls # <<>>

\* The service call at the head of the request.
Work ==
    /\ Serving
    /\ LET c   == Head(request.calls)
           out == Perform(c, db)
       IN  /\ db' = out.db
           /\ request' = [request EXCEPT
                  !.calls = Tail(@),
                  !.landed = IF c.do = "BatchItem" /\ out.db # db THEN @ + 1 ELSE @,
                  !.err = IF out.err \in c.spared THEN "ok" ELSE out.err]
    /\ UNCHANGED <<menu, token, cookie, last, page, faults, loginVars>>

\* The call fails; its transaction may have committed all the same.
CallFails ==
    /\ Serving /\ faults < MaxFaults
    /\ faults' = faults + 1
    /\ LET c == Head(request.calls)
       IN  /\ db' \in {db, Perform(c, db).db}
           /\ request' = [request EXCEPT
                  !.calls = Tail(@), !.failed = TRUE,
                  !.err = IF Outage \in c.spared THEN "ok" ELSE Outage]
    /\ UNCHANGED <<menu, token, cookie, last, page, loginVars>>

Served == request # NoRequest /\ (request.err # "ok" \/ request.calls = <<>>)

Answer == IF request.via = "mcp" THEN Mcp!Guard(request.op, request.err, request.landed)
                                 ELSE Rest!MapServiceError(request.err)

Repeatable(r) == r.via = "mcp" /\ r.op \in Mcp!Idempotent \ Mcp!ReadOnly

\* What the next request is compared with.
Close ==
    /\ last' = IF Repeatable(request) THEN [op |-> request.op, in |-> request.in, base |-> request.base]
               ELSE NoRequest
    /\ request' = NoRequest

Reply ==
    /\ Served /\ page = NoPage
    /\ Close
    /\ UNCHANGED <<menu, db, token, cookie, page, faults, loginVars>>

\* The agent gave up waiting.
AnswerLost ==
    /\ Served /\ page = NoPage /\ faults < MaxFaults
    /\ faults' = faults + 1
    /\ Close
    /\ UNCHANGED <<menu, db, token, cookie, page, loginVars>>

---------------------------------------------------------------------------
(* The console.                                                             *)

\* The login page sends a browser that has a cookie to the dashboard.
Landing(v) == IF v.name = "login" THEN "dashboard" ELSE v.name

\* Without a cookie there is nothing but the login page.
Visit(v) ==
    /\ request = NoRequest /\ page = NoPage
    /\ v.name \in menu /\ Room([op |-> v.name])
    /\ cookie # 0
    /\ LET plan == Web!PagePlan(Landing(v), v.in, "write" \in menu)
       IN  page' = [name |-> Landing(v), status |-> plan.status, rest |-> plan.requests,
                    served |-> FALSE, failed |-> FALSE]
    /\ UNCHANGED <<menu, db, token, cookie, request, last, faults, loginVars>>

PageAsks ==
    /\ page # NoPage /\ request = NoRequest /\ page.rest # <<>>
    /\ LET r == Head(page.rest)
       IN  request' = Opened([via |-> "rest", op |-> r.op, in |-> r.in], cookie)
    /\ UNCHANGED <<menu, db, token, cookie, last, page, faults, loginVars>>

PageStops(status) ==
    /\ page' = [page EXCEPT !.status = Web!Fail(status).status, !.rest = <<>>]
    /\ cookie' = IF Web!Fail(status).clears THEN 0 ELSE cookie

\* A gate that is not answered takes the request after it with it.
LeftToAsk(rest, answered) ==
    IF answered \/ ~Head(rest).gates \/ Tail(rest) = <<>> THEN Tail(rest) ELSE Tail(Tail(rest))

PageGoesOn(answered) == page' = [page EXCEPT !.rest = LeftToAsk(@, answered)] /\ UNCHANGED cookie

PageAnswered ==
    /\ page # NoPage /\ Served
    /\ Close
    /\ IF Answer # 200 /\ "refusal" \in Head(page.rest).fatal THEN PageStops(Answer)
       ELSE PageGoesOn(Answer = 200)
    /\ UNCHANGED <<menu, db, token, faults, loginVars>>

\* The API is not reached, or answers after the console's 20 seconds.
PageUnanswered ==
    /\ page # NoPage /\ Served /\ faults < MaxFaults
    /\ faults' = faults + 1
    /\ Close
    /\ IF "silence" \in Head(page.rest).fatal THEN PageStops(0) ELSE PageGoesOn(FALSE)
    /\ UNCHANGED <<menu, db, token, loginVars>>

PageEnds ==
    /\ page # NoPage /\ page.rest = <<>>
    /\ page' = NoPage
    /\ UNCHANGED <<menu, db, token, cookie, request, last, faults, loginVars>>

Logout ==
    /\ "logout" \in menu /\ page = NoPage
    /\ cookie' = 0
    /\ UNCHANGED <<menu, db, token, request, last, page, faults, loginVars>>

---------------------------------------------------------------------------
(* Logging in: a probe of GET /v1/state with the token that was typed in.   *)

\* The failures counted so far: none once the window has passed.
Spent == IF limiter.passed THEN 0 ELSE limiter.failures

\* Mutant: an attempt is not counted while its probe is in flight.
AllowUncounted == Spent < MaxLoginFailures /\ limiter' = [failures |-> Spent, passed |-> FALSE]

\* An attempt is spent up front.
Allow == Spent < MaxLoginFailures /\ limiter' = [failures |-> Spent + 1, passed |-> FALSE]

DoLogin(t) ==
    /\ "doLogin" \in menu /\ t <= token
    /\ FoldFunction(+, 0, probes) < MaxProbes
    /\ Allow
    /\ probes' = [probes EXCEPT ![t] = @ + 1]
    /\ guesses' = (IF limiter.passed THEN 0 ELSE guesses) + (IF t # token THEN 1 ELSE 0)
    /\ UNCHANGED <<menu, db, token, cookie, request, last, page, faults>>

\* A success hands the budget back; a rejection or a fault does not.
ProbeAnswered(t) ==
    /\ probes[t] > 0
    /\ probes' = [probes EXCEPT ![t] = @ - 1]
    /\ IF t = token
       THEN /\ limiter' = [limiter EXCEPT !.failures = 0]
            /\ cookie' = t /\ guesses' = 0
       ELSE UNCHANGED <<limiter, cookie, guesses>>
    /\ UNCHANGED <<menu, db, token, request, last, page, faults>>

ProbeFails(t) ==
    /\ probes[t] > 0 /\ faults < MaxFaults
    /\ faults' = faults + 1
    /\ probes' = [probes EXCEPT ![t] = @ - 1]
    /\ UNCHANGED <<menu, db, token, cookie, request, last, page, limiter, guesses>>

WindowPasses ==
    /\ "doLogin" \in menu /\ ~limiter.passed
    /\ limiter' = [limiter EXCEPT !.passed = TRUE]
    /\ UNCHANGED <<menu, db, token, cookie, request, last, page, faults, probes, guesses>>

---------------------------------------------------------------------------
(* Around the requests.                                                     *)

\* The operator restarts the servers with another bearer.
RotateToken ==
    /\ "rotate" \in menu /\ request = NoRequest /\ page = NoPage
    /\ token <= MaxRotations
    /\ token' = token + 1
    /\ UNCHANGED <<menu, db, cookie, request, last, page, faults, loginVars>>

\* The crawler takes up a target, or settles it.
CrawlerMoves ==
    /\ "crawler" \in menu /\ request = NoRequest /\ page = NoPage
    /\ \E t \in db.targets, next \in {<<"pending", "running">>, <<"running", "done">>} :
          /\ t.status = next[1]
          /\ db' = Put(db, t, [t EXCEPT !.status = next[2]]).db
    /\ last' = NoRequest
    /\ UNCHANGED <<menu, token, cookie, request, page, faults, loginVars>>

AgentStep == (\E r \in Requests : Ask(r)) \/ Reply \/ AnswerLost
ServerStep == Work \/ CallFails
PageStep == (\E v \in PageVisits : Visit(v)) \/ PageAsks \/ PageAnswered \/ PageUnanswered \/ PageEnds \/ Logout
LoginStep == WindowPasses \/ \E t \in Tokens : DoLogin(t) \/ ProbeAnswered(t) \/ ProbeFails(t)

Next == AgentStep \/ ServerStep \/ PageStep \/ LoginStep \/ RotateToken \/ CrawlerMoves

Spec == Init /\ [][Next]_vars

\* The servers answer, and the user keeps opening the login page.
FairSpec ==
    /\ Spec
    /\ WF_vars(Work) /\ WF_vars(Reply) /\ WF_vars(PageAsks) /\ WF_vars(PageAnswered) /\ WF_vars(PageEnds)
    /\ SF_vars(\E v \in PageVisits : v.name = "login" /\ Visit(v))

---------------------------------------------------------------------------
(* Properties.                                                              *)

IsRefusal ==
    IF request.via = "mcp" THEN Answer \in {"refused", "unauthorized"} ELSE Answer \in 400 .. 499
IsFailure ==
    IF request.via = "mcp" THEN Answer \in {"masked", "partial"} ELSE Answer \in 500 .. 599

\* A request that is refused without any fault has changed nothing, however many
\* calls it makes before the one that refuses (service.go:249: a bad batch
\* records nothing).
RefusalWritesNothing ==
    Served /\ IsRefusal /\ ~request.failed => db = request.started

\* The texts of a request that are bound into a statement.
Texts(r) ==
    CASE r.op \in {"recordVerdict", "requestCrawl", "addToList"} -> {r.in.note}
      [] r.op \in {"searchListings", "createList"} -> {r.in.text}
      [] r.op = "updateRubric" -> {r.in.content}
      [] r.op = "setProfile" -> {r.in.value}
      [] r.op = "recordVerdicts" -> {r.in.batch[i].note : i \in DOMAIN r.in.batch}
      [] OTHER -> {}

\* Only a fault is answered as one, or a text that Postgres does not store and no
\* check looks for: whatever else a client gets wrong is answered as its own
\* mistake, through the switch over the service's sentinels.
OnlyFaultsAre500 == Served /\ IsFailure => request.failed \/ "nul" \in Texts(request)

\* An idempotent tool that is sent again after a lost or failed answer, or for no
\* reason at all, ends with the tables one undisturbed call would have left
\* (guard.go:25: repeating the same call changes nothing further).
SafeRetry ==
    Served /\ Repeatable(request) /\ ~IsFailure => db = Effect(PlanOf(request), request.base).db

\* The REST routes that do what a tool does.
Twin(r) ==
    IF r.op # "manageCrawlTarget" THEN [via |-> "rest", op |-> r.op, in |-> r.in]
    ELSE [via |-> "rest",
          op |-> IF r.in.action = "delete" THEN "deleteCrawlTarget" ELSE "updateCrawlTarget",
          in |-> [id |-> r.in.id, recurring |-> r.in.action = "make_recurring",
                  enabled |-> CASE r.in.action = "pause" -> "false" [] r.in.action = "resume" -> "true"
                                [] OTHER -> "absent"]]

\* A profile whose enum values are spelled loosely, and the same spelled exactly.
Loose(r) == r.op = "setProfile" /\ r.in.form \in {"folded", "blank"}
Exact(r) ==
    IF Loose(r) THEN [via |-> r.via, op |-> r.op, in |-> [form |-> "ok", value |-> r.in.value,
                                                          set |-> r.in.set, clear |-> r.in.clear]]
    ELSE r

\* Both transports write the same and refuse alike, though each parses and checks
\* on its own: what an agent may do through one it may do through the other.  The
\* one difference is a loosely spelled profile, which the tool refuses and the
\* route saves as the tool would have saved the exact spelling.
TransportsAgree ==
    request = NoRequest =>
        \A r \in Requests : r.via = "mcp" /\ r.op \in menu \ Mcp!ReadOnly =>
            LET tool  == Effect(PlanOf(r), db)
                exact == Effect(PlanOf(Exact(r)), db)
                route == Effect(PlanOf(Twin(r)), db)
            IN  /\ exact.db = route.db /\ (exact.err = "ok") = (route.err = "ok")
                /\ Loose(r) => tool = [Done(db) EXCEPT !.err = "invalid"]

\* A read changes nothing, whatever is asked of it along the way; an additive
\* tool removes no verdict, rubric, mark, list, member or crawl target; a page of
\* a read-only console changes nothing (guard.go:18-22, cmd/console/main.go:150-161).
Keeps(d, e) ==
    /\ IsPrefix(d.verdicts, e.verdicts) /\ d.rubrics <= e.rubrics
    /\ d.shown \subseteq e.shown /\ d.lists \subseteq e.lists /\ d.items \subseteq e.items
    /\ \A t \in d.targets : \E u \in e.targets : u.id = t.id /\ u.kind = t.kind /\ (t.enabled => u.enabled)

EffectsAsAnnotated ==
    [][ request # NoRequest /\ db' # db =>
          /\ request.via = "mcp" => request.op \notin Mcp!ReadOnly
          /\ request.via = "mcp" /\ request.op \in Mcp!Additive => Keeps(db, db')
          /\ request.via = "rest" => request.op \notin Rest!Safe
          /\ page # NoPage => "write" \in menu /\ page.name \in Web!Writes ]_vars

\* Whoever tries tokens at the login page gets no more than the limit of them to
\* the API in one window, in parallel or one by one (cmd/console/main.go:71-72).
GuessesBounded == guesses <= MaxLoginFailures

\* A browser whose cookie the server no longer takes gets to the login form by
\* opening the login page, although that one sends it to the dashboard as long
\* as it has a cookie.
SessionEnds ==
    "rotate" \in menu => (cookie \notin {0, token} ~> cookie \in {0, token})
=============================================================================
