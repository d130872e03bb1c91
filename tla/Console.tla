------------------------------ MODULE Console ------------------------------
(***************************************************************************)
(* The web console (cmd/console): the REST requests each page makes with   *)
(* the bearer of the browser's cookie, and what it makes of the answers.   *)
(* A page that is not asked for a number where it wants one answers by     *)
(* itself (in.form).                                                       *)
(***************************************************************************)
EXTENDS Naturals, Sequences

\* A request, with what fails the page: a refusal, no answer at all, or nothing.
Needs(op, in) == <<[op |-> op, in |-> in, fatal |-> {"refusal", "silence"}, gates |-> FALSE]>>
Posts(op, in) == <<[op |-> op, in |-> in, fatal |-> {"silence"}, gates |-> FALSE]>>
Wants(op, in) == <<[op |-> op, in |-> in, fatal |-> {}, gates |-> FALSE]>>
\* ... or what leaves out the next request.
Gates(op, in) == <<[op |-> op, in |-> in, fatal |-> {}, gates |-> TRUE]>>
Asks(requests)    == [status |-> 200, requests |-> requests]
Redirects(requests) == [status |-> 303, requests |-> requests]
Answers(status)   == [status |-> status, requests |-> <<>>]
Numbered(in, outcome) == IF in.form = "ok" THEN outcome ELSE Answers(404)

NoPrice == [form |-> "ok", price |-> "none", text |-> "ok"]

\* The rent listings are only asked for when the sale page is empty and the corpus,
\* once its numbers are there, has some.
Dashboard(in) ==
    Asks(Needs("getState", in) \o Needs("searchListings", NoPrice)
         \o (IF in.rent THEN Gates("getCorpusStats", in) \o Wants("searchListings", NoPrice)
                         ELSE Wants("getCorpusStats", in))
         \o Wants("listCrawlTargets", in))

ListingsPage(in) == Asks(Needs("searchListings", in))

ListingPage(in, write) ==
    Numbered(in, Asks(Needs("getListing", in) \o IF write THEN Wants("getLists", in) ELSE <<>>))

CrawlsPage(in) == Asks(Needs("listCrawlTargets", in) \o Wants("getCorpusStats", in))
ListsPage(in) == Asks(Needs("getLists", in))
ListDetail(in) == Numbered(in, Asks(Needs("getList", in)))
VerdictsPage(in) == Asks(Needs("getVerdicts", in))
Settings(in) == Asks(<<>>)
CreateList(in) == Redirects(Needs("createList", in))
DeleteList(in) == Numbered(in, Redirects(Needs("deleteList", in)))

AddToList(in) ==
    IF in.form = "badList" THEN Answers(400) ELSE Numbered(in, Redirects(Needs("addToList", in)))

RemoveFromList(in) == Numbered(in, Redirects(Needs("removeFromList", in)))

\* A price that is not positive is left out; a refusal is shown on /crawls.
QueueCrawl(in) ==
    IF in.form = "empty" THEN Answers(303)
    ELSE Redirects(Posts("requestCrawl",
             [in EXCEPT !.price = IF in.price \in {"ok", "huge"} THEN in.price ELSE "none",
                        !.oneOff = FALSE]))

SetCrawlEnabled(in) ==
    Numbered(in, Redirects(Needs("updateCrawlTarget",
                 [id |-> in.id, recurring |-> FALSE, enabled |-> in.enabled])))

MakeCrawlRecurring(in) ==
    Numbered(in, Redirects(Needs("updateCrawlTarget",
                 [id |-> in.id, recurring |-> TRUE, enabled |-> "absent"])))

DeleteCrawl(in) == Numbered(in, Redirects(Needs("deleteCrawlTarget", in)))
ResetData(in) == IF in.confirm THEN Redirects(Needs("resetState", in)) ELSE Answers(303)

Reads  == {"dashboard", "listings", "listing", "crawls", "lists", "list", "verdicts"}
Writes == {"createList", "deleteList", "addToList", "removeFromList", "queueCrawl", "setCrawlEnabled",
           "makeCrawlRecurring", "deleteCrawl", "settings", "resetData"}

\* The pages that write are only there in write mode.
Routes(write) == Reads \cup (IF write THEN Writes ELSE {})

PagePlan(name, in, write) ==
    IF name \notin Routes(write) THEN Answers(404) ELSE
    CASE name = "dashboard" -> Dashboard(in)
      [] name = "listings" -> ListingsPage(in)
      [] name = "listing" -> ListingPage(in, write)
      [] name = "crawls" -> CrawlsPage(in)
      [] name = "lists" -> ListsPage(in)
      [] name = "list" -> ListDetail(in)
      [] name = "verdicts" -> VerdictsPage(in)
      [] name = "settings" -> Settings(in)
      [] name = "createList" -> CreateList(in)
      [] name = "deleteList" -> DeleteList(in)
      [] name = "addToList" -> AddToList(in)
      [] name = "removeFromList" -> RemoveFromList(in)
      [] name = "queueCrawl" -> QueueCrawl(in)
      [] name = "setCrawlEnabled" -> SetCrawlEnabled(in)
      [] name = "makeCrawlRecurring" -> MakeCrawlRecurring(in)
      [] name = "deleteCrawl" -> DeleteCrawl(in)
      [] name = "resetData" -> ResetData(in)

\* Mutant: a 401 is shown like any other refusal.
FailShown(status) == [status |-> IF status \in 400 .. 499 THEN status ELSE 502, clears |-> FALSE]

\* What the page answers when a request it needs was answered with `status` (0:
\* with nothing): a 401 clears the cookie and sends the browser to log in.
Fail(status) ==
    IF status = 401 THEN [status |-> 303, clears |-> TRUE]
    ELSE [status |-> IF status \in 400 .. 499 THEN status ELSE 502, clears |-> FALSE]

=============================================================================
