----------------------------- MODULE MCGateway -----------------------------
EXTENDS Gateway

CONSTANTS l1, ghost, f1, favorites, yards, s1, nowhere

Both(op, ins) == {[via |-> v, op |-> op, in |-> in] : v \in {"mcp", "rest"}, in \in ins}
ViaMcp(op, ins) == {[via |-> "mcp", op |-> op, in |-> in] : in \in ins}
ViaRest(op, ins) == {[via |-> "rest", op |-> op, in |-> in] : in \in ins}

Forms  == {"ok", "bad"}
Spellings == {"ok", "folded", "blank", "bad"}
TextValues == {"ok", "long", "nul"}
Nothing == {[form |-> "ok"]}
Ids    == {[id |-> l] : l \in {l1, ghost}}
Verdict(l, note) == [id |-> l, note |-> note]
InList(list, id, note) == [list |-> list, id |-> id, note |-> note]
InLists == {InList(favorites, l1, "ok"), InList(yards, l1, "ok"), InList(yards, l1, "long"),
            InList(yards, ghost, "ok"), InList(yards, l1, "nul")}
Crawl(form, scope, price, oneOff, note) ==
    [form |-> form, scope |-> scope, price |-> price, oneOff |-> oneOff, note |-> note]
Photo(held, cached) ==
    {[form |-> f, id |-> i, n |-> n, held |-> held, cached |-> cached] :
        f \in Forms, i \in {l1, ghost}, n \in 0 .. 1}

MCRequests ==
    UNION {
        Both("getState", Nothing), Both("getCandidates", Nothing),
        Both("searchListings", {[form |-> f, price |-> p, text |-> t] :
                f \in Forms, p \in {"none", "zero", "huge"}, t \in TextValues}),
        Both("getListing", {[form |-> f, id |-> i] : f \in Forms, i \in {l1, ghost}}),
        Both("getListingsPhotos", {[ids |-> {l1, ghost}]}),
        ViaRest("getListingPhoto", Photo(TRUE, FALSE) \cup Photo(FALSE, FALSE)),
        ViaRest("getContactSheet", Photo(TRUE, FALSE)),
        ViaRest("imageByListing", Photo(TRUE, TRUE) \cup Photo(FALSE, FALSE)),
        ViaRest("image", Photo(TRUE, FALSE) \cup Photo(FALSE, FALSE)),
        ViaRest("getVerdicts", Nothing), ViaMcp("getConsoleURL", Nothing),
        Both("markShown", {[form |-> f, asOf |-> a, ids |-> {l1, ghost}] : f \in Forms, a \in {"none", "future"}}),
        Both("recordVerdict", {[form |-> f, id |-> l, note |-> n] :
                f \in {"ok", "folded"}, l \in {l1, ghost}, n \in TextValues}),
        Both("recordVerdicts",
             {[form |-> f, batch |-> b] : f \in Forms, b \in {<<>>,
                <<Verdict(l1, "ok"), Verdict(ghost, "ok"), Verdict(l1, "ok")>>,
                <<Verdict(l1, "ok"), Verdict(l1, "long")>>,
                <<Verdict(l1, "ok"), Verdict(ghost, "nul")>>}}),
        Both("setProfile", {[form |-> f, value |-> v, set |-> s, clear |-> {f1} \ s] :
                f \in Spellings, v \in {"ok", "bad", "nul"}, s \in SUBSET {f1}}),
        Both("updateRubric", {[content |-> c, through |-> t] : c \in {"ok", "empty", "nul"},
                t \in {"ok", "negative", "ahead"}}),
        Both("resetState", {[confirm |-> c] : c \in BOOLEAN}),
        Both("requestCrawl", {Crawl("ok", s1, "none", TRUE, "ok"), Crawl("ok", s1, "none", FALSE, "ok"),
                              Crawl("folded", s1, "none", TRUE, "ok"), Crawl("ok", nowhere, "none", TRUE, "ok"),
                              Crawl("ok", s1, "zero", FALSE, "ok"), Crawl("ok", s1, "none", FALSE, "nul")}),
        ViaMcp("manageCrawlTarget", {[action |-> a, id |-> i] : i \in 1 .. MaxTargets,
                a \in {"pause", "resume", "make_recurring", "delete", "unknown"}}),
        ViaRest("updateCrawlTarget", {[id |-> 1, recurring |-> r, enabled |-> e] : r \in BOOLEAN,
                e \in {"absent", "true", "false"}}),
        ViaRest("deleteCrawlTarget", {[id |-> i] : i \in 1 .. MaxTargets}),
        Both("listCrawlTargets", Nothing), Both("getCrawlStatus", {[id |-> i] : i \in {1, MaxTargets}}),
        Both("getCorpusStats", Nothing), Both("resolveAreas", {[scope |-> s] : s \in {s1, nowhere}}),
        Both("getLists", Nothing), Both("createList", {[name |-> n, text |-> t] : n \in {favorites, yards, nowhere}, t \in TextValues}),
        Both("getList", {[list |-> l] : l \in {favorites, yards}}),
        ViaRest("deleteList", {[list |-> l] : l \in {favorites, yards}}),
        Both("addToList", InLists), Both("removeFromList", InLists) }

MCVisits ==
    LET On(name, ins) == {[name |-> name, in |-> in] : in \in ins}
        Numbers == {[form |-> f, id |-> l1, list |-> l, note |-> "ok"] : f \in Forms, l \in {favorites, yards}}
        Scope   == {[form |-> f, id |-> 1, enabled |-> "false"] : f \in Forms}
    IN  UNION {
            On("login", {[rent |-> FALSE]}), On("dashboard", {[rent |-> r] : r \in BOOLEAN}),
            On("listings", {[form |-> f, price |-> "none", text |-> "ok"] : f \in Forms}),
            On("listing", {[form |-> f, id |-> l] : f \in Forms, l \in {l1, ghost}}),
            On("crawls", Nothing), On("lists", Nothing), On("list", Numbers), On("verdicts", Nothing),
            On("settings", Nothing), On("createList", {[name |-> yards, text |-> "ok"]}), On("deleteList", Numbers),
            On("addToList", Numbers \cup {[form |-> "badList"]}), On("removeFromList", Numbers),
            On("queueCrawl", {[form |-> f, scope |-> s, price |-> p, oneOff |-> FALSE, note |-> "ok"] :
                   f \in {"ok", "empty"}, s \in {s1, nowhere}, p \in {"zero", "ok"}}),
            On("setCrawlEnabled", Scope), On("makeCrawlRecurring", Scope), On("deleteCrawl", Scope),
            On("resetData", {[confirm |-> c] : c \in BOOLEAN}) }

\* The operations on tables that meet, and the pages of both modes of the console.
Pages == {"login", "rotate", "write"}
MCMenus ==
    { {"agents", "markShown", "recordVerdict", "recordVerdicts", "updateRubric", "resetState"},
      {"agents", "setProfile", "markShown", "resetState"},
      {"agents", "requestCrawl", "manageCrawlTarget", "crawler"},
      {"agents", "requestCrawl", "updateCrawlTarget", "deleteCrawlTarget", "resetState"},
      {"agents", "createList", "deleteList", "addToList", "removeFromList", "resetState"},
      {"agents", "getState", "getCandidates", "searchListings", "getListing", "getListingsPhotos",
       "getListingPhoto", "getContactSheet", "imageByListing", "image", "getVerdicts", "getConsoleURL"},
      {"agents", "requestCrawl", "listCrawlTargets", "getCrawlStatus", "getCorpusStats",
       "resolveAreas", "getLists", "getList"},
      Pages \cup {"lists", "list", "createList", "deleteList", "addToList", "removeFromList", "listing"},
      Pages \cup {"crawls", "queueCrawl", "setCrawlEnabled", "makeCrawlRecurring", "deleteCrawl"},
      {"login", "rotate", "dashboard", "listings", "listing", "verdicts", "createList", "resetData"},
      Pages \cup {"settings", "resetData", "createList"},
      {"login", "doLogin", "logout", "rotate", "dashboard"} }
=============================================================================
