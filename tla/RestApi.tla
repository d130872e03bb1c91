------------------------------ MODULE RestApi ------------------------------
(***************************************************************************)
(* The REST handlers (internal/restapi): the calls of listings.Service     *)
(* each makes and the status it answers.  What huma's schema or the        *)
(* handler's own parsing refuses (422) is in.form (see McpTools) or        *)
(* checked here.                                                           *)
(***************************************************************************)
EXTENDS Service

Reset(in) == Plan(IF in.confirm THEN <<Must("ResetState", in)>> ELSE <<>>)
GetState(in) == Plan(<<Must("State", in)>>)

\* An omitted number arrives as zero, so zero is no filter; the schema bounds the rest.
SearchListings(in) ==
    Parsed(in, IF in.price = "huge" THEN Reject
               ELSE Plan(<<Must("Search", [price |-> IF in.price = "zero" THEN "none" ELSE in.price,
                                           text  |-> in.text])>>))

GetCandidates(in) == Plan(<<Must("Candidates", in)>>)

GetListing(in) ==
    Plan(<<Must("Listing", in), Must("ListsForProperty", in), Must("VerdictsFor", in)>>)

GetListingPhoto(in) == Plan(<<Must("PhotoKeyAt", in), Must("PhotoObject", in)>>)
GetContactSheet(in) == Plan(<<Must("ContactSheet", in)>>)
GetListingsPhotos(in) == Plan(<<Must("PhotosForListings", in)>>)
PostShown(in) == Parsed(in, Plan(<<Must("MarkShown", in)>>))
PostVerdict(in) == Parsed(in, Plan(<<Must("RecordVerdict", in)>>))

PostVerdicts(in) ==
    Parsed(in, Plan(<<Must("CheckBatch", in)>>
                    \o [i \in DOMAIN in.batch |-> Must("BatchItem", in.batch[i])]))

\* A field that may be null has a schema of its own, without the enum: only the
\* parser looks at it, and a blank listing type stands for the default.
PatchProfile(in) ==
    IF in.form \in {"ok", "folded", "blank"}
    THEN Plan(<<Must("SetProfile", in), Must("UnmatchedNeighborhoods", in)>>) ELSE Reject

PostRubric(in) ==
    IF in.content # "empty" /\ in.through # "negative" THEN Plan(<<Must("UpdateRubric", in)>>) ELSE Reject

\* Mutant: the one_off flag is read as recurring.
PostCrawlFlipped(in) ==
    Parsed(in, IF in.scope \in Scopes /\ MoneyOK(in.price)
               THEN Plan(<<Must("RequestCrawl", [in EXCEPT !.oneOff = ~@])>>) ELSE Reject)

\* Client mistakes are refused here already; the service checks again.
PostCrawl(in) ==
    Parsed(in, IF in.scope \in Scopes /\ MoneyOK(in.price)
               THEN Plan(<<Must("RequestCrawl", in)>>) ELSE Reject)

GetCrawlRequest(in) == Plan(<<Must("CrawlStatus", in)>>)

UpdateCrawlTarget(in) ==
    IF in.recurring THEN Plan(<<Must("MakeCrawlTargetRecurring", in)>>)
    ELSE IF in.enabled = "absent" THEN Reject
    ELSE Plan(<<Must("SetCrawlTargetEnabled", [id |-> in.id, enabled |-> in.enabled = "true"])>>)

RemoveCrawlTarget(in) == Plan(<<Must("DeleteCrawlTarget", in)>>)
GetCorpusStats(in) == Plan(<<Must("CorpusStats", in)>>)
GetCrawlTargets(in) == Plan(<<Must("CrawlTargets", in)>>)
GetAreas(in) == Plan(<<Must("ResolveAreas", in)>>)
GetVerdicts(in) == Plan(<<Must("RatedListings", in)>>)
ListLists(in) == Plan(<<Must("Lists", in)>>)
PostList(in) == Plan(<<Sparing("CreateList", in, {"duplicateList"})>>)
GetList(in) == Plan(<<Must("ListMembers", in)>>)
RemoveList(in) == Plan(<<Must("DeleteList", in)>>)
PostItem(in) == Plan(<<Must("AddToList", in)>>)
RemoveItem(in) == Plan(<<Must("RemoveFromList", in)>>)

\* GET /img/l/{id}/{n}: a client that holds the tile already is told so before
\* the bytes are read.
ImageByListing(in) ==
    IF in.form # "ok" THEN RejectAs("notFound")
    ELSE Plan(IF in.cached THEN <<Must("PhotoKeyAt", in)>>
              ELSE <<Must("PhotoKeyAt", in), Must("PhotoObject", in)>>)

\* GET /img/{key}
Image(in) == IF in.form # "ok" THEN RejectAs("forbidden") ELSE Plan(<<Must("PhotoObject", in)>>)

Safe == {"getState", "searchListings", "getCandidates", "getListing", "getListingPhoto",
         "getContactSheet", "listCrawlTargets", "getCrawlStatus", "getCorpusStats", "resolveAreas",
         "getVerdicts", "getLists", "getList", "imageByListing", "image"}

Unsafe == {"getListingsPhotos", "markShown", "recordVerdict", "recordVerdicts", "setProfile",
           "updateRubric", "resetState", "requestCrawl", "updateCrawlTarget", "deleteCrawlTarget",
           "createList", "deleteList", "addToList", "removeFromList"}

RoutePlan(op, in) ==
    CASE op = "resetState" -> Reset(in)
      [] op = "getState" -> GetState(in)
      [] op = "searchListings" -> SearchListings(in)
      [] op = "getCandidates" -> GetCandidates(in)
      [] op = "getListing" -> GetListing(in)
      [] op = "getListingPhoto" -> GetListingPhoto(in)
      [] op = "getContactSheet" -> GetContactSheet(in)
      [] op = "getListingsPhotos" -> GetListingsPhotos(in)
      [] op = "markShown" -> PostShown(in)
      [] op = "recordVerdict" -> PostVerdict(in)
      [] op = "recordVerdicts" -> PostVerdicts(in)
      [] op = "setProfile" -> PatchProfile(in)
      [] op = "updateRubric" -> PostRubric(in)
      [] op = "requestCrawl" -> PostCrawl(in)
      [] op = "getCrawlStatus" -> GetCrawlRequest(in)
      [] op = "updateCrawlTarget" -> UpdateCrawlTarget(in)
      [] op = "deleteCrawlTarget" -> RemoveCrawlTarget(in)
      [] op = "getCorpusStats" -> GetCorpusStats(in)
      [] op = "listCrawlTargets" -> GetCrawlTargets(in)
      [] op = "resolveAreas" -> GetAreas(in)
      [] op = "getVerdicts" -> GetVerdicts(in)
      [] op = "getLists" -> ListLists(in)
      [] op = "createList" -> PostList(in)
      [] op = "getList" -> GetList(in)
      [] op = "deleteList" -> RemoveList(in)
      [] op = "addToList" -> PostItem(in)
      [] op = "removeFromList" -> RemoveItem(in)
      [] op = "imageByListing" -> ImageByListing(in)
      [] op = "image" -> Image(in)

\* Mutant: a sentinel the switch forgets.
MapServiceErrorShort(err) ==
    CASE err = "ok" -> 200
      [] err = "unauthorized" -> 401
      [] err = "forbidden" -> 403
      [] err \in {"invalid", "futureThrough"} -> 422
      [] err \in {"notFound", "targetNotFound", "listNotFound"} -> 404
      [] err = "queueFull" -> 429
      [] OTHER -> 500

MapServiceError(err) ==
    CASE err = "ok" -> 200
      [] err = "unauthorized" -> 401
      [] err = "forbidden" -> 403
      [] err \in {"invalid", "futureThrough", "defaultList"} -> 422
      [] err \in {"notFound", "targetNotFound", "listNotFound"} -> 404
      [] err = "queueFull" -> 429
      [] OTHER -> 500

=============================================================================
