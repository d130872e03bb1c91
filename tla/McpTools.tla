------------------------------ MODULE McpTools ------------------------------
(***************************************************************************)
(* The MCP server's tools (internal/mcp): the calls of listings.Service    *)
(* each makes, the effect each is annotated with, and how guard answers.   *)
(* in.form is how the enum values are spelled: "ok" exactly as the schema   *)
(* lists them, "folded" in another case or with spaces, "blank" or "bad".   *)
(***************************************************************************)
EXTENDS Service

ResetTool(in) == Plan(IF in.confirm THEN <<Must("ResetState", in)>> ELSE <<>>)
GetState(in) == Plan(<<Must("State", in)>>)
SearchListings(in) == Parsed(in, Plan(<<Must("Search", in)>>))
GetCandidates(in) == Plan(<<Must("Candidates", in)>>)
GetListing(in) == Parsed(in, Plan(<<Must("Listing", in)>>))
GetListingsPhotos(in) == Plan(<<Must("PhotosForListings", in)>>)
ShowTool(in) == Parsed(in, Plan(<<Must("MarkShown", in)>>))

\* Whether to remind the agent to look at the photos: a failure does not show.
AnyHavePhotos(ids) == Try("PhotosForListings", [ids |-> ids])

VerdictTool(in) == Parsed(in, Plan(<<Must("RecordVerdict", in), AnyHavePhotos({in.id})>>))

VerdictsTool(in) ==
    Parsed(in, Plan(<<Must("CheckBatch", in)>>
                    \o [i \in DOMAIN in.batch |-> Must("BatchItem", in.batch[i])]
                    \o <<AnyHavePhotos({in.batch[i].id : i \in DOMAIN in.batch} \cap Listings)>>))

\* The profile is saved before the names in it are looked at.
ProfileTool(in) ==
    Parsed(in, Plan(<<Must("SetProfile", in), Must("UnmatchedNeighborhoods", in)>>))

RubricTool(in) == Plan(<<Must("UpdateRubric", in)>>)

\* An area name that resolves to nothing is refused before the service is asked.
CrawlTool(in) == Parsed(in, Plan(<<Must("RequestCrawl", in)>>))

ManageCrawlTarget(in) ==
    CASE in.action = "pause"  -> Plan(<<Must("SetCrawlTargetEnabled", [id |-> in.id, enabled |-> FALSE])>>)
      [] in.action = "resume" -> Plan(<<Must("SetCrawlTargetEnabled", [id |-> in.id, enabled |-> TRUE])>>)
      [] in.action = "make_recurring" -> Plan(<<Must("MakeCrawlTargetRecurring", in)>>)
      [] in.action = "delete" -> Plan(<<Must("DeleteCrawlTarget", in)>>)
      [] OTHER -> Reject

ListCrawlTargets(in) == Plan(<<Must("CrawlTargets", in)>>)
GetCrawlStatus(in) == Plan(<<Must("CrawlStatus", in)>>)
GetCorpusStats(in) == Plan(<<Must("CorpusStats", in)>>)
AreasTool(in) == Plan(<<Must("ResolveAreas", in)>>)
GetLists(in) == Plan(<<Must("Lists", in)>>)
ListTool(in) == Plan(<<Sparing("CreateList", in, {"duplicateList"})>>)

\* The list is read again for its count; a failure leaves the old one.
AddTool(in) == Plan(<<Must("AddToListBySlug", in), Try("ListBySlug", in)>>)
RemoveTool(in) == Plan(<<Must("RemoveFromList", in)>>)
GetList(in) == Plan(<<Must("ListMembers", in)>>)
GetConsoleURL(in) == Plan(<<>>)

ReadOnly == {"getState", "searchListings", "getCandidates", "getListing", "getListingsPhotos",
             "listCrawlTargets", "getCrawlStatus", "getCorpusStats", "resolveAreas", "getLists",
             "getList", "getConsoleURL"}
Additive == {"markShown", "recordVerdict", "recordVerdicts", "setProfile", "updateRubric",
             "requestCrawl", "createList", "addToList"}
Destructive == {"manageCrawlTarget", "resetState", "removeFromList"}
Tools == ReadOnly \cup Additive \cup Destructive
Idempotent == ReadOnly \cup Destructive
                       \cup (Additive \ {"recordVerdict", "recordVerdicts", "updateRubric"})

ToolPlan(op, in) ==
    CASE op = "resetState" -> ResetTool(in)
      [] op = "getState" -> GetState(in)
      [] op = "searchListings" -> SearchListings(in)
      [] op = "getCandidates" -> GetCandidates(in)
      [] op = "getListing" -> GetListing(in)
      [] op = "getListingsPhotos" -> GetListingsPhotos(in)
      [] op = "markShown" -> ShowTool(in)
      [] op = "recordVerdict" -> VerdictTool(in)
      [] op = "recordVerdicts" -> VerdictsTool(in)
      [] op = "setProfile" -> ProfileTool(in)
      [] op = "updateRubric" -> RubricTool(in)
      [] op = "requestCrawl" -> CrawlTool(in)
      [] op = "manageCrawlTarget" -> ManageCrawlTarget(in)
      [] op = "listCrawlTargets" -> ListCrawlTargets(in)
      [] op = "getCrawlStatus" -> GetCrawlStatus(in)
      [] op = "getCorpusStats" -> GetCorpusStats(in)
      [] op = "resolveAreas" -> AreasTool(in)
      [] op = "getLists" -> GetLists(in)
      [] op = "createList" -> ListTool(in)
      [] op = "addToList" -> AddTool(in)
      [] op = "removeFromList" -> RemoveTool(in)
      [] op = "getList" -> GetList(in)
      [] op = "getConsoleURL" -> GetConsoleURL(in)

\* Only Postgres and network faults are infrastructure, and whatever else carries
\* an SQLSTATE.
IsInfrastructureError(err) == err \in {Outage, Unstorable}

\* A sentinel reaches the agent as it is, infrastructure is masked, and a batch
\* that failed half way says which verdicts landed.
Guard(op, err, landed) ==
    CASE err = "ok" -> "ok"
      [] err = "unauthorized" -> "unauthorized"
      [] IsInfrastructureError(err) -> IF op = "recordVerdicts" /\ landed > 0 THEN "partial" ELSE "masked"
      [] OTHER -> "refused"
=============================================================================
