-------------------------- MODULE ListingLifecycle --------------------------
(***************************************************************************)
(* The life of a listing in the corpus: crawl runs (internal/ingest) that  *)
(* search a scope, decide which detail pages to fetch, apply what they saw *)
(* and age what they did not, against the listings and listing_sources     *)
(* rows (internal/store).  Every statement is a step, so runs of one scope *)
(* or of several overlap in every order the database allows.               *)
(*                                                                         *)
(* A scope is the set of market segments it can show: areas, listing type, *)
(* price cap and minimum of bedrooms only matter by which scope covers     *)
(* which.  Listings are the ones followed; scopes show others besides.     *)
(***************************************************************************)
EXTENDS Naturals, FiniteSets

CONSTANTS
    Listings,
    Crawlers,             \* at most one run each at a time
    StandingScopes,       \* sets of segments
    OnceScopes,
    RecurringScopes,      \* standing scopes that keep being crawled
    PageStatuses,         \* what a detail page may say of a listing
    MissingRunsToDelist

Statuses == {"active", "in_contract", "sold", "delisted"}

ASSUME LifecycleAssumption ==
    /\ \A s \in StandingScopes \cup OnceScopes : s # {}
    /\ RecurringScopes \subseteq StandingScopes
    /\ PageStatuses \subseteq Statuses
    /\ MissingRunsToDelist \in Nat \ {0}

VARIABLES
    status,    \* listings.status, "none" before the listing has a row
    missing,   \* listing_sources.missing_runs
    owner,     \* the run kind behind listing_sources.last_run_id
    enriched,  \* listings whose enriched_at is set
    market,    \* what the provider's detail page says, "off" when it is gone
    crawler,   \* each crawler's run
    trackers,  \* history: the standing runs that ever applied the listing, or
               \* the one-offs when none did
    standing   \* history: the standing run that applied the listing last

rows == <<status, missing, owner, enriched, trackers, standing>>
vars == <<rows, market, crawler>>

-----------------------------------------------------------------------------
RunKinds == [scope : StandingScopes, oneOff : {FALSE}]
            \cup [scope : OnceScopes, oneOff : {TRUE}]

NoRun == [scope |-> {}, oneOff |-> TRUE]

\* `hand` holds at most one listing, with what the run is about to apply to it:
\* the status, and whether its page was "read" or it has "none" to read.
IdleCrawler == [pc |-> "idle", kind |-> NoRun, clean |-> FALSE, seen |-> {},
                pending |-> {}, due |-> {}, current |-> {},
                hand |-> {}, say |-> "", page |-> ""]

CrawlerState == [pc : {"idle", "search", "rank", "crawl", "apply", "mark"},
                 kind : RunKinds \cup {NoRun}, clean : BOOLEAN, seen : SUBSET Listings,
                 pending : SUBSET Listings, due : SUBSET Listings,
                 current : SUBSET Listings, hand : SUBSET Listings,
                 say : PageStatuses \cup {"", "active"}, page : {"", "read", "none"}]

TypeOK ==
    /\ status \in [Listings -> Statuses \cup {"none"}]
    /\ missing \in [Listings -> 0 .. MissingRunsToDelist]
    /\ owner \in [Listings -> RunKinds \cup {NoRun}]
    /\ enriched \subseteq Listings
    /\ market \in [Listings -> PageStatuses \cup {"off"}]
    /\ crawler \in [Crawlers -> CrawlerState]
    /\ trackers \in [Listings -> SUBSET RunKinds]
    /\ standing \in [Listings -> RunKinds \cup {NoRun}]

Init ==
    /\ status = [l \in Listings |-> "none"]
    /\ missing = [l \in Listings |-> 0]
    /\ owner = [l \in Listings |-> NoRun]
    /\ enriched = {}
    /\ market = [l \in Listings |-> "off"]
    /\ crawler = [c \in Crawlers |-> IdleCrawler]
    /\ trackers = [l \in Listings |-> {}]
    /\ standing = [l \in Listings |-> NoRun]

-----------------------------------------------------------------------------
(* A run, up to its applies.                                               *)

StartRun(c, k) ==
    /\ crawler[c].pc = "idle"
    /\ crawler' = [crawler EXCEPT ![c].pc = "search", ![c].kind = k]
    /\ UNCHANGED <<rows, market>>

\* The whole scope is enumerated.  The provider may leave out any listing; a
\* row it shows may be unusable, which counts as seen and is not applied; an
\* aborted search or an empty page makes the run unfit to judge absence.
Search(c) ==
    /\ crawler[c].pc = "search"
    /\ \E seen \in SUBSET {l \in Listings : market[l] # "off"}, clean \in BOOLEAN :
          \E usable \in SUBSET seen :
             crawler' = [crawler EXCEPT ![c].pc = "rank", ![c].clean = clean,
                                        ![c].seen = seen, ![c].pending = usable]
    /\ UNCHANGED <<rows, market>>

\* A search row says "active": a listing the corpus has so and has the page of
\* may need no fetch, any other does.
EnrichmentCurrent(l) == status[l] = "active" /\ l \in enriched

\* enrichPriority: one read per row.  A changed price or a deep run makes a page due anyway.
EnrichPriority(c) ==
    /\ crawler[c].pc = "rank"
    /\ \E l \in crawler[c].pending :
        \/ /\ EnrichmentCurrent(l)
           /\ crawler' = [crawler EXCEPT ![c].pending = @ \ {l}, ![c].current = @ \cup {l}]
        \/ crawler' = [crawler EXCEPT ![c].pending = @ \ {l}, ![c].due = @ \cup {l}]
    /\ UNCHANGED <<rows, market>>

StartApplies(c) ==
    /\ crawler[c].pc = "rank"
    /\ crawler[c].pending = {}
    /\ crawler' = [crawler EXCEPT ![c].pc = "crawl"]
    /\ UNCHANGED <<rows, market>>

\* Mutant: a row whose page was not fetched keeps the search row's status.
SearchStatusKept == "active"

\* clearSearchStatus: a row whose page was due and not fetched says nothing.
ClearSearchStatus == ""

\* The page of a due listing is fetched and read.
EnrichDetail(c) ==
    /\ crawler[c].pc = "crawl"
    /\ \E l \in crawler[c].due :
        /\ market[l] # "off"
        /\ crawler' = [crawler EXCEPT ![c].pc = "apply", ![c].due = @ \ {l}, ![c].hand = {l},
                                      ![c].say = market[l], ![c].page = "read"]
    /\ UNCHANGED <<rows, market>>

\* Details are off, or the search row has no path to a page: EnrichDetail returns
\* the row as it came, without an error, and the run takes it as enriched.
EnrichNothing(c) ==
    /\ crawler[c].pc = "crawl"
    /\ \E l \in crawler[c].due :
        crawler' = [crawler EXCEPT ![c].pc = "apply", ![c].due = @ \ {l}, ![c].hand = {l},
                                   ![c].say = "active", ![c].page = "none"]
    /\ UNCHANGED <<rows, market>>

\* The fetch fails, or a failure streak or the budget spares it.
EnrichFails(c) ==
    /\ crawler[c].pc = "crawl"
    /\ \E l \in crawler[c].due :
        crawler' = [crawler EXCEPT ![c].pc = "apply", ![c].due = @ \ {l}, ![c].hand = {l},
                                   ![c].say = ClearSearchStatus, ![c].page = ""]
    /\ UNCHANGED <<rows, market>>

\* Rows that need no fetch come last, and say what the search row says.
TakeCurrent(c) ==
    /\ crawler[c].pc = "crawl"
    /\ crawler[c].due = {}
    /\ \E l \in crawler[c].current :
        crawler' = [crawler EXCEPT ![c].pc = "apply", ![c].current = @ \ {l}, ![c].hand = {l},
                                   ![c].say = "active", ![c].page = ""]
    /\ UNCHANGED <<rows, market>>

-----------------------------------------------------------------------------
(* ApplySourceProperty, one transaction.                                   *)

\* A blank status keeps the last one, except that being seen reactivates.
StatusAfter(prev, say) ==
    IF say # "" THEN say
    ELSE IF prev \in {"none", "delisted"} THEN "active" ELSE prev

\* Mutant: whoever saw a listing last owns its absence.
OwnerIsLast(prev, kind) == kind

\* A one-off never takes absence ownership from the run that holds it.
OwnerAfter(prev, kind) == IF prev # NoRun /\ kind.oneOff THEN prev ELSE kind

Standing(kinds) == {k \in kinds : ~k.oneOff}

TrackersAfter(prev, kind) ==
    IF kind.oneOff /\ Standing(prev) # {} THEN prev
    ELSE {k \in prev : k.oneOff = kind.oneOff} \cup {kind}

Applied(c) ==
    LET kind == crawler[c].kind IN
    \E l \in crawler[c].hand :
        /\ status' = [status EXCEPT ![l] = StatusAfter(@, crawler[c].say)]
        /\ missing' = [missing EXCEPT ![l] = 0]
        /\ owner' = [owner EXCEPT ![l] = OwnerAfter(@, kind)]
        /\ enriched' = IF crawler[c].page = "read" THEN enriched \cup {l} ELSE enriched
        /\ trackers' = [trackers EXCEPT ![l] = TrackersAfter(@, kind)]
        /\ standing' = [standing EXCEPT ![l] = IF kind.oneOff THEN @ ELSE kind]

\* A failed apply is an item error; the run goes on and is none the less clean.
ApplySourceProperty(c) ==
    /\ crawler[c].pc = "apply"
    /\ Applied(c) \/ UNCHANGED rows
    /\ crawler' = [crawler EXCEPT ![c].pc = "crawl", ![c].hand = {}, ![c].say = "",
                                  ![c].page = ""]
    /\ UNCHANGED market

-----------------------------------------------------------------------------
(* The end of a run.                                                       *)

EndRun(c) == crawler' = [crawler EXCEPT ![c] = IdleCrawler]

\* The run is recorded.  Only a clean run that the baseline finds no suspect
\* and that the database recorded may judge absence.
FinishRun(c) ==
    /\ crawler[c].pc = "crawl"
    /\ crawler[c].due = {} /\ crawler[c].current = {}
    /\ \/ crawler[c].clean /\ crawler' = [crawler EXCEPT ![c].pc = "mark"]
       \/ EndRun(c)
    /\ UNCHANGED <<rows, market>>

\* The deadline or a shutdown: the run applies no more and is incomplete.
Interrupt(c) ==
    /\ crawler[c].pc \in {"search", "rank", "crawl", "apply"}
    /\ crawler' = [crawler EXCEPT ![c] = [IdleCrawler EXCEPT
                      !.pc = "crawl", !.kind = crawler[c].kind, !.seen = crawler[c].seen]]
    /\ UNCHANGED <<rows, market>>

Crash(c) ==
    /\ crawler[c].pc # "idle"
    /\ EndRun(c)
    /\ UNCHANGED <<rows, market>>

\* Mutant: a standing run ages whatever its scope touches.
AgesTouched(cur, prev) ==
    \/ prev.scope = cur.scope
    \/ ~cur.oneOff /\ prev.scope \cap cur.scope # {}

\* A run judges what its own scope last saw, and a standing one what a scope
\* it covers last saw.
Ages(cur, prev) ==
    \/ prev.scope = cur.scope
    \/ ~cur.oneOff /\ prev.scope \subseteq cur.scope

Countable(l) == status[l] \in {"active", "in_contract"}

Advanced(c) ==
    {l \in Listings : /\ owner[l] # NoRun
                      /\ l \notin crawler[c].seen
                      /\ Countable(l)
                      /\ Ages(crawler[c].kind, owner[l])}

\* One statement counts the absences and delists; or it fails.
MarkMissingSources(c) ==
    /\ crawler[c].pc = "mark"
    /\ \/ /\ missing' = [l \in Listings |-> missing[l] + (IF l \in Advanced(c) THEN 1 ELSE 0)]
          /\ status' = [l \in Listings |->
                          IF l \in Advanced(c) /\ missing'[l] >= MissingRunsToDelist
                          THEN "delisted" ELSE status[l]]
          /\ UNCHANGED <<owner, enriched, trackers, standing>>
       \/ UNCHANGED rows
    /\ EndRun(c)
    /\ UNCHANGED market

\* The provider's page of a listing changes, comes or goes.
MarketMoves(l) ==
    /\ market' \in {[market EXCEPT ![l] = s] : s \in (PageStatuses \cup {"off"}) \ {market[l]}}
    /\ UNCHANGED <<rows, crawler>>

RunStep(c) ==
    \/ Search(c)
    \/ EnrichPriority(c)
    \/ StartApplies(c)
    \/ EnrichDetail(c)
    \/ EnrichNothing(c)
    \/ EnrichFails(c)
    \/ TakeCurrent(c)
    \/ ApplySourceProperty(c)
    \/ FinishRun(c)
    \/ MarkMissingSources(c)

Next ==
    \/ \E c \in Crawlers, k \in RunKinds : StartRun(c, k)
    \/ \E c \in Crawlers : RunStep(c) \/ Interrupt(c) \/ Crash(c)
    \/ \E l \in Listings : MarketMoves(l)

Spec == Init /\ [][Next]_vars

\* A standing run of scope s that was clean judges absence.
CleanRunOf(s) ==
    \E c \in Crawlers : /\ crawler[c].kind = [scope |-> s, oneOff |-> FALSE]
                        /\ MarkMissingSources(c)
                        /\ missing' = [l \in Listings |-> missing[l] + (IF l \in Advanced(c) THEN 1 ELSE 0)]

\* The recurring scopes keep having clean runs; nothing else is certain.
FairSpec ==
    /\ Spec
    /\ \A s \in RecurringScopes : []<><<CleanRunOf(s)>>_vars

-----------------------------------------------------------------------------
(* Properties.                                                             *)

\* Only a detail page reports these.
DetailStatus(l) == status[l] \in {"in_contract", "sold"}
Overturned(l) == DetailStatus(l) /\ status'[l] \notin {status[l], "delisted"}

\* What only a detail page reports is overturned only by a page, by absence, or by
\* a row that there was no page of to read: never by one whose page was due and was
\* not read, nor by one that was ranked as needing none (ingest/service.go:392-393
\* says it of every search row).
UnreadRowKeepsDetailStatus ==
    [][\A l \in Listings :
          Overturned(l) => \E c \in Crawlers : crawler[c].hand = {l} /\ crawler[c].page # ""]_vars

\* All that `k` covers is in the scope of `cur`; a one-off answers for its own scope only.
InScope(cur, k) == k.scope \subseteq cur.scope /\ (cur.oneOff => k.scope = cur.scope)

PageSaysDelisted(c, l) == l \in crawler[c].hand /\ crawler[c].say = "delisted"

JudgesAbsent(c, l) ==
    /\ crawler[c].pc = "mark" /\ crawler[c].clean /\ l \notin crawler[c].seen
    /\ \E k \in trackers[l] : InScope(crawler[c].kind, k)

\* A listing is delisted only because its page says so or by a complete run
\* that did not see it, of a scope that tracks it or covers one that does, whatever
\* runs of other scopes came between.
OnlyTrackersDelist ==
    [][\A l \in Listings :
          status[l] # "delisted" /\ status'[l] = "delisted"
             => \E c \in Crawlers : PageSaysDelisted(c, l) \/ JudgesAbsent(c, l)]_vars

\* The standing run that saw the listing last is of a scope that recurs, or that a
\* recurring one covers.
Recurs(l) ==
    standing[l] # NoRun /\ \E s \in RecurringScopes : standing[l].scope \subseteq s

\* No listing lingers whose last standing scope keeps being crawled or covered: one
\* that is gone from the market for good leaves the corpus's active listings for
\* good, whatever one-offs see it in between or after.  A listing that a standing scope
\* took which then stops, and which no recurring one covers, does linger.
GoneIsDelisted ==
    \A l \in Listings :
        <>[]Recurs(l) /\ <>[](market[l] = "off") => <>[]~Countable(l)
=============================================================================
