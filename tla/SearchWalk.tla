----------------------------- MODULE SearchWalk -----------------------------
(***************************************************************************)
(* streeteasy.Client.Search: the walk over the price bands of a scope,     *)
(* page by page, against a market that moves meanwhile.  The provider      *)
(* answers at most ResultCap rows of a query, whatever page is asked for.  *)
(***************************************************************************)
EXTENDS Integers, Sequences, FiniteSets, FiniteSetsExt

CONSTANTS
    Ids,                 \* the listings
    Rank,                \* per listing: where it stands in the provider's recommendations
    Prices,
    Unpriced,            \* listings whose price cannot be read off the answer
    Mistyped,            \* listings of which another field has the wrong type in the answer
    Anonymous,           \* listings without an id in the answer
    PerPage, ResultCap, MaxPages,
    MaxMoves             \* bound: moves of the market

ASSUME WalkAssumption ==
    /\ IsFiniteSet(Ids) /\ Rank \in [Ids -> Nat] /\ \A k, l \in Ids : Rank[k] = Rank[l] => k = l
    /\ Prices \subseteq Nat \ {0} /\ Unpriced \cup Mistyped \cup Anonymous \subseteq Ids
    /\ {PerPage, ResultCap, MaxPages} \subseteq Nat \ {0} /\ MaxMoves \in Nat

\* A price each, 0 for a listing that is not on the market.
Markets == [Ids -> Prices \cup {0}]

VARIABLES
    market,              \* one of Markets
    moves,               \* moves of the market since the search began
    walk,                \* the state of Search
    stayed               \* history: what has been in the scope since the search began

walkVars == <<market, moves, walk, stayed>>

\* A band's end is a set of one price, or open: the empty set.
Open == {}
WithinBand(p, band) == (\A lo \in band.lo : lo <= p) /\ (\A hi \in band.hi : p <= hi)

NoWalk == [status |-> "idle", scope |-> [lo |-> Open, hi |-> Open], bands |-> <<>>, page |-> 1,
           seen |-> {}, detailed |-> {}]

Listed(band) == {l \in Ids : market[l] # 0 /\ WithinBand(market[l], band)}

\* What a search may begin on: a market, and the highest price asked for.
WalkInit(starts) ==
    /\ \E s \in starts : market = s.market /\ walk = [NoWalk EXCEPT !.scope = [lo |-> Open, hi |-> s.max]]
    /\ moves = 0 /\ stayed = {}

\* How far down the answer to a band a listing stands.
Place(band, l) == Cardinality({k \in Listed(band) : Rank[k] <= Rank[l]})

\* The answer to a page of a band of a provider that counts and pages as it should.
Answer(band, page) ==
    LET total == Cardinality(Listed(band))
    IN  [total |-> total,
         edges |-> {l \in Listed(band) : LET place == Place(band, l) IN
                       (page - 1) * PerPage < place /\ place <= page * PerPage /\ place <= ResultCap},
         hasNext |-> page * PerPage < total]

Readable(edges) == edges \ Unpriced

\* The least of their prices that more than half of them do not exceed.
Median(sample) ==
    Min({p \in {market[l] : l \in sample} :
            2 * Cardinality({l \in sample : market[l] <= p}) > Cardinality(sample)})

\* Mutant: the median itself goes to the upper half.
PivotBelow(band, edges) == Min({Median(Readable(edges)) - 1} \cup {hi - 1 : hi \in band.hi})

\* The median of the prices that can be read off the page, and below its end.
Pivot(band, edges) == Min({Median(Readable(edges))} \cup {hi - 1 : hi \in band.hi})

\* Mutant: a band that cannot shrink is split all the same.
CanSplitAlways(band, edges) == Readable(edges) # {}

CanSplit(band, edges) ==
    Readable(edges) # {} /\ \A lo \in band.lo : lo <= Pivot(band, edges)

\* Mutant: the pivot is left out of both halves.
SplitWithoutPivot(band, edges) ==
    LET p == Pivot(band, edges) IN <<[lo |-> band.lo, hi |-> {p - 1}], [lo |-> {p + 1}, hi |-> band.hi]>>

Split(band, edges) ==
    LET p == Pivot(band, edges) IN <<[lo |-> band.lo, hi |-> {p}], [lo |-> {p + 1}, hi |-> band.hi]>>

StartSearch ==
    /\ walk.status = "idle"
    /\ walk' = [walk EXCEPT !.status = "walking", !.bands = <<walk.scope>>]
    /\ stayed' = Listed(walk.scope)
    /\ UNCHANGED <<market, moves>>

\* No areas, an area that is no number, or a listing type that is neither sale nor rent.
RejectSearch ==
    /\ walk.status = "idle"
    /\ walk' = [walk EXCEPT !.status = "rejected"]
    /\ UNCHANGED <<market, moves, stayed>>

Abort == [walk EXCEPT !.status = "aborted"]
Emit(edges) == [walk EXCEPT !.seen = @ \cup (edges \ Anonymous)]

\* A page has arrived.  Later bands are walked only once this one is through.
TakePage(out) ==
    LET band == Head(walk.bands)
        more == Emit(out.edges)
        rest == Tail(walk.bands)
    IN  walk' = IF walk.page = 1 /\ out.total > ResultCap
                THEN IF CanSplit(band, out.edges)
                     THEN [walk EXCEPT !.bands = Split(band, out.edges) \o rest]
                     ELSE Abort
                ELSE IF out.hasNext
                THEN IF out.edges = {} \/ walk.page = MaxPages
                     THEN [more EXCEPT !.status = "aborted"] ELSE [more EXCEPT !.page = @ + 1]
                ELSE [more EXCEPT !.bands = rest, !.page = 1,
                                  !.status = IF rest = <<>> THEN "complete" ELSE "walking"]

\* The listings that could be decoded, with a price or without: the crawl fetches
\* their details next.
Decoded(w) == w.seen \ Mistyped

\* External: a listing comes, goes or changes its price.
MarketMoves ==
    /\ walk.status = "walking" /\ moves < MaxMoves
    /\ moves' = moves + 1 /\ UNCHANGED walk
    /\ \E l \in Ids, p \in Prices \cup {0} : p # market[l] /\ market' = [market EXCEPT ![l] = p]
    /\ stayed' = stayed \cap Listed(walk.scope)'

=============================================================================
