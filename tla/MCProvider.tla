----------------------------- MODULE MCProvider -----------------------------
(* Four listings at three prices, two rows to a query; two proxies.          *)
EXTENDS Provider

MCIds  == {"l1", "l2", "l3", "l4"}
MCRank == [l1 |-> 1, l2 |-> 2, l3 |-> 3, l4 |-> 4]
MCPrices == 1 .. 3
MCProxyLists == {<<"p1", "p2">>, <<"p2">>}

Market(l1, l2, l3, l4) == [l \in Ids |-> CASE l = "l1" -> l1 [] l = "l2" -> l2 [] l = "l3" -> l3 [] l = "l4" -> l4]

\* Every market and scope; two on which a search takes two pages, and a listing of
\* which is missing a price, or a field; and two that are split.
MCStarts == [any   |-> [market : Markets, max : {Open, {2}}],
             small |-> [market : {Market(1, 0, 0, 1), Market(0, 0, 1, 1)}, max : {Open}],
             few   |-> [market : {Market(0, 0, 1, 2), Market(1, 0, 1, 2)}, max : {Open}]]

MCSettings ==
    {[mode |-> "off", starts |-> "any", detail |-> FALSE, events |-> {"move"}],
     [mode |-> "off", starts |-> "few", detail |-> FALSE, events |-> {"paging", "move"}],
     [mode |-> "off", starts |-> "few", detail |-> FALSE, events |-> {"counting", "deadline"}],
     [mode |-> "split", starts |-> "small", detail |-> TRUE, events |-> {"ban", "watch", "slow"}],
     [mode |-> "all", starts |-> "small", detail |-> TRUE, events |-> {"ban", "watch", "cancel", "slow", "fault"}]}
=============================================================================
