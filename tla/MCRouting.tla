----------------------------- MODULE MCRouting -----------------------------
(* Small graphs for RouteSearch: every graph of three currencies and one LP,
   every graph of four currencies with a few edges, every pair of edges of
   three currencies with two LPs, self loops and invalid rates. *)
EXTENDS RouteSearch, FiniteSetsExt

CONSTANT FewEdges

SmallRates == {-1, 0, 1}

Hop(source, target, lp, rate) ==
    [source |-> source, target |-> target, lp |-> lp, rate |-> rate]

Pairs(currencies) == {p \in currencies \X currencies : p[1] # p[2]}

\* One LP: a graph gives some pairs of currencies a rate.
OneLP(pairs) ==
    UNION {{{Hop(p[1], p[2], 1, rate[p]) : p \in chosen} :
                rate \in [chosen -> SmallRates]} :
           chosen \in pairs}

ThreeCurrencies == OneLP(SUBSET Pairs({1, 2, USD}))

\* No edge starts where no chain from USD can get in three hops.
Spread(pairs) ==
    LET from(reached) == reached \cup {p[2] : p \in {q \in pairs : q[1] \in reached}}
    IN  \A p \in pairs : p[1] \in from(from(from({USD})))

FourCurrencies ==
    OneLP({pairs \in UNION {kSubset(k, Pairs({1, 2, 3, USD})) : k \in 0..FewEdges} :
               Spread(pairs)})

TwoLPs ==
    LET pool == {Hop(p[1], p[2], lp, rate) :
                    p \in {1, USD} \X {1, 2, USD}, lp \in {1, 2},
                    rate \in {0, 1, InvalidRate}}
    IN  {{e, f} : e \in pool, f \in pool}

SmallGraphs == ThreeCurrencies \cup FourCurrencies \cup TwoLPs
=============================================================================
