---------------------------- MODULE RouteSearch ----------------------------
(***************************************************************************)
(* compute_routes step by step: the edges are collapsed to one per pair of *)
(* currencies, relaxed round by round until nothing changes or a path has  *)
(* no more hops to win, and checked for a profitable cycle.                *)
(*                                                                         *)
(* The properties compare it with a definition that knows nothing of       *)
(* rounds: the best of all the simple paths of the graph.                  *)
(***************************************************************************)
EXTENDS Routing

CONSTANT Graphs   \* the sets of edges compute_routes is called with

ASSUME RouteSearchAssumption ==
    \A g \in Graphs : g \subseteq Edge /\ IsFiniteSet(g)

VARIABLES
    edges,    \* the argument
    pc,       \* where the call is, or how it ended
    round,    \* the rounds done
    best      \* the best chain so far, by currency

routeVars == <<edges, pc, round, best>>

Collapsed == CollapsedEdges(edges)

-----------------------------------------------------------------------------
Init ==
    /\ edges \in Graphs
    /\ pc = "collapse"
    /\ round = 0
    /\ best = StartingBest

\* A rate that is no rate rejects the graph, wherever it is.
Collapse ==
    /\ pc = "collapse"
    /\ pc' = IF ValidRates(edges) THEN "relax" ELSE "rejected"
    /\ UNCHANGED <<edges, round, best>>

RelaxRound ==
    /\ pc = "relax"
    /\ round < Rounds
    /\ ~Settled(best, Collapsed)
    /\ best' = Relax(best, Collapsed)
    /\ round' = round + 1
    /\ UNCHANGED <<edges, pc>>

\* The loop is over; one more round decides between a result and an error.
Check ==
    /\ pc = "relax"
    /\ round = Rounds \/ Settled(best, Collapsed)
    /\ pc' = IF Profitable(best, Relax(best, Collapsed))
             THEN "rejected" ELSE "published"
    /\ UNCHANGED <<edges, round, best>>

Next == Collapse \/ RelaxRound \/ Check

Spec == Init /\ [][Next]_routeVars

-----------------------------------------------------------------------------
\* The reference.  A path is a sequence of edges that starts at USD and never
\* returns to a currency it has been at.
End(path) == IF path = <<>> THEN USD ELSE path[Len(path)].target

Visited(path) == {USD} \cup {path[i].target : i \in DOMAIN path}

\* The products of the beginnings of a path, by their length.
Products(path) ==
    LET product[i \in 0..Len(path)] ==
            IF i = 0 THEN 0 ELSE product[i - 1] + path[i].rate
    IN  product

Product(path) == Products(path)[Len(path)]

SimplePaths ==
    LET paths[k \in 0..Rounds] ==
            IF k = 0 THEN {<<>>}
            ELSE paths[k - 1] \cup
                 {Append(pe[1], pe[2]) :
                    pe \in {qf \in paths[k - 1] \X edges :
                                /\ qf[2].source = End(qf[1])
                                /\ qf[2].target \notin Visited(qf[1])}}
    IN  paths[Rounds]

\* A chain of offers p is as good as the path q: more of the currency, or as
\* much of it and the first of the two in the order of the tie-break.
AsGoodAs(p, q) ==
    \/ p.rate > Product(q)
    \/ p.rate = Product(q) /\ ~KeyBefore(q, p.hops)

\* The part of a path, closed by an edge back to a currency c of it, that
\* leads from c to c.
CycleProduct(path, edge) ==
    IF edge.target = USD
    THEN Product(path) + edge.rate
    ELSE LET entry == CHOOSE i \in DOMAIN path : path[i].target = edge.target
         IN  Product(SubSeq(path, entry + 1, Len(path))) + edge.rate

Arbitrage ==
    \E path \in SimplePaths, edge \in edges :
        /\ edge.source = End(path)
        /\ edge.target \in Visited(path)
        /\ CycleProduct(path, edge) > 0

-----------------------------------------------------------------------------
(* The state has its types: best maps currencies to candidates and always
   holds the source (routing.py 114). *)
TypeOK ==
    /\ edges \subseteq Edge
    /\ pc \in {"collapse", "relax", "rejected", "published"}
    /\ round \in 0..Rounds
    /\ DOMAIN best \subseteq Currency
    /\ USD \in DOMAIN best
    /\ \A c \in DOMAIN best : best[c] \in Candidate

(* The routes of a graph that is accepted are exactly the best simple paths:
   every currency a path leads to has one, its rate is the product of its hops,
   and no path gives more or comes first in a tie, whichever LPs it takes
   (routing.py 72-135). *)
RoutesAreOptimal ==
    pc = "published" =>
        /\ DOMAIN Routes(best) = {End(p) : p \in SimplePaths \ {<<>>}}
        /\ \A c \in DOMAIN Routes(best) :
               /\ best[c].hops \in SimplePaths
               /\ End(best[c].hops) = c
               /\ best[c].rate = Product(best[c].hops)
        /\ \A p \in SimplePaths \ {<<>>} : AsGoodAs(best[End(p)], p)

(* The round limit and the extra round agree: a graph is rejected exactly when
   a rate is no rate or some cycle that can be reached from USD multiplies
   money; a cycle that cannot be reached, or that breaks even, does no harm
   (routing.py 83, 116-127). *)
RejectsExactlyArbitrage ==
    /\ pc = "published" => ValidRates(edges) /\ ~Arbitrage
    /\ pc = "rejected" => ~ValidRates(edges) \/ Arbitrage

(* A candidate is never better than what its hops earn: it is a walk of edges
   from USD to its currency, of at most as many hops as there were rounds, and
   its rate is the product of them (routing.py 92-104). *)
RatesAreEarned ==
    \A c \in DOMAIN best :
        LET hops == best[c].hops
        IN  /\ Len(hops) <= round
            /\ End(hops) = c
            /\ best[c].rate = Product(hops)
            /\ \A i \in DOMAIN hops :
                   /\ hops[i] \in edges
                   /\ hops[i].source = IF i = 1 THEN USD ELSE hops[i - 1].target

(* A round tries every next hop: after k rounds the candidates are as good as
   every path of at most k edges (routing.py 92-104, 116-120). *)
RoundsCoverPaths ==
    pc = "relax" =>
        \A p \in SimplePaths :
            Len(p) <= round =>
                End(p) \in DOMAIN best /\ AsGoodAs(best[End(p)], p)

(* Leaving the loop early changes nothing: what the call publishes or rejects is
   what all the rounds would give (routing.py 116-120). *)
EarlyExitIsHarmless ==
    /\ pc = "published" => Acceptable(edges) /\ Routes(best) = ComputeRoutes(edges)
    /\ pc = "rejected" => ~Acceptable(edges)
=============================================================================
