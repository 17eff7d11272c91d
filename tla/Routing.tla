------------------------------ MODULE Routing ------------------------------
(***************************************************************************)
(* The router of app/routing.py: which chain of providers turns USD into   *)
(* most of another currency.                                               *)
(*                                                                         *)
(* A currency is its place in the alphabetical order of the codes and an   *)
(* LP its place in the order of its names, because the tie-break compares  *)
(* texts.  A rate is its logarithm on an integer scale, so the product of  *)
(* a chain is a sum and the rate 1 is 0; the rounding of a product to the  *)
(* digits of the decimal context is left out.                              *)
(*                                                                         *)
(* A definition whose name starts with "Faulty" is a variant of the one    *)
(* after it with a bug; no specification uses it.                          *)
(***************************************************************************)
EXTENDS Integers, FiniteSets, Sequences

CONSTANTS
    Currency,     \* the currencies, numbered in alphabetical order
    USD,          \* the currency every route starts from
    LP,           \* the liquidity providers, numbered by name
    InvalidRate   \* a rate that is zero, negative or not finite

ASSUME RoutingAssumption ==
    /\ Currency \subseteq Nat
    /\ IsFiniteSet(Currency)
    /\ USD \in Currency
    /\ LP \subseteq Nat
    /\ InvalidRate \notin Int

-----------------------------------------------------------------------------
Edge == [source : Currency, target : Currency, lp : LP,
         rate : Int \cup {InvalidRate}]

RouteHop == [source : Currency, target : Currency, lp : LP, rate : Int]

Candidate == [rate : Int, hops : Seq(RouteHop)]

HopKey(hop) == <<hop.source, hop.target, hop.lp>>

\* The order of tuples of numbers, a proper prefix coming first.
TupleBefore(a, b) ==
    \/ \E i \in DOMAIN a \cap DOMAIN b :
           a[i] < b[i] /\ \A j \in 1..(i - 1) : a[j] = b[j]
    \/ Len(a) < Len(b) /\ \A i \in DOMAIN a : a[i] = b[i]

\* The order of chains of hops by their keys.
KeyBefore(p, q) ==
    \/ \E i \in DOMAIN p \cap DOMAIN q :
           /\ TupleBefore(HopKey(p[i]), HopKey(q[i]))
           /\ \A j \in 1..(i - 1) : HopKey(p[j]) = HopKey(q[j])
    \/ Len(p) < Len(q) /\ \A i \in DOMAIN p : HopKey(p[i]) = HopKey(q[i])

FaultyIsBetter(candidate, current) ==    \* the shorter chain wins a tie
    \/ candidate.rate > current.rate
    \/ /\ candidate.rate = current.rate
       /\ Len(candidate.hops) < Len(current.hops)

IsBetter(candidate, current) ==
    \/ candidate.rate > current.rate
    \/ /\ candidate.rate = current.rate
       /\ KeyBefore(candidate.hops, current.hops)

-----------------------------------------------------------------------------
ValidRates(edges) == \A e \in edges : e.rate \in Int

\* Of the edges between two currencies the one with the best rate, the first
\* LP when several have it.
CollapsedEdges(edges) ==
    {e \in edges : \A f \in edges :
        (f.source = e.source /\ f.target = e.target) =>
            f.rate < e.rate \/ (f.rate = e.rate /\ f.lp >= e.lp)}

\* The dictionary best maps the currencies reached so far to a candidate.
StartingBest == [c \in {USD} |-> [rate |-> 0, hops |-> <<>>]]

FaultyExtend(candidate, edge) ==          \* the hop goes to the wrong end
    [rate |-> candidate.rate + edge.rate, hops |-> <<edge>> \o candidate.hops]

Extend(candidate, edge) ==
    [rate |-> candidate.rate + edge.rate, hops |-> Append(candidate.hops, edge)]

FaultyReached(best, edges) ==            \* the dictionary is not copied
    {e.target : e \in {f \in edges : f.source \in DOMAIN best}}

Reached(best, edges) ==
    DOMAIN best \cup
    {e.target : e \in {f \in edges : f.source \in DOMAIN best}}

\* What one round offers for a currency.  It looks at the candidates of the
\* round before only, so a round adds at most one hop.
Offers(best, edges, target) ==
    {Extend(best[e.source], e) :
        e \in {f \in edges : f.source \in DOMAIN best /\ f.target = target}}
    \cup {best[c] : c \in {target} \cap DOMAIN best}

BestOf(candidates) ==
    CHOOSE c \in candidates : \A d \in candidates : ~IsBetter(d, c)

FaultyRelax(best, edges) ==              \* a new currency only
    [c \in Reached(best, edges) |->
        IF c \in DOMAIN best THEN best[c] ELSE BestOf(Offers(best, edges, c))]

Relax(best, edges) ==
    [c \in Reached(best, edges) |-> BestOf(Offers(best, edges, c))]

FaultySettled(best, edges) ==            \* looks at the currencies only
    DOMAIN Relax(best, edges) = DOMAIN best

\* A round that changes nothing ends the loop.
Settled(best, edges) == Relax(best, edges) = best

FaultyRounds == Cardinality(Currency) - 2

Rounds == Cardinality(Currency) - 1

\* The extra round finds a new currency or a strictly better rate.
Profitable(best, extra) ==
    \E c \in DOMAIN extra : c \notin DOMAIN best \/ extra[c].rate > best[c].rate

FaultyRoutes(best) == best               \* the trivial route stays in

Routes(best) == [c \in DOMAIN best \ {USD} |-> best[c]]

-----------------------------------------------------------------------------
\* compute_routes as one step, for its callers: whether it returns at all, and
\* the routes it returns.  Once a round changes nothing no later one does, so
\* leaving the loop early makes no difference.
BestAfter(edges) ==
    LET after[k \in 0..Rounds] ==
            IF k = 0 THEN StartingBest ELSE Relax(after[k - 1], edges)
    IN  after[Rounds]

Acceptable(edges) ==
    LET collapsed == CollapsedEdges(edges)
        best == BestAfter(collapsed)
    IN  ValidRates(edges) /\ ~Profitable(best, Relax(best, collapsed))

ComputeRoutes(edges) == Routes(BestAfter(CollapsedEdges(edges)))
=============================================================================
