--------------------------- MODULE RoutingProofs ---------------------------
(* What compute_routes guarantees for any currencies, LPs and graphs: every
   property of RouteSearch, and that no walk through the graph, however long,
   pays more than the route that is published.

   The walks come first, with an inductive invariant of their own; then leaving
   the loop early; then the simple paths, which the published routes are the
   best of, and the cycles, which decide whether there are any. *)
EXTENDS RouteSearch, FiniteSetTheorems, SequenceTheorems, TLAPS

-----------------------------------------------------------------------------
(* Sets of naturals have least elements; the lemmas on sequences use it where
   one would argue by induction. *)
LEMMA LeastNatural ==
    ASSUME NEW T, T \subseteq Nat, T # {}
    PROVE  \E x \in T : \A y \in T : x <= y
<1> DEFINE Less == OpToRel(<, Nat)
<1>1. \A x, y \in Nat : y < x => <<y, x>> \in Less
    BY DEF OpToRel
<1>2. IsWellFoundedOn(Less, Nat)
    BY NatLessThanWellFounded
<1> HIDE DEF Less
<1>3. PICK x \in T : \A y \in T : <<y, x>> \notin Less
    BY <1>2, WFMin
<1>4. \A y \in T : ~(y < x)
    BY <1>1, <1>3
<1> QED BY <1>3, <1>4

(* What holds for 0, and for a number when it holds for the one before, holds for
   every number up to N; T is the set of those it holds for. *)
LEMMA UpTo ==
    ASSUME NEW T, 0 \in T, NEW N \in Nat,
           \A n \in 1..N : n - 1 \in T => n \in T
    PROVE  0..N \subseteq T
<1> DEFINE Bad == {n \in 0..N : n \notin T}
<1> SUFFICES ASSUME Bad # {} PROVE FALSE
    OBVIOUS
<1>1. PICK n \in Bad : \A m \in Bad : n <= m
  <2>1. Bad \subseteq Nat
      OBVIOUS
  <2> QED BY <2>1, LeastNatural
<1>2. n \in 1..N /\ n \notin T /\ n - 1 \in 0..N /\ ~(n <= n - 1)
    OBVIOUS
<1>3. n - 1 \in T
    BY <1>1, <1>2
<1> QED BY <1>2, <1>3

-----------------------------------------------------------------------------
\* The order of two hops, written out.
HopBefore(g, h) ==
    \/ g.source < h.source
    \/ g.source = h.source /\ g.target < h.target
    \/ g.source = h.source /\ g.target = h.target /\ g.lp < h.lp

(* Hops are compared by source, then target, then LP (routing.py 65-66). *)
LEMMA HopOrder ==
    ASSUME NEW g \in RouteHop, NEW h \in RouteHop
    PROVE  TupleBefore(HopKey(g), HopKey(h)) <=> HopBefore(g, h)
<1>1. /\ g.source \in Nat /\ g.target \in Nat /\ g.lp \in Nat
      /\ h.source \in Nat /\ h.target \in Nat /\ h.lp \in Nat
    BY RoutingAssumption DEF RouteHop
<1>2. /\ DOMAIN HopKey(g) = 1..3 /\ DOMAIN HopKey(h) = 1..3
      /\ Len(HopKey(g)) = 3 /\ Len(HopKey(h)) = 3
      /\ HopKey(g)[1] = g.source /\ HopKey(g)[2] = g.target /\ HopKey(g)[3] = g.lp
      /\ HopKey(h)[1] = h.source /\ HopKey(h)[2] = h.target /\ HopKey(h)[3] = h.lp
    BY DEF HopKey
<1>3. ASSUME TupleBefore(HopKey(g), HopKey(h)) PROVE HopBefore(g, h)
  <2>1. PICK i \in 1..3 : /\ HopKey(g)[i] < HopKey(h)[i]
                          /\ \A j \in 1..(i - 1) : HopKey(g)[j] = HopKey(h)[j]
      BY <1>2, <1>3 DEF TupleBefore
  <2>2. CASE i = 1
      BY <1>2, <2>1, <2>2 DEF HopBefore
  <2>3. CASE i = 2
      BY <1>2, <2>1, <2>3 DEF HopBefore
  <2>4. CASE i = 3
      BY <1>2, <2>1, <2>4 DEF HopBefore
  <2> QED BY <2>2, <2>3, <2>4
<1>4. ASSUME HopBefore(g, h) PROVE TupleBefore(HopKey(g), HopKey(h))
  <2> SUFFICES \E i \in 1..3 : /\ HopKey(g)[i] < HopKey(h)[i]
                               /\ \A j \in 1..(i - 1) : HopKey(g)[j] = HopKey(h)[j]
      BY <1>2 DEF TupleBefore
  <2>1. CASE g.source < h.source
    <3> WITNESS 1 \in 1..3
    <3> QED BY <1>2, <2>1
  <2>2. CASE g.source = h.source /\ g.target < h.target
    <3> WITNESS 2 \in 1..3
    <3> QED BY <1>2, <2>2
  <2>3. CASE g.source = h.source /\ g.target = h.target /\ g.lp < h.lp
    <3> WITNESS 3 \in 1..3
    <3> QED BY <1>2, <2>3
  <2> QED BY <1>4, <2>1, <2>2, <2>3 DEF HopBefore
<1> QED BY <1>3, <1>4

\* The order of two chains, on the hops themselves.
SameKey(g, h) == g.source = h.source /\ g.target = h.target /\ g.lp = h.lp

ChainBefore(p, q) ==
    \/ \E i \in DOMAIN p \cap DOMAIN q :
           /\ HopBefore(p[i], q[i])
           /\ \A j \in 1..(i - 1) : SameKey(p[j], q[j])
    \/ Len(p) < Len(q) /\ \A i \in DOMAIN p : SameKey(p[i], q[i])

LEMMA ChainOrder ==
    ASSUME NEW p \in Seq(RouteHop), NEW q \in Seq(RouteHop)
    PROVE  KeyBefore(p, q) <=> ChainBefore(p, q)
<1>1. \A g, h : SameKey(g, h) <=> HopKey(g) = HopKey(h)
    BY DEF SameKey, HopKey
<1>2. /\ \A i \in DOMAIN p : p[i] \in RouteHop
      /\ \A i \in DOMAIN q : q[i] \in RouteHop
    OBVIOUS
<1>3. \A i \in DOMAIN p \cap DOMAIN q :
          TupleBefore(HopKey(p[i]), HopKey(q[i])) <=> HopBefore(p[i], q[i])
    BY <1>2, HopOrder
<1> QED BY <1>1, <1>3 DEF KeyBefore, ChainBefore

LEMMA HopNumbers ==
    ASSUME NEW p \in Seq(RouteHop), NEW i \in DOMAIN p
    PROVE  p[i].source \in Nat /\ p[i].target \in Nat /\ p[i].lp \in Nat
<1>1. p[i] \in RouteHop
    OBVIOUS
<1> QED BY <1>1, RoutingAssumption DEF RouteHop

(* The tie-break never prefers a chain to itself, and prefers in turn: it is a
   strict order (routing.py 69-72). *)
LEMMA ChainIrreflexive ==
    ASSUME NEW p \in Seq(RouteHop)
    PROVE  ~ChainBefore(p, p)
<1>1. \A i \in DOMAIN p :
          p[i].source \in Nat /\ p[i].target \in Nat /\ p[i].lp \in Nat
    BY HopNumbers
<1> QED BY <1>1 DEF ChainBefore, HopBefore

LEMMA HopsTransitive ==
    ASSUME NEW a \in RouteHop, NEW b \in RouteHop, NEW c \in RouteHop
    PROVE  /\ HopBefore(a, b) /\ HopBefore(b, c) => HopBefore(a, c)
           /\ HopBefore(a, b) /\ SameKey(b, c) => HopBefore(a, c)
           /\ SameKey(a, b) /\ HopBefore(b, c) => HopBefore(a, c)
           /\ SameKey(a, b) /\ SameKey(b, c) => SameKey(a, c)
<1>1. /\ a.source \in Nat /\ a.target \in Nat /\ a.lp \in Nat
      /\ b.source \in Nat /\ b.target \in Nat /\ b.lp \in Nat
      /\ c.source \in Nat /\ c.target \in Nat /\ c.lp \in Nat
    BY RoutingAssumption DEF RouteHop
<1> QED BY <1>1 DEF HopBefore, SameKey

LEMMA ChainTransitive ==
    ASSUME NEW p \in Seq(RouteHop), NEW q \in Seq(RouteHop),
           NEW r \in Seq(RouteHop), ChainBefore(p, q), ChainBefore(q, r)
    PROVE  ChainBefore(p, r)
<1> DEFINE First(a, b, i) == /\ i \in DOMAIN a \cap DOMAIN b
                             /\ HopBefore(a[i], b[i])
                             /\ \A j \in 1..(i - 1) : SameKey(a[j], b[j])
           Prefix(a, b) == Len(a) < Len(b) /\ \A i \in DOMAIN a : SameKey(a[i], b[i])
<1>1. /\ \A i \in DOMAIN p : p[i] \in RouteHop
      /\ \A i \in DOMAIN q : q[i] \in RouteHop
      /\ \A i \in DOMAIN r : r[i] \in RouteHop
    OBVIOUS
<1>2. /\ DOMAIN p = 1..Len(p) /\ DOMAIN q = 1..Len(q) /\ DOMAIN r = 1..Len(r)
      /\ Len(p) \in Nat /\ Len(q) \in Nat /\ Len(r) \in Nat
    OBVIOUS
<1>3. /\ Prefix(p, q) \/ \E i \in DOMAIN p \cap DOMAIN q : First(p, q, i)
      /\ Prefix(q, r) \/ \E i \in DOMAIN q \cap DOMAIN r : First(q, r, i)
    BY DEF ChainBefore
<1>4. ASSUME NEW i \in DOMAIN p \cap DOMAIN q, First(p, q, i),
             NEW k \in DOMAIN q \cap DOMAIN r, First(q, r, k)
      PROVE  ChainBefore(p, r)
  <2>1. CASE i < k
    <3>1. First(p, r, i)
        BY <1>1, <1>2, <1>4, <2>1, HopsTransitive
    <3> QED BY <3>1 DEF ChainBefore
  <2>2. CASE k < i
    <3>1. First(p, r, k)
        BY <1>1, <1>2, <1>4, <2>2, HopsTransitive
    <3> QED BY <3>1 DEF ChainBefore
  <2>3. CASE i = k
    <3>1. First(p, r, i)
        BY <1>1, <1>2, <1>4, <2>3, HopsTransitive
    <3> QED BY <3>1 DEF ChainBefore
  <2> QED BY <1>2, <2>1, <2>2, <2>3
<1>5. ASSUME NEW i \in DOMAIN p \cap DOMAIN q, First(p, q, i), Prefix(q, r)
      PROVE  ChainBefore(p, r)
  <2>1. First(p, r, i)
      BY <1>1, <1>2, <1>5, HopsTransitive
  <2> QED BY <2>1 DEF ChainBefore
<1>6. ASSUME Prefix(p, q), NEW k \in DOMAIN q \cap DOMAIN r, First(q, r, k)
      PROVE  ChainBefore(p, r)
  <2>1. CASE k \in DOMAIN p
    <3>1. First(p, r, k)
        BY <1>1, <1>2, <1>6, <2>1, HopsTransitive
    <3> QED BY <3>1 DEF ChainBefore
  <2>2. CASE k \notin DOMAIN p
    <3>1. Prefix(p, r)
        BY <1>1, <1>2, <1>6, <2>2, HopsTransitive
    <3> QED BY <3>1 DEF ChainBefore
  <2> QED BY <2>1, <2>2
<1>7. ASSUME Prefix(p, q), Prefix(q, r)
      PROVE  ChainBefore(p, r)
  <2>1. Prefix(p, r)
      BY <1>2, <1>1, <1>7, HopsTransitive
  <2> QED BY <2>1 DEF ChainBefore
<1> QED BY <1>3, <1>4, <1>5, <1>6, <1>7

(* So is the order of candidates (routing.py 69-72). *)
LEMMA BetterIsStrict ==
    /\ \A x \in Candidate : ~IsBetter(x, x)
    /\ \A x, y, z \in Candidate :
           IsBetter(x, y) /\ IsBetter(y, z) => IsBetter(x, z)
<1>1. \A x \in Candidate : x.rate \in Int /\ x.hops \in Seq(RouteHop)
    BY DEF Candidate
<1>2. ASSUME NEW x \in Candidate PROVE ~IsBetter(x, x)
    BY <1>1, ChainOrder, ChainIrreflexive DEF IsBetter
<1>3. ASSUME NEW x \in Candidate, NEW y \in Candidate, NEW z \in Candidate,
             IsBetter(x, y), IsBetter(y, z)
      PROVE  IsBetter(x, z)
  <2>1. /\ x.rate \in Int /\ y.rate \in Int /\ z.rate \in Int
        /\ x.hops \in Seq(RouteHop) /\ y.hops \in Seq(RouteHop)
        /\ z.hops \in Seq(RouteHop)
      BY <1>1
  <2>2. KeyBefore(x.hops, y.hops) /\ KeyBefore(y.hops, z.hops)
            => KeyBefore(x.hops, z.hops)
      BY <2>1, ChainOrder, ChainTransitive
  <2> QED BY <1>3, <2>1, <2>2 DEF IsBetter
<1> QED BY <1>2, <1>3

(* A finite set of candidates has one that no other is better than, so the best
   of them is not arbitrary (routing.py 92-104). *)
LEMMA BestExists ==
    ASSUME NEW S \in SUBSET Candidate, IsFiniteSet(S), S # {}
    PROVE  /\ BestOf(S) \in S
           /\ \A d \in S : ~IsBetter(d, BestOf(S))
<1> DEFINE Above(x) == {y \in S : IsBetter(y, x)}
           Counts == {Cardinality(Above(x)) : x \in S}
<1>1. \A x \in S : IsFiniteSet(Above(x)) /\ Cardinality(Above(x)) \in Nat
    BY FS_Subset, FS_CardinalityType
<1>2. Counts \subseteq Nat /\ Counts # {}
    BY <1>1
<1>3. PICK n \in Counts : \A m \in Counts : n <= m
    BY <1>2, LeastNatural
<1>4. PICK x \in S : n = Cardinality(Above(x))
    BY <1>3
<1>5. ASSUME NEW d \in S, IsBetter(d, x) PROVE FALSE
  <2>1. Above(d) \subseteq Above(x)
      BY <1>5, BetterIsStrict
  <2>2. d \in Above(x) /\ d \notin Above(d)
      BY <1>5, BetterIsStrict
  <2>3. /\ Cardinality(Above(d)) <= Cardinality(Above(x))
        /\ Cardinality(Above(x)) # Cardinality(Above(d))
      BY <1>1, <2>1, <2>2, FS_Subset
  <2>4. Cardinality(Above(x)) <= Cardinality(Above(d))
      BY <1>3, <1>4
  <2> HIDE DEF Above
  <2> QED BY <1>1, <2>3, <2>4
<1>6. \E c \in S : \A d \in S : ~IsBetter(d, c)
    BY <1>5
<1> HIDE DEF Above, Counts
<1> QED BY <1>6 DEF BestOf

-----------------------------------------------------------------------------
\* What best holds at any time, and the edges a round is given.
Table(b) ==
    /\ DOMAIN b \subseteq Currency
    /\ USD \in DOMAIN b
    /\ \A c \in DOMAIN b : b[c] \in Candidate

EdgeSet(E) == E \subseteq RouteHop /\ IsFiniteSet(E)

(* A chain with one more hop is a candidate (routing.py 100-101). *)
LEMMA ExtendType ==
    ASSUME NEW x \in Candidate, NEW e \in RouteHop
    PROVE  Extend(x, e) \in Candidate
<1>1. x.rate \in Int /\ x.hops \in Seq(RouteHop) /\ e.rate \in Int
    BY DEF Candidate, RouteHop
<1>2. x.rate + e.rate \in Int /\ Append(x.hops, e) \in Seq(RouteHop)
    BY <1>1
<1> QED BY <1>2 DEF Extend, Candidate

(* For a currency that a round reaches there are finitely many offers, and one
   at least (routing.py 92-104). *)
LEMMA OffersAreGood ==
    ASSUME NEW b, Table(b), NEW E, EdgeSet(E), NEW c \in Reached(b, E)
    PROVE  /\ Offers(b, E, c) \in SUBSET Candidate
           /\ IsFiniteSet(Offers(b, E, c))
           /\ Offers(b, E, c) # {}
<1> DEFINE into == {f \in E : f.source \in DOMAIN b /\ f.target = c}
           new == {Extend(b[e.source], e) : e \in into}
           old == {b[d] : d \in {c} \cap DOMAIN b}
<1>1. Offers(b, E, c) = new \cup old
    BY DEF Offers
<1>2. new \subseteq Candidate
    BY ExtendType DEF Table, EdgeSet
<1>3. old \subseteq Candidate
    BY DEF Table
<1>4. IsFiniteSet(new)
  <2> DEFINE extended == [e \in into |-> Extend(b[e.source], e)]
  <2>1. IsFiniteSet(into)
      BY FS_Subset DEF EdgeSet
  <2>2. extended \in Surjection(into, new)
      BY DEF Surjection
  <2> HIDE DEF extended, into, new
  <2> QED BY <2>1, <2>2, FS_Surjection
<1>5. IsFiniteSet(old)
  <2>1. CASE c \in DOMAIN b
    <3>1. old = {b[c]}
        BY <2>1
    <3> QED BY <3>1, FS_Singleton
  <2>2. CASE c \notin DOMAIN b
    <3>1. old = {}
        BY <2>2
    <3> QED BY <3>1, FS_EmptySet
  <2> QED BY <2>1, <2>2
<1>6. new \cup old # {}
    BY DEF Reached
<1> HIDE DEF new, old
<1> QED BY <1>1, <1>2, <1>3, <1>4, <1>5, <1>6, FS_Union

(* A round takes for every currency an offer that none is better than
   (routing.py 92-104). *)
LEMMA RelaxTakesTheBest ==
    ASSUME NEW b, Table(b), NEW E, EdgeSet(E), NEW c \in Reached(b, E)
    PROVE  /\ Relax(b, E)[c] \in Offers(b, E, c)
           /\ Relax(b, E)[c] \in Candidate
           /\ \A d \in Offers(b, E, c) : d.rate <= Relax(b, E)[c].rate
           /\ \A d \in Offers(b, E, c) : ~IsBetter(d, Relax(b, E)[c])
<1>1. Relax(b, E)[c] = BestOf(Offers(b, E, c))
    BY DEF Relax
<1>2. /\ Relax(b, E)[c] \in Offers(b, E, c)
      /\ \A d \in Offers(b, E, c) : ~IsBetter(d, Relax(b, E)[c])
    BY <1>1, OffersAreGood, BestExists
<1>3. /\ Relax(b, E)[c] \in Candidate
      /\ \A d \in Offers(b, E, c) : d \in Candidate
    BY <1>2, OffersAreGood
<1>4. \A x \in Candidate : x.rate \in Int
    BY DEF Candidate
<1>5. \A d \in Offers(b, E, c) : ~(d.rate > Relax(b, E)[c].rate)
    BY <1>2 DEF IsBetter
<1> QED BY <1>2, <1>3, <1>4, <1>5

LEMMA RelaxDomain ==
    ASSUME NEW b, NEW E
    PROVE  DOMAIN Relax(b, E) = Reached(b, E)
    BY DEF Relax

LEMMA RelaxTable ==
    ASSUME NEW b, Table(b), NEW E, EdgeSet(E)
    PROVE  Table(Relax(b, E))
<1>1. Reached(b, E) \subseteq Currency /\ USD \in Reached(b, E)
    BY DEF Reached, Table, EdgeSet, RouteHop
<1>2. \A c \in Reached(b, E) : Relax(b, E)[c] \in Candidate
    BY RelaxTakesTheBest
<1> QED BY <1>1, <1>2, RelaxDomain DEF Table

-----------------------------------------------------------------------------
\* s holds the products of the first n hops of a path p.
ProductsUpTo(s, p, n) ==
    s = [i \in 0..n |-> IF i = 0 THEN 0 ELSE s[i - 1] + p[i].rate]

(* The recursive definition has a solution, for a path of any length. *)
LEMMA ProductsAreDefined ==
    ASSUME NEW p \in Seq(RouteHop)
    PROVE  ProductsUpTo(Products(p), p, Len(p))
<1> DEFINE Defined(n) == \E s : ProductsUpTo(s, p, n)
           Bad == {n \in 0..Len(p) : ~Defined(n)}
<1>1. Defined(0)
  <2>1. ProductsUpTo([i \in 0..0 |-> 0], p, 0)
      BY DEF ProductsUpTo
  <2> QED BY <2>1
<1>2. ASSUME NEW n \in 1..Len(p), Defined(n - 1) PROVE Defined(n)
  <2>1. PICK s : ProductsUpTo(s, p, n - 1)
      BY <1>2
  <2> DEFINE t == [i \in 0..n |-> IF i = n THEN s[n - 1] + p[n].rate ELSE s[i]]
  <2>2. \A i \in 0..n : t[i] = IF i = 0 THEN 0 ELSE t[i - 1] + p[i].rate
    <3>1. \A i \in 0..(n - 1) : s[i] = IF i = 0 THEN 0 ELSE s[i - 1] + p[i].rate
        BY <2>1 DEF ProductsUpTo
    <3> QED BY <3>1
  <2>3. ProductsUpTo(t, p, n)
    <3>1. t = [i \in 0..n |-> t[i]]
        OBVIOUS
    <3> HIDE DEF t
    <3> QED BY <2>2, <3>1 DEF ProductsUpTo
  <2> QED BY <2>3
<1>3. Bad = {}
  <2> SUFFICES ASSUME Bad # {} PROVE FALSE
      OBVIOUS
  <2>1. PICK n \in Bad : \A m \in Bad : n <= m
    <3>1. Bad \subseteq Nat
        OBVIOUS
    <3> QED BY <3>1, LeastNatural
  <2>2. n \in 0..Len(p) /\ ~Defined(n)
      OBVIOUS
  <2>3. n # 0
      BY <1>1, <2>2
  <2>4. n \in 1..Len(p) /\ n - 1 \in 0..Len(p) /\ ~(n <= n - 1)
      BY <2>2, <2>3
  <2>5. Defined(n - 1)
      BY <2>1, <2>4
  <2> HIDE DEF Defined
  <2> QED BY <1>2, <2>2, <2>4, <2>5
<1>4. Len(p) \in 0..Len(p)
    OBVIOUS
<1>5. \E s : ProductsUpTo(s, p, Len(p))
    BY <1>3, <1>4
<1> QED BY <1>5 DEF Products, ProductsUpTo

(* Products are numbers; the one of no hop is that of the rate 1, and every hop
   multiplies by its rate (routing.py 100-101). *)
LEMMA ProductsByHop ==
    ASSUME NEW p \in Seq(RouteHop)
    PROVE  /\ Products(p)[0] = 0
           /\ \A i \in 1..Len(p) : Products(p)[i] = Products(p)[i - 1] + p[i].rate
           /\ \A i \in 0..Len(p) : Products(p)[i] \in Int
           /\ Product(p) \in Int
<1>1. \A i \in 0..Len(p) :
          Products(p)[i] = IF i = 0 THEN 0 ELSE Products(p)[i - 1] + p[i].rate
    BY ProductsAreDefined DEF ProductsUpTo
<1>2. /\ Products(p)[0] = 0
      /\ \A i \in 1..Len(p) : Products(p)[i] = Products(p)[i - 1] + p[i].rate
    BY <1>1
<1>3. \A i \in 1..Len(p) : p[i].rate \in Int
  <2>1. \A i \in 1..Len(p) : p[i] \in RouteHop
      OBVIOUS
  <2> QED BY <2>1 DEF RouteHop
<1> DEFINE Bad == {i \in 0..Len(p) : Products(p)[i] \notin Int}
<1>4. Bad = {}
  <2> SUFFICES ASSUME Bad # {} PROVE FALSE
      OBVIOUS
  <2>1. PICK n \in Bad : \A m \in Bad : n <= m
    <3>1. Bad \subseteq Nat
        OBVIOUS
    <3> QED BY <3>1, LeastNatural
  <2>2. n \in 1..Len(p)
      BY <1>2
  <2>3. n - 1 \in 0..Len(p) /\ ~(n <= n - 1)
      BY <2>2
  <2>4. Products(p)[n - 1] \in Int
      BY <2>1, <2>3
  <2> QED BY <1>2, <1>3, <2>2, <2>4
<1> QED BY <1>2, <1>4 DEF Product

(* One more hop multiplies the product of a path by its rate (routing.py 101). *)
LEMMA ProductOfAppend ==
    ASSUME NEW p \in Seq(RouteHop), NEW e \in RouteHop
    PROVE  Product(Append(p, e)) = Product(p) + e.rate
<1> DEFINE q == Append(p, e)
           Bad == {i \in 0..Len(p) : Products(q)[i] # Products(p)[i]}
<1>1. /\ q \in Seq(RouteHop)
      /\ Len(q) = Len(p) + 1
      /\ q[Len(p) + 1] = e
      /\ \A i \in 1..Len(p) : q[i] = p[i]
      /\ Len(p) \in Nat
    OBVIOUS
<1> HIDE DEF q
<1>2. /\ Products(p)[0] = 0 /\ Products(q)[0] = 0
      /\ \A i \in 1..Len(p) : Products(p)[i] = Products(p)[i - 1] + p[i].rate
      /\ \A i \in 1..Len(q) : Products(q)[i] = Products(q)[i - 1] + q[i].rate
    BY <1>1, ProductsByHop
<1>3. Bad = {}
  <2> SUFFICES ASSUME Bad # {} PROVE FALSE
      OBVIOUS
  <2>1. PICK n \in Bad : \A m \in Bad : n <= m
    <3>1. Bad \subseteq Nat
        OBVIOUS
    <3> QED BY <3>1, LeastNatural
  <2>2. n \in 1..Len(p)
      BY <1>2
  <2>3. n - 1 \in 0..Len(p) /\ ~(n <= n - 1) /\ n \in 1..Len(q)
      BY <1>1, <2>2
  <2>4. Products(q)[n - 1] = Products(p)[n - 1]
      BY <2>1, <2>3
  <2> QED BY <1>1, <1>2, <2>2, <2>3, <2>4
<1>4. Products(q)[Len(p)] = Products(p)[Len(p)]
    BY <1>1, <1>3
<1>5. Products(q)[Len(q)] = Products(q)[Len(p)] + e.rate
  <2>1. Len(q) \in 1..Len(q) /\ Len(q) - 1 = Len(p)
      BY <1>1
  <2> QED BY <1>1, <1>2, <2>1
<1> QED BY <1>4, <1>5 DEF Product, q

-----------------------------------------------------------------------------
(* Collapsing loses nothing: the edge that stays for a pair of currencies has the
   best rate and is the first of those that have it (routing.py 75-89). *)
LEMMA CollapsedKeepsTheBest ==
    ASSUME NEW E, EdgeSet(E), NEW e \in E
    PROVE  \E f \in CollapsedEdges(E) :
               /\ f.source = e.source /\ f.target = e.target /\ e.rate <= f.rate
               /\ e.rate < f.rate \/ f.lp <= e.lp
<1> DEFINE parallel == {f \in E : f.source = e.source /\ f.target = e.target}
           Alone(f) == [rate |-> f.rate, hops |-> <<f>>]
           alone == {Alone(f) : f \in parallel}
<1>1. \A f \in E : f \in RouteHop /\ f.rate \in Int /\ f.lp \in Nat
    BY RoutingAssumption DEF EdgeSet, RouteHop
<1>2. \A f \in E : Alone(f) \in Candidate
    BY <1>1 DEF Candidate
<1>3. IsFiniteSet(alone)
  <2> DEFINE asOffer == [f \in parallel |-> Alone(f)]
  <2>1. IsFiniteSet(parallel)
      BY FS_Subset DEF EdgeSet
  <2>2. asOffer \in Surjection(parallel, alone)
      BY DEF Surjection
  <2> HIDE DEF parallel, alone, asOffer
  <2> QED BY <2>1, <2>2, FS_Surjection
<1>4. alone \in SUBSET Candidate /\ alone # {}
    BY <1>2
<1>5. PICK f \in parallel : \A g \in parallel : ~IsBetter(Alone(g), Alone(f))
  <2>1. /\ BestOf(alone) \in alone
        /\ \A d \in alone : ~IsBetter(d, BestOf(alone))
    <3> HIDE DEF alone
    <3> QED BY <1>3, <1>4, BestExists
  <2> QED BY <2>1
<1>6. ASSUME NEW g \in parallel
      PROVE  g.rate < f.rate \/ (g.rate = f.rate /\ g.lp >= f.lp)
  <2>1. ~(g.rate > f.rate) /\ (g.rate = f.rate => ~KeyBefore(<<g>>, <<f>>))
      BY <1>5 DEF IsBetter
  <2>2. g.lp < f.lp => KeyBefore(<<g>>, <<f>>)
    <3>1. HopBefore(g, f) => ChainBefore(<<g>>, <<f>>)
        BY DEF ChainBefore
    <3>2. g.lp < f.lp => HopBefore(g, f)
        BY DEF HopBefore
    <3>3. <<g>> \in Seq(RouteHop) /\ <<f>> \in Seq(RouteHop)
        BY <1>1
    <3> QED BY <3>1, <3>2, <3>3, ChainOrder
  <2> QED BY <1>1, <2>1, <2>2
<1>7. f \in CollapsedEdges(E)
    BY <1>6 DEF CollapsedEdges
<1>8. e.rate <= f.rate /\ (e.rate < f.rate \/ f.lp <= e.lp)
    BY <1>1, <1>6
<1> QED BY <1>7, <1>8

LEMMA CollapsedIsEdgeSet ==
    ASSUME NEW E, EdgeSet(E)
    PROVE  EdgeSet(CollapsedEdges(E)) /\ CollapsedEdges(E) \subseteq E
    BY FS_Subset DEF EdgeSet, CollapsedEdges

-----------------------------------------------------------------------------
\* No edge improves on what best holds.
NothingToGain(b, E) ==
    \A e \in E : e.source \in DOMAIN b =>
        /\ e.target \in DOMAIN b
        /\ b[e.source].rate + e.rate <= b[e.target].rate

(* The extra round of a call that publishes finds nothing to gain, on the
   edges as they were given (routing.py 122-127). *)
LEMMA UnprofitableMeansSettled ==
    ASSUME NEW b, Table(b), NEW E, EdgeSet(E),
           ~Profitable(b, Relax(b, CollapsedEdges(E)))
    PROVE  NothingToGain(b, E)
<1> DEFINE C == CollapsedEdges(E)
<1>1. EdgeSet(C) /\ C \subseteq E
    BY CollapsedIsEdgeSet
<1>2. ASSUME NEW c \in Reached(b, C)
      PROVE  c \in DOMAIN b /\ ~(Relax(b, C)[c].rate > b[c].rate)
    BY <1>2, RelaxDomain DEF Profitable
<1>3. ASSUME NEW e \in E, e.source \in DOMAIN b
      PROVE  /\ e.target \in DOMAIN b
             /\ b[e.source].rate + e.rate <= b[e.target].rate
  <2>1. PICK f \in C : f.source = e.source /\ f.target = e.target /\ e.rate <= f.rate
      BY CollapsedKeepsTheBest
  <2>2. f.target \in Reached(b, C)
      BY <1>3, <2>1 DEF Reached
  <2>3. Extend(b[f.source], f) \in Offers(b, C, f.target)
      BY <1>3, <2>1 DEF Offers
  <2>4. Extend(b[f.source], f).rate = b[f.source].rate + f.rate
      BY DEF Extend
  <2>5. b[f.source].rate + f.rate <= Relax(b, C)[f.target].rate
    <3> HIDE DEF C
    <3> QED BY <1>1, <2>2, <2>3, <2>4, RelaxTakesTheBest
  <2>6. e.target \in DOMAIN b /\ ~(Relax(b, C)[f.target].rate > b[f.target].rate)
      BY <1>2, <2>1, <2>2
  <2>7. /\ b[f.source].rate \in Int /\ b[f.target].rate \in Int
        /\ f.rate \in Int /\ e.rate \in Int
        /\ Relax(b, C)[f.target].rate \in Int
    <3>1. \A x \in Candidate : x.rate \in Int
        BY DEF Candidate
    <3>2. Relax(b, C)[f.target] \in Candidate
        BY <1>1, <2>2, RelaxTakesTheBest
    <3>3. b[f.source] \in Candidate /\ b[f.target] \in Candidate
        BY <1>3, <2>1, <2>6 DEF Table
    <3>4. f.rate \in Int /\ e.rate \in Int
        BY <1>1, <2>1 DEF EdgeSet, RouteHop
    <3> QED BY <3>1, <3>2, <3>3, <3>4
  <2> HIDE DEF C
  <2> QED BY <2>1, <2>5, <2>6, <2>7
<1> QED BY <1>3 DEF NothingToGain

\* A walk from a currency may come back to where it has been.
IsWalk(p, from) ==
    \A i \in DOMAIN p : p[i].source = IF i = 1 THEN from ELSE p[i - 1].target

WalkEnd(p, from) == IF p = <<>> THEN from ELSE p[Len(p)].target

(* Where no edge gains anything, no walk does, however long it is. *)
LEMMA WalksGainNothing ==
    ASSUME NEW b, Table(b), NEW E, EdgeSet(E), NothingToGain(b, E),
           NEW c \in DOMAIN b, NEW p \in Seq(E), IsWalk(p, c)
    PROVE  /\ WalkEnd(p, c) \in DOMAIN b
           /\ b[c].rate + Product(p) <= b[WalkEnd(p, c)].rate
<1> DEFINE At(n) == IF n = 0 THEN c ELSE p[n].target
           Good(n) == /\ At(n) \in DOMAIN b
                      /\ b[c].rate + Products(p)[n] <= b[At(n)].rate
           Bad == {n \in 0..Len(p) : ~Good(n)}
<1>1. p \in Seq(RouteHop) /\ \A i \in 1..Len(p) : p[i] \in E
    BY DEF EdgeSet
<1>2. /\ Products(p)[0] = 0
      /\ \A i \in 1..Len(p) : Products(p)[i] = Products(p)[i - 1] + p[i].rate
      /\ \A i \in 0..Len(p) : Products(p)[i] \in Int
    BY <1>1, ProductsByHop
<1>3. \A d \in DOMAIN b : b[d].rate \in Int
    BY DEF Table, Candidate
<1>4. \A e \in E : e.rate \in Int
    BY DEF EdgeSet, RouteHop
<1>5. Good(0)
    BY <1>2, <1>3
<1>6. ASSUME NEW n \in 1..Len(p), Good(n - 1) PROVE Good(n)
  <2>1. p[n] \in E /\ p[n].source = At(n - 1)
      BY <1>1 DEF IsWalk
  <2>2. /\ At(n) = p[n].target
        /\ At(n) \in DOMAIN b
        /\ b[At(n - 1)].rate + p[n].rate <= b[At(n)].rate
      BY <1>6, <2>1 DEF NothingToGain
  <2>3. b[c].rate + Products(p)[n - 1] <= b[At(n - 1)].rate
      BY <1>6
  <2>4. /\ Products(p)[n] = Products(p)[n - 1] + p[n].rate
        /\ Products(p)[n - 1] \in Int /\ p[n].rate \in Int
        /\ b[c].rate \in Int /\ b[At(n - 1)].rate \in Int /\ b[At(n)].rate \in Int
      BY <1>2, <1>3, <1>4, <1>6, <2>1, <2>2
  <2> HIDE DEF At
  <2> QED BY <2>2, <2>3, <2>4
<1>7. Bad = {}
  <2> SUFFICES ASSUME Bad # {} PROVE FALSE
      OBVIOUS
  <2>1. PICK n \in Bad : \A m \in Bad : n <= m
    <3>1. Bad \subseteq Nat
        OBVIOUS
    <3> QED BY <3>1, LeastNatural
  <2>2. n \in 0..Len(p) /\ ~Good(n)
      OBVIOUS
  <2>3. n # 0
      BY <1>5, <2>2
  <2>4. n \in 1..Len(p) /\ n - 1 \in 0..Len(p) /\ ~(n <= n - 1)
      BY <2>2, <2>3
  <2>5. Good(n - 1)
      BY <2>1, <2>4
  <2> HIDE DEF Good
  <2> QED BY <1>6, <2>2, <2>4, <2>5
<1>8. Good(Len(p))
    BY <1>7
<1>9. At(Len(p)) = WalkEnd(p, c)
    BY DEF WalkEnd
<1> QED BY <1>8, <1>9 DEF Product

-----------------------------------------------------------------------------
\* What RatesAreEarned says of one candidate x for the currency c.
Earned(x, c, E, n) ==
    /\ Len(x.hops) <= n
    /\ End(x.hops) = c
    /\ x.rate = Product(x.hops)
    /\ \A i \in DOMAIN x.hops :
           /\ x.hops[i] \in E
           /\ x.hops[i].source = IF i = 1 THEN USD ELSE x.hops[i - 1].target

LEMMA EarnedIsRatesAreEarned ==
    RatesAreEarned <=> \A c \in DOMAIN best : Earned(best[c], c, edges, round)
    BY DEF RatesAreEarned, Earned

(* The trivial route is earned without a hop (routing.py 114). *)
LEMMA StartIsEarned ==
    ASSUME NEW E, NEW c \in DOMAIN StartingBest
    PROVE  Earned(StartingBest[c], c, E, 0)
<1>1. c = USD /\ StartingBest[c] = [rate |-> 0, hops |-> <<>>]
    BY DEF StartingBest
<1>2. Product(<<>>) = 0
  <2>1. <<>> \in Seq(RouteHop) /\ Len(<<>>) = 0
      OBVIOUS
  <2> QED BY <2>1, ProductsByHop DEF Product
<1> QED BY <1>1, <1>2 DEF Earned, End

(* A hop appended to what is earned is earned (routing.py 97-103). *)
LEMMA ExtendIsEarned ==
    ASSUME NEW E, NEW n \in Nat, NEW x \in Candidate, NEW e \in E,
           e \in RouteHop, Earned(x, e.source, E, n)
    PROVE  Earned(Extend(x, e), e.target, E, n + 1)
<1> DEFINE h == x.hops
           q == Append(h, e)
<1>1. h \in Seq(RouteHop) /\ Len(h) \in Nat
    BY DEF Candidate
<1>2. /\ Len(q) = Len(h) + 1 /\ q[Len(q)] = e /\ DOMAIN q = 1..(Len(h) + 1)
      /\ \A i \in 1..Len(h) : q[i] = h[i]
      /\ q # <<>>
    BY <1>1
<1>3. Extend(x, e).hops = q /\ Extend(x, e).rate = x.rate + e.rate
    BY DEF Extend
<1>4. /\ Len(h) <= n /\ End(h) = e.source /\ x.rate = Product(h)
      /\ \A i \in 1..Len(h) :
             h[i] \in E /\ h[i].source = IF i = 1 THEN USD ELSE h[i - 1].target
    BY <1>1 DEF Earned
<1>5. Product(q) = Product(h) + e.rate
    BY <1>1, ProductOfAppend
<1>6. End(q) = e.target
    BY <1>2 DEF End
<1>7. ASSUME NEW i \in DOMAIN q
      PROVE  q[i] \in E /\ q[i].source = IF i = 1 THEN USD ELSE q[i - 1].target
  <2>1. CASE i \in 1..Len(h)
    <3>1. i # 1 => i - 1 \in 1..Len(h)
        BY <1>1, <2>1
    <3> HIDE DEF h, q
    <3> QED BY <1>2, <1>4, <2>1, <3>1
  <2>2. CASE i = Len(h) + 1 /\ Len(h) = 0
    <3>1. h = <<>>
        BY <1>1, <2>2
    <3>2. e.source = USD
        BY <1>4, <3>1 DEF End
    <3>3. q[1] = e
        BY <1>2, <2>2
    <3> HIDE DEF h, q
    <3> QED BY <2>2, <3>2, <3>3
  <2>3. CASE i = Len(h) + 1 /\ Len(h) # 0
    <3>1. h # <<>> /\ Len(h) \in 1..Len(h)
        BY <1>1, <2>3
    <3>2. e.source = h[Len(h)].target
        BY <1>4, <3>1 DEF End
    <3>3. q[i] = e /\ q[i - 1] = h[Len(h)] /\ i # 1
        BY <1>1, <1>2, <2>3, <3>1
    <3> HIDE DEF h, q
    <3> QED BY <3>2, <3>3
  <2> HIDE DEF h, q
  <2> QED BY <1>1, <1>2, <2>1, <2>2, <2>3
<1>8. Len(q) <= n + 1
    BY <1>1, <1>2, <1>4
<1> HIDE DEF h, q
<1> QED BY <1>3, <1>4, <1>5, <1>6, <1>7, <1>8 DEF Earned

(* After a round every candidate is one of the round before, or one with a hop
   more (routing.py 92-104). *)
LEMMA RelaxIsEarned ==
    ASSUME NEW b, Table(b), NEW E, EdgeSet(E), NEW n \in Nat,
           \A c \in DOMAIN b : Earned(b[c], c, E, n),
           NEW c \in DOMAIN Relax(b, CollapsedEdges(E))
    PROVE  Earned(Relax(b, CollapsedEdges(E))[c], c, E, n + 1)
<1> DEFINE C == CollapsedEdges(E)
           x == Relax(b, C)[c]
<1>1. EdgeSet(C) /\ C \subseteq E
    BY CollapsedIsEdgeSet
<1>2. c \in Reached(b, C)
    BY RelaxDomain
<1>3. x \in Offers(b, C, c)
  <2> HIDE DEF C
  <2> QED BY <1>1, <1>2, RelaxTakesTheBest
<1>4. CASE c \in DOMAIN b /\ x = b[c]
  <2>1. b[c] \in Candidate /\ Earned(b[c], c, E, n)
      BY <1>4 DEF Table
  <2>2. Len(b[c].hops) \in Nat
      BY <2>1 DEF Candidate
  <2>3. Earned(b[c], c, E, n + 1)
      BY <2>1, <2>2 DEF Earned
  <2> QED BY <1>4, <2>3
<1>5. ASSUME NEW e \in C, e.source \in DOMAIN b, e.target = c,
             x = Extend(b[e.source], e)
      PROVE  Earned(x, c, E, n + 1)
  <2>1. e \in E /\ e \in RouteHop
      BY <1>1 DEF EdgeSet
  <2>2. b[e.source] \in Candidate
      BY <1>5 DEF Table
  <2> HIDE DEF x
  <2> QED BY <1>5, <2>1, <2>2, ExtendIsEarned
<1>6. \/ c \in DOMAIN b /\ x = b[c]
      \/ \E e \in C : /\ e.source \in DOMAIN b /\ e.target = c
                      /\ x = Extend(b[e.source], e)
  <2> HIDE DEF x, C
  <2> QED BY <1>3 DEF Offers
<1> QED BY <1>4, <1>5, <1>6

(* The candidate of USD only gets better (routing.py 95, 102). *)
LEMMA RelaxKeepsTheSource ==
    ASSUME NEW b, Table(b), NEW E, EdgeSet(E), 0 <= b[USD].rate
    PROVE  0 <= Relax(b, E)[USD].rate
<1>1. USD \in Reached(b, E) /\ b[USD] \in Offers(b, E, USD)
    BY DEF Table, Reached, Offers
<1>2. b[USD].rate <= Relax(b, E)[USD].rate /\ Relax(b, E)[USD] \in Candidate
    BY <1>1, RelaxTakesTheBest
<1>3. b[USD].rate \in Int /\ Relax(b, E)[USD].rate \in Int
    BY <1>2 DEF Table, Candidate
<1> QED BY <1>2, <1>3

-----------------------------------------------------------------------------
(* The inductive invariant: a call that relaxes has only real rates, its
   candidates are earned, and one that has published has nothing to gain. *)
SearchInvariant ==
    /\ TypeOK
    /\ IsFiniteSet(edges)
    /\ pc \in {"relax", "published"} => ValidRates(edges)
    /\ RatesAreEarned
    /\ 0 <= best[USD].rate
    /\ pc = "published" => NothingToGain(best, edges)

LEMMA RoundsIsNatural == Rounds \in Nat
<1>1. Cardinality(Currency) \in Nat /\ Cardinality(Currency) # 0
    BY RoutingAssumption, FS_CardinalityType, FS_EmptySet
<1> QED BY <1>1 DEF Rounds

LEMMA ValidEdges ==
    ASSUME TypeOK, IsFiniteSet(edges), ValidRates(edges)
    PROVE  EdgeSet(edges)
<1>1. \A e \in edges : e \in Edge /\ e.rate \in Int
    BY DEF TypeOK, ValidRates
<1>2. edges \subseteq RouteHop
    BY <1>1 DEF Edge, RouteHop
<1> QED BY <1>2 DEF EdgeSet

LEMMA TypeOKTable == TypeOK => Table(best)
    BY DEF TypeOK, Table

LEMMA InitSearch == Init => SearchInvariant
<1> SUFFICES ASSUME Init PROVE SearchInvariant
    OBVIOUS
<1>1. /\ best = StartingBest /\ DOMAIN best = {USD}
      /\ best[USD] = [rate |-> 0, hops |-> <<>>]
    BY DEF Init, StartingBest
<1>2. TypeOK /\ IsFiniteSet(edges)
  <2>1. edges \subseteq Edge /\ IsFiniteSet(edges)
      BY RouteSearchAssumption DEF Init
  <2>2. best[USD] \in Candidate
      BY <1>1 DEF Candidate
  <2>3. round \in 0..Rounds
      BY RoundsIsNatural DEF Init
  <2> QED BY <1>1, <2>1, <2>2, <2>3, RoutingAssumption DEF Init, TypeOK
<1>3. RatesAreEarned
    BY <1>1, StartIsEarned, EarnedIsRatesAreEarned DEF Init
<1> QED BY <1>1, <1>2, <1>3 DEF Init, SearchInvariant

LEMMA NextSearch == SearchInvariant /\ [Next]_routeVars => SearchInvariant'
<1> SUFFICES ASSUME SearchInvariant, [Next]_routeVars PROVE SearchInvariant'
    OBVIOUS
<1> USE DEF SearchInvariant
<1>1. CASE Collapse
  <2>1. pc' \in {"relax", "rejected"} /\ (pc' = "relax" => ValidRates(edges))
      BY <1>1 DEF Collapse
  <2>2. TypeOK'
      BY <1>1, <2>1 DEF Collapse, TypeOK
  <2>3. RatesAreEarned'
      BY <1>1 DEF Collapse, RatesAreEarned
  <2> QED BY <1>1, <2>1, <2>2, <2>3 DEF Collapse
<1>2. CASE RelaxRound
  <2>1. ValidRates(edges) /\ Table(best) /\ EdgeSet(edges)
      BY <1>2, ValidEdges, TypeOKTable DEF RelaxRound
  <2>2. EdgeSet(Collapsed)
      BY <2>1, CollapsedIsEdgeSet DEF Collapsed
  <2>3. Table(best')
      BY <1>2, <2>1, <2>2, RelaxTable DEF RelaxRound
  <2>4. round \in Nat /\ round' = round + 1 /\ round' \in 0..Rounds
      BY <1>2, RoundsIsNatural DEF RelaxRound, TypeOK
  <2>5. TypeOK'
      BY <1>2, <2>3, <2>4 DEF RelaxRound, TypeOK, Table
  <2>6. \A c \in DOMAIN best' : Earned(best'[c], c, edges, round + 1)
    <3>1. \A c \in DOMAIN best : Earned(best[c], c, edges, round)
        BY EarnedIsRatesAreEarned
    <3>2. best' = Relax(best, CollapsedEdges(edges))
        BY <1>2 DEF RelaxRound, Collapsed
    <3> QED BY <2>1, <2>4, <3>1, <3>2, RelaxIsEarned
  <2>7. RatesAreEarned'
    <3>1. edges' = edges
        BY <1>2 DEF RelaxRound
    <3> QED BY <2>4, <2>6, <3>1 DEF RatesAreEarned, Earned
  <2>8. 0 <= best'[USD].rate
      BY <1>2, <2>1, <2>2, RelaxKeepsTheSource DEF RelaxRound
  <2> QED BY <1>2, <2>5, <2>7, <2>8 DEF RelaxRound
<1>3. CASE Check
  <2>1. pc' \in {"rejected", "published"} /\ ValidRates(edges)
      BY <1>3 DEF Check
  <2>2. TypeOK'
      BY <1>3, <2>1 DEF Check, TypeOK
  <2>3. RatesAreEarned'
      BY <1>3 DEF Check, RatesAreEarned
  <2>4. ASSUME pc' = "published" PROVE NothingToGain(best, edges)
    <3>1. ~Profitable(best, Relax(best, CollapsedEdges(edges)))
        BY <1>3, <2>4 DEF Check, Collapsed
    <3>2. Table(best) /\ EdgeSet(edges)
        BY <2>1, ValidEdges, TypeOKTable
    <3> QED BY <3>1, <3>2, UnprofitableMeansSettled
  <2> QED BY <1>3, <2>1, <2>2, <2>3, <2>4 DEF Check
<1>4. CASE UNCHANGED routeVars
    BY <1>4 DEF routeVars, TypeOK, RatesAreEarned
<1> QED BY <1>1, <1>2, <1>3, <1>4 DEF Next

(* The inductive invariant of compute_routes (routing.py 106-135). *)
THEOREM SearchInvariance == Spec => []SearchInvariant
    BY InitSearch, NextSearch, PTL DEF Spec

(* The types, for any currencies and graphs: the dictionary of candidates always
   holds the source and no more rounds are done than a path can have hops
   (routing.py 114-120). *)
THEOREM TypeCorrectness == Spec => []TypeOK
<1>1. SearchInvariant => TypeOK
    BY DEF SearchInvariant
<1> QED BY <1>1, SearchInvariance, PTL

(* No route promises what its hops do not pay: every candidate, at any time, is
   a chain of the given edges from USD, one hop per round at most, and its rate
   is their product (routing.py 92-104). *)
THEOREM EarnedRates == Spec => []RatesAreEarned
<1>1. SearchInvariant => RatesAreEarned
    BY DEF SearchInvariant
<1> QED BY <1>1, SearchInvariance, PTL

-----------------------------------------------------------------------------
(* No walk through the edges, with any number of hops, repeated currencies and
   any LPs, pays more than the published route to where it ends. *)
NoWalkPaysMore ==
    pc = "published" =>
        \A p \in Seq(edges) : IsWalk(p, USD) =>
            /\ WalkEnd(p, USD) \in DOMAIN best
            /\ Product(p) <= best[WalkEnd(p, USD)].rate

(* No cycle at a currency that can be reached multiplies money. *)
NoCycleMultiplies ==
    pc = "published" =>
        \A c \in DOMAIN best : \A p \in Seq(edges) :
            IsWalk(p, c) /\ WalkEnd(p, c) = c => Product(p) <= 0

LEMMA PublishedWalks ==
    ASSUME SearchInvariant, pc = "published",
           NEW c \in DOMAIN best, NEW p \in Seq(edges), IsWalk(p, c)
    PROVE  /\ WalkEnd(p, c) \in DOMAIN best
           /\ best[c].rate + Product(p) <= best[WalkEnd(p, c)].rate
           /\ best[c].rate \in Int /\ best[WalkEnd(p, c)].rate \in Int
           /\ Product(p) \in Int
<1>1. Table(best) /\ EdgeSet(edges) /\ NothingToGain(best, edges)
    BY ValidEdges, TypeOKTable DEF SearchInvariant
<1>2. /\ WalkEnd(p, c) \in DOMAIN best
      /\ best[c].rate + Product(p) <= best[WalkEnd(p, c)].rate
    BY <1>1, WalksGainNothing
<1>3. best[c].rate \in Int /\ best[WalkEnd(p, c)].rate \in Int
    BY <1>1, <1>2 DEF Table, Candidate
<1>4. p \in Seq(RouteHop)
    BY <1>1 DEF EdgeSet
<1> QED BY <1>2, <1>3, <1>4, ProductsByHop

(* The round limit is enough and the extra round is sound, for any number of
   currencies: what compute_routes publishes is the best rate there is, over
   walks of any length (routing.py 116-127). *)
THEOREM BestRates == Spec => []NoWalkPaysMore
<1>1. SearchInvariant => NoWalkPaysMore
  <2> SUFFICES ASSUME SearchInvariant, pc = "published",
                      NEW p \in Seq(edges), IsWalk(p, USD)
               PROVE  /\ WalkEnd(p, USD) \in DOMAIN best
                      /\ Product(p) <= best[WalkEnd(p, USD)].rate
      BY DEF NoWalkPaysMore
  <2>1. USD \in DOMAIN best /\ 0 <= best[USD].rate
      BY DEF SearchInvariant, TypeOK
  <2> QED BY <2>1, PublishedWalks
<1> QED BY <1>1, SearchInvariance, PTL

(* A graph with a profitable cycle that can be reached is never published, no
   matter how long the cycle is (routing.py 122-127). *)
THEOREM NoArbitrage == Spec => []NoCycleMultiplies
<1>1. SearchInvariant => NoCycleMultiplies
  <2> SUFFICES ASSUME SearchInvariant, pc = "published", NEW c \in DOMAIN best,
                      NEW p \in Seq(edges), IsWalk(p, c), WalkEnd(p, c) = c
               PROVE  Product(p) <= 0
      BY DEF NoCycleMultiplies
  <2> QED BY PublishedWalks
<1> QED BY <1>1, SearchInvariance, PTL
-----------------------------------------------------------------------------
(* Leaving the loop early *)

\* s holds what best is after 0, 1, .. n rounds.
BestsUpTo(s, E, n) ==
    s = [k \in 0..n |-> IF k = 0 THEN StartingBest ELSE Relax(s[k - 1], E)]

BestsOf(E) == CHOOSE s : BestsUpTo(s, E, Rounds)

LEMMA BestsByRound ==
    ASSUME NEW E
    PROVE  /\ BestsOf(E)[0] = StartingBest
           /\ \A k \in 1..Rounds : BestsOf(E)[k] = Relax(BestsOf(E)[k - 1], E)
           /\ BestAfter(E) = BestsOf(E)[Rounds]
<1> DEFINE T == {n \in Nat : \E s : BestsUpTo(s, E, n)}
<1>1. 0 \in T
  <2>1. BestsUpTo([k \in 0..0 |-> StartingBest], E, 0)
      BY DEF BestsUpTo
  <2> QED BY <2>1
<1>2. ASSUME NEW n \in 1..Rounds, n - 1 \in T PROVE n \in T
  <2>1. PICK s : BestsUpTo(s, E, n - 1)
      BY <1>2
  <2> DEFINE t == [k \in 0..n |-> IF k = n THEN Relax(s[n - 1], E) ELSE s[k]]
  <2>2. \A k \in 0..n : t[k] = IF k = 0 THEN StartingBest ELSE Relax(t[k - 1], E)
    <3>1. \A k \in 0..(n - 1) :
              s[k] = IF k = 0 THEN StartingBest ELSE Relax(s[k - 1], E)
        BY <2>1 DEF BestsUpTo
    <3>2. n \in Nat /\ n # 0
        OBVIOUS
    <3> QED BY <3>1, <3>2
  <2>3. BestsUpTo(t, E, n)
    <3>1. t = [k \in 0..n |-> t[k]]
        OBVIOUS
    <3> HIDE DEF t
    <3> QED BY <2>2, <3>1 DEF BestsUpTo
  <2> QED BY <2>3
<1>3. Rounds \in Nat /\ Rounds \in 0..Rounds
    BY RoundsIsNatural
<1>4. \E s : BestsUpTo(s, E, Rounds)
  <2> HIDE DEF T
  <2>1. Rounds \in T
      BY <1>1, <1>2, <1>3, UpTo
  <2> QED BY <2>1 DEF T
<1>5. BestsUpTo(BestsOf(E), E, Rounds)
    BY <1>4 DEF BestsOf
<1>6. BestAfter(E) = BestsOf(E)[Rounds]
    BY DEF BestAfter, BestsOf, BestsUpTo
<1>7. \A k \in 0..Rounds : BestsOf(E)[k] =
          IF k = 0 THEN StartingBest ELSE Relax(BestsOf(E)[k - 1], E)
    BY <1>5 DEF BestsUpTo
<1> QED BY <1>3, <1>6, <1>7

\* When a round changes nothing, none of those after it does.
LEMMA SettledForGood ==
    ASSUME NEW E, NEW n \in 0..Rounds, Relax(BestsOf(E)[n], E) = BestsOf(E)[n]
    PROVE  BestAfter(E) = BestsOf(E)[n]
<1> DEFINE T == {m \in Nat : BestsOf(E)[n + m] = BestsOf(E)[n]}
<1>1. n \in Nat /\ Rounds \in Nat /\ Rounds - n \in Nat /\ n + (Rounds - n) = Rounds
    BY RoundsIsNatural
<1>2. 0 \in T
    BY <1>1
<1>3. ASSUME NEW m \in 1..(Rounds - n), m - 1 \in T PROVE m \in T
  <2>1. n + m \in 1..Rounds /\ (n + m) - 1 = n + (m - 1)
      BY <1>1
  <2>2. BestsOf(E)[n + m] = Relax(BestsOf(E)[n + (m - 1)], E)
      BY <2>1, BestsByRound
  <2> QED BY <1>3, <2>2
<1>4. Rounds - n \in T
  <2> HIDE DEF T
  <2>1. 0..(Rounds - n) \subseteq T
      BY <1>1, <1>2, <1>3, UpTo
  <2> QED BY <1>1, <2>1
<1> QED BY <1>1, <1>4, BestsByRound

RoundsAgree ==
    /\ round \in 0..Rounds
    /\ pc \in {"collapse", "relax"} => best = BestsOf(Collapsed)[round]
    /\ pc = "collapse" => round = 0
    /\ pc = "relax" => ValidRates(edges)
    /\ EarlyExitIsHarmless

LEMMA RoundsAgreeNext == RoundsAgree /\ [Next]_routeVars => RoundsAgree'
<1> SUFFICES ASSUME RoundsAgree, [Next]_routeVars PROVE RoundsAgree'
    OBVIOUS
<1> USE DEF RoundsAgree
<1>1. CASE Collapse
    BY <1>1 DEF Collapse, EarlyExitIsHarmless, Collapsed, Acceptable
<1>2. CASE RelaxRound
  <2>1. round \in Nat /\ round + 1 \in 1..Rounds /\ (round + 1) - 1 = round
      BY <1>2, RoundsIsNatural DEF RelaxRound
  <2>2. best' = BestsOf(Collapsed)[round + 1]
      BY <1>2, <2>1, BestsByRound DEF RelaxRound
  <2>3. Collapsed' = Collapsed
      BY <1>2 DEF RelaxRound, Collapsed
  <2> QED BY <1>2, <2>1, <2>2, <2>3 DEF RelaxRound, EarlyExitIsHarmless
<1>3. CASE Check
  <2>1. best = BestAfter(CollapsedEdges(edges)) /\ ValidRates(edges)
    <3>1. CASE round = Rounds
        BY <1>3, <3>1, BestsByRound DEF Check, Collapsed
    <3>2. CASE Settled(best, Collapsed)
        BY <1>3, <3>2, SettledForGood DEF Check, Settled, Collapsed
    <3> QED BY <1>3, <3>1, <3>2 DEF Check
  <2> QED BY <1>3, <2>1
          DEF Check, Collapsed, EarlyExitIsHarmless, Acceptable, ComputeRoutes
<1>4. CASE UNCHANGED routeVars
    BY <1>4 DEF routeVars, Collapsed, EarlyExitIsHarmless
<1> QED BY <1>1, <1>2, <1>3, <1>4 DEF Next

(* Leaving the loop when a round changes nothing makes no difference to what is
   published or rejected, for any graph and number of currencies (routing.py
   116-120): the router's callers may take a call for ComputeRoutes. *)
THEOREM EarlyExit == Spec => []EarlyExitIsHarmless
<1>1. Init => RoundsAgree
    BY RoundsIsNatural, BestsByRound DEF Init, RoundsAgree, EarlyExitIsHarmless
<1>2. RoundsAgree => EarlyExitIsHarmless
    BY DEF RoundsAgree
<1> QED BY <1>1, <1>2, RoundsAgreeNext, PTL DEF Spec

-----------------------------------------------------------------------------
(* The order of candidates is total up to the keys of the hops *)

SameHops(p, q) == Len(p) = Len(q) /\ \A i \in DOMAIN p : SameKey(p[i], q[i])

LEMMA ChainTotal ==
    ASSUME NEW p \in Seq(RouteHop), NEW q \in Seq(RouteHop)
    PROVE  ChainBefore(p, q) \/ ChainBefore(q, p) \/ SameHops(p, q)
<1>0. Len(p) < Len(q) \/ Len(q) < Len(p) \/ Len(p) = Len(q)
  <2>1. Len(p) \in Nat /\ Len(q) \in Nat
      BY LenProperties
  <2> QED BY <2>1
<1> DEFINE D == {i \in DOMAIN p \cap DOMAIN q : ~SameKey(p[i], q[i])}
<1>1. /\ DOMAIN p = 1..Len(p) /\ DOMAIN q = 1..Len(q)
      /\ Len(p) \in Nat /\ Len(q) \in Nat
    OBVIOUS
<1>2. CASE D = {}
  <2>1. \A i \in DOMAIN p \cap DOMAIN q : SameKey(p[i], q[i]) /\ SameKey(q[i], p[i])
      BY <1>2 DEF SameKey
  <2>2. CASE Len(p) < Len(q)
      BY <1>1, <2>1, <2>2 DEF ChainBefore
  <2>3. CASE Len(q) < Len(p)
      BY <1>1, <2>1, <2>3 DEF ChainBefore
  <2>4. CASE Len(p) = Len(q)
      BY <1>1, <2>1, <2>4 DEF SameHops
  <2> QED BY <1>0, <2>2, <2>3, <2>4, Zenon
<1>3. CASE D # {}
  <2>1. PICK i \in D : \A j \in D : i <= j
    <3>1. D \subseteq Nat
        BY <1>1
    <3> QED BY <1>3, <3>1, LeastNatural
  <2>2. i \in DOMAIN p \cap DOMAIN q /\ ~SameKey(p[i], q[i])
      BY <2>1
  <2>3. \A j \in 1..(i - 1) : SameKey(p[j], q[j]) /\ SameKey(q[j], p[j])
    <3>1. \A j \in 1..(i - 1) : j \in DOMAIN p \cap DOMAIN q /\ ~(i <= j)
        BY <1>1, <2>2
    <3> QED BY <2>1, <3>1 DEF SameKey
  <2>4. HopBefore(p[i], q[i]) \/ HopBefore(q[i], p[i])
    <3>1. /\ p[i].source \in Nat /\ p[i].target \in Nat /\ p[i].lp \in Nat
          /\ q[i].source \in Nat /\ q[i].target \in Nat /\ q[i].lp \in Nat
        BY <2>2, HopNumbers
    <3> QED BY <2>2, <3>1 DEF HopBefore, SameKey
  <2> QED BY <2>2, <2>3, <2>4 DEF ChainBefore
<1> QED BY <1>2, <1>3

LEMMA SameHopsBefore ==
    ASSUME NEW p \in Seq(RouteHop), NEW q \in Seq(RouteHop),
           NEW r \in Seq(RouteHop), SameHops(p, q), ChainBefore(p, r)
    PROVE  ChainBefore(q, r)
<1>1. /\ DOMAIN p = 1..Len(p) /\ DOMAIN q = 1..Len(q) /\ Len(p) = Len(q)
      /\ \A i \in DOMAIN p : SameKey(p[i], q[i])
    BY DEF SameHops
<1>2. \A i \in DOMAIN p : \A h : /\ HopBefore(p[i], h) => HopBefore(q[i], h)
                                 /\ SameKey(p[i], h) => SameKey(q[i], h)
    BY <1>1 DEF HopBefore, SameKey
<1> QED BY <1>1, <1>2 DEF ChainBefore

(* What is not better than a candidate is not better than one that the candidate
   is not better than (routing.py 69-72). *)
LEMMA NoBetterInTurn ==
    ASSUME NEW x \in Candidate, NEW y \in Candidate, NEW z \in Candidate,
           ~IsBetter(x, y), ~IsBetter(y, z)
    PROVE  ~IsBetter(x, z)
<1>1. /\ x.rate \in Int /\ y.rate \in Int /\ z.rate \in Int
      /\ x.hops \in Seq(RouteHop) /\ y.hops \in Seq(RouteHop)
      /\ z.hops \in Seq(RouteHop)
    BY DEF Candidate
<1>2. /\ KeyBefore(x.hops, y.hops) <=> ChainBefore(x.hops, y.hops)
      /\ KeyBefore(y.hops, z.hops) <=> ChainBefore(y.hops, z.hops)
      /\ KeyBefore(x.hops, z.hops) <=> ChainBefore(x.hops, z.hops)
    BY <1>1, ChainOrder
<1>3. ~ChainBefore(x.hops, y.hops) /\ ~ChainBefore(y.hops, z.hops)
          => ~ChainBefore(x.hops, z.hops)
    BY <1>1, ChainTotal, ChainTransitive, SameHopsBefore
<1> QED BY <1>1, <1>2, <1>3 DEF IsBetter

\* p is the beginning of q, but for the rates.
HopsBegin(p, q) == Len(p) < Len(q) /\ \A i \in DOMAIN p : SameKey(p[i], q[i])

(* A hop that is as good, after a candidate that is as good, makes a candidate
   that is as good, unless the tie-break looks past its end (routing.py 69-72). *)
LEMMA ExtendsNoWorse ==
    ASSUME NEW x \in Candidate, NEW y \in Candidate,
           NEW f \in RouteHop, NEW e \in RouteHop,
           ~IsBetter(x, y), ~HopsBegin(y.hops, x.hops),
           e.source = f.source, e.target = f.target, f.rate <= e.rate,
           f.rate < e.rate \/ e.lp <= f.lp
    PROVE  ~IsBetter(Extend(x, f), Extend(y, e))
<1> DEFINE p == x.hops
           q == y.hops
           P == Append(p, f)
           Q == Append(q, e)
<1>1. /\ x.rate \in Int /\ y.rate \in Int /\ f.rate \in Int /\ e.rate \in Int
      /\ p \in Seq(RouteHop) /\ q \in Seq(RouteHop)
      /\ P \in Seq(RouteHop) /\ Q \in Seq(RouteHop)
      /\ Extend(x, f) = [rate |-> x.rate + f.rate, hops |-> P]
      /\ Extend(y, e) = [rate |-> y.rate + e.rate, hops |-> Q]
    BY DEF Candidate, RouteHop, Extend
<1>2. /\ Len(P) = Len(p) + 1 /\ Len(Q) = Len(q) + 1
      /\ P[Len(p) + 1] = f /\ Q[Len(q) + 1] = e
      /\ \A i \in 1..Len(p) : P[i] = p[i]
      /\ \A i \in 1..Len(q) : Q[i] = q[i]
      /\ DOMAIN P = 1..(Len(p) + 1) /\ DOMAIN Q = 1..(Len(q) + 1)
      /\ DOMAIN p = 1..Len(p) /\ DOMAIN q = 1..Len(q)
      /\ Len(p) \in Nat /\ Len(q) \in Nat
    BY <1>1
<1> HIDE DEF P, Q, p, q
<1>3. x.rate <= y.rate /\ (x.rate = y.rate => ~ChainBefore(p, q))
    BY <1>1, ChainOrder DEF IsBetter, p, q
<1>4. ASSUME x.rate = y.rate, f.rate = e.rate
      PROVE  ~ChainBefore(P, Q)
  <2>1. CASE SameHops(p, q)
    <3>1. CASE SameKey(f, e)
      <4>1. SameHops(P, Q)
          BY <1>2, <2>1, <3>1 DEF SameHops, SameKey
      <4> QED BY <1>1, <4>1, SameHopsBefore, ChainIrreflexive
    <3>2. CASE HopBefore(e, f)
      <4>1. ChainBefore(Q, P)
        <5>1. Len(q) + 1 \in DOMAIN P \cap DOMAIN Q
            BY <1>2, <2>1 DEF SameHops
        <5>2. HopBefore(Q[Len(q) + 1], P[Len(q) + 1])
            BY <1>2, <2>1, <3>2 DEF SameHops
        <5>3. \A j \in 1..((Len(q) + 1) - 1) : SameKey(Q[j], P[j])
            BY <1>2, <2>1 DEF SameHops, SameKey
        <5> QED BY <5>1, <5>2, <5>3 DEF ChainBefore
      <4> QED BY <1>1, <4>1, ChainIrreflexive, ChainTransitive
    <3>3. e.lp \in Nat /\ f.lp \in Nat
        BY RoutingAssumption DEF RouteHop
    <3>4. SameKey(f, e) \/ HopBefore(e, f)
        BY <1>1, <1>4, <3>3 DEF SameKey, HopBefore
    <3> QED BY <3>1, <3>2, <3>4
  <2>2. CASE ChainBefore(q, p)
    <3>1. PICK i \in DOMAIN q \cap DOMAIN p :
              HopBefore(q[i], p[i]) /\ \A j \in 1..(i - 1) : SameKey(q[j], p[j])
        BY <2>2 DEF ChainBefore, HopsBegin, p, q
    <3>2. /\ i \in DOMAIN Q \cap DOMAIN P /\ HopBefore(Q[i], P[i])
          /\ \A j \in 1..(i - 1) : SameKey(Q[j], P[j])
        BY <1>2, <3>1
    <3>3. ChainBefore(Q, P)
        BY <3>2 DEF ChainBefore
    <3> QED BY <1>1, <3>3, ChainIrreflexive, ChainTransitive
  <2> QED BY <1>1, <1>3, <1>4, <2>1, <2>2, ChainTotal
<1> QED BY <1>1, <1>3, <1>4, ChainOrder DEF IsBetter

-----------------------------------------------------------------------------
(* Simple paths *)

\* A walk from USD that never comes to a currency twice.
SimpleWalks(E) ==
    {p \in Seq(E) :
        /\ IsWalk(p, USD)
        /\ \A i \in DOMAIN p : p[i].target # USD
        /\ \A i, j \in DOMAIN p : p[i].target = p[j].target => i = j}

LEMMA WalkEndIsEnd == \A p : WalkEnd(p, USD) = End(p)
    BY DEF WalkEnd, End

\* The beginning of a path and what follows it.
LEMMA Beginning ==
    ASSUME NEW S, NEW p \in Seq(S), NEW n \in 0..Len(p)
    PROVE  /\ SubSeq(p, 1, n) \in Seq(S)
           /\ Len(SubSeq(p, 1, n)) = n
           /\ DOMAIN SubSeq(p, 1, n) = 1..n
           /\ \A i \in 1..n : SubSeq(p, 1, n)[i] = p[i]
<1>1. n \in Int /\ Len(p) \in Nat /\ n \in Nat
    BY LenProperties
<1>2. \A i \in 1..n : p[i] \in S
    BY <1>1, ElementOfSeq
<1>3. /\ SubSeq(p, 1, n) \in Seq(S)
      /\ Len(SubSeq(p, 1, n)) = IF 1 <= n THEN n - 1 + 1 ELSE 0
      /\ \A i \in 1..(n - 1 + 1) : SubSeq(p, 1, n)[i] = p[1 + i - 1]
    BY <1>1, <1>2, SubSeqProperties
<1>4. Len(SubSeq(p, 1, n)) = n
    BY <1>1, <1>3
<1>5. \A i \in 1..n : SubSeq(p, 1, n)[i] = p[i]
    BY <1>1, <1>3
<1> QED BY <1>3, <1>4, <1>5, LenProperties

LEMMA Remainder ==
    ASSUME NEW S, NEW p \in Seq(S), NEW n \in 0..Len(p)
    PROVE  /\ SubSeq(p, n + 1, Len(p)) \in Seq(S)
           /\ Len(SubSeq(p, n + 1, Len(p))) = Len(p) - n
           /\ DOMAIN SubSeq(p, n + 1, Len(p)) = 1..(Len(p) - n)
           /\ \A i \in 1..(Len(p) - n) : SubSeq(p, n + 1, Len(p))[i] = p[n + i]
<1> DEFINE r == SubSeq(p, n + 1, Len(p))
<1>1. n + 1 \in Int /\ Len(p) \in Nat /\ Len(p) \in Int /\ n \in Nat
    BY LenProperties
<1>2. \A i \in (n + 1)..Len(p) : p[i] \in S
    BY <1>1, ElementOfSeq
<1>3. /\ r \in Seq(S)
      /\ Len(r) = IF n + 1 <= Len(p) THEN Len(p) - (n + 1) + 1 ELSE 0
      /\ \A i \in 1..(Len(p) - (n + 1) + 1) : r[i] = p[(n + 1) + i - 1]
    BY <1>1, <1>2, SubSeqProperties
<1> HIDE DEF r
<1>4. Len(r) = Len(p) - n
    BY <1>1, <1>3
<1>5. \A i \in 1..(Len(p) - n) : r[i] = p[n + i]
  <2>1. ASSUME NEW i \in 1..(Len(p) - n) PROVE r[i] = p[n + i]
    <3>1. i \in 1..(Len(p) - (n + 1) + 1) /\ (n + 1) + i - 1 = n + i
        BY <1>1
    <3> QED BY <1>3, <3>1
  <2> QED BY <2>1
<1>6. DOMAIN r = 1..Len(r)
    BY <1>3, LenProperties
<1> QED BY <1>3, <1>4, <1>5, <1>6 DEF r

(* The product of hops that two paths share is the same. *)
LEMMA SharedProduct ==
    ASSUME NEW p \in Seq(RouteHop), NEW q \in Seq(RouteHop), NEW n \in Nat,
           NEW N \in Nat, n + N <= Len(p), N <= Len(q),
           \A i \in 1..N : q[i] = p[n + i]
    PROVE  Products(p)[n + N] = Products(p)[n] + Products(q)[N]
<1> DEFINE T == {m \in Nat : Products(p)[n + m] = Products(p)[n] + Products(q)[m]}
<1>1. Len(p) \in Nat /\ Len(q) \in Nat
    BY LenProperties
<1>2. /\ Products(q)[0] = 0
      /\ \A i \in 1..Len(p) : Products(p)[i] = Products(p)[i - 1] + p[i].rate
      /\ \A i \in 1..Len(q) : Products(q)[i] = Products(q)[i - 1] + q[i].rate
      /\ \A i \in 0..Len(p) : Products(p)[i] \in Int
      /\ \A i \in 0..Len(q) : Products(q)[i] \in Int
    BY ProductsByHop
<1>3. \A i \in 1..Len(p) : p[i].rate \in Int
  <2>1. \A i \in 1..Len(p) : p[i] \in RouteHop
      BY ElementOfSeq
  <2> QED BY <2>1 DEF RouteHop
<1>4. 0 \in T
  <2>1. n \in 0..Len(p)
      BY <1>1
  <2>2. Products(p)[n] \in Int
      BY <1>2, <2>1
  <2> QED BY <1>2, <2>2
<1>5. ASSUME NEW m \in 1..N, m - 1 \in T PROVE m \in T
  <2>1. /\ n + m \in 1..Len(p) /\ (n + m) - 1 = n + (m - 1) /\ m \in 1..Len(q)
        /\ n + (m - 1) \in 0..Len(p) /\ m - 1 \in 0..Len(q) /\ n \in 0..Len(p)
      BY <1>1
  <2>2. Products(p)[n + m] = Products(p)[n + (m - 1)] + p[n + m].rate
      BY <1>2, <2>1
  <2>3. Products(q)[m] = Products(q)[m - 1] + p[n + m].rate
      BY <1>2, <2>1
  <2>4. Products(p)[n + (m - 1)] = Products(p)[n] + Products(q)[m - 1]
      BY <1>5
  <2>5. /\ Products(p)[n] \in Int /\ Products(q)[m - 1] \in Int
        /\ p[n + m].rate \in Int
      BY <1>2, <1>3, <2>1
  <2>6. Products(p)[n + m] = Products(p)[n] + Products(q)[m]
      BY <2>2, <2>3, <2>4, <2>5
  <2> QED BY <2>6
<1>6. N \in T
  <2> HIDE DEF T
  <2>1. 0..N \subseteq T
      BY <1>4, <1>5, UpTo
  <2> QED BY <2>1
<1> QED BY <1>6

(* The product of a path is that of a beginning times that of the rest. *)
LEMMA ProductSplit ==
    ASSUME NEW p \in Seq(RouteHop), NEW n \in 0..Len(p)
    PROVE  /\ Product(p) = Product(SubSeq(p, 1, n))
                           + Product(SubSeq(p, n + 1, Len(p)))
           /\ Product(SubSeq(p, 1, n)) \in Int
           /\ Product(SubSeq(p, n + 1, Len(p))) \in Int
<1> DEFINE a == SubSeq(p, 1, n)
           r == SubSeq(p, n + 1, Len(p))
<1>1. /\ a \in Seq(RouteHop) /\ Len(a) = n /\ \A i \in 1..n : a[i] = p[i]
    BY Beginning
<1>2. /\ r \in Seq(RouteHop) /\ Len(r) = Len(p) - n
      /\ \A i \in 1..(Len(p) - n) : r[i] = p[n + i]
    BY Remainder
<1>3. Len(p) \in Nat /\ n \in Nat /\ Len(p) - n \in Nat /\ n + (Len(p) - n) = Len(p)
    BY LenProperties
<1>4. Products(p)[0] = 0 /\ Product(a) \in Int /\ Product(r) \in Int
    BY <1>1, <1>2, ProductsByHop
<1> HIDE DEF a, r
<1>5. Products(p)[0 + n] = Products(p)[0] + Products(a)[n]
  <2>1. 0 \in Nat /\ 0 + n <= Len(p) /\ n <= Len(a) /\ \A i \in 1..n : a[i] = p[0 + i]
      BY <1>1, <1>3
  <2> QED BY <1>1, <1>3, <2>1, SharedProduct
<1>6. Products(p)[n + (Len(p) - n)] = Products(p)[n] + Products(r)[Len(p) - n]
  <2>1. n + (Len(p) - n) <= Len(p) /\ Len(p) - n <= Len(r)
      BY <1>2, <1>3
  <2> QED BY <1>2, <1>3, <2>1, SharedProduct
<1>7. Product(p) = Product(a) + Product(r)
    BY <1>1, <1>2, <1>3, <1>4, <1>5, <1>6 DEF Product
<1> QED BY <1>4, <1>7 DEF a, r

(* The paths that a path grows from. *)
LEMMA SimpleAppend ==
    ASSUME NEW E, NEW q \in Seq(E), NEW e \in E
    PROVE  Append(q, e) \in SimpleWalks(E) <=>
               /\ q \in SimpleWalks(E)
               /\ e.source = End(q)
               /\ e.target \notin Visited(q)
<1> DEFINE p == Append(q, e)
<1>1. /\ p \in Seq(E) /\ Len(p) = Len(q) + 1
      /\ \A i \in 1..Len(q) : p[i] = q[i]
      /\ p[Len(q) + 1] = e
    BY AppendProperties
<1>2. /\ Len(q) \in Nat /\ DOMAIN q = 1..Len(q) /\ DOMAIN p = 1..(Len(q) + 1)
      /\ (q = <<>> <=> Len(q) = 0)
    BY <1>1, LenProperties, EmptySeq
<1> HIDE DEF p
<1>3. ASSUME p \in SimpleWalks(E)
      PROVE  q \in SimpleWalks(E) /\ e.source = End(q) /\ e.target \notin Visited(q)
  <2>1. /\ \A i \in 1..(Len(q) + 1) :
               p[i].source = IF i = 1 THEN USD ELSE p[i - 1].target
        /\ \A i \in 1..(Len(q) + 1) : p[i].target # USD
        /\ \A i, j \in 1..(Len(q) + 1) : p[i].target = p[j].target => i = j
      BY <1>2, <1>3 DEF SimpleWalks, IsWalk
  <2>2. ASSUME NEW i \in DOMAIN q
        PROVE  /\ q[i].source = IF i = 1 THEN USD ELSE q[i - 1].target
               /\ q[i].target # USD
               /\ q[i].target # e.target
               /\ \A j \in DOMAIN q : q[i].target = q[j].target => i = j
    <3>1. /\ i \in 1..Len(q) /\ i \in 1..(Len(q) + 1) /\ i # Len(q) + 1
          /\ (i # 1 => i - 1 \in 1..Len(q))
          /\ \A j \in 1..Len(q) : j \in 1..(Len(q) + 1)
        BY <1>2
    <3> QED BY <1>1, <1>2, <2>1, <3>1
  <2>3. e.source = End(q) /\ e.target # USD
    <3>1. Len(q) + 1 \in 1..(Len(q) + 1) /\ (Len(q) + 1) - 1 = Len(q)
        BY <1>2
    <3>2. e.source = IF Len(q) + 1 = 1 THEN USD ELSE p[Len(q)].target
        BY <1>1, <2>1, <3>1
    <3>3. CASE q = <<>>
        BY <1>2, <3>2, <3>3, <1>1, <2>1, <3>1 DEF End
    <3>4. CASE q # <<>>
      <4>1. Len(q) \in 1..Len(q) /\ Len(q) + 1 # 1
          BY <1>2, <3>4
      <4> QED BY <1>1, <2>1, <3>1, <3>2, <3>4, <4>1 DEF End
    <3> QED BY <3>3, <3>4
  <2>4. IsWalk(q, USD)
      BY <2>2 DEF IsWalk
  <2> QED BY <2>2, <2>3, <2>4 DEF SimpleWalks, Visited
<1>4. ASSUME q \in SimpleWalks(E), e.source = End(q), e.target \notin Visited(q)
      PROVE  p \in SimpleWalks(E)
  <2>1. /\ \A i \in 1..Len(q) :
               q[i].source = IF i = 1 THEN USD ELSE q[i - 1].target
        /\ \A i \in 1..Len(q) : q[i].target # USD /\ q[i].target # e.target
        /\ \A i, j \in 1..Len(q) : q[i].target = q[j].target => i = j
        /\ e.target # USD
      BY <1>2, <1>4 DEF SimpleWalks, IsWalk, Visited
  <2>2. ASSUME NEW i \in 1..(Len(q) + 1)
        PROVE  p[i].source = IF i = 1 THEN USD ELSE p[i - 1].target
    <3>1. CASE i \in 1..Len(q)
      <4>1. i # 1 => i - 1 \in 1..Len(q)
          BY <1>2, <3>1
      <4> QED BY <1>1, <2>1, <3>1, <4>1
    <3>2. CASE i = Len(q) + 1 /\ q = <<>>
        BY <1>1, <1>2, <1>4, <3>2 DEF End
    <3>3. CASE i = Len(q) + 1 /\ q # <<>>
      <4>1. Len(q) \in 1..Len(q) /\ i # 1 /\ i - 1 = Len(q)
          BY <1>2, <3>3
      <4> QED BY <1>1, <1>4, <3>3, <4>1 DEF End
    <3> QED BY <1>2, <3>1, <3>2, <3>3
  <2>3. /\ \A i \in 1..(Len(q) + 1) : p[i].target # USD
        /\ \A i, j \in 1..(Len(q) + 1) : p[i].target = p[j].target => i = j
    <3>1. \A i \in 1..(Len(q) + 1) : i \in 1..Len(q) \/ i = Len(q) + 1
        BY <1>2
    <3> QED BY <1>1, <2>1, <3>1
  <2> QED BY <1>1, <1>2, <2>2, <2>3 DEF SimpleWalks, IsWalk
<1> QED BY <1>3, <1>4 DEF p

LEMMA SimpleBeginning ==
    ASSUME NEW E, NEW p \in SimpleWalks(E), NEW n \in 0..Len(p)
    PROVE  SubSeq(p, 1, n) \in SimpleWalks(E)
<1> DEFINE a == SubSeq(p, 1, n)
<1>1. /\ p \in Seq(E) /\ DOMAIN p = 1..Len(p) /\ Len(p) \in Nat
    BY LenProperties DEF SimpleWalks
<1>2. /\ a \in Seq(E) /\ DOMAIN a = 1..n /\ \A i \in 1..n : a[i] = p[i]
    BY <1>1, Beginning
<1>3. \A i \in 1..n : i \in 1..Len(p) /\ (i # 1 => i - 1 \in 1..n)
    BY <1>1
<1> HIDE DEF a
<1>4. /\ \A i \in 1..Len(p) : p[i].source = IF i = 1 THEN USD ELSE p[i - 1].target
      /\ \A i \in 1..Len(p) : p[i].target # USD
      /\ \A i, j \in 1..Len(p) : p[i].target = p[j].target => i = j
    BY <1>1 DEF SimpleWalks, IsWalk
<1>5. \A i \in 1..n : a[i].source = IF i = 1 THEN USD ELSE a[i - 1].target
    BY <1>2, <1>3, <1>4
<1>6. /\ \A i \in 1..n : a[i].target # USD
      /\ \A i, j \in 1..n : a[i].target = a[j].target => i = j
    BY <1>2, <1>3, <1>4
<1> QED BY <1>2, <1>5, <1>6 DEF SimpleWalks, IsWalk, a

(* A path that returns nowhere has no more hops than there are rounds
   (routing.py 116). *)
LEMMA SimpleLength ==
    ASSUME NEW E, EdgeSet(E), NEW p \in SimpleWalks(E)
    PROVE  Len(p) <= Rounds
<1> DEFINE f == [i \in 1..Len(p) |-> p[i].target]
           Targets == Currency \ {USD}
<1>1. p \in Seq(E) /\ Len(p) \in Nat /\ DOMAIN p = 1..Len(p)
    BY LenProperties DEF SimpleWalks
<1>2. \A i \in 1..Len(p) : p[i].target \in Targets
  <2>1. \A i \in 1..Len(p) : p[i] \in RouteHop
      BY <1>1, ElementOfSeq DEF EdgeSet
  <2> QED BY <1>1, <2>1 DEF SimpleWalks, RouteHop
<1>3. f \in Injection(1..Len(p), Targets)
    BY <1>1, <1>2 DEF Injection, IsInjective, SimpleWalks
<1>4. IsFiniteSet(Targets) /\ Cardinality(Targets) = Rounds
    BY RoutingAssumption, FS_RemoveElement DEF Rounds
<1>5. Cardinality(1..Len(p)) = Len(p)
    BY <1>1, FS_Interval
<1> HIDE DEF f, Targets
<1> QED BY <1>3, <1>4, <1>5, FS_Injection

\* The step of the recursion of SimplePaths.
Grown(paths, E) ==
    paths \cup
    {Append(pe[1], pe[2]) :
        pe \in {qf \in paths \X E : /\ qf[2].source = End(qf[1])
                                    /\ qf[2].target \notin Visited(qf[1])}}

PathsUpTo(s, E) ==
    s = [k \in 0..Rounds |-> IF k = 0 THEN {<<>>} ELSE Grown(s[k - 1], E)]

ShortWalks(E, n) == {p \in SimpleWalks(E) : Len(p) <= n}

LEMMA NoHopIsSimple ==
    ASSUME NEW E
    PROVE  <<>> \in SimpleWalks(E) /\ Len(<<>>) = 0 /\ End(<<>>) = USD
<1>1. <<>> \in Seq(E) /\ Len(<<>>) = 0 /\ DOMAIN <<>> = {}
    BY EmptySeq
<1> QED BY <1>1 DEF SimpleWalks, IsWalk, End

LEMMA GrownWalks ==
    ASSUME NEW E, NEW n \in Nat \ {0}
    PROVE  Grown(ShortWalks(E, n - 1), E) = ShortWalks(E, n)
<1>1. ASSUME NEW p \in ShortWalks(E, n - 1) PROVE p \in ShortWalks(E, n)
  <2>1. Len(p) \in Nat
      BY LenProperties DEF ShortWalks, SimpleWalks
  <2> QED BY <2>1 DEF ShortWalks
<1>2. ASSUME NEW q \in ShortWalks(E, n - 1), NEW e \in E,
             e.source = End(q), e.target \notin Visited(q)
      PROVE  Append(q, e) \in ShortWalks(E, n)
  <2>1. q \in SimpleWalks(E) /\ q \in Seq(E) /\ Len(q) <= n - 1 /\ Len(q) \in Nat
      BY LenProperties DEF ShortWalks, SimpleWalks
  <2>2. Append(q, e) \in SimpleWalks(E) /\ Len(Append(q, e)) = Len(q) + 1
      BY <1>2, <2>1, SimpleAppend, AppendProperties
  <2>3. Len(Append(q, e)) <= n
      BY <2>1, <2>2
  <2> QED BY <2>2, <2>3 DEF ShortWalks
<1>3. ASSUME NEW p \in ShortWalks(E, n) PROVE p \in Grown(ShortWalks(E, n - 1), E)
  <2>1. p \in SimpleWalks(E) /\ p \in Seq(E) /\ Len(p) <= n /\ Len(p) \in Nat
      BY LenProperties DEF ShortWalks, SimpleWalks
  <2>2. CASE p = <<>>
    <3>1. p \in ShortWalks(E, n - 1)
        BY <2>1, <2>2, NoHopIsSimple DEF ShortWalks
    <3> QED BY <3>1 DEF Grown
  <2>3. CASE p # <<>>
    <3>1. PICK q \in Seq(E), e \in E : p = Append(q, e)
        BY <2>1, <2>3, SequenceEmptyOrAppend
    <3>2. /\ q \in SimpleWalks(E) /\ e.source = End(q) /\ e.target \notin Visited(q)
          /\ Len(p) = Len(q) + 1 /\ Len(q) \in Nat
        BY <2>1, <3>1, SimpleAppend, AppendProperties, LenProperties
    <3>3. q \in ShortWalks(E, n - 1)
        BY <2>1, <3>2 DEF ShortWalks
    <3>4. <<q, e>> \in {qf \in ShortWalks(E, n - 1) \X E :
                            /\ qf[2].source = End(qf[1])
                            /\ qf[2].target \notin Visited(qf[1])}
        BY <3>2, <3>3
    <3> QED BY <3>1, <3>4 DEF Grown
  <2> QED BY <2>2, <2>3
<1>4. ASSUME NEW p \in Grown(ShortWalks(E, n - 1), E) PROVE p \in ShortWalks(E, n)
  <2>1. CASE p \in ShortWalks(E, n - 1)
      BY <1>1, <2>1
  <2>2. CASE p \notin ShortWalks(E, n - 1)
    <3>1. PICK q \in ShortWalks(E, n - 1), e \in E :
              /\ e.source = End(q) /\ e.target \notin Visited(q)
              /\ p = Append(q, e)
        BY <1>4, <2>2 DEF Grown
    <3> QED BY <1>2, <3>1
  <2> QED BY <2>1, <2>2
<1> QED BY <1>3, <1>4

LEMMA PathsByRound ==
    ASSUME NEW E, NEW s, PathsUpTo(s, E)
    PROVE  s[Rounds] = ShortWalks(E, Rounds)
<1> DEFINE T == {n \in Nat : s[n] = ShortWalks(E, n)}
<1>1. \A n \in 0..Rounds : s[n] = IF n = 0 THEN {<<>>} ELSE Grown(s[n - 1], E)
    BY DEF PathsUpTo
<1>2. Rounds \in Nat /\ Rounds \in 0..Rounds /\ 0 \in 0..Rounds
    BY RoundsIsNatural
<1>3. 0 \in T
  <2>1. ASSUME NEW p \in ShortWalks(E, 0) PROVE p = <<>>
    <3>1. p \in Seq(E) /\ Len(p) <= 0
        BY DEF ShortWalks, SimpleWalks
    <3> QED BY <3>1, EmptySeq
  <2>2. <<>> \in ShortWalks(E, 0)
      BY NoHopIsSimple DEF ShortWalks
  <2>3. ShortWalks(E, 0) = {<<>>}
      BY <2>1, <2>2
  <2> QED BY <1>1, <1>2, <2>3
<1>4. ASSUME NEW n \in 1..Rounds, n - 1 \in T PROVE n \in T
  <2>1. n \in 0..Rounds /\ n # 0 /\ n \in Nat \ {0}
      BY <1>2
  <2>2. s[n] = Grown(s[n - 1], E)
      BY <1>1, <2>1
  <2>3. s[n - 1] = ShortWalks(E, n - 1)
      BY <1>4
  <2>4. s[n] = ShortWalks(E, n)
      BY <2>1, <2>2, <2>3, GrownWalks
  <2> QED BY <2>1, <2>4
<1>5. Rounds \in T
  <2> HIDE DEF T
  <2>1. 0..Rounds \subseteq T
      BY <1>2, <1>3, <1>4, UpTo
  <2> QED BY <1>2, <2>1
<1> QED BY <1>5

LEMMA PathsAreDefined ==
    ASSUME NEW E
    PROVE  PathsUpTo([k \in 0..Rounds |-> ShortWalks(E, k)], E)
<1> DEFINE s == [k \in 0..Rounds |-> ShortWalks(E, k)]
<1>1. Rounds \in Nat
    BY RoundsIsNatural
<1>2. ASSUME NEW k \in 0..Rounds
      PROVE  s[k] = IF k = 0 THEN {<<>>} ELSE Grown(s[k - 1], E)
  <2>1. CASE k = 0
    <3>1. ASSUME NEW p \in ShortWalks(E, 0) PROVE p = <<>>
      <4>1. p \in Seq(E) /\ Len(p) <= 0
          BY DEF ShortWalks, SimpleWalks
      <4> QED BY <4>1, EmptySeq
    <3>2. <<>> \in ShortWalks(E, 0)
        BY NoHopIsSimple DEF ShortWalks
    <3>3. ShortWalks(E, 0) = {<<>>}
        BY <3>1, <3>2
    <3> QED BY <2>1, <3>3
  <2>2. CASE k # 0
    <3>1. k \in Nat \ {0} /\ k - 1 \in 0..Rounds
        BY <1>1, <2>2
    <3>2. s[k] = ShortWalks(E, k) /\ s[k - 1] = ShortWalks(E, k - 1)
        BY <3>1
    <3> HIDE DEF s
    <3> QED BY <2>2, <3>1, <3>2, GrownWalks
  <2> HIDE DEF s
  <2> QED BY <2>1, <2>2
<1>3. s = [k \in 0..Rounds |-> s[k]]
    OBVIOUS
<1> HIDE DEF s
<1> QED BY <1>2, <1>3 DEF PathsUpTo, s

(* The reference of RouteSearch is what it says: the walks from USD that come to
   no currency twice, all of them. *)
LEMMA SimplePathsAreWalks ==
    ASSUME EdgeSet(edges)
    PROVE  SimplePaths = SimpleWalks(edges)
<1> DEFINE s == CHOOSE s : PathsUpTo(s, edges)
<1>1. \E t : PathsUpTo(t, edges)
    BY PathsAreDefined
<1>2. PathsUpTo(s, edges)
    BY <1>1
<1>3. SimplePaths = s[Rounds]
    BY DEF SimplePaths, PathsUpTo, Grown
<1> HIDE DEF s
<1>4. SimplePaths = ShortWalks(edges, Rounds)
    BY <1>2, <1>3, PathsByRound
<1>5. ShortWalks(edges, Rounds) = SimpleWalks(edges)
    BY SimpleLength DEF ShortWalks
<1> QED BY <1>4, <1>5

-----------------------------------------------------------------------------
(* Rounds cover paths *)

\* What a path would offer.
Chain(p) == [rate |-> Product(p), hops |-> p]

LEMMA ChainIsCandidate ==
    ASSUME NEW E, EdgeSet(E), NEW p \in Seq(E)
    PROVE  p \in Seq(RouteHop) /\ Chain(p) \in Candidate
<1>1. p \in Seq(RouteHop)
    BY SeqMonotonic DEF EdgeSet
<1> QED BY <1>1, ProductsByHop DEF Chain, Candidate

LEMMA AsGoodAsIsNotWorse ==
    ASSUME NEW x \in Candidate, NEW p \in Seq(RouteHop)
    PROVE  AsGoodAs(x, p) <=> ~IsBetter(Chain(p), x)
<1>1. x.rate \in Int /\ Product(p) \in Int
    BY ProductsByHop DEF Candidate
<1> QED BY <1>1 DEF AsGoodAs, IsBetter, Chain

\* The candidates are as good as every simple path of at most n hops.
Covers(b, E, n) ==
    \A p \in SimpleWalks(E) :
        Len(p) <= n => End(p) \in DOMAIN b /\ ~IsBetter(Chain(p), b[End(p)])

EarnedTable(b, E, n) == Table(b) /\ \A c \in DOMAIN b : Earned(b[c], c, E, n)

(* A round leaves no currency with less (routing.py 95, 102). *)
LEMMA RelaxKeeps ==
    ASSUME NEW b, Table(b), NEW E, EdgeSet(E), NEW c \in DOMAIN b
    PROVE  c \in DOMAIN Relax(b, E) /\ ~IsBetter(b[c], Relax(b, E)[c])
<1>1. c \in Reached(b, E) /\ b[c] \in Offers(b, E, c)
    BY DEF Reached, Offers
<1> QED BY <1>1, RelaxDomain, RelaxTakesTheBest

(* A candidate for the end of a simple path is not a beginning of it. *)
LEMMA EndsOnce ==
    ASSUME NEW E, EdgeSet(E), NEW q \in SimpleWalks(E), NEW h \in Seq(E),
           End(h) = End(q)
    PROVE  ~HopsBegin(h, q)
<1> SUFFICES ASSUME HopsBegin(h, q) PROVE FALSE
    OBVIOUS
<1>1. /\ Len(h) \in Nat /\ Len(q) \in Nat /\ q \in Seq(E)
      /\ DOMAIN h = 1..Len(h) /\ DOMAIN q = 1..Len(q)
      /\ Len(h) < Len(q) /\ \A i \in DOMAIN h : h[i].target = q[i].target
      /\ (h = <<>> <=> Len(h) = 0) /\ (q = <<>> <=> Len(q) = 0)
    BY LenProperties, EmptySeq DEF SimpleWalks, HopsBegin, SameKey
<1>2. Len(h) \in Nat /\ Len(q) \in Nat /\ Len(h) < Len(q)
    BY <1>1
<1>3. q # <<>> /\ Len(q) \in DOMAIN q /\ End(q) = q[Len(q)].target
    BY <1>1 DEF End
<1>4. CASE h = <<>>
    BY <1>3, <1>4 DEF End, SimpleWalks
<1>5. CASE h # <<>>
  <2>1. Len(h) # 0
      BY <1>1, <1>5
  <2>2. Len(h) \in 1..Len(h) /\ Len(h) \in 1..Len(q) /\ Len(h) # Len(q)
      BY <1>2, <2>1
  <2>3. q[Len(h)].target = q[Len(q)].target
      BY <1>1, <1>3, <1>5, <2>2 DEF End
  <2> QED BY <1>1, <1>3, <2>2, <2>3 DEF SimpleWalks
<1> QED BY <1>4, <1>5

(* A round covers the paths with one hop more (routing.py 92-104). *)
LEMMA CoversMore ==
    ASSUME NEW E, EdgeSet(E), NEW b, NEW m \in Nat, EarnedTable(b, E, m),
           NEW n \in Nat, Covers(b, E, n)
    PROVE  Covers(Relax(b, CollapsedEdges(E)), E, n + 1)
<1> DEFINE C == CollapsedEdges(E)
           R == Relax(b, C)
<1>1. EdgeSet(C) /\ C \subseteq E /\ Table(b) /\ Table(R)
    BY CollapsedIsEdgeSet, RelaxTable DEF EarnedTable
<1>2. ASSUME NEW p \in SimpleWalks(E), Len(p) <= n
      PROVE  End(p) \in DOMAIN R /\ ~IsBetter(Chain(p), R[End(p)])
  <2>1. End(p) \in DOMAIN b /\ ~IsBetter(Chain(p), b[End(p)])
      BY <1>2 DEF Covers
  <2>2. End(p) \in DOMAIN R /\ ~IsBetter(b[End(p)], R[End(p)])
      BY <1>1, <2>1, RelaxKeeps
  <2>3. Chain(p) \in Candidate /\ b[End(p)] \in Candidate /\ R[End(p)] \in Candidate
      BY <1>1, <2>1, <2>2, ChainIsCandidate DEF Table, SimpleWalks
  <2> HIDE DEF R
  <2> QED BY <2>1, <2>2, <2>3, NoBetterInTurn
<1>3. ASSUME NEW p \in SimpleWalks(E), p # <<>>, Len(p) <= n + 1
      PROVE  End(p) \in DOMAIN R /\ ~IsBetter(Chain(p), R[End(p)])
  <2>1. PICK q \in Seq(E), f \in E : p = Append(q, f)
      BY <1>3, SequenceEmptyOrAppend DEF SimpleWalks
  <2>2. q \in SimpleWalks(E) /\ f.source = End(q)
      BY <2>1, SimpleAppend
  <2>3. Len(q) <= n /\ End(p) = f.target
    <3>1. Len(p) = Len(q) + 1 /\ Len(q) \in Nat /\ p[Len(q) + 1] = f
        BY <2>1, AppendProperties, LenProperties
    <3> QED BY <1>3, <3>1 DEF End
  <2>4. End(q) \in DOMAIN b /\ ~IsBetter(Chain(q), b[End(q)])
      BY <2>2, <2>3 DEF Covers
  <2> DEFINE x == Chain(q)
             y == b[End(q)]
  <2>5. PICK e \in C : /\ e.source = f.source /\ e.target = f.target /\ f.rate <= e.rate
                       /\ f.rate < e.rate \/ e.lp <= f.lp
      BY CollapsedKeepsTheBest
  <2>6. /\ x \in Candidate /\ y \in Candidate /\ q \in Seq(RouteHop)
        /\ f \in RouteHop /\ e \in RouteHop
      BY <1>1, <2>4, ChainIsCandidate DEF Table, EdgeSet
  <2>7. ~HopsBegin(y.hops, x.hops)
    <3>1. End(y.hops) = End(q) /\ \A i \in DOMAIN y.hops : y.hops[i] \in E
        BY <2>4 DEF EarnedTable, Earned
    <3>2. y.hops \in Seq(RouteHop)
        BY <2>6 DEF Candidate
    <3>3. y.hops \in Seq(E)
        BY <3>1, <3>2
    <3>4. x.hops = q
        BY DEF Chain
    <3> QED BY <2>2, <3>1, <3>3, <3>4, EndsOnce
  <2>8. ~IsBetter(Extend(x, f), Extend(y, e))
      BY <2>4, <2>5, <2>6, <2>7, ExtendsNoWorse
  <2>9. Extend(x, f) = Chain(p)
      BY <2>1, <2>6, ProductOfAppend DEF Extend, Chain
  <2>10. End(p) \in Reached(b, C) /\ Extend(y, e) \in Offers(b, C, End(p))
      BY <2>2, <2>3, <2>4, <2>5 DEF Reached, Offers
  <2>11. End(p) \in DOMAIN R /\ ~IsBetter(Extend(y, e), R[End(p)]) /\ R[End(p)] \in Candidate
      BY <1>1, <2>10, RelaxDomain, RelaxTakesTheBest
  <2>12. Chain(p) \in Candidate /\ Extend(y, e) \in Candidate
      BY <2>6, ChainIsCandidate, ExtendType DEF SimpleWalks
  <2> HIDE DEF R, x, y
  <2> QED BY <2>8, <2>9, <2>11, <2>12, NoBetterInTurn
<1>4. ASSUME NEW p \in SimpleWalks(E), Len(p) <= n + 1
      PROVE  End(p) \in DOMAIN R /\ ~IsBetter(Chain(p), R[End(p)])
  <2>1. p = <<>> => Len(p) <= n
      BY NoHopIsSimple
  <2> QED BY <1>2, <1>3, <1>4, <2>1
<1> QED BY <1>4 DEF Covers

-----------------------------------------------------------------------------
(* Candidates and their beginnings *)

\* Every beginning of a chain was offered to the currency it leads to.
BeginningsKept(h, b) ==
    \A n \in 0..Len(h) :
        LET a == SubSeq(h, 1, n)
        IN  End(a) \in DOMAIN b /\ ~IsBetter(Chain(a), b[End(a)])

PrefixesKept(b) == \A c \in DOMAIN b : BeginningsKept(b[c].hops, b)

LEMMA RelaxCases ==
    ASSUME NEW b, Table(b), NEW E, EdgeSet(E), NEW c \in DOMAIN Relax(b, E)
    PROVE  \/ c \in DOMAIN b /\ Relax(b, E)[c] = b[c]
           \/ \E e \in E : /\ e.source \in DOMAIN b /\ e.target = c
                           /\ Relax(b, E)[c] = Extend(b[e.source], e)
<1>1. Relax(b, E)[c] \in Offers(b, E, c)
    BY RelaxDomain, RelaxTakesTheBest
<1> QED BY <1>1 DEF Offers

LEMMA EarnedHops ==
    ASSUME NEW b, NEW E, NEW m, EarnedTable(b, E, m), NEW c \in DOMAIN b
    PROVE  /\ b[c].hops \in Seq(E) /\ End(b[c].hops) = c
           /\ b[c] = Chain(b[c].hops) /\ b[c] \in Candidate
<1>1. /\ b[c] \in Candidate /\ b[c].hops \in Seq(RouteHop)
      /\ b[c] = [rate |-> b[c].rate, hops |-> b[c].hops]
      /\ \A i \in DOMAIN b[c].hops : b[c].hops[i] \in E
      /\ b[c].rate = Product(b[c].hops) /\ End(b[c].hops) = c
    BY DEF EarnedTable, Table, Earned, Candidate
<1>2. b[c].hops \in Seq(E)
    BY <1>1
<1> QED BY <1>1, <1>2 DEF Chain

LEMMA BeginningsStayKept ==
    ASSUME NEW E, EdgeSet(E), NEW b, Table(b), NEW h \in Seq(E), BeginningsKept(h, b)
    PROVE  BeginningsKept(h, Relax(b, CollapsedEdges(E)))
<1> DEFINE C == CollapsedEdges(E)
           R == Relax(b, C)
<1>1. EdgeSet(C) /\ Table(R)
    BY CollapsedIsEdgeSet, RelaxTable
<1>2. ASSUME NEW n \in 0..Len(h), NEW a, a = SubSeq(h, 1, n)
      PROVE  End(a) \in DOMAIN R /\ ~IsBetter(Chain(a), R[End(a)])
  <2>1. End(a) \in DOMAIN b /\ ~IsBetter(Chain(a), b[End(a)])
      BY <1>2 DEF BeginningsKept
  <2>2. End(a) \in DOMAIN R /\ ~IsBetter(b[End(a)], R[End(a)])
      BY <1>1, <2>1, RelaxKeeps
  <2>3. Chain(a) \in Candidate /\ b[End(a)] \in Candidate /\ R[End(a)] \in Candidate
      BY <1>1, <1>2, <2>1, <2>2, Beginning, ChainIsCandidate DEF Table
  <2> HIDE DEF R
  <2> QED BY <2>1, <2>2, <2>3, NoBetterInTurn
<1> HIDE DEF R
<1> QED BY <1>2 DEF BeginningsKept, R, C

LEMMA AppendBeginning ==
    ASSUME NEW E, NEW q \in Seq(E), NEW e \in E, NEW n \in 0..Len(q)
    PROVE  SubSeq(Append(q, e), 1, n) = SubSeq(q, 1, n)
<1> DEFINE p == Append(q, e)
<1>1. /\ p \in Seq(E) /\ Len(p) = Len(q) + 1 /\ Len(q) \in Nat
      /\ \A i \in 1..Len(q) : p[i] = q[i]
    BY AppendProperties, LenProperties
<1> HIDE DEF p
<1>2. n \in 0..Len(p) /\ \A i \in 1..n : i \in 1..Len(q)
    BY <1>1
<1>3. /\ SubSeq(p, 1, n) \in Seq(E) /\ Len(SubSeq(p, 1, n)) = n
      /\ \A i \in 1..n : SubSeq(p, 1, n)[i] = p[i]
    BY <1>1, <1>2, Beginning
<1>4. /\ SubSeq(q, 1, n) \in Seq(E) /\ Len(SubSeq(q, 1, n)) = n
      /\ \A i \in 1..n : SubSeq(q, 1, n)[i] = q[i]
    BY Beginning
<1>5. \A i \in 1..Len(SubSeq(p, 1, n)) : SubSeq(p, 1, n)[i] = SubSeq(q, 1, n)[i]
    BY <1>1, <1>2, <1>3, <1>4
<1>6. SubSeq(p, 1, n) = SubSeq(q, 1, n)
    BY <1>3, <1>4, <1>5, SeqEqual
<1> QED BY <1>6 DEF p

(* What a candidate passed through keeps up with it: a round offers the same
   hops to the currencies on its way first (routing.py 92-104). *)
LEMMA PrefixesStayKept ==
    ASSUME NEW E, EdgeSet(E), NEW b, NEW m \in Nat, EarnedTable(b, E, m),
           PrefixesKept(b)
    PROVE  PrefixesKept(Relax(b, CollapsedEdges(E)))
<1> DEFINE C == CollapsedEdges(E)
           R == Relax(b, C)
<1>1. EdgeSet(C) /\ C \subseteq E /\ Table(b) /\ Table(R)
    BY CollapsedIsEdgeSet, RelaxTable DEF EarnedTable
<1>2. EarnedTable(R, E, m + 1)
    BY <1>1, RelaxIsEarned DEF EarnedTable
<1>3. ASSUME NEW c \in DOMAIN R, c \in DOMAIN b, R[c] = b[c]
      PROVE  BeginningsKept(R[c].hops, R)
  <2>1. BeginningsKept(b[c].hops, b) /\ b[c].hops \in Seq(E)
      BY <1>3, EarnedHops DEF PrefixesKept
  <2> QED BY <1>1, <1>3, <2>1, BeginningsStayKept
<1>4. ASSUME NEW c \in DOMAIN R, NEW e \in C, e.source \in DOMAIN b,
             R[c] = Extend(b[e.source], e)
      PROVE  BeginningsKept(R[c].hops, R)
  <2> DEFINE q == b[e.source].hops
             p == R[c].hops
  <2>1. q \in Seq(E) /\ BeginningsKept(q, b) /\ e \in E
      BY <1>1, <1>4, EarnedHops DEF PrefixesKept
  <2>2. BeginningsKept(q, R)
      BY <1>1, <2>1, BeginningsStayKept
  <2>3. /\ p = Append(q, e) /\ p \in Seq(E) /\ End(p) = c
        /\ R[c] = Chain(p) /\ R[c] \in Candidate
    <3>1. Extend(b[e.source], e).hops = Append(q, e)
        BY DEF Extend
    <3>2. p = Append(q, e)
        BY <1>4, <3>1
    <3> HIDE DEF R
    <3>3. p \in Seq(E) /\ End(p) = c /\ R[c] = Chain(p) /\ R[c] \in Candidate
        BY <1>2, EarnedHops
    <3> QED BY <3>2, <3>3
  <2> HIDE DEF q, p
  <2>4. Len(p) = Len(q) + 1 /\ Len(q) \in Nat
      BY <2>1, <2>3, AppendProperties, LenProperties
  <2>5. ASSUME NEW n \in 0..Len(p), NEW a, a = SubSeq(p, 1, n)
        PROVE  End(a) \in DOMAIN R /\ ~IsBetter(Chain(a), R[End(a)])
    <3>1. CASE n \in 0..Len(q)
      <4>1. a = SubSeq(q, 1, n)
          BY <2>1, <2>3, <2>5, <3>1, AppendBeginning
      <4> HIDE DEF R
      <4> QED BY <2>2, <3>1, <4>1 DEF BeginningsKept
    <3>2. CASE n = Len(p)
      <4>1. a = p
          BY <2>3, <2>5, <3>2, SubSeqFull
      <4> HIDE DEF R
      <4> QED BY <2>3, <4>1, BetterIsStrict
    <3> QED BY <2>4, <3>1, <3>2
  <2>6. BeginningsKept(p, R)
    <3> HIDE DEF R
    <3> QED BY <2>5 DEF BeginningsKept
  <2> QED BY <2>6 DEF p
<1>5. ASSUME NEW c \in DOMAIN R PROVE BeginningsKept(R[c].hops, R)
  <2>1. \/ c \in DOMAIN b /\ R[c] = b[c]
        \/ \E e \in C : /\ e.source \in DOMAIN b /\ e.target = c
                        /\ R[c] = Extend(b[e.source], e)
      BY <1>1, RelaxCases
  <2> HIDE DEF R, C
  <2> QED BY <1>3, <1>4, <2>1
<1> HIDE DEF R
<1> QED BY <1>5 DEF PrefixesKept, R

-----------------------------------------------------------------------------
(* Candidates and cycles *)

\* Arbitrage, for a set E of edges.
Gains(E) ==
    \E p \in SimpleWalks(E), e \in E :
        /\ e.source = End(p)
        /\ e.target \in Visited(p)
        /\ CycleProduct(p, e) > 0

LEMMA GainsIsArbitrage ==
    ASSUME EdgeSet(edges)
    PROVE  Gains(edges) <=> Arbitrage
    BY SimplePathsAreWalks DEF Gains, Arbitrage

(* An edge back to a currency of a path closes a cycle with the hops that follow
   the beginning of the path to that currency. *)
LEMMA CycleSplit ==
    ASSUME NEW E, EdgeSet(E), NEW p \in SimpleWalks(E), NEW e \in E,
           e.target \in Visited(p)
    PROVE  \E n \in 0..Len(p) :
               /\ End(SubSeq(p, 1, n)) = e.target
               /\ CycleProduct(p, e) = Product(SubSeq(p, n + 1, Len(p))) + e.rate
<1>1. p \in Seq(E) /\ Len(p) \in Nat /\ DOMAIN p = 1..Len(p)
    BY LenProperties DEF SimpleWalks
<1>2. CASE e.target = USD
  <2>1. 0 \in 0..Len(p)
      BY <1>1
  <2>2. SubSeq(p, 1, 0) = <<>>
      BY <1>1, <2>1, Beginning, EmptySeq
  <2>3. SubSeq(p, 0 + 1, Len(p)) = p
      BY <1>1, SubSeqFull
  <2>4. CycleProduct(p, e) = Product(p) + e.rate /\ End(<<>>) = USD
      BY <1>2 DEF CycleProduct, End
  <2> QED BY <1>2, <2>1, <2>2, <2>3, <2>4
<1>3. CASE e.target # USD
  <2> DEFINE n == CHOOSE i \in DOMAIN p : p[i].target = e.target
  <2>1. n \in DOMAIN p /\ p[n].target = e.target
      BY <1>3 DEF Visited
  <2>2. CycleProduct(p, e) = Product(SubSeq(p, n + 1, Len(p))) + e.rate
      BY <1>3 DEF CycleProduct
  <2> HIDE DEF n
  <2>3. n \in 0..Len(p) /\ n \in 1..n /\ n # 0
      BY <1>1, <2>1
  <2>4. /\ SubSeq(p, 1, n) \in Seq(E) /\ Len(SubSeq(p, 1, n)) = n
        /\ SubSeq(p, 1, n)[n] = p[n]
      BY <1>1, <2>3, Beginning
  <2>5. End(SubSeq(p, 1, n)) = e.target
      BY <2>1, <2>3, <2>4, EmptySeq DEF End
  <2> QED BY <2>2, <2>3, <2>5
<1> QED BY <1>2, <1>3

(* A chain that comes to a currency again is offered only when that pays, so
   that while no cycle pays the candidates are simple (routing.py 92-104). *)
LEMMA StaySimple ==
    ASSUME NEW E, EdgeSet(E), NEW b, NEW m \in Nat, EarnedTable(b, E, m),
           PrefixesKept(b), ~Gains(E), \A c \in DOMAIN b : b[c].hops \in SimpleWalks(E),
           NEW d \in DOMAIN Relax(b, CollapsedEdges(E))
    PROVE  Relax(b, CollapsedEdges(E))[d].hops \in SimpleWalks(E)
<1> DEFINE C == CollapsedEdges(E)
           R == Relax(b, C)
<1>1. /\ EdgeSet(C) /\ C \subseteq E /\ Table(b) /\ Table(R) /\ E \subseteq RouteHop
      /\ d \in DOMAIN R
    BY CollapsedIsEdgeSet, RelaxTable DEF EarnedTable, EdgeSet
<1>2. ASSUME NEW e \in C, e.source \in DOMAIN b, e.target = d,
             R[d] = Extend(b[e.source], e)
      PROVE  R[d].hops \in SimpleWalks(E)
  <2> DEFINE q == b[e.source].hops
             p == Append(q, e)
  <2>1. /\ q \in Seq(E) /\ q \in SimpleWalks(E) /\ End(q) = e.source /\ e \in E
        /\ b[e.source] = Chain(q)
      BY <1>1, <1>2, EarnedHops
  <2>2. Extend(Chain(q), e) = [rate |-> Product(q) + e.rate, hops |-> p]
      BY DEF Extend, Chain
  <2>3. R[d].hops = p /\ R[d].rate = Product(q) + e.rate
      BY <1>2, <2>1, <2>2
  <2> HIDE DEF q, R
  <2>4. CASE e.target \notin Visited(q)
      BY <2>1, <2>3, <2>4, SimpleAppend
  <2>5. ASSUME e.target \in Visited(q) PROVE FALSE
    <3>1. PICK n \in 0..Len(q) :
              /\ End(SubSeq(q, 1, n)) = d
              /\ CycleProduct(q, e) = Product(SubSeq(q, n + 1, Len(q))) + e.rate
        BY <1>2, <2>1, <2>5, CycleSplit
    <3> DEFINE a == SubSeq(q, 1, n)
    <3>2. a \in Seq(E) /\ Len(a) = n /\ \A i \in 1..n : a[i] = q[i]
        BY <2>1, Beginning
    <3>3. d \in DOMAIN b /\ ~IsBetter(Chain(a), b[d])
      <4>1. BeginningsKept(q, b)
          BY <1>2 DEF PrefixesKept, q
      <4> QED BY <3>1, <4>1 DEF BeginningsKept
    <3>4. ~IsBetter(b[d], R[d])
        BY <1>1, <3>3, RelaxKeeps DEF R
    <3>5. Chain(a) \in Candidate /\ b[d] \in Candidate /\ R[d] \in Candidate
        BY <1>1, <3>2, <3>3, ChainIsCandidate DEF Table
    <3>6. ~IsBetter(Chain(a), R[d])
        BY <3>3, <3>4, <3>5, NoBetterInTurn
    <3>7. KeyBefore(a, p)
      <4>1. /\ p \in Seq(E) /\ Len(p) = Len(q) + 1 /\ Len(q) \in Nat
            /\ \A i \in 1..Len(q) : p[i] = q[i]
          BY <2>1, AppendProperties, LenProperties
      <4>2. a \in Seq(RouteHop) /\ p \in Seq(RouteHop)
          BY <1>1, <3>2, <4>1, SeqMonotonic
      <4>3. DOMAIN a = 1..n /\ n < Len(p) /\ \A i \in 1..n : i \in 1..Len(q)
          BY <3>2, <4>1, LenProperties
      <4> HIDE DEF a, p
      <4>4. Len(a) < Len(p) /\ \A i \in DOMAIN a : SameKey(a[i], p[i])
          BY <3>2, <4>1, <4>3 DEF SameKey
      <4> QED BY <4>2, <4>4, ChainOrder DEF ChainBefore
    <3> HIDE DEF p
    <3>8. q \in Seq(RouteHop) /\ e.rate \in Int
        BY <1>1, <2>1, SeqMonotonic DEF RouteHop
    <3>9. /\ Product(q) = Product(a) + Product(SubSeq(q, n + 1, Len(q)))
          /\ Product(a) \in Int /\ Product(SubSeq(q, n + 1, Len(q))) \in Int
        BY <3>8, ProductSplit
    <3> HIDE DEF a
    <3>10. ~(Product(a) > R[d].rate) /\ Product(a) # R[d].rate
        BY <2>3, <3>6, <3>7 DEF IsBetter, Chain
    <3>11. CycleProduct(q, e) > 0
        BY <2>3, <3>1, <3>8, <3>9, <3>10
    <3> QED BY <2>1, <2>5, <3>11 DEF Gains
  <2> QED BY <2>4, <2>5
<1>3. \/ d \in DOMAIN b /\ R[d] = b[d]
      \/ \E e \in C : /\ e.source \in DOMAIN b /\ e.target = d
                      /\ R[d] = Extend(b[e.source], e)
    BY <1>1, RelaxCases
<1> HIDE DEF R, C
<1> QED BY <1>2, <1>3 DEF R, C

-----------------------------------------------------------------------------
(* The end of a call *)

(* Rounds that change nothing cover what the rounds before them did, so that
   the loop ends with every path covered (routing.py 116-120). *)
LEMMA CoversAll ==
    ASSUME NEW E, EdgeSet(E), NEW b, NEW m \in Nat, EarnedTable(b, E, m),
           NEW n \in 0..Rounds, Covers(b, E, n),
           n = Rounds \/ Relax(b, CollapsedEdges(E)) = b
    PROVE  Covers(b, E, Rounds)
<1> DEFINE T == {k \in Nat : Covers(b, E, n + k)}
<1>1. /\ n \in Nat /\ Rounds \in Nat /\ Rounds - n \in Nat
      /\ n + (Rounds - n) = Rounds /\ n + 0 = n
    BY RoundsIsNatural
<1>2. CASE n = Rounds
    BY <1>2
<1>3. CASE Relax(b, CollapsedEdges(E)) = b
  <2>1. 0 \in T
      BY <1>1
  <2>2. ASSUME NEW k \in 1..(Rounds - n), k - 1 \in T PROVE k \in T
    <3>1. k \in Nat /\ n + (k - 1) \in Nat /\ (n + (k - 1)) + 1 = n + k
        BY <1>1
    <3>2. Covers(b, E, n + (k - 1))
        BY <2>2
    <3>3. Covers(b, E, n + k)
        BY <1>3, <3>1, <3>2, CoversMore
    <3> QED BY <3>1, <3>3
  <2> HIDE DEF T
  <2>3. 0..(Rounds - n) \subseteq T
      BY <1>1, <2>1, <2>2, UpTo
  <2>4. Rounds - n \in T
      BY <1>1, <2>3
  <2> QED BY <1>1, <2>4 DEF T
<1> QED BY <1>2, <1>3

(* Without a cycle that pays the extra round finds nothing (routing.py
   122-127). *)
LEMMA NothingMoreToFind ==
    ASSUME NEW E, EdgeSet(E), NEW b, NEW m \in Nat, EarnedTable(b, E, m),
           PrefixesKept(b), ~Gains(E), \A c \in DOMAIN b : b[c].hops \in SimpleWalks(E),
           Covers(b, E, Rounds)
    PROVE  ~Profitable(b, Relax(b, CollapsedEdges(E)))
<1> DEFINE R == Relax(b, CollapsedEdges(E))
<1>1. /\ EdgeSet(CollapsedEdges(E)) /\ Table(b)
      /\ EarnedTable(R, E, m + 1)
  <2>1. EdgeSet(CollapsedEdges(E)) /\ Table(b)
      BY CollapsedIsEdgeSet DEF EarnedTable
  <2> QED BY <2>1, RelaxTable, RelaxIsEarned DEF EarnedTable
<1>2. ASSUME NEW c \in DOMAIN R PROVE c \in DOMAIN b /\ ~(R[c].rate > b[c].rate)
  <2>1. R[c].hops \in SimpleWalks(E)
      BY StaySimple
  <2> HIDE DEF R
  <2>2. End(R[c].hops) = c /\ R[c] = Chain(R[c].hops)
      BY <1>1, EarnedHops
  <2>3. Len(R[c].hops) <= Rounds
      BY <2>1, SimpleLength
  <2>4. c \in DOMAIN b /\ ~IsBetter(R[c], b[c])
      BY <2>1, <2>2, <2>3 DEF Covers
  <2> QED BY <2>4 DEF IsBetter
<1> QED BY <1>2 DEF Profitable

(* Where no edge gains anything, no cycle does (routing.py 122-127). *)
LEMMA NothingGained ==
    ASSUME NEW E, EdgeSet(E), NEW b, Table(b), NothingToGain(b, E)
    PROVE  ~Gains(E)
<1> SUFFICES ASSUME NEW p \in SimpleWalks(E), NEW e \in E,
                    e.source = End(p), e.target \in Visited(p)
             PROVE  ~(CycleProduct(p, e) > 0)
    BY DEF Gains
<1>1. PICK n \in 0..Len(p) :
          /\ End(SubSeq(p, 1, n)) = e.target
          /\ CycleProduct(p, e) = Product(SubSeq(p, n + 1, Len(p))) + e.rate
    BY CycleSplit
<1> DEFINE a == SubSeq(p, 1, n)
           r == SubSeq(p, n + 1, Len(p))
           w == Append(r, e)
           c == e.target
<1>2. /\ p \in Seq(E) /\ Len(p) \in Nat /\ DOMAIN p = 1..Len(p)
      /\ \A i \in 1..Len(p) : p[i].source = IF i = 1 THEN USD ELSE p[i - 1].target
    BY LenProperties DEF SimpleWalks, IsWalk
<1>3. /\ a \in Seq(E) /\ Len(a) = n /\ DOMAIN a = 1..n
      /\ \A i \in 1..n : a[i] = p[i]
    BY <1>2, Beginning
<1>4. /\ r \in Seq(E) /\ Len(r) = Len(p) - n
      /\ \A i \in 1..(Len(p) - n) : r[i] = p[n + i]
    BY <1>2, Remainder
<1>5. /\ w \in Seq(E) /\ w # <<>> /\ Len(w) = Len(p) - n + 1
      /\ \A i \in 1..(Len(p) - n) : w[i] = p[n + i]
      /\ w[Len(p) - n + 1] = e
      /\ DOMAIN w = 1..(Len(p) - n + 1)
  <2> HIDE DEF r
  <2>1. /\ w \in Seq(E) /\ w # <<>> /\ Len(w) = Len(r) + 1
        /\ \A i \in 1..Len(r) : w[i] = r[i]
        /\ w[Len(r) + 1] = e
      BY <1>4, AppendProperties
  <2>2. DOMAIN w = 1..Len(w)
      BY <2>1, LenProperties
  <2> HIDE DEF w
  <2> QED BY <1>4, <2>1, <2>2
<1>6. Product(w) = Product(r) + e.rate
  <2>1. r \in Seq(RouteHop) /\ e \in RouteHop
      BY <1>4, SeqMonotonic DEF EdgeSet
  <2> QED BY <2>1, ProductOfAppend
<1> HIDE DEF a, r, w
<1>7. c \in DOMAIN b
  <2>1. IsWalk(a, USD)
    <3>1. \A i \in 1..n : i \in 1..Len(p) /\ (i # 1 => i - 1 \in 1..n)
        BY <1>2
    <3>2. \A i \in 1..n : a[i].source = IF i = 1 THEN USD ELSE a[i - 1].target
        BY <1>2, <1>3, <3>1
    <3> QED BY <1>3, <3>2 DEF IsWalk
  <2>2. WalkEnd(a, USD) = c
      BY <1>1, WalkEndIsEnd DEF a
  <2>3. USD \in DOMAIN b
      BY DEF Table
  <2> QED BY <1>3, <2>1, <2>2, <2>3, WalksGainNothing
<1>8. c = IF n = 0 THEN USD ELSE p[n].target
  <2>1. CASE n = 0
    <3>1. a = <<>>
        BY <1>3, <2>1, EmptySeq
    <3> QED BY <1>1, <2>1, <3>1 DEF End, a
  <2>2. CASE n # 0
    <3>1. n \in 1..n /\ a # <<>>
        BY <1>2, <1>3, <2>2, EmptySeq
    <3> QED BY <1>1, <1>3, <2>2, <3>1 DEF End, a
  <2> QED BY <2>1, <2>2
<1>9. IsWalk(w, c)
  <2>1. ASSUME NEW i \in 1..(Len(p) - n)
        PROVE  w[i].source = IF i = 1 THEN c ELSE w[i - 1].target
    <3>1. /\ n + i \in 1..Len(p) /\ (n + i = 1 <=> n = 0 /\ i = 1)
          /\ (n + i) - 1 = n + (i - 1)
          /\ (i # 1 => i - 1 \in 1..(Len(p) - n))
          /\ (i = 1 => (n + i) - 1 = n)
        BY <1>2
    <3>2. w[i].source = IF n + i = 1 THEN USD ELSE p[n + (i - 1)].target
        BY <1>2, <1>5, <3>1
    <3>3. CASE i = 1
        BY <1>8, <3>1, <3>2, <3>3
    <3>4. CASE i # 1
        BY <1>5, <3>1, <3>2, <3>4
    <3> QED BY <3>3, <3>4
  <2>2. ASSUME NEW i \in 1..(Len(p) - n + 1), i = Len(p) - n + 1
        PROVE  w[i].source = IF i = 1 THEN c ELSE w[i - 1].target
    <3>1. w[i] = e
        BY <1>5, <2>2
    <3>2. CASE Len(p) = n
      <4>1. a = p
          BY <1>2, <3>2, SubSeqFull DEF a
      <4>2. i = 1
          BY <1>2, <2>2, <3>2
      <4> QED BY <1>1, <3>1, <4>1, <4>2 DEF a
    <3>3. CASE Len(p) # n
      <4>1. i # 1 /\ i - 1 \in 1..(Len(p) - n) /\ n + (i - 1) = Len(p) /\ Len(p) # 0
        <5>1. Len(p) \in Nat /\ n \in 0..Len(p)
            BY <1>2
        <5> QED BY <2>2, <3>3, <5>1
      <4>2. w[i - 1] = p[Len(p)] /\ p # <<>>
          BY <1>2, <1>5, <4>1, EmptySeq
      <4> QED BY <3>1, <4>1, <4>2 DEF End
    <3> QED BY <3>2, <3>3
  <2>3. \A i \in 1..(Len(p) - n + 1) : i \in 1..(Len(p) - n) \/ i = Len(p) - n + 1
      BY <1>2
  <2> QED BY <1>5, <2>1, <2>2, <2>3 DEF IsWalk
<1>10. WalkEnd(w, c) = c
    BY <1>5 DEF WalkEnd
<1>11. b[c].rate + Product(w) <= b[c].rate
    BY <1>5, <1>7, <1>9, <1>10, WalksGainNothing
<1>12. b[c].rate \in Int /\ Product(w) \in Int
    BY <1>5, <1>7, ChainIsCandidate, ProductsByHop DEF Table, Candidate
<1> QED BY <1>1, <1>6, <1>11, <1>12 DEF r

-----------------------------------------------------------------------------
(* For the callers of compute_routes *)

\* What the rounds keep while no cycle pays.
GoodTable(b, E, n) ==
    /\ EarnedTable(b, E, n)
    /\ PrefixesKept(b)
    /\ \A c \in DOMAIN b : b[c].hops \in SimpleWalks(E)
    /\ Covers(b, E, n)

(* The trivial route is all that no round offers (routing.py 114). *)
LEMMA StartCovers ==
    ASSUME NEW E
    PROVE  /\ PrefixesKept(StartingBest)
           /\ \A c \in DOMAIN StartingBest : StartingBest[c].hops \in SimpleWalks(E)
           /\ Covers(StartingBest, E, 0)
<1>1. /\ DOMAIN StartingBest = {USD}
      /\ StartingBest[USD] = [rate |-> 0, hops |-> <<>>]
    BY DEF StartingBest
<1>2. <<>> \in Seq(RouteHop) /\ Len(<<>>) = 0 /\ Product(<<>>) = 0
  <2>1. <<>> \in Seq(RouteHop) /\ Len(<<>>) = 0
      BY EmptySeq
  <2> QED BY <2>1, ProductsByHop DEF Product
<1>3. Chain(<<>>) = StartingBest[USD] /\ Chain(<<>>) \in Candidate
    BY <1>1, <1>2 DEF Chain, Candidate
<1>4. End(<<>>) \in DOMAIN StartingBest
      /\ ~IsBetter(Chain(<<>>), StartingBest[End(<<>>)])
    BY <1>1, <1>3, BetterIsStrict DEF End
<1>5. PrefixesKept(StartingBest)
  <2>1. ASSUME NEW n \in 0..Len(<<>>) PROVE SubSeq(<<>>, 1, n) = <<>>
    <3>1. n = 0
        BY <1>2
    <3> QED BY <1>2, <3>1, Beginning, EmptySeq
  <2>2. BeginningsKept(<<>>, StartingBest)
      BY <1>4, <2>1 DEF BeginningsKept
  <2> QED BY <1>1, <2>2 DEF PrefixesKept
<1>6. Covers(StartingBest, E, 0)
  <2>1. ASSUME NEW p \in SimpleWalks(E), Len(p) <= 0 PROVE p = <<>>
      BY <2>1, EmptySeq DEF SimpleWalks
  <2> QED BY <1>4, <2>1 DEF Covers
<1> QED BY <1>1, <1>5, <1>6, NoHopIsSimple

LEMMA StartIsGood ==
    ASSUME NEW E
    PROVE  GoodTable(StartingBest, E, 0)
<1>1. /\ DOMAIN StartingBest = {USD}
      /\ StartingBest[USD] = [rate |-> 0, hops |-> <<>>]
    BY DEF StartingBest
<1>2. Table(StartingBest)
  <2>1. StartingBest[USD] \in Candidate
    <3>1. <<>> \in Seq(RouteHop)
        BY EmptySeq
    <3> QED BY <1>1, <3>1 DEF Candidate
  <2> QED BY <1>1, <2>1, RoutingAssumption DEF Table
<1> QED BY <1>2, StartIsEarned, StartCovers DEF GoodTable, EarnedTable

LEMMA RelaxIsGood ==
    ASSUME NEW E, EdgeSet(E), ~Gains(E), NEW b, NEW n \in Nat, GoodTable(b, E, n)
    PROVE  GoodTable(Relax(b, CollapsedEdges(E)), E, n + 1)
<1> DEFINE R == Relax(b, CollapsedEdges(E))
<1>1. EarnedTable(b, E, n) /\ Table(b) /\ EdgeSet(CollapsedEdges(E))
    BY CollapsedIsEdgeSet DEF GoodTable, EarnedTable
<1>2. EarnedTable(R, E, n + 1)
    BY <1>1, RelaxTable, RelaxIsEarned DEF EarnedTable
<1>3. PrefixesKept(R) /\ Covers(R, E, n + 1)
    BY <1>1, PrefixesStayKept, CoversMore DEF GoodTable
<1>4. \A c \in DOMAIN R : R[c].hops \in SimpleWalks(E)
    BY <1>1, StaySimple DEF GoodTable
<1> QED BY <1>2, <1>3, <1>4 DEF GoodTable

(* A graph without a cycle that pays is accepted, and its routes are taken from
   a table that has the best of all the paths (routing.py 106-135). *)
LEMMA AcceptedRoutes ==
    ASSUME NEW E, EdgeSet(E), ~Gains(E)
    PROVE  /\ Acceptable(E)
           /\ GoodTable(BestAfter(CollapsedEdges(E)), E, Rounds)
<1> DEFINE C == CollapsedEdges(E)
           T == {n \in Nat : GoodTable(BestsOf(C)[n], E, n)}
<1>1. 0 \in T
    BY StartIsGood, BestsByRound
<1>2. ASSUME NEW n \in 1..Rounds, n - 1 \in T PROVE n \in T
  <2>1. n - 1 \in Nat /\ n \in Nat /\ (n - 1) + 1 = n
      BY RoundsIsNatural
  <2>2. GoodTable(BestsOf(C)[n - 1], E, n - 1)
      BY <1>2
  <2>3. GoodTable(Relax(BestsOf(C)[n - 1], C), E, n)
      BY <2>1, <2>2, RelaxIsGood
  <2>4. BestsOf(C)[n] = Relax(BestsOf(C)[n - 1], C)
      BY BestsByRound
  <2> QED BY <2>1, <2>3, <2>4
<1>3. Rounds \in T
  <2> HIDE DEF T
  <2>1. Rounds \in Nat /\ 0..Rounds \subseteq T
      BY <1>1, <1>2, UpTo, RoundsIsNatural
  <2> QED BY <2>1
<1>4. GoodTable(BestAfter(C), E, Rounds)
    BY <1>3, BestsByRound
<1>5. ~Profitable(BestAfter(C), Relax(BestAfter(C), C))
    BY <1>4, NothingMoreToFind, RoundsIsNatural DEF GoodTable
<1>6. ValidRates(E)
    BY DEF EdgeSet, RouteHop, ValidRates
<1> QED BY <1>4, <1>5, <1>6 DEF Acceptable

LEMMA LastHop ==
    ASSUME NEW E, EdgeSet(E), NEW p \in SimpleWalks(E), p # <<>>
    PROVE  \E q \in SimpleWalks(E), e \in E :
               /\ p = Append(q, e) /\ e.source = End(q) /\ e.target = End(p)
               /\ Len(p) = Len(q) + 1 /\ Len(q) \in Nat /\ p[Len(q) + 1] = e
               /\ Product(p) = Product(q) + e.rate
               /\ Product(q) \in Int
<1>1. PICK q \in Seq(E), e \in E : p = Append(q, e)
    BY SequenceEmptyOrAppend DEF SimpleWalks
<1>2. q \in SimpleWalks(E) /\ e.source = End(q)
    BY <1>1, SimpleAppend
<1>3. /\ Len(p) = Len(q) + 1 /\ Len(q) \in Nat /\ p[Len(q) + 1] = e
    BY <1>1, AppendProperties, LenProperties
<1>4. e.target = End(p)
    BY <1>3 DEF End
<1>5. q \in Seq(RouteHop) /\ e \in RouteHop
    BY ChainIsCandidate DEF EdgeSet
<1>6. Product(p) = Product(q) + e.rate /\ Product(q) \in Int
    BY <1>1, <1>5, ProductOfAppend, ProductsByHop
<1> QED BY <1>1, <1>2, <1>3, <1>4, <1>6

(* Where the rates follow the heights of the currencies, less a fee for every
   hop that the direct edges keep to, the graph is accepted and every route is a
   direct edge (routing.py 92-135). *)
LEMMA DirectRoutes ==
    ASSUME NEW E, EdgeSet(E), NEW height \in [Currency -> Int], NEW fee \in Nat \ {0},
           \A e \in E : e.rate <= height[e.target] - height[e.source] - fee,
           \A c \in Currency \ {USD} :
               \E d \in E : /\ d.source = USD /\ d.target = c
                            /\ d.rate = height[c] - height[USD] - fee
    PROVE  /\ Acceptable(E)
           /\ DOMAIN ComputeRoutes(E) = Currency \ {USD}
           /\ \A c \in Currency \ {USD} :
                  LET hops == ComputeRoutes(E)[c].hops
                  IN  /\ Len(hops) = 1
                      /\ hops[1] \in E
                      /\ hops[1].source = USD
                      /\ hops[1].target = c
                      /\ hops[1].rate = height[c] - height[USD] - fee
<1> DEFINE P == [c \in Currency |-> [rate |-> height[c], hops |-> <<>>]]
           b == BestAfter(CollapsedEdges(E))
<1>1. \A e \in E : e.source \in Currency /\ e.target \in Currency /\ e.rate \in Int
    BY DEF EdgeSet, RouteHop
<1>2. Table(P) /\ NothingToGain(P, E)
  <2>1. <<>> \in Seq(RouteHop)
      BY EmptySeq
  <2>2. Table(P)
      BY <2>1, RoutingAssumption DEF Table, Candidate
  <2>3. \A c \in Currency : P[c].rate = height[c] /\ height[c] \in Int
      OBVIOUS
  <2>4. DOMAIN P = Currency
      OBVIOUS
  <2> HIDE DEF P
  <2>5. \A e \in E : P[e.source].rate + e.rate <= P[e.target].rate
      BY <1>1, <2>3
  <2> QED BY <1>1, <2>2, <2>4, <2>5 DEF NothingToGain
<1>3. Acceptable(E) /\ GoodTable(b, E, Rounds)
    BY <1>2, NothingGained, AcceptedRoutes
<1>4. \A p \in SimpleWalks(E) :
          End(p) \in Currency /\ height[USD] + Product(p) <= height[End(p)]
  <2>1. USD \in Currency /\ USD \in DOMAIN P
      BY RoutingAssumption
  <2>2. \A c \in Currency : P[c].rate = height[c]
      OBVIOUS
  <2>3. DOMAIN P = Currency
      OBVIOUS
  <2>4. \A p \in SimpleWalks(E) : p \in Seq(E) /\ IsWalk(p, USD)
      BY DEF SimpleWalks
  <2> HIDE DEF P
  <2> QED BY <1>2, <2>1, <2>2, <2>3, <2>4, WalksGainNothing, WalkEndIsEnd
<1>5. ASSUME NEW c \in Currency \ {USD}
      PROVE  /\ c \in DOMAIN b
             /\ Len(b[c].hops) = 1
             /\ b[c].hops[1] \in E
             /\ b[c].hops[1].source = USD
             /\ b[c].hops[1].target = c
             /\ b[c].hops[1].rate = height[c] - height[USD] - fee
  <2>1. PICK d \in E : /\ d.source = USD /\ d.target = c
                       /\ d.rate = height[c] - height[USD] - fee
      BY <1>5
  <2>2. d \in RouteHop /\ <<>> \in Seq(E) /\ <<>> \in Seq(RouteHop) /\ Len(<<>>) = 0
      BY EmptySeq DEF EdgeSet
  <2>3. Product(<<>>) = 0
      BY <2>2, ProductsByHop DEF Product
  <2> DEFINE p == Append(<<>>, d)
  <2>4. p \in SimpleWalks(E) /\ End(p) = c /\ Product(p) = d.rate
    <3>1. Visited(<<>>) = {USD}
        BY DEF Visited
    <3>2. p \in SimpleWalks(E)
        BY <1>5, <2>1, <2>2, <3>1, NoHopIsSimple, SimpleAppend
    <3>3. Product(p) = d.rate
      <4>1. Product(p) = Product(<<>>) + d.rate
          BY <2>2, ProductOfAppend
      <4>2. d.rate \in Int
          BY <1>1
      <4> QED BY <2>3, <4>1, <4>2
    <3>4. p # <<>> /\ Len(p) = 1 /\ p[1] = d
        BY <2>2, AppendProperties
    <3> HIDE DEF p
    <3> QED BY <2>1, <3>2, <3>3, <3>4 DEF End
  <2> HIDE DEF p
  <2>5. c \in DOMAIN b /\ ~(d.rate > b[c].rate)
    <3>1. c \in DOMAIN b /\ ~IsBetter(Chain(p), b[c])
        BY <1>3, <2>4, SimpleLength DEF GoodTable, Covers
    <3> QED BY <2>4, <3>1 DEF IsBetter, Chain
  <2> DEFINE h == b[c].hops
  <2>6. h \in SimpleWalks(E) /\ End(h) = c /\ b[c].rate = Product(h)
      BY <1>3, <2>5 DEF GoodTable, EarnedTable, Earned
  <2> HIDE DEF b, h
  <2>7. h # <<>>
      BY <2>6, NoHopIsSimple
  <2>8. PICK q \in SimpleWalks(E), e \in E :
            /\ h = Append(q, e) /\ e.source = End(q) /\ e.target = c
            /\ Len(h) = Len(q) + 1 /\ Len(q) \in Nat /\ h[Len(q) + 1] = e
            /\ Product(h) = Product(q) + e.rate
            /\ Product(q) \in Int
      BY <2>6, <2>7, LastHop
  <2>9. /\ height[c] \in Int /\ height[USD] \in Int
        /\ e.rate \in Int /\ e.rate <= height[c] - height[e.source] - fee
        /\ Product(q) + e.rate >= height[c] - height[USD] - fee
    <3>1. height[c] \in Int /\ height[USD] \in Int
        BY RoutingAssumption
    <3>2. e.rate \in Int /\ e.rate <= height[c] - height[e.source] - fee
        BY <1>1, <2>8
    <3>3. d.rate \in Int /\ d.rate = height[c] - height[USD] - fee
        BY <1>1, <2>1
    <3>4. ~(d.rate > Product(q) + e.rate)
        BY <2>5, <2>6, <2>8
    <3> QED BY <2>8, <3>1, <3>2, <3>3, <3>4
  <2>10. CASE q = <<>>
    <3>1. Len(h) = 1 /\ h[1] = e /\ e.source = USD
        BY <2>2, <2>8, <2>10, NoHopIsSimple
    <3>2. e.rate = height[c] - height[USD] - fee
        BY <2>3, <2>9, <2>10, <3>1
    <3> QED BY <2>5, <2>8, <3>1, <3>2 DEF h
  <2>11. ASSUME q # <<>> PROVE FALSE
    <3>1. PICK r \in SimpleWalks(E), f \in E :
              /\ f.source = End(r) /\ f.target = End(q)
              /\ Product(q) = Product(r) + f.rate
              /\ Product(r) \in Int
        BY <2>11, LastHop
    <3>2. /\ f.rate \in Int /\ f.rate <= height[e.source] - height[f.source] - fee
          /\ height[e.source] \in Int /\ height[f.source] \in Int
        BY <1>1, <2>8, <3>1
    <3>3. height[USD] + Product(r) <= height[f.source]
        BY <1>4, <3>1
    <3> QED BY <2>9, <3>1, <3>2, <3>3
  <2> QED BY <2>10, <2>11
<1>6. DOMAIN b \subseteq Currency
    BY <1>3 DEF GoodTable, EarnedTable, Table
<1>7. /\ DOMAIN ComputeRoutes(E) = DOMAIN b \ {USD}
      /\ \A c \in DOMAIN b \ {USD} : ComputeRoutes(E)[c] = b[c]
    BY DEF ComputeRoutes, Routes
<1> HIDE DEF b
<1>8. DOMAIN b \ {USD} = Currency \ {USD}
    BY <1>5, <1>6
<1> QED BY <1>3, <1>5, <1>7, <1>8

(* Routes lead to currencies other than the source (routing.py 129-135). *)
LEMMA RoutesDomain ==
    ASSUME NEW E, E \subseteq Edge
    PROVE  DOMAIN ComputeRoutes(E) \subseteq Currency \ {USD}
<1> DEFINE C == CollapsedEdges(E)
           T == {n \in Nat : DOMAIN BestsOf(C)[n] \subseteq Currency}
<1>1. 0 \in T
    BY BestsByRound, RoutingAssumption DEF StartingBest
<1>2. ASSUME NEW n \in 1..Rounds, n - 1 \in T PROVE n \in T
  <2>1. n \in Nat /\ DOMAIN BestsOf(C)[n - 1] \subseteq Currency
      BY <1>2
  <2>2. DOMAIN BestsOf(C)[n] = Reached(BestsOf(C)[n - 1], C)
      BY BestsByRound, RelaxDomain
  <2>3. \A e \in C : e.target \in Currency
      BY DEF CollapsedEdges, Edge
  <2> HIDE DEF C
  <2>4. DOMAIN BestsOf(C)[n] \subseteq Currency
      BY <2>1, <2>2, <2>3 DEF Reached
  <2> QED BY <2>1, <2>4
<1>3. Rounds \in T
  <2> HIDE DEF T
  <2>1. Rounds \in Nat /\ 0..Rounds \subseteq T
      BY <1>1, <1>2, UpTo, RoundsIsNatural
  <2> QED BY <2>1
<1>4. DOMAIN BestAfter(C) \subseteq Currency
    BY <1>3, BestsByRound
<1> QED BY <1>4 DEF ComputeRoutes, Routes

-----------------------------------------------------------------------------
(* The inductive invariant for paths: beginnings of candidates were offered,
   candidates come to no currency twice unless a cycle pays, every path of as
   many hops as there were rounds is covered, and the verdict is the one the
   cycles call for. *)
PathInvariant ==
    /\ SearchInvariant
    /\ PrefixesKept(best)
    /\ Gains(edges) \/ \A c \in DOMAIN best : best[c].hops \in SimpleWalks(edges)
    /\ Covers(best, edges, round)
    /\ pc = "published" => ~Gains(edges) /\ Covers(best, edges, Rounds)
    /\ pc = "rejected" => ~ValidRates(edges) \/ Gains(edges)

LEMMA SearchTable ==
    ASSUME SearchInvariant, pc \in {"relax", "published"}
    PROVE  /\ ValidRates(edges) /\ EdgeSet(edges) /\ Table(best)
           /\ EarnedTable(best, edges, round)
           /\ round \in 0..Rounds /\ round \in Nat
<1>1. ValidRates(edges) /\ EdgeSet(edges) /\ Table(best)
    BY ValidEdges, TypeOKTable DEF SearchInvariant
<1>2. \A c \in DOMAIN best : Earned(best[c], c, edges, round)
    BY EarnedIsRatesAreEarned DEF SearchInvariant
<1>3. round \in 0..Rounds /\ round \in Nat
    BY RoundsIsNatural DEF SearchInvariant, TypeOK
<1> QED BY <1>1, <1>2, <1>3 DEF EarnedTable

LEMMA InitPaths == Init => PathInvariant
<1> SUFFICES ASSUME Init PROVE PathInvariant
    OBVIOUS
<1> QED BY InitSearch, StartCovers DEF Init, PathInvariant

LEMMA NextPaths == PathInvariant /\ [Next]_routeVars => PathInvariant'
<1> SUFFICES ASSUME PathInvariant, [Next]_routeVars PROVE PathInvariant'
    OBVIOUS
<1>0. SearchInvariant' /\ SearchInvariant
    BY NextSearch DEF PathInvariant
<1>1. CASE Collapse
    BY <1>0, <1>1 DEF Collapse, PathInvariant
<1>2. CASE RelaxRound
  <2>1. /\ EdgeSet(edges) /\ EarnedTable(best, edges, round) /\ round \in Nat
        /\ best' = Relax(best, CollapsedEdges(edges))
        /\ edges' = edges /\ pc' = "relax" /\ round' = round + 1
      BY <1>0, <1>2, SearchTable DEF RelaxRound, Collapsed
  <2>2. PrefixesKept(best')
      BY <2>1, PrefixesStayKept DEF PathInvariant
  <2>3. Gains(edges) \/ \A c \in DOMAIN best' : best'[c].hops \in SimpleWalks(edges)
      BY <2>1, StaySimple DEF PathInvariant
  <2>4. Covers(best', edges, round + 1)
      BY <2>1, CoversMore DEF PathInvariant
  <2> QED BY <1>0, <2>1, <2>2, <2>3, <2>4 DEF PathInvariant
<1>3. CASE Check
  <2>1. /\ EdgeSet(edges) /\ EarnedTable(best, edges, round) /\ Table(best)
        /\ round \in 0..Rounds /\ round \in Nat
        /\ edges' = edges /\ best' = best /\ round' = round
        /\ round = Rounds \/ Relax(best, CollapsedEdges(edges)) = best
        /\ pc' = IF Profitable(best, Relax(best, CollapsedEdges(edges)))
                 THEN "rejected" ELSE "published"
      BY <1>0, <1>3, SearchTable DEF Check, Collapsed, Settled
  <2>2. Covers(best, edges, Rounds)
      BY <2>1, CoversAll DEF PathInvariant
  <2>3. pc' = "published" => ~Gains(edges)
    <3>1. pc' = "published" => NothingToGain(best, edges)
        BY <1>0, <2>1 DEF SearchInvariant
    <3> QED BY <2>1, <3>1, NothingGained
  <2>4. pc' = "rejected" => Gains(edges)
      BY <2>1, <2>2, NothingMoreToFind DEF PathInvariant
  <2> QED BY <1>0, <2>1, <2>2, <2>3, <2>4 DEF PathInvariant
<1>4. CASE UNCHANGED routeVars
    BY <1>0, <1>4 DEF routeVars, PathInvariant
<1> QED BY <1>1, <1>2, <1>3, <1>4 DEF Next

THEOREM PathInvariance == Spec => []PathInvariant
    BY InitPaths, NextPaths, PTL DEF Spec

(* A round tries every next hop: after k rounds the candidates are as good as
   every path of at most k edges, whichever LPs it takes and however many
   currencies there are (routing.py 92-104, 116-120). *)
THEOREM PathsCovered == Spec => []RoundsCoverPaths
<1>1. PathInvariant => RoundsCoverPaths
  <2> SUFFICES ASSUME PathInvariant, pc = "relax",
                      NEW p \in SimplePaths, Len(p) <= round
               PROVE  End(p) \in DOMAIN best /\ AsGoodAs(best[End(p)], p)
      BY DEF RoundsCoverPaths
  <2>1. EdgeSet(edges) /\ Table(best)
      BY SearchTable DEF PathInvariant
  <2>2. p \in SimpleWalks(edges) /\ p \in Seq(RouteHop)
      BY <2>1, SimplePathsAreWalks, ChainIsCandidate DEF SimpleWalks
  <2>3. End(p) \in DOMAIN best /\ ~IsBetter(Chain(p), best[End(p)])
      BY <2>2 DEF PathInvariant, Covers
  <2> QED BY <2>1, <2>2, <2>3, AsGoodAsIsNotWorse DEF Table
<1> QED BY <1>1, PathInvariance, PTL

(* The verdict is right, in both directions: a graph is rejected exactly when a
   rate is no rate or a cycle that can be reached from USD multiplies money, for
   any number of currencies and edges (routing.py 83, 116-127). *)
THEOREM RightVerdicts == Spec => []RejectsExactlyArbitrage
<1>1. PathInvariant => RejectsExactlyArbitrage
  <2> SUFFICES ASSUME PathInvariant PROVE RejectsExactlyArbitrage
      OBVIOUS
  <2>1. ASSUME pc = "published" PROVE ValidRates(edges) /\ ~Arbitrage
    <3>1. ValidRates(edges) /\ EdgeSet(edges)
        BY <2>1, SearchTable DEF PathInvariant
    <3> QED BY <2>1, <3>1, GainsIsArbitrage DEF PathInvariant
  <2>2. ASSUME pc = "rejected", ValidRates(edges) PROVE Arbitrage
    <3>1. EdgeSet(edges)
        BY <2>2, ValidEdges DEF PathInvariant, SearchInvariant
    <3> QED BY <2>2, <3>1, GainsIsArbitrage DEF PathInvariant
  <2> QED BY <2>1, <2>2 DEF RejectsExactlyArbitrage
<1> QED BY <1>1, PathInvariance, PTL

(* What is published is optimal: a route for every currency that a path leads
   to and for no other, none of them through a currency twice, and no path that
   gives more or wins a tie (routing.py 72-135). *)
THEOREM OptimalRoutes == Spec => []RoutesAreOptimal
<1>1. PathInvariant => RoutesAreOptimal
  <2> SUFFICES ASSUME PathInvariant, pc = "published"
               PROVE  /\ DOMAIN Routes(best) = {End(p) : p \in SimplePaths \ {<<>>}}
                      /\ \A c \in DOMAIN Routes(best) :
                             /\ best[c].hops \in SimplePaths
                             /\ End(best[c].hops) = c
                             /\ best[c].rate = Product(best[c].hops)
                      /\ \A p \in SimplePaths \ {<<>>} : AsGoodAs(best[End(p)], p)
      BY DEF RoutesAreOptimal
  <2>1. /\ EdgeSet(edges) /\ Table(best) /\ EarnedTable(best, edges, round)
      BY SearchTable DEF PathInvariant
  <2>2. SimplePaths = SimpleWalks(edges) /\ DOMAIN Routes(best) = DOMAIN best \ {USD}
      BY <2>1, SimplePathsAreWalks DEF Routes
  <2>3. ASSUME NEW c \in DOMAIN best
        PROVE  /\ best[c].hops \in SimplePaths
               /\ End(best[c].hops) = c
               /\ best[c].rate = Product(best[c].hops)
      BY <2>1, <2>2 DEF PathInvariant, EarnedTable, Earned
  <2>4. ASSUME NEW p \in SimplePaths
        PROVE  End(p) \in DOMAIN best /\ AsGoodAs(best[End(p)], p)
    <3>1. Len(p) <= Rounds /\ p \in Seq(RouteHop)
        BY <2>1, <2>2, SimpleLength, ChainIsCandidate DEF SimpleWalks
    <3>2. End(p) \in DOMAIN best /\ ~IsBetter(Chain(p), best[End(p)])
        BY <2>2, <3>1 DEF PathInvariant, Covers
    <3> QED BY <2>1, <3>1, <3>2, AsGoodAsIsNotWorse DEF Table
  <2>5. ASSUME NEW p \in SimplePaths, p # <<>> PROVE End(p) # USD
    <3>1. p \in Seq(edges) /\ \A i \in DOMAIN p : p[i].target # USD
        BY <2>2 DEF SimpleWalks
    <3>2. Len(p) \in DOMAIN p
        BY <2>5, <3>1, LenProperties, EmptySeq
    <3> QED BY <2>5, <3>1, <3>2 DEF End
  <2>6. DOMAIN Routes(best) = {End(p) : p \in SimplePaths \ {<<>>}}
    <3>1. ASSUME NEW c \in DOMAIN best \ {USD}
          PROVE  \E p \in SimplePaths \ {<<>>} : c = End(p)
      <4>1. best[c].hops \in SimplePaths /\ End(best[c].hops) = c
          BY <2>3
      <4>2. best[c].hops # <<>>
          BY <4>1 DEF End
      <4> QED BY <4>1, <4>2
    <3> QED BY <2>2, <2>4, <2>5, <3>1
  <2> QED BY <2>2, <2>3, <2>4, <2>6
<1> QED BY <1>1, PathInvariance, PTL
=============================================================================
