--------------------------- MODULE RateBookProofs ---------------------------
(* What the rate book guarantees for every edge factory, whatever its graphs
   and however many versions it makes: TypeOK, RowsAreReproducible,
   LastGoodSnapshot and VersionsAdvanceByOne of RateBook; and, for the factory
   of the application, GeneratedRoutesAreDirect.  What compute_routes accepts
   and returns is taken from RoutingProofs. *)
EXTENDS RateBook, FiniteSetTheorems, TLAPS

\* The lemmas on the router that are not about a call in progress, for which it
\* makes no difference where one would be.
Search == INSTANCE RoutingProofs
          WITH Graphs <- {}, edges <- {}, pc <- "collapse", round <- 0,
               best <- StartingBest

\* The snapshot is that of a version the factory was asked for.
KnownVersion ==
    snapshot # NoSnapshot => snapshot.version \in DOMAIN factory

FactoryHasFirst == 1 \in DOMAIN factory

\* There is a state of the call and a row for every request.
Tabulated ==
    /\ call \in [Request -> {"idle", "quoted", "stored", "refused"}]
    /\ stored = [r \in Request |-> stored[r]]

(* The inductive invariant: what is published and what was stored are both
   results of compute_routes for a version of the factory, and the factory does
   not change. *)
BookInvariant ==
    /\ FactoryHasFirst
    /\ KnownVersion
    /\ LastGoodSnapshot
    /\ RowsAreReproducible
    /\ Tabulated

(* A publication leaves a good snapshot of the version, or the old one
   (routing.py 198-201). *)
LEMMA PublishedIsGood ==
    ASSUME NEW version
    PROVE  \/ /\ Publishable(version)
              /\ Published(version) = RateSnapshot(factory[version], version)
              /\ Published(version).version = version
           \/ ~Publishable(version) /\ Published(version) = snapshot
    BY DEF Published, RateSnapshot

(* The quote of a route carries the version and the target it is for
   (routing.py 46-54). *)
LEMMA QuoteOfSnapshot ==
    ASSUME LastGoodSnapshot, KnownVersion, NEW target \in DOMAIN snapshot.routes
    PROVE  LET row == snapshot.routes[target]
               v == snapshot.version
           IN  /\ v \in DOMAIN factory
               /\ Publishable(v)
               /\ row.version = v
               /\ row.target = target
               /\ target \in DOMAIN RoutesOf[factory[v]]
               /\ row = RouteQuotes(factory[v], v)[target]
<1>1. snapshot # NoSnapshot
    BY DEF NoSnapshot
<1>2. snapshot = RateSnapshot(factory[snapshot.version], snapshot.version)
    BY <1>1 DEF LastGoodSnapshot
<1>3. snapshot.routes = RouteQuotes(factory[snapshot.version], snapshot.version)
    BY <1>2 DEF RateSnapshot
<1> QED BY <1>1, <1>3 DEF LastGoodSnapshot, KnownVersion, RouteQuotes

(* A start or a refresh keeps the book good (main.py 47-54, routing.py
   208-228). *)
LEMMA PublicationKeepsBook ==
    ASSUME BookInvariant, Startup \/ Refresh
    PROVE  FactoryHasFirst' /\ KnownVersion' /\ LastGoodSnapshot'
<1>1. UNCHANGED factory /\ FactoryHasFirst'
    BY DEF Startup, Refresh, BookInvariant, FactoryHasFirst
<1>2. CASE UNCHANGED snapshot
  <2>1. task' = "failed" => ~Publishable(snapshot.version + 1)
      BY PublishedIsGood DEF Startup, Started, Refresh, NextVersion, BookInvariant,
                             LastGoodSnapshot
  <2> QED BY <1>1, <1>2, <2>1 DEF BookInvariant, KnownVersion, LastGoodSnapshot,
                                  Publishable, RateSnapshot, RouteQuotes
<1>3. CASE snapshot' # snapshot
  <2>1. PICK v \in DOMAIN factory :
            /\ Publishable(v)
            /\ snapshot' = RateSnapshot(factory[v], v)
            /\ snapshot'.version = v
      BY <1>3, PublishedIsGood DEF Startup, Refresh, BookInvariant, FactoryHasFirst
  <2>2. task' # "failed"
      BY <1>3, PublishedIsGood DEF Startup, Started, Refresh
  <2> QED BY <1>1, <2>1, <2>2 DEF KnownVersion, LastGoodSnapshot, Publishable,
                                  RateSnapshot, RouteQuotes
<1> QED BY <1>1, <1>2, <1>3

(* One action at a time. *)
LEMMA BookStep == BookInvariant /\ [Next]_bookVars => BookInvariant'
<1> SUFFICES ASSUME BookInvariant, [Next]_bookVars PROVE BookInvariant'
    OBVIOUS
<1>1. CASE Startup \/ Refresh
  <2>1. UNCHANGED <<factory, call, stored>>
      BY <1>1 DEF Startup, Refresh
  <2>2. RowsAreReproducible'
      BY <2>1 DEF BookInvariant, RowsAreReproducible, Publishable, RouteQuotes
  <2> QED BY <1>1, <2>1, <2>2, PublicationKeepsBook DEF BookInvariant, Tabulated
<1>2. CASE Stop
    BY <1>2 DEF Stop, BookInvariant, FactoryHasFirst, KnownVersion,
                LastGoodSnapshot, RowsAreReproducible, Publishable,
                RateSnapshot, RouteQuotes, Tabulated
<1>3. CASE Crash
  <2>1. RowsAreReproducible'
      BY <1>3 DEF Crash, BookInvariant, RowsAreReproducible, Publishable,
                  RouteQuotes
  <2> QED BY <1>3, <2>1 DEF Crash, BookInvariant, FactoryHasFirst, KnownVersion,
                            LastGoodSnapshot, Tabulated
<1>4. ASSUME NEW r \in Request, Quote(r) PROVE BookInvariant'
  <2>1. FactoryHasFirst' /\ KnownVersion' /\ LastGoodSnapshot'
      BY <1>4 DEF Quote, BookInvariant, FactoryHasFirst, KnownVersion,
                  LastGoodSnapshot, Publishable, RateSnapshot, RouteQuotes
  <2>2. Tabulated'
      BY <1>4 DEF Quote, BookInvariant, Tabulated
  <2>3. ASSUME NEW q \in Request, call'[q] \in {"quoted", "stored"}
        PROVE  LET row == stored'[q]
               IN  /\ row.version \in DOMAIN factory
                   /\ Publishable(row.version)
                   /\ row.target \in Target \cap DOMAIN RoutesOf[factory[row.version]]
                   /\ row = RouteQuotes(factory[row.version], row.version)[row.target]
    <3>1. CASE q = r
        BY <1>4, <2>3, <3>1, QuoteOfSnapshot DEF Quote, BookInvariant, Tabulated
    <3>2. CASE q # r
      <4>1. call[q] = call'[q] /\ stored[q] = stored'[q]
          BY <1>4, <3>2 DEF Quote, BookInvariant, Tabulated
      <4> QED BY <4>1, <2>3 DEF BookInvariant, RowsAreReproducible
    <3> QED BY <3>1, <3>2
  <2>4. RowsAreReproducible'
      BY <1>4, <2>3 DEF Quote, RowsAreReproducible, Publishable, RouteQuotes
  <2> QED BY <2>1, <2>2, <2>4 DEF BookInvariant
<1>5. ASSUME NEW r \in Request, Store(r) PROVE BookInvariant'
  <2>1. FactoryHasFirst' /\ KnownVersion' /\ LastGoodSnapshot'
      BY <1>5 DEF Store, BookInvariant, FactoryHasFirst, KnownVersion,
                  LastGoodSnapshot, Publishable, RateSnapshot, RouteQuotes
  <2>2. Tabulated'
      BY <1>5 DEF Store, BookInvariant, Tabulated
  <2>3. ASSUME NEW q \in Request, call'[q] \in {"quoted", "stored"}
        PROVE  LET row == stored'[q]
               IN  /\ row.version \in DOMAIN factory
                   /\ Publishable(row.version)
                   /\ row.target \in Target \cap DOMAIN RoutesOf[factory[row.version]]
                   /\ row = RouteQuotes(factory[row.version], row.version)[row.target]
    <3>1. CASE q = r
        BY <1>5, <2>3, <3>1 DEF Store, Row, BookInvariant, Tabulated, RowsAreReproducible
    <3>2. CASE q # r
      <4>1. call[q] = call'[q] /\ stored[q] = stored'[q]
          BY <1>5, <3>2 DEF Store, BookInvariant, Tabulated
      <4> QED BY <4>1, <2>3 DEF BookInvariant, RowsAreReproducible
    <3> QED BY <3>1, <3>2
  <2>4. RowsAreReproducible'
      BY <1>5, <2>3 DEF Store, RowsAreReproducible, Publishable, RouteQuotes
  <2> QED BY <2>1, <2>2, <2>4 DEF BookInvariant
<1>6. CASE UNCHANGED bookVars
    BY <1>6 DEF bookVars, BookInvariant, FactoryHasFirst, KnownVersion,
                LastGoodSnapshot, RowsAreReproducible, Publishable,
                RateSnapshot, RouteQuotes, Tabulated
<1> QED BY <1>1, <1>2, <1>3, <1>4, <1>5, <1>6 DEF Next

LEMMA BookInit == Init => BookInvariant
<1> SUFFICES ASSUME Init PROVE BookInvariant
    OBVIOUS
<1>1. FactoryHasFirst
  <2>1. CASE factory = Generated
      BY <2>1, RateBookAssumption DEF FactoryHasFirst, Generated
  <2>2. CASE factory \in Factories
      BY <2>2, RateBookAssumption DEF FactoryHasFirst
  <2> QED BY <2>1, <2>2 DEF Init
<1> QED BY <1>1 DEF Init, BookInvariant, KnownVersion, LastGoodSnapshot,
                    RowsAreReproducible, Tabulated

(* The inductive invariant holds of every behaviour. *)
THEOREM BookIsGood == Spec => []BookInvariant
<1> QED BY BookInit, BookStep, PTL DEF Spec

(* The book never shows anything but the routes of an accepted graph, and the
   refresh stops only at a graph that is not one (routing.py 198-201,
   223-228). *)
THEOREM GoodSnapshots == Spec => []LastGoodSnapshot
<1>1. BookInvariant => LastGoodSnapshot
    BY DEF BookInvariant
<1> QED BY <1>1, BookIsGood, PTL

(* The route in a row is the one computed from the graph of the version in the
   row, whatever was published and restarted since (service.py 66-86). *)
THEOREM Audit == Spec => []RowsAreReproducible
<1>1. BookInvariant => RowsAreReproducible
    BY DEF BookInvariant
<1> QED BY <1>1, BookIsGood, PTL

(* A snapshot is replaced by that of the next version, except by a start of the
   application or the end of the process (routing.py 208-228, main.py 51-54). *)
THEOREM VersionOrder == Spec => VersionsAdvanceByOne
<1>1. ASSUME [Next]_bookVars, snapshot' # snapshot
      PROVE  \/ snapshot'.version = snapshot.version + 1 /\ phase = phase'
             \/ snapshot'.version = 1 /\ phase = "down"
             \/ snapshot' = NoSnapshot /\ phase' = "down"
  <2>1. CASE Startup
      BY <2>1, <1>1, PublishedIsGood DEF Startup
  <2>2. CASE Refresh
      BY <2>2, <1>1, PublishedIsGood DEF Refresh, NextVersion
  <2>3. CASE Crash
      BY <2>3 DEF Crash
  <2>4. CASE Next /\ ~Startup /\ ~Refresh /\ ~Crash
      BY <2>4, <1>1 DEF Next, Stop, Quote, Store
  <2> QED BY <1>1, <2>1, <2>2, <2>3, <2>4 DEF bookVars
<1> QED BY <1>1, PTL DEF Spec, VersionsAdvanceByOne

-----------------------------------------------------------------------------
(* The router of RoutingProofs is the one of the rate book. *)

LEMMA SearchAssumptions == Search!RoutingAssumption /\ Search!RouteSearchAssumption
    BY RoutingAssumption DEF Search!RoutingAssumption, Search!RouteSearchAssumption,
                             IsFiniteSet, Search!IsFiniteSet

LEMMA SameRounds ==
    ASSUME NEW b, NEW E
    PROVE  /\ Relax(b, E) = Search!Relax(b, E)
           /\ StartingBest = Search!StartingBest
           /\ Rounds = Search!Rounds
<1>1. \A x, y : IsBetter(x, y) <=> Search!IsBetter(x, y)
    BY DEF IsBetter, Search!IsBetter, KeyBefore, Search!KeyBefore, HopKey,
           Search!HopKey, TupleBefore, Search!TupleBefore
<1>2. \A S : BestOf(S) = Search!BestOf(S)
    BY <1>1 DEF BestOf, Search!BestOf
<1>3. Relax(b, E) = Search!Relax(b, E)
    BY <1>2 DEF Relax, Search!Relax, Reached, Search!Reached, Offers,
                Search!Offers, Extend, Search!Extend
<1>4. Cardinality(Currency) = Search!Cardinality(Currency)
    BY DEF Cardinality, Search!Cardinality
<1>5. Rounds = Search!Rounds
    BY <1>4 DEF Rounds, Search!Rounds
<1> QED BY <1>3, <1>5 DEF StartingBest, Search!StartingBest

LEMMA SameRouter ==
    ASSUME NEW E
    PROVE  /\ Acceptable(E) <=> Search!Acceptable(E)
           /\ ComputeRoutes(E) = Search!ComputeRoutes(E)
<1>1. CollapsedEdges(E) = Search!CollapsedEdges(E)
    BY DEF CollapsedEdges, Search!CollapsedEdges
<1>2. BestAfter(CollapsedEdges(E)) = Search!BestAfter(CollapsedEdges(E))
  <2>1. \A b, F : Relax(b, F) = Search!Relax(b, F)
      BY SameRounds
  <2>2. StartingBest = Search!StartingBest /\ Rounds = Search!Rounds
      BY SameRounds
  <2> QED BY <2>1, <2>2 DEF BestAfter, Search!BestAfter
<1>3. \A b, x : Profitable(b, x) <=> Search!Profitable(b, x)
    BY DEF Profitable, Search!Profitable
<1>4. \A b : Routes(b) = Search!Routes(b)
    BY DEF Routes, Search!Routes
<1>5. ValidRates(E) <=> Search!ValidRates(E)
    BY DEF ValidRates, Search!ValidRates
<1>6. Acceptable(E) <=> Search!Acceptable(E)
    BY <1>1, <1>2, <1>3, <1>5, SameRounds DEF Acceptable, Search!Acceptable
<1>7. ComputeRoutes(E) = Search!ComputeRoutes(E)
    BY <1>1, <1>2, <1>4 DEF ComputeRoutes, Search!ComputeRoutes
<1> QED BY <1>6, <1>7

\* No rate of E is above what the heights of its ends allow, less a fee; there
\* is a direct way to every currency at just that rate; and the routes of E are
\* such ways.
KeepsBelow(E, height, fee) ==
    \A e \in E : e.rate <= height[e.target] - height[e.source] - fee

DirectWay(e, c, height, fee) ==
    e.source = USD /\ e.target = c /\ e.rate = height[c] - height[USD] - fee

HasDirectWays(E, height, fee) ==
    \A c \in Currency \ {USD} : \E d \in E : DirectWay(d, c, height, fee)

GoesDirectly(E, height, fee) ==
    \A c \in Currency \ {USD} :
        /\ Len(ComputeRoutes(E)[c].hops) = 1
        /\ ComputeRoutes(E)[c].hops[1] \in E
        /\ DirectWay(ComputeRoutes(E)[c].hops[1], c, height, fee)

(* DirectRoutes, for the router of the rate book. *)
LEMMA DirectGraph ==
    ASSUME NEW E, Search!EdgeSet(E), NEW height \in [Currency -> Int], NEW fee \in Nat \ {0},
           KeepsBelow(E, height, fee), HasDirectWays(E, height, fee)
    PROVE  /\ Acceptable(E)
           /\ DOMAIN ComputeRoutes(E) = Currency \ {USD}
           /\ GoesDirectly(E, height, fee)
<1>0. /\ \A e \in E : e.rate <= height[e.target] - height[e.source] - fee
      /\ \A c \in Currency \ {USD} :
             \E d \in E : /\ d.source = USD /\ d.target = c
                          /\ d.rate = height[c] - height[USD] - fee
    BY DEF KeepsBelow, HasDirectWays, DirectWay
<1>1. Search!Acceptable(E) /\ DOMAIN Search!ComputeRoutes(E) = Currency \ {USD}
    BY <1>0, SearchAssumptions, Search!DirectRoutes
<1>2. ASSUME NEW c \in Currency \ {USD}
      PROVE  /\ Len(Search!ComputeRoutes(E)[c].hops) = 1
             /\ Search!ComputeRoutes(E)[c].hops[1] \in E
             /\ Search!ComputeRoutes(E)[c].hops[1].source = USD
             /\ Search!ComputeRoutes(E)[c].hops[1].target = c
             /\ Search!ComputeRoutes(E)[c].hops[1].rate = height[c] - height[USD] - fee
    BY <1>0, SearchAssumptions, Search!DirectRoutes
<1> QED BY <1>1, <1>2, SameRouter DEF GoesDirectly, DirectWay

-----------------------------------------------------------------------------
(* The graphs of the application *)

LEMMA AnchorIsNumber ==
    ASSUME NEW version \in Nat, NEW c \in Currency
    PROVE  Anchor(c, version) \in Int
<1>1. BaseAnchor(c) \in Int
    BY DEF BaseAnchor
<1>2. Coefficient(c) \in Nat
  <2>1. /\ c = 1 \/ c = 2 \/ c = 3 \/ c = 4 \/ c = 5
        /\ USD = 4
      BY RateBookAssumption
  <2> QED BY <2>1 DEF Coefficient, USDC, EUR, PHP, AED
<1>3. (version * Coefficient(c)) % 7 \in Int
  <2>1. version * Coefficient(c) \in Int
      BY <1>2
  <2> QED BY <2>1
<1> QED BY <1>1, <1>3 DEF Anchor

LEMMA GeneratedEdge ==
    ASSUME NEW version \in Nat, NEW e \in GenerateEdges(version)
    PROVE  /\ e \in [source : Currency, target : Currency, lp : LP, rate : Int]
           /\ e.rate = Anchor(e.target, version) - Anchor(e.source, version)
                       + LpFactor(e.lp)
           /\ e.lp \in 1..3
<1>1. PICK pair \in {p \in Currency \X Currency : p[1] # p[2]}, lp \in LP :
          e = [source |-> pair[1], target |-> pair[2], lp |-> lp,
               rate |-> Anchor(pair[2], version) - Anchor(pair[1], version)
                        + LpFactor(lp)]
    BY DEF GenerateEdges
<1>2. pair[1] \in Currency /\ pair[2] \in Currency /\ lp \in 1..3
    BY RateBookAssumption
<1>3. LpFactor(lp) \in Int
    BY <1>2 DEF LpFactor
<1>4. Anchor(pair[2], version) - Anchor(pair[1], version) + LpFactor(lp) \in Int
    BY <1>2, <1>3, AnchorIsNumber
<1> QED BY <1>1, <1>2, <1>4

LEMMA GeneratedEdgeSet ==
    ASSUME NEW version \in Nat
    PROVE  Search!EdgeSet(GenerateEdges(version))
<1> DEFINE Pairs == {p \in Currency \X Currency : p[1] # p[2]}
           Made(x) == [source |-> x[1][1], target |-> x[1][2], lp |-> x[2],
                       rate |-> Anchor(x[1][2], version) - Anchor(x[1][1], version)
                                + LpFactor(x[2])]
           made == [x \in Pairs \X LP |-> Made(x)]
<1>1. IsFiniteSet(Pairs \X LP)
  <2>1. IsFiniteSet(LP)
    <3>1. LP = (({} \cup {1}) \cup {2}) \cup {3}
        BY RateBookAssumption
    <3>2. IsFiniteSet((({} \cup {1}) \cup {2}) \cup {3})
        BY FS_EmptySet, FS_AddElement
    <3> QED BY <3>1, <3>2
  <2>2. IsFiniteSet(Currency \X Currency)
      BY RoutingAssumption, FS_Product
  <2>3. IsFiniteSet(Pairs)
      BY <2>2, FS_Subset
  <2> HIDE DEF Pairs
  <2> QED BY <2>1, <2>3, FS_Product
<1>2. made \in Surjection(Pairs \X LP, GenerateEdges(version))
  <2>1. \A x \in Pairs \X LP : Made(x) \in GenerateEdges(version)
      BY DEF GenerateEdges
  <2>2. \A e \in GenerateEdges(version) : \E x \in Pairs \X LP : made[x] = e
    <3> SUFFICES ASSUME NEW e \in GenerateEdges(version)
                 PROVE  \E x \in Pairs \X LP : made[x] = e
        OBVIOUS
    <3>1. PICK pair \in Pairs, lp \in LP :
              e = [source |-> pair[1], target |-> pair[2], lp |-> lp,
                   rate |-> Anchor(pair[2], version) - Anchor(pair[1], version)
                            + LpFactor(lp)]
        BY DEF GenerateEdges
    <3>2. <<pair, lp>> \in Pairs \X LP /\ made[<<pair, lp>>] = Made(<<pair, lp>>)
        OBVIOUS
    <3>3. Made(<<pair, lp>>) = e
        BY <3>1
    <3> HIDE DEF Made, made
    <3> QED BY <3>2, <3>3
  <2> QED BY <2>1, <2>2 DEF Surjection
<1>3. IsFiniteSet(GenerateEdges(version))
  <2> HIDE DEF made, Pairs
  <2> QED BY <1>1, <1>2, FS_Surjection
<1>4. GenerateEdges(version) \subseteq Search!RouteHop
  <2> SUFFICES ASSUME NEW e \in GenerateEdges(version) PROVE e \in Search!RouteHop
      OBVIOUS
  <2> HIDE DEF made, Pairs, Made
  <2>1. e \in [source : Currency, target : Currency, lp : LP, rate : Int]
      BY GeneratedEdge
  <2> QED BY <2>1 DEF Search!RouteHop
<1>5. Search!IsFiniteSet(GenerateEdges(version))
    BY <1>3 DEF IsFiniteSet, Search!IsFiniteSet
<1> QED BY <1>4, <1>5 DEF Search!EdgeSet

(* The anchors of a version are heights that every rate of it follows, less what
   the LP leaves, so that the direct edge of the cheapest LP is the best way to
   any currency, whatever the version (routing.py 146-180). *)
LEMMA GeneratedRoutes ==
    ASSUME NEW version \in Nat
    PROVE  LET E == GenerateEdges(version)
           IN  /\ Acceptable(E)
               /\ DOMAIN ComputeRoutes(E) = Currency \ {USD}
               /\ \A c \in Currency \ {USD} :
                      LET hops == ComputeRoutes(E)[c].hops
                      IN  Len(hops) = 1 /\ hops[1].lp = 1 /\ hops[1].target = c
<1> DEFINE E == GenerateEdges(version)
           height == [c \in Currency |-> Anchor(c, version)]
<1>1. Search!EdgeSet(E)
    BY GeneratedEdgeSet
<1>2. height \in [Currency -> Int] /\ USD \in Currency
    BY AnchorIsNumber, RoutingAssumption
<1>3. ASSUME NEW e \in E
      PROVE  /\ e.source \in Currency /\ e.target \in Currency /\ e.lp \in 1..3
             /\ e.rate = height[e.target] - height[e.source] - 10 * e.lp
  <2>1. /\ e.source \in Currency /\ e.target \in Currency /\ e.lp \in 1..3
        /\ e.rate = Anchor(e.target, version) - Anchor(e.source, version)
                    + LpFactor(e.lp)
      BY GeneratedEdge
  <2>2. LpFactor(e.lp) = -(10 * e.lp) /\ e.lp \in Int
      BY <2>1 DEF LpFactor
  <2>3. /\ height[e.target] = Anchor(e.target, version)
        /\ height[e.source] = Anchor(e.source, version)
        /\ height[e.target] \in Int /\ height[e.source] \in Int
      BY <1>2, <2>1
  <2> HIDE DEF height
  <2> QED BY <2>1, <2>2, <2>3
<1>4. KeepsBelow(E, height, 10)
  <2> HIDE DEF height, E
  <2> QED BY <1>2, <1>3 DEF KeepsBelow
<1>5. HasDirectWays(E, height, 10)
  <2> SUFFICES ASSUME NEW c \in Currency \ {USD}
               PROVE  \E d \in E : DirectWay(d, c, height, 10)
      BY DEF HasDirectWays
  <2> DEFINE d == [source |-> USD, target |-> c, lp |-> 1,
                   rate |-> Anchor(c, version) - Anchor(USD, version) + LpFactor(1)]
  <2>1. d \in E
    <3>1. <<USD, c>> \in {p \in Currency \X Currency : p[1] # p[2]} /\ 1 \in LP
        BY <1>2, RateBookAssumption
    <3> QED BY <3>1 DEF GenerateEdges
  <2>2. d.rate = height[c] - height[USD] - 10 * 1 /\ d.source = USD /\ d.target = c
    <3>1. d.source = USD /\ d.target = c /\ d.lp = 1
        OBVIOUS
    <3> HIDE DEF d, height, E
    <3> QED BY <1>3, <2>1, <3>1
  <2> HIDE DEF d, height, E
  <2> QED BY <1>2, <2>1, <2>2 DEF DirectWay
<1>6. /\ Acceptable(E)
      /\ DOMAIN ComputeRoutes(E) = Currency \ {USD}
      /\ GoesDirectly(E, height, 10)
  <2>1. 10 \in Nat \ {0}
      OBVIOUS
  <2> HIDE DEF E, height
  <2> QED BY <1>1, <1>2, <1>4, <1>5, <2>1, DirectGraph
<1>7. ASSUME NEW c \in Currency \ {USD}
      PROVE  /\ Len(ComputeRoutes(E)[c].hops) = 1
             /\ ComputeRoutes(E)[c].hops[1].lp = 1
             /\ ComputeRoutes(E)[c].hops[1].target = c
  <2> DEFINE h == ComputeRoutes(E)[c].hops[1]
  <2>1. height[c] \in Int /\ height[USD] \in Int
      BY <1>2
  <2>2. h \in E /\ h.source = USD /\ h.target = c /\ h.rate = height[c] - height[USD] - 10
    <3> HIDE DEF E, height
    <3> QED BY <1>6 DEF GoesDirectly, DirectWay
  <2> HIDE DEF E, height
  <2>3. Len(ComputeRoutes(E)[c].hops) = 1
      BY <1>6 DEF GoesDirectly
  <2>4. h.lp \in 1..3 /\ h.rate = height[c] - height[USD] - 10 * h.lp
      BY <1>3, <2>2
  <2> HIDE DEF h
  <2>5. h.lp = 1
      BY <2>1, <2>2, <2>4
  <2> QED BY <2>2, <2>3, <2>5 DEF h
<1> HIDE DEF E, height
<1> QED BY <1>6, <1>7 DEF E

(* Whatever version the factory of the application is asked for, there is
   something to publish (routing.py 146-180, 198-201). *)
LEMMA GeneratedIsPublishable ==
    ASSUME factory = Generated, NEW v \in DOMAIN factory
    PROVE  /\ Publishable(v)
           /\ DOMAIN RoutesOf[factory[v]] = Currency \ {USD}
           /\ \A c \in Currency \ {USD} :
                  LET hops == RoutesOf[factory[v]][c].hops
                  IN  Len(hops) = 1 /\ hops[1].lp = 1 /\ hops[1].target = c
<1>1. v \in 1..MaxVersion /\ v \in Nat /\ factory[v] = GenerateEdges(v)
    BY RateBookAssumption DEF Generated
<1>2. factory[v] \in Graphs
  <2>1. v \in DOMAIN Generated /\ Generated[v] # RaisesError
      BY RaisesAssumption
  <2>2. Generated[v] \in {Generated[w] : w \in DOMAIN Generated}
      BY <2>1
  <2>3. Generated \in Factories \cup {Generated}
      OBVIOUS
  <2> QED BY <2>1, <2>2, <2>3 DEF Graphs
<1>3. factory[v] \in Accepted
    BY <1>1, <1>2, GeneratedRoutes DEF Accepted
<1>4. RoutesOf[factory[v]] = ComputeRoutes(factory[v])
    BY <1>3 DEF RoutesOf
<1> DEFINE E == factory[v]
<1>5. /\ DOMAIN ComputeRoutes(E) = Currency \ {USD}
      /\ \A c \in Currency \ {USD} :
             LET hops == ComputeRoutes(E)[c].hops
             IN  Len(hops) = 1 /\ hops[1].lp = 1 /\ hops[1].target = c
  <2> DEFINE G == GenerateEdges(v)
  <2>1. /\ DOMAIN ComputeRoutes(G) = Currency \ {USD}
        /\ \A c \in Currency \ {USD} :
               LET hops == ComputeRoutes(G)[c].hops
               IN  Len(hops) = 1 /\ hops[1].lp = 1 /\ hops[1].target = c
      BY <1>1, GeneratedRoutes
  <2>2. E = G
      BY <1>1
  <2> HIDE DEF E, G
  <2> QED BY <2>1, <2>2
<1>6. RoutesOf[E] = ComputeRoutes(E)
    BY <1>4
<1>7. Publishable(v)
    BY <1>3 DEF Publishable
<1> HIDE DEF E
<1>8. /\ DOMAIN RoutesOf[E] = Currency \ {USD}
      /\ \A c \in Currency \ {USD} :
             LET hops == RoutesOf[E][c].hops
             IN  Len(hops) = 1 /\ hops[1].lp = 1 /\ hops[1].target = c
    BY <1>5, <1>6
<1> QED BY <1>7, <1>8 DEF E

-----------------------------------------------------------------------------
(* The types of the state, and the routes of the application's own factory *)

FactoryOK ==
    /\ ownsRates \in BOOLEAN
    /\ ownsRates => factory = Generated
    /\ DOMAIN factory \subseteq 1..MaxVersion
    /\ \A v \in DOMAIN factory : factory[v] = RaisesError \/ factory[v] \subseteq Edge

\* With its own factory the refresh never stops.
NeverFails == ownsRates => task # "failed"

(* What the types need besides BookInvariant: the graphs of the factory are
   graphs, it serves only with a snapshot, and a request has no quote left when
   it is not holding or storing one. *)
BookTypes ==
    /\ FactoryOK
    /\ phase \in {"up", "down"}
    /\ task \in {"none", "running", "failed"}
    /\ phase = "up" \/ task = "running" => snapshot # NoSnapshot
    /\ \A r \in Request : call[r] \in {"quoted", "stored"} \/ stored[r] = NoQuote
    /\ NeverFails

LEMMA GeneratedIsTyped ==
    ASSUME NEW v \in DOMAIN Generated PROVE Generated[v] \subseteq Edge
<1>1. v \in Nat /\ Generated[v] = GenerateEdges(v)
    BY RateBookAssumption DEF Generated
<1> SUFFICES ASSUME NEW e \in GenerateEdges(v) PROVE e \in Edge
    BY <1>1
<1>2. e \in [source : Currency, target : Currency, lp : LP, rate : Int]
    BY <1>1, GeneratedEdge
<1> QED BY <1>2 DEF Edge

LEMMA TypesInit == Init => BookTypes
<1> SUFFICES ASSUME Init PROVE BookTypes
    OBVIOUS
<1>1. FactoryOK
  <2>1. CASE ownsRates = TRUE /\ factory = Generated
    <3>1. DOMAIN factory = 1..MaxVersion
        BY <2>1 DEF Generated
    <3> QED BY <2>1, <3>1, GeneratedIsTyped DEF FactoryOK
  <2>2. CASE ownsRates = FALSE /\ factory \in Factories
    <3>1. PICK last \in 1..MaxVersion : DOMAIN factory = 1..last
        BY <2>2, RateBookAssumption
    <3>2. DOMAIN factory \subseteq 1..MaxVersion
        BY <3>1, RateBookAssumption
    <3> QED BY <2>2, <3>2, RateBookAssumption DEF FactoryOK
  <2> QED BY <2>1, <2>2 DEF Init
<1> QED BY <1>1 DEF Init, BookTypes, NeverFails

\* A snapshot of a version of the factory is not the one before the first.
LEMMA SnapshotOfVersion ==
    ASSUME NEW E, NEW v \in Nat \ {0} PROVE RateSnapshot(E, v) # NoSnapshot
<1>1. RateSnapshot(E, v).version = v /\ NoSnapshot.version = 0
    BY DEF RateSnapshot, NoSnapshot
<1> QED BY <1>1

(* Startup: version 1 is published, or was before; an error keeps the
   application down (main.py 47-54, routing.py 203-213). *)
LEMMA StartupTypes ==
    ASSUME BookTypes, Startup PROVE BookTypes'
<1>1. UNCHANGED <<ownsRates, factory, call, stored>> /\ FactoryOK'
    BY DEF Startup, BookTypes, FactoryOK
<1>2. NeverFails'
    BY DEF Startup, Started, BookTypes, NeverFails
<1>3. phase' \in {"up", "down"} /\ task' \in {"none", "running", "failed"}
    BY DEF Startup, Started, BookTypes
<1>4. phase' = "up" \/ task' = "running" => snapshot' # NoSnapshot
  <2>1. CASE Fresh /\ Publishable(1)
    <3>1. snapshot' = RateSnapshot(factory[1], 1)
        BY <2>1 DEF Startup, Published
    <3> QED BY <3>1, SnapshotOfVersion
  <2>2. CASE Fresh /\ ~Publishable(1)
      BY <2>2 DEF Startup, Published, BookTypes
  <2>3. CASE ~Fresh
      BY <2>3 DEF Startup, Fresh
  <2> QED BY <2>1, <2>2, <2>3
<1> QED BY <1>1, <1>2, <1>3, <1>4 DEF BookTypes

(* Refresh: the book keeps a snapshot, and the factory of the application has
   a good graph for every version (routing.py 215-228). *)
LEMMA RefreshTypes ==
    ASSUME BookTypes, Refresh PROVE BookTypes'
<1>1. UNCHANGED <<ownsRates, factory, phase, call, stored>> /\ FactoryOK'
    BY DEF Refresh, BookTypes, FactoryOK
<1>2. NextVersion \in DOMAIN factory /\ NextVersion \in Nat \ {0}
    BY DEF Refresh, BookTypes, FactoryOK
<1>3. NeverFails'
  <2>1. ASSUME ownsRates PROVE Publishable(NextVersion)
      BY <1>2, <2>1, GeneratedIsPublishable DEF BookTypes, FactoryOK
  <2> QED BY <1>1, <2>1 DEF Refresh, NeverFails
<1>4. snapshot' # NoSnapshot
  <2>1. snapshot # NoSnapshot
      BY DEF Refresh, BookTypes
  <2> QED BY <1>2, <2>1, SnapshotOfVersion DEF Refresh, Published
<1> QED BY <1>1, <1>3, <1>4 DEF BookTypes, Refresh

LEMMA TypesStep == BookInvariant /\ BookTypes /\ [Next]_bookVars => BookTypes'
<1> SUFFICES ASSUME BookInvariant, BookTypes, [Next]_bookVars PROVE BookTypes'
    OBVIOUS
<1>1. CASE Startup
    BY <1>1, StartupTypes
<1>2. CASE Refresh
    BY <1>2, RefreshTypes
<1>3. CASE Stop
    BY <1>3 DEF Stop, BookTypes, FactoryOK, NeverFails
<1>4. CASE Crash
    BY <1>4 DEF Crash, BookTypes, FactoryOK, NeverFails
<1>5. ASSUME NEW r \in Request, Quote(r) PROVE BookTypes'
  <2>1. UNCHANGED <<ownsRates, factory, phase, snapshot, task>>
      BY <1>5 DEF Quote
  <2>2. ASSUME NEW q \in Request
        PROVE  call'[q] \in {"quoted", "stored"} \/ stored'[q] = NoQuote
      BY <1>5, <2>2 DEF Quote, BookInvariant, Tabulated, BookTypes
  <2> QED BY <2>1, <2>2 DEF BookTypes, FactoryOK, NeverFails
<1>6. ASSUME NEW r \in Request, Store(r) PROVE BookTypes'
  <2>1. UNCHANGED <<ownsRates, factory, phase, snapshot, task>>
      BY <1>6 DEF Store
  <2>2. ASSUME NEW q \in Request
        PROVE  call'[q] \in {"quoted", "stored"} \/ stored'[q] = NoQuote
      BY <1>6, <2>2 DEF Store, BookInvariant, Tabulated, BookTypes
  <2> QED BY <2>1, <2>2 DEF BookTypes, FactoryOK, NeverFails
<1>7. CASE UNCHANGED bookVars
    BY <1>7 DEF bookVars, BookTypes, FactoryOK, NeverFails
<1> QED BY <1>1, <1>2, <1>3, <1>4, <1>5, <1>6, <1>7 DEF Next

(* The two invariants hold together. *)
THEOREM BookIsTyped == Spec => [](BookInvariant /\ BookTypes)
<1>1. BookInvariant /\ BookTypes /\ [Next]_bookVars => (BookInvariant /\ BookTypes)'
    BY BookStep, TypesStep
<1> QED BY BookInit, TypesInit, <1>1, PTL DEF Spec

\* The currencies of an accepted graph's routes.
LEMMA RoutesOfVersion ==
    ASSUME FactoryOK, NEW v \in DOMAIN factory, Publishable(v)
    PROVE  DOMAIN RoutesOf[factory[v]] \subseteq Currency \ {USD}
<1>1. factory[v] \in Graphs /\ RoutesOf[factory[v]] = ComputeRoutes(factory[v])
    BY DEF Publishable, Accepted, RoutesOf
<1>2. factory[v] # RaisesError
    BY <1>1 DEF Graphs
<1>3. factory[v] \subseteq Search!Edge
  <2>1. factory[v] \subseteq Edge
      BY <1>2 DEF FactoryOK
  <2>2. Edge = Search!Edge
      BY DEF Edge, Search!Edge
  <2> QED BY <2>1, <2>2
<1> QED BY <1>1, <1>3, SearchAssumptions, SameRouter, Search!RoutesDomain

(* The application serves, and the refresh runs, only with a snapshot of a
   version of the factory, for every number of requests and every factory
   (main.py 47-54, routing.py 215-228). *)
THEOREM TypeCorrectness == Spec => []TypeOK
<1>1. BookInvariant /\ BookTypes => TypeOK
  <2> SUFFICES ASSUME BookInvariant, BookTypes PROVE TypeOK
      OBVIOUS
  <2>1. FactoryOK /\ DOMAIN factory \subseteq 1..MaxVersion /\ MaxVersion \in Nat
      BY RateBookAssumption DEF BookTypes, FactoryOK
  <2>2. /\ snapshot.version \in 0..MaxVersion
        /\ DOMAIN snapshot.routes \subseteq Currency \ {USD}
    <3>1. CASE snapshot = NoSnapshot
        BY <2>1, <3>1 DEF NoSnapshot
    <3>2. CASE snapshot # NoSnapshot
      <4>1. snapshot.version \in DOMAIN factory /\ Publishable(snapshot.version)
          BY <3>2 DEF BookInvariant, KnownVersion, LastGoodSnapshot
      <4>2. DOMAIN snapshot.routes = DOMAIN RoutesOf[factory[snapshot.version]]
        <5>1. snapshot = RateSnapshot(factory[snapshot.version], snapshot.version)
            BY <3>2 DEF BookInvariant, LastGoodSnapshot
        <5>2. snapshot.routes = RouteQuotes(factory[snapshot.version], snapshot.version)
            BY <5>1 DEF RateSnapshot
        <5> QED BY <5>2 DEF RouteQuotes
      <4>3. PICK v \in DOMAIN factory : v = snapshot.version
          BY <4>1
      <4> QED BY <2>1, <4>1, <4>2, <4>3, RoutesOfVersion
    <3> QED BY <3>1, <3>2
  <2>3. ASSUME NEW r \in Request PROVE stored[r].version \in 0..MaxVersion
    <3>1. CASE stored[r] = NoQuote
        BY <2>1, <3>1 DEF NoQuote
    <3>2. CASE call[r] \in {"quoted", "stored"}
      <4>1. stored[r].version \in DOMAIN factory
          BY <3>2 DEF BookInvariant, RowsAreReproducible
      <4> QED BY <2>1, <4>1
    <3> QED BY <3>1, <3>2 DEF BookTypes
  <2> QED BY <2>1, <2>2, <2>3 DEF TypeOK, BookTypes, FactoryOK, BookInvariant, Tabulated
<1> QED BY <1>1, BookIsTyped, PTL

(* The factory of the application has a good graph for every version, and all
   that is ever published of them are direct hops by the cheapest LP, however
   many versions there are (routing.py 146-180). *)
THEOREM DirectRoutesOnly == Spec => []GeneratedRoutesAreDirect
<1>1. BookInvariant /\ BookTypes => GeneratedRoutesAreDirect
  <2> SUFFICES ASSUME BookInvariant, BookTypes, ownsRates
               PROVE  /\ \A v \in DOMAIN factory : Publishable(v)
                      /\ task # "failed"
                      /\ snapshot # NoSnapshot =>
                             /\ DOMAIN snapshot.routes = Currency \ {USD}
                             /\ \A c \in Currency \ {USD} :
                                    LET hops == snapshot.routes[c].hops
                                    IN  /\ Len(hops) = 1
                                        /\ hops[1].lp = 1
                                        /\ hops[1].target = c
      BY DEF GeneratedRoutesAreDirect
  <2>1. factory = Generated /\ task # "failed"
      BY DEF BookTypes, FactoryOK, NeverFails
  <2>2. \A v \in DOMAIN factory : Publishable(v)
      BY <2>1, GeneratedIsPublishable
  <2>3. ASSUME snapshot # NoSnapshot
        PROVE  /\ DOMAIN snapshot.routes = Currency \ {USD}
               /\ \A c \in Currency \ {USD} :
                      LET hops == snapshot.routes[c].hops
                      IN  Len(hops) = 1 /\ hops[1].lp = 1 /\ hops[1].target = c
    <3>1. PICK v \in DOMAIN factory : v = snapshot.version
        BY <2>3 DEF BookInvariant, KnownVersion
    <3>2. snapshot = RateSnapshot(factory[v], v)
        BY <2>3, <3>1 DEF BookInvariant, LastGoodSnapshot
    <3>3. snapshot.routes = RouteQuotes(factory[v], v)
        BY <3>2 DEF RateSnapshot
    <3>4. /\ DOMAIN RoutesOf[factory[v]] = Currency \ {USD}
          /\ \A c \in Currency \ {USD} :
                 LET hops == RoutesOf[factory[v]][c].hops
                 IN  Len(hops) = 1 /\ hops[1].lp = 1 /\ hops[1].target = c
        BY <2>1, GeneratedIsPublishable
    <3> QED BY <3>3, <3>4 DEF RouteQuotes
  <2> QED BY <2>1, <2>2, <2>3
<1> QED BY <1>1, BookIsTyped, PTL
=============================================================================
