----------------------------- MODULE RateBook -----------------------------
(***************************************************************************)
(* The rate book of app/routing.py in the application of app/main.py that  *)
(* starts and stops it: a task publishes a new snapshot of the routes      *)
(* every interval, and a create call stores, a while later, the quote it   *)
(* read from the snapshot of its moment.                                   *)
(*                                                                         *)
(* Everything between two awaits is one step: publishing computes first    *)
(* and assigns last, so nobody sees half a snapshot.  The interval is not  *)
(* modelled: a refresh can come at any time.                               *)
(***************************************************************************)
EXTENDS Routing

CONSTANTS
    Request,       \* the create calls with a new key
    Target,        \* the currencies asked for
    MaxVersion,    \* bound: the last version the own factory is asked for
    Factories,     \* what injected edge factories return, by version, up to
                   \* the last version they are asked for (bound)
    RaisesError    \* the factory raised

ASSUME RateBookAssumption ==
    /\ {1, 2, 3, 4, 5} = Currency /\ USD = 4 /\ LP = {1, 2, 3}
    /\ Target \subseteq Currency
    /\ MaxVersion \in Nat \ {0}
    /\ \A made \in Factories :
           /\ \E last \in 1..MaxVersion : DOMAIN made = 1..last
           /\ \A v \in DOMAIN made : made[v] = RaisesError \/ made[v] \subseteq Edge

VARIABLES
    ownsRates,   \* the application made its own rate book
    factory,     \* factory[v]: what the edge factory returns for version v
    phase,       \* "up" while the application serves, else "down"
    snapshot,    \* the published snapshot, NoSnapshot before the first
    task,        \* the refresh task: "none", "running" or "failed"
    call,        \* call[r]: how far the create call r is
    stored       \* stored[r]: the quote in the row of r, or that a call holds

bookVars == <<ownsRates, factory, phase, snapshot, task, call, stored>>

-----------------------------------------------------------------------------
AED == 1
EUR == 2
PHP == 3
USDC == 5

\* The logarithms, in units of 1/10000, of the anchors, of the drift of an
\* anchor with the version, and of what an LP leaves of the amount.
BaseAnchor(c) ==
    CASE c = AED -> 13002
      [] c = EUR -> -834
      [] c = PHP -> 40073
      [] OTHER -> 0

Coefficient(c) ==
    CASE c = USD -> 1 [] c = USDC -> 2 [] c = EUR -> 3
      [] c = PHP -> 4 [] c = AED -> 5

Anchor(c, version) ==
    BaseAnchor(c) + ((version * Coefficient(c)) % 7) - 3

FaultyLpFactor(lp) == 10 * (1 - lp)      \* the first LP charges nothing

LpFactor(lp) == -10 * lp

GenerateEdges(version) ==
    {[source |-> pair[1], target |-> pair[2], lp |-> lp,
      rate |-> Anchor(pair[2], version) - Anchor(pair[1], version) + LpFactor(lp)] :
        pair \in {p \in Currency \X Currency : p[1] # p[2]}, lp \in LP}

Generated == [v \in 1..MaxVersion |-> GenerateEdges(v)]

\* What stands for an error is no graph.
ASSUME RaisesAssumption == \A v \in DOMAIN Generated : Generated[v] # RaisesError

-----------------------------------------------------------------------------
NoSnapshot == [version |-> 0, routes |-> [c \in {} |-> {}]]

NoQuote == [version |-> 0, target |-> USD, rate |-> 0, hops |-> <<>>]

\* compute_routes, tabulated for the graphs of the factories that it accepts.
Graphs ==
    (UNION {{made[v] : v \in DOMAIN made} : made \in Factories \cup {Generated}})
    \ {RaisesError}

Accepted == {edges \in Graphs : Acceptable(edges)}

RoutesOf == [edges \in Accepted |-> ComputeRoutes(edges)]

RouteQuotes(edges, version) ==
    [c \in DOMAIN RoutesOf[edges] |->
        [version |-> version, target |-> c,
         rate |-> RoutesOf[edges][c].rate, hops |-> RoutesOf[edges][c].hops]]

RateSnapshot(edges, version) ==
    [version |-> version, routes |-> RouteQuotes(edges, version)]

\* The factory returns edges that compute_routes accepts.
Publishable(version) == factory[version] \in Accepted

\* The book after publish(factory(version), version), which raises, and
\* leaves the old snapshot, if the edges are not publishable.
FaultyPublished(version) ==              \* assigns before it has checked
    IF Publishable(version) THEN RateSnapshot(factory[version], version)
    ELSE [snapshot EXCEPT !.version = version]

Published(version) ==
    IF Publishable(version) THEN RateSnapshot(factory[version], version)
    ELSE snapshot

-----------------------------------------------------------------------------
Init ==
    /\ \/ ownsRates = TRUE /\ factory = Generated
       \/ ownsRates = FALSE /\ factory \in Factories
    /\ phase = "down"
    /\ snapshot = NoSnapshot
    /\ task = "none"
    /\ call = [r \in Request |-> "idle"]
    /\ stored = [r \in Request |-> NoQuote]

\* The application publishes version 1 itself in a book it owns, and start()
\* does so in a book that has none.
Fresh == ownsRates \/ snapshot = NoSnapshot

FaultyStarted ==                         \* starts only what it has published
    IF Fresh THEN "running" ELSE task

\* start() makes a task unless one runs; one that has failed is done.
Started == "running"

\* The start of the lifespan; an error in it keeps the application down.
Startup ==
    /\ phase = "down"
    /\ IF Fresh THEN snapshot' = Published(1) ELSE UNCHANGED snapshot
    /\ IF Fresh => Publishable(1)
       THEN phase' = "up" /\ task' = Started
       ELSE UNCHANGED <<phase, task>>
    /\ UNCHANGED <<ownsRates, factory, call, stored>>

FaultyNextVersion == snapshot.version + 2

NextVersion == snapshot.version + 1

\* One turn of _run.  An error ends the task; nobody awaits it until stop().
Refresh ==
    /\ task = "running"
    /\ NextVersion \in DOMAIN factory
    /\ snapshot' = Published(NextVersion)
    /\ task' = IF Publishable(NextVersion) THEN "running" ELSE "failed"
    /\ UNCHANGED <<ownsRates, factory, phase, call, stored>>

\* The end of the lifespan.  The await in stop() raises the error of a task
\* that has failed, and then the book keeps the task.
Stop ==
    /\ phase = "up"
    /\ phase' = "down"
    /\ task' = IF task = "failed" THEN "failed" ELSE "none"
    /\ UNCHANGED <<ownsRates, factory, snapshot, call, stored>>

\* The process dies, the next one has a new book.
Crash ==
    /\ phase' = "down"
    /\ snapshot' = NoSnapshot
    /\ task' = "none"
    /\ call' = [r \in Request |-> IF call[r] = "quoted" THEN "idle" ELSE call[r]]
    /\ stored' = [r \in Request |-> IF call[r] = "quoted" THEN NoQuote ELSE stored[r]]
    /\ UNCHANGED <<ownsRates, factory>>

\* create reads its quote, or raises RouteNotFound, with no await between the
\* look at the snapshot and the route.
Quote(r) ==
    /\ phase = "up"
    /\ call[r] = "idle"
    /\ \E target \in Target :
           IF target \in DOMAIN snapshot.routes
           THEN /\ call' = [call EXCEPT ![r] = "quoted"]
                /\ stored' = [stored EXCEPT ![r] = snapshot.routes[target]]
           ELSE /\ call' = [call EXCEPT ![r] = "refused"]
                /\ UNCHANGED stored
    /\ UNCHANGED <<ownsRates, factory, phase, snapshot, task>>

FaultyRow(quote) == [quote EXCEPT !.version = snapshot.version]

\* The row holds the route, version and rate of the quote the call holds.
Row(quote) == quote

\* The transaction that inserts the row commits, or fails and leaves none.
Store(r) ==
    /\ call[r] = "quoted"
    /\ \/ /\ call' = [call EXCEPT ![r] = "stored"]
          /\ stored' = [stored EXCEPT ![r] = Row(stored[r])]
       \/ /\ call' = [call EXCEPT ![r] = "refused"]
          /\ stored' = [stored EXCEPT ![r] = NoQuote]
    /\ UNCHANGED <<ownsRates, factory, phase, snapshot, task>>

Next ==
    \/ Startup \/ Refresh \/ Stop \/ Crash
    \/ \E r \in Request : Quote(r) \/ Store(r)

\* The event loop runs a task that is ready.
Fairness == WF_bookVars(Refresh)

Spec == Init /\ [][Next]_bookVars /\ Fairness

-----------------------------------------------------------------------------
(* The state has its types: the application serves only with a snapshot, so
   the assertion of _run (routing.py 226) holds whenever the task runs. *)
TypeOK ==
    /\ ownsRates \in BOOLEAN
    /\ phase \in {"up", "down"}
    /\ snapshot.version \in 0..MaxVersion
    /\ DOMAIN snapshot.routes \subseteq Currency \ {USD}
    /\ task \in {"none", "running", "failed"}
    /\ call \in [Request -> {"idle", "quoted", "stored", "refused"}]
    /\ \A r \in Request : stored[r].version \in 0..MaxVersion
    /\ phase = "up" \/ task = "running" => snapshot # NoSnapshot

(* A row can be audited: whatever was published since, and however often the
   application restarted and counted from 1 again, the route in a row is the
   one computed from the graph of the version in the row, and so is its rate, up
   to the rounding of its column, which is not modelled (service.py 66-86; the
   audit of src/README.md:274-275). *)
RowsAreReproducible ==
    \A r \in Request :
        call[r] \in {"quoted", "stored"} =>
            LET row == stored[r]
            IN  /\ row.version \in DOMAIN factory
                /\ Publishable(row.version)
                /\ row.target \in Target \cap DOMAIN RoutesOf[factory[row.version]]
                /\ row = RouteQuotes(factory[row.version], row.version)[row.target]

(* The book always holds the whole snapshot of a good graph, and the refreshing
   stops only at a graph that is not: the last good snapshot is then served for
   ever (routing.py 198-201, 223-228). *)
LastGoodSnapshot ==
    /\ snapshot # NoSnapshot =>
           /\ Publishable(snapshot.version)
           /\ snapshot = RateSnapshot(factory[snapshot.version], snapshot.version)
    /\ task = "failed" => ~Publishable(snapshot.version + 1)

(* With the application's own factory the refresh never fails, and every route
   is the direct hop of the cheapest LP: no detour through another currency
   pays, at no version (routing.py 146-180). *)
GeneratedRoutesAreDirect ==
    ownsRates =>
        /\ \A v \in DOMAIN factory : Publishable(v)
        /\ task # "failed"
        /\ snapshot # NoSnapshot =>
               /\ DOMAIN snapshot.routes = Currency \ {USD}
               /\ \A c \in Currency \ {USD} :
                      LET hops == snapshot.routes[c].hops
                      IN  /\ Len(hops) = 1
                          /\ hops[1].lp = 1
                          /\ hops[1].target = c

(* A snapshot is replaced by the one of the next version; only a start of the
   application goes back to version 1, and only the end of the process loses
   the book (routing.py 208-228, main.py 51-54). *)
VersionsAdvanceByOne ==
    [][snapshot' # snapshot =>
          \/ snapshot'.version = snapshot.version + 1 /\ phase = phase'
          \/ snapshot'.version = 1 /\ phase = "down"
          \/ snapshot' = NoSnapshot /\ phase' = "down"]_bookVars

(* While the application serves, the rates go on moving to the last version of
   the bound: only a next graph that the router rejects can hold them up, not a
   task that ended without a word.  And every start has a refresh under way,
   whatever became of the one before: a start after a failure tries again
   (routing.py 208-213, 223-228). *)
RatesKeepMoving ==
    /\ phase = "up" ~>
           \/ phase = "down"
           \/ NextVersion \notin DOMAIN factory
           \/ ~Publishable(NextVersion)
    /\ [][phase = "down" /\ phase' = "up" => task' = "running"]_bookVars
=============================================================================
