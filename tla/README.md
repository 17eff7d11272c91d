# Verification of the settlement router

TLA+ models of the settlement service in `src/app`, the TLC runs that check
them on small instances, and TLAPS proofs for all instances. `PROJECT.json`
lists components, runs, mutants, the map from definitions to source lines,
findings, hazards and theorems.

## 1. Inventory

| part | state | operations | meets others by |
|---|---|---|---|
| settlement service (`service.py`) | `settlements`, `payout_attempts` rows; the locals of every call under way | `create`, `get`, `reconcile`, `run_reconciliation_once`, `reconciliation_loop`, the claims, `_finalize_attempt` | rows shared by all calls; calls to ledger, provider, rate book |
| ledger (`ledger.py`) | `accounts`, `journal_transactions`, `postings` | `reserve`, `consume`, `release`, `assert_ledger_invariants` | runs inside the caller's transaction |
| payout provider (`provider.py`) | `mock_provider_operations` and its identity sequence | `initiate`, `lookup` | two separate transactions of each caller |
| API and lifespan (`main.py`) | the process, the reconciler task | endpoints, error handlers, start-up, shutdown | starts calls and the reconciler |
| data model, schemas (`models.py`, `schemas.py`) | constraints, fingerprint | - | all of the above |
| seed (`seed.py`) | opening books | `seed_demo_accounts`, the audit of books it finds | accounts and journals; an advisory lock against other seeds |
| router (`routing.py`) | none, `compute_routes` is pure | `_collapsed_edges`, `_relax`, `_compute_routes` | the rate book calls it |
| rate book (`routing.py`) | the snapshot, the refresh task | `publish`, `quote`, `start`, `stop`, `_run` | the lifespan starts and stops it, `create` asks for a quote |
| triggers (`alembic`, 0002) | `journal_transactions`, `postings` | `guard_*`, `check_posted_journal` | constrain writers of journals |
| schema migrations (`alembic`) | - | DDL, a backfill | run once, before the service |

What is hard here: every `await` is a point where other calls run. A create
call may be overtaken by a retry with its key, by the reconciler once its lease
has run out, and by a manual reconcile at any time after its claim. A commit
may be done and its acknowledgement lost. The provider may time out for the
caller and have decided. The process may end between any two transactions.
`gather` drops the siblings of a failed task without stopping them. Below that,
a transaction is itself several statements that lock and read row after row
while others do the same, in an order that must exclude deadlocks; a quote is
read long before it is stored; the refresh task may fail with nobody awaiting it.

What makes each part correct:

* service: one payout per owner and key; a terminal status is what the provider
  decided; only the holder of the current token settles; while a lease runs
  nobody else claims, except that a manual reconcile may take over what a create
  call is still submitting; replies agree with the rows; unresolved payouts get
  resolved;
* ledger: no balance is negative, balances are the sums of the postings, the
  reserved account holds what is open, the omnibus account paid what succeeded;
* provider: one operation per settlement, its outcome final;
* lifespan: the pass before serving ends, calls are answered;
* row locks: what was read under a lock is still so at the commit, nobody waits
  in a circle, a transaction is as good as one step; a seed judges the books of
  a running service rightly;
* router: the routes are the best simple paths, ties included, and a graph is
  rejected exactly when a reachable cycle multiplies money;
* rate book: a bad graph never replaces a good snapshot, the quote in a row can
  be recomputed from the version in it, refreshing goes on;
* triggers: what is posted stays as it is.

## 2. Modules

| module | content |
|---|---|
| `Schema` | enumerations, request body, fingerprint, constants of an instance |
| `Ledger` | balances and journals; `_post` and its three uses |
| `Provider` | operations and the identity sequence; outcome tables, `initiate` |
| `SettlementService` | the composition: calls, rows, reconciler, process; `Spec`, `FairSpec` |
| `Escrow` | abstract specification: hold, decide, pay out or give back |
| `SettlementProperties` | the properties, and the refinement mapping to `Escrow` |
| `SettlementProofs` | the inductive invariant and the theorems |
| `EscrowProofs` | the proof that the service implements `Escrow` |
| `LedgerProofs` | sums over finite sets, and what a posting does to the ledger |
| `CustomerProofs` | money, reservations, bookings and replies of the service |
| `MCSettlement` | instances for TLC; one `.cfg` per run |
| `SerialDatabase` | abstract specification of the transactions: one step each, from committed tables |
| `Transactions` | the transactions of service, ledger and seed, one lock at a time |
| `TransactionsProofs` | no lost update, no deadlock, refinement of `SerialDatabase`, the ledger, the seed |
| `Routing` | the operators of the router, and `compute_routes` as one step |
| `RouteSearch` | `compute_routes` round by round, against the best of all simple paths |
| `RoutingProofs` | optimality, rejection and the early exit for every graph; lemmas for callers |
| `RateBook`, `RateBookProofs` | snapshots, refresh task, lifespan, stored quotes; the proofs |
| `LedgerGuards`, `LedgerGuardsProofs` | the triggers against arbitrary writers; the proof of what they do ensure |
| `MCTransactions`, `MCRouting`, `MCRateBook`, `MCGuards` | their instances |

How they fit: `SettlementService` is written with single-step transactions;
`Transactions` justifies that (`ImplementsSerial`). `RateBook` uses `Routing`
through `Acceptable` and `ComputeRoutes`, which `RouteSearch` shows to agree
with the loop (`EarlyExitIsHarmless`). `SettlementService` sees of the rate book
whether a target has a route (`Routable`); nothing later depends on the quote.
`Schema` and `Ledger` are shared by `SettlementService` and `SerialDatabase`.

Correspondence. A database transaction takes its first row lock before it
decides anything and holds no lock across a provider call, so it is one step.
That the writes of one transaction are all there or all missing is PostgreSQL's
promise and holds here by construction; what the runs examine is what comes
after a transaction that failed or whose acknowledgement was lost. `call[c]`
holds the program counter of a call and the locals it carries over an `await`:
settlement id, token, provider result, finally the reply. The steps of `create`
are `Find`, `Insert`, (after a lost insertion) `Find` again, `ClaimReserved`,
`SubmitPayout`, `Finalize` or `Get`. Those of `reconcile` are `Read`,
`ClaimForReconciliation` (which minds the lease of another reconciler's claim,
not that of a create call's, `service.py` 254-258), `LookupPayout`, perhaps
`SubmitPayout`, `Finalize`, after an error `Recover`, and `Get`. `ClaimDueBatch`
claims and starts one worker per claim; workers run the same steps. `Startup`,
`Serve`, `Stop` and `Exit` are the lifespan; `Crash`, `DatabaseError`,
`StartupError` and the second branch of `Acknowledge` (commit done, answer lost)
are the failures. `LeaseExpires` is the passing of ten seconds.

`Transactions` takes a transaction apart. `Lock` is one `with_for_update` row
(or the index entry a second inserter of a key waits for, or the advisory lock):
the row is read when it is granted. `Wanted` says which rows the statements lock,
given what was read so far; several at once are accounts, which `ORDER BY
Account.id` has locked in the order of random ids. The commit (`InsertSettlement`,
`ClaimPayout`, `ClaimForReconciliation`, `ClaimDueBatch`, `FinalizeAttempt`,
`SeedAccounts`) computes what it writes from what was *read*, never from the
committed tables, and frees the locks; `Rollback` frees them and writes nothing.
`LockDueBatch` is the pass with `SKIP LOCKED`. The seed reads the accounts
before it locks them (`Loaded`), and reads them again under the lock
(`populate_existing`). Lease times, attempt states and the provider are left to
`SettlementService`: a claim of an unresolved settlement may find it not due, and
any provider result may come.

In `RouteSearch`, `Collapse`, `RelaxRound` and `Check` are the three parts of
`_compute_routes`. In `RateBook` everything between two awaits is one step:
`Refresh` is one turn of `_run`, `Startup` and `Stop` the lifespan with `start()`
and `stop()`, `Quote` and `Store` the beginning and the commit of a create call.
In `LedgerGuards` each statement of a writer is an action, guarded by its trigger.

Data. Amounts are small naturals: `amount_usd` is validated to the digits of its
column, and what is posted is that amount. `aggregate_rate` and `quoted_amount` are
products that may have more digits than their columns (`models.py`):
PostgreSQL rounds them, and an audit has to quantise before it compares, as
`tests/load_test.py` does. That rounding is not modelled; a row
is reproducible here in its version and route, and in its rate up to the
rounding. The SHA-256 fingerprint is taken to be
injective. A settlement is named by the create call that drew its `uuid4`. The
order in which `_claim_due_batch` fills a full batch is left open, which allows
more behaviours than the code. A row that another transaction may hold locked
may be skipped (`SKIP LOCKED`).

Currencies and LPs are numbers in the alphabetical order of their codes, which
the tie-break compares. A rate is its logarithm on an integer scale, so that a
product is a sum and 1 is 0; the rounding of products to the digits of the
decimal context is not modelled, and equal products are equal. The rates of
`generate_edges` are rounded to units of 1/10000 of a logarithm, in which an LP
takes 10, 20 or 30 and an anchor drifts by at most 6.

Definitions whose name starts with `Faulty` stand before the definition they
are a broken variant of. They are never used by a specification: each is
substituted for the real one to see that a property notices (`mutants`).

## 3. Runs

| run | instance | checks |
|---|---|---|
| `races` | 2 create calls sending any of 5 commands (same key and body, same key with another body, a second key for the same funds, an owner without accounts, a target without a route), 1 manual reconcile, reconciler; 3 claims per settlement; opening 3 against amounts 1 and 2 | money, payouts, tokens, leases, replies, refinement |
| `faults` | 2 create calls with one key or two, the reconciler with batches of fifty, 2 database errors or lost acknowledgements, 1 crash or shutdown; provider script unpaid, then a timeout that hides that it has paid, then paid | holds, payouts, journals, outcomes, replies, tokens, fencing |
| `progress` | 2 create calls with two keys, no failures, batches of one | `EventuallyTerminal` |
| `restart` | 1 create call, 1 manual reconcile, 2 crashes or shutdowns and 2 database errors or lost acknowledgements, anywhere | `TerminalOrAbandoned`, `CallsReturn`, refinement |
| `transactions` | three workers at a time out of 2 create calls (one key or two), a reconcile call, a pass and 2 seeds, funds 3 or 4 against amounts 1 and 2, books open or not yet; four orders of account ids | lost updates, deadlock, audit, refinement of `SerialDatabase`, termination |
| `routing` | all graphs of 3 currencies, graphs of 4 with up to 4 edges, 2 LPs with ties and invalid rates; rates -1, 0, 1 | optimality, rejection, the loop invariant, the early exit |
| `rate_book` | the application's own rates for 8 versions, and all factories of 3 versions over a direct graph, a detour, a profitable cycle, a zero rate and an exception; 2 create calls | snapshots, stored quotes, versions, refreshing |
| `automatic`, `resubmit`, `load_full`, `ok_terminal`, `guards` | minimal | five statements of the documentation that do not hold, see 6 |

Bounds. Two create calls give every race on one key and on one balance, since
each transaction concerns one settlement and at most one rival key or balance.
`MaxToken` 3 gives a creator, a first and a second successor, so that a fenced
call can be late by two claims. `InitialOrdinals` places the provider just
before the change from paid to ambiguous (13) and to timed out (16) in its
table of twenty; `restart` has the submission that times out although it was paid
(18), which the create call never settles itself. `faults` begins at an unpaid
operation, with such a timeout next. Its two settlements and its batches of fifty
let one pass claim both; an error in the recovery of one then makes `gather` raise,
and its sibling goes on beside the next pass, which takes two errors. A manual call
besides would be too much for TLC there; `races` has one without failures and
`restart` one with them. `MaxToken` 6 in `restart` gives a claim to the creator, to
the manual call, and one more to follow each of two outages and two errors.
Database errors and lost acknowledgements are bounded by `MaxFaults`, crashes and
shutdowns by `MaxOutages`. Symmetry over the create calls is used in the safety
runs only.

In `transactions` three workers suffice for a circle through settlement,
attempt and account rows and for a third party that arrives late; the proofs
have no such bound. The four orders put the available account before and after
the reserved one and the omnibus account before and after it. In `routing` three
currencies in full give every cycle of length two and three, with and without
profit, and every detour and tie; four currencies with four edges give chains of
the full length with one edge more, which is where the number of rounds
matters. Rates of three values give ties and cycles that lose, break even and
win. `MaxVersion` 8 covers the period 7 of the drift of the anchors. Factories of
three versions give every bad graph before, between and after good ones.
`RouteSearch`, `RateBook` and `LedgerGuards` need no bound on steps.
`RatesKeepMoving` lets the refresh stop only before a graph that is not publishable,
not because the task has ended, and asks of every start a running task.

Fairness (`FairSpec`): weak fairness of the steps of each call and of the
reconciler's pass (the event loop runs every task that is ready, and
`reconciliation_loop` never ends), of lease expiry (time passes) and of start,
serving and exit (an operator or a supervisor starts the process again). There
is none for clients, faults or crashes: they may come anywhere up to their bound,
or not at all. The authority is paid or unpaid in the tables of the liveness
runs, so the first lookup after a submission that comes back decides, and
`MaxToken` is never what keeps a settlement open: if it were, `restart` would
find it neither terminal nor abandoned.

`Transactions` assumes only that some worker goes on as long as one can
(`WF_vars(\E w : Step(w))`): a free lock is granted to someone, and statements
and commits come to an end. `RateBook` assumes weak fairness of `Refresh`: the
event loop runs a task whose sleep is over. `Quote`, `Store`, starts and stops
have none. `RouteSearch` and `LedgerGuards` have safety properties only;
`RouteSearch` stops with a result, so deadlock is not checked there.

## 4. Proofs

`SettlementProofs` proves for every choice of the constants that satisfies the
named assumptions (`SchemaAssumption`, `LedgerAssumption`, `ProviderAssumption`,
`ServiceAssumption`, `DistinctCalls`; all are evaluated by TLC on each run). The
ledger's says that there are finitely many customers and that the omnibus opens
with the sum of their openings, as the seed books it:

* `TypeCorrectness`: `Spec => []TypeOK`;
* `OutcomeCorrectness`, `JournalCorrectness`, `PayoutUniqueness`: a terminal
  status is the provider's decision, journals follow the status, one operation
  per owner and key;
* `Fencing`, `LeaseExclusion`: the action properties `StatusMovesUnderToken`
  (a claimed settlement changes status only in the step in which the holder of
  the current token finalizes) and `LeaseIsExclusive` (while any lease runs, a
  create call's included, the attempt changes only in that step, by the passing of
  time, or by a manual reconcile that takes over an attempt still `SUBMITTING`);
* `TokenUniqueness`: no two calls under way share a token of one settlement;
* `Refinement` (in `EscrowProofs`): `Spec => ImplementsEscrow`.

None of these is inductive. `IInv` adds what the code relies on silently. Of the
rows: an attempt exists exactly when the settlement has been claimed, an
operation only for a claimed settlement, a definite answer of the provider is
its authority, rows have distinct keys. Of each call, by program counter: its
settlement exists, was claimed, its token is not ahead of the row's, its result
is what the provider recorded. A step changes one call and perhaps the database,
and the other calls keep what they rely on because the database only moves
forward (`Forward`: rows and claims stay, tokens grow, recorded operations are
final). So each transaction is shown once to keep the database in order and to
move it forward, each way for a call to go on is shown once to keep the calls in
order, and an action is the combination of the two. `LeaseOK`, kept by every
step that writes rows (`Writes` lists them), adds that an attempt left for the
reconciler has no running lease and that a completed one belongs to a settlement
that has ended: an unresolved attempt whose lease runs is a claim or a
submission, which `LeaseExclusion` needs. `TokenUniqueness` follows because a
new claim's token exceeds the row's, which bounds every token in use.

For `Refinement` the steps sort into five that the escrow sees (`PostSettlement`
is `Ask`, a committed `Insert` is `Hold`, the first recording of an operation is
`Decide`, a finalization with a definite result is `PayOut` or `GiveBack`) and
all others, which change nothing it shows. `IInv` supplies what makes the
guards true: a result in hand is the provider's, and an operation that is not
yet recorded belongs to a settlement that is not yet terminal.

`CustomerProofs` adds, for any customers, openings, amounts and numbers of calls:

* `LedgerCorrectness`: `Spec => []LedgerInvariants`, no balance is negative and
  each is the sum of the postings of its account;
* `AssetsMatchLiabilities`: the omnibus holds what the customers' accounts hold
  together (`BooksBalance`);
* `ReservationCorrectness`, `PayoutCorrectness`: a reserved account holds what is
  open, the omnibus has paid what succeeded;
* `BookingSucceeds`: `Spec => []ResultCanBeBooked`, `_finalize_attempt` never
  fails on its own postings;
* `ReplayFaithfulness`, `RefusalCorrectness`: the replies.

A sum is a fold over a set; `LedgerProofs` derives what the proofs need of it
(one element added, changed or renamed, bounds) by `SetInduction`: a set of
subsets that has the empty one and with each subset those with one element more
has them all. The claim is a set instead of a predicate, so no induction over
data is needed that the provers cannot instantiate. `MoneyOK` joins the sums to
`IInv`: the ledger is in order, assets match liabilities, there are finitely
many rows, and the two sums over rows are as stated. Each of them needs another:
a release fits because the reserved account covers the row, a consumption because
the omnibus holds what is reserved; a journal that is posted for the first time
changes the sum of its accounts by its entries. `RepliesOK` says of a create call
what it relies on before it replies: its own row is still absent up to the
insertion, later the row it works on is stored under its key and body. `Lasts`
is what keeps that true while others move: rows, keys, claims and ends stay.

`TransactionsProofs` proves, under `SchemaAssumption`, `LedgerAssumption`,
`SerialAssumption` (seeds are for customers; no customer is called as the missing
value) and `TransactionsAssumption` (the kinds of workers are disjoint, account
ids are distinct), for any workers, owners, accounts and orders of ids:

* `NoLostUpdate`: `Spec => []ReadingsStayTrue`;
* `Serializable`: `Spec => ImplementsSerial`;
* `NoDeadlock`: `Spec => []NoCircularWait`;
* `LedgerCorrectness`: `Spec => []LedgerInvariants`, here of what is committed
  while transactions interleave lock by lock;
* `SeedCorrectness`: `Spec => []SeedJudgesRightly`;
* `TypeCorrectness`: `Spec => []TypeOK`.

The inductive invariant `IInv` says that no resource is held twice, that a row
that is held is there (so nobody holds what is yet to be inserted, and nobody
holds an account before the books are open), that an attempt is held only with
its settlement, that readings are true, and that a transaction holds nothing but
what it wants, of the accounts the first ones by id. A writer then holds all it
changes, or nobody can hold it (`FramedBy`), so the readings of the others stay
true (`Others`); and because its own are true at the commit, what it computes
from them is a step of `SerialDatabase` (`BookingIsPosting`, and one lemma per
transaction). For `NoDeadlock` each lock has a rank: key and seed lock,
settlement, attempt, accounts by id. What a waiting transaction holds ranks
below what it waits for (`HeldBeforeNext`), so in a circle the one that waits for
the highest rank waits for nobody in it. `LedgerCorrectness` needs no more about
locks: every step is one of `SerialDatabase`, and those keep the ledger in order.
For `SeedCorrectness`, `VerdictsOK` says that books once judged stay as they were
judged; a seed that finds books reads them under locks, where the ledger is in
order, so its audit cannot fail for transfers under way.

`RoutingProofs` proves for any finite set of currencies, any LPs and any finite
graphs (`RoutingAssumption`, `RouteSearchAssumption`):

* `TypeCorrectness`: `Spec => []TypeOK`;
* `EarnedRates`: `Spec => []RatesAreEarned`, a candidate is a chain of the given
  edges and its rate is their product;
* `OptimalRoutes`: `Spec => []RoutesAreOptimal`, what is published are the best
  simple paths, ties included;
* `RightVerdicts`: `Spec => []RejectsExactlyArbitrage`, in both directions;
* `PathsCovered`: `Spec => []RoundsCoverPaths`;
* `EarlyExit`: `Spec => []EarlyExitIsHarmless`;
* `BestRates`: no walk through the graph, however long, pays more than the route
  published to its end; with `EarnedRates` the rate is the best there is;
* `NoArbitrage`: no cycle at a reachable currency multiplies money in a graph
  that was published.

The tie-break is a strict order of the candidates (`BetterIsStrict`), so among
the finitely many offers of a round there is one that none beats (`BestExists`)
and the result of a round is not arbitrary; a collapsed edge is as good as those
it replaces (`CollapsedKeepsTheBest`). Hence a table that the extra round leaves
alone gains nothing along any edge (`NothingToGain`), and by the least place
where it could fail, along any walk. `SearchInvariant` keeps this with the
chains and the products. Where one would argue by induction over the length of
a chain, the proofs take the least counterexample (`LeastNatural`).

The other properties rest on `PathInvariant`. Its parts: every beginning of a
candidate is matched by the candidate of the currency it leads to
(`PrefixesKept`), so a candidate that returned to a currency would have closed a
cycle that pays (`StaySimple`); unless such a cycle exists all candidates are
simple; and every simple path of at most as many hops as there were rounds is
matched (`Covers`), since the best offer of the next round is no worse than the
next hop after a matched path (`ExtendsNoWorse`, `CoversMore`). A simple path has
at most `Rounds` hops (`SimpleLength`), so at the end all are covered. Then the
extra round finds a gain exactly if there is a cycle that pays: if it finds none
no cycle does (`NothingGained`), and what it finds is no simple path
(`NothingMoreToFind`). For the early exit, a table that one round leaves alone is
left alone by all later ones (`SettledForGood`).

`RateBookProofs` proves for every factory, with `RateBookAssumption` (the
currencies of the code; factories return graphs or raise) and `RaisesAssumption`
(the value that stands for an exception is no graph of the application's own):

* `GoodSnapshots`, `Audit`, `VersionOrder`: `LastGoodSnapshot`,
  `RowsAreReproducible` and the action property `VersionsAdvanceByOne`;
* `TypeCorrectness`: `Spec => []TypeOK`, which has the assertion of `_run` in it;
* `DirectRoutesOnly`: `Spec => []GeneratedRoutesAreDirect`, for any number of
  versions, not only the period that TLC walks through.

`BookInvariant` adds to the properties that the snapshot is of a version the
factory was asked for, and `BookTypes` that the factory does not change, that
whoever serves or refreshes has a snapshot and that no quote is left with a
request that holds none. What the router accepts and returns is taken from
`RoutingProofs`, of which `RateBookProofs` makes an instance (`Search`) for its
lemmas about `compute_routes` as a function; `SameRouter` identifies the two. For
`DirectRoutesOnly` the anchors of a version are heights: every rate is the
difference of two heights less what the LP takes. Around a cycle the heights
cancel and the fees remain, so no cycle pays; along a path the fees add up, so
the direct hop of the cheapest LP beats the rest (`DirectRoutes`). The argument
does not depend on the anchors, and so not on the drift.

`LedgerGuardsProofs` proves `ClosedJournals` (`PostedJournalsAreClosed`), what
the triggers do ensure in spite of finding 5: a posted journal is posted for
good, gets no posting it was not committed with, and appears only complete; the
invariant `Guarded` says that a writer sees the committed journals as posted and
has none of them on its list of insertions.

Model-checked only: liveness (`EventuallyTerminal`, `TerminalOrAbandoned`,
`CallsReturn`, `EveryTransactionEnds`, `RatesKeepMoving`), which is out of the
prover's reach, and the five runs of section 6, which are counterexamples. Every
invariant and every other action property of a passing run is a theorem.

## 5. Not modelled

The schema migrations (DDL run before the service starts, their backfill of
attempts for rows of an older release, the downgrade), `db.py` and
`decimal_policy.py` (no state of their own), input validation, `GET` and
`/health`, which change nothing, and the provider without a database, which
tests use. One process runs at a time in `SettlementService`:
`docker-compose.yml` starts one; `Transactions` has no such restriction. The
USDC omnibus account is never posted to and left out. Rounding of rates is left
out, see 2. `LedgerGuards` has one writer at a time.

## 6. Findings

1. `automatic` (`service.py:286`): the reconciler selects attempts that are
   `SUBMITTING` or `RECONCILING`. Its own claim makes them `CLAIMED`; if the
   process ends before the finalization nobody selects them again, lease or no
   lease, until a client calls reconcile. `TerminalOrAbandoned` states what
   does hold.
2. `resubmit` (`service.py:322`): lookup and initiate are two transactions, so
   a reconciler can submit an operation that has become ambiguous meanwhile.
   The provider deduplicates: `OnePayoutPerKey` holds.
3. `load_full` (`provider.py:123`): identity values are used up by conflicts
   and rollbacks, so the thousandth operation may be refused.
4. `ok_terminal` (`main.py:144`): reconcile answers 200 for `RESERVED`.
5. `guards` (migration 0002, line 83): the posting trigger looks up the journal
   of the new row, so an `UPDATE` can move a posting of a posted journal to one
   that is not posted. The application never updates postings.
   `PostedJournalsAreClosed` states what does hold.

## 7. Plan

Done: the core, the row locks and the seed, the router, the rate book and the
triggers, with the proofs of section 4. Left:

1. `Transactions` against `SettlementService`: what `SerialDatabase` does is what
   the single-step transactions of the service do to the rows they share, as a
   theorem instead of the argument in section 2.
2. The invariants behind the liveness properties: that somebody is always able
   to take the next step that the fairness assumes (the safety part of
   `CallsReturn` and `EveryTransactionEnds`).
3. The backfill of migration 0002 as an initial state of `SettlementService`,
   and two processes on one database.
