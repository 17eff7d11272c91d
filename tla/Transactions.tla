---------------------------- MODULE Transactions ----------------------------
(***************************************************************************)
(* The database transactions of app/service.py, app/ledger.py and          *)
(* app/seed.py, one lock at a time.  A transaction locks a row, reads it,  *)
(* goes on to the next, and writes at its commit what it computed from     *)
(* what it read; its locks are held to its end.  PostgreSQL is external:   *)
(* READ COMMITTED, row locks that exclude each other, a unique index whose *)
(* entry makes a second inserter wait, SKIP LOCKED, an advisory lock.      *)
(*                                                                         *)
(* Rows a transaction only locks because a foreign key points to them are  *)
(* rows it holds anyway.  The omnibus account in USDC has no postings and  *)
(* is locked by the seed alone; it is left out.  When a lease is due, and  *)
(* which state an attempt is in, are not modelled: a claim of an           *)
(* unresolved settlement may succeed or find that it is not due.           *)
(*                                                                         *)
(* A definition whose name starts with "Faulty" is a variant of the one    *)
(* after it with a bug; no specification uses it.                          *)
(***************************************************************************)
EXTENDS SerialDatabase

CONSTANTS
    Manual,       \* reconcile calls
    Pass,         \* reconciliation passes
    Seed,         \* runs of app.seed
    Scenarios,    \* who runs at one time, and the commands of the create calls
    AccountIds    \* orders of the accounts by their ids, which are random

Worker == Request \cup Manual \cup Pass \cup Seed

ASSUME TransactionsAssumption ==
    /\ Scenarios \subseteq [active : SUBSET Worker, terms : [Request -> Commands]]
    /\ \A ids \in AccountIds :
           /\ ids \in [Account -> Nat]
           /\ \A a, b \in Account : a # b => ids[a] # ids[b]
    /\ Request \cap Manual = {} /\ Request \cap Pass = {} /\ Request \cap Seed = {}
    /\ Manual \cap Pass = {} /\ Manual \cap Seed = {} /\ Pass \cap Seed = {}

VARIABLES
    accountId,    \* accountId[a]: the place of the id of account a
    job,          \* job[w]: the arguments of the seed run w
    held,         \* held[w]: what the transaction of w has locked
    seen,         \* seen[w]: what the transaction of w has read, by resource
    tx            \* tx[w]: the transaction the worker w is in

lockVars == <<accountId, job, held, seen, tx>>
vars == <<serialVars, lockVars>>

-----------------------------------------------------------------------------
\* What can be locked: the index entry of an owner and key, a settlement row,
\* an attempt row, an account row and the seed's advisory lock.
KeyEntry(s) == <<"key", terms[s].owner, terms[s].key>>
SettlementRow(s) == <<"settlement", s>>
AttemptRow(s) == <<"attempt", s>>
AccountRow(a) == <<"account", a>>
SeedLock == <<"seed">>

Resource ==
    ({"key"} \X Owner \X Key) \cup ({"settlement"} \X Request)
    \cup ({"attempt"} \X Request) \cup ({"account"} \X Account) \cup {SeedLock}

Value(r) ==
    CASE r[1] = "key" ->
            \E t \in Request : KeyEntry(t) = r /\ status[t] # "ABSENT"
      [] r[1] = "settlement" -> status[r[2]]
      [] r[1] = "attempt" -> token[r[2]]
      [] r[1] = "account" -> balance[r[2]]
      [] OTHER -> books

Saw(w, r) == r \in held[w]

\* The transactions a worker can be in, and how its work can end.
Running == {"insert", "claim", "reclaim", "batch", "claimed", "finalize", "seed"}
Ended == {"done", "error", "created", "validated", "inconsistent"}

Tx(kind, s, t, result, rest) ==
    [kind |-> kind, settlement |-> s, token |-> t, result |-> result, rest |-> rest]

Start(kind, s) == Tx(kind, s, 0, "NONE", {})

End(kind) == Tx(kind, "NULL", 0, "NONE", {})

-----------------------------------------------------------------------------
\* The postings of a transaction: what is debited and what is credited.
Debited(w) ==
    LET owner == terms[tx[w].settlement].owner
    IN  IF tx[w].kind = "insert" THEN AvailableOf(owner) ELSE ReservedOf(owner)

Credited(w) ==
    LET owner == terms[tx[w].settlement].owner
    IN  CASE tx[w].kind = "insert" -> ReservedOf(owner)
          [] tx[w].kind = "finalize" /\ tx[w].result = "PAID" -> Omnibus
          [] OTHER -> AvailableOf(owner)

AccountRows(accounts) == {AccountRow(a) : a \in accounts \cap Existing}

\* What the statements of a transaction lock, as far as what it has read so
\* far lets it get.  The rows of an insert and a finalization are there to be
\* locked only once the statement before has found what it needs.
Rows(s) == IF status[s] = "ABSENT" THEN {} ELSE {SettlementRow(s)}

InsertRows(w) ==
    LET key == KeyEntry(tx[w].settlement)
    IN  {key} \cup
        (IF Saw(w, key) /\ ~seen[w][key]
         THEN AccountRows({Debited(w), Credited(w)}) ELSE {})

ReclaimRows(w) ==
    LET row == SettlementRow(tx[w].settlement)
    IN  Rows(tx[w].settlement) \cup
        (IF Saw(w, row) /\ seen[w][row] \in Unresolved
         THEN {AttemptRow(tx[w].settlement)} ELSE {})

\* The attempt is fenced by its token, and a terminal status is left alone.
Settles(w) ==
    LET row == SettlementRow(tx[w].settlement)
        attempt == AttemptRow(tx[w].settlement)
    IN  /\ seen[w][attempt] = tx[w].token
        /\ seen[w][row] \notin Terminal

FinalizeRows(w) ==
    LET row == SettlementRow(tx[w].settlement)
        attempt == AttemptRow(tx[w].settlement)
    IN  Rows(tx[w].settlement)
        \cup (IF Saw(w, row) THEN {attempt} ELSE {})
        \cup (IF /\ Saw(w, row) /\ Saw(w, attempt) /\ Settles(w)
                 /\ tx[w].result # "NONE"
              THEN AccountRows({Debited(w), Credited(w)}) ELSE {})

\* The seed locks the accounts to audit books it has found to be its own.
SeedRows(w) ==
    {SeedLock} \cup
    (IF Saw(w, SeedLock) /\ seen[w][SeedLock] = job[w]
     THEN AccountRows(Account) ELSE {})

Wanted(w) ==
    CASE tx[w].kind = "insert" -> InsertRows(w)
      [] tx[w].kind = "claim" -> Rows(tx[w].settlement)
      [] tx[w].kind = "reclaim" -> ReclaimRows(w)
      [] tx[w].kind = "finalize" -> FinalizeRows(w)
      [] tx[w].kind = "seed" -> SeedRows(w)
      [] OTHER -> {}

Missing(w) == Wanted(w) \ held[w]

FaultyNextLock(w) ==                     \* the debited account first
    IF tx[w].kind # "seed" /\ AccountRow(Debited(w)) \in Missing(w)
    THEN AccountRow(Debited(w))
    ELSE CHOOSE r \in Missing(w) :
             \A q \in Missing(w) \ {r} : accountId[r[2]] < accountId[q[2]]

\* Several rows are missing only when they are accounts, and those are locked
\* in the order of their ids.
NextLock(w) ==
    CHOOSE r \in Missing(w) :
        \A q \in Missing(w) \ {r} : accountId[r[2]] < accountId[q[2]]

FaultyGrantable(r) ==                    \* accounts are read without a lock
    r[1] = "account" \/ \A w \in Worker : r \notin held[w]

Grantable(r) == \A w \in Worker : r \notin held[w]

Blocked(w) == Missing(w) # {} /\ ~Grantable(NextLock(w))

-----------------------------------------------------------------------------
\* The seed reads the accounts before it locks them.
Loaded(r) == IF r = SeedLock THEN AccountRows(Account) ELSE {}

FaultyRead(w, r) ==                      \* an object once loaded is kept
    [q \in DOMAIN seen[w] \cup {r} \cup Loaded(r) |->
        IF q \in DOMAIN seen[w] THEN seen[w][q] ELSE Value(q)]

\* A row is read when its lock is granted, over what was known of it.
Read(w, r) ==
    [q \in DOMAIN seen[w] \cup {r} \cup Loaded(r) |->
        IF q \in DOMAIN seen[w] \ {r} THEN seen[w][q] ELSE Value(q)]

NothingSeen == [r \in {} |-> FALSE]

Lock(w) ==
    /\ Missing(w) # {}
    /\ LET r == NextLock(w)
       IN  /\ Grantable(r)
           /\ held' = [held EXCEPT ![w] = @ \cup {r}]
           /\ seen' = [seen EXCEPT ![w] = Read(w, r)]
    /\ UNCHANGED <<serialVars, accountId, job, tx>>

FaultyFreed(w) ==                        \* the account locks stay
    [held EXCEPT ![w] = {r \in @ : r[1] = "account"}]

Freed(w) == [held EXCEPT ![w] = {}]

\* A commit or a rollback: the locks go, and the worker takes its next step.
Ends(w, next) ==
    /\ held' = Freed(w)
    /\ seen' = [seen EXCEPT ![w] = NothingSeen]
    /\ tx' = [tx EXCEPT ![w] = next]
    /\ UNCHANGED <<accountId, job>>

\* What _post makes of the balances that were read under the locks.
NewBalance(w, a, side) ==
    seen[w][AccountRow(a)] + Signed(a, side, terms[tx[w].settlement].amount)

CanBook(w, event) ==
    /\ Saw(w, AccountRow(Debited(w))) /\ Saw(w, AccountRow(Credited(w)))
    /\ seen[w][AccountRow(Debited(w))] >= terms[tx[w].settlement].amount
    /\ ~IsPosted(tx[w].settlement, event)
    /\ NewBalance(w, Debited(w), "DEBIT") >= 0
    /\ NewBalance(w, Credited(w), "CREDIT") >= 0

Book(w, event) ==
    /\ balance' = [balance EXCEPT ![Debited(w)] = NewBalance(w, Debited(w), "DEBIT"),
                                  ![Credited(w)] = NewBalance(w, Credited(w), "CREDIT")]
    /\ journals' = journals \cup
           {[settlement |-> tx[w].settlement, event |-> event,
             debit |-> Debited(w), credit |-> Credited(w),
             amount |-> terms[tx[w].settlement].amount]}

-----------------------------------------------------------------------------
Ready(w, kind) == tx[w].kind = kind /\ Missing(w) = {}

\* A provider result, or none, for the claim just committed.
Finalization(c, rest) ==
    {Tx("finalize", c.settlement, c.token, result, rest) :
        result \in {"PAID", "UNPAID", "NONE"}}

\* The loser of a race for a key goes on with the row of the winner, unless
\* that was made for another body.
Adopt(w) ==
    LET s == tx[w].settlement
    IN  \E t \in Request :
            /\ KeyEntry(t) = KeyEntry(s)
            /\ status[t] # "ABSENT"
            /\ Ends(w, IF RequestFingerprint(terms[t]) = RequestFingerprint(terms[s])
                       THEN Start("claim", t) ELSE End("error"))

InsertSettlement(w) ==
    LET s == tx[w].settlement
    IN  /\ Ready(w, "insert")
        /\ IF seen[w][KeyEntry(s)]
           THEN Adopt(w) /\ UNCHANGED serialVars
           ELSE IF CanBook(w, "RESERVE")
           THEN /\ Book(w, "RESERVE")
                /\ status' = [status EXCEPT ![s] = "RESERVED"]
                /\ Ends(w, Start("claim", s))
                /\ UNCHANGED <<terms, token, books>>
           ELSE Ends(w, End("error")) /\ UNCHANGED serialVars

ClaimPayout(w) ==
    LET s == tx[w].settlement
    IN  /\ Ready(w, "claim")
        /\ IF seen[w][SettlementRow(s)] = "RESERVED"
           THEN /\ status' = [status EXCEPT ![s] = "PAYOUT_IN_PROGRESS"]
                /\ token' = [token EXCEPT ![s] = 1]
                /\ \E next \in Finalization([settlement |-> s, token |-> 1], {}) :
                       Ends(w, next)
                /\ UNCHANGED <<balance, journals, terms, books>>
           ELSE Ends(w, End("done")) /\ UNCHANGED serialVars

ClaimForReconciliation(w) ==
    LET s == tx[w].settlement
        renewed == seen[w][AttemptRow(s)] + 1
    IN  /\ Ready(w, "reclaim")
        /\ \/ /\ Saw(w, SettlementRow(s))
              /\ seen[w][SettlementRow(s)] \in Unresolved
              /\ token' = [token EXCEPT ![s] = renewed]
              /\ \E next \in Finalization([settlement |-> s, token |-> renewed], {}) :
                     Ends(w, next)
              /\ UNCHANGED <<balance, journals, terms, status, books>>
           \/ /\ Ends(w, End(IF Saw(w, SettlementRow(s)) THEN "done" ELSE "error"))
              /\ UNCHANGED serialVars

FaultyUnlocked(s) == TRUE                \* no locked row is skipped

\* Due rows that nobody holds; a pass never waits for the others.
Unlocked(s) ==
    Grantable(SettlementRow(s)) /\ Grantable(AttemptRow(s))

LockDueBatch(w) ==
    /\ tx[w].kind = "batch"
    /\ \E due \in SUBSET {s \in Request : status[s] \in Unresolved /\ Unlocked(s)} :
           LET rows == {SettlementRow(s) : s \in due} \cup {AttemptRow(s) : s \in due}
           IN  /\ held' = [held EXCEPT ![w] = rows]
               /\ seen' = [seen EXCEPT ![w] = [r \in rows |-> Value(r)]]
               /\ tx' = [tx EXCEPT ![w] = [Start("claimed", "NULL") EXCEPT !.rest =
                            {[settlement |-> s, token |-> token[s] + 1] : s \in due}]]
    /\ UNCHANGED <<serialVars, accountId, job>>

\* The claims of a pass are finalized one after the other here, and by tasks
\* of one process in the code.
Proceed(w, rest) ==
    IF rest = {} THEN Ends(w, End("done"))
    ELSE \E c \in rest : \E next \in Finalization(c, rest \ {c}) : Ends(w, next)

ClaimDueBatch(w) ==
    LET claimed == {c.settlement : c \in tx[w].rest}
    IN  /\ tx[w].kind = "claimed"
        /\ token' = [s \in Request |->
                        IF s \in claimed THEN seen[w][AttemptRow(s)] + 1 ELSE token[s]]
        /\ Proceed(w, tx[w].rest)
        /\ UNCHANGED <<balance, journals, terms, status, books>>

FinalizeAttempt(w) ==
    LET s == tx[w].settlement
        Writes(new) ==
            /\ status' = [status EXCEPT ![s] = new]
            /\ Proceed(w, tx[w].rest)
            /\ UNCHANGED <<terms, token, books>>
    IN  /\ Ready(w, "finalize")
        /\ IF ~Settles(w)
           THEN Proceed(w, tx[w].rest) /\ UNCHANGED serialVars
           ELSE \/ /\ tx[w].result = "PAID" /\ CanBook(w, "CONSUME")
                   /\ Book(w, "CONSUME")
                   /\ Writes("SUCCESS")
                \/ /\ tx[w].result = "UNPAID" /\ CanBook(w, "RELEASE")
                   /\ Book(w, "RELEASE")
                   /\ Writes("FAILED")
                \/ /\ tx[w].result = "NONE"
                   /\ UNCHANGED ledgerVars
                   /\ Writes("PENDING_RECONCILIATION")

\* assert_ledger_invariants: the balances as they were read, against the
\* postings as they are committed now that no account can change.
Audit(w) ==
    \A a \in Existing :
        /\ seen[w][AccountRow(a)] >= 0
        /\ seen[w][AccountRow(a)] = Expected(a)

SeedAccounts(w) ==
    /\ Ready(w, "seed")
    /\ IF seen[w][SeedLock] = NoBooks
       THEN /\ books' = job[w]
            /\ balance' = OpenedBalance(job[w].owner, job[w].amount)
            /\ journals' = OpenedJournals(job[w].owner, job[w].amount)
            /\ Ends(w, End("created"))
            /\ UNCHANGED <<terms, status, token>>
       ELSE /\ Ends(w, End(IF seen[w][SeedLock] = job[w] /\ Audit(w)
                           THEN "validated" ELSE "inconsistent"))
            /\ UNCHANGED serialVars

\* A statement or the commit fails, or the connection is lost.  A reconciler
\* whose finalization failed tries again without the result.
Rollback(w) ==
    /\ tx[w].kind \in Running
    /\ \/ Ends(w, End("error"))
       \/ /\ tx[w].kind = "finalize" /\ w \notin Request
          /\ tx[w].result # "NONE"
          /\ Ends(w, [tx[w] EXCEPT !.result = "NONE"])
    /\ UNCHANGED serialVars

-----------------------------------------------------------------------------
\* The first transaction of a worker.
First(w, reconciled) ==
    CASE w \in Request -> Start("insert", w)
      [] w \in Manual -> Start("reclaim", reconciled[w])
      [] w \in Pass -> Start("batch", "NULL")
      [] w \in Seed -> Start("seed", "NULL")

Init ==
    /\ SerialInit
    /\ accountId \in AccountIds
    /\ held = [w \in Worker |-> {}]
    /\ seen = [w \in Worker |-> NothingSeen]
    /\ \E scenario \in Scenarios, asked \in [Seed -> SeedJobs],
          reconciled \in [Manual -> Request] :
           /\ terms = scenario.terms
           /\ job = [w \in Seed |->
                        IF w \in scenario.active THEN asked[w] ELSE NoBooks]
           /\ tx = [w \in Worker |->
                        IF w \in scenario.active THEN First(w, reconciled)
                        ELSE End("done")]

Step(w) ==
    \/ Lock(w) \/ InsertSettlement(w) \/ ClaimPayout(w)
    \/ ClaimForReconciliation(w) \/ LockDueBatch(w) \/ ClaimDueBatch(w)
    \/ FinalizeAttempt(w) \/ SeedAccounts(w)

Finished == \A w \in Worker : tx[w].kind \in Ended

\* Every worker has ended; anything else that cannot go on is a deadlock.
Stop == Finished /\ UNCHANGED vars

Next == Stop \/ \E w \in Worker : Step(w) \/ Rollback(w)

\* As long as some worker can go on, one does: no more is needed, since no
\* worker has an endless supply of transactions.
Fairness == WF_vars(\E w \in Worker : Step(w))

Spec == Init /\ [][Next]_vars /\ Fairness

-----------------------------------------------------------------------------
(* The state has its types, and the lock table and the readings agree: a
   transaction has read what it holds. *)
TypeOK ==
    /\ balance \in [Account -> Int]
    /\ status \in [Request -> RowStatus]
    /\ token \in [Request -> Nat]
    /\ books \in SeedJobs \cup {NoBooks} \cup
           {[owner |-> h, amount |-> Opening[h]] : h \in Holder}
    /\ held \in [Worker -> SUBSET Resource]
    /\ \A w \in Worker :
           /\ tx[w].kind \in Running \cup Ended
           /\ held[w] \subseteq DOMAIN seen[w]
           /\ tx[w].kind \in Ended => held[w] = {}

(* What a transaction has read under a lock is still so when it writes: no other
   transaction changes a row it holds, so no update is lost (service.py and
   ledger.py: every with_for_update; the unique key of models.py 94-99). *)
ReadingsStayTrue ==
    \A w \in Worker : \A r \in held[w] : seen[w][r] = Value(r)

(* No set of transactions waits for each other in a circle, whatever the order
   of the account ids: settlement before attempt before accounts, accounts by
   id, and the key and the seed's lock before accounts (ledger.py 44-52,
   143-149; service.py 192, 225-241, 360-371). *)
NoCircularWait ==
    \A circle \in SUBSET {w \in Worker : Blocked(w)} :
        circle # {} =>
            \E w \in circle : \A v \in circle : NextLock(w) \notin held[v]

(* A seed judges the books of a running service rightly: it finds an
   inconsistency only if they were opened by a seed with another owner or
   amount, though transfers are under way, and says they are its own only if
   they are (seed.py 57-137, ledger.py 143-153). *)
SeedJudgesRightly ==
    \A w \in Seed :
        /\ tx[w].kind = "inconsistent" => books # NoBooks /\ books # job[w]
        /\ tx[w].kind \in {"created", "validated"} => books = job[w]
        /\ \A v \in Seed \ {w} :
               tx[w].kind = "created" => tx[v].kind # "created"

(* The transactions are as good as single steps: each one changes the committed
   tables by one step of SerialDatabase, or not at all. *)
ImplementsSerial == SerialSpec

(* Every transaction ends: none waits for ever, for a lock or for one that has
   gone (service.py, seed.py: each transaction is one `with session.begin()`). *)
EveryTransactionEnds == <>Finished
=============================================================================
