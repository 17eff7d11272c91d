--------------------------- MODULE SerialDatabase ---------------------------
(***************************************************************************)
(* What the transactions of the service and of the seed promise: every one *)
(* of them takes effect in a single step, computed from what is committed  *)
(* at that moment, with no locks, no waiting and no values read earlier.   *)
(* SettlementService is written on this promise.                           *)
(***************************************************************************)
EXTENDS Ledger

CONSTANT SeedJobs   \* the owners and amounts the seed is run with

ASSUME SerialAssumption ==
    /\ SeedJobs \subseteq [owner : Holder, amount : Nat]
    /\ "NULL" \notin Holder

VARIABLES
    terms,     \* terms[s]: the command of the create call s
    status,    \* status[s]: the status of settlement row s, or "ABSENT"
    token,     \* token[s]: the token of the attempt row of s, 0 without one
    books      \* who the seed opened the books for, and with how much

serialVars == <<balance, journals, terms, status, token, books>>

NoBooks == [owner |-> "NULL", amount |-> 0]

\* The accounts that exist: the customer's two and the omnibus, once opened.
Existing ==
    IF books = NoBooks THEN {}
    ELSE {AvailableOf(books.owner), ReservedOf(books.owner), Omnibus}

OpenedBalance(owner, amount) ==
    [a \in Account |->
        IF a \in {Omnibus, AvailableOf(owner)} THEN amount ELSE 0]

OpenedJournals(owner, amount) ==
    {[settlement |-> "NULL", event |-> "OPENING", debit |-> Omnibus,
      credit |-> AvailableOf(owner), amount |-> amount]}

\* The settlement row that holds the key of a command, if there is one.
SameKey(s, t) == terms[s].owner = terms[t].owner /\ terms[s].key = terms[t].key

KeyTaken(s) == \E t \in Request : SameKey(s, t) /\ status[t] # "ABSENT"

-----------------------------------------------------------------------------
\* The books are as the seed left them, or the seed has yet to run.
SerialInit ==
    /\ terms \in [Request -> Commands]
    /\ status = [s \in Request |-> "ABSENT"]
    /\ token = [s \in Request |-> 0]
    /\ \/ /\ books = NoBooks
          /\ balance = [a \in Account |-> 0]
          /\ journals = {}
       \/ \E owner \in Holder :
              /\ books = [owner |-> owner, amount |-> Opening[owner]]
              /\ balance = OpenedBalance(owner, Opening[owner])
              /\ journals = OpenedJournals(owner, Opening[owner])

OpenBooks(owner, amount) ==
    /\ books = NoBooks
    /\ books' = [owner |-> owner, amount |-> amount]
    /\ balance' = OpenedBalance(owner, amount)
    /\ journals' = OpenedJournals(owner, amount)
    /\ UNCHANGED <<terms, status, token>>

Insert(s) ==
    /\ status[s] = "ABSENT"
    /\ ~KeyTaken(s)
    /\ {AvailableOf(terms[s].owner), ReservedOf(terms[s].owner)} \subseteq Existing
    /\ CanReserve(s, terms[s])
    /\ Reserve(s, terms[s])
    /\ status' = [status EXCEPT ![s] = "RESERVED"]
    /\ UNCHANGED <<terms, token, books>>

ClaimReserved(s) ==
    /\ status[s] = "RESERVED"
    /\ status' = [status EXCEPT ![s] = "PAYOUT_IN_PROGRESS"]
    /\ token' = [token EXCEPT ![s] = 1]
    /\ UNCHANGED <<balance, journals, terms, books>>

\* One settlement is claimed by a call, several by a pass.
Reclaim(claimed) ==
    /\ claimed # {}
    /\ \A s \in claimed : status[s] \in Unresolved
    /\ token' = [s \in Request |-> IF s \in claimed THEN token[s] + 1 ELSE token[s]]
    /\ UNCHANGED <<balance, journals, terms, status, books>>

Settle(s) ==
    /\ status[s] \in Unresolved
    /\ \/ /\ CanConsume(s, terms[s])
          /\ Consume(s, terms[s])
          /\ status' = [status EXCEPT ![s] = "SUCCESS"]
       \/ /\ CanRelease(s, terms[s])
          /\ Release(s, terms[s])
          /\ status' = [status EXCEPT ![s] = "FAILED"]
       \/ /\ status' = [status EXCEPT ![s] = "PENDING_RECONCILIATION"]
          /\ UNCHANGED ledgerVars
    /\ UNCHANGED <<terms, token, books>>

SerialNext ==
    \/ \E asked \in SeedJobs : OpenBooks(asked.owner, asked.amount)
    \/ \E s \in Request : Insert(s) \/ ClaimReserved(s) \/ Settle(s)
    \/ \E claimed \in SUBSET Request : Reclaim(claimed)

SerialSpec == SerialInit /\ [][SerialNext]_serialVars
=============================================================================
