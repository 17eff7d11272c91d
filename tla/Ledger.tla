------------------------------- MODULE Ledger -------------------------------
(***************************************************************************)
(* The double-entry ledger of app/ledger.py: materialised balances and the *)
(* journals behind them.  A journal always has exactly two postings of one *)
(* amount, a debit and a credit, so it is one record here.                 *)
(*                                                                         *)
(* The operations are the effects of a caller's database transaction; they *)
(* are actions only as part of the transactions of SettlementService.      *)
(*                                                                         *)
(* A definition whose name starts with "Faulty" is a variant of the one    *)
(* after it with a bug; no specification uses it.                          *)
(***************************************************************************)
EXTENDS Schema, Functions

CONSTANT OmnibusOpening   \* what the seed's openings add up to

ASSUME LedgerAssumption ==
    /\ IsFiniteSet(Holder)
    /\ OmnibusOpening \in Nat
    /\ OmnibusOpening = SumFunction(Opening)

VARIABLES
    balance,    \* balance[a]: the materialised balance of account a
    journals    \* the posted journals

ledgerVars == <<balance, journals>>

-----------------------------------------------------------------------------
AvailableOf(owner) == <<owner, "AVAILABLE">>
ReservedOf(owner) == <<owner, "RESERVED">>
Omnibus == <<"system", "OMNIBUS">>

Account == (Holder \X {"AVAILABLE", "RESERVED"}) \cup {Omnibus}

AccountClass(account) == IF account = Omnibus THEN "ASSET" ELSE "LIABILITY"

Increases(account, side) ==
    \/ AccountClass(account) = "ASSET" /\ side = "DEBIT"
    \/ AccountClass(account) = "LIABILITY" /\ side = "CREDIT"

\* What one posting adds to the balance of its account.
Signed(account, side, amount) ==
    IF Increases(account, side) THEN amount ELSE -amount

ApplyPosting(balances, account, side, amount) ==
    [balances EXCEPT ![account] = @ + Signed(account, side, amount)]

-----------------------------------------------------------------------------
Journal == [settlement : Request \cup {"NULL"}, event : JournalEvent,
            debit : Account, credit : Account, amount : Nat]

\* The unique index on (settlement_id, event).
IsPosted(settlement, event) ==
    \E j \in journals : j.settlement = settlement /\ j.event = event

FaultyPosted(debit, credit, amount) ==   \* the credit is forgotten
    ApplyPosting(balance, debit, "DEBIT", amount)

Posted(debit, credit, amount) ==
    ApplyPosting(ApplyPosting(balance, debit, "DEBIT", amount),
                 credit, "CREDIT", amount)

FaultyPostable(settlement, event, debit, credit, amount) ==  \* overdrafts
    {debit, credit} \subseteq Account /\ ~IsPosted(settlement, event)

\* _post commits: the accounts exist, the debited account holds the amount,
\* no such journal is there yet, and no balance becomes negative.
Postable(settlement, event, debit, credit, amount) ==
    /\ {debit, credit} \subseteq Account
    /\ balance[debit] >= amount
    /\ ~IsPosted(settlement, event)
    /\ \A account \in {debit, credit} :
           Posted(debit, credit, amount)[account] >= 0

\* The error of a _post that does not commit, as a client sees it: a missing
\* account and a duplicate journal have no handler (500), InsufficientFunds
\* has one.  The duplicate is found after the first look at the debited
\* balance and before the balances are changed.
PostError(settlement, event, debit, credit, amount) ==
    IF \/ ~({debit, credit} \subseteq Account)
       \/ balance[debit] >= amount /\ IsPosted(settlement, event)
    THEN "ERROR" ELSE "INSUFFICIENT_FUNDS"

Post(settlement, event, debit, credit, amount) ==
    /\ balance' = Posted(debit, credit, amount)
    /\ journals' = journals \cup
           {[settlement |-> settlement, event |-> event,
             debit |-> debit, credit |-> credit, amount |-> amount]}

Reserve(settlement, command) ==
    Post(settlement, "RESERVE", AvailableOf(command.owner),
         ReservedOf(command.owner), command.amount)

FaultyConsume(settlement, command) ==    \* pays the customer, not the omnibus
    Post(settlement, "CONSUME", ReservedOf(command.owner),
         AvailableOf(command.owner), command.amount)

Consume(settlement, command) ==
    Post(settlement, "CONSUME", ReservedOf(command.owner),
         Omnibus, command.amount)

FaultyRelease(settlement, command) ==    \* debit and credit swapped
    Post(settlement, "RELEASE", AvailableOf(command.owner),
         ReservedOf(command.owner), command.amount)

Release(settlement, command) ==
    Post(settlement, "RELEASE", ReservedOf(command.owner),
         AvailableOf(command.owner), command.amount)

CanReserve(settlement, command) ==
    Postable(settlement, "RESERVE", AvailableOf(command.owner),
             ReservedOf(command.owner), command.amount)

CanConsume(settlement, command) ==
    Postable(settlement, "CONSUME", ReservedOf(command.owner),
             Omnibus, command.amount)

CanRelease(settlement, command) ==
    Postable(settlement, "RELEASE", ReservedOf(command.owner),
             AvailableOf(command.owner), command.amount)

ReserveError(settlement, command) ==
    PostError(settlement, "RESERVE", AvailableOf(command.owner),
              ReservedOf(command.owner), command.amount)

ConsumeError(settlement, command) ==
    PostError(settlement, "CONSUME", ReservedOf(command.owner),
              Omnibus, command.amount)

ReleaseError(settlement, command) ==
    PostError(settlement, "RELEASE", ReservedOf(command.owner),
              AvailableOf(command.owner), command.amount)

-----------------------------------------------------------------------------
\* The journal with which the seed opens the books of one holder.
OpeningJournal(holder) ==
    [settlement |-> "NULL", event |-> "OPENING", debit |-> Omnibus,
     credit |-> AvailableOf(holder), amount |-> Opening[holder]]

LedgerInit ==
    /\ journals = {OpeningJournal(h) : h \in Holder}
    /\ balance = [a \in Account |->
                    IF a = Omnibus
                    THEN OmnibusOpening
                    ELSE IF a[2] = "AVAILABLE" THEN Opening[a[1]] ELSE 0]

LedgerTypeOK ==
    /\ balance \in [Account -> Int]
    /\ journals \subseteq Journal

-----------------------------------------------------------------------------
\* What the two postings of a journal add to the balance of an account.
Entries(account, j) ==
    (IF j.debit = account THEN Signed(account, "DEBIT", j.amount) ELSE 0)
  + (IF j.credit = account THEN Signed(account, "CREDIT", j.amount) ELSE 0)

\* What the journals say the balance of an account should be.
Expected(account) == SumFunction([j \in journals |-> Entries(account, j)])

(* assert_ledger_invariants: no balance is negative, and every materialised
   balance is the sum of the postings of its account. *)
LedgerInvariants ==
    \A a \in Account : balance[a] >= 0 /\ balance[a] = Expected(a)
=============================================================================
