---------------------------- MODULE EscrowProofs ----------------------------
(***************************************************************************)
(* The settlement service implements the escrow, for every instance: its   *)
(* initial states are the escrow's, and each of its steps is a step of the *)
(* escrow or invisible in it.                                              *)
(***************************************************************************)
EXTENDS SettlementProofs

USE DEF Unresolved, Terminal, Open

-----------------------------------------------------------------------------
(* The state of the escrow, as the mapping shows it *)

Seen ==
    /\ \A s \in Request : StageOf(status'[s]) = StageOf(status[s])
    /\ \A s \in Request : operations'[s].authority = operations[s].authority
    /\ command' = command
    /\ balance' = balance

LEMMA Invisible ==
    ASSUME Seen
    PROVE  UNCHANGED E!escrowVars
  BY DEF Seen, E!escrowVars

LEMMA StageNames ==
    /\ StageOf("ABSENT") = "none"
    /\ \A x \in Open : StageOf(x) = "held"
    /\ StageOf("SUCCESS") = "paid"
    /\ StageOf("FAILED") = "returned"
  BY DEF StageOf

\* The accounts of the customers and the omnibus account are told apart.
LEMMA AccountsApart ==
    ASSUME NEW h, NEW k
    PROVE  /\ AvailableOf(h) # ReservedOf(k)
           /\ AvailableOf(h) = AvailableOf(k) <=> h = k
           /\ ReservedOf(h) = ReservedOf(k) <=> h = k
           /\ AvailableOf(h) # Omnibus /\ ReservedOf(h) # Omnibus
           /\ AvailableOf(h) \in Account <=> h \in Holder
           /\ ReservedOf(h) \in Account <=> h \in Holder
           /\ Omnibus \in Account
  BY DEF AvailableOf, ReservedOf, Omnibus, Account

LEMMA Moving ==
    ASSUME LedgerTypeOK, NEW debit \in Account, NEW credit \in Account,
           debit # credit, NEW amount \in Nat,
           balance' = Posted(debit, credit, amount)
    PROVE  /\ balance'[debit] = balance[debit] + Signed(debit, "DEBIT", amount)
           /\ balance'[credit] =
                  balance[credit] + Signed(credit, "CREDIT", amount)
           /\ \A a \in Account \ {debit, credit} : balance'[a] = balance[a]
  BY DEF LedgerTypeOK, Posted, ApplyPosting

LEMMA Signs ==
    ASSUME NEW h, NEW amount \in Nat
    PROVE  /\ Signed(AvailableOf(h), "DEBIT", amount) = -amount
           /\ Signed(ReservedOf(h), "DEBIT", amount) = -amount
           /\ Signed(AvailableOf(h), "CREDIT", amount) = amount
           /\ Signed(ReservedOf(h), "CREDIT", amount) = amount
           /\ Signed(Omnibus, "CREDIT", amount) = -amount
  BY AccountsApart DEF Signed, Increases, AccountClass

-----------------------------------------------------------------------------
(* Initial states *)

LEMMA InitEscrow == Init => E!EscrowInit
  <1> SUFFICES ASSUME Init
               PROVE  E!EscrowInit
    OBVIOUS
  <1>1. ASSUME NEW h \in Holder
        PROVE  balance[AvailableOf(h)] = Opening[h] /\ balance[ReservedOf(h)] = 0
    <2>1. AvailableOf(h)[1] = h /\ AvailableOf(h)[2] = "AVAILABLE"
          /\ ReservedOf(h)[2] = "RESERVED"
      BY DEF AvailableOf, ReservedOf
    <2> QED  BY <2>1, AccountsApart DEF Init, LedgerInit
  <1>2. OmnibusOpening - balance[Omnibus] = 0
    BY AccountsApart, LedgerAssumption DEF Init, LedgerInit
  <1>3. [h \in Holder |-> balance[AvailableOf(h)]] = Opening
    BY <1>1, SchemaAssumption
  <1>4. [h \in Holder |-> balance[ReservedOf(h)]] = [h \in Holder |-> 0]
    BY <1>1
  <1>5. [s \in Request |-> StageOf(status[s])] = [s \in Request |-> "none"]
    BY StageNames DEF Init
  <1>6. [s \in Request |-> operations[s].authority]
            = [s \in Request |-> "NOT_FOUND"]
    BY DEF Init, ProviderInit, NoOperation
  <1> QED  BY <1>2, <1>3, <1>4, <1>5, <1>6
           DEF Init, E!EscrowInit, NoCommand, E!NoCommand

-----------------------------------------------------------------------------
(* Steps that the escrow sees *)

LEMMA AskStep ==
    ASSUME IInv, NEW r \in Request, PostSettlement(r)
    PROVE  E!Ask(r)
  <1>1. call[r].pc = "idle" /\ r \in Call
    BY DEF PostSettlement, Idle, Call
  <1>2. command[r] = NoCommand
    BY <1>1 DEF IInv, CallsOK, CallOK
  <1>3. /\ \E sent \in Commands : command' = [command EXCEPT ![r] = sent]
        /\ status' = status /\ operations' = operations /\ balance' = balance
    BY DEF PostSettlement, ledgerVars, providerVars
  <1> QED  BY <1>2, <1>3 DEF E!Ask, NoCommand, E!NoCommand

LEMMA HoldStep ==
    ASSUME IInv, NEW r \in Request, command[r] \in Commands,
           ~KeyTaken(command[r].owner, command[r].key),
           CanReserve(r, command[r]), Reserve(r, command[r]),
           status' = [status EXCEPT ![r] = "RESERVED"],
           UNCHANGED <<command, operations>>
    PROVE  E!Hold(r)
  <1> DEFINE h == command[r].owner
             amount == command[r].amount
  <1>1. DatabaseType /\ LedgerTypeOK /\ amount \in Nat
    BY CommandType DEF IInv, DatabaseOK, DatabaseType
  <1>2. /\ AvailableOf(h) \in Account /\ ReservedOf(h) \in Account
        /\ balance[AvailableOf(h)] >= amount
        /\ balance' = Posted(AvailableOf(h), ReservedOf(h), amount)
    BY DEF CanReserve, Postable, Reserve, Post
  <1>3. h \in Holder
    BY <1>2, AccountsApart
  <1>4. /\ balance'[AvailableOf(h)] = balance[AvailableOf(h)] - amount
        /\ balance'[ReservedOf(h)] = balance[ReservedOf(h)] + amount
        /\ \A a \in Account \ {AvailableOf(h), ReservedOf(h)} :
               balance'[a] = balance[a]
    <2>1. balance[AvailableOf(h)] \in Int /\ balance[ReservedOf(h)] \in Int
      BY <1>1, <1>2 DEF LedgerTypeOK
    <2>2. AvailableOf(h) # ReservedOf(h)
      BY AccountsApart
    <2> QED  BY <1>1, <1>2, <2>1, <2>2, Moving, Signs
  <1>5. \A k \in Holder : /\ AvailableOf(k) \in Account
                          /\ ReservedOf(k) \in Account
                          /\ AvailableOf(k) # ReservedOf(h)
                          /\ ReservedOf(k) # AvailableOf(h)
                          /\ k # h => /\ AvailableOf(k) # AvailableOf(h)
                                      /\ ReservedOf(k) # ReservedOf(h)
    BY AccountsApart
  <1>6. balance'[Omnibus] = balance[Omnibus]
    BY <1>4, AccountsApart
  <1>7. status[r] = "ABSENT" /\ \A t \in Request :
            command[t].owner = h /\ command[t].key = command[r].key =>
                status[t] = "ABSENT"
    BY DEF KeyTaken, HasKey
  <1>8. [t \in Request |-> StageOf(status'[t])]
           = [[t \in Request |-> StageOf(status[t])] EXCEPT ![r] = "held"]
    BY <1>1, StageNames DEF DatabaseType
  <1>9. [k \in Holder |-> balance'[AvailableOf(k)]]
           = [[k \in Holder |-> balance[AvailableOf(k)]] EXCEPT ![h] = @ - amount]
    BY <1>3, <1>4, <1>5
  <1>10. [k \in Holder |-> balance'[ReservedOf(k)]]
           = [[k \in Holder |-> balance[ReservedOf(k)]] EXCEPT ![h] = @ + amount]
    BY <1>3, <1>4, <1>5
  <1>11. /\ StageOf(status[r]) = "none"
         /\ \A t \in Request : E!SameKey(r, t) => StageOf(status[t]) = "none"
    BY <1>7, StageNames DEF E!SameKey
  <1> QED  BY <1>2, <1>3, <1>6, <1>8, <1>9, <1>10, <1>11 DEF E!Hold
\* What the provider records about an operation it had not recorded.
LEMMA DecideStep ==
    ASSUME IInv, NEW s \in Request, status[s] \in ClaimedStatus, Initiate(s),
           UNCHANGED <<command, status, balance>>
    PROVE  E!Decide(s) \/ UNCHANGED E!escrowVars
  <1>1. /\ operations' = [operations EXCEPT ![s] = DurableOutcome(s)]
        /\ operations \in [Request -> Operation \cup {NoOperation}]
    BY DEF Initiate, IInv, DatabaseOK, DatabaseType, ProviderTypeOK
  <1>2. CASE Recorded(s) \/ Exhausted(ordinal)
    <2>1. operations' = operations
      BY <1>1, <1>2 DEF DurableOutcome
    <2> QED  BY <2>1, Invisible DEF Seen
  <1>3. CASE ~(Recorded(s) \/ Exhausted(ordinal))
    <2>1. operations[s].authority = "NOT_FOUND"
      BY <1>1, <1>3 DEF Recorded, Operation, NoOperation
    <2>2. status[s] \in Unresolved
      BY <2>1 DEF ClaimedStatus, IInv, DatabaseOK, OutcomeMatchesProvider
    <2>3. DurableOutcome(s).authority \in E!Decisions \ {"NOT_FOUND"}
      <3>1. ordinal \in Nat
        BY DEF IInv, DatabaseOK, DatabaseType, ProviderTypeOK
      <3>2. DurableOutcome(s).authority = OutcomeForPosition(ordinal).authority
        BY <1>3 DEF DurableOutcome
      <3> QED  BY <3>1, <3>2, OutcomeType DEF E!Decisions, ProviderLookup
    <2> DEFINE d == DurableOutcome(s).authority
    <2>4. [t \in Request |-> operations'[t].authority]
             = [[t \in Request |-> operations[t].authority] EXCEPT ![s] = d]
      BY <1>1
    <2>5. StageOf(status[s]) = "held"
      BY <2>2, StageNames
    <2> QED  BY <2>1, <2>3, <2>4, <2>5 DEF E!Decide
  <1> QED  BY <1>2, <1>3

LEMMA PayOutStep ==
    ASSUME IInv, NEW s \in Request, status[s] \in Unresolved,
           operations[s].authority = "PAID",
           CanConsume(s, command[s]), Consume(s, command[s]),
           status' = [status EXCEPT ![s] = "SUCCESS"],
           UNCHANGED <<command, operations>>
    PROVE  E!PayOut(s)
  <1> DEFINE h == command[s].owner
             amount == command[s].amount
  <1>1. DatabaseType /\ LedgerTypeOK /\ amount \in Nat
    BY CommandType DEF IInv, DatabaseOK, DatabaseType
  <1>2. /\ ReservedOf(h) \in Account /\ Omnibus \in Account
        /\ balance[ReservedOf(h)] >= amount
        /\ balance' = Posted(ReservedOf(h), Omnibus, amount)
    BY DEF CanConsume, Postable, Consume, Post
  <1>3. h \in Holder
    BY <1>2, AccountsApart
  <1>4. /\ balance'[ReservedOf(h)] = balance[ReservedOf(h)] - amount
        /\ balance'[Omnibus] = balance[Omnibus] - amount
        /\ \A a \in Account \ {ReservedOf(h), Omnibus} :
               balance'[a] = balance[a]
    <2>1. balance[ReservedOf(h)] \in Int /\ balance[Omnibus] \in Int
      BY <1>1, <1>2 DEF LedgerTypeOK
    <2>2. ReservedOf(h) # Omnibus
      BY AccountsApart
    <2> QED  BY <1>1, <1>2, <2>1, <2>2, Moving, Signs
  <1>5. \A k \in Holder : /\ AvailableOf(k) \in Account \ {Omnibus}
                          /\ ReservedOf(k) \in Account \ {Omnibus}
                          /\ AvailableOf(k) # ReservedOf(h)
                          /\ ReservedOf(k) # AvailableOf(h)
                          /\ k # h => /\ AvailableOf(k) # AvailableOf(h)
                                      /\ ReservedOf(k) # ReservedOf(h)
    BY AccountsApart
  <1>6. OmnibusOpening - balance'[Omnibus]
            = OmnibusOpening - balance[Omnibus] + amount
    <2>1. balance[Omnibus] \in Int /\ OmnibusOpening \in Int
      BY <1>1, AccountsApart, LedgerAssumption DEF LedgerTypeOK
    <2> QED  BY <1>1, <1>4, <2>1, AccountsApart
  <1>7. [t \in Request |-> StageOf(status'[t])]
           = [[t \in Request |-> StageOf(status[t])] EXCEPT ![s] = "paid"]
    BY <1>1, StageNames DEF DatabaseType
  <1>8. [k \in Holder |-> balance'[ReservedOf(k)]]
           = [[k \in Holder |-> balance[ReservedOf(k)]] EXCEPT ![h] = @ - amount]
    BY <1>3, <1>4, <1>5
  <1>9. [k \in Holder |-> balance'[AvailableOf(k)]]
           = [k \in Holder |-> balance[AvailableOf(k)]]
    BY <1>3, <1>4, <1>5
  <1>10. StageOf(status[s]) = "held"
    BY StageNames
  <1> QED  BY <1>2, <1>3, <1>6, <1>7, <1>8, <1>9, <1>10 DEF E!PayOut

LEMMA GiveBackStep ==
    ASSUME IInv, NEW s \in Request, status[s] \in Unresolved,
           operations[s].authority = "UNPAID",
           CanRelease(s, command[s]), Release(s, command[s]),
           status' = [status EXCEPT ![s] = "FAILED"],
           UNCHANGED <<command, operations>>
    PROVE  E!GiveBack(s)
  <1> DEFINE h == command[s].owner
             amount == command[s].amount
  <1>1. DatabaseType /\ LedgerTypeOK /\ amount \in Nat
    BY CommandType DEF IInv, DatabaseOK, DatabaseType
  <1>2. /\ ReservedOf(h) \in Account /\ AvailableOf(h) \in Account
        /\ balance[ReservedOf(h)] >= amount
        /\ balance' = Posted(ReservedOf(h), AvailableOf(h), amount)
    BY DEF CanRelease, Postable, Release, Post
  <1>3. h \in Holder
    BY <1>2, AccountsApart
  <1>4. /\ balance'[ReservedOf(h)] = balance[ReservedOf(h)] - amount
        /\ balance'[AvailableOf(h)] = balance[AvailableOf(h)] + amount
        /\ \A a \in Account \ {ReservedOf(h), AvailableOf(h)} :
               balance'[a] = balance[a]
    <2>1. balance[ReservedOf(h)] \in Int /\ balance[AvailableOf(h)] \in Int
      BY <1>1, <1>2 DEF LedgerTypeOK
    <2>2. ReservedOf(h) # AvailableOf(h)
      BY AccountsApart
    <2> QED  BY <1>1, <1>2, <2>1, <2>2, Moving, Signs
  <1>5. \A k \in Holder : /\ AvailableOf(k) \in Account \ {Omnibus}
                          /\ ReservedOf(k) \in Account \ {Omnibus}
                          /\ AvailableOf(k) # ReservedOf(h)
                          /\ ReservedOf(k) # AvailableOf(h)
                          /\ k # h => /\ AvailableOf(k) # AvailableOf(h)
                                      /\ ReservedOf(k) # ReservedOf(h)
    BY AccountsApart
  <1>6. OmnibusOpening - balance'[Omnibus]
            = OmnibusOpening - balance[Omnibus]
    <2>1. balance[Omnibus] \in Int /\ OmnibusOpening \in Int
      BY <1>1, AccountsApart, LedgerAssumption DEF LedgerTypeOK
    <2> QED  BY <1>1, <1>4, <2>1, AccountsApart
  <1>7. [t \in Request |-> StageOf(status'[t])]
           = [[t \in Request |-> StageOf(status[t])] EXCEPT ![s] = "returned"]
    BY <1>1, StageNames DEF DatabaseType
  <1>8. [k \in Holder |-> balance'[ReservedOf(k)]]
           = [[k \in Holder |-> balance[ReservedOf(k)]] EXCEPT ![h] = @ - amount]
    BY <1>3, <1>4, <1>5
  <1>9. [k \in Holder |-> balance'[AvailableOf(k)]]
           = [[k \in Holder |-> balance[AvailableOf(k)]] EXCEPT ![h] = @ + amount]
    BY <1>3, <1>4, <1>5
  <1>10. StageOf(status[s]) = "held"
    BY StageNames
  <1> QED  BY <1>2, <1>3, <1>6, <1>7, <1>8, <1>9, <1>10 DEF E!GiveBack
-----------------------------------------------------------------------------
(* Every step is one of them, or invisible *)

\* A step that changes neither the database nor what it shows is invisible.
LEMMA Hidden ==
    ASSUME UNCHANGED <<command, status, operations, balance>>
    PROVE  UNCHANGED E!escrowVars
  BY Invisible DEF Seen

\* A settlement that moves among the open states stays held.
LEMMA HeldStays ==
    ASSUME IInv, NEW s \in Request, status[s] \in Open, NEW next \in Open,
           status' = [status EXCEPT ![s] = next],
           UNCHANGED <<command, operations, balance>>
    PROVE  UNCHANGED E!escrowVars
  <1>1. status \in [Request -> RowStatus]
    BY DEF IInv, DatabaseOK, DatabaseType
  <1>2. \A t \in Request : StageOf(status'[t]) = StageOf(status[t])
    BY <1>1, StageNames
  <1> QED  BY <1>2, Invisible DEF Seen

LEMMA FinalizeStep ==
    ASSUME IInv, NEW s \in Request, status[s] \in ClaimedStatus, NEW result,
           ~Rejected(s, result),
           result \in {"PAID", "UNPAID"} => operations[s].authority = result,
           FinalizeAttempt(s, result), UNCHANGED <<command, operations>>
    PROVE  E!PayOut(s) \/ E!GiveBack(s) \/ UNCHANGED E!escrowVars
  <1>1. CASE Settled(s)
    BY <1>1, Hidden DEF FinalizeAttempt, ledgerVars
  <1>2. CASE ~Settled(s)
    <2>1. status[s] \in Unresolved
      BY <1>2 DEF Settled, ClaimedStatus
    <2>2. CASE result = "PAID"
      <3>1. /\ CanConsume(s, command[s]) /\ Consume(s, command[s])
            /\ status' = [status EXCEPT ![s] = "SUCCESS"]
        BY <1>2, <2>2 DEF FinalizeAttempt, Rejected, Settle
      <3> QED  BY <2>1, <2>2, <3>1, PayOutStep
    <2>3. CASE result = "UNPAID"
      <3>1. /\ CanRelease(s, command[s]) /\ Release(s, command[s])
            /\ status' = [status EXCEPT ![s] = "FAILED"]
        BY <1>2, <2>3 DEF FinalizeAttempt, Rejected, Settle
      <3> QED  BY <2>1, <2>3, <3>1, GiveBackStep
    <2>4. CASE result \notin {"PAID", "UNPAID"}
      <3>1. /\ status' = [status EXCEPT ![s] = "PENDING_RECONCILIATION"]
            /\ balance' = balance
        BY <1>2, <2>4 DEF FinalizeAttempt, ledgerVars
      <3> QED  BY <2>1, <3>1, HeldStays
    <2> QED  BY <2>2, <2>3, <2>4
  <1> QED  BY <1>1, <1>2

LEMMA CallFacts ==
    ASSUME IInv, NEW c \in Call,
           call[c].pc \in {"initiate", "finalize", "recover"}
    PROVE  /\ call[c].sid \in Request /\ status[call[c].sid] \in ClaimedStatus
           /\ call[c].pc = "finalize" /\ call[c].result \in {"PAID", "UNPAID"} =>
                  operations[call[c].sid].authority = call[c].result
  BY DEF IInv, CallsOK, CallOK, Live

LEMMA StepEscrow ==
    ASSUME IInv, [Next]_vars
    PROVE  [E!EscrowNext]_(E!escrowVars)
  <1> USE DEF ledgerVars, providerVars
  <1> DEFINE Goal == E!EscrowNext \/ UNCHANGED E!escrowVars
  <1>1. ASSUME NEW r \in Request, PostSettlement(r)
        PROVE  Goal
    BY <1>1, AskStep DEF E!EscrowNext
  <1>2. ASSUME NEW r \in Request, Insert(r)
        PROVE  Goal
    <2>1. CASE ReadOnly
      BY <2>1, Hidden DEF ReadOnly, database
    <2>2. CASE ~ReadOnly
      <3>1. /\ ~KeyTaken(command[r].owner, command[r].key)
            /\ CanReserve(r, command[r]) /\ Reserve(r, command[r])
            /\ status' = [status EXCEPT ![r] = "RESERVED"]
            /\ UNCHANGED <<command, operations>>
        BY <1>2, <2>2 DEF Insert
      <3>2. command[r] \in Commands
        BY <1>2 DEF Insert, IInv, CallsOK, CallOK, Call
      <3> QED  BY <3>1, <3>2, HoldStep DEF E!EscrowNext
    <2> QED  BY <2>1, <2>2
  <1>3. ASSUME NEW r \in Request, ClaimReserved(r)
        PROVE  Goal
    <2>1. CASE ReadOnly
      BY <2>1, Hidden DEF ReadOnly, database
    <2>2. CASE ~ReadOnly
      <3> DEFINE s == call[r].sid
      <3>1. /\ status[s] = "RESERVED"
            /\ status' = [status EXCEPT ![s] = "PAYOUT_IN_PROGRESS"]
            /\ UNCHANGED <<command, operations, balance>>
        BY <1>3, <2>2 DEF ClaimReserved
      <3>2. s \in Request
        BY <1>3 DEF ClaimReserved, IInv, CallsOK, CallOK, Call, Live
      <3> QED  BY <3>1, <3>2, HeldStays
    <2> QED  BY <2>1, <2>2
  <1>4. ASSUME NEW c \in Call, SubmitPayout(c)
        PROVE  Goal
    <2>1. /\ call[c].pc = "initiate" /\ Initiate(call[c].sid)
          /\ UNCHANGED <<command, status, balance>>
      BY <1>4 DEF SubmitPayout
    <2> QED  BY <2>1, CallFacts, DecideStep DEF E!EscrowNext
  <1>5. ASSUME NEW c \in Call, Finalize(c)
        PROVE  Goal
    <2>1. CASE ReadOnly
      BY <2>1, Hidden DEF ReadOnly, database
    <2>2. CASE ~ReadOnly
      <3>1. /\ call[c].pc = "finalize"
            /\ ~Rejected(call[c].sid, call[c].result)
            /\ FinalizeAttempt(call[c].sid, call[c].result)
            /\ UNCHANGED <<command, operations>>
        BY <1>5, <2>2 DEF Finalize
      <3> QED  BY <3>1, CallFacts, FinalizeStep DEF E!EscrowNext
    <2> QED  BY <2>1, <2>2
  <1>6. ASSUME NEW c \in Call, Recover(c)
        PROVE  Goal
    <2>1. CASE ReadOnly
      BY <2>1, Hidden DEF ReadOnly, database
    <2>2. CASE ~ReadOnly
      <3>1. /\ call[c].pc = "recover" /\ FinalizeAttempt(call[c].sid, "NONE")
            /\ UNCHANGED <<command, operations>>
        BY <1>6, <2>2 DEF Recover
      <3>2. ~Rejected(call[c].sid, "NONE")
        BY DEF Rejected
      <3> QED  BY <3>1, <3>2, CallFacts, FinalizeStep DEF E!EscrowNext
    <2> QED  BY <2>1, <2>2
  <1>7. ASSUME NEW r \in Request, Find(r)
        PROVE  Goal
    BY <1>7, Hidden DEF Find, ReadOnly, database
  <1>8. ASSUME NEW m \in Manual, PostReconcile(m) \/ ReconcileStep(m)
        PROVE  Goal
    BY <1>8, Hidden DEF PostReconcile, ReconcileStep, Read,
       ClaimForReconciliation, ReadOnly, database
  <1>9. ASSUME NEW c \in Call, LookupPayout(c) \/ Get(c) \/ DatabaseError(c)
        PROVE  Goal
    BY <1>9, Hidden DEF LookupPayout, Get, DatabaseError, ReadOnly, database
  <1>10. ASSUME NEW B \in SUBSET Request, ClaimDueBatch(B)
         PROVE  Goal
    BY <1>10, Hidden DEF ClaimDueBatch
  <1>11. ASSUME NEW s \in Request, LeaseExpires(s)
         PROVE  Goal
    BY <1>11, Hidden DEF LeaseExpires
  <1>12. CASE Startup \/ Serve \/ Stop \/ Exit \/ Crash \/ StartupError
    BY <1>12, Hidden DEF Startup, Serve, Stop, Exit, Crash, StartupError, database
  <1>13. CASE UNCHANGED vars
    BY <1>13, Hidden DEF vars
  <1>14. CASE Next
    BY <1>1, <1>2, <1>3, <1>4, <1>5, <1>6, <1>7, <1>8, <1>9, <1>10, <1>11,
       <1>12, <1>14 DEF Next, CreateStep, PayoutStep
  <1> QED  BY <1>13, <1>14

(* The service implements the escrow: whatever calls, retries, races, database
   errors, lost acknowledgements and crashes there are, the funds of a command
   are set aside once per owner and key, the provider decides once, and the
   funds leave or come back once, as it decided. *)
THEOREM Refinement == Spec => ImplementsEscrow
  <1>1. IInv /\ [Next]_vars => [E!EscrowNext]_(E!escrowVars)
    BY StepEscrow
  <1> QED  BY <1>1, InitEscrow, Invariance, PTL
           DEF Spec, ImplementsEscrow, E!EscrowSpec
=============================================================================
