----------------------------- MODULE CustomerProofs -----------------------------
(***************************************************************************)
(* Proofs of what the customers of the settlement service may rely on: the *)
(* money in their accounts and in the omnibus is accounted for, a result   *)
(* can always be booked, and what a create call is told is true.           *)
(***************************************************************************)
EXTENDS SettlementProofs, LedgerProofs

USE DEF Unresolved, Terminal, Open

-----------------------------------------------------------------------------
(* The inductive invariant *)

Rows == {s \in Request : status[s] # "ABSENT"}

\* There are finitely many rows, each of a customer that has accounts; the
\* ledger is in order and its balances are those of the rows.
MoneyOK ==
    /\ LedgerOK
    /\ BooksBalance
    /\ IsFiniteSet(Rows)
    /\ \A s \in Rows : command[s].owner \in Holder
    /\ ReservedCoversOpen
    /\ OmnibusPaysSuccesses

-----------------------------------------------------------------------------
(* What a step does to the money *)

Reserves(r) ==
    /\ Insert(r)
    /\ status[r] = "ABSENT" /\ command[r] \in Commands
    /\ CanReserve(r, command[r]) /\ Reserve(r, command[r])
    /\ status' = [status EXCEPT ![r] = "RESERVED"]
    /\ command' = command

Pays(s) ==
    /\ status[s] \in Unresolved
    /\ CanConsume(s, command[s]) /\ Consume(s, command[s])
    /\ status' = [status EXCEPT ![s] = "SUCCESS"]
    /\ command' = command

Returns(s) ==
    /\ status[s] \in Unresolved
    /\ CanRelease(s, command[s]) /\ Release(s, command[s])
    /\ status' = [status EXCEPT ![s] = "FAILED"]
    /\ command' = command

\* No money moves, and no row leaves or enters the open states.
Rests ==
    /\ UNCHANGED ledgerVars
    /\ \A s \in Request :
           /\ status'[s] = status[s] \/ {status[s], status'[s]} \subseteq Open
           /\ status[s] # "ABSENT" => command'[s] = command[s]

MoneyStep ==
    \/ \E r \in Request : Reserves(r)
    \/ \E s \in Request : Pays(s) \/ Returns(s)
    \/ Rests

LEMMA Resting ==
    ASSUME UNCHANGED <<ledgerVars, status, command>>
    PROVE  Rests
  BY DEF Rests

LEMMA FinalizeMoney ==
    ASSUME IInv, NEW s \in Request, status[s] \in ClaimedStatus, NEW result,
           ~Rejected(s, result), FinalizeAttempt(s, result), UNCHANGED command
    PROVE  MoneyStep
  <1>1. CASE Settled(s)
    BY <1>1, Resting DEF FinalizeAttempt, MoneyStep
  <1>2. CASE ~Settled(s)
    <2>1. status[s] \in Unresolved
      BY <1>2 DEF Settled, ClaimedStatus
    <2>2. CASE result = "PAID"
      BY <1>2, <2>1, <2>2 DEF FinalizeAttempt, Rejected, Settle, Pays, MoneyStep
    <2>3. CASE result = "UNPAID"
      BY <1>2, <2>1, <2>3 DEF FinalizeAttempt, Rejected, Settle, Returns, MoneyStep
    <2>4. CASE result \notin {"PAID", "UNPAID"}
      <3>1. /\ status' = [status EXCEPT ![s] = "PENDING_RECONCILIATION"]
            /\ UNCHANGED ledgerVars
        BY <1>2, <2>4 DEF FinalizeAttempt
      <3>2. status \in [Request -> RowStatus]
        BY DEF IInv, DatabaseOK, DatabaseType
      <3> QED  BY <2>1, <3>1, <3>2 DEF Rests, MoneyStep
    <2> QED  BY <2>2, <2>3, <2>4
  <1> QED  BY <1>1, <1>2

LEMMA EveryStepMoney ==
    ASSUME IInv, [Next]_vars
    PROVE  MoneyStep
  <1>0. /\ status \in [Request -> RowStatus]
        /\ command \in [Request -> Commands \cup {NoCommand}]
    BY DEF IInv, DatabaseOK, DatabaseType
  <1>1. ASSUME NEW r \in Request, PostSettlement(r)
        PROVE  MoneyStep
    <2>1. status[r] = "ABSENT"
      BY <1>1 DEF PostSettlement, Idle, IInv, CallsOK, CallOK, Call
    <2>2. \A s \in Request : s # r => command'[s] = command[s]
      BY <1>0, <1>1 DEF PostSettlement
    <2> QED  BY <1>1, <2>1, <2>2 DEF PostSettlement, Rests, MoneyStep
  <1>2. ASSUME NEW r \in Request, Insert(r)
        PROVE  MoneyStep
    <2>1. CASE ReadOnly
      BY <2>1, Resting DEF ReadOnly, database, MoneyStep
    <2>2. CASE ~ReadOnly
      <3>1. /\ ~KeyTaken(command[r].owner, command[r].key)
            /\ CanReserve(r, command[r]) /\ Reserve(r, command[r])
            /\ status' = [status EXCEPT ![r] = "RESERVED"]
            /\ command' = command
        BY <1>2, <2>2 DEF Insert
      <3>2. command[r] \in Commands
        BY <1>2 DEF Insert, IInv, CallsOK, CallOK, Call
      <3>3. status[r] = "ABSENT"
        BY <3>1 DEF KeyTaken, HasKey
      <3> QED  BY <1>2, <3>1, <3>2, <3>3 DEF Reserves, MoneyStep
    <2> QED  BY <2>1, <2>2
  <1>3. ASSUME NEW r \in Request, ClaimReserved(r)
        PROVE  MoneyStep
    <2>1. CASE ReadOnly
      BY <2>1, Resting DEF ReadOnly, database, MoneyStep
    <2>2. CASE ~ReadOnly
      <3>1. /\ status[call[r].sid] = "RESERVED"
            /\ status' = [status EXCEPT ![call[r].sid] = "PAYOUT_IN_PROGRESS"]
            /\ UNCHANGED <<command, ledgerVars>>
        BY <1>3, <2>2 DEF ClaimReserved
      <3> QED  BY <1>0, <3>1 DEF Rests, MoneyStep
    <2> QED  BY <2>1, <2>2
  <1>4. ASSUME NEW c \in Call, Finalize(c)
        PROVE  MoneyStep
    <2>1. CASE ReadOnly
      BY <2>1, Resting DEF ReadOnly, database, MoneyStep
    <2>2. CASE ~ReadOnly
      <3>1. /\ call[c].pc = "finalize"
            /\ ~Rejected(call[c].sid, call[c].result)
            /\ FinalizeAttempt(call[c].sid, call[c].result)
            /\ UNCHANGED command
        BY <1>4, <2>2 DEF Finalize
      <3>2. call[c].sid \in Request /\ status[call[c].sid] \in ClaimedStatus
        BY <3>1 DEF IInv, CallsOK, CallOK, Live
      <3> QED  BY <3>1, <3>2, FinalizeMoney
    <2> QED  BY <2>1, <2>2
  <1>5. ASSUME NEW c \in Call, Recover(c)
        PROVE  MoneyStep
    <2>1. CASE ReadOnly
      BY <2>1, Resting DEF ReadOnly, database, MoneyStep
    <2>2. CASE ~ReadOnly
      <3>1. /\ call[c].pc = "recover"
            /\ FinalizeAttempt(call[c].sid, "NONE")
            /\ UNCHANGED command
        BY <1>5, <2>2 DEF Recover
      <3>2. call[c].sid \in Request /\ status[call[c].sid] \in ClaimedStatus
        BY <3>1 DEF IInv, CallsOK, CallOK, Live
      <3>3. ~Rejected(call[c].sid, "NONE")
        BY DEF Rejected
      <3> QED  BY <3>1, <3>2, <3>3, FinalizeMoney
    <2> QED  BY <2>1, <2>2
  <1>6. ASSUME NEW r \in Request, Find(r)
        PROVE  MoneyStep
    BY <1>6, Resting DEF Find, ReadOnly, database, MoneyStep
  <1>7. ASSUME NEW m \in Manual, PostReconcile(m) \/ ReconcileStep(m)
        PROVE  MoneyStep
    BY <1>7, Resting DEF PostReconcile, ReconcileStep, Read,
       ClaimForReconciliation, ReadOnly, database, MoneyStep
  <1>8. ASSUME NEW c \in Call, \/ SubmitPayout(c) \/ LookupPayout(c) \/ Get(c)
                               \/ DatabaseError(c)
        PROVE  MoneyStep
    BY <1>8, Resting DEF SubmitPayout, LookupPayout, Get, DatabaseError, ReadOnly,
       database, MoneyStep
  <1>9. ASSUME NEW B \in SUBSET Request, ClaimDueBatch(B)
        PROVE  MoneyStep
    BY <1>9, Resting DEF ClaimDueBatch, MoneyStep
  <1>10. ASSUME NEW s \in Request, LeaseExpires(s)
         PROVE  MoneyStep
    BY <1>10, Resting DEF LeaseExpires, MoneyStep
  <1>11. CASE Startup \/ Serve \/ Stop \/ Exit \/ Crash \/ StartupError
    BY <1>11, Resting DEF Startup, Serve, Stop, Exit, Crash, StartupError,
       database, MoneyStep
  <1>12. CASE UNCHANGED vars
    BY <1>12, Resting DEF vars, MoneyStep
  <1>13. CASE Next
    BY <1>1, <1>2, <1>3, <1>4, <1>5, <1>6, <1>7, <1>8, <1>9, <1>10, <1>11,
       <1>13 DEF Next, CreateStep, PayoutStep
  <1> QED  BY <1>12, <1>13

-----------------------------------------------------------------------------
(* Amounts of rows *)

LEMMA AmountsType ==
    ASSUME DatabaseType, NEW S \in SUBSET Request, IsFiniteSet(S)
    PROVE  AmountsOf(S) \in Nat
  <1> DEFINE f == [s \in Request |-> command[s].amount]
  <1>1. \A s \in S : f[s] \in Nat
    BY CommandType
  <1> HIDE DEF f
  <1>2. SumFunctionOnSet(f, S) \in Nat
    BY <1>1, SumType
  <1> QED  BY <1>2 DEF AmountsOf, f

LEMMA AmountsWith ==
    ASSUME DatabaseType, NEW S \in SUBSET Request, IsFiniteSet(S),
           NEW r \in Request \ S
    PROVE  AmountsOf(S \cup {r}) = AmountsOf(S) + command[r].amount
  <1> DEFINE f == [s \in Request |-> command[s].amount]
  <1>1. (\A s \in S \cup {r} : f[s] \in Int) /\ f[r] = command[r].amount
    BY CommandType
  <1> HIDE DEF f
  <1>2. SumFunctionOnSet(f, S \cup {r}) = SumFunctionOnSet(f, S) + f[r]
    BY <1>1, SumWith
  <1> QED  BY <1>1, <1>2 DEF AmountsOf, f

LEMMA AmountsWithout ==
    ASSUME DatabaseType, NEW S \in SUBSET Request, IsFiniteSet(S), NEW s \in S
    PROVE  /\ AmountsOf(S \ {s}) = AmountsOf(S) - command[s].amount
           /\ command[s].amount <= AmountsOf(S)
  <1> DEFINE T == S \ {s}
  <1>1. T \in SUBSET Request /\ IsFiniteSet(T) /\ s \in Request \ T /\ T \cup {s} = S
    BY FS_Subset
  <1> HIDE DEF T
  <1>2. AmountsOf(S) = AmountsOf(T) + command[s].amount
    BY <1>1, AmountsWith
  <1>3. AmountsOf(T) \in Nat /\ command[s].amount \in Nat
    BY <1>1, AmountsType, CommandType
  <1> QED  BY <1>2, <1>3 DEF T

LEMMA AmountsStay ==
    ASSUME NEW S \in SUBSET Request, IsFiniteSet(S),
           \A s \in S : command'[s] = command[s]
    PROVE  AmountsOf(S)' = AmountsOf(S)
  <1> DEFINE f == [s \in Request |-> command[s].amount]
             g == [s \in Request |-> command'[s].amount]
  <1>1. \A s \in S : g[s] = f[s]
    OBVIOUS
  <1> HIDE DEF f, g
  <1>2. SumFunctionOnSet(g, S) = SumFunctionOnSet(f, S)
    BY <1>1, SumOfSame
  <1> QED  BY <1>2 DEF AmountsOf, f, g

-----------------------------------------------------------------------------
(* The steps keep the account of the money *)

LEMMA MoneyTypes ==
    ASSUME DatabaseOK, MoneyOK
    PROVE  /\ DatabaseType /\ LedgerTypeOK
           /\ status \in [Request -> RowStatus]
           /\ \A h \in Holder : balance[ReservedOf(h)] \in Nat
           /\ balance[Omnibus] \in Nat
           /\ \A s \in Request : command[s].amount \in Nat
           /\ \A S \in SUBSET Rows : /\ S \in SUBSET Request
                                     /\ IsFiniteSet(S)
                                     /\ AmountsOf(S) \in Nat
  <1>1. DatabaseType /\ LedgerTypeOK /\ status \in [Request -> RowStatus]
    BY DEF DatabaseOK, DatabaseType
  <1>2. \A a \in Account : balance[a] \in Nat
    BY <1>1 DEF LedgerTypeOK, MoneyOK, LedgerOK, LedgerInvariants
  <1>3. ASSUME NEW S \in SUBSET Rows
        PROVE  S \in SUBSET Request /\ IsFiniteSet(S) /\ AmountsOf(S) \in Nat
    <2>1. S \in SUBSET Request
      BY DEF Rows
    <2>2. IsFiniteSet(S)
      BY FS_Subset DEF MoneyOK
    <2> QED  BY <1>1, <2>1, <2>2, AmountsType
  <1> QED  BY <1>1, <1>2, <1>3, AccountsOfHolder, CommandType

LEMMA ReservesKeeps ==
    ASSUME DatabaseOK, MoneyOK, NEW r \in Request, Reserves(r)
    PROVE  MoneyOK'
  <1> DEFINE h == command[r].owner
             amount == command[r].amount
  <1>1. h \in Holder
    BY AccountsOfHolder DEF Reserves, CanReserve, Postable
  <1>2. Post(r, "RESERVE", AvailableOf(h), ReservedOf(h), amount)
    BY DEF Reserves, Reserve
  <1>3. AvailableOf(h) # ReservedOf(h) /\ amount \in Nat
    BY AccountsApart, MoneyTypes
  <1>4. LedgerOK'
    BY <1>2, <1>3, PostKeepsLedger
       DEF MoneyOK, Reserves, CanReserve, JournalEvent
  <1>5. BooksBalance'
    BY <1>1, <1>2, <1>3, <1>4, PostKeepsBalance DEF MoneyOK, LedgerOK
  <1>6. Rows' = Rows \cup {r} /\ r \notin Rows
    BY MoneyTypes DEF Rows, Reserves
  <1>7. IsFiniteSet(Rows') /\ \A s \in Rows' : command'[s].owner \in Holder
    BY <1>1, <1>6, FS_AddElement DEF MoneyOK, Reserves
  <1>8. \A a \in Account : balance'[a] =
            CASE a = AvailableOf(h) -> balance[a] - amount
              [] a = ReservedOf(h) -> balance[a] + amount
              [] OTHER -> balance[a]
    BY <1>1, <1>2, <1>3, MoneyTypes, PostChanges, AccountsApart, AccountsOfHolder
  <1>9. ReservedCoversOpen'
    <2> SUFFICES ASSUME NEW k \in Holder
                 PROVE  balance'[ReservedOf(k)] = AmountsOf(OwnedIn(k, Open))'
      BY DEF ReservedCoversOpen
    <2> DEFINE S == OwnedIn(k, Open)
    <2>1. S \in SUBSET Rows
      BY DEF OwnedIn, Rows
    <2>2. balance[ReservedOf(k)] = AmountsOf(S)
      BY DEF MoneyOK, ReservedCoversOpen
    <2>3. \A T \in SUBSET Request : AmountsOf(T)' = AmountsOf(T)
      BY DEF Reserves, AmountsOf
    <2>4. CASE k = h
      <3>1. OwnedIn(k, Open)' = S \cup {r}
        BY <2>4, MoneyTypes DEF OwnedIn, Reserves
      <3>2. AmountsOf(S \cup {r}) = AmountsOf(S) + amount
        <4>1. r \in Request \ S
          BY <1>6, <2>1
        <4> HIDE DEF S
        <4> QED  BY <2>1, <4>1, MoneyTypes, AmountsWith
      <3>3. AmountsOf(OwnedIn(k, Open))' = AmountsOf(S \cup {r})
        <4>1. S \cup {r} \in SUBSET Request
          BY <2>1, MoneyTypes
        <4> QED  BY <2>3, <3>1, <4>1
      <3> HIDE DEF S
      <3> QED  BY <1>3, <1>8, <2>2, <2>4, <3>2, <3>3, AccountsOfHolder, AccountsApart
    <2>5. CASE k # h
      <3>1. OwnedIn(k, Open)' = S
        BY <2>5, MoneyTypes DEF OwnedIn, Reserves
      <3>2. AmountsOf(OwnedIn(k, Open))' = AmountsOf(S)
        BY <2>1, <2>3, <3>1, MoneyTypes
      <3> HIDE DEF S
      <3> QED  BY <1>8, <2>2, <2>5, <3>2, AccountsOfHolder, AccountsApart
    <2> QED  BY <2>4, <2>5
  <1>10. OmnibusPaysSuccesses'
    <2>1. balance'[Omnibus] = balance[Omnibus]
      BY <1>8, AccountsOfHolder, AccountsApart
    <2>2. {s \in Request : status'[s] = "SUCCESS"} = {s \in Request : status[s] = "SUCCESS"}
      BY MoneyTypes DEF Reserves
    <2> QED  BY <2>1, <2>2 DEF MoneyOK, OmnibusPaysSuccesses, AmountsOf, Reserves
  <1> QED  BY <1>4, <1>5, <1>7, <1>9, <1>10 DEF MoneyOK

\* An open settlement that ends takes its amount out of the open ones.
LEMMA EndsOpen ==
    ASSUME DatabaseOK, MoneyOK, NEW s \in Request, status[s] \in Open,
           NEW ended \in Terminal, status' = [status EXCEPT ![s] = ended],
           command' = command, LedgerTypeOK',
           \A h \in Holder : balance'[ReservedOf(h)] =
               IF h = command[s].owner
               THEN balance[ReservedOf(h)] - command[s].amount
               ELSE balance[ReservedOf(h)]
    PROVE  ReservedCoversOpen' /\ Rows' = Rows
  <1>1. Rows' = Rows
    BY MoneyTypes DEF Rows
  <1>2. ASSUME NEW k \in Holder
        PROVE  balance'[ReservedOf(k)] = AmountsOf(OwnedIn(k, Open))'
    <2> DEFINE S == OwnedIn(k, Open)
    <2>1. S \in SUBSET Rows
      BY DEF OwnedIn, Rows
    <2>2. balance[ReservedOf(k)] = AmountsOf(S)
      BY DEF MoneyOK, ReservedCoversOpen
    <2>3. \A T \in SUBSET Request : AmountsOf(T)' = AmountsOf(T)
      BY DEF AmountsOf
    <2>4. CASE k = command[s].owner
      <3>1. OwnedIn(k, Open)' = S \ {s} /\ s \in S
        BY <2>4, MoneyTypes DEF OwnedIn
      <3>2. AmountsOf(S \ {s}) = AmountsOf(S) - command[s].amount
        <4> HIDE DEF S
        <4> QED  BY <2>1, <3>1, MoneyTypes, AmountsWithout
      <3>3. AmountsOf(OwnedIn(k, Open))' = AmountsOf(S \ {s})
        <4>1. S \ {s} \in SUBSET Request
          BY <2>1, MoneyTypes
        <4> QED  BY <2>3, <3>1, <4>1
      <3> HIDE DEF S
      <3> QED  BY <2>2, <2>4, <3>2, <3>3
    <2>5. CASE k # command[s].owner
      <3>1. OwnedIn(k, Open)' = S
        BY <2>5, MoneyTypes DEF OwnedIn
      <3>2. AmountsOf(OwnedIn(k, Open))' = AmountsOf(S)
        BY <2>1, <2>3, <3>1, MoneyTypes
      <3> HIDE DEF S
      <3> QED  BY <2>2, <2>5, <3>2
    <2> QED  BY <2>4, <2>5
  <1> QED  BY <1>1, <1>2 DEF ReservedCoversOpen

LEMMA PaysKeeps ==
    ASSUME DatabaseOK, MoneyOK, NEW s \in Request, Pays(s)
    PROVE  MoneyOK'
  <1> DEFINE h == command[s].owner
             amount == command[s].amount
  <1>1. h \in Holder
    BY AccountsOfHolder DEF Pays, CanConsume, Postable
  <1>2. Post(s, "CONSUME", ReservedOf(h), Omnibus, amount)
    BY DEF Pays, Consume
  <1>3. ReservedOf(h) # Omnibus /\ amount \in Nat
    BY AccountsApart, MoneyTypes
  <1>4. LedgerOK'
    BY <1>2, <1>3, PostKeepsLedger DEF MoneyOK, Pays, CanConsume, JournalEvent
  <1>5. BooksBalance'
    BY <1>1, <1>2, <1>3, <1>4, PostKeepsBalance DEF MoneyOK, LedgerOK
  <1>6. \A a \in Account : balance'[a] =
            CASE a = ReservedOf(h) -> balance[a] - amount
              [] a = Omnibus -> balance[a] - amount
              [] OTHER -> balance[a]
    BY <1>1, <1>2, <1>3, MoneyTypes, PostChanges, AccountsApart, AccountsOfHolder
  <1>7. \A k \in Holder : balance'[ReservedOf(k)] =
            IF k = h THEN balance[ReservedOf(k)] - amount
            ELSE balance[ReservedOf(k)]
    BY <1>6, AccountsOfHolder, AccountsApart
  <1>8. ReservedCoversOpen' /\ Rows' = Rows
    BY <1>4, <1>7, EndsOpen DEF Pays, LedgerOK
  <1>9. OmnibusPaysSuccesses'
    <2> DEFINE S == {t \in Request : status[t] = "SUCCESS"}
    <2>1. balance'[Omnibus] = balance[Omnibus] - amount
      BY <1>6, AccountsOfHolder, AccountsApart
    <2>2. {t \in Request : status'[t] = "SUCCESS"} = S \cup {s} /\ s \notin S
      BY MoneyTypes DEF Pays
    <2>3. S \in SUBSET Rows
      BY DEF Rows
    <2>4. OmnibusPaysSuccesses' <=>
              balance'[Omnibus] = OmnibusOpening - AmountsOf(S \cup {s})
      BY <2>2 DEF OmnibusPaysSuccesses, AmountsOf, Pays
    <2>5. balance[Omnibus] = OmnibusOpening - AmountsOf(S)
      BY DEF MoneyOK, OmnibusPaysSuccesses
    <2> HIDE DEF S
    <2>6. AmountsOf(S \cup {s}) = AmountsOf(S) + amount
      BY <2>2, <2>3, MoneyTypes, AmountsWith
    <2>7. AmountsOf(S) \in Nat /\ OmnibusOpening \in Nat
      BY <2>3, MoneyTypes, LedgerAssumption
    <2> QED  BY <1>3, <2>1, <2>4, <2>5, <2>6, <2>7
  <1>10. \A t \in Rows' : command'[t].owner \in Holder
    BY <1>8 DEF MoneyOK, Pays
  <1> QED  BY <1>4, <1>5, <1>8, <1>9, <1>10 DEF MoneyOK

LEMMA ReturnsKeeps ==
    ASSUME DatabaseOK, MoneyOK, NEW s \in Request, Returns(s)
    PROVE  MoneyOK'
  <1> DEFINE h == command[s].owner
             amount == command[s].amount
  <1>1. h \in Holder
    BY AccountsOfHolder DEF Returns, CanRelease, Postable
  <1>2. Post(s, "RELEASE", ReservedOf(h), AvailableOf(h), amount)
    BY DEF Returns, Release
  <1>3. ReservedOf(h) # AvailableOf(h) /\ amount \in Nat
    BY AccountsApart, MoneyTypes
  <1>4. LedgerOK'
    BY <1>2, <1>3, PostKeepsLedger DEF MoneyOK, Returns, CanRelease, JournalEvent
  <1>5. BooksBalance'
    BY <1>1, <1>2, <1>3, <1>4, PostKeepsBalance DEF MoneyOK, LedgerOK
  <1>6. \A a \in Account : balance'[a] =
            CASE a = ReservedOf(h) -> balance[a] - amount
              [] a = AvailableOf(h) -> balance[a] + amount
              [] OTHER -> balance[a]
    BY <1>1, <1>2, <1>3, MoneyTypes, PostChanges, AccountsApart, AccountsOfHolder
  <1>7. \A k \in Holder : balance'[ReservedOf(k)] =
            IF k = h THEN balance[ReservedOf(k)] - amount
            ELSE balance[ReservedOf(k)]
    BY <1>6, AccountsOfHolder, AccountsApart
  <1>8. ReservedCoversOpen' /\ Rows' = Rows
    BY <1>4, <1>7, EndsOpen DEF Returns, LedgerOK
  <1>9. OmnibusPaysSuccesses'
    <2>1. balance'[Omnibus] = balance[Omnibus]
      BY <1>6, AccountsOfHolder, AccountsApart
    <2>2. {t \in Request : status'[t] = "SUCCESS"} = {t \in Request : status[t] = "SUCCESS"}
      BY MoneyTypes DEF Returns
    <2> QED  BY <2>1, <2>2 DEF MoneyOK, OmnibusPaysSuccesses, AmountsOf, Returns
  <1>10. \A t \in Rows' : command'[t].owner \in Holder
    BY <1>8 DEF MoneyOK, Returns
  <1> QED  BY <1>4, <1>5, <1>8, <1>9, <1>10 DEF MoneyOK

LEMMA LedgerRests == ASSUME LedgerOK, BooksBalance, UNCHANGED ledgerVars
                     PROVE  LedgerOK' /\ BooksBalance'
  BY DEF LedgerOK, BooksBalance, ledgerVars, LedgerTypeOK, LedgerInvariants,
     Expected, Custody

LEMMA RestsKeeps ==
    ASSUME DatabaseOK, MoneyOK, Rests
    PROVE  MoneyOK'
  <1>1. LedgerOK' /\ BooksBalance'
    BY LedgerRests DEF MoneyOK, Rests
  <1>2. Rows' = Rows /\ \A s \in Rows : command'[s] = command[s]
    BY DEF Rows, Rests
  <1>3. \A S \in SUBSET Rows : AmountsOf(S)' = AmountsOf(S)
    BY <1>2, MoneyTypes, AmountsStay
  <1>4. balance' = balance
    BY DEF Rests, ledgerVars
  <1>5. ReservedCoversOpen'
    <2> SUFFICES ASSUME NEW h \in Holder
                 PROVE  balance'[ReservedOf(h)] = AmountsOf(OwnedIn(h, Open))'
      BY DEF ReservedCoversOpen
    <2>1. OwnedIn(h, Open)' = OwnedIn(h, Open) /\ OwnedIn(h, Open) \in SUBSET Rows
      BY <1>2 DEF OwnedIn, Rows, Rests
    <2> QED  BY <1>3, <1>4, <2>1 DEF MoneyOK, ReservedCoversOpen
  <1>6. OmnibusPaysSuccesses'
    <2> DEFINE S == {s \in Request : status[s] = "SUCCESS"}
    <2>1. {s \in Request : status'[s] = "SUCCESS"} = S /\ S \in SUBSET Rows
      BY DEF Rests, Rows
    <2>2. OmnibusPaysSuccesses' <=> balance'[Omnibus] = OmnibusOpening - AmountsOf(S)'
      BY <2>1 DEF OmnibusPaysSuccesses
    <2> QED  BY <1>3, <1>4, <2>1, <2>2 DEF MoneyOK, OmnibusPaysSuccesses
  <1> QED  BY <1>1, <1>2, <1>5, <1>6 DEF MoneyOK

LEMMA InitMoney == Init => MoneyOK
  <1> SUFFICES ASSUME Init
               PROVE  MoneyOK
    OBVIOUS
  <1>1. LedgerOK /\ BooksBalance
    BY LedgerInitOK, OpeningBalances DEF Init
  <1>2. Rows = {}
    BY DEF Init, Rows
  <1>3. AmountsOf({}) = 0
    BY SumOfNothing DEF AmountsOf
  <1>4. \A h \in Holder : balance[ReservedOf(h)] = 0
    BY AccountsOfHolder, AccountsApart DEF Init, LedgerInit, ReservedOf
  <1>5. \A h \in Holder : OwnedIn(h, Open) = {}
    BY DEF Init, OwnedIn
  <1>6. balance[Omnibus] = OmnibusOpening /\ OmnibusOpening \in Nat
    BY AccountsOfHolder, LedgerAssumption DEF Init, LedgerInit
  <1>7. {s \in Request : status[s] = "SUCCESS"} = {}
    BY DEF Init
  <1>8. ReservedCoversOpen
    BY <1>3, <1>4, <1>5 DEF ReservedCoversOpen
  <1>9. OmnibusPaysSuccesses
    BY <1>3, <1>6, <1>7 DEF OmnibusPaysSuccesses
  <1> QED  BY <1>1, <1>2, <1>8, <1>9, FS_EmptySet DEF MoneyOK

LEMMA NextMoney ==
    ASSUME IInv, MoneyOK, [Next]_vars
    PROVE  MoneyOK'
  <1>1. DatabaseOK /\ MoneyStep
    BY EveryStepMoney DEF IInv
  <1> QED  BY <1>1, ReservesKeeps, PaysKeeps, ReturnsKeeps, RestsKeeps DEF MoneyStep

LEMMA MoneyInvariance == Spec => []MoneyOK
  <1>1. IInv /\ MoneyOK /\ [Next]_vars => MoneyOK'
    BY NextMoney
  <1> QED  BY <1>1, InitMoney, Invariance, PTL DEF Spec

(* assert_ledger_invariants holds after every transaction, whatever calls,
   races, errors and crashes there were: no balance is negative and each is
   the sum of the postings of its account. *)
THEOREM LedgerCorrectness == Spec => []LedgerInvariants
  <1>1. MoneyOK => LedgerInvariants
    BY DEF MoneyOK, LedgerOK
  <1> QED  BY <1>1, MoneyInvariance, PTL

(* Double entry keeps assets and liabilities equal: the omnibus always holds
   what the ledger owes its customers, so a payout never overdraws it. *)
THEOREM AssetsMatchLiabilities == Spec => []BooksBalance
  <1>1. MoneyOK => BooksBalance
    BY DEF MoneyOK
  <1> QED  BY <1>1, MoneyInvariance, PTL

(* The RESERVED account of a customer holds the amounts of that customer's
   open settlements, for any number of calls, retries and recoveries. *)
THEOREM ReservationCorrectness == Spec => []ReservedCoversOpen
  <1>1. MoneyOK => ReservedCoversOpen
    BY DEF MoneyOK
  <1> QED  BY <1>1, MoneyInvariance, PTL

(* The omnibus has paid out the successful settlements, each once. *)
THEOREM PayoutCorrectness == Spec => []OmnibusPaysSuccesses
  <1>1. MoneyOK => OmnibusPaysSuccesses
    BY DEF MoneyOK
  <1> QED  BY <1>1, MoneyInvariance, PTL

-----------------------------------------------------------------------------
(* Results can be booked *)

\* Of a settlement that is unresolved either result can be booked: its hold is
\* part of what is reserved, and what is reserved is in the omnibus.
LEMMA Bookable ==
    ASSUME DatabaseOK, MoneyOK, NEW s \in Request, status[s] \in Unresolved
    PROVE  CanConsume(s, command[s]) /\ CanRelease(s, command[s])
  <1> DEFINE h == command[s].owner
             amount == command[s].amount
  <1>1. h \in Holder
    BY DEF MoneyOK, Rows
  <1>2. {AvailableOf(h), ReservedOf(h), Omnibus} \subseteq Account
    BY <1>1, AccountsOfHolder
  <1>3. /\ balance \in [Account -> Int]
        /\ balance[AvailableOf(h)] >= 0 /\ balance[AvailableOf(h)] \in Int
        /\ balance[ReservedOf(h)] \in Nat /\ balance[Omnibus] \in Nat
        /\ amount \in Nat
    BY <1>1, <1>2, MoneyTypes
       DEF LedgerTypeOK, MoneyOK, LedgerOK, LedgerInvariants
  <1>4. amount <= balance[ReservedOf(h)]
    <2> DEFINE S == OwnedIn(h, Open)
    <2>1. s \in S /\ S \in SUBSET Rows
      BY DEF OwnedIn, Rows
    <2>2. balance[ReservedOf(h)] = AmountsOf(S)
      BY <1>1 DEF MoneyOK, ReservedCoversOpen
    <2> HIDE DEF S
    <2> QED  BY <2>1, <2>2, MoneyTypes, AmountsWithout
  <1>5. balance[ReservedOf(h)] <= balance[Omnibus]
    BY <1>1, OmnibusCovers DEF MoneyOK
  <1>6. ~IsPosted(s, "CONSUME") /\ ~IsPosted(s, "RELEASE")
    BY DEF DatabaseOK, JournalsFollowStatus
  <1>7. ReservedOf(h) # Omnibus /\ ReservedOf(h) # AvailableOf(h)
        /\ AvailableOf(h) # Omnibus
    BY AccountsApart
  <1>8. \A a \in {ReservedOf(h), Omnibus} : Posted(ReservedOf(h), Omnibus, amount)[a] >= 0
    <2>1. Posted(ReservedOf(h), Omnibus, amount)[ReservedOf(h)]
              = balance[ReservedOf(h)] - amount
      BY <1>2, <1>3, <1>7, PostedByRole
    <2>2. Posted(ReservedOf(h), Omnibus, amount)[Omnibus] = balance[Omnibus] - amount
      BY <1>2, <1>3, <1>7, PostedByRole
    <2> QED  BY <1>3, <1>4, <1>5, <2>1, <2>2
  <1>9. \A a \in {ReservedOf(h), AvailableOf(h)} :
            Posted(ReservedOf(h), AvailableOf(h), amount)[a] >= 0
    <2>1. Posted(ReservedOf(h), AvailableOf(h), amount)[ReservedOf(h)]
              = balance[ReservedOf(h)] - amount
      BY <1>2, <1>3, <1>7, PostedByRole
    <2>2. Posted(ReservedOf(h), AvailableOf(h), amount)[AvailableOf(h)]
              = balance[AvailableOf(h)] + amount
      BY <1>2, <1>3, <1>7, PostedByRole
    <2> QED  BY <1>3, <1>4, <2>1, <2>2
  <1> QED  BY <1>2, <1>3, <1>4, <1>6, <1>8, <1>9
           DEF CanConsume, CanRelease, Postable

LEMMA NothingRejected ==
    ASSUME IInv, MoneyOK, NEW c \in Call, call[c].pc = "finalize", NEW result
    PROVE  ~Rejected(call[c].sid, result)
  <1>1. call[c].sid \in Request /\ status[call[c].sid] \in ClaimedStatus
    BY DEF IInv, CallsOK, CallOK, Live
  <1> QED  BY <1>1, Bookable DEF Rejected, Settled, ClaimedStatus, IInv

(* _finalize_attempt never fails on its own postings: whoever holds the current
   token can book the result it has got. *)
THEOREM BookingSucceeds == Spec => []ResultCanBeBooked
  <1>1. IInv /\ MoneyOK => ResultCanBeBooked
    BY NothingRejected DEF ResultCanBeBooked
  <1> QED  BY <1>1, Invariance, MoneyInvariance, PTL

-----------------------------------------------------------------------------
(* What a create call relies on, and what it has told *)

\* Settlement s is stored under the key of create call r, with its fingerprint.
Answers(s, r) ==
    /\ s \in Request
    /\ HasKey(s, command[r].owner, command[r].key)
    /\ RequestFingerprint(command[s]) = RequestFingerprint(command[r])

Refusals == {"CONFLICT", "INSUFFICIENT_FUNDS", "NO_ROUTE"}

ReplyOK(r) ==
    LET pc == call[r].pc
        s == call[r].sid
        reply == call[r].reply
    IN  /\ pc # "done" => reply = "NONE"
        /\ pc \in {"find", "insert", "reload"} => status[r] = "ABSENT"
        /\ pc \in {"claim", "initiate", "finalize", "get"} => Answers(s, r)
        /\ pc = "get" => status[s] \in ClaimedStatus
        /\ reply \in SettlementStatus =>
               /\ Answers(s, r)
               /\ reply # "RESERVED"
               /\ reply \in Terminal => status[s] = reply
        /\ reply \in Refusals => status[r] = "ABSENT"
        /\ reply = "CONFLICT" =>
               \E t \in Request :
                   /\ HasKey(t, command[r].owner, command[r].key)
                   /\ RequestFingerprint(command[t])
                          # RequestFingerprint(command[r])

RepliesOK == \A r \in Request : ReplyOK(r)

LEMMA CreateFacts ==
    ASSUME IInv, NEW r \in Request
    PROVE  /\ r \in Call /\ r \notin Worker /\ r \notin Manual /\ r \notin batch
           /\ call[r] \in CallState /\ call \in [Call -> CallState]
           /\ call[r].pc \notin {"read", "reclaim", "lookup", "recover"}
           /\ call[r].pc # "idle" => command[r] \in Commands
           /\ call[r].pc \in {"find", "insert", "reload"} => call[r].sid = r
  BY DistinctCalls DEF IInv, CallsOK, CallOK, ProcessType, Call

\* What becomes of create call r when it takes a step.
LEMMA Turns ==
    ASSUME IInv, NEW r \in Request, NEW n, NEW e
    PROVE  /\ Proceed(r, n) => call'[r] = n
           /\ Raise(r, e) => call'[r] = Answer(r, e)
           /\ Except(r, e) =>
                  call'[r] = IF call[r].pc = "initiate" THEN WithResult(r, "NONE")
                             ELSE Answer(r, e)
           /\ Acknowledge(r, n) =>
                  \/ call'[r] = n
                  \/ call'[r] = IF call[r].pc = "initiate" THEN WithResult(r, "NONE")
                                ELSE Answer(r, "ERROR")
  <1>1. ASSUME NEW m
        PROVE  Proceed(r, m) => call'[r] = m
    BY CreateFacts DEF Proceed
  <1>2. ASSUME NEW m
        PROVE  Raise(r, m) => call'[r] = Answer(r, m)
    BY CreateFacts DEF Raise
  <1>3. ASSUME NEW m
        PROVE  Except(r, m) =>
                  call'[r] = IF call[r].pc = "initiate" THEN WithResult(r, "NONE")
                             ELSE Answer(r, m)
    BY <1>1, <1>2 DEF Except
  <1> QED  BY <1>1, <1>2, <1>3 DEF Acknowledge

\* What becomes of it when another call does.
LEMMA Bystands ==
    ASSUME IInv, NEW r \in Request, NEW c \in Call, c # r, NEW n, NEW e,
           \/ Proceed(c, n) \/ Raise(c, e) \/ Except(c, e) \/ Acknowledge(c, n)
    PROVE  call'[r] \in {call[r], Killed(r)}
  <1>1. ASSUME NEW m, Proceed(c, m)
        PROVE  call'[r] = call[r]
    BY <1>1, CreateFacts DEF Proceed
  <1>2. ASSUME NEW m, Raise(c, m)
        PROVE  call'[r] \in {call[r], Killed(r)}
    BY <1>2, CreateFacts DEF Raise, Die
  <1>3. ASSUME NEW m, Except(c, m)
        PROVE  call'[r] \in {call[r], Killed(r)}
    BY <1>1, <1>2, <1>3 DEF Except
  <1> QED  BY <1>1, <1>2, <1>3 DEF Acknowledge

LEMMA RecordShapes ==
    ASSUME IInv, NEW r \in Request, NEW reply, NEW result, NEW pc
    PROVE  /\ Answer(r, reply).pc = "done" /\ Answer(r, reply).reply = reply
           /\ Answer(r, reply).sid = call[r].sid
           /\ At(r, pc).pc = pc /\ At(r, pc).sid = call[r].sid
           /\ At(r, pc).reply = call[r].reply
           /\ WithResult(r, result).pc = "finalize"
           /\ WithResult(r, result).sid = call[r].sid
           /\ WithResult(r, result).reply = call[r].reply
  BY CreateFacts DEF Answer, At, WithResult, CallState

\* What no step undoes: rows and what they were made for, claims and ends.
Lasts ==
    \A s \in Request :
        /\ status[s] # "ABSENT" =>
               status'[s] # "ABSENT" /\ command'[s] = command[s]
        /\ status[s] \in ClaimedStatus => status'[s] \in ClaimedStatus
        /\ status[s] \in Terminal => status'[s] = status[s]
        /\ call[s].pc # "idle" => command'[s] = command[s]
        /\ status[s] = "ABSENT" /\ call[s].pc # "insert" => status'[s] = "ABSENT"
        /\ status[s] = "ABSENT" /\ call'[s] = call[s] => status'[s] = "ABSENT"

LEMMA CommandsStay ==
    ASSUME IInv, [Next]_vars, NEW s \in Request, call[s].pc # "idle"
    PROVE  command'[s] = command[s]
  <1> USE DEF database
  <1>1. ASSUME NEW r \in Request, PostSettlement(r)
        PROVE  command'[s] = command[s]
    BY <1>1 DEF PostSettlement, Idle, IInv, DatabaseOK, DatabaseType
  <1>2. ASSUME NEW r \in Request, CreateStep(r)
        PROVE  command'[s] = command[s]
    BY <1>2 DEF CreateStep, Find, Insert, ClaimReserved, ReadOnly
  <1>3. ASSUME NEW m \in Manual, PostReconcile(m) \/ ReconcileStep(m)
        PROVE  command'[s] = command[s]
    BY <1>3 DEF PostReconcile, ReconcileStep, Read, ClaimForReconciliation, ReadOnly
  <1>4. ASSUME NEW c \in Call, PayoutStep(c) \/ DatabaseError(c)
        PROVE  command'[s] = command[s]
    BY <1>4 DEF PayoutStep, SubmitPayout, LookupPayout, Finalize, Recover, Get,
       DatabaseError, ReadOnly
  <1>5. ASSUME NEW B \in SUBSET Request, ClaimDueBatch(B)
        PROVE  command'[s] = command[s]
    BY <1>5 DEF ClaimDueBatch
  <1>6. ASSUME NEW t \in Request, LeaseExpires(t)
        PROVE  command'[s] = command[s]
    BY <1>6 DEF LeaseExpires
  <1>7. CASE \/ Startup \/ Serve \/ Stop \/ Exit \/ Crash \/ StartupError
             \/ UNCHANGED vars
    BY <1>7 DEF Startup, Serve, Stop, Exit, Crash, StartupError, vars
  <1> QED  BY <1>1, <1>2, <1>3, <1>4, <1>5, <1>6, <1>7 DEF Next

LEMMA EveryStepLasts ==
    ASSUME IInv, LeaseOK, [Next]_vars
    PROVE  Lasts
  <1> SUFFICES ASSUME NEW s \in Request
               PROVE  /\ status[s] # "ABSENT" =>
                             status'[s] # "ABSENT" /\ command'[s] = command[s]
                      /\ status[s] \in ClaimedStatus => status'[s] \in ClaimedStatus
                      /\ status[s] \in Terminal => status'[s] = status[s]
                      /\ call[s].pc # "idle" => command'[s] = command[s]
                      /\ status[s] = "ABSENT" /\ call[s].pc # "insert" =>
                             status'[s] = "ABSENT"
                      /\ status[s] = "ABSENT" /\ call'[s] = call[s] =>
                             status'[s] = "ABSENT"
    BY DEF Lasts
  <1>1. status[s] \in RowStatus /\ status \in [Request -> RowStatus]
    BY DEF IInv, DatabaseOK, DatabaseType
  <1>2. status'[s] = status[s] \/ <<status[s], status'[s]>> \in Arrows
    BY StepMoves DEF MovesUnderToken
  <1>3. status[s] # "ABSENT" => call[s].pc # "idle"
    BY CreateFacts DEF IInv, CallsOK, CallOK
  <1>4. ASSUME status[s] = "ABSENT", status'[s] # "ABSENT"
        PROVE  call[s].pc = "insert" /\ call'[s] # call[s]
    <2>1. Reserves(s)
      BY <1>1, <1>4, EveryStepMoney DEF MoneyStep, Reserves, Pays, Returns, Rests
    <2>2. call[s].pc = "insert" /\ ~UNCHANGED status
      BY <1>1, <1>4, <2>1 DEF Reserves, Insert
    <2>3. Acknowledge(s, At(s, "claim"))
      BY <2>1, <2>2 DEF Reserves, Insert, ReadOnly, database
    <2>4. call'[s].pc \in {"claim", "done"}
      BY <2>2, <2>3, Turns, RecordShapes
    <2> QED  BY <2>2, <2>4
  <1>5. call[s].pc # "idle" => command'[s] = command[s]
    BY CommandsStay
  <1> QED  BY <1>1, <1>2, <1>3, <1>4, <1>5
           DEF Arrows, ClaimedStatus, RowStatus, SettlementStatus

LEMMA AnswersLast ==
    ASSUME IInv, Lasts, NEW r \in Request, NEW s, Answers(s, r),
           call[r].pc # "idle"
    PROVE  Answers(s, r)'
  BY DEF Answers, HasKey, RequestFingerprint, Lasts

\* A create call that another step leaves alone, or kills.
LEMMA BystanderKeeps ==
    ASSUME IInv, RepliesOK, Lasts, NEW r \in Request,
           call'[r] \in {call[r], Killed(r)}
    PROVE  ReplyOK(r)'
  <1>1. ReplyOK(r) /\ (call[r].pc = "idle" => call[r].reply = "NONE")
    BY DEF RepliesOK, ReplyOK
  <1>2. CASE call'[r] = call[r]
    <2>1. CASE call[r].pc = "idle"
      BY <1>1, <1>2, <2>1 DEF ReplyOK, SettlementStatus, Refusals
    <2>2. CASE call[r].pc # "idle"
      <3>1. command'[r] = command[r]
        BY <2>2 DEF Lasts
      <3>2. status[r] = "ABSENT" => status'[r] = "ABSENT"
        BY <1>2 DEF Lasts
      <3>3. ASSUME NEW s, Answers(s, r)
            PROVE  s \in Request /\ Answers(s, r)'
        BY <2>2, <3>3, AnswersLast DEF Answers
      <3>4. Answers(call[r].sid, r) =>
                call[r].sid \in Request /\ Answers(call[r].sid, r)'
        <4>1. PICK s : s = call[r].sid
          OBVIOUS
        <4>2. Answers(s, r) => s \in Request /\ Answers(s, r)'
          BY <3>3
        <4>3. s = call'[r].sid
          BY <1>2, <4>1
        <4> QED  BY <4>1, <4>2, <4>3
      <3>5. ASSUME NEW t \in Request, HasKey(t, command[r].owner, command[r].key),
                   RequestFingerprint(command[t]) # RequestFingerprint(command[r])
            PROVE  /\ HasKey(t, command[r].owner, command[r].key)'
                   /\ RequestFingerprint(command'[t]) # RequestFingerprint(command'[r])
        BY <3>1, <3>5 DEF HasKey, RequestFingerprint, Lasts
      <3> QED  BY <1>1, <1>2, <3>1, <3>2, <3>4, <3>5 DEF ReplyOK, Lasts
    <2> QED  BY <2>1, <2>2
  <1>3. CASE Live(r) /\ call'[r] = Answer(r, "LOST")
    BY <1>3, RecordShapes DEF ReplyOK, SettlementStatus, Refusals
  <1> QED  BY <1>2, <1>3 DEF Killed

\* A create call that fails, or goes on with the settlement it has.
LEMMA ErrorKeeps ==
    ASSUME IInv, NEW r \in Request, call'[r] = Answer(r, "ERROR")
    PROVE  ReplyOK(r)'
  BY RecordShapes DEF ReplyOK, SettlementStatus, Refusals

LEMMA GoingOnKeeps ==
    ASSUME IInv, RepliesOK, Lasts, NEW r \in Request,
           call[r].pc \in {"claim", "initiate", "finalize"},
           call'[r].pc \in {"claim", "initiate", "finalize", "get"},
           call'[r].sid = call[r].sid, call'[r].reply = call[r].reply,
           call'[r].pc = "get" => status'[call[r].sid] \in ClaimedStatus
    PROVE  ReplyOK(r)'
  <1>1. Answers(call[r].sid, r) /\ call[r].reply = "NONE"
    BY DEF RepliesOK, ReplyOK
  <1>2. Answers(call[r].sid, r)'
    BY <1>1, AnswersLast
  <1> QED  BY <1>1, <1>2 DEF ReplyOK, SettlementStatus, Refusals

\* A create call that is told a status.
LEMMA ToldKeeps ==
    ASSUME IInv, RepliesOK, Lasts, NEW r \in Request, NEW s \in Request,
           Answers(s, r), call[r].pc # "idle", call'[r].pc = "done",
           call'[r].sid = s, call'[r].reply = status'[s],
           status'[s] \in ClaimedStatus
    PROVE  ReplyOK(r)'
  <1>1. Answers(s, r)'
    BY AnswersLast
  <1> QED  BY <1>1 DEF ReplyOK, SettlementStatus, Refusals, ClaimedStatus

-----------------------------------------------------------------------------
(* The steps of a create call keep its replies true *)

LEMMA PostSettlementReplies ==
    ASSUME IInv, NEW r \in Request, PostSettlement(r)
    PROVE  ReplyOK(r)'
  <1>1. call'[r] = [Idle EXCEPT !.pc = "find", !.sid = r]
    BY Turns DEF PostSettlement
  <1>2. call'[r].pc = "find" /\ call'[r].reply = "NONE"
    BY <1>1 DEF Idle
  <1>3. status'[r] = "ABSENT"
    BY CreateFacts DEF PostSettlement, Idle, IInv, CallsOK, CallOK
  <1> QED  BY <1>2, <1>3 DEF ReplyOK, SettlementStatus, Refusals

LEMMA FindReplies ==
    ASSUME IInv, RepliesOK, Lasts, NEW r \in Request, Find(r)
    PROVE  ReplyOK(r)'
  <1> DEFINE Taken == KeyTaken(command[r].owner, command[r].key)
             found == FindByKey(command[r].owner, command[r].key)
  <1>1. /\ call[r].pc \in {"find", "reload"} /\ status' = status
        /\ command' = command
    BY DEF Find, ReadOnly, database
  <1>2. status[r] = "ABSENT" /\ call[r].reply = "NONE"
    BY <1>1 DEF RepliesOK, ReplyOK
  <1>3. CASE Taken /\ Existing(r, found)
    <2>1. PICK s \in Request :
             s = found /\ HasKey(s, command[r].owner, command[r].key)
      BY <1>3 DEF KeyTaken, FindByKey
    <2>2. Existing(r, s)
      BY <1>3, <2>1
    <2>3. HasKey(s, command[r].owner, command[r].key)'
      BY <1>1, <2>1 DEF HasKey
    <2>4. CASE RequestFingerprint(command[s]) # RequestFingerprint(command[r])
      <3>1. call'[r] = Answer(r, "CONFLICT")
        BY <2>2, <2>4, Turns DEF Existing
      <3>2. call'[r].pc = "done" /\ call'[r].reply = "CONFLICT"
        BY <3>1, RecordShapes
      <3>3. RequestFingerprint(command'[s]) # RequestFingerprint(command'[r])
        BY <1>1, <2>4
      <3> QED  BY <1>1, <1>2, <2>3, <3>2, <3>3
               DEF ReplyOK, SettlementStatus, Refusals
    <2>5. CASE RequestFingerprint(command[s]) = RequestFingerprint(command[r])
      <3>1. Answers(s, r) /\ Answers(s, r)'
        BY <1>1, <2>1, <2>3, <2>5 DEF Answers
      <3>2. CASE status[s] = "RESERVED"
        <4>1. call'[r] = [At(r, "claim") EXCEPT !.sid = s]
          BY <2>2, <2>5, <3>2, Turns DEF Existing
        <4>2. /\ call'[r].pc = "claim" /\ call'[r].sid = s
              /\ call'[r].reply = "NONE"
          BY <1>2, <4>1, CreateFacts DEF At, CallState
        <4>3. Answers(call[r].sid, r)'
          BY <3>1, <4>2 DEF Answers
        <4> QED  BY <4>2, <4>3 DEF ReplyOK, SettlementStatus, Refusals
      <3>3. CASE status[s] # "RESERVED"
        <4>1. call'[r] = [Answer(r, status[s]) EXCEPT !.sid = s]
          BY <2>2, <2>5, <3>3, Turns DEF Existing
        <4>2. /\ call'[r].pc = "done" /\ call'[r].sid = s
              /\ call'[r].reply = status[s]
          BY <4>1, CreateFacts DEF Answer, CallState
        <4>3. status[s] \in ClaimedStatus
          BY <2>1, <3>3 DEF HasKey, IInv, DatabaseOK, DatabaseType, RowStatus,
             SettlementStatus, ClaimedStatus
        <4> QED  BY <1>1, <2>1, <3>1, <4>2, <4>3, ToldKeeps
      <3> QED  BY <3>2, <3>3
    <2> QED  BY <2>4, <2>5
  <1>4. CASE ~Taken /\ Raise(r, "ERROR")
    BY <1>4, Turns, ErrorKeeps
  <1>5. CASE ~Taken /\ Raise(r, "NO_ROUTE")
    <2>1. call'[r].pc = "done" /\ call'[r].reply = "NO_ROUTE"
      BY <1>5, Turns, RecordShapes
    <2> QED  BY <1>1, <1>2, <2>1 DEF ReplyOK, SettlementStatus, Refusals
  <1>6. CASE ~Taken /\ Proceed(r, At(r, "insert"))
    <2>1. call'[r].pc = "insert" /\ call'[r].reply = "NONE"
      BY <1>2, <1>6, Turns, RecordShapes
    <2> QED  BY <1>1, <1>2, <2>1 DEF ReplyOK, SettlementStatus, Refusals
  <1> QED  BY <1>3, <1>4, <1>5, <1>6 DEF Find

LEMMA InsertReplies ==
    ASSUME IInv, RepliesOK, Lasts, NEW r \in Request, Insert(r)
    PROVE  ReplyOK(r)'
  <1>1. call[r].pc = "insert" /\ call[r].sid = r /\ command' = command
    BY CreateFacts DEF Insert, ReadOnly, database
  <1>2. status[r] = "ABSENT" /\ call[r].reply = "NONE"
    BY <1>1 DEF RepliesOK, ReplyOK
  <1>3. CASE Proceed(r, At(r, "reload")) /\ ReadOnly
    <2>1. call'[r] = At(r, "reload")
      BY <1>3, Turns
    <2>2. status'[r] = "ABSENT"
      BY <1>2, <1>3 DEF ReadOnly, database
    <2>3. call'[r].pc = "reload" /\ call'[r].reply = "NONE"
      BY <1>2, <2>1, RecordShapes
    <2> QED  BY <2>2, <2>3 DEF ReplyOK, SettlementStatus, Refusals
  <1>4. CASE Raise(r, ReserveError(r, command[r])) /\ ReadOnly
    <2>1. ReserveError(r, command[r]) \in {"INSUFFICIENT_FUNDS", "ERROR"}
      BY DEF ReserveError, PostError
    <2>2. /\ call'[r].pc = "done"
          /\ call'[r].reply \in {"INSUFFICIENT_FUNDS", "ERROR"}
      BY <1>4, <2>1, Turns, RecordShapes
    <2>3. status'[r] = "ABSENT"
      BY <1>2, <1>4 DEF ReadOnly, database
    <2> QED  BY <2>2, <2>3 DEF ReplyOK, SettlementStatus, Refusals
  <1>5. CASE /\ status' = [status EXCEPT ![r] = "RESERVED"]
             /\ Acknowledge(r, At(r, "claim"))
    <2>1. CASE call'[r] = At(r, "claim")
      <3>1. /\ call'[r].pc = "claim" /\ call'[r].sid = r
            /\ call'[r].reply = "NONE"
        BY <1>1, <1>2, <2>1, RecordShapes
      <3>2. status'[r] = "RESERVED"
        BY <1>5 DEF IInv, DatabaseOK, DatabaseType
      <3>3. Answers(r, r)'
        BY <3>2 DEF Answers, HasKey
      <3>4. Answers(call[r].sid, r)'
        BY <3>1, <3>3 DEF Answers
      <3> QED  BY <3>1, <3>4 DEF ReplyOK, SettlementStatus, Refusals
    <2>2. CASE call'[r] = Answer(r, "ERROR")
      BY <2>2, ErrorKeeps
    <2> QED  BY <1>1, <1>5, <2>1, <2>2, Turns
  <1> QED  BY <1>3, <1>4, <1>5 DEF Insert

LEMMA ClaimReservedReplies ==
    ASSUME IInv, RepliesOK, Lasts, NEW r \in Request, ClaimReserved(r)
    PROVE  ReplyOK(r)'
  <1> DEFINE s == call[r].sid
  <1>1. call[r].pc = "claim"
    BY DEF ClaimReserved
  <1>2. s \in Request /\ status[s] # "ABSENT"
    BY <1>1 DEF RepliesOK, ReplyOK, Answers, HasKey
  <1>3. CASE status[s] # "RESERVED" /\ Proceed(r, At(r, "get")) /\ ReadOnly
    <2>1. status'[s] \in ClaimedStatus
      BY <1>2, <1>3 DEF IInv, DatabaseOK, DatabaseType, RowStatus, SettlementStatus,
         ClaimedStatus, ReadOnly, database
    <2>2. call'[r] = At(r, "get")
      BY <1>3, Turns
    <2> QED  BY <1>1, <2>1, <2>2, RecordShapes, GoingOnKeeps
  <1>4. CASE Acknowledge(r, [At(r, "initiate") EXCEPT !.token = 1])
    <2>1. CASE call'[r] = [At(r, "initiate") EXCEPT !.token = 1]
      <3>1. /\ call'[r].pc = "initiate" /\ call'[r].sid = call[r].sid
            /\ call'[r].reply = call[r].reply
        BY <2>1, CreateFacts DEF At, CallState
      <3> QED  BY <1>1, <3>1, GoingOnKeeps
    <2>2. CASE call'[r] = Answer(r, "ERROR")
      BY <2>2, ErrorKeeps
    <2> QED  BY <1>1, <1>4, <2>1, <2>2, Turns
  <1> QED  BY <1>3, <1>4 DEF ClaimReserved

LEMMA SubmitPayoutReplies ==
    ASSUME IInv, RepliesOK, Lasts, NEW r \in Request, SubmitPayout(r)
    PROVE  ReplyOK(r)'
  <1>1. call[r].pc = "initiate"
    BY DEF SubmitPayout
  <1>2. \E result : call'[r] = WithResult(r, result)
    BY <1>1, Turns DEF SubmitPayout
  <1> QED  BY <1>1, <1>2, RecordShapes, GoingOnKeeps

LEMMA FinalizeReplies ==
    ASSUME IInv, MoneyOK, RepliesOK, Lasts, NEW r \in Request, Finalize(r)
    PROVE  ReplyOK(r)'
  <1>1. call[r].pc = "finalize" /\ r \in Call
    BY CreateFacts DEF Finalize
  <1>2. PICK s \in Request : s = call[r].sid /\ Answers(s, r)
    BY <1>1 DEF RepliesOK, ReplyOK, Answers
  <1>3. status[s] \in ClaimedStatus /\ status'[s] \in ClaimedStatus
    BY <1>1, <1>2 DEF IInv, CallsOK, CallOK, Live, Lasts
  <1>4. CASE Proceed(r, At(r, "get"))
    <2>1. call'[r] = At(r, "get")
      BY <1>4, Turns
    <2> QED  BY <1>1, <1>2, <1>3, <2>1, RecordShapes, GoingOnKeeps
  <1>5. CASE Acknowledge(r, Answer(r, status'[s]))
    <2>1. CASE call'[r] = Answer(r, status'[s])
      <3>1. /\ call'[r].pc = "done" /\ call'[r].sid = s
            /\ call'[r].reply = status'[s]
        BY <1>2, <2>1, CreateFacts DEF Answer, CallState
      <3> QED  BY <1>1, <1>2, <1>3, <3>1, ToldKeeps
    <2>2. CASE call'[r] = Answer(r, "ERROR")
      BY <2>2, ErrorKeeps
    <2> QED  BY <1>1, <1>5, <2>1, <2>2, Turns
  <1>6. ~Rejected(call[r].sid, call[r].result)
    BY <1>1, NothingRejected
  <1> QED  BY <1>2, <1>4, <1>5, <1>6 DEF Finalize

LEMMA GetReplies ==
    ASSUME IInv, RepliesOK, Lasts, NEW r \in Request, Get(r)
    PROVE  ReplyOK(r)'
  <1>1. call[r].pc = "get" /\ status' = status
    BY DEF Get, ReadOnly, database
  <1>2. PICK s \in Request : s = call[r].sid /\ Answers(s, r)
    BY <1>1 DEF RepliesOK, ReplyOK, Answers
  <1>3. status[s] \in ClaimedStatus
    BY <1>1, <1>2 DEF RepliesOK, ReplyOK
  <1>4. call'[r] = Answer(r, status[s])
    BY <1>2, <1>3, Turns DEF Get, ClaimedStatus
  <1>5. /\ call'[r].pc = "done" /\ call'[r].sid = s
        /\ call'[r].reply = status'[s]
    BY <1>1, <1>2, <1>4, CreateFacts DEF Answer, CallState
  <1> QED  BY <1>1, <1>2, <1>3, <1>5, ToldKeeps

LEMMA DatabaseErrorReplies ==
    ASSUME IInv, RepliesOK, Lasts, NEW r \in Request, DatabaseError(r)
    PROVE  ReplyOK(r)'
  <1>1. CASE call[r].pc = "initiate" /\ call'[r] = WithResult(r, "NONE")
    BY <1>1, RecordShapes, GoingOnKeeps
  <1>2. CASE call'[r] = Answer(r, "ERROR")
    BY <1>2, ErrorKeeps
  <1> QED  BY <1>1, <1>2, Turns DEF DatabaseError

\* A step that some other call makes.
LEMMA OthersReplies ==
    ASSUME IInv, RepliesOK, Lasts, NEW r \in Request, NEW c \in Call, c # r,
           \/ c \in Request /\ (PostSettlement(c) \/ CreateStep(c))
           \/ c \in Manual /\ (PostReconcile(c) \/ ReconcileStep(c))
           \/ PayoutStep(c) \/ DatabaseError(c)
    PROVE  ReplyOK(r)'
  <1> SUFFICES \E n, e : \/ Proceed(c, n) \/ Raise(c, e)
                         \/ Except(c, e) \/ Acknowledge(c, n)
    BY Bystands, BystanderKeeps
  <1>1. CASE PostSettlement(c) \/ CreateStep(c)
    BY <1>1 DEF PostSettlement, CreateStep, Find, Existing, Insert, ClaimReserved
  <1>2. CASE PostReconcile(c) \/ ReconcileStep(c)
    BY <1>2 DEF PostReconcile, ReconcileStep, Read, ClaimForReconciliation
  <1>3. CASE PayoutStep(c) \/ DatabaseError(c)
    BY <1>3 DEF PayoutStep, SubmitPayout, LookupPayout, Finalize, Recover, Get,
       DatabaseError
  <1> QED  BY <1>1, <1>2, <1>3

\* A step of the reconciler or of the process.
LEMMA ProcessReplies ==
    ASSUME IInv, RepliesOK, Lasts, NEW r \in Request,
           \/ \E B \in SUBSET Request : ClaimDueBatch(B)
           \/ \E s \in Request : LeaseExpires(s)
           \/ Startup \/ Serve \/ Stop \/ Exit \/ Crash \/ StartupError
           \/ UNCHANGED vars
    PROVE  ReplyOK(r)'
  <1> SUFFICES call'[r] \in {call[r], Killed(r)}
    BY BystanderKeeps
  <1>1. Die => call'[r] \in {call[r], Killed(r)}
    BY CreateFacts DEF Die
  <1>2. ASSUME NEW B \in SUBSET Request, ClaimDueBatch(B)
        PROVE  call'[r] \in {call[r], Killed(r)}
    <2>1. ASSUME batch' = {WorkerFor(s) : s \in B}
          PROVE  r \notin batch'
      <3>1. \A s \in B : NextClaim(s).token \in 1 .. MaxToken
        <4>1. B \subseteq Due /\ Due \subseteq Request
          BY <1>2 DEF ClaimDueBatch, Due
        <4>2. ASSUME NEW s \in B
              PROVE  attempts[s].token + 1 \in 1 .. MaxToken
          BY <4>1, AttemptType, ServiceAssumption DEF Due, IInv, DatabaseOK
        <4> QED  BY <4>2 DEF NextClaim
      <3> QED  BY <2>1, <3>1, CreateFacts DEF WorkerFor, Worker
    <2> QED  BY <1>1, <1>2, <2>1, CreateFacts DEF ClaimDueBatch, processVars
  <1> QED  BY <1>1, <1>2 DEF LeaseExpires, Startup, Serve, Stop, Exit, Crash,
           StartupError, processVars, vars

LEMMA NextReplies ==
    ASSUME IInv, LeaseOK, MoneyOK, RepliesOK, [Next]_vars
    PROVE  RepliesOK'
  <1> SUFFICES ASSUME NEW r \in Request
               PROVE  ReplyOK(r)'
    BY DEF RepliesOK
  <1>1. Lasts /\ r \in Call /\ r \notin Manual
    BY EveryStepLasts, CreateFacts
  <1>2. CASE \E c \in Request : PostSettlement(c) \/ CreateStep(c)
    BY <1>1, <1>2, PostSettlementReplies, FindReplies, InsertReplies,
       ClaimReservedReplies, OthersReplies DEF CreateStep, Call
  <1>3. CASE \E m \in Manual : PostReconcile(m) \/ ReconcileStep(m)
    BY <1>1, <1>3, OthersReplies DEF Call
  <1>4. CASE \E c \in Call : PayoutStep(c) \/ DatabaseError(c)
    <2>1. ~LookupPayout(r) /\ ~Recover(r)
      BY CreateFacts DEF LookupPayout, Recover
    <2> QED  BY <1>1, <1>4, <2>1, SubmitPayoutReplies, FinalizeReplies, GetReplies,
             DatabaseErrorReplies, OthersReplies DEF PayoutStep
  <1> QED  BY <1>1, <1>2, <1>3, <1>4, ProcessReplies DEF Next

LEMMA RepliesInvariance == Spec => []RepliesOK
  <1>1. Init => RepliesOK
    BY DEF Init, RepliesOK, ReplyOK, Call, Idle, SettlementStatus, Refusals
  <1>2. IInv /\ LeaseOK /\ MoneyOK /\ RepliesOK /\ [Next]_vars => RepliesOK'
    BY NextReplies
  <1> QED  BY <1>1, <1>2, Invariance, LeaseInvariance, MoneyInvariance, PTL DEF Spec

(* A create call is only told of a settlement that is stored under its key and
   its fingerprint, never of one that nobody has claimed, and what it was told
   of an end stays true. *)
THEOREM ReplayFaithfulness == Spec => []ReplayIsFaithful
  <1>1. RepliesOK => ReplayIsFaithful
    BY DEF RepliesOK, ReplyOK, Answers, ReplayIsFaithful
  <1> QED  BY <1>1, RepliesInvariance, PTL

(* A create call that was refused left no row, no journal and no operation, and
   a conflict is only reported of a key that is stored with another
   fingerprint. *)
THEOREM RefusalCorrectness == Spec => []RefusalLeavesNothing
  <1>1. IInv /\ RepliesOK => RefusalLeavesNothing
    <2> SUFFICES ASSUME IInv, RepliesOK
                 PROVE  RefusalLeavesNothing
      OBVIOUS
    <2>1. ASSUME NEW r \in Request, status[r] = "ABSENT"
          PROVE  ~IsPosted(r, "RESERVE") /\ ~Recorded(r)
      BY <2>1 DEF IInv, DatabaseOK, JournalsFollowStatus, RowOK, ClaimedStatus
    <2> QED  BY <2>1 DEF RepliesOK, ReplyOK, Refusals, RefusalLeavesNothing
  <1> QED  BY <1>1, Invariance, RepliesInvariance, PTL
=============================================================================
