------------------------- MODULE TransactionsProofs -------------------------
(***************************************************************************)
(* Proofs, for any workers, accounts, commands and orders of account ids,  *)
(* that the lock-by-lock transactions read nothing that goes stale         *)
(* (ReadingsStayTrue), never wait in a circle (NoCircularWait) and are as  *)
(* good as single steps (ImplementsSerial); and so that the committed      *)
(* ledger is in order (LedgerInvariants) and a seed judges it rightly      *)
(* (SeedJudgesRightly).                                                    *)
(*                                                                         *)
(* The argument: what a transaction writes it holds, or nobody can hold    *)
(* (a row that is not there yet).  So what the others have read stays      *)
(* true, and a transaction that computes its writes from its readings      *)
(* computes them from what is committed.                                   *)
(***************************************************************************)
EXTENDS Transactions, LedgerProofs

-----------------------------------------------------------------------------
(* The inductive invariant *)

ClaimedStatus == Unresolved \cup Terminal

Claim == [settlement : Request, token : Nat]

TxType ==
    [kind : Running \cup Ended, settlement : Request \cup {"NULL"}, token : Nat,
     result : {"PAID", "UNPAID", "NONE"}, rest : SUBSET Claim]

TablesType ==
    /\ terms \in [Request -> Commands]
    /\ status \in [Request -> RowStatus]
    /\ token \in [Request -> Nat]
    /\ balance \in [Account -> Int]
    /\ books = NoBooks \/ books \in [owner : Holder, amount : Nat]

LocksType ==
    /\ accountId \in [Account -> Nat]
    /\ \A a, b \in Account : a # b => accountId[a] # accountId[b]
    /\ held \in [Worker -> SUBSET Resource]
    /\ seen = [w \in Worker |-> seen[w]]
    /\ tx \in [Worker -> TxType]

\* No row is locked twice.
Exclusive ==
    \A v, w \in Worker : v # w => held[v] \cap held[w] = {}

\* What can be locked is there, and an attempt is locked after its settlement.
RowsThere(w) ==
    /\ \A s \in Request : SettlementRow(s) \in held[w] => status[s] # "ABSENT"
    /\ \A s \in Request : AttemptRow(s) \in held[w] => SettlementRow(s) \in held[w]
    /\ \A a \in Account : AccountRow(a) \in held[w] => a \in Existing

\* ReadingsStayTrue, for one worker.
ReadsTrue(w) == \A r \in held[w] : seen[w][r] = Value(r)

\* What a worker may rely on in a transaction of its kind.
TxOK(w) ==
    LET kind == tx[w].kind
        s == tx[w].settlement
    IN  /\ kind = "insert" => w \in Request /\ s = w
        /\ kind \in {"claim", "reclaim", "finalize"} => s \in Request
        /\ kind = "claim" => status[s] # "ABSENT"
        /\ kind = "finalize" => status[s] \in ClaimedStatus
        /\ \A c \in tx[w].rest : status[c.settlement] \in ClaimedStatus
        /\ kind = "claimed" =>
               \A c \in tx[w].rest : /\ SettlementRow(c.settlement) \in held[w]
                                     /\ AttemptRow(c.settlement) \in held[w]
                                     /\ status[c.settlement] \in Unresolved
        /\ kind = "seed" => w \in Seed /\ job[w] \in SeedJobs
        /\ kind \in Ended \cup {"batch"} => held[w] = {}

\* A transaction holds nothing but what its statements lock, and of the
\* accounts the first ones by their ids.
LocksOK(w) ==
    /\ held[w] \subseteq DOMAIN seen[w]
    /\ tx[w].kind # "claimed" => held[w] \subseteq Wanted(w)
    /\ \A a, b \in Account :
           AccountRow(a) \in held[w] /\ AccountRow(b) \in Missing(w) =>
               accountId[a] < accountId[b]

WorkerOK(w) == RowsThere(w) /\ ReadsTrue(w) /\ TxOK(w) /\ LocksOK(w)

IInv ==
    /\ TablesType
    /\ LocksType
    /\ Exclusive
    /\ \A w \in Worker : WorkerOK(w)

-----------------------------------------------------------------------------
(* Rows and their values *)

LEMMA Resources ==
    ASSUME NEW r \in Resource
    PROVE  \/ \E o \in Owner, k \in Key : r = <<"key", o, k>>
           \/ \E s \in Request : r = SettlementRow(s)
           \/ \E s \in Request : r = AttemptRow(s)
           \/ \E a \in Account : r = AccountRow(a)
           \/ r = SeedLock
    BY DEF Resource, SettlementRow, AttemptRow, AccountRow, SeedLock

LEMMA RowsApart ==
    /\ \A s, t : SettlementRow(s) = SettlementRow(t) => s = t
    /\ \A s, t : AttemptRow(s) = AttemptRow(t) => s = t
    /\ \A a, b : AccountRow(a) = AccountRow(b) => a = b
    /\ \A s, t : SettlementRow(s) # AttemptRow(t)
    /\ \A s, a : SettlementRow(s) # AccountRow(a) /\ AttemptRow(s) # AccountRow(a)
    /\ \A s : SeedLock # SettlementRow(s) /\ SeedLock # AttemptRow(s)
    /\ \A a : SeedLock # AccountRow(a)
    /\ \A o, k, s : /\ <<"key", o, k>> # SettlementRow(s)
                    /\ <<"key", o, k>> # AttemptRow(s)
    /\ \A o, k, a : <<"key", o, k>> # AccountRow(a)
    /\ \A o, k : <<"key", o, k>> # SeedLock
    BY DEF SettlementRow, AttemptRow, AccountRow, SeedLock

LEMMA Values ==
    /\ \A o, k : Value(<<"key", o, k>>) =
           \E t \in Request : KeyEntry(t) = <<"key", o, k>> /\ status[t] # "ABSENT"
    /\ \A s : Value(SettlementRow(s)) = status[s]
    /\ \A s : Value(AttemptRow(s)) = token[s]
    /\ \A a : Value(AccountRow(a)) = balance[a]
    /\ Value(SeedLock) = books
    BY DEF Value, SettlementRow, AttemptRow, AccountRow, SeedLock

LEMMA ValuesNext ==
    /\ \A o, k : Value(<<"key", o, k>>)' =
           \E t \in Request : KeyEntry(t)' = <<"key", o, k>> /\ status'[t] # "ABSENT"
    /\ \A s : Value(SettlementRow(s))' = status'[s]
    /\ \A s : Value(AttemptRow(s))' = token'[s]
    /\ \A a : Value(AccountRow(a))' = balance'[a]
    /\ Value(SeedLock)' = books'
    BY DEF Value, SettlementRow, AttemptRow, AccountRow, SeedLock

LEMMA ExistingAccounts == TablesType => Existing \subseteq Account
    BY DEF TablesType, Existing, Account, AvailableOf, ReservedOf, Omnibus

-----------------------------------------------------------------------------
(* What a transaction wants to lock *)

LEMMA WantedByKind ==
    ASSUME NEW w
    PROVE  /\ tx[w].kind = "insert" => Wanted(w) = InsertRows(w)
           /\ tx[w].kind = "claim" => Wanted(w) = Rows(tx[w].settlement)
           /\ tx[w].kind = "reclaim" => Wanted(w) = ReclaimRows(w)
           /\ tx[w].kind = "finalize" => Wanted(w) = FinalizeRows(w)
           /\ tx[w].kind = "seed" => Wanted(w) = SeedRows(w)
           /\ tx[w].kind \notin {"insert", "claim", "reclaim", "finalize", "seed"} =>
                  Wanted(w) = {}
    BY DEF Wanted

LEMMA WantedByKindNext ==
    ASSUME NEW w
    PROVE  /\ tx'[w].kind = "insert" => Wanted(w)' = InsertRows(w)'
           /\ tx'[w].kind = "claim" => Wanted(w)' = Rows(tx[w].settlement)'
           /\ tx'[w].kind = "reclaim" => Wanted(w)' = ReclaimRows(w)'
           /\ tx'[w].kind = "finalize" => Wanted(w)' = FinalizeRows(w)'
           /\ tx'[w].kind = "seed" => Wanted(w)' = SeedRows(w)'
           /\ tx'[w].kind \notin {"insert", "claim", "reclaim", "finalize", "seed"} =>
                  Wanted(w)' = {}
    BY DEF Wanted

LEMMA WantedResources ==
    ASSUME IInv, NEW w \in Worker
    PROVE  Wanted(w) \subseteq Resource
<1>1. AccountRows({Debited(w), Credited(w)}) \subseteq Resource
    BY ExistingAccounts DEF IInv, AccountRows, AccountRow, Resource
<1>2. AccountRows(Account) \subseteq Resource
    BY ExistingAccounts DEF IInv, AccountRows, AccountRow, Resource
<1>3. ASSUME NEW s \in Request
      PROVE  KeyEntry(s) \in Resource /\ SettlementRow(s) \in Resource
             /\ AttemptRow(s) \in Resource
  <2>1. terms[s] \in SettlementCreate
      BY SchemaAssumption DEF IInv, TablesType
  <2> QED BY <2>1 DEF SettlementCreate, KeyEntry, SettlementRow, AttemptRow, Resource
<1>4. SeedLock \in Resource
    BY DEF Resource
<1>5. WorkerOK(w)
    BY DEF IInv
<1>6. CASE tx[w].kind = "insert"
    BY <1>1, <1>3, <1>5, <1>6, WantedByKind DEF InsertRows, WorkerOK, TxOK
<1>7. CASE tx[w].kind = "claim"
    BY <1>3, <1>5, <1>7, WantedByKind DEF Rows, WorkerOK, TxOK
<1>8. CASE tx[w].kind = "reclaim"
    BY <1>3, <1>5, <1>8, WantedByKind DEF ReclaimRows, Rows, WorkerOK, TxOK
<1>9. CASE tx[w].kind = "finalize"
    BY <1>1, <1>3, <1>5, <1>9, WantedByKind DEF FinalizeRows, Rows, WorkerOK, TxOK
<1>10. CASE tx[w].kind = "seed"
    BY <1>2, <1>4, <1>10, WantedByKind DEF SeedRows
<1> QED BY <1>6, <1>7, <1>8, <1>9, <1>10, WantedByKind

(* A wanted row is there, and an attempt is wanted only by who holds its
   settlement (service.py 225-241, 360-371). *)
LEMMA WantedThere ==
    ASSUME IInv, NEW w \in Worker
    PROVE  /\ \A s : SettlementRow(s) \in Wanted(w) => status[s] # "ABSENT"
           /\ \A s : AttemptRow(s) \in Wanted(w) => SettlementRow(s) \in held[w]
           /\ \A a : AccountRow(a) \in Wanted(w) => a \in Existing
<1>1. \A accounts : \A r \in AccountRows(accounts) :
          \E a \in Existing : r = AccountRow(a)
    BY DEF AccountRows
<1>2. CASE tx[w].kind = "insert"
  <2>1. \A r \in Wanted(w) :
            \/ \E o, k : r = <<"key", o, k>>
            \/ r \in AccountRows({Debited(w), Credited(w)})
      BY <1>2, WantedByKind DEF InsertRows, KeyEntry
  <2> QED BY <1>1, <2>1, RowsApart
<1>3. CASE tx[w].kind = "claim"
    BY <1>3, WantedByKind, RowsApart DEF Rows
<1>4. CASE tx[w].kind = "reclaim"
    BY <1>4, WantedByKind, RowsApart DEF ReclaimRows, Rows, Saw
<1>5. CASE tx[w].kind = "finalize"
  <2> DEFINE s == tx[w].settlement
  <2>1. \A r \in Wanted(w) :
            \/ r = SettlementRow(s) /\ status[s] # "ABSENT"
            \/ r = AttemptRow(s) /\ SettlementRow(s) \in held[w]
            \/ r \in AccountRows({Debited(w), Credited(w)})
      BY <1>5, WantedByKind DEF FinalizeRows, Rows, Saw
  <2> QED BY <1>1, <2>1, RowsApart
<1>6. CASE tx[w].kind = "seed"
    BY <1>1, <1>6, WantedByKind, RowsApart DEF SeedRows
<1> QED BY <1>2, <1>3, <1>4, <1>5, <1>6, WantedByKind

(* Rows other than accounts are wanted one at a time. *)
LEMMA MissingShape ==
    ASSUME IInv, NEW w \in Worker
    PROVE  /\ \/ \A q, r \in Missing(w) : q = r
              \/ \A r \in Missing(w) : \E a \in Existing : r = AccountRow(a)
           /\ (\E a : AccountRow(a) \in Wanted(w)) =>
                  \A r \in Missing(w) : \E a \in Existing : r = AccountRow(a)
<1>1. \A accounts : \A r \in AccountRows(accounts) :
          \E a \in Existing : r = AccountRow(a)
    BY DEF AccountRows
<1>2. CASE tx[w].kind = "insert"
  <2> DEFINE key == KeyEntry(tx[w].settlement)
  <2>1. \A a : key # AccountRow(a)
      BY RowsApart DEF KeyEntry
  <2>2. \A r \in Wanted(w) :
            \/ r = key
            \/ Saw(w, key) /\ r \in AccountRows({Debited(w), Credited(w)})
      BY <1>2, WantedByKind DEF InsertRows
  <2> HIDE DEF key
  <2> QED BY <1>1, <2>1, <2>2 DEF Missing, Saw
<1>3. CASE tx[w].kind = "claim"
    BY <1>3, WantedByKind, RowsApart DEF Rows, Missing
<1>4. CASE tx[w].kind = "reclaim"
  <2> DEFINE s == tx[w].settlement
  <2>1. \A r \in Wanted(w) :
            \/ r = SettlementRow(s)
            \/ r = AttemptRow(s) /\ SettlementRow(s) \in held[w]
      BY <1>4, WantedByKind DEF ReclaimRows, Rows, Saw
  <2> QED BY <2>1, RowsApart DEF Missing
<1>5. CASE tx[w].kind = "finalize"
  <2> DEFINE s == tx[w].settlement
  <2>1. \A r \in Wanted(w) :
            \/ r = SettlementRow(s)
            \/ r = AttemptRow(s) /\ SettlementRow(s) \in held[w]
            \/ /\ r \in AccountRows({Debited(w), Credited(w)})
               /\ SettlementRow(s) \in held[w] /\ AttemptRow(s) \in held[w]
      BY <1>5, WantedByKind DEF FinalizeRows, Rows, Saw
  <2> QED BY <1>1, <2>1, RowsApart DEF Missing
<1>6. CASE tx[w].kind = "seed"
  <2>1. \A r \in Wanted(w) :
            \/ r = SeedLock
            \/ SeedLock \in held[w] /\ r \in AccountRows(Account)
      BY <1>6, WantedByKind DEF SeedRows, Saw
  <2> QED BY <1>1, <2>1, RowsApart DEF Missing
<1> QED BY <1>2, <1>3, <1>4, <1>5, <1>6, WantedByKind DEF Missing

(* The next lock is a missing one, and of several accounts the first by its id
   (ledger.py 48, 148). *)
LEMMA NextLockIsMissing ==
    ASSUME IInv, NEW w \in Worker, Missing(w) # {}
    PROVE  /\ NextLock(w) \in Missing(w)
           /\ \A q \in Missing(w) \ {NextLock(w)} :
                  accountId[NextLock(w)[2]] < accountId[q[2]]
<1> DEFINE Least(r) == \A q \in Missing(w) \ {r} : accountId[r[2]] < accountId[q[2]]
<1>1. \E r \in Missing(w) : Least(r)
  <2>1. CASE \A q, r \in Missing(w) : q = r
      BY <2>1
  <2>2. CASE \A r \in Missing(w) : \E a \in Existing : r = AccountRow(a)
    <3> DEFINE Ids == {accountId[r[2]] : r \in Missing(w)}
    <3>1. \A r \in Missing(w) : r[2] \in Account /\ r = AccountRow(r[2])
        BY <2>2, ExistingAccounts DEF IInv, AccountRow
    <3>2. Ids \in SUBSET Nat /\ Ids # {}
        BY <3>1 DEF IInv, LocksType
    <3>3. PICK n \in Ids : \A m \in Ids : n <= m
        BY <3>2, LeastNatural
    <3>4. PICK r \in Missing(w) : accountId[r[2]] = n
        BY <3>3
    <3>5. ASSUME NEW q \in Missing(w) \ {r} PROVE accountId[r[2]] < accountId[q[2]]
      <4>1. r[2] # q[2] /\ r[2] \in Account /\ q[2] \in Account
          BY <3>1
      <4>2. accountId[r[2]] # accountId[q[2]] /\ accountId[r[2]] <= accountId[q[2]]
          BY <3>3, <3>4, <4>1 DEF IInv, LocksType
      <4>3. accountId[r[2]] \in Nat /\ accountId[q[2]] \in Nat
          BY <4>1 DEF IInv, LocksType
      <4> QED BY <4>2, <4>3
    <3> QED BY <3>5
  <2> QED BY <2>1, <2>2, MissingShape
<1>2. NextLock(w) = CHOOSE r \in Missing(w) : Least(r)
    BY DEF NextLock
<1> HIDE DEF Least
<1>3. NextLock(w) \in Missing(w) /\ Least(NextLock(w))
    BY <1>1, <1>2
<1> QED BY <1>3 DEF Least
-----------------------------------------------------------------------------
(* What a step of one worker leaves alone *)

\* The tables move forward: rows stay, a claimed settlement stays claimed, and
\* the books are opened once.
Forward ==
    /\ UNCHANGED <<terms, accountId, job>>
    /\ \A s \in Request :
           /\ status[s] # "ABSENT" => status'[s] # "ABSENT"
           /\ status[s] \in ClaimedStatus => status'[s] \in ClaimedStatus
    /\ books = NoBooks \/ books' = books

\* What the others have locked keeps its value.
Frame(w) == \A v \in Worker \ {w} : \A r \in held[v] : Value(r)' = Value(r)

OthersIdle(w) ==
    \A v \in Worker \ {w} :
        held'[v] = held[v] /\ seen'[v] = seen[v] /\ tx'[v] = tx[v]

LEMMA ExistingStays == ASSUME Forward PROVE Existing \subseteq Existing'
    BY DEF Forward, Existing

(* A transaction goes on wanting what it wanted, and of the accounts no others
   once it holds one. *)
LEMMA WantedStays ==
    ASSUME IInv, Forward, NEW v \in Worker,
           held'[v] = held[v], seen'[v] = seen[v], tx'[v] = tx[v]
    PROVE  /\ Wanted(v) \subseteq Wanted(v)'
           /\ \A a, b : AccountRow(a) \in held[v] /\ AccountRow(b) \in Missing(v)' =>
                  AccountRow(b) \in Missing(v)
<1>1. /\ Debited(v)' = Debited(v) /\ Credited(v)' = Credited(v)
      /\ KeyEntry(tx[v].settlement)' = KeyEntry(tx[v].settlement)
      /\ \A r : Saw(v, r)' = Saw(v, r)
      /\ \A r : AccountRow(r)' = AccountRow(r)
    BY DEF Forward, Debited, Credited, KeyEntry, Saw, AccountRow
<1>2. \A accounts : AccountRows(accounts) \subseteq AccountRows(accounts)'
    BY ExistingStays DEF AccountRows
<1>3. ASSUME NEW a, AccountRow(a) \in held[v], NEW accounts
      PROVE  AccountRows(accounts)' = AccountRows(accounts)
  <2>1. a \in Account /\ a \in Existing
    <3>1. AccountRow(a) \in Resource
        BY <1>3 DEF IInv, LocksType
    <3>2. a \in Account
        BY <3>1, Resources, RowsApart
    <3> QED BY <1>3, <3>2 DEF IInv, WorkerOK, RowsThere
  <2>2. books # NoBooks
      BY <2>1 DEF Existing
  <2>3. Existing' = Existing
      BY <2>2 DEF Forward, Existing
  <2> QED BY <2>3 DEF AccountRows
<1>4. CASE tx[v].kind = "insert"
    BY <1>1, <1>2, <1>3, <1>4, WantedByKind, WantedByKindNext DEF InsertRows, Missing
<1>5. ASSUME tx[v].kind \in {"claim", "reclaim", "finalize"}
      PROVE  Rows(tx[v].settlement) \subseteq Rows(tx[v].settlement)'
  <2>1. tx[v].settlement \in Request
      BY <1>5 DEF IInv, WorkerOK, TxOK
  <2> QED BY <2>1 DEF Forward, Rows, SettlementRow
<1>6. CASE tx[v].kind = "claim"
    BY <1>5, <1>6, WantedByKind, WantedByKindNext, RowsApart DEF Rows, Missing
<1>7. CASE tx[v].kind = "reclaim"
  <2> DEFINE s == tx[v].settlement
             Tail == IF /\ Saw(v, SettlementRow(s))
                        /\ seen[v][SettlementRow(s)] \in Unresolved
                     THEN {AttemptRow(s)} ELSE {}
  <2>1. Wanted(v) = Rows(s) \cup Tail
      BY <1>7, WantedByKind DEF ReclaimRows
  <2>2. Wanted(v)' = Rows(s)' \cup Tail
      BY <1>1, <1>7, WantedByKindNext DEF ReclaimRows, SettlementRow, AttemptRow
  <2>3. \A b : AccountRow(b) \notin Rows(s)' /\ AccountRow(b) \notin Tail
      BY RowsApart DEF Rows, SettlementRow, AccountRow, AttemptRow
  <2> QED BY <1>5, <1>7, <2>1, <2>2, <2>3 DEF Missing
<1>8. CASE tx[v].kind = "finalize"
  <2>1. Settles(v)' = Settles(v)
      BY DEF Settles, SettlementRow, AttemptRow
  <2> DEFINE s == tx[v].settlement
             Tail(accounts) ==
                 (IF Saw(v, SettlementRow(s)) THEN {AttemptRow(s)} ELSE {})
                 \cup (IF /\ Saw(v, SettlementRow(s)) /\ Saw(v, AttemptRow(s))
                          /\ Settles(v) /\ tx[v].result # "NONE"
                       THEN accounts ELSE {})
             D == {Debited(v), Credited(v)}
  <2>2. Wanted(v) = Rows(s) \cup Tail(AccountRows(D))
      BY <1>8, WantedByKind DEF FinalizeRows
  <2>3. AccountRows({Debited(v), Credited(v)})' = AccountRows(D)'
      OBVIOUS
  <2>4. Wanted(v)' = Rows(s)' \cup Tail(AccountRows(D)')
      BY <1>1, <1>8, <2>1, <2>3, WantedByKindNext
         DEF FinalizeRows, SettlementRow, AttemptRow
  <2>5. AccountRows(D) \subseteq AccountRows(D)'
      BY <1>1, <1>2
  <2>6. \A b : AccountRow(b) \notin Rows(s)'
      BY RowsApart DEF Rows, SettlementRow, AccountRow
  <2>7. ASSUME NEW a, AccountRow(a) \in held[v]
        PROVE  AccountRows(D)' = AccountRows(D)
      BY <1>1, <1>3, <2>7
  <2> HIDE DEF D
  <2> QED BY <1>5, <1>8, <2>2, <2>4, <2>5, <2>6, <2>7 DEF Missing
<1>9. CASE tx[v].kind = "seed"
  <2>1. job'[v] = job[v] /\ SeedLock' = SeedLock
      BY DEF Forward, SeedLock
  <2>2. Account' = Account
      BY DEF Account
  <2>3. AccountRows(Account) \subseteq AccountRows(Account)'
      BY <1>2, <2>2
  <2>4. ASSUME NEW a, AccountRow(a) \in held[v]
        PROVE  AccountRows(Account)' = AccountRows(Account)
      BY <1>3, <2>2, <2>4
  <2> QED BY <1>1, <1>9, <2>1, <2>3, <2>4, WantedByKind, WantedByKindNext
             DEF SeedRows, Missing
<1> QED BY <1>4, <1>6, <1>7, <1>8, <1>9, WantedByKind, WantedByKindNext DEF Missing

(* A step of one worker keeps what the others rely on, if the tables move
   forward and nothing they hold changes. *)
LEMMA Others ==
    ASSUME IInv, Forward, NEW w \in Worker, Frame(w), OthersIdle(w),
           NEW v \in Worker, v # w
    PROVE  WorkerOK(v)'
<1>1. /\ held'[v] = held[v] /\ seen'[v] = seen[v] /\ tx'[v] = tx[v]
      /\ \A r \in held[v] : Value(r)' = Value(r)
    BY DEF OthersIdle, Frame
<1>2. WorkerOK(v)
    BY DEF IInv
<1>3. /\ \A s : SettlementRow(s)' = SettlementRow(s) /\ AttemptRow(s)' = AttemptRow(s)
      /\ \A a : AccountRow(a)' = AccountRow(a)
      /\ Account' = Account
    BY DEF SettlementRow, AttemptRow, AccountRow, Account
<1>4. RowsThere(v)'
    BY <1>1, <1>2, <1>3, ExistingStays DEF Forward, WorkerOK, RowsThere
<1>5. ReadsTrue(v)'
    BY <1>1, <1>2 DEF WorkerOK, ReadsTrue
<1>6. TxOK(v)'
  <2>1. \A c \in tx[v].rest : c.settlement \in Request
      BY DEF IInv, LocksType, TxType, Claim
  <2>2. \A s : SettlementRow(s) \in held[v] => status'[s] = status[s]
      BY <1>1, Values, ValuesNext
  <2>3. /\ tx[v].kind = "claim" => status'[tx[v].settlement] # "ABSENT"
        /\ tx[v].kind = "finalize" => status'[tx[v].settlement] \in ClaimedStatus
        /\ \A c \in tx[v].rest : status'[c.settlement] \in ClaimedStatus
      BY <1>2, <2>1 DEF Forward, WorkerOK, TxOK
  <2>4. tx[v].kind = "claimed" =>
            \A c \in tx[v].rest : status'[c.settlement] \in Unresolved
      BY <1>2, <2>2 DEF WorkerOK, TxOK
  <2> QED BY <1>1, <1>2, <1>3, <2>3, <2>4 DEF Forward, WorkerOK, TxOK
<1>7. LocksOK(v)'
    BY <1>1, <1>2, <1>3, WantedStays DEF Forward, WorkerOK, LocksOK
<1> QED BY <1>4, <1>5, <1>6, <1>7 DEF WorkerOK
-----------------------------------------------------------------------------
(* Locking *)

LEMMA NothingMoves ==
    ASSUME IInv, UNCHANGED <<serialVars, accountId, job>>, NEW w
    PROVE  Forward /\ Frame(w) /\ \A r : Value(r)' = Value(r)
<1>1. \A r : Value(r)' = Value(r)
    BY DEF serialVars, Value, KeyEntry
<1> QED BY <1>1 DEF serialVars, Forward, Frame

(* A lock keeps the invariant: the row is read when it is locked, nobody else
   has it, and of several accounts it is the first. *)
LEMMA LockStep ==
    ASSUME IInv, NEW w \in Worker, Lock(w)
    PROVE  IInv'
<1> DEFINE r == NextLock(w)
<1>1. /\ r \in Missing(w) /\ r \in Wanted(w) /\ r \notin held[w] /\ r \in Resource
      /\ \A q \in Missing(w) \ {r} : accountId[r[2]] < accountId[q[2]]
    BY NextLockIsMissing, WantedResources DEF Lock, Missing
<1>2. /\ UNCHANGED <<serialVars, accountId, job, tx>>
      /\ held' = [held EXCEPT ![w] = @ \cup {r}]
      /\ seen' = [seen EXCEPT ![w] = Read(w, r)]
      /\ \A v \in Worker : r \notin held[v]
    BY DEF Lock, Grantable
<1> HIDE DEF r
<1>3. Forward /\ Frame(w) /\ \A q : Value(q)' = Value(q)
    BY <1>2, NothingMoves
<1>4. OthersIdle(w)
    BY <1>2 DEF IInv, LocksType, OthersIdle
<1>5. /\ held'[w] = held[w] \cup {r}
      /\ seen'[w] = Read(w, r)
    BY <1>2 DEF IInv, LocksType
<1>6. WorkerOK(w)
    BY DEF IInv
<1>7. /\ \A q \in held[w] : seen'[w][q] = seen[w][q]
      /\ seen'[w][r] = Value(r)
      /\ held'[w] \subseteq DOMAIN seen'[w]
    BY <1>1, <1>5, <1>6 DEF Read, WorkerOK, LocksOK
<1>8. /\ \A s : SettlementRow(s)' = SettlementRow(s) /\ AttemptRow(s)' = AttemptRow(s)
      /\ \A a : AccountRow(a)' = AccountRow(a)
      /\ Account' = Account /\ Existing' = Existing
    BY <1>2 DEF SettlementRow, AttemptRow, AccountRow, Account, serialVars, Existing
<1>9. RowsThere(w)'
    BY <1>1, <1>2, <1>5, <1>6, <1>8, WantedThere DEF serialVars, WorkerOK, RowsThere
<1>10. ReadsTrue(w)'
    BY <1>3, <1>5, <1>6, <1>7 DEF WorkerOK, ReadsTrue
<1>11. Wanted(w) # {}
    BY <1>1
<1>12. tx[w].kind \in {"insert", "claim", "reclaim", "finalize", "seed"}
    BY <1>11, WantedByKind
<1>13. TxOK(w)'
    BY <1>2, <1>6, <1>12 DEF serialVars, WorkerOK, TxOK, Ended
<1>14. /\ Wanted(w) \subseteq Wanted(w)'
       /\ \A a, b : AccountRow(a) \in Wanted(w) /\ AccountRow(b) \in Wanted(w)' =>
              AccountRow(b) \in Wanted(w)
  <2> DEFINE s == tx[w].settlement
             D == {Debited(w), Credited(w)}
             key == KeyEntry(s)
             row == SettlementRow(s)
             attempt == AttemptRow(s)
  <2>1. /\ Rows(s)' = Rows(s) /\ AccountRows(D)' = AccountRows(D)
        /\ AccountRows(Account)' = AccountRows(Account) /\ key' = key
        /\ row' = row /\ attempt' = attempt
      BY <1>2, <1>8 DEF serialVars, Rows, SettlementRow, AttemptRow, AccountRows,
                        AccountRow, Debited, Credited, KeyEntry
  <2>2. \A q \in held[w] : q \in held'[w] /\ seen'[w][q] = seen[w][q]
      BY <1>5, <1>7
  <2>3. \A b : /\ AccountRow(b) \notin Rows(s) /\ AccountRow(b) # key
               /\ AccountRow(b) # row /\ AccountRow(b) # attempt
               /\ AccountRow(b) # SeedLock
      BY RowsApart DEF Rows, KeyEntry
  <2>4. CASE tx[w].kind = "insert"
    <3> DEFINE Of(saw, found) ==
                   {key} \cup (IF saw /\ ~found THEN AccountRows(D) ELSE {})
    <3>1. Wanted(w) = Of(key \in held[w], seen[w][key])
        BY <2>4, WantedByKind DEF InsertRows, Saw
    <3>2. Wanted(w)' = Of(key \in held'[w], seen'[w][key])
        BY <1>2, <2>1, <2>4, WantedByKindNext DEF InsertRows, Saw
    <3> HIDE DEF s, D, key, row, attempt
    <3> QED BY <2>2, <2>3, <3>1, <3>2
  <2>5. CASE tx[w].kind = "claim"
      BY <1>2, <2>1, <2>5, WantedByKind, WantedByKindNext
  <2>6. CASE tx[w].kind = "reclaim"
    <3> DEFINE Of(saw, found) ==
                   Rows(s) \cup (IF saw /\ found \in Unresolved THEN {attempt} ELSE {})
    <3>1. Wanted(w) = Of(row \in held[w], seen[w][row])
        BY <2>6, WantedByKind DEF ReclaimRows, Saw
    <3>2. Wanted(w)' = Of(row \in held'[w], seen'[w][row])
        BY <1>2, <2>1, <2>6, WantedByKindNext DEF ReclaimRows, Saw
    <3> HIDE DEF s, D, key, row, attempt
    <3> QED BY <2>2, <2>3, <3>1, <3>2
  <2>7. CASE tx[w].kind = "finalize"
    <3> DEFINE Of(sawRow, sawAttempt, settles) ==
                   Rows(s) \cup (IF sawRow THEN {attempt} ELSE {})
                   \cup (IF sawRow /\ sawAttempt /\ settles /\ tx[w].result # "NONE"
                         THEN AccountRows(D) ELSE {})
    <3>1. Wanted(w) = Of(row \in held[w], attempt \in held[w], Settles(w))
        BY <2>7, WantedByKind DEF FinalizeRows, Saw
    <3>2. Wanted(w)' = Of(row \in held'[w], attempt \in held'[w], Settles(w)')
        BY <1>2, <2>1, <2>7, WantedByKindNext DEF FinalizeRows, Saw
    <3>3. row \in held[w] /\ attempt \in held[w] => Settles(w)' = Settles(w)
        BY <1>2, <2>1, <2>2 DEF Settles
    <3> HIDE DEF s, D, key, row, attempt
    <3> QED BY <2>2, <2>3, <3>1, <3>2, <3>3
  <2>8. CASE tx[w].kind = "seed"
    <3> DEFINE Of(saw, found) ==
                   {SeedLock} \cup (IF saw /\ found THEN AccountRows(Account) ELSE {})
    <3>1. Wanted(w) = Of(SeedLock \in held[w], seen[w][SeedLock] = job[w])
        BY <2>8, WantedByKind DEF SeedRows, Saw
    <3>2. Wanted(w)' = Of(SeedLock \in held'[w], seen'[w][SeedLock] = job[w])
        BY <1>2, <2>1, <2>8, WantedByKindNext DEF SeedRows, Saw, SeedLock
    <3> HIDE DEF s, D, key, row, attempt
    <3> QED BY <2>2, <2>3, <3>1, <3>2
  <2> QED BY <1>12, <2>4, <2>5, <2>6, <2>7, <2>8
<1>15. LocksOK(w)'
  <2>1. held'[w] \subseteq Wanted(w)'
      BY <1>1, <1>5, <1>6, <1>12, <1>14 DEF WorkerOK, LocksOK
  <2>2. ASSUME NEW a \in Account, NEW b \in Account,
               AccountRow(a) \in held'[w], AccountRow(b) \in Missing(w)'
        PROVE  accountId[a] < accountId[b]
    <3>1. AccountRow(a) \in Wanted(w)
        BY <1>1, <1>5, <1>6, <1>12, <2>2 DEF WorkerOK, LocksOK
    <3>2. AccountRow(b) \in Missing(w) /\ AccountRow(b) # r
        BY <1>5, <1>8, <1>14, <2>2, <3>1 DEF Missing
    <3>3. CASE AccountRow(a) \in held[w]
        BY <1>6, <3>2, <3>3 DEF WorkerOK, LocksOK
    <3>4. CASE AccountRow(a) = r
        BY <1>1, <3>2, <3>4 DEF AccountRow
    <3> QED BY <1>5, <2>2, <3>3, <3>4
  <2> QED BY <1>2, <1>7, <1>8, <2>1, <2>2 DEF LocksOK
<1>16. WorkerOK(w)'
    BY <1>9, <1>10, <1>13, <1>15 DEF WorkerOK
<1>17. \A v \in Worker : WorkerOK(v)'
    BY <1>3, <1>4, <1>16, Others
<1>18. Exclusive'
    BY <1>2, <1>4, <1>5 DEF IInv, Exclusive, OthersIdle
<1>19. LocksType'
    BY <1>1, <1>2, <1>8 DEF IInv, LocksType, Resource, SeedLock
<1>20. TablesType'
    BY <1>2 DEF IInv, TablesType, serialVars, Account
<1> QED BY <1>17, <1>18, <1>19, <1>20 DEF IInv
-----------------------------------------------------------------------------
(* Ending a transaction *)

\* What the next transaction of a worker starts from, once its tables are
\* committed.
NextOK(next) ==
    /\ next \in TxType
    /\ next.kind \in {"claim", "finalize"} \cup Ended
    /\ next.kind \in {"claim", "finalize"} => next.settlement \in Request
    /\ next.kind = "claim" => status'[next.settlement] # "ABSENT"
    /\ next.kind = "finalize" => status'[next.settlement] \in ClaimedStatus
    /\ \A c \in next.rest : status'[c.settlement] \in ClaimedStatus

LEMMA EndsStep ==
    ASSUME IInv, NEW w \in Worker, NEW next, Ends(w, next), NextOK(next),
           Forward, Frame(w), TablesType'
    PROVE  IInv'
<1>1. /\ held' = [held EXCEPT ![w] = {}]
      /\ seen' = [seen EXCEPT ![w] = NothingSeen]
      /\ tx' = [tx EXCEPT ![w] = next]
      /\ UNCHANGED <<accountId, job>>
    BY DEF Ends, Freed
<1>2. OthersIdle(w)
    BY <1>1 DEF IInv, LocksType, OthersIdle
<1>3. held'[w] = {} /\ tx'[w] = next
    BY <1>1 DEF IInv, LocksType
<1>4. WorkerOK(w)'
  <2>1. RowsThere(w)' /\ ReadsTrue(w)' /\ LocksOK(w)'
      BY <1>3 DEF RowsThere, ReadsTrue, LocksOK
  <2>2. TxOK(w)'
      BY <1>3 DEF NextOK, TxOK, Ended
  <2> QED BY <2>1, <2>2 DEF WorkerOK
<1>5. \A v \in Worker : WorkerOK(v)'
    BY <1>2, <1>4, Others
<1>6. Exclusive'
    BY <1>2, <1>3 DEF IInv, Exclusive, OthersIdle
<1>7. LocksType'
  <2>1. Account' = Account /\ Resource' = Resource
      BY DEF Account, Resource, SeedLock
  <2> QED BY <1>1, <2>1 DEF IInv, LocksType, NextOK
<1> QED BY <1>5, <1>6, <1>7 DEF IInv

LEMMA EndIsOK ==
    ASSUME NEW kind \in Ended
    PROVE  NextOK(End(kind))
    BY DEF NextOK, End, Tx, TxType, Ended, Running

LEMMA ClaimIsOK ==
    ASSUME NEW s \in Request, status'[s] # "ABSENT"
    PROVE  NextOK(Start("claim", s))
    BY DEF NextOK, Start, Tx, TxType, Ended, Running

LEMMA FinalizationIsOK ==
    ASSUME NEW c \in Claim, NEW rest \in SUBSET Claim,
           status'[c.settlement] \in ClaimedStatus,
           \A d \in rest : status'[d.settlement] \in ClaimedStatus,
           NEW next \in Finalization(c, rest)
    PROVE  NextOK(next)
<1>1. PICK result \in {"PAID", "UNPAID", "NONE"} :
          next = Tx("finalize", c.settlement, c.token, result, rest)
    BY DEF Finalization
<1>2. c.settlement \in Request /\ c.token \in Nat
    BY DEF Claim
<1> QED BY <1>1, <1>2 DEF NextOK, Tx, TxType, Ended, Running

LEMMA ProceedIsOK ==
    ASSUME NEW w, NEW rest \in SUBSET Claim, Proceed(w, rest),
           \A d \in rest : status'[d.settlement] \in ClaimedStatus
    PROVE  \E next : NextOK(next) /\ Ends(w, next)
    BY EndIsOK, FinalizationIsOK DEF Proceed, Ended

(* Locking a batch: it takes rows that nobody holds (service.py 271-292). *)
LEMMA LockDueBatchStep ==
    ASSUME IInv, NEW w \in Worker, LockDueBatch(w)
    PROVE  IInv'
<1>1. PICK due \in SUBSET {s \in Request : status[s] \in Unresolved /\ Unlocked(s)} :
          LET rows == {SettlementRow(s) : s \in due} \cup {AttemptRow(s) : s \in due}
          IN  /\ held' = [held EXCEPT ![w] = rows]
              /\ seen' = [seen EXCEPT ![w] = [r \in rows |-> Value(r)]]
              /\ tx' = [tx EXCEPT ![w] = [Start("claimed", "NULL") EXCEPT !.rest =
                           {[settlement |-> s, token |-> token[s] + 1] : s \in due}]]
    BY DEF LockDueBatch
<1> DEFINE rows == {SettlementRow(s) : s \in due} \cup {AttemptRow(s) : s \in due}
           rest == {[settlement |-> s, token |-> token[s] + 1] : s \in due}
<1>2. /\ held'[w] = rows
      /\ seen'[w] = [r \in rows |-> Value(r)]
      /\ tx'[w] = Tx("claimed", "NULL", 0, "NONE", rest)
    BY <1>1 DEF IInv, LocksType, Start, Tx
<1>3. /\ OthersIdle(w)
      /\ UNCHANGED <<serialVars, accountId, job>>
    BY <1>1 DEF IInv, LocksType, OthersIdle, LockDueBatch
<1>4. Forward /\ Frame(w) /\ \A q : Value(q)' = Value(q)
    BY <1>3, NothingMoves
<1>5. rest \in SUBSET Claim /\ rows \in SUBSET Resource
    BY DEF IInv, TablesType, Claim, Resource, SettlementRow, AttemptRow
<1>6. /\ \A s : SettlementRow(s)' = SettlementRow(s) /\ AttemptRow(s)' = AttemptRow(s)
      /\ \A a : AccountRow(a)' = AccountRow(a)
      /\ Account' = Account /\ Resource' = Resource
    BY DEF SettlementRow, AttemptRow, AccountRow, Account, Resource, SeedLock
<1>7. /\ \A s : SettlementRow(s) \in rows <=> s \in due
      /\ \A s : AttemptRow(s) \in rows <=> s \in due
      /\ \A a : AccountRow(a) \notin rows
    BY RowsApart
<1>8. \A s \in due : s \in Request /\ status[s] \in Unresolved /\ Unlocked(s)
    OBVIOUS
<1>9. \A v \in Worker : held[v] \cap rows = {}
    BY <1>8 DEF Unlocked, Grantable
<1>10. \A c \in rest : c.settlement \in due
    OBVIOUS
<1>11. /\ rest \subseteq Claim
       /\ tx'[w] = Tx("claimed", "NULL", 0, "NONE", rest)
    BY <1>2, <1>5
<1> HIDE DEF rows, rest
<1>12. TxOK(w)'
    BY <1>2, <1>3, <1>6, <1>7, <1>8, <1>10
       DEF serialVars, TxOK, Tx, Ended, ClaimedStatus, Unresolved
<1>13. RowsThere(w)'
    BY <1>2, <1>3, <1>6, <1>7, <1>8 DEF serialVars, RowsThere, Unresolved
<1>14. ReadsTrue(w)'
    BY <1>2, <1>4 DEF ReadsTrue
<1>15. LocksOK(w)'
    BY <1>2, <1>6, <1>7 DEF LocksOK, Tx
<1>16. \A v \in Worker : WorkerOK(v)'
    BY <1>3, <1>4, <1>12, <1>13, <1>14, <1>15, Others DEF WorkerOK
<1>17. Exclusive'
    BY <1>2, <1>3, <1>9 DEF IInv, Exclusive, OthersIdle
<1>18. LocksType'
  <2>1. tx'[w] \in TxType
      BY <1>11 DEF Tx, TxType, Running
  <2> QED BY <1>1, <1>2, <1>3, <1>5, <1>6, <2>1 DEF IInv, LocksType, OthersIdle, rows
<1>19. TablesType'
    BY <1>3, <1>6 DEF IInv, TablesType, serialVars
<1> QED BY <1>16, <1>17, <1>18, <1>19 DEF IInv
-----------------------------------------------------------------------------
(* Writing *)

\* A change of the tables that keeps the invariant of all but the writer.
Moves(w) == Forward /\ Frame(w) /\ TablesType'

LEMMA SomeAccounts ==
    ASSUME IInv, NEW w \in Worker, NEW a, AccountRow(a) \in held[w]
    PROVE  a \in Account /\ a \in Existing
<1>1. AccountRow(a) \in Resource
    BY DEF IInv, LocksType
<1>2. a \in Account
    BY <1>1, Resources, RowsApart
<1> QED BY <1>2 DEF IInv, WorkerOK, RowsThere

LEMMA Bodies ==
    ASSUME IInv, NEW s \in Request
    PROVE  terms[s].owner \in Owner /\ terms[s].key \in Key /\ terms[s].amount \in Nat
<1>1. terms[s] \in SettlementCreate
    BY SchemaAssumption DEF IInv, TablesType
<1> QED BY <1>1, SchemaAssumption DEF SettlementCreate

(* The two postings of a journal, as one change of the balances
   (ledger.py 24-32, 97-98). *)
LEMMA PostedBalances ==
    ASSUME balance \in [Account -> Int], NEW d \in Account, NEW c \in Account,
           d # c, NEW amount \in Nat
    PROVE  /\ Posted(d, c, amount) \in [Account -> Int]
           /\ \A a \in Account \ {d, c} : Posted(d, c, amount)[a] = balance[a]
           /\ Posted(d, c, amount)[d] = balance[d] + Signed(d, "DEBIT", amount)
           /\ Posted(d, c, amount)[c] = balance[c] + Signed(c, "CREDIT", amount)
<1>1. \A a, side : Signed(a, side, amount) \in Int
    BY DEF Signed
<1> DEFINE debited == balance[d] + Signed(d, "DEBIT", amount)
           credited == balance[c] + Signed(c, "CREDIT", amount)
           once == [balance EXCEPT ![d] = debited]
<1>2. Posted(d, c, amount) = [once EXCEPT ![c] = once[c] + Signed(c, "CREDIT", amount)]
    BY DEF Posted, ApplyPosting
<1>3. once[c] = balance[c] /\ debited \in Int /\ credited \in Int
    BY <1>1
<1>4. Posted(d, c, amount) = [balance EXCEPT ![d] = debited, ![c] = credited]
    BY <1>2, <1>3
<1> HIDE DEF debited, credited
<1> QED BY <1>3, <1>4 DEF debited, credited

(* What a transaction books from the balances it has read is what _post books
   in one step (ledger.py 58-100). *)
LEMMA BookingIsPosting ==
    ASSUME IInv, NEW w \in Worker, tx[w].settlement \in Request,
           NEW event, CanBook(w, event)
    PROVE  LET s == tx[w].settlement
           IN  /\ Postable(s, event, Debited(w), Credited(w), terms[s].amount)
               /\ Book(w, event) =>
                      Post(s, event, Debited(w), Credited(w), terms[s].amount)
               /\ {Debited(w), Credited(w)} \subseteq Existing
               /\ Debited(w) \in Account /\ Credited(w) \in Account
               /\ Debited(w) # Credited(w)
<1> DEFINE s == tx[w].settlement
           d == Debited(w)
           c == Credited(w)
<1>1. AccountRow(d) \in held[w] /\ AccountRow(c) \in held[w]
    BY DEF CanBook, Saw
<1>2. /\ d \in Account /\ c \in Account /\ d \in Existing /\ c \in Existing
    BY <1>1, SomeAccounts
<1>3. d # c
    BY AccountsApart DEF Debited, Credited
<1>4. seen[w][AccountRow(d)] = balance[d] /\ seen[w][AccountRow(c)] = balance[c]
    BY <1>1, Values DEF IInv, WorkerOK, ReadsTrue
<1>5. terms[s].amount \in Nat /\ balance \in [Account -> Int]
    BY Bodies DEF IInv, TablesType
<1>6. /\ NewBalance(w, d, "DEBIT") = balance[d] + Signed(d, "DEBIT", terms[s].amount)
      /\ NewBalance(w, c, "CREDIT") = balance[c] + Signed(c, "CREDIT", terms[s].amount)
    BY <1>4 DEF NewBalance
<1>7. Postable(s, event, d, c, terms[s].amount)
  <2>1. /\ balance[d] >= terms[s].amount
        /\ ~IsPosted(s, event)
        /\ NewBalance(w, d, "DEBIT") >= 0 /\ NewBalance(w, c, "CREDIT") >= 0
      BY <1>4 DEF CanBook
  <2> HIDE DEF s, d, c
  <2> QED BY <1>2, <1>3, <1>5, <1>6, <2>1, PostedBalances DEF Postable
<1>8. ASSUME Book(w, event) PROVE Post(s, event, d, c, terms[s].amount)
  <2>1. /\ balance' = [balance EXCEPT ![d] = NewBalance(w, d, "DEBIT"),
                                      ![c] = NewBalance(w, c, "CREDIT")]
        /\ journals' = journals \cup
              {[settlement |-> s, event |-> event, debit |-> d, credit |-> c,
                amount |-> terms[s].amount]}
      BY <1>8 DEF Book
  <2> HIDE DEF s, d, c
  <2>2. /\ Posted(d, c, terms[s].amount) \in [Account -> Int]
        /\ \A a \in Account \ {d, c} : Posted(d, c, terms[s].amount)[a] = balance[a]
        /\ Posted(d, c, terms[s].amount)[d] = NewBalance(w, d, "DEBIT")
        /\ Posted(d, c, terms[s].amount)[c] = NewBalance(w, c, "CREDIT")
      BY <1>2, <1>3, <1>5, <1>6, PostedBalances
  <2>3. balance' = Posted(d, c, terms[s].amount)
      BY <1>2, <1>3, <1>5, <2>1, <2>2
  <2> QED BY <2>1, <2>3 DEF Post
<1> QED BY <1>2, <1>3, <1>7, <1>8

(* What is written where nobody else holds anything moves no reading. *)
LEMMA FramedBy ==
    ASSUME IInv, NEW w \in Worker, UNCHANGED terms,
           \A o, k : <<"key", o, k>> \in held[w] \/
               (Value(<<"key", o, k>>)' = Value(<<"key", o, k>>)),
           \A s \in Request :
               /\ \/ SettlementRow(s) \in held[w] \/ status[s] = "ABSENT"
                  \/ status'[s] = status[s]
               /\ \/ AttemptRow(s) \in held[w] \/ SettlementRow(s) \in held[w]
                  \/ token'[s] = token[s],
           \A a \in Account : \/ AccountRow(a) \in held[w] \/ a \notin Existing
                              \/ balance'[a] = balance[a],
           SeedLock \in held[w] \/ books' = books
    PROVE  Frame(w)
<1> SUFFICES ASSUME NEW v \in Worker, v # w, NEW r \in held[v]
             PROVE  Value(r)' = Value(r)
    BY DEF Frame
<1>1. r \in Resource /\ \A q \in held[v] : q \notin held[w]
    BY DEF IInv, LocksType, Exclusive
<1>2. RowsThere(v)
    BY DEF IInv, WorkerOK
<1>3. CASE \E o \in Owner, k \in Key : r = <<"key", o, k>>
    BY <1>1, <1>3
<1>4. ASSUME NEW s \in Request, r = SettlementRow(s) PROVE Value(r)' = Value(r)
  <2>1. status'[s] = status[s]
      BY <1>1, <1>2, <1>4 DEF RowsThere
  <2> QED BY <1>4, <2>1, Values, ValuesNext DEF SettlementRow
<1>5. ASSUME NEW s \in Request, r = AttemptRow(s) PROVE Value(r)' = Value(r)
  <2>1. token'[s] = token[s]
      BY <1>1, <1>2, <1>5 DEF RowsThere
  <2> QED BY <1>5, <2>1, Values, ValuesNext DEF AttemptRow
<1>6. ASSUME NEW a \in Account, r = AccountRow(a) PROVE Value(r)' = Value(r)
  <2>1. balance'[a] = balance[a]
      BY <1>1, <1>2, <1>6 DEF RowsThere
  <2> QED BY <1>6, <2>1, Values, ValuesNext DEF AccountRow
<1>7. CASE r = SeedLock
  <2>1. Value(SeedLock)' = Value(SeedLock)
      BY <1>1, <1>7, Values, ValuesNext
  <2> QED BY <1>7, <2>1 DEF SeedLock
<1> QED BY <1>1, <1>3, <1>4, <1>5, <1>6, <1>7, Resources

(* A key is taken as long as no row with it comes. *)
LEMMA KeyStays ==
    ASSUME UNCHANGED terms, NEW o, NEW k,
           \A t \in Request : KeyEntry(t) = <<"key", o, k>> =>
               (status[t] # "ABSENT" <=> status'[t] # "ABSENT")
    PROVE  Value(<<"key", o, k>>)' = Value(<<"key", o, k>>)
<1> DEFINE Of(t) == KeyEntry(t) = <<"key", o, k>> /\ status[t] # "ABSENT"
           After(t) == KeyEntry(t)' = <<"key", o, k>> /\ status'[t] # "ABSENT"
<1>1. \A t \in Request : Of(t) <=> After(t)
    BY DEF KeyEntry
<1>2. Value(<<"key", o, k>>) = \E t \in Request : Of(t)
    BY Values
<1>3. Value(<<"key", o, k>>)' = \E t \in Request : After(t)
    BY ValuesNext
<1> HIDE DEF Of, After
<1> QED BY <1>1, <1>2, <1>3

LEMMA Typed ==
    ASSUME IInv, UNCHANGED terms, status' \in [Request -> RowStatus],
           token' \in [Request -> Nat], balance' \in [Account -> Int],
           books' = NoBooks \/ books' \in [owner : Holder, amount : Nat]
    PROVE  TablesType'
    BY DEF IInv, TablesType, Account

LEMMA PostingMoves ==
    ASSUME IInv, NEW s, NEW event, NEW d \in Account, NEW c \in Account, d # c,
           NEW amount \in Nat, Post(s, event, d, c, amount)
    PROVE  /\ balance' \in [Account -> Int]
           /\ \A a \in Account \ {d, c} : balance'[a] = balance[a]
    BY PostedBalances DEF IInv, TablesType, Post

(* The insert of a settlement whose key and accounts are held. *)
LEMMA InsertMoves ==
    ASSUME IInv, NEW w \in Worker, NEW s \in Request, Insert(s),
           UNCHANGED <<accountId, job>>, KeyEntry(s) \in held[w],
           AccountRow(AvailableOf(terms[s].owner)) \in held[w],
           AccountRow(ReservedOf(terms[s].owner)) \in held[w]
    PROVE  Moves(w) /\ status'[s] # "ABSENT"
<1> DEFINE d == AvailableOf(terms[s].owner)
           c == ReservedOf(terms[s].owner)
<1>1. /\ status[s] = "ABSENT"
      /\ status' = [status EXCEPT ![s] = "RESERVED"]
      /\ UNCHANGED <<terms, token, books>>
      /\ Post(s, "RESERVE", d, c, terms[s].amount)
    BY DEF Insert, Reserve
<1>2. d \in Account /\ c \in Account /\ d # c
    BY SomeAccounts, AccountsApart
<1>3. /\ balance' \in [Account -> Int]
      /\ \A a \in Account \ {d, c} : balance'[a] = balance[a]
    BY <1>1, <1>2, Bodies, PostingMoves
<1>4. /\ status \in [Request -> RowStatus] /\ token \in [Request -> Nat]
      /\ books = NoBooks \/ books \in [owner : Holder, amount : Nat]
    BY DEF IInv, TablesType
<1>5. /\ status' \in [Request -> RowStatus]
      /\ status'[s] = "RESERVED"
      /\ \A t \in Request \ {s} : status'[t] = status[t]
    BY <1>1, <1>4 DEF RowStatus, SettlementStatus
<1>6. Forward
    BY <1>1, <1>5 DEF Forward, ClaimedStatus, Unresolved, Terminal
<1>7. ASSUME NEW o, NEW k, <<"key", o, k>> \notin held[w]
      PROVE  Value(<<"key", o, k>>)' = Value(<<"key", o, k>>)
    BY <1>1, <1>5, <1>7, KeyStays
<1>8. Frame(w)
  <2> HIDE DEF d, c
  <2>1. AccountRow(d) \in held[w] /\ AccountRow(c) \in held[w]
      BY DEF d, c
  <2> QED BY <1>1, <1>3, <1>5, <1>7, <2>1, FramedBy
<1>9. TablesType'
    BY <1>1, <1>3, <1>4, <1>5, Typed
<1> QED BY <1>5, <1>6, <1>8, <1>9 DEF Moves

(* The first claim of a settlement that is held (service.py 189-215). *)
LEMMA ClaimMoves ==
    ASSUME IInv, NEW w \in Worker, NEW s \in Request, ClaimReserved(s),
           UNCHANGED <<accountId, job>>, SettlementRow(s) \in held[w]
    PROVE  Moves(w) /\ status'[s] \in ClaimedStatus
<1>1. /\ status[s] = "RESERVED"
      /\ status' = [status EXCEPT ![s] = "PAYOUT_IN_PROGRESS"]
      /\ token' = [token EXCEPT ![s] = 1]
      /\ UNCHANGED <<balance, journals, terms, books>>
    BY DEF ClaimReserved
<1>2. /\ status \in [Request -> RowStatus] /\ token \in [Request -> Nat]
      /\ balance \in [Account -> Int]
      /\ books = NoBooks \/ books \in [owner : Holder, amount : Nat]
    BY DEF IInv, TablesType
<1>3. /\ status' \in [Request -> RowStatus] /\ token' \in [Request -> Nat]
      /\ status'[s] = "PAYOUT_IN_PROGRESS"
      /\ \A t \in Request \ {s} : status'[t] = status[t] /\ token'[t] = token[t]
    BY <1>1, <1>2 DEF RowStatus, SettlementStatus
<1>4. Forward
    BY <1>1, <1>3 DEF Forward, ClaimedStatus, Unresolved, Terminal
<1>5. \A o, k : Value(<<"key", o, k>>)' = Value(<<"key", o, k>>)
    BY <1>1, <1>3, KeyStays
<1>6. Frame(w)
    BY <1>1, <1>3, <1>5, FramedBy
<1>7. TablesType'
    BY <1>1, <1>2, <1>3, Typed
<1> QED BY <1>3, <1>4, <1>6, <1>7 DEF Moves, ClaimedStatus, Unresolved

(* A new claim of settlements that are held (service.py 217-306). *)
LEMMA ReclaimMoves ==
    ASSUME IInv, NEW w \in Worker, NEW claimed \in SUBSET Request, Reclaim(claimed),
           UNCHANGED <<accountId, job>>, \A s \in claimed : SettlementRow(s) \in held[w]
    PROVE  Moves(w) /\ UNCHANGED status
<1>1. /\ token' = [s \in Request |-> IF s \in claimed THEN token[s] + 1 ELSE token[s]]
      /\ UNCHANGED <<balance, journals, terms, status, books>>
    BY DEF Reclaim
<1>2. /\ status \in [Request -> RowStatus] /\ token \in [Request -> Nat]
      /\ balance \in [Account -> Int]
      /\ books = NoBooks \/ books \in [owner : Holder, amount : Nat]
    BY DEF IInv, TablesType
<1>3. /\ token' \in [Request -> Nat]
      /\ \A t \in Request \ claimed : token'[t] = token[t]
    BY <1>1, <1>2
<1>4. Forward
    BY <1>1 DEF Forward
<1>5. \A o, k : Value(<<"key", o, k>>)' = Value(<<"key", o, k>>)
    BY <1>1, KeyStays
<1>6. Frame(w)
    BY <1>1, <1>3, <1>5, FramedBy
<1>7. TablesType'
    BY <1>1, <1>2, <1>3, Typed
<1> QED BY <1>1, <1>4, <1>6, <1>7 DEF Moves

(* A settlement that is held gets its result, and the accounts that it moves
   are held too (service.py 376-390). *)
LEMMA SettleMoves ==
    ASSUME IInv, NEW w \in Worker, NEW s \in Request, Settle(s),
           UNCHANGED <<accountId, job>>, SettlementRow(s) \in held[w],
           \A a \in Account : AccountRow(a) \in held[w] \/ balance'[a] = balance[a]
    PROVE  Moves(w) /\ status'[s] \in ClaimedStatus
<1>1. /\ status[s] \in Unresolved
      /\ \E new \in {"SUCCESS", "FAILED", "PENDING_RECONCILIATION"} :
             status' = [status EXCEPT ![s] = new]
      /\ UNCHANGED <<terms, token, books>>
    BY DEF Settle
<1>2. /\ status \in [Request -> RowStatus] /\ token \in [Request -> Nat]
      /\ balance \in [Account -> Int]
      /\ books = NoBooks \/ books \in [owner : Holder, amount : Nat]
    BY DEF IInv, TablesType
<1>3. /\ status' \in [Request -> RowStatus]
      /\ status'[s] \in ClaimedStatus
      /\ \A t \in Request \ {s} : status'[t] = status[t]
    BY <1>1, <1>2 DEF RowStatus, SettlementStatus, ClaimedStatus, Unresolved, Terminal
<1>4. balance' \in [Account -> Int]
  <2>1. CASE CanConsume(s, terms[s]) /\ Consume(s, terms[s])
      BY <2>1, AccountsApart, Bodies, PostingMoves DEF CanConsume, Consume, Postable
  <2>2. CASE CanRelease(s, terms[s]) /\ Release(s, terms[s])
      BY <2>2, AccountsApart, Bodies, PostingMoves DEF CanRelease, Release, Postable
  <2>3. CASE UNCHANGED ledgerVars
      BY <1>2, <2>3 DEF ledgerVars
  <2> QED BY <2>1, <2>2, <2>3 DEF Settle
<1>5. Forward
    BY <1>1, <1>3 DEF Forward, ClaimedStatus, Unresolved, Terminal
<1>6. status'[s] # "ABSENT" /\ status[s] # "ABSENT"
    BY <1>1, <1>3 DEF ClaimedStatus, Unresolved, Terminal
<1>7. \A o, k : Value(<<"key", o, k>>)' = Value(<<"key", o, k>>)
    BY <1>1, <1>3, <1>6, KeyStays
<1>8. Frame(w)
    BY <1>1, <1>3, <1>7, FramedBy
<1>9. TablesType'
    BY <1>1, <1>2, <1>3, <1>4, Typed
<1> QED BY <1>3, <1>5, <1>8, <1>9 DEF Moves

(* The seed opens the books: no account is there for anybody to hold, and the
   advisory lock is its own (seed.py 119-199). *)
LEMMA OpenMoves ==
    ASSUME IInv, NEW w \in Worker, NEW asked \in SeedJobs,
           OpenBooks(asked.owner, asked.amount),
           UNCHANGED <<accountId, job>>, SeedLock \in held[w]
    PROVE  Moves(w)
<1>1. /\ books = NoBooks
      /\ books' = [owner |-> asked.owner, amount |-> asked.amount]
      /\ balance' = OpenedBalance(asked.owner, asked.amount)
      /\ UNCHANGED <<terms, status, token>>
    BY DEF OpenBooks
<1>2. asked \in [owner : Holder, amount : Nat]
    BY SerialAssumption
<1>3. /\ books' \in [owner : Holder, amount : Nat]
      /\ balance' \in [Account -> Int]
    BY <1>1, <1>2 DEF OpenedBalance
<1>4. /\ status \in [Request -> RowStatus] /\ token \in [Request -> Nat]
    BY DEF IInv, TablesType
<1>5. Forward
    BY <1>1 DEF Forward
<1>6. \A o, k : Value(<<"key", o, k>>)' = Value(<<"key", o, k>>)
    BY <1>1, KeyStays
<1>7. Existing = {}
    BY <1>1 DEF Existing
<1>8. Frame(w)
    BY <1>1, <1>6, <1>7, FramedBy
<1>9. TablesType'
    BY <1>1, <1>3, <1>4, Typed
<1> QED BY <1>5, <1>8, <1>9 DEF Moves

LEMMA NoMoves ==
    ASSUME IInv, NEW w \in Worker, UNCHANGED <<serialVars, accountId, job>>
    PROVE  Moves(w)
<1>1. TablesType'
    BY DEF IInv, TablesType, serialVars, Account
<1> QED BY <1>1, NothingMoves DEF Moves

LEMMA Ending ==
    ASSUME IInv, NEW w \in Worker, NEW next, Ends(w, next), NextOK(next), Moves(w)
    PROVE  IInv'
    BY EndsStep DEF Moves

(* A transaction that has what it wants has read it, and what it read is so. *)
LEMMA ReadyReads ==
    ASSUME IInv, NEW w \in Worker, NEW kind, Ready(w, kind)
    PROVE  /\ Wanted(w) \subseteq held[w]
           /\ \A r \in held[w] : seen[w][r] = Value(r)
           /\ tx[w].kind = kind
           /\ WorkerOK(w)
           /\ kind # "claimed" => held[w] \subseteq Wanted(w)
    BY DEF IInv, WorkerOK, ReadsTrue, LocksOK, Ready, Missing

-----------------------------------------------------------------------------
(* Every transaction is a single step of the tables, and keeps the invariant *)

Serial == SerialNext \/ UNCHANGED serialVars

(* The insertion: the key that was found free is still free at the commit
   (service.py 67-105, ledger.py 58-100). *)
LEMMA InsertSettlementStep ==
    ASSUME IInv, NEW w \in Worker, InsertSettlement(w)
    PROVE  IInv' /\ Serial
<1> DEFINE s == tx[w].settlement
           key == KeyEntry(s)
           owner == terms[s].owner
<1>1. /\ Ready(w, "insert") /\ tx[w].kind = "insert"
      /\ s \in Request
      /\ Wanted(w) = InsertRows(w) /\ Wanted(w) \subseteq held[w]
      /\ \A r \in held[w] : seen[w][r] = Value(r)
    BY ReadyReads, WantedByKind DEF InsertSettlement, WorkerOK, TxOK
<1>2. key \in held[w] /\ seen[w][key] = Value(key)
    BY <1>1 DEF InsertRows
<1>3. Value(key) = \E t \in Request : KeyEntry(t) = key /\ status[t] # "ABSENT"
    BY Values DEF KeyEntry
<1>4. CASE seen[w][key]
  <2>1. Adopt(w) /\ UNCHANGED serialVars
      BY <1>4 DEF InsertSettlement
  <2>2. PICK t \in Request :
            /\ status[t] # "ABSENT"
            /\ Ends(w, IF RequestFingerprint(terms[t]) = RequestFingerprint(terms[s])
                       THEN Start("claim", t) ELSE End("error"))
      BY <2>1 DEF Adopt
  <2>3. Moves(w) /\ status'[t] # "ABSENT"
      BY <2>1, <2>2, NoMoves DEF Ends, serialVars
  <2>4. NextOK(Start("claim", t)) /\ NextOK(End("error"))
      BY <2>3, ClaimIsOK, EndIsOK DEF Ended
  <2> QED BY <2>1, <2>2, <2>3, <2>4, Ending DEF Serial
<1>5. CASE ~seen[w][key] /\ CanBook(w, "RESERVE")
  <2>1. /\ Book(w, "RESERVE")
        /\ status' = [status EXCEPT ![s] = "RESERVED"]
        /\ Ends(w, Start("claim", s))
        /\ UNCHANGED <<terms, token, books>>
      BY <1>5 DEF InsertSettlement
  <2>2. Debited(w) = AvailableOf(owner) /\ Credited(w) = ReservedOf(owner)
    <3>1. tx[w].kind = "insert"
        BY <1>1
    <3>2. Debited(w) = AvailableOf(owner)
        BY <3>1 DEF Debited
    <3>3. Credited(w) = ReservedOf(owner)
        BY <3>1 DEF Credited
    <3> QED BY <3>2, <3>3
  <2>3. AccountRow(AvailableOf(owner)) \in held[w] /\ AccountRow(ReservedOf(owner)) \in held[w]
      BY <1>5, <2>2 DEF CanBook, Saw
  <2>4. /\ CanReserve(s, terms[s]) /\ Reserve(s, terms[s])
        /\ {AvailableOf(owner), ReservedOf(owner)} \subseteq Existing
      BY <1>1, <1>5, <2>1, <2>2, BookingIsPosting DEF CanReserve, Reserve
  <2>5. \A t \in Request : KeyEntry(t) = key => status[t] = "ABSENT"
      BY <1>2, <1>3, <1>5
  <2>6. status[s] = "ABSENT" /\ ~KeyTaken(s)
      BY <1>1, <2>5 DEF KeyTaken, SameKey, KeyEntry
  <2>7. Insert(s)
      BY <2>1, <2>4, <2>6 DEF Insert
  <2>8. Moves(w) /\ status'[s] # "ABSENT"
      BY <1>1, <1>2, <2>1, <2>3, <2>7, InsertMoves DEF Ends
  <2>9. IInv'
      BY <1>1, <2>1, <2>8, ClaimIsOK, Ending
  <2> QED BY <1>1, <2>7, <2>9 DEF Serial, SerialNext
<1>6. CASE ~seen[w][key] /\ ~CanBook(w, "RESERVE")
  <2>1. Ends(w, End("error")) /\ UNCHANGED serialVars
      BY <1>6 DEF InsertSettlement
  <2> QED BY <2>1, NoMoves, EndIsOK, Ending DEF Ends, Ended, Serial
<1> QED BY <1>4, <1>5, <1>6

(* The first claim (service.py 189-215). *)
LEMMA ClaimPayoutStep ==
    ASSUME IInv, NEW w \in Worker, ClaimPayout(w)
    PROVE  IInv' /\ Serial
<1> DEFINE s == tx[w].settlement
<1>1. /\ tx[w].kind = "claim" /\ s \in Request /\ status[s] # "ABSENT"
      /\ Wanted(w) = Rows(s) /\ Wanted(w) \subseteq held[w]
      /\ \A r \in held[w] : seen[w][r] = Value(r)
    BY ReadyReads, WantedByKind DEF ClaimPayout, WorkerOK, TxOK
<1>2. SettlementRow(s) \in held[w] /\ seen[w][SettlementRow(s)] = status[s]
    BY <1>1, Values DEF Rows
<1>3. CASE seen[w][SettlementRow(s)] = "RESERVED"
  <2>1. /\ status' = [status EXCEPT ![s] = "PAYOUT_IN_PROGRESS"]
        /\ token' = [token EXCEPT ![s] = 1]
        /\ UNCHANGED <<balance, journals, terms, books>>
      BY <1>3 DEF ClaimPayout
  <2>2. PICK next \in Finalization([settlement |-> s, token |-> 1], {}) : Ends(w, next)
      BY <1>3 DEF ClaimPayout
  <2>3. ClaimReserved(s)
      BY <1>2, <1>3, <2>1 DEF ClaimReserved
  <2>4. Moves(w) /\ status'[s] \in ClaimedStatus
      BY <1>1, <1>2, <2>2, <2>3, ClaimMoves DEF Ends
  <2>5. [settlement |-> s, token |-> 1] \in Claim
      BY <1>1 DEF Claim
  <2>6. NextOK(next)
      BY <2>4, <2>5, FinalizationIsOK
  <2>7. IInv'
      BY <2>2, <2>4, <2>6, Ending
  <2> QED BY <1>1, <2>3, <2>7 DEF Serial, SerialNext
<1>4. CASE seen[w][SettlementRow(s)] # "RESERVED"
  <2>1. Ends(w, End("done")) /\ UNCHANGED serialVars
      BY <1>4 DEF ClaimPayout
  <2> QED BY <2>1, NoMoves, EndIsOK, Ending DEF Ends, Ended, Serial
<1> QED BY <1>3, <1>4

(* A claim by a reconcile call (service.py 217-265). *)
LEMMA ClaimForReconciliationStep ==
    ASSUME IInv, NEW w \in Worker, ClaimForReconciliation(w)
    PROVE  IInv' /\ Serial
<1> DEFINE s == tx[w].settlement
           row == SettlementRow(s)
           attempt == AttemptRow(s)
           renewed == seen[w][attempt] + 1
<1>1. /\ tx[w].kind = "reclaim" /\ s \in Request
      /\ Wanted(w) = ReclaimRows(w) /\ Wanted(w) \subseteq held[w]
      /\ \A r \in held[w] : seen[w][r] = Value(r)
    BY ReadyReads, WantedByKind DEF ClaimForReconciliation, WorkerOK, TxOK
<1>2. CASE /\ row \in held[w] /\ seen[w][row] \in Unresolved
           /\ token' = [token EXCEPT ![s] = renewed]
           /\ \E next \in Finalization([settlement |-> s, token |-> renewed], {}) :
                  Ends(w, next)
           /\ UNCHANGED <<balance, journals, terms, status, books>>
  <2>1. attempt \in held[w] /\ status[s] \in Unresolved
      BY <1>1, <1>2, Values DEF ReclaimRows, Saw
  <2>2. renewed = token[s] + 1 /\ token \in [Request -> Nat]
      BY <1>1, <2>1, Values DEF IInv, TablesType
  <2>3. token' = [t \in Request |-> IF t \in {s} THEN token[t] + 1 ELSE token[t]]
      BY <1>1, <1>2, <2>2
  <2>4. Reclaim({s})
      BY <1>2, <2>1, <2>3 DEF Reclaim
  <2>5. PICK next \in Finalization([settlement |-> s, token |-> renewed], {}) :
            Ends(w, next)
      BY <1>2
  <2>6. Moves(w) /\ status' = status
      BY <1>1, <1>2, <2>4, <2>5, ReclaimMoves DEF Ends
  <2>7. [settlement |-> s, token |-> renewed] \in Claim
      BY <1>1, <2>2 DEF Claim
  <2>8. NextOK(next)
      BY <2>1, <2>6, <2>7, FinalizationIsOK DEF ClaimedStatus
  <2>9. IInv'
      BY <2>5, <2>6, <2>8, Ending
  <2> QED BY <1>1, <2>4, <2>9 DEF Serial, SerialNext
<1>3. CASE /\ Ends(w, End(IF Saw(w, row) THEN "done" ELSE "error"))
           /\ UNCHANGED serialVars
    BY <1>3, NoMoves, EndIsOK, Ending DEF Ends, Ended, Serial
<1> QED BY <1>2, <1>3 DEF ClaimForReconciliation, Saw

(* The claims of a pass, on rows that it has held since it selected them
   (service.py 267-306). *)
LEMMA ClaimDueBatchStep ==
    ASSUME IInv, NEW w \in Worker, ClaimDueBatch(w)
    PROVE  IInv' /\ Serial
<1> DEFINE claimed == {c.settlement : c \in tx[w].rest}
<1>1. /\ tx[w].kind = "claimed"
      /\ token' = [s \in Request |->
                     IF s \in claimed THEN seen[w][AttemptRow(s)] + 1 ELSE token[s]]
      /\ Proceed(w, tx[w].rest)
      /\ UNCHANGED <<balance, journals, terms, status, books>>
    BY DEF ClaimDueBatch
<1>2. /\ tx[w].rest \in SUBSET Claim
      /\ token \in [Request -> Nat]
    BY DEF IInv, LocksType, TxType, TablesType
<1>3. \A c \in tx[w].rest : /\ SettlementRow(c.settlement) \in held[w]
                            /\ AttemptRow(c.settlement) \in held[w]
                            /\ status[c.settlement] \in Unresolved
    BY <1>1 DEF IInv, WorkerOK, TxOK
<1>4. \A s \in claimed : /\ s \in Request /\ status[s] \in Unresolved
                         /\ SettlementRow(s) \in held[w]
                         /\ seen[w][AttemptRow(s)] = token[s]
    BY <1>2, <1>3, Values DEF Claim, IInv, WorkerOK, ReadsTrue
<1>5. \A c \in tx[w].rest : c.settlement \in claimed
    OBVIOUS
<1> HIDE DEF claimed
<1>6. token' = [s \in Request |-> IF s \in claimed THEN token[s] + 1 ELSE token[s]]
    BY <1>1, <1>4
<1>7. UNCHANGED <<accountId, job>>
    BY <1>1 DEF Proceed, Ends
<1>8. Moves(w) /\ Serial
  <2>1. CASE claimed = {}
    <3>1. token' = token
        BY <1>2, <1>6, <2>1
    <3> QED BY <1>1, <1>7, <3>1, NoMoves DEF serialVars, Serial
  <2>2. CASE claimed # {}
    <3>1. Reclaim(claimed) /\ claimed \in SUBSET Request
        BY <1>1, <1>4, <1>6, <2>2 DEF Reclaim
    <3> QED BY <1>4, <1>7, <3>1, ReclaimMoves DEF Serial, SerialNext
  <2> QED BY <2>1, <2>2
<1>9. \A c \in tx[w].rest : status'[c.settlement] \in ClaimedStatus
    BY <1>1, <1>3 DEF ClaimedStatus
<1>10. PICK next : NextOK(next) /\ Ends(w, next)
    BY <1>1, <1>2, <1>9, ProceedIsOK
<1> QED BY <1>8, <1>10, Ending

(* What a finalization books and writes (service.py 352-400). *)
LEMMA FinalizeAttemptStep ==
    ASSUME IInv, NEW w \in Worker, FinalizeAttempt(w)
    PROVE  IInv' /\ Serial
<1> DEFINE s == tx[w].settlement
           row == SettlementRow(s)
           owner == terms[s].owner
<1>1. /\ tx[w].kind = "finalize" /\ s \in Request /\ status[s] \in ClaimedStatus
      /\ Wanted(w) = FinalizeRows(w) /\ Wanted(w) \subseteq held[w]
      /\ \A r \in held[w] : seen[w][r] = Value(r)
      /\ \A c \in tx[w].rest : status[c.settlement] \in ClaimedStatus
    BY ReadyReads, WantedByKind DEF FinalizeAttempt, WorkerOK, TxOK
<1>2. tx[w].rest \in SUBSET Claim
    BY DEF IInv, LocksType, TxType
<1>3. row \in held[w] /\ seen[w][row] = status[s]
    BY <1>1, Values DEF FinalizeRows, Rows, ClaimedStatus, Unresolved, Terminal
<1>4. Proceed(w, tx[w].rest) /\ UNCHANGED <<accountId, job>>
    BY DEF FinalizeAttempt, Proceed, Ends
<1>5. ASSUME Moves(w) PROVE IInv'
  <2>1. \A c \in tx[w].rest : status'[c.settlement] \in ClaimedStatus
      BY <1>1, <1>2, <1>5 DEF Moves, Forward, Claim
  <2>2. PICK next : NextOK(next) /\ Ends(w, next)
      BY <1>2, <1>4, <2>1, ProceedIsOK
  <2> QED BY <1>5, <2>2, Ending
<1>6. CASE UNCHANGED serialVars
    BY <1>4, <1>5, <1>6, NoMoves DEF Serial
<1>7. CASE Settles(w)
  <2>1. status[s] \in Unresolved
      BY <1>1, <1>3, <1>7 DEF Settles, ClaimedStatus
  <2>2. Debited(w) = ReservedOf(owner)
      BY <1>1 DEF Debited
  <2>3. ASSUME Settle(s),
               \A a \in Account : AccountRow(a) \in held[w] \/ balance'[a] = balance[a]
        PROVE  IInv' /\ Serial
    <3>1. Moves(w)
        BY <1>1, <1>3, <1>4, <2>3, SettleMoves
    <3> QED BY <1>1, <1>5, <2>3, <3>1 DEF Serial, SerialNext
  <2>4. ASSUME NEW event, CanBook(w, event), Book(w, event)
        PROVE  /\ Postable(s, event, Debited(w), Credited(w), terms[s].amount)
               /\ Post(s, event, Debited(w), Credited(w), terms[s].amount)
               /\ \A a \in Account : AccountRow(a) \in held[w] \/ balance'[a] = balance[a]
    <3>1. /\ Postable(s, event, Debited(w), Credited(w), terms[s].amount)
          /\ Post(s, event, Debited(w), Credited(w), terms[s].amount)
          /\ Debited(w) \in Account /\ Credited(w) \in Account
          /\ Debited(w) # Credited(w)
        BY <1>1, <2>4, BookingIsPosting
    <3>2. \A a \in Account \ {Debited(w), Credited(w)} : balance'[a] = balance[a]
      <4>1. terms[s].amount \in Nat
          BY <1>1, Bodies
      <4> HIDE DEF s, row, owner
      <4> QED BY <3>1, <4>1, PostingMoves
    <3>3. AccountRow(Debited(w)) \in held[w] /\ AccountRow(Credited(w)) \in held[w]
        BY <2>4 DEF CanBook, Saw
    <3> HIDE DEF s, row, owner
    <3> QED BY <3>1, <3>2, <3>3
  <2>5. CASE /\ tx[w].result = "PAID" /\ CanBook(w, "CONSUME") /\ Book(w, "CONSUME")
             /\ status' = [status EXCEPT ![s] = "SUCCESS"]
             /\ UNCHANGED <<terms, token, books>>
    <3>1. Credited(w) = Omnibus
        BY <1>1, <2>5 DEF Credited
    <3>2. CanConsume(s, terms[s]) /\ Consume(s, terms[s])
        BY <2>2, <2>4, <2>5, <3>1 DEF CanConsume, Consume
    <3>3. Settle(s)
        BY <2>1, <2>5, <3>2 DEF Settle
    <3> QED BY <2>3, <2>4, <2>5, <3>3
  <2>6. CASE /\ tx[w].result = "UNPAID" /\ CanBook(w, "RELEASE") /\ Book(w, "RELEASE")
             /\ status' = [status EXCEPT ![s] = "FAILED"]
             /\ UNCHANGED <<terms, token, books>>
    <3>1. Credited(w) = AvailableOf(owner)
        BY <1>1, <2>6 DEF Credited
    <3>2. CanRelease(s, terms[s]) /\ Release(s, terms[s])
        BY <2>2, <2>4, <2>6, <3>1 DEF CanRelease, Release
    <3>3. Settle(s)
        BY <2>1, <2>6, <3>2 DEF Settle
    <3> QED BY <2>3, <2>4, <2>6, <3>3
  <2>7. CASE /\ UNCHANGED ledgerVars
             /\ status' = [status EXCEPT ![s] = "PENDING_RECONCILIATION"]
             /\ UNCHANGED <<terms, token, books>>
    <3>1. Settle(s)
        BY <2>1, <2>7 DEF Settle
    <3> QED BY <2>3, <2>7, <3>1 DEF ledgerVars
  <2> QED BY <1>7, <2>5, <2>6, <2>7 DEF FinalizeAttempt
<1> QED BY <1>6, <1>7 DEF FinalizeAttempt

(* The seed (seed.py 57-199). *)
LEMMA SeedAccountsStep ==
    ASSUME IInv, NEW w \in Worker, SeedAccounts(w)
    PROVE  IInv' /\ Serial
<1>1. /\ tx[w].kind = "seed" /\ job[w] \in SeedJobs
      /\ Wanted(w) = SeedRows(w) /\ Wanted(w) \subseteq held[w]
      /\ \A r \in held[w] : seen[w][r] = Value(r)
    BY ReadyReads, WantedByKind DEF SeedAccounts, WorkerOK, TxOK
<1>2. SeedLock \in held[w] /\ seen[w][SeedLock] = books
    BY <1>1, Values DEF SeedRows
<1>3. CASE seen[w][SeedLock] = NoBooks
  <2>1. /\ books' = job[w]
        /\ balance' = OpenedBalance(job[w].owner, job[w].amount)
        /\ journals' = OpenedJournals(job[w].owner, job[w].amount)
        /\ Ends(w, End("created"))
        /\ UNCHANGED <<terms, status, token>>
      BY <1>3 DEF SeedAccounts
  <2>2. job[w] = [owner |-> job[w].owner, amount |-> job[w].amount]
      BY <1>1, SerialAssumption
  <2>3. OpenBooks(job[w].owner, job[w].amount)
      BY <1>2, <1>3, <2>1, <2>2 DEF OpenBooks
  <2>4. Moves(w)
      BY <1>1, <1>2, <2>1, <2>3, OpenMoves DEF Ends
  <2>5. IInv'
      BY <2>1, <2>4, EndIsOK, Ending DEF Ended
  <2> QED BY <1>1, <2>3, <2>5 DEF Serial, SerialNext
<1>4. CASE seen[w][SeedLock] # NoBooks
  <2>1. /\ Ends(w, End(IF seen[w][SeedLock] = job[w] /\ Audit(w)
                       THEN "validated" ELSE "inconsistent"))
        /\ UNCHANGED serialVars
      BY <1>4 DEF SeedAccounts
  <2> QED BY <2>1, NoMoves, EndIsOK, Ending DEF Ends, Ended, Serial
<1> QED BY <1>3, <1>4

(* A failed transaction leaves the tables alone (service.py 337-350). *)
LEMMA RollbackStep ==
    ASSUME IInv, NEW w \in Worker, Rollback(w)
    PROVE  IInv' /\ Serial
<1>1. Moves(w) /\ UNCHANGED serialVars
    BY NoMoves DEF Rollback, Ends
<1>2. CASE Ends(w, End("error"))
    BY <1>1, <1>2, EndIsOK, Ending DEF Ended, Serial
<1>3. CASE tx[w].kind = "finalize" /\ Ends(w, [tx[w] EXCEPT !.result = "NONE"])
  <2> DEFINE next == [tx[w] EXCEPT !.result = "NONE"]
  <2>1. tx[w] \in TxType /\ WorkerOK(w)
      BY DEF IInv, LocksType
  <2>2. /\ next \in TxType /\ next.kind = "finalize" /\ next.rest = tx[w].rest
        /\ next.settlement = tx[w].settlement
      BY <1>3, <2>1 DEF TxType
  <2>3. status' = status
      BY <1>1 DEF serialVars
  <2> HIDE DEF next
  <2>4. NextOK(next)
      BY <1>3, <2>1, <2>2, <2>3 DEF WorkerOK, TxOK, NextOK
  <2> QED BY <1>1, <1>3, <2>4, Ending DEF Serial, next
<1> QED BY <1>2, <1>3 DEF Rollback

-----------------------------------------------------------------------------
(* The invariant holds from the start and at every step *)

LEMMA InitIInv == Init => IInv
<1> SUFFICES ASSUME Init PROVE IInv
    OBVIOUS
<1>1. PICK scenario \in Scenarios, asked \in [Seed -> SeedJobs],
           reconciled \in [Manual -> Request] :
          /\ job = [w \in Seed |-> IF w \in scenario.active THEN asked[w] ELSE NoBooks]
          /\ tx = [w \in Worker |-> IF w \in scenario.active THEN First(w, reconciled)
                                    ELSE End("done")]
    BY DEF Init
<1>2. TablesType
  <2>1. /\ terms \in [Request -> Commands]
        /\ status \in [Request -> RowStatus] /\ token \in [Request -> Nat]
      BY DEF Init, SerialInit, RowStatus
  <2>2. CASE books = NoBooks /\ balance = [a \in Account |-> 0]
      BY <2>1, <2>2 DEF TablesType
  <2>3. ASSUME NEW owner \in Holder,
               books = [owner |-> owner, amount |-> Opening[owner]],
               balance = OpenedBalance(owner, Opening[owner])
        PROVE  TablesType
    <3>1. Opening[owner] \in Nat
        BY SchemaAssumption
    <3> QED BY <2>1, <2>3, <3>1 DEF TablesType, OpenedBalance
  <2> QED BY <2>2, <2>3 DEF Init, SerialInit
<1>3. \A w \in Worker : held[w] = {} /\ seen[w] = NothingSeen
    BY DEF Init
<1>4. ASSUME NEW w \in Worker
      PROVE  /\ tx[w] \in TxType
             /\ tx[w].rest = {}
             /\ tx[w].kind \in {"insert", "reclaim", "batch", "seed", "done"}
             /\ tx[w].kind = "insert" => w \in Request /\ tx[w].settlement = w
             /\ tx[w].kind = "reclaim" => tx[w].settlement \in Request
             /\ tx[w].kind = "seed" => w \in Seed /\ job[w] \in SeedJobs
  <2>1. CASE w \notin scenario.active
    <3>1. tx[w] = Tx("done", "NULL", 0, "NONE", {})
        BY <1>1, <2>1 DEF End
    <3> QED BY <3>1 DEF Tx, TxType, Ended
  <2>2. CASE w \in scenario.active /\ w \in Request
    <3>1. tx[w] = Tx("insert", w, 0, "NONE", {})
        BY <1>1, <2>2, TransactionsAssumption DEF First, Start
    <3> QED BY <2>2, <3>1 DEF Tx, TxType, Running
  <2>3. CASE w \in scenario.active /\ w \in Manual
    <3>1. tx[w] = Tx("reclaim", reconciled[w], 0, "NONE", {})
        BY <1>1, <2>3, TransactionsAssumption DEF First, Start
    <3> QED BY <2>3, <3>1 DEF Tx, TxType, Running
  <2>4. CASE w \in scenario.active /\ w \in Pass
    <3>1. tx[w] = Tx("batch", "NULL", 0, "NONE", {})
        BY <1>1, <2>4, TransactionsAssumption DEF First, Start
    <3> QED BY <3>1 DEF Tx, TxType, Running
  <2>5. CASE w \in scenario.active /\ w \in Seed
    <3>1. tx[w] = Tx("seed", "NULL", 0, "NONE", {}) /\ job[w] = asked[w]
        BY <1>1, <2>5, TransactionsAssumption DEF First, Start
    <3> QED BY <2>5, <3>1 DEF Tx, TxType, Running
  <2> QED BY <2>1, <2>2, <2>3, <2>4, <2>5 DEF Worker
<1>5. LocksType
  <2>1. accountId \in AccountIds /\ held = [w \in Worker |-> {}]
        /\ seen = [w \in Worker |-> NothingSeen]
      BY DEF Init
  <2>2. tx \in [Worker -> TxType]
      BY <1>1, <1>4
  <2> QED BY <2>1, <2>2, TransactionsAssumption DEF LocksType
<1>6. Exclusive
    BY <1>3 DEF Exclusive
<1>7. ASSUME NEW w \in Worker PROVE WorkerOK(w)
    BY <1>3, <1>4 DEF WorkerOK, RowsThere, ReadsTrue, TxOK, LocksOK
<1> QED BY <1>2, <1>5, <1>6, <1>7 DEF IInv

LEMMA StutterStep == ASSUME IInv, UNCHANGED vars PROVE IInv'
<1>1. UNCHANGED serialVars /\ UNCHANGED <<accountId, job, held, seen, tx>>
    BY DEF vars, lockVars
<1>2. TablesType'
    BY <1>1 DEF IInv, TablesType, serialVars, Account
<1>3. LocksType'
    BY <1>1 DEF IInv, LocksType, Account, Resource, SeedLock
<1>4. Exclusive'
    BY <1>1 DEF IInv, Exclusive
<1>5. ASSUME NEW v \in Worker PROVE WorkerOK(v)'
  <2>1. WorkerOK(v)
      BY DEF IInv
  <2>2. /\ \A s : SettlementRow(s)' = SettlementRow(s) /\ AttemptRow(s)' = AttemptRow(s)
        /\ \A a : AccountRow(a)' = AccountRow(a)
        /\ Account' = Account /\ Existing' = Existing
      BY <1>1 DEF SettlementRow, AttemptRow, AccountRow, Account, Existing, serialVars
  <2>3. \A r : Value(r)' = Value(r)
      BY <1>1, NothingMoves
  <2>4. Forward
      BY <1>1, NothingMoves
  <2>5. RowsThere(v)'
      BY <1>1, <2>1, <2>2 DEF WorkerOK, RowsThere, serialVars
  <2>6. ReadsTrue(v)'
      BY <1>1, <2>1, <2>3 DEF WorkerOK, ReadsTrue
  <2>7. TxOK(v)'
      BY <1>1, <2>1, <2>2 DEF WorkerOK, TxOK, serialVars
  <2>8. LocksOK(v)'
      BY <1>1, <2>1, <2>2, <2>4, WantedStays DEF WorkerOK, LocksOK
  <2> QED BY <2>5, <2>6, <2>7, <2>8 DEF WorkerOK
<1> QED BY <1>2, <1>3, <1>4, <1>5 DEF IInv

LEMMA NextStep ==
    ASSUME IInv, [Next]_vars
    PROVE  IInv' /\ (SerialNext \/ UNCHANGED serialVars)
<1>1. CASE UNCHANGED vars
    BY <1>1, StutterStep DEF vars
<1>2. CASE Stop
    BY <1>2, StutterStep DEF Stop, vars
<1>3. ASSUME NEW w \in Worker, Step(w) \/ Rollback(w)
      PROVE  IInv' /\ Serial
  <2>1. CASE Lock(w)
      BY <2>1, LockStep DEF Lock, Serial
  <2>2. CASE LockDueBatch(w)
      BY <2>2, LockDueBatchStep DEF LockDueBatch, Serial
  <2> QED BY <1>3, <2>1, <2>2, InsertSettlementStep, ClaimPayoutStep,
             ClaimForReconciliationStep, ClaimDueBatchStep, FinalizeAttemptStep,
             SeedAccountsStep, RollbackStep
          DEF Step
<1> QED BY <1>1, <1>2, <1>3 DEF Next, Serial

(* The inductive invariant: every row that is held is there, was read as it is,
   and is wanted, in order; what a worker goes by is so (service.py, seed.py). *)
THEOREM HeldInvariance == Spec => []IInv
<1>1. IInv /\ [Next]_vars => IInv'
    BY NextStep
<1> QED BY <1>1, InitIInv, PTL DEF Spec

(* ReadingsStayTrue for any number of workers: under its locks a transaction of
   service.py or seed.py reads nothing that another one changes. *)
THEOREM NoLostUpdate == Spec => []ReadingsStayTrue
<1>1. IInv => ReadingsStayTrue
    BY DEF IInv, WorkerOK, ReadsTrue, ReadingsStayTrue
<1> QED BY <1>1, HeldInvariance, PTL

(* ImplementsSerial for any number of workers: each transaction of service.py,
   ledger.py and seed.py acts on the committed tables in one step, as
   SerialDatabase and SettlementService have it. *)
THEOREM Serializable == Spec => ImplementsSerial
<1>1. Init => SerialInit
    BY DEF Init
<1>2. IInv /\ [Next]_vars => [SerialNext]_serialVars
    BY NextStep
<1> QED BY <1>1, <1>2, HeldInvariance, PTL DEF Spec, ImplementsSerial, SerialSpec

(* The state has its types; the books are one of the seeds' (seed.py 57-137). *)
THEOREM TypeCorrectness == Spec => []TypeOK
<1> DEFINE BooksOK ==
               books \in SeedJobs \cup {NoBooks} \cup
                         {[owner |-> h, amount |-> Opening[h]] : h \in Holder}
<1>1. Init => BooksOK
    BY DEF Init, SerialInit
<1>2. ASSUME IInv, BooksOK, [Next]_vars PROVE BooksOK'
  <2>1. CASE books' = books
      BY <1>2, <2>1
  <2>2. ASSUME NEW asked \in SeedJobs, OpenBooks(asked.owner, asked.amount)
        PROVE  BooksOK'
    <3>1. books' = asked
        BY <2>2, SerialAssumption DEF OpenBooks
    <3> QED BY <3>1
  <2>3. (\E asked \in SeedJobs : OpenBooks(asked.owner, asked.amount)) \/ books' = books
      BY <1>2, NextStep
         DEF SerialNext, Insert, ClaimReserved, Reclaim, Settle, serialVars
  <2> QED BY <2>1, <2>2, <2>3
<1>3. ASSUME IInv, BooksOK PROVE TypeOK
  <2>1. \A w \in Worker : /\ tx[w].kind \in Running \cup Ended
                          /\ held[w] \subseteq DOMAIN seen[w]
                          /\ tx[w].kind \in Ended => held[w] = {}
      BY <1>3 DEF IInv, LocksType, TxType, WorkerOK, TxOK, LocksOK
  <2> QED BY <1>3, <2>1 DEF IInv, TablesType, LocksType, TypeOK
<1>4. IInv /\ BooksOK /\ [Next]_vars => BooksOK'
    BY <1>2
<1>5. IInv /\ BooksOK => TypeOK
    BY <1>3
<1> HIDE DEF BooksOK
<1> QED BY <1>1, <1>4, <1>5, HeldInvariance, PTL DEF Spec

-----------------------------------------------------------------------------
(* The ledger and the seed's judgement of it *)

\* The tables hold what a seed leaves behind.
Opened ==
    \E owner \in Holder : \E amount \in Nat :
        /\ balance = OpenedBalance(owner, amount)
        /\ journals = OpenedJournals(owner, amount)

LEMMA OpenedIsOK == Opened => LedgerOK
<1> SUFFICES ASSUME NEW owner \in Holder, NEW amount \in Nat,
                    balance = OpenedBalance(owner, amount),
                    journals = OpenedJournals(owner, amount)
             PROVE  LedgerOK
    BY DEF Opened
<1> DEFINE j == [settlement |-> "NULL", event |-> "OPENING", debit |-> Omnibus,
                 credit |-> AvailableOf(owner), amount |-> amount]
<1>1. /\ j \in Journal /\ journals = {j}
      /\ j.debit = Omnibus /\ j.credit = AvailableOf(owner) /\ j.amount = amount
    BY AccountsOfHolder DEF OpenedJournals, Journal, JournalEvent
<1> HIDE DEF j
<1>2. IsFiniteSet(journals)
    BY <1>1, FS_Singleton
<1>3. balance \in [Account -> Int] /\ journals \subseteq Journal
    BY <1>1 DEF OpenedBalance
<1>4. ASSUME NEW a \in Account
      PROVE  balance[a] >= 0 /\ balance[a] = Expected(a)
  <2> DEFINE f == [k \in journals |-> Entries(a, k)]
  <2>1. Expected(a) = SumFunctionOnSet(f, journals)
      BY DEF Expected, SumFunction
  <2>2. Entries(a, j) = IF a \in {Omnibus, AvailableOf(owner)} THEN amount ELSE 0
      BY <1>1, Signs, AccountsApart DEF Entries
  <2>3. j \in journals /\ f[j] = Entries(a, j) /\ \A k \in journals \ {j} : f[k] = 0
      BY <1>1
  <2>4. f[j] \in Int
      BY <2>2, <2>3
  <2>5. SumFunctionOnSet(f, journals) = f[j]
    <3> HIDE DEF f
    <3> QED BY <1>2, <2>3, <2>4, SumOfOne
  <2> HIDE DEF f
  <2> QED BY <2>1, <2>2, <2>3, <2>5 DEF OpenedBalance
<1> QED BY <1>2, <1>3, <1>4 DEF LedgerOK, LedgerTypeOK, LedgerInvariants

LEMMA OpeningIsOK == Opened' => LedgerOK'
    BY OpenedIsOK, PTL

LEMMA EmptyIsOK ==
    ASSUME balance = [a \in Account |-> 0], journals = {}
    PROVE  LedgerOK
<1>1. IsFiniteSet(journals)
    BY FS_EmptySet
<1>2. ASSUME NEW a \in Account
      PROVE  Expected(a) = 0
  <2> DEFINE f == [k \in journals |-> Entries(a, k)]
  <2>1. Expected(a) = SumFunctionOnSet(f, {})
      BY DEF Expected, SumFunction
  <2> HIDE DEF f
  <2> QED BY <2>1, SumOfNothing
<1> QED BY <1>1, <1>2 DEF LedgerOK, LedgerTypeOK, LedgerInvariants

LEMMA SerialInitLedger == SerialInit => LedgerOK
<1> SUFFICES ASSUME SerialInit PROVE LedgerOK
    OBVIOUS
<1>1. CASE balance = [a \in Account |-> 0] /\ journals = {}
    BY <1>1, EmptyIsOK
<1>2. ASSUME NEW owner \in Holder,
             balance = OpenedBalance(owner, Opening[owner]),
             journals = OpenedJournals(owner, Opening[owner])
      PROVE  LedgerOK
  <2>1. Opening[owner] \in Nat
      BY SchemaAssumption
  <2> QED BY <1>2, <2>1, OpenedIsOK DEF Opened
<1> QED BY <1>1, <1>2 DEF SerialInit

LEMMA SerialKeepsLedger ==
    ASSUME IInv, LedgerOK, Serial
    PROVE  LedgerOK'
<1>1. ASSUME UNCHANGED ledgerVars
      PROVE  LedgerOK'
    BY <1>1 DEF LedgerOK, ledgerVars, LedgerTypeOK, LedgerInvariants, Expected
<1>2. ASSUME NEW asked \in SeedJobs, OpenBooks(asked.owner, asked.amount)
      PROVE  LedgerOK'
  <2>1. asked.owner \in Holder /\ asked.amount \in Nat
      BY SerialAssumption
  <2>2. Opened'
      BY <1>2, <2>1 DEF OpenBooks, Opened
  <2> QED BY <2>2, OpeningIsOK
<1>3. ASSUME NEW s \in Request, Insert(s)
      PROVE  LedgerOK'
  <2>1. terms[s].amount \in Nat /\ "RESERVE" \in JournalEvent
        /\ AvailableOf(terms[s].owner) # ReservedOf(terms[s].owner)
      BY Bodies, AccountsApart DEF JournalEvent
  <2> QED BY <1>3, <2>1, PostKeepsLedger DEF Insert, CanReserve, Reserve
<1>4. ASSUME NEW s \in Request, Settle(s)
      PROVE  LedgerOK'
  <2>1. /\ terms[s].amount \in Nat
        /\ "CONSUME" \in JournalEvent /\ "RELEASE" \in JournalEvent
        /\ ReservedOf(terms[s].owner) # Omnibus
        /\ ReservedOf(terms[s].owner) # AvailableOf(terms[s].owner)
      BY Bodies, AccountsApart DEF JournalEvent
  <2>2. CASE CanConsume(s, terms[s]) /\ Consume(s, terms[s])
      BY <2>1, <2>2, PostKeepsLedger DEF CanConsume, Consume
  <2>3. CASE CanRelease(s, terms[s]) /\ Release(s, terms[s])
      BY <2>1, <2>3, PostKeepsLedger DEF CanRelease, Release
  <2> QED BY <1>1, <1>4, <2>2, <2>3 DEF Settle
<1> QED BY <1>1, <1>2, <1>3, <1>4
        DEF Serial, SerialNext, ClaimReserved, Reclaim, serialVars, ledgerVars

LEMMA LedgerInvariance == Spec => []LedgerOK
<1>1. Init => LedgerOK
    BY SerialInitLedger DEF Init
<1>2. IInv /\ LedgerOK /\ [Next]_vars => LedgerOK'
    BY NextStep, SerialKeepsLedger DEF Serial
<1> QED BY <1>1, <1>2, HeldInvariance, PTL DEF Spec

(* LedgerInvariants after every commit of any transactions under way together:
   no balance is negative and each is the sum of its postings (ledger.py
   133-178), and so the seed's audit succeeds whenever it is made. *)
THEOREM LedgerCorrectness == Spec => []LedgerInvariants
<1>1. LedgerOK => LedgerInvariants
    BY DEF LedgerOK
<1> QED BY <1>1, LedgerInvariance, PTL

\* The books once judged stay as they were judged, and only one run opens them.
Verdicts == {"created", "validated", "inconsistent"}

Verdict(w) ==
    /\ tx[w].kind \in Verdicts => books # NoBooks
    /\ tx[w].kind = "inconsistent" => books # job[w]
    /\ tx[w].kind \in {"created", "validated"} => books = job[w]

OneOpening ==
    \A v, w \in Seed :
        tx[v].kind = "created" /\ tx[w].kind = "created" => v = w

VerdictsOK == OneOpening /\ \A w \in Seed : Verdict(w)

LEMMA NoBooksApart == NoBooks \notin SeedJobs
    BY SerialAssumption DEF NoBooks

LEMMA EndsKind ==
    ASSUME IInv, NEW w \in Worker, NEW next, Ends(w, next)
    PROVE  tx'[w] = next /\ (\A v \in Worker \ {w} : tx'[v] = tx[v]) /\ job' = job
    BY DEF Ends, IInv, LocksType

\* A step of w that gives no verdict.
Silent(w) ==
    /\ tx'[w].kind \notin Verdicts \/ tx'[w] = tx[w]
    /\ \A v \in Worker \ {w} : tx'[v] = tx[v]
    /\ job' = job /\ books' = books

\* The kinds of transaction that a worker goes on to, and of its other ends.
Onward == Running \cup {"done", "error"}

LEMMA Kinds ==
    /\ \A kind, s : Start(kind, s).kind = kind
    /\ \A kind : End(kind).kind = kind
    /\ \A kind, s, t, result, rest : Tx(kind, s, t, result, rest).kind = kind
    /\ \A c, rest : \A next \in Finalization(c, rest) : next.kind = "finalize"
<1>1. \A kind, s, t, result, rest : Tx(kind, s, t, result, rest).kind = kind
    BY DEF Tx
<1> QED BY <1>1 DEF Start, End, Finalization

LEMMA SilentEnd ==
    ASSUME IInv, NEW w \in Worker, NEW next, Ends(w, next),
           next.kind \in Onward, books' = books
    PROVE  Silent(w)
<1>1. tx'[w] = next /\ (\A v \in Worker \ {w} : tx'[v] = tx[v]) /\ job' = job
    BY EndsKind
<1> QED BY <1>1 DEF Silent, Onward, Running, Verdicts

LEMMA SilentProceed ==
    ASSUME IInv, NEW w \in Worker, NEW rest, Proceed(w, rest), books' = books
    PROVE  Silent(w)
<1>1. \E next : Ends(w, next) /\ next.kind \in {"done", "finalize"}
    BY Kinds DEF Proceed
<1> QED BY <1>1, SilentEnd DEF Onward, Running

\* Only the seed gives a verdict, and only when it ends.
LEMMA NoVerdict ==
    ASSUME IInv, NEW w \in Worker, Step(w) \/ Rollback(w), ~SeedAccounts(w)
    PROVE  Silent(w)
<1> USE DEF Onward, Running, serialVars
<1>1. CASE Lock(w)
    BY <1>1 DEF Lock, Silent
<1>2. CASE InsertSettlement(w)
  <2>1. books' = books /\ \E next : Ends(w, next) /\ next.kind \in {"claim", "error"}
      BY <1>2, Kinds DEF InsertSettlement, Adopt
  <2> QED BY <2>1, SilentEnd
<1>3. CASE ClaimPayout(w)
  <2>1. books' = books /\ \E next : Ends(w, next) /\ next.kind \in {"finalize", "done"}
      BY <1>3, Kinds DEF ClaimPayout
  <2> QED BY <2>1, SilentEnd
<1>4. CASE ClaimForReconciliation(w)
  <2>1. /\ books' = books
        /\ \E next : Ends(w, next) /\ next.kind \in {"finalize", "done", "error"}
      BY <1>4, Kinds DEF ClaimForReconciliation
  <2> QED BY <2>1, SilentEnd
<1>5. CASE LockDueBatch(w)
  <2>1. PICK rest : tx' = [tx EXCEPT ![w] = [Start("claimed", "NULL") EXCEPT !.rest = rest]]
      BY <1>5 DEF LockDueBatch
  <2>2. [Start("claimed", "NULL") EXCEPT !.rest = rest].kind = "claimed"
      BY DEF Start, Tx
  <2>3. tx'[w].kind = "claimed" /\ \A v \in Worker \ {w} : tx'[v] = tx[v]
      BY <2>1, <2>2 DEF IInv, LocksType
  <2>4. job' = job /\ books' = books
      BY <1>5 DEF LockDueBatch
  <2> QED BY <2>3, <2>4 DEF Verdicts, Silent
<1>6. CASE ClaimDueBatch(w)
    BY <1>6, SilentProceed DEF ClaimDueBatch
<1>7. CASE FinalizeAttempt(w)
    BY <1>7, SilentProceed DEF FinalizeAttempt
<1>8. CASE Rollback(w)
  <2>1. [tx[w] EXCEPT !.result = "NONE"].kind = tx[w].kind
      BY DEF IInv, LocksType, TxType
  <2>2. books' = books /\ \E next : Ends(w, next) /\ next.kind \in {"error", "finalize"}
      BY <1>8, <2>1, Kinds DEF Rollback
  <2> QED BY <2>2, SilentEnd
<1> QED BY <1>1, <1>2, <1>3, <1>4, <1>5, <1>6, <1>7, <1>8 DEF Step

LEMMA SeedVerdict ==
    ASSUME IInv, LedgerOK, VerdictsOK, NEW w \in Worker, SeedAccounts(w)
    PROVE  VerdictsOK'
<1>1. /\ tx[w].kind = "seed" /\ w \in Seed /\ job[w] \in SeedJobs
      /\ Wanted(w) = SeedRows(w) /\ Wanted(w) \subseteq held[w]
      /\ \A r \in held[w] : seen[w][r] = Value(r)
    BY ReadyReads, WantedByKind DEF SeedAccounts, WorkerOK, TxOK
<1>2. SeedLock \in held[w] /\ seen[w][SeedLock] = books
    BY <1>1, Values DEF SeedRows
<1>3. job[w] # NoBooks
    BY <1>1, NoBooksApart
<1>4. Seed \subseteq Worker
    BY DEF Worker
<1>5. CASE books = NoBooks
  <2>1. books' = job[w] /\ Ends(w, End("created"))
      BY <1>2, <1>5 DEF SeedAccounts
  <2>2. /\ tx'[w].kind = "created" /\ job' = job
        /\ \A v \in Worker \ {w} : tx'[v] = tx[v]
      BY <2>1, EndsKind DEF End, Tx
  <2>3. \A v \in Seed \ {w} : tx'[v].kind \notin Verdicts
      BY <1>4, <1>5, <2>2 DEF VerdictsOK, Verdict
  <2> QED BY <1>3, <2>1, <2>2, <2>3 DEF VerdictsOK, OneOpening, Verdict, Verdicts
<1>6. CASE books # NoBooks
  <2>1. /\ Ends(w, End(IF books = job[w] /\ Audit(w)
                        THEN "validated" ELSE "inconsistent"))
        /\ books' = books
      BY <1>2, <1>6 DEF SeedAccounts, serialVars
  <2>2. books = job[w] => Audit(w)
    <3> SUFFICES ASSUME books = job[w], NEW a \in Existing
                 PROVE  seen[w][AccountRow(a)] >= 0
                        /\ seen[w][AccountRow(a)] = Expected(a)
        BY DEF Audit
    <3>1. a \in Account
        BY ExistingAccounts DEF IInv
    <3>2. AccountRow(a) \in held[w]
        BY <1>1, <1>2, <3>1 DEF SeedRows, Saw, AccountRows
    <3>3. seen[w][AccountRow(a)] = balance[a]
        BY <1>1, <3>2, Values
    <3> QED BY <3>1, <3>3 DEF LedgerOK, LedgerInvariants
  <2>3. /\ tx'[w].kind = IF books = job[w] THEN "validated" ELSE "inconsistent"
        /\ job' = job
        /\ \A v \in Worker \ {w} : tx'[v] = tx[v]
      BY <2>1, <2>2, EndsKind DEF End, Tx
  <2> QED BY <1>4, <1>6, <2>1, <2>3 DEF VerdictsOK, OneOpening, Verdict, Verdicts
<1> QED BY <1>5, <1>6

LEMMA NextVerdicts ==
    ASSUME IInv, LedgerOK, VerdictsOK, [Next]_vars
    PROVE  VerdictsOK'
<1>1. CASE UNCHANGED vars \/ Stop
    BY <1>1 DEF Stop, vars, lockVars, serialVars, VerdictsOK, OneOpening, Verdict
<1>2. ASSUME NEW w \in Worker, Step(w) \/ Rollback(w), ~SeedAccounts(w)
      PROVE  VerdictsOK'
  <2>1. /\ \A v \in Seed : tx'[v].kind \notin Verdicts \/ tx'[v] = tx[v]
        /\ job' = job /\ books' = books
      BY <1>2, NoVerdict DEF Worker, Silent
  <2> QED BY <2>1 DEF VerdictsOK, OneOpening, Verdict, Verdicts
<1> QED BY <1>1, <1>2, SeedVerdict DEF Next

(* A seed calls the books its own only if they are, and inconsistent only if
   another owner or amount opened them, though transfers are under way; one run
   at most opens them (seed.py 57-137). *)
THEOREM SeedCorrectness == Spec => []SeedJudgesRightly
<1>1. Init => VerdictsOK
  <2> SUFFICES ASSUME Init PROVE VerdictsOK
      OBVIOUS
  <2>1. \A w \in Seed : tx[w].kind \notin Verdicts
    <3> SUFFICES ASSUME NEW w \in Seed PROVE tx[w].kind \notin Verdicts
        OBVIOUS
    <3>1. \E reconciled : tx[w] \in {First(w, reconciled), End("done")}
        BY DEF Init, Worker
    <3> QED BY <3>1, TransactionsAssumption DEF First, Start, End, Tx, Verdicts
  <2> QED BY <2>1 DEF VerdictsOK, OneOpening, Verdict, Verdicts
<1>2. IInv /\ LedgerOK /\ VerdictsOK /\ [Next]_vars => VerdictsOK'
    BY NextVerdicts
<1>3. VerdictsOK => SeedJudgesRightly
    BY DEF VerdictsOK, OneOpening, Verdict, Verdicts, SeedJudgesRightly
<1> QED BY <1>1, <1>2, <1>3, HeldInvariance, LedgerInvariance, PTL DEF Spec

-----------------------------------------------------------------------------
(* No deadlock *)

\* The order in which a transaction takes its locks.
Rank(r) ==
    CASE r[1] = "settlement" -> 1
      [] r[1] = "attempt" -> 2
      [] r[1] = "account" -> 3 + accountId[r[2]]
      [] OTHER -> 0

LEMMA Ranks ==
    /\ \A o, k : Rank(<<"key", o, k>>) = 0
    /\ \A s : Rank(SettlementRow(s)) = 1
    /\ \A s : Rank(AttemptRow(s)) = 2
    /\ \A a : Rank(AccountRow(a)) = 3 + accountId[a]
    /\ Rank(SeedLock) = 0
    BY DEF Rank, SettlementRow, AttemptRow, AccountRow, SeedLock

(* What a waiting transaction holds comes before what it waits for. *)
LEMMA HeldBeforeNext ==
    ASSUME IInv, NEW w \in Worker, Missing(w) # {}, NEW r \in held[w]
    PROVE  Rank(r) < Rank(NextLock(w))
<1> DEFINE n == NextLock(w)
           s == tx[w].settlement
<1>1. n \in Missing(w) /\ n \in Wanted(w) /\ n \notin held[w]
    BY NextLockIsMissing DEF Missing
<1>2. tx[w].kind \in {"insert", "claim", "reclaim", "finalize", "seed"}
    BY <1>1, WantedByKind
<1>3. r \in Wanted(w)
    BY <1>2 DEF IInv, WorkerOK, LocksOK
<1>4. \A a \in Account : accountId[a] \in Nat
    BY DEF IInv, LocksType
<1>5. \A accounts : \A q \in AccountRows(accounts) :
          \E a \in Account : q = AccountRow(a)
    BY ExistingAccounts DEF AccountRows, IInv
<1>6. ASSUME NEW a \in Account, r = AccountRow(a), NEW b \in Account, n = AccountRow(b)
      PROVE  Rank(r) < Rank(n)
  <2>1. accountId[a] < accountId[b]
      BY <1>1, <1>6 DEF IInv, WorkerOK, LocksOK
  <2>2. Rank(r) = 3 + accountId[a] /\ Rank(n) = 3 + accountId[b]
      BY <1>6, Ranks
  <2> QED BY <1>4, <2>1, <2>2
<1>7. ASSUME NEW b \in Account PROVE 2 < Rank(AccountRow(b))
  <2>1. Rank(AccountRow(b)) = 3 + accountId[b] /\ accountId[b] \in Nat
      BY <1>4, Ranks
  <2> QED BY <2>1
<1>8. CASE tx[w].kind = "insert"
  <2> DEFINE key == KeyEntry(s)
  <2>1. Rank(key) = 0
      BY Ranks DEF KeyEntry
  <2>2. \A q \in Wanted(w) : \/ q = key
                             \/ key \in held[w] /\ \E a \in Account : q = AccountRow(a)
      BY <1>5, <1>8, WantedByKind DEF InsertRows, Saw
  <2> HIDE DEF n, key
  <2>3. \E b \in Account : n = AccountRow(b)
      BY <1>1, <1>3, <2>2
  <2>4. ASSUME NEW b \in Account, n = AccountRow(b), r = key
        PROVE  Rank(r) < Rank(n)
    <3>1. 2 < Rank(n) /\ Rank(n) \in Int
        BY <1>4, <1>7, <2>4, Ranks
    <3> QED BY <2>1, <2>4, <3>1
  <2>5. r = key \/ \E a \in Account : r = AccountRow(a)
      BY <1>3, <2>2
  <2>6. \A a, b \in Account :
            r = AccountRow(a) /\ n = AccountRow(b) => Rank(r) < Rank(n)
      BY <1>6
  <2> QED BY <2>3, <2>4, <2>5, <2>6 DEF n
<1>9. CASE tx[w].kind = "claim"
    BY <1>1, <1>3, <1>9, WantedByKind DEF Rows
<1>10. CASE tx[w].kind = "reclaim"
  <2>1. \A q \in Wanted(w) : \/ q = SettlementRow(s)
                             \/ q = AttemptRow(s) /\ SettlementRow(s) \in held[w]
      BY <1>10, WantedByKind DEF ReclaimRows, Rows, Saw
  <2>2. r = SettlementRow(s) /\ n = AttemptRow(s)
      BY <1>1, <1>3, <2>1
  <2> QED BY <2>2, Ranks
<1>11. CASE tx[w].kind = "finalize"
  <2>1. \A q \in Wanted(w) :
            \/ q = SettlementRow(s)
            \/ q = AttemptRow(s) /\ SettlementRow(s) \in held[w]
            \/ /\ \E a \in Account : q = AccountRow(a)
               /\ SettlementRow(s) \in held[w] /\ AttemptRow(s) \in held[w]
      BY <1>5, <1>11, WantedByKind DEF FinalizeRows, Rows, Saw
  <2>2. \/ r = SettlementRow(s) /\ n = AttemptRow(s)
        \/ /\ r = SettlementRow(s) \/ r = AttemptRow(s)
           /\ \E b \in Account : n = AccountRow(b)
        \/ /\ \E a \in Account : r = AccountRow(a)
           /\ \E b \in Account : n = AccountRow(b)
    <3> HIDE DEF n, s
    <3> QED BY <1>1, <1>3, <2>1
  <2>3. ASSUME NEW b \in Account, n = AccountRow(b),
               r = SettlementRow(s) \/ r = AttemptRow(s)
        PROVE  Rank(r) < Rank(n)
    <3>1. 2 < Rank(n) /\ Rank(n) \in Int
        BY <1>4, <1>7, <2>3, Ranks
    <3>2. Rank(r) = 1 \/ Rank(r) = 2
        BY <2>3, Ranks
    <3> QED BY <3>1, <3>2
  <2>4. CASE r = SettlementRow(s) /\ n = AttemptRow(s)
    <3>1. Rank(r) = 1 /\ Rank(n) = 2
        BY <2>4, Ranks
    <3> QED BY <3>1
  <2> QED BY <1>6, <2>2, <2>3, <2>4
<1>12. CASE tx[w].kind = "seed"
  <2>1. \A q \in Wanted(w) :
            \/ q = SeedLock
            \/ SeedLock \in held[w] /\ \E a \in Account : q = AccountRow(a)
      BY <1>5, <1>12, WantedByKind DEF SeedRows, Saw
  <2>2. \/ r = SeedLock /\ \E b \in Account : n = AccountRow(b)
        \/ /\ \E a \in Account : r = AccountRow(a)
           /\ \E b \in Account : n = AccountRow(b)
    <3> HIDE DEF n
    <3> QED BY <1>1, <1>3, <2>1
  <2>3. ASSUME NEW b \in Account, n = AccountRow(b), r = SeedLock
        PROVE  Rank(r) < Rank(n)
    <3>1. 2 < Rank(n) /\ Rank(n) \in Int
        BY <1>4, <1>7, <2>3, Ranks
    <3>2. Rank(r) = 0
        BY <2>3, Ranks
    <3> QED BY <3>1, <3>2
  <2> QED BY <1>6, <2>2, <2>3
<1> QED BY <1>2, <1>8, <1>9, <1>10, <1>11, <1>12

(* A rank that no lock a transaction may still take exceeds. *)
LEMMA RanksBounded ==
    ASSUME IInv
    PROVE  \E B \in Nat : \A w \in Worker :
               Missing(w) # {} => Rank(NextLock(w)) \in Nat /\ Rank(NextLock(w)) <= B
<1>1. \E B \in Nat : B >= 3 /\ \A a \in Existing : 3 + accountId[a] <= B
  <2>1. CASE Existing = {}
      BY <2>1
  <2>2. CASE Existing # {}
    <3> DEFINE x == AvailableOf(books.owner)
               y == ReservedOf(books.owner)
               B == 3 + accountId[x] + accountId[y] + accountId[Omnibus]
    <3>1. Existing = {x, y, Omnibus}
        BY <2>2 DEF Existing
    <3>2. accountId[x] \in Nat /\ accountId[y] \in Nat /\ accountId[Omnibus] \in Nat
        BY <3>1, ExistingAccounts DEF IInv, LocksType
    <3>3. B \in Nat /\ B >= 3 /\ 3 + accountId[x] <= B /\ 3 + accountId[y] <= B
          /\ 3 + accountId[Omnibus] <= B
        BY <3>2
    <3> HIDE DEF x, y, B
    <3> QED BY <3>1, <3>3
  <2> QED BY <2>1, <2>2
<1>2. PICK B \in Nat : B >= 3 /\ \A a \in Existing : 3 + accountId[a] <= B
    BY <1>1
<1>3. ASSUME NEW w \in Worker, Missing(w) # {}
      PROVE  Rank(NextLock(w)) \in Nat /\ Rank(NextLock(w)) <= B
  <2>1. NextLock(w) \in Wanted(w) /\ NextLock(w) \in Resource
      BY <1>3, NextLockIsMissing, WantedResources DEF Missing
  <2>2. ASSUME NEW a \in Account, NextLock(w) = AccountRow(a)
        PROVE  Rank(NextLock(w)) \in Nat /\ Rank(NextLock(w)) <= B
    <3>1. a \in Existing
        BY <2>1, <2>2, WantedThere
    <3>2. accountId[a] \in Nat /\ Rank(NextLock(w)) = 3 + accountId[a]
        BY <2>2, Ranks DEF IInv, LocksType
    <3> QED BY <1>2, <3>1, <3>2
  <2> QED BY <1>2, <2>1, <2>2, Resources, Ranks
<1> QED BY <1>3

(* NoCircularWait for any number of workers and any account ids: of the workers
   in a circle, the one that waits for the lock of the highest rank waits for
   nobody in it (ledger.py 44-52, 143-149). *)
LEMMA CirclesOpen == IInv => NoCircularWait
<1> SUFFICES ASSUME IInv, NEW circle \in SUBSET {w \in Worker : Blocked(w)},
                    circle # {}
             PROVE  \E w \in circle : \A v \in circle : NextLock(w) \notin held[v]
    BY DEF NoCircularWait
<1>1. \A w \in circle : w \in Worker /\ Missing(w) # {}
    BY DEF Blocked
<1>2. PICK B \in Nat : \A w \in Worker :
          Missing(w) # {} => Rank(NextLock(w)) \in Nat /\ Rank(NextLock(w)) <= B
    BY RanksBounded
<1> DEFINE Gaps == {B - Rank(NextLock(w)) : w \in circle}
<1>3. Gaps \in SUBSET Nat /\ Gaps # {}
    BY <1>1, <1>2
<1>4. PICK g \in Gaps : \A h \in Gaps : g <= h
    BY <1>3, LeastNatural
<1>5. PICK w \in circle : g = B - Rank(NextLock(w))
    BY <1>4
<1>6. ASSUME NEW v \in circle, NextLock(w) \in held[v] PROVE FALSE
  <2>1. Rank(NextLock(w)) < Rank(NextLock(v))
      BY <1>1, <1>6, HeldBeforeNext
  <2>2. g <= B - Rank(NextLock(v))
      BY <1>4
  <2>3. Rank(NextLock(v)) \in Nat /\ Rank(NextLock(w)) \in Nat
      BY <1>1, <1>2
  <2> QED BY <1>5, <2>1, <2>2, <2>3
<1> QED BY <1>6

(* NoCircularWait for any number of workers and any order of the accounts: the
   lock order of service.py and ledger.py excludes deadlocks. *)
THEOREM NoDeadlock == Spec => []NoCircularWait
    BY CirclesOpen, HeldInvariance, PTL
=============================================================================
