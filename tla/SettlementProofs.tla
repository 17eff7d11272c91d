-------------------------- MODULE SettlementProofs --------------------------
(***************************************************************************)
(* Proofs, for every instance, of the safety of SettlementService.         *)
(*                                                                         *)
(* The inductive invariant has a part about the database, which only the   *)
(* transactions change, and a part about the calls, which says what a call *)
(* may rely on at each program counter.  The second survives the steps of  *)
(* other calls because the database only ever moves forward (Forward).     *)
(***************************************************************************)
EXTENDS SettlementProperties, TLAPS

-----------------------------------------------------------------------------
(* The inductive invariant *)

ClaimedStatus == Unresolved \cup Terminal

DatabaseType ==
    /\ LedgerTypeOK
    /\ ProviderTypeOK
    /\ command \in [Request -> Commands \cup {NoCommand}]
    /\ status \in [Request -> RowStatus]
    /\ attempts \in [Request -> Attempt \cup {NoAttempt}]

ProcessType ==
    /\ call \in [Call -> CallState]
    /\ batch \subseteq Worker
    /\ phase \in {"down", "starting", "recovering", "serving", "stopping"}

BoundsType == faults \in 0 .. MaxFaults /\ outages \in 0 .. MaxOutages

\* The columns of one settlement agree with each other.
RowOK(s) ==
    /\ status[s] # "ABSENT" => command[s] \in Commands
    /\ status[s] \in ClaimedStatus <=> attempts[s].token # 0
    /\ Recorded(s) => status[s] \in ClaimedStatus
    /\ operations[s].submission \in {"PAID", "UNPAID"} =>
           operations[s].authority = operations[s].submission

\* The unique constraint on owner and idempotency key.
UniqueKey ==
    \A s, t \in Request :
        /\ status[s] # "ABSENT" /\ status[t] # "ABSENT"
        /\ command[s].owner = command[t].owner
        /\ command[s].key = command[t].key
        => s = t

DatabaseOK ==
    /\ DatabaseType
    /\ \A s \in Request : RowOK(s)
    /\ UniqueKey
    /\ JournalsFollowStatus
    /\ OutcomeMatchesProvider

\* What call c may rely on where it is.
CallOK(c) ==
    LET pc == call[c].pc
        s == call[c].sid
    IN  /\ Live(c) => s \in Request /\ call[c].token <= attempts[s].token
        /\ c \in Request /\ pc = "idle" =>
               status[c] = "ABSENT" /\ command[c] = NoCommand
        /\ c \in Request /\ pc # "idle" => command[c] \in Commands
        /\ pc \in {"find", "insert", "reload"} => c \in Request /\ s = c
        /\ pc = "claim" => c \in Request /\ status[s] # "ABSENT"
        /\ pc \in {"read", "reclaim"} => c \in Manual
        /\ pc \in {"find", "insert", "reload", "claim", "read", "reclaim"} =>
               call[c].token = 0
        /\ pc \in {"lookup", "recover"} => c \notin Request
        /\ pc = "get" => status[s] # "ABSENT"
        /\ pc \in {"reclaim", "lookup", "initiate", "finalize", "recover"} =>
               status[s] \in ClaimedStatus
        /\ pc = "finalize" /\ call[c].result \in {"PAID", "UNPAID"} =>
               operations[s].authority = call[c].result

CallsOK == \A c \in Call : CallOK(c)

IInv == DatabaseOK /\ ProcessType /\ BoundsType /\ CallsOK

\* The database moves forward: rows stay, claims stay, tokens grow, commands
\* and recorded operations do not change.
Forward ==
    \A s \in Request :
        /\ status[s] # "ABSENT" => status'[s] # "ABSENT"
        /\ status[s] \in ClaimedStatus => status'[s] \in ClaimedStatus
        /\ attempts[s].token <= attempts'[s].token
        /\ Recorded(s) => operations'[s] = operations[s]
        /\ command[s] \in Commands => command'[s] = command[s]

Kept == DatabaseOK' /\ Forward

USE DEF Unresolved, Terminal, Open, ProgramCounter

-----------------------------------------------------------------------------
(* The transactions keep the database in order *)

LEMMA AttemptType ==
    ASSUME DatabaseType, NEW s \in Request
    PROVE  /\ attempts[s].token \in 0 .. MaxToken
           /\ attempts[s] \in Attempt <=> attempts[s].token # 0
           /\ attempts[s] = NoAttempt <=> attempts[s].token = 0
  BY ServiceAssumption DEF DatabaseType, Attempt, NoAttempt

LEMMA Idling ==
    ASSUME DatabaseOK, UNCHANGED database
    PROVE  Kept
  <1> USE DEF database, ledgerVars, providerVars
  <1>1. DatabaseType'
    BY DEF DatabaseOK, DatabaseType, LedgerTypeOK, ProviderTypeOK
  <1>2. \A s \in Request : RowOK(s)'
    BY DEF DatabaseOK, RowOK, Recorded
  <1>3. UniqueKey' /\ JournalsFollowStatus' /\ OutcomeMatchesProvider'
    BY DEF DatabaseOK, UniqueKey, JournalsFollowStatus, IsPosted,
           OutcomeMatchesProvider
  <1>4. Forward
    BY AttemptType DEF Forward, DatabaseOK
  <1> QED  BY <1>1, <1>2, <1>3, <1>4 DEF Kept, DatabaseOK

LEMMA CommandType ==
    ASSUME DatabaseType, NEW s \in Request
    PROVE  command[s].amount \in Nat
  <1>1. CASE command[s] \in Commands
    <2>1. command[s] \in SettlementCreate
      BY <1>1, SchemaAssumption
    <2>2. command[s].amount \in Amount
      BY <2>1 DEF SettlementCreate
    <2> QED  BY <2>2, SchemaAssumption
  <1>2. CASE command[s] = NoCommand
    BY <1>2 DEF NoCommand
  <1> QED  BY <1>1, <1>2 DEF DatabaseType

LEMMA OmnibusIsApart ==
    ASSUME NEW h
    PROVE  AvailableOf(h) # Omnibus /\ ReservedOf(h) # Omnibus
           /\ AvailableOf(h) # ReservedOf(h)
  BY DEF AvailableOf, ReservedOf, Omnibus

LEMMA PostType ==
    ASSUME LedgerTypeOK, NEW s \in Request, NEW event \in JournalEvent,
           NEW debit, NEW credit, NEW amount \in Nat,
           Postable(s, event, debit, credit, amount),
           Post(s, event, debit, credit, amount)
    PROVE  LedgerTypeOK'
  <1>1. debit \in Account /\ credit \in Account
    BY DEF Postable
  <1>2. \A a, side : Signed(a, side, amount) \in Int
    BY DEF Signed
  <1>3. ApplyPosting(balance, debit, "DEBIT", amount) \in [Account -> Int]
    BY <1>1, <1>2 DEF ApplyPosting, LedgerTypeOK
  <1>4. balance' \in [Account -> Int]
    BY <1>1, <1>2, <1>3 DEF Post, Posted, ApplyPosting
  <1>5. journals' \subseteq Journal
    BY <1>1 DEF Post, LedgerTypeOK, Journal
  <1> QED  BY <1>4, <1>5 DEF LedgerTypeOK

LEMMA PostJournal ==
    ASSUME NEW s \in Request, NEW event, NEW debit, NEW credit, NEW amount,
           Post(s, event, debit, credit, amount)
    PROVE  \A t, e : IsPosted(t, e)' <=>
               IsPosted(t, e) \/ (t = s /\ e = event)
  <1> DEFINE j == [settlement |-> s, event |-> event, debit |-> debit,
                   credit |-> credit, amount |-> amount]
  <1>1. journals' = journals \cup {j}
    BY DEF Post
  <1>2. j.settlement = s /\ j.event = event
    OBVIOUS
  <1>3. SUFFICES ASSUME NEW t, NEW e
                 PROVE  IsPosted(t, e)' <=>
                            IsPosted(t, e) \/ (t = s /\ e = event)
    OBVIOUS
  <1> HIDE DEF j
  <1> QED  BY <1>1, <1>2 DEF IsPosted

LEMMA Asking ==
    ASSUME DatabaseOK, NEW r \in Request, status[r] = "ABSENT",
           NEW sent \in Commands, command[r] \notin Commands,
           command' = [command EXCEPT ![r] = sent],
           UNCHANGED <<status, attempts, ledgerVars, providerVars>>
    PROVE  Kept
  <1> USE DEF ledgerVars, providerVars
  <1>1. DatabaseType'
    BY DEF DatabaseOK, DatabaseType, LedgerTypeOK, ProviderTypeOK
  <1>2. \A s \in Request : RowOK(s)'
    BY DEF DatabaseOK, DatabaseType, RowOK, Recorded
  <1>3. UniqueKey' /\ JournalsFollowStatus' /\ OutcomeMatchesProvider'
    BY DEF DatabaseOK, DatabaseType, UniqueKey, JournalsFollowStatus, IsPosted,
           OutcomeMatchesProvider
  <1>4. Forward
    BY AttemptType DEF Forward, DatabaseOK, DatabaseType
  <1> QED  BY <1>1, <1>2, <1>3, <1>4 DEF Kept, DatabaseOK

LEMMA Inserting ==
    ASSUME DatabaseOK, NEW r \in Request, command[r] \in Commands,
           ~KeyTaken(command[r].owner, command[r].key),
           CanReserve(r, command[r]),
           status' = [status EXCEPT ![r] = "RESERVED"],
           Reserve(r, command[r]),
           UNCHANGED <<command, attempts, providerVars>>
    PROVE  Kept
  <1> USE DEF providerVars
  <1>0. status[r] = "ABSENT"
    BY DEF KeyTaken, HasKey
  <1>1. LedgerTypeOK'
    BY PostType, CommandType DEF DatabaseOK, DatabaseType, CanReserve, Reserve,
       JournalEvent
  <1>2. DatabaseType'
    BY <1>1 DEF DatabaseOK, DatabaseType, ProviderTypeOK, RowStatus,
       SettlementStatus
  <1>3. \A s \in Request : RowOK(s)'
    BY <1>0 DEF DatabaseOK, DatabaseType, RowOK, Recorded, ClaimedStatus
  <1>4. UniqueKey'
    <2> SUFFICES ASSUME NEW s \in Request, NEW t \in Request,
                        status'[s] # "ABSENT", status'[t] # "ABSENT",
                        command[s].owner = command[t].owner,
                        command[s].key = command[t].key
                 PROVE  s = t
      BY DEF UniqueKey
    <2>1. CASE s # r /\ t # r
      BY <2>1 DEF DatabaseOK, DatabaseType, UniqueKey
    <2>2. CASE s = r \/ t = r
      BY <2>2 DEF KeyTaken, HasKey, DatabaseOK, DatabaseType
    <2> QED  BY <2>1, <2>2
  <1>5. \A t, e : IsPosted(t, e)' <=> IsPosted(t, e) \/ (t = r /\ e = "RESERVE")
    BY PostJournal DEF Reserve
  <1>6. JournalsFollowStatus'
    BY <1>0, <1>5 DEF DatabaseOK, DatabaseType, JournalsFollowStatus
  <1>7. OutcomeMatchesProvider'
    BY DEF DatabaseOK, DatabaseType, OutcomeMatchesProvider
  <1>8. Forward
    BY <1>0, AttemptType DEF Forward, DatabaseOK, DatabaseType, ClaimedStatus
  <1> QED  BY <1>2, <1>3, <1>4, <1>6, <1>7, <1>8 DEF Kept, DatabaseOK

LEMMA Claiming ==
    ASSUME DatabaseOK, NEW s \in Request, status[s] = "RESERVED",
           status' = [status EXCEPT ![s] = "PAYOUT_IN_PROGRESS"],
           attempts' = [attempts EXCEPT
               ![s] = [state |-> "SUBMITTING", token |-> 1,
                       lease |-> "RUNNING"]],
           UNCHANGED <<command, ledgerVars, providerVars>>
    PROVE  Kept /\ attempts[s].token = 0 /\ attempts'[s].token = 1
  <1> USE DEF ledgerVars, providerVars
  <1>0. attempts[s].token = 0 /\ attempts'[s].token = 1
    BY DEF DatabaseOK, DatabaseType, RowOK, ClaimedStatus
  <1>1. DatabaseType'
    <2>1. [state |-> "SUBMITTING", token |-> 1, lease |-> "RUNNING"] \in Attempt
      BY ServiceAssumption DEF Attempt
    <2> QED  BY <2>1 DEF DatabaseOK, DatabaseType, LedgerTypeOK, ProviderTypeOK,
                RowStatus, SettlementStatus
  <1>2. \A t \in Request : RowOK(t)'
    BY <1>0 DEF DatabaseOK, DatabaseType, RowOK, Recorded, ClaimedStatus
  <1>3. UniqueKey' /\ JournalsFollowStatus' /\ OutcomeMatchesProvider'
    BY DEF DatabaseOK, DatabaseType, UniqueKey, JournalsFollowStatus, IsPosted,
           OutcomeMatchesProvider
  <1>4. Forward
    BY <1>0, AttemptType DEF Forward, DatabaseOK, DatabaseType, ClaimedStatus
  <1> QED  BY <1>0, <1>1, <1>2, <1>3, <1>4 DEF Kept, DatabaseOK

\* Every change of the attempts that keeps a row a row and loses no token.
LEMMA Attempting ==
    ASSUME DatabaseOK,
           attempts' \in [Request -> Attempt \cup {NoAttempt}],
           \A s \in Request : /\ attempts[s].token <= attempts'[s].token
                              /\ attempts'[s].token # 0 =>
                                    status[s] \in ClaimedStatus,
           UNCHANGED <<command, status, ledgerVars, providerVars>>
    PROVE  Kept
  <1> USE DEF ledgerVars, providerVars
  <1>0. \A t \in Request : /\ attempts[t].token \in Nat
                           /\ attempts'[t].token \in Nat
                           /\ attempts[t].token <= attempts'[t].token
    BY DEF DatabaseOK, DatabaseType, Attempt, NoAttempt
  <1>1. DatabaseType'
    BY DEF DatabaseOK, DatabaseType, LedgerTypeOK, ProviderTypeOK
  <1>2. \A t \in Request : RowOK(t)'
    <2> TAKE t \in Request
    <2>1. attempts[t].token # 0 => attempts'[t].token # 0
      BY <1>0
    <2>2. RowOK(t) /\ (attempts'[t].token # 0 => status[t] \in ClaimedStatus)
      BY DEF DatabaseOK
    <2> QED  BY <2>1, <2>2 DEF RowOK, Recorded
  <1>3. UniqueKey' /\ JournalsFollowStatus' /\ OutcomeMatchesProvider'
    BY DEF DatabaseOK, UniqueKey, JournalsFollowStatus, IsPosted,
           OutcomeMatchesProvider
  <1>4. Forward
    BY <1>0 DEF Forward
  <1> QED  BY <1>1, <1>2, <1>3, <1>4 DEF Kept, DatabaseOK

LEMMA NextClaimType ==
    ASSUME DatabaseOK, NEW s \in Request, attempts[s].token < MaxToken
    PROVE  /\ NextClaim(s) \in Attempt
           /\ NextClaim(s).token = attempts[s].token + 1
           /\ NextClaim(s).token \in 1 .. MaxToken
           /\ attempts[s].token \in Nat
  BY AttemptType, ServiceAssumption DEF NextClaim, Attempt, DatabaseOK

LEMMA Reclaiming ==
    ASSUME DatabaseOK, NEW s \in Request, status[s] \in ClaimedStatus,
           attempts[s].token < MaxToken,
           attempts' = [attempts EXCEPT ![s] = NextClaim(s)],
           UNCHANGED <<command, status, ledgerVars, providerVars>>
    PROVE  Kept
  <1>1. attempts' \in [Request -> Attempt \cup {NoAttempt}]
    BY NextClaimType DEF DatabaseOK, DatabaseType
  <1>2. ASSUME NEW t \in Request
        PROVE  /\ attempts[t].token <= attempts'[t].token
               /\ attempts'[t].token # 0 => status[t] \in ClaimedStatus
    BY NextClaimType, AttemptType DEF DatabaseOK, DatabaseType, RowOK
  <1> QED  BY <1>1, <1>2, Attempting

LEMMA ClaimingBatch ==
    ASSUME DatabaseOK, NEW B \in SUBSET Request, B \subseteq Due,
           attempts' = [s \in Request |-> IF s \in B THEN NextClaim(s)
                                         ELSE attempts[s]],
           UNCHANGED <<command, status, ledgerVars, providerVars>>
    PROVE  Kept
  <1>0. \A s \in B : status[s] \in ClaimedStatus /\ attempts[s].token < MaxToken
    BY DEF Due, ClaimedStatus
  <1>1. attempts' \in [Request -> Attempt \cup {NoAttempt}]
    BY <1>0, NextClaimType DEF DatabaseOK, DatabaseType
  <1>2. ASSUME NEW t \in Request
        PROVE  /\ attempts[t].token <= attempts'[t].token
               /\ attempts'[t].token # 0 => status[t] \in ClaimedStatus
    BY <1>0, NextClaimType, AttemptType DEF DatabaseOK, DatabaseType, RowOK
  <1> QED  BY <1>1, <1>2, Attempting

LEMMA Expiring ==
    ASSUME DatabaseOK, NEW s \in Request, status[s] \in Unresolved,
           attempts' = [attempts EXCEPT ![s].lease = "EXPIRED"],
           UNCHANGED <<command, status, ledgerVars, providerVars>>
    PROVE  Kept
  <1>0. attempts[s] \in Attempt
    BY AttemptType DEF DatabaseOK, RowOK, ClaimedStatus
  <1>1. attempts' \in [Request -> Attempt \cup {NoAttempt}]
    BY <1>0 DEF DatabaseOK, DatabaseType, Attempt
  <1>2. ASSUME NEW t \in Request
        PROVE  /\ attempts[t].token <= attempts'[t].token
               /\ attempts'[t].token # 0 => status[t] \in ClaimedStatus
    BY <1>0, AttemptType DEF DatabaseOK, DatabaseType, RowOK, Attempt
  <1> QED  BY <1>1, <1>2, Attempting

LEMMA OutcomeType ==
    ASSUME NEW n \in Nat
    PROVE  LET outcome == OutcomeForPosition(n)
           IN  /\ outcome.submission \in Submission
               /\ outcome.authority \in ProviderLookup
               /\ outcome.submission \in {"PAID", "UNPAID"} =>
                      outcome.authority = outcome.submission
  <1> USE DEF Outcome, Submission, ProviderLookup, AmbiguousAuthority
  <1>1. CASE LoadMode
    BY <1>1 DEF OutcomeForPosition, LoadOutcome
  <1>2. CASE ~LoadMode /\ Outcomes # << >>
    <2>1. Len(Outcomes) \in Nat \ {0}
      BY <1>2, ProviderAssumption
    <2>2. (n % Len(Outcomes)) + 1 \in 1 .. Len(Outcomes)
      BY <2>1
    <2>3. Outcomes[(n % Len(Outcomes)) + 1] \in ProviderLookup
      BY <2>1, <2>2, ProviderAssumption
    <2> QED  BY <1>2, <2>3, ProviderAssumption
             DEF OutcomeForPosition, ScriptedOutcome
  <1>3. CASE ~LoadMode /\ Outcomes = << >>
    BY <1>3 DEF OutcomeForPosition, DefaultOutcome
  <1> QED  BY <1>1, <1>2, <1>3

\* What a call to initiate leaves in the row of s.
LEMMA DurableOutcomeType ==
    ASSUME DatabaseOK, NEW s \in Request
    PROVE  /\ DurableOutcome(s) \in Operation \cup {NoOperation}
           /\ Recorded(s) => DurableOutcome(s) = operations[s]
           /\ DurableOutcome(s).submission \in {"PAID", "UNPAID"} =>
                  DurableOutcome(s).authority = DurableOutcome(s).submission
  <1>1. CASE Recorded(s) \/ Exhausted(ordinal)
    BY <1>1 DEF DurableOutcome, DatabaseOK, DatabaseType, ProviderTypeOK, RowOK
  <1>2. CASE ~(Recorded(s) \/ Exhausted(ordinal))
    <2> DEFINE outcome == OutcomeForPosition(ordinal)
    <2>1. ordinal \in Nat
      BY DEF DatabaseOK, DatabaseType, ProviderTypeOK
    <2>2. /\ outcome.submission \in Submission
          /\ outcome.authority \in ProviderLookup
          /\ outcome.submission \in {"PAID", "UNPAID"} =>
                 outcome.authority = outcome.submission
      BY <2>1, OutcomeType
    <2>3. DurableOutcome(s) = [ordinal |-> ordinal + 1,
                               submission |-> outcome.submission,
                               authority |-> outcome.authority]
      BY <1>2 DEF DurableOutcome
    <2> HIDE DEF outcome
    <2> QED  BY <1>2, <2>1, <2>2, <2>3 DEF Operation
  <1> QED  BY <1>1, <1>2

LEMMA Submitting ==
    ASSUME DatabaseOK, NEW s \in Request, status[s] \in ClaimedStatus,
           Initiate(s), UNCHANGED <<command, status, attempts, ledgerVars>>
    PROVE  Kept
  <1> USE DEF ledgerVars
  <1>0. operations' = [operations EXCEPT ![s] = DurableOutcome(s)]
    BY DEF Initiate
  <1>1. DatabaseType'
    BY <1>0, DurableOutcomeType
       DEF Initiate, DatabaseOK, DatabaseType, LedgerTypeOK, ProviderTypeOK
  <1>2. \A t \in Request : Recorded(t) => operations'[t] = operations[t]
    BY <1>0, DurableOutcomeType DEF DatabaseOK, DatabaseType, ProviderTypeOK
  <1>3. \A t \in Request : RowOK(t)'
    BY <1>0, DurableOutcomeType DEF DatabaseOK, DatabaseType, ProviderTypeOK,
       RowOK, Recorded
  <1>4. UniqueKey' /\ JournalsFollowStatus'
    BY DEF DatabaseOK, UniqueKey, JournalsFollowStatus, IsPosted
  <1>5. OutcomeMatchesProvider'
    <2> SUFFICES ASSUME NEW t \in Request
                 PROVE  /\ status[t] = "SUCCESS" =>
                               operations'[t].authority = "PAID"
                        /\ status[t] = "FAILED" =>
                               operations'[t].authority = "UNPAID"
      BY DEF OutcomeMatchesProvider
    <2>1. CASE Recorded(t)
      BY <2>1, <1>2 DEF DatabaseOK, OutcomeMatchesProvider
    <2>2. CASE ~Recorded(t)
      <3>1. operations[t] = NoOperation
        BY <2>2 DEF DatabaseOK, DatabaseType, ProviderTypeOK, Recorded,
           Operation
      <3>2. operations[t].authority = "NOT_FOUND"
        BY <3>1 DEF NoOperation
      <3> QED  BY <3>2 DEF DatabaseOK, OutcomeMatchesProvider
    <2> QED  BY <2>1, <2>2
  <1>6. Forward
    BY <1>2, AttemptType DEF Forward, DatabaseOK
  <1> QED  BY <1>1, <1>3, <1>4, <1>5, <1>6 DEF Kept, DatabaseOK

LEMMA Burning ==
    ASSUME DatabaseOK, ordinal' \in Nat,
           UNCHANGED <<command, status, attempts, ledgerVars, operations>>
    PROVE  Kept
  <1> USE DEF ledgerVars
  <1>1. DatabaseType'
    BY DEF DatabaseOK, DatabaseType, LedgerTypeOK, ProviderTypeOK
  <1>2. \A s \in Request : RowOK(s)'
    BY DEF DatabaseOK, RowOK, Recorded
  <1>3. UniqueKey' /\ JournalsFollowStatus' /\ OutcomeMatchesProvider'
    BY DEF DatabaseOK, UniqueKey, JournalsFollowStatus, IsPosted,
           OutcomeMatchesProvider
  <1>4. Forward
    BY AttemptType DEF Forward, DatabaseOK
  <1> QED  BY <1>1, <1>2, <1>3, <1>4 DEF Kept, DatabaseOK

\* The part of a finalization that both authoritative results share.
LEMMA Settling ==
    ASSUME DatabaseOK, NEW s \in Request, status[s] \in Unresolved,
           NEW outcome \in Terminal, Settle(s, outcome),
           NEW event, LedgerTypeOK',
           outcome = "SUCCESS" => event = "CONSUME",
           outcome = "FAILED" => event = "RELEASE",
           \A t, e : IsPosted(t, e)' <=> IsPosted(t, e) \/ (t = s /\ e = event),
           outcome = "SUCCESS" => operations[s].authority = "PAID",
           outcome = "FAILED" => operations[s].authority = "UNPAID",
           UNCHANGED <<command, providerVars>>
    PROVE  Kept
  <1> USE DEF providerVars, Settle
  <1>0. /\ attempts[s] \in Attempt
        /\ attempts'[s] \in Attempt
        /\ attempts'[s].token = attempts[s].token
    BY AttemptType DEF DatabaseOK, DatabaseType, RowOK, ClaimedStatus, Attempt
  <1>1. DatabaseType'
    BY <1>0 DEF DatabaseOK, DatabaseType, ProviderTypeOK, RowStatus,
       SettlementStatus
  <1>2. \A t \in Request : RowOK(t)'
    BY <1>0 DEF DatabaseOK, DatabaseType, RowOK, Recorded, ClaimedStatus
  <1>3. UniqueKey' /\ OutcomeMatchesProvider'
    BY DEF DatabaseOK, DatabaseType, UniqueKey, OutcomeMatchesProvider
  <1>4. JournalsFollowStatus'
    BY DEF DatabaseOK, DatabaseType, JournalsFollowStatus
  <1>5. Forward
    BY <1>0, AttemptType DEF Forward, DatabaseOK, DatabaseType, ClaimedStatus
  <1> QED  BY <1>1, <1>2, <1>3, <1>4, <1>5 DEF Kept, DatabaseOK

LEMMA FinalizeKeeps ==
    ASSUME DatabaseOK, NEW s \in Request, status[s] \in ClaimedStatus,
           NEW result \in ProviderResult, ~Rejected(s, result),
           result \in {"PAID", "UNPAID"} => operations[s].authority = result,
           FinalizeAttempt(s, result), UNCHANGED <<command, providerVars>>
    PROVE  Kept
  <1>0. LedgerTypeOK /\ command[s].amount \in Nat
    BY CommandType DEF DatabaseOK, DatabaseType
  <1>1. CASE Settled(s)
    BY <1>1, Idling DEF FinalizeAttempt, database
  <1>2. CASE ~Settled(s) /\ result = "PAID"
    <2>1. /\ CanConsume(s, command[s]) /\ Consume(s, command[s])
          /\ Settle(s, "SUCCESS") /\ status[s] \in Unresolved
      BY <1>2 DEF FinalizeAttempt, Rejected, Settled, ClaimedStatus
    <2>2. LedgerTypeOK'
      BY <1>0, <2>1, PostType DEF CanConsume, Consume, JournalEvent
    <2>3. \A t, e : IsPosted(t, e)' <=>
                        IsPosted(t, e) \/ (t = s /\ e = "CONSUME")
      BY <2>1, PostJournal DEF Consume
    <2> QED  BY <1>2, <2>1, <2>2, <2>3, Settling
  <1>3. CASE ~Settled(s) /\ result = "UNPAID"
    <2>1. /\ CanRelease(s, command[s]) /\ Release(s, command[s])
          /\ Settle(s, "FAILED") /\ status[s] \in Unresolved
      BY <1>3 DEF FinalizeAttempt, Rejected, Settled, ClaimedStatus
    <2>2. LedgerTypeOK'
      BY <1>0, <2>1, PostType DEF CanRelease, Release, JournalEvent
    <2>3. \A t, e : IsPosted(t, e)' <=>
                        IsPosted(t, e) \/ (t = s /\ e = "RELEASE")
      BY <2>1, PostJournal DEF Release
    <2> QED  BY <1>3, <2>1, <2>2, <2>3, Settling
  <1>4. CASE ~Settled(s) /\ result \notin {"PAID", "UNPAID"}
    <2> USE DEF ledgerVars, providerVars
    <2>1. /\ status[s] \in Unresolved
          /\ status' = [status EXCEPT ![s] = "PENDING_RECONCILIATION"]
          /\ attempts' = [attempts EXCEPT ![s].state = "RECONCILING",
                                          ![s].lease = "EXPIRED"]
          /\ UNCHANGED ledgerVars
      BY <1>4 DEF FinalizeAttempt, Settled, ClaimedStatus
    <2>2. attempts[s] \in Attempt
      BY <2>1, AttemptType DEF DatabaseOK, RowOK, ClaimedStatus
    <2>3. attempts'[s] \in Attempt /\ attempts'[s].token = attempts[s].token
      BY <2>1, <2>2 DEF DatabaseOK, DatabaseType, Attempt
    <2>4. DatabaseType'
      BY <2>1, <2>3 DEF DatabaseOK, DatabaseType, LedgerTypeOK, ProviderTypeOK,
         RowStatus, SettlementStatus
    <2>5. \A t \in Request : RowOK(t)'
      BY <2>1, <2>3 DEF DatabaseOK, DatabaseType, RowOK, Recorded,
         ClaimedStatus
    <2>6. UniqueKey' /\ JournalsFollowStatus' /\ OutcomeMatchesProvider'
      BY <2>1 DEF DatabaseOK, DatabaseType, UniqueKey, JournalsFollowStatus,
         IsPosted, OutcomeMatchesProvider
    <2>7. Forward
      BY <2>1, <2>3, AttemptType DEF Forward, DatabaseOK, DatabaseType,
         ClaimedStatus
    <2> QED  BY <2>4, <2>5, <2>6, <2>7 DEF Kept, DatabaseOK
  <1> QED  BY <1>1, <1>2, <1>3, <1>4

-----------------------------------------------------------------------------
(* What happens to the calls *)

\* A step of call c: the database is kept, and no row appears but that of c.
Around(c) ==
    /\ DatabaseOK /\ ProcessType /\ CallsOK /\ Kept
    /\ \A d \in Request \ {c} :
           /\ status[d] = "ABSENT" => status'[d] = "ABSENT"
           /\ command'[d] = command[d]

CallsKept == ProcessType' /\ CallsOK'

LEMMA CallTypes ==
    ASSUME ProcessType, NEW c \in Call
    PROVE  /\ call[c] \in CallState
           /\ call[c].token \in Nat
           /\ call[c].pc \in ProgramCounter
  BY ServiceAssumption DEF ProcessType, CallState

\* A call that does nothing keeps what it relies on.
LEMMA Waiting ==
    ASSUME NEW c, Around(c), NEW d \in Call, d # c, call'[d] = call[d]
    PROVE  CallOK(d)'
  <1>1. CallOK(d) /\ call[d].token \in Nat
    BY CallTypes DEF Around, CallsOK
  <1>2. call[d].sid \in Request =>
            /\ attempts[call[d].sid].token \in Nat
            /\ attempts'[call[d].sid].token \in Nat
            /\ attempts[call[d].sid].token <= attempts'[call[d].sid].token
    BY AttemptType DEF Around, Kept, Forward, DatabaseOK, DatabaseType, Attempt,
       NoAttempt
  <1>3. call[d].sid \in Request =>
            /\ status[call[d].sid] # "ABSENT" => status'[call[d].sid] # "ABSENT"
            /\ status[call[d].sid] \in ClaimedStatus =>
                   status'[call[d].sid] \in ClaimedStatus
            /\ Recorded(call[d].sid) =>
                   operations'[call[d].sid] = operations[call[d].sid]
    BY DEF Around, Kept, Forward
  <1>4. d \in Request =>
            /\ status[d] = "ABSENT" => status'[d] = "ABSENT"
            /\ command'[d] = command[d]
    BY DEF Around
  <1>5. ASSUME call[d].sid \in Request,
               operations[call[d].sid].authority \in {"PAID", "UNPAID"}
        PROVE  Recorded(call[d].sid)
    <2>1. operations[call[d].sid] # NoOperation
      BY <1>5 DEF NoOperation
    <2> QED  BY <1>5, <2>1 DEF Around, DatabaseOK, DatabaseType,
                ProviderTypeOK, Operation, Recorded
  <1> QED  BY <1>1, <1>2, <1>3, <1>4, <1>5 DEF CallOK, Live

\* A call that is over relies on nothing.
LEMMA Ending ==
    ASSUME NEW c, Around(c), NEW d \in Call, Live(d), NEW reply \in Reply,
           call'[d] = Answer(d, reply)
    PROVE  Answer(d, reply) \in CallState /\ CallOK(d)'
  <1>1. CallOK(d) /\ call[d] \in CallState
    BY CallTypes DEF Around, CallsOK
  <1>2. CASE d \in Worker
    <2>1. call'[d] = Idle /\ d \notin Request /\ Answer(d, reply) = Idle
      BY <1>2, DistinctCalls DEF Answer
    <2> QED  BY <2>1, ServiceAssumption
             DEF CallOK, Live, Idle, CallState, ProviderResult, Reply
  <1>3. CASE d \notin Worker
    <2>1. Answer(d, reply) = [call[d] EXCEPT !.pc = "done", !.token = 0,
                                  !.result = "NONE", !.reply = reply]
      BY <1>3 DEF Answer
    <2>2a. 0 \in 0 .. MaxToken /\ "NONE" \in ProviderResult
      BY ServiceAssumption DEF ProviderResult
    <2>2b. Answer(d, reply) = [pc |-> "done", sid |-> call[d].sid, token |-> 0,
                              result |-> "NONE", reply |-> reply]
      BY <1>1, <2>1 DEF CallState
    <2>2c. call[d].sid \in Request \cup {"NULL"}
      BY <1>1 DEF CallState
    <2>2. call'[d] \in CallState /\ call'[d].pc = "done"
      BY <2>2a, <2>2b, <2>2c DEF CallState
    <2>3. d \in Request => command'[d] \in Commands
      BY <1>1 DEF CallOK, Live, Around, Kept, Forward
    <2> QED  BY <2>2, <2>3 DEF CallOK, Live
  <1> QED  BY <1>2, <1>3

LEMMA DieKeeps ==
    ASSUME NEW c, Around(c), c \in Call => Live(c), Die
    PROVE  CallsKept
  <1>1. ASSUME NEW d \in Call
        PROVE  call'[d] \in CallState /\ CallOK(d)'
    <2>1. call'[d] = Killed(d)
      BY DEF Die
    <2>2. CASE Live(d)
      BY <2>1, <2>2, Ending DEF Killed, Reply
    <2>3. CASE ~Live(d)
      BY <2>1, <2>3, Waiting, CallTypes DEF Killed, Around
    <2> QED  BY <2>2, <2>3
  <1>2. call' \in [Call -> CallState]
    BY <1>1 DEF Die
  <1> QED  BY <1>1, <1>2 DEF CallsKept, CallsOK, ProcessType, Die

LEMMA ProceedKeeps ==
    ASSUME NEW c \in Call, Around(c), NEW n \in CallState, Proceed(c, n),
           CallOK(c)'
    PROVE  CallsKept
  <1>1. call' \in [Call -> CallState] /\ \A d \in Call \ {c} : call'[d] = call[d]
    BY DEF Proceed, Around, ProcessType
  <1>2. CallsOK'
    BY <1>1, Waiting DEF CallsOK
  <1>3. batch' \subseteq Worker /\ phase' = phase
    BY DEF Proceed, Around, ProcessType
  <1> QED  BY <1>1, <1>2, <1>3 DEF CallsKept, ProcessType, Around

LEMMA RaiseKeeps ==
    ASSUME NEW c \in Call, Around(c), Live(c), NEW error \in Reply,
           Raise(c, error)
    PROVE  CallsKept
  <1>1. CASE Die
    BY <1>1, DieKeeps
  <1>2. CASE ~Die
    <2>1. /\ call' = [call EXCEPT ![c] = Answer(c, error)]
          /\ batch' = IF c \in batch THEN {} ELSE batch
          /\ phase' = phase
      BY <1>2 DEF Raise
    <2>2. call'[c] = Answer(c, error) /\ \A d \in Call \ {c} : call'[d] = call[d]
      BY <2>1 DEF Around, ProcessType
    <2>3. Answer(c, error) \in CallState /\ CallOK(c)'
      BY <2>2, Ending
    <2>4. CallsOK'
      BY <2>2, <2>3, Waiting DEF CallsOK
    <2>5. call' \in [Call -> CallState] /\ batch' \subseteq Worker
      BY <2>1, <2>3 DEF Around, ProcessType
    <2> QED  BY <2>1, <2>4, <2>5 DEF CallsKept, ProcessType, Around
  <1> QED  BY <1>1, <1>2

\* What a call under way has to go on with, before and after a step.
LEMMA LiveFacts ==
    ASSUME NEW c \in Call, Around(c), Live(c)
    PROVE  /\ CallOK(c) /\ call[c] \in CallState
           /\ call[c].sid \in Request /\ call[c].token \in Nat
           /\ attempts'[call[c].sid].token \in Nat
           /\ call[c].token <= attempts'[call[c].sid].token
           /\ status[call[c].sid] # "ABSENT" => status'[call[c].sid] # "ABSENT"
           /\ status[call[c].sid] \in ClaimedStatus =>
                  status'[call[c].sid] \in ClaimedStatus
           /\ c \in Request => command[c] \in Commands /\ command'[c] \in Commands
  <1>1. CallOK(c) /\ call[c] \in CallState /\ call[c].token \in Nat
    BY CallTypes DEF Around, CallsOK
  <1>2. call[c].sid \in Request
    BY <1>1 DEF CallOK
  <1>3. /\ attempts[call[c].sid].token \in Nat
        /\ attempts'[call[c].sid].token \in Nat
        /\ attempts[call[c].sid].token <= attempts'[call[c].sid].token
    BY <1>2 DEF Around, Kept, Forward, DatabaseOK, DatabaseType, Attempt,
       NoAttempt
  <1>4. call[c].token <= attempts'[call[c].sid].token
    BY <1>1, <1>3 DEF CallOK
  <1>5. c \in Request => command[c] \in Commands /\ command'[c] \in Commands
    BY <1>1 DEF CallOK, Live, Around, Kept, Forward
  <1> QED  BY <1>1, <1>2, <1>3, <1>4, <1>5 DEF Around, Kept, Forward

LEMMA AtType ==
    ASSUME ProcessType, NEW c \in Call, NEW pc \in ProgramCounter
    PROVE  /\ At(c, pc) \in CallState
           /\ At(c, pc).pc = pc /\ At(c, pc).sid = call[c].sid
           /\ At(c, pc).token = call[c].token
           /\ At(c, pc).result = call[c].result
  BY CallTypes DEF At, CallState

LEMMA Moves ==
    ASSUME ProcessType, NEW c \in Call, NEW n, Proceed(c, n)
    PROVE  call'[c] = n
  BY DEF ProcessType, Proceed

LEMMA ExceptKeeps ==
    ASSUME NEW c \in Call, Around(c), Live(c), NEW error \in Reply,
           Except(c, error)
    PROVE  CallsKept
  <1>0. CallOK(c) /\ call[c] \in CallState
    BY LiveFacts
  <1>4. CASE call[c].pc = "initiate"
    <2>1. Proceed(c, WithResult(c, "NONE"))
      BY <1>4 DEF Except
    <2>2. WithResult(c, "NONE") \in CallState
      BY <1>0 DEF WithResult, CallState, ProviderResult
    <2>3. call'[c] = WithResult(c, "NONE")
      BY <2>1 DEF Proceed, Around, ProcessType
    <2>4. /\ call'[c].pc = "finalize" /\ call'[c].result = "NONE"
          /\ call'[c].sid = call[c].sid /\ call'[c].token = call[c].token
      BY <1>0, <2>3 DEF WithResult, CallState
    <2>5. CallOK(c)'
      BY <1>0, <1>4, <2>4, LiveFacts DEF CallOK, Live
    <2> QED  BY <2>1, <2>2, <2>5, ProceedKeeps
  <1>5. CASE call[c].pc \in {"lookup", "finalize"} /\ c \notin Request
    <2>1. Proceed(c, Recovering(c))
      BY <1>5 DEF Except
    <2>2. Recovering(c) \in CallState
      BY <1>0 DEF Recovering, CallState, ProviderResult
    <2>3. call'[c] = Recovering(c)
      BY <2>1 DEF Proceed, Around, ProcessType
    <2>4. /\ call'[c].pc = "recover" /\ call'[c].result = "NONE"
          /\ call'[c].sid = call[c].sid /\ call'[c].token = call[c].token
      BY <1>0, <2>3 DEF Recovering, CallState
    <2>5. CallOK(c)'
      BY <1>0, <1>5, <2>4, LiveFacts DEF CallOK, Live
    <2> QED  BY <2>1, <2>2, <2>5, ProceedKeeps
  <1>6. CASE /\ call[c].pc # "initiate"
             /\ ~(call[c].pc \in {"lookup", "finalize"} /\ c \notin Request)
    <2>1. Raise(c, error)
      BY <1>6 DEF Except
    <2> QED  BY <2>1, RaiseKeeps
  <1> QED  BY <1>4, <1>5, <1>6

LEMMA AcknowledgeKeeps ==
    ASSUME NEW c \in Call, Around(c), Live(c), BoundsType,
           NEW n \in CallState, Acknowledge(c, n), Proceed(c, n) => CallOK(c)'
    PROVE  CallsKept /\ BoundsType'
  <1>1. CASE Proceed(c, n) /\ UNCHANGED boundVars
    BY <1>1, ProceedKeeps DEF BoundsType, boundVars
  <1>2. CASE Fault /\ Except(c, "ERROR")
    <2>1. CallsKept
      BY <1>2, ExceptKeeps DEF Reply
    <2> QED  BY <1>2, <2>1, ServiceAssumption DEF BoundsType, Fault
  <1> QED  BY <1>1, <1>2 DEF Acknowledge

-----------------------------------------------------------------------------
(* Every action keeps the invariant *)

LEMMA NotACommand == NoCommand \notin Commands
  <1>1. NoCommand.amount = 0
    BY DEF NoCommand
  <1>2. \A x \in Commands : x.amount # 0
    BY SchemaAssumption DEF SettlementCreate
  <1> QED  BY <1>1, <1>2

LEMMA Together ==
    ASSUME Kept, CallsKept, BoundsType'
    PROVE  IInv'
  BY DEF IInv, Kept, CallsKept

\* A step that only reads can be one of any call.
LEMMA Reading ==
    ASSUME IInv, NEW c, ReadOnly
    PROVE  Around(c) /\ BoundsType' /\ Kept
  <1>1. Kept
    BY Idling DEF IInv, ReadOnly
  <1>2. command' = command /\ status' = status /\ UNCHANGED boundVars
    BY DEF ReadOnly, database
  <1> QED  BY <1>1, <1>2 DEF Around, IInv, BoundsType, boundVars

\* The same for a transaction that keeps commands and inserts no row.
LEMMA Writing ==
    ASSUME IInv, NEW c, Kept, UNCHANGED command,
           \A d \in Request : status[d] = "ABSENT" => status'[d] = "ABSENT"
    PROVE  Around(c)
  BY DEF Around, IInv

LEMMA IdleType ==
    /\ Idle \in CallState
    /\ Idle.pc = "idle" /\ Idle.token = 0 /\ Idle.result = "NONE"
  BY ServiceAssumption DEF Idle, CallState, ProviderResult, Reply

LEMMA PostSettlementKeeps ==
    ASSUME IInv, NEW r \in Request, PostSettlement(r)
    PROVE  IInv'
  <1> DEFINE n == [Idle EXCEPT !.pc = "find", !.sid = r]
  <1>0. r \in Call /\ call[r] = Idle /\ Proceed(r, n)
    BY DEF Call, PostSettlement
  <1>1. call[r].pc = "idle" /\ CallOK(r)
    BY <1>0 DEF IInv, CallsOK, Idle
  <1>2. status[r] = "ABSENT" /\ command[r] \notin Commands
    BY <1>1, NotACommand DEF CallOK
  <1>3. PICK sent \in Commands : command' = [command EXCEPT ![r] = sent]
    BY DEF PostSettlement
  <1>4. Kept
    BY <1>2, <1>3, Asking DEF PostSettlement, IInv
  <1>5. status' = status /\ command'[r] = sent
        /\ \A d \in Request \ {r} : command'[d] = command[d]
    BY <1>3 DEF PostSettlement, IInv, DatabaseOK, DatabaseType
  <1>6. Around(r)
    BY <1>4, <1>5 DEF Around, IInv
  <1>7. n.pc = "find" /\ n.sid = r /\ n.token = 0 /\ n.result = "NONE"
    BY IdleType DEF CallState
  <1>8. n \in CallState
    BY IdleType DEF CallState
  <1> HIDE DEF n
  <1>9. call'[r] = n
    BY <1>0, Moves DEF IInv
  <1>10. 0 <= attempts'[r].token
    BY <1>4, AttemptType DEF PostSettlement, IInv, DatabaseOK
  <1>11. CallOK(r)'
    BY <1>5, <1>7, <1>9, <1>10 DEF CallOK, Live
  <1>12. CallsKept
    BY <1>0, <1>6, <1>8, <1>11, ProceedKeeps
  <1>13. BoundsType'
    BY DEF PostSettlement, IInv, BoundsType, boundVars
  <1> QED  BY <1>4, <1>12, <1>13, Together

\* _find_by_key returns the row it looks for.
LEMMA Found ==
    ASSUME NEW owner, NEW key, KeyTaken(owner, key)
    PROVE  FindByKey(owner, key) \in Request
           /\ status[FindByKey(owner, key)] # "ABSENT"
  BY DEF KeyTaken, FindByKey, HasKey

LEMMA ExistingKeeps ==
    ASSUME NEW c \in Request, NEW s \in Request, IInv, Around(c), Live(c),
           UNCHANGED <<status, attempts>>,
           call[c].token = 0, status[s] # "ABSENT", Existing(c, s)
    PROVE  CallsKept
  <1> USE DEF Call
  <1>1. CASE Raise(c, "CONFLICT")
    BY <1>1, RaiseKeeps DEF Reply
  <1>2. CASE /\ status[s] = "RESERVED"
             /\ Proceed(c, [At(c, "claim") EXCEPT !.sid = s])
    <2> DEFINE n == [At(c, "claim") EXCEPT !.sid = s]
    <2>1. /\ n \in CallState /\ n.pc = "claim" /\ n.sid = s /\ n.token = 0
      BY LiveFacts DEF At, CallState
    <2> HIDE DEF n
    <2>2. call'[c] = n
      BY <1>2, Moves DEF n, IInv
    <2>3. 0 <= attempts'[s].token
      BY AttemptType DEF IInv, DatabaseOK
    <2>4. CallOK(c)'
      BY <2>1, <2>2, <2>3, LiveFacts DEF CallOK, Live
    <2> QED  BY <1>2, <2>1, <2>4, ProceedKeeps DEF n
  <1>3. CASE Proceed(c, [Answer(c, status[s]) EXCEPT !.sid = s])
    <2> DEFINE n == [Answer(c, status[s]) EXCEPT !.sid = s]
    <2>1. status[s] \in Reply
      BY DEF IInv, DatabaseOK, DatabaseType, RowStatus, Reply
    <2>2. c \notin Worker
      BY DistinctCalls
    <2>3. /\ n \in CallState /\ n.pc = "done"
      BY <2>1, <2>2, LiveFacts, ServiceAssumption
         DEF Answer, CallState, ProviderResult
    <2> HIDE DEF n
    <2>4. call'[c] = n
      BY <1>3, Moves DEF n, IInv
    <2>5. CallOK(c)'
      BY <2>3, <2>4, LiveFacts DEF CallOK, Live
    <2> QED  BY <1>3, <2>3, <2>5, ProceedKeeps DEF n
  <1> QED  BY <1>1, <1>2, <1>3 DEF Existing

LEMMA FindKeeps ==
    ASSUME IInv, NEW r \in Request, Find(r)
    PROVE  IInv'
  <1> DEFINE owner == command[r].owner
             key == command[r].key
  <1>0. r \in Call /\ Live(r) /\ call[r].pc \in {"find", "reload"} /\ ReadOnly
    BY DEF Call, Find, Live
  <1>1. Around(r) /\ BoundsType' /\ Kept /\ UNCHANGED <<status, attempts>>
    BY <1>0, Reading DEF ReadOnly, database
  <1>2. CallOK(r) /\ call[r].token = 0
    BY <1>0 DEF IInv, CallsOK, CallOK
  <1>3. CASE KeyTaken(owner, key)
    BY <1>0, <1>1, <1>2, <1>3, Found, ExistingKeeps, Together DEF Find
  <1>4. CASE ~KeyTaken(owner, key) /\ \E e \in Reply : Raise(r, e)
    BY <1>0, <1>1, <1>4, RaiseKeeps, Together
  <1>5. CASE ~KeyTaken(owner, key) /\ Proceed(r, At(r, "insert"))
                                   /\ call[r].pc = "find"
    <2>1. call'[r] = At(r, "insert")
      BY <1>0, <1>5, Moves DEF IInv
    <2>2. /\ At(r, "insert") \in CallState /\ call'[r].pc = "insert"
          /\ call'[r].sid = call[r].sid /\ call'[r].token = 0
      BY <1>0, <1>2, <2>1, AtType DEF IInv
    <2>3. CallOK(r)'
      BY <1>0, <1>1, <1>2, <1>5, <2>2, LiveFacts DEF CallOK, Live
    <2> QED  BY <1>0, <1>1, <1>5, <2>2, <2>3, ProceedKeeps, Together
  <1> QED  BY <1>0, <1>3, <1>4, <1>5 DEF Find, Reply

\* What the ledger says of a failed posting is a reply.
LEMMA PostErrorType ==
    ASSUME NEW s, NEW terms
    PROVE  {ReserveError(s, terms), ConsumeError(s, terms),
            ReleaseError(s, terms)} \subseteq Reply
  BY DEF ReserveError, ConsumeError, ReleaseError, PostError, Reply

LEMMA InsertKeeps ==
    ASSUME IInv, NEW r \in Request, Insert(r)
    PROVE  IInv'
  <1>0. r \in Call /\ Live(r) /\ call[r].pc = "insert"
    BY DEF Call, Insert, Live
  <1>1. /\ CallOK(r) /\ call[r].token = 0 /\ call[r].sid = r
        /\ command[r] \in Commands
    BY <1>0 DEF IInv, CallsOK, CallOK, Live
  <1>2. CASE Proceed(r, At(r, "reload")) /\ ReadOnly
    <2>1. Around(r) /\ BoundsType' /\ Kept
      BY <1>2, Reading
    <2>2. /\ At(r, "reload") \in CallState /\ call'[r].pc = "reload"
          /\ call'[r].sid = r /\ call'[r].token = 0
      BY <1>0, <1>1, <1>2, AtType, Moves DEF IInv
    <2>3. CallOK(r)'
      BY <1>0, <1>1, <2>1, <2>2, LiveFacts DEF CallOK, Live
    <2> QED  BY <1>0, <1>2, <2>1, <2>2, <2>3, ProceedKeeps, Together
  <1>3. CASE \E e \in Reply : Raise(r, e) /\ ReadOnly
    BY <1>0, <1>3, Reading, RaiseKeeps, Together
  <1>4. CASE /\ ~KeyTaken(command[r].owner, command[r].key)
             /\ CanReserve(r, command[r])
             /\ status' = [status EXCEPT ![r] = "RESERVED"]
             /\ Reserve(r, command[r])
             /\ Acknowledge(r, At(r, "claim"))
             /\ UNCHANGED <<command, attempts, providerVars>>
    <2>1. Kept
      BY <1>1, <1>4, Inserting DEF IInv
    <2>2. status'[r] = "RESERVED" /\ Around(r)
      BY <1>4, <2>1 DEF Around, IInv, DatabaseOK, DatabaseType
    <2>3. At(r, "claim") \in CallState
      BY <1>0, AtType DEF IInv
    <2>4. ASSUME Proceed(r, At(r, "claim"))
          PROVE  CallOK(r)'
      <3>1. /\ call'[r].pc = "claim"
            /\ call'[r].sid = r /\ call'[r].token = 0
        BY <1>0, <1>1, <2>4, AtType, Moves DEF IInv
      <3> QED  BY <1>0, <1>1, <2>2, <3>1, LiveFacts DEF CallOK, Live
    <2> QED  BY <1>0, <2>1, <2>2, <2>3, <2>4, <1>4, AcknowledgeKeeps, Together
             DEF IInv
  <1> QED  BY <1>2, <1>3, <1>4, PostErrorType DEF Insert

LEMMA AnswerType ==
    ASSUME ProcessType, NEW c \in Call, NEW reply \in Reply
    PROVE  Answer(c, reply) \in CallState
  <1>1. call[c] \in CallState /\ 0 \in 0 .. MaxToken
        /\ "NONE" \in ProviderResult
    BY CallTypes, ServiceAssumption DEF ProviderResult
  <1> QED  BY <1>1, IdleType DEF Answer, CallState

LEMMA ResultType ==
    ASSUME ProcessType, NEW c \in Call, NEW result \in ProviderResult
    PROVE  /\ WithResult(c, result) \in CallState
           /\ WithResult(c, result).pc = "finalize"
           /\ WithResult(c, result).result = result
           /\ WithResult(c, result).sid = call[c].sid
           /\ WithResult(c, result).token = call[c].token
  BY CallTypes DEF WithResult, CallState

\* A call that goes on reading or settling the row it has.
LEMMA GoingOn ==
    ASSUME NEW c \in Call, Around(c), Live(c),
           NEW pc \in {"get", "initiate"}, Proceed(c, At(c, pc)),
           pc = "get" => status'[call[c].sid] # "ABSENT",
           pc = "initiate" => status'[call[c].sid] \in ClaimedStatus
    PROVE  CallsKept
  <1>1. /\ At(c, pc) \in CallState /\ call'[c].pc = pc
        /\ call'[c].sid = call[c].sid /\ call'[c].token = call[c].token
    BY AtType, Moves DEF Around
  <1>2. CallOK(c)'
    BY <1>1, LiveFacts DEF CallOK, Live
  <1> QED  BY <1>1, <1>2, ProceedKeeps

LEMMA Answering ==
    ASSUME NEW c \in Call, Around(c), Live(c), NEW reply \in Reply,
           Proceed(c, Answer(c, reply))
    PROVE  CallOK(c)' /\ CallsKept
  <1>1. Answer(c, reply) \in CallState /\ call'[c] = Answer(c, reply)
    BY AnswerType, Moves DEF Around
  <1>2. CallOK(c)'
    BY <1>1, Ending
  <1> QED  BY <1>1, <1>2, ProceedKeeps

LEMMA ClaimReservedKeeps ==
    ASSUME IInv, NEW r \in Request, ClaimReserved(r)
    PROVE  IInv'
  <1> DEFINE s == call[r].sid
             n == [At(r, "initiate") EXCEPT !.token = 1]
  <1>0. r \in Call /\ Live(r) /\ call[r].pc = "claim"
    BY DEF Call, ClaimReserved, Live
  <1>1. CallOK(r) /\ s \in Request /\ status[s] # "ABSENT" /\ ProcessType
    BY <1>0 DEF IInv, CallsOK, CallOK
  <1>2. CASE Proceed(r, At(r, "get")) /\ ReadOnly
    <2>1. Around(r) /\ BoundsType' /\ Kept
      BY <1>2, Reading
    <2>2. status'[s] # "ABSENT"
      BY <1>0, <1>1, <2>1, LiveFacts
    <2> QED  BY <1>0, <1>2, <2>1, <2>2, GoingOn, Together
  <1>3. CASE /\ status[s] = "RESERVED"
             /\ status' = [status EXCEPT ![s] = "PAYOUT_IN_PROGRESS"]
             /\ attempts' = [attempts EXCEPT
                    ![s] = [state |-> "SUBMITTING", token |-> 1,
                            lease |-> "RUNNING"]]
             /\ Acknowledge(r, n)
             /\ UNCHANGED <<command, ledgerVars, providerVars>>
    <2>1. Kept /\ attempts'[s].token = 1
      BY <1>1, <1>3, Claiming DEF IInv
    <2>2. /\ status'[s] \in ClaimedStatus
          /\ \A d \in Request : status[d] = "ABSENT" => status'[d] = "ABSENT"
      BY <1>1, <1>3 DEF IInv, DatabaseOK, DatabaseType, ClaimedStatus
    <2>3. Around(r)
      BY <1>3, <2>1, <2>2, Writing
    <2>4. n \in CallState /\ n.pc = "initiate" /\ n.sid = s /\ n.token = 1
      BY <1>0, <1>1, AtType, ServiceAssumption DEF CallState
    <2> HIDE DEF n
    <2>5. ASSUME Proceed(r, n)
          PROVE  CallOK(r)'
      <3>1. call'[r] = n
        BY <1>0, <1>1, <2>5, Moves
      <3> QED  BY <1>0, <1>1, <2>1, <2>2, <2>3, <2>4, <3>1, LiveFacts
               DEF CallOK, Live
    <2>6. Acknowledge(r, n) /\ BoundsType
      BY <1>3 DEF IInv
    <2> QED  BY <1>0, <2>1, <2>3, <2>4, <2>5, <2>6, AcknowledgeKeeps, Together
  <1> QED  BY <1>2, <1>3 DEF ClaimReserved

LEMMA InitiateResultType ==
    ASSUME DatabaseOK, NEW s \in Request, Initiate(s)
    PROVE  /\ InitiateResult(s) \in ProviderResult
           /\ InitiateResult(s) \in {"PAID", "UNPAID"} =>
                  operations'[s].authority = InitiateResult(s)
  <1>1. operations'[s] = DurableOutcome(s)
    BY DEF Initiate, DatabaseOK, DatabaseType, ProviderTypeOK
  <1>2. DurableOutcome(s).submission \in Submission \cup {"NONE"}
    BY DurableOutcomeType DEF Operation, NoOperation
  <1> QED  BY <1>1, <1>2, DurableOutcomeType
           DEF InitiateResult, Submission, ProviderResult

LEMMA SubmitPayoutKeeps ==
    ASSUME IInv, NEW c \in Call, SubmitPayout(c)
    PROVE  IInv'
  <1> DEFINE s == call[c].sid
             result == InitiateResult(s)
             n == WithResult(c, result)
  <1>0. /\ Live(c) /\ call[c].pc = "initiate" /\ Acknowledge(c, n) /\ Initiate(s)
        /\ UNCHANGED <<command, status, attempts, ledgerVars>>
    BY DEF SubmitPayout, Live
  <1>1. CallOK(c) /\ s \in Request /\ status[s] \in ClaimedStatus
    BY <1>0 DEF IInv, CallsOK, CallOK
  <1>2. Kept
    BY <1>0, <1>1, Submitting DEF IInv
  <1>3. Around(c)
    BY <1>0, <1>2, Writing
  <1>4. /\ result \in ProviderResult
        /\ result \in {"PAID", "UNPAID"} => operations'[s].authority = result
    BY <1>0, <1>1, InitiateResultType DEF IInv
  <1> HIDE DEF result
  <1>5. /\ n \in CallState /\ n.pc = "finalize" /\ n.result = result
        /\ n.sid = s /\ n.token = call[c].token
    BY <1>4, ResultType DEF IInv
  <1> HIDE DEF n
  <1>6. ASSUME Proceed(c, n)
        PROVE  CallOK(c)'
    <2>1. call'[c] = n
      BY <1>6, Moves DEF IInv
    <2> QED  BY <1>0, <1>1, <1>3, <1>4, <1>5, <2>1, LiveFacts DEF CallOK, Live
  <1> QED  BY <1>0, <1>2, <1>3, <1>5, <1>6, AcknowledgeKeeps, Together DEF IInv

LEMMA LookupPayoutKeeps ==
    ASSUME IInv, NEW c \in Call, LookupPayout(c)
    PROVE  IInv'
  <1> DEFINE s == call[c].sid
             found == operations[s].authority
             result == IF found = "UNKNOWN" THEN "NONE" ELSE found
  <1>0. Live(c) /\ call[c].pc = "lookup" /\ ReadOnly
    BY DEF LookupPayout, Live
  <1>1. CallOK(c) /\ s \in Request /\ status[s] \in ClaimedStatus
    BY <1>0 DEF IInv, CallsOK, CallOK
  <1>2. Around(c) /\ BoundsType' /\ Kept
    BY <1>0, Reading
  <1>3. status'[s] \in ClaimedStatus /\ operations'[s] = operations[s]
    BY <1>0, <1>1 DEF ReadOnly, database, providerVars
  <1>4. CASE Proceed(c, At(c, "initiate"))
    BY <1>0, <1>2, <1>3, <1>4, GoingOn, Together
  <1>5. CASE found # "NOT_FOUND" /\ Proceed(c, WithResult(c, result))
    <2>1. found \in ProviderLookup
      BY <1>1, <1>5 DEF IInv, DatabaseOK, DatabaseType, ProviderTypeOK,
         Operation, NoOperation
    <2>2. result \in ProviderResult
      BY <2>1 DEF ProviderLookup, ProviderResult
    <2>3. result \in {"PAID", "UNPAID"} => operations'[s].authority = result
      BY <1>3
    <2> HIDE DEF result
    <2>4. /\ WithResult(c, result) \in CallState /\ call'[c].pc = "finalize"
          /\ call'[c].result = result /\ call'[c].sid = s
          /\ call'[c].token = call[c].token
      BY <1>5, <2>2, ResultType, Moves DEF IInv
    <2>5. CallOK(c)'
      BY <1>0, <1>1, <1>2, <1>3, <2>3, <2>4, LiveFacts DEF CallOK, Live
    <2> QED  BY <1>2, <1>5, <2>4, <2>5, ProceedKeeps, Together
  <1> QED  BY <1>4, <1>5 DEF LookupPayout

\* A finalization is a transaction that inserts no row.
LEMMA FinalizeAround ==
    ASSUME IInv, NEW c, NEW s \in Request, status[s] \in ClaimedStatus,
           NEW result \in ProviderResult, ~Rejected(s, result),
           result \in {"PAID", "UNPAID"} => operations[s].authority = result,
           FinalizeAttempt(s, result), UNCHANGED <<command, providerVars>>
    PROVE  Around(c) /\ Kept
  <1>1. Kept
    BY FinalizeKeeps DEF IInv
  <1>2. /\ status \in [Request -> RowStatus]
        /\ \/ status' = status
           \/ \E x \in SettlementStatus : status' = [status EXCEPT ![s] = x]
    BY DEF FinalizeAttempt, Settle, IInv, DatabaseOK, DatabaseType,
       SettlementStatus
  <1>3. \A d \in Request : status[d] = "ABSENT" => status'[d] = "ABSENT"
    BY <1>2 DEF ClaimedStatus
  <1> QED  BY <1>1, <1>3, Writing

LEMMA FinalizeStepKeeps ==
    ASSUME IInv, NEW c \in Call, Finalize(c)
    PROVE  IInv'
  <1> DEFINE s == call[c].sid
             result == call[c].result
  <1>0. Live(c) /\ call[c].pc = "finalize"
    BY DEF Finalize, Live
  <1>1. /\ CallOK(c) /\ s \in Request /\ status[s] \in ClaimedStatus
        /\ result \in ProviderResult
        /\ result \in {"PAID", "UNPAID"} => operations[s].authority = result
    BY <1>0, CallTypes DEF IInv, CallsOK, CallOK, CallState
  <1>2. CASE Proceed(c, At(c, "get")) /\ ReadOnly
    <2>1. Around(c) /\ BoundsType' /\ Kept
      BY <1>2, Reading
    <2>2. status'[s] # "ABSENT"
      BY <1>0, <1>1, <2>1, LiveFacts DEF ClaimedStatus
    <2> QED  BY <1>0, <1>2, <2>1, <2>2, GoingOn, Together
  <1>3. CASE \E e \in Reply : Except(c, e) /\ ReadOnly
    BY <1>0, <1>3, Reading, ExceptKeeps, Together
  <1>4. CASE /\ ~Rejected(s, result) /\ FinalizeAttempt(s, result)
             /\ Acknowledge(c, Answer(c, status'[s]))
             /\ UNCHANGED <<command, providerVars>>
    <2>1. Around(c) /\ Kept
      BY <1>1, <1>4, FinalizeAround
    <2>2. status'[s] \in Reply
      BY <1>0, <1>1, <2>1, LiveFacts DEF ClaimedStatus, Reply, SettlementStatus
    <2>3. Answer(c, status'[s]) \in CallState
      BY <2>2, AnswerType DEF IInv
    <2>4. ASSUME Proceed(c, Answer(c, status'[s]))
          PROVE  CallOK(c)'
      BY <1>0, <2>1, <2>2, <2>4, Answering
    <2>5. BoundsType
      BY DEF IInv
    <2> QED  BY <1>0, <1>4, <2>1, <2>3, <2>4, <2>5, AcknowledgeKeeps, Together
  <1> QED  BY <1>2, <1>3, <1>4, PostErrorType DEF Finalize

LEMMA RecoverKeeps ==
    ASSUME IInv, NEW c \in Call, Recover(c)
    PROVE  IInv'
  <1> DEFINE s == call[c].sid
  <1>0. Live(c) /\ call[c].pc = "recover"
    BY DEF Recover, Live
  <1>1. CallOK(c) /\ s \in Request /\ status[s] \in ClaimedStatus
    BY <1>0 DEF IInv, CallsOK, CallOK
  <1>2. /\ Around(c) /\ Kept
        /\ ReadOnly \/ UNCHANGED boundVars \/ Fault
    <2>1. CASE ReadOnly
      BY <2>1, Reading
    <2>2. CASE ~ReadOnly
      <3>1. /\ FinalizeAttempt(s, "NONE") /\ UNCHANGED <<command, providerVars>>
            /\ UNCHANGED boundVars \/ Fault
        BY <2>2 DEF Recover
      <3>2. "NONE" \in ProviderResult /\ ~Rejected(s, "NONE")
        BY DEF ProviderResult, Rejected
      <3> QED  BY <1>1, <3>1, <3>2, FinalizeAround
    <2> QED  BY <2>1, <2>2
  <1>3. BoundsType'
    BY <1>2, ServiceAssumption DEF ReadOnly, boundVars, Fault, IInv, BoundsType
  <1>4. Raise(c, "ERROR") \/ Proceed(c, At(c, "get"))
    BY DEF Recover
  <1>5. CASE Raise(c, "ERROR")
    BY <1>0, <1>2, <1>3, <1>5, RaiseKeeps, Together DEF Reply
  <1>6. CASE Proceed(c, At(c, "get"))
    <2>1. status'[s] # "ABSENT"
      BY <1>0, <1>1, <1>2, LiveFacts DEF ClaimedStatus
    <2> QED  BY <1>0, <1>2, <1>3, <1>6, <2>1, GoingOn, Together
  <1> QED  BY <1>4, <1>5, <1>6

LEMMA GetKeeps ==
    ASSUME IInv, NEW c \in Call, Get(c)
    PROVE  IInv'
  <1> DEFINE found == status[call[c].sid]
  <1>0. Live(c) /\ call[c].pc = "get" /\ ReadOnly
    BY DEF Get, Live
  <1>1. Around(c) /\ BoundsType' /\ Kept
    BY <1>0, Reading
  <1>2. CallOK(c) /\ found \in SettlementStatus
    BY <1>0 DEF IInv, CallsOK, CallOK, DatabaseOK, DatabaseType, RowStatus
  <1>3. Proceed(c, Answer(c, found)) /\ found \in Reply
    BY <1>2 DEF Get, Reply, SettlementStatus
  <1> QED  BY <1>0, <1>1, <1>3, Answering, Together

LEMMA PostReconcileKeeps ==
    ASSUME IInv, NEW m \in Manual, PostReconcile(m)
    PROVE  IInv'
  <1>0. m \in Call /\ m \notin Request /\ ReadOnly
    BY DistinctCalls DEF Call, PostReconcile
  <1>1. Around(m) /\ BoundsType' /\ Kept
    BY <1>0, Reading
  <1>2. PICK s \in Request : Proceed(m, [Idle EXCEPT !.pc = "read", !.sid = s])
    BY DEF PostReconcile
  <1> DEFINE n == [Idle EXCEPT !.pc = "read", !.sid = s]
  <1>3. n \in CallState /\ n.pc = "read" /\ n.sid = s /\ n.token = 0
    BY IdleType DEF CallState
  <1> HIDE DEF n
  <1>4. Proceed(m, n) /\ call'[m] = n
    BY <1>0, <1>2, Moves DEF n, IInv
  <1>5. 0 <= attempts'[s].token
    BY <1>0, AttemptType DEF IInv, DatabaseOK, ReadOnly, database
  <1>6. CallOK(m)'
    BY <1>0, <1>3, <1>4, <1>5 DEF CallOK, Live
  <1> QED  BY <1>0, <1>1, <1>3, <1>4, <1>6, ProceedKeeps, Together

LEMMA ReadKeeps ==
    ASSUME IInv, NEW m \in Manual, Read(m)
    PROVE  IInv'
  <1> DEFINE s == call[m].sid
  <1>0. /\ m \in Call /\ m \notin Request /\ ReadOnly /\ Live(m)
        /\ call[m].pc = "read"
    BY DistinctCalls DEF Call, Read, Live
  <1>1. Around(m) /\ BoundsType' /\ Kept
    BY <1>0, Reading
  <1>2. /\ CallOK(m) /\ s \in Request /\ call[m].token = 0
        /\ status[s] \in RowStatus
    BY <1>0 DEF IInv, CallsOK, CallOK, DatabaseOK, DatabaseType
  <1>3. CASE Raise(m, "NOT_FOUND")
    BY <1>0, <1>1, <1>3, RaiseKeeps, Together DEF Reply
  <1>4. CASE status[s] # "ABSENT" /\ Proceed(m, Answer(m, status[s]))
    <2>1. status[s] \in Reply
      BY <1>2, <1>4 DEF RowStatus, Reply
    <2> QED  BY <1>0, <1>1, <1>4, <2>1, Answering, Together
  <1>5. CASE status[s] \in Unresolved /\ Proceed(m, At(m, "reclaim"))
    <2>1. /\ At(m, "reclaim") \in CallState /\ call'[m].pc = "reclaim"
          /\ call'[m].sid = s /\ call'[m].token = 0
      BY <1>0, <1>2, <1>5, AtType, Moves DEF IInv
    <2>2. CallOK(m)'
      BY <1>0, <1>1, <1>2, <1>5, <2>1, LiveFacts DEF CallOK, Live, ClaimedStatus
    <2> QED  BY <1>0, <1>1, <1>5, <2>1, <2>2, ProceedKeeps, Together
  <1> QED  BY <1>3, <1>4, <1>5 DEF Read

LEMMA ClaimForReconciliationKeeps ==
    ASSUME IInv, NEW m \in Manual, ClaimForReconciliation(m)
    PROVE  IInv'
  <1> DEFINE s == call[m].sid
             n == [At(m, "lookup") EXCEPT !.token = NextClaim(s).token]
  <1>0. m \in Call /\ m \notin Request /\ Live(m) /\ call[m].pc = "reclaim"
    BY DistinctCalls DEF Call, ClaimForReconciliation, Live
  <1>1. CallOK(m) /\ s \in Request /\ status[s] \in ClaimedStatus
    BY <1>0 DEF IInv, CallsOK, CallOK
  <1>2. CASE Proceed(m, At(m, "get")) /\ ReadOnly
    <2>1. Around(m) /\ BoundsType' /\ Kept
      BY <1>2, Reading
    <2>2. status'[s] # "ABSENT"
      BY <1>0, <1>1, <2>1, LiveFacts DEF ClaimedStatus
    <2> QED  BY <1>0, <1>2, <2>1, <2>2, GoingOn, Together
  <1>3. CASE /\ attempts[s].token < MaxToken
             /\ attempts' = [attempts EXCEPT ![s] = NextClaim(s)]
             /\ Acknowledge(m, n)
             /\ UNCHANGED <<command, status, ledgerVars, providerVars>>
    <2>1. Kept
      BY <1>1, <1>3, Reclaiming DEF IInv
    <2>2. Around(m) /\ status'[s] \in ClaimedStatus
      BY <1>1, <1>3, <2>1, Writing
    <2>3. /\ NextClaim(s).token \in 1 .. MaxToken
          /\ attempts'[s].token = NextClaim(s).token
      BY <1>1, <1>3, NextClaimType DEF IInv, DatabaseOK, DatabaseType
    <2>4. /\ n \in CallState /\ n.pc = "lookup" /\ n.sid = s
          /\ n.token = NextClaim(s).token
      BY <1>0, <2>3, AtType, ServiceAssumption DEF CallState, IInv
    <2> HIDE DEF n
    <2>5. ASSUME Proceed(m, n)
          PROVE  CallOK(m)'
      <3>1. call'[m] = n
        BY <1>0, <2>5, Moves DEF IInv
      <3>2. call'[m].token <= attempts'[s].token
        BY <2>3, <2>4, <3>1, ServiceAssumption
      <3> QED  BY <1>0, <1>1, <2>2, <2>4, <3>1, <3>2 DEF CallOK, Live
    <2>6. Acknowledge(m, n) /\ BoundsType
      BY <1>3 DEF IInv
    <2> QED  BY <1>0, <2>1, <2>2, <2>4, <2>5, <2>6, AcknowledgeKeeps, Together
  <1> QED  BY <1>2, <1>3 DEF ClaimForReconciliation

LEMMA NobodyCalls == \E c : c \notin Call
  BY NoSetContainsEverything

\* A step of nobody's: the calls are as they were, or gone with the process.
LEMMA Surroundings ==
    ASSUME IInv, Kept, UNCHANGED <<command, status>>, BoundsType',
           \/ UNCHANGED <<call, batch>>
              /\ phase' \in {"down", "starting", "recovering", "serving",
                             "stopping"}
           \/ Die
    PROVE  IInv'
  <1>1. PICK c : c \notin Call
    BY NobodyCalls
  <1>2. Around(c)
    BY Writing
  <1>3. CASE Die
    BY <1>1, <1>2, <1>3, DieKeeps, Together
  <1>4. CASE ~Die
    <2>1. CallsOK'
      BY <1>1, <1>2, <1>4, Waiting DEF CallsOK
    <2>2. ProcessType'
      BY <1>4 DEF IInv, ProcessType
    <2> QED  BY <2>1, <2>2, Together DEF CallsKept
  <1> QED  BY <1>3, <1>4

LEMMA LifespanKeeps ==
    ASSUME IInv,
           Startup \/ Serve \/ Stop \/ Exit \/ Crash \/ StartupError
    PROVE  IInv'
  <1>1. UNCHANGED database
    BY DEF Startup, Serve, Stop, Exit, Crash, StartupError
  <1>2. Kept /\ UNCHANGED <<command, status>>
    BY <1>1, Idling DEF IInv, database
  <1>3. BoundsType'
    <2>1. UNCHANGED boundVars \/ Fault \/ Outage
      BY DEF Startup, Serve, Stop, Exit, Crash, StartupError
    <2> QED  BY <2>1, ServiceAssumption
             DEF IInv, BoundsType, boundVars, Fault, Outage
  <1>4. \/ UNCHANGED <<call, batch>>
           /\ phase' \in {"down", "starting", "recovering", "serving",
                          "stopping"}
        \/ Die
    BY DEF Startup, Serve, Stop, Exit, Crash, StartupError
  <1> QED  BY <1>2, <1>3, <1>4, Surroundings

LEMMA LeaseExpiresKeeps ==
    ASSUME IInv, NEW s \in Request, LeaseExpires(s)
    PROVE  IInv'
  <1>1. Kept
    BY Expiring DEF IInv, LeaseExpires
  <1>2. UNCHANGED <<command, status, call, batch, phase, faults, outages>>
    BY DEF LeaseExpires, processVars, boundVars
  <1> QED  BY <1>1, <1>2, Surroundings DEF IInv, BoundsType, ProcessType

LEMMA DatabaseErrorKeeps ==
    ASSUME IInv, NEW c \in Call, DatabaseError(c)
    PROVE  IInv'
  <1>1. ordinal \in Nat
    BY DEF IInv, DatabaseOK, DatabaseType, ProviderTypeOK
  <1>2. ordinal' \in Nat
    BY <1>1 DEF DatabaseError
  <1>3. Kept
    BY <1>2, Burning DEF IInv, DatabaseError
  <1>4. Around(c)
    BY <1>3, Writing DEF DatabaseError
  <1>5. CallsKept
    BY <1>4, ExceptKeeps DEF DatabaseError, Reply
  <1>6. BoundsType'
    BY ServiceAssumption DEF DatabaseError, Fault, IInv, BoundsType
  <1> QED  BY <1>3, <1>5, <1>6, Together

LEMMA ClaimDueBatchKeeps ==
    ASSUME IInv, NEW B \in SUBSET Request, ClaimDueBatch(B)
    PROVE  IInv'
  <1>1. Kept
    BY ClaimingBatch DEF IInv, ClaimDueBatch
  <1>2. UNCHANGED <<command, status>>
    BY DEF ClaimDueBatch
  <1>3. CASE Fault /\ (Die \/ UNCHANGED processVars)
    <2>1. BoundsType'
      BY <1>3, ServiceAssumption DEF Fault, IInv, BoundsType
    <2>2. Die \/ UNCHANGED <<call, batch, phase>>
      BY <1>3 DEF processVars
    <2> QED  BY <1>1, <1>2, <2>1, <2>2, Surroundings DEF IInv, ProcessType
  <1>4. CASE ~(Fault /\ (Die \/ UNCHANGED processVars))
    <2>1. /\ batch' = {WorkerFor(s) : s \in B}
          /\ call' = [c \in Call |->
                        IF c \in batch'
                        THEN [Idle EXCEPT !.pc = "lookup", !.sid = c[1],
                                          !.token = c[2]]
                        ELSE call[c]]
          /\ phase' = IF phase = "starting" THEN "recovering" ELSE phase
          /\ UNCHANGED boundVars
      BY <1>4 DEF ClaimDueBatch
    <2>2. ASSUME NEW s \in B
          PROVE  /\ status[s] \in ClaimedStatus /\ attempts'[s] = NextClaim(s)
                 /\ WorkerFor(s) = <<s, NextClaim(s).token>>
                 /\ NextClaim(s).token \in 1 .. MaxToken
      BY NextClaimType DEF ClaimDueBatch, Due, ClaimedStatus, IInv, WorkerFor
    <2>3. batch' \subseteq Worker
      <3> SUFFICES ASSUME NEW w \in batch'
                   PROVE  w \in Worker
        OBVIOUS
      <3>1. PICK s \in B : w = WorkerFor(s)
        BY <2>1
      <3> QED  BY <2>2, <3>1 DEF Worker
    <2>5. PICK x : x \notin Call
      BY NobodyCalls
    <2>6. Around(x)
      BY <1>1, <1>2, Writing
    <2>7. ASSUME NEW c \in Call
          PROVE  call'[c] \in CallState /\ CallOK(c)'
      <3>1. CASE c \notin batch'
        <4>1. call'[c] = call[c]
          BY <2>1, <3>1
        <4> QED  BY <2>5, <2>6, <4>1, Waiting, CallTypes DEF IInv
      <3>2. CASE c \in batch'
        <4>1. PICK s \in B : c = <<s, NextClaim(s).token>>
          BY <2>1, <2>2, <3>2
        <4>2. c[1] = s /\ c[2] = NextClaim(s).token /\ s \in Request
          BY <4>1
        <4> DEFINE k == NextClaim(s).token
                   n == [Idle EXCEPT !.pc = "lookup", !.sid = s, !.token = k]
        <4>3. call'[c] = n
          BY <2>1, <3>2, <4>2
        <4>4. k \in 0 .. MaxToken
          BY <2>2, ServiceAssumption
        <4> HIDE DEF k
        <4>5. /\ n \in CallState /\ n.pc = "lookup" /\ n.sid = s
              /\ n.token = k /\ n.result = "NONE"
          BY <4>2, <4>4, IdleType DEF CallState
        <4> HIDE DEF n
        <4>6. c \notin Request
          BY <2>3, <3>2, DistinctCalls
        <4>7. call'[c].token <= attempts'[s].token
          BY <2>2, <4>5, <4>3, ServiceAssumption DEF k
        <4>8. status'[s] \in ClaimedStatus
          BY <1>2, <2>2
        <4> QED  BY <4>2, <4>5, <4>3, <4>6, <4>7, <4>8 DEF CallOK, Live
      <3> QED  BY <3>1, <3>2
    <2>8. call' \in [Call -> CallState] /\ CallsOK'
      BY <2>1, <2>7 DEF CallsOK
    <2>9. ProcessType'
      BY <2>1, <2>3, <2>8 DEF IInv, ProcessType
    <2>10. BoundsType'
      BY <2>1 DEF IInv, BoundsType, boundVars
    <2> QED  BY <1>1, <2>8, <2>9, <2>10, Together DEF CallsKept
  <1> QED  BY <1>3, <1>4

-----------------------------------------------------------------------------
(* The invariant holds at first, and always *)

LEMMA LedgerInitType == LedgerInit => LedgerTypeOK
  <1> SUFFICES ASSUME LedgerInit
               PROVE  LedgerTypeOK
    OBVIOUS
  <1>1. ASSUME NEW a \in Account
        PROVE  balance[a] \in Int
    <2>1. CASE a = Omnibus
      BY <2>1, LedgerAssumption DEF LedgerInit
    <2>2. CASE a # Omnibus
      <3>1. a[1] \in Holder
        BY <2>2 DEF Account
      <3>2. Opening[a[1]] \in Nat
        BY <3>1, SchemaAssumption
      <3>3. balance[a] = IF a[2] = "AVAILABLE" THEN Opening[a[1]] ELSE 0
        BY <2>2 DEF LedgerInit
      <3> QED  BY <3>2, <3>3
    <2> QED  BY <2>1, <2>2
  <1>2. balance \in [Account -> Int]
    BY <1>1 DEF LedgerInit
  <1>3. ASSUME NEW h \in Holder
        PROVE  OpeningJournal(h) \in Journal
    <2>1. Omnibus \in Account /\ AvailableOf(h) \in Account
      BY DEF Account, AvailableOf
    <2>2. Opening[h] \in Nat
      BY SchemaAssumption
    <2> QED  BY <2>1, <2>2 DEF OpeningJournal, Journal, JournalEvent
  <1> QED  BY <1>2, <1>3 DEF LedgerInit, LedgerTypeOK

LEMMA InitIInv == Init => IInv
  <1> SUFFICES ASSUME Init
               PROVE  IInv
    OBVIOUS
  <1>1. DatabaseType
    BY LedgerInitType, ProviderAssumption
       DEF Init, DatabaseType, ProviderInit, ProviderTypeOK, RowStatus
  <1>2. \A s \in Request : /\ status[s] = "ABSENT" /\ attempts[s].token = 0
                           /\ operations[s] = NoOperation
                           /\ command[s] = NoCommand
    BY DEF Init, ProviderInit, NoAttempt
  <1>3. \A s \in Request : RowOK(s)
    BY <1>2 DEF RowOK, ClaimedStatus, Recorded, NoOperation
  <1>4. UniqueKey /\ OutcomeMatchesProvider
    BY <1>2 DEF UniqueKey, OutcomeMatchesProvider
  <1>5. \A j \in journals : j.event = "OPENING"
    BY DEF Init, LedgerInit, OpeningJournal
  <1>6. JournalsFollowStatus
    BY <1>2, <1>5 DEF JournalsFollowStatus, IsPosted
  <1>7. ProcessType /\ BoundsType
    BY IdleType, ServiceAssumption DEF Init, ProcessType, BoundsType
  <1>8. ASSUME NEW c \in Call
        PROVE  CallOK(c)
    <2>1. call[c] = Idle /\ call[c].pc = "idle"
      BY IdleType DEF Init
    <2> QED  BY <1>2, <2>1 DEF CallOK, Live
  <1> QED  BY <1>1, <1>3, <1>4, <1>6, <1>7, <1>8 DEF IInv, DatabaseOK, CallsOK

LEMMA NextIInv == IInv /\ [Next]_vars => IInv'
  <1> SUFFICES ASSUME IInv, [Next]_vars
               PROVE  IInv'
    OBVIOUS
  <1>1. ASSUME NEW r \in Request, PostSettlement(r) \/ CreateStep(r)
        PROVE  IInv'
    BY <1>1, PostSettlementKeeps, FindKeeps, InsertKeeps, ClaimReservedKeeps
       DEF CreateStep
  <1>2. ASSUME NEW m \in Manual, PostReconcile(m) \/ ReconcileStep(m)
        PROVE  IInv'
    BY <1>2, PostReconcileKeeps, ReadKeeps, ClaimForReconciliationKeeps
       DEF ReconcileStep
  <1>3. ASSUME NEW c \in Call, PayoutStep(c) \/ DatabaseError(c)
        PROVE  IInv'
    BY <1>3, SubmitPayoutKeeps, LookupPayoutKeeps, FinalizeStepKeeps,
       RecoverKeeps, GetKeeps, DatabaseErrorKeeps DEF PayoutStep
  <1>4. ASSUME NEW B \in SUBSET Request, ClaimDueBatch(B)
        PROVE  IInv'
    BY <1>4, ClaimDueBatchKeeps
  <1>5. ASSUME NEW s \in Request, LeaseExpires(s)
        PROVE  IInv'
    BY <1>5, LeaseExpiresKeeps
  <1>6. CASE Startup \/ Serve \/ Stop \/ Exit \/ Crash \/ StartupError
    BY <1>6, LifespanKeeps
  <1>7. CASE UNCHANGED vars
    <2>1. /\ UNCHANGED database
          /\ UNCHANGED <<command, status, call, batch, phase, faults, outages>>
      BY <1>7 DEF vars, database, processVars, boundVars
    <2>2. Kept
      BY <2>1, Idling DEF IInv
    <2> QED  BY <2>1, <2>2, Surroundings DEF IInv, BoundsType, ProcessType
  <1> QED  BY <1>1, <1>2, <1>3, <1>4, <1>5, <1>6, <1>7 DEF Next

(* The inductive invariant holds in every reachable state. *)
THEOREM Invariance == Spec => []IInv
  BY InitIInv, NextIInv, PTL DEF Spec

(* Every variable keeps its type: no action of create, reconcile, the
   background reconciler, the provider or the lifespan writes a value that
   its column or local does not admit, tokens and the two bounds included. *)
THEOREM TypeCorrectness == Spec => []TypeOK
  <1>1. IInv => TypeOK
    BY DEF IInv, DatabaseOK, DatabaseType, ProcessType, BoundsType, TypeOK
  <1> QED  BY <1>1, Invariance, PTL

(* A settlement is SUCCESS only if the provider paid and FAILED only if it did
   not, whichever call of create, reconcile or the reconciler finalized it,
   however many crashes, database errors and late answers there were. *)
THEOREM OutcomeCorrectness == Spec => []OutcomeMatchesProvider
  <1>1. IInv => OutcomeMatchesProvider
    BY DEF IInv, DatabaseOK
  <1> QED  BY <1>1, Invariance, PTL

(* The journals of a settlement are those its status calls for: reserve,
   consume and release commit with the status they belong to, once each. *)
THEOREM JournalCorrectness == Spec => []JournalsFollowStatus
  <1>1. IInv => JournalsFollowStatus
    BY DEF IInv, DatabaseOK
  <1> QED  BY <1>1, Invariance, PTL

(* Create calls with one owner and one idempotency key, however they race,
   retry and fail, lead to at most one operation at the provider. *)
THEOREM PayoutUniqueness == Spec => []OnePayoutPerKey
  <1>1. IInv => OnePayoutPerKey
    <2> SUFFICES ASSUME IInv, NEW s \in Request, NEW t \in Request,
                        Recorded(s), Recorded(t),
                        command[s].owner = command[t].owner,
                        command[s].key = command[t].key
                 PROVE  s = t
      BY DEF OnePayoutPerKey
    <2>1. RowOK(s) /\ RowOK(t) /\ UniqueKey
      BY DEF IInv, DatabaseOK
    <2>2. status[s] # "ABSENT" /\ status[t] # "ABSENT"
      BY <2>1 DEF RowOK, ClaimedStatus
    <2> QED  BY <2>1, <2>2 DEF UniqueKey
  <1> QED  BY <1>1, Invariance, PTL

-----------------------------------------------------------------------------
(* What a step may never do *)

Ended(n) == n.pc \in {"idle", "done"}

LEMMA AnswerEnds ==
    ASSUME ProcessType, NEW c \in Call, NEW reply
    PROVE  Ended(Answer(c, reply))
  BY CallTypes, IdleType DEF Answer, Ended, CallState

LEMMA RowTypes ==
    ASSUME IInv
    PROVE  /\ status \in [Request -> RowStatus]
           /\ attempts \in [Request -> Attempt \cup {NoAttempt}]
  BY DEF IInv, DatabaseOK, DatabaseType

\* The steps that write rows.
LEMMA Writes ==
    ASSUME IInv, [Next]_vars
    PROVE  \/ UNCHANGED <<status, attempts>>
           \/ \E r \in Request : (Insert(r) \/ ClaimReserved(r)) /\ ~UNCHANGED status
           \/ \E m \in Manual : ClaimForReconciliation(m) /\ ~UNCHANGED attempts
           \/ \E c \in Call : /\ Finalize(c) \/ Recover(c)
                              /\ ~UNCHANGED <<status, attempts>>
           \/ \E B \in SUBSET Request : ClaimDueBatch(B)
           \/ \E s \in Request : LeaseExpires(s)
  <1>1. ASSUME NEW r \in Request, PostSettlement(r) \/ Find(r)
        PROVE  UNCHANGED <<status, attempts>>
    BY <1>1 DEF PostSettlement, Find, ReadOnly, database
  <1>2. ASSUME NEW r \in Request, Insert(r) \/ ClaimReserved(r), UNCHANGED status
        PROVE  UNCHANGED <<status, attempts>>
    BY <1>2, RowTypes DEF Insert, ClaimReserved, ReadOnly, database, IInv, CallsOK,
       CallOK, Live, Call
  <1>3. ASSUME NEW m \in Manual, PostReconcile(m) \/ Read(m)
        PROVE  UNCHANGED <<status, attempts>>
    BY <1>3 DEF PostReconcile, Read, ReadOnly, database
  <1>4. ASSUME NEW m \in Manual, ClaimForReconciliation(m), UNCHANGED attempts
        PROVE  UNCHANGED <<status, attempts>>
    BY <1>4 DEF ClaimForReconciliation, ReadOnly, database
  <1>5. ASSUME NEW c \in Call, \/ SubmitPayout(c) \/ LookupPayout(c) \/ Get(c)
                               \/ DatabaseError(c)
        PROVE  UNCHANGED <<status, attempts>>
    BY <1>5 DEF SubmitPayout, LookupPayout, Get, DatabaseError, ReadOnly,
       database
  <1>6. ASSUME Startup \/ Serve \/ Stop \/ Exit \/ Crash \/ StartupError
        PROVE  UNCHANGED <<status, attempts>>
    BY <1>6 DEF Startup, Serve, Stop, Exit, Crash, StartupError, database
  <1>7. CASE UNCHANGED vars
    BY <1>7 DEF vars
  <1>8. CASE Next
    BY <1>1, <1>2, <1>3, <1>4, <1>5, <1>6, <1>8
       DEF Next, CreateStep, ReconcileStep, PayoutStep
  <1> QED  BY <1>7, <1>8

\* Only a claim has a lease: an attempt that waits for the reconciler has
\* given its lease up, and one that is completed is of a settlement that is.
LeaseOK ==
    \A s \in Request :
        /\ attempts[s].state = "RECONCILING" => attempts[s].lease = "EXPIRED"
        /\ attempts[s].state = "COMPLETED" => status[s] \notin Unresolved

\* An exception, or an answer, takes a call away from where it finalizes.
LEMMA RaiseLeaves ==
    ASSUME IInv, NEW c \in Call, Live(c), NEW error, Raise(c, error)
    PROVE  call'[c] # call[c]
  <1>1. Ended(call'[c])
    <2>1. CASE Die
      BY <2>1, AnswerEnds DEF Die, Killed, IInv
    <2>2. CASE call' = [call EXCEPT ![c] = Answer(c, error)]
      BY <2>2, AnswerEnds DEF IInv, ProcessType
    <2> QED  BY <2>1, <2>2 DEF Raise
  <1> QED  BY <1>1 DEF Ended, Live

LEMMA FinalizeLeaves ==
    ASSUME IInv, NEW c \in Call, call[c].pc = "finalize", NEW reply,
           Acknowledge(c, Answer(c, reply))
    PROVE  call'[c] # call[c]
  <1>1. Live(c) /\ call[c] \in CallState /\ call \in [Call -> CallState]
    BY CallTypes DEF Live, IInv, ProcessType
  <1>2. CASE Proceed(c, Answer(c, reply))
    <2>1. Ended(call'[c])
      BY <1>1, <1>2, AnswerEnds DEF Proceed, IInv
    <2> QED  BY <1>1, <2>1 DEF Ended, Live
  <1>3. CASE Except(c, "ERROR")
    <2>1. CASE Proceed(c, Recovering(c))
      <3>1. call'[c] = Recovering(c)
        BY <1>1, <2>1 DEF Proceed
      <3>2. Recovering(c).pc = "recover"
        BY <1>1 DEF Recovering, CallState
      <3> QED  BY <3>1, <3>2
    <2>2. CASE Raise(c, "ERROR")
      BY <1>1, <2>2, RaiseLeaves
    <2> QED  BY <1>3, <2>1, <2>2 DEF Except
  <1> QED  BY <1>2, <1>3 DEF Acknowledge

LEMMA RecoverLeaves ==
    ASSUME IInv, NEW c \in Call, Recover(c), ~Stale(c)
    PROVE  call'[c] # call[c]
  <1>1. call[c].pc = "recover" /\ Live(c)
    BY DEF Recover, Live
  <1>2. call[c] \in CallState /\ call \in [Call -> CallState]
    BY CallTypes DEF IInv, ProcessType
  <1>3. CASE Raise(c, "ERROR")
    BY <1>1, <1>3, RaiseLeaves
  <1>4. CASE Proceed(c, At(c, "get"))
    <2>1. call'[c] = At(c, "get") /\ At(c, "get").pc = "get"
      BY <1>2, <1>4 DEF Proceed, At, CallState
    <2> QED  BY <1>1, <2>1
  <1> QED  BY <1>3, <1>4 DEF Recover

\* The holder of the current token is the one that finalizes.
LEMMA FinalizeAttemptMoves ==
    ASSUME IInv, LeaseOK, NEW c \in Call, Live(c), NEW result,
           status[call[c].sid] \in ClaimedStatus,
           call[c].pc \in {"finalize", "recover"}, ~Stale(c),
           call'[c] # call[c],
           FinalizeAttempt(call[c].sid, result)
    PROVE  /\ \A s \in Request : MovesUnderToken(s) /\ RespectsLease(s)
           /\ LeaseOK'
  <1> DEFINE s == call[c].sid
  <1>1. s \in Request /\ call[c].token = attempts[s].token
    BY DEF IInv, CallsOK, CallOK, Stale
  <1>2. Finalizes(c, s)
    BY <1>1 DEF Finalizes
  <1>3. /\ status \in [Request -> RowStatus]
        /\ attempts \in [Request -> Attempt \cup {NoAttempt}]
    BY RowTypes
  <1>4. CASE Settled(s)
    BY <1>4 DEF FinalizeAttempt, MovesUnderToken, RespectsLease, LeaseOK
  <1>5. CASE ~Settled(s)
    <2>1. status[s] \in Unresolved
      BY <1>5 DEF Settled, ClaimedStatus
    <2>2. /\ status'[s] \in Terminal \cup {"PENDING_RECONCILIATION"}
          /\ \A t \in Request \ {s} :
                 status'[t] = status[t] /\ attempts'[t] = attempts[t]
      BY <1>1, <1>3, <1>5 DEF FinalizeAttempt, Settle
    <2>3. <<status[s], status'[s]>> \in Arrows
      BY <2>1, <2>2 DEF Arrows
    <2>4. attempts[s] \in Attempt
      BY <1>1, <2>1, AttemptType DEF IInv, DatabaseOK, RowOK, ClaimedStatus
    <2>5. \/ attempts'[s].state = "COMPLETED" /\ status'[s] \in Terminal
          \/ attempts'[s].state = "RECONCILING" /\ attempts'[s].lease = "EXPIRED"
      BY <1>1, <1>3, <1>5, <2>4 DEF FinalizeAttempt, Settle, Attempt
    <2>6. LeaseOK'
      BY <2>2, <2>5 DEF LeaseOK
    <2> QED  BY <1>2, <2>2, <2>3, <2>6 DEF MovesUnderToken, RespectsLease
  <1> QED  BY <1>4, <1>5

LEMMA StepMoves ==
    ASSUME IInv, LeaseOK, [Next]_vars
    PROVE  /\ \A s \in Request : MovesUnderToken(s) /\ RespectsLease(s)
           /\ LeaseOK'
  <1> DEFINE Goal == /\ \A s \in Request : MovesUnderToken(s) /\ RespectsLease(s)
                     /\ LeaseOK'
  <1>0. /\ status \in [Request -> RowStatus]
        /\ attempts \in [Request -> Attempt \cup {NoAttempt}]
    BY RowTypes
  <1>1. CASE UNCHANGED <<status, attempts>>
    BY <1>1 DEF MovesUnderToken, RespectsLease, LeaseOK
  <1>2. ASSUME NEW r \in Request, Insert(r), ~UNCHANGED status
        PROVE  Goal
    <2>1. /\ ~KeyTaken(command[r].owner, command[r].key)
          /\ status' = [status EXCEPT ![r] = "RESERVED"]
          /\ attempts' = attempts
      BY <1>2 DEF Insert, ReadOnly, database
    <2>2. status[r] = "ABSENT"
      BY <2>1 DEF KeyTaken, HasKey
    <2>3. <<"ABSENT", "RESERVED">> \in Arrows
      BY DEF Arrows
    <2>4. LeaseOK'
      BY <1>0, <2>1 DEF LeaseOK
    <2> QED  BY <1>0, <2>1, <2>2, <2>3, <2>4 DEF MovesUnderToken, RespectsLease
  <1>3. ASSUME NEW r \in Request, ClaimReserved(r), ~UNCHANGED status
        PROVE  Goal
    <2> DEFINE s == call[r].sid
               fresh == [state |-> "SUBMITTING", token |-> 1, lease |-> "RUNNING"]
    <2>1. /\ status[s] = "RESERVED" /\ call[r].pc = "claim"
          /\ status' = [status EXCEPT ![s] = "PAYOUT_IN_PROGRESS"]
          /\ attempts' = [attempts EXCEPT ![s] = fresh]
      BY <1>3 DEF ClaimReserved, ReadOnly, database
    <2>2. s \in Request
      BY <2>1 DEF IInv, CallsOK, CallOK, Live, Call
    <2>3. attempts[s] = NoAttempt /\ attempts[s].lease = "EXPIRED"
      BY <2>1, <2>2, <1>0, AttemptType
         DEF IInv, DatabaseOK, RowOK, ClaimedStatus, NoAttempt, Attempt
    <2>4. <<"RESERVED", "PAYOUT_IN_PROGRESS">> \in Arrows
      BY DEF Arrows
    <2>5. LeaseOK'
      BY <1>0, <2>1, <2>2 DEF LeaseOK
    <2> QED  BY <1>0, <2>1, <2>2, <2>3, <2>4, <2>5
             DEF MovesUnderToken, RespectsLease
  <1>4. ASSUME NEW m \in Manual, ClaimForReconciliation(m),
               ~UNCHANGED attempts
        PROVE  Goal
    <2> DEFINE s == call[m].sid
    <2>1. /\ call[m].pc = "reclaim" /\ status[s] \in Unresolved /\ ~Leased(s)
          /\ attempts[s].token < MaxToken
          /\ status' = status /\ attempts' = [attempts EXCEPT ![s] = NextClaim(s)]
          /\ Acknowledge(m, [At(m, "lookup") EXCEPT !.token = NextClaim(s).token])
      BY <1>4 DEF ClaimForReconciliation, ReadOnly, database
    <2>2. s \in Request /\ Live(m) /\ m \in Call
      BY <2>1 DEF IInv, CallsOK, CallOK, Live, Call
    <2>3. attempts[s] \in Attempt
      BY <2>1, <2>2, AttemptType DEF IInv, DatabaseOK, RowOK, ClaimedStatus
    <2>4. /\ attempts'[s].state = "CLAIMED"
          /\ attempts'[s].token > attempts[s].token
      BY <1>0, <2>1, <2>2, <2>3, NextClaimType
         DEF NextClaim, IInv
    <2>5. call'[m] # call[m]
      <3>1. call[m] \in CallState /\ call \in [Call -> CallState]
        BY <2>2, CallTypes DEF IInv, ProcessType
      <3>2. CASE Raise(m, "ERROR")
        BY <2>2, <3>2, RaiseLeaves
      <3>3. CASE Proceed(m, [At(m, "lookup") EXCEPT !.token = NextClaim(s).token])
        <4>1. call'[m].pc = "lookup"
          BY <2>2, <3>1, <3>3 DEF Proceed, At, CallState
        <4> QED  BY <2>1, <4>1
      <3>4. Except(m, "ERROR") => Raise(m, "ERROR")
        BY <2>1 DEF Except
      <3> QED  BY <2>1, <3>2, <3>3, <3>4 DEF Acknowledge
    <2>6. attempts[s].lease = "RUNNING" => TakesOverSubmission(m, s)
      BY <2>1, <2>2, <2>3, <2>4, <2>5
         DEF LeaseOK, Leased, Attempt, TakesOverSubmission
    <2>7. \A t \in Request \ {s} : attempts'[t] = attempts[t]
      BY <1>0, <2>1
    <2>8. LeaseOK'
      BY <2>1, <2>4, <2>7 DEF LeaseOK
    <2> QED  BY <2>1, <2>6, <2>7, <2>8 DEF MovesUnderToken, RespectsLease
  <1>5. ASSUME NEW B \in SUBSET Request, ClaimDueBatch(B)
        PROVE  Goal
    <2>1. /\ \A s \in B : attempts[s].lease = "EXPIRED"
          /\ status' = status
          /\ attempts' = [s \in Request |-> IF s \in B THEN NextClaim(s)
                                            ELSE attempts[s]]
      BY <1>5 DEF ClaimDueBatch, Due
    <2>2. \A s \in B : attempts'[s].state = "CLAIMED"
      BY <2>1 DEF NextClaim
    <2>3. LeaseOK'
      BY <2>1, <2>2 DEF LeaseOK
    <2> QED  BY <2>1, <2>3 DEF MovesUnderToken, RespectsLease
  <1>6. ASSUME NEW s \in Request, LeaseExpires(s)
        PROVE  Goal
    <2>1. /\ attempts' = [attempts EXCEPT ![s].lease = "EXPIRED"]
          /\ status' = status /\ status[s] \in Unresolved
      BY <1>6 DEF LeaseExpires
    <2>2. attempts[s] \in Attempt
      BY <2>1, AttemptType DEF IInv, DatabaseOK, RowOK, ClaimedStatus
    <2>3. /\ attempts'[s] = [attempts[s] EXCEPT !.lease = "EXPIRED"]
          /\ \A t \in Request \ {s} : attempts'[t] = attempts[t]
      BY <1>0, <2>1
    <2>4. attempts'[s].state = attempts[s].state /\ attempts'[s].lease = "EXPIRED"
      BY <2>2, <2>3 DEF Attempt
    <2>5. LeaseOK'
      BY <2>1, <2>3, <2>4 DEF LeaseOK
    <2> QED  BY <2>1, <2>3, <2>5 DEF MovesUnderToken, RespectsLease
  <1>7. ASSUME NEW c \in Call, Finalize(c), ~UNCHANGED <<status, attempts>>
        PROVE  Goal
    <2>1. /\ call[c].pc = "finalize" /\ ~Stale(c)
          /\ FinalizeAttempt(call[c].sid, call[c].result)
          /\ Acknowledge(c, Answer(c, status'[call[c].sid]))
      BY <1>7 DEF Finalize, ReadOnly, database
    <2>2. Live(c) /\ status[call[c].sid] \in ClaimedStatus
      BY <2>1 DEF Live, IInv, CallsOK, CallOK
    <2>3. call'[c] # call[c]
      BY <2>1, FinalizeLeaves
    <2> QED  BY <2>1, <2>2, <2>3, FinalizeAttemptMoves
  <1>8. ASSUME NEW c \in Call, Recover(c), ~UNCHANGED <<status, attempts>>
        PROVE  Goal
    <2>1. /\ call[c].pc = "recover" /\ ~Stale(c)
          /\ FinalizeAttempt(call[c].sid, "NONE")
      BY <1>8 DEF Recover, ReadOnly, database
    <2>2. Live(c) /\ status[call[c].sid] \in ClaimedStatus
      BY <2>1 DEF Live, IInv, CallsOK, CallOK
    <2>3. call'[c] # call[c]
      BY <1>8, <2>1, RecoverLeaves
    <2> QED  BY <2>1, <2>2, <2>3, FinalizeAttemptMoves
  <1> QED  BY <1>1, <1>2, <1>3, <1>4, <1>5, <1>6, <1>7, <1>8, Writes

LEMMA LeaseInvariance == Spec => []LeaseOK
  <1>1. Init => LeaseOK
    BY DEF Init, LeaseOK, NoAttempt
  <1>2. IInv /\ LeaseOK /\ [Next]_vars => LeaseOK'
    BY StepMoves
  <1> QED  BY <1>1, <1>2, Invariance, PTL DEF Spec

(* A claimed settlement changes status only in a step that is the finalization
   of the holder of the current token, and every change is an arrow of the
   state machine: the fencing of _finalize_attempt holds for any number of
   claimants. *)
THEOREM Fencing == Spec => StatusMovesUnderToken
  <1>1. IInv /\ LeaseOK /\ [Next]_vars => [\A s \in Request : MovesUnderToken(s)]_vars
    BY StepMoves
  <1> QED  BY <1>1, Invariance, LeaseInvariance, PTL DEF Spec, StatusMovesUnderToken

(* While any lease runs, that of a create call included, only the holder ends
   the attempt and nobody claims it, in _claim_for_reconciliation as in
   _claim_due_batch, but for a manual reconcile that takes over a submission. *)
THEOREM LeaseExclusion == Spec => LeaseIsExclusive
  <1>1. IInv /\ LeaseOK /\ [Next]_vars => [\A s \in Request : RespectsLease(s)]_vars
    BY StepMoves
  <1> QED  BY <1>1, Invariance, LeaseInvariance, PTL DEF Spec, LeaseIsExclusive

-----------------------------------------------------------------------------
(* Tokens *)

\* What claim call d has after a step, if any, it had before.
Inherits(d) ==
    ~Ended(call'[d]) /\ call'[d].token # 0 =>
        /\ Live(d)
        /\ call'[d].token = call[d].token /\ call'[d].sid = call[d].sid

\* Call d has a claim that nobody had before the step.
Fresh(d) ==
    call'[d].sid \in Request /\ call'[d].token > attempts[call'[d].sid].token

\* Old claims are distinct, and none is as recent as a new one.
LEMMA TokensStayUnique ==
    ASSUME IInv, CallsKept, TokenIsUnique,
           \A d \in Call : Inherits(d) \/ Fresh(d),
           \A d, e \in Call : /\ ~Inherits(d) /\ ~Inherits(e)
                              /\ call'[d].sid = call'[e].sid
                              => d = e
    PROVE  TokenIsUnique'
  <1> SUFFICES ASSUME NEW c \in Call, NEW d \in Call, Live(c)', Live(d)',
                      call'[c].token > 0,
                      call'[c].token = call'[d].token,
                      call'[c].sid = call'[d].sid
               PROVE  c = d
    BY DEF TokenIsUnique
  <1>1. \A e \in Call : call'[e].token \in Nat /\ call[e].token \in Nat
    BY ServiceAssumption DEF IInv, CallsKept, ProcessType, CallState
  <1>2. ASSUME NEW e \in Call, Inherits(e), Live(e)', call'[e].token # 0
        PROVE  /\ Live(e) /\ ~Fresh(e)
               /\ call'[e].token = call[e].token /\ call'[e].sid = call[e].sid
               /\ call'[e].sid \in Request
               /\ call'[e].token <= attempts[call'[e].sid].token
               /\ attempts[call'[e].sid].token \in Nat
    <2>1. /\ Live(e) /\ call'[e].token = call[e].token
          /\ call'[e].sid = call[e].sid
      BY <1>2 DEF Inherits, Ended, Live
    <2>2. call[e].sid \in Request /\ call[e].token <= attempts[call[e].sid].token
      BY <2>1 DEF IInv, CallsOK, CallOK
    <2>3. attempts[call[e].sid].token \in Nat
      BY <2>2, AttemptType DEF IInv, DatabaseOK
    <2> QED  BY <1>1, <2>1, <2>2, <2>3 DEF Fresh
  <1>3. call'[c].token # 0 /\ call'[d].token # 0
    BY <1>1
  <1>4. CASE Inherits(c) /\ Inherits(d)
    BY <1>1, <1>2, <1>3, <1>4 DEF TokenIsUnique
  <1>5. CASE ~Inherits(c) /\ ~Inherits(d)
    BY <1>5
  <1>6. CASE Inherits(c) /\ Fresh(d)
    BY <1>1, <1>2, <1>3, <1>6 DEF Fresh
  <1>7. CASE Fresh(c) /\ Inherits(d)
    BY <1>1, <1>2, <1>3, <1>7 DEF Fresh
  <1> QED  BY <1>4, <1>5, <1>6, <1>7

LEMMA DieInherits ==
    ASSUME IInv, Die
    PROVE  \A d \in Call : Inherits(d)
  BY AnswerEnds DEF Die, Killed, Inherits, Ended, Live, IInv

LEMMA ProceedInherits ==
    ASSUME IInv, NEW c \in Call, NEW n, Proceed(c, n),
           \/ Ended(n) \/ n.token = 0
           \/ Live(c) /\ n.token = call[c].token /\ n.sid = call[c].sid
    PROVE  \A d \in Call : Inherits(d)
  <1>1. call'[c] = n /\ \A d \in Call \ {c} : call'[d] = call[d]
    BY DEF Proceed, IInv, ProcessType
  <1> QED  BY <1>1 DEF Inherits, Ended, Live

LEMMA RaiseInherits ==
    ASSUME IInv, NEW c \in Call, NEW error, Raise(c, error)
    PROVE  \A d \in Call : Inherits(d)
  <1>1. CASE Die
    BY <1>1, DieInherits
  <1>2. CASE ~Die
    <2>1. call' = [call EXCEPT ![c] = Answer(c, error)]
      BY <1>2 DEF Raise
    <2>2. call'[c] = Answer(c, error) /\ \A d \in Call \ {c} : call'[d] = call[d]
      BY <2>1 DEF IInv, ProcessType
    <2> QED  BY <2>2, AnswerEnds DEF Inherits, Ended, Live, IInv
  <1> QED  BY <1>1, <1>2

LEMMA ExceptInherits ==
    ASSUME IInv, NEW c \in Call, Live(c), NEW error, Except(c, error)
    PROVE  \A d \in Call : Inherits(d)
  <1>1. call[c] \in CallState
    BY CallTypes DEF IInv
  <1>2. CASE Proceed(c, WithResult(c, "NONE"))
    BY <1>1, <1>2, ProceedInherits DEF WithResult, CallState
  <1>3. CASE Proceed(c, Recovering(c))
    BY <1>1, <1>3, ProceedInherits DEF Recovering, CallState
  <1>4. CASE Raise(c, error)
    BY <1>4, RaiseInherits
  <1> QED  BY <1>2, <1>3, <1>4 DEF Except

LEMMA AtInherits ==
    ASSUME IInv, NEW c \in Call, Live(c), NEW pc \in ProgramCounter,
           Proceed(c, At(c, pc))
    PROVE  \A d \in Call : Inherits(d)
  BY AtType, ProceedInherits DEF IInv

LEMMA AnswerInherits ==
    ASSUME IInv, NEW c \in Call, NEW reply, Proceed(c, Answer(c, reply))
    PROVE  \A d \in Call : Inherits(d)
  BY AnswerEnds, ProceedInherits DEF IInv

\* A claim is committed: if its caller hears of it, the caller's is the only
\* new one.
LEMMA OneClaim ==
    ASSUME IInv, TokenIsUnique, IInv', NEW c \in Call, Live(c), NEW n,
           Acknowledge(c, n), n.sid \in Request,
           n.token > attempts[n.sid].token
    PROVE  TokenIsUnique'
  <1>0. CallsKept
    BY DEF IInv, CallsKept
  <1>1. CASE Proceed(c, n)
    <2>1. call'[c] = n /\ \A d \in Call \ {c} : call'[d] = call[d]
      BY <1>1 DEF Proceed, IInv, ProcessType
    <2>2. Fresh(c)
      BY <2>1 DEF Fresh
    <2>3. \A d \in Call \ {c} : Inherits(d)
      BY <2>1 DEF Inherits, Ended, Live
    <2> QED  BY <1>0, <2>2, <2>3, TokensStayUnique
  <1>2. CASE Except(c, "ERROR")
    <2>1. \A d \in Call : Inherits(d)
      BY <1>2, ExceptInherits
    <2> QED  BY <1>0, <2>1, TokensStayUnique
  <1> QED  BY <1>1, <1>2 DEF Acknowledge

\* No step but a claim gives anyone a claim.
LEMMA NoClaim ==
    ASSUME IInv, TokenIsUnique, IInv', \A d \in Call : Inherits(d)
    PROVE  TokenIsUnique'
  BY TokensStayUnique DEF IInv, CallsKept

LEMMA CreateInherits ==
    ASSUME IInv, NEW r \in Request,
           PostSettlement(r) \/ Find(r) \/ Insert(r)
    PROVE  \A d \in Call : Inherits(d)
  <1>0. r \in Call
    BY DEF Call
  <1>1. CASE PostSettlement(r)
    <2>1. [Idle EXCEPT !.pc = "find", !.sid = r].token = 0
      BY IdleType DEF CallState
    <2> QED  BY <1>0, <1>1, <2>1, ProceedInherits DEF PostSettlement
  <1>2. CASE Find(r)
    <2>1. Live(r) /\ call[r].token = 0 /\ call[r] \in CallState
      BY <1>0, <1>2, CallTypes DEF Find, Live, IInv, CallsOK, CallOK
    <2>2. CASE \E e : Raise(r, e)
      BY <1>0, <2>2, RaiseInherits
    <2>3. CASE Proceed(r, At(r, "insert"))
      BY <1>0, <2>1, <2>3, AtInherits
    <2>4. ASSUME NEW s \in Request, Proceed(r, [At(r, "claim") EXCEPT !.sid = s])
          PROVE  \A d \in Call : Inherits(d)
      <3>1. [At(r, "claim") EXCEPT !.sid = s].token = 0
        BY <2>1 DEF At, CallState
      <3> QED  BY <1>0, <2>4, <3>1, ProceedInherits
    <2>5. ASSUME NEW s \in Request,
                 Proceed(r, [Answer(r, status[s]) EXCEPT !.sid = s])
          PROVE  \A d \in Call : Inherits(d)
      <3>1. Ended([Answer(r, status[s]) EXCEPT !.sid = s])
        BY <2>1, DistinctCalls DEF Answer, Ended, CallState
      <3> QED  BY <1>0, <2>5, <3>1, ProceedInherits
    <2>6. KeyTaken(command[r].owner, command[r].key) =>
              FindByKey(command[r].owner, command[r].key) \in Request
      BY Found
    <2> QED  BY <1>2, <2>2, <2>3, <2>4, <2>5, <2>6 DEF Find, Existing
  <1>3. CASE Insert(r)
    <2>1. Live(r)
      BY <1>3 DEF Insert, Live
    <2>2. CASE \E e : Raise(r, e)
      BY <1>0, <2>2, RaiseInherits
    <2>3. CASE \E pc \in {"reload", "claim"} : Proceed(r, At(r, pc))
      BY <1>0, <2>1, <2>3, AtInherits
    <2>4. CASE Except(r, "ERROR")
      BY <1>0, <2>1, <2>4, ExceptInherits
    <2> QED  BY <1>3, <2>2, <2>3, <2>4 DEF Insert, Acknowledge
  <1> QED  BY <1>1, <1>2, <1>3

LEMMA PayoutInherits ==
    ASSUME IInv, NEW c \in Call, PayoutStep(c) \/ DatabaseError(c)
    PROVE  \A d \in Call : Inherits(d)
  <1>1. Live(c) /\ call[c] \in CallState
    BY CallTypes DEF PayoutStep, SubmitPayout, LookupPayout, Finalize, Recover,
       Get, DatabaseError, Live, IInv
  <1>2. CASE \E e : Raise(c, e)
    BY <1>2, RaiseInherits
  <1>3. CASE \E e : Except(c, e)
    BY <1>1, <1>3, ExceptInherits
  <1>4. CASE \E pc \in {"get", "initiate"} : Proceed(c, At(c, pc))
    BY <1>1, <1>4, AtInherits
  <1>5. CASE \E reply : Proceed(c, Answer(c, reply))
    BY <1>5, AnswerInherits
  <1>6. ASSUME NEW result, Proceed(c, WithResult(c, result))
        PROVE  \A d \in Call : Inherits(d)
    BY <1>1, <1>6, ProceedInherits DEF WithResult, CallState
  <1>7. CASE SubmitPayout(c)
    BY <1>3, <1>6, <1>7 DEF SubmitPayout, Acknowledge
  <1>8. CASE LookupPayout(c)
    BY <1>4, <1>6, <1>8 DEF LookupPayout
  <1>9. CASE Finalize(c)
    BY <1>3, <1>4, <1>5, <1>9 DEF Finalize, Acknowledge
  <1>10. CASE Recover(c)
    BY <1>2, <1>4, <1>10 DEF Recover
  <1>11. CASE Get(c)
    BY <1>2, <1>5, <1>11 DEF Get
  <1>12. CASE DatabaseError(c)
    BY <1>3, <1>12 DEF DatabaseError
  <1> QED  BY <1>7, <1>8, <1>9, <1>10, <1>11, <1>12 DEF PayoutStep

LEMMA BatchClaims ==
    ASSUME IInv, TokenIsUnique, IInv', NEW B \in SUBSET Request,
           ClaimDueBatch(B)
    PROVE  TokenIsUnique'
  <1>1. CASE Die
    BY <1>1, DieInherits, NoClaim
  <1>2. CASE UNCHANGED call
    BY <1>2, NoClaim DEF Inherits, Ended, Live
  <1>3. CASE /\ batch' = {WorkerFor(s) : s \in B}
             /\ call' = [c \in Call |->
                           IF c \in batch'
                           THEN [Idle EXCEPT !.pc = "lookup", !.sid = c[1],
                                             !.token = c[2]]
                           ELSE call[c]]
    <2>1. \A d \in Call : d \notin batch' => Inherits(d)
      BY <1>3 DEF Inherits, Ended, Live
    <2>2. ASSUME NEW d \in Call, d \in batch'
          PROVE  /\ Fresh(d) /\ call'[d].sid \in B
                 /\ d = WorkerFor(call'[d].sid)
      <3>1. PICK s \in B : d = WorkerFor(s)
        BY <1>3, <2>2
      <3>2. /\ NextClaim(s).token = attempts[s].token + 1
            /\ attempts[s].token \in Nat
        BY NextClaimType DEF ClaimDueBatch, Due, IInv
      <3>3. d[1] = s /\ d[2] = NextClaim(s).token
        BY <3>1 DEF WorkerFor
      <3>4. call'[d] = [Idle EXCEPT !.pc = "lookup", !.sid = s,
                                    !.token = attempts[s].token + 1]
        BY <1>3, <2>2, <3>2, <3>3
      <3>5. call'[d].sid = s /\ call'[d].token = attempts[s].token + 1
        BY <3>4, IdleType DEF CallState
      <3> QED  BY <3>1, <3>2, <3>5 DEF Fresh
    <2> QED  BY <2>1, <2>2, TokensStayUnique DEF IInv, CallsKept
  <1> QED  BY <1>1, <1>2, <1>3 DEF ClaimDueBatch, processVars

LEMMA NextTokens ==
    ASSUME IInv, TokenIsUnique, [Next]_vars, IInv'
    PROVE  TokenIsUnique'
  <1>1. ASSUME NEW r \in Request, PostSettlement(r) \/ Find(r) \/ Insert(r)
        PROVE  TokenIsUnique'
    BY <1>1, CreateInherits, NoClaim
  <1>2. ASSUME NEW r \in Request, ClaimReserved(r)
        PROVE  TokenIsUnique'
    <2> DEFINE s == call[r].sid
               n == [At(r, "initiate") EXCEPT !.token = 1]
    <2>1. r \in Call /\ Live(r) /\ call[r].pc = "claim"
      BY <1>2 DEF Call, ClaimReserved, Live
    <2>2. CASE Proceed(r, At(r, "get"))
      BY <2>1, <2>2, AtInherits, NoClaim
    <2>3. CASE status[s] = "RESERVED" /\ Acknowledge(r, n)
      <3>1. s \in Request /\ call[r] \in CallState
        BY <2>1, CallTypes DEF IInv, CallsOK, CallOK
      <3>2. attempts[s].token = 0
        BY <2>3, <3>1 DEF IInv, DatabaseOK, RowOK, ClaimedStatus
      <3>3. n.sid = s /\ n.token = 1
        BY <2>1, <3>1 DEF At, CallState
      <3> HIDE DEF n
      <3> QED  BY <2>1, <2>3, <3>1, <3>2, <3>3, OneClaim
    <2> QED  BY <1>2, <2>2, <2>3 DEF ClaimReserved
  <1>3. ASSUME NEW m \in Manual, PostReconcile(m) \/ Read(m)
        PROVE  TokenIsUnique'
    <2>0. m \in Call
      BY DEF Call
    <2>1. CASE PostReconcile(m)
      <3>1. PICK s \in Request :
                Proceed(m, [Idle EXCEPT !.pc = "read", !.sid = s])
        BY <2>1 DEF PostReconcile
      <3>2. [Idle EXCEPT !.pc = "read", !.sid = s].token = 0
        BY IdleType DEF CallState
      <3> QED  BY <2>0, <3>1, <3>2, ProceedInherits, NoClaim
    <2>2. CASE Read(m)
      <3>1. Live(m)
        BY <2>2 DEF Read, Live
      <3>2. \/ \E e : Raise(m, e) \/ Proceed(m, Answer(m, e))
            \/ Proceed(m, At(m, "reclaim"))
        BY <2>2 DEF Read
      <3> QED  BY <2>0, <3>1, <3>2, RaiseInherits, AnswerInherits, AtInherits,
                  NoClaim
    <2> QED  BY <1>3, <2>1, <2>2
  <1>4. ASSUME NEW m \in Manual, ClaimForReconciliation(m)
        PROVE  TokenIsUnique'
    <2> DEFINE s == call[m].sid
               n == [At(m, "lookup") EXCEPT !.token = NextClaim(s).token]
    <2>1. m \in Call /\ Live(m) /\ call[m].pc = "reclaim"
      BY <1>4 DEF Call, ClaimForReconciliation, Live
    <2>2. CASE Proceed(m, At(m, "get"))
      BY <2>1, <2>2, AtInherits, NoClaim
    <2>3. CASE attempts[s].token < MaxToken /\ Acknowledge(m, n)
      <3>1. s \in Request /\ call[m] \in CallState
        BY <2>1, CallTypes DEF IInv, CallsOK, CallOK
      <3>2. NextClaim(s).token > attempts[s].token
        BY <2>3, <3>1, NextClaimType DEF IInv
      <3>3. n.sid = s /\ n.token = NextClaim(s).token
        BY <2>1, <3>1 DEF At, CallState
      <3> HIDE DEF n
      <3> QED  BY <2>1, <2>3, <3>1, <3>2, <3>3, OneClaim
    <2> QED  BY <1>4, <2>2, <2>3 DEF ClaimForReconciliation
  <1>5. ASSUME NEW c \in Call, PayoutStep(c) \/ DatabaseError(c)
        PROVE  TokenIsUnique'
    BY <1>5, PayoutInherits, NoClaim
  <1>6. ASSUME NEW B \in SUBSET Request, ClaimDueBatch(B)
        PROVE  TokenIsUnique'
    BY <1>6, BatchClaims
  <1>7. CASE UNCHANGED call
    BY <1>7, NoClaim DEF Inherits, Ended, Live
  <1>8. CASE Die
    BY <1>8, DieInherits, NoClaim
  <1>9. CASE UNCHANGED vars
    BY <1>7, <1>9 DEF vars, processVars
  <1>10. ASSUME NEW s \in Request, LeaseExpires(s)
         PROVE  UNCHANGED call
    BY <1>10 DEF LeaseExpires, processVars
  <1>11. CASE Startup \/ Serve \/ Stop \/ Exit \/ Crash \/ StartupError
    BY <1>7, <1>8, <1>11 DEF Startup, Serve, Stop, Exit, Crash, StartupError
  <1>12. CASE Next
    BY <1>1, <1>2, <1>3, <1>4, <1>5, <1>6, <1>7, <1>10, <1>11, <1>12
       DEF Next, CreateStep, ReconcileStep
  <1> QED  BY <1>9, <1>12

(* No two calls under way hold the same token of the same settlement, whoever
   claimed it: create, a manual reconcile or the background reconciler, and
   whichever claims were committed without their caller hearing of it. *)
THEOREM TokenUniqueness == Spec => []TokenIsUnique
  <1>1. Init => TokenIsUnique
    BY IdleType DEF Init, TokenIsUnique, Live
  <1>2. IInv /\ IInv' /\ TokenIsUnique /\ [Next]_vars => TokenIsUnique'
    BY NextTokens
  <1> QED  BY <1>1, <1>2, Invariance, PTL DEF Spec
=============================================================================
