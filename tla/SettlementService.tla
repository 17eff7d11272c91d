------------------------- MODULE SettlementService -------------------------
(***************************************************************************)
(* The settlement service of app/service.py, run by app/main.py: create    *)
(* calls, manual reconcile calls and the background reconciler, all        *)
(* interleaved at every await, over one PostgreSQL database.               *)
(*                                                                         *)
(* A database transaction takes the row lock it needs first and holds no   *)
(* lock across an await of the provider, so it is one step.  A call is a   *)
(* record with a program counter; what it keeps between steps (settlement  *)
(* id, attempt token, provider result) is what the code keeps in locals.   *)
(*                                                                         *)
(* A definition whose name starts with "Faulty" is a variant of the one    *)
(* after it with a bug; no specification uses it.                          *)
(***************************************************************************)
EXTENDS Ledger, Provider

CONSTANTS
    Manual,      \* manual reconcile calls (POST /settlements/{id}/reconcile)
    BatchLimit,  \* the limit of run_reconciliation_once
    MaxToken,    \* bound: claims of one settlement
    MaxFaults,   \* bound: database errors, lost acknowledgements included
    MaxOutages   \* bound: crashes and shutdowns of the process

ASSUME ServiceAssumption ==
    /\ BatchLimit \in Nat \ {0}
    /\ MaxToken \in Nat \ {0}
    /\ MaxFaults \in Nat
    /\ MaxOutages \in Nat

\* A background task is named by the claim it was started for.
Worker == Request \X (1 .. MaxToken)
Call == Request \cup Manual \cup Worker

ASSUME DistinctCalls ==
    /\ Request \cap Manual = {}
    /\ (Request \cup Manual) \cap Worker = {}
    /\ "NULL" \notin Request

VARIABLES
    command,    \* command[r]: what create call r was sent
    status,     \* status[s]: the status column of settlement s
    attempts,   \* attempts[s]: the payout_attempts row of settlement s
    call,       \* call[c]: program counter, locals and reply of call c
    batch,      \* the workers the reconciler's gather is waiting for
    phase,      \* the lifespan of the process
    faults,     \* database errors so far
    outages     \* crashes and shutdowns so far

processVars == <<call, batch, phase>>
boundVars == <<faults, outages>>
vars == <<command, status, attempts, ledgerVars, providerVars, processVars,
          boundVars>>

-----------------------------------------------------------------------------
(* Rows *)

NoAttempt == [state |-> "NONE", token |-> 0, lease |-> "EXPIRED"]

Attempt ==
    [state : {"SUBMITTING", "CLAIMED", "RECONCILING", "COMPLETED"},
     token : 1 .. MaxToken,
     lease : {"RUNNING", "EXPIRED"}]   \* lease_expires_at > now, or not

\* The row that _find_by_key selects; the unique constraint on (owner_id,
\* idempotency_key) leaves at most one.
HasKey(s, owner, key) ==
    status[s] # "ABSENT" /\ command[s].owner = owner /\ command[s].key = key

FaultyKeyTaken(owner, key) ==   \* settlements under way are overlooked
    \E s \in Request : HasKey(s, owner, key) /\ status[s] # "RESERVED"

KeyTaken(owner, key) == \E s \in Request : HasKey(s, owner, key)
FindByKey(owner, key) == CHOOSE s \in Request : HasKey(s, owner, key)

-----------------------------------------------------------------------------
(* Calls *)

Idle == [pc |-> "idle", sid |-> "NULL", token |-> 0, result |-> "NONE",
         reply |-> "NONE"]

Reply == SettlementStatus \cup
    {"CONFLICT", "INSUFFICIENT_FUNDS", "NO_ROUTE", "NOT_FOUND", "ERROR",
     "LOST", "NONE"}

\* The status code of the create and reconcile endpoints.
HttpStatus(reply) ==
    CASE reply \in Unresolved -> 202
      [] reply \in SettlementStatus \ Unresolved -> 200
      [] reply \in {"CONFLICT", "INSUFFICIENT_FUNDS"} -> 409
      [] reply = "NOT_FOUND" -> 404
      [] reply = "NO_ROUTE" -> 422
      [] OTHER -> 500

ProviderResult == {"PAID", "UNPAID", "AMBIGUOUS_503", "NONE"}

ProgramCounter ==
    {"idle", "find", "insert", "reload", "claim", "read", "reclaim",
     "lookup", "initiate", "finalize", "recover", "get", "done"}

CallState ==
    [pc : ProgramCounter,
     sid : Request \cup {"NULL"},
     token : 0 .. MaxToken,
     result : ProviderResult,
     reply : Reply]

Live(c) == call[c].pc \notin {"idle", "done"}

At(c, pc) == [call[c] EXCEPT !.pc = pc]
WithResult(c, result) == [call[c] EXCEPT !.pc = "finalize", !.result = result]
Recovering(c) == [call[c] EXCEPT !.pc = "recover", !.result = "NONE"]

\* Call c is over; gather drops what a worker returns.
Answer(c, reply) ==
    IF c \in Worker THEN Idle
    ELSE [call[c] EXCEPT !.pc = "done", !.token = 0, !.result = "NONE",
                         !.reply = reply]

\* Call c goes on as next; a worker that returns leaves its gather.
Proceed(c, next) ==
    /\ call' = [call EXCEPT ![c] = next]
    /\ batch' = IF next.pc = "idle" THEN batch \ {c} ELSE batch
    /\ UNCHANGED phase

\* The process is gone, and every call that was in it.
Killed(c) == IF Live(c) THEN Answer(c, "LOST") ELSE call[c]
Die ==
    /\ phase' = "down"
    /\ call' = [c \in Call |-> Killed(c)]
    /\ batch' = {}

\* An exception leaves call c.  In a worker it makes gather raise: its other
\* workers go on unawaited.  The loop logs it; the pass that lifespan makes
\* before serving does not, and the process ends.
Raise(c, error) ==
    IF c \in batch /\ phase = "recovering" THEN Die
    ELSE /\ call' = [call EXCEPT ![c] = Answer(c, error)]
         /\ batch' = IF c \in batch THEN {} ELSE batch
         /\ UNCHANGED phase

\* An exception is raised at the current step of call c: initiate is caught
\* by both its callers, lookup and finalize by _reconcile_claim.
Except(c, error) ==
    CASE call[c].pc = "initiate" -> Proceed(c, WithResult(c, "NONE"))
      [] call[c].pc \in {"lookup", "finalize"} /\ c \notin Request ->
             Proceed(c, Recovering(c))
      [] OTHER -> Raise(c, error)

Fault == faults < MaxFaults /\ faults' = faults + 1 /\ UNCHANGED outages

\* A transaction of call c has committed; its acknowledgement may be lost.
Acknowledge(c, next) ==
    \/ Proceed(c, next) /\ UNCHANGED boundVars
    \/ Fault /\ Except(c, "ERROR")

\* A step of call c that leaves the database as it is.
database == <<command, status, attempts, ledgerVars, providerVars>>
ReadOnly == UNCHANGED <<database, boundVars>>

-----------------------------------------------------------------------------
(* create *)

PostSettlement(r) ==
    /\ phase = "serving"
    /\ call[r] = Idle
    /\ \E sent \in Commands : command' = [command EXCEPT ![r] = sent]
    /\ Proceed(r, [Idle EXCEPT !.pc = "find", !.sid = r])
    /\ UNCHANGED <<status, attempts, ledgerVars, providerVars, boundVars>>

FaultyExisting(r, s) ==      \* the fingerprint is not compared
    Proceed(r, IF status[s] = "RESERVED" THEN [At(r, "claim") EXCEPT !.sid = s]
               ELSE [Answer(r, status[s]) EXCEPT !.sid = s])

FaultyExistingConflict(r, s) ==   \* any second call is called a conflict
    Raise(r, "CONFLICT")

\* The key is taken by settlement s: replay it, or join in claiming it.
Existing(r, s) ==
    IF RequestFingerprint(command[s]) # RequestFingerprint(command[r])
    THEN Raise(r, "CONFLICT")
    ELSE Proceed(r, IF status[s] = "RESERVED"
                    THEN [At(r, "claim") EXCEPT !.sid = s]
                    ELSE [Answer(r, status[s]) EXCEPT !.sid = s])

\* _find_by_key at the start of create (followed by the quote when there is
\* no row), and again after losing the insertion.
Find(r) ==
    LET owner == command[r].owner
        key == command[r].key
    IN  /\ call[r].pc \in {"find", "reload"}
        /\ IF KeyTaken(owner, key) THEN Existing(r, FindByKey(owner, key))
           ELSE IF call[r].pc = "reload" THEN Raise(r, "ERROR")
           ELSE IF command[r].target \notin Routable THEN Raise(r, "NO_ROUTE")
           ELSE Proceed(r, At(r, "insert"))
        /\ ReadOnly

\* One transaction: insert the row and reserve its funds.  The unique
\* constraint fails at the flush, before the funds are looked at.
Insert(r) ==
    /\ call[r].pc = "insert"
    /\ IF KeyTaken(command[r].owner, command[r].key)
       THEN Proceed(r, At(r, "reload")) /\ ReadOnly
       ELSE IF ~CanReserve(r, command[r])
       THEN Raise(r, ReserveError(r, command[r])) /\ ReadOnly
       ELSE /\ status' = [status EXCEPT ![r] = "RESERVED"]
            /\ Reserve(r, command[r])
            /\ Acknowledge(r, At(r, "claim"))
            /\ UNCHANGED <<command, attempts, providerVars>>

ClaimReserved(r) ==
    LET s == call[r].sid
    IN  /\ call[r].pc = "claim"
        /\ IF status[s] # "RESERVED"
           THEN Proceed(r, At(r, "get")) /\ ReadOnly
           ELSE /\ status' = [status EXCEPT ![s] = "PAYOUT_IN_PROGRESS"]
                /\ attempts' = [attempts EXCEPT
                       ![s] = [state |-> "SUBMITTING", token |-> 1,
                               lease |-> "RUNNING"]]
                /\ Acknowledge(r, [At(r, "initiate") EXCEPT !.token = 1])
                /\ UNCHANGED <<command, ledgerVars, providerVars>>

-----------------------------------------------------------------------------
(* The provider calls, and the settlement of what they answered *)

SubmitPayout(c) ==
    LET s == call[c].sid
    IN  /\ call[c].pc = "initiate"
        /\ Initiate(s)
        /\ Acknowledge(c, WithResult(c, InitiateResult(s)))
        /\ UNCHANGED <<command, status, attempts, ledgerVars>>

LookupPayout(c) ==
    LET found == operations[call[c].sid].authority
    IN  /\ call[c].pc = "lookup"
        /\ Proceed(c, IF found = "NOT_FOUND" THEN At(c, "initiate")
                      ELSE WithResult(c, IF found = "UNKNOWN" THEN "NONE"
                                         ELSE found))
        /\ ReadOnly

FaultySettled(s) == FALSE    \* the status is not rechecked under the lock

Settled(s) == status[s] \in Terminal

\* The posting that an authoritative result asks for cannot be made.
Rejected(s, result) ==
    /\ ~Settled(s)
    /\ \/ result = "PAID" /\ ~CanConsume(s, command[s])
       \/ result = "UNPAID" /\ ~CanRelease(s, command[s])

FaultySettle(s, outcome) ==  \* the journal is written, the status is not
    /\ UNCHANGED status
    /\ attempts' = [attempts EXCEPT ![s].state = "COMPLETED"]

Settle(s, outcome) ==
    /\ status' = [status EXCEPT ![s] = outcome]
    /\ attempts' = [attempts EXCEPT ![s].state = "COMPLETED"]

\* _finalize_attempt once the token has been found current.
FinalizeAttempt(s, result) ==
    IF Settled(s)
    THEN UNCHANGED <<status, attempts, ledgerVars>>
    ELSE \/ /\ result = "PAID"
            /\ Consume(s, command[s])
            /\ Settle(s, "SUCCESS")
         \/ /\ result = "UNPAID"
            /\ Release(s, command[s])
            /\ Settle(s, "FAILED")
         \/ /\ result \notin {"PAID", "UNPAID"}
            /\ status' = [status EXCEPT ![s] = "PENDING_RECONCILIATION"]
            /\ attempts' = [attempts EXCEPT ![s].state = "RECONCILING",
                                            ![s].lease = "EXPIRED"]
            /\ UNCHANGED ledgerVars

FaultyStale(c) == FALSE      \* the token is not compared

\* The attempt is no longer the caller's: StaleAttemptToken.
Stale(c) == attempts[call[c].sid].token # call[c].token

\* _finalize_attempt as called with a result, by create and by
\* _reconcile_claim.
Finalize(c) ==
    LET s == call[c].sid
    IN  /\ call[c].pc = "finalize"
        /\ IF Stale(c) THEN Proceed(c, At(c, "get")) /\ ReadOnly
           ELSE IF Rejected(s, call[c].result)
           THEN /\ Except(c, IF call[c].result = "PAID"
                             THEN ConsumeError(s, command[s])
                             ELSE ReleaseError(s, command[s]))
                /\ ReadOnly
           ELSE /\ FinalizeAttempt(s, call[c].result)
                /\ Acknowledge(c, Answer(c, status'[s]))
                /\ UNCHANGED <<command, providerVars>>

\* _finalize_attempt with None, after an error in _reconcile_claim: the
\* error goes on to a manual caller, a worker reads the row and returns.
\* The error is the database's: a result can always be booked
\* (ResultCanBeBooked), so none of the ledger's gets here.
Recover(c) ==
    LET s == call[c].sid
        Resume == IF c \in Manual THEN Raise(c, "ERROR")
                  ELSE Proceed(c, At(c, "get"))
    IN  /\ call[c].pc = "recover"
        /\ IF Stale(c) THEN Resume /\ ReadOnly
           ELSE /\ FinalizeAttempt(s, "NONE")
                /\ \/ Resume /\ UNCHANGED boundVars
                   \/ Fault /\ Raise(c, "ERROR")
                /\ UNCHANGED <<command, providerVars>>

\* get at the end of a call whose claim went to another.
Get(c) ==
    /\ call[c].pc = "get"
    /\ IF status[call[c].sid] = "ABSENT" THEN Raise(c, "NOT_FOUND")
       ELSE Proceed(c, Answer(c, status[call[c].sid]))
    /\ ReadOnly

-----------------------------------------------------------------------------
(* reconcile *)

PostReconcile(m) ==
    /\ phase = "serving"
    /\ call[m] = Idle
    /\ \E s \in Request : Proceed(m, [Idle EXCEPT !.pc = "read", !.sid = s])
    /\ ReadOnly

FaultyRead(m) ==             \* waits for a claim of what is only reserved
    /\ call[m].pc = "read"
    /\ status[call[m].sid] \in Unresolved
    /\ Proceed(m, At(m, "reclaim"))
    /\ ReadOnly

Read(m) ==
    LET found == status[call[m].sid]
    IN  /\ call[m].pc = "read"
        /\ IF found = "ABSENT" THEN Raise(m, "NOT_FOUND")
           ELSE Proceed(m, IF found \in Unresolved THEN At(m, "reclaim")
                           ELSE Answer(m, found))
        /\ ReadOnly

FaultyLeased(s) == FALSE     \* a running lease is ignored

Leased(s) == attempts[s].state = "CLAIMED" /\ attempts[s].lease = "RUNNING"

FaultyNextClaim(s) ==        \* the token is not increased
    [state |-> "CLAIMED", token |-> attempts[s].token, lease |-> "RUNNING"]

\* The attempt row of settlement s after a claim for reconciliation; with no
\* row to begin with the first token is 1.
NextClaim(s) ==
    [state |-> "CLAIMED", token |-> attempts[s].token + 1, lease |-> "RUNNING"]

ClaimForReconciliation(m) ==
    LET s == call[m].sid
    IN  /\ call[m].pc = "reclaim"
        /\ IF status[s] \notin Unresolved \/ Leased(s)
           THEN Proceed(m, At(m, "get")) /\ ReadOnly
           ELSE /\ attempts[s].token < MaxToken
                /\ attempts' = [attempts EXCEPT ![s] = NextClaim(s)]
                /\ Acknowledge(m, [At(m, "lookup") EXCEPT
                                      !.token = NextClaim(s).token])
                /\ UNCHANGED <<command, status, ledgerVars, providerVars>>

-----------------------------------------------------------------------------
(* The background reconciler *)

FaultyDue ==                 \* unresolved outcomes are not selected
    {s \in Request : /\ status[s] \in Unresolved
                     /\ attempts[s].state = "SUBMITTING"
                     /\ attempts[s].lease = "EXPIRED"
                     /\ attempts[s].token < MaxToken}

FaultyDueLate ==             \* interrupted submissions are not selected
    {s \in Request : /\ status[s] \in Unresolved
                     /\ attempts[s].state = "RECONCILING"
                     /\ attempts[s].lease = "EXPIRED"
                     /\ attempts[s].token < MaxToken}

Due == {s \in Request : /\ status[s] \in Unresolved
                        /\ attempts[s].state \in {"SUBMITTING", "RECONCILING"}
                        /\ attempts[s].lease = "EXPIRED"
                        /\ attempts[s].token < MaxToken}

\* Some transaction may hold the row lock of s, so that SKIP LOCKED skips it.
Contended(s) ==
    \E c \in Call : /\ call[c].sid = s
                    /\ call[c].pc \in {"claim", "reclaim", "finalize", "recover"}

WorkerFor(s) == <<s, NextClaim(s).token>>

\* A pass of run_reconciliation_once claims the settlements B and starts one
\* worker for each.
ClaimDueBatch(B) ==
    /\ phase \in {"starting", "serving"}
    /\ batch = {}
    /\ B \subseteq Due
    /\ Cardinality(B) <= BatchLimit
    /\ Cardinality(B) = BatchLimit \/ \A s \in Due \ B : Contended(s)
    /\ attempts' = [s \in Request |-> IF s \in B THEN NextClaim(s)
                                      ELSE attempts[s]]
    /\ \/ /\ batch' = {WorkerFor(s) : s \in B}
          /\ call' = [c \in Call |->
                        IF c \in batch'
                        THEN [Idle EXCEPT !.pc = "lookup", !.sid = c[1],
                                          !.token = c[2]]
                        ELSE call[c]]
          /\ phase' = IF phase = "starting" THEN "recovering" ELSE phase
          /\ UNCHANGED boundVars
       \/ /\ Fault    \* the claims are committed, and nobody knows
          /\ IF phase = "starting" THEN Die ELSE UNCHANGED processVars
    /\ UNCHANGED <<command, status, ledgerVars, providerVars>>

-----------------------------------------------------------------------------
(* The process and its surroundings *)

Startup ==
    /\ phase = "down"
    /\ phase' = "starting"
    /\ UNCHANGED <<database, call, batch, boundVars>>

\* The pass before serving is over: lifespan yields and starts the loop.
Serve ==
    /\ phase = "recovering" /\ batch = {}
    /\ phase' = "serving"
    /\ UNCHANGED <<database, call, batch, boundVars>>

Outage == outages < MaxOutages /\ outages' = outages + 1 /\ UNCHANGED faults

\* Orderly shutdown: requests have been answered, the loop is told to stop,
\* its pass is awaited; tasks that nothing awaits are cancelled.
Stop ==
    /\ phase = "serving"
    /\ \A c \in Request \cup Manual : ~Live(c)
    /\ Outage
    /\ phase' = "stopping"
    /\ UNCHANGED <<database, call, batch>>

Exit ==
    /\ phase = "stopping" /\ batch = {}
    /\ Die
    /\ UNCHANGED <<database, boundVars>>

Crash ==
    /\ phase # "down"
    /\ Outage
    /\ Die
    /\ UNCHANGED database

\* A statement of call c fails and its transaction rolls back; at initiate
\* the identity value may be gone already.
DatabaseError(c) ==
    /\ Live(c)
    /\ Fault
    /\ Except(c, "ERROR")
    /\ ordinal' \in IF call[c].pc = "initiate" THEN {ordinal, ordinal + 1}
                    ELSE {ordinal}
    /\ UNCHANGED <<command, status, attempts, ledgerVars, operations>>

\* The query or the commit of the pass before serving fails.
StartupError ==
    /\ phase = "starting"
    /\ Fault
    /\ Die
    /\ UNCHANGED database

\* Ten seconds have passed since the claim.  The lease of a settlement that
\* is not unresolved is never read.
LeaseExpires(s) ==
    /\ attempts[s].lease = "RUNNING"
    /\ status[s] \in Unresolved
    /\ attempts' = [attempts EXCEPT ![s].lease = "EXPIRED"]
    /\ UNCHANGED <<command, status, ledgerVars, providerVars, processVars,
                   boundVars>>

-----------------------------------------------------------------------------
Init ==
    /\ LedgerInit
    /\ ProviderInit
    /\ command = [r \in Request |-> NoCommand]
    /\ status = [s \in Request |-> "ABSENT"]
    /\ attempts = [s \in Request |-> NoAttempt]
    /\ call = [c \in Call |-> Idle]
    /\ batch = {}
    /\ phase = "down"
    /\ faults = 0
    /\ outages = 0

\* The next step of a call that is under way.
CreateStep(r) == Find(r) \/ Insert(r) \/ ClaimReserved(r)
ReconcileStep(m) == Read(m) \/ ClaimForReconciliation(m)
PayoutStep(c) ==
    SubmitPayout(c) \/ LookupPayout(c) \/ Finalize(c) \/ Recover(c) \/ Get(c)

Next ==
    \/ \E r \in Request : PostSettlement(r) \/ CreateStep(r)
    \/ \E m \in Manual : PostReconcile(m) \/ ReconcileStep(m)
    \/ \E c \in Call : PayoutStep(c) \/ DatabaseError(c)
    \/ \E B \in SUBSET Request : ClaimDueBatch(B)
    \/ \E s \in Request : LeaseExpires(s)
    \/ Startup \/ Serve \/ Stop \/ Exit \/ Crash \/ StartupError

Spec == Init /\ [][Next]_vars

\* The event loop runs every task that can run, the reconciler's loop never
\* ends, time passes, and the process is started again.  Nothing makes a
\* client call, a database fail or a process crash.
Fairness ==
    /\ \A r \in Request : WF_vars(CreateStep(r))
    /\ \A m \in Manual : WF_vars(ReconcileStep(m))
    /\ \A c \in Call : WF_vars(PayoutStep(c))
    /\ WF_vars(\E B \in SUBSET Request : ClaimDueBatch(B))
    /\ \A s \in Request : WF_vars(LeaseExpires(s))
    /\ WF_vars(Startup) /\ WF_vars(Serve) /\ WF_vars(Exit)

FairSpec == Spec /\ Fairness
=============================================================================
