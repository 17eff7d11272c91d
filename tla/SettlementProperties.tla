------------------------ MODULE SettlementProperties ------------------------
(***************************************************************************)
(* What the settlement service must guarantee, stated over the state of    *)
(* SettlementService.                                                      *)
(***************************************************************************)
EXTENDS SettlementService

(* Every variable has its type. *)
TypeOK ==
    /\ LedgerTypeOK
    /\ ProviderTypeOK
    /\ command \in [Request -> Commands \cup {NoCommand}]
    /\ status \in [Request -> RowStatus]
    /\ attempts \in [Request -> Attempt \cup {NoAttempt}]
    /\ call \in [Call -> CallState]
    /\ batch \subseteq Worker
    /\ phase \in {"down", "starting", "recovering", "serving", "stopping"}
    /\ faults \in 0 .. MaxFaults
    /\ outages \in 0 .. MaxOutages

-----------------------------------------------------------------------------
(* Money *)

AmountsOf(S) ==
    SumFunctionOnSet([s \in Request |-> command[s].amount], S)

OwnedIn(h, stages) ==
    {s \in Request : status[s] \in stages /\ command[s].owner = h}

(* The RESERVED account of a customer holds exactly the amounts of that
   customer's settlements that are still open: no create, retry, finalize or
   recovery leaves a hold behind or drops one (ledger.py, reserve, consume
   and release as service.py calls them). *)
ReservedCoversOpen ==
    \A h \in Holder :
        balance[ReservedOf(h)] = AmountsOf(OwnedIn(h, Open))

(* The omnibus account has paid out the amounts of the successful settlements
   and nothing else: a payout is booked once however often it is looked up,
   resubmitted or finalized (service.py, _finalize_attempt). *)
OmnibusPaysSuccesses ==
    balance[Omnibus] =
        OmnibusOpening
      - AmountsOf({s \in Request : status[s] = "SUCCESS"})

(* A settlement has a RESERVE journal when it has a row, a CONSUME journal
   when it succeeded, a RELEASE journal when it failed, and no others: status
   and journals are written in one transaction and never drift apart. *)
JournalsFollowStatus ==
    \A s \in Request :
        /\ IsPosted(s, "RESERVE") <=> status[s] # "ABSENT"
        /\ IsPosted(s, "CONSUME") <=> status[s] = "SUCCESS"
        /\ IsPosted(s, "RELEASE") <=> status[s] = "FAILED"

(* The holder of the current token can always book the result it has got: the
   funds reserved at creation are still there, and the journal is not, so
   _finalize_attempt never fails on its own postings. *)
ResultCanBeBooked ==
    \A c \in Call :
        call[c].pc = "finalize" /\ ~Stale(c)
            => ~Rejected(call[c].sid, call[c].result)

-----------------------------------------------------------------------------
(* Payouts *)

(* What the customer is told is what the provider decided: SUCCESS only for an
   operation the provider paid, FAILED (and the money back) only for one it did
   not pay, whichever of creator, worker and manual caller settled it and
   however late its answer was. *)
OutcomeMatchesProvider ==
    \A s \in Request :
        /\ status[s] = "SUCCESS" => operations[s].authority = "PAID"
        /\ status[s] = "FAILED" => operations[s].authority = "UNPAID"

(* Retries and races of create calls for one owner and key lead to at most one
   operation at the provider: the customer is never paid twice. *)
OnePayoutPerKey ==
    \A s, t \in Request :
        /\ Recorded(s) /\ Recorded(t)
        /\ command[s].owner = command[t].owner
        /\ command[s].key = command[t].key
        => s = t

-----------------------------------------------------------------------------
(* Claims *)

(* A fencing token names one claimant: no two calls under way hold the same
   token of the same settlement, so the comparison in _finalize_attempt tells
   them apart. *)
TokenIsUnique ==
    \A c, d \in Call :
        /\ Live(c) /\ Live(d) /\ call[c].token > 0
        /\ call[c].token = call[d].token /\ call[c].sid = call[d].sid
        => c = d

\* The step is the transaction in which call c, whose token is the current one,
\* ends its attempt of s.
Finalizes(c, s) ==
    /\ call[c].sid = s /\ call[c].pc \in {"finalize", "recover"}
    /\ call[c].token = attempts[s].token
    /\ call'[c] # call[c]

\* The step is the claim of a manual reconcile call that takes the submission
\* of s out of the hands of the create call that is still at it.
TakesOverSubmission(m, s) ==
    /\ call[m].sid = s /\ call[m].pc = "reclaim" /\ call'[m] # call[m]
    /\ attempts[s].state = "SUBMITTING"
    /\ attempts'[s].token > attempts[s].token

\* A step leaves a leased attempt alone, or is time passing, or is its
\* holder's, or is the takeover that a client may ask for.
RespectsLease(s) ==
    attempts[s].lease = "RUNNING" /\ attempts'[s] # attempts[s]
    => \/ attempts'[s] = [attempts[s] EXCEPT !.lease = "EXPIRED"]
       \/ \E c \in Call : Finalizes(c, s)
       \/ \E m \in Manual : TakesOverSubmission(m, s)

(* While a lease runs, nobody but the holder of its token ends the attempt, and
   nobody claims it, with one exception: a manual reconcile does not wait for
   the lease of a create call that is still submitting.  It does wait for that
   of another reconciler, and the background reconciler waits for every lease
   (_claim_for_reconciliation, service.py 250-265, and _claim_due_batch). *)
LeaseIsExclusive == [][\A s \in Request : RespectsLease(s)]_vars

\* The state machine of ARCHITECTURE.md.
Arrows ==
    {<<"ABSENT", "RESERVED">>, <<"RESERVED", "PAYOUT_IN_PROGRESS">>} \cup
    (Unresolved \X (Terminal \cup {"PENDING_RECONCILIATION"}))

MovesUnderToken(s) ==
    status'[s] # status[s]
    => /\ <<status[s], status'[s]>> \in Arrows
       /\ status[s] \in Unresolved => \E c \in Call : Finalizes(c, s)

(* A settlement that was claimed changes status only in a step of a call that
   holds the current token, and moves only along the arrows of the documented
   state machine: a late answer of a fenced-off call changes nothing, and a
   terminal status is final. *)
StatusMovesUnderToken == [][\A s \in Request : MovesUnderToken(s)]_vars

-----------------------------------------------------------------------------
(* Replies *)

(* Create calls with one owner and key that were answered with a status were
   answered about one settlement, which is stored under that key and has the
   fingerprint they sent; a terminal status, once told, stays true. *)
ReplayIsFaithful ==
    \A r \in Request :
        call[r].reply \in SettlementStatus =>
            /\ HasKey(call[r].sid, command[r].owner, command[r].key)
            /\ RequestFingerprint(command[call[r].sid])
                   = RequestFingerprint(command[r])
            /\ call[r].reply \in Terminal => status[call[r].sid] = call[r].reply
            /\ call[r].reply # "RESERVED"

(* A create call that was refused left nothing behind: no row, no journal, no
   operation under the identifier it drew; a conflict is only reported when the
   key is stored with another fingerprint. *)
RefusalLeavesNothing ==
    \A r \in Request :
        /\ call[r].reply \in {"CONFLICT", "INSUFFICIENT_FUNDS", "NO_ROUTE"} =>
               status[r] = "ABSENT" /\ ~IsPosted(r, "RESERVE") /\ ~Recorded(r)
        /\ call[r].reply = "CONFLICT" =>
               \E s \in Request :
                   /\ HasKey(s, command[r].owner, command[r].key)
                   /\ RequestFingerprint(command[s])
                          # RequestFingerprint(command[r])

-----------------------------------------------------------------------------
(* Refinement *)

StageOf(rowStatus) ==
    CASE rowStatus = "ABSENT" -> "none"
      [] rowStatus \in Open -> "held"
      [] rowStatus = "SUCCESS" -> "paid"
      [] rowStatus = "FAILED" -> "returned"

E == INSTANCE Escrow WITH
    terms <- command,
    stage <- [s \in Request |-> StageOf(status[s])],
    decision <- [s \in Request |-> operations[s].authority],
    available <- [h \in Holder |-> balance[AvailableOf(h)]],
    held <- [h \in Holder |-> balance[ReservedOf(h)]],
    paid <- OmnibusOpening - balance[Omnibus]

(* The service with all its interleavings, retries, faults and crashes keeps
   the promise of Escrow: each of its steps is a step of the escrow or is
   invisible to the customer. *)
ImplementsEscrow == E!EscrowSpec

-----------------------------------------------------------------------------
(* Progress *)

(* Nobody will move settlement s on unless a client asks: it is reserved and no
   create call is working on it, or its attempt is claimed and the claimant is
   gone (_claim_due_batch does not select claimed attempts). *)
Abandoned(s) ==
    \/ /\ status[s] = "RESERVED"
       /\ \A r \in Request : ~(Live(r) /\ call[r].sid = s)
    \/ /\ attempts[s].state = "CLAIMED"
       /\ \A c \in Call : ~(Live(c) /\ call[c].sid = s
                                    /\ call[c].token = attempts[s].token)

(* Every settlement that is open becomes terminal, with no help from a client:
   the reconciler finds what the creator leaves unresolved. *)
EventuallyTerminal ==
    \A s \in Request : status[s] \in Open ~> status[s] \in Terminal

(* The same with crashes, shutdowns, database errors and lost acknowledgements:
   an open settlement becomes terminal or is abandoned in the precise sense
   above. *)
TerminalOrAbandoned ==
    \A s \in Request :
        status[s] \in Open ~> status[s] \in Terminal \/ Abandoned(s)

(* Every call that was accepted is answered (or dies with the process), and the
   pass before serving always comes to an end. *)
CallsReturn ==
    /\ \A c \in Request \cup Manual : Live(c) ~> ~Live(c)
    /\ phase = "starting" ~> phase \in {"serving", "down"}

-----------------------------------------------------------------------------
(* Claims of the documentation that the code does not keep *)

(* README.md, "Reconciliation is also automatic", and ARCHITECTURE.md, "Another
   process can safely resume reconciliation after a crash": a payout that is
   unresolved becomes terminal, whatever happens to the process on the way. *)
ReconciliationIsAutomatic ==
    \A s \in Request : status[s] \in Unresolved ~> status[s] \in Terminal

(* ARCHITECTURE.md, "It never resubmits an ambiguous operation": no reconciler
   submits an operation that the provider has recorded as timed out or
   ambiguous. *)
NeverResubmitsAmbiguous ==
    [][\A c \in Manual \cup Worker :
          call[c].pc = "initiate" /\ call'[c].pc = "finalize"
              /\ ordinal' # ordinal
          => operations[call[c].sid].submission
                 \notin {"AMBIGUOUS_503", "TIMEOUT"}]_vars

(* provider.py, "load provider supports exactly 1000 unique operations": the
   load provider turns an operation away only when it has recorded a thousand. *)
LoadRefusesOnlyWhenFull ==
    \A c \in Call :
        /\ call[c].pc = "initiate"
        /\ ~Recorded(call[c].sid) /\ Exhausted(ordinal)
        => \E n \in InitialOrdinals :
               n + Cardinality({s \in Request : Recorded(s)}) >= 1000

(* README.md, "Create and reconcile return `202` while an operation is still
   pending and `200` for a terminal result": 200 means terminal. *)
OkMeansTerminal ==
    \A c \in Request \cup Manual :
        call[c].pc = "done" /\ HttpStatus(call[c].reply) = 200
            => call[c].reply \in Terminal
=============================================================================
