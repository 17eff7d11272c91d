------------------------------- MODULE Escrow -------------------------------
(***************************************************************************)
(* What the service promises its customers, with no calls, tokens, leases, *)
(* crashes or journals: the funds of a command are set aside at most once  *)
(* per owner and key, the provider decides at most once, and the funds     *)
(* then leave or come back as it decided, once.                            *)
(***************************************************************************)
EXTENDS Schema

VARIABLES
    terms,      \* terms[s]: the command of settlement s
    stage,      \* stage[s]: where the funds of settlement s are
    decision,   \* decision[s]: what the provider decided about s
    available,  \* available[h]: what holder h can still spend
    held,       \* held[h]: what is set aside for holder h
    paid        \* what has left

escrowVars == <<terms, stage, decision, available, held, paid>>

Stages == {"none", "held", "paid", "returned"}
Decisions == {"NOT_FOUND", "PAID", "UNPAID", "UNKNOWN"}

EscrowInit ==
    /\ terms = [s \in Request |-> NoCommand]
    /\ stage = [s \in Request |-> "none"]
    /\ decision = [s \in Request |-> "NOT_FOUND"]
    /\ available = Opening
    /\ held = [h \in Holder |-> 0]
    /\ paid = 0

\* A customer states the terms of a settlement.
Ask(s) ==
    /\ terms[s] = NoCommand
    /\ \E asked \in Commands : terms' = [terms EXCEPT ![s] = asked]
    /\ UNCHANGED <<stage, decision, available, held, paid>>

SameKey(s, t) == terms[s].owner = terms[t].owner /\ terms[s].key = terms[t].key

\* The funds are set aside, if they are there and the key is new.
Hold(s) ==
    LET h == terms[s].owner
        amount == terms[s].amount
    IN  /\ stage[s] = "none"
        /\ h \in Holder
        /\ \A t \in Request : SameKey(s, t) => stage[t] = "none"
        /\ available[h] >= amount
        /\ stage' = [stage EXCEPT ![s] = "held"]
        /\ available' = [available EXCEPT ![h] = @ - amount]
        /\ held' = [held EXCEPT ![h] = @ + amount]
        /\ UNCHANGED <<terms, decision, paid>>

\* The provider decides, about funds that are set aside, for good.
Decide(s) ==
    /\ stage[s] = "held"
    /\ decision[s] = "NOT_FOUND"
    /\ \E d \in Decisions \ {"NOT_FOUND"} :
           decision' = [decision EXCEPT ![s] = d]
    /\ UNCHANGED <<terms, stage, available, held, paid>>

PayOut(s) ==
    LET h == terms[s].owner
        amount == terms[s].amount
    IN  /\ stage[s] = "held"
        /\ decision[s] = "PAID"
        /\ held[h] >= amount
        /\ stage' = [stage EXCEPT ![s] = "paid"]
        /\ held' = [held EXCEPT ![h] = @ - amount]
        /\ paid' = paid + amount
        /\ UNCHANGED <<terms, decision, available>>

GiveBack(s) ==
    LET h == terms[s].owner
        amount == terms[s].amount
    IN  /\ stage[s] = "held"
        /\ decision[s] = "UNPAID"
        /\ held[h] >= amount
        /\ stage' = [stage EXCEPT ![s] = "returned"]
        /\ held' = [held EXCEPT ![h] = @ - amount]
        /\ available' = [available EXCEPT ![h] = @ + amount]
        /\ UNCHANGED <<terms, decision, paid>>

EscrowNext ==
    \E s \in Request : Ask(s) \/ Hold(s) \/ Decide(s) \/ PayOut(s) \/ GiveBack(s)

EscrowSpec == EscrowInit /\ [][EscrowNext]_escrowVars
=============================================================================
