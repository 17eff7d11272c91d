------------------------------ MODULE Provider ------------------------------
(***************************************************************************)
(* The durable payout provider of app/provider.py (MockPayoutProvider with *)
(* a session factory, as main.py builds it): one row per operation, named  *)
(* by the settlement id, and the identity sequence that numbers the rows   *)
(* and so decides what happens to them.                                    *)
(*                                                                         *)
(* A definition whose name starts with "Faulty" is a variant of the one    *)
(* after it with a bug; no specification uses it.                          *)
(***************************************************************************)
EXTENDS Schema, Sequences

CONSTANTS
    LoadMode,        \* PAYOUT_MODE=load
    Outcomes,        \* the script of a provider given one, or << >>
    TimeoutLookup,   \* what a scripted timeout is looked up as
    InitialOrdinals  \* how many operations may have been numbered before

ProviderLookup == {"PAID", "UNPAID", "UNKNOWN"}

ASSUME ProviderAssumption ==
    /\ LoadMode \in BOOLEAN
    /\ Outcomes \in Seq(ProviderLookup)
    /\ TimeoutLookup \in ProviderLookup
    /\ InitialOrdinals \subseteq Nat

VARIABLES
    operations,  \* the mock_provider_operations rows
    ordinal      \* the last value drawn from their identity sequence

providerVars == <<operations, ordinal>>

-----------------------------------------------------------------------------
Submission == {"PAID", "UNPAID", "AMBIGUOUS_503", "TIMEOUT"}

\* "There is no row"; its authority is what lookup answers then.
NoOperation ==
    [ordinal |-> 0, submission |-> "NONE", authority |-> "NOT_FOUND"]

Operation == [ordinal : Nat \ {0}, submission : Submission, authority : ProviderLookup]

Recorded(s) == operations[s].ordinal # 0

AmbiguousAuthority(position) == IF position % 2 = 0 THEN "PAID" ELSE "UNPAID"

Outcome(submission, authority) ==
    [submission |-> submission, authority |-> authority]

\* The three tables of _outcome_for_position: load test, script, default.
LoadOutcome(position) ==
    IF position < 700 THEN Outcome("PAID", "PAID")
    ELSE Outcome(IF position < 850 THEN "AMBIGUOUS_503" ELSE "TIMEOUT",
                 AmbiguousAuthority(position))

ScriptedOutcome(position) ==
    LET outcome == Outcomes[(position % Len(Outcomes)) + 1]
    IN  IF outcome = "UNKNOWN" THEN Outcome("TIMEOUT", TimeoutLookup)
        ELSE Outcome(outcome, outcome)

DefaultOutcome(position) ==
    LET p == position % 20
    IN  IF p < 14 THEN Outcome("PAID", "PAID")
        ELSE Outcome(IF p < 17 THEN "AMBIGUOUS_503" ELSE "TIMEOUT",
                     AmbiguousAuthority(p))

OutcomeForPosition(position) ==
    IF LoadMode THEN LoadOutcome(position)
    ELSE IF Outcomes # << >> THEN ScriptedOutcome(position)
    ELSE DefaultOutcome(position)

\* In load mode position 1000 and those after it raise RuntimeError.
Exhausted(position) == LoadMode /\ position >= 1000

-----------------------------------------------------------------------------
\* The row that a call to initiate finds or writes.  PostgreSQL draws the
\* identity value before it looks for a conflict, so an operation that is
\* already there, or that is refused, still uses one up.
DurableOutcome(s) ==
    IF Recorded(s) \/ Exhausted(ordinal) THEN operations[s]
    ELSE LET outcome == OutcomeForPosition(ordinal)
         IN  [ordinal |-> ordinal + 1,
              submission |-> outcome.submission,
              authority |-> outcome.authority]

Initiate(s) ==
    /\ operations' = [operations EXCEPT ![s] = DurableOutcome(s)]
    /\ ordinal' = ordinal + 1

FaultyInitiateResult(s) ==   \* the timeout is returned, not raised
    DurableOutcome(s).submission

FaultyInitiateUnpaid(s) ==   \* whatever is not paid is taken for unpaid
    IF DurableOutcome(s).submission = "PAID" THEN "PAID" ELSE "UNPAID"

\* What initiate returns: a timeout and a refusal are exceptions, which both
\* callers turn into None.
InitiateResult(s) ==
    LET submission == DurableOutcome(s).submission
    IN  IF submission \in {"TIMEOUT", "NONE"} THEN "NONE" ELSE submission

ProviderInit ==
    /\ operations = [s \in Request |-> NoOperation]
    /\ ordinal \in InitialOrdinals

ProviderTypeOK ==
    /\ operations \in [Request -> Operation \cup {NoOperation}]
    /\ ordinal \in Nat
=============================================================================
