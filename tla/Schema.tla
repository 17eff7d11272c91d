------------------------------- MODULE Schema -------------------------------
(***************************************************************************)
(* The vocabulary shared by every component: the enumerations and tables   *)
(* of app/models.py, the request body of app/schemas.py, and the constants *)
(* that fix an instance of the system.                                     *)
(*                                                                         *)
(* A settlement is named by the create call that drew its identifier: the  *)
(* code draws a fresh uuid4 for every insertion it tries, so the set of    *)
(* create calls also indexes the settlement rows.                          *)
(***************************************************************************)
EXTENDS Integers, FiniteSets

CONSTANTS
    Request,    \* create calls (POST /settlements), also the settlement ids
    Owner,      \* values of the X-Owner-ID header
    Holder,     \* the owners that were given accounts by the seed
    Key,        \* values of the Idempotency-Key header
    Amount,     \* values of amount_usd
    Target,     \* values of target_currency
    Routable,   \* the targets for which the rate book quotes a route
    Commands,   \* the commands that clients of this instance send
    Opening     \* Opening[h] is the amount the seed gives to holder h

\* What a client sends: the two headers and the body of a create call.
SettlementCreate == [owner : Owner, key : Key, amount : Amount, target : Target]

\* A create call that has not been made.
NoCommand == [owner |-> "NULL", key |-> "NULL", amount |-> 0, target |-> "NULL"]

ASSUME SchemaAssumption ==
    /\ Holder \subseteq Owner
    /\ Amount \subseteq Nat \ {0}
    /\ Routable \subseteq Target
    /\ Commands \subseteq SettlementCreate
    /\ Opening \in [Holder -> Nat]

-----------------------------------------------------------------------------
\* Status of a settlement row; "ABSENT" stands for "there is no such row".
SettlementStatus ==
    {"RESERVED", "PAYOUT_IN_PROGRESS", "PENDING_RECONCILIATION",
     "SUCCESS", "FAILED"}
RowStatus == SettlementStatus \cup {"ABSENT"}

\* The two states from which a payout can still be reconciled.
Unresolved == {"PAYOUT_IN_PROGRESS", "PENDING_RECONCILIATION"}
Terminal == {"SUCCESS", "FAILED"}
Open == Unresolved \cup {"RESERVED"}

JournalEvent == {"OPENING", "RESERVE", "CONSUME", "RELEASE"}
PostingSide == {"DEBIT", "CREDIT"}

\* The SHA-256 of owner, normalised amount and target is taken to be
\* injective, so a fingerprint is the triple it is computed from.
RequestFingerprint(command) ==
    <<command.owner, command.amount, command.target>>
=============================================================================
