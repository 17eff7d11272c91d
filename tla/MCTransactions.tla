--------------------------- MODULE MCTransactions ---------------------------
(* Two create calls, a reconcile call, a pass and a seed for Transactions. *)
EXTENDS Transactions, TLC

CONSTANTS alice, bob, r1, r2, m1, p1, s1, s2

Cmd(owner, key, amount) ==
    [owner |-> owner, key |-> key, amount |-> amount, target |-> "EUR"]

Bodies == {Cmd(alice, "k1", 1), Cmd(alice, "k2", 2)}

Opening3 == [h \in {alice} |-> 3]

Jobs == {[owner |-> alice, amount |-> 3], [owner |-> alice, amount |-> 4]}

OneKey == [s \in Request |-> Cmd(alice, "k1", 1)]
TwoKeys == [OneKey EXCEPT ![r2] = Cmd(alice, "k2", 2)]

\* Three workers at a time.
Threes ==
    {[active |-> active, terms |-> TwoKeys] :
        active \in {{r1, r2, p1}, {r1, r2, s1}, {r1, m1, p1}, {r1, p1, s1},
                    {r1, s1, s2}}}
    \cup {[active |-> {r1, r2, w}, terms |-> OneKey] : w \in {p1, s1}}

A == <<alice, "AVAILABLE">>
R == <<alice, "RESERVED">>
O == <<"system", "OMNIBUS">>

\* The available account before and after the reserved one, and the omnibus
\* before and after it.
FourOrders ==
    {(A :> 1 @@ R :> 2 @@ O :> 3), (A :> 3 @@ R :> 2 @@ O :> 1),
     (A :> 2 @@ R :> 1 @@ O :> 3), (A :> 1 @@ R :> 3 @@ O :> 2)}
=============================================================================
