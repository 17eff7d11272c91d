---------------------------- MODULE MCSettlement ----------------------------
(* Small instances of the settlement service for TLC. *)
EXTENDS SettlementProperties, TLC

CONSTANTS r1, r2, r3, m1, alice, bob

Symmetry == Permutations(Request)

Cmd(owner, key, amount, target) ==
    [owner |-> owner, key |-> key, amount |-> amount, target |-> target]

\* One key, sent with one body.
OneCommand == {Cmd(alice, "k1", 2, "EUR")}

\* Two settlements that compete for one balance, one key sent with two
\* bodies, an owner without accounts and a target without a route.
MixedCommands ==
    {Cmd(alice, "k1", 2, "EUR"), Cmd(alice, "k2", 2, "EUR"),
     Cmd(alice, "k1", 1, "EUR"), Cmd(bob, "k1", 1, "EUR"),
     Cmd(alice, "k3", 1, "AED")}

TwoKeys == {Cmd(alice, "k1", 2, "EUR"), Cmd(alice, "k2", 1, "EUR")}

Opening3 == [h \in {alice} |-> 3]

NoScript == << >>
Script == <<"PAID", "UNPAID", "UNKNOWN">>
=============================================================================
