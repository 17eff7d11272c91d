------------------------------ MODULE MCGuards ------------------------------
(* Two journals and four postings of one amount for LedgerGuards. *)
EXTENDS LedgerGuards

OneDollar == {[currency |-> "USD", amount |-> 1]}
=============================================================================
