------------------------- MODULE LedgerGuardsProofs -------------------------
(* What the triggers of migration 0002 guarantee, for any number of journals
   and postings and any sequence of statements: PostedJournalsAreClosed. *)
EXTENDS LedgerGuards, TLAPS

(* What a writer sees of committed journals: they are all there and posted, it
   has not inserted them, and every posting in one of them is as committed.
   Every other journal it sees is one it has inserted. *)
Guarded ==
    /\ \A j \in DOMAIN committed.isPosted :
           /\ committed.isPosted[j]
           /\ j \in DOMAIN isPosted
           /\ isPosted[j]
    /\ \A j \in DOMAIN isPosted \ DOMAIN committed.isPosted : j \in inserted
    /\ \A p \in DOMAIN posting :
           posting[p].journal \in DOMAIN committed.isPosted =>
               /\ p \in DOMAIN committed.posting
               /\ committed.posting[p] = posting[p]

(* One action at a time: no statement touches a committed journal or adds a
   posting to one (0002, 78-127). *)
LEMMA GuardedStep == Guarded /\ [Next]_vars => Guarded'
<1> SUFFICES ASSUME Guarded, [Next]_vars PROVE Guarded'
    OBVIOUS
<1>1. ASSUME NEW j \in JournalId, NEW posted \in BOOLEAN, InsertJournal(j, posted)
      PROVE  Guarded'
  <2>1. /\ DOMAIN isPosted' = DOMAIN isPosted \cup {j}
        /\ \A i \in DOMAIN isPosted \ {j} : isPosted'[i] = isPosted[i]
      BY <1>1 DEF Put, InsertJournal
  <2> QED BY <1>1, <2>1 DEF InsertJournal, Guarded
<1>2. ASSUME NEW j \in JournalId, PostJournal(j) PROVE Guarded'
  <2>1. /\ DOMAIN isPosted' = DOMAIN isPosted
        /\ isPosted'[j] = TRUE
        /\ \A i \in DOMAIN isPosted \ {j} : isPosted'[i] = isPosted[i]
      BY <1>2 DEF Put, PostJournal, Open
  <2> QED BY <1>2, <2>1 DEF PostJournal, Open, Guarded
<1>3. ASSUME NEW j \in JournalId, DeleteJournal(j) PROVE Guarded'
  <2>1. /\ DOMAIN isPosted' = DOMAIN isPosted \ {j}
        /\ \A i \in DOMAIN isPosted \ {j} : isPosted'[i] = isPosted[i]
      BY <1>3 DEF Without, DeleteJournal
  <2> QED BY <1>3, <2>1 DEF DeleteJournal, Open, Guarded
<1>4. ASSUME NEW p \in PostingId, NEW row \in Posting,
             InsertPosting(p, row) \/ UpdatePosting(p, row)
      PROVE  Guarded'
  <2>1. row.journal \notin DOMAIN committed.isPosted
      BY <1>4 DEF InsertPosting, UpdatePosting, Open, Guarded
  <2>2. /\ DOMAIN posting' = DOMAIN posting \cup {p}
        /\ posting'[p] = row
        /\ \A q \in DOMAIN posting \ {p} : posting'[q] = posting[q]
      BY <1>4 DEF Put, InsertPosting, UpdatePosting
  <2> QED BY <1>4, <2>1, <2>2 DEF InsertPosting, UpdatePosting, Guarded
<1>5. ASSUME NEW p \in PostingId, DeletePosting(p) PROVE Guarded'
  <2>1. /\ DOMAIN posting' = DOMAIN posting \ {p}
        /\ \A q \in DOMAIN posting \ {p} : posting'[q] = posting[q]
      BY <1>5 DEF Without, DeletePosting
  <2> QED BY <1>5, <2>1 DEF DeletePosting, Guarded
<1>6. CASE Commit
    BY <1>6 DEF Commit, Checked, Tables, Guarded
<1>7. CASE Rollback
    BY <1>7 DEF Rollback, Guarded
<1>8. CASE UNCHANGED vars
    BY <1>8 DEF vars, Guarded
<1> QED BY <1>1, <1>2, <1>3, <1>4, <1>5, <1>6, <1>7, <1>8 DEF Next

(* A commit is the only step that changes the committed tables, and it checks
   what was inserted (0002, 129-163). *)
LEMMA CommittedStep ==
    ASSUME Guarded, [Next]_vars
    PROVE  \/ UNCHANGED committed
           \/ /\ committed' = [isPosted |-> isPosted, posting |-> posting]
              /\ UNCHANGED <<isPosted, posting>>
              /\ \A j \in inserted : Checked(j)
<1>1. CASE Commit
    BY <1>1 DEF Commit, Tables
<1>2. CASE Next /\ ~Commit
    BY <1>2 DEF Next, InsertJournal, PostJournal, DeleteJournal, InsertPosting,
                UpdatePosting, DeletePosting, Rollback
<1>3. CASE UNCHANGED vars
    BY <1>3 DEF vars
<1> QED BY <1>1, <1>2, <1>3

(* The inductive invariant: the writer's tables and the committed ones agree
   on every committed journal. *)
THEOREM GuardedInvariance == Spec => []Guarded
<1>1. Init => Guarded
    BY DEF Init, Tables, Empty, Guarded
<1> QED BY <1>1, GuardedStep, PTL DEF Spec

(* A journal once posted is posted for good and gets no posting it was not
   committed with, those that stay keep their contents, and a journal appears
   only posted, with two or more postings and balanced (0002, 78-163).  That
   its postings stay is no part of it: see PostedPostingsStay. *)
THEOREM ClosedJournals == Spec => PostedJournalsAreClosed
<1> DEFINE Closed ==
    /\ \A j \in DOMAIN committed.isPosted :
           /\ committed.isPosted[j]
           /\ j \in DOMAIN committed'.isPosted
           /\ committed'.isPosted[j]
    /\ \A p \in DOMAIN committed'.posting :
           committed'.posting[p].journal \in DOMAIN committed.isPosted =>
               /\ p \in DOMAIN committed.posting
               /\ committed.posting[p] = committed'.posting[p]
    /\ \A j \in DOMAIN committed'.isPosted \ DOMAIN committed.isPosted :
           Complete(j, committed'.posting)
<1>1. ASSUME Guarded, [Next]_vars PROVE [Closed]_vars
  <2>1. CASE UNCHANGED committed
      BY <2>1, <1>1 DEF Guarded
  <2>2. CASE /\ committed' = [isPosted |-> isPosted, posting |-> posting]
             /\ UNCHANGED <<isPosted, posting>>
             /\ \A j \in inserted : Checked(j)
      BY <2>2, <1>1 DEF Guarded, Checked
  <2> QED BY <2>1, <2>2, <1>1, CommittedStep
<1> QED BY <1>1, GuardedInvariance, PTL DEF Spec, PostedJournalsAreClosed
=============================================================================
