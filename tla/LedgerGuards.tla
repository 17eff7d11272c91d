---------------------------- MODULE LedgerGuards ----------------------------
(***************************************************************************)
(* The triggers that migration 0002 puts on journal_transactions and       *)
(* postings, for writers that are not the application.  A writer executes  *)
(* statements in any order and then commits or rolls back; a statement a   *)
(* trigger or a constraint refuses changes nothing and is left out.        *)
(*                                                                         *)
(* Writers take turns here.  Another transaction sees committed rows only, *)
(* and of a journal that is not yet posted there are none.                 *)
(***************************************************************************)
EXTENDS Integers, FiniteSets, FiniteSetsExt

CONSTANTS
    JournalId,   \* ids of journals
    PostingId,   \* ids of postings
    Money        \* [currency, amount] records with a positive amount

VARIABLES
    isPosted,    \* the journals as the writer sees them, by id
    posting,     \* the postings as the writer sees them, by id
    inserted,    \* the journals it has inserted: their check is deferred
    committed    \* both tables as committed

vars == <<isPosted, posting, inserted, committed>>

Posting == [journal : JournalId, side : {"DEBIT", "CREDIT"}, of : Money]

Put(table, id, row) ==
    [i \in DOMAIN table \cup {id} |-> IF i = id THEN row ELSE table[i]]

Without(table, id) == [i \in DOMAIN table \ {id} |-> table[i]]

\* The triggers ask this of a journal; that it exists is the foreign key's part.
Open(journal) == journal \in DOMAIN isPosted /\ ~isPosted[journal]

PostingsOf(journal, table) == {p \in DOMAIN table : table[p].journal = journal}

Total(journal, side, currency, table) ==
    MapThenSumSet(LAMBDA p : table[p].of.amount,
                  {p \in PostingsOf(journal, table) :
                      table[p].side = side /\ table[p].of.currency = currency})

-----------------------------------------------------------------------------
Tables == [isPosted |-> isPosted, posting |-> posting]

Empty == [i \in {} |-> FALSE]

Init ==
    /\ isPosted = Empty
    /\ posting = Empty
    /\ inserted = {}
    /\ committed = Tables

\* No trigger looks at the insertion of a journal before the commit.
InsertJournal(journal, posted) ==
    /\ journal \notin DOMAIN isPosted
    /\ isPosted' = Put(isPosted, journal, posted)
    /\ inserted' = inserted \cup {journal}
    /\ UNCHANGED <<posting, committed>>

\* guard_journal_mutation: of all updates only this one gets through.
PostJournal(journal) ==
    /\ Open(journal)
    /\ isPosted' = Put(isPosted, journal, TRUE)
    /\ UNCHANGED <<posting, inserted, committed>>

DeleteJournal(journal) ==
    /\ Open(journal)
    /\ PostingsOf(journal, posting) = {}
    /\ isPosted' = Without(isPosted, journal)
    /\ UNCHANGED <<posting, inserted, committed>>

\* guard_posting_mutation looks at the journal of the new row, if there is a
\* new row, and otherwise at that of the old one.
InsertPosting(id, row) ==
    /\ id \notin DOMAIN posting
    /\ Open(row.journal)
    /\ posting' = Put(posting, id, row)
    /\ UNCHANGED <<isPosted, inserted, committed>>

UpdatePosting(id, row) ==
    /\ id \in DOMAIN posting
    /\ Open(row.journal)
    /\ posting' = Put(posting, id, row)
    /\ UNCHANGED <<isPosted, inserted, committed>>

DeletePosting(id) ==
    /\ id \in DOMAIN posting
    /\ Open(posting[id].journal)
    /\ posting' = Without(posting, id)
    /\ UNCHANGED <<isPosted, inserted, committed>>

\* check_posted_journal, for every journal the transaction has inserted.
Complete(journal, table) ==
    /\ Cardinality(PostingsOf(journal, table)) >= 2
    /\ \A m \in Money : Total(journal, "DEBIT", m.currency, table)
                        = Total(journal, "CREDIT", m.currency, table)

Checked(journal) ==
    /\ journal \in DOMAIN isPosted
    /\ isPosted[journal]
    /\ Complete(journal, posting)

Commit ==
    /\ \A journal \in inserted : Checked(journal)
    /\ committed' = Tables
    /\ inserted' = {}
    /\ UNCHANGED <<isPosted, posting>>

Rollback ==
    /\ isPosted' = committed.isPosted
    /\ posting' = committed.posting
    /\ inserted' = {}
    /\ UNCHANGED committed

Next ==
    \/ \E journal \in JournalId :
           \/ \E posted \in BOOLEAN : InsertJournal(journal, posted)
           \/ PostJournal(journal) \/ DeleteJournal(journal)
    \/ \E id \in PostingId :
           \/ \E row \in Posting : InsertPosting(id, row) \/ UpdatePosting(id, row)
           \/ DeletePosting(id)
    \/ Commit \/ Rollback

Spec == Init /\ [][Next]_vars

-----------------------------------------------------------------------------
(* "triggers prevent later updates or deletes to posted journals and postings"
   (ARCHITECTURE.md 96-97): what is committed in a posted journal stays as it
   is.  It does not: a posting can be moved to a journal that is not yet
   posted (0002, line 83). *)
PostedPostingsStay ==
    [][\A p \in DOMAIN committed.posting :
           committed.isPosted[committed.posting[p].journal] =>
               /\ p \in DOMAIN committed'.posting
               /\ committed'.posting[p] = committed.posting[p]]_vars

(* What the triggers do guarantee of committed tables, step by step: a journal
   once posted is posted for good, it gets no posting it was not committed with
   and keeps the contents of those that stay, and a journal appears only
   complete, with two or more postings and balanced in every currency
   (0002, 78-163). *)
PostedJournalsAreClosed ==
    [][/\ \A j \in DOMAIN committed.isPosted :
              /\ committed.isPosted[j]
              /\ j \in DOMAIN committed'.isPosted
              /\ committed'.isPosted[j]
       /\ \A p \in DOMAIN committed'.posting :
              committed'.posting[p].journal \in DOMAIN committed.isPosted =>
                  /\ p \in DOMAIN committed.posting
                  /\ committed.posting[p] = committed'.posting[p]
       /\ \A j \in DOMAIN committed'.isPosted \ DOMAIN committed.isPosted :
              Complete(j, committed'.posting)]_vars
=============================================================================
