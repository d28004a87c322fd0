--------------------------- MODULE EditTransaction ---------------------------
(***************************************************************************)
(* The edit transaction (editor_edit_transaction_core.c): edits of one     *)
(* document in one view are held back until nothing was typed for the      *)
(* debounce time, or until the user goes elsewhere, and then handed over   *)
(* to the analysis at once.  The document and the view are kept as plain   *)
(* pointers and compared, never told that one was freed.                   *)
(***************************************************************************)
EXTENDS Naturals

VARIABLES
    txn,     \* g_edit_txn
    timers   \* debounce timers waiting in the timer scheduler

txnVars == <<txn, timers>>

\* moved: the cursor or the selection is not where the last edit left it.
NoTransaction(g) == [active |-> FALSE, file |-> 0, view |-> 0, generation |-> g, moved |-> FALSE]

TxnInit ==
    /\ txn = NoTransaction(0)
    /\ timers = {}

\* A timer carries the generation of the transaction that set it.
Timer(g, due) == [token |-> g, due |-> due]

\* The timers without the one of the present transaction.
Cancelled == {t \in timers : t.token # txn.generation}

\* Commits the transaction; the caller hands over txn.file.
Commit ==
    /\ txn.active
    /\ txn' = NoTransaction(txn.generation)
    /\ timers' = Cancelled

\* Mutant of ClosedBy: an edit of another document joins the transaction.
NeverClosedBy(f) == FALSE

\* An edit of document f ends the transaction of another one.
ClosedBy(f) == txn.active /\ txn.file # f

\* Mutant of Rearmed: the timer is only set for a new transaction.
RearmedOnce(f, g) == IF txn.active /\ txn.file = f THEN Cancelled ELSE {Timer(g, FALSE)}

\* The timers after an edit in the transaction of generation g.
Rearmed(f, g) == Cancelled \cup {Timer(g, FALSE)}

NoteEdit(f, v) ==
    LET continues == txn.active /\ ~ClosedBy(f)
        g == IF continues THEN txn.generation ELSE txn.generation + 1
    IN /\ txn' = IF continues THEN [txn EXCEPT !.moved = FALSE]
                 ELSE [active |-> TRUE, file |-> f, view |-> v, generation |-> g, moved |-> FALSE]
       /\ timers' = Rearmed(f, g)

\* What is compared once per frame, after the input events.
LeftBy(f, v) == txn.active /\ (txn.view # v \/ txn.file # f \/ txn.moved)

\* A due timer of an older transaction is ignored.
FiresFor(t) == txn.active /\ t.token = txn.generation

TimePasses ==
    /\ \E t \in timers : /\ ~t.due
                         /\ timers' = (timers \ {t}) \cup {Timer(t.token, TRUE)}
    /\ UNCHANGED txn
=============================================================================
