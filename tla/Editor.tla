------------------------------- MODULE Editor -------------------------------
(***************************************************************************)
(* The editor pane over the frames of the main loop.  A frame handles the  *)
(* input events, looks at the edit transaction, serves the control socket, *)
(* fires the timers that are due and executes one command of the command   *)
(* bus (runFrameLoop, tickBackgroundSystems, tickCommandBus).              *)
(*                                                                         *)
(* The mouse acts at once; keys become commands, and a command looks up    *)
(* the view and document it is for when it is executed.                    *)
(***************************************************************************)
EXTENDS EditorViews, EditTransaction

CONSTANTS
    MaxCommands,   \* bound on the commands waiting
    MaxEdits       \* bound on the edits

ASSUME EditorBoundsAssumption == MaxCommands \in Nat \ {0} /\ MaxEdits \in Nat

VARIABLES
    queue,   \* the command bus
    phase,   \* where the frame is
    edits    \* edits typed so far (no program variable)

vars == <<view, file, focus, viewCount, txn, timers, queue, phase, edits>>

Phases == {"input", "socket", "timers", "command"}

PlainCommands == {"edit", "move", "save", "close", "next", "previous", "split", "collapse"}

Command == [op : PlainCommands, path : {None}] \cup [op : {"open", "delete"}, path : Paths]

Txn == [active : BOOLEAN, file : Files \cup {None}, view : Views \cup {None},
        generation : 0..MaxEdits, moved : BOOLEAN]

TypeOK ==
    /\ ViewsTypeOK
    /\ txn \in Txn
    /\ timers \subseteq [token : 1..MaxEdits, due : BOOLEAN]
    /\ queue \in SeqOf(Command, MaxCommands)
    /\ phase \in Phases
    /\ edits \in 0..MaxEdits

Init ==
    /\ ViewsInit
    /\ TxnInit
    /\ queue = <<>>
    /\ phase = "input"
    /\ edits = 0

-----------------------------------------------------------------------------
(* Input: the mouse *)

CanQueue == Len(queue) < MaxCommands

\* The pointer rests on a leaf, or a click puts the cursor there.
Hover(v) ==
    /\ SetActive(v)
    /\ UNCHANGED <<view, file, viewCount, txn, timers, queue, phase, edits>>

ClickText(v) ==
    /\ SetActive(v)
    /\ Shown(v) # None
    /\ txn' = [txn EXCEPT !.moved = @ \/ (txn.active /\ txn.file = Shown(v))]
    /\ UNCHANGED <<view, file, viewCount, timers, queue, phase, edits>>

ClickTab(v) ==
    /\ \E i \in DOMAIN view[v].tabs : SelectTab(v, i)
    /\ UNCHANGED <<txn, timers, queue, phase, edits>>

\* The close button of a leaf moves the focus now and closes later.
ClickClose(v) ==
    /\ CanQueue
    /\ SetActive(v)
    /\ queue' = Append(queue, [op |-> "close", path |-> None])
    /\ UNCHANGED <<view, file, viewCount, txn, timers, phase, edits>>

\* A file is dragged onto a leaf.
Drop(v) ==
    /\ \E p \in Paths : Open(v, p)
    /\ UNCHANGED <<txn, timers, queue, phase, edits>>

\* Another workspace is chosen: tabs of files outside it are closed, unsaved
\* or not.
ChooseWorkspace ==
    /\ \E outside \in SUBSET Paths : CloseFiles(outside)
    /\ UNCHANGED <<txn, timers, queue, phase, edits>>

(* Input: keys *)

Press(c) ==
    /\ CanQueue
    /\ c.op = "edit" => edits < MaxEdits
    /\ edits' = IF c.op = "edit" THEN edits + 1 ELSE edits
    /\ queue' = Append(queue, c)
    /\ UNCHANGED <<view, file, focus, viewCount, txn, timers, phase>>

Input ==
    /\ phase = "input"
    /\ \/ \E v \in Leaves : Hover(v) \/ ClickText(v) \/ ClickTab(v) \/ ClickClose(v) \/ Drop(v)
       \/ ChooseWorkspace
       \/ \E c \in Command : Press(c)

-----------------------------------------------------------------------------
(* The rest of the frame *)

\* The documents after document f was handed to the analysis, whatever is in
\* memory at that place by now.
HandedOver(f) == [file EXCEPT ![f].handed = TRUE]

\* The transaction ends if the user has gone elsewhere.
UpdateContext ==
    /\ phase = "input"
    /\ phase' = "socket"
    /\ IF LeftBy(Shown(focus), focus)
       THEN Commit /\ file' = HandedOver(txn.file)
       ELSE UNCHANGED <<txn, timers, file>>
    /\ UNCHANGED <<view, focus, viewCount, queue, edits>>

\* A client asks for a file to be shown; showing it moves its cursor.
ServeSocket ==
    /\ phase = "socket"
    /\ phase' = "timers"
    /\ \/ UNCHANGED <<view, file, focus, viewCount, txn>>
       \/ \E p \in Paths :
            /\ Open(focus, p)
            /\ txn' = [txn EXCEPT !.moved = @ \/ (txn.active /\ Holds(focus, p)
                                                    /\ view[focus].tabs[TabOf(focus, p)] = txn.file)]
    /\ UNCHANGED <<timers, queue, edits>>

FireTimers ==
    /\ phase = "timers"
    /\ phase' = "command"
    /\ timers' = {t \in timers : ~t.due}
    /\ IF \E t \in timers : t.due /\ FiresFor(t)
       THEN txn' = NoTransaction(txn.generation) /\ file' = HandedOver(txn.file)
       ELSE UNCHANGED <<txn, file>>
    /\ UNCHANGED <<view, focus, viewCount, queue, edits>>

\* An edit of document f joins or starts a transaction and ends the one of
\* another document.
Edit(f) ==
    LET closed == IF ClosedBy(f) THEN HandedOver(txn.file) ELSE file IN
    /\ NoteEdit(f, focus)
    /\ file' = [closed EXCEPT ![f].handed = FALSE]
    /\ UNCHANGED <<view, focus, viewCount>>

\* A document that waits to be written counts as unmodified, so a commit would
\* not hand it over; writing it makes a request of its own.
Save(f) ==
    /\ file' = [file EXCEPT ![f].handed = TRUE]
    /\ UNCHANGED <<view, focus, viewCount, txn, timers>>

MoveCursor(f) ==
    /\ txn' = [txn EXCEPT !.moved = @ \/ (txn.active /\ txn.file = f)]
    /\ UNCHANGED <<view, file, focus, viewCount, timers>>

\* What a command does, to the view and document it finds active.
Obey(c) ==
    LET v == focus
        f == Shown(v)
    IN \/ c.op = "edit" /\ f # None /\ Edit(f)
       \/ c.op = "save" /\ f # None /\ Save(f)
       \/ c.op = "move" /\ f # None /\ MoveCursor(f)
       \/ c.op \in {"edit", "save", "move"} /\ f = None /\ UNCHANGED <<viewVars, txnVars>>
       \/ /\ \/ c.op = "close" /\ f # None /\ CloseTabs({v}, {f})
             \/ c.op = "close" /\ f = None /\ CloseEmpty(v)
             \/ c.op \in {"next", "previous"} /\ SwitchTab(v, c.op = "next")
             \/ c.op = "split" /\ Split(v)
             \/ c.op = "collapse" /\ Collapse(v)
             \/ c.op = "open" /\ Open(v, c.path)
             \/ c.op = "delete" /\ CloseFiles({c.path})
          /\ UNCHANGED txnVars

\* One command a frame.
TickCommandBus ==
    /\ phase = "command"
    /\ phase' = "input"
    /\ IF queue = <<>> THEN UNCHANGED <<viewVars, txnVars, queue>>
       ELSE Obey(Head(queue)) /\ queue' = Tail(queue)
    /\ UNCHANGED edits

\* The program ends after a frame and is started again; gone are files that
\* were deleted meanwhile.
Restart ==
    /\ phase = "input"
    /\ \E gone \in SUBSET Paths : Restore(gone)
    /\ txn' = NoTransaction(0)
    /\ timers' = {}
    /\ queue' = <<>>
    /\ UNCHANGED <<phase, edits>>

Tick == TimePasses /\ UNCHANGED <<viewVars, queue, phase, edits>>

Frame == UpdateContext \/ ServeSocket \/ FireTimers \/ TickCommandBus

Next == Input \/ Frame \/ Tick \/ Restart

\* Frames follow each other while the program runs, and time goes on.
Spec == Init /\ [][Next]_vars /\ WF_vars(Frame) /\ WF_vars(Tick)

-----------------------------------------------------------------------------
(* Properties *)

\* No edit is forgotten: a document whose last edit was not handed over to the
\* analysis is the one of the open transaction, and the timer that will hand it
\* over, unless something else does before, is set.
NoEditForgotten ==
    /\ \A f \in Files : ~file[f].handed => txn.active /\ txn.file = f
    /\ txn.active => \E t \in timers : t.token = txn.generation

\* An open transaction is committed, wherever the user goes and whatever is
\* closed.
EditsCommitted == txn.active ~> ~txn.active

\* What is committed is a document in memory.  A command that closes the tab
\* (editor_view.c:610) tells the transaction nothing, and the next frame reads
\* the freed document (editor_view.c:56).
CommitsNameLiveDocuments ==
    [][txn.active /\ ~txn'.active /\ phase' # "input" => file[txn.file].refs > 0]_vars
=============================================================================
