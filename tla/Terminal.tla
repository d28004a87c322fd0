------------------------------ MODULE Terminal ------------------------------
(***************************************************************************)
(* A session of the terminal pane (terminal_session_runtime.c, terminal.c, *)
(* terminal_session_model.c) and its shell behind a pseudo terminal        *)
(* (terminal_backend.c).  Each frame the main thread reads what the shell  *)
(* has printed, looks whether it has ended, interprets what it read and    *)
(* captures the screen into the journal.  The shell prints and ends at any *)
(* time; the user resizes the pane, clears it and starts shells.           *)
(*                                                                         *)
(* What the user types goes out unseen, and what is printed is any of      *)
(* Chunks: sequences of operations, each read and interpreted as one.      *)
(* Scrolling the view, selecting text and drawing are left out.            *)
(***************************************************************************)
EXTENDS TerminalJournal

CONSTANTS
    FirstSize,    \* the size of a new session in cells, <<rows, columns>>
    Sizes,        \* the sizes the pane can take
    Chunks,       \* what the shell may print before it is read
    Message,      \* the line that tells that a shell was started or has ended
    MaxWrites,    \* bound: how often shells print
    MaxResizes    \* bound: how often the pane is resized

ASSUME TerminalAssumption ==
    /\ Sizes \cup {FirstSize} \subseteq (Nat \ {0}) \X (Nat \ {0})
    /\ \A ops \in Chunks \cup {Message} : AreOperations(ops)

VARIABLES
    grid,        \* s->grid
    journal,     \* s->journal
    backend,     \* s->backend, s->backendExitNotified and the child process
    history      \* what was shown since the session was last cleared

vars == <<grid, journal, backend, history>>

\* pulled: output was read; pc: between the two halves of terminal_tick_backend.
NewBackend == [child |-> "running", pulled |-> FALSE, dead |-> FALSE, notified |-> FALSE,
               pc |-> "frame"]

\* Rows of the transcript seen on screens of Codex, and whether there were any.
NoHistory(writes, resizes) ==
    [codex |-> FALSE, transcript |-> {}, writes |-> writes, resizes |-> resizes]

Session == [grid |-> grid, journal |-> journal, history |-> history]

Becomes(s) == grid' = s.grid /\ journal' = s.journal /\ history' = s.history

SeenCodex(h, rows) == [h EXCEPT !.codex = TRUE, !.transcript = @ \cup rows]

\* terminal_capture_journal_snapshot
Captured(s) ==
    LET snap == Snapshot(s.grid)
        isCodex == ~s.grid.usingAlternate /\ LooksLikeCodex(snap)
        shown == {row \in ToSet(snap) : IsTranscript(row)}
    IN [s EXCEPT !.journal = Capture(@, s.grid),
                 !.history = IF isCodex THEN SeenCodex(@, shown) ELSE @]

\* terminal_feed_bytes
Fed(s, ops) == Captured([s EXCEPT !.grid = FeedGrid(@, ops)])

\* clearTerminal
Emptied(s) ==
    [grid |-> ClearGrid(s.grid), journal |-> ClearJournal(s.journal),
     history |-> NoHistory(s.history.writes, s.history.resizes)]

\* terminal_create_interactive; its last step is terminal_spawn_shell.
Init ==
    LET new == [grid |-> NewGrid(FirstSize[1], FirstSize[2]), journal |-> NewJournal(FirstSize[2]),
                history |-> NoHistory(0, 0)]
        s == Fed(new, Message)
    IN /\ grid = s.grid
       /\ journal = s.journal
       /\ history = s.history
       /\ backend = NewBackend

-----------------------------------------------------------------------------
ChildExits ==
    /\ backend.child = "running"
    /\ backend' = [backend EXCEPT !.child = "exited"]
    /\ UNCHANGED <<grid, journal, history>>

(***************************************************************************)
(* The first half of a tick reads what the shell has printed, if it has;   *)
(* a shell that has ended may have left some.  It then finds the end of    *)
(* the file, unless a process the shell left behind keeps the terminal     *)
(* open.  A tick with nothing to read or to tell is a stuttering step.     *)
(***************************************************************************)
TickReads ==
    /\ backend.pc = "frame"
    /\ ~grid.hung
    /\ \E printed \in {FALSE, ~backend.dead /\ history.writes < MaxWrites},
          endOfFile \in {FALSE, backend.child = "exited"} :
           /\ printed \/ (backend.child = "exited" /\ ~backend.notified)
           /\ backend' = [backend EXCEPT !.pulled = printed, !.dead = @ \/ endOfFile,
                                         !.pc = "flush"]
           /\ history' = [history EXCEPT !.writes = IF printed THEN @ + 1 ELSE @]
    /\ UNCHANGED <<grid, journal>>

(***************************************************************************)
(* The second half: terminal_backend_poll_child, then                      *)
(* terminal_flush_backend_output.  A dead backend is not read again: what  *)
(* came between the read and the poll is lost.                             *)
(***************************************************************************)
TickFlushes ==
    /\ backend.pc = "flush"
    /\ LET dead == backend.dead \/ backend.child = "exited"
           announce == dead /\ ~backend.notified
           Announced(s) == IF announce THEN Fed(s, Message) ELSE s
       IN /\ backend' = [backend EXCEPT !.pc = "frame", !.pulled = FALSE, !.dead = dead,
                                        !.notified = @ \/ announce]
          /\ \/ /\ backend.pulled
                /\ \E ops \in Chunks : Becomes(Announced(Fed(Session, ops)))
             \/ /\ ~backend.pulled
                /\ Becomes(Announced(Session))

\* terminal_resize_grid_for_pane, when the size in cells has changed.
Resize ==
    /\ backend.pc = "frame"
    /\ ~grid.hung
    /\ history.resizes < MaxResizes
    /\ \E size \in Sizes \ {<<grid.rows, grid.cols>>} :
           LET sameWidth == size[2] = grid.cols
           IN Becomes(Captured(
                 [grid |-> ResizeGrid(grid, size[1], size[2]),
                  journal |-> Configure(journal, size[2]),
                  history |-> [history EXCEPT !.resizes = @ + 1,
                                              !.transcript = IF sameWidth THEN @ ELSE {}]]))
    /\ UNCHANGED backend

Clear ==
    /\ backend.pc = "frame"
    /\ ~grid.hung
    /\ Becomes(Emptied(Session))
    /\ UNCHANGED backend

\* terminal_spawn_shell, which ends the shell there is.
SpawnShell ==
    /\ backend.pc = "frame"
    /\ ~grid.hung
    /\ backend' = NewBackend
    /\ Becomes(Fed(Emptied(Session), Message))

Next == ChildExits \/ TickReads \/ TickFlushes \/ Resize \/ Clear \/ SpawnShell

Spec == Init /\ [][Next]_vars

-----------------------------------------------------------------------------
InGrid(row, col) == row \in 0..(grid.rows - 1) /\ col \in 0..(grid.cols - 1)

(***************************************************************************)
(* terminal_validate_invariants asserts after every change that the cursor *)
(* is on the screen.  So must be the cursor kept for the other screen, or  *)
(* the next switch puts it outside, and the scroll region, which writes    *)
(* rows by its own bounds.                                                 *)
(***************************************************************************)
CursorInside ==
    ~grid.hung =>
        /\ InGrid(grid.row, grid.col)
        /\ InGrid(grid.primaryKept.row, grid.primaryKept.col)
        /\ InGrid(grid.alternateKept.row, grid.alternateKept.col)
        /\ grid.used \in 1..grid.rows
        /\ 0 <= grid.top /\ grid.top <= grid.bottom /\ grid.bottom < grid.rows

(***************************************************************************)
(* The ring of scrolled off rows, over wrap-around, overwriting and the    *)
(* rebuilding for a new width, is the end of what scrolled off the primary *)
(* screen: oldest first, none twice, none missing.                         *)
(***************************************************************************)
ScrollbackIsTail ==
    /\ IsSuffix(Scrollback(grid), grid.left)
    /\ Len(grid.left) = grid.count + grid.drops

(***************************************************************************)
(* What the user sees in the pane is what scrolled off followed by the     *)
(* screen, each row once, however many rows came in one read and whatever  *)
(* the size was: as long as Codex was not shown, whose rows the journal    *)
(* keeps by other rules, and the ring has not overwritten a row, after     *)
(* which the journal no longer learns of new ones.                         *)
(***************************************************************************)
HistoryKept ==
    LET whole == grid.left \o Snapshot(grid)
    IN ~grid.usingAlternate /\ ~history.codex /\ grid.drops = 0 /\ Snapshot(grid) # <<>> =>
           /\ IsSuffix(journal.rows, whole)
           /\ journal.drops = 0 => journal.rows = whole

(***************************************************************************)
(* What scrolled off is where it belongs: in the ring, and in the journal  *)
(* (terminal_grid_buffer.c:274, terminal_journal.c:424).                   *)
(***************************************************************************)
HistoryStands == ScrollbackIsTail /\ HistoryKept

(***************************************************************************)
(* A row of text that was once on a screen of Codex stays in the journal,  *)
(* though Codex overpaints it, clears the screen, opens a menu or leaves:  *)
(* unless the journal had to drop rows or the width has changed.           *)
(***************************************************************************)
TranscriptKept ==
    journal.drops = 0 => \A row \in history.transcript : Contains(journal.rows, row)

(***************************************************************************)
(* A durable row is never changed, moved or removed, but for the oldest,   *)
(* which are counted as dropped: no capture takes back what the user may   *)
(* be looking at.                                                          *)
(***************************************************************************)
DurableStays ==
    [][LET dropped == journal'.drops - journal.drops
           kept == SubSeq(DurableRows(journal), dropped + 1, journal.durable)
       IN \/ journal'.cols # journal.cols
          \/ IsPrefix(kept, DurableRows(journal'))
          \/ Clear \/ SpawnShell]_vars

-----------------------------------------------------------------------------
(***************************************************************************)
(* Not so: terminal_feed_bytes asserts that a feed that begins and ends on *)
(* the alternate screen commits nothing to the scrollback.  The primary    *)
(* screen may have been shown, and scrolled, in between.                   *)
(***************************************************************************)
AlternateShieldsPrimary ==
    [][TickFlushes /\ grid.usingAlternate /\ grid'.usingAlternate => grid'.left = grid.left]_vars

(***************************************************************************)
(* Not so: a pane that grows shows the rows it showed before.  The used    *)
(* rows that term_grid_resize goes by are those of the last commit, which  *)
(* plain output does not make.                                             *)
(***************************************************************************)
ResizeKeepsRows ==
    [][Resize /\ ~grid.usingAlternate /\ grid'.cols = grid.cols /\ grid'.rows > grid.rows
          => Snapshot(grid') = Snapshot(grid)]_vars
=============================================================================
