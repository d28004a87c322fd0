--------------------------- MODULE TerminalJournal ---------------------------
(***************************************************************************)
(* The journal of a terminal (terminal_journal.c): the rows a user can     *)
(* scroll back to.  It holds durable rows, which stay, and after them the  *)
(* live rows, a copy of the primary screen that each capture renews.  Rows *)
(* become durable when they scroll off the screen, and, because Codex      *)
(* repaints its screen instead of scrolling, when they vanish from a       *)
(* screen that looks like Codex.                                           *)
(*                                                                         *)
(* The phrases the journal looks for in a row are one cell each.           *)
(***************************************************************************)
EXTENDS TerminalGrid

CONSTANTS PendingCap   \* kJournalPendingCapRows

ASSUME JournalAssumption == PendingCap \in Nat \ {0}

Header  == "C"    \* "OpenAI Codex"
Working == "W"    \* "Working (", "Thinking ("
Modal   == "M"    \* "Select Model and Effort" and the other menus
Prompt  == ">"
Slash   == "/"    \* a command to Codex itself
Shell   == "$"    \* " % ", " $ ", " # "

NewJournal(cols) ==
    [cols |-> cols, rows |-> <<>>, durable |-> 0, live |-> 0,
     pending |-> <<>>, seen |-> 0, drops |-> 0]

-----------------------------------------------------------------------------
(***************************************************************************)
(* What a row and a screen look like.                                      *)
(***************************************************************************)
Has(row, phrase) == \E c \in DOMAIN row : row[c] = phrase
HasRowWith(rows, phrase) == \E i \in DOMAIN rows : Has(rows[i], phrase)

FirstText(row) == Min({c \in DOMAIN row : row[c] # Blank})

IsPrompt(row) == HasText(row) /\ row[FirstText(row)] = Prompt
Input(row) == {c \in DOMAIN row : c > FirstText(row) /\ row[c] # Blank}
IsPromptWithInput(row) == IsPrompt(row) /\ Input(row) # {}
IsControlInput(row) == IsPromptWithInput(row) /\ row[Min(Input(row))] = Slash

IsModal(row) == HasText(row) /\ (Has(row, Modal) \/ row[FirstText(row)] = Slash)
IsChrome(row) == Has(row, Header) \/ Has(row, Working)

\* codex_row_classify gives CODEX_ROW_TRANSCRIPT
IsTranscript(row) == HasText(row) /\ ~IsModal(row) /\ ~IsChrome(row) /\ ~IsPrompt(row)

\* rows_look_like_codex_screen
LooksLikeCodex(rows) == \E phrase \in {Header, Working, Modal} : HasRowWith(rows, phrase)

\* The rows of the screen between the first and the last with text.
Snapshot(g) ==
    LET text == {r \in 0..(g.rows - 1) : HasText(Cells(g)[r])}
    IN IF text = {} THEN <<>>
       ELSE [i \in 1..(Max(text) - Min(text) + 1) |-> Cells(g)[Min(text) + i - 1]]

-----------------------------------------------------------------------------
DurableRows(j) == SubSeq(j.rows, 1, j.durable)
LiveRows(j) == SubSeq(j.rows, Len(j.rows) - j.live + 1, Len(j.rows))
IsDurable(j, row) == \E i \in 1..j.durable : j.rows[i] = row

(***************************************************************************)
(* Mutant: the rows that are kept are not moved to the front.              *)
(***************************************************************************)
DropWithoutMove(j, n) ==
    [j EXCEPT !.rows = SubSeq(@, 1, Len(@) - n), !.drops = @ + n,
              !.durable = Greater(@ - n, 0), !.live = @ - Greater(n - j.durable, 0)]

DropFront(j, n) ==
    [j EXCEPT !.rows = SubSeq(@, n + 1, Len(@)), !.drops = @ + n,
              !.durable = Greater(@ - n, 0), !.live = @ - Greater(n - j.durable, 0)]

\* journal_insert_one_raw: behind the first index rows.
InsertRow(j, index, row) ==
    LET full == Len(j.rows) = ScrollbackRows
        room == IF full THEN DropFront(j, 1) ELSE j
        place == IF full THEN Greater(index - 1, 0) ELSE index
    IN [room EXCEPT !.rows = InsertAt(@, place + 1, row)]

(***************************************************************************)
(* The durable count is set from the index before the insertion: when the  *)
(* journal was full and live rows follow, the first of them becomes        *)
(* durable too.                                                            *)
(***************************************************************************)
AppendDurable(j, row) ==
    LET inserted == InsertRow(j, j.durable, row)
    IN [inserted EXCEPT !.durable = Lesser(j.durable + 1, Len(inserted.rows))]

AppendUnlessDurable(j, row) == IF IsDurable(j, row) THEN j ELSE AppendDurable(j, row)

DropLive(j) == [j EXCEPT !.rows = DurableRows(j), !.live = 0]

ReplaceLiveTail(j, snap) ==
    LET Add(acc, row) == [InsertRow(acc, Len(acc.rows), row) EXCEPT !.live = @ + 1]
    IN Folded(Add, DropLive(j), snap)

(***************************************************************************)
(* Mutant: the rows taken over are not marked as seen.                     *)
(***************************************************************************)
SyncForgetsSeen(j, g) ==
    Folded(AppendDurable, j, SubSeq(Scrollback(g), j.seen + 1, g.count))

\* journal_sync_scrollback_rows
SyncScrollback(j, g) ==
    LET seen == IF j.seen > g.count THEN 0 ELSE j.seen
    IN [Folded(AppendDurable, j, SubSeq(Scrollback(g), seen + 1, g.count))
           EXCEPT !.seen = g.count]

-----------------------------------------------------------------------------
\* The last live row that is gone from the screen becomes durable.
CommitLast(j, snap, Candidate(_)) ==
    LET live == (Len(j.rows) - j.live + 1)..Len(j.rows)
        gone == {i \in live : /\ Candidate(j.rows[i])
                              /\ ~Contains(snap, j.rows[i])
                              /\ ~IsDurable(j, j.rows[i])}
    IN IF gone = {} THEN j ELSE AppendDurable(j, j.rows[Max(gone)])

\* A command was entered in the shell and Codex has come up.
CommitSubmittedCommand(j, snap) ==
    LET IsCommand(row) == Has(row, Shell)
    IN IF HasRowWith(snap, Header) THEN CommitLast(j, snap, IsCommand) ELSE j

\* A prompt was entered in Codex and it has begun to work.
CommitSubmittedPrompt(j, snap) ==
    LET IsSubmitted(row) == IsPromptWithInput(row) /\ ~IsControlInput(row)
    IN IF /\ HasRowWith(snap, Working)
          /\ ~HasRowWith(snap, Modal)
          /\ ~\E i \in 1..j.live : IsModal(LiveRows(j)[i])
       THEN CommitLast(j, snap, IsSubmitted) ELSE j

\* journal_commit_pending_codex_rows; on a blank screen all of them.
CommitPending(j, snap) ==
    LET gone == ToSet(j.pending) \ ToSet(snap)
    IN [Folded(AppendUnlessDurable, j, Dropping(j.pending, ToSet(snap)))
           EXCEPT !.pending = Dropping(@, gone)]

CommitDisappeared(j, snap) ==
    LET stays == {row \in ToSet(LiveRows(j)) : ~IsTranscript(row) \/ Contains(snap, row)}
    IN IF LooksLikeCodex(LiveRows(j))
       THEN Folded(AppendUnlessDurable, j, Dropping(LiveRows(j), stays)) ELSE j

\* journal_track_codex_pending_rows
TrackPending(j, snap) ==
    LET Add(acc, row) ==
            IF ~IsTranscript(row) \/ IsDurable(acc, row) \/ Contains(acc.pending, row) THEN acc
            ELSE [acc EXCEPT !.pending =
                      Append(IF Len(@) = PendingCap THEN Tail(@) ELSE @, row)]
    IN IF LooksLikeCodex(snap) THEN Folded(Add, j, snap) ELSE j

(***************************************************************************)
(* terminal_journal_configure.  The rows are refitted to the new width.    *)
(* The pending rows are not: the width is stored before their own function *)
(* compares it, so their cells are read in rows of the new width from then *)
(* on.  Past the last pending row they are blank.                          *)
(***************************************************************************)
Restride(pending, old, cols) ==
    LET Cell(k) == IF k \div old < Len(pending) THEN pending[k \div old + 1][k % old] ELSE Blank
    IN [i \in DOMAIN pending |-> [c \in 0..(cols - 1) |-> Cell((i - 1) * cols + c)]]

Configure(j, cols) ==
    IF cols = j.cols THEN j
    ELSE [j EXCEPT !.cols = cols, !.live = Len(j.rows) - j.durable,
                   !.rows = [i \in DOMAIN @ |-> Fit(@[i], cols)],
                   !.pending = Restride(@, j.cols, cols)]

(***************************************************************************)
(* Mutant: the pending rows are not committed.                             *)
(***************************************************************************)
BlankForgetsPending(j) == IF LooksLikeCodex(LiveRows(j)) THEN DropLive(j) ELSE j

\* A screen without text leaves all as it is, unless the last one was Codex's.
CaptureBlank(j) ==
    IF LooksLikeCodex(LiveRows(j)) THEN DropLive(CommitPending(j, <<>>)) ELSE j

CaptureText(j, g, snap) ==
    LET submitted == CommitSubmittedPrompt(CommitSubmittedCommand(j, snap), snap)
        committed == CommitDisappeared(CommitPending(submitted, snap), snap)
        tracked == TrackPending(committed, snap)
    IN ReplaceLiveTail(SyncScrollback(DropLive(tracked), g), snap)

\* terminal_journal_capture_viewport
Capture(j, g) ==
    LET fitted == Configure(j, g.cols)
    IN IF g.usingAlternate THEN j
       ELSE IF Snapshot(g) = <<>> THEN CaptureBlank(fitted)
       ELSE CaptureText(fitted, g, Snapshot(g))

ClearJournal(j) ==
    [j EXCEPT !.rows = <<>>, !.durable = 0, !.live = 0, !.seen = 0, !.pending = <<>>]
=============================================================================
