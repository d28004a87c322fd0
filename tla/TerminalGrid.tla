---------------------------- MODULE TerminalGrid ----------------------------
(***************************************************************************)
(* The screen of a terminal (terminal_grid.c, terminal_grid_buffer.c): two *)
(* screens of cells of which one is active, the cursor, the scroll region, *)
(* and the ring of rows that scrolled off the primary screen.  What the    *)
(* child process prints is a sequence of operations that the emulator      *)
(* interprets one by one, each a function from grid to grid.               *)
(*                                                                         *)
(* A cell is its character, one column wide; styles, wide and combining    *)
(* characters, and the splitting of bytes into operations are left out.    *)
(* The view is as large as the grid, as every resize leaves it.            *)
(***************************************************************************)
EXTENDS Integers, Sequences, FiniteSets, SequencesExt, Collections

CONSTANTS
    TabStop,           \* 8
    ScrollbackRows,    \* terminal_scrollback_extra_rows()
    AlternateEnabled   \* g_terminal_enable_alternate_screen

ASSUME GridAssumption ==
    /\ TabStop \in Nat \ {0}
    /\ ScrollbackRows \in Nat \ {0, 1}
    /\ AlternateEnabled \in BOOLEAN

Blank == " "

NoSaved == [row |-> -1, col |-> -1]

Lesser(a, b) == IF a < b THEN a ELSE b
Greater(a, b) == IF a > b THEN a ELSE b
Clamp(v, lo, hi) == Greater(lo, Lesser(v, hi))

BlankRow(cols) == [c \in 0..(cols - 1) |-> Blank]
BlankCells(rows, cols) == [r \in 0..(rows - 1) |-> BlankRow(cols)]

HasText(row) == \E c \in DOMAIN row : row[c] # Blank

\* A row in another width: cut or filled with blanks.
Fit(row, cols) == [c \in 0..(cols - 1) |-> IF c \in DOMAIN row THEN row[c] ELSE Blank]

(***************************************************************************)
(* memmove inside lo..hi of a row or of the rows: n places closed or       *)
(* opened at lo, the places that come free filled with gap.                *)
(***************************************************************************)
Closed(f, lo, hi, n, gap) ==
    [i \in DOMAIN f |-> IF i \notin lo..hi THEN f[i]
                        ELSE IF i + n <= hi THEN f[i + n] ELSE gap]
Opened(f, lo, hi, n, gap) ==
    [i \in DOMAIN f |-> IF i \notin lo..hi THEN f[i]
                        ELSE IF i - n >= lo THEN f[i - n] ELSE gap]
Cleared(f, lo, hi, gap) == [i \in DOMAIN f |-> IF i \in lo..hi THEN gap ELSE f[i]]

-----------------------------------------------------------------------------
(***************************************************************************)
(* The grid.  Used rows and cursor are those of the active screen;         *)
(* primaryKept and alternateKept are the ones committed for each screen.   *)
(* left is history: the rows that scrolled off the primary screen since    *)
(* the last clear, in the present width.                                   *)
(***************************************************************************)
Kept(used, row, col) == [used |-> used, row |-> row, col |-> col]

NewGrid(rows, cols) ==
    [rows |-> rows, cols |-> cols,
     primary |-> BlankCells(rows, cols), alternate |-> <<>>, usingAlternate |-> FALSE,
     used |-> 1, row |-> 0, col |-> 0,
     primaryKept |-> Kept(1, 0, 0), alternateKept |-> Kept(0, 0, 0),
     top |-> 0, bottom |-> rows - 1, saved |-> NoSaved,
     ring |-> [i \in 0..(ScrollbackRows - 1) |-> BlankRow(cols)], head |-> 0, count |-> 0,
     drops |-> 0, left |-> <<>>, hung |-> FALSE]

Cells(g) == IF g.usingAlternate THEN g.alternate ELSE g.primary

WithCells(g, cells) ==
    IF g.usingAlternate THEN [g EXCEPT !.alternate = cells] ELSE [g EXCEPT !.primary = cells]

WithRow(g, row) == WithCells(g, [Cells(g) EXCEPT ![g.row] = row])

MoveTo(g, row, col) == [g EXCEPT !.row = row, !.col = col]

CommitActive(g) ==
    IF g.usingAlternate THEN [g EXCEPT !.alternateKept = Kept(g.used, g.row, g.col)]
    ELSE [g EXCEPT !.primaryKept = Kept(g.used, g.row, g.col)]

SyncActive(g) ==
    LET kept == IF g.usingAlternate THEN g.alternateKept ELSE g.primaryKept
    IN [g EXCEPT !.used = kept.used, !.row = kept.row, !.col = kept.col]

ClampCursor(g) ==
    CommitActive(MoveTo(g, Clamp(g.row, 0, g.rows - 1), Clamp(g.col, 0, g.cols - 1)))

RegionTop(g) == IF g.top \in 0..(g.rows - 1) THEN g.top ELSE 0
RegionBottom(g) ==
    IF g.bottom \in RegionTop(g)..(g.rows - 1) THEN g.bottom ELSE g.rows - 1

\* The i-th row of the ring, the oldest first.
Scrollback(g) == [i \in 1..g.count |-> g.ring[(g.head + i - 1) % ScrollbackRows]]

PushScrollback(g, row) ==
    IF g.count < ScrollbackRows
    THEN [g EXCEPT !.ring[(g.head + g.count) % ScrollbackRows] = row,
                   !.count = @ + 1, !.left = Append(@, row)]
    ELSE [g EXCEPT !.ring[g.head] = row, !.head = (@ + 1) % ScrollbackRows,
                   !.drops = @ + 1, !.left = Append(@, row)]

UsedTo(g, rows) == [g EXCEPT !.used = Greater(@, rows)]

ScrollUp(g, top, bottom) ==
    LET pushed == IF ~g.usingAlternate /\ top = 0 /\ bottom = g.rows - 1
                  THEN PushScrollback(g, g.primary[0]) ELSE g
    IN UsedTo(WithCells(pushed, Closed(Cells(g), top, bottom, 1, BlankRow(g.cols))), bottom + 1)

ScrollDown(g, top, bottom) ==
    UsedTo(WithCells(g, Opened(Cells(g), top, bottom, 1, BlankRow(g.cols))), bottom + 1)

\* move_cursor_newline
Newline(g) ==
    LET next == g.row + 1
        moved == UsedTo(MoveTo(g, next, 0), next + 1)
        Scrolled(top, bottom) ==
            [ScrollUp(moved, top, bottom) EXCEPT !.row = bottom, !.used = g.rows]
    IN IF g.row \in RegionTop(g)..RegionBottom(g) /\ next > RegionBottom(g)
       THEN Scrolled(RegionTop(g), RegionBottom(g))
       ELSE IF next >= g.rows THEN Scrolled(0, g.rows - 1) ELSE moved

\* write_codepoint of a character one column wide.
Put(g, ch) ==
    LET row == [Cells(g)[g.row] EXCEPT ![g.col] = ch]
        written == [UsedTo(WithRow(g, row), g.row + 1) EXCEPT !.col = @ + 1]
    IN IF written.col >= g.cols THEN Newline(written) ELSE written

(***************************************************************************)
(* A tab writes blanks until the cursor is at the next stop.  When no stop *)
(* is left before the right edge, the blank in the last column wraps the   *)
(* cursor to column 0 and the loop does not end.                           *)
(***************************************************************************)
Tab(g) ==
    LET stop == ((g.col \div TabStop) + 1) * TabStop
        row == Cleared(Cells(g)[g.row], g.col, stop - 1, Blank)
    IN IF stop >= g.cols THEN [g EXCEPT !.hung = TRUE]
       ELSE [UsedTo(WithRow(g, row), g.row + 1) EXCEPT !.col = stop]

-----------------------------------------------------------------------------
SaveCursor(g) == [g EXCEPT !.saved = [row |-> g.row, col |-> g.col]]

RestoreCursor(g) ==
    IF g.saved = NoSaved THEN g ELSE ClampCursor(MoveTo(g, g.saved.row, g.saved.col))

\* term_grid_set_alternate, entering.
EnterAlternate(g, save) ==
    LET kept == CommitActive(IF save THEN SaveCursor(g) ELSE g)
    IN ClampCursor(SyncActive([kept EXCEPT
           !.alternate = BlankCells(g.rows, g.cols), !.alternateKept = Kept(1, 0, 0),
           !.usingAlternate = TRUE]))

\* term_grid_set_alternate, leaving.
LeaveAlternate(g, save) ==
    LET kept == CommitActive(IF save THEN SaveCursor(g) ELSE g)
        back == SyncActive([kept EXCEPT !.usingAlternate = FALSE])
    IN ClampCursor(IF save THEN RestoreCursor(back) ELSE back)

\* ?1047 and ?1049; only the latter saves and restores the cursor.
SetAlternate(g, enable, save) ==
    IF ~AlternateEnabled THEN g
    ELSE IF enable THEN EnterAlternate(g, save) ELSE LeaveAlternate(g, save)

EraseDisplay(g, mode) ==
    LET row == Cells(g)[g.row]
        blank == BlankRow(g.cols)
        Part(lo, hi) == [Cells(g) EXCEPT ![g.row] = Cleared(row, lo, hi, Blank)]
    IN CASE mode = 2 /\ g.usingAlternate ->
                CommitActive([MoveTo(WithCells(g, BlankCells(g.rows, g.cols)), 0, 0)
                                 EXCEPT !.used = 1])
         [] mode = 2 /\ ~g.usingAlternate -> WithCells(g, BlankCells(g.rows, g.cols))
         [] mode = 0 ->
                WithCells(g, Cleared(Part(g.col, g.cols - 1), g.row + 1, g.rows - 1, blank))
         [] mode = 1 -> WithCells(g, Cleared(Part(0, g.col), 0, g.row - 1, blank))
         [] mode \notin {0, 1, 2} -> g

EraseLine(g, mode) ==
    IF mode \notin {0, 1, 2} THEN g
    ELSE WithRow(g, Cleared(Cells(g)[g.row], IF mode = 0 THEN g.col ELSE 0,
                            IF mode = 1 THEN g.col ELSE g.cols - 1, Blank))

\* Lines are inserted and deleted inside the scroll region alone.
EditLines(g, Moved(_, _, _, _, _), n) ==
    LET bottom == RegionBottom(g)
        places == Lesser(n, bottom - g.row + 1)
    IN IF g.row \notin RegionTop(g)..bottom THEN g
       ELSE UsedTo(WithCells(g, Moved(Cells(g), g.row, bottom, places, BlankRow(g.cols))),
                   bottom + 1)

EditChars(g, Moved(_, _, _, _, _), n) ==
    WithRow(g, Moved(Cells(g)[g.row], g.col, g.cols - 1, Lesser(n, g.cols - g.col), Blank))

\* DECSTBM; a region that is empty or too large is the whole screen.
SetRegion(g, first, last) ==
    LET fits == first > 0 /\ first < last /\ last <= g.rows
    IN [MoveTo(g, 0, 0) EXCEPT !.top = IF fits THEN first - 1 ELSE 0,
                               !.bottom = IF fits THEN last - 1 ELSE g.rows - 1]

ReverseIndex(g) ==
    IF g.row <= RegionTop(g)
    THEN [ScrollDown(g, RegionTop(g), RegionBottom(g)) EXCEPT !.row = RegionTop(g)]
    ELSE [g EXCEPT !.row = @ - 1]

\* handle_csi without the private modes; op.n is at least 1 where it counts.
Csi(g, op) ==
    CASE op.k = "up"       -> ClampCursor([g EXCEPT !.row = @ - op.n])
      [] op.k = "down"     -> [g EXCEPT !.row = Lesser(@ + op.n, g.rows - 1)]
      [] op.k = "right"    -> [g EXCEPT !.col = Lesser(@ + op.n, g.cols - 1)]
      [] op.k = "left"     -> [g EXCEPT !.col = Greater(@ - op.n, 0)]
      [] op.k = "nextLine" -> MoveTo(g, Lesser(g.row + op.n, g.rows - 1), 0)
      [] op.k = "prevLine" -> MoveTo(g, Greater(g.row - op.n, 0), 0)
      [] op.k = "column"   -> [g EXCEPT !.col = Lesser(op.n - 1, g.cols - 1)]
      [] op.k = "line"     -> [g EXCEPT !.row = Lesser(op.n - 1, g.rows - 1)]
      [] op.k = "position" -> ClampCursor(MoveTo(g, op.n - 1, op.m - 1))
      [] op.k = "insertLines" -> EditLines(g, Opened, op.n)
      [] op.k = "deleteLines" -> EditLines(g, Closed, op.n)
      [] op.k = "insertChars" -> EditChars(g, Opened, op.n)
      [] op.k = "deleteChars" -> EditChars(g, Closed, op.n)
      [] op.k = "eraseChars"  ->
             WithRow(g, Cleared(Cells(g)[g.row], g.col, g.col + op.n - 1, Blank))
      [] op.k = "eraseDisplay" -> EraseDisplay(g, op.n)
      [] op.k = "eraseLine"    -> EraseLine(g, op.n)
      [] op.k = "region"       -> SetRegion(g, op.n, op.m)

CsiKinds ==
    {"up", "down", "right", "left", "nextLine", "prevLine", "column", "line", "position",
     "insertLines", "deleteLines", "insertChars", "deleteChars", "eraseChars",
     "eraseDisplay", "eraseLine", "region"}

PlainKinds ==
    {"put", "tab", "newline", "return", "back", "reverseIndex", "saveCursor", "restoreCursor",
     "alternate"}

\* What the emulator acts on.
IsOperation(op) == op.k \in CsiKinds \cup PlainKinds

AreOperations(ops) == Len(ops) \in Nat /\ \A i \in 1..Len(ops) : IsOperation(ops[i])

\* One operation; once the main thread hangs, no more come.
Interpret(g, op) ==
    CASE g.hung           -> g
      [] ~g.hung /\ op.k \in CsiKinds ->
             LET done == Csi(g, op) IN UsedTo(done, done.row + 1)
      [] ~g.hung /\ op.k = "put"     -> Put(g, op.ch)
      [] ~g.hung /\ op.k = "tab"     -> Tab(g)
      [] ~g.hung /\ op.k = "newline" -> Newline(g)
      [] ~g.hung /\ op.k = "return"  -> [g EXCEPT !.col = 0]
      [] ~g.hung /\ op.k = "back"    -> [g EXCEPT !.col = Greater(@ - 1, 0)]
      [] ~g.hung /\ op.k = "reverseIndex"  -> ReverseIndex(g)
      [] ~g.hung /\ op.k = "saveCursor"    -> SaveCursor(g)
      [] ~g.hung /\ op.k = "restoreCursor" -> RestoreCursor(g)
      [] ~g.hung /\ op.k = "alternate"     -> SetAlternate(g, op.n = 1, op.m = 1049)

\* term_emulator_feed
FeedGrid(g, ops) == Folded(Interpret, g, ops)

-----------------------------------------------------------------------------
(***************************************************************************)
(* resize_preserve_tail: the last used rows, at the bottom of the new      *)
(* screen.  Used rows and cursor are those last committed for the screen.  *)
(***************************************************************************)
PreservedTail(cells, oldRows, rows, cols, kept) ==
    LET used == Clamp(kept.used, 1, oldRows)
        copied == Lesser(used, rows)
        shift == (rows - copied) - (used - copied)
    IN [cells |-> [r \in 0..(rows - 1) |-> IF r >= rows - copied THEN Fit(cells[r - shift], cols)
                                           ELSE BlankRow(cols)],
        kept |-> Kept(rows, Clamp(kept.row + shift, 0, rows - 1), Clamp(kept.col, 0, cols - 1))]

(***************************************************************************)
(* Mutant: the rows are laid out anew, but the head stays.                 *)
(***************************************************************************)
RefitKeepsHead(g, cols) ==
    IF cols = g.cols THEN g
    ELSE [g EXCEPT !.ring = [i \in 0..(ScrollbackRows - 1) |->
                                 IF i < g.count THEN Fit(Scrollback(g)[i + 1], cols)
                                 ELSE BlankRow(cols)],
                   !.left = [i \in DOMAIN @ |-> Fit(@[i], cols)]]

\* The ring is laid out anew, oldest row first, when the width changes.
RefitRing(g, cols) ==
    IF cols = g.cols THEN g
    ELSE [g EXCEPT !.ring = [i \in 0..(ScrollbackRows - 1) |->
                                 IF i < g.count THEN Fit(Scrollback(g)[i + 1], cols)
                                 ELSE BlankRow(cols)],
                   !.head = 0,
                   !.left = [i \in DOMAIN @ |-> Fit(@[i], cols)]]

\* term_grid_resize
ResizeGrid(g, rows, cols) ==
    LET primary == PreservedTail(g.primary, g.rows, rows, cols, g.primaryKept)
        alternate == IF g.alternate = <<>>
                     THEN [cells |-> <<>>, kept |-> Kept(1, 0, 0)]
                     ELSE PreservedTail(g.alternate, g.rows, rows, cols, g.alternateKept)
        regionFits == g.bottom \in g.top..(rows - 1)
        synced == SyncActive([RefitRing(g, cols) EXCEPT
            !.rows = rows, !.cols = cols,
            !.primary = primary.cells, !.primaryKept = primary.kept,
            !.alternate = alternate.cells, !.alternateKept = alternate.kept,
            !.top = IF regionFits THEN @ ELSE 0,
            !.bottom = IF regionFits THEN @ ELSE rows - 1])
    IN CommitActive([synced EXCEPT !.used = Greater(Clamp(@, 1, rows), synced.row + 1)])

\* term_grid_clear: the active screen and the scrollback.
ClearGrid(g) ==
    CommitActive([MoveTo(WithCells(g, BlankCells(g.rows, g.cols)), 0, 0) EXCEPT
        !.used = 1, !.head = 0, !.count = 0, !.drops = 0, !.left = <<>>])
=============================================================================
