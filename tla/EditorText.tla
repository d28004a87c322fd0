----------------------------- MODULE EditorText -----------------------------
(***************************************************************************)
(* One open document under the keyboard, the mouse and the tools that      *)
(* change it from outside: the lines, the cursor, the selection, the       *)
(* clipboard and the two stacks of undo_stack.c.                           *)
(*                                                                         *)
(* A text is a sequence of lines and never empty.  Rows count from 1 and   *)
(* a column is the number of characters left of it.  A snapshot ends every *)
(* line with a newline, and loading one splits at newlines, so that a text *)
(* comes back from the stacks with an empty line more than it had.         *)
(*                                                                         *)
(* The code indexes lines by the cursor and by the anchor of the selection *)
(* without looking.  Where that reads memory outside the text, or memory   *)
(* that was freed, the program may do anything: here it stops.             *)
(***************************************************************************)
EXTENDS Naturals, Sequences

CONSTANTS
    Chars,       \* what can be typed; the blank ends a word
    Blank,
    TabWidth,    \* blanks a tab is typed as
    MaxUndo,     \* MAX_UNDO_ENTRIES
    Start,       \* the text when the document is opened
    Others,      \* texts written into the file by others
    OthersWrite, \* whether they are
    MaxKeys      \* bound on the commands of a behaviour

ASSUME UndoAssumption == MaxUndo \in Nat \ {0}

LettersIn(t) == UNION {{t[r][c] : c \in DOMAIN t[r]} : r \in DOMAIN t}
Letters == Chars \cup {Blank} \cup UNION {LettersIn(t) : t \in {Start} \cup Others}

Text == Seq(Seq(Letters)) \ {<<>>}

ASSUME TextAssumption ==
    /\ Start \in Text
    /\ Others \subseteq Text
    /\ TabWidth \in Nat

VARIABLES
    doc,         \* lines, cursor, anchor and whether a selection is open
    dragged,     \* mouseHasMovedSinceClick
    hist,        \* undo, redo, and whether a word is being typed
    clipboard,   \* the copied text, as lines
    modified,    \* isModified
    saved,       \* the text last read from the file or queued for it
    latest,      \* the text the last command that changes texts left behind
    running,     \* FALSE once memory outside the text was used
    keys

vars == <<doc, dragged, hist, clipboard, modified, saved, latest, running, keys>>

NoText == << <<>> >>
At(row, col) == [row |-> row, col |-> col]

Init ==
    /\ doc = [lines |-> Start, cursor |-> At(1, 0), anchor |-> At(1, 0), selecting |-> FALSE]
    /\ dragged = FALSE
    /\ hist = [undo |-> <<>>, redo |-> <<>>, pending |-> FALSE]
    /\ clipboard = NoText
    /\ modified = FALSE
    /\ saved = Start
    /\ latest = Start
    /\ running = TRUE
    /\ keys = 0

-----------------------------------------------------------------------------
\* Texts and places in them.

Splice(s, first, last, new) ==
    SubSeq(s, 1, first - 1) \o new \o SubSeq(s, last + 1, Len(s))

Left(line, col) == SubSeq(line, 1, col)
Right(line, col) == SubSeq(line, col + 1, Len(line))

Min2(a, b) == IF a <= b THEN a ELSE b

InRows(d, p) == p.row \in 1..Len(d.lines)
InText(d, p) == InRows(d, p) /\ p.col <= Len(d.lines[p.row])
Places(d) == UNION {{At(r, c) : c \in 0..Len(d.lines[r])} : r \in 1..Len(d.lines)}

Line(d) == d.lines[d.cursor.row]

\* The cursor with its column brought back into its line.
Clamped(d) == At(d.cursor.row, Min2(d.cursor.col, Len(Line(d))))

Before(p, q) == p.row < q.row \/ (p.row = q.row /\ p.col <= q.col)
From(d) == IF Before(d.anchor, d.cursor) THEN d.anchor ELSE d.cursor
To(d) == IF Before(d.anchor, d.cursor) THEN d.cursor ELSE d.anchor

-----------------------------------------------------------------------------
\* The selection.

\* Reading the selection stays within the text.  One column too many in a
\* line is its end mark.
SelectionReadable(d) ==
    /\ InRows(d, From(d)) /\ InRows(d, To(d))
    /\ \/ To(d).col <= Len(d.lines[To(d).row])
       \/ From(d).row = To(d).row /\ To(d).col = Len(d.lines[To(d).row]) + 1

\* Slip: the column the selection begins at is taken off its last line instead
\* of its first.
SelectedShort(d) ==
    LET piece(r) ==
            SubSeq(d.lines[r], IF r = To(d).row THEN From(d).col + 1 ELSE 1,
                   IF r = To(d).row THEN Min2(To(d).col, Len(d.lines[r])) ELSE Len(d.lines[r]))
    IN  [i \in 1..(To(d).row - From(d).row + 1) |-> piece(From(d).row + i - 1)]

Selected(d) ==
    LET piece(r) ==
            SubSeq(d.lines[r], IF r = From(d).row THEN From(d).col + 1 ELSE 1,
                   IF r = To(d).row THEN Min2(To(d).col, Len(d.lines[r])) ELSE Len(d.lines[r]))
    IN  [i \in 1..(To(d).row - From(d).row + 1) |-> piece(From(d).row + i - 1)]

\* A selection that begins beyond its first line takes what follows it along:
\* the line is filled up with end marks and the rest put behind them.
Removed(d) ==
    LET f == From(d)
        t == To(d)
        first == d.lines[f.row]
        rest == Right(d.lines[t.row], t.col)
        joined == IF f.row = t.row
                  THEN IF t.col > Len(first) THEN first ELSE Left(first, f.col) \o rest
                  ELSE IF f.col > Len(first) THEN first ELSE Left(first, f.col) \o rest
    IN  [d EXCEPT !.lines = Splice(@, f.row, t.row, <<joined>>),
                  !.cursor = f, !.selecting = FALSE]

Unselected(d) == IF d.selecting THEN Removed(d) ELSE d

-----------------------------------------------------------------------------
\* The edits.

Typed(d, chars) ==
    LET c == Clamped(d)
    IN  [d EXCEPT !.lines[c.row] = Left(@, c.col) \o chars \o Right(@, c.col),
                  !.cursor = At(c.row, c.col + Len(chars))]

SplitLine(d) ==
    LET c == Clamped(d)
    IN  [d EXCEPT !.lines = Splice(@, c.row, c.row,
                                   <<Left(Line(d), c.col), Right(Line(d), c.col)>>),
                  !.cursor = At(c.row + 1, 0)]

\* Line r with the line below it at its end.
Merged(lines, r) == Splice(lines, r, r + 1, <<lines[r] \o lines[r + 1]>>)

Erased(d) ==
    LET r == d.cursor.row
        c == d.cursor.col
    IN  IF c > 0
        THEN [d EXCEPT !.lines[r] = Left(@, Min2(c - 1, Len(@))) \o Right(@, c),
                       !.cursor = At(r, c - 1)]
        ELSE IF r > 1
        THEN [d EXCEPT !.lines = Merged(@, r - 1),
                       !.cursor = At(r - 1, Len(d.lines[r - 1]))]
        ELSE d

ErasedForward(d) ==
    LET r == d.cursor.row
        c == d.cursor.col
    IN  IF c < Len(Line(d))
        THEN [d EXCEPT !.lines[r] = Left(@, c) \o Right(@, c + 1)]
        ELSE IF r < Len(d.lines)
        THEN [d EXCEPT !.lines = Merged(@, r)]
        ELSE d

\* strtok passes over empty lines.
Kept(clip) ==
    LET kept[n \in 0..Len(clip)] ==
            IF n = 0 THEN <<>>
            ELSE IF clip[n] = <<>> THEN kept[n - 1]
            ELSE Append(kept[n - 1], clip[n])
    IN  kept[Len(clip)]

\* The removal of the selection may leave the cursor behind the end of its line.
PasteDefined(d) ==
    /\ d.selecting => SelectionReadable(d)
    /\ InText(Unselected(d), Unselected(d).cursor)
    /\ Kept(clipboard) # <<>>

Pasted(d, clip) ==
    LET u == Unselected(d)
        r == u.cursor.row
        lines == Kept(clip)
        n == Len(lines)
        before == [lines EXCEPT ![1] = Left(Line(u), u.cursor.col) \o @]
    IN  [u EXCEPT !.lines = Splice(@, r, r, [before EXCEPT ![n] = @ \o Right(Line(u), u.cursor.col)]),
                  !.cursor = At(r + n - 1, Len(before[n]))]

Duplicated(d) ==
    [d EXCEPT !.lines = Splice(@, d.cursor.row, d.cursor.row, <<Line(d), Line(d)>>),
              !.cursor.row = @ + 1]

-----------------------------------------------------------------------------
\* The history.

Entry(d) == [lines |-> d.lines, cursor |-> d.cursor]

\* Slip: the way forward stays when something new is put on the stack.
PushedKeepingRedo(h, d) ==
    [h EXCEPT !.undo = Append(IF Len(@) >= MaxUndo THEN Tail(@) ELSE @, Entry(d))]

\* A full stack drops its oldest entry; a new one takes the way forward away.
Pushed(h, d) ==
    [h EXCEPT !.undo = Append(IF Len(@) >= MaxUndo THEN Tail(@) ELSE @, Entry(d)),
              !.redo = <<>>]

Committed(h, d) == IF h.pending THEN [Pushed(h, d) EXCEPT !.pending = FALSE] ELSE h

Top(s) == s[Len(s)]
Rest(s) == SubSeq(s, 1, Len(s) - 1)

\* Slip: the last place of the stack is never used.
StackedShort(s, d) == IF Len(s) + 1 < MaxUndo THEN Append(s, Entry(d)) ELSE s

\* A full stack keeps nothing of what it is given.
Stacked(s, d) == IF Len(s) < MaxUndo THEN Append(s, Entry(d)) ELSE s

\* The text of an entry comes back with the empty line after its last newline.
Recalled(d, e) ==
    [d EXCEPT !.lines = Append(e.lines, <<>>), !.cursor = e.cursor, !.selecting = FALSE]

-----------------------------------------------------------------------------
\* Commands.

Command ==
    /\ running
    /\ keys < MaxKeys
    /\ keys' = keys + 1

\* A command that reads outside the text.
Stray ==
    /\ running' = FALSE
    /\ UNCHANGED <<doc, dragged, hist, clipboard, modified, saved, latest>>

\* A command that leaves d as the document and h as the history.
LeavesBehind(d, h, changed) ==
    /\ doc' = d
    /\ hist' = h
    /\ modified' = (modified \/ changed)
    /\ latest' = d.lines
    /\ UNCHANGED <<dragged, saved, running>>

\* handleCommandInsertCharacter.  A word goes on the stack once it is over.
Type(c) ==
    /\ Command
    /\ InRows(doc, doc.cursor)
    /\ LET d == Typed(doc, <<c>>)
       IN  LeavesBehind(d, IF c = Blank THEN Committed(hist, d) ELSE [hist EXCEPT !.pending = TRUE], TRUE)
    /\ UNCHANGED clipboard

\* The word is over with the first of the blanks.
TypeTab ==
    /\ Command
    /\ InRows(doc, doc.cursor)
    /\ LeavesBehind(Typed(doc, [i \in 1..TabWidth |-> Blank]),
              Committed(hist, Typed(doc, <<Blank>>)), TRUE)
    /\ UNCHANGED clipboard

InsertNewline ==
    /\ Command
    /\ LET h == Pushed(Committed(hist, doc), doc)
       IN  IF InRows(doc, doc.cursor) THEN LeavesBehind(SplitLine(doc), h, TRUE) ELSE LeavesBehind(doc, h, FALSE)
    /\ UNCHANGED clipboard

\* Backspace.  A selection is on the stack twice afterwards.
DeleteCharacter ==
    /\ Command
    /\ LET h == Pushed(hist, doc)
       IN  IF doc.selecting
           THEN IF SelectionReadable(doc) THEN LeavesBehind(Removed(doc), Pushed(h, doc), TRUE) ELSE Stray
           ELSE IF InRows(doc, doc.cursor)
           THEN LeavesBehind(Erased(doc), h, doc.cursor # At(1, 0))
           ELSE LeavesBehind(doc, h, FALSE)
    /\ UNCHANGED clipboard

DeleteForward ==
    /\ Command
    /\ IF doc.selecting
       THEN IF SelectionReadable(doc) THEN LeavesBehind(Removed(doc), Pushed(hist, doc), TRUE) ELSE Stray
       ELSE /\ InRows(doc, doc.cursor)
            /\ ErasedForward(doc) # doc
            /\ LeavesBehind(ErasedForward(doc), Pushed(hist, doc), TRUE)
    /\ UNCHANGED clipboard

Copy ==
    /\ Command
    /\ doc.selecting
    /\ IF SelectionReadable(doc)
       THEN /\ clipboard' = Selected(doc)
            /\ UNCHANGED <<doc, dragged, hist, modified, saved, latest, running>>
       ELSE Stray

Cut ==
    /\ Command
    /\ doc.selecting
    /\ IF SelectionReadable(doc)
       THEN /\ clipboard' = Selected(doc)
            /\ LeavesBehind(Removed(doc), Pushed(hist, doc), TRUE)
       ELSE Stray

\* Slip: a paste that does not mark the document.
PasteUnmarked ==
    /\ Command
    /\ clipboard # NoText
    /\ IF PasteDefined(doc)
       THEN LeavesBehind(Pasted(doc, clipboard), Pushed(hist, doc), FALSE)
       ELSE Stray
    /\ UNCHANGED clipboard

Paste ==
    /\ Command
    /\ clipboard # NoText
    /\ IF PasteDefined(doc)
       THEN LeavesBehind(Pasted(doc, clipboard), Pushed(hist, doc), TRUE)
       ELSE Stray
    /\ UNCHANGED clipboard

\* Command keys bring the column back into its line, and shift opens a selection.
Commanded(shift) ==
    IF shift /\ ~doc.selecting
    THEN [doc EXCEPT !.cursor = Clamped(doc), !.anchor = Clamped(doc), !.selecting = TRUE]
    ELSE [doc EXCEPT !.cursor = Clamped(doc)]

DuplicateLine(shift) ==
    /\ Command
    /\ IF InRows(doc, doc.cursor)
       THEN LET d == Commanded(shift)
            IN  LeavesBehind(Duplicated(d), Pushed(Committed(hist, d), d), TRUE)
       ELSE Stray
    /\ UNCHANGED clipboard

Undo ==
    /\ Command
    /\ hist.undo # <<>>
    /\ hist' = [undo |-> Rest(hist.undo), redo |-> Stacked(hist.redo, doc), pending |-> FALSE]
    /\ doc' = Recalled(doc, Top(hist.undo))
    /\ modified' = TRUE
    /\ UNCHANGED <<dragged, clipboard, saved, latest, running>>

Redo ==
    /\ Command
    /\ hist.redo # <<>>
    /\ hist' = [undo |-> Stacked(hist.undo, doc), redo |-> Rest(hist.redo), pending |-> FALSE]
    /\ doc' = Recalled(doc, Top(hist.redo))
    /\ modified' = TRUE
    /\ UNCHANGED <<dragged, clipboard, saved, latest, running>>

Save ==
    /\ Command
    /\ saved' = doc.lines
    /\ modified' = FALSE
    /\ UNCHANGED <<doc, dragged, hist, clipboard, latest, running>>

-----------------------------------------------------------------------------
\* Moving and selecting.

\* Only the cursor, the anchor and the selection change.
Shows(cursor, anchor, selecting) ==
    /\ doc' = [doc EXCEPT !.cursor = cursor, !.anchor = anchor, !.selecting = selecting]
    /\ UNCHANGED <<hist, clipboard, modified, saved, latest, running>>

Arrows == {"up", "down", "left", "right"}

\* Where a key takes the cursor; the lines it reads are there.
Moved(key) ==
    LET r == doc.cursor.row
        c == doc.cursor.col
        to(row) == At(row, Min2(c, Len(doc.lines[row])))
    IN  CASE key = "up" -> IF r > 1 THEN to(r - 1) ELSE doc.cursor
          [] key = "down" -> IF r < Len(doc.lines) THEN to(r + 1) ELSE doc.cursor
          [] key = "left" -> IF c > 0 THEN At(r, c - 1)
                             ELSE IF r > 1 THEN At(r - 1, Len(doc.lines[r - 1]))
                             ELSE doc.cursor
          [] key = "right" -> IF c < Len(Line(doc)) THEN At(r, c + 1)
                              ELSE IF r < Len(doc.lines) THEN At(r + 1, 0)
                              ELSE doc.cursor
          [] key = "home" -> At(r, 0)
          [] key = "end" -> At(r, Len(Line(doc)))

MoveReadable(key) ==
    CASE key \in {"right", "end"} -> InRows(doc, doc.cursor)
      [] key = "up" \/ (key = "left" /\ doc.cursor.col = 0) -> doc.cursor.row <= Len(doc.lines) + 1
      [] OTHER -> TRUE

\* An arrow with a modifier opens a selection, any move without shift ends it.
MoveCursor(key, mods) ==
    LET opens == key \in Arrows /\ mods # {} /\ ~doc.selecting
    IN  /\ Command
        /\ IF MoveReadable(key)
           THEN /\ Shows(Moved(key), IF opens THEN doc.cursor ELSE doc.anchor,
                         "shift" \in mods /\ (doc.selecting \/ opens))
                /\ UNCHANGED dragged
           ELSE Stray

JumpToEnd(key, shift) ==
    /\ Command
    /\ IF InRows(doc, doc.cursor)
       THEN LET last == Len(doc.lines)
            IN  Shows(IF key = "top" THEN At(1, 0) ELSE At(last, Len(doc.lines[last])),
                      Commanded(shift).anchor, Commanded(shift).selecting)
                /\ UNCHANGED dragged
       ELSE Stray

SelectAll ==
    /\ Command
    /\ Shows(At(Len(doc.lines), Len(doc.lines[Len(doc.lines)])), At(1, 0), TRUE)
    /\ UNCHANGED dragged

\* editor_jump_to: a problem, a symbol or a search hit was chosen.
JumpTo(p) ==
    /\ Command
    /\ Shows(p, doc.anchor, FALSE)
    /\ UNCHANGED dragged

Click(p) ==
    /\ Command
    /\ Shows(p, p, TRUE)
    /\ dragged' = FALSE

Drag(p) ==
    /\ Command
    /\ Shows(p, doc.anchor, TRUE)
    /\ dragged' = TRUE

Release ==
    /\ Command
    /\ Shows(doc.cursor, doc.anchor, (doc.selecting \/ dragged) /\ doc.anchor # doc.cursor)
    /\ dragged' = FALSE

\* The thumb of the scroll bar takes the mouse and ends the selection.
GrabThumb ==
    /\ Command
    /\ Shows(doc.cursor, doc.anchor, FALSE)
    /\ dragged' = FALSE

-----------------------------------------------------------------------------
\* The file changes behind the document.  Neither way looks at the cursor.

\* reloadOpenFileFromDisk, for a document without unsaved edits.
Reload(t) ==
    /\ OthersWrite
    /\ Command
    /\ ~modified
    /\ doc' = [doc EXCEPT !.lines = t]
    /\ saved' = t
    /\ latest' = t
    /\ UNCHANGED <<dragged, hist, clipboard, modified, running>>

\* A patch whose text the buffer can represent, applied and saved.
Patch(t) ==
    /\ OthersWrite
    /\ Command
    /\ ~modified
    /\ hist' = Pushed(hist, doc)
    /\ doc' = [doc EXCEPT !.lines = t]
    /\ saved' = t
    /\ latest' = t
    /\ UNCHANGED <<dragged, clipboard, modified, running>>

Next ==
    \/ \E c \in Chars : Type(c)
    \/ TypeTab
    \/ InsertNewline
    \/ DeleteCharacter
    \/ DeleteForward
    \/ Copy
    \/ Cut
    \/ Paste
    \/ Undo
    \/ Redo
    \/ Save
    \/ \E shift \in BOOLEAN : DuplicateLine(shift)
    \/ \E key \in Arrows \cup {"home", "end"}, mods \in SUBSET {"shift", "cmd"} : MoveCursor(key, mods)
    \/ \E key \in {"top", "bottom"}, shift \in BOOLEAN : JumpToEnd(key, shift)
    \/ SelectAll
    \/ \E p \in Places(doc) : JumpTo(p) \/ Click(p) \/ Drag(p)
    \/ Release
    \/ GrabThumb
    \/ \E t \in Others : Reload(t) \/ Patch(t)

Spec == Init /\ [][Next]_vars

-----------------------------------------------------------------------------
\* Properties.

\* The two stacks share the room of one: a step back or forward never finds
\* the other stack full, where the code would silently keep nothing
\* (undo_stack.c performUndo, performRedo).
HistoryShared == Len(hist.undo) + Len(hist.redo) <= MaxUndo

\* Texts up to the empty lines at their end.
Same(s, t) ==
    LET n == Min2(Len(s), Len(t))
    IN  /\ SubSeq(s, 1, n) = SubSeq(t, 1, n)
        /\ \A i \in (n + 1)..Len(s) : s[i] = <<>>
        /\ \A i \in (n + 1)..Len(t) : t[i] = <<>>

\* However one goes back and forth, what the last editing command left is
\* still shown or within reach (undo_stack.c).
LatestKept ==
    \/ Same(latest, doc.lines)
    \/ \E i \in DOMAIN hist.undo : Same(latest, hist.undo[i].lines)
    \/ \E i \in DOMAIN hist.redo : Same(latest, hist.redo[i].lines)

\* A document that counts as unmodified, and that the watcher may therefore
\* reload and a patch replace, has the text its file was last given.
CleanIsSaved == ~modified => doc.lines = saved

\* A selection cut out and pasted back at once gives the text back, as long
\* as it has no empty line (editor_clipboard.c, forwards and backwards).
PasteUndoesCut ==
    doc.selecting /\ running /\ InText(doc, doc.anchor) /\ InText(doc, doc.cursor)
        /\ (\A i \in DOMAIN Selected(doc) : Selected(doc)[i] # <<>>)
    => LET back == Pasted(Removed(doc), Selected(doc))
       IN  back.lines = doc.lines /\ back.cursor = To(doc)

-----------------------------------------------------------------------------
\* What one might expect, and the code does not do.

\* "Undo the most recent edit operation" (undo_stack.h:16): undo shows a text
\* other than the one it takes back.
UndoTakesBack == [][Undo => ~Same(doc'.lines, doc.lines)]_vars

\* A selection lies within the text.
SelectionInside == doc.selecting => InText(doc, doc.anchor) /\ InText(doc, doc.cursor)

\* The program goes on.
NothingStray == running
=============================================================================
