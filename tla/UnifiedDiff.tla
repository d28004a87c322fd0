---------------------------- MODULE UnifiedDiff ----------------------------
(***************************************************************************)
(* How a patch of a client is read and applied (ide_ipc_edit_apply.c).     *)
(*                                                                         *)
(* A text is the sequence of rows split_lines makes of it: a text that     *)
(* ends with a newline has an empty last row.  A row is a word, or a word  *)
(* behind "-- " or "++ ": once printed behind a "-" or "+" of its own, such *)
(* a row looks like the header of a file.                                   *)
(***************************************************************************)
EXTENDS Integers, SequencesExt, FiniteSetsExt, Collections

CONSTANTS
    Words,        \* what rows and paths are made of
    MaxScript     \* rows of a file that diffs are made of

ASSUME DiffAssumption == MaxScript \in Nat \ {0}

VARIABLE script    \* what the diffs looked at now do to a text

Blank == [mark |-> "", word |-> ""]

Row == [mark : {"", "--", "++"}, word : Words] \cup {Blank}

Refused == [path |-> "", rows |-> <<>>]

-----------------------------------------------------------------------------
(* Reading.  A row of a diff is [op, row]; a hunk header has op "@" and the *)
(* four numbers, of which a count of 1 is not printed.                      *)

IsOldHeader(l) == l.op = "-" /\ l.row.mark = "--"
IsNewHeader(l) == l.op = "+" /\ l.row.mark = "++"

\* The first form needs both counts, the second none for the old text.
parse_hunk_header(h) ==
    \/ h.oldCount # 1 /\ h.newCount # 1
    \/ h.oldCount = 1

\* Mutant of ReadHunk: the start is that of the new text.
ReadHunkNew(h) == [start |-> h.newStart, rows |-> <<>>]

ReadHunk(h) == [start |-> h.oldStart, rows |-> <<>>]

NoFile == [path |-> "", hunks |-> <<>>]

LastFile(p) == p.files[Len(p.files)]
WithLast(p, file) == [p EXCEPT !.files = Append(Front(@), file)]

InHunk(p) == p.files # <<>> /\ LastFile(p).hunks # <<>>

Extended(file, l) ==
    LET longer == [Last(file.hunks) EXCEPT !.rows = Append(@, l)]
    IN [file EXCEPT !.hunks = Append(Front(@), longer)]

\* What has been read (files, and whether a header was malformed) and one more row.
ReadRow(p, l) ==
    CASE l.op = "@" ->
            IF p.files = <<>> THEN p
            ELSE IF parse_hunk_header(l)
            THEN WithLast(p, [LastFile(p) EXCEPT !.hunks = Append(@, ReadHunk(l))])
            ELSE [p EXCEPT !.malformed = TRUE]
      [] l.op # "@" /\ IsOldHeader(l) -> [p EXCEPT !.files = Append(@, NoFile)]
      [] l.op # "@" /\ IsNewHeader(l) ->
            IF p.files = <<>> THEN p ELSE WithLast(p, [LastFile(p) EXCEPT !.path = l.row.word])
      [] OTHER -> IF InHunk(p) THEN WithLast(p, Extended(LastFile(p), l)) ELSE p

parse_unified_diff(diff) == Folded(ReadRow, [files |-> <<>>, malformed |-> FALSE], diff)

-----------------------------------------------------------------------------
(* Applying *)

\* Mutant of Matches: rows of context are taken as they are.
MatchesRemoved(text, s, l) ==
    s.at < Len(text) /\ (l.op = "-" => text[s.at + 1] = l.row)

Matches(text, s, l) == s.at < Len(text) /\ text[s.at + 1] = l.row

\* s: rows of text passed, rows put out, and whether all matched so far.
ApplyRow(text, s, l) ==
    IF l.op = "+" THEN [s EXCEPT !.out = Append(@, l.row)]
    ELSE IF ~s.ok \/ ~Matches(text, s, l) THEN [s EXCEPT !.ok = FALSE]
    ELSE [s EXCEPT !.at = @ + 1, !.out = IF l.op = " " THEN Append(@, l.row) ELSE @]

ApplyRows(text, s, rows) == Folded(LAMBDA t, l : ApplyRow(text, t, l), s, rows)

\* The rows up to the hunk are copied; there is no way back to earlier ones.
CopyUpTo(text, s, start) ==
    LET target == Min({Max({start - 1, 0}), Len(text)})
        from == Max({s.at, target})
    IN [s EXCEPT !.at = from, !.out = @ \o SubSeq(text, s.at + 1, from)]

ApplyHunk(text, s, hunk) == ApplyRows(text, CopyUpTo(text, s, hunk.start), hunk.rows)

ApplyHunks(text, hunks) ==
    Folded(LAMBDA t, h : ApplyHunk(text, t, h), [at |-> 0, out |-> <<>>, ok |-> TRUE], hunks)

apply_file_patch_to_text(text, file) ==
    LET s == ApplyHunks(text, file.hunks)
    IN [ok |-> s.ok, rows |-> s.out \o SubSeq(text, s.at + 1, Len(text))]

\* What becomes of a patch of one file, text being what that file holds.
Patched(diff, text) ==
    LET patch == parse_unified_diff(diff)
        file == Head(patch.files)
        result == apply_file_patch_to_text(text, file)
    IN IF patch.malformed \/ Len(patch.files) # 1 \/ file.path = "" \/ ~result.ok
       THEN Refused
       ELSE [path |-> file.path, rows |-> result.rows]

-----------------------------------------------------------------------------
(* What a diff is.  A script says which rows are kept, removed and added; a *)
(* view of it, which of them are shown.                                     *)

\* The rows of the script that are in S and kept, removed or added as ops says.
RowsIn(S, ops) ==
    LET rows[n \in 0..Len(script)] ==
            IF n = 0 THEN <<>>
            ELSE IF n \in S /\ script[n].op \in ops THEN Append(rows[n - 1], script[n].row)
            ELSE rows[n - 1]
    IN rows[Len(script)]

OldRows(S) == RowsIn(S, {" ", "-"})
NewRows(S) == RowsIn(S, {" ", "+"})

Text(rows) == Append(rows, Blank)
OldText == Text(OldRows(DOMAIN script))
NewText == Text(NewRows(DOMAIN script))

\* The rows a hunk begins with, and the hunk that begins with row i.
Begins(shown) == {i \in shown : i - 1 \notin shown}
Hunk(shown, i) == {j \in shown : i <= j /\ i..j \subseteq shown}

\* Changes are shown, and a hunk shows some row of the old text, if there is one.
Views ==
    {shown \in SUBSET (DOMAIN script) :
        /\ \A i \in DOMAIN script : script[i].op # " " => i \in shown
        /\ OldRows(DOMAIN script) # <<>> =>
             \A i \in Begins(shown) : OldRows(Hunk(shown, i)) # <<>>}

OldBefore(i) == Len(OldRows(1..(i - 1)))

Header(shown, i) ==
    LET olds == Len(OldRows(Hunk(shown, i)))
        news == Len(NewRows(Hunk(shown, i)))
        start(before, count) == IF count = 0 THEN before ELSE before + 1
    IN [op |-> "@", oldCount |-> olds, newCount |-> news,
        oldStart |-> start(OldBefore(i), olds),
        newStart |-> start(Len(NewRows(1..(i - 1))), news)]

FileHeader(path) == <<[op |-> "-", row |-> [mark |-> "--", word |-> path]],
                      [op |-> "+", row |-> [mark |-> "++", word |-> path]]>>

Diff(path, shown) ==
    LET lines[n \in 0..Len(script)] ==
            IF n = 0 THEN FileHeader(path)
            ELSE IF n \notin shown THEN lines[n - 1]
            ELSE IF n - 1 \in shown THEN Append(lines[n - 1], script[n])
            ELSE Append(Append(lines[n - 1], Header(shown, n)), script[n])
    IN lines[Len(script)]

DiffInit == script = <<>>

WriteRow == /\ Len(script) < MaxScript
            /\ \E op \in {" ", "-", "+"}, row \in Row :
                 script' = Append(script, [op |-> op, row |-> row])

DiffSpec == DiffInit /\ [][WriteRow]_script

-----------------------------------------------------------------------------
(* Property *)

\* No row to be added looks like the header of a file.
AddedPlainly == \A i \in DOMAIN script : ~IsNewHeader(script[i])

\* Every header is of a form that is read, and no row to be removed looks like
\* the header of a file.
Readable(shown) ==
    /\ \A i \in Begins(shown) : parse_hunk_header(Header(shown, i))
    /\ \A i \in DOMAIN script : ~IsOldHeader(script[i])

\* The rows the hunk of row i keeps or removes stand in the text where its
\* header says.
Stands(text, shown, i) ==
    LET rows == OldRows(Hunk(shown, i))
        before == OldBefore(i)
    IN \A k \in 1..Len(rows) : before + k <= Len(text) /\ text[before + k] = rows[k]

\* A diff between two texts turns the first into the second or is refused, and
\* on any other text it is only accepted where all its rows are found
\* (ide_ipc_edit_apply.c:171, 190, 365).
PatchIsExact ==
    AddedPlainly => \A shown \in Views :
        LET diff == Diff("p", shown)
        IN /\ Patched(diff, OldText) =
                IF Readable(shown) THEN [path |-> "p", rows |-> NewText] ELSE Refused
           /\ \A i \in DOMAIN OldText : \A row \in Row :
                LET text == [OldText EXCEPT ![i] = row]
                IN Patched(diff, text) # Refused => \A h \in Begins(shown) : Stands(text, shown, h)
=============================================================================
