---------------------------- MODULE ErrorsPanel ----------------------------
(***************************************************************************)
(* The errors panel (src/ide/Panes/ToolPanels/Errors): a snapshot of the   *)
(* diagnostics store, renewed before drawing and before every event when   *)
(* another stamp has been published; files folded by their place in it;    *)
(* filters and a search; and rows marked by number.                        *)
(*                                                                         *)
(* A diagnostic is its severity and the one word a search may find in it.  *)
(***************************************************************************)
EXTENDS RowSelection, FiniteSets, SequencesExt, Collections

CONSTANTS
    DiagPaths,      \* files with diagnostics
    DiagLists,      \* what a file's diagnostics may be, sequences of Diagnostic
    SearchWords,
    RowRoom         \* 512: rows built, and rows that can be marked

NoQuery == "none"
NoDiag == [severity |-> "header", says |-> NoQuery]
Severities == {"error", "warning", "note"}
Diagnostic == [severity : Severities, says : SearchWords]

ASSUME DiagsAssumption ==
    /\ IsFiniteSet(DiagPaths)
    /\ DiagLists \subseteq Seq(Diagnostic)
    /\ RowRoom \in Nat

VARIABLES
    stored,     \* the published contents of the store
    current,    \* the snapshot has its stamp
    snapshot,   \* snapshot_files
    folds,      \* file_collapsed, as far as initialised
    markedRows, \* selected
    dragAnchor, \* drag_state
    filters,    \* filter_all, filter_errors, filter_warnings: those that are on
    query       \* search_query

errorsVars == <<stored, current, snapshot, folds, markedRows, dragAnchor, filters, query>>

ErrorsTypeOK ==
    /\ \A i \in DOMAIN snapshot :
           snapshot[i].path \in DiagPaths /\ snapshot[i].diags \in DiagLists \ {<<>>}
    /\ Len(folds) >= Len(snapshot)
    /\ markedRows \subseteq 0..(RowRoom - 1)
    /\ dragAnchor \in {NoHit} \cup 0..(RowRoom - 1)
    /\ query \in SearchWords \cup {NoQuery}

ErrorsInit ==
    /\ stored = [p \in DiagPaths |-> <<>>]
    /\ current = FALSE
    /\ snapshot = <<>>
    /\ folds = <<>>
    /\ markedRows = {}
    /\ dragAnchor = NoHit
    /\ filters = {"all", "error", "warning"}
    /\ query = NoQuery

-----------------------------------------------------------------------------
(* Rows.                                                                   *)

DiagVisible(d) ==
    /\ "all" \in filters \/ d.severity \in filters
    /\ query \in {NoQuery, d.says}

Hidden == {d \in Diagnostic : ~DiagVisible(d)}

Header(path) == [path |-> path, diag |-> NoDiag]

RowsOfFile(i) ==
    LET file == snapshot[i]
        visible == Dropping(file.diags, Hidden)
    IN IF visible = <<>> THEN <<>>
       ELSE <<Header(file.path)>> \o
            (IF folds[i] THEN <<>>
             ELSE [k \in DOMAIN visible |-> [path |-> file.path, diag |-> visible[k]]])

(* flatten_diagnostics                                                     *)
Rows ==
    LET all == FlattenSeq([i \in DOMAIN snapshot |-> RowsOfFile(i)])
    IN SubSeq(all, 1, IF Len(all) > RowRoom THEN RowRoom ELSE Len(all))

ShownRows == Len(Rows)
RowNumbers == 0..(ShownRows - 1)
RowAt(r) == Rows[r + 1]
IsHeader(r) == RowAt(r).diag = NoDiag
FileOf(r) == CHOOSE i \in DOMAIN snapshot : snapshot[i].path = RowAt(r).path

(* What a row number shows, if anything.                                   *)
Shows(r) == IF r \in RowNumbers THEN <<RowAt(r)>> ELSE <<>>

-----------------------------------------------------------------------------
(* The snapshot.                                                           *)

(* A run publishes what it found.                                          *)
StorePublished ==
    /\ \E p \in DiagPaths, diags \in DiagLists :
           stored' = [stored EXCEPT ![p] = diags]
    /\ current' = FALSE
    /\ UNCHANGED <<snapshot, folds, markedRows, dragAnchor, filters, query>>

(* errors_refresh_snapshot_from_store: files keep their place, new ones    *)
(* come last, then those without diagnostics are taken out and the later   *)
(* ones move up.  What is folded stays where it was, by number; a number   *)
(* used for the first time is folded.                                      *)
RenewSnapshot ==
    LET known == {snapshot[i].path : i \in DOMAIN snapshot}
        new == {p \in DiagPaths \ known : stored[p] # <<>>}
    IN /\ ~current
       /\ current' = TRUE
       /\ \E added \in SetToSeqs(new) :
              LET paths == [i \in DOMAIN snapshot |-> snapshot[i].path] \o added
                  left == Dropping(paths, {p \in DiagPaths : stored[p] = <<>>})
              IN /\ snapshot' = [i \in DOMAIN left |->
                                     [path |-> left[i], diags |-> stored[left[i]]]]
                 /\ folds' = [i \in 1..(IF Len(paths) > Len(folds) THEN Len(paths)
                                        ELSE Len(folds)) |->
                                  IF i \in DOMAIN folds THEN folds[i] ELSE TRUE]
       /\ UNCHANGED <<stored, markedRows, dragAnchor, filters, query>>

-----------------------------------------------------------------------------
(* handleErrorsEvent: the mouse.                                           *)

(* Mutant: a changed filter leaves the marks.                              *)
MarksStay == UNCHANGED markedRows

(* errors_reset_after_filter_change                                        *)
MarksCleared == markedRows' = {}

ClickBeside ==
    /\ current
    /\ markedRows' = {}
    /\ dragAnchor' = NoHit
    /\ UNCHANGED <<stored, current, snapshot, folds, filters, query>>

(* A header marks its file's rows, with Shift it is folded or unfolded and *)
(* alone marked.  A second click opens the row instead of beginning a drag.*)
Group(r) == {s \in RowNumbers : RowAt(s).path = RowAt(r).path}

FoldHeader(r) ==
    /\ current /\ r \in RowNumbers /\ IsHeader(r)
    /\ markedRows' = {r}
    /\ folds' = [folds EXCEPT ![FileOf(r)] = ~@]
    /\ UNCHANGED <<stored, current, snapshot, dragAnchor, filters, query>>

ClickError(r, additive) ==
    /\ current /\ r \in RowNumbers
    /\ markedRows' = IF IsHeader(r)
                     THEN (IF additive THEN markedRows ELSE {}) \cup Group(r)
                     ELSE Toggled(markedRows, RowRoom, ShownRows, r, additive)
    /\ dragAnchor' \in {dragAnchor, DragBegun(r)}
    /\ UNCHANGED <<stored, current, snapshot, folds, filters, query>>

DragTo(r) ==
    /\ current /\ r \in RowNumbers
    /\ dragAnchor # NoHit
    /\ markedRows' = Ranged(markedRows, RowRoom, ShownRows, dragAnchor, r)
    /\ UNCHANGED <<stored, current, snapshot, folds, dragAnchor, filters, query>>

ReleaseDrag ==
    /\ current
    /\ dragAnchor' = NoHit
    /\ UNCHANGED <<stored, current, snapshot, folds, markedRows, filters, query>>

-----------------------------------------------------------------------------
(* Keys and the row of controls.                                           *)

FirstMarked == IF markedRows = {} THEN NoHit ELSE CHOOSE r \in markedRows : \A s \in markedRows : r <= s

(* errors_select_relative_diagnostic: the next row up or down that is a    *)
(* diagnostic.                                                             *)
Arrow(down) ==
    LET from == IF FirstMarked \in RowNumbers THEN FirstMarked
                ELSE IF down THEN NoHit ELSE ShownRows
        ahead == {r \in RowNumbers : ~IsHeader(r) /\ IF down THEN r > from ELSE r < from}
    IN /\ current
       /\ markedRows' = IF ahead = {} THEN markedRows
                        ELSE {CHOOSE r \in ahead :
                                  \A s \in ahead : IF down THEN r <= s ELSE r >= s}
       /\ UNCHANGED <<stored, current, snapshot, folds, dragAnchor, filters, query>>

(* errors_select_all_visible                                               *)
MarkAll ==
    /\ current
    /\ markedRows' = Markable(RowRoom, ShownRows)
    /\ UNCHANGED <<stored, current, snapshot, folds, dragAnchor, filters, query>>

(* errors_activate_top_control, errors_handle_search_text_input.  Controls *)
(* are handled before the snapshot is renewed.                             *)
ToggleFilter(f) ==
    /\ filters' = IF f \in filters THEN filters \ {f} ELSE filters \cup {f}
    /\ MarksCleared
    /\ UNCHANGED <<stored, current, snapshot, folds, dragAnchor, query>>

Search(word) ==
    /\ word # query
    /\ query' = word
    /\ MarksCleared
    /\ UNCHANGED <<stored, current, snapshot, folds, dragAnchor, filters>>

(* OPEN_ALL and CLOSE_ALL, of the files that are there.                    *)
FoldAll(folded) ==
    /\ folds' = [i \in DOMAIN folds |-> IF i \in DOMAIN snapshot THEN folded ELSE folds[i]]
    /\ UNCHANGED <<stored, current, snapshot, markedRows, dragAnchor, filters, query>>

ErrorsNext ==
    \/ StorePublished \/ RenewSnapshot
    \/ ClickBeside \/ ReleaseDrag \/ MarkAll
    \/ \E r \in 0..(RowRoom - 1) :
           \/ FoldHeader(r) \/ DragTo(r)
           \/ \E additive \in BOOLEAN : ClickError(r, additive)
    \/ \E b \in BOOLEAN : Arrow(b) \/ FoldAll(b)
    \/ \E f \in {"all", "error", "warning"} : ToggleFilter(f)
    \/ \E word \in SearchWords \cup {NoQuery} : Search(word)

ErrorsSpec == ErrorsInit /\ [][ErrorsNext]_errorsVars

-----------------------------------------------------------------------------
(* Properties.                                                             *)

RenumberedByErrors == RenewSnapshot \/ \E folded \in BOOLEAN : FoldAll(folded)

(* Rows are marked by number, so a mark must not come to stand for another *)
(* diagnostic through anything the user does: folding a file, a changed    *)
(* filter or a search (tool_errors.c:301, 581).                            *)
ErrorMarksStand ==
    [][RenumberedByErrors
       \/ \A r \in markedRows \cap markedRows' : Shows(r)' = Shows(r)]_errorsVars

(* Statements that do not hold: marks move to other rows when the snapshot *)
(* is renewed and when all files are folded or unfolded, and a file        *)
(* inherits the fold of the one that was at its place.                     *)
MarksNameRows == [][\A r \in markedRows \cap markedRows' : Shows(r)' = Shows(r)]_errorsVars
FoldsFollowFiles ==
    [][\A i \in DOMAIN snapshot, j \in DOMAIN snapshot' :
          (RenewSnapshot /\ snapshot[i].path = snapshot'[j].path) => folds'[j] = folds[i]]_errorsVars

=============================================================================
