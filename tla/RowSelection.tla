---------------------------- MODULE RowSelection ----------------------------
(***************************************************************************)
(* Which rows of a flat list are marked: the functions of                  *)
(* src/ide/UI/flat_list_selection.h and flat_list_interaction.h the panels *)
(* share.  Rows are numbered from 0; a set of marked rows stands for the   *)
(* array of flags, of the given capacity.  A list that says it shows       *)
(* nothing is taken for one as long as the array.                          *)
(***************************************************************************)
EXTENDS Integers

NoHit == -1

Limit(capacity, shown) ==
    IF capacity <= 0 THEN 0
    ELSE IF shown <= 0 \/ shown > capacity THEN capacity ELSE shown

Markable(capacity, shown) == 0..(Limit(capacity, shown) - 1)

Single(marked, capacity, shown, row) ==
    IF row \in Markable(capacity, shown) THEN {row} ELSE marked

Toggled(marked, capacity, shown, row, additive) ==
    LET before == IF additive THEN marked ELSE {}
    IN IF row \notin Markable(capacity, shown) THEN marked
       ELSE IF row \in before THEN before \ {row}
       ELSE before \cup {row}

Ranged(marked, capacity, shown, a, b) ==
    IF {a, b} \subseteq Markable(capacity, shown) THEN (a..b) \cup (b..a) ELSE marked

(* The row a drag began at; NoHit while there is none.                     *)
DragBegun(row) == IF row >= 0 THEN row ELSE NoHit

=============================================================================
