-------------------------- MODULE BuildOutputPanel --------------------------
(***************************************************************************)
(* The list of build diagnostics as a panel                                *)
(* (src/ide/Panes/ToolPanels/BuildOutput): marks by number beside a list   *)
(* that builds clear and fill.  How they do so is in BuildSystem.          *)
(***************************************************************************)
EXTENDS RowSelection

CONSTANT OutputRoom     \* 1024: rows that can be marked, MAX_BUILD_DIAGNOSTICS

VARIABLES
    outputCount,    \* how many rows the list has
    outputMarks,    \* selected
    outputChosen,   \* selectedDiagIndex
    outputAnchor    \* drag_state

outputVars == <<outputCount, outputMarks, outputChosen, outputAnchor>>

OutputTypeOK ==
    /\ outputCount \in 0..OutputRoom
    /\ outputMarks \subseteq 0..(OutputRoom - 1)
    /\ {outputChosen, outputAnchor} \subseteq {NoHit} \cup 0..(OutputRoom - 1)

OutputInit ==
    /\ outputCount = 0
    /\ outputMarks = {}
    /\ outputChosen = NoHit /\ outputAnchor = NoHit

OutputHit == 0..(outputCount - 1)

(* A build in the shell clears the list, and the choice, but not the marks;*)
(* the build of a client leaves both.                                      *)
OutputCleared ==
    /\ outputCount' = 0
    /\ outputChosen' \in {NoHit, outputChosen}
    /\ UNCHANGED <<outputMarks, outputAnchor>>

OutputAdded ==
    /\ outputCount < OutputRoom
    /\ outputCount' = outputCount + 1
    /\ UNCHANGED <<outputMarks, outputChosen, outputAnchor>>

OutputBeside ==
    /\ outputMarks' = {}
    /\ outputChosen' = NoHit /\ outputAnchor' = NoHit
    /\ UNCHANGED outputCount

(* A click marks the row, alone or besides others; the second opens it.    *)
(* All that count is the array, not how many rows there are.               *)
ClickOutput(r, additive) ==
    /\ r \in OutputHit
    /\ outputMarks' = Toggled(outputMarks, OutputRoom, 0, r, additive)
    /\ outputChosen' = r
    /\ outputAnchor' \in {outputAnchor, DragBegun(r)}
    /\ UNCHANGED outputCount

DragOutput(r) ==
    /\ r \in OutputHit /\ outputAnchor # NoHit
    /\ outputMarks' = Ranged(outputMarks, OutputRoom, 0, outputAnchor, r)
    /\ outputChosen' = r
    /\ UNCHANGED <<outputCount, outputAnchor>>

ReleaseOutput == outputAnchor' = NoHit /\ UNCHANGED <<outputCount, outputMarks, outputChosen>>

(* build_output_select_all_visible: with no rows, the whole array.         *)
MarkAllOutput ==
    /\ outputMarks' = Markable(OutputRoom, outputCount)
    /\ outputChosen' = Limit(OutputRoom, outputCount) - 1
    /\ UNCHANGED <<outputCount, outputAnchor>>

OutputNext ==
    \/ OutputCleared \/ OutputAdded \/ OutputBeside \/ ReleaseOutput \/ MarkAllOutput
    \/ \E r \in OutputHit :
           DragOutput(r) \/ \E additive \in BOOLEAN : ClickOutput(r, additive)

(* Does not hold: a row that was never clicked is not marked.  Marks stay  *)
(* when a build clears the list, and its rows come up marked.              *)
NewRowsUnmarked == [][OutputAdded => outputCount \notin outputMarks]_outputVars

=============================================================================
