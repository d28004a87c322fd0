--------------------------- MODULE DiagnosticLists ---------------------------
(***************************************************************************)
(* The two lists of diagnostics the main thread shows: the build's         *)
(* (src/core/BuildSystem/build_diagnostics.c) and the analysis engine's    *)
(* (src/core/Diagnostics/diagnostics_engine.c), each with its file under   *)
(* ide_files/.  A file is read by a detached thread, of which each list    *)
(* may have two, and the frame loop publishes what was read unless the     *)
(* list has changed since or the read took two seconds.                    *)
(*                                                                         *)
(* A row is the workspace it is about, and the one whose file it was read  *)
(* back from.  Only whether a read's generation is still *)
(* the list's matters, so a read is marked stale where the code raises     *)
(* cache_generation.                                                       *)
(***************************************************************************)
EXTENDS Naturals, Sequences, FiniteSets

CONSTANTS
    Roots,      \* workspaces
    ListRoom,   \* MAX_BUILD_DIAGNOSTICS, MAX_DIAGNOSTICS
    NotRestored \* where a row was restored from that was reported

ASSUME ListsAssumption == ListRoom \in Nat /\ NotRestored \notin Roots

Kinds == {"build", "analysis"}
Slots == 1..2

VARIABLES
    projectRoot,    \* projectPath
    unnoticed,      \* its generation changed since the last frame began
    rows,           \* g_diags and diagnostics
    reads,          \* cache_reads, of each list
    files           \* build_output.json and analysis_diagnostics.json

listVars == <<projectRoot, unnoticed, rows, reads, files>>

Row == [of : Roots, from : Roots \cup {NotRestored}]
Reported(of) == [of |-> of, from |-> NotRestored]

(* A file whose contents are read as no rows: not there, of another form,  *)
(* or torn.                                                                *)
NoRows == <<>>

NoRead == [state |-> "free", root |-> CHOOSE r \in Roots : TRUE, stale |-> FALSE,
           bytes |-> NoRows]

ListsTypeOK ==
    /\ projectRoot \in Roots
    /\ unnoticed \in BOOLEAN
    /\ \A k \in Kinds : Len(rows[k]) <= ListRoom /\ \A i \in DOMAIN rows[k] : rows[k][i] \in Row
    /\ \A k \in Kinds, s \in Slots : reads[k][s].state \in {"free", "busy", "done", "late"}

ListsInit ==
    /\ projectRoot \in Roots
    /\ unnoticed = FALSE
    /\ rows = [k \in Kinds |-> NoRows]
    /\ reads = [k \in Kinds |-> [s \in Slots |-> NoRead]]
    /\ files = [k \in Kinds |-> [r \in Roots |-> NoRows]]

-----------------------------------------------------------------------------
(* The lists.                                                              *)

Fitting(list) == SubSeq(list, 1, IF Len(list) > ListRoom THEN ListRoom ELSE Len(list))

(* Mutant: nothing tells a read that it is out of date.                    *)
KeepsGeneration(slots) == slots

(* ++cache_generation                                                      *)
Outdated(slots) == [s \in Slots |-> [slots[s] EXCEPT !.stale = TRUE]]

(* build_diagnostics_feed_chunk of a line that is a diagnostic             *)
AddRow(row) ==
    /\ rows' = [rows EXCEPT !["build"] = Fitting(Append(@, row))]
    /\ UNCHANGED reads

(* build_diagnostics_clear, clearDiagnostics                               *)
ClearRows(k) ==
    /\ rows' = [rows EXCEPT ![k] = NoRows]
    /\ reads' = [reads EXCEPT ![k] = Outdated(@)]

-----------------------------------------------------------------------------
(* Reading.                                                                *)

(* build_diagnostics_load, diagnostics_load: the list is cleared, readers  *)
(* that are done are collected, and another is started if a slot is free   *)
(* and a thread is to be had.                                              *)
Collected(slots) ==
    [s \in Slots |-> IF slots[s].state \in {"done", "late"} THEN NoRead ELSE slots[s]]
FreeSlots(slots) == {s \in Slots : slots[s].state = "free"}
FirstFree(slots) == CHOOSE s \in FreeSlots(slots) : \A t \in FreeSlots(slots) : s <= t

WithReader(slots, root) ==
    IF FreeSlots(slots) = {} THEN slots
    ELSE [slots EXCEPT ![FirstFree(slots)] = [NoRead EXCEPT !.state = "busy", !.root = root]]

ReadsAfterLoad(slots, root) ==
    {Collected(Outdated(slots)), WithReader(Collected(Outdated(slots)), root)}

(* read_diagnostics_cache, diagnostics_read_cache; a read may also fail,   *)
(* or never end.  What is late is freed unseen.                            *)
ReaderEnds(k, s) ==
    /\ reads[k][s].state = "busy"
    /\ \/ \E bytes \in {files[k][reads[k][s].root], NoRows} :
              reads' = [reads EXCEPT ![k][s].bytes = bytes, ![k][s].state = "done"]
       \/ reads' = [reads EXCEPT ![k][s].state = "late"]
    /\ UNCHANGED <<projectRoot, unnoticed, rows, files>>

Publishable(slots) == {s \in Slots : slots[s].state = "done" /\ ~slots[s].stale}

RestoredFrom(read) ==
    [i \in DOMAIN read.bytes |-> [read.bytes[i] EXCEPT !.from = read.root]]

(* build_diagnostics_poll, diagnostics_poll                                *)
ListAfterPoll(k) ==
    LET published == Publishable(reads[k])
    IN IF published = {} THEN rows[k]
       ELSE Fitting(rows[k] \o RestoredFrom(reads[k][CHOOSE s \in published : TRUE]))

(* runFrameLoop: if the workspace is another than in the last frame, both  *)
(* lists are loaded anew, otherwise what is read is published.             *)
FrameBegins ==
    /\ unnoticed' = FALSE
    /\ IF unnoticed
       THEN /\ rows' = [k \in Kinds |-> NoRows]
            /\ \E build \in ReadsAfterLoad(reads["build"], projectRoot),
                  analysis \in ReadsAfterLoad(reads["analysis"], projectRoot) :
                   reads' = [k \in Kinds |-> IF k = "build" THEN build ELSE analysis]
       ELSE /\ rows' = [k \in Kinds |-> ListAfterPoll(k)]
            /\ reads' = [k \in Kinds |-> Collected(reads[k])]
    /\ UNCHANGED <<projectRoot, files>>

(* analysis_store_flatten_to_engine, for a result about the workspace      *)
Flatten ==
    /\ \E found \in {0, ListRoom} :
           rows' = [rows EXCEPT !["analysis"] =
                        [i \in 1..found |-> Reported(projectRoot)]]
    /\ reads' = [reads EXCEPT !["analysis"] = Outdated(@)]
    /\ UNCHANGED <<projectRoot, unnoticed, files>>

(* analysis_store_save, by a run on any workspace, writes the same file    *)
(* that diagnostics_save does, in a form the engine reads no rows from.    *)
RunSavesStore(root) ==
    /\ files' = [files EXCEPT !["analysis"][root] = NoRows]
    /\ UNCHANGED <<projectRoot, unnoticed, rows, reads>>

-----------------------------------------------------------------------------
(* Properties.                                                             *)

Restored(k) == {i \in DOMAIN rows[k] : rows[k][i].from # NotRestored}

(* What a detached reader brought back is of the workspace that is open,   *)
(* whichever of the readers ends first, and the engine never shows it      *)
(* beside rows reported since (comment at build_diagnostics.c:80: a clear, *)
(* a build or a change of workspace invalidates older results).            *)
RestoredRowsStand ==
    /\ ~unnoticed => \A k \in Kinds : \A i \in Restored(k) : rows[k][i].from = projectRoot
    /\ Restored("analysis") \in {{}, DOMAIN rows["analysis"]}

=============================================================================
