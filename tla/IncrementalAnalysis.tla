------------------------ MODULE IncrementalAnalysis ------------------------
(***************************************************************************)
(* What one analysis run does to the stores, and what it leaves on disk:   *)
(* run_incremental_scan and the full path of                               *)
(* src/core/Analysis/analysis_job.c with the scans of project_scan.c, the  *)
(* fingerprints of analysis_snapshot.c, the policy of                      *)
(* analysis_incremental_policy.c and the edges of include_graph.c.         *)
(*                                                                         *)
(* Around the run, files are edited, created and deleted, a request may    *)
(* raise the cancel flag, and the program may die and be started again.    *)
(* That no two runs overlap is OneScanner of AnalysisPipeline.  A file's   *)
(* contents are a number, never used twice, 0 for a file that is not       *)
(* there; content_hash is taken to tell contents apart.  Tokens and units  *)
(* go the way of symbols.  A buffer of the editor may be analysed unsaved. *)
(* Files that cannot be read or written are left out.                      *)
(***************************************************************************)
EXTENDS Naturals, FiniteSets

CONSTANTS
    Files,          \* paths under src/ and include/ that end in .c or .h
    Headers,        \* those that end in .h
    Outside,        \* headers outside the workspace
    Includes,       \* the headers the compiler reports for a file
    Movable,        \* the files that are created and deleted
    Opened,         \* the files whose buffers are analysed unsaved
    NotStored,      \* no entry in a store, or no artifact on disk
    FirstRun,       \* whether the workspace was never analysed before
    Disturbances,   \* what happens in the middle of a run
    MaxEdits        \* bound on the changes to the workspace

ASSUME IncrementalAssumption ==
    /\ Headers \subseteq Files
    /\ Files \cap Outside = {}
    /\ Includes \in [Files -> SUBSET (Headers \cup Outside)]
    /\ \A f \in Files : f \notin Includes[f]
    /\ Movable \subseteq Files
    /\ Opened \subseteq Files
    /\ FirstRun \in BOOLEAN
    /\ \A hs \in SUBSET Headers : hs # NotStored
    /\ NotStored \notin [Files -> Nat]
    /\ Disturbances \subseteq {"crash", "exit", "cancelScan", "cancelSave",
                            "editIncremental", "editFull"}
    /\ MaxEdits \in Nat

VARIABLES
    disk,       \* the contents of the workspace
    edits,      \* the youngest contents
    diags,      \* analysis_store: by file, the contents a result was made from
    symbols,    \* analysis_symbols_store, likewise
    graph,      \* include_graph: by file, the headers it includes
    library,    \* library_index: by file, what its usages were made from
    saved,      \* the artifacts under ide_files/
    run,        \* the worker
    cancel,     \* g_cancel_requested
    cut,        \* since the last full run, one was cut off that had saved
                \* its snapshot and not the library index, or the edges of
                \* the includers of a lost header (no program variable)
    missed      \* whether anything happened that no later run can see, and
                \* no full run has made up for (no program variable)

stores == <<diags, symbols, graph, library>>
vars == <<disk, edits, stores, saved, run, cancel, cut, missed>>

Absent == 0
Contents == 0..(MaxEdits + 1)
Unsaved == MaxEdits + 2
Present == {f \in Files : disk[f] # Absent}

(* The files whose contents a result of f depends on.                      *)
Reads(f) == {f} \cup (Includes[f] \cap Files)
Facts(f) == [g \in Reads(f) |-> disk[g]]
Empty == [f \in Files |-> NotStored]

Snapshot == [Files -> Contents]
Phases == {"idle", "scan", "saveDiags", "saveSymbols", "saveGraph",
           "library", "saveSnapshot", "saveMeta", "saveLibrary"}
(* full: the full path was taken; current: the snapshot scanned at the     *)
(* start; todo: files still to visit.                                      *)
NoRun == [phase |-> "idle", full |-> FALSE, current |-> [f \in Files |-> Absent],
          todo |-> {}]

IsStore(s) ==
    /\ DOMAIN s = Files
    /\ \A f \in Files : s[f] = NotStored \/ s[f] \in [Reads(f) -> Contents \cup {Unsaved}]
IsGraph(g) ==
    /\ DOMAIN g = Files
    /\ \A f \in Files : g[f] = NotStored \/ g[f] \subseteq Headers

(* Stores and artifacts hold results of the workspace's own files only,    *)
(* and include_graph only edges to files of the workspace.                 *)
TypeOK ==
    /\ disk \in Snapshot
    /\ edits \in Contents
    /\ IsStore(diags) /\ IsStore(symbols) /\ IsStore(library) /\ IsGraph(graph)
    /\ IsStore(saved.diags) /\ IsStore(saved.symbols) /\ IsStore(saved.library)
    /\ IsGraph(saved.graph)
    /\ saved.snapshot = NotStored \/ saved.snapshot \in Snapshot
    /\ saved.trusted \in BOOLEAN
    /\ run \in [phase : Phases, full : BOOLEAN, current : Snapshot,
                todo : SUBSET Files]
    /\ cancel \in BOOLEAN
    /\ cut \in BOOLEAN
    /\ missed \subseteq {"before", "since"}

(* include_graph_replace_from_result keeps the includes that were resolved *)
(* to a file of the workspace.                                             *)
Resolved(f) == {g \in Includes[f] : g \in Present}

(* A workspace never analysed, or one whose last run was completed.        *)
Init ==
    /\ disk = [f \in Files |-> 1]
    /\ edits = 1
    /\ diags = IF FirstRun THEN Empty ELSE [f \in Files |-> Facts(f)]
    /\ symbols = diags
    /\ library = diags
    /\ graph = IF FirstRun THEN Empty ELSE [f \in Files |-> Resolved(f)]
    /\ saved = [diags |-> diags, symbols |-> symbols, graph |-> graph,
                library |-> library,
                snapshot |-> IF FirstRun THEN NotStored ELSE disk,
                trusted |-> ~FirstRun]
    /\ run = NoRun
    /\ cancel = FALSE
    /\ cut = FALSE
    /\ missed = IF FirstRun THEN {"before"} ELSE {}

(* What is missed, before the last run began or since: a full run makes up *)
(* for the former.                                                         *)
Missed(event) == missed' = missed \cup (IF event THEN {"since"} ELSE {})

-----------------------------------------------------------------------------
(* The workspace.                                                          *)

Idle == run.phase = "idle"

MayChange ==
    /\ edits <= MaxEdits
    /\ \/ Idle
       \/ (IF run.full THEN "editFull" ELSE "editIncremental") \in Disturbances

Edit(f) ==
    /\ MayChange
    /\ f \in Present \/ f \in Movable
    /\ edits' = edits + 1
    /\ disk' = [disk EXCEPT ![f] = edits']
    /\ Missed(run.full \/ f \in Headers \ Present)
    /\ UNCHANGED <<stores, saved, run, cancel, cut>>

Delete(f) ==
    /\ MayChange
    /\ f \in Present \cap Movable
    /\ edits' = edits + 1
    /\ disk' = [disk EXCEPT ![f] = Absent]
    /\ Missed(run.full)
    /\ UNCHANGED <<stores, saved, run, cancel, cut>>

-----------------------------------------------------------------------------
(* The plan of a run.                                                      *)

(* analysis_snapshot_compute_dirty_sets                                    *)
Dirty == {f \in Present : saved.snapshot[f] # disk[f]}
Removed == {f \in Files \ Present : saved.snapshot[f] # Absent}

(* include_graph_collect_dependents: those that include a changed file     *)
(* themselves.                                                             *)
Dependents(changed) ==
    {f \in Files : graph[f] # NotStored /\ graph[f] \cap changed # {}}

(* Mutant: the files that include a changed header are forgotten.          *)
DirtyOnly == Dirty

(* A saved-file hint counts only if its fingerprint changed, so hints add  *)
(* nothing to the dirty files.                                             *)
Targets == Dirty \cup Dependents(Dirty) \cup Dependents(Removed)

(* A clean workspace with nothing in memory has no baseline.               *)
NothingInMemory == diags = Empty \/ symbols = Empty

(* requires_full_for_missing_include_graph                                 *)
GraphMissing == graph = Empty /\ (Dirty \cup Removed) \cap Headers # {}

(* A file that includes nothing has no entry in the library index.         *)
LibraryEmpty == \A f \in Files : library[f] = NotStored \/ Includes[f] = {}

(* The run that compares no snapshots: it is forced, there is nothing to   *)
(* compare with, or a clean workspace has no baseline.                     *)
NoComparison(forced) ==
    \/ forced
    \/ saved.snapshot = NotStored
    \/ /\ Dirty \cup Removed = {}
       /\ Present # {}
       /\ NothingInMemory \/ LibraryEmpty

Without(store, gone) ==
    [f \in Files |-> IF f \in gone THEN NotStored ELSE store[f]]

(* analysis_scan_workspace_with_flags, from its clearing of the stores on: *)
(* diagnostics and include graph are emptied, symbols are not.             *)
StartFull(forgotten) ==
    /\ diags' = Empty
    /\ symbols' = Without(symbols, forgotten)
    /\ graph' = Empty
    /\ library' = Without(library, forgotten)
    /\ run' = [phase |-> "scan", full |-> TRUE, current |-> disk, todo |-> Files]

StartIncremental ==
    /\ diags' = Without(diags, Removed)
    /\ symbols' = Without(symbols, Removed)
    /\ graph' = Without(graph, Removed)
    /\ library' = Without(library, Removed)
    /\ run' = [phase |-> "scan", full |-> FALSE, current |-> disk, todo |-> Targets]

(* remove_deleted_file_entries comes before the missing graph is acted on. *)
StartRun(forced) ==
    /\ Idle
    /\ cancel' = FALSE
    /\ IF NoComparison(forced) THEN StartFull({})
       ELSE IF GraphMissing THEN StartFull(Removed)
       ELSE StartIncremental
    /\ missed' = IF missed = {} THEN {} ELSE {"before"}
    /\ UNCHANGED <<disk, edits, saved, cut>>

-----------------------------------------------------------------------------
(* The scan.                                                               *)

(* The stores' entries of one file are replaced, or removed.               *)
Record(f, facts, edges) ==
    /\ diags' = [diags EXCEPT ![f] = facts]
    /\ symbols' = [symbols EXCEPT ![f] = facts]
    /\ graph' = [graph EXCEPT ![f] = edges]

(* Usages of a source are only replaced by an incremental or a live run.   *)
Relist(f, facts) == library' = [library EXCEPT ![f] = facts]

(* A run of a live buffer: one file, its unsaved contents, nothing saved.  *)
LiveRun(f) ==
    /\ Idle
    /\ f \in Opened
    /\ LET facts == [Facts(f) EXCEPT ![f] = Unsaved]
       IN Record(f, facts, Resolved(f)) /\ Relist(f, facts)
    /\ cancel' = FALSE
    /\ UNCHANGED <<disk, edits, saved, run, cut, missed>>

(* A file that is there is analysed; one that vanished is taken out of the *)
(* stores by an incremental scan and never met by a full one.              *)
Visit(f) ==
    /\ run.phase = "scan"
    /\ ~cancel
    /\ f \in run.todo
    /\ run' = [run EXCEPT !.todo = @ \ {f}]
    /\ LET facts == IF f \in Present THEN Facts(f) ELSE NotStored
           edges == IF f \in Present THEN Resolved(f) ELSE NotStored
       IN /\ IF run.full /\ f \notin Present THEN UNCHANGED <<diags, symbols, graph>>
             ELSE Record(f, facts, edges)
          /\ IF run.full THEN UNCHANGED library ELSE Relist(f, facts)
    /\ UNCHANGED <<disk, edits, saved, cancel, cut, missed>>

(* A cancelled scan goes on to save what it has, like a finished one.      *)
EndScan ==
    /\ run.phase = "scan"
    /\ cancel \/ run.todo = {}
    /\ run' = [run EXCEPT !.phase = "saveDiags"]
    /\ Missed(run.todo # {})
    /\ UNCHANGED <<disk, edits, stores, saved, cancel, cut>>

-----------------------------------------------------------------------------
(* The artifacts, one file after the other.                                *)

SaveStep(from, to, artifacts) ==
    /\ run.phase = from
    /\ run' = [run EXCEPT !.phase = to]
    /\ saved' = artifacts
    /\ UNCHANGED <<disk, edits, stores, cancel, cut, missed>>

(* Mutant: an incremental run does not save its diagnostics.               *)
SaveFullDiags ==
    SaveStep("saveDiags", "saveSymbols",
             IF run.full THEN [saved EXCEPT !.diags = diags] ELSE saved)

SaveDiags ==
    SaveStep("saveDiags", "saveSymbols", [saved EXCEPT !.diags = diags])

SaveSymbols ==
    SaveStep("saveSymbols", "saveGraph", [saved EXCEPT !.symbols = symbols])

(* A full run then builds the library index anew.                          *)
SaveGraph ==
    /\ run.phase = "saveGraph"
    /\ saved' = [saved EXCEPT !.graph = graph]
    /\ IF run.full
       THEN /\ run' = [run EXCEPT !.phase = "library", !.todo = Files]
            /\ library' = Empty
       ELSE /\ run' = [run EXCEPT !.phase = "saveSnapshot"]
            /\ UNCHANGED library
    /\ UNCHANGED <<disk, edits, diags, symbols, graph, cancel, cut, missed>>

ListFile(f) ==
    /\ run.phase = "library"
    /\ ~cancel
    /\ f \in run.todo
    /\ run' = [run EXCEPT !.todo = @ \ {f}]
    /\ library' = IF f \in Present THEN [library EXCEPT ![f] = Facts(f)] ELSE library
    /\ UNCHANGED <<disk, edits, diags, symbols, graph, saved, cancel, cut, missed>>

EndLibrary ==
    /\ run.phase = "library"
    /\ cancel \/ run.todo = {}
    /\ run' = [run EXCEPT !.phase = "saveSnapshot"]
    /\ UNCHANGED <<disk, edits, stores, saved, cancel, cut, missed>>

(* An incremental run saves the snapshot it planned with, a full one scans *)
(* the workspace again.                                                    *)
SaveSnapshot ==
    SaveStep("saveSnapshot", "saveMeta",
             [saved EXCEPT !.snapshot = IF run.full THEN disk ELSE run.current])

(* Only a run that was not cancelled writes cache_meta.json and goes on to *)
(* the library index.                                                      *)
SaveMeta ==
    /\ run.phase = "saveMeta"
    /\ IF cancel
       THEN run' = NoRun /\ cut' = TRUE /\ UNCHANGED saved
       ELSE /\ run' = [run EXCEPT !.phase = "saveLibrary"]
            /\ saved' = [saved EXCEPT !.trusted = TRUE]
            /\ UNCHANGED cut
    /\ UNCHANGED <<disk, edits, stores, cancel, missed>>

SaveLibrary ==
    /\ run.phase = "saveLibrary"
    /\ saved' = [saved EXCEPT !.library = library]
    /\ cut' = (cut /\ ~run.full)
    /\ missed' = IF run.full /\ "since" \notin missed THEN {} ELSE missed
    /\ run' = NoRun
    /\ UNCHANGED <<disk, edits, stores, cancel>>

-----------------------------------------------------------------------------
(* What disturbs a run.                                                    *)

Cancel ==
    /\ ~Idle
    /\ (IF run.phase = "scan" THEN "cancelScan" ELSE "cancelSave") \in Disturbances
    /\ cancel' = TRUE
    /\ UNCHANGED <<disk, edits, stores, saved, run, cut, missed>>

(* Include graph and library index are only loaded under matching metadata. *)
IfTrusted(artifact) == IF saved.trusted THEN artifact ELSE Empty

(* shutdownSystem has diagnostics_save overwrite the artifact of the       *)
(* diagnostics store in a form that loads as nothing.                      *)
LeftBehind ==
    (IF "crash" \in Disturbances THEN {saved.diags} ELSE {})
    \cup (IF "exit" \in Disturbances THEN {Empty} ELSE {})

HeaderLost == saved.snapshot # NotStored /\ Removed \cap Headers # {}

(* The program ends, at any point, and starts again: the stores are loaded *)
(* from what was saved.                                                    *)
Restart ==
    /\ diags' \in LeftBehind
    /\ saved' = [saved EXCEPT !.diags = diags']
    /\ symbols' = saved.symbols
    /\ graph' = IfTrusted(saved.graph)
    /\ library' = IfTrusted(saved.library)
    /\ run' = NoRun
    /\ cancel' = FALSE
    /\ cut' = (\/ cut
               \/ run.phase \in {"saveMeta", "saveLibrary"}
               \/ run.phase \in {"library", "saveSnapshot"} /\ HeaderLost)
    /\ Missed(diags' # saved.diags)
    /\ UNCHANGED <<disk, edits>>

Worker ==
    \/ \E f \in Files : Visit(f)
    \/ EndScan
    \/ SaveDiags \/ SaveSymbols \/ SaveGraph
    \/ \E f \in Files : ListFile(f)
    \/ EndLibrary
    \/ SaveSnapshot \/ SaveMeta \/ SaveLibrary

Next ==
    \/ \E f \in Files : Edit(f) \/ Delete(f)
    \/ \E forced \in BOOLEAN : StartRun(forced)
    \/ \E f \in Opened : LiveRun(f)
    \/ Worker
    \/ Cancel
    \/ Restart

Spec == Init /\ [][Next]_vars

-----------------------------------------------------------------------------
(* Properties.                                                             *)

(* Unchanged since the saved snapshot, so not dirty for the next run.      *)
Clean(f) == saved.snapshot # NotStored /\ saved.snapshot[f] = disk[f]

(* The files that the next incremental run would pass over, they and their *)
(* headers being clean.                                                    *)
PassedOver == {f \in Present : \A g \in Reads(f) : Clean(g)}

(* What a store has of f was made from its contents and those of its       *)
(* headers as they are now, or from a buffer that was not saved and the    *)
(* headers as they are: a closed buffer leaves such results behind.        *)
UpToDate(store, f) ==
    store[f] \in {Facts(f), [Facts(f) EXCEPT ![f] = Unsaved]}

(* Between runs, a file that the next run would pass over has up-to-date   *)
(* results; in the library index too, unless a run was cut off between its *)
(* snapshot and the index.                                                 *)
StoresAlwaysFollow ==
    Idle => \A f \in PassedOver :
                /\ UpToDate(diags, f) /\ UpToDate(symbols, f)
                /\ cut \/ UpToDate(library, f)

(* Not so after a scan that was cut short, an edit during a full run, a    *)
(* header that came, or a clean exit, up to the end of a full run without; *)
(* but so at all other times, whatever else happened.                      *)
StoresFollowSnapshot == missed = {} => StoresAlwaysFollow

(* The same of what is saved, in the middle of a run too: a crash between  *)
(* two of the writes never leaves a snapshot that vouches for results not  *)
(* saved.  The library index is written last, so of it this holds between  *)
(* runs.                                                                   *)
SavedFollowSnapshot ==
    missed = {} =>
        \A f \in PassedOver :
            /\ UpToDate(saved.diags, f) /\ UpToDate(saved.symbols, f)
            /\ Idle => cut \/ UpToDate(saved.library, f)

(* README.md of Analysis: a start's analysis pass reconciles the cache     *)
(* with disk.  A file that is gone, and that the next run will not notice  *)
(* as gone, has no symbols left.                                           *)
NoGhostSymbols ==
    Idle => \A f \in Files \ Present : Clean(f) => symbols[f] = NotStored

=============================================================================
