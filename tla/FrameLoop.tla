----------------------------- MODULE FrameLoop -----------------------------
(***************************************************************************)
(* How what an analysis run writes into the stores reaches the screen: the *)
(* worker mutates the stores and pushes results (analysis_job.c,           *)
(* project_scan.c); every frame the main loop applies results, turning     *)
(* them into events, dispatches events, starts runs and renders            *)
(* (event_loop.c); and the panels keep copies of the stores                *)
(* (tool_errors.c, control_panel.c, tool_libraries.c).                     *)
(*                                                                         *)
(* What a copy holds is not represented, only whether it is what its store *)
(* holds now.  Left out: progress and status results, which only feed the  *)
(* status line; runs on a live buffer, whose results are also dropped when *)
(* the document has moved on; and results lost to a full queue.            *)
(***************************************************************************)
EXTENDS Naturals, Sequences, SequencesExt

CONSTANTS
    Projects,       \* workspaces
    MaxRuns,        \* bound on the runs, and on asking for them
    Files,          \* the files one run analyses
    FullRuns,       \* runs may rebuild the stores
    ErrorsShown,    \* whether the errors panel is shown when a frame is rendered
    ResultBudget,   \* results applied in a frame
    EventBudget,    \* events dispatched in a frame
    RingCapacity    \* LOOP_EVENTS_QUEUE_CAPACITY

None == "none"

ASSUME FrameLoopAssumption ==
    /\ {MaxRuns, Files, ResultBudget, EventBudget, RingCapacity} \subseteq Nat \ {0}
    /\ FullRuns \in BOOLEAN
    /\ ErrorsShown \subseteq BOOLEAN /\ ErrorsShown # {}
    /\ Projects # {} /\ None \notin Projects

VARIABLES
    project,    \* projectPath
    refresh,    \* pendingProjectRefresh
    wanted,     \* what the scheduler holds
    run,        \* the last run started
    scan,       \* the worker
    stamp,      \* g_stamp_counter of the stores, g_combined_stamp of the library
    results,    \* the completed results, oldest first
    latest,     \* s_latest_applied_analysis_run_id
    ring,       \* the loop events, oldest first
    published,  \* g_published_stamp of the diagnostics store
    noted,      \* pendingSymbolsUpdate
    label,      \* snapshot_store_stamp of the errors panel
    fresh,      \* the copies that hold what their store holds (no program variable)
    settled,    \* the project of the last run, once it has announced diagnostics
                \* (no program variable)
    lost,       \* an event found the ring full (no program variable)
    frame       \* where the main loop is

worker == <<run, scan, stamp, settled>>
asked == <<project, refresh, wanted>>
vars == <<asked, worker, results, latest, ring, published, noted, label, fresh, lost, frame>>

Stores == {"symbols", "diagnostics", "library"}

\* engine: the diagnostics engine.  errors: g_snapshotFiles.  tree: the symbol
\* tree.  rows: the rows of the library panel.
Copies == {"engine", "errors", "tree", "rows"}

Kinds == {"incremental"} \cup IF FullRuns THEN {"full"} ELSE {}
Wanted == Kinds \cup {None}
Phases == {"idle", "begin", "files", "index", "finalize", "symbols", "diagnostics", "finished"}
Stamps == 0..(MaxRuns * Files)
NoLabel == MaxRuns * Files + 1

Result == [store : Stores, run : 1..MaxRuns, root : Projects, stamp : Stamps]
NoResult == [store |-> None]
Event == [store : Stores, stamp : Stamps]

TypeOK ==
    /\ project \in Projects
    /\ refresh \in BOOLEAN
    /\ wanted \in Wanted
    /\ run \in 0..MaxRuns
    /\ scan \in [phase : Phases, root : Projects, full : BOOLEAN, cancel : BOOLEAN, left : 0..Files]
    /\ stamp \in [Stores -> Stamps]
    /\ results \in Seq(Result)
    /\ latest \in 0..run
    /\ ring \in Seq(Event) /\ Len(ring) <= RingCapacity
    /\ published \in Stamps
    /\ noted \in BOOLEAN
    /\ label \in Stamps \cup {NoLabel}
    /\ fresh \subseteq Copies
    /\ settled \in Projects \cup {None}
    /\ lost \in BOOLEAN
    /\ frame \in [at : {"drain", "flatten", "events", "render", "refresh"},
                  left : 0..(ResultBudget + EventBudget), result : Result \cup {NoResult}]

At(step) == [at |-> step, left |-> 0, result |-> NoResult]

Init ==
    /\ project = CHOOSE p \in Projects : TRUE
    /\ refresh = FALSE
    /\ wanted \in Kinds
    /\ run = 0
    /\ scan = [phase |-> "idle", root |-> project, full |-> FALSE, cancel |-> FALSE, left |-> 0]
    /\ stamp = [s \in Stores |-> 0]
    /\ results = <<>>
    /\ latest = 0
    /\ ring = <<>>
    /\ published = 0
    /\ noted = FALSE
    /\ label = NoLabel
    /\ fresh = Copies
    /\ settled = None
    /\ lost = FALSE
    /\ frame = At("refresh")

-----------------------------------------------------------------------------
(* The worker *)

\* The copies of a store that has changed hold it no longer.
CopiesOf(store) ==
    CASE store = "diagnostics" -> {"engine", "errors"}
      [] store = "symbols" -> {"tree"}
      [] store = "library" -> {"rows"}

GoTo(phase) == scan' = [scan EXCEPT !.phase = phase]

\* A run cancelled before it began goes to its end.  A full one clears the
\* diagnostics, their stamps with them; the symbols stay.
Begin ==
    /\ scan.phase = "begin"
    /\ \/ scan.cancel /\ GoTo("finished") /\ UNCHANGED <<stamp, published, fresh>>
       \/ /\ ~scan.cancel /\ scan.full
          /\ GoTo("files")
          /\ stamp' = [stamp EXCEPT !["diagnostics"] = 0]
          /\ published' = 0
          /\ fresh' = IF stamp["diagnostics"] = 0 THEN fresh ELSE fresh \ CopiesOf("diagnostics")
       \/ ~scan.cancel /\ ~scan.full /\ GoTo("files") /\ UNCHANGED <<stamp, published, fresh>>
    /\ UNCHANGED <<run, settled, asked, results, latest, ring, noted, label, lost, frame>>

\* Analyses a file.  Only an incremental run does the library on the way.
AnalyseFile ==
    /\ scan.phase = "files" /\ scan.left > 0
    /\ scan' = [scan EXCEPT !.left = @ - 1]
    /\ stamp' = [stamp EXCEPT !["diagnostics"] = @ + 1, !["symbols"] = @ + 1]
    /\ fresh' = fresh \ (CopiesOf("diagnostics") \cup CopiesOf("symbols")
                            \cup IF scan.full THEN {} ELSE CopiesOf("library"))
    /\ UNCHANGED <<run, settled, asked, results, latest, ring, published, noted, label, lost, frame>>

\* A cancelled scan breaks off; an incremental one may have fewer files.
EndFiles ==
    /\ scan.phase = "files"
    /\ scan.full => scan.left = 0 \/ scan.cancel
    /\ scan' = [scan EXCEPT !.phase = IF scan.full THEN "index" ELSE "finalize", !.left = 0]
    /\ UNCHANGED <<run, stamp, settled, asked, results, latest, ring, published, noted, label,
                   fresh, lost, frame>>

\* The full run empties the library index and builds it anew.
IndexLibrary ==
    /\ scan.phase = "index"
    /\ GoTo("finalize")
    /\ stamp' = [stamp EXCEPT !["library"] = 0]
    /\ fresh' = fresh \ CopiesOf("library")
    /\ UNCHANGED <<run, settled, asked, results, latest, ring, published, noted, label, lost, frame>>

\* The stamp of the library moves if it was changed.
FinalizeLibrary ==
    /\ scan.phase = "finalize"
    /\ GoTo(IF scan.cancel THEN "finished" ELSE "symbols")
    /\ \E moves \in {0, 1} :
        /\ "rows" \notin fresh \/ moves = 0
        /\ stamp' = [stamp EXCEPT !["library"] = @ + moves]
    /\ fresh' = IF scan.full THEN fresh \ CopiesOf("library") ELSE fresh
    /\ UNCHANGED <<run, settled, asked, results, latest, ring, published, noted, label, lost, frame>>

After(phase) ==
    CASE phase = "symbols" -> "diagnostics"
      [] phase = "diagnostics" -> "finished"
      [] phase = "finished" -> "idle"

\* A run that was not cancelled announces symbols, then diagnostics; every run
\* ends with a result that carries the stamp of the library.
PushResult ==
    /\ scan.phase \in {"symbols", "diagnostics", "finished"}
    /\ LET store == IF scan.phase = "finished" THEN "library" ELSE scan.phase
       IN results' = Append(results, [store |-> store, run |-> run, root |-> scan.root,
                                      stamp |-> stamp[store]])
    /\ GoTo(After(scan.phase))
    /\ settled' = IF scan.phase = "diagnostics" THEN scan.root ELSE settled
    /\ UNCHANGED <<run, stamp, asked, latest, ring, published, noted, label, fresh, lost, frame>>

Worker == Begin \/ AnalyseFile \/ EndFiles \/ IndexLibrary \/ FinalizeLibrary \/ PushResult

-----------------------------------------------------------------------------
(* The main loop *)

\* Requests add up: a full one stays full.
Ask == \E k \in Kinds : wanted' = IF wanted = "full" THEN "full" ELSE k

\* The stamp matters to the receiver only if it is that of the diagnostics.
EventOf(store, number) ==
    [store |-> store, stamp |-> IF store = "diagnostics" THEN number ELSE 0]

Emitted(store, number) ==
    IF Len(ring) < RingCapacity THEN Append(ring, EventOf(store, number)) ELSE ring

\* The end of a frame: a project refresh asks for a run, full if the project
\* has no cache, and has the library panel look again.
Refresh ==
    /\ frame.at = "refresh" /\ refresh
    /\ refresh' = FALSE
    /\ Ask
    /\ ring' = Emitted("library", stamp["library"])
    /\ lost' = (lost \/ Len(ring) = RingCapacity)
    /\ UNCHANGED <<project, worker, results, latest, published, noted, label, fresh, frame>>

\* The beginning of the next, with input, timers and the control socket: work is
\* asked for, or the project is changed, as long as there are runs left.
Input ==
    /\ frame.at = "refresh" /\ ~refresh
    /\ frame' = [At("drain") EXCEPT !.left = ResultBudget]
    /\ \/ UNCHANGED asked
       \/ run < MaxRuns /\ Ask /\ UNCHANGED <<project, refresh>>
       \/ run < MaxRuns /\ \E p \in Projects : project' = p /\ refresh' = TRUE /\ UNCHANGED wanted
    /\ UNCHANGED <<worker, results, latest, ring, published, noted, label, fresh, lost>>

\* Mutant of Superseded: a run's second result counts as old.
SupersededOnce(r) == r.run <= latest

\* A later run's results have been applied.
Superseded(r) == r.run < latest

\* Mutant of Stale: results are dropped while a run is under way.
StaleWhileRunning(r) == Superseded(r) \/ r.root # project \/ scan.phase # "idle"

Stale(r) == Superseded(r) \/ r.root # project \/ r.stamp # stamp[r.store]

\* pop_any returns the oldest result; it has already looked at the symbols when
\* it finds the diagnostics pushed after them.
Popped ==
    IF Len(results) > 1 /\ results[1].store = "symbols" /\ results[2].store = "diagnostics"
    THEN {1, 2} ELSE {1}

Announce(r) ==
    /\ ring' = Emitted(r.store, r.stamp)
    /\ lost' = (lost \/ Len(ring) = RingCapacity)
    /\ latest' = IF r.run > latest THEN r.run ELSE latest

\* Applies a result or drops it.  Between the check of the diagnostics' stamp
\* and the copy into the engine the store is unlocked.
Drain ==
    /\ frame.at = "drain" /\ frame.left > 0 /\ results # <<>>
    /\ \E i \in Popped : LET r == results[i] IN
        /\ results' = RemoveAt(results, i)
        /\ IF ~Stale(r) /\ r.store = "diagnostics"
           THEN frame' = [frame EXCEPT !.at = "flatten", !.result = r]
           ELSE frame' = [frame EXCEPT !.left = @ - 1]
        /\ IF ~Stale(r) /\ r.store # "diagnostics"
           THEN Announce(r) ELSE UNCHANGED <<ring, lost, latest>>
    /\ UNCHANGED <<asked, worker, published, noted, label, fresh>>

Flatten ==
    /\ frame.at = "flatten"
    /\ fresh' = fresh \cup {"engine"}
    /\ Announce(frame.result)
    /\ frame' = [At("drain") EXCEPT !.left = frame.left - 1]
    /\ UNCHANGED <<asked, worker, results, published, noted, label>>

EndDrain ==
    /\ frame.at = "drain"
    /\ frame.left = 0 \/ results = <<>>
    /\ frame' = [At("events") EXCEPT !.left = EventBudget]
    /\ UNCHANGED <<asked, worker, results, latest, ring, published, noted, label, fresh, lost>>

Dispatch ==
    /\ frame.at = "events" /\ frame.left > 0 /\ ring # <<>>
    /\ LET e == Head(ring) IN
        /\ noted' = (noted \/ e.store = "symbols")
        /\ published' = IF e.store = "diagnostics" THEN e.stamp ELSE published
        /\ fresh' = IF e.store = "library" THEN fresh \cup {"rows"} ELSE fresh
    /\ ring' = Tail(ring)
    /\ frame' = [frame EXCEPT !.left = @ - 1]
    /\ UNCHANGED <<asked, worker, results, latest, label, lost>>

\* With the events done, the scheduler starts what is wanted, or has a run that is under way
\* cancelled in its favour.
Tick ==
    /\ frame.at = "events" /\ (frame.left = 0 \/ ring = <<>>)
    /\ frame' = At("render")
    /\ IF wanted # None /\ scan.phase = "idle" /\ run < MaxRuns
       THEN /\ run' = run + 1
            /\ scan' = [phase |-> "begin", root |-> project, full |-> wanted = "full",
                        cancel |-> FALSE, left |-> Files]
            /\ settled' = None
            /\ wanted' = None
       ELSE /\ \/ UNCHANGED scan
               \/ wanted # None /\ scan.phase # "idle" /\ scan' = [scan EXCEPT !.cancel = TRUE]
            /\ UNCHANGED <<run, settled, wanted>>
    /\ UNCHANGED <<stamp, project, refresh, results, latest, ring, published, noted, label, fresh, lost>>

\* A frame that is due is rendered.  The errors panel, if it is shown, takes
\* the store as it is when the published stamp is another one than its own; the
\* control panel when it was told that symbols changed.
Render ==
    /\ frame.at = "render"
    /\ frame' = At("refresh")
    /\ \/ UNCHANGED <<noted, label, fresh>>
       \/ \E shown \in ErrorsShown :
            /\ noted' = FALSE
            /\ label' = IF shown THEN published ELSE label
            /\ fresh' = fresh \cup (IF noted THEN {"tree"} ELSE {})
                              \cup (IF shown /\ label # published THEN {"errors"} ELSE {})
    /\ UNCHANGED <<asked, worker, results, latest, ring, published, lost>>

Main == Refresh \/ Input \/ Drain \/ Flatten \/ EndDrain \/ Dispatch \/ Tick \/ Render

Next == Worker \/ Main

\* The loop goes round at least with every heartbeat, and the worker's thread
\* runs.
Spec == Init /\ [][Next]_vars /\ WF_vars(Worker) /\ WF_vars(Main)

-----------------------------------------------------------------------------
(* Properties *)

\* Nothing is asked for, no result or event is on its way, and the last run was
\* of this project and not cancelled.
Quiet ==
    /\ ~refresh /\ wanted = None
    /\ scan.phase = "idle" /\ settled = project
    /\ results = <<>> /\ ring = <<>> /\ ~lost
    /\ frame.at # "flatten"

\* When all is quiet the engine and the library panel hold what the stores
\* hold, and the symbol tree does or will when it is next rendered: whatever
\* results were dropped because the worker had gone on, came in another order,
\* or belonged to another run or project, none was missing in the end.
CopiesFollowStores ==
    Quiet => {"engine", "rows"} \subseteq fresh /\ ("tree" \in fresh \/ noted)

\* ... and the loop gets there: once nothing more is asked for, the copies
\* are what the stores hold, unless the last run was cancelled or an event
\* found the ring full.
CopiesCatchUp ==
    <>[](~refresh /\ wanted = None) =>
        <>[](settled # project \/ lost \/ {"engine", "rows"} \subseteq fresh)

\* ErrorsPanelFollowsStore fails.  The panel recognises a change of the store
\* by its stamp (tool_errors.c:241), and analysis_store.c:195 says why a stamp
\* must move with every change; a full run starts the stamps again from 0.
ErrorsPanelFollowsStore == Quiet /\ label = published => "errors" \in fresh
=============================================================================
