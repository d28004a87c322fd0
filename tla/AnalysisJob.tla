----------------------------- MODULE AnalysisJob -----------------------------
(***************************************************************************)
(* The analysis worker of src/core/Analysis/analysis_job.c.                *)
(*                                                                         *)
(* A run is a detached thread over unsynchronised file-level globals; only *)
(* the cancel flag is atomic.  The only thing that keeps two runs apart is *)
(* g_thread_running, which the worker lowers before it has finished using  *)
(* the globals.  So the tail of a worker is one step per global it writes, *)
(* and the next run may start between any two of them.  For the same       *)
(* reason a message is put together and pushed in steps of its own: the    *)
(* run id is read first, then, where there is one, the document revision,  *)
(* and other threads may move before the push.                             *)
(*                                                                         *)
(* Slow mode (a delay) and the text of errors are left out.                *)
(***************************************************************************)
EXTENDS AnalysisStatus, Sequences

CONSTANTS
    Workers,        \* detached threads that may exist at one time (a bound)
    HandleReread    \* whether the build reads g_thread back after creating a
                    \* thread: -O0 (debug) does, -O3 (perf) has it in a register

ASSUME JobAssumption == HandleReread \in BOOLEAN

VARIABLES
    threadRunning,  \* g_thread_running
    forceNext,      \* g_force_full_refresh
    jobRunId,       \* g_analysis_run_id
    mode,           \* g_run_mode
    jobHints,       \* g_file_hints
    live,           \* g_live_file_path, g_live_contents, g_live_document_revision
    cancelRequested,\* g_cancel_requested
    worker,         \* the threads
    results         \* what completed_results_queue_push was given, in order

jobGlobals == <<jobRunId, mode, jobHints, live>>

Modes == {"workspace", "buffer"}
(* Where a thread stands: the next thing it does.                          *)
Scanning == {"gather", "consume", "announce", "scan", "symbols", "sendSymbols",
             "diagnostics", "sendDiagnostics", "status", "finish",
             "refreshOff", "threadOff"}
Ending == {"handleOff", "clear", "lateFinish"}
Steps == {"idle"} \cup Scanning \cup Ending

(* The places where a thread begins a message.                             *)
Speaking == {"announce", "symbols", "diagnostics", "status", "finish",
             "lateFinish"}

(* run, asked, forced: the run, live request (EmptyLive for a workspace    *)
(* run) and forced flag the thread was launched for.                       *)
(* early: it left at the first cancel check.                               *)
(* full: it took g_force_full_refresh as a workspace run.                  *)
(* stamped, stamp, rev: whether the message it is putting together has its *)
(* run id, that id, and the document revision it attached.                 *)
Thread == [pc : Steps, run : Nat, asked : LiveRequest, forced : BOOLEAN,
           early : BOOLEAN, cancelled : BOOLEAN, full : BOOLEAN,
           stamped : BOOLEAN, stamp : Nat, rev : Nat]

IdleThread == [pc |-> "idle", run |-> 0, asked |-> EmptyLive, forced |-> FALSE,
               early |-> FALSE, cancelled |-> FALSE, full |-> FALSE,
               stamped |-> FALSE, stamp |-> 0, rev |-> 0]

(* A completed result: its kind, the run id and document revision it       *)
(* carries (rev 0 is "no document revision"), the cancelled flag of a      *)
(* finished message, and the thread's own run and request.                 *)
Kinds == {"progress", "symbols", "diagnostics", "fresh", "idle", "error",
          "finished"}
Result == [kind : Kinds, run : Nat, rev : Nat, cancelled : BOOLEAN,
           owner : Nat, asked : LiveRequest]

JobTypeOK ==
    /\ threadRunning \in BOOLEAN
    /\ forceNext \in BOOLEAN
    /\ jobRunId \in Nat
    /\ mode \in Modes
    /\ jobHints \in SUBSET Files
    /\ live \in LiveRequest
    /\ cancelRequested \in BOOLEAN
    /\ refreshRunning \in BOOLEAN
    /\ worker \in [Workers -> Thread]
    /\ results \in Seq(Result)

JobInit ==
    /\ threadRunning = FALSE
    /\ forceNext = FALSE
    /\ jobRunId = 0
    /\ mode = "workspace"
    /\ jobHints = {}
    /\ live = EmptyLive
    /\ cancelRequested = FALSE
    /\ refreshRunning = FALSE
    /\ worker = [w \in Workers |-> IdleThread]
    /\ results = <<>>

-----------------------------------------------------------------------------
(* Main thread.                                                            *)

(* Mutants: the busy check, the cancel reset, the run id or the forced     *)
(* flag is missing from the start functions.                               *)
PrepareUnguarded(run, hints, force) ==
    /\ cancelRequested' = FALSE
    /\ jobRunId' = run
    /\ jobHints' = hints
    /\ forceNext' = (forceNext \/ force)

PrepareKeepsCancel(run, hints, force) ==
    /\ ~threadRunning
    /\ jobRunId' = run
    /\ jobHints' = hints
    /\ forceNext' = (forceNext \/ force)
    /\ UNCHANGED cancelRequested

PrepareKeepsRunId(run, hints, force) ==
    /\ ~threadRunning
    /\ cancelRequested' = FALSE
    /\ jobHints' = hints
    /\ forceNext' = (forceNext \/ force)
    /\ UNCHANGED jobRunId

PrepareForgetsForce(run, hints, force) ==
    /\ ~threadRunning
    /\ cancelRequested' = FALSE
    /\ jobRunId' = run
    /\ jobHints' = hints
    /\ UNCHANGED forceNext

(* What a start function leaves in the globals, whether or not the thread  *)
(* can then be created.                                                    *)
PrepareRun(run, hints, force) ==
    /\ ~threadRunning
    /\ cancelRequested' = FALSE
    /\ jobRunId' = run
    /\ jobHints' = hints
    /\ forceNext' = (forceNext \/ force)

Launched(run, asked, force) ==
    [IdleThread EXCEPT !.pc = "gather", !.run = run, !.asked = asked,
                       !.forced = force]

(* start_async_*: the thread is created over the prepared globals.         *)
StartRun(w, run, kind, hints, asked, force) ==
    /\ PrepareRun(run, hints, force)
    /\ worker[w].pc = "idle"
    /\ mode' = kind
    /\ live' = asked
    /\ refreshRunning' = TRUE
    /\ threadRunning' = TRUE
    /\ worker' = [worker EXCEPT ![w] = Launched(run, asked, force)]
    /\ UNCHANGED results

Message(kind, run, rev, cancelled, owner, asked) ==
    [kind |-> kind, run |-> run, rev |-> rev, cancelled |-> cancelled,
     owner |-> owner, asked |-> asked]

(* Mutant: the failed start leaves the refresh flag up.                    *)
FailsHoldingFlag(run, hints, asked, force) ==
    /\ PrepareRun(run, hints, force)
    /\ mode' = "workspace"
    /\ live' = EmptyLive
    /\ refreshRunning' = TRUE
    /\ UNCHANGED <<threadRunning, worker, results>>

(* "if (!g_thread)": the error and the idle status are reported and the    *)
(* flags come down again.                                                  *)
ReportFailure(run, hints, asked, force) ==
    /\ PrepareRun(run, hints, force)
    /\ mode' = "workspace"
    /\ live' = EmptyLive
    /\ refreshRunning' = FALSE
    /\ results' = Append(Append(results,
           Message("error", run, 0, FALSE, run, asked)),
           Message("idle", run, 0, FALSE, run, asked))
    /\ UNCHANGED threadRunning

(* SDL_CreateThread failed.                                                *)
StartFails(run, hints, asked, force) ==
    /\ ReportFailure(run, hints, asked, force)
    /\ UNCHANGED worker

(* Thread w is created, but the ending thread v clears g_thread before the *)
(* start function has read it back: w runs with the flags down.            *)
StartMistaken(v, w, run, hints, asked, force) ==
    /\ HandleReread
    /\ worker[v].pc = "handleOff"
    /\ worker[w].pc = "idle"
    /\ ReportFailure(run, hints, asked, force)
    /\ worker' = [worker EXCEPT ![v].pc = "clear",
                                ![w] = Launched(run, asked, force)]

(* "if (g_thread_running) return": the request is gone, but the forced     *)
(* flag, set by the caller just before, stays.                             *)
StartRefused(force) ==
    /\ threadRunning
    /\ forceNext' = (forceNext \/ force)
    /\ UNCHANGED <<threadRunning, jobGlobals, cancelRequested, refreshRunning,
                   worker, results>>

-----------------------------------------------------------------------------
(* Worker thread w.                                                        *)

Goto(w, pc) == worker' = [worker EXCEPT ![w].pc = pc]

(* The first thing every message takes: the run id the global holds now.   *)
Compose(w) ==
    /\ worker[w].pc \in Speaking
    /\ ~worker[w].stamped
    /\ worker' = [worker EXCEPT ![w].stamped = TRUE, ![w].stamp = jobRunId]
    /\ UNCHANGED <<threadRunning, forceNext, jobGlobals, cancelRequested,
                   refreshRunning, results>>

(* analysis_attach_live_document_revision                                  *)
AttachedRevision ==
    IF mode = "buffer" /\ live.file # NoFile THEN live.rev ELSE 0

(* Messages of symbols and diagnostics then take the document revision.    *)
Attach(w) ==
    /\ worker[w].pc \in {"symbols", "diagnostics"}
    /\ worker[w].stamped
    /\ worker' = [worker EXCEPT
           ![w].rev = AttachedRevision,
           ![w].pc = IF worker[w].pc = "symbols" THEN "sendSymbols"
                                                 ELSE "sendDiagnostics"]
    /\ UNCHANGED <<threadRunning, forceNext, jobGlobals, cancelRequested,
                   refreshRunning, results>>

(* completed_results_queue_push of the message the thread has put together.*)
Push(w, kind, cancelled) ==
    /\ worker[w].stamped
    /\ results' = Append(results,
           Message(kind, worker[w].stamp, worker[w].rev, cancelled,
                   worker[w].run, worker[w].asked))

(* The message is out of the thread's hands, and it moves on.              *)
Sent(w, pc) ==
    worker' = [worker EXCEPT ![w].pc = pc, ![w].stamped = FALSE,
                             ![w].stamp = 0, ![w].rev = 0]

(* After the build flags are gathered: the first cancel check.             *)
Gather(w) ==
    /\ worker[w].pc = "gather"
    /\ worker' = [worker EXCEPT
           ![w].pc = IF cancelRequested THEN "status" ELSE "consume",
           ![w].early = cancelRequested,
           ![w].cancelled = cancelRequested]
    /\ UNCHANGED <<threadRunning, forceNext, jobGlobals, cancelRequested,
                   refreshRunning, results>>

(* The forced flag is taken whatever the mode.  A scan announces itself    *)
(* with a progress message; an incremental run without targets scans       *)
(* nothing.                                                                *)
Consume(w) ==
    /\ worker[w].pc = "consume"
    /\ forceNext' = FALSE
    /\ \E next \in {"announce", "scan"} :
           /\ next = "scan" => mode = "workspace" /\ ~forceNext
           /\ worker' = [worker EXCEPT
                  ![w].pc = next,
                  ![w].full = forceNext /\ mode = "workspace"]
    /\ UNCHANGED <<threadRunning, jobGlobals, cancelRequested, refreshRunning,
                   results>>

Announce(w) ==
    /\ worker[w].pc = "announce"
    /\ Push(w, "progress", FALSE)
    /\ Sent(w, "scan")
    /\ UNCHANGED <<threadRunning, forceNext, jobGlobals, cancelRequested,
                   refreshRunning>>

(* The scan stops at the next file once cancel is raised; then the flag is *)
(* read again.                                                             *)
Scan(w) ==
    /\ worker[w].pc = "scan"
    /\ worker' = [worker EXCEPT
           ![w].pc = IF cancelRequested THEN "status" ELSE "symbols",
           ![w].cancelled = cancelRequested]
    /\ UNCHANGED <<threadRunning, forceNext, jobGlobals, cancelRequested,
                   refreshRunning, results>>

PublishSymbols(w) ==
    /\ worker[w].pc = "sendSymbols"
    /\ Push(w, "symbols", FALSE)
    /\ Sent(w, "diagnostics")
    /\ UNCHANGED <<threadRunning, forceNext, jobGlobals, cancelRequested,
                   refreshRunning>>

PublishDiagnostics(w) ==
    /\ worker[w].pc = "sendDiagnostics"
    /\ Push(w, "diagnostics", FALSE)
    /\ Sent(w, "status")
    /\ UNCHANGED <<threadRunning, forceNext, jobGlobals, cancelRequested,
                   refreshRunning>>

(* Mutant: the early exit forgets to lower the refresh flag.               *)
EarlyExitKeepsFlag(w) ==
    /\ worker[w].pc = "status"
    /\ Push(w, IF worker[w].cancelled THEN "idle" ELSE "fresh", FALSE)
    /\ Sent(w, IF worker[w].early THEN "threadOff" ELSE "finish")
    /\ UNCHANGED <<threadRunning, forceNext, jobGlobals, cancelRequested,
                   refreshRunning>>

ReportStatus(w) ==
    /\ worker[w].pc = "status"
    /\ Push(w, IF worker[w].cancelled THEN "idle" ELSE "fresh", FALSE)
    /\ Sent(w, IF worker[w].early THEN "refreshOff" ELSE "finish")
    /\ UNCHANGED <<threadRunning, forceNext, jobGlobals, cancelRequested,
                   refreshRunning>>

ReportFinished(w) ==
    /\ worker[w].pc = "finish"
    /\ Push(w, "finished", worker[w].cancelled)
    /\ Sent(w, "refreshOff")
    /\ UNCHANGED <<threadRunning, forceNext, jobGlobals, cancelRequested,
                   refreshRunning>>

(* analysis_refresh_set_running(false): the scheduler may retire the run.  *)
LowerRefresh(w) ==
    /\ worker[w].pc = "refreshOff"
    /\ refreshRunning' = FALSE
    /\ Goto(w, "threadOff")
    /\ UNCHANGED <<threadRunning, forceNext, jobGlobals, cancelRequested,
                   results>>

(* g_thread_running = false: the next run may be prepared.                 *)
LowerThread(w) ==
    /\ worker[w].pc = "threadOff"
    /\ threadRunning' = FALSE
    /\ Goto(w, "handleOff")
    /\ UNCHANGED <<forceNext, jobGlobals, cancelRequested, refreshRunning, results>>

(* g_thread = NULL, which only a start function under way reads.           *)
DropHandle(w) ==
    /\ worker[w].pc = "handleOff"
    /\ Goto(w, "clear")
    /\ UNCHANGED <<threadRunning, forceNext, jobGlobals, cancelRequested,
                   refreshRunning, results>>

(* Mutant: every end reports itself here, not only the early one.          *)
ClearLiveThenReport(w) ==
    /\ worker[w].pc = "clear"
    /\ live' = EmptyLive
    /\ mode' = "workspace"
    /\ Goto(w, "lateFinish")
    /\ UNCHANGED <<threadRunning, forceNext, jobRunId, jobHints,
                   cancelRequested, refreshRunning, results>>

(* analysis_job_clear_live_request, on the globals whoever owns them now.  *)
ClearLive(w) ==
    /\ worker[w].pc = "clear"
    /\ live' = EmptyLive
    /\ mode' = "workspace"
    /\ IF worker[w].early
       THEN Goto(w, "lateFinish")
       ELSE worker' = [worker EXCEPT ![w] = IdleThread]
    /\ UNCHANGED <<threadRunning, forceNext, jobRunId, jobHints,
                   cancelRequested, refreshRunning, results>>

(* The early exit reports its end last, when the next run may have begun   *)
(* and, after the run id is read, may have pushed results of its own.      *)
ReportFinishedLate(w) ==
    /\ worker[w].pc = "lateFinish"
    /\ Push(w, "finished", TRUE)
    /\ worker' = [worker EXCEPT ![w] = IdleThread]
    /\ UNCHANGED <<threadRunning, forceNext, jobGlobals, cancelRequested,
                   refreshRunning>>

WorkerStep(w) ==
    \/ Compose(w) \/ Attach(w)
    \/ Gather(w) \/ Consume(w) \/ Announce(w) \/ Scan(w)
    \/ PublishSymbols(w) \/ PublishDiagnostics(w)
    \/ ReportStatus(w) \/ ReportFinished(w)
    \/ LowerRefresh(w) \/ LowerThread(w) \/ DropHandle(w)
    \/ ClearLive(w) \/ ReportFinishedLate(w)

=============================================================================
