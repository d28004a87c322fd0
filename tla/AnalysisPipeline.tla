-------------------------- MODULE AnalysisPipeline --------------------------
(***************************************************************************)
(* Scheduler and worker together, as the main loop drives them.            *)
(*                                                                         *)
(* The main thread issues requests and ticks the scheduler; the worker     *)
(* threads run concurrently.  A tick's locked section and the start        *)
(* function it then calls are one step: between the two the only shared    *)
(* datum the main thread reads is g_thread_running, and a worker's write   *)
(* of it may as well fall before or after the whole tick.  What an ending  *)
(* thread can do in the middle of a start is TickMistaken.                 *)
(***************************************************************************)
EXTENDS AnalysisScheduler, AnalysisJob

CONSTANTS
    KeyRequests,    \* the key requests a behaviour draws from
    CreateMayFail,  \* whether SDL_CreateThread can fail
    MaxRequests,    \* bound on the requests of a behaviour
    MaxRevision     \* bound on document revisions

(* The requests the program issues: a lane, a reason mask and whether a    *)
(* full rebuild is asked for.  The workspace lane gets the start-up and    *)
(* manual requests and the mask the project refresh accumulated; only a    *)
(* mask with a reload in it can force a full rebuild.                      *)
KeyRequest == [key : {"workspace", "index", "symbols"},
               reasons : (SUBSET Reasons) \ {{}},
               force : BOOLEAN]

Issued(r) ==
    \/ r.key = "workspace" /\ r.reasons = {"startup"}
    \/ r.key = "workspace" /\ r.reasons = {"manual"} /\ r.force
    \/ r.key = "index" /\ r.reasons = {"library"} /\ r.force
    \/ r.key = "symbols" /\ r.reasons = {"edit"} /\ ~r.force
    \/ /\ r.key = "workspace"
       /\ r.reasons \subseteq {"reload", "watcher", "mutation"}
       /\ r.force => "reload" \in r.reasons

ASSUME PipelineAssumption ==
    /\ KeyRequests \subseteq {r \in KeyRequest : Issued(r)}
    /\ CreateMayFail \in BOOLEAN
    /\ MaxRequests \in Nat
    /\ MaxRevision \in Nat

VARIABLES
    cancelAsked,    \* history: the runs a request asked to cancel
    owedSaves       \* history: saved files whose hint no run has taken yet

schedulerVars == <<queueVars, activeVars>>
jobVars == <<threadRunning, forceNext, jobGlobals, cancelRequested, worker,
             results>>
history == <<cancelAsked, owedSaves>>
vars == <<schedulerVars, refreshRunning, jobVars, history>>

Init ==
    /\ SchedulerInit
    /\ JobInit
    /\ cancelAsked = {}
    /\ owedSaves = {}

(* analysis_job_request_cancel, when the request decided to cancel.        *)
CancelIf(cancels) ==
    /\ cancelRequested' = (cancelRequested \/ cancels)
    /\ cancelAsked' = IF cancels THEN cancelAsked \cup {activeRunId}
                                 ELSE cancelAsked
    /\ UNCHANGED <<threadRunning, forceNext, jobGlobals, worker, results>>

Bounded == jobsScheduled < MaxRequests

Request(r) ==
    /\ Bounded
    /\ RequestKey(r.key, r.reasons, r.force)
    /\ CancelIf(KeyRequestCancels(r.key, r.reasons))
    /\ UNCHANGED owedSaves

(* save_queue.c: a file was written and its diagnostics are asked for.     *)
Save(f) ==
    /\ Bounded
    /\ RequestFile(f, {"save"}, FALSE)
    /\ CancelIf(FileRequestCancels({"save"}))
    /\ owedSaves' = owedSaves \cup {f}

(* editor_live_diagnostics.c: an edit transaction was committed.           *)
LiveBuffer(f, rev) ==
    /\ Bounded
    /\ RequestLiveBuffer(f, rev, {"live"}, FALSE)
    /\ CancelIf(FALSE)
    /\ UNCHANGED owedSaves

-----------------------------------------------------------------------------
(* analysis_scheduler_tick.                                                *)

TickRetires ==
    /\ Retire
    /\ UNCHANGED <<refreshRunning, jobVars, history>>

(* Mutant: the job key is handed over as the mode.                         *)
ModeIsKey(k) == k

RunMode(k) == IF k = "live" THEN "buffer" ELSE "workspace"
RunHints(k) == IF k = "live" THEN {} ELSE slots[k].hints
RunRequest(k) == IF k = "live" THEN slots[k].live ELSE EmptyLive

(* The slot is taken and its thread created.                               *)
TickStarts(k, w) ==
    /\ Take(k)
    /\ StartRun(w, nextRunId, RunMode(k), RunHints(k), RunRequest(k),
                slots[k].force)
    /\ owedSaves' = owedSaves \ RunHints(k)
    /\ UNCHANGED cancelAsked

TickFails(k) ==
    /\ CreateMayFail
    /\ Take(k)
    /\ StartFails(nextRunId, RunHints(k), RunRequest(k), slots[k].force)
    /\ owedSaves' = owedSaves \ RunHints(k)
    /\ UNCHANGED cancelAsked

(* The slot is taken and the thread w it got is held for one that could    *)
(* not be created.                                                         *)
TickMistaken(k, v, w) ==
    /\ Take(k)
    /\ StartMistaken(v, w, nextRunId, RunHints(k), RunRequest(k), slots[k].force)
    /\ owedSaves' = owedSaves \ RunHints(k)
    /\ UNCHANGED cancelAsked

(* The slot is taken, but the previous thread has not yet lowered          *)
(* g_thread_running and the start function returns.                        *)
TickRefused(k) ==
    /\ Take(k)
    /\ StartRefused(slots[k].force)
    /\ UNCHANGED history

Tick ==
    \/ TickRetires
    \/ \E k \in Keys :
           \/ \E w \in Workers : TickStarts(k, w)
           \/ TickFails(k)
           \/ \E v, w \in Workers : TickMistaken(k, v, w)
           \/ TickRefused(k)

Run(w) ==
    /\ WorkerStep(w)
    /\ UNCHANGED <<schedulerVars, history>>

Next ==
    \/ \E r \in KeyRequests : Request(r)
    \/ \E f \in Files : Save(f)
    \/ \E f \in Files, rev \in 1..MaxRevision : LiveBuffer(f, rev)
    \/ Tick
    \/ \E w \in Workers : Run(w)

Spec == Init /\ [][Next]_vars

(* The main loop ticks every frame, at the latest after the 500 ms wait;   *)
(* a worker is a thread the system schedules.                              *)
FairSpec == Spec /\ WF_vars(Tick) /\ \A w \in Workers : WF_vars(Run(w))

-----------------------------------------------------------------------------
(* Properties.                                                             *)

(* Every variable stays in its domain.                                     *)
TypeOK ==
    /\ SchedulerTypeOK
    /\ JobTypeOK
    /\ cancelAsked \in SUBSET Nat
    /\ owedSaves \in SUBSET Files

(* Between its start and its lowering of g_thread_running a thread reads   *)
(* and writes the stores, the scan's globals and the run's globals with no *)
(* lock of its own: no two threads are ever in that part, although an old  *)
(* thread's ending may overlap the next run.  analysis_job.h: "No-op if    *)
(* already running."  A build that reads the handle back does not keep it. *)
OneScanner ==
    \A v, w \in Workers :
        worker[v].pc \in Scanning /\ worker[w].pc \in Scanning => v = w

(* While analysis_refresh_running() is up, the job the scheduler calls     *)
(* active is the one a live thread is executing, under the same run id:    *)
(* neither a thread's end nor a refused start ever makes the flag speak    *)
(* for another run.                                                        *)
RefreshFlagNamesActiveRun ==
    refreshRunning =>
        /\ running
        /\ \E w \in Workers :
               worker[w].pc \in Scanning /\ worker[w].run = activeRunId

(* Saved-file diagnostics never wait behind an uncancelled background      *)
(* refresh: if one is running while a save is pending, its cancel flag is  *)
(* up.  Priority in select_next_pending_key_unsafe, the cancel in          *)
(* request_file and the reset in the start functions must agree for this.  *)
SaveNotBlocked ==
    SavePending /\ refreshRunning /\ activeJobKey \in YieldingKeys
        => cancelRequested

(* A run that reports itself cancelled is one a request asked to cancel: a *)
(* cancel aimed at one run never spills over to the next.                  *)
CancelHitsItsRun ==
    \A w \in Workers : worker[w].cancelled => worker[w].run \in cancelAsked

(* A run taken from a slot that forced a full rebuild does not go          *)
(* incremental, whatever flags earlier runs left behind.                   *)
ForcedRunIsFull ==
    \A w \in Workers :
        /\ worker[w].forced
        /\ worker[w].pc \in Scanning \ {"gather", "consume"}
        /\ ~worker[w].early
        => worker[w].full

(* The main loop drops a result whose run id is below the newest it has    *)
(* applied (event_loop.c:204).  The only result that can lose this way is  *)
(* the finished message of a run cancelled before it began, which reads    *)
(* the id when the next run may already push (analysis_job.c:73 and :82,   *)
(* reached from :508): its run published nothing before it but that it is  *)
(* idle, so no symbols, diagnostics or progress are ever lost to a newer   *)
(* run.                                                                    *)
OnlyQuietEndsAreOvertaken ==
    \A i, j \in DOMAIN results :
        i < j /\ results[j].run < results[i].run =>
            /\ results[j].kind = "finished" /\ results[j].cancelled
            /\ \A k \in DOMAIN results :
                   k < j /\ results[k].owner = results[j].owner
                       => results[k].kind = "idle"

(* Symbols and diagnostics are published under the id of the run that      *)
(* computed them.                                                          *)
ResultsNameTheirRun ==
    \A i \in DOMAIN results :
        results[i].kind \in {"symbols", "diagnostics"}
            => results[i].run = results[i].owner

(* The inductive invariant behind the safety properties: what a thread in  *)
(* its scanning part holds, which run the cancel flag speaks about, and    *)
(* where a forced flag can be.                                             *)
ScannerHoldsFlags ==
    \A w \in Workers : worker[w].pc \in Scanning =>
        /\ threadRunning
        /\ refreshRunning <=> worker[w].pc # "threadOff"
        /\ worker[w].run = jobRunId

CancelNamesActiveRun ==
    cancelRequested /\ refreshRunning => activeRunId \in cancelAsked

ForcedFlagWaits ==
    /\ ~slots["live"].force
    /\ \A w \in Workers :
          /\ worker[w].pc \in Scanning /\ worker[w].forced
                 => mode = "workspace"
          /\ worker[w].pc \in {"gather", "consume"} /\ worker[w].forced
                 => forceNext

RunIdsBounded ==
    /\ jobRunId < nextRunId
    /\ \A i \in DOMAIN results :
           results[i].run <= jobRunId /\ results[i].owner < nextRunId

(* What a thread holds of a message: the id of the global then, which for  *)
(* a thread in its scanning part is its own.                               *)
DraftsNameTheirRun ==
    \A w \in Workers : worker[w].stamped =>
        /\ worker[w].stamp <= jobRunId
        /\ worker[w].pc \in Scanning => worker[w].stamp = worker[w].run

(* Threads have runs of their own.                                         *)
RunsApart ==
    \A w \in Workers : worker[w].pc # "idle" =>
        /\ worker[w].run < nextRunId
        /\ \A v \in Workers \ {w} :
               worker[v].pc # "idle" => worker[v].run # worker[w].run

(* A thread that leaves early says that it is idle and nothing else before *)
(* its last message.                                                       *)
EarlyEndsAreQuiet ==
    \A w \in Workers :
        /\ worker[w].pc = "lateFinish" => worker[w].early
        /\ worker[w].early =>
               /\ worker[w].pc \in {"status", "refreshOff", "threadOff"} \cup Ending
               /\ worker[w].cancelled
        /\ worker[w].early \/ worker[w].pc = "gather" =>
               \A i \in DOMAIN results :
                   results[i].owner = worker[w].run => results[i].kind = "idle"

PipelineInv ==
    /\ ScannerHoldsFlags
    /\ OneScanner
    /\ RefreshFlagNamesActiveRun
    /\ SaveNotBlocked
    /\ CancelNamesActiveRun
    /\ CancelHitsItsRun
    /\ ForcedFlagWaits
    /\ ForcedRunIsFull
    /\ RunIdsBounded
    /\ DraftsNameTheirRun
    /\ RunsApart
    /\ EarlyEndsAreQuiet
    /\ OnlyQuietEndsAreOvertaken
    /\ ResultsNameTheirRun

(* A pending save becomes the active job; jobs in front of it end.         *)
SaveGetsItsTurn == SavePending ~> ActiveIs("diagnostics")

(* The lane drains once requests stop: nothing stays pending or running.   *)
LaneDrains ==
    (running \/ PendingKeys # {}) ~> (~running /\ PendingKeys = {})

(* What one would expect, or the documentation promises, and the code does *)
(* not keep.                                                               *)

(* Results arrive in the order of their run ids.  The end of a run that    *)
(* was cancelled before it began may come late.                            *)
ResultRunsMonotone ==
    \A i, j \in DOMAIN results : i < j => results[i].run <= results[j].run

(* A saved file's hint is kept until a run takes it.                       *)
SavedHintsPreserved == owedSaves \subseteq slots["diagnostics"].hints

(* Results of a live-buffer run carry the revision they were computed      *)
(* from, which is what lets the main thread drop them once it is stale.    *)
LiveResultsCarryRevision ==
    \A i \in DOMAIN results :
        /\ results[i].kind \in {"symbols", "diagnostics"}
        /\ results[i].asked # EmptyLive
        => results[i].rev = results[i].asked.rev

=============================================================================
