-------------------------- MODULE AnalysisScheduler --------------------------
(***************************************************************************)
(* The coalescing scheduler of src/core/Analysis/analysis_scheduler.c.     *)
(*                                                                         *)
(* One pending slot per job key.  Requests arrive on the main thread and   *)
(* are folded into the slot of their key; a tick of the main loop retires  *)
(* the active job once analysis_refresh_running() (refreshRunning of       *)
(* AnalysisStatus) is down, and then takes the next slot.  What the     *)
(* tick starts is the worker of AnalysisJob; AnalysisPipeline conjoins the *)
(* two.  Every operator here holds g_scheduler_mutex in the code, so it is *)
(* one step.                                                               *)
(***************************************************************************)
EXTENDS AnalysisStatus, FiniteSets

CONSTANTS
    MaxHints,       \* ANALYSIS_SCHEDULER_MAX_FILE_HINTS
    NoKey           \* ANALYSIS_JOB_KEY_NONE

ASSUME SchedulerAssumption ==
    /\ MaxHints \in Nat
    /\ NoKey \notin {"workspace", "symbols", "diagnostics", "index", "live"}

Keys == {"workspace", "symbols", "diagnostics", "index", "live"}

Reasons == {"startup", "reload", "watcher", "manual", "mutation", "library",
            "edit", "save", "live"}

Slot == [pending : BOOLEAN, force : BOOLEAN, reasons : SUBSET Reasons,
         seq : Nat, coalesced : Nat, hints : SUBSET Files, live : LiveRequest]

EmptySlot == [pending |-> FALSE, force |-> FALSE, reasons |-> {}, seq |-> 0,
              coalesced |-> 0, hints |-> {}, live |-> EmptyLive]

VARIABLES
    slots,              \* g_pending_jobs
    nextEnqueueSeq,     \* g_next_enqueue_seq
    running,            \* g_running
    activeRunId,        \* g_active_run_id, 0 when nothing runs
    activeJobKey,       \* g_active_job_key
    activeReasons,      \* g_active_reason_mask
    activeForceFull,    \* g_active_force_full
    nextRunId,          \* g_next_run_id
    lastCompletedRunId, \* g_last_completed_run_id
    jobsScheduled,      \* g_jobs_scheduled
    jobsCoalesced       \* g_jobs_coalesced_replaced

queueVars == <<slots, nextEnqueueSeq, jobsScheduled, jobsCoalesced>>
activeVars == <<running, activeRunId, activeJobKey, activeReasons,
                activeForceFull, nextRunId, lastCompletedRunId>>

SchedulerTypeOK ==
    /\ slots \in [Keys -> Slot]
    /\ nextEnqueueSeq \in Nat \ {0}
    /\ running \in BOOLEAN
    /\ activeRunId \in Nat
    /\ activeJobKey \in Keys \cup {NoKey}
    /\ activeReasons \in SUBSET Reasons
    /\ activeForceFull \in BOOLEAN
    /\ nextRunId \in Nat \ {0}
    /\ lastCompletedRunId \in Nat
    /\ jobsScheduled \in Nat
    /\ jobsCoalesced \in Nat
    /\ refreshRunning \in BOOLEAN

SchedulerInit ==
    /\ slots = [k \in Keys |-> EmptySlot]
    /\ nextEnqueueSeq = 1
    /\ running = FALSE
    /\ activeRunId = 0
    /\ activeJobKey = NoKey
    /\ activeReasons = {}
    /\ activeForceFull = FALSE
    /\ nextRunId = 1
    /\ lastCompletedRunId = 0
    /\ jobsScheduled = 0
    /\ jobsCoalesced = 0
    /\ refreshRunning = FALSE

-----------------------------------------------------------------------------
(* Requests.                                                               *)

(* Jobs a saved file may cut short.                                        *)
YieldingKeys == {"workspace", "symbols", "index"}

(* analysis_scheduler_request_key sends a mask that is exactly the library *)
(* panel's to the index lane, whatever key the caller named.               *)
LaneOf(key, reasons) == IF reasons = {"library"} THEN "index" ELSE key

(* A duplicate hint, or one that finds the list full, is dropped.          *)
WithHint(hints, f) ==
    IF Cardinality(hints) < MaxHints THEN hints \cup {f} ELSE hints

ActiveIs(key) == running /\ activeJobKey = key

(* What g_jobs_coalesced_replaced grows by: the request folded into a      *)
(* waiting slot, or overtook the running job of its key.                   *)
Replaced(key) == IF slots[key].pending \/ ActiveIs(key) THEN 1 ELSE 0

(* The part all three request functions share: open the slot if it was     *)
(* idle, merge reasons and force, and account for what was replaced.       *)
Enqueue(key, reasons, force, hints, live) ==
    LET old == slots[key]
    IN  /\ slots' = [slots EXCEPT ![key] =
               [pending |-> TRUE,
                force |-> old.force \/ force,
                reasons |-> old.reasons \cup reasons,
                seq |-> IF old.pending THEN old.seq ELSE nextEnqueueSeq,
                coalesced |-> old.coalesced + Replaced(key),
                hints |-> hints,
                live |-> live]]
        /\ nextEnqueueSeq' = IF old.pending THEN nextEnqueueSeq
                                            ELSE nextEnqueueSeq + 1
        /\ jobsScheduled' = jobsScheduled + 1
        /\ jobsCoalesced' = jobsCoalesced + Replaced(key)
        /\ UNCHANGED <<activeVars, refreshRunning>>

(* A workspace reload restarts the job of its own key.                     *)
KeyRequestCancels(key, reasons) ==
    ActiveIs(LaneOf(key, reasons)) /\ "reload" \in reasons

RequestKey(key, reasons, force) ==
    LET lane == LaneOf(key, reasons)
    IN  /\ reasons # {}
        /\ Enqueue(lane, reasons, force, slots[lane].hints, slots[lane].live)

(* Mutant: the library index and symbol lanes were forgotten.              *)
OnlyWorkspaceYields(reasons) == "save" \in reasons /\ ActiveIs("workspace")

(* A save cuts short a job that only refreshes the workspace's background. *)
FileRequestCancels(reasons) ==
    "save" \in reasons /\ running /\ activeJobKey \in YieldingKeys

RequestFile(f, reasons, force) ==
    LET slot == slots["diagnostics"]
    IN  /\ reasons # {}
        /\ Enqueue("diagnostics", reasons, force,
                   WithHint(slot.hints, f), slot.live)

RequestLiveBuffer(f, rev, reasons, force) ==
    LET slot == slots["live"]
    IN  /\ reasons # {}
        /\ Enqueue("live", reasons, force, WithHint(slot.hints, f),
                   [file |-> f, rev |-> rev])

-----------------------------------------------------------------------------
(* The tick's locked section.                                              *)

PendingKeys == {k \in Keys : slots[k].pending}

SavePending ==
    slots["diagnostics"].pending /\ "save" \in slots["diagnostics"].reasons

(* select_next_pending_key_unsafe: saved-file diagnostics, then the live   *)
(* buffer, then arrival order.                                             *)
Selected(k) ==
    /\ k \in PendingKeys
    /\ SavePending => k = "diagnostics"
    /\ ~SavePending /\ slots["live"].pending => k = "live"
    /\ ~SavePending /\ ~slots["live"].pending =>
           \A j \in PendingKeys : slots[k].seq <= slots[j].seq

(* The active job has reported its end through analysis_status.            *)
ActiveEnded == running /\ ~refreshRunning

Retired == IF ActiveEnded THEN activeRunId ELSE lastCompletedRunId

(* Nothing to start: the ended job is retired and the lane goes idle.      *)
Retire ==
    /\ ActiveEnded
    /\ PendingKeys = {}
    /\ lastCompletedRunId' = Retired
    /\ running' = FALSE
    /\ activeRunId' = 0
    /\ activeJobKey' = NoKey
    /\ activeReasons' = {}
    /\ activeForceFull' = FALSE
    /\ UNCHANGED <<queueVars, nextRunId>>

(* Take slot k under a fresh run id, retiring the ended job on the way.    *)
Take(k) ==
    /\ ~running \/ ActiveEnded
    /\ Selected(k)
    /\ lastCompletedRunId' = Retired
    /\ running' = TRUE
    /\ activeRunId' = nextRunId
    /\ nextRunId' = nextRunId + 1
    /\ activeJobKey' = k
    /\ activeReasons' = slots[k].reasons
    /\ activeForceFull' = slots[k].force
    /\ slots' = [slots EXCEPT ![k] = EmptySlot]
    /\ UNCHANGED <<nextEnqueueSeq, jobsScheduled, jobsCoalesced>>

=============================================================================
