------------------------ MODULE AnalysisPipelineProofs ------------------------
(***************************************************************************)
(* Theorems about AnalysisPipeline, for every set of files, every number   *)
(* of threads and every bound.  The safety theorems are about a build that *)
(* does not read g_thread back (-O3); in one that does, OneScanner fails.  *)
(***************************************************************************)
EXTENDS AnalysisPipeline, TLAPS

-----------------------------------------------------------------------------
(* Type correctness.                                                       *)

LEMMA WithHintType ==
    ASSUME NEW hints \in SUBSET Files, NEW f \in Files
    PROVE  WithHint(hints, f) \in SUBSET Files
BY DEF WithHint

LEMMA EnqueueType ==
    ASSUME TypeOK,
           NEW key \in Keys, NEW reasons \in SUBSET Reasons,
           NEW force \in BOOLEAN, NEW hints \in SUBSET Files,
           NEW request \in LiveRequest,
           Enqueue(key, reasons, force, hints, request)
    PROVE  SchedulerTypeOK'
<1> DEFINE old == slots[key]
           bump == Replaced(key)
<1>1. old \in Slot /\ bump \in Nat
  BY DEF TypeOK, SchedulerTypeOK, Replaced
<1>2. [pending |-> TRUE, force |-> old.force \/ force,
       reasons |-> old.reasons \cup reasons,
       seq |-> IF old.pending THEN old.seq ELSE nextEnqueueSeq,
       coalesced |-> old.coalesced + bump,
       hints |-> hints, live |-> request] \in Slot
  BY <1>1 DEF TypeOK, SchedulerTypeOK, Slot
<1>3. slots' \in [Keys -> Slot]
  BY <1>2 DEF Enqueue, TypeOK, SchedulerTypeOK
<1>4. nextEnqueueSeq' \in Nat \ {0} /\ jobsScheduled' \in Nat /\ jobsCoalesced' \in Nat
  BY <1>1 DEF Enqueue, TypeOK, SchedulerTypeOK
<1>5. QED
  BY <1>3, <1>4 DEF Enqueue, TypeOK, SchedulerTypeOK, activeVars

LEMMA KeyRequestType ==
    ASSUME NEW r \in KeyRequests
    PROVE  /\ LaneOf(r.key, r.reasons) \in {"workspace", "index", "symbols"}
           /\ r.reasons \in SUBSET (Reasons \ {"save", "live"})
           /\ r.force \in BOOLEAN
BY PipelineAssumption DEF KeyRequest, Issued, LaneOf, Reasons

LEMMA RequestType ==
    ASSUME TypeOK, NEW r \in KeyRequests, Request(r)
    PROVE  TypeOK'
<1> DEFINE lane == LaneOf(r.key, r.reasons)
<1>1. lane \in Keys /\ r.reasons \in SUBSET Reasons /\ r.force \in BOOLEAN
  BY KeyRequestType DEF Keys
<1>2. slots[lane].hints \in SUBSET Files /\ slots[lane].live \in LiveRequest
  BY <1>1 DEF TypeOK, SchedulerTypeOK, Slot
<1>3. SchedulerTypeOK'
  BY <1>1, <1>2, EnqueueType DEF Request, RequestKey
<1>4. JobTypeOK'
  BY DEF Request, RequestKey, Enqueue, CancelIf, TypeOK, JobTypeOK, jobGlobals,
         KeyRequestCancels, ActiveIs
<1>5. cancelAsked' \in SUBSET Nat /\ owedSaves' \in SUBSET Files
  BY DEF Request, CancelIf, TypeOK, SchedulerTypeOK
<1>6. QED
  BY <1>3, <1>4, <1>5 DEF TypeOK

LEMMA SaveType ==
    ASSUME TypeOK, NEW f \in Files, Save(f)
    PROVE  TypeOK'
<1> DEFINE slot == slots["diagnostics"]
<1>1. /\ WithHint(slot.hints, f) \in SUBSET Files /\ slot.live \in LiveRequest
      /\ {"save"} \in SUBSET Reasons /\ "diagnostics" \in Keys
  BY WithHintType DEF TypeOK, SchedulerTypeOK, Slot, Keys, Reasons
<1>2. SchedulerTypeOK'
  BY <1>1, EnqueueType DEF Save, RequestFile
<1>3. JobTypeOK'
  BY DEF Save, RequestFile, Enqueue, CancelIf, TypeOK, JobTypeOK, jobGlobals
<1>4. cancelAsked' \in SUBSET Nat /\ owedSaves' \in SUBSET Files
  BY DEF Save, CancelIf, TypeOK, SchedulerTypeOK
<1>5. QED
  BY <1>2, <1>3, <1>4 DEF TypeOK

LEMMA LiveBufferType ==
    ASSUME TypeOK, NEW f \in Files, NEW rev \in 1..MaxRevision,
           LiveBuffer(f, rev)
    PROVE  TypeOK'
<1>1. /\ WithHint(slots["live"].hints, f) \in SUBSET Files
      /\ [file |-> f, rev |-> rev] \in LiveRequest
      /\ {"live"} \in SUBSET Reasons /\ "live" \in Keys
  BY WithHintType, PipelineAssumption
     DEF TypeOK, SchedulerTypeOK, Slot, Keys, Reasons, LiveRequest
<1>2. SchedulerTypeOK'
  BY <1>1, EnqueueType DEF LiveBuffer, RequestLiveBuffer
<1>3. JobTypeOK'
  BY DEF LiveBuffer, RequestLiveBuffer, Enqueue, CancelIf, TypeOK, JobTypeOK,
         jobGlobals
<1>4. cancelAsked' \in SUBSET Nat /\ owedSaves' \in SUBSET Files
  BY DEF LiveBuffer, CancelIf, TypeOK
<1>5. QED
  BY <1>2, <1>3, <1>4 DEF TypeOK

(* The scheduler's half of a tick that takes a slot.                       *)
LEMMA TakeType ==
    ASSUME TypeOK, NEW k \in Keys, Take(k), refreshRunning' \in BOOLEAN
    PROVE  SchedulerTypeOK'
<1>1. slots[k] \in Slot /\ EmptySlot \in Slot
  BY DEF TypeOK, SchedulerTypeOK, Slot, EmptySlot, EmptyLive, LiveRequest
<1>2. slots' \in [Keys -> Slot]
  BY <1>1 DEF Take, TypeOK, SchedulerTypeOK
<1>3. Retired \in Nat
  BY DEF Retired, TypeOK, SchedulerTypeOK
<1>4. activeReasons' \in SUBSET Reasons /\ activeForceFull' \in BOOLEAN
  BY <1>1 DEF Take, Slot
<1>5. QED
  BY <1>2, <1>3, <1>4 DEF Take, TypeOK, SchedulerTypeOK

LEMMA RunArguments ==
    ASSUME TypeOK, NEW k \in Keys
    PROVE  /\ RunMode(k) \in Modes
           /\ RunHints(k) \in SUBSET Files
           /\ RunRequest(k) \in LiveRequest
           /\ slots[k].force \in BOOLEAN
           /\ nextRunId \in Nat \ {0}
<1>1. slots[k] \in Slot
  BY DEF TypeOK, SchedulerTypeOK
<1>2. QED
  BY <1>1 DEF RunMode, RunHints, RunRequest, Modes, Slot, EmptyLive,
              LiveRequest, TypeOK, SchedulerTypeOK

(* What a thread starts with.                                              *)
LEMMA LaunchedThread ==
    ASSUME TypeOK, NEW k \in Keys
    PROVE  LET t == Launched(nextRunId, RunRequest(k), slots[k].force)
           IN  /\ t \in Thread
               /\ t.pc = "gather" /\ t.run = nextRunId
               /\ t.forced = slots[k].force
               /\ ~t.early /\ ~t.cancelled /\ ~t.stamped
<1>1. /\ RunRequest(k) \in LiveRequest /\ slots[k].force \in BOOLEAN
      /\ nextRunId \in Nat
  BY RunArguments
<1>2. "gather" \in Steps /\ EmptyLive \in LiveRequest
  BY DEF Steps, Scanning, EmptyLive, LiveRequest
<1>3. QED
  BY <1>1, <1>2 DEF Launched, IdleThread, Thread

LEMMA TickType ==
    ASSUME TypeOK, Tick
    PROVE  TypeOK'
<1>1. CASE TickRetires
  BY <1>1 DEF TickRetires, Retire, Retired, TypeOK, SchedulerTypeOK, JobTypeOK,
              queueVars, jobVars, jobGlobals, history
<1>2. ASSUME NEW k \in Keys, NEW w \in Workers, TickStarts(k, w)
      PROVE  TypeOK'
  <2>1. SchedulerTypeOK'
    BY <1>2, TakeType DEF TickStarts, StartRun
  <2>2. Launched(nextRunId, RunRequest(k), slots[k].force) \in Thread
    BY LaunchedThread
  <2>3. worker' \in [Workers -> Thread]
    BY <1>2, <2>2 DEF TickStarts, StartRun, TypeOK, JobTypeOK
  <2>4. JobTypeOK'
    BY <1>2, <2>3, RunArguments
       DEF TickStarts, StartRun, PrepareRun, TypeOK, JobTypeOK
  <2>5. QED
    BY <1>2, <2>1, <2>4 DEF TickStarts, TypeOK
<1>3. ASSUME NEW k \in Keys, Take(k),
             ReportFailure(nextRunId, RunHints(k), RunRequest(k), slots[k].force),
             worker' \in [Workers -> Thread],
             owedSaves' = owedSaves \ RunHints(k), UNCHANGED cancelAsked
      PROVE  TypeOK'
  <2>1. SchedulerTypeOK'
    BY <1>3, TakeType DEF ReportFailure
  <2> DEFINE report(kind) ==
           Message(kind, nextRunId, 0, FALSE, nextRunId, RunRequest(k))
  <2>2. /\ report("error") \in Result /\ report("idle") \in Result
        /\ results \in Seq(Result)
    BY RunArguments DEF Message, Result, Kinds, TypeOK, JobTypeOK
  <2>a. results' = Append(Append(results, report("error")), report("idle"))
    BY <1>3 DEF ReportFailure
  <2> HIDE DEF report
  <2>3. results' \in Seq(Result)
    BY <2>2, <2>a
  <2>4. JobTypeOK'
    BY <1>3, <2>3, RunArguments
       DEF ReportFailure, PrepareRun, TypeOK, JobTypeOK, Modes, EmptyLive,
           LiveRequest
  <2>5. QED
    BY <1>3, <2>1, <2>4 DEF TypeOK
<1>4. ASSUME NEW k \in Keys, TickFails(k)
      PROVE  TypeOK'
  BY <1>3, <1>4 DEF TickFails, StartFails, TypeOK, JobTypeOK
<1>5. ASSUME NEW k \in Keys, NEW v \in Workers, NEW w \in Workers,
             TickMistaken(k, v, w)
      PROVE  TypeOK'
  <2>1. Launched(nextRunId, RunRequest(k), slots[k].force) \in Thread
    BY LaunchedThread
  <2>2. [worker EXCEPT ![v].pc = "clear"] \in [Workers -> Thread]
    BY DEF Thread, Steps, Ending, TypeOK, JobTypeOK
  <2>3. worker' = [[worker EXCEPT ![v].pc = "clear"] EXCEPT
                      ![w] = Launched(nextRunId, RunRequest(k), slots[k].force)]
    BY <1>5 DEF TickMistaken, StartMistaken
  <2>4. worker' \in [Workers -> Thread]
    BY <2>1, <2>2, <2>3
  <2>5. QED
    BY <1>3, <1>5, <2>4 DEF TickMistaken, StartMistaken
<1>6. ASSUME NEW k \in Keys, TickRefused(k)
      PROVE  TypeOK'
  <2>1. SchedulerTypeOK'
    BY <1>6, TakeType DEF TickRefused, StartRefused, TypeOK, SchedulerTypeOK
  <2>2. JobTypeOK'
    BY <1>6, RunArguments
       DEF TickRefused, StartRefused, TypeOK, JobTypeOK, jobGlobals
  <2>3. QED
    BY <1>6, <2>1, <2>2 DEF TickRefused, TypeOK, history
<1>7. QED
  BY <1>1, <1>2, <1>4, <1>5, <1>6 DEF Tick

LEMMA PushType ==
    ASSUME TypeOK, NEW w \in Workers, NEW kind \in Kinds,
           NEW cancelled \in BOOLEAN, Push(w, kind, cancelled)
    PROVE  results' \in Seq(Result)
<1>1. worker[w] \in Thread
  BY DEF TypeOK, JobTypeOK
<1>2. Message(kind, worker[w].stamp, worker[w].rev, cancelled, worker[w].run,
              worker[w].asked) \in Result
  BY <1>1 DEF Thread, Message, Result
<1>3. QED
  BY <1>2 DEF Push, TypeOK, JobTypeOK

LEMMA WorkerType ==
    ASSUME TypeOK, NEW w \in Workers, Run(w)
    PROVE  TypeOK'
<1>1. worker \in [Workers -> Thread] /\ worker[w] \in Thread
  BY DEF TypeOK, JobTypeOK
<1>2. ASSUME NEW pc \in Steps, Goto(w, pc) \/ Sent(w, pc)
      PROVE  worker' \in [Workers -> Thread]
  BY <1>1, <1>2 DEF Goto, Sent, Thread
<1>3. \A pc \in Scanning \cup Ending : pc \in Steps
  BY DEF Steps
<1>4. EmptyLive \in LiveRequest /\ IdleThread \in Thread
  BY DEF EmptyLive, LiveRequest, IdleThread, Thread, Steps
<1>5. AttachedRevision \in Nat
  BY DEF AttachedRevision, TypeOK, JobTypeOK, LiveRequest
<1>6. WorkerStep(w) /\ UNCHANGED <<schedulerVars, history>>
  BY DEF Run
<1>7. (refreshRunning' \in BOOLEAN /\ JobTypeOK') => TypeOK'
  BY <1>6 DEF schedulerVars, queueVars, activeVars, history, TypeOK,
              SchedulerTypeOK
<1> USE <1>1 DEF jobGlobals
<1>8. CASE Compose(w) \/ Attach(w)
  <2>1. CASE Compose(w)
    BY <1>7, <2>1 DEF Compose, Thread, TypeOK, SchedulerTypeOK, JobTypeOK
  <2>2. CASE Attach(w)
    <3>1. PICK pc \in {"sendSymbols", "sendDiagnostics"} :
              worker' = [worker EXCEPT ![w].rev = AttachedRevision, ![w].pc = pc]
      BY <2>2 DEF Attach
    <3>2. worker' \in [Workers -> Thread]
      BY <1>5, <3>1 DEF Thread, Steps, Scanning
    <3>3. QED
      BY <1>7, <2>2, <3>2 DEF Attach, TypeOK, SchedulerTypeOK, JobTypeOK
  <2>3. QED
    BY <1>8, <2>1, <2>2
<1>9. CASE Gather(w)
  <2>1. worker' \in [Workers -> Thread]
    BY <1>9 DEF Gather, Thread, Steps, Scanning, TypeOK, JobTypeOK
  <2>2. QED
    BY <1>9, <1>7, <2>1 DEF Gather, TypeOK, SchedulerTypeOK, JobTypeOK
<1>10. CASE Consume(w)
  <2>1. PICK next \in {"announce", "scan"} :
            worker' = [worker EXCEPT ![w].pc = next,
                                     ![w].full = forceNext /\ mode = "workspace"]
    BY <1>10 DEF Consume
  <2>2. worker' \in [Workers -> Thread]
    BY <2>1 DEF Thread, Steps, Scanning, TypeOK, JobTypeOK
  <2>3. QED
    BY <1>10, <1>7, <2>2 DEF Consume, TypeOK, SchedulerTypeOK, JobTypeOK
<1>11. CASE Scan(w)
  <2>1. worker' \in [Workers -> Thread]
    BY <1>11 DEF Scan, Thread, Steps, Scanning, TypeOK, JobTypeOK
  <2>2. QED
    BY <1>11, <1>7, <2>1 DEF Scan, TypeOK, SchedulerTypeOK, JobTypeOK
<1>12. CASE Announce(w)
  BY <1>12, <1>2, <1>3, <1>7, PushType
     DEF Announce, Kinds, Scanning, TypeOK, SchedulerTypeOK, JobTypeOK
<1>13. CASE PublishSymbols(w)
  BY <1>13, <1>2, <1>3, <1>7, PushType
     DEF PublishSymbols, Kinds, Scanning, TypeOK, SchedulerTypeOK, JobTypeOK
<1>14. CASE PublishDiagnostics(w)
  BY <1>14, <1>2, <1>3, <1>7, PushType
     DEF PublishDiagnostics, Kinds, Scanning, TypeOK, SchedulerTypeOK, JobTypeOK
<1>15. CASE ReportStatus(w)
  BY <1>15, <1>2, <1>3, <1>7, PushType
     DEF ReportStatus, Kinds, Scanning, TypeOK, SchedulerTypeOK, JobTypeOK
<1>16. CASE ReportFinished(w)
  <2>1. worker[w].cancelled \in BOOLEAN
    BY DEF Thread
  <2>2. QED
    BY <1>16, <2>1, <1>2, <1>3, <1>7, PushType
       DEF ReportFinished, Kinds, Scanning, TypeOK, SchedulerTypeOK, JobTypeOK
<1>17. CASE LowerRefresh(w)
  BY <1>17, <1>2, <1>3, <1>7
     DEF LowerRefresh, Scanning, TypeOK, SchedulerTypeOK, JobTypeOK
<1>18. CASE LowerThread(w)
  BY <1>18, <1>2, <1>3, <1>7
     DEF LowerThread, Ending, TypeOK, SchedulerTypeOK, JobTypeOK
<1>19. CASE DropHandle(w)
  BY <1>19, <1>2, <1>3, <1>7
     DEF DropHandle, Ending, TypeOK, SchedulerTypeOK, JobTypeOK
<1>20. CASE ClearLive(w)
  <2>1. worker' \in [Workers -> Thread]
    BY <1>20, <1>2, <1>3, <1>4 DEF ClearLive, Ending
  <2>2. QED
    BY <1>20, <2>1, <1>4, <1>7
       DEF ClearLive, Modes, TypeOK, SchedulerTypeOK, JobTypeOK
<1>21. CASE ReportFinishedLate(w)
  <2>1. worker' \in [Workers -> Thread]
    BY <1>21, <1>4 DEF ReportFinishedLate
  <2>2. QED
    BY <1>21, <2>1, <1>7, PushType
       DEF ReportFinishedLate, Kinds, TypeOK, SchedulerTypeOK, JobTypeOK
<1>22. QED
  BY <1>6, <1>8, <1>9, <1>10, <1>11, <1>12, <1>13, <1>14, <1>15, <1>16, <1>17,
     <1>18, <1>19, <1>20, <1>21 DEF WorkerStep

(* Every variable of the scheduler and of the worker keeps its type.       *)
THEOREM TypeCorrect == Spec => []TypeOK
<1>1. Init => TypeOK
  <2> SUFFICES ASSUME Init PROVE TypeOK
    OBVIOUS
  <2>1. EmptySlot \in Slot /\ EmptyLive \in LiveRequest /\ IdleThread \in Thread
    BY DEF EmptySlot, Slot, EmptyLive, LiveRequest, IdleThread, Thread, Steps
  <2>2. slots \in [Keys -> Slot] /\ worker \in [Workers -> Thread]
    BY <2>1 DEF Init, SchedulerInit, JobInit
  <2>3. /\ running \in BOOLEAN /\ activeForceFull \in BOOLEAN
        /\ refreshRunning \in BOOLEAN /\ threadRunning \in BOOLEAN
        /\ forceNext \in BOOLEAN /\ cancelRequested \in BOOLEAN
    BY DEF Init, SchedulerInit, JobInit
  <2>4. SchedulerTypeOK
    <3>1. /\ activeReasons \in SUBSET Reasons
          /\ activeJobKey \in Keys \cup {NoKey}
      BY DEF Init, SchedulerInit
    <3>2. /\ nextEnqueueSeq \in Nat \ {0} /\ activeRunId \in Nat
          /\ nextRunId \in Nat \ {0} /\ lastCompletedRunId \in Nat
          /\ jobsScheduled \in Nat /\ jobsCoalesced \in Nat
      BY DEF Init, SchedulerInit
    <3>3. QED
      BY <2>2, <2>3, <3>1, <3>2 DEF SchedulerTypeOK
  <2>5. JobTypeOK
    <3>1. mode \in Modes /\ jobHints \in SUBSET Files /\ live \in LiveRequest
      BY <2>1 DEF Init, JobInit, Modes
    <3>2. jobRunId \in Nat /\ results \in Seq(Result)
      BY DEF Init, JobInit
    <3>3. QED
      BY <2>2, <2>3, <3>1, <3>2 DEF JobTypeOK
  <2>6. cancelAsked \in SUBSET Nat /\ owedSaves \in SUBSET Files
    BY DEF Init
  <2>7. QED
    BY <2>4, <2>5, <2>6 DEF TypeOK
<1>2. TypeOK /\ [Next]_vars => TypeOK'
  <2> SUFFICES ASSUME TypeOK, [Next]_vars PROVE TypeOK'
    OBVIOUS
  <2>1. CASE UNCHANGED vars
    BY <2>1 DEF vars, schedulerVars, queueVars, activeVars, jobVars, jobGlobals,
                history, TypeOK, SchedulerTypeOK, JobTypeOK
  <2>2. CASE Next
    BY <2>2, RequestType, SaveType, LiveBufferType, TickType, WorkerType DEF Next
  <2>3. QED
    BY <2>1, <2>2
<1>3. QED
  BY <1>1, <1>2, PTL DEF Spec

-----------------------------------------------------------------------------
(* The safety invariant.                                                   *)

(* Its parts about the threads' own state and about what they have pushed. *)
ThreadsInv == DraftsNameTheirRun /\ RunsApart /\ EarlyEndsAreQuiet

ResultsInv == RunIdsBounded /\ OnlyQuietEndsAreOvertaken /\ ResultsNameTheirRun

(* What the second says of a sequence of results, the id the global holds  *)
(* and the next id.                                                        *)
RunsUpTo(s, n, next) ==
    \A i \in DOMAIN s : s[i].run <= n /\ s[i].owner < next

QuietEnd(s, m) ==
    /\ m.kind = "finished" /\ m.cancelled
    /\ \A k \in DOMAIN s : s[k].owner = m.owner => s[k].kind = "idle"

InOrder(s) ==
    \A i, j \in DOMAIN s :
        i < j /\ s[j].run < s[i].run =>
            /\ s[j].kind = "finished" /\ s[j].cancelled
            /\ \A k \in DOMAIN s :
                   k < j /\ s[k].owner = s[j].owner => s[k].kind = "idle"

Named(s) ==
    \A i \in DOMAIN s :
        s[i].kind \in {"symbols", "diagnostics"} => s[i].run = s[i].owner

ResultsGood(s, n, next) == RunsUpTo(s, n, next) /\ InOrder(s) /\ Named(s)

LEMMA ResultsInvIs ==
    ResultsInv <=> /\ jobRunId < nextRunId
                   /\ ResultsGood(results, jobRunId, nextRunId)
BY DEF ResultsInv, RunIdsBounded, OnlyQuietEndsAreOvertaken,
       ResultsNameTheirRun, ResultsGood, RunsUpTo, InOrder, Named

LEMMA ResultsInvNext ==
    ResultsInv' <=> /\ jobRunId' < nextRunId'
                    /\ ResultsGood(results', jobRunId', nextRunId')
BY DEF ResultsInv, RunIdsBounded, OnlyQuietEndsAreOvertaken,
       ResultsNameTheirRun, ResultsGood, RunsUpTo, InOrder, Named

LEMMA PipelineInvIs ==
    PipelineInv <=>
        /\ ScannerHoldsFlags /\ OneScanner /\ RefreshFlagNamesActiveRun
        /\ SaveNotBlocked /\ CancelNamesActiveRun /\ CancelHitsItsRun
        /\ ForcedFlagWaits /\ ForcedRunIsFull /\ ThreadsInv /\ ResultsInv
BY DEF PipelineInv, ThreadsInv, ResultsInv

(* A request touches the slots and may raise the cancel flag; of the       *)
(* invariant only the two conjuncts it is asked to show again can suffer.  *)
LEMMA RequestFrame ==
    ASSUME PipelineInv, NEW c \in BOOLEAN, CancelIf(c),
           UNCHANGED <<activeVars, refreshRunning>>,
           SaveNotBlocked', ~slots'["live"].force
    PROVE  PipelineInv'
<1> USE DEF PipelineInv, CancelIf, activeVars, jobGlobals
<1>1. ScannerHoldsFlags' /\ OneScanner' /\ RefreshFlagNamesActiveRun'
  BY DEF ScannerHoldsFlags, OneScanner, RefreshFlagNamesActiveRun
<1>2. CancelNamesActiveRun' /\ CancelHitsItsRun'
  BY DEF CancelNamesActiveRun, CancelHitsItsRun
<1>3. ForcedFlagWaits' /\ ForcedRunIsFull'
  BY DEF ForcedFlagWaits, ForcedRunIsFull
<1>4. RunIdsBounded' /\ OnlyQuietEndsAreOvertaken' /\ ResultsNameTheirRun'
  BY DEF RunIdsBounded, OnlyQuietEndsAreOvertaken, ResultsNameTheirRun
<1>5. DraftsNameTheirRun' /\ RunsApart' /\ EarlyEndsAreQuiet'
  BY DEF DraftsNameTheirRun, RunsApart, EarlyEndsAreQuiet
<1>6. QED
  BY <1>1, <1>2, <1>3, <1>4, <1>5

LEMMA RequestInv ==
    ASSUME TypeOK, PipelineInv, NEW r \in KeyRequests, Request(r)
    PROVE  PipelineInv'
<1> DEFINE lane == LaneOf(r.key, r.reasons)
<1>1. lane \in Keys \ {"diagnostics", "live"}
  BY KeyRequestType DEF Keys
<1>2. /\ slots'["diagnostics"] = slots["diagnostics"]
      /\ slots'["live"] = slots["live"]
      /\ UNCHANGED <<activeVars, refreshRunning>>
  BY <1>1 DEF Request, RequestKey, Enqueue, TypeOK, SchedulerTypeOK, Keys
<1>3. PICK c \in BOOLEAN : c = KeyRequestCancels(r.key, r.reasons)
  BY DEF KeyRequestCancels, ActiveIs, TypeOK, SchedulerTypeOK
<1>4. CancelIf(c)
  BY <1>3 DEF Request
<1>5. cancelRequested => cancelRequested'
  BY <1>4 DEF CancelIf
<1>6. SaveNotBlocked'
  BY <1>2, <1>5 DEF PipelineInv, SaveNotBlocked, SavePending, activeVars
<1>7. QED
  BY <1>2, <1>4, <1>6, RequestFrame DEF PipelineInv, ForcedFlagWaits

LEMMA SaveInv ==
    ASSUME TypeOK, PipelineInv, NEW f \in Files, Save(f)
    PROVE  PipelineInv'
<1>1. /\ slots'["live"] = slots["live"]
      /\ UNCHANGED <<activeVars, refreshRunning>>
  BY DEF Save, RequestFile, Enqueue, TypeOK, SchedulerTypeOK, Keys
<1>2. PICK c \in BOOLEAN : c = FileRequestCancels({"save"})
  BY DEF FileRequestCancels, TypeOK, SchedulerTypeOK
<1>3. CancelIf(c)
  BY <1>2 DEF Save
<1>4. SaveNotBlocked'
  <2> SUFFICES ASSUME refreshRunning', activeJobKey' \in YieldingKeys
               PROVE  cancelRequested'
    BY DEF SaveNotBlocked
  <2>1. running /\ activeJobKey \in YieldingKeys
    BY <1>1 DEF PipelineInv, RefreshFlagNamesActiveRun, activeVars
  <2>2. QED
    BY <1>2, <1>3, <2>1 DEF CancelIf, FileRequestCancels
<1>5. QED
  BY <1>1, <1>3, <1>4, RequestFrame DEF PipelineInv, ForcedFlagWaits

LEMMA LiveBufferInv ==
    ASSUME TypeOK, PipelineInv, NEW f \in Files, NEW rev \in 1..MaxRevision,
           LiveBuffer(f, rev)
    PROVE  PipelineInv'
<1>1. /\ slots'["diagnostics"] = slots["diagnostics"]
      /\ slots'["live"].force = slots["live"].force
      /\ UNCHANGED <<activeVars, refreshRunning>>
  BY DEF LiveBuffer, RequestLiveBuffer, Enqueue, TypeOK, SchedulerTypeOK, Keys,
         Slot
<1>2. CancelIf(FALSE)
  BY DEF LiveBuffer
<1>3. SaveNotBlocked'
  BY <1>1, <1>2 DEF PipelineInv, SaveNotBlocked, SavePending, activeVars, CancelIf
<1>4. QED
  BY <1>1, <1>2, <1>3, RequestFrame DEF PipelineInv, ForcedFlagWaits

LEMMA ResultRuns ==
    ASSUME NEW s \in Seq(Result)
    PROVE  \A i \in DOMAIN s : s[i].run \in Nat /\ s[i].owner \in Nat
<1>1. \A i \in DOMAIN s : s[i] \in Result
  OBVIOUS
<1>2. QED
  BY <1>1 DEF Result

(* Appending a message that is not behind its time, or is the end of a run *)
(* that said nothing.                                                      *)
LEMMA AppendGood ==
    ASSUME NEW s \in Seq(Result), NEW m \in Result, NEW n \in Nat,
           NEW next \in Nat, ResultsGood(s, n, next),
           m.run <= n, m.owner < next,
           m.run = n \/ QuietEnd(s, m),
           m.kind \in {"symbols", "diagnostics"} => m.run = m.owner
    PROVE  /\ Append(s, m) \in Seq(Result)
           /\ ResultsGood(Append(s, m), n, next)
<1> DEFINE t == Append(s, m)
           last == Len(s) + 1
<1>1. /\ t \in Seq(Result)
      /\ DOMAIN t = 1..last /\ DOMAIN s = 1..Len(s) /\ Len(s) \in Nat
      /\ t[last] = m
      /\ \A i \in DOMAIN s : t[i] = s[i]
  OBVIOUS
<1>2. m.run \in Nat /\ \A i \in DOMAIN s : s[i].run \in Nat
  BY ResultRuns DEF Result
<1> HIDE DEF t
<1>3. \A i \in DOMAIN t : i \in DOMAIN s \/ i = last
  BY <1>1
<1>4. \A i \in DOMAIN t, j \in DOMAIN s : i < j => i \in DOMAIN s
  BY <1>1
<1>5. RunsUpTo(t, n, next)
  BY <1>1, <1>3 DEF ResultsGood, RunsUpTo
<1>6. Named(t)
  BY <1>1, <1>3 DEF ResultsGood, Named
<1>7. InOrder(t)
  <2> SUFFICES ASSUME NEW i \in DOMAIN t, NEW j \in DOMAIN t,
                      i < j, t[j].run < t[i].run
               PROVE  /\ t[j].kind = "finished" /\ t[j].cancelled
                      /\ \A k \in DOMAIN t :
                             k < j /\ t[k].owner = t[j].owner
                                 => t[k].kind = "idle"
    BY DEF InOrder
  <2>1. CASE j \in DOMAIN s
    <3>1. i \in DOMAIN s /\ t[i] = s[i] /\ t[j] = s[j]
      BY <1>1, <1>4, <2>1
    <3>2. \A k \in DOMAIN t : k < j => k \in DOMAIN s /\ t[k] = s[k]
      BY <1>1, <1>4, <2>1
    <3>3. QED
      BY <2>1, <3>1, <3>2 DEF ResultsGood, InOrder
  <2>2. CASE j = last
    <3>1. i \in DOMAIN s /\ t[i] = s[i] /\ t[j] = m
      BY <1>1, <1>3, <2>2
    <3>2. s[i].run <= n /\ m.run < s[i].run
      BY <3>1 DEF ResultsGood, RunsUpTo
    <3>3. QuietEnd(s, m)
      BY <1>2, <3>1, <3>2
    <3>4. \A k \in DOMAIN t : k < j => k \in DOMAIN s /\ t[k] = s[k]
      BY <1>1, <1>3, <2>2
    <3>5. QED
      BY <3>1, <3>3, <3>4 DEF QuietEnd
  <2>3. QED
    BY <1>3, <2>1, <2>2
<1>8. QED
  BY <1>1, <1>5, <1>6, <1>7 DEF ResultsGood, t

(* Results stand when the ids move on.                                     *)
LEMMA LaterGood ==
    ASSUME NEW s \in Seq(Result), NEW n \in Nat, NEW next \in Nat, n < next,
           ResultsGood(s, n, next)
    PROVE  ResultsGood(s, next, next + 1)
<1>1. \A i \in DOMAIN s : s[i].run \in Nat /\ s[i].owner \in Nat
  BY ResultRuns
<1>2. RunsUpTo(s, next, next + 1)
  BY <1>1 DEF ResultsGood, RunsUpTo
<1>3. QED
  BY <1>2 DEF ResultsGood

(* A thread keeps its run for as long as it is there, takes its stamp from *)
(* its own run while it scans, and once it leaves early says nothing but   *)
(* that it is idle.                                                        *)
LEMMA ThreadMoves ==
    ASSUME TypeOK, PipelineInv, NEW w \in Workers,
           worker[w].pc # "idle", worker'[w].pc # "gather",
           \A v \in Workers \ {w} : worker'[v] = worker[v],
           UNCHANGED <<jobRunId, nextRunId>>,
           worker'[w].pc # "idle" => worker'[w].run = worker[w].run,
           worker'[w].stamped =>
               /\ worker'[w].stamp <= jobRunId
               /\ worker'[w].pc \in Scanning => worker'[w].stamp = worker'[w].run,
           worker'[w].pc = "lateFinish" => worker'[w].early,
           worker'[w].early =>
               /\ worker[w].early \/ worker[w].pc = "gather"
               /\ worker'[w].cancelled
               /\ worker'[w].pc \in
                      {"status", "refreshOff", "threadOff"} \cup Ending,
           \/ results' = results
           \/ \E m \in Result :
                  /\ results' = Append(results, m)
                  /\ m.owner = worker[w].run
                  /\ worker'[w].early => m.kind = "idle"
    PROVE  ThreadsInv'
<1> USE DEF PipelineInv
<1>1. DraftsNameTheirRun'
  BY DEF DraftsNameTheirRun
<1>2. RunsApart'
  BY DEF RunsApart
<1>3. \A i \in DOMAIN results' :
          \/ i \in DOMAIN results /\ results'[i] = results[i]
          \/ /\ results'[i].owner = worker[w].run
             /\ worker'[w].early => results'[i].kind = "idle"
  <2>1. CASE results' = results
    BY <2>1
  <2>2. CASE results' # results
    <3>1. PICK m \in Result : /\ results' = Append(results, m)
                              /\ m.owner = worker[w].run
                              /\ worker'[w].early => m.kind = "idle"
      BY <2>2
    <3>2. /\ results \in Seq(Result)
          /\ \A i \in DOMAIN results' : i \in DOMAIN results \/ i = Len(results) + 1
          /\ \A i \in DOMAIN results : results'[i] = results[i]
          /\ results'[Len(results) + 1] = m
      BY <3>1 DEF TypeOK, JobTypeOK
    <3>3. QED
      BY <3>1, <3>2
  <2>3. QED
    BY <2>1, <2>2
<1>4. worker'[w].early => worker'[w].run = worker[w].run
  BY DEF Ending
<1>5. \A i \in DOMAIN results : worker'[w].early =>
          (results[i].owner = worker[w].run => results[i].kind = "idle")
  BY DEF EarlyEndsAreQuiet
<1>6. \A i \in DOMAIN results' : worker'[w].early =>
          (results'[i].owner = worker'[w].run => results'[i].kind = "idle")
  BY <1>3, <1>4, <1>5
<1>7. ASSUME NEW v \in Workers \ {w},
             worker[v].early \/ worker[v].pc = "gather",
             NEW i \in DOMAIN results', results'[i].owner = worker[v].run
      PROVE  results'[i].kind = "idle"
  <2>1. worker[v].pc # "idle"
    BY <1>7 DEF EarlyEndsAreQuiet, Ending
  <2>2. worker[v].run # worker[w].run
    BY <2>1 DEF RunsApart
  <2>3. i \in DOMAIN results /\ results'[i] = results[i]
    BY <1>3, <1>7, <2>2
  <2>4. QED
    BY <1>7, <2>3 DEF EarlyEndsAreQuiet
<1>8. EarlyEndsAreQuiet'
  <2> SUFFICES ASSUME NEW v \in Workers
               PROVE  /\ worker'[v].pc = "lateFinish" => worker'[v].early
                      /\ worker'[v].early =>
                             /\ worker'[v].pc \in
                                   {"status", "refreshOff", "threadOff"} \cup Ending
                             /\ worker'[v].cancelled
                      /\ worker'[v].early \/ worker'[v].pc = "gather" =>
                             \A i \in DOMAIN results' :
                                 results'[i].owner = worker'[v].run
                                     => results'[i].kind = "idle"
    BY DEF EarlyEndsAreQuiet
  <2>1. CASE v = w
    BY <1>6, <2>1
  <2>2. CASE v # w
    BY <1>7, <2>2 DEF EarlyEndsAreQuiet
  <2>3. QED
    BY <2>1, <2>2
<1>9. QED
  BY <1>1, <1>2, <1>8 DEF ThreadsInv

(* Only a lane without a live refresh takes a slot, and what it takes is   *)
(* the save if there is one.                                               *)
LEMMA TakeFacts ==
    ASSUME TypeOK, PipelineInv, NEW k \in Keys, Take(k)
    PROVE  /\ ~refreshRunning
           /\ ~slots'["live"].force
           /\ k \in YieldingKeys => ~SavePending'
           /\ k = "live" => ~slots[k].force
<1>1. ~refreshRunning
  BY DEF Take, ActiveEnded, PipelineInv, RefreshFlagNamesActiveRun
<1>2. \A j \in Keys : slots'[j] = IF j = k THEN EmptySlot ELSE slots[j]
  BY DEF Take, TypeOK, SchedulerTypeOK
<1>3. ~slots["live"].force /\ "live" \in Keys /\ "diagnostics" \in Keys
  BY DEF PipelineInv, ForcedFlagWaits, Keys
<1>4. ~slots'["live"].force
  BY <1>2, <1>3 DEF EmptySlot
<1>5. k \in YieldingKeys => ~SavePending'
  BY <1>2, <1>3 DEF Take, Selected, SavePending, YieldingKeys
<1>6. QED
  BY <1>1, <1>3, <1>4, <1>5

LEMMA TickInv ==
    ASSUME ~HandleReread, TypeOK, PipelineInv, Tick
    PROVE  PipelineInv'
<1> USE DEF PipelineInv
<1>1. CASE TickRetires
  <2>1. /\ ~refreshRunning
        /\ UNCHANGED <<queueVars, nextRunId, refreshRunning, jobVars, history>>
    BY <1>1 DEF TickRetires, Retire, ActiveEnded
  <2> USE <2>1 DEF queueVars, jobVars, jobGlobals, history
  <2>2. ScannerHoldsFlags' /\ OneScanner' /\ RefreshFlagNamesActiveRun'
    BY DEF ScannerHoldsFlags, OneScanner, RefreshFlagNamesActiveRun
  <2>3. SaveNotBlocked' /\ CancelNamesActiveRun' /\ CancelHitsItsRun'
    BY DEF SaveNotBlocked, CancelNamesActiveRun, CancelHitsItsRun
  <2>4. ForcedFlagWaits' /\ ForcedRunIsFull'
    BY DEF ForcedFlagWaits, ForcedRunIsFull
  <2>5. RunIdsBounded' /\ OnlyQuietEndsAreOvertaken' /\ ResultsNameTheirRun'
    BY DEF RunIdsBounded, OnlyQuietEndsAreOvertaken, ResultsNameTheirRun
  <2>6. DraftsNameTheirRun' /\ RunsApart' /\ EarlyEndsAreQuiet'
    BY DEF DraftsNameTheirRun, RunsApart, EarlyEndsAreQuiet
  <2>7. QED
    BY <2>2, <2>3, <2>4, <2>5, <2>6
<1>2. ASSUME NEW k \in Keys, NEW w \in Workers, TickStarts(k, w)
      PROVE  PipelineInv'
  <2>1. Take(k) /\ ~threadRunning
    BY <1>2 DEF TickStarts, StartRun, PrepareRun
  <2>2. \A v \in Workers : worker[v].pc \notin Scanning
    BY <2>1 DEF ScannerHoldsFlags
  <2>3. /\ \A v \in Workers \ {w} : worker'[v] = worker[v]
        /\ worker'[w].pc = "gather" /\ worker'[w].run = nextRunId
        /\ worker'[w].forced = slots[k].force /\ ~worker'[w].early
        /\ ~worker'[w].cancelled /\ ~worker'[w].stamped
    <3>1. worker' = [worker EXCEPT
                        ![w] = Launched(nextRunId, RunRequest(k), slots[k].force)]
      BY <1>2 DEF TickStarts, StartRun
    <3>2. worker \in [Workers -> Thread]
      BY DEF TypeOK, JobTypeOK
    <3>3. QED
      BY <3>1, <3>2, LaunchedThread
  <2>4. /\ refreshRunning' /\ threadRunning' /\ running'
        /\ jobRunId' = nextRunId /\ activeRunId' = nextRunId
        /\ activeJobKey' = k /\ nextRunId' = nextRunId + 1
        /\ ~cancelRequested' /\ cancelAsked' = cancelAsked
        /\ results' = results /\ mode' = RunMode(k)
        /\ forceNext' = (forceNext \/ slots[k].force)
    BY <1>2 DEF TickStarts, StartRun, PrepareRun, Take
  <2>5. ScannerHoldsFlags' /\ OneScanner' /\ RefreshFlagNamesActiveRun'
    BY <2>2, <2>3, <2>4
       DEF ScannerHoldsFlags, OneScanner, RefreshFlagNamesActiveRun, Scanning
  <2>6. SaveNotBlocked'
    BY <2>1, <2>4, TakeFacts DEF SaveNotBlocked
  <2>7. CancelNamesActiveRun' /\ CancelHitsItsRun'
    BY <2>3, <2>4 DEF CancelNamesActiveRun, CancelHitsItsRun
  <2>8. ForcedFlagWaits'
    <3>1. ~slots'["live"].force
      BY <2>1, TakeFacts
    <3>2. worker'[w].forced => mode' = "workspace" /\ forceNext'
      <4>1. worker'[w].forced = slots[k].force
        BY <2>3
      <4>2. slots[k].force => mode' = "workspace"
        BY <2>1, <2>4, TakeFacts DEF RunMode
      <4>3. slots[k].force => forceNext'
        BY <2>4
      <4>4. QED
        BY <4>1, <4>2, <4>3
    <3>3. \A v \in Workers \ {w} : worker'[v].pc \notin Scanning
      BY <2>2, <2>3
    <3>4. QED
      BY <3>1, <3>2, <3>3 DEF ForcedFlagWaits, Scanning
  <2>9. ForcedRunIsFull'
    BY <2>2, <2>3 DEF ForcedRunIsFull
  <2>10. ResultsInv'
    <3>1. /\ results \in Seq(Result) /\ nextRunId \in Nat /\ jobRunId \in Nat
          /\ jobRunId < nextRunId /\ ResultsGood(results, jobRunId, nextRunId)
      BY ResultsInvIs DEF ResultsInv, TypeOK, SchedulerTypeOK, JobTypeOK
    <3>2. ResultsGood(results, nextRunId, nextRunId + 1)
      BY <3>1, LaterGood
    <3>3. QED
      BY <2>4, <3>1, <3>2, ResultsInvNext
  <2>11. /\ \A v \in Workers : worker[v].pc # "idle" => worker[v].run < nextRunId
         /\ \A v \in Workers : worker[v].run \in Nat
    BY DEF RunsApart, TypeOK, JobTypeOK, Thread
  <2>12. DraftsNameTheirRun'
    <3>1. \A v \in Workers : worker[v].stamped => worker[v].stamp <= nextRunId
      BY DEF DraftsNameTheirRun, RunIdsBounded, TypeOK, SchedulerTypeOK,
             JobTypeOK, Thread
    <3>2. QED
      BY <2>2, <2>3, <2>4, <3>1 DEF DraftsNameTheirRun
  <2>13. RunsApart'
    BY <2>3, <2>4, <2>11 DEF RunsApart, TypeOK, SchedulerTypeOK
  <2>14. EarlyEndsAreQuiet'
    <3>1. \A i \in DOMAIN results : results[i].owner # nextRunId
      BY ResultRuns DEF RunIdsBounded, TypeOK, SchedulerTypeOK, JobTypeOK
    <3>2. QED
      BY <2>3, <2>4, <3>1 DEF EarlyEndsAreQuiet
  <2>15. QED
    BY <2>5, <2>6, <2>7, <2>8, <2>9, <2>10, <2>12, <2>13, <2>14 DEF ResultsInv
<1>3. ASSUME NEW k \in Keys, TickFails(k)
      PROVE  PipelineInv'
  <2>1. Take(k) /\ ~threadRunning
    BY <1>3 DEF TickFails, StartFails, ReportFailure, PrepareRun
  <2>2. \A v \in Workers : worker[v].pc \notin Scanning
    BY <2>1 DEF ScannerHoldsFlags
  <2>3. /\ ~refreshRunning' /\ worker' = worker
        /\ jobRunId' = nextRunId /\ nextRunId' = nextRunId + 1
        /\ cancelAsked' = cancelAsked
    BY <1>3 DEF TickFails, StartFails, ReportFailure, PrepareRun, Take
  <2>4. ScannerHoldsFlags' /\ OneScanner' /\ RefreshFlagNamesActiveRun'
    BY <2>2, <2>3
       DEF ScannerHoldsFlags, OneScanner, RefreshFlagNamesActiveRun
  <2>5. SaveNotBlocked' /\ CancelNamesActiveRun' /\ CancelHitsItsRun'
    BY <2>3 DEF SaveNotBlocked, CancelNamesActiveRun, CancelHitsItsRun
  <2>6. ForcedFlagWaits' /\ ForcedRunIsFull'
    BY <2>1, <2>2, <2>3, TakeFacts DEF ForcedFlagWaits, ForcedRunIsFull, Scanning
  <2> DEFINE report(kind) ==
           Message(kind, nextRunId, 0, FALSE, nextRunId, RunRequest(k))
             mid == Append(results, report("error"))
  <2>7. /\ report("error") \in Result /\ report("idle") \in Result
        /\ report("error").run = nextRunId /\ report("idle").run = nextRunId
        /\ report("error").owner = nextRunId /\ report("idle").owner = nextRunId
        /\ report("error").kind = "error" /\ report("idle").kind = "idle"
    BY RunArguments DEF Message, Result, Kinds
  <2>8. results' = Append(mid, report("idle"))
    BY <1>3 DEF TickFails, StartFails, ReportFailure
  <2>9. /\ results \in Seq(Result) /\ nextRunId \in Nat /\ jobRunId \in Nat
        /\ \A i \in DOMAIN results : results[i].owner \in Nat
    BY ResultRuns DEF TypeOK, JobTypeOK, SchedulerTypeOK
  <2> HIDE DEF report
  <2>10. ResultsInv'
    <3>1. ResultsGood(results, nextRunId, nextRunId + 1)
      BY <2>9, LaterGood, ResultsInvIs DEF ResultsInv
    <3>2. mid \in Seq(Result) /\ ResultsGood(mid, nextRunId, nextRunId + 1)
      BY <2>7, <2>9, <3>1, AppendGood
    <3> HIDE DEF mid
    <3>3. ResultsGood(results', nextRunId, nextRunId + 1)
      BY <2>7, <2>8, <2>9, <3>2, AppendGood
    <3>4. QED
      BY <2>3, <2>9, <3>3, ResultsInvNext
  <2>11. \A v \in Workers : worker[v].pc # "idle" =>
             worker[v].run \in Nat /\ worker[v].run < nextRunId
    BY DEF RunsApart, TypeOK, JobTypeOK, Thread
  <2>12. DraftsNameTheirRun'
    <3>1. \A v \in Workers : worker[v].stamped => worker[v].stamp <= nextRunId
      BY DEF DraftsNameTheirRun, RunIdsBounded, TypeOK, SchedulerTypeOK,
             JobTypeOK, Thread
    <3>2. QED
      BY <2>2, <2>3, <3>1 DEF DraftsNameTheirRun
  <2>13. RunsApart'
    BY <2>3, <2>9, <2>11 DEF RunsApart
  <2>14. EarlyEndsAreQuiet'
    <3>1. \A i \in DOMAIN results' :
              \/ i \in DOMAIN results /\ results'[i] = results[i]
              \/ results'[i].owner = nextRunId
      BY <2>7, <2>8, <2>9
    <3>2. \A v \in Workers : worker[v].early \/ worker[v].pc = "gather"
                                  => worker[v].run < nextRunId
                                     /\ worker[v].run \in Nat
      BY <2>11 DEF EarlyEndsAreQuiet, Ending
    <3>3. \A v \in Workers : worker[v].early \/ worker[v].pc = "gather" =>
              \A i \in DOMAIN results' :
                  results'[i].owner = worker[v].run
                      => i \in DOMAIN results /\ results'[i] = results[i]
      BY <2>9, <3>1, <3>2
    <3>4. QED
      BY <2>3, <3>3 DEF EarlyEndsAreQuiet
  <2>15. QED
    BY <2>4, <2>5, <2>6, <2>10, <2>12, <2>13, <2>14 DEF ResultsInv
<1>4. ASSUME NEW k \in Keys, TickRefused(k)
      PROVE  PipelineInv'
  <2>1. /\ Take(k) /\ threadRunning' = threadRunning
        /\ UNCHANGED <<jobGlobals, cancelRequested, refreshRunning, worker,
                       results, history>>
        /\ forceNext' = (forceNext \/ slots[k].force)
    BY <1>4 DEF TickRefused, StartRefused
  <2>2. ~refreshRunning /\ nextRunId' = nextRunId + 1
    BY <2>1, TakeFacts DEF Take
  <2> USE <2>1, <2>2 DEF jobGlobals, history
  <2>3. ScannerHoldsFlags' /\ OneScanner' /\ RefreshFlagNamesActiveRun'
    BY DEF ScannerHoldsFlags, OneScanner, RefreshFlagNamesActiveRun
  <2>4. SaveNotBlocked' /\ CancelNamesActiveRun' /\ CancelHitsItsRun'
    BY DEF SaveNotBlocked, CancelNamesActiveRun, CancelHitsItsRun
  <2>5. ForcedFlagWaits' /\ ForcedRunIsFull'
    BY TakeFacts DEF ForcedFlagWaits, ForcedRunIsFull
  <2>6. OnlyQuietEndsAreOvertaken' /\ ResultsNameTheirRun' /\ EarlyEndsAreQuiet'
        /\ DraftsNameTheirRun'
    BY DEF OnlyQuietEndsAreOvertaken, ResultsNameTheirRun, EarlyEndsAreQuiet,
           DraftsNameTheirRun
  <2>7. RunIdsBounded' /\ RunsApart'
    BY ResultRuns DEF RunIdsBounded, RunsApart, TypeOK, SchedulerTypeOK,
                      JobTypeOK, Thread
  <2>8. QED
    BY <2>3, <2>4, <2>5, <2>6, <2>7
<1>5. \A k \in Keys, v, w \in Workers : ~TickMistaken(k, v, w)
  BY DEF TickMistaken, StartMistaken
<1>6. QED
  BY <1>1, <1>2, <1>3, <1>4, <1>5 DEF Tick

(* A message that is not behind its time, or the end of a quiet run.       *)
LEMMA PushInv ==
    ASSUME TypeOK, PipelineInv, NEW w \in Workers, NEW kind \in Kinds,
           NEW cancelled \in BOOLEAN, Push(w, kind, cancelled),
           worker[w].pc # "idle",
           \/ worker[w].pc \in Scanning \ {"threadOff"}
           \/ /\ worker[w].early /\ kind = "finished" /\ cancelled
              /\ worker[w].pc = "lateFinish",
           UNCHANGED <<jobRunId, nextRunId>>
    PROVE  /\ ResultsInv'
           /\ \E m \in Result : /\ results' = Append(results, m)
                                /\ m.owner = worker[w].run /\ m.kind = kind
<1> DEFINE m == Message(kind, worker[w].stamp, worker[w].rev, cancelled,
                        worker[w].run, worker[w].asked)
<1>1. worker[w] \in Thread
  BY DEF TypeOK, JobTypeOK
<1>2. /\ m \in Result /\ m.run = worker[w].stamp /\ m.kind = kind
      /\ m.owner = worker[w].run /\ m.cancelled = cancelled
  BY <1>1 DEF Thread, Message, Result
<1>3. /\ results \in Seq(Result) /\ jobRunId \in Nat /\ nextRunId \in Nat
      /\ results' = Append(results, m) /\ worker[w].stamped
  BY DEF Push, TypeOK, JobTypeOK, SchedulerTypeOK
<1> HIDE DEF m
<1>4. m.run <= jobRunId /\ m.owner < nextRunId
  BY <1>2, <1>3 DEF PipelineInv, DraftsNameTheirRun, RunsApart
<1>5. worker[w].pc \in Scanning => m.run = jobRunId /\ m.run = m.owner
  BY <1>2, <1>3 DEF PipelineInv, DraftsNameTheirRun, ScannerHoldsFlags
<1>6. worker[w].early /\ kind = "finished" /\ cancelled => QuietEnd(results, m)
  BY <1>2 DEF PipelineInv, EarlyEndsAreQuiet, QuietEnd
<1>7. m.kind \in {"symbols", "diagnostics"} => m.run = m.owner
  BY <1>2, <1>5
<1>8. ResultsGood(results, jobRunId, nextRunId) /\ jobRunId < nextRunId
  BY ResultsInvIs, PipelineInvIs
<1>9. ResultsGood(Append(results, m), jobRunId, nextRunId)
  BY <1>2, <1>3, <1>4, <1>5, <1>6, <1>7, <1>8, AppendGood
<1>10. ResultsInv'
  BY <1>3, <1>8, <1>9, ResultsInvNext
<1>11. QED
  BY <1>2, <1>3, <1>10

(* A thread that moves within its scanning part, keeping what it was       *)
(* launched for, disturbs none of the flags.                               *)
LEMMA ScanMove ==
    ASSUME TypeOK, PipelineInv, NEW w \in Workers,
           worker[w].pc \in Scanning \ {"threadOff"},
           worker'[w].pc \in Scanning \ {"gather", "threadOff"},
           \A v \in Workers \ {w} : worker'[v] = worker[v],
           worker'[w].run = worker[w].run, worker'[w].forced = worker[w].forced,
           UNCHANGED <<schedulerVars, refreshRunning, threadRunning, jobGlobals,
                       cancelRequested, history>>
    PROVE  /\ ScannerHoldsFlags' /\ OneScanner' /\ RefreshFlagNamesActiveRun'
           /\ SaveNotBlocked' /\ CancelNamesActiveRun'
<1> USE DEF PipelineInv, schedulerVars, queueVars, activeVars, jobGlobals, history
<1>1. ScannerHoldsFlags'
  BY DEF ScannerHoldsFlags
<1>2. OneScanner'
  BY DEF OneScanner
<1>3. RefreshFlagNamesActiveRun'
  BY DEF RefreshFlagNamesActiveRun
<1>4. SaveNotBlocked' /\ CancelNamesActiveRun'
  BY DEF SaveNotBlocked, SavePending, CancelNamesActiveRun
<1>5. QED
  BY <1>1, <1>2, <1>3, <1>4

(* The run a scanning thread was launched for is the active one.           *)
LEMMA ScannerIsActive ==
    ASSUME TypeOK, PipelineInv, NEW w \in Workers,
           worker[w].pc \in Scanning \ {"threadOff"}
    PROVE  /\ refreshRunning /\ worker[w].run = activeRunId
           /\ worker[w].run = jobRunId
BY DEF PipelineInv, ScannerHoldsFlags, OneScanner, RefreshFlagNamesActiveRun

(* A thread that only moves on, or puts its message together.              *)
LEMMA MoveInv ==
    ASSUME TypeOK, PipelineInv, NEW w \in Workers,
           worker[w].pc \in Scanning \ {"gather", "consume", "threadOff"},
           worker'[w].pc \in Scanning \ {"gather", "consume", "threadOff"},
           \A v \in Workers \ {w} : worker'[v] = worker[v],
           worker'[w].run = worker[w].run, worker'[w].forced = worker[w].forced,
           worker'[w].early = worker[w].early, worker'[w].full = worker[w].full,
           worker'[w].cancelled = worker[w].cancelled,
           ThreadsInv', ResultsInv',
           UNCHANGED <<schedulerVars, refreshRunning, threadRunning, forceNext,
                       jobGlobals, cancelRequested, history>>
    PROVE  PipelineInv'
<1>1. /\ ScannerHoldsFlags' /\ OneScanner' /\ RefreshFlagNamesActiveRun'
      /\ SaveNotBlocked' /\ CancelNamesActiveRun'
  BY ScanMove
<1>2. CancelHitsItsRun'
  BY DEF PipelineInv, CancelHitsItsRun, history
<1>3. ForcedFlagWaits'
  BY DEF PipelineInv, ForcedFlagWaits, schedulerVars, queueVars, jobGlobals
<1>4. ForcedRunIsFull'
  BY DEF PipelineInv, ForcedRunIsFull
<1>5. QED
  BY <1>1, <1>2, <1>3, <1>4 DEF PipelineInv, ThreadsInv, ResultsInv

(* The id, and then the revision, are taken into the message.              *)
LEMMA ComposeInv ==
    ASSUME TypeOK, PipelineInv, NEW w \in Workers, Run(w),
           worker[w].pc \in Scanning, Compose(w) \/ Attach(w)
    PROVE  PipelineInv'
<1>1. /\ \A v \in Workers \ {w} : worker'[v] = worker[v]
      /\ worker'[w].run = worker[w].run /\ worker'[w].forced = worker[w].forced
      /\ worker'[w].early = worker[w].early /\ worker'[w].full = worker[w].full
      /\ worker'[w].cancelled = worker[w].cancelled
      /\ \/ worker'[w].pc = worker[w].pc /\ worker'[w].stamp = jobRunId
         \/ /\ worker[w].pc \in {"symbols", "diagnostics"}
            /\ worker'[w].pc \in {"sendSymbols", "sendDiagnostics"}
            /\ worker'[w].stamped = worker[w].stamped
            /\ worker'[w].stamp = worker[w].stamp
      /\ worker[w].run \in Nat /\ jobRunId \in Nat
  BY DEF Compose, Attach, TypeOK, JobTypeOK, Thread
<1>2. /\ worker[w].pc \in Scanning \ {"gather", "consume", "threadOff"}
      /\ worker'[w].pc \in Scanning \ {"gather", "consume", "threadOff"}
  BY <1>1 DEF Compose, Attach, Speaking, Scanning
<1>3. UNCHANGED <<schedulerVars, refreshRunning, threadRunning, forceNext,
                  jobGlobals, cancelRequested, history, results>>
  BY DEF Run, Compose, Attach
<1>4. UNCHANGED <<jobRunId, nextRunId>>
  BY <1>3 DEF jobGlobals, schedulerVars, activeVars
<1>5. worker'[w].stamped =>
          worker'[w].stamp <= jobRunId /\ worker'[w].stamp = worker'[w].run
  <2>1. worker[w].run = jobRunId
    BY DEF PipelineInv, ScannerHoldsFlags
  <2>2. worker[w].stamped => worker[w].stamp = worker[w].run
    BY DEF PipelineInv, DraftsNameTheirRun
  <2>3. worker'[w].stamp = worker'[w].run \/ ~worker'[w].stamped
    BY <1>1, <2>1, <2>2
  <2>4. QED
    BY <1>1, <2>1, <2>3
<1>6. worker[w].pc # "idle" /\ worker'[w].pc \notin {"idle", "gather", "lateFinish"}
  BY <1>2 DEF Scanning
<1>7. worker'[w].early =>
          /\ worker'[w].cancelled
          /\ worker'[w].pc \in {"status", "refreshOff", "threadOff"} \cup Ending
  BY <1>1 DEF PipelineInv, EarlyEndsAreQuiet, Ending
<1>8. ThreadsInv'
  BY <1>1, <1>3, <1>4, <1>5, <1>6, <1>7, ThreadMoves
<1>9. ResultsInv'
  BY <1>3, <1>4, ResultsInvIs, ResultsInvNext, PipelineInvIs
<1>10. QED
  BY <1>1, <1>2, <1>3, <1>8, <1>9, MoveInv

(* A push and a move on, from one of the publishing places.                *)
LEMMA PublishInv ==
    ASSUME TypeOK, PipelineInv, NEW w \in Workers,
           worker[w].pc \in {"announce", "sendSymbols", "sendDiagnostics",
                             "status", "finish"},
           NEW kind \in Kinds, NEW cancelled \in BOOLEAN,
           Push(w, kind, cancelled),
           worker[w].early => kind = "idle",
           NEW pc \in Scanning \ {"gather", "consume", "threadOff"}, Sent(w, pc),
           worker[w].early => pc = "refreshOff",
           UNCHANGED <<schedulerVars, refreshRunning, threadRunning, forceNext,
                       jobGlobals, cancelRequested, history>>
    PROVE  PipelineInv'
<1>1. /\ \A v \in Workers \ {w} : worker'[v] = worker[v]
      /\ worker'[w].pc = pc /\ worker'[w].run = worker[w].run
      /\ worker'[w].forced = worker[w].forced /\ worker'[w].early = worker[w].early
      /\ worker'[w].full = worker[w].full
      /\ worker'[w].cancelled = worker[w].cancelled /\ ~worker'[w].stamped
  BY DEF Sent, TypeOK, JobTypeOK, Thread
<1>2. worker[w].pc \in Scanning \ {"gather", "consume", "threadOff"}
      /\ pc \notin {"idle", "gather", "lateFinish"} /\ worker[w].pc # "idle"
  BY DEF Scanning
<1>3. UNCHANGED <<jobRunId, nextRunId>>
  BY DEF jobGlobals, schedulerVars, activeVars
<1>4. ResultsInv' /\ \E m \in Result : /\ results' = Append(results, m)
                                      /\ m.owner = worker[w].run /\ m.kind = kind
  BY <1>2, <1>3, PushInv
<1>5. worker'[w].early =>
          /\ worker[w].early /\ worker'[w].cancelled
          /\ worker'[w].pc \in {"status", "refreshOff", "threadOff"} \cup Ending
  BY <1>1 DEF PipelineInv, EarlyEndsAreQuiet
<1>6. \E m \in Result : /\ results' = Append(results, m)
                        /\ m.owner = worker[w].run
                        /\ worker'[w].early => m.kind = "idle"
  BY <1>1, <1>4
<1>7. ThreadsInv'
  BY <1>1, <1>2, <1>3, <1>5, <1>6, ThreadMoves
<1>8. QED
  BY <1>1, <1>2, <1>4, <1>7, MoveInv

(* What the checks do to the thread that makes them.                       *)
LEMMA CheckThread ==
    ASSUME TypeOK, NEW w \in Workers, Gather(w) \/ Consume(w) \/ Scan(w)
    PROVE  /\ \A v \in Workers \ {w} : worker'[v] = worker[v]
           /\ worker'[w].run = worker[w].run
           /\ worker'[w].forced = worker[w].forced
           /\ worker'[w].stamped = worker[w].stamped
           /\ worker'[w].stamp = worker[w].stamp
           /\ Gather(w) =>
                 /\ worker[w].pc = "gather"
                 /\ worker'[w].pc \in {"status", "consume"}
                 /\ worker'[w].pc = "consume" <=> ~worker'[w].early
                 /\ worker'[w].early => worker'[w].cancelled
                 /\ worker'[w].cancelled => cancelRequested
                 /\ worker'[w].full = worker[w].full
           /\ Consume(w) =>
                 /\ worker[w].pc = "consume"
                 /\ worker'[w].pc \in {"announce", "scan"}
                 /\ worker'[w].early = worker[w].early
                 /\ worker'[w].cancelled = worker[w].cancelled
                 /\ forceNext /\ mode = "workspace" => worker'[w].full
           /\ Scan(w) =>
                 /\ worker[w].pc = "scan"
                 /\ worker'[w].pc \in {"status", "symbols"}
                 /\ worker'[w].early = worker[w].early
                 /\ worker'[w].cancelled => cancelRequested
                 /\ worker'[w].full = worker[w].full
<1>1. worker \in [Workers -> Thread] /\ worker[w] \in Thread /\ cancelRequested \in BOOLEAN
  BY DEF TypeOK, JobTypeOK
<1>2. CASE Gather(w)
  <2>1. worker' = [worker EXCEPT ![w] = [worker[w] EXCEPT
            !.pc = IF cancelRequested THEN "status" ELSE "consume",
            !.early = cancelRequested, !.cancelled = cancelRequested]]
    BY <1>1, <1>2 DEF Gather, Thread
  <2>2. QED
    BY <1>1, <1>2, <2>1 DEF Gather, Consume, Scan, Thread
<1>3. CASE Consume(w)
  <2>1. PICK next \in {"announce", "scan"} :
            worker' = [worker EXCEPT ![w] = [worker[w] EXCEPT
                          !.pc = next, !.full = forceNext /\ mode = "workspace"]]
    BY <1>1, <1>3 DEF Consume, Thread
  <2>2. /\ \A v \in Workers \ {w} : worker'[v] = worker[v]
        /\ worker'[w].run = worker[w].run
        /\ worker'[w].forced = worker[w].forced
        /\ worker'[w].stamped = worker[w].stamped
        /\ worker'[w].stamp = worker[w].stamp
        /\ worker'[w].pc = next /\ worker'[w].early = worker[w].early
        /\ worker'[w].cancelled = worker[w].cancelled
    BY <1>1, <2>1 DEF Thread
  <2>3. worker'[w].full = (forceNext /\ mode = "workspace")
    BY <1>1, <2>1 DEF Thread
  <2>4. forceNext /\ mode = "workspace" => worker'[w].full
    BY <2>3
  <2>5. worker[w].pc = "consume" /\ ~Gather(w) /\ ~Scan(w)
    BY <1>3 DEF Gather, Consume, Scan
  <2>6. QED
    BY <2>2, <2>4, <2>5
<1>4. CASE Scan(w)
  <2>1. worker' = [worker EXCEPT ![w] = [worker[w] EXCEPT
            !.pc = IF cancelRequested THEN "status" ELSE "symbols",
            !.cancelled = cancelRequested]]
    BY <1>1, <1>4 DEF Scan, Thread
  <2>2. QED
    BY <1>1, <1>4, <2>1 DEF Gather, Consume, Scan, Thread
<1>5. QED
  BY <1>2, <1>3, <1>4

(* The two cancel checks and the taking of the forced flag.                *)
LEMMA CheckInv ==
    ASSUME TypeOK, PipelineInv, NEW w \in Workers, Run(w),
           Gather(w) \/ Consume(w) \/ Scan(w)
    PROVE  PipelineInv'
<1>1. worker[w] \in Thread /\ \A v \in Workers \ {w} : worker'[v] = worker[v]
  BY CheckThread DEF TypeOK, JobTypeOK
<1>2. /\ worker[w].pc \in Scanning \ {"threadOff"}
      /\ worker'[w].pc \in Scanning \ {"gather", "threadOff"}
      /\ worker'[w].run = worker[w].run /\ worker'[w].forced = worker[w].forced
  BY CheckThread DEF Scanning
<1>3. UNCHANGED <<schedulerVars, refreshRunning, threadRunning, jobGlobals,
                  cancelRequested, history>>
  BY DEF Run, Gather, Consume, Scan
<1>4. /\ ScannerHoldsFlags' /\ OneScanner' /\ RefreshFlagNamesActiveRun'
      /\ SaveNotBlocked' /\ CancelNamesActiveRun'
  BY <1>1, <1>2, <1>3, ScanMove
<1>5. cancelRequested => worker[w].run \in cancelAsked
  BY <1>2, ScannerIsActive DEF PipelineInv, CancelNamesActiveRun
<1>6. worker'[w].cancelled => cancelRequested \/ worker[w].cancelled
  BY CheckThread
<1>7. CancelHitsItsRun'
  BY <1>1, <1>2, <1>3, <1>5, <1>6 DEF PipelineInv, CancelHitsItsRun, history
<1>8. \A v \in Workers \ {w} : worker[v].pc \notin Scanning
  BY <1>2 DEF PipelineInv, OneScanner
<1>9. ForcedFlagWaits'
  <2>1. slots' = slots /\ mode' = mode
    BY <1>3 DEF schedulerVars, queueVars, jobGlobals
  <2>2. worker'[w].pc \in {"gather", "consume"} =>
            /\ forceNext' = forceNext
            /\ worker[w].pc = "gather"
    BY CheckThread DEF Gather
  <2>3. \A v \in Workers \ {w} : worker'[v].pc \notin Scanning
    BY <1>1, <1>8
  <2>4. QED
    BY <1>2, <2>1, <2>2, <2>3 DEF PipelineInv, ForcedFlagWaits, Scanning
<1>10. ForcedRunIsFull'
  <2>1. \A v \in Workers \ {w} : worker'[v].pc \notin Scanning
    BY <1>1, <1>8
  <2>2. ASSUME worker'[w].forced, ~worker'[w].early,
               worker'[w].pc \in Scanning \ {"gather", "consume"}
        PROVE  worker'[w].full
    <3>1. CASE Gather(w)
      BY <2>2, <3>1, CheckThread
    <3>2. CASE Consume(w)
      <4>1. worker[w].pc = "consume" /\ worker[w].forced
        BY <1>2, <2>2, <3>2, CheckThread
      <4>2. forceNext /\ mode = "workspace"
        BY <4>1 DEF PipelineInv, ForcedFlagWaits, Scanning
      <4>3. QED
        BY <3>2, <4>2, CheckThread
    <3>3. CASE Scan(w)
      <4>1. /\ worker[w].pc = "scan" /\ worker[w].forced
            /\ worker'[w].early = worker[w].early /\ worker'[w].full = worker[w].full
        BY <1>2, <2>2, <3>3, CheckThread
      <4>2. QED
        BY <2>2, <4>1 DEF PipelineInv, ForcedRunIsFull, Scanning
    <3>4. QED
      BY <3>1, <3>2, <3>3
  <2>3. QED
    BY <2>1, <2>2 DEF ForcedRunIsFull
<1>11. UNCHANGED <<jobRunId, nextRunId, results>>
  BY <1>3 DEF jobGlobals, schedulerVars, activeVars, Gather, Consume, Scan
<1>12. ResultsInv'
  BY <1>11, ResultsInvIs, ResultsInvNext, PipelineInvIs
<1>13. ThreadsInv'
  <2>1. /\ worker[w].pc # "idle"
        /\ worker'[w].pc \in {"status", "consume", "announce", "scan", "symbols"}
    BY CheckThread
  <2>2. worker'[w].stamped =>
            worker'[w].stamp <= jobRunId /\ worker'[w].stamp = worker'[w].run
    BY <1>2, CheckThread DEF PipelineInv, DraftsNameTheirRun
  <2>3. worker'[w].early =>
            /\ worker[w].early \/ worker[w].pc = "gather"
            /\ worker'[w].cancelled
            /\ worker'[w].pc \in {"status", "refreshOff", "threadOff"} \cup Ending
    BY CheckThread DEF PipelineInv, EarlyEndsAreQuiet, Ending
  <2>4. QED
    BY <1>1, <1>2, <1>11, <2>1, <2>2, <2>3, ThreadMoves
<1>14. QED
  BY <1>4, <1>7, <1>9, <1>10, <1>12, <1>13 DEF PipelineInv, ThreadsInv, ResultsInv

(* The thread's tail: each global it gives up is out of every conjunct     *)
(* that speaks about it by then.                                           *)
LEMMA EndingInv ==
    ASSUME TypeOK, PipelineInv, NEW w \in Workers, Run(w),
           \/ LowerRefresh(w) \/ LowerThread(w) \/ DropHandle(w) \/ ClearLive(w)
           \/ ReportFinishedLate(w)
           \/ Compose(w) /\ worker[w].pc \notin Scanning
    PROVE  PipelineInv'
<1> DEFINE tail == {"status", "refreshOff", "threadOff"} \cup Ending
<1>1. worker[w] \in Thread /\ \A v \in Workers \ {w} : worker'[v] = worker[v]
  BY DEF LowerRefresh, LowerThread, DropHandle, ClearLive, ReportFinishedLate,
         Compose, Goto, TypeOK, JobTypeOK
<1>2. UNCHANGED <<schedulerVars, forceNext, jobRunId, cancelRequested, history>>
  BY DEF Run, LowerRefresh, LowerThread, DropHandle, ClearLive,
         ReportFinishedLate, Compose, jobGlobals
<1>3. /\ worker'[w].cancelled => worker[w].cancelled /\ worker'[w].run = worker[w].run
      /\ worker'[w].pc \in Scanning => /\ LowerRefresh(w)
                                       /\ worker'[w].pc = "threadOff"
      /\ worker'[w].run = worker[w].run \/ worker'[w].pc \notin Scanning
      /\ worker'[w].pc \in Scanning =>
             /\ worker[w].pc = "refreshOff"
             /\ worker'[w].forced = worker[w].forced
             /\ worker'[w].early = worker[w].early
             /\ worker'[w].full = worker[w].full
      /\ worker[w].pc # "idle"
      /\ worker'[w].pc \in {"threadOff", "handleOff", "clear", "lateFinish", "idle"}
      /\ worker'[w].pc # "idle" =>
             /\ worker'[w].run = worker[w].run /\ worker'[w].early = worker[w].early
             /\ worker'[w].cancelled = worker[w].cancelled
      /\ worker'[w].pc = "lateFinish" => worker[w].early \/ worker[w].pc = "lateFinish"
      /\ worker'[w].pc = "idle" => ~worker'[w].early /\ ~worker'[w].stamped
      /\ worker'[w].stamped =>
             \/ worker'[w].stamp = jobRunId /\ worker'[w].pc \notin Scanning
             \/ worker[w].stamped /\ worker'[w].stamp = worker[w].stamp
  <2>1. CASE LowerRefresh(w)
    BY <1>1, <2>1 DEF LowerRefresh, Goto, Thread, TypeOK, JobTypeOK
  <2>2. CASE LowerThread(w)
    BY <1>1, <2>2 DEF LowerThread, Goto, Thread, Scanning, TypeOK, JobTypeOK
  <2>3. CASE ClearLive(w)
    <3>1. \/ worker' = [worker EXCEPT ![w].pc = "lateFinish"] /\ worker[w].early
          \/ worker' = [worker EXCEPT ![w] = IdleThread]
      BY <2>3 DEF ClearLive, Goto
    <3>2. worker[w].pc = "clear"
      BY <2>3 DEF ClearLive
    <3>3. CASE worker' = [worker EXCEPT ![w].pc = "lateFinish"] /\ worker[w].early
      BY <1>1, <3>2, <3>3 DEF Thread, Scanning, TypeOK, JobTypeOK
    <3>4. CASE worker' = [worker EXCEPT ![w] = IdleThread]
      BY <1>1, <3>2, <3>4 DEF IdleThread, Scanning, TypeOK, JobTypeOK
    <3>5. QED
      BY <3>1, <3>3, <3>4
  <2>4. CASE ReportFinishedLate(w)
    BY <1>1, <2>4 DEF ReportFinishedLate, IdleThread, Scanning, TypeOK, JobTypeOK
  <2>5. CASE DropHandle(w)
    BY <1>1, <2>5 DEF DropHandle, Goto, Thread, Scanning, TypeOK, JobTypeOK
  <2>6. CASE Compose(w) /\ worker[w].pc \notin Scanning
    <3>1. worker[w].pc = "lateFinish"
      BY <2>6 DEF Compose, Speaking, Scanning
    <3>2. QED
      BY <1>1, <2>6, <3>1 DEF Compose, Thread, TypeOK, JobTypeOK
  <2>7. QED
    BY <2>1, <2>2, <2>3, <2>4, <2>5, <2>6
<1>4. OneScanner'
  BY <1>1, <1>3 DEF PipelineInv, OneScanner, Scanning
<1>5. CancelHitsItsRun'
  BY <1>1, <1>2, <1>3 DEF PipelineInv, CancelHitsItsRun, history
<1>6. ForcedRunIsFull'
  BY <1>1, <1>3 DEF PipelineInv, ForcedRunIsFull, Scanning
<1>7. ForcedFlagWaits'
  <2>1. mode' = mode \/ mode' = "workspace"
    BY DEF LowerRefresh, LowerThread, DropHandle, ClearLive,
           ReportFinishedLate, Compose, jobGlobals
  <2>2. slots' = slots /\ forceNext' = forceNext
    BY <1>2 DEF schedulerVars, queueVars
  <2>3. QED
    BY <1>1, <1>3, <2>1, <2>2 DEF PipelineInv, ForcedFlagWaits, Scanning
<1>8. ResultsInv' /\ ThreadsInv'
  <2>1. UNCHANGED <<jobRunId, nextRunId>>
    BY <1>2 DEF schedulerVars, activeVars
  <2>2. /\ ResultsInv'
        /\ \/ results' = results
           \/ \E m \in Result : /\ results' = Append(results, m)
                                /\ m.owner = worker[w].run
                                /\ worker'[w].early => m.kind = "idle"
    <3>1. CASE results' = results
      BY <2>1, <3>1, ResultsInvIs, ResultsInvNext, PipelineInvIs
    <3>2. CASE ReportFinishedLate(w)
      <4>1. /\ worker[w].pc = "lateFinish" /\ Push(w, "finished", TRUE)
            /\ worker' = [worker EXCEPT ![w] = IdleThread]
        BY <3>2 DEF ReportFinishedLate
      <4>2. worker[w].early
        BY <4>1 DEF PipelineInv, EarlyEndsAreQuiet
      <4>3. ~worker'[w].early
        BY <4>1 DEF IdleThread, TypeOK, JobTypeOK
      <4>4. "finished" \in Kinds
        BY DEF Kinds
      <4>5. QED
        BY <2>1, <4>1, <4>2, <4>3, <4>4, PushInv
    <3>3. QED
      BY <3>1, <3>2 DEF LowerRefresh, LowerThread, DropHandle, ClearLive, Compose
  <2>3. worker'[w].stamped =>
            /\ worker'[w].stamp <= jobRunId
            /\ worker'[w].pc \in Scanning => worker'[w].stamp = worker'[w].run
    BY <1>3 DEF PipelineInv, DraftsNameTheirRun, TypeOK, JobTypeOK, Scanning
  <2>4. worker'[w].pc = "lateFinish" => worker'[w].early
    BY <1>3 DEF PipelineInv, EarlyEndsAreQuiet
  <2>5. worker'[w].early =>
            worker[w].early /\ worker'[w].cancelled /\ worker'[w].pc \in tail
    BY <1>3 DEF PipelineInv, EarlyEndsAreQuiet, Ending
  <2>6. worker'[w].pc # "gather"
    BY <1>3
  <2>7. QED
    BY <1>1, <1>3, <2>1, <2>2, <2>3, <2>4, <2>5, <2>6, ThreadMoves
<1>9. CASE LowerRefresh(w)
  <2>1. /\ worker[w].pc = "refreshOff" /\ ~refreshRunning'
        /\ threadRunning' = threadRunning
    BY <1>9 DEF LowerRefresh
  <2>2. worker'[w].pc = "threadOff" /\ worker'[w].run = worker[w].run
    BY <1>1, <1>9 DEF LowerRefresh, Goto, Thread, TypeOK, JobTypeOK
  <2>3. \A v \in Workers \ {w} : worker'[v].pc \notin Scanning
    BY <1>1, <2>1 DEF PipelineInv, OneScanner, Scanning
  <2>4. ScannerHoldsFlags'
    BY <1>2, <2>1, <2>2, <2>3 DEF PipelineInv, ScannerHoldsFlags, Scanning
  <2>5. QED
    BY <1>4, <1>5, <1>6, <1>7, <1>8, <2>1, <2>4
       DEF PipelineInv, ThreadsInv, ResultsInv, RefreshFlagNamesActiveRun,
           SaveNotBlocked, CancelNamesActiveRun
<1>10. CASE LowerThread(w)
  <2>1. /\ worker[w].pc = "threadOff" /\ refreshRunning' = refreshRunning
    BY <1>10 DEF LowerThread
  <2>2. ~refreshRunning
    BY <2>1 DEF PipelineInv, ScannerHoldsFlags, Scanning
  <2>3. \A v \in Workers : worker'[v].pc \notin Scanning
    BY <1>1, <1>3, <2>1 DEF PipelineInv, OneScanner, Scanning
  <2>4. ScannerHoldsFlags'
    BY <2>3 DEF ScannerHoldsFlags
  <2>5. QED
    BY <1>4, <1>5, <1>6, <1>7, <1>8, <2>1, <2>2, <2>4
       DEF PipelineInv, ThreadsInv, ResultsInv, RefreshFlagNamesActiveRun,
           SaveNotBlocked, CancelNamesActiveRun
<1>11. CASE \/ DropHandle(w) \/ ClearLive(w) \/ ReportFinishedLate(w)
            \/ Compose(w) /\ worker[w].pc \notin Scanning
  <2>1. /\ worker[w].pc \notin Scanning /\ worker'[w].pc \notin Scanning
        /\ UNCHANGED <<refreshRunning, threadRunning>>
    BY <1>1, <1>3, <1>11
       DEF DropHandle, ClearLive, ReportFinishedLate, LowerRefresh, Compose,
           Scanning
  <2>2. ScannerHoldsFlags' /\ RefreshFlagNamesActiveRun'
    BY <1>1, <1>2, <2>1
       DEF PipelineInv, ScannerHoldsFlags, RefreshFlagNamesActiveRun,
           schedulerVars, activeVars
  <2>3. SaveNotBlocked' /\ CancelNamesActiveRun'
    BY <1>2, <2>1 DEF PipelineInv, SaveNotBlocked, SavePending,
       CancelNamesActiveRun, schedulerVars, activeVars, queueVars, history
  <2>4. QED
    BY <1>4, <1>5, <1>6, <1>7, <1>8, <2>2, <2>3
       DEF PipelineInv, ThreadsInv, ResultsInv
<1>12. QED
  BY <1>9, <1>10, <1>11

LEMMA WorkerInv ==
    ASSUME TypeOK, PipelineInv, NEW w \in Workers, Run(w)
    PROVE  PipelineInv'
<1>1. UNCHANGED <<schedulerVars, history>> /\ worker[w] \in Thread
  BY DEF Run, TypeOK, JobTypeOK
<1>2. worker[w].early => worker[w].pc \in {"status", "refreshOff", "threadOff"}
                                            \cup Ending /\ worker[w].cancelled
  BY DEF PipelineInv, EarlyEndsAreQuiet
<1>3. CASE Announce(w)
  BY <1>1, <1>2, <1>3, PublishInv DEF Announce, Kinds, Scanning, Ending
<1>4. CASE PublishSymbols(w)
  BY <1>1, <1>2, <1>4, PublishInv DEF PublishSymbols, Kinds, Scanning, Ending
<1>5. CASE PublishDiagnostics(w)
  BY <1>1, <1>2, <1>5, PublishInv DEF PublishDiagnostics, Kinds, Scanning, Ending
<1>6. CASE ReportStatus(w)
  <2>1. PICK kind \in Kinds : /\ kind = IF worker[w].cancelled THEN "idle" ELSE "fresh"
    BY DEF Kinds
  <2>2. PICK pc \in Scanning \ {"gather", "consume", "threadOff"} :
            pc = IF worker[w].early THEN "refreshOff" ELSE "finish"
    BY DEF Scanning
  <2>3. Push(w, kind, FALSE) /\ Sent(w, pc)
    BY <1>6, <2>1, <2>2 DEF ReportStatus
  <2>4. QED
    BY <1>1, <1>2, <1>6, <2>1, <2>2, <2>3, PublishInv DEF ReportStatus
<1>7. CASE ReportFinished(w)
  <2>1. worker[w].cancelled \in BOOLEAN /\ ~worker[w].early
    BY <1>1, <1>2, <1>7 DEF Thread, ReportFinished, Ending
  <2>2. QED
    BY <1>1, <1>7, <2>1, PublishInv DEF ReportFinished, Kinds, Scanning
<1>8. Attach(w) => worker[w].pc \in Scanning
  BY DEF Attach, Scanning
<1>9. QED
  BY <1>3, <1>4, <1>5, <1>6, <1>7, <1>8, ComposeInv, CheckInv, EndingInv
     DEF Run, WorkerStep

(* The inductive invariant holds of every reachable state.                 *)
THEOREM PipelineInvariant ==
    ASSUME ~HandleReread
    PROVE  Spec => []PipelineInv
<1>1. Init => PipelineInv
  <2> SUFFICES ASSUME Init PROVE PipelineInv
    OBVIOUS
  <2>1. /\ \A w \in Workers : worker[w] = IdleThread
        /\ ~refreshRunning /\ ~cancelRequested /\ results = <<>>
        /\ jobRunId = 0 /\ nextRunId = 1 /\ ~slots["live"].force
    BY DEF Init, SchedulerInit, JobInit, Keys, EmptySlot
  <2>2. ScannerHoldsFlags /\ OneScanner /\ ForcedFlagWaits /\ ForcedRunIsFull
        /\ CancelHitsItsRun
    BY <2>1 DEF ScannerHoldsFlags, OneScanner, ForcedFlagWaits, ForcedRunIsFull,
                CancelHitsItsRun, IdleThread, Scanning
  <2>3. RefreshFlagNamesActiveRun /\ SaveNotBlocked /\ CancelNamesActiveRun
    BY <2>1 DEF RefreshFlagNamesActiveRun, SaveNotBlocked, CancelNamesActiveRun
  <2>4. RunIdsBounded /\ OnlyQuietEndsAreOvertaken /\ ResultsNameTheirRun
    BY <2>1 DEF RunIdsBounded, OnlyQuietEndsAreOvertaken, ResultsNameTheirRun
  <2>5. DraftsNameTheirRun /\ RunsApart /\ EarlyEndsAreQuiet
    BY <2>1 DEF DraftsNameTheirRun, RunsApart, EarlyEndsAreQuiet, IdleThread
  <2>6. QED
    BY <2>2, <2>3, <2>4, <2>5 DEF PipelineInv
<1>2. TypeOK /\ PipelineInv /\ [Next]_vars => PipelineInv'
  <2> SUFFICES ASSUME TypeOK, PipelineInv, [Next]_vars PROVE PipelineInv'
    OBVIOUS
  <2>1. CASE UNCHANGED vars
    BY <2>1 DEF vars, schedulerVars, queueVars, activeVars, jobVars, jobGlobals,
       history, PipelineInv, ScannerHoldsFlags, OneScanner,
       RefreshFlagNamesActiveRun, SaveNotBlocked, SavePending,
       CancelNamesActiveRun, CancelHitsItsRun, ForcedFlagWaits, ForcedRunIsFull,
       RunIdsBounded, DraftsNameTheirRun, RunsApart, EarlyEndsAreQuiet,
       OnlyQuietEndsAreOvertaken, ResultsNameTheirRun
  <2>2. CASE Next
    BY <2>2, RequestInv, SaveInv, LiveBufferInv, TickInv, WorkerInv DEF Next
  <2>3. QED
    BY <2>1, <2>2
<1>3. QED
  BY <1>1, <1>2, TypeCorrect, PTL DEF Spec

(* No two threads are ever in the part of a run that uses the shared       *)
(* globals and stores.                                                     *)
THEOREM ScannersExclude ==
    ASSUME ~HandleReread
    PROVE  Spec => []OneScanner
<1>1. PipelineInv => OneScanner
  BY DEF PipelineInv
<1>2. QED
  BY <1>1, PipelineInvariant, PTL

(* The refresh flag always speaks for the job the scheduler calls active.  *)
THEOREM RefreshFlagCorrect ==
    ASSUME ~HandleReread
    PROVE  Spec => []RefreshFlagNamesActiveRun
<1>1. PipelineInv => RefreshFlagNamesActiveRun
  BY DEF PipelineInv
<1>2. QED
  BY <1>1, PipelineInvariant, PTL

(* Saved-file diagnostics never wait behind an uncancelled background run. *)
THEOREM SavesPreempt ==
    ASSUME ~HandleReread
    PROVE  Spec => []SaveNotBlocked
<1>1. PipelineInv => SaveNotBlocked
  BY DEF PipelineInv
<1>2. QED
  BY <1>1, PipelineInvariant, PTL

(* A cancel never reaches a run other than the one it was aimed at.        *)
THEOREM CancelsAreAimed ==
    ASSUME ~HandleReread
    PROVE  Spec => []CancelHitsItsRun
<1>1. PipelineInv => CancelHitsItsRun
  BY DEF PipelineInv
<1>2. QED
  BY <1>1, PipelineInvariant, PTL

(* A run that was to be full is full.                                      *)
THEOREM ForcedRunsAreFull ==
    ASSUME ~HandleReread
    PROVE  Spec => []ForcedRunIsFull
<1>1. PipelineInv => ForcedRunIsFull
  BY DEF PipelineInv
<1>2. QED
  BY <1>1, PipelineInvariant, PTL

(* A result that comes behind one of a newer run is the last message of a  *)
(* run cancelled before it began; whatever a run has computed or announced *)
(* is in front of everything of the runs after it ...                      *)
THEOREM OvertakenAreQuietEnds ==
    ASSUME ~HandleReread
    PROVE  Spec => []OnlyQuietEndsAreOvertaken
<1>1. PipelineInv => OnlyQuietEndsAreOvertaken
  BY DEF PipelineInv
<1>2. QED
  BY <1>1, PipelineInvariant, PTL

(* ... and symbols and diagnostics are under the id of the run that        *)
(* computed them, although they are stamped from a global the next run may *)
(* own.                                                                    *)
THEOREM ResultsAreNamed ==
    ASSUME ~HandleReread
    PROVE  Spec => []ResultsNameTheirRun
<1>1. PipelineInv => ResultsNameTheirRun
  BY DEF PipelineInv
<1>2. QED
  BY <1>1, PipelineInvariant, PTL

=============================================================================
