-------------------------- MODULE CompletedResults --------------------------
(***************************************************************************)
(* The queue that carries results from worker threads to the main loop,    *)
(* src/core/LoopResults/completed_results_queue.c.                         *)
(*                                                                         *)
(* One locked queue per subsystem, one staged head per queue owned by the  *)
(* main thread, and a sequence number drawn under another lock.  No lock   *)
(* spans a whole push or a whole pop_any: a push is three steps, pop_any   *)
(* one per subsystem and one for the choice.  Payloads and the high        *)
(* watermark, which nothing decides on, are left out; so are init and      *)
(* shutdown, before and after every producer.                              *)
(***************************************************************************)
EXTENDS Naturals, Sequences, FiniteSets

CONSTANTS
    Producers,     \* threads that push: workers, and the main thread on errors
    LaneCapacity,  \* COMPLETED_RESULTS_QUEUE_CAPACITY
    MaxResults     \* bound on the results of a behaviour

ASSUME CompletedResultsAssumption ==
    /\ LaneCapacity \in Nat \ {0}
    /\ MaxResults \in Nat

(* In the order pop_any refills them.                                      *)
Refills == <<"analysis", "symbols", "diagnostics">>
Lanes == {Refills[i] : i \in 1..3}

Result == [seq : Nat, by : Producers, lane : Lanes]
Nothing == [seq |-> 0]

VARIABLES
    queue,      \* g_analysis_queue, g_symbols_queue, g_diagnostics_queue
    staged,     \* g_head_analysis and the like, Nothing when not valid
    nextSeq,    \* g_next_seq
    pushed,     \* g_pushed
    popped,     \* g_popped
    pushing,    \* each producer's place in completed_results_queue_push
    popStep,    \* the main thread's place in pop_any: 0 outside, the refill
                \* it does next, 4 for the choice
    fronts,     \* history: the fronts this pop_any found when it began
    delivered,  \* history: what pop_any returned, in order
    refused     \* history: what a full queue refused and push released

resultsVars == <<queue, staged, nextSeq, pushed, popped, pushing, popStep, fronts,
                 delivered, refused>>

PushState == [step : {"idle", "enqueue", "count"}, node : Result \cup {Nothing}]
IdlePush == [step |-> "idle", node |-> Nothing]

(* Every variable stays in its domain; in particular no queue outgrows its *)
(* capacity, whoever pushes while the main thread refills.                 *)
ResultsTypeOK ==
    /\ queue \in [Lanes -> Seq(Result)]
    /\ \A l \in Lanes : Len(queue[l]) <= LaneCapacity
    /\ staged \in [Lanes -> Result \cup {Nothing}]
    /\ nextSeq \in Nat \ {0}
    /\ pushed \in Nat
    /\ popped \in Nat
    /\ pushing \in [Producers -> PushState]
    /\ popStep \in 0..4
    /\ fronts \in SUBSET Nat
    /\ delivered \in Seq(Result)
    /\ refused \in SUBSET Result

ResultsInit ==
    /\ queue = [l \in Lanes |-> <<>>]
    /\ staged = [l \in Lanes |-> Nothing]
    /\ nextSeq = 1
    /\ pushed = 0
    /\ popped = 0
    /\ pushing = [p \in Producers |-> IdlePush]
    /\ popStep = 0
    /\ fronts = {}
    /\ delivered = <<>>
    /\ refused = {}

-----------------------------------------------------------------------------
(* completed_results_queue_push.                                           *)

(* The number is drawn under the statistics lock ...                       *)
Number(p, l) ==
    /\ pushing[p].step = "idle"
    /\ nextSeq <= MaxResults
    /\ pushing' = [pushing EXCEPT ![p] =
           [step |-> "enqueue", node |-> [seq |-> nextSeq, by |-> p, lane |-> l]]]
    /\ nextSeq' = nextSeq + 1
    /\ UNCHANGED <<queue, staged, pushed, popped, popStep, fronts, delivered,
                   refused>>

Full(l) == Len(queue[l]) = LaneCapacity

(* ... the node enters its queue under the queue's lock ...                *)
Enqueue(p) ==
    LET node == pushing[p].node
    IN  /\ pushing[p].step = "enqueue"
        /\ ~Full(node.lane)
        /\ queue' = [queue EXCEPT ![node.lane] = Append(@, node)]
        /\ pushing' = [pushing EXCEPT ![p].step = "count"]
        /\ UNCHANGED <<staged, nextSeq, pushed, popped, popStep, fronts,
                       delivered, refused>>

(* ... or is released, payload included, if the queue is full ...          *)
Refuse(p) ==
    LET node == pushing[p].node
    IN  /\ pushing[p].step = "enqueue"
        /\ Full(node.lane)
        /\ refused' = refused \cup {node}
        /\ pushing' = [pushing EXCEPT ![p] = IdlePush]
        /\ UNCHANGED <<queue, staged, nextSeq, pushed, popped, popStep, fronts,
                       delivered>>

(* ... and the push is counted under the statistics lock again.            *)
Count(p) ==
    /\ pushing[p].step = "count"
    /\ pushed' = pushed + 1
    /\ pushing' = [pushing EXCEPT ![p] = IdlePush]
    /\ UNCHANGED <<queue, staged, nextSeq, popped, popStep, fronts, delivered,
                   refused>>

-----------------------------------------------------------------------------
(* completed_results_queue_pop_any, on the main thread.                    *)

Front(l) == IF staged[l] # Nothing THEN {staged[l].seq}
            ELSE IF queue[l] # <<>> THEN {Head(queue[l]).seq}
            ELSE {}

BeginPop ==
    /\ popStep = 0
    /\ popStep' = 1
    /\ fronts' = UNION {Front(l) : l \in Lanes}
    /\ UNCHANGED <<queue, staged, nextSeq, pushed, popped, pushing, delivered,
                   refused>>

(* Mutant: the diagnostics queue is forgotten.                             *)
RefillTwo ==
    LET l == Refills[popStep]
    IN  /\ popStep \in 1..3
        /\ popStep' = popStep + 1
        /\ IF popStep < 3 /\ staged[l] = Nothing /\ queue[l] # <<>>
           THEN /\ staged' = [staged EXCEPT ![l] = Head(queue[l])]
                /\ queue' = [queue EXCEPT ![l] = Tail(@)]
           ELSE UNCHANGED <<staged, queue>>
        /\ UNCHANGED <<nextSeq, pushed, popped, pushing, fronts, delivered,
                       refused>>

(* refill_head_from_queue                                                  *)
Refill ==
    LET l == Refills[popStep]
    IN  /\ popStep \in 1..3
        /\ popStep' = popStep + 1
        /\ IF staged[l] = Nothing /\ queue[l] # <<>>
           THEN /\ staged' = [staged EXCEPT ![l] = Head(queue[l])]
                /\ queue' = [queue EXCEPT ![l] = Tail(@)]
           ELSE UNCHANGED <<staged, queue>>
        /\ UNCHANGED <<nextSeq, pushed, popped, pushing, fronts, delivered,
                       refused>>

Staged == {l \in Lanes : staged[l] # Nothing}

(* Mutant: any staged head is taken.                                       *)
ChosenBlindly(l) == l \in Staged

(* The staged head with the smallest number is the one to return.          *)
Chosen(l) ==
    /\ l \in Staged
    /\ \A m \in Staged : staged[l].seq <= staged[m].seq

(* Mutant: the returned head stays valid.                                  *)
ReturnKeepsHead(l) ==
    /\ popStep = 4
    /\ Chosen(l)
    /\ delivered' = Append(delivered, staged[l])
    /\ popped' = popped + 1
    /\ popStep' = 0
    /\ fronts' = {}
    /\ UNCHANGED <<queue, staged, nextSeq, pushed, pushing, refused>>

Return(l) ==
    /\ popStep = 4
    /\ Chosen(l)
    /\ delivered' = Append(delivered, staged[l])
    /\ staged' = [staged EXCEPT ![l] = Nothing]
    /\ popped' = popped + 1
    /\ popStep' = 0
    /\ fronts' = {}
    /\ UNCHANGED <<queue, nextSeq, pushed, pushing, refused>>

ReturnNothing ==
    /\ popStep = 4
    /\ Staged = {}
    /\ popStep' = 0
    /\ fronts' = {}
    /\ UNCHANGED <<queue, staged, nextSeq, pushed, popped, pushing, delivered,
                   refused>>

PopAny == BeginPop \/ Refill \/ (\E l \in Lanes : Return(l)) \/ ReturnNothing

PushStep(p) == Enqueue(p) \/ Refuse(p) \/ Count(p)

ResultsNext ==
    \/ \E p \in Producers, l \in Lanes : Number(p, l)
    \/ \E p \in Producers : PushStep(p)
    \/ PopAny

ResultsSpec == ResultsInit /\ [][ResultsNext]_resultsVars

(* The main loop drains every frame, and a thread inside a push is         *)
(* scheduled.                                                              *)
FairSpec ==
    ResultsSpec /\ WF_resultsVars(PopAny) /\ \A p \in Producers : WF_resultsVars(PushStep(p))

-----------------------------------------------------------------------------
(* Properties.                                                             *)

InHand == {pushing[p].node.seq : p \in {q \in Producers : pushing[q].step = "enqueue"}}
Queued(l) == {queue[l][i].seq : i \in DOMAIN queue[l]}
StagedSeqs == {staged[l].seq : l \in Staged}
DeliveredSeqs == {delivered[i].seq : i \in DOMAIN delivered}
RefusedSeqs == {r.seq : r \in refused}

(* Every result that drew a number is in exactly one place: in its         *)
(* producer's hand, in one queue, staged, delivered or refused.  So its    *)
(* payload has exactly one owner and is released exactly once.             *)
OneOwner ==
    LET depth == Len(queue["analysis"]) + Len(queue["symbols"])
                     + Len(queue["diagnostics"])
        places == Cardinality(InHand) + depth + Cardinality(StagedSeqs)
                      + Len(delivered) + Cardinality(RefusedSeqs)
    IN  /\ places = nextSeq - 1
        /\ InHand \cup (UNION {Queued(l) : l \in Lanes}) \cup StagedSeqs
               \cup DeliveredSeqs \cup RefusedSeqs = 1..(nextSeq - 1)

(* What one thread pushed for one subsystem comes out in the order it went *)
(* in, for all the interleavings of numbering, queueing and staging.       *)
LaneOrder ==
    \A i, j \in DOMAIN delivered :
        /\ i < j
        /\ delivered[i].by = delivered[j].by
        /\ delivered[i].lane = delivered[j].lane
        => delivered[i].seq < delivered[j].seq

(* pop_any never returns a result numbered after one that was already at   *)
(* the front of its lane when the call began.                              *)
OvertakesNoFront ==
    [][\A l \in Lanes : Return(l) => \A s \in fronts : staged[l].seq <= s]_resultsVars

(* With nobody inside a push the counters account for what is still to be  *)
(* delivered; the staged heads are part of that and of no queue's depth.   *)
CountersAgree ==
    (\A p \in Producers : pushing[p].step # "count") =>
        pushed = popped + Cardinality(Staged) + Len(queue["analysis"])
                     + Len(queue["symbols"]) + Len(queue["diagnostics"])

(* What enters a queue is delivered.                                       *)
EventuallyDelivered ==
    \A s \in 1..MaxResults :
        (\E l \in Lanes : s \in Queued(l)) ~> s \in DeliveredSeqs

(* tests/README.md: pop_any orders by global sequence across the lanes.    *)
GlobalOrder ==
    \A i, j \in DOMAIN delivered : i < j => delivered[i].seq < delivered[j].seq

=============================================================================
