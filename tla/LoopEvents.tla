----------------------------- MODULE LoopEvents -----------------------------
(***************************************************************************)
(* The event ring of src/core/LoopEvents/event_queue.c.                    *)
(*                                                                         *)
(* Only the owner thread may touch the ring, so operations do not          *)
(* interleave; what a drain's visitor does to the panes never emits an     *)
(* event, so nothing is pushed while a drain is under way.  The ring       *)
(* implements BoundedFifo.                                                 *)
(***************************************************************************)
EXTENDS Integers, Sequences

CONSTANTS
    Events,     \* event types with their payloads, NONE excluded
    NoEvent,    \* IDE_EVENT_NONE
    Capacity,   \* LOOP_EVENTS_QUEUE_CAPACITY
    Budgets,    \* per-frame budgets a drain may be given
    MaxPushes   \* bound on the pushes between two resets

ASSUME LoopEventsAssumption ==
    /\ NoEvent \notin Events
    /\ Capacity \in Nat \ {0}
    /\ Budgets \subseteq Nat \ {0}
    /\ MaxPushes \in Nat

VARIABLES
    initialized,    \* g_initialized
    ring,           \* g_events
    head,           \* g_head
    tail,           \* g_tail
    count,          \* g_count
    nextSequence,   \* g_next_sequence
    highWatermark,  \* g_high_watermark
    enqueued,       \* g_events_enqueued
    processed,      \* g_events_processed
    deferred,       \* g_events_deferred
    dropped,        \* g_events_dropped_overflow
    drainLeft       \* what loop_events_drain_bounded may still pop, or -1

ringVars == <<ring, head, tail, count>>
statVars == <<nextSequence, highWatermark, enqueued, processed, deferred,
              dropped>>
vars == <<initialized, ringVars, statVars, drainLeft>>

Positions == 0..(Capacity - 1)
Cell == [event : Events \cup {NoEvent}, sequence : Nat]
EmptyCell == [event |-> NoEvent, sequence |-> 0]
NotDraining == -1

(* Indices stay inside the ring and the counters are numbers: the tail is  *)
(* moved by pushes, the head by pops, and neither checks the other.        *)
TypeOK ==
    /\ initialized \in BOOLEAN
    /\ ring \in [Positions -> Cell]
    /\ head \in Positions
    /\ tail \in Positions
    /\ count \in 0..Capacity
    /\ nextSequence \in Nat \ {0}
    /\ highWatermark \in 0..Capacity
    /\ enqueued \in Nat
    /\ processed \in Nat
    /\ deferred \in Nat
    /\ dropped \in Nat
    /\ drainLeft \in Nat \cup {NotDraining}

Init ==
    /\ ring = [p \in Positions |-> EmptyCell]
    /\ head = 0
    /\ tail = 0
    /\ count = 0
    /\ nextSequence = 1
    /\ highWatermark = 0
    /\ enqueued = 0
    /\ processed = 0
    /\ deferred = 0
    /\ dropped = 0
    /\ initialized = FALSE
    /\ drainLeft = NotDraining

(* loop_events_reset                                                       *)
Reset ==
    /\ ring' = [p \in Positions |-> EmptyCell]
    /\ head' = 0
    /\ tail' = 0
    /\ count' = 0
    /\ nextSequence' = 1
    /\ highWatermark' = 0
    /\ enqueued' = 0
    /\ processed' = 0
    /\ deferred' = 0
    /\ dropped' = 0

-----------------------------------------------------------------------------
Advance(p) == (p + 1) % Capacity

Idle == drainLeft = NotDraining

(* loop_events_init                                                        *)
Startup ==
    /\ Idle
    /\ initialized' = TRUE
    /\ Reset
    /\ UNCHANGED drainLeft

(* loop_events_shutdown                                                    *)
Shutdown ==
    /\ Idle
    /\ initialized' = FALSE
    /\ Reset
    /\ UNCHANGED drainLeft

HasRoom == count < Capacity

(* loop_events_push of an event that fits.                                 *)
Push(e) ==
    /\ Idle
    /\ initialized
    /\ HasRoom
    /\ enqueued + dropped < MaxPushes
    /\ ring' = [ring EXCEPT ![tail] = [event |-> e, sequence |-> nextSequence]]
    /\ nextSequence' = nextSequence + 1
    /\ tail' = Advance(tail)
    /\ count' = count + 1
    /\ enqueued' = enqueued + 1
    /\ highWatermark' = IF count' > highWatermark THEN count' ELSE highWatermark
    /\ UNCHANGED <<initialized, head, processed, deferred, dropped, drainLeft>>

(* loop_events_push into a full ring.                                      *)
Reject ==
    /\ Idle
    /\ initialized
    /\ ~HasRoom
    /\ enqueued + dropped < MaxPushes
    /\ dropped' = dropped + 1
    /\ UNCHANGED <<initialized, ringVars, nextSequence, highWatermark, enqueued,
                   processed, deferred, drainLeft>>

(* loop_events_drain_bounded: up to a budget of events is popped.          *)
BeginDrain(budget) ==
    /\ Idle
    /\ initialized
    /\ drainLeft' = budget
    /\ UNCHANGED <<initialized, ringVars, statVars>>

(* Mutant: the youngest event is popped.                                   *)
PopYoungest ==
    LET youngest == (tail + Capacity - 1) % Capacity
    IN  /\ drainLeft > 0
        /\ count > 0
        /\ drainLeft' = drainLeft - 1
        /\ ring' = [ring EXCEPT ![youngest] = EmptyCell]
        /\ tail' = youngest
        /\ count' = count - 1
        /\ processed' = processed + 1
        /\ UNCHANGED <<initialized, head, nextSequence, highWatermark,
                       enqueued, deferred, dropped>>

(* loop_events_pop, as the drain's loop calls it.                          *)
Pop ==
    /\ drainLeft > 0
    /\ count > 0
    /\ drainLeft' = drainLeft - 1
    /\ ring' = [ring EXCEPT ![head] = EmptyCell]
    /\ head' = Advance(head)
    /\ count' = count - 1
    /\ processed' = processed + 1
    /\ UNCHANGED <<initialized, tail, nextSequence, highWatermark, enqueued,
                   deferred, dropped>>

EndDrain ==
    /\ ~Idle
    /\ drainLeft = 0 \/ count = 0
    /\ deferred' = deferred + count
    /\ drainLeft' = NotDraining
    /\ UNCHANGED <<initialized, ringVars, nextSequence, highWatermark, enqueued,
                   processed, dropped>>

Next ==
    \/ Startup
    \/ Shutdown
    \/ \E e \in Events : Push(e)
    \/ Reject
    \/ \E b \in Budgets : BeginDrain(b)
    \/ Pop
    \/ EndDrain

Spec == Init /\ [][Next]_vars

-----------------------------------------------------------------------------
(* Properties.                                                             *)

(* The i-th oldest waiting event, i from 0, sits here.                     *)
Place(i) == (head + i) % Capacity

(* Head, tail and count, which three functions move separately, describe   *)
(* the same window, and the cells outside it were wiped.                   *)
WindowAgrees ==
    /\ tail = (head + count) % Capacity
    /\ \A p \in Positions :
           ring[p] # EmptyCell <=> \E i \in 0..(count - 1) : p = Place(i)

(* The waiting events carry consecutive numbers up to the last one given   *)
(* out, whatever was rejected, popped or wrapped around in between, and    *)
(* the counters agree: what was taken in is what was handed out and what   *)
(* still waits.                                                            *)
NumbersConsecutive ==
    /\ enqueued = processed + count
    /\ nextSequence = enqueued + 1
    /\ \A i \in 0..(count - 1) : ring[Place(i)].sequence = processed + 1 + i

LoopEventsInv == TypeOK /\ WindowAgrees /\ NumbersConsecutive

(* README.md of LoopEvents: a bounded FIFO queue with monotonic sequence   *)
(* numbers.                                                                *)
Waiting == [i \in 1..count |-> ring[Place(i - 1)]]

Fifo == INSTANCE BoundedFifo
            WITH Limit <- Capacity, waiting <- Waiting, accepted <- enqueued,
                 handedOut <- processed

IsFifo == Fifo!Spec

=============================================================================
