---------------------------- MODULE BoundedFifo ----------------------------
(***************************************************************************)
(* What src/core/LoopEvents promises its users, whatever holds the events: *)
(* at most Limit of them wait, each accepted one gets the next number, and *)
(* they are handed out in the order of their numbers, none twice and none  *)
(* skipped.  A refused event leaves no trace here.                         *)
(***************************************************************************)
EXTENDS Naturals, Sequences

CONSTANTS
    Events,     \* what may be put in
    Limit       \* how many may wait

VARIABLES
    waiting,    \* accepted and not yet handed out, oldest first
    accepted,   \* the number of the youngest accepted event
    handedOut   \* the number of the last event handed out

fifoVars == <<waiting, accepted, handedOut>>

Init == waiting = <<>> /\ accepted = 0 /\ handedOut = 0

Accept(e) ==
    /\ Len(waiting) < Limit
    /\ accepted' = accepted + 1
    /\ waiting' = Append(waiting, [event |-> e, sequence |-> accepted'])
    /\ UNCHANGED handedOut

HandOut ==
    /\ waiting # <<>>
    /\ handedOut' = handedOut + 1
    /\ Head(waiting).sequence = handedOut'
    /\ waiting' = Tail(waiting)
    /\ UNCHANGED accepted

(* Everything that waits is given up and numbering starts again.           *)
Restart == waiting' = <<>> /\ accepted' = 0 /\ handedOut' = 0

Next == (\E e \in Events : Accept(e)) \/ HandOut \/ Restart

Spec == Init /\ [][Next]_fifoVars

=============================================================================
