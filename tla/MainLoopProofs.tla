--------------------------- MODULE MainLoopProofs ---------------------------
(***************************************************************************)
(* Theorems about what the main loop drains, loads and shows: the event    *)
(* ring (LoopEvents), the artifacts of analysis runs (AnalysisArtifacts),  *)
(* the two lists of diagnostics with the builds that fill one of them      *)
(* (BuildSystem, DiagnosticLists) and the queue of completed results       *)
(* (CompletedResults).  The four share no variable.  They hold for every   *)
(* capacity, every set of events, files, workspaces, texts and producers,  *)
(* and every bound.                                                        *)
(***************************************************************************)
EXTENDS LoopEvents, AnalysisArtifacts, BuildSystem, CompletedResults,
        SequenceTheorems, FiniteSetTheorems, TLAPS

-----------------------------------------------------------------------------
(* The event ring (LoopEvents).                                            *)

(* The remainder, where the ring uses it: at most once around.             *)

LEMMA Wraps ==
    ASSUME NEW i \in Nat, i < Capacity + Capacity
    PROVE  i % Capacity = IF i < Capacity THEN i ELSE i - Capacity
<1>1. CASE i < Capacity
  BY <1>1, LoopEventsAssumption
<1>2. CASE i >= Capacity
  BY <1>2, LoopEventsAssumption
<1>3. QED
  BY <1>1, <1>2, LoopEventsAssumption

LEMMA AdvanceStays ==
    ASSUME NEW p \in Positions
    PROVE  /\ Advance(p) \in Positions
           /\ Advance(p) = IF p + 1 = Capacity THEN 0 ELSE p + 1
<1> DEFINE k == p + 1
<1>1. k \in Nat /\ k < Capacity + Capacity
  BY LoopEventsAssumption DEF Positions
<1>2. k % Capacity = IF k < Capacity THEN k ELSE k - Capacity
  <2> HIDE DEF k
  <2> QED  BY <1>1, Wraps
<1>3. QED
  BY <1>2, LoopEventsAssumption DEF Positions, Advance

LEMMA OffsetIs ==
    ASSUME NEW h \in Positions, NEW i \in 0..Capacity
    PROVE  /\ (h + i) % Capacity \in Positions
           /\ (h + i) % Capacity = IF h + i < Capacity THEN h + i
                                                       ELSE h + i - Capacity
<1> DEFINE k == h + i
<1>1. k \in Nat /\ k < Capacity + Capacity
  BY LoopEventsAssumption DEF Positions
<1>2. k % Capacity = IF k < Capacity THEN k ELSE k - Capacity
  <2> HIDE DEF k
  <2> QED  BY <1>1, Wraps
<1>3. QED
  BY <1>1, <1>2, LoopEventsAssumption DEF Positions

(* Two places of the window never coincide.                                *)
LEMMA OffsetsDiffer ==
    ASSUME NEW h \in Positions, NEW i \in 0..(Capacity - 1),
           NEW j \in 0..(Capacity - 1), (h + i) % Capacity = (h + j) % Capacity
    PROVE  i = j
<1>1. i \in 0..Capacity /\ j \in 0..Capacity
  BY LoopEventsAssumption
<1>2. /\ (h + i) % Capacity = IF h + i < Capacity THEN h + i ELSE h + i - Capacity
      /\ (h + j) % Capacity = IF h + j < Capacity THEN h + j ELSE h + j - Capacity
  BY <1>1, OffsetIs
<1>3. QED
  BY <1>2, LoopEventsAssumption DEF Positions

(* Moving the head by one shifts every place by one.                       *)
LEMMA OffsetShifts ==
    ASSUME NEW h \in Positions, NEW i \in 0..(Capacity - 1)
    PROVE  (Advance(h) + i) % Capacity = (h + (i + 1)) % Capacity
<1>1. /\ Advance(h) \in Positions
      /\ Advance(h) = IF h + 1 = Capacity THEN 0 ELSE h + 1
  BY AdvanceStays
<1>2. i \in 0..Capacity /\ i + 1 \in 0..Capacity
  BY LoopEventsAssumption
<1>3. (Advance(h) + i) % Capacity =
          IF Advance(h) + i < Capacity THEN Advance(h) + i
                                       ELSE Advance(h) + i - Capacity
  BY <1>1, <1>2, OffsetIs
<1>4. (h + (i + 1)) % Capacity =
          IF h + (i + 1) < Capacity THEN h + (i + 1) ELSE h + (i + 1) - Capacity
  BY <1>2, OffsetIs
<1>5. QED
  BY <1>1, <1>3, <1>4, LoopEventsAssumption DEF Positions

(* The place after the last one is the tail's.                             *)
LEMMA OffsetGrows ==
    ASSUME NEW h \in Positions, NEW n \in 0..(Capacity - 1)
    PROVE  Advance((h + n) % Capacity) = (h + (n + 1)) % Capacity
<1>1. n \in 0..Capacity /\ n + 1 \in 0..Capacity
  BY LoopEventsAssumption
<1>2. /\ (h + n) % Capacity \in Positions
      /\ (h + n) % Capacity = IF h + n < Capacity THEN h + n ELSE h + n - Capacity
  BY <1>1, OffsetIs
<1>3. (h + (n + 1)) % Capacity =
          IF h + (n + 1) < Capacity THEN h + (n + 1) ELSE h + (n + 1) - Capacity
  BY <1>1, OffsetIs
<1>4. Advance((h + n) % Capacity) =
          IF ((h + n) % Capacity) + 1 = Capacity THEN 0 ELSE ((h + n) % Capacity) + 1
  BY <1>2, AdvanceStays
<1>5. QED
  BY <1>2, <1>3, <1>4, LoopEventsAssumption DEF Positions

-----------------------------------------------------------------------------
(* Type correctness.                                                       *)

LEMMA ResetTypes ==
    ASSUME Reset, initialized' \in BOOLEAN, drainLeft' \in Nat \cup {NotDraining}
    PROVE  TypeOK'
BY LoopEventsAssumption DEF Reset, TypeOK, Positions, Cell, EmptyCell

LEMMA PushTypes ==
    ASSUME TypeOK, NEW e \in Events, Push(e)
    PROVE  TypeOK'
<1>1. [event |-> e, sequence |-> nextSequence] \in Cell
  BY DEF TypeOK, Cell
<1>2. ring' \in [Positions -> Cell]
  BY <1>1 DEF Push, TypeOK
<1>3. tail' \in Positions /\ head' \in Positions
  BY AdvanceStays DEF Push, TypeOK
<1>4. count' \in 0..Capacity /\ highWatermark' \in 0..Capacity
  BY LoopEventsAssumption DEF Push, HasRoom, TypeOK
<1>5. /\ nextSequence' \in Nat \ {0} /\ enqueued' \in Nat /\ processed' \in Nat
      /\ deferred' \in Nat /\ dropped' \in Nat
      /\ drainLeft' \in Nat \cup {NotDraining}
  BY DEF Push, TypeOK
<1>6. QED
  BY <1>2, <1>3, <1>4, <1>5 DEF Push, TypeOK

LEMMA PopTypes ==
    ASSUME TypeOK, Pop
    PROVE  TypeOK'
<1>1. ring' \in [Positions -> Cell]
  BY LoopEventsAssumption DEF Pop, TypeOK, Cell, EmptyCell
<1>2. tail' \in Positions /\ head' \in Positions
  BY AdvanceStays DEF Pop, TypeOK
<1>3. /\ count' \in 0..Capacity /\ processed' \in Nat
      /\ drainLeft' \in Nat \cup {NotDraining}
  BY LoopEventsAssumption DEF Pop, TypeOK, NotDraining
<1>4. QED
  BY <1>1, <1>2, <1>3 DEF Pop, TypeOK

LEMMA TypeInductive ==
    ASSUME TypeOK, [Next]_vars
    PROVE  TypeOK'
<1>1. CASE Startup
  BY <1>1, ResetTypes DEF Startup, TypeOK
<1>2. CASE Shutdown
  BY <1>2, ResetTypes DEF Shutdown, TypeOK
<1>3. ASSUME NEW e \in Events, Push(e) PROVE TypeOK'
  BY <1>3, PushTypes
<1>4. CASE Reject
  BY <1>4 DEF Reject, ringVars, TypeOK
<1>5. ASSUME NEW b \in Budgets, BeginDrain(b) PROVE TypeOK'
  BY <1>5, LoopEventsAssumption DEF BeginDrain, ringVars, statVars, TypeOK
<1>6. CASE Pop
  BY <1>6, PopTypes
<1>7. CASE EndDrain
  BY <1>7, LoopEventsAssumption DEF EndDrain, ringVars, TypeOK
<1>8. CASE UNCHANGED vars
  BY <1>8 DEF vars, ringVars, statVars, TypeOK
<1>9. QED
  BY <1>1, <1>2, <1>3, <1>4, <1>5, <1>6, <1>7, <1>8 DEF Next

-----------------------------------------------------------------------------
(* The window and the numbers in it.                                       *)

LEMMA EmptyWindow ==
    ASSUME Reset
    PROVE  WindowAgrees' /\ NumbersConsecutive'
<1>1. (0 + 0) % Capacity = 0
  BY LoopEventsAssumption, OffsetIs DEF Positions
<1>2. WindowAgrees'
  BY <1>1, LoopEventsAssumption DEF Reset, WindowAgrees, Place
<1>3. NumbersConsecutive'
  BY LoopEventsAssumption DEF Reset, NumbersConsecutive, Place
<1>4. QED
  BY <1>2, <1>3

LEMMA PlacesAre ==
    ASSUME TypeOK, NEW i \in 0..Capacity
    PROVE  Place(i) \in Positions
BY OffsetIs DEF TypeOK, Place

LEMMA PushKeepsWindow ==
    ASSUME LoopEventsInv, NEW e \in Events, Push(e)
    PROVE  WindowAgrees' /\ NumbersConsecutive'
<1>1. count \in 0..(Capacity - 1) /\ head \in Positions /\ tail = Place(count)
  BY LoopEventsAssumption DEF LoopEventsInv, TypeOK, WindowAgrees, Place, Push,
     HasRoom
<1>2. \A i \in 0..count : Place(i)' = Place(i) /\ Place(i) \in Positions
  BY <1>1, OffsetIs, LoopEventsAssumption DEF Push, Place
<1>3. tail' = Place(count + 1)
  BY <1>1, OffsetGrows DEF Push, Place
<1>4. \A i \in 0..(count - 1) : Place(i) # tail
  <2> SUFFICES ASSUME NEW i \in 0..(count - 1), Place(i) = Place(count)
               PROVE  FALSE
    BY <1>1
  <2>1. i \in 0..(Capacity - 1)
    BY <1>1, LoopEventsAssumption
  <2>2. i = count
    BY <1>1, <2>1, OffsetsDiffer DEF Place
  <2>3. QED
    BY <1>1, <2>2
<1> DEFINE new == [event |-> e, sequence |-> nextSequence]
<1>5. /\ new # EmptyCell
      /\ ring' = [ring EXCEPT ![tail] = new] /\ ring \in [Positions -> Cell]
  BY LoopEventsAssumption DEF Push, EmptyCell, LoopEventsInv, TypeOK
<1>6. ring'[tail] = new /\ \A p \in Positions : p # tail => ring'[p] = ring[p]
  BY <1>1, <1>2, <1>5
<1>7. WindowAgrees'
  <2>1. tail' = (head' + count') % Capacity
    BY <1>3 DEF Push, Place
  <2>2. ASSUME NEW p \in Positions
        PROVE  ring'[p] # EmptyCell <=> \E i \in 0..count : p = Place(i)
    <3>1. CASE p = tail
      BY <1>1, <1>5, <1>6, <3>1
    <3>2. CASE p # tail
      <4>1. ring'[p] # EmptyCell <=> \E i \in 0..(count - 1) : p = Place(i)
        BY <1>6, <3>2 DEF LoopEventsInv, WindowAgrees
      <4>2. (\E i \in 0..count : p = Place(i))
                <=> \E i \in 0..(count - 1) : p = Place(i)
        BY <1>1, <3>2
      <4>3. QED
        BY <4>1, <4>2
    <3>3. QED
      BY <3>1, <3>2
  <2>3. 0..(count' - 1) = 0..count
    BY <1>1 DEF Push
  <2>4. QED
    BY <1>2, <2>1, <2>2, <2>3 DEF WindowAgrees
<1>8. NumbersConsecutive'
  <2>1. enqueued' = processed' + count' /\ nextSequence' = enqueued' + 1
    BY DEF LoopEventsInv, TypeOK, NumbersConsecutive, Push
  <2>2. ASSUME NEW i \in 0..count
        PROVE  ring'[Place(i)].sequence = processed + 1 + i
    <3>1. CASE i = count
      BY <1>1, <1>6, <3>1 DEF LoopEventsInv, TypeOK, NumbersConsecutive
    <3>2. CASE i # count
      <4>1. i \in 0..(count - 1)
        BY <1>1, <3>2
      <4>2. QED
        BY <1>2, <1>4, <1>6, <4>1 DEF LoopEventsInv, NumbersConsecutive
    <3>3. QED
      BY <3>1, <3>2
  <2>3. 0..(count' - 1) = 0..count /\ processed' = processed
    BY <1>1 DEF Push
  <2>4. QED
    BY <1>2, <2>1, <2>2, <2>3 DEF NumbersConsecutive
<1>9. QED
  BY <1>7, <1>8

LEMMA PopKeepsWindow ==
    ASSUME LoopEventsInv, Pop
    PROVE  WindowAgrees' /\ NumbersConsecutive'
<1>1. /\ count \in 1..Capacity /\ count' = count - 1 /\ head \in Positions
      /\ processed' = processed + 1 /\ processed \in Nat /\ enqueued \in Nat
      /\ tail' = tail /\ enqueued' = enqueued /\ nextSequence' = nextSequence
  BY LoopEventsAssumption DEF LoopEventsInv, TypeOK, Pop
<1>2. Place(0) = head
  <2>1. (head + 0) % Capacity = IF head + 0 < Capacity THEN head + 0
                                                      ELSE head + 0 - Capacity
    BY <1>1, OffsetIs, LoopEventsAssumption
  <2>2. QED
    BY <1>1, <2>1, LoopEventsAssumption DEF Place, Positions
<1>3. \A i \in 0..(count - 1) : Place(i)' = Place(i + 1)
  BY <1>1, OffsetShifts, LoopEventsAssumption DEF Pop, Place
<1>4. \A i \in 1..(count - 1) : Place(i) # head /\ Place(i) \in Positions
  <2> SUFFICES ASSUME NEW i \in 1..(count - 1)
               PROVE  Place(i) # Place(0) /\ Place(i) \in Positions
    BY <1>2
  <2>1. i \in 0..(Capacity - 1) /\ 0 \in 0..(Capacity - 1) /\ i # 0
        /\ i \in 0..Capacity
    BY <1>1, LoopEventsAssumption
  <2>2. QED
    BY <1>1, <2>1, OffsetsDiffer, OffsetIs DEF Place
<1>5. /\ ring'[head] = EmptyCell
      /\ \A p \in Positions : p # head => ring'[p] = ring[p]
  BY <1>1 DEF Pop, LoopEventsInv, TypeOK
<1>6. WindowAgrees'
  <2>1. tail' = (head' + count') % Capacity
    <3>1. tail = (head + count) % Capacity /\ head' = Advance(head)
      BY DEF LoopEventsInv, WindowAgrees, Pop
    <3>2. (Advance(head) + (count - 1)) % Capacity = (head + ((count - 1) + 1)) % Capacity
      BY <1>1, OffsetShifts, LoopEventsAssumption
    <3>3. (count - 1) + 1 = count
      BY <1>1
    <3>4. QED
      BY <1>1, <3>1, <3>2, <3>3
  <2>2. ASSUME NEW p \in Positions
        PROVE  ring'[p] # EmptyCell <=> \E i \in 1..(count - 1) : p = Place(i)
    <3>1. CASE p = head
      BY <1>4, <1>5, <3>1
    <3>2. CASE p # head
      <4>1. ring'[p] # EmptyCell <=> \E i \in 0..(count - 1) : p = Place(i)
        BY <1>5, <3>2 DEF LoopEventsInv, WindowAgrees
      <4>2. (\E i \in 0..(count - 1) : p = Place(i))
                <=> \E i \in 1..(count - 1) : p = Place(i)
        BY <1>1, <1>2, <3>2
      <4>3. QED
        BY <4>1, <4>2
    <3>3. QED
      BY <3>1, <3>2
  <2>3. ASSUME NEW p \in Positions
        PROVE  (\E i \in 1..(count - 1) : p = Place(i))
                   <=> \E i \in 0..(count - 2) : p = Place(i)'
    <3>1. ASSUME NEW i \in 1..(count - 1), p = Place(i)
          PROVE  \E j \in 0..(count - 2) : p = Place(j)'
      <4>1. i - 1 \in 0..(count - 2) /\ i - 1 \in 0..(count - 1)
        BY <1>1
      <4>2. Place(i - 1)' = Place(i)
        BY <1>3, <4>1
      <4>3. QED
        BY <3>1, <4>1, <4>2
    <3>2. ASSUME NEW j \in 0..(count - 2), p = Place(j)'
          PROVE  \E i \in 1..(count - 1) : p = Place(i)
      <4>1. j + 1 \in 1..(count - 1) /\ j \in 0..(count - 1)
        BY <1>1
      <4>2. QED
        BY <1>3, <3>2, <4>1
    <3>3. QED
      BY <3>1, <3>2
  <2>4. count' - 1 = count - 2
    BY <1>1
  <2>5. QED
    BY <2>1, <2>2, <2>3, <2>4 DEF WindowAgrees
<1>7. NumbersConsecutive'
  <2>1. enqueued' = processed' + count' /\ nextSequence' = enqueued' + 1
    BY <1>1 DEF LoopEventsInv, NumbersConsecutive
  <2>2. ASSUME NEW i \in 0..(count' - 1)
        PROVE  ring'[Place(i)'].sequence = processed' + 1 + i
    <3>1. i \in 0..(count - 1) /\ i + 1 \in 1..(count - 1) /\ i + 1 \in 0..(count - 1)
      BY <1>1
    <3>2. ring'[Place(i)'] = ring[Place(i + 1)]
      BY <1>3, <1>4, <1>5, <3>1
    <3>3. ring[Place(i + 1)].sequence = processed + 1 + (i + 1)
      BY <3>1 DEF LoopEventsInv, NumbersConsecutive
    <3>4. QED
      BY <1>1, <3>1, <3>2, <3>3
  <2>3. QED
    BY <2>1, <2>2 DEF NumbersConsecutive
<1>8. QED
  BY <1>6, <1>7

(* What holds of the ring in every reachable state, for every capacity:    *)
(* types, one window, consecutive numbers.                                 *)
LEMMA InvInitially == Init => LoopEventsInv
<1> SUFFICES ASSUME Init PROVE LoopEventsInv
  OBVIOUS
<1>1. TypeOK
  <2>1. ring \in [Positions -> Cell]
    BY DEF Init, Cell, EmptyCell
  <2>2. /\ head \in Positions /\ tail \in Positions /\ count \in 0..Capacity
        /\ highWatermark \in 0..Capacity
    BY LoopEventsAssumption DEF Init, Positions
  <2>3. initialized \in BOOLEAN /\ drainLeft \in Nat \cup {NotDraining}
    BY DEF Init
  <2>4. QED
    BY <2>1, <2>2, <2>3 DEF Init, TypeOK
<1>2. (0 + 0) % Capacity = 0
  BY LoopEventsAssumption, OffsetIs DEF Positions
<1>3. WindowAgrees /\ NumbersConsecutive
  BY <1>2, LoopEventsAssumption DEF Init, WindowAgrees, NumbersConsecutive, Place
<1>4. QED
  BY <1>1, <1>3 DEF LoopEventsInv

LEMMA InvInductive == LoopEventsInv /\ [Next]_vars => LoopEventsInv'
<1> SUFFICES ASSUME LoopEventsInv, [Next]_vars
             PROVE  LoopEventsInv'
  OBVIOUS
<1>1. TypeOK'
  BY TypeInductive DEF LoopEventsInv
<1>2. CASE Startup \/ Shutdown
  BY <1>1, <1>2, EmptyWindow DEF Startup, Shutdown, LoopEventsInv
<1>3. ASSUME NEW e \in Events, Push(e) PROVE LoopEventsInv'
  BY <1>1, <1>3, PushKeepsWindow DEF LoopEventsInv
<1>4. CASE Pop
  BY <1>1, <1>4, PopKeepsWindow DEF LoopEventsInv
<1>5. ASSUME UNCHANGED <<ringVars, nextSequence, enqueued, processed>>
      PROVE  LoopEventsInv'
  BY <1>1, <1>5 DEF LoopEventsInv, ringVars, WindowAgrees, NumbersConsecutive, Place
<1>6. CASE Reject
  BY <1>5, <1>6 DEF Reject
<1>7. ASSUME NEW b \in Budgets, BeginDrain(b) PROVE LoopEventsInv'
  BY <1>5, <1>7 DEF BeginDrain, statVars
<1>8. CASE EndDrain
  BY <1>5, <1>8 DEF EndDrain
<1>9. CASE UNCHANGED vars
  BY <1>5, <1>9 DEF vars, statVars
<1>10. QED
  BY <1>2, <1>3, <1>4, <1>6, <1>7, <1>8, <1>9 DEF Next

(* Every variable of the ring stays in its domain, in particular head and  *)
(* tail inside the array and count within the capacity.                    *)
THEOREM TypeCorrect == Spec => []TypeOK
<1>1. LoopEventsInv => TypeOK
  BY DEF LoopEventsInv
<1>2. QED
  BY InvInitially, InvInductive, <1>1, PTL DEF Spec

(* Head, tail and count always describe one window, and the cells outside  *)
(* it are wiped.                                                           *)
THEOREM WindowCorrect == Spec => []WindowAgrees
<1>1. LoopEventsInv => WindowAgrees
  BY DEF LoopEventsInv
<1>2. QED
  BY InvInitially, InvInductive, <1>1, PTL DEF Spec

(* The waiting events always carry consecutive numbers.                    *)
THEOREM NumbersCorrect == Spec => []NumbersConsecutive
<1>1. LoopEventsInv => NumbersConsecutive
  BY DEF LoopEventsInv
<1>2. QED
  BY InvInitially, InvInductive, <1>1, PTL DEF Spec

-----------------------------------------------------------------------------
(* The ring implements the bounded queue.                                  *)

LEMMA WaitingIsSequence ==
    ASSUME TypeOK
    PROVE  /\ Waiting \in Seq(Cell)
           /\ Len(Waiting) = count
           /\ DOMAIN Waiting = 1..count
           /\ \A i \in 1..count : Waiting[i] = ring[Place(i - 1)]
<1>1. \A i \in 1..count : Place(i - 1) \in Positions
  <2> SUFFICES ASSUME NEW i \in 1..count PROVE Place(i - 1) \in Positions
    OBVIOUS
  <2>1. i - 1 \in 0..Capacity
    BY LoopEventsAssumption DEF TypeOK
  <2>2. QED
    BY <2>1, PlacesAre
<1>2. Waiting \in [1..count -> Cell] /\ count \in Nat
  BY <1>1, LoopEventsAssumption DEF Waiting, TypeOK
<1>3. QED
  BY <1>2 DEF Waiting

LEMMA PushAccepts ==
    ASSUME LoopEventsInv, NEW e \in Events, Push(e), TypeOK'
    PROVE  Fifo!Accept(e)
<1> DEFINE new == [event |-> e, sequence |-> nextSequence]
<1>1. /\ count \in 0..(Capacity - 1) /\ count' = count + 1 /\ head' = head
      /\ tail = Place(count) /\ tail \in Positions /\ head \in Positions
      /\ ring' = [ring EXCEPT ![tail] = new] /\ ring \in [Positions -> Cell]
      /\ enqueued' = enqueued + 1 /\ processed' = processed
      /\ nextSequence = enqueued'
  BY LoopEventsAssumption
     DEF LoopEventsInv, TypeOK, WindowAgrees, NumbersConsecutive, Place, Push, HasRoom
<1>2. /\ Waiting \in Seq(Cell) /\ Len(Waiting) = count
      /\ \A i \in 1..count : Waiting[i] = ring[Place(i - 1)]
  BY WaitingIsSequence DEF LoopEventsInv
<1>3. Waiting' = [i \in 1..(count + 1) |-> ring'[Place(i - 1)]]
  BY <1>1 DEF Waiting, Place
<1>4. \A i \in 1..count : ring'[Place(i - 1)] = Waiting[i]
  <2> SUFFICES ASSUME NEW i \in 1..count PROVE ring'[Place(i - 1)] = ring[Place(i - 1)]
    BY <1>2
  <2>1. i - 1 \in 0..(Capacity - 1) /\ i - 1 \in 0..Capacity /\ i - 1 # count
    BY <1>1, LoopEventsAssumption
  <2>2. Place(i - 1) # Place(count) /\ Place(i - 1) \in Positions
    BY <1>1, <2>1, OffsetsDiffer, OffsetIs DEF Place
  <2>3. QED
    BY <1>1, <2>2
<1>5. ring'[Place((count + 1) - 1)] = new
  BY <1>1
<1>6. Waiting' = Append(Waiting, new)
  <2>1. Append(Waiting, new) = [i \in 1..(count + 1) |->
                                   IF i = count + 1 THEN new ELSE Waiting[i]]
    BY <1>1, <1>2
  <2>2. \A i \in 1..(count + 1) :
            ring'[Place(i - 1)] = IF i = count + 1 THEN new ELSE Waiting[i]
    BY <1>1, <1>4, <1>5
  <2>3. QED
    BY <1>3, <2>1, <2>2
<1>7. Len(Waiting) < Capacity
  BY <1>1, <1>2, LoopEventsAssumption
<1>8. QED
  BY <1>1, <1>6, <1>7 DEF Fifo!Accept

LEMMA PopHandsOut ==
    ASSUME LoopEventsInv, Pop
    PROVE  Fifo!HandOut
<1>1. /\ count \in 1..Capacity /\ count' = count - 1 /\ head \in Positions
      /\ head' = Advance(head) /\ ring \in [Positions -> Cell]
      /\ ring' = [ring EXCEPT ![head] = EmptyCell]
      /\ processed' = processed + 1 /\ processed \in Nat /\ enqueued' = enqueued
  BY LoopEventsAssumption DEF LoopEventsInv, TypeOK, Pop
<1>2. /\ Waiting \in Seq(Cell) /\ Len(Waiting) = count
      /\ \A i \in 1..count : Waiting[i] = ring[Place(i - 1)]
  BY WaitingIsSequence DEF LoopEventsInv
<1>3. Waiting # <<>> /\ Head(Waiting) = ring[Place(0)]
  BY <1>1, <1>2
<1>4. Head(Waiting).sequence = processed + 1
  <2>1. 0 \in 0..(count - 1)
    BY <1>1
  <2>2. ring[Place(0)].sequence = processed + 1 + 0
    BY <2>1 DEF LoopEventsInv, NumbersConsecutive
  <2>3. QED
    BY <1>1, <1>3, <2>2
<1>5. Waiting' = [i \in 1..(count - 1) |-> ring'[(Advance(head) + (i - 1)) % Capacity]]
  BY <1>1 DEF Waiting, Place
<1>6. \A i \in 1..(count - 1) :
          ring'[(Advance(head) + (i - 1)) % Capacity] = Waiting[i + 1]
  <2> SUFFICES ASSUME NEW i \in 1..(count - 1)
               PROVE  ring'[(Advance(head) + (i - 1)) % Capacity] = Waiting[i + 1]
    OBVIOUS
  <2>1. /\ i - 1 \in 0..(Capacity - 1) /\ i \in 0..(Capacity - 1)
        /\ i \in 0..Capacity /\ (i - 1) + 1 = i /\ i + 1 \in 1..count /\ i # 0
        /\ 0 \in 0..(Capacity - 1) /\ 0 \in 0..Capacity /\ (i + 1) - 1 = i
    BY <1>1, LoopEventsAssumption
  <2>2. (Advance(head) + (i - 1)) % Capacity = Place(i)
    BY <1>1, <2>1, OffsetShifts DEF Place
  <2>3. Place(0) = head
    <3>1. (head + 0) % Capacity = IF head + 0 < Capacity THEN head + 0
                                                        ELSE head + 0 - Capacity
      BY <1>1, <2>1, OffsetIs
    <3>2. QED
      BY <1>1, <3>1, LoopEventsAssumption DEF Place, Positions
  <2>4. Place(i) # Place(0) /\ Place(i) \in Positions
    BY <1>1, <2>1, OffsetsDiffer, OffsetIs DEF Place
  <2>5. ring'[Place(i)] = ring[Place(i)]
    BY <1>1, <2>3, <2>4
  <2>6. QED
    BY <1>2, <2>1, <2>2, <2>5
<1>7. Waiting' = Tail(Waiting)
  <2>1. /\ Tail(Waiting) \in Seq(Cell) /\ Len(Tail(Waiting)) = count - 1
        /\ \A i \in 1..(count - 1) : Tail(Waiting)[i] = Waiting[i + 1]
    BY <1>1, <1>2, <1>3, HeadTailProperties
  <2>2. Tail(Waiting) = [i \in 1..(count - 1) |-> Tail(Waiting)[i]]
    <3>1. Tail(Waiting) \in [1..(count - 1) -> Cell]
      BY <2>1, LenProperties
    <3>2. QED
      BY <3>1
  <2>3. QED
    BY <1>5, <1>6, <2>1, <2>2
<1>8. QED
  BY <1>1, <1>3, <1>4, <1>7 DEF Fifo!HandOut

LEMMA ResetRestarts ==
    ASSUME Reset
    PROVE  Fifo!Restart
<1>1. Waiting' = <<>>
  BY DEF Reset, Waiting
<1>2. QED
  BY <1>1 DEF Reset, Fifo!Restart

LEMMA QueueStutters ==
    ASSUME UNCHANGED <<ringVars, enqueued, processed>>
    PROVE  UNCHANGED Fifo!fifoVars
BY DEF ringVars, Waiting, Place, Fifo!fifoVars

(* The ring of event_queue.c, with its wrap-around, wiping and overflow    *)
(* check, is a bounded first-in first-out queue with consecutive sequence  *)
(* numbers.                                                                *)
THEOREM RingImplementsFifo == Spec => IsFifo
<1>1. Init => Fifo!Init
  BY DEF Init, Fifo!Init, Waiting
<1>2. LoopEventsInv /\ LoopEventsInv' /\ [Next]_vars => [Fifo!Next]_Fifo!fifoVars
  <2> SUFFICES ASSUME LoopEventsInv, LoopEventsInv', [Next]_vars
               PROVE  [Fifo!Next]_Fifo!fifoVars
    OBVIOUS
  <2>1. CASE Startup \/ Shutdown
    BY <2>1, ResetRestarts DEF Startup, Shutdown, Fifo!Next
  <2>2. ASSUME NEW e \in Events, Push(e) PROVE Fifo!Next
    BY <2>2, PushAccepts DEF Fifo!Next, LoopEventsInv
  <2>3. CASE Pop
    BY <2>3, PopHandsOut DEF Fifo!Next
  <2>4. CASE Reject
    BY <2>4, QueueStutters DEF Reject
  <2>5. ASSUME NEW b \in Budgets, BeginDrain(b) PROVE UNCHANGED Fifo!fifoVars
    BY <2>5, QueueStutters DEF BeginDrain, statVars
  <2>6. CASE EndDrain
    BY <2>6, QueueStutters DEF EndDrain
  <2>7. CASE UNCHANGED vars
    BY <2>7, QueueStutters DEF vars, statVars
  <2>8. QED
    BY <2>1, <2>2, <2>3, <2>4, <2>5, <2>6, <2>7 DEF Next
<1>3. Spec => []LoopEventsInv
  BY InvInitially, InvInductive, PTL DEF Spec
<1>4. QED
  BY <1>1, <1>2, <1>3, PTL DEF Spec, IsFifo, Fifo!Spec

-----------------------------------------------------------------------------
(* The artifacts (AnalysisArtifacts).                                      *)

(* Provenance and diagnostics have an entry for each text, in memory and   *)
(* in an artifact that is whole.                                           *)
IsProvenance(prov) ==
    DOMAIN prov = Texts /\ \A f \in Texts : "current" \in DOMAIN prov[f]

StoresShaped ==
    /\ {"diags", "prov"} \subseteq DOMAIN mem
    /\ IsProvenance(mem.prov)
    /\ DOMAIN mem.diags = Texts

ArtifactsShaped ==
    /\ DOMAIN art = ArtifactNames
    /\ Whole(art.prov) => IsProvenance(art.prov)
    /\ Whole(art.diags) => DOMAIN art.diags = Texts

(* While the audit stands, memory is what was loaded from the artifacts it *)
(* went by, of the workspace it went by.                                   *)
AuditStands ==
    job.phase = "asked" /\ audit # "none" =>
        /\ audit = RefreshIntent
        /\ mem = Loaded
        /\ job.forced = (art.diags = Missing)

(* The worker has one file in hand at most, and only while a run reads     *)
(* files or analyzes a buffer; what it has noted of it is on record.       *)
HandShaped ==
    /\ {"hand", "phase"} \subseteq DOMAIN job
    /\ \A h \in job.hand : h.file \in Texts /\ "noted" \in DOMAIN h
    /\ \A g, h \in job.hand : g = h
    /\ job.hand # {} => job.phase \in {"scan", "live"}
    /\ \A h \in job.hand : h.noted => mem.prov[h.file].of = h.of

ArtifactsInv ==
    /\ StoresShaped
    /\ ArtifactsShaped
    /\ HandShaped
    /\ ProvenanceStands
    /\ AuditStands

LEMMA EmptyHand ==
    ASSUME {"hand", "phase"} \subseteq DOMAIN job', job'.hand = {}
    PROVE  HandShaped'
BY DEF HandShaped

\* Memory stays, and what the worker has noted stays in its hand.
LEMMA MemoryStays ==
    ASSUME StoresShaped, ProvenanceStands, UNCHANGED mem,
           \A h \in job.hand : h.noted => h \in job'.hand
    PROVE  StoresShaped' /\ ProvenanceStands'
BY DEF StoresShaped, ProvenanceStands

LEMMA NoProvenanceShaped ==
    /\ IsProvenance(NoProvenance)
    /\ \A f \in Texts : NoProvenance[f].current = FALSE
BY DEF IsProvenance, NoProvenance

LEMMA CachedShaped ==
    ASSUME NEW prov, IsProvenance(prov)
    PROVE  /\ IsProvenance(Cached(prov))
           /\ \A f \in Texts : Cached(prov)[f].current = FALSE
BY DEF IsProvenance, Cached

\* Stores whose diagnostics and provenance have been cleared keep the rest.
LEMMA ClearedStores ==
    ASSUME StoresShaped, ProvenanceStands, NEW gone
    PROVE  /\ {"diags", "prov"} \subseteq DOMAIN Cleared(mem, gone)
           /\ Cleared(mem, gone).prov = mem.prov
           /\ DOMAIN Cleared(mem, gone).diags = Texts
           /\ \A f \in Texts :
                  Cleared(mem, gone).diags[f] = IF f \in gone THEN 0 ELSE mem.diags[f]
BY DEF StoresShaped, Cleared

LEMMA ClearedForFullStores ==
    ASSUME NEW stores, {"diags", "prov"} \subseteq DOMAIN stores
    PROVE  /\ {"diags", "prov"} \subseteq DOMAIN ClearedForFull(stores)
           /\ ClearedForFull(stores).prov = NoProvenance
           /\ ClearedForFull(stores).diags = NoDiags
BY DEF ClearedForFull

LEMMA InitArtifacts == ArtifactsInit => ArtifactsInv
<1>1. SUFFICES ASSUME ArtifactsInit PROVE ArtifactsInv
  OBVIOUS
<1>2. StoresShaped /\ ProvenanceStands
  BY <1>1, NoProvenanceShaped
  DEF ArtifactsInit, EmptyStores, StoresShaped, ProvenanceStands, NoDiags
<1>3. ArtifactsShaped
  BY <1>1 DEF ArtifactsInit, ArtifactsShaped, ArtifactNames, Whole
<1>4. AuditStands /\ HandShaped
  BY <1>1 DEF ArtifactsInit, AuditStands, HandShaped, NoJob
<1>5. QED
  BY <1>2, <1>3, <1>4 DEF ArtifactsInv

\* What a start loads has provenance of which nothing is current.
LEMMA LoadedShaped ==
    ASSUME ArtifactsShaped, mem' = Loaded
    PROVE  StoresShaped' /\ ProvenanceStands'
<1>1. /\ {"diags", "prov"} \subseteq DOMAIN mem'
      /\ mem'.prov = Cached(Read("prov", NoProvenance))
      /\ mem'.diags = Read("diags", NoDiags)
  BY DEF Loaded, LoadedDiagnostics
<1>2. IsProvenance(Read("prov", NoProvenance))
  BY NoProvenanceShaped DEF ArtifactsShaped, Read
<1>3. DOMAIN mem'.diags = Texts
  BY <1>1 DEF ArtifactsShaped, Read, NoDiags
<1>4. QED
  BY <1>1, <1>2, <1>3, CachedShaped DEF StoresShaped, ProvenanceStands

LEMMA ChangedKeeps ==
    ASSUME ArtifactsInv, Changed
    PROVE  ArtifactsInv'
<1>1. StoresShaped' /\ ProvenanceStands'
  BY MemoryStays DEF ArtifactsInv, Changed
<1>2. QED
  BY <1>1 DEF ArtifactsInv, Changed, ArtifactsShaped, HandShaped, AuditStands

LEMMA StartProgramKeeps ==
    ASSUME ArtifactsInv, StartProgram
    PROVE  ArtifactsInv'
<1>1. StoresShaped' /\ ProvenanceStands'
  BY LoadedShaped DEF StartProgram, ArtifactsInv
<1>2. ArtifactsShaped'
  BY DEF StartProgram, ArtifactsInv, ArtifactsShaped
<1>3. job'.forced = (art.diags = Missing)
  BY DEF StartProgram, NoJob
<1>4. UNCHANGED <<text, args, art>> /\ audit' = RefreshIntent /\ mem' = Loaded
  BY DEF StartProgram
<1>5. RefreshIntent' = RefreshIntent /\ Loaded' = Loaded
  BY <1>4 DEF RefreshIntent, Loaded, Trusted, Ready, HeaderChanged, Differing, Gone, There,
              Read, ReadTrusted, LoadedDiagnostics, LoadedSymbols, LoadedTokens, LoadedUnits,
              LoadedGraph, LoadedLibrary
<1>6. AuditStands'
  BY <1>3, <1>4, <1>5 DEF AuditStands
<1>7. HandShaped'
  BY EmptyHand DEF StartProgram, NoJob
<1>8. QED
  BY <1>1, <1>2, <1>6, <1>7 DEF ArtifactsInv

LEMMA FullRunKeeps ==
    ASSUME NEW stores, {"diags", "prov"} \subseteq DOMAIN stores, FullRun(stores)
    PROVE  StoresShaped' /\ ProvenanceStands' /\ HandShaped'
<1>1. StoresShaped' /\ ProvenanceStands'
  BY ClearedForFullStores, NoProvenanceShaped
  DEF FullRun, StoresShaped, ProvenanceStands, NoDiags
<1>2. HandShaped'
  BY EmptyHand DEF FullRun, NoJob
<1>3. QED
  BY <1>1, <1>2

LEMMA BeginRunKeeps ==
    ASSUME ArtifactsInv, job.hand = {}, NEW forced, BeginRun(forced)
    PROVE  ArtifactsInv'
<1>1. StoresShaped' /\ ProvenanceStands' /\ HandShaped'
  <2>1. CASE FullRun(mem)
    BY <2>1, FullRunKeeps DEF ArtifactsInv, StoresShaped
  <2>2. CASE FullRun(Cleared(mem, Gone))
    BY <2>2, FullRunKeeps, ClearedStores DEF ArtifactsInv
  <2>3. CASE IncrementalRun
    <3>1. StoresShaped' /\ ProvenanceStands'
      BY <2>3, ClearedStores
      DEF IncrementalRun, ArtifactsInv, StoresShaped, ProvenanceStands
    <3>2. HandShaped'
      BY <2>3, EmptyHand DEF IncrementalRun, NoJob
    <3>3. QED
      BY <3>1, <3>2
  <2>4. QED
    BY <2>1, <2>2, <2>3 DEF BeginRun
<1>2. UNCHANGED art /\ audit' = "none"
  BY DEF BeginRun
<1>3. QED
  BY <1>1, <1>2 DEF ArtifactsInv, ArtifactsShaped, AuditStands

LEMMA ForgottenKeeps ==
    ASSUME StoresShaped, ProvenanceStands, NEW f \in Texts, Forgotten(f), job.hand = {}
    PROVE  StoresShaped' /\ ProvenanceStands'
<1> DEFINE stores == Cleared(mem, {f})
           none == [of |-> 0, current |-> FALSE]
<1>1. /\ {"diags", "prov"} \subseteq DOMAIN stores
      /\ stores.prov = mem.prov
      /\ DOMAIN stores.diags = Texts
      /\ \A g \in Texts : stores.diags[g] = IF g \in {f} THEN 0 ELSE mem.diags[g]
  BY ClearedStores
<1>2. mem' = [stores EXCEPT !.prov[f] = none]
  BY DEF Forgotten
<1> HIDE DEF stores
<1>3. /\ {"diags", "prov"} \subseteq DOMAIN mem'
      /\ mem'.prov = [mem.prov EXCEPT ![f] = none]
      /\ mem'.diags = stores.diags
  BY <1>1, <1>2
<1>4. "current" \in DOMAIN none /\ none.current = FALSE
  OBVIOUS
<1> HIDE DEF none
<1>5. QED
  BY <1>1, <1>3, <1>4 DEF StoresShaped, ProvenanceStands, IsProvenance

LEMMA ScanFileKeeps ==
    ASSUME ArtifactsInv, NEW f \in Texts, ScanFile(f)
    PROVE  ArtifactsInv'
<1>1. StoresShaped' /\ ProvenanceStands'
  BY MemoryStays, ForgottenKeeps DEF ScanFile, ArtifactsInv
<1>2. job'.phase = "scan" /\ UNCHANGED art
  BY DEF ScanFile
<1>3. job'.hand \in {ReadAs(f, text[f]), {}} /\ {"hand", "phase"} \subseteq DOMAIN job'
  BY DEF ScanFile, ArtifactsInv, HandShaped
<1>4. HandShaped'
  <2>1. \A h \in ReadAs(f, text[f]) : h = [file |-> f, of |-> text[f], noted |-> FALSE]
    BY DEF ReadAs
  <2>2. \A h \in job'.hand : h = [file |-> f, of |-> text[f], noted |-> FALSE]
    BY <1>3, <2>1
  <2>3. \A h \in job'.hand : h.file \in Texts /\ "noted" \in DOMAIN h /\ ~h.noted
    BY <2>2
  <2>4. QED
    BY <1>2, <1>3, <2>2, <2>3 DEF HandShaped
<1>5. QED
  BY <1>1, <1>2, <1>4 DEF ArtifactsInv, ArtifactsShaped, AuditStands

LEMMA GiveUpFileKeeps ==
    ASSUME ArtifactsInv, NEW h \in job.hand, GiveUpFile(h)
    PROVE  ArtifactsInv'
<1>1. \A g \in job.hand : ~g.noted
  BY DEF GiveUpFile, ArtifactsInv, HandShaped
<1>2. StoresShaped' /\ ProvenanceStands'
  BY <1>1, MemoryStays DEF GiveUpFile, ArtifactsInv
<1>3. HandShaped' /\ job'.phase # "asked" /\ UNCHANGED art
  BY EmptyHand DEF GiveUpFile, ArtifactsInv, HandShaped
<1>4. QED
  BY <1>2, <1>3 DEF ArtifactsInv, ArtifactsShaped, AuditStands

\* The record that now counts is the one whose results are in hand.
LEMMA NoteProvenanceKeeps ==
    ASSUME ArtifactsInv, NEW h \in job.hand, NoteProvenance(h)
    PROVE  ArtifactsInv'
<1> DEFINE noted == [h EXCEPT !.noted = TRUE]
           record == ProvenanceOf(h.of)
<1>1. h.file \in Texts /\ \A g \in job.hand : g = h /\ ~g.noted
  BY DEF NoteProvenance, ArtifactsInv, HandShaped
<1>2. noted.file = h.file /\ noted.of = h.of /\ noted.noted /\ "noted" \in DOMAIN noted
  BY DEF ArtifactsInv, HandShaped
<1>3. "current" \in DOMAIN record /\ record.of = h.of
  BY DEF ProvenanceOf
<1>4. /\ {"diags", "prov"} \subseteq DOMAIN mem'
      /\ mem'.prov = [mem.prov EXCEPT ![h.file] = record]
      /\ mem'.diags = mem.diags
  BY DEF NoteProvenance, ArtifactsInv, StoresShaped
<1>5. /\ job'.hand = {noted}
      /\ {"hand", "phase"} \subseteq DOMAIN job'
      /\ job'.phase = job.phase
  BY DEF NoteProvenance, ArtifactsInv, HandShaped
<1> HIDE DEF noted, record
<1>6. StoresShaped'
  BY <1>3, <1>4 DEF ArtifactsInv, StoresShaped, IsProvenance
<1>7. ProvenanceStands'
  <2>1. SUFFICES ASSUME NEW f \in Texts, mem'.prov[f].current, mem'.diags[f] # 0
                 PROVE  \/ mem'.prov[f].of = mem'.diags[f]
                        \/ noted.file = f /\ noted.noted /\ noted.of = mem'.prov[f].of
    BY <1>5 DEF ProvenanceStands
  <2>2. CASE f = h.file
    BY <2>2, <1>1, <1>2, <1>3, <1>4 DEF ArtifactsInv, StoresShaped, IsProvenance
  <2>3. CASE f # h.file
    <3>1. mem'.prov[f] = mem.prov[f]
      BY <2>3, <1>4 DEF ArtifactsInv, StoresShaped, IsProvenance
    <3>2. mem.prov[f].of = mem.diags[f]
      BY <2>1, <3>1, <1>1, <1>4 DEF ArtifactsInv, ProvenanceStands
    <3>3. QED
      BY <3>1, <3>2, <1>4
  <2>4. QED
    BY <2>2, <2>3
<1>8. HandShaped'
  <2>1. mem'.prov[h.file].of = h.of
    BY <1>1, <1>3, <1>4 DEF ArtifactsInv, StoresShaped, IsProvenance
  <2>2. QED
    BY <1>1, <1>2, <1>5, <2>1 DEF ArtifactsInv, HandShaped
<1>9. job'.phase # "asked" /\ UNCHANGED art
  BY <1>5 DEF NoteProvenance, ArtifactsInv, HandShaped
<1>10. QED
  BY <1>6, <1>7, <1>8, <1>9 DEF ArtifactsInv, ArtifactsShaped, AuditStands

\* The results are stored, of the text that is already on record.
LEMMA StoreResultsKeeps ==
    ASSUME ArtifactsInv, NEW h \in job.hand, StoreResults(h)
    PROVE  ArtifactsInv'
<1>1. h.file \in Texts /\ \A g \in job.hand : g = h
  BY DEF ArtifactsInv, HandShaped
<1>2. /\ {"diags", "prov"} \subseteq DOMAIN mem'
      /\ mem'.prov = mem.prov
      /\ mem'.diags = [mem.diags EXCEPT ![h.file] = h.of]
  BY DEF StoreResults, ArtifactsInv, StoresShaped
<1>3. job'.hand = {} /\ {"hand", "phase"} \subseteq DOMAIN job' /\ job'.phase # "asked"
  BY DEF StoreResults, ArtifactsInv, HandShaped, NoJob
<1>4. StoresShaped'
  BY <1>2 DEF ArtifactsInv, StoresShaped
<1>5. ProvenanceStands'
  <2>1. SUFFICES ASSUME NEW f \in Texts, mem'.prov[f].current, mem'.diags[f] # 0
                 PROVE  mem'.prov[f].of = mem'.diags[f]
    BY DEF ProvenanceStands
  <2>2. CASE f = h.file
    BY <2>2, <1>1, <1>2 DEF StoreResults, ArtifactsInv, StoresShaped, HandShaped
  <2>3. CASE f # h.file
    <3>1. mem'.diags[f] = mem.diags[f] /\ mem'.prov[f] = mem.prov[f]
      BY <2>3, <1>2 DEF ArtifactsInv, StoresShaped
    <3>2. QED
      BY <2>1, <2>3, <3>1, <1>1 DEF ArtifactsInv, ProvenanceStands
  <2>4. QED
    BY <2>2, <2>3
<1>6. HandShaped' /\ UNCHANGED art
  BY <1>3, EmptyHand DEF StoreResults
<1>7. QED
  BY <1>3, <1>4, <1>5, <1>6 DEF ArtifactsInv, ArtifactsShaped, AuditStands

LEMMA AnalyzeFileKeeps ==
    ASSUME ArtifactsInv, AnalyzeFile
    PROVE  ArtifactsInv'
BY GiveUpFileKeeps, NoteProvenanceKeeps, StoreResultsKeeps DEF AnalyzeFile

LEMMA CancelRunKeeps ==
    ASSUME ArtifactsInv, CancelRun
    PROVE  ArtifactsInv'
<1>1. /\ job'.phase # "asked"
      /\ UNCHANGED <<mem, art>>
      /\ job'.hand = job.hand
  BY DEF CancelRun
<1>2. StoresShaped' /\ ProvenanceStands'
  BY <1>1, MemoryStays DEF ArtifactsInv
<1>3. HandShaped'
  BY <1>1 DEF CancelRun, ArtifactsInv, HandShaped
<1>4. QED
  BY <1>1, <1>2, <1>3 DEF ArtifactsInv, ArtifactsShaped, AuditStands

LEMMA ScanEndsKeeps ==
    ASSUME ArtifactsInv, ScanEnds
    PROVE  ArtifactsInv'
<1>1. /\ job'.phase # "asked"
      /\ UNCHANGED <<mem, art>>
      /\ job'.hand = job.hand
  BY DEF ScanEnds
<1>2. StoresShaped' /\ ProvenanceStands'
  BY <1>1, MemoryStays DEF ArtifactsInv
<1>3. HandShaped'
  BY <1>1 DEF ScanEnds, ArtifactsInv, HandShaped
<1>4. QED
  BY <1>1, <1>2, <1>3 DEF ArtifactsInv, ArtifactsShaped, AuditStands

\* What is written of the two is what is in memory.
LEMMA WriteArtifactKeeps ==
    ASSUME ArtifactsInv, WriteArtifact
    PROVE  ArtifactsInv'
<1> DEFINE name == job.writes[1]
<1>0. /\ job.hand = {} /\ job'.hand = {}
      /\ {"hand", "phase"} \subseteq DOMAIN job'
      /\ job'.phase # "asked"
  BY DEF WriteArtifact, NoJob, ArtifactsInv, HandShaped
<1>1. ASSUME BuildLibrary, UNCHANGED art
      PROVE  StoresShaped' /\ ArtifactsShaped' /\ ProvenanceStands'
  <2>1. PICK listed : mem' = [mem EXCEPT !.library = listed]
    BY <1>1 DEF BuildLibrary
  <2>2. /\ {"diags", "prov"} \subseteq DOMAIN mem'
        /\ mem'.prov = mem.prov
        /\ mem'.diags = mem.diags
    BY <2>1 DEF ArtifactsInv, StoresShaped
  <2>3. QED
    BY <1>0, <1>1, <2>2 DEF ArtifactsInv, StoresShaped, ArtifactsShaped, ProvenanceStands
<1>2. ASSUME art' = [art EXCEPT ![name] = Written(name)], UNCHANGED mem
      PROVE  StoresShaped' /\ ArtifactsShaped' /\ ProvenanceStands'
  <2>1. Written("prov") = mem.prov /\ Written("diags") = mem.diags
    BY DEF Written
  <2>2. /\ DOMAIN art' = ArtifactNames
        /\ art'.prov \in {art.prov, mem.prov}
        /\ art'.diags \in {art.diags, mem.diags}
    BY <1>2, <2>1 DEF ArtifactsInv, ArtifactsShaped
  <2>3. ArtifactsShaped'
    BY <2>2 DEF ArtifactsInv, ArtifactsShaped, StoresShaped
  <2>4. QED
    BY <1>0, <1>2, <2>3, MemoryStays DEF ArtifactsInv
<1>3. StoresShaped' /\ ArtifactsShaped' /\ ProvenanceStands'
  BY <1>1, <1>2 DEF WriteArtifact, ArtifactsInv
<1>4. QED
  BY <1>0, <1>3, EmptyHand DEF ArtifactsInv, AuditStands

LEMMA AnalyzeBufferKeeps ==
    ASSUME ArtifactsInv, NEW f \in CFiles, AnalyzeBuffer(f)
    PROVE  ArtifactsInv'
<1>1. f \in Texts
  BY DEF Texts
<1>2. job.hand = {} /\ UNCHANGED <<mem, art>>
  BY DEF AnalyzeBuffer, ArtifactsInv, HandShaped
<1>3. StoresShaped' /\ ProvenanceStands'
  BY <1>2, MemoryStays DEF ArtifactsInv
<1>4. /\ job'.phase = "live"
      /\ job'.hand = ReadAs(f, MaxChanges + 2)
      /\ {"hand", "phase"} \subseteq DOMAIN job'
  BY DEF AnalyzeBuffer, NoJob
<1>5. HandShaped'
  BY <1>1, <1>4 DEF HandShaped, ReadAs
<1>6. QED
  BY <1>2, <1>3, <1>4, <1>5 DEF ArtifactsInv, ArtifactsShaped, AuditStands

\* The program is not running: nothing is in memory.
LEMMA EndedKeeps ==
    ASSUME mem' = EmptyStores, audit' = "none", job' = NoJob("off"), ArtifactsShaped'
    PROVE  ArtifactsInv'
<1>1. StoresShaped' /\ ProvenanceStands'
  BY NoProvenanceShaped DEF EmptyStores, StoresShaped, ProvenanceStands, NoDiags
<1>2. HandShaped'
  BY EmptyHand DEF NoJob
<1>3. QED
  BY <1>1, <1>2 DEF ArtifactsInv, AuditStands

LEMMA DieKeeps ==
    ASSUME ArtifactsInv, Die
    PROVE  ArtifactsInv'
<1>1. PICK name : UNCHANGED art \/ art' = [art EXCEPT ![name] = Torn]
  BY DEF Die
<1>2. /\ DOMAIN art' = ArtifactNames
      /\ art'.prov \in {art.prov, Torn}
      /\ art'.diags \in {art.diags, Torn}
  BY <1>1 DEF ArtifactsInv, ArtifactsShaped, ArtifactNames
<1>3. ArtifactsShaped'
  BY <1>2 DEF ArtifactsInv, ArtifactsShaped, Whole
<1>4. QED
  BY <1>3, EndedKeeps DEF Die

LEMMA ShutDownKeeps ==
    ASSUME ArtifactsInv, ShutDown
    PROVE  ArtifactsInv'
<1>1. art' = [art EXCEPT !.diags = Flat]
  BY DEF ShutDown
<1>2. DOMAIN art' = ArtifactNames /\ art'.prov = art.prov
  BY <1>1 DEF ArtifactsInv, ArtifactsShaped
<1>3. art'.diags = Flat
  BY <1>1 DEF ArtifactsInv, ArtifactsShaped, ArtifactNames
<1>4. ArtifactsShaped'
  BY <1>2, <1>3 DEF ArtifactsInv, ArtifactsShaped, Whole
<1>5. QED
  BY <1>4, EndedKeeps DEF ShutDown

LEMMA ArtifactsStep == ArtifactsInv /\ [ArtifactsNext]_artifactVars => ArtifactsInv'
<1>1. SUFFICES ASSUME ArtifactsInv, [ArtifactsNext]_artifactVars PROVE ArtifactsInv'
  OBVIOUS
<1>2. CASE UNCHANGED artifactVars
  BY <1>1, <1>2
  DEF artifactVars, ArtifactsInv, StoresShaped, ArtifactsShaped, HandShaped, ProvenanceStands,
      AuditStands,
      RefreshIntent, Loaded, Trusted, Ready, HeaderChanged, Differing, Gone, There, Read,
      ReadTrusted, LoadedDiagnostics, LoadedSymbols, LoadedTokens, LoadedUnits, LoadedGraph,
      LoadedLibrary
<1>3. CASE (\E f \in Texts : ChangeText(f)) \/ ChangeArguments
  BY <1>1, <1>3, ChangedKeeps DEF ChangeText, ChangeArguments
<1>4. CASE FirstRunBegins \/ LaterRunBegins
  <2>1. job.hand = {}
    BY <1>1, <1>4 DEF FirstRunBegins, LaterRunBegins, ArtifactsInv, HandShaped
  <2>2. QED
    BY <1>1, <1>4, <2>1, BeginRunKeeps DEF FirstRunBegins, LaterRunBegins
<1>5. QED
  BY <1>1, <1>2, <1>3, <1>4, StartProgramKeeps, ScanFileKeeps, AnalyzeFileKeeps,
     CancelRunKeeps, ScanEndsKeeps, WriteArtifactKeeps, AnalyzeBufferKeeps, DieKeeps, ShutDownKeeps DEF ArtifactsNext

\* What the two invariants below rest on, however the program ends and
\* whatever it left of its artifacts.
THEOREM ArtifactsInvariant == ArtifactsSpec => []ArtifactsInv
BY InitArtifacts, ArtifactsStep, PTL DEF ArtifactsSpec

\* Provenance that counts as current is about the text the diagnostics of its
\* file were made from, but for the file whose results the worker has yet to
\* store (project_scan.c:364 and :371), though an incremental run saves new
\* diagnostics beside old provenance (analysis_provenance_store.c:413).
THEOREM ProvenanceIsCurrent == ArtifactsSpec => []ProvenanceStands
<1>1. ArtifactsInv => ProvenanceStands
  BY DEF ArtifactsInv
<1>2. QED
  BY <1>1, ArtifactsInvariant, PTL

\* A run that is full where the audit did not say so had no baseline.
LEMMA AuditGoesFirst ==
    ASSUME ArtifactsInv, FirstRunBegins, audit \in {"targets", "noop"},
           \A name \in ArtifactNames : art[name] \notin {Torn, Flat},
           {} \notin {art.symbols, art.graph, art.library}, art.diags # NoDiags
    PROVE  ~job'.full
<1>1. audit = RefreshIntent /\ mem = Loaded /\ job.forced = (art.diags = Missing)
  BY DEF ArtifactsInv, AuditStands, FirstRunBegins
<1>2. /\ Whole(art.index) /\ Trusted
      /\ \A name \in {"diags", "symbols", "library"} : Ready(name)
      /\ HeaderChanged => Ready("graph")
  BY <1>1 DEF RefreshIntent
<1>3. /\ Whole(art.diags) /\ Whole(art.symbols) /\ Whole(art.library)
      /\ HeaderChanged => Whole(art.graph)
  BY <1>2 DEF Ready, Whole, ArtifactNames
<1>4. /\ mem.diags = Read("diags", NoDiags)
      /\ mem.symbols = Read("symbols", {})
      /\ mem.library = ReadTrusted("library", {})
      /\ mem.graph = ReadTrusted("graph", {})
  BY <1>1 DEF Loaded, LoadedDiagnostics, LoadedSymbols, LoadedLibrary, LoadedGraph
<1>5. /\ mem.diags = art.diags /\ mem.symbols = art.symbols /\ mem.library = art.library
      /\ HeaderChanged => mem.graph = art.graph
  BY <1>2, <1>3, <1>4 DEF Read, ReadTrusted
<1>6. ~NoBaseline /\ ~(mem.graph = {} /\ HeaderChanged)
  BY <1>5 DEF NoBaseline
<1>7. ~job.forced
  BY <1>1, <1>3 DEF Whole
<1>8. IncrementalRun
  BY <1>2, <1>6, <1>7 DEF FirstRunBegins, BeginRun
<1>9. job'.full = FALSE
  BY <1>8 DEF IncrementalRun, NoJob
<1>10. QED
  BY <1>9

\* The audit and the run decide the same way, in code of their own: a run the
\* audit announced as incremental is not a full one
\* (analysis_startup_audit.c, analysis_job.c).
THEOREM AuditIsFollowed == ArtifactsSpec => AuditFollowed
<1> DEFINE A == /\ job.phase = "asked" /\ job'.phase = "scan"
                /\ audit \in {"targets", "noop"}
                /\ \A name \in ArtifactNames : art[name] \notin {Torn, Flat}
                /\ {} \notin {art.symbols, art.graph, art.library} /\ art.diags # NoDiags
                => ~job'.full
<1>1. ArtifactsInv /\ [ArtifactsNext]_artifactVars => [A]_artifactVars
  <2>1. SUFFICES ASSUME ArtifactsInv, ArtifactsNext, job.phase = "asked", job'.phase = "scan"
                 PROVE  FirstRunBegins
    BY AuditGoesFirst
  <2>2. ~ \E f \in Texts : ChangeText(f)
    BY <2>1 DEF ChangeText, Changed
  <2>3. ~ChangeArguments /\ ~StartProgram /\ ~LaterRunBegins /\ ~CancelRun /\ ~ScanEnds
    BY <2>1 DEF ChangeArguments, Changed, StartProgram, LaterRunBegins, CancelRun, ScanEnds
  <2>4. (~ \E f \in Texts : ScanFile(f)) /\ (~ \E f \in CFiles : AnalyzeBuffer(f)) /\ ~AnalyzeFile
    BY <2>1 DEF ScanFile, AnalyzeBuffer, AnalyzeFile, ArtifactsInv, HandShaped
  <2>5. ~WriteArtifact /\ ~Die /\ ~ShutDown
    BY <2>1 DEF WriteArtifact, Die, ShutDown, NoJob
  <2>6. QED
    BY <2>1, <2>2, <2>3, <2>4, <2>5 DEF ArtifactsNext
<1>2. QED
  BY <1>1, ArtifactsInvariant, PTL DEF ArtifactsSpec, AuditFollowed

-----------------------------------------------------------------------------
(* The builds and the lists (BuildSystem, DiagnosticLists).                *)

Reading == [state : {"free", "busy", "done", "late"}, root : Roots, stale : BOOLEAN,
            bytes : Seq(Row)]

ListsTyped ==
    /\ projectRoot \in Roots
    /\ unnoticed \in BOOLEAN
    /\ rows \in [Kinds -> Seq(Row)]
    /\ reads \in [Kinds -> [Slots -> Reading]]
    /\ files \in [Kinds -> [Roots -> Seq(Row)]]
    /\ shell \in Roots \cup {NoTarget}
    /\ client \in Roots \cup {NoTarget}

(* A read that will be published, unless something outdates it first.      *)
Awaited(slots) == {s \in Slots : slots[s].state \in {"busy", "done"} /\ ~slots[s].stale}

(* What is awaited is of the workspace that is open ...                    *)
AwaitedAreOwn ==
    ~unnoticed => \A k \in Kinds : \A s \in Awaited(reads[k]) : reads[k][s].root = projectRoot

(* ... and for the engine's list only while nothing was reported.          *)
AwaitedAreAlone ==
    Awaited(reads["analysis"]) # {} => Restored("analysis") = DOMAIN rows["analysis"]

BuildInv ==
    /\ ListsTyped
    /\ AwaitedAreOwn
    /\ AwaitedAreAlone
    /\ RestoredRowsStand

LEMMA RowsAre ==
    ASSUME NEW of \in Roots
    PROVE  Reported(of) \in Row /\ Reported(of).from = NotRestored
BY DEF Reported, Row

\* A list is cut to the room there is.
LEMMA FittingIsFront ==
    ASSUME NEW list \in Seq(Row)
    PROVE  /\ Fitting(list) \in Seq(Row)
           /\ DOMAIN Fitting(list) \subseteq DOMAIN list
           /\ \A i \in DOMAIN Fitting(list) : Fitting(list)[i] = list[i]
<1> DEFINE n == IF Len(list) > ListRoom THEN ListRoom ELSE Len(list)
<1>1. n \in Nat /\ n <= Len(list)
  BY ListsAssumption, LenProperties
<1>2. Fitting(list) = SubSeq(list, 1, n)
  BY DEF Fitting
<1> HIDE DEF n
<1>3. \A i \in 1..n : list[i] \in Row
  BY <1>1, ElementOfSeq
<1>4. /\ Fitting(list) \in Seq(Row)
      /\ Len(Fitting(list)) = n
      /\ \A i \in 1..n : Fitting(list)[i] = list[i]
  BY <1>1, <1>2, <1>3, SubSeqProperties
<1>5. QED
  BY <1>1, <1>4, LenProperties

LEMMA OutdatedReads ==
    ASSUME NEW slots \in [Slots -> Reading]
    PROVE  /\ Outdated(slots) \in [Slots -> Reading]
           /\ Awaited(Outdated(slots)) = {}
BY DEF Outdated, Reading, Awaited

LEMMA NoReadIs == projectRoot \in Roots => NoRead \in Reading /\ NoRead.state = "free"
<1>1. SUFFICES ASSUME projectRoot \in Roots PROVE NoRead \in Reading /\ NoRead.state = "free"
  OBVIOUS
<1>2. (CHOOSE r \in Roots : TRUE) \in Roots
  BY <1>1
<1>3. NoRows \in Seq(Row)
  BY DEF NoRows
<1>4. QED
  BY <1>2, <1>3 DEF NoRead, Reading

\* Collecting frees readers that are done and leaves the others.
LEMMA CollectedReads ==
    ASSUME projectRoot \in Roots, NEW slots \in [Slots -> Reading]
    PROVE  /\ Collected(slots) \in [Slots -> Reading]
           /\ \A s \in Awaited(Collected(slots)) :
                  s \in Awaited(slots) /\ Collected(slots)[s] = slots[s]
BY NoReadIs DEF Collected, Awaited

\* A reader is started of the workspace given, the others stay.
LEMMA WithReaderReads ==
    ASSUME projectRoot \in Roots, NEW slots \in [Slots -> Reading], NEW root \in Roots
    PROVE  /\ WithReader(slots, root) \in [Slots -> Reading]
           /\ \A s \in Awaited(WithReader(slots, root)) :
                  \/ s \in Awaited(slots) /\ WithReader(slots, root)[s] = slots[s]
                  \/ WithReader(slots, root)[s].root = root
<1> DEFINE started == [NoRead EXCEPT !.state = "busy", !.root = root]
<1>1. started \in Reading /\ started.root = root
  BY NoReadIs DEF Reading
<1>2. CASE FreeSlots(slots) = {}
  BY <1>2 DEF WithReader
<1>3. CASE FreeSlots(slots) # {}
  <2>1. WithReader(slots, root) = [slots EXCEPT ![FirstFree(slots)] = started]
    BY <1>3 DEF WithReader
  <2> HIDE DEF started
  <2>2. QED
    BY <1>1, <2>1 DEF Awaited
<1>4. QED
  BY <1>2, <1>3

\* After a load nothing is awaited but of the workspace that is open.
LEMMA LoadedReads ==
    ASSUME projectRoot \in Roots, NEW slots \in [Slots -> Reading],
           NEW after \in ReadsAfterLoad(slots, projectRoot)
    PROVE  /\ after \in [Slots -> Reading]
           /\ \A s \in Awaited(after) : after[s].root = projectRoot
<1> DEFINE collected == Collected(Outdated(slots))
<1>1. collected \in [Slots -> Reading] /\ Awaited(collected) = {}
  BY OutdatedReads, CollectedReads
<1>2. after \in {collected, WithReader(collected, projectRoot)}
  BY DEF ReadsAfterLoad
<1> HIDE DEF collected
<1>3. QED
  BY <1>1, <1>2, WithReaderReads

-----------------------------------------------------------------------------
\* The build's list changes: rows are reported, or it is cleared.
LEMMA BuildRowsChange ==
    ASSUME BuildInv, ListsTyped', UNCHANGED <<projectRoot, unnoticed>>,
           rows'["analysis"] = rows["analysis"], reads'["analysis"] = reads["analysis"],
           reads'["build"] \in {reads["build"], Outdated(reads["build"])},
           \A i \in DOMAIN rows'["build"] :
               \/ rows'["build"][i].from = NotRestored
               \/ i \in DOMAIN rows["build"] /\ rows'["build"][i] = rows["build"][i]
    PROVE  BuildInv'
<1>1. reads["build"] \in [Slots -> Reading]
  BY DEF BuildInv, ListsTyped, Kinds
<1>2. \A s \in Awaited(reads'["build"]) :
          s \in Awaited(reads["build"]) /\ reads'["build"] = reads["build"]
  BY <1>1, OutdatedReads
<1>3. AwaitedAreOwn'
  BY <1>2 DEF BuildInv, AwaitedAreOwn, Kinds
<1>4. Restored("analysis")' = Restored("analysis")
  BY DEF Restored
<1>5. AwaitedAreAlone'
  BY <1>4 DEF BuildInv, AwaitedAreAlone
<1>6. RestoredRowsStand'
  BY <1>4 DEF BuildInv, RestoredRowsStand, Restored, Kinds
<1>7. QED
  BY <1>3, <1>5, <1>6 DEF BuildInv

\* None of the lists changes.
LEMMA ListsStay ==
    ASSUME BuildInv, UNCHANGED <<projectRoot, unnoticed, rows, reads, files>>,
           shell' \in Roots \cup {NoTarget}, client' \in Roots \cup {NoTarget}
    PROVE  BuildInv'
BY DEF BuildInv, ListsTyped, AwaitedAreOwn, AwaitedAreAlone, RestoredRowsStand, Restored

LEMMA InitBuild == BuildInit => BuildInv
<1>1. SUFFICES ASSUME BuildInit PROVE BuildInv
  OBVIOUS
<1>2. projectRoot \in Roots
  BY <1>1 DEF BuildInit, ListsInit
<1>3. NoRows \in Seq(Row) /\ DOMAIN NoRows = {}
  BY DEF NoRows
<1>4. ListsTyped
  BY <1>1, <1>2, <1>3, NoReadIs DEF BuildInit, ListsInit, ListsTyped, NoBuild
<1>5. \A k \in Kinds : rows[k] = NoRows /\ reads[k] = [s \in Slots |-> NoRead]
  BY <1>1 DEF BuildInit, ListsInit
<1>6. \A k \in Kinds : Awaited(reads[k]) = {} /\ Restored(k) = {}
  BY <1>2, <1>3, <1>5, NoReadIs DEF Awaited, Restored
<1>7. QED
  BY <1>4, <1>6 DEF BuildInv, AwaitedAreOwn, AwaitedAreAlone, RestoredRowsStand, Kinds

\* A line of a build that is a diagnostic.
LEMMA AddRowKeeps ==
    ASSUME BuildInv, NEW of \in Roots, AddRow(Reported(of)),
           UNCHANGED <<projectRoot, unnoticed, files>>,
           shell' \in Roots \cup {NoTarget}, client' \in Roots \cup {NoTarget}
    PROVE  BuildInv'
<1> DEFINE longer == Append(rows["build"], Reported(of))
<1>1. rows["build"] \in Seq(Row) /\ Reported(of) \in Row /\ Reported(of).from = NotRestored
  BY RowsAre DEF BuildInv, ListsTyped, Kinds
<1>2. /\ longer \in Seq(Row)
      /\ \A i \in DOMAIN longer :
             \/ longer[i].from = NotRestored
             \/ i \in DOMAIN rows["build"] /\ longer[i] = rows["build"][i]
  <2>1. /\ longer \in Seq(Row)
        /\ Len(longer) = Len(rows["build"]) + 1
        /\ \A i \in 1..Len(rows["build"]) : longer[i] = rows["build"][i]
        /\ longer[Len(rows["build"]) + 1] = Reported(of)
    BY <1>1, AppendProperties
  <2> HIDE DEF longer
  <2>2. QED
    BY <1>1, <2>1, LenProperties
<1>3. rows' = [rows EXCEPT !["build"] = Fitting(longer)] /\ reads' = reads
  BY DEF AddRow
<1> HIDE DEF longer
<1>4. /\ Fitting(longer) \in Seq(Row)
      /\ \A i \in DOMAIN Fitting(longer) : i \in DOMAIN longer /\ Fitting(longer)[i] = longer[i]
  BY <1>2, FittingIsFront
<1>5. /\ rows' \in [Kinds -> Seq(Row)]
      /\ rows'["build"] = Fitting(longer)
      /\ rows'["analysis"] = rows["analysis"]
  BY <1>3, <1>4 DEF BuildInv, ListsTyped, Kinds
<1>6. ListsTyped'
  BY <1>3, <1>5 DEF BuildInv, ListsTyped
<1>7. QED
  BY <1>2, <1>3, <1>4, <1>5, <1>6, BuildRowsChange

\* A build begins or has run: of what was awaited nothing is published.
LEMMA NewBuildRowsKeep ==
    ASSUME BuildInv, NEW list \in Seq(Row), \A i \in DOMAIN list : list[i].from = NotRestored,
           rows' = [rows EXCEPT !["build"] = list],
           reads' = [reads EXCEPT !["build"] = Outdated(@)],
           files' \in [Kinds -> [Roots -> Seq(Row)]],
           UNCHANGED <<projectRoot, unnoticed>>,
           shell' \in Roots \cup {NoTarget}, client' \in Roots \cup {NoTarget}
    PROVE  BuildInv'
<1>1. reads["build"] \in [Slots -> Reading] /\ Outdated(reads["build"]) \in [Slots -> Reading]
  BY OutdatedReads DEF BuildInv, ListsTyped, Kinds
<1>2. /\ rows'["build"] = list /\ rows'["analysis"] = rows["analysis"]
      /\ reads'["build"] = Outdated(reads["build"]) /\ reads'["analysis"] = reads["analysis"]
  BY DEF BuildInv, ListsTyped, Kinds
<1>3. ListsTyped'
  BY <1>1 DEF BuildInv, ListsTyped, Kinds
<1>4. QED
  BY <1>2, <1>3, BuildRowsChange

LEMMA ClearBuildKeeps ==
    ASSUME BuildInv, ClearRows("build"), UNCHANGED <<projectRoot, unnoticed, files>>,
           shell' \in Roots \cup {NoTarget}, client' \in Roots \cup {NoTarget}
    PROVE  BuildInv'
<1>1. NoRows \in Seq(Row) /\ \A i \in DOMAIN NoRows : NoRows[i].from = NotRestored
  BY DEF NoRows
<1>2. files' \in [Kinds -> [Roots -> Seq(Row)]]
  BY DEF BuildInv, ListsTyped
<1>3. QED
  BY <1>1, <1>2, NewBuildRowsKeep DEF ClearRows

LEMMA TriggerBuildKeeps ==
    ASSUME BuildInv, TriggerBuild
    PROVE  BuildInv'
<1>1. /\ UNCHANGED <<projectRoot, unnoticed, client>>
      /\ client' \in Roots \cup {NoTarget}
      /\ projectRoot \in Roots
  BY DEF TriggerBuild, BuildInv, ListsTyped
<1>2. CASE BuildByPipe
  <2>1. PICK printed \in {0, ListRoom} :
            LET list == [i \in 1..printed |-> Reported(projectRoot)]
            IN /\ rows' = [rows EXCEPT !["build"] = list]
               /\ files' = [files EXCEPT !["build"][projectRoot] = list]
    BY <1>2 DEF BuildByPipe
  <2> DEFINE list == [i \in 1..printed |-> Reported(projectRoot)]
  <2>2. printed \in Nat
    BY ListsAssumption
  <2>3. list \in Seq(Row) /\ \A i \in DOMAIN list : list[i].from = NotRestored
    BY <1>1, <2>2, RowsAre
  <2>4. /\ rows' = [rows EXCEPT !["build"] = list]
        /\ files' = [files EXCEPT !["build"][projectRoot] = list]
        /\ reads' = [reads EXCEPT !["build"] = Outdated(@)]
        /\ shell' \in Roots \cup {NoTarget}
    BY <1>2, <2>1 DEF BuildByPipe, BuildInv, ListsTyped
  <2> HIDE DEF list
  <2>5. files' \in [Kinds -> [Roots -> Seq(Row)]]
    BY <1>1, <2>3, <2>4 DEF BuildInv, ListsTyped
  <2>6. QED
    BY <1>1, <2>3, <2>4, <2>5, NewBuildRowsKeep
<1>3. CASE BuildInShell \/ BuildNotPossible
  <2>1. /\ ClearRows("build") /\ UNCHANGED files
        /\ shell' \in Roots \cup {NoTarget}
    BY <1>1, <1>3 DEF BuildInShell, BuildNotPossible, NoBuild, BuildInv, ListsTyped
  <2>2. QED
    BY <1>1, <2>1, ClearBuildKeeps
<1>4. QED
  BY <1>2, <1>3 DEF TriggerBuild

\* What was awaited is awaited, with what it read.
LEMMA ReaderEndsKeeps ==
    ASSUME BuildInv, NEW k \in Kinds, NEW s \in Slots, ReaderEnds(k, s), UNCHANGED buildVars
    PROVE  BuildInv'
<1>1. UNCHANGED <<projectRoot, unnoticed, rows, files, shell, client>>
  BY DEF ReaderEnds, buildVars
<1>2. reads[k][s] \in Reading /\ reads[k][s].root \in Roots
  BY DEF BuildInv, ListsTyped, Reading
<1>3. PICK ended \in Reading :
          /\ reads' = [reads EXCEPT ![k][s] = ended]
          /\ ended.root = reads[k][s].root /\ ended.stale = reads[k][s].stale
  <2>1. CASE reads' = [reads EXCEPT ![k][s].state = "late"]
    <3> DEFINE late == [reads[k][s] EXCEPT !.state = "late"]
    <3>1. late \in Reading /\ late.root = reads[k][s].root /\ late.stale = reads[k][s].stale
      BY <1>2 DEF Reading
    <3>2. reads' = [reads EXCEPT ![k][s] = late]
      BY <2>1
    <3>3. QED
      BY <3>1, <3>2
  <2>2. ASSUME NEW bytes \in {files[k][reads[k][s].root], NoRows},
               reads' = [reads EXCEPT ![k][s].bytes = bytes, ![k][s].state = "done"]
        PROVE  \E ended \in Reading :
                  /\ reads' = [reads EXCEPT ![k][s] = ended]
                  /\ ended.root = reads[k][s].root /\ ended.stale = reads[k][s].stale
    <3> DEFINE done == [reads[k][s] EXCEPT !.bytes = bytes, !.state = "done"]
    <3>1. bytes \in Seq(Row)
      <4>1. NoRows \in Seq(Row)
        BY DEF NoRows
      <4>2. files[k][reads[k][s].root] \in Seq(Row)
        BY <1>2 DEF BuildInv, ListsTyped
      <4>3. QED
        BY <4>1, <4>2
    <3>2. done \in Reading /\ done.root = reads[k][s].root /\ done.stale = reads[k][s].stale
      BY <1>2, <3>1 DEF Reading
    <3>3. reads' = [reads EXCEPT ![k][s] = done]
      BY <2>2 DEF BuildInv, ListsTyped
    <3>4. QED
      BY <3>2, <3>3
  <2>3. QED
    BY <2>1, <2>2 DEF ReaderEnds
<1>4. reads[k][s].state = "busy"
  BY DEF ReaderEnds
<1>5. /\ reads' \in [Kinds -> [Slots -> Reading]]
      /\ \A l \in Kinds : \A t \in Awaited(reads'[l]) :
             t \in Awaited(reads[l]) /\ reads'[l][t].root = reads[l][t].root
  BY <1>3, <1>4 DEF BuildInv, ListsTyped, Awaited
<1>6. ListsTyped'
  BY <1>1, <1>5 DEF BuildInv, ListsTyped
<1>7. AwaitedAreOwn' /\ AwaitedAreAlone' /\ RestoredRowsStand'
  BY <1>1, <1>5
  DEF BuildInv, AwaitedAreOwn, AwaitedAreAlone, RestoredRowsStand, Restored, Kinds
<1>8. QED
  BY <1>6, <1>7 DEF BuildInv

\* The frame notices another workspace: the lists are loaded anew.
LEMMA LoadKeeps ==
    ASSUME BuildInv, FrameBegins, unnoticed, UNCHANGED <<shell, client>>
    PROVE  BuildInv'
<1>1. /\ unnoticed' = FALSE
      /\ UNCHANGED <<projectRoot, files, shell, client>>
      /\ projectRoot \in Roots
      /\ \A k \in Kinds : reads[k] \in [Slots -> Reading]
  BY DEF FrameBegins, BuildInv, ListsTyped
<1>2. /\ rows' = [k \in Kinds |-> NoRows]
      /\ \E build \in ReadsAfterLoad(reads["build"], projectRoot),
            analysis \in ReadsAfterLoad(reads["analysis"], projectRoot) :
             reads' = [k \in Kinds |-> IF k = "build" THEN build ELSE analysis]
  BY DEF FrameBegins
<1>3. \A k \in Kinds : reads'[k] \in ReadsAfterLoad(reads[k], projectRoot)
  BY <1>2 DEF Kinds
<1>4. \A k \in Kinds : /\ reads'[k] \in [Slots -> Reading]
                       /\ \A s \in Awaited(reads'[k]) : reads'[k][s].root = projectRoot
  BY <1>1, <1>3, LoadedReads
<1>5. NoRows \in Seq(Row) /\ DOMAIN NoRows = {}
  BY DEF NoRows
<1>6. reads' \in [Kinds -> [Slots -> Reading]] /\ rows' \in [Kinds -> Seq(Row)]
  BY <1>2, <1>4, <1>5
<1>7. ListsTyped'
  BY <1>1, <1>6 DEF BuildInv, ListsTyped
<1>8. \A k \in Kinds : DOMAIN rows'[k] = {}
  BY <1>2, <1>5
<1>9. AwaitedAreOwn' /\ AwaitedAreAlone' /\ RestoredRowsStand'
  BY <1>1, <1>4, <1>8
  DEF AwaitedAreOwn, AwaitedAreAlone, RestoredRowsStand, Restored, Kinds
<1>10. QED
  BY <1>7, <1>9 DEF BuildInv

\* A list after what was read has been published.
LEMMA PolledRows ==
    ASSUME BuildInv, ~unnoticed, NEW k \in Kinds
    PROVE  /\ ListAfterPoll(k) \in Seq(Row)
           /\ \A i \in DOMAIN ListAfterPoll(k) :
                  \/ i \in DOMAIN rows[k] /\ ListAfterPoll(k)[i] = rows[k][i]
                  \/ ListAfterPoll(k)[i].from = projectRoot
           /\ \/ ListAfterPoll(k) = rows[k]
              \/ Awaited(reads[k]) # {}
<1> DEFINE published == Publishable(reads[k])
<1>1. rows[k] \in Seq(Row) /\ reads[k] \in [Slots -> Reading] /\ projectRoot \in Roots
  BY DEF BuildInv, ListsTyped
<1>2. CASE published = {}
  BY <1>1, <1>2 DEF ListAfterPoll
<1>3. CASE published # {}
  <2> DEFINE s == CHOOSE t \in published : TRUE
             read == reads[k][s]
             longer == rows[k] \o RestoredFrom(read)
  <2>1. s \in published
    BY <1>3
  <2>2. s \in Slots /\ s \in Awaited(reads[k])
    BY <2>1 DEF Publishable, Awaited
  <2>3. ListAfterPoll(k) = Fitting(longer)
    BY <1>3 DEF ListAfterPoll
  <2> HIDE DEF s
  <2>4. read \in Reading /\ read.root = projectRoot /\ read.bytes \in Seq(Row)
    <3>1. read \in Reading
      BY <1>1, <2>2
    <3>2. read.root = projectRoot
      BY <2>2 DEF BuildInv, AwaitedAreOwn
    <3>3. QED
      BY <3>1, <3>2 DEF Reading
  <2> HIDE DEF read
  <2>5. /\ RestoredFrom(read) \in Seq(Row)
        /\ \A i \in 1..Len(RestoredFrom(read)) : RestoredFrom(read)[i].from = projectRoot
    <3>1. \A i \in DOMAIN read.bytes : read.bytes[i] \in Row
      BY <2>4, LenProperties, ElementOfSeq
    <3>2. \A i \in DOMAIN read.bytes :
              /\ [read.bytes[i] EXCEPT !.from = read.root] \in Row
              /\ [read.bytes[i] EXCEPT !.from = read.root].from = projectRoot
      BY <1>1, <2>4, <3>1 DEF Row
    <3>3. DOMAIN read.bytes = 1..Len(read.bytes) /\ Len(read.bytes) \in Nat
      BY <2>4, LenProperties
    <3>4. RestoredFrom(read) =
              [i \in 1..Len(read.bytes) |-> [read.bytes[i] EXCEPT !.from = read.root]]
      BY <3>3 DEF RestoredFrom
    <3>5. RestoredFrom(read) \in Seq(Row) /\ Len(RestoredFrom(read)) = Len(read.bytes)
      BY <3>2, <3>3, <3>4
    <3>6. QED
      BY <3>2, <3>3, <3>4, <3>5
  <2>6. /\ longer \in Seq(Row)
        /\ \A i \in DOMAIN longer :
               \/ i \in DOMAIN rows[k] /\ longer[i] = rows[k][i]
               \/ longer[i].from = projectRoot
    <3>1. /\ longer \in Seq(Row)
          /\ Len(longer) = Len(rows[k]) + Len(RestoredFrom(read))
          /\ \A i \in 1..(Len(rows[k]) + Len(RestoredFrom(read))) :
                 longer[i] = IF i <= Len(rows[k]) THEN rows[k][i]
                             ELSE RestoredFrom(read)[i - Len(rows[k])]
      BY <1>1, <2>5, ConcatProperties
    <3> HIDE DEF longer
    <3>2. Len(rows[k]) \in Nat /\ Len(RestoredFrom(read)) \in Nat
          /\ DOMAIN longer = 1..Len(longer) /\ DOMAIN rows[k] = 1..Len(rows[k])
      BY <1>1, <2>5, <3>1, LenProperties
    <3>3. ASSUME NEW i \in DOMAIN longer
          PROVE  \/ i \in DOMAIN rows[k] /\ longer[i] = rows[k][i]
                 \/ longer[i].from = projectRoot
      <4>1. CASE i <= Len(rows[k])
        BY <3>1, <3>2, <4>1
      <4>2. CASE i > Len(rows[k])
        <5>1. i - Len(rows[k]) \in 1..Len(RestoredFrom(read))
          BY <3>1, <3>2, <4>2
        <5>2. longer[i] = RestoredFrom(read)[i - Len(rows[k])]
          BY <3>1, <3>2, <4>2
        <5>3. QED
          BY <2>5, <5>1, <5>2
      <4>3. QED
        BY <3>2, <4>1, <4>2
    <3>4. QED
      BY <3>1, <3>3
  <2> HIDE DEF longer
  <2>7. QED
    BY <2>2, <2>3, <2>6, FittingIsFront
<1>4. QED
  BY <1>2, <1>3

\* The frame publishes what was read of the workspace that is open.
LEMMA PublishKeeps ==
    ASSUME BuildInv, FrameBegins, ~unnoticed, UNCHANGED <<shell, client>>
    PROVE  BuildInv'
<1>1. /\ unnoticed' = FALSE
      /\ UNCHANGED <<projectRoot, files, shell, client>>
      /\ projectRoot \in Roots
      /\ \A k \in Kinds : reads[k] \in [Slots -> Reading]
      /\ rows' = [k \in Kinds |-> ListAfterPoll(k)]
      /\ reads' = [k \in Kinds |-> Collected(reads[k])]
  BY DEF FrameBegins, BuildInv, ListsTyped
<1>2. \A k \in Kinds :
          /\ reads'[k] \in [Slots -> Reading]
          /\ \A s \in Awaited(reads'[k]) : s \in Awaited(reads[k]) /\ reads'[k][s] = reads[k][s]
  BY <1>1, CollectedReads
<1>3. \A k \in Kinds :
          /\ rows'[k] \in Seq(Row)
          /\ \A i \in DOMAIN rows'[k] :
                 \/ i \in DOMAIN rows[k] /\ rows'[k][i] = rows[k][i]
                 \/ rows'[k][i].from = projectRoot
          /\ rows'[k] = rows[k] \/ Awaited(reads[k]) # {}
  BY <1>1, PolledRows
<1>4. reads' \in [Kinds -> [Slots -> Reading]] /\ rows' \in [Kinds -> Seq(Row)]
  BY <1>1, <1>2, <1>3
<1>5. ListsTyped'
  BY <1>1, <1>4 DEF BuildInv, ListsTyped
<1>6. AwaitedAreOwn'
  BY <1>1, <1>2 DEF BuildInv, AwaitedAreOwn
<1>7. projectRoot # NotRestored
  BY <1>1, ListsAssumption
<1>8. \A k \in Kinds : \A i \in Restored(k)' : rows'[k][i].from = projectRoot
  BY <1>1, <1>3 DEF BuildInv, RestoredRowsStand, Restored
<1>9. "analysis" \in Kinds
  BY DEF Kinds
<1>10. CASE Awaited(reads["analysis"]) # {}
  <2>1. \A i \in DOMAIN rows["analysis"] : rows["analysis"][i].from # NotRestored
    BY <1>10 DEF BuildInv, AwaitedAreAlone, Restored
  <2>2. \A i \in DOMAIN rows'["analysis"] : rows'["analysis"][i].from # NotRestored
    BY <1>3, <1>7, <1>9, <2>1
  <2>3. Restored("analysis")' = DOMAIN rows'["analysis"]
    BY <2>2 DEF Restored
  <2>4. QED
    BY <1>1, <1>5, <1>6, <1>8, <2>3 DEF BuildInv, AwaitedAreAlone, RestoredRowsStand
<1>11. CASE Awaited(reads["analysis"]) = {}
  <2>1. rows'["analysis"] = rows["analysis"] /\ Awaited(reads'["analysis"]) = {}
    BY <1>2, <1>3, <1>9, <1>11
  <2>2. Restored("analysis")' = Restored("analysis")
    BY <2>1 DEF Restored
  <2>3. Restored("analysis")' \in {{}, DOMAIN rows'["analysis"]}
    BY <2>1, <2>2 DEF BuildInv, RestoredRowsStand
  <2>4. QED
    BY <1>1, <1>5, <1>6, <1>8, <2>1, <2>3 DEF BuildInv, AwaitedAreAlone, RestoredRowsStand
<1>12. QED
  BY <1>10, <1>11

\* A result of the analysis takes the place of the engine's list.
LEMMA FlattenKeeps ==
    ASSUME BuildInv, Flatten, UNCHANGED <<shell, client>>
    PROVE  BuildInv'
<1>1. PICK found \in {0, ListRoom} :
          rows' = [rows EXCEPT !["analysis"] = [i \in 1..found |-> Reported(projectRoot)]]
  BY DEF Flatten
<1> DEFINE list == [i \in 1..found |-> Reported(projectRoot)]
<1>2. projectRoot \in Roots /\ found \in Nat
  BY ListsAssumption DEF BuildInv, ListsTyped
<1>3. list \in Seq(Row) /\ \A i \in DOMAIN list : list[i].from = NotRestored
  BY <1>2, RowsAre
<1>4. /\ rows' = [rows EXCEPT !["analysis"] = list]
      /\ reads' = [reads EXCEPT !["analysis"] = Outdated(@)]
      /\ UNCHANGED <<projectRoot, unnoticed, files, shell, client>>
  BY <1>1 DEF Flatten
<1> HIDE DEF list
<1>5. /\ Outdated(reads["analysis"]) \in [Slots -> Reading]
      /\ Awaited(Outdated(reads["analysis"])) = {}
  BY OutdatedReads DEF BuildInv, ListsTyped, Kinds
<1>6. /\ rows' \in [Kinds -> Seq(Row)] /\ reads' \in [Kinds -> [Slots -> Reading]]
      /\ rows'["analysis"] = list /\ rows'["build"] = rows["build"]
      /\ Awaited(reads'["analysis"]) = {} /\ reads'["build"] = reads["build"]
  BY <1>3, <1>4, <1>5 DEF BuildInv, ListsTyped, Kinds
<1>7. ListsTyped'
  BY <1>4, <1>6 DEF BuildInv, ListsTyped
<1>8. Restored("analysis")' = {}
  BY <1>3, <1>6 DEF Restored
<1>9. Restored("build")' = Restored("build")
  BY <1>6 DEF Restored
<1>10. AwaitedAreOwn' /\ AwaitedAreAlone' /\ RestoredRowsStand'
  BY <1>4, <1>6, <1>8, <1>9
  DEF BuildInv, AwaitedAreOwn, AwaitedAreAlone, RestoredRowsStand, Kinds
<1>11. QED
  BY <1>7, <1>10 DEF BuildInv

\* A file changes, by a run or by the end of the program.
LEMMA SavesKeep ==
    ASSUME BuildInv, UNCHANGED <<projectRoot, unnoticed, rows, reads, shell, client>>,
           files' \in [Kinds -> [Roots -> Seq(Row)]]
    PROVE  BuildInv'
BY DEF BuildInv, ListsTyped, AwaitedAreOwn, AwaitedAreAlone, RestoredRowsStand, Restored

\* Until the next frame has noticed it, nothing is said of the lists.
LEMMA ChooseWorkspaceKeeps ==
    ASSUME BuildInv, NEW root \in Roots, ChooseWorkspace(root)
    PROVE  BuildInv'
<1>1. /\ projectRoot' = root /\ unnoticed' = TRUE
      /\ UNCHANGED <<rows, reads, files, shell, client>>
  BY DEF ChooseWorkspace
<1>2. Restored("analysis")' = Restored("analysis")
  BY <1>1 DEF Restored
<1>3. QED
  BY <1>1, <1>2
  DEF BuildInv, ListsTyped, AwaitedAreOwn, AwaitedAreAlone, RestoredRowsStand

LEMMA RestartKeeps ==
    ASSUME BuildInv, NEW root \in Roots, RestartIde(root)
    PROVE  BuildInv'
<1>1. /\ projectRoot' = root /\ unnoticed' = FALSE
      /\ rows' = [k \in Kinds |-> NoRows]
      /\ reads' = [k \in Kinds |-> WithReader([s \in Slots |-> NoRead], root)]
      /\ shell' = NoTarget /\ client' = NoTarget
  BY DEF RestartIde, NoBuild
<1>2. projectRoot \in Roots /\ rows \in [Kinds -> Seq(Row)]
      /\ files \in [Kinds -> [Roots -> Seq(Row)]]
  BY DEF BuildInv, ListsTyped
<1>3. files' \in [Kinds -> [Roots -> Seq(Row)]]
  <2>1. [k \in Kinds |-> [files[k] EXCEPT ![projectRoot] = rows[k]]]
            \in [Kinds -> [Roots -> Seq(Row)]]
    BY <1>2
  <2>2. QED
    BY <1>2, <2>1 DEF RestartIde
<1> DEFINE none == [s \in Slots |-> NoRead]
           started == WithReader(none, root)
<1>4. none \in [Slots -> Reading] /\ Awaited(none) = {}
  BY <1>2, NoReadIs DEF Awaited
<1> HIDE DEF none
<1>5. started \in [Slots -> Reading] /\ \A s \in Awaited(started) : started[s].root = root
  BY <1>2, <1>4, WithReaderReads
<1>6. \A k \in Kinds : reads'[k] = started
  BY <1>1 DEF none
<1>7. NoRows \in Seq(Row) /\ DOMAIN NoRows = {}
  BY DEF NoRows
<1>8. reads' \in [Kinds -> [Slots -> Reading]] /\ rows' \in [Kinds -> Seq(Row)]
  BY <1>1, <1>5, <1>7 DEF none
<1> HIDE DEF started
<1>9. ListsTyped'
  BY <1>1, <1>3, <1>8 DEF ListsTyped
<1>10. AwaitedAreOwn'
  BY <1>1, <1>5, <1>6 DEF AwaitedAreOwn
<1>11. \A k \in Kinds : DOMAIN rows'[k] = {}
  BY <1>1, <1>7
<1>12. AwaitedAreAlone' /\ RestoredRowsStand'
  BY <1>11 DEF AwaitedAreAlone, RestoredRowsStand, Restored, Kinds
<1>13. QED
  BY <1>9, <1>10, <1>12 DEF BuildInv

LEMMA BuildStep == BuildInv /\ [BuildNext]_allBuildVars => BuildInv'
<1>1. SUFFICES ASSUME BuildInv, [BuildNext]_allBuildVars PROVE BuildInv'
  OBVIOUS
<1>2. /\ shell \in Roots \cup {NoTarget} /\ client \in Roots \cup {NoTarget}
      /\ projectRoot \in Roots /\ files \in [Kinds -> [Roots -> Seq(Row)]]
  BY <1>1 DEF BuildInv, ListsTyped
<1>3. CASE UNCHANGED allBuildVars
  BY <1>1, <1>2, <1>3, ListsStay DEF allBuildVars, listVars, buildVars
<1>4. CASE ListStep
  <2>1. CASE (\E k \in Kinds, s \in Slots : ReaderEnds(k, s)) /\ UNCHANGED buildVars
    BY <1>1, <2>1, ReaderEndsKeeps
  <2>2. CASE FrameBegins /\ UNCHANGED buildVars
    BY <1>1, <2>2, LoadKeeps, PublishKeeps DEF buildVars
  <2>3. CASE Flatten /\ UNCHANGED <<shell, client>>
    BY <1>1, <2>3, FlattenKeeps
  <2>4. ASSUME NEW root \in Roots, RunSavesStore(root), UNCHANGED <<shell, client>>
        PROVE  BuildInv'
    <3>1. NoRows \in Seq(Row)
      BY DEF NoRows
    <3>2. files' \in [Kinds -> [Roots -> Seq(Row)]]
      BY <1>2, <2>4, <3>1 DEF RunSavesStore
    <3>3. QED
      BY <1>1, <2>4, <3>2, SavesKeep DEF RunSavesStore
  <2>5. QED
    BY <1>4, <2>1, <2>2, <2>3, <2>4 DEF ListStep
<1>5. CASE ShellPrints
  BY <1>1, <1>2, <1>5, AddRowKeeps DEF ShellPrints, NoBuild
<1>6. CASE ClientPrints
  BY <1>1, <1>2, <1>6, AddRowKeeps DEF ClientPrints, NoBuild
<1>7. CASE ShellEnds \/ ClientEnds
  BY <1>1, <1>2, <1>7, ListsStay DEF ShellEnds, ClientEnds, listVars, NoBuild
<1>8. CASE ClientBuilds
  BY <1>1, <1>2, <1>8, ClearBuildKeeps DEF ClientBuilds
<1>9. CASE \E root \in Roots : ChooseWorkspace(root) \/ OpenWorkspace(root) \/ RestartIde(root)
  BY <1>1, <1>9, ChooseWorkspaceKeeps, RestartKeeps DEF OpenWorkspace
<1>10. QED
  BY <1>1, <1>3, <1>4, <1>5, <1>6, <1>7, <1>8, <1>9, TriggerBuildKeeps DEF BuildNext

\* What is awaited and what is shown of either list.
THEOREM BuildInvariant == BuildSpec => []BuildInv
BY InitBuild, BuildStep, PTL DEF BuildSpec

\* Whichever of the detached readers ends first, and whatever is cleared,
\* built, chosen or saved meanwhile, the rows restored into a list are of the
\* workspace that is open, and the engine's list shows them alone
\* (build_diagnostics.c:80).
THEOREM RestoredRowsAreOwn == BuildSpec => []RestoredRowsStand
<1>1. BuildInv => RestoredRowsStand
  BY DEF BuildInv
<1>2. QED
  BY <1>1, BuildInvariant, PTL

-----------------------------------------------------------------------------
(* The queue of completed results (CompletedResults).                      *)

(* A producer about to enqueue holds a result that says who made it.       *)
HandsHoldResults ==
    \A p \in Producers : pushing[p].step = "enqueue" =>
        pushing[p].node \in Result /\ pushing[p].node.by = p

(* What is in a queue or staged is there for its own lane.                 *)
InOwnLane ==
    /\ \A l \in Lanes : \A i \in DOMAIN queue[l] : queue[l][i].lane = l
    /\ \A l \in Staged : staged[l].lane = l

(* No two holders of one kind share a number ...                           *)
HoldersDiffer ==
    /\ \A p, q \in Producers :
          /\ pushing[p].step = "enqueue" /\ pushing[q].step = "enqueue"
          /\ pushing[p].node.seq = pushing[q].node.seq
          => p = q
    /\ \A l, m \in Lanes : \A i \in DOMAIN queue[l], j \in DOMAIN queue[m] :
          queue[l][i].seq = queue[m][j].seq => l = m /\ i = j
    /\ \A l, m \in Staged : staged[l].seq = staged[m].seq => l = m
    /\ \A i, j \in DOMAIN delivered : delivered[i].seq = delivered[j].seq => i = j

QueuedSeqs == UNION {Queued(l) : l \in Lanes}

(* ... nor do holders of different kinds ...                               *)
PlacesDisjoint ==
    /\ InHand \cap (QueuedSeqs \cup StagedSeqs \cup DeliveredSeqs \cup RefusedSeqs) = {}
    /\ QueuedSeqs \cap (StagedSeqs \cup DeliveredSeqs \cup RefusedSeqs) = {}
    /\ StagedSeqs \cap (DeliveredSeqs \cup RefusedSeqs) = {}
    /\ DeliveredSeqs \cap RefusedSeqs = {}

(* ... and every number drawn has a holder.                                *)
NumbersHeld ==
    InHand \cup QueuedSeqs \cup StagedSeqs \cup DeliveredSeqs \cup RefusedSeqs
        = 1..(nextSeq - 1)

(* What one thread pushed for one lane stands in the order of its numbers: *)
(* delivered, staged, queued, in hand.                                     *)
Before(r, s) == r.by = s.by /\ r.lane = s.lane => r.seq < s.seq

DeliveredFirst ==
    \A i \in DOMAIN delivered :
        /\ \A j \in DOMAIN delivered : i < j => Before(delivered[i], delivered[j])
        /\ \A l \in Staged : Before(delivered[i], staged[l])
        /\ \A l \in Lanes : \A j \in DOMAIN queue[l] : Before(delivered[i], queue[l][j])

StagedNext ==
    \A l \in Staged : \A m \in Lanes : \A j \in DOMAIN queue[m] :
        Before(staged[l], queue[m][j])

QueuedThen ==
    \A l \in Lanes : \A i, j \in DOMAIN queue[l] :
        i < j => Before(queue[l][i], queue[l][j])

LanesInOrder == DeliveredFirst /\ StagedNext /\ QueuedThen

HandIsLast ==
    \A p \in Producers : pushing[p].step = "enqueue" =>
        LET node == pushing[p].node
        IN  /\ \A i \in DOMAIN delivered : Before(delivered[i], node)
            /\ \A l \in Staged : Before(staged[l], node)
            /\ \A l \in Lanes : \A i \in DOMAIN queue[l] : Before(queue[l][i], node)

(* A front found when the call began is still the front of its lane, and   *)
(* staged once the refill of that lane is over.                            *)
FrontsStand ==
    popStep # 0 => \A s \in fronts : \E i \in 1..3 :
        s \in Front(Refills[i]) /\ (i < popStep => Refills[i] \in Staged)

ResultsInv ==
    /\ ResultsTypeOK
    /\ HandsHoldResults
    /\ InOwnLane
    /\ HoldersDiffer
    /\ PlacesDisjoint
    /\ NumbersHeld
    /\ LanesInOrder
    /\ HandIsLast
    /\ FrontsStand

-----------------------------------------------------------------------------
(* Types, and what each action does to the places a result can be in.      *)

LEMMA NothingIsNoResult == Nothing \notin Result
<1>1. SUFFICES ASSUME Nothing \in Result PROVE FALSE
  OBVIOUS
<1>2. DOMAIN Nothing = {"seq", "by", "lane"}
  BY <1>1 DEF Result
<1>3. DOMAIN Nothing = {"seq"}
  BY DEF Nothing
<1>4. QED
  BY <1>2, <1>3

LEMMA StagedResults ==
    ASSUME ResultsTypeOK
    PROVE  /\ \A l \in Lanes : l \in Staged <=> staged[l] \in Result
           /\ Staged \subseteq Lanes
BY NothingIsNoResult DEF ResultsTypeOK, Staged

LEMMA LaneOfRefill ==
    /\ Refills[1] = "analysis" /\ Refills[2] = "symbols" /\ Refills[3] = "diagnostics"
    /\ \A i \in 1..3 : Refills[i] \in Lanes
    /\ \A i, j \in 1..3 : Refills[i] = Refills[j] => i = j
    /\ \A l \in Lanes : \E i \in 1..3 : l = Refills[i]
    /\ Lanes = {"analysis", "symbols", "diagnostics"}
BY DEF Refills, Lanes

(* The number is drawn: producer p holds a fresh result.                   *)
LEMMA NumberStep ==
    ASSUME ResultsInv, NEW p \in Producers, NEW l \in Lanes, Number(p, l)
    PROVE  LET node == [seq |-> nextSeq, by |-> p, lane |-> l]
           IN  /\ node \in Result
               /\ pushing'[p] = [step |-> "enqueue", node |-> node]
               /\ \A q \in Producers : q # p => pushing'[q] = pushing[q]
               /\ pushing[p].step = "idle"
               /\ nextSeq' = nextSeq + 1
               /\ ResultsTypeOK'
<1> DEFINE node == [seq |-> nextSeq, by |-> p, lane |-> l]
<1>1. node \in Result
  BY DEF Result, ResultsInv, ResultsTypeOK
<1>2. pushing' = [pushing EXCEPT ![p] = [step |-> "enqueue", node |-> node]]
  BY DEF Number
<1>3. [step |-> "enqueue", node |-> node] \in PushState
  BY <1>1 DEF PushState
<1>4. ResultsTypeOK'
  BY <1>2, <1>3 DEF Number, ResultsInv, ResultsTypeOK
<1> HIDE DEF node
<1>5. pushing'[p] = [step |-> "enqueue", node |-> node]
      /\ \A q \in Producers : q # p => pushing'[q] = pushing[q]
  BY <1>2 DEF ResultsInv, ResultsTypeOK
<1>6. QED
  BY <1>1, <1>4, <1>5 DEF Number, node

(* The node moves to the end of its queue.                                 *)
LEMMA EnqueueStep ==
    ASSUME ResultsInv, NEW p \in Producers, Enqueue(p)
    PROVE  LET node == pushing[p].node
               lane == node.lane
           IN  /\ node \in Result /\ node.by = p /\ lane \in Lanes
               /\ pushing[p].step = "enqueue" /\ pushing'[p].step = "count"
               /\ \A q \in Producers : q # p => pushing'[q] = pushing[q]
               /\ \A m \in Lanes : m # lane => queue'[m] = queue[m]
               /\ Len(queue'[lane]) = Len(queue[lane]) + 1
               /\ DOMAIN queue'[lane] = 1..(Len(queue[lane]) + 1)
               /\ \A i \in 1..Len(queue[lane]) : queue'[lane][i] = queue[lane][i]
               /\ queue'[lane][Len(queue[lane]) + 1] = node
               /\ ResultsTypeOK'
<1> DEFINE node == pushing[p].node
           lane == node.lane
<1>1. node \in Result /\ node.by = p /\ lane \in Lanes
  BY DEF Enqueue, ResultsInv, HandsHoldResults, Result
<1>2. /\ pushing[p].step = "enqueue"
      /\ queue' = [queue EXCEPT ![lane] = Append(queue[lane], node)]
      /\ pushing' = [pushing EXCEPT ![p].step = "count"]
      /\ Len(queue[lane]) # LaneCapacity
  BY DEF Enqueue, Full
<1>3. queue[lane] \in Seq(Result) /\ Len(queue[lane]) <= LaneCapacity /\ Len(queue[lane]) \in Nat
  BY <1>1 DEF ResultsInv, ResultsTypeOK
<1>4. /\ Append(queue[lane], node) \in Seq(Result)
      /\ Len(Append(queue[lane], node)) = Len(queue[lane]) + 1
      /\ DOMAIN Append(queue[lane], node) = 1..(Len(queue[lane]) + 1)
      /\ \A i \in 1..Len(queue[lane]) : Append(queue[lane], node)[i] = queue[lane][i]
      /\ Append(queue[lane], node)[Len(queue[lane]) + 1] = node
  BY <1>1, <1>3, SMTT(30)
<1>5. queue'[lane] = Append(queue[lane], node)
      /\ \A m \in Lanes : m # lane => queue'[m] = queue[m]
  BY <1>1, <1>2 DEF ResultsInv, ResultsTypeOK
<1>6. /\ pushing' \in [Producers -> PushState]
      /\ pushing'[p].step = "count"
      /\ \A q \in Producers : q # p => pushing'[q] = pushing[q]
  BY <1>2 DEF ResultsInv, ResultsTypeOK, PushState
<1>7. queue' \in [Lanes -> Seq(Result)]
  BY <1>1, <1>2, <1>4 DEF ResultsInv, ResultsTypeOK
<1>8. \A m \in Lanes : Len(queue'[m]) <= LaneCapacity
  <2>1. Len(queue[lane]) + 1 <= LaneCapacity
    BY <1>2, <1>3, CompletedResultsAssumption
  <2>2. QED
    BY <1>4, <1>5, <2>1 DEF ResultsInv, ResultsTypeOK
<1>9. ResultsTypeOK'
  BY <1>6, <1>7, <1>8 DEF Enqueue, ResultsInv, ResultsTypeOK
<1> HIDE DEF node, lane
<1>10. QED
  BY <1>1, <1>2, <1>4, <1>5, <1>6, <1>9 DEF node, lane

(* The node is released.                                                   *)
LEMMA RefuseStep ==
    ASSUME ResultsInv, NEW p \in Producers, Refuse(p)
    PROVE  /\ pushing[p].node \in Result
           /\ pushing[p].step = "enqueue" /\ pushing'[p].step = "idle"
           /\ \A q \in Producers : q # p => pushing'[q] = pushing[q]
           /\ refused' = refused \cup {pushing[p].node}
           /\ ResultsTypeOK'
<1>1. /\ pushing[p].step = "enqueue"
      /\ pushing' = [pushing EXCEPT ![p] = IdlePush]
      /\ refused' = refused \cup {pushing[p].node}
  BY DEF Refuse
<1>2. pushing[p].node \in Result
  BY <1>1 DEF ResultsInv, HandsHoldResults
<1>3. IdlePush \in PushState
  BY DEF IdlePush, PushState
<1>4. pushing'[p] = IdlePush /\ \A q \in Producers : q # p => pushing'[q] = pushing[q]
  BY <1>1 DEF ResultsInv, ResultsTypeOK
<1>5. ResultsTypeOK'
  BY <1>1, <1>2, <1>3 DEF Refuse, ResultsInv, ResultsTypeOK
<1>6. QED
  BY <1>1, <1>2, <1>4, <1>5 DEF IdlePush

LEMMA CountStep ==
    ASSUME ResultsInv, NEW p \in Producers, Count(p)
    PROVE  /\ pushing[p].step = "count" /\ pushing'[p].step = "idle"
           /\ \A q \in Producers : q # p => pushing'[q] = pushing[q]
           /\ ResultsTypeOK'
<1>1. pushing[p].step = "count" /\ pushing' = [pushing EXCEPT ![p] = IdlePush]
  BY DEF Count
<1>2. IdlePush \in PushState
  BY DEF IdlePush, PushState
<1>3. pushing'[p] = IdlePush /\ \A q \in Producers : q # p => pushing'[q] = pushing[q]
  BY <1>1 DEF ResultsInv, ResultsTypeOK
<1>4. ResultsTypeOK'
  BY <1>1, <1>2 DEF Count, ResultsInv, ResultsTypeOK
<1>5. QED
  BY <1>1, <1>3, <1>4 DEF IdlePush

(* The head of a queue is staged, if the lane has none yet.                *)
Moves(l) == staged[l] = Nothing /\ queue[l] # <<>>

LEMMA RefillStep ==
    ASSUME ResultsInv, Refill
    PROVE  LET l == Refills[popStep]
           IN  /\ popStep \in 1..3 /\ popStep' = popStep + 1 /\ l \in Lanes
               /\ ResultsTypeOK'
               /\ ~Moves(l) => UNCHANGED <<queue, staged>>
               /\ Moves(l) =>
                     /\ Len(queue[l]) >= 1
                     /\ l \notin Staged
                     /\ queue[l][1] \in Result
                     /\ staged'[l] = queue[l][1]
                     /\ Staged' = Staged \cup {l}
                     /\ \A m \in Lanes : m # l => queue'[m] = queue[m] /\ staged'[m] = staged[m]
                     /\ Len(queue'[l]) = Len(queue[l]) - 1
                     /\ DOMAIN queue'[l] = 1..(Len(queue[l]) - 1)
                     /\ \A i \in 1..(Len(queue[l]) - 1) : queue'[l][i] = queue[l][i + 1]
<1> DEFINE l == Refills[popStep]
<1>1. popStep \in 1..3 /\ popStep' = popStep + 1 /\ l \in Lanes
  BY LaneOfRefill DEF Refill
<1>2. queue[l] \in Seq(Result) /\ Len(queue[l]) <= LaneCapacity
  BY <1>1 DEF ResultsInv, ResultsTypeOK
<1>3. CASE ~Moves(l)
  <2>1. UNCHANGED <<queue, staged>>
    BY <1>3 DEF Refill, Moves
  <2>2. ResultsTypeOK'
    BY <1>1, <2>1 DEF Refill, ResultsInv, ResultsTypeOK
  <2>3. QED
    BY <1>1, <1>3, <2>1, <2>2
<1>4. CASE Moves(l)
  <2>1. /\ staged' = [staged EXCEPT ![l] = Head(queue[l])]
        /\ queue' = [queue EXCEPT ![l] = Tail(queue[l])]
        /\ staged[l] = Nothing /\ queue[l] # <<>>
    BY <1>4 DEF Refill, Moves
  <2>2. /\ Len(queue[l]) \in Nat /\ Len(queue[l]) >= 1
        /\ Head(queue[l]) = queue[l][1] /\ queue[l][1] \in Result
        /\ Tail(queue[l]) \in Seq(Result)
        /\ Len(Tail(queue[l])) = Len(queue[l]) - 1
        /\ DOMAIN Tail(queue[l]) = 1..(Len(queue[l]) - 1)
        /\ \A i \in 1..(Len(queue[l]) - 1) : Tail(queue[l])[i] = queue[l][i + 1]
    BY <1>2, <2>1
  <2>3. /\ staged'[l] = queue[l][1] /\ queue'[l] = Tail(queue[l])
        /\ \A m \in Lanes : m # l => queue'[m] = queue[m] /\ staged'[m] = staged[m]
    BY <1>1, <2>1, <2>2 DEF ResultsInv, ResultsTypeOK
  <2>4. queue' \in [Lanes -> Seq(Result)] /\ staged' \in [Lanes -> Result \cup {Nothing}]
    BY <1>1, <2>1, <2>2 DEF ResultsInv, ResultsTypeOK
  <2>5. \A m \in Lanes : Len(queue'[m]) <= LaneCapacity
    <3>1. Len(queue'[l]) <= LaneCapacity
      BY <1>2, <2>2, <2>3, CompletedResultsAssumption
    <3>2. QED
      BY <2>3, <3>1 DEF ResultsInv, ResultsTypeOK
  <2>6. ResultsTypeOK'
    BY <1>1, <2>4, <2>5 DEF Refill, ResultsInv, ResultsTypeOK
  <2>7. l \notin Staged /\ Staged' = Staged \cup {l}
    BY <1>1, <2>1, <2>2, <2>3, NothingIsNoResult DEF Staged
  <2>8. QED
    BY <1>1, <1>4, <2>2, <2>3, <2>6, <2>7
<1>5. QED
  BY <1>3, <1>4

(* The staged head of lane l is handed to the caller.                      *)
LEMMA ReturnStep ==
    ASSUME ResultsInv, NEW l \in Lanes, Return(l)
    PROVE  /\ popStep = 4 /\ popStep' = 0
           /\ Chosen(l) /\ staged[l] \in Result
           /\ Staged' = Staged \ {l}
           /\ \A m \in Lanes : m # l => staged'[m] = staged[m]
           /\ DOMAIN delivered = 1..Len(delivered) /\ Len(delivered) \in Nat
           /\ DOMAIN delivered' = 1..(Len(delivered) + 1)
           /\ \A i \in 1..Len(delivered) : delivered'[i] = delivered[i]
           /\ delivered'[Len(delivered) + 1] = staged[l]
           /\ ResultsTypeOK'
<1>1. /\ popStep = 4 /\ popStep' = 0 /\ Chosen(l)
      /\ delivered' = Append(delivered, staged[l])
      /\ staged' = [staged EXCEPT ![l] = Nothing]
  BY DEF Return
<1>2. staged[l] \in Result
  BY <1>1, StagedResults DEF Chosen, ResultsInv
<1>3. delivered \in Seq(Result) /\ Len(delivered) \in Nat
  BY DEF ResultsInv, ResultsTypeOK
<1>4. /\ Append(delivered, staged[l]) \in Seq(Result)
      /\ DOMAIN delivered = 1..Len(delivered)
      /\ DOMAIN Append(delivered, staged[l]) = 1..(Len(delivered) + 1)
      /\ \A i \in 1..Len(delivered) : Append(delivered, staged[l])[i] = delivered[i]
      /\ Append(delivered, staged[l])[Len(delivered) + 1] = staged[l]
  BY <1>2, <1>3
<1>5. staged'[l] = Nothing /\ \A m \in Lanes : m # l => staged'[m] = staged[m]
  BY <1>1 DEF ResultsInv, ResultsTypeOK
<1>6. Staged' = Staged \ {l}
  BY <1>5 DEF Staged
<1>7. ResultsTypeOK'
  BY <1>1, <1>4 DEF Return, ResultsInv, ResultsTypeOK
<1>8. QED
  BY <1>1, <1>2, <1>3, <1>4, <1>5, <1>6, <1>7

-----------------------------------------------------------------------------
(* pop_any: the fronts found when the call began.                          *)

LEMMA FrontMembers ==
    ASSUME ResultsTypeOK, NEW l \in Lanes, NEW s
    PROVE  s \in Front(l) <=>
              \/ l \in Staged /\ s = staged[l].seq
              \/ l \notin Staged /\ Len(queue[l]) >= 1 /\ s = queue[l][1].seq
<1>1. queue[l] \in Seq(Result)
  BY DEF ResultsTypeOK
<1>2. queue[l] # <<>> <=> Len(queue[l]) >= 1
  BY <1>1
<1>3. queue[l] # <<>> => Head(queue[l]) = queue[l][1]
  BY <1>1
<1>4. QED
  BY <1>2, <1>3 DEF Front, Staged

(* While every queue keeps its head and every staged result stays, so do   *)
(* the fronts.                                                             *)
LEMMA FrontsKept ==
    ASSUME ResultsTypeOK, ResultsTypeOK', FrontsStand,
           popStep' = popStep, fronts' = fronts, staged' = staged,
           \A l \in Lanes : Len(queue[l]) >= 1 =>
               Len(queue'[l]) >= 1 /\ queue'[l][1] = queue[l][1]
    PROVE  FrontsStand'
<1>1. Staged' = Staged
  BY DEF Staged
<1>2. ASSUME NEW l \in Lanes, NEW s \in Front(l) PROVE s \in Front(l)'
  <2>1. \/ l \in Staged /\ s = staged[l].seq
        \/ l \notin Staged /\ Len(queue[l]) >= 1 /\ s = queue[l][1].seq
    BY <1>2, FrontMembers
  <2>2. \/ l \in Staged' /\ s = staged'[l].seq
        \/ l \notin Staged' /\ Len(queue'[l]) >= 1 /\ s = queue'[l][1].seq
    BY <1>1, <2>1
  <2>3. queue'[l] \in Seq(Result)
    BY DEF ResultsTypeOK
  <2>4. Len(queue'[l]) >= 1 => queue'[l] # <<>> /\ Head(queue'[l]) = queue'[l][1]
    BY <2>3
  <2>5. QED
    BY <2>2, <2>4 DEF Front, Staged
<1>3. QED
  BY <1>1, <1>2, LaneOfRefill DEF FrontsStand

LEMMA FrontsInv ==
    ASSUME ResultsInv, [ResultsNext]_resultsVars, ResultsTypeOK'
    PROVE  FrontsStand'
<1> USE DEF ResultsInv
<1>1. CASE BeginPop
  <2>1. /\ popStep' = 1 /\ fronts' = UNION {Front(l) : l \in Lanes}
        /\ UNCHANGED <<queue, staged>>
    BY <1>1 DEF BeginPop
  <2>2. \A l \in Lanes : Front(l)' = Front(l)
    BY <2>1 DEF Front
  <2>3. \A s \in fronts' : \E i \in 1..3 : s \in Front(Refills[i])'
    BY <2>1, <2>2, LaneOfRefill
  <2>4. QED
    BY <2>1, <2>3 DEF FrontsStand
<1>2. CASE Refill
  <2> DEFINE k == Refills[popStep]
  <2>1. /\ popStep \in 1..3 /\ popStep' = popStep + 1 /\ k \in Lanes /\ fronts' = fronts
        /\ ~Moves(k) => UNCHANGED <<queue, staged>>
        /\ Moves(k) =>
              /\ k \notin Staged /\ staged'[k] = queue[k][1]
              /\ Staged' = Staged \cup {k}
              /\ \A m \in Lanes : m # k => queue'[m] = queue[m] /\ staged'[m] = staged[m]
    BY <1>2, RefillStep DEF Refill
  <2> SUFFICES ASSUME NEW s \in fronts
               PROVE  \E i \in 1..3 : s \in Front(Refills[i])'
                                      /\ (i < popStep' => Refills[i] \in Staged')
    BY <2>1 DEF FrontsStand
  <2>2. PICK i \in 1..3 : s \in Front(Refills[i]) /\ (i < popStep => Refills[i] \in Staged)
    BY <2>1 DEF FrontsStand
  <2> DEFINE l == Refills[i]
  <2>3. l \in Lanes /\ (l = k <=> i = popStep)
    BY <2>1, LaneOfRefill
  <2>4. \/ l \in Staged /\ s = staged[l].seq
        \/ l \notin Staged /\ Len(queue[l]) >= 1 /\ s = queue[l][1].seq
    BY <2>2, <2>3, FrontMembers
  <2> HIDE DEF k, l
  <2>5. CASE ~Moves(k)
    <3>1. Front(l)' = Front(l) /\ Staged' = Staged
      BY <2>1, <2>5 DEF Front, Staged
    <3>2. l = k => l \in Staged
      BY <2>3, <2>4, <2>5 DEF Moves, Staged
    <3>3. i < popStep' => i < popStep \/ l = k
      BY <2>1, <2>3
    <3>4. QED
      BY <2>2, <3>1, <3>2, <3>3 DEF l
  <2>6. CASE Moves(k) /\ l = k
    <3>1. l \in Staged' /\ s = staged'[l].seq
      BY <2>1, <2>4, <2>6
    <3>2. s \in Front(l)'
      BY <3>1 DEF Front, Staged
    <3>3. QED
      BY <3>1, <3>2 DEF l
  <2>7. CASE Moves(k) /\ l # k
    <3>1. queue'[l] = queue[l] /\ staged'[l] = staged[l]
      BY <2>1, <2>3, <2>7
    <3>2. Front(l)' = Front(l) /\ (l \in Staged => l \in Staged')
      BY <3>1 DEF Front, Staged
    <3>3. i < popStep' => i < popStep
      BY <2>1, <2>3, <2>7
    <3>4. QED
      BY <2>2, <3>2, <3>3 DEF l
  <2>8. QED
    BY <2>5, <2>6, <2>7
<1>3. CASE ReturnNothing \/ \E l \in Lanes : Return(l)
  BY <1>3 DEF ReturnNothing, Return, FrontsStand
<1>4. ASSUME NEW p \in Producers, Enqueue(p) PROVE FrontsStand'
  <2> DEFINE lane == pushing[p].node.lane
  <2>1. /\ \A m \in Lanes : m # lane => queue'[m] = queue[m]
        /\ Len(queue'[lane]) = Len(queue[lane]) + 1
        /\ \A i \in 1..Len(queue[lane]) : queue'[lane][i] = queue[lane][i]
        /\ lane \in Lanes
    BY <1>4, EnqueueStep
  <2> HIDE DEF lane
  <2>2. Len(queue[lane]) \in Nat
    BY <2>1 DEF ResultsTypeOK
  <2>3. \A m \in Lanes : Len(queue[m]) >= 1 =>
            Len(queue'[m]) >= 1 /\ queue'[m][1] = queue[m][1]
    BY <2>1, <2>2
  <2>4. popStep' = popStep /\ fronts' = fronts /\ staged' = staged
    BY <1>4 DEF Enqueue
  <2>5. QED
    BY <2>3, <2>4, FrontsKept
<1>5. CASE UNCHANGED <<queue, staged, popStep, fronts>>
  BY <1>5, FrontsKept
<1>6. QED
  BY <1>1, <1>2, <1>3, <1>4, <1>5
     DEF ResultsNext, PopAny, PushStep, Number, Refuse, Count, resultsVars

-----------------------------------------------------------------------------
(* Every number has one holder.                                            *)

PlacesKept == HoldersDiffer /\ PlacesDisjoint /\ NumbersHeld

(* A number is in the hand of the producer that drew it ...                *)
LEMMA NumberPlaces ==
    ASSUME ResultsInv, NEW p \in Producers, NEW l \in Lanes, Number(p, l)
    PROVE  PlacesKept'
<1> USE DEF ResultsInv
<1> DEFINE n == nextSeq
<1>1. /\ pushing'[p].step = "enqueue" /\ pushing'[p].node.seq = n
      /\ \A q \in Producers : q # p => pushing'[q] = pushing[q]
      /\ pushing[p].step = "idle" /\ nextSeq' = n + 1
  <2>1. pushing'[p] = [step |-> "enqueue",
                       node |-> [seq |-> nextSeq, by |-> p, lane |-> l]]
    BY NumberStep
  <2>2. QED
    BY <2>1, NumberStep
<1>2. UNCHANGED <<queue, staged, delivered, refused>> /\ n \in Nat \ {0}
  BY DEF Number, ResultsTypeOK
<1> HIDE DEF n
<1>3. InHand' = InHand \cup {n}
  <2>1. ASSUME NEW s PROVE s \in InHand' <=> s \in InHand \/ s = n
    BY <1>1 DEF InHand
  <2>2. QED
    BY <2>1
<1>4. UNCHANGED <<QueuedSeqs, StagedSeqs, DeliveredSeqs, RefusedSeqs>>
  BY <1>2 DEF QueuedSeqs, Queued, StagedSeqs, Staged, DeliveredSeqs, RefusedSeqs
<1>5. n \notin InHand \cup QueuedSeqs \cup StagedSeqs \cup DeliveredSeqs \cup RefusedSeqs
  BY <1>2 DEF NumbersHeld, n
<1>6. PlacesDisjoint'
  BY <1>3, <1>4, <1>5 DEF PlacesDisjoint
<1>7. NumbersHeld'
  <2>1. 1..(nextSeq' - 1) = 1..(nextSeq - 1) \cup {n}
    BY <1>1, <1>2 DEF n
  <2>2. QED
    BY <1>3, <1>4, <2>1 DEF NumbersHeld
<1>8. HoldersDiffer'
  <2>1. ASSUME NEW q \in Producers, NEW r \in Producers,
               pushing'[q].step = "enqueue", pushing'[r].step = "enqueue",
               pushing'[q].node.seq = pushing'[r].node.seq
        PROVE  q = r
    <3>1. \A o \in Producers : pushing[o].step = "enqueue" => pushing[o].node.seq # n
      BY <1>5 DEF InHand
    <3>2. QED
      BY <1>1, <2>1, <3>1 DEF HoldersDiffer
  <2>2. QED
    BY <1>2, <2>1 DEF HoldersDiffer, Staged
<1>9. QED
  BY <1>6, <1>7, <1>8 DEF PlacesKept

(* ... leaves it for the queue or the release ...                          *)
LEMMA HandLeft ==
    ASSUME ResultsInv, NEW p \in Producers, pushing[p].step = "enqueue",
           pushing'[p].step # "enqueue",
           \A q \in Producers : q # p => pushing'[q] = pushing[q]
    PROVE  /\ InHand' = InHand \ {pushing[p].node.seq}
           /\ pushing[p].node.seq \in InHand
           /\ \A q, r \in Producers :
                 /\ pushing'[q].step = "enqueue" /\ pushing'[r].step = "enqueue"
                 /\ pushing'[q].node.seq = pushing'[r].node.seq
                 => q = r
<1>1. ASSUME NEW s PROVE s \in InHand' <=> s \in InHand /\ s # pushing[p].node.seq
  BY DEF InHand, ResultsInv, HoldersDiffer
<1>2. QED
  BY <1>1 DEF InHand, ResultsInv, HoldersDiffer

LEMMA EnqueuePlaces ==
    ASSUME ResultsInv, NEW p \in Producers, Enqueue(p)
    PROVE  PlacesKept'
<1> DEFINE n == pushing[p].node.seq
<1> USE DEF ResultsInv
<1>0. PICK lane \in Lanes : lane = pushing[p].node.lane
  BY EnqueueStep
<1> DEFINE end == Len(queue[lane]) + 1
<1>1. /\ lane \in Lanes
      /\ pushing[p].step = "enqueue" /\ pushing'[p].step = "count"
      /\ \A q \in Producers : q # p => pushing'[q] = pushing[q]
      /\ \A m \in Lanes : m # lane => queue'[m] = queue[m]
      /\ DOMAIN queue'[lane] = 1..end
      /\ \A i \in 1..Len(queue[lane]) : queue'[lane][i] = queue[lane][i]
      /\ queue'[lane][end].seq = n
  BY <1>0, EnqueueStep
<1>2. UNCHANGED <<staged, delivered, refused, nextSeq>>
  BY DEF Enqueue
<1>3. DOMAIN queue[lane] = 1..Len(queue[lane]) /\ Len(queue[lane]) \in Nat
  BY <1>1 DEF ResultsTypeOK
<1>4. /\ InHand' = InHand \ {n} /\ n \in InHand
      /\ \A q, r \in Producers :
            /\ pushing'[q].step = "enqueue" /\ pushing'[r].step = "enqueue"
            /\ pushing'[q].node.seq = pushing'[r].node.seq
            => q = r
  BY <1>1, HandLeft
<1>5. UNCHANGED <<StagedSeqs, DeliveredSeqs, RefusedSeqs, Staged>>
  BY <1>2 DEF StagedSeqs, Staged, DeliveredSeqs, RefusedSeqs
<1> HIDE DEF n, end
<1>6. /\ end \in DOMAIN queue'[lane] /\ end \notin DOMAIN queue[lane]
      /\ \A i \in DOMAIN queue'[lane] : i = end \/ i \in DOMAIN queue[lane]
      /\ DOMAIN queue[lane] \subseteq DOMAIN queue'[lane]
  BY <1>1, <1>3 DEF end
<1>7. QueuedSeqs' = QueuedSeqs \cup {n}
  <2>1. Queued(lane)' = Queued(lane) \cup {n}
    <3>1. ASSUME NEW s PROVE s \in Queued(lane)' <=> s \in Queued(lane) \/ s = n
      BY <1>1, <1>3, <1>6 DEF Queued
    <3>2. QED
      BY <3>1
  <2>2. \A m \in Lanes : m # lane => Queued(m)' = Queued(m)
    BY <1>1 DEF Queued
  <2>3. QED
    BY <1>1, <2>1, <2>2 DEF QueuedSeqs
<1>8. n \notin QueuedSeqs
  BY <1>4 DEF PlacesDisjoint
<1>9. PlacesDisjoint'
  BY <1>4, <1>5, <1>7 DEF PlacesDisjoint
<1>10. NumbersHeld'
  BY <1>2, <1>4, <1>5, <1>7 DEF NumbersHeld
<1>11. ASSUME NEW l \in Lanes, NEW m \in Lanes,
              NEW i \in DOMAIN queue'[l], NEW j \in DOMAIN queue'[m],
              queue'[l][i].seq = queue'[m][j].seq
       PROVE  l = m /\ i = j
  <2>1. \A k \in Lanes : \A x \in DOMAIN queue'[k] :
            \/ k = lane /\ x = end /\ queue'[k][x].seq = n
            \/ x \in DOMAIN queue[k] /\ queue'[k][x] = queue[k][x]
    BY <1>1, <1>3, <1>6
  <2>2. \A k \in Lanes : \A x \in DOMAIN queue[k] : queue[k][x].seq # n
    BY <1>8 DEF QueuedSeqs, Queued
  <2>3. QED
    BY <1>11, <2>1, <2>2 DEF HoldersDiffer
<1>12. HoldersDiffer'
  BY <1>2, <1>4, <1>5, <1>11 DEF HoldersDiffer
<1>13. QED
  BY <1>9, <1>10, <1>12 DEF PlacesKept

LEMMA RefusePlaces ==
    ASSUME ResultsInv, NEW p \in Producers, Refuse(p)
    PROVE  PlacesKept'
<1> DEFINE n == pushing[p].node.seq
<1> USE DEF ResultsInv
<1>1. /\ pushing[p].step = "enqueue" /\ pushing'[p].step = "idle"
      /\ \A q \in Producers : q # p => pushing'[q] = pushing[q]
      /\ refused' = refused \cup {pushing[p].node}
  BY RefuseStep
<1>2. UNCHANGED <<queue, staged, delivered, nextSeq>>
  BY DEF Refuse
<1>3. /\ InHand' = InHand \ {n} /\ n \in InHand
      /\ \A q, r \in Producers :
            /\ pushing'[q].step = "enqueue" /\ pushing'[r].step = "enqueue"
            /\ pushing'[q].node.seq = pushing'[r].node.seq
            => q = r
  BY <1>1, HandLeft
<1>4. UNCHANGED <<QueuedSeqs, StagedSeqs, DeliveredSeqs, Staged>>
  BY <1>2 DEF QueuedSeqs, Queued, StagedSeqs, Staged, DeliveredSeqs
<1>5. RefusedSeqs' = RefusedSeqs \cup {n}
  BY <1>1 DEF RefusedSeqs
<1> HIDE DEF n
<1>6. PlacesDisjoint'
  BY <1>3, <1>4, <1>5 DEF PlacesDisjoint
<1>7. NumbersHeld'
  BY <1>2, <1>3, <1>4, <1>5 DEF NumbersHeld
<1>8. HoldersDiffer'
  BY <1>2, <1>3, <1>4 DEF HoldersDiffer
<1>9. QED
  BY <1>6, <1>7, <1>8 DEF PlacesKept

(* ... goes from its queue to the staged heads ...                         *)
LEMMA RefillPlaces ==
    ASSUME ResultsInv, Refill
    PROVE  PlacesKept'
<1> USE DEF ResultsInv
<1>1. PICK l \in Lanes : l = Refills[popStep]
  BY RefillStep
<1>2. UNCHANGED <<pushing, delivered, refused, nextSeq>>
  BY DEF Refill
<1>3. UNCHANGED <<InHand, DeliveredSeqs, RefusedSeqs>>
  BY <1>2 DEF InHand, DeliveredSeqs, RefusedSeqs
<1>4. CASE ~Moves(l)
  <2>1. UNCHANGED <<queue, staged>>
    BY <1>1, <1>4, RefillStep
  <2>2. UNCHANGED <<QueuedSeqs, StagedSeqs, Staged>>
    BY <2>1 DEF QueuedSeqs, Queued, StagedSeqs, Staged
  <2>3. QED
    BY <1>2, <1>3, <2>1, <2>2 DEF PlacesKept, HoldersDiffer, PlacesDisjoint, NumbersHeld
<1>5. CASE Moves(l)
  <2> DEFINE n == queue[l][1].seq
             last == Len(queue[l])
  <2>1. /\ last \in Nat /\ last >= 1 /\ DOMAIN queue[l] = 1..last
        /\ l \notin Staged /\ staged'[l].seq = n
        /\ Staged' = Staged \cup {l}
        /\ \A m \in Lanes : m # l => queue'[m] = queue[m] /\ staged'[m] = staged[m]
        /\ DOMAIN queue'[l] = 1..(last - 1)
        /\ \A i \in 1..(last - 1) : queue'[l][i] = queue[l][i + 1]
    BY <1>1, <1>5, RefillStep DEF ResultsTypeOK
  <2> HIDE DEF n, last
  <2>2. n \in Queued(l) /\ n \in QueuedSeqs
    BY <2>1 DEF Queued, QueuedSeqs, n
  <2>3. \A i \in DOMAIN queue'[l] : /\ i + 1 \in DOMAIN queue[l]
                                    /\ i + 1 # 1
                                    /\ queue'[l][i] = queue[l][i + 1]
    BY <2>1
  <2>4. \A i \in DOMAIN queue[l] : i # 1 => i - 1 \in DOMAIN queue'[l]
                                            /\ queue'[l][i - 1] = queue[l][i]
    BY <2>1
  <2>5. \A m \in Lanes : \A i \in DOMAIN queue[m] : queue[m][i].seq = n => m = l /\ i = 1
    BY <2>1 DEF HoldersDiffer, n
  <2>6. Queued(l)' = Queued(l) \ {n}
    <3>1. ASSUME NEW s \in Queued(l)' PROVE s \in Queued(l) /\ s # n
      BY <2>3, <2>5 DEF Queued
    <3>2. ASSUME NEW s \in Queued(l), s # n PROVE s \in Queued(l)'
      BY <2>4, <3>2 DEF Queued, n
    <3>3. QED
      BY <3>1, <3>2
  <2>7. \A m \in Lanes : m # l => Queued(m)' = Queued(m) /\ n \notin Queued(m)
    BY <2>1, <2>5 DEF Queued
  <2>8. QueuedSeqs' = QueuedSeqs \ {n}
    BY <2>6, <2>7 DEF QueuedSeqs
  <2>9. StagedSeqs' = StagedSeqs \cup {n}
    <3>1. \A m \in Staged : m \in Lanes /\ m # l
      BY <2>1 DEF Staged
    <3>2. ASSUME NEW s PROVE s \in StagedSeqs' <=> s \in StagedSeqs \/ s = n
      BY <2>1, <3>1 DEF StagedSeqs
    <3>3. QED
      BY <3>2
  <2>10. PlacesDisjoint'
    BY <1>3, <2>2, <2>8, <2>9 DEF PlacesDisjoint
  <2>11. NumbersHeld'
    BY <1>2, <1>3, <2>2, <2>8, <2>9 DEF NumbersHeld
  <2>12. ASSUME NEW k \in Lanes, NEW m \in Lanes,
                NEW i \in DOMAIN queue'[k], NEW j \in DOMAIN queue'[m],
                queue'[k][i].seq = queue'[m][j].seq
         PROVE  k = m /\ i = j
    <3> DEFINE was(x, y) == IF x = l THEN y + 1 ELSE y
    <3>1. /\ was(k, i) \in DOMAIN queue[k] /\ queue'[k][i] = queue[k][was(k, i)]
          /\ was(m, j) \in DOMAIN queue[m] /\ queue'[m][j] = queue[m][was(m, j)]
      BY <2>1, <2>3
    <3> HIDE DEF was
    <3>2. k = m /\ was(k, i) = was(m, j)
      BY <2>12, <3>1 DEF HoldersDiffer
    <3>3. i \in Int /\ j \in Int
      <4>1. queue'[k] \in Seq(Result) /\ queue'[m] \in Seq(Result)
        BY RefillStep DEF ResultsTypeOK
      <4>2. QED
        BY <4>1
    <3>4. QED
      BY <3>2, <3>3 DEF was
  <2>13. ASSUME NEW k \in Staged', NEW m \in Staged', staged'[k].seq = staged'[m].seq
         PROVE  k = m
    <3>1. n \notin StagedSeqs
      BY <2>2 DEF PlacesDisjoint
    <3>2. \A o \in Staged : o \in Lanes /\ o # l /\ staged'[o] = staged[o] /\ staged[o].seq # n
      BY <2>1, <3>1 DEF Staged, StagedSeqs
    <3>3. QED
      BY <2>1, <2>13, <3>2 DEF HoldersDiffer
  <2>14. HoldersDiffer'
    BY <1>2, <2>12, <2>13 DEF HoldersDiffer
  <2>15. QED
    BY <2>10, <2>11, <2>14 DEF PlacesKept
<1>6. QED
  BY <1>4, <1>5

(* ... and from there to the caller.                                       *)
LEMMA ReturnPlaces ==
    ASSUME ResultsInv, NEW l \in Lanes, Return(l)
    PROVE  PlacesKept'
<1> DEFINE n == staged[l].seq
           end == Len(delivered) + 1
<1> USE DEF ResultsInv
<1>1. /\ l \in Staged
      /\ Staged' = Staged \ {l}
      /\ \A m \in Lanes : m # l => staged'[m] = staged[m]
      /\ DOMAIN delivered = 1..Len(delivered) /\ Len(delivered) \in Nat
      /\ DOMAIN delivered' = 1..end
      /\ \A i \in 1..Len(delivered) : delivered'[i] = delivered[i]
      /\ delivered'[end].seq = n
  BY ReturnStep DEF Chosen
<1>2. UNCHANGED <<queue, pushing, refused, nextSeq>>
  BY DEF Return
<1>3. UNCHANGED <<InHand, QueuedSeqs, RefusedSeqs>>
  BY <1>2 DEF InHand, QueuedSeqs, Queued, RefusedSeqs
<1> HIDE DEF n
<1>4. \A m \in Staged : m \in Lanes
  BY DEF Staged
<1>5. n \in StagedSeqs /\ StagedSeqs' = StagedSeqs \ {n}
  <2>1. n \in StagedSeqs
    BY <1>1 DEF StagedSeqs, n
  <2>2. ASSUME NEW s \in StagedSeqs' PROVE s \in StagedSeqs /\ s # n
    BY <1>1, <1>4 DEF StagedSeqs, HoldersDiffer, n
  <2>3. ASSUME NEW s \in StagedSeqs, s # n PROVE s \in StagedSeqs'
    BY <1>1, <1>4, <2>3 DEF StagedSeqs, n
  <2>4. QED
    BY <2>1, <2>2, <2>3
<1>6. DeliveredSeqs' = DeliveredSeqs \cup {n}
  <2>1. end \in DOMAIN delivered' /\ \A i \in DOMAIN delivered' : i = end \/ i \in DOMAIN delivered
    BY <1>1
  <2>2. DOMAIN delivered \subseteq DOMAIN delivered'
    BY <1>1
  <2> HIDE DEF end
  <2>3. ASSUME NEW s PROVE s \in DeliveredSeqs' <=> s \in DeliveredSeqs \/ s = n
    BY <1>1, <2>1, <2>2 DEF DeliveredSeqs
  <2>4. QED
    BY <2>3
<1>7. PlacesDisjoint'
  BY <1>3, <1>5, <1>6 DEF PlacesDisjoint
<1>8. NumbersHeld'
  BY <1>2, <1>3, <1>5, <1>6 DEF NumbersHeld
<1>9. ASSUME NEW i \in DOMAIN delivered', NEW j \in DOMAIN delivered',
             delivered'[i].seq = delivered'[j].seq
      PROVE  i = j
  <2>1. n \notin DeliveredSeqs
    BY <1>5 DEF PlacesDisjoint
  <2>2. \A x \in DOMAIN delivered : delivered[x].seq # n /\ delivered'[x] = delivered[x]
    BY <1>1, <2>1 DEF DeliveredSeqs
  <2>3. \A x \in DOMAIN delivered' : x = end \/ x \in DOMAIN delivered
    BY <1>1
  <2>4. QED
    BY <1>1, <1>9, <2>2, <2>3 DEF HoldersDiffer
<1>10. ASSUME NEW k \in Staged', NEW m \in Staged', staged'[k].seq = staged'[m].seq
       PROVE  k = m
  BY <1>1, <1>4, <1>10 DEF HoldersDiffer
<1>11. HoldersDiffer'
  BY <1>2, <1>9, <1>10 DEF HoldersDiffer
<1>12. QED
  BY <1>7, <1>8, <1>11 DEF PlacesKept

(* A sequence of distinct numbers is as long as the set of them is large.  *)
LEMMA DistinctNumbers ==
    ASSUME NEW s \in Seq(Result),
           \A i, j \in DOMAIN s : s[i].seq = s[j].seq => i = j
    PROVE  /\ IsFiniteSet({s[i].seq : i \in DOMAIN s})
           /\ Cardinality({s[i].seq : i \in DOMAIN s}) = Len(s)
<1> DEFINE D == 1..Len(s)
           T == {s[i].seq : i \in DOMAIN s}
           f == [i \in D |-> s[i].seq]
<1>1. DOMAIN s = D /\ Len(s) \in Nat
  OBVIOUS
<1>2. IsFiniteSet(D) /\ Cardinality(D) = Len(s)
  BY <1>1, FS_Interval
<1>3. f \in Bijection(D, T)
  <2>1. /\ f \in [D -> T]
        /\ \A t \in T : \E i \in D : f[i] = t
        /\ \A i, j \in D : f[i] = f[j] => i = j
    BY <1>1
  <2> HIDE DEF D, T, f
  <2>2. QED
    BY <2>1 DEF Bijection, Injection, Surjection, IsInjective
<1> HIDE DEF D, T, f
<1>4. IsFiniteSet(T) /\ Cardinality(T) = Cardinality(D)
  BY <1>2, <1>3, FS_Bijection DEF ExistsBijection
<1>5. QED
  BY <1>2, <1>4 DEF T

LEMMA DisjointUnion ==
    ASSUME NEW A, NEW B, IsFiniteSet(A), IsFiniteSet(B), A \cap B = {}
    PROVE  IsFiniteSet(A \cup B) /\ Cardinality(A \cup B) = Cardinality(A) + Cardinality(B)
<1>1. Cardinality(A \cap B) = 0 /\ Cardinality(A) \in Nat /\ Cardinality(B) \in Nat
  BY FS_EmptySet, FS_CardinalityType
<1>2. /\ IsFiniteSet(A \cup B)
      /\ Cardinality(A \cup B) = Cardinality(A) + Cardinality(B) - Cardinality(A \cap B)
  BY FS_Union
<1>3. QED
  BY <1>1, <1>2

(* The places keep their numbers apart and hold all of them: so there are  *)
(* as many places taken as numbers drawn.                                  *)
LEMMA HeldOnce ==
    ASSUME ResultsInv
    PROVE  OneOwner
<1> USE DEF ResultsInv
<1> DEFINE H == InHand
           S == StagedSeqs
           R == RefusedSeqs
           D == DeliveredSeqs
           A == Queued("analysis")
           B == Queued("symbols")
           C == Queued("diagnostics")
           drawn == 1..(nextSeq - 1)
<1>1. /\ Lanes = {"analysis", "symbols", "diagnostics"}
      /\ QueuedSeqs = A \cup B \cup C
  BY LaneOfRefill DEF QueuedSeqs
<1>2. /\ IsFiniteSet(A) /\ Cardinality(A) = Len(queue["analysis"])
      /\ IsFiniteSet(B) /\ Cardinality(B) = Len(queue["symbols"])
      /\ IsFiniteSet(C) /\ Cardinality(C) = Len(queue["diagnostics"])
  <2>1. ASSUME NEW l \in Lanes
        PROVE  IsFiniteSet(Queued(l)) /\ Cardinality(Queued(l)) = Len(queue[l])
    <3>1. queue[l] \in Seq(Result) /\
          \A i, j \in DOMAIN queue[l] : queue[l][i].seq = queue[l][j].seq => i = j
      BY DEF ResultsTypeOK, HoldersDiffer
    <3>2. QED
      BY <3>1, DistinctNumbers DEF Queued
  <2>2. QED
    BY <1>1, <2>1
<1>3. IsFiniteSet(D) /\ Cardinality(D) = Len(delivered)
  BY DistinctNumbers DEF ResultsTypeOK, HoldersDiffer, DeliveredSeqs
<1>4. A \cap B = {} /\ A \cap C = {} /\ B \cap C = {}
  BY <1>1 DEF HoldersDiffer, Queued
<1>5. IsFiniteSet(drawn) /\ Cardinality(drawn) = nextSeq - 1
  BY FS_Interval DEF ResultsTypeOK
<1>6. H \cup A \cup B \cup C \cup S \cup D \cup R = drawn
  BY <1>1 DEF NumbersHeld
<1>7. IsFiniteSet(H) /\ IsFiniteSet(S) /\ IsFiniteSet(R)
  <2>1. H \in SUBSET drawn /\ S \in SUBSET drawn /\ R \in SUBSET drawn
    BY <1>6
  <2> HIDE DEF H, S, R, drawn
  <2>2. QED
    BY <1>5, <2>1, FS_Subset
<1>8. /\ H \cap A = {} /\ (H \cup A) \cap B = {} /\ (H \cup A \cup B) \cap C = {}
      /\ (H \cup A \cup B \cup C) \cap S = {}
      /\ (H \cup A \cup B \cup C \cup S) \cap D = {}
      /\ (H \cup A \cup B \cup C \cup S \cup D) \cap R = {}
  BY <1>1, <1>4 DEF PlacesDisjoint
<1> HIDE DEF H, S, R, D, A, B, C, drawn
<1>9. /\ IsFiniteSet(H \cup A \cup B \cup C)
      /\ Cardinality(H \cup A \cup B \cup C)
             = Cardinality(H) + Cardinality(A) + Cardinality(B) + Cardinality(C)
  <2>1. /\ IsFiniteSet(H \cup A)
        /\ Cardinality(H \cup A) = Cardinality(H) + Cardinality(A)
    BY <1>2, <1>7, <1>8, DisjointUnion
  <2>2. /\ IsFiniteSet(H \cup A \cup B)
        /\ Cardinality(H \cup A \cup B) = Cardinality(H \cup A) + Cardinality(B)
    BY <1>2, <1>8, <2>1, DisjointUnion
  <2>3. /\ IsFiniteSet(H \cup A \cup B \cup C)
        /\ Cardinality(H \cup A \cup B \cup C) = Cardinality(H \cup A \cup B) + Cardinality(C)
    BY <1>2, <1>8, <2>2, DisjointUnion
  <2>4. QED
    BY <2>1, <2>2, <2>3
<1>10. Cardinality(drawn) = Cardinality(H) + Cardinality(A) + Cardinality(B)
           + Cardinality(C) + Cardinality(S) + Cardinality(D) + Cardinality(R)
  <2> DEFINE Q == H \cup A \cup B \cup C
  <2>1. /\ IsFiniteSet(Q \cup S)
        /\ Cardinality(Q \cup S) = Cardinality(Q) + Cardinality(S)
    BY <1>7, <1>8, <1>9, DisjointUnion
  <2>2. /\ IsFiniteSet(Q \cup S \cup D)
        /\ Cardinality(Q \cup S \cup D) = Cardinality(Q \cup S) + Cardinality(D)
    BY <1>3, <1>8, <2>1, DisjointUnion
  <2>3. Cardinality(Q \cup S \cup D \cup R) = Cardinality(Q \cup S \cup D) + Cardinality(R)
    BY <1>7, <1>8, <2>2, DisjointUnion
  <2>4. QED
    BY <1>6, <1>9, <2>1, <2>2, <2>3
<1>11. /\ Cardinality(H) \in Nat /\ Cardinality(S) \in Nat /\ Cardinality(R) \in Nat
       /\ Len(queue["analysis"]) \in Nat /\ Len(queue["symbols"]) \in Nat
       /\ Len(queue["diagnostics"]) \in Nat /\ Len(delivered) \in Nat
  BY <1>2, <1>3, <1>7, FS_CardinalityType
<1>12. Cardinality(H) + (Len(queue["analysis"]) + Len(queue["symbols"])
             + Len(queue["diagnostics"])) + Cardinality(S) + Len(delivered)
             + Cardinality(R) = nextSeq - 1
  <2> DEFINE a == Len(queue["analysis"])
             b == Len(queue["symbols"])
             c == Len(queue["diagnostics"])
             d == Len(delivered)
  <2>1. /\ Cardinality(A) = a /\ Cardinality(B) = b /\ Cardinality(C) = c
        /\ Cardinality(D) = d
        /\ a \in Nat /\ b \in Nat /\ c \in Nat /\ d \in Nat
    BY <1>2, <1>3, <1>11
  <2> HIDE DEF a, b, c, d, ResultsInv
  <2>2. Cardinality(H) + (a + b + c) + Cardinality(S) + d + Cardinality(R) = nextSeq - 1
    BY <1>5, <1>10, <1>11, <2>1
  <2>3. QED
    BY <2>2 DEF a, b, c, d
<1>13. H \cup QueuedSeqs \cup S \cup D \cup R = 1..(nextSeq - 1)
  BY DEF NumbersHeld, H, S, D, R
<1> HIDE DEF ResultsInv
<1>14. Cardinality(InHand) + (Len(queue["analysis"]) + Len(queue["symbols"])
             + Len(queue["diagnostics"])) + Cardinality(StagedSeqs) + Len(delivered)
             + Cardinality(RefusedSeqs) = nextSeq - 1
  BY <1>12 DEF H, S, R
<1>15. InHand \cup (UNION {Queued(l) : l \in Lanes}) \cup StagedSeqs
           \cup DeliveredSeqs \cup RefusedSeqs = 1..(nextSeq - 1)
  BY <1>13 DEF QueuedSeqs, H, S, D, R
<1>16. QED
  BY <1>14, <1>15, Zenon DEF OneOwner

-----------------------------------------------------------------------------
(* A lane keeps the order of each producer.                                *)

OrderKept == HandsHoldResults /\ InOwnLane /\ LanesInOrder /\ HandIsLast

LEMMA OtherLane ==
    ASSUME NEW r, NEW s, r.lane # s.lane
    PROVE  Before(r, s)
BY DEF Before

(* A fresh number is larger than every number in a place.                  *)
LEMMA NumberOrder ==
    ASSUME ResultsInv, NEW p \in Producers, NEW l \in Lanes, Number(p, l)
    PROVE  OrderKept'
<1> USE DEF ResultsInv
<1> DEFINE node == [seq |-> nextSeq, by |-> p, lane |-> l]
<1>1. /\ node \in Result /\ node.by = p /\ node.seq = nextSeq
      /\ pushing'[p].step = "enqueue" /\ pushing'[p].node = node
      /\ \A q \in Producers : q # p => pushing'[q] = pushing[q]
  <2>1. pushing'[p] = [step |-> "enqueue", node |-> node]
    BY NumberStep
  <2>2. QED
    BY <2>1, NumberStep
<1>2. UNCHANGED <<queue, staged, delivered, Staged>> /\ nextSeq \in Nat
  BY DEF Number, ResultsTypeOK, Staged
<1> HIDE DEF node
<1>3. HandsHoldResults'
  BY <1>1 DEF HandsHoldResults
<1>4. InOwnLane' /\ LanesInOrder'
  BY <1>2 DEF InOwnLane, LanesInOrder, DeliveredFirst, StagedNext, QueuedThen
<1>5. \A s \in QueuedSeqs \cup StagedSeqs \cup DeliveredSeqs : s < nextSeq
  BY <1>2 DEF NumbersHeld
<1>6. /\ \A i \in DOMAIN delivered : Before(delivered[i], node)
      /\ \A m \in Staged : Before(staged[m], node)
      /\ \A m \in Lanes : \A i \in DOMAIN queue[m] : Before(queue[m][i], node)
  BY <1>1, <1>5 DEF Before, QueuedSeqs, Queued, StagedSeqs, DeliveredSeqs
<1>7. HandIsLast'
  BY <1>1, <1>2, <1>6 DEF HandIsLast
<1>8. QED
  BY <1>3, <1>4, <1>7 DEF OrderKept

(* The node was the last of its producer, and it joins at the end.         *)
LEMMA EnqueueOrder ==
    ASSUME ResultsInv, NEW p \in Producers, Enqueue(p)
    PROVE  OrderKept'
<1> USE DEF ResultsInv
<1> DEFINE node == pushing[p].node
<1>0. PICK lane \in Lanes : lane = node.lane
  BY EnqueueStep
<1> DEFINE end == Len(queue[lane]) + 1
<1>1. /\ pushing[p].step = "enqueue" /\ pushing'[p].step = "count"
      /\ \A q \in Producers : q # p => pushing'[q] = pushing[q]
      /\ \A m \in Lanes : m # lane => queue'[m] = queue[m]
      /\ DOMAIN queue'[lane] = 1..end
      /\ \A i \in 1..Len(queue[lane]) : queue'[lane][i] = queue[lane][i]
      /\ queue'[lane][end] = node
  BY <1>0, EnqueueStep
<1>2. UNCHANGED <<staged, delivered, Staged>>
  BY DEF Enqueue, Staged
<1>3. DOMAIN queue[lane] = 1..Len(queue[lane]) /\ Len(queue[lane]) \in Nat
  BY DEF ResultsTypeOK
<1>4. /\ \A i \in DOMAIN delivered : Before(delivered[i], node)
      /\ \A m \in Staged : Before(staged[m], node)
      /\ \A m \in Lanes : \A i \in DOMAIN queue[m] : Before(queue[m][i], node)
  BY <1>1 DEF HandIsLast
<1>5. \A i, j \in DOMAIN queue'[lane] : i < j =>
          i \in DOMAIN queue[lane] /\ (j = end \/ j \in DOMAIN queue[lane])
  BY <1>1, <1>3
<1> HIDE DEF node, end
<1>6. \A m \in Lanes : \A x \in DOMAIN queue'[m] :
          \/ m = lane /\ x = end /\ queue'[m][x] = node
          \/ x \in DOMAIN queue[m] /\ queue'[m][x] = queue[m][x]
  BY <1>1, <1>3 DEF end
<1>7. HandsHoldResults'
  BY <1>1 DEF HandsHoldResults
<1>8. InOwnLane'
  BY <1>0, <1>2, <1>6 DEF InOwnLane
<1>9. DeliveredFirst' /\ StagedNext'
  BY <1>2, <1>4, <1>6 DEF LanesInOrder, DeliveredFirst, StagedNext
<1>10. QueuedThen'
  <2>1. ASSUME NEW m \in Lanes, NEW i \in DOMAIN queue'[m], NEW j \in DOMAIN queue'[m], i < j
        PROVE  Before(queue'[m][i], queue'[m][j])
    <3>1. CASE m = lane
      <4>1. /\ i \in DOMAIN queue[lane] /\ queue'[lane][i] = queue[lane][i]
            /\ \/ queue'[lane][j] = node
               \/ j \in DOMAIN queue[lane] /\ queue'[lane][j] = queue[lane][j]
        BY <1>1, <1>3, <1>5, <2>1, <3>1
      <4>2. QED
        BY <1>4, <2>1, <3>1, <4>1 DEF LanesInOrder, QueuedThen
    <3>2. CASE m # lane
      BY <1>1, <2>1, <3>2 DEF LanesInOrder, QueuedThen
    <3>3. QED
      BY <3>1, <3>2
  <2>2. QED
    BY <2>1 DEF QueuedThen
<1>11. HandIsLast'
  <2>1. ASSUME NEW q \in Producers, pushing'[q].step = "enqueue"
        PROVE  /\ q # p /\ pushing'[q] = pushing[q]
               /\ Before(node, pushing[q].node)
    <3>1. q # p /\ pushing'[q] = pushing[q]
      BY <1>1, <2>1
    <3>2. node.by = p /\ pushing[q].node.by = q
      BY <1>1, <2>1, <3>1 DEF HandsHoldResults, node
    <3>3. QED
      BY <3>1, <3>2 DEF Before
  <2>2. QED
    BY <1>2, <1>6, <2>1 DEF HandIsLast
<1>12. QED
  BY <1>7, <1>8, <1>9, <1>10, <1>11 DEF OrderKept, LanesInOrder

(* The producer lets go of its node, or of nothing.                        *)
LEMMA HandEmpties ==
    ASSUME ResultsInv, NEW p \in Producers, Refuse(p) \/ Count(p)
    PROVE  OrderKept'
<1> USE DEF ResultsInv
<1>1. pushing'[p].step = "idle" /\ \A q \in Producers : q # p => pushing'[q] = pushing[q]
  BY RefuseStep, CountStep
<1>2. UNCHANGED <<queue, staged, delivered, Staged>>
  BY DEF Refuse, Count, Staged
<1>3. HandsHoldResults' /\ HandIsLast'
  BY <1>1, <1>2 DEF HandsHoldResults, HandIsLast
<1>4. InOwnLane' /\ LanesInOrder'
  BY <1>2 DEF InOwnLane, LanesInOrder, DeliveredFirst, StagedNext, QueuedThen
<1>5. QED
  BY <1>3, <1>4 DEF OrderKept

(* The head of the queue becomes the staged result.                        *)
LEMMA RefillOrder ==
    ASSUME ResultsInv, Refill
    PROVE  OrderKept'
<1> USE DEF ResultsInv
<1>1. PICK l \in Lanes : l = Refills[popStep]
  BY RefillStep
<1>2. UNCHANGED <<pushing, delivered>>
  BY DEF Refill
<1>3. CASE ~Moves(l)
  <2>1. UNCHANGED <<queue, staged, Staged>>
    BY <1>1, <1>3, RefillStep DEF Staged
  <2>2. QED
    BY <1>2, <2>1 DEF OrderKept, HandsHoldResults, InOwnLane, LanesInOrder,
                      DeliveredFirst, StagedNext, QueuedThen, HandIsLast
<1>4. CASE Moves(l)
  <2> DEFINE first == queue[l][1]
  <2>1. /\ Len(queue[l]) \in Nat /\ Len(queue[l]) >= 1 /\ DOMAIN queue[l] = 1..Len(queue[l])
        /\ l \notin Staged /\ staged'[l] = first
        /\ Staged' = Staged \cup {l}
        /\ \A m \in Lanes : m # l => queue'[m] = queue[m] /\ staged'[m] = staged[m]
        /\ DOMAIN queue'[l] = 1..(Len(queue[l]) - 1)
        /\ \A i \in 1..(Len(queue[l]) - 1) : queue'[l][i] = queue[l][i + 1]
    BY <1>1, <1>4, RefillStep DEF ResultsTypeOK
  <2>2. 1 \in DOMAIN queue[l] /\ first.lane = l
    BY <2>1 DEF InOwnLane
  <2>3. \A i \in DOMAIN queue'[l] : /\ i + 1 \in DOMAIN queue[l]
                                    /\ 1 < i + 1
                                    /\ queue'[l][i] = queue[l][i + 1]
    BY <2>1
  <2>4. \A m \in Staged' : \/ m = l /\ staged'[m] = first
                           \/ m # l /\ m \in Staged /\ m \in Lanes /\ staged'[m] = staged[m]
    BY <2>1 DEF Staged
  <2>5. \A m \in Lanes : \A x \in DOMAIN queue'[m] :
            \E y \in DOMAIN queue[m] : queue'[m][x] = queue[m][y] /\ (m = l => 1 < y)
    BY <2>1, <2>3
  <2> HIDE DEF first
  <2>6. HandsHoldResults' /\ InOwnLane'
    BY <1>2, <2>2, <2>4, <2>5 DEF HandsHoldResults, InOwnLane
  <2>7. \A m \in Lanes : \A x \in DOMAIN queue'[m] : Before(first, queue'[m][x])
    <3>1. ASSUME NEW m \in Lanes, NEW y \in DOMAIN queue[m], m = l => 1 < y
          PROVE  Before(first, queue[m][y])
      <4>1. CASE m = l
        BY <2>2, <3>1, <4>1 DEF LanesInOrder, QueuedThen, first
      <4>2. CASE m # l
        <5>1. queue[m][y].lane = m
          BY DEF InOwnLane
        <5>2. QED
          BY <2>2, <4>2, <5>1, OtherLane
      <4>3. QED
        BY <4>1, <4>2
    <3>2. QED
      BY <2>5, <3>1
  <2>8. DeliveredFirst'
    BY <1>2, <2>2, <2>4, <2>5 DEF LanesInOrder, DeliveredFirst, first
  <2>9. StagedNext'
    BY <2>4, <2>5, <2>7 DEF LanesInOrder, StagedNext
  <2>10. QueuedThen'
    <3>1. ASSUME NEW m \in Lanes, NEW i \in DOMAIN queue'[m], NEW j \in DOMAIN queue'[m], i < j
          PROVE  Before(queue'[m][i], queue'[m][j])
      <4>1. CASE m = l
        <5>1. i \in Int /\ j \in Int
          BY <2>1, <4>1
        <5>2. i + 1 < j + 1
          BY <3>1, <5>1
        <5>3. QED
          BY <2>3, <4>1, <5>2 DEF LanesInOrder, QueuedThen
      <4>2. CASE m # l
        BY <2>1, <3>1, <4>2 DEF LanesInOrder, QueuedThen
      <4>3. QED
        BY <4>1, <4>2
    <3>2. QED
      BY <3>1 DEF QueuedThen
  <2>11. HandIsLast'
    BY <1>2, <2>2, <2>4, <2>5 DEF HandIsLast, first
  <2>12. QED
    BY <2>6, <2>8, <2>9, <2>10, <2>11 DEF OrderKept, LanesInOrder
<1>5. QED
  BY <1>3, <1>4

(* The staged result becomes the last one delivered.                       *)
LEMMA ReturnOrder ==
    ASSUME ResultsInv, NEW l \in Lanes, Return(l)
    PROVE  OrderKept'
<1> USE DEF ResultsInv
<1> DEFINE r == staged[l]
           end == Len(delivered) + 1
<1>1. /\ l \in Staged /\ r.lane = l
      /\ Staged' = Staged \ {l}
      /\ \A m \in Lanes : m # l => staged'[m] = staged[m]
      /\ DOMAIN delivered = 1..Len(delivered) /\ Len(delivered) \in Nat
      /\ DOMAIN delivered' = 1..end
      /\ \A i \in 1..Len(delivered) : delivered'[i] = delivered[i]
      /\ delivered'[end] = r
  BY ReturnStep DEF Chosen, InOwnLane
<1>2. UNCHANGED <<queue, pushing>>
  BY DEF Return
<1>3. \A m \in Staged' : m # l /\ m \in Staged /\ m \in Lanes /\ staged'[m] = staged[m]
  BY <1>1 DEF Staged
<1>4. \A i, j \in DOMAIN delivered' : i < j => i # end
  BY <1>1
<1>5. \A i \in DOMAIN delivered' :
          \/ i = end /\ delivered'[i] = r
          \/ i \in DOMAIN delivered /\ delivered'[i] = delivered[i]
  BY <1>1
<1> HIDE DEF r, end
<1>6. HandsHoldResults' /\ InOwnLane'
  BY <1>2, <1>3 DEF HandsHoldResults, InOwnLane
<1>7. /\ \A i \in DOMAIN delivered : Before(delivered[i], r)
      /\ \A m \in Lanes : \A j \in DOMAIN queue[m] : Before(r, queue[m][j])
  BY <1>1 DEF LanesInOrder, DeliveredFirst, StagedNext, r
<1>8. \A m \in Staged' : Before(r, staged[m])
  <2>1. ASSUME NEW m \in Staged' PROVE staged[m].lane # r.lane
    BY <1>1, <1>3 DEF InOwnLane
  <2>2. QED
    BY <2>1, OtherLane
<1>9. DeliveredFirst'
  <2>1. ASSUME NEW i \in DOMAIN delivered', NEW j \in DOMAIN delivered', i < j
        PROVE  Before(delivered'[i], delivered'[j])
    <3>1. i \in DOMAIN delivered /\ delivered'[i] = delivered[i]
      BY <1>4, <1>5, <2>1
    <3>2. QED
      BY <1>5, <1>7, <2>1, <3>1 DEF LanesInOrder, DeliveredFirst
  <2>2. ASSUME NEW i \in DOMAIN delivered', NEW m \in Staged'
        PROVE  Before(delivered'[i], staged'[m])
    BY <1>3, <1>5, <1>8 DEF LanesInOrder, DeliveredFirst
  <2>3. ASSUME NEW i \in DOMAIN delivered', NEW m \in Lanes, NEW j \in DOMAIN queue'[m]
        PROVE  Before(delivered'[i], queue'[m][j])
    BY <1>2, <1>5, <1>7 DEF LanesInOrder, DeliveredFirst
  <2>4. QED
    BY <2>1, <2>2, <2>3 DEF DeliveredFirst
<1>10. StagedNext' /\ QueuedThen'
  BY <1>2, <1>3 DEF LanesInOrder, StagedNext, QueuedThen
<1>11. HandIsLast'
  BY <1>1, <1>2, <1>3, <1>5 DEF HandIsLast, r
<1>12. QED
  BY <1>6, <1>9, <1>10, <1>11 DEF OrderKept, LanesInOrder

-----------------------------------------------------------------------------
(* Theorems.                                                               *)

LEMMA InitialResults == ASSUME ResultsInit PROVE ResultsInv
<1>1. /\ \A l \in Lanes : queue[l] = <<>> /\ staged[l] = Nothing
      /\ \A p \in Producers : pushing[p] = IdlePush
      /\ nextSeq = 1 /\ popStep = 0 /\ fronts = {} /\ delivered = <<>> /\ refused = {}
  BY DEF ResultsInit
<1>2. Staged = {}
  BY <1>1 DEF Staged
<1>3. InHand = {} /\ QueuedSeqs = {} /\ StagedSeqs = {} /\ DeliveredSeqs = {} /\ RefusedSeqs = {}
  BY <1>1, <1>2 DEF InHand, IdlePush, QueuedSeqs, Queued, StagedSeqs, DeliveredSeqs, RefusedSeqs
<1>4. ResultsTypeOK
  <2>1. IdlePush \in PushState
    BY DEF IdlePush, PushState
  <2>2. Len(<<>>) <= LaneCapacity
    BY CompletedResultsAssumption
  <2>3. QED
    BY <1>1, <2>1, <2>2 DEF ResultsInit, ResultsTypeOK
<1>5. HandsHoldResults /\ HandIsLast
  BY <1>1 DEF IdlePush, HandsHoldResults, HandIsLast
<1>6. InOwnLane /\ LanesInOrder
  BY <1>1, <1>2 DEF InOwnLane, LanesInOrder, DeliveredFirst, StagedNext, QueuedThen
<1>7. HoldersDiffer /\ PlacesDisjoint
  BY <1>1, <1>2, <1>3 DEF IdlePush, HoldersDiffer, PlacesDisjoint
<1>8. NumbersHeld
  BY <1>1, <1>3 DEF NumbersHeld
<1>9. FrontsStand
  BY <1>1 DEF FrontsStand
<1>10. QED
  BY <1>4, <1>5, <1>6, <1>7, <1>8, <1>9 DEF ResultsInv

LEMMA ResultsStep ==
    ASSUME ResultsInv, [ResultsNext]_resultsVars
    PROVE  ResultsInv'
<1> DEFINE Kept == ResultsTypeOK' /\ PlacesKept' /\ OrderKept'
<1>1. ASSUME NEW p \in Producers, NEW l \in Lanes, Number(p, l) PROVE Kept
  BY <1>1, NumberStep, NumberPlaces, NumberOrder
<1>2. ASSUME NEW p \in Producers, Enqueue(p) PROVE Kept
  BY <1>2, EnqueueStep, EnqueuePlaces, EnqueueOrder
<1>3. ASSUME NEW p \in Producers, Refuse(p) PROVE Kept
  BY <1>3, RefuseStep, RefusePlaces, HandEmpties
<1>4. ASSUME NEW p \in Producers, Count(p) PROVE Kept
  <2>1. UNCHANGED <<queue, staged, delivered, refused, nextSeq>>
    BY <1>4 DEF Count
  <2>2. /\ pushing[p].step = "count" /\ pushing'[p].step = "idle"
        /\ \A q \in Producers : q # p => pushing'[q] = pushing[q]
    BY <1>4, CountStep
  <2>3. UNCHANGED <<QueuedSeqs, StagedSeqs, DeliveredSeqs, RefusedSeqs, Staged>>
    BY <2>1 DEF QueuedSeqs, Queued, StagedSeqs, Staged, DeliveredSeqs, RefusedSeqs
  <2>4. InHand' = InHand
    <3>1. ASSUME NEW s PROVE s \in InHand' <=> s \in InHand
      BY <2>2 DEF InHand
    <3>2. QED
      BY <3>1
  <2>5. PlacesKept'
    BY <2>1, <2>2, <2>3, <2>4
       DEF ResultsInv, PlacesKept, HoldersDiffer, PlacesDisjoint, NumbersHeld
  <2>6. QED
    BY <1>4, <2>5, CountStep, HandEmpties
<1>5. ASSUME Refill PROVE Kept
  BY <1>5, RefillStep, RefillPlaces, RefillOrder
<1>6. ASSUME NEW l \in Lanes, Return(l) PROVE Kept
  BY <1>6, ReturnStep, ReturnPlaces, ReturnOrder
<1>7. ASSUME BeginPop \/ ReturnNothing \/ UNCHANGED resultsVars PROVE Kept
  <2>1. UNCHANGED <<queue, staged, pushing, delivered, refused, nextSeq, pushed, popped>>
    BY <1>7 DEF BeginPop, ReturnNothing, resultsVars
  <2>2. ResultsTypeOK'
    <3>1. popStep' \in 0..4
      BY <1>7 DEF BeginPop, ReturnNothing, resultsVars, ResultsInv, ResultsTypeOK
    <3>2. fronts' \in SUBSET Nat
      <4>1. ASSUME NEW l \in Lanes, NEW s \in Front(l) PROVE s \in Nat
        <5>1. \/ l \in Staged /\ s = staged[l].seq
              \/ l \notin Staged /\ Len(queue[l]) >= 1 /\ s = queue[l][1].seq
          BY FrontMembers DEF ResultsInv
        <5>2. queue[l] \in Seq(Result) /\ (l \in Staged => staged[l] \in Result)
          BY StagedResults DEF ResultsInv, ResultsTypeOK
        <5>3. Len(queue[l]) >= 1 => queue[l][1] \in Result
          BY <5>2
        <5>4. QED
          BY <5>1, <5>2, <5>3 DEF Result
      <4>2. \/ fronts' = UNION {Front(l) : l \in Lanes}
            \/ fronts' = {}
            \/ fronts' = fronts
        BY <1>7 DEF BeginPop, ReturnNothing, resultsVars
      <4>3. UNION {Front(l) : l \in Lanes} \in SUBSET Nat
        BY <4>1
      <4>4. QED
        BY <4>2, <4>3 DEF ResultsInv, ResultsTypeOK
    <3>3. QED
      BY <2>1, <3>1, <3>2 DEF ResultsInv, ResultsTypeOK
  <2>3. UNCHANGED <<QueuedSeqs, StagedSeqs, DeliveredSeqs, RefusedSeqs, InHand, Staged>>
    BY <2>1 DEF QueuedSeqs, Queued, StagedSeqs, Staged, DeliveredSeqs, RefusedSeqs, InHand
  <2>4. PlacesKept'
    BY <2>1, <2>3 DEF ResultsInv, PlacesKept, HoldersDiffer, PlacesDisjoint, NumbersHeld
  <2>5. OrderKept'
    BY <2>1, <2>3 DEF ResultsInv, OrderKept, HandsHoldResults, InOwnLane, LanesInOrder,
                      DeliveredFirst, StagedNext, QueuedThen, HandIsLast
  <2>6. QED
    BY <2>2, <2>4, <2>5
<1>8. Kept
  BY <1>1, <1>2, <1>3, <1>4, <1>5, <1>6, <1>7 DEF ResultsNext, PopAny, PushStep
<1>9. FrontsStand'
  BY <1>8, FrontsInv
<1>10. QED
  BY <1>8, <1>9 DEF ResultsInv, PlacesKept, OrderKept

(* The places of the results are what the code means them to be: at every  *)
(* point of every interleaving of pushes and pop_any.                      *)
THEOREM ResultsInvariant == ResultsSpec => []ResultsInv
<1>1. ResultsInit => ResultsInv
  BY InitialResults
<1>2. ResultsInv /\ [ResultsNext]_resultsVars => ResultsInv'
  BY ResultsStep
<1>3. QED
  BY <1>1, <1>2, PTL DEF ResultsSpec

(* Every result has one owner: the payload is released once, by whoever    *)
(* popped it or by the push that found its queue full.                     *)
THEOREM ResultsHaveOneOwner == ResultsSpec => []OneOwner
<1>1. ResultsInv => OneOwner
  BY HeldOnce
<1>2. QED
  BY <1>1, ResultsInvariant, PTL

(* completed_results_queue_pop_any: what one thread pushed for one         *)
(* subsystem comes out in the order it was numbered.                       *)
THEOREM LanesKeepOrder == ResultsSpec => []LaneOrder
<1>1. ResultsInv => LaneOrder
  BY DEF ResultsInv, LanesInOrder, DeliveredFirst, Before, LaneOrder
<1>2. QED
  BY <1>1, ResultsInvariant, PTL

(* completed_results_queue_pop_any: the call returns nothing numbered      *)
(* after a result it found at the front of a lane when it began.           *)
THEOREM FrontsAreNotOvertaken == ResultsSpec => OvertakesNoFront
<1>1. ASSUME ResultsInv, NEW l \in Lanes, Return(l), NEW s \in fronts
      PROVE  staged[l].seq <= s
  <2>1. popStep = 4 /\ Chosen(l)
    BY <1>1 DEF Return
  <2>2. PICK i \in 1..3 : s \in Front(Refills[i]) /\ (i < popStep => Refills[i] \in Staged)
    BY <1>1, <2>1 DEF ResultsInv, FrontsStand
  <2>3. Refills[i] \in Staged /\ Refills[i] \in Lanes
    BY <2>1, <2>2, LaneOfRefill
  <2>4. s = staged[Refills[i]].seq
    BY <1>1, <2>2, <2>3, FrontMembers DEF ResultsInv
  <2>5. QED
    BY <2>1, <2>3, <2>4 DEF Chosen
<1>2. ResultsInv => [\A l \in Lanes : Return(l) => \A s \in fronts : staged[l].seq <= s]_resultsVars
  BY <1>1
<1>3. QED
  BY <1>2, ResultsInvariant, PTL DEF OvertakesNoFront
=============================================================================
