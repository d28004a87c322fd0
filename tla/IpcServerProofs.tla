--------------------------- MODULE IpcServerProofs ---------------------------
(***************************************************************************)
(* Theorems about IpcServer, for any clients, services in use, number of   *)
(* requests and of workspace generations: what the four guarded services   *)
(* promise.  Open and edit do not keep the promise and are left out of it. *)
(* Then about Document, for any documents, texts and length of the save    *)
(* queue: what the edit and typing services tell of a written file.  And   *)
(* about UnifiedDiff, for any words and length of the script: what a patch *)
(* of a client does to a text.                                             *)
(***************************************************************************)
EXTENDS IpcServer, Document, UnifiedDiff, SequenceTheorems, WellFoundedInduction, TLAPS

GuardedServices == Retaining \cup Numbered

(* A number not drawn yet has left no trace.                               *)
FreshUntouched ==
    \A r \in Requests : request[r].bound = 0 => request[r] = NoRequest

(* A client between admission and answer has a request that nobody         *)
(* answered yet, and that no other client has ...                          *)
Holds(c) ==
    client[c].at # "idle" =>
        /\ client[c].id \in Requests
        /\ request[client[c].id].bound # 0
        /\ request[client[c].id].kind = client[c].kind
        /\ request[client[c].id].reply = "none"

Shares(c, d) ==
    client[c].at # "idle" /\ client[d].at # "idle" /\ client[c].id = client[d].id

(* ... and until it is posted no slot and no handler knows it.             *)
Unposted(c) ==
    client[c].at = "admitted" =>
        /\ request[client[c].id].work = "none"
        /\ request[client[c].id].runs = 0
        /\ \A k \in Services : slot[k].owner # client[c].id
        /\ main.busy => main.id # client[c].id

ClientsHoldRequests ==
    /\ \A c \in Clients : Holds(c) /\ Unposted(c)
    /\ \A c, d \in Clients : Shares(c, d) => c = d

(* A guarded slot is not taken from under a client that still waits.       *)
WaitersOwnSlots ==
    \A c \in Clients : \A k \in GuardedServices :
        client[c].at = "waiting" /\ client[c].kind = k =>
            slot[k].inflight /\ slot[k].owner = client[c].id /\ ~slot[k].abandoned

(* What is left in a slot was admitted for that service; a change of       *)
(* workspace is bound to what its client named.                            *)
SlotsOwned ==
    \A k \in Services :
        /\ slot[k].pending => slot[k].owner # 0
        /\ slot[k].owner # 0 =>
              /\ request[slot[k].owner].bound # 0
              /\ request[slot[k].owner].kind = k
              /\ k = "workspace" => slot[k].expect = request[slot[k].owner].bound

(* A guarded slot asks for work that was never done, and reports success   *)
(* of its own request only.                                                *)
GuardedSlot(k) ==
    /\ slot[k].pending =>
          /\ slot[k].inflight
          /\ ~slot[k].completed
          /\ request[slot[k].owner].work = "none"
          /\ ~slot[k].started => request[slot[k].owner].runs = 0
          /\ k \in Retaining => slot[k].args = slot[k].owner
    /\ slot[k].success => slot[k].owner # 0 /\ request[slot[k].owner].work = "ok"
    /\ k \in Retaining /\ slot[k].executing => ~slot[k].completed

GuardedSlots == \A k \in GuardedServices : GuardedSlot(k)

(* The request in the main thread's hand, whatever its client does.        *)
WorkInHand ==
    \A k \in Services : main.busy /\ PumpOrder[main.turn] = k =>
        /\ running
        /\ main.id \in Requests
        /\ request[main.id].bound # 0
        /\ request[main.id].kind = k
        /\ k = "workspace" => main.expect = request[main.id].bound
        /\ k \in GuardedServices =>
              /\ request[main.id].work = "none"
              /\ main.begin => request[main.id].runs = 0
              /\ slot[k].owner = main.id =>
                    IF k = "typing" THEN slot[k].started ELSE ~slot[k].pending

WorkedOnce ==
    \A r \in Requests : Guarded(r) => request[r].runs \in {0, 1}

IpcInv ==
    /\ FreshUntouched
    /\ ClientsHoldRequests
    /\ WaitersOwnSlots
    /\ SlotsOwned
    /\ GuardedSlots
    /\ WorkInHand
    /\ WorkedOnce
    /\ RetainedWhileExecuting
    /\ SwitchHonoursBinding
-----------------------------------------------------------------------------
(* Type correctness.                                                       *)

LEMMA PumpTurns ==
    /\ Len(PumpOrder) = 6
    /\ \A t \in 1..6 : PumpOrder[t] \in Services
    /\ \A t, u \in 1..6 : PumpOrder[t] = PumpOrder[u] => t = u
BY DEF PumpOrder, Services

LEMMA ZeroInRange == 0 \in 0..MaxRequests /\ 0 \in 0..MaxGeneration
BY BoundsAssumption

LEMMA PumpingFromType ==
    ASSUME NEW t \in 1..6
    PROVE  PumpingFrom(t) \in Main
BY BoundsAssumption, PumpTurns DEF PumpingFrom, Main

LEMMA ToldType ==
    ASSUME TypeOK, NEW c \in Clients, NEW o \in {"ok", "failed"}, Told(c, o)
    PROVE  client' \in [Clients -> Client] /\ request' \in [Requests -> Request]
<1>1. IdleClient \in Client
  BY BoundsAssumption DEF IdleClient, Client, Services
<1>2. client' \in [Clients -> Client]
  BY <1>1 DEF Told, TypeOK
<1>3. \A r \in Requests : [request[r] EXCEPT !.reply = o] \in Request
  BY DEF TypeOK, Request
<1>4. request' \in [Requests -> Request]
  BY <1>3 DEF Told, TypeOK
<1>5. QED
  BY <1>2, <1>4

(* Each action of a client keeps the variables in their domains ...        *)
LEMMA AdmitType ==
    ASSUME TypeOK, NEW c \in Clients, NEW k \in Kinds, Admit(c, k)
    PROVE  TypeOK'
<1>1. PICK r \in Requests :
          /\ client' = [client EXCEPT ![c] = [at |-> "admitted", kind |-> k, id |-> r]]
          /\ request' = [request EXCEPT ![r].kind = k, ![r].bound = generation]
  BY DEF Admit
<1>2. k \in Services /\ r \in 0..MaxRequests /\ generation \in 0..MaxGeneration
  BY KindsAssumption, BoundsAssumption DEF TypeOK, Requests
<1>3. client' \in [Clients -> Client]
  BY <1>1, <1>2 DEF TypeOK, Client
<1>4. [request[r] EXCEPT !.kind = k, !.bound = generation] \in Request
  BY <1>2 DEF TypeOK, Request
<1>5. request' = [request EXCEPT ![r] = [request[r] EXCEPT !.kind = k, !.bound = generation]]
  BY <1>1 DEF TypeOK, Request
<1>6. request' \in [Requests -> Request]
  BY <1>4, <1>5 DEF TypeOK
<1>7. QED
  BY <1>3, <1>6 DEF Admit, TypeOK

LEMMA PostType ==
    ASSUME TypeOK, ClientsHoldRequests, NEW c \in Clients, Post(c)
    PROVE  TypeOK'
<1> DEFINE k == client[c].kind
<1>1. k \in Services /\ client[c] \in Client
  BY DEF TypeOK, Client
<1>2. CASE slot[k].inflight
  BY <1>2, ToldType DEF Post, TypeOK
<1>3. CASE ~slot[k].inflight
  <2>1. /\ slot' = [slot EXCEPT ![k] = Posted(c, k)]
        /\ client' = [client EXCEPT ![c].at = "waiting"]
        /\ UNCHANGED <<request, running, generation, main>>
    BY <1>3 DEF Post
  <2>2. Posted(c, k) \in Slot
    <3>1. k = "workspace" => request[client[c].id].bound \in 0..MaxGeneration
      BY DEF Post, TypeOK, ClientsHoldRequests, Holds, Request
    <3>2. QED
      BY <1>1, <3>1 DEF Posted, Slot, Client, TypeOK
  <2>3. slot' \in [Services -> Slot]
    BY <2>1, <2>2, <1>1 DEF TypeOK
  <2>4. [client[c] EXCEPT !.at = "waiting"] \in Client
    BY <1>1 DEF Client
  <2>5. client' \in [Clients -> Client]
    BY <2>1, <2>4 DEF TypeOK
  <2>6. QED
    BY <2>1, <2>3, <2>5 DEF TypeOK
<1>4. QED
  BY <1>2, <1>3

LEMMA LeaveType ==
    ASSUME TypeOK, NEW c \in Clients, TakeAnswer(c) \/ Timeout(c)
    PROVE  TypeOK'
<1> DEFINE k == client[c].kind
<1>1. k \in Services /\ slot[k] \in Slot
  BY DEF TypeOK, Client
<1>2. Released(k) \in Slot /\ GivenUp(k) \in Slot
  <2>1. Released(k) \in Slot
    BY <1>1, ZeroInRange DEF Released, Slot
  <2>2. CASE k \in Retaining
    <3>1. GivenUp(k) = [slot[k] EXCEPT !.pending = FALSE, !.abandoned = TRUE,
                            !.inflight = slot[k].executing,
                            !.args = IF slot[k].executing THEN @ ELSE 0]
      BY <2>2 DEF GivenUp, Retaining, Numbered, Plain
    <3>2. QED
      BY <1>1, <2>1, <3>1, ZeroInRange DEF Slot
  <2>3. CASE k \in Numbered
    BY <1>1, <2>1, <2>3 DEF GivenUp, Slot, Retaining, Numbered, Plain
  <2>4. CASE k \in Plain
    BY <1>1, <2>1, <2>4 DEF GivenUp, Slot, Retaining, Numbered, Plain
  <2>5. QED
    BY <1>1, <2>2, <2>3, <2>4 DEF Services, Retaining, Numbered, Plain
<1>3. slot' \in [Services -> Slot]
  BY <1>1, <1>2 DEF TakeAnswer, Timeout, TypeOK
<1>4. client' \in [Clients -> Client] /\ request' \in [Requests -> Request]
  BY ToldType DEF TakeAnswer, Timeout
<1>5. QED
  BY <1>3, <1>4 DEF TakeAnswer, Timeout, TypeOK

(* ... and so does each action of the main thread.                         *)
LEMMA TakeType ==
    ASSUME TypeOK, NEW k \in Services, Take(k)
    PROVE  TypeOK'
<1>1. slot[k] \in Slot
  BY DEF TypeOK
<1>2. main' \in Main
  BY <1>1 DEF Take, TypeOK, Main, Slot
<1> DEFINE types == (k = "typing")
           retaining == (k \in Retaining)
           new == [slot[k] EXCEPT !.pending = types, !.executing = retaining,
                                  !.started = types]
<1>3. slot' = [slot EXCEPT ![k] = new]
  BY <1>1 DEF Take, TypeOK, Slot
<1>4. new \in Slot
  <2>1. types \in BOOLEAN /\ retaining \in BOOLEAN
    OBVIOUS
  <2> HIDE DEF types, retaining
  <2>2. QED
    BY <1>1, <2>1 DEF Slot
<1>5. slot' \in [Services -> Slot]
  BY <1>3, <1>4 DEF TypeOK
<1>6. QED
  BY <1>2, <1>5 DEF Take, TypeOK

LEMMA NextTurnType ==
    ASSUME TypeOK
    PROVE  main.turn \in 1..6 /\ PumpingFrom(NextTurn) \in Main
BY PumpTurns, PumpingFromType DEF TypeOK, Main, NextTurn

LEMMA FinishType ==
    ASSUME TypeOK, NEW k \in Services, NEW o \in {"ok", "failed", "continue"},
           main.id \in Requests, Finish(k, o)
    PROVE  TypeOK'
<1>1. main' \in Main
  BY NextTurnType DEF Finish
<1>2. Completed(k, o) \in Slot
  <2> DEFINE freed == (k \in Retaining /\ slot[k].abandoned)
             done == (o = "ok")
             new == [slot[k] EXCEPT !.completed = TRUE, !.success = done,
                                    !.executing = FALSE,
                                    !.pending = @ /\ k # "typing",
                                    !.args = IF k = "document" THEN 0 ELSE @,
                                    !.inflight = @ /\ ~freed]
  <2>1. slot[k] \in Slot /\ freed \in BOOLEAN /\ done \in BOOLEAN
    BY DEF TypeOK
  <2>2. Completed(k, o) = new
    BY DEF Completed
  <2> HIDE DEF freed, done
  <2>3. QED
    BY <2>1, <2>2, ZeroInRange DEF Slot
<1>3. slot' \in [Services -> Slot]
  BY <1>2 DEF Finish, TypeOK
<1>4. generation' \in 1..MaxGeneration
  BY BoundsAssumption DEF Finish, Rebound, TypeOK
<1>5. request' \in [Requests -> Request]
  <2>1. CASE Stale(k)
    BY <2>1 DEF Finish, Worked, TypeOK
  <2>2. CASE ~Stale(k)
    <3> DEFINE old == request[main.id]
               new == [old EXCEPT !.work = IF o = "continue" THEN @ ELSE o,
                                  !.ranIn = IF main.begin THEN generation ELSE @,
                                  !.runs = IF main.begin /\ @ < 2 THEN @ + 1 ELSE @]
    <3>1. old \in Request /\ generation \in 0..MaxGeneration
      BY DEF TypeOK
    <3>2. old.runs < 2 => old.runs + 1 \in 0..2
      BY <3>1 DEF Request
    <3>3. new \in Request
      BY <3>1, <3>2 DEF Request
    <3>4. request' = [request EXCEPT ![main.id] = new]
      <4>1. Worked(k, o)
        BY DEF Finish
      <4>2. QED
        BY <2>2, <4>1 DEF Worked
    <3>5. QED
      BY <3>3, <3>4 DEF TypeOK
  <2>3. QED
    BY <2>1, <2>2
<1>6. QED
  BY <1>1, <1>3, <1>4, <1>5 DEF Finish, TypeOK

LEMMA StopType ==
    ASSUME TypeOK, Stop
    PROVE  TypeOK'
<1>1. \A k \in Services : Stopped(k) \in Slot
  BY DEF Stopped, TypeOK, Slot
<1>2. QED
  BY <1>1 DEF Stop, TypeOK
-----------------------------------------------------------------------------
(* The inductive invariant, action by action.                              *)

IpcState == TypeOK /\ IpcInv

LEMMA AdmitInv ==
    ASSUME IpcState, NEW c \in Clients, NEW j \in Kinds, Admit(c, j)
    PROVE  IpcInv'
<1> USE DEF IpcState
<1>1. PICK r \in Requests :
          /\ Fresh(r)
          /\ client' = [client EXCEPT ![c] = [at |-> "admitted", kind |-> j, id |-> r]]
          /\ request' = [request EXCEPT ![r].kind = j, ![r].bound = generation]
  BY DEF Admit
<1>2. /\ client[c].at = "idle" /\ UNCHANGED <<running, generation, slot, main>>
      /\ generation # 0
  BY DEF Admit, TypeOK
<1>3. request[r] = NoRequest /\ request[r].bound = 0
  BY <1>1 DEF Fresh, IpcInv, FreshUntouched
<1>4. /\ \A q \in Requests : q # r => request'[q] = request[q]
      /\ request'[r] = [NoRequest EXCEPT !.kind = j, !.bound = generation]
  BY <1>1, <1>3 DEF TypeOK, NoRequest
<1>5. /\ \A d \in Clients : d # c => client'[d] = client[d]
      /\ client'[c] = [at |-> "admitted", kind |-> j, id |-> r]
  BY <1>1 DEF TypeOK
<1>6. /\ \A d \in Clients : client[d].at # "idle" => client[d].id # r
      /\ \A k \in Services : slot[k].owner # r
      /\ main.busy => main.id # r
  <2>1. 0 \notin Requests
    BY BoundsAssumption DEF Requests
  <2>2. main.busy => main.id # r
    BY <1>3, PumpTurns DEF IpcInv, WorkInHand, TypeOK, Main
  <2>3. QED
    BY <1>3, <2>1, <2>2 DEF IpcInv, ClientsHoldRequests, Holds, SlotsOwned
<1>7. FreshUntouched'
  <2>1. FreshUntouched
    BY DEF IpcInv
  <2>2. request'[r].bound # 0
    BY <1>2, <1>4 DEF NoRequest
  <2>3. \A q \in Requests : q # r => (request'[q].bound = 0 => request'[q] = NoRequest)
    BY <1>4, <2>1 DEF FreshUntouched
  <2>4. NoRequest' = NoRequest
    BY DEF NoRequest
  <2>5. QED
    BY <2>2, <2>3, <2>4 DEF FreshUntouched
<1>8. ClientsHoldRequests'
  <2>1. ASSUME NEW d \in Clients PROVE Holds(d)' /\ Unposted(d)'
    <3>1. Holds(d) /\ Unposted(d)
      BY DEF IpcInv, ClientsHoldRequests
    <3>2. CASE d = c
      <4>1. /\ request'[r].bound = generation /\ request'[r].kind = j
            /\ request'[r].reply = "none" /\ request'[r].work = "none"
            /\ request'[r].runs = 0
        BY <1>4 DEF NoRequest
      <4>2. client'[d].id = r /\ client'[d].kind = j /\ client'[d].at = "admitted"
        BY <1>5, <3>2
      <4>3. QED
        BY <1>2, <1>6, <4>1, <4>2 DEF Holds, Unposted
    <3>3. CASE d # c
      BY <1>2, <1>4, <1>5, <1>6, <3>1, <3>3 DEF Holds, Unposted
    <3>4. QED
      BY <3>2, <3>3
  <2>2. ASSUME NEW d \in Clients, NEW e \in Clients, Shares(d, e)' PROVE d = e
    BY <1>5, <1>6, <2>2 DEF IpcInv, ClientsHoldRequests, Shares
  <2>3. QED
    BY <2>1, <2>2 DEF ClientsHoldRequests
<1>9. WaitersOwnSlots'
  BY <1>2, <1>5 DEF IpcInv, WaitersOwnSlots
<1>10. \A k \in Services : slot[k].owner # 0 => request'[slot[k].owner] = request[slot[k].owner]
  BY <1>4, <1>6 DEF TypeOK, Slot, Requests
<1>11. SlotsOwned' /\ GuardedSlots'
  BY <1>2, <1>10 DEF IpcInv, SlotsOwned, GuardedSlots, GuardedSlot, GuardedServices, Retaining,
                     Numbered, Services
<1>12. WorkInHand'
  BY <1>2, <1>4, <1>6 DEF IpcInv, WorkInHand
<1>13. WorkedOnce'
  BY <1>4 DEF IpcInv, WorkedOnce, Guarded, NoRequest
<1>14. RetainedWhileExecuting'
  BY <1>2 DEF IpcInv, RetainedWhileExecuting, Turn
<1>15. SwitchHonoursBinding'
  BY <1>4 DEF IpcInv, SwitchHonoursBinding, NoRequest
<1>16. QED
  BY <1>7, <1>8, <1>9, <1>11, <1>12, <1>13, <1>14, <1>15 DEF IpcInv

(* Telling a client its answer touches nothing but its reply.              *)
LEMMA ToldFrame ==
    ASSUME IpcState, NEW c \in Clients, NEW o, client[c].at # "idle", Told(c, o)
    PROVE  /\ client[c].id \in Requests
           /\ request'[client[c].id] = [request[client[c].id] EXCEPT !.reply = o]
           /\ \A q \in Requests : q # client[c].id => request'[q] = request[q]
           /\ \A q \in Requests :
                 /\ request'[q].bound = request[q].bound
                 /\ request'[q].kind = request[q].kind
                 /\ request'[q].work = request[q].work
                 /\ request'[q].runs = request[q].runs
                 /\ request'[q].ranIn = request[q].ranIn
           /\ client'[c] = IdleClient
           /\ \A d \in Clients : d # c => client'[d] = client[d]
<1>1. client[c].id \in Requests /\ request \in [Requests -> Request]
  BY DEF IpcState, TypeOK, IpcInv, ClientsHoldRequests, Holds
<1>2. request' = [request EXCEPT ![client[c].id].reply = o]
  BY DEF Told
<1>3. /\ request'[client[c].id] = [request[client[c].id] EXCEPT !.reply = o]
      /\ \A q \in Requests : q # client[c].id => request'[q] = request[q]
  BY <1>1, <1>2
<1>4. \A q \in Requests : request[q] \in Request
  BY <1>1
<1>5. client'[c] = IdleClient /\ \A d \in Clients : d # c => client'[d] = client[d]
  BY DEF Told, IpcState, TypeOK
<1>6. QED
  BY <1>1, <1>3, <1>4, <1>5 DEF Request

(* What an answer leaves as it was, if the slots still agree.              *)
LEMMA ToldInv ==
    ASSUME IpcState, NEW c \in Clients, NEW o \in {"ok", "failed"},
           client[c].at # "idle", Told(c, o),
           UNCHANGED <<running, generation, main>>,
           \A k \in Services : slot'[k].owner = slot[k].owner
    PROVE  FreshUntouched' /\ ClientsHoldRequests' /\ WorkedOnce' /\ SwitchHonoursBinding'
<1> DEFINE own == client[c].id
<1>0. /\ own \in Requests
      /\ \A q \in Requests : q # own => request'[q] = request[q]
      /\ \A q \in Requests :
            /\ request'[q].bound = request[q].bound
            /\ request'[q].kind = request[q].kind
            /\ request'[q].work = request[q].work
            /\ request'[q].runs = request[q].runs
            /\ request'[q].ranIn = request[q].ranIn
      /\ client'[c] = IdleClient
      /\ \A d \in Clients : d # c => client'[d] = client[d]
  BY ToldFrame
<1>1. FreshUntouched'
  <2>1. request[own].bound # 0
    BY DEF IpcState, IpcInv, ClientsHoldRequests, Holds
  <2>2. QED
    BY <2>1, <1>0 DEF IpcState, IpcInv, FreshUntouched
<1>2. ClientsHoldRequests'
  <2>1. ASSUME NEW d \in Clients PROVE Holds(d)' /\ Unposted(d)'
    <3>1. Holds(d) /\ Unposted(d) /\ (Shares(c, d) => c = d)
      BY DEF IpcState, IpcInv, ClientsHoldRequests
    <3>2. CASE d = c
      BY <3>2, <1>0 DEF Holds, Unposted, IdleClient
    <3>3. CASE d # c
      BY <3>1, <3>3, <1>0 DEF Holds, Unposted, Shares
    <3>4. QED
      BY <3>2, <3>3
  <2>2. ASSUME NEW d \in Clients, NEW e \in Clients, Shares(d, e)' PROVE d = e
    BY <2>2, <1>0 DEF IpcState, IpcInv, ClientsHoldRequests, Shares, IdleClient
  <2>3. QED
    BY <2>1, <2>2 DEF ClientsHoldRequests
<1>3. WorkedOnce' /\ SwitchHonoursBinding'
  BY <1>0 DEF IpcState, IpcInv, WorkedOnce, Guarded, SwitchHonoursBinding
<1>4. QED
  BY <1>1, <1>2, <1>3

LEMMA PostInv ==
    ASSUME IpcState, NEW c \in Clients, Post(c)
    PROVE  IpcInv'
<1> DEFINE k == client[c].kind
           own == client[c].id
<1> USE DEF IpcState
<1>1. /\ k \in Services /\ client[c].at = "admitted"
      /\ UNCHANGED <<running, generation, main>>
  BY DEF Post, TypeOK, Client
<1>2. CASE slot[k].inflight
  <2>1. Told(c, "failed") /\ UNCHANGED slot
    BY <1>2 DEF Post
  <2>2. FreshUntouched' /\ ClientsHoldRequests' /\ WorkedOnce' /\ SwitchHonoursBinding'
    BY <1>1, <2>1, ToldInv
  <2>3. /\ \A q \in Requests :
              /\ request'[q].bound = request[q].bound
              /\ request'[q].kind = request[q].kind
              /\ request'[q].work = request[q].work
              /\ request'[q].runs = request[q].runs
        /\ client'[c] = IdleClient
        /\ \A d \in Clients : d # c => client'[d] = client[d]
    BY <1>1, <2>1, ToldFrame
  <2>4. WaitersOwnSlots'
    BY <2>1, <2>3 DEF IpcInv, WaitersOwnSlots, IdleClient
  <2>5. \A j \in Services : slot[j].owner # 0 => slot[j].owner \in Requests
    BY DEF TypeOK, Slot, Requests
  <2>6. SlotsOwned'
    BY <2>1, <2>3, <2>5 DEF IpcInv, SlotsOwned
  <2>7. GuardedSlots'
    BY <2>1, <2>3, <2>5 DEF IpcInv, SlotsOwned, GuardedSlots, GuardedSlot, GuardedServices, Retaining, Numbered,
                            Services
  <2>8. WorkInHand'
    BY <1>1, <2>1, <2>3 DEF IpcInv, WorkInHand
  <2>9. RetainedWhileExecuting'
    BY <1>1, <2>1 DEF IpcInv, RetainedWhileExecuting, Turn
  <2>10. QED
    BY <2>2, <2>4, <2>6, <2>7, <2>8, <2>9 DEF IpcInv
<1>3. CASE ~slot[k].inflight
  <2>1. /\ slot' = [slot EXCEPT ![k] = Posted(c, k)]
        /\ client' = [client EXCEPT ![c].at = "waiting"]
        /\ UNCHANGED request
    BY <1>3 DEF Post
  <2>2. /\ slot'[k] = Posted(c, k)
        /\ \A j \in Services : j # k => slot'[j] = slot[j]
        /\ client'[c].at = "waiting" /\ client'[c].kind = k /\ client'[c].id = own
        /\ \A d \in Clients : d # c => client'[d] = client[d]
    BY <1>1, <2>1 DEF TypeOK, Client
  <2>3. /\ own \in Requests /\ own # 0
        /\ request[own].bound # 0 /\ request[own].kind = k
        /\ request[own].work = "none" /\ request[own].runs = 0
        /\ main.busy => main.id # own
        /\ \A d \in Clients : d # c /\ client[d].at # "idle" => client[d].id # own
    BY <1>1 DEF IpcInv, ClientsHoldRequests, Holds, Unposted, Shares, Requests
  <2>4. FreshUntouched' /\ WorkedOnce' /\ SwitchHonoursBinding'
    BY <2>1 DEF IpcInv, FreshUntouched, WorkedOnce, Guarded, SwitchHonoursBinding
  <2>5. ClientsHoldRequests'
    <3>1. ASSUME NEW d \in Clients PROVE Holds(d)' /\ Unposted(d)'
      <4>1. Holds(d) /\ Unposted(d)
        BY DEF IpcInv, ClientsHoldRequests
      <4>2. CASE d = c
        BY <1>1, <2>1, <2>2, <4>1, <4>2 DEF Holds, Unposted
      <4>3. CASE d # c
        BY <1>1, <2>1, <2>2, <2>3, <4>1, <4>3 DEF Holds, Unposted, Posted
      <4>4. QED
        BY <4>2, <4>3
    <3>2. ASSUME NEW d \in Clients, NEW e \in Clients, Shares(d, e)' PROVE d = e
      BY <1>1, <2>2, <3>2 DEF IpcInv, ClientsHoldRequests, Shares
    <3>3. QED
      BY <3>1, <3>2 DEF ClientsHoldRequests
  <2>6. WaitersOwnSlots'
    <3> SUFFICES ASSUME NEW d \in Clients, NEW j \in GuardedServices,
                        client'[d].at = "waiting" /\ client'[d].kind = j
                 PROVE  /\ slot'[j].inflight /\ slot'[j].owner = client'[d].id
                        /\ ~slot'[j].abandoned
      BY DEF WaitersOwnSlots
    <3>1. CASE d = c
      BY <2>2, <3>1 DEF Posted
    <3>2. CASE d # c
      <4>1. slot[j].inflight /\ slot[j].owner = client[d].id /\ ~slot[j].abandoned
        BY <2>2, <3>2 DEF IpcInv, WaitersOwnSlots
      <4>2. j # k /\ j \in Services
        BY <1>3, <4>1 DEF GuardedServices, Retaining, Numbered, Services
      <4>3. QED
        BY <2>2, <3>2, <4>1, <4>2
    <3>3. QED
      BY <3>1, <3>2
  <2>7. SlotsOwned'
    BY <2>1, <2>2, <2>3 DEF IpcInv, SlotsOwned, Posted
  <2>8. GuardedSlots'
    BY <2>1, <2>2, <2>3 DEF IpcInv, GuardedSlots, GuardedSlot, Posted, GuardedServices, Retaining,
                            Numbered, Services
  <2>9. WorkInHand'
    BY <1>1, <2>1, <2>2, <2>3 DEF IpcInv, WorkInHand, Posted
  <2>10. RetainedWhileExecuting'
    BY <1>1, <1>3, <2>2 DEF IpcInv, RetainedWhileExecuting, Turn, Retaining, Services
  <2>11. QED
    BY <2>4, <2>5, <2>6, <2>7, <2>8, <2>9, <2>10 DEF IpcInv
<1>4. QED
  BY <1>2, <1>3

(* TakeAnswer and Timeout: only the owner's slot changes, and not its      *)
(* owner; it no longer asks for work.                                      *)
LEMMA LeaveInv ==
    ASSUME IpcState, NEW c \in Clients, NEW s \in Slot, NEW o \in {"ok", "failed"},
           client[c].at = "waiting",
           slot' = [slot EXCEPT ![client[c].kind] = s],
           Told(c, o),
           UNCHANGED <<running, generation, main>>,
           /\ s.owner = slot[client[c].kind].owner
           /\ s.expect = slot[client[c].kind].expect
           /\ s.started = slot[client[c].kind].started
           /\ s.pending => slot[client[c].kind].pending
           /\ s.executing = slot[client[c].kind].executing
           /\ client[c].kind \in GuardedServices =>
                 /\ ~s.pending
                 /\ s.completed = slot[client[c].kind].completed
                 /\ s.success => slot[client[c].kind].success
           /\ client[c].kind \in Retaining /\ s.executing =>
                 (main.busy /\ Turn(client[c].kind) =>
                     s.inflight /\ s.args = slot[client[c].kind].args)
    PROVE  IpcInv'
<1> DEFINE k == client[c].kind
<1> USE DEF IpcState
<1>1. /\ k \in Services
      /\ slot'[k] = s
      /\ \A j \in Services : j # k => slot'[j] = slot[j]
      /\ \A j \in Services : slot'[j].owner = slot[j].owner
  BY DEF TypeOK, Client
<1>2. FreshUntouched' /\ ClientsHoldRequests' /\ WorkedOnce' /\ SwitchHonoursBinding'
  BY <1>1, ToldInv
<1>3. /\ \A q \in Requests :
            /\ request'[q].bound = request[q].bound
            /\ request'[q].kind = request[q].kind
            /\ request'[q].work = request[q].work
            /\ request'[q].runs = request[q].runs
      /\ client'[c] = IdleClient
      /\ \A d \in Clients : d # c => client'[d] = client[d]
  BY ToldFrame
<1>4. \A j \in Services : slot[j].owner # 0 => slot[j].owner \in Requests
  BY DEF TypeOK, Slot, Requests
<1>5. WaitersOwnSlots'
  <2> SUFFICES ASSUME NEW d \in Clients, NEW j \in GuardedServices,
                      client'[d].at = "waiting" /\ client'[d].kind = j
               PROVE  /\ slot'[j].inflight /\ slot'[j].owner = client'[d].id
                      /\ ~slot'[j].abandoned
    BY DEF WaitersOwnSlots
  <2>1. d # c /\ client'[d] = client[d]
    BY <1>3 DEF IdleClient
  <2>2. slot[j].inflight /\ slot[j].owner = client[d].id /\ ~slot[j].abandoned
    BY <2>1 DEF IpcInv, WaitersOwnSlots
  <2>3. j # k
    <3>1. j = k => slot[j].owner = client[c].id
      BY DEF IpcInv, WaitersOwnSlots
    <3>2. client[d].id # client[c].id
      BY <2>1 DEF IpcInv, ClientsHoldRequests, Shares
    <3>3. QED
      BY <2>2, <3>1, <3>2
  <2>4. QED
    BY <1>1, <2>1, <2>2, <2>3 DEF GuardedServices, Retaining, Numbered, Services
<1>6. SlotsOwned'
  BY <1>1, <1>3, <1>4 DEF IpcInv, SlotsOwned
<1>7. GuardedSlots'
  BY <1>1, <1>3, <1>4 DEF IpcInv, SlotsOwned, GuardedSlots, GuardedSlot, GuardedServices, Retaining, Numbered,
                          Services
<1>8. WorkInHand'
  BY <1>1, <1>3 DEF IpcInv, WorkInHand
<1>9. RetainedWhileExecuting'
  BY <1>1 DEF IpcInv, RetainedWhileExecuting, Turn, Retaining, Services
<1>10. QED
  BY <1>2, <1>5, <1>6, <1>7, <1>8, <1>9 DEF IpcInv

LEMMA TakeAnswerInv ==
    ASSUME IpcState, NEW c \in Clients, TakeAnswer(c)
    PROVE  IpcInv'
<1> DEFINE k == client[c].kind
<1> USE DEF IpcState
<1>1. k \in Services /\ slot[k] \in Slot
  BY DEF TypeOK, Client
<1>2. Released(k) \in Slot
  BY <1>1, ZeroInRange DEF Released, Slot
<1>3. /\ Released(k).owner = slot[k].owner
      /\ Released(k).expect = slot[k].expect
      /\ Released(k).started = slot[k].started
      /\ Released(k).executing = slot[k].executing
      /\ Released(k).pending = slot[k].pending
      /\ Released(k).completed = slot[k].completed
      /\ Released(k).success = slot[k].success
  BY <1>1 DEF Released, Slot
<1>4. /\ client[c].at = "waiting"
      /\ slot' = [slot EXCEPT ![k] = Released(k)]
      /\ Told(c, IF slot[k].success THEN "ok" ELSE "failed")
      /\ UNCHANGED <<running, generation, main>>
      /\ k \in GuardedServices => slot[k].completed
  BY DEF TakeAnswer, GuardedServices, Retaining, Numbered, Plain
<1>5. k \in GuardedServices => ~slot[k].pending
  BY <1>4 DEF IpcInv, GuardedSlots, GuardedSlot
<1>6. k \in Retaining => ~slot[k].executing
  BY <1>4 DEF IpcInv, GuardedSlots, GuardedSlot, GuardedServices
<1>7. QED
  BY <1>2, <1>3, <1>4, <1>5, <1>6, LeaveInv

LEMMA TimeoutInv ==
    ASSUME IpcState, NEW c \in Clients, Timeout(c)
    PROVE  IpcInv'
<1> DEFINE k == client[c].kind
<1> USE DEF IpcState
<1>1. k \in Services /\ slot[k] \in Slot
  BY DEF TypeOK, Client
<1>2. /\ client[c].at = "waiting"
      /\ slot' = [slot EXCEPT ![k] = GivenUp(k)]
      /\ Told(c, "failed")
      /\ UNCHANGED <<running, generation, main>>
  BY DEF Timeout
<1>3. GivenUp(k) \in Slot
  BY <1>1, <1>2, LeaveType DEF TypeOK
<1>4. CASE k \in Retaining
  <2>1. GivenUp(k) = [slot[k] EXCEPT !.pending = FALSE, !.abandoned = TRUE,
                          !.inflight = slot[k].executing,
                          !.args = IF slot[k].executing THEN @ ELSE 0]
    BY <1>4 DEF GivenUp, Retaining, Numbered, Plain
  <2>2. QED
    BY <1>1, <1>2, <1>3, <2>1, LeaveInv DEF Slot
<1>5. CASE k \in Numbered
  <2>1. GivenUp(k) = [slot[k] EXCEPT !.pending = FALSE, !.inflight = FALSE]
    BY <1>5 DEF GivenUp, Retaining, Numbered, Plain
  <2>2. k \notin Retaining
    BY <1>5 DEF Retaining, Numbered
  <2>3. QED
    BY <1>1, <1>2, <1>3, <2>1, <2>2, LeaveInv DEF Slot
<1>6. CASE k \in Plain
  <2>1. GivenUp(k) = [slot[k] EXCEPT !.pending = FALSE, !.inflight = FALSE,
                                     !.completed = TRUE, !.success = FALSE]
    BY <1>6 DEF GivenUp, Retaining, Numbered, Plain
  <2>2. k \notin GuardedServices /\ k \notin Retaining
    BY <1>6 DEF GuardedServices, Plain, Retaining, Numbered
  <2>3. QED
    BY <1>1, <1>2, <1>3, <2>1, <2>2, LeaveInv DEF Slot
<1>7. QED
  BY <1>1, <1>4, <1>5, <1>6 DEF Services, Retaining, Numbered, Plain

LEMMA PassOverInv ==
    ASSUME IpcState, NEW k \in Services, PassOver(k)
    PROVE  IpcInv'
<1> USE DEF IpcState
<1>1. /\ ~main'.busy /\ ~main.busy
      /\ UNCHANGED <<running, generation, slot, client, request>>
  BY DEF PassOver, PumpingFrom
<1>2. ClientsHoldRequests'
  BY <1>1 DEF IpcInv, ClientsHoldRequests, Holds, Unposted, Shares
<1>3. FreshUntouched' /\ WaitersOwnSlots' /\ SlotsOwned' /\ GuardedSlots'
  BY <1>1 DEF IpcInv, FreshUntouched, WaitersOwnSlots, SlotsOwned, GuardedSlots, GuardedSlot
<1>4. WorkInHand' /\ RetainedWhileExecuting'
  BY <1>1 DEF WorkInHand, RetainedWhileExecuting
<1>5. WorkedOnce' /\ SwitchHonoursBinding'
  BY <1>1 DEF IpcInv, WorkedOnce, Guarded, SwitchHonoursBinding
<1>6. QED
  BY <1>2, <1>3, <1>4, <1>5 DEF IpcInv

LEMMA SwitchInv ==
    ASSUME IpcState, Switch
    PROVE  IpcInv'
<1> USE DEF IpcState
<1>1. UNCHANGED <<running, slot, client, main, request>>
  BY DEF Switch
<1>2. ClientsHoldRequests'
  BY <1>1 DEF IpcInv, ClientsHoldRequests, Holds, Unposted, Shares
<1>3. FreshUntouched' /\ WaitersOwnSlots' /\ SlotsOwned' /\ GuardedSlots'
  BY <1>1 DEF IpcInv, FreshUntouched, WaitersOwnSlots, SlotsOwned, GuardedSlots, GuardedSlot
<1>4. WorkInHand' /\ RetainedWhileExecuting'
  BY <1>1 DEF IpcInv, WorkInHand, RetainedWhileExecuting, Turn
<1>5. WorkedOnce' /\ SwitchHonoursBinding'
  BY <1>1 DEF IpcInv, WorkedOnce, Guarded, SwitchHonoursBinding
<1>6. QED
  BY <1>2, <1>3, <1>4, <1>5 DEF IpcInv

LEMMA StopInv ==
    ASSUME IpcState, Stop
    PROVE  IpcInv'
<1> USE DEF IpcState
<1>1. /\ ~main.busy /\ UNCHANGED <<generation, client, main, request>>
      /\ slot' = [k \in Services |-> Stopped(k)]
  BY DEF Stop, BetweenPumps
<1>2. \A k \in Services :
          /\ slot'[k].owner = slot[k].owner
          /\ slot'[k].expect = slot[k].expect
          /\ slot'[k].pending => slot[k].pending
  BY <1>1 DEF Stopped, TypeOK, Slot
<1>3. \A k \in GuardedServices :
          /\ k \in Services
          /\ slot'[k].inflight = slot[k].inflight
          /\ slot'[k].abandoned = slot[k].abandoned
          /\ slot'[k] # slot[k] => ~slot'[k].pending /\ ~slot'[k].success
          /\ k \in Retaining => slot'[k] = slot[k]
  BY <1>1 DEF Stopped, TypeOK, Slot, GuardedServices, Retaining, Numbered, Services, Plain
<1>4. ClientsHoldRequests'
  BY <1>1, <1>2 DEF IpcInv, ClientsHoldRequests, Holds, Unposted, Shares
<1>5. FreshUntouched' /\ SlotsOwned'
  BY <1>1, <1>2 DEF IpcInv, FreshUntouched, SlotsOwned
<1>6. WaitersOwnSlots'
  BY <1>1, <1>2, <1>3 DEF IpcInv, WaitersOwnSlots
<1>7. GuardedSlots'
  BY <1>1, <1>3 DEF IpcInv, GuardedSlots, GuardedSlot
<1>8. WorkInHand' /\ RetainedWhileExecuting'
  BY <1>1 DEF WorkInHand, RetainedWhileExecuting
<1>9. WorkedOnce' /\ SwitchHonoursBinding'
  BY <1>1 DEF IpcInv, WorkedOnce, Guarded, SwitchHonoursBinding
<1>10. QED
  BY <1>4, <1>5, <1>6, <1>7, <1>8, <1>9 DEF IpcInv

LEMMA TakeInv ==
    ASSUME IpcState, NEW k \in Services, Take(k)
    PROVE  IpcInv'
<1> DEFINE own == slot[k].owner
<1> USE DEF IpcState
<1>1. /\ running /\ PumpOrder[main.turn] = k /\ ~main.busy
      /\ slot[k].pending /\ slot[k].inflight
      /\ UNCHANGED <<running, generation, client, request>>
  BY DEF Take, Turn, Wanted
<1>2. /\ slot[k] \in Slot
      /\ \A j \in Services : j # k => slot'[j] = slot[j]
      /\ \A j \in Services : slot'[j].owner = slot[j].owner
      /\ \A j \in Services : slot'[j].expect = slot[j].expect
      /\ \A j \in Services : slot'[j].inflight = slot[j].inflight
      /\ \A j \in Services : slot'[j].abandoned = slot[j].abandoned
      /\ \A j \in Services : slot'[j].completed = slot[j].completed
      /\ \A j \in Services : slot'[j].success = slot[j].success
      /\ \A j \in Services : slot'[j].args = slot[j].args
      /\ k = "typing" => slot'[k].started
      /\ k # "typing" => ~slot'[k].pending
      /\ k \in Retaining => slot'[k].executing
  BY DEF Take, TypeOK, Slot
<1>3. /\ main'.busy /\ main'.id = own /\ main'.turn = main.turn
      /\ main'.expect = slot[k].expect
      /\ main'.begin = ~slot[k].started
  BY DEF Take, TypeOK, Main
<1>4. /\ own # 0 /\ own \in Requests /\ main.turn \in 1..6
      /\ request[own].bound # 0 /\ request[own].kind = k
      /\ k = "workspace" => slot[k].expect = request[own].bound
  BY <1>1, NextTurnType DEF IpcInv, SlotsOwned, TypeOK, Slot, Requests
<1>5. k \in GuardedServices =>
          /\ request[own].work = "none"
          /\ ~slot[k].started => request[own].runs = 0
          /\ ~slot[k].completed
          /\ k \in Retaining => slot[k].args = own
  BY <1>1 DEF IpcInv, GuardedSlots, GuardedSlot
<1>6. ClientsHoldRequests'
  <2>1. ASSUME NEW d \in Clients PROVE Holds(d)' /\ Unposted(d)'
    BY <1>1, <1>2, <1>3 DEF IpcInv, ClientsHoldRequests, Holds, Unposted
  <2>2. QED
    BY <1>1, <2>1 DEF IpcInv, ClientsHoldRequests, Shares
<1>7. WaitersOwnSlots'
  BY <1>1, <1>2 DEF IpcInv, WaitersOwnSlots, GuardedServices, Retaining, Numbered, Services
<1>8. FreshUntouched' /\ WorkedOnce' /\ SwitchHonoursBinding'
  BY <1>1 DEF IpcInv, FreshUntouched, WorkedOnce, Guarded, SwitchHonoursBinding
<1>9. SlotsOwned'
  BY <1>1, <1>2, <1>4 DEF IpcInv, SlotsOwned
<1>10. GuardedSlots'
  <2>1. GuardedServices \subseteq Services
    BY DEF GuardedServices, Retaining, Numbered, Services
  <2>2. slot'[k].pending => slot'[k].started
    BY <1>2
  <2>3. QED
    BY <1>1, <1>2, <1>5, <2>1, <2>2 DEF IpcInv, GuardedSlots, GuardedSlot
<1>11. /\ \A j \in Services : PumpOrder[main'.turn] = j => j = k
       /\ \A j \in Services : Turn(j)' => j = k
  BY <1>1, <1>3 DEF Turn
<1>12. WorkInHand'
  <2>1. /\ running' /\ main'.id \in Requests
        /\ request'[main'.id].bound # 0
        /\ request'[main'.id].kind = k
        /\ k = "workspace" => main'.expect = request'[main'.id].bound
    BY <1>1, <1>3, <1>4
  <2>2. k \in GuardedServices =>
            /\ request'[main'.id].work = "none"
            /\ main'.begin => request'[main'.id].runs = 0
    BY <1>1, <1>3, <1>5
  <2>3. QED
    BY <1>1, <1>2, <1>3, <1>11, <2>1, <2>2 DEF WorkInHand
<1>13. RetainedWhileExecuting'
  BY <1>1, <1>2, <1>3, <1>5, <1>11
     DEF RetainedWhileExecuting, Retaining, Services, GuardedServices
<1>14. QED
  BY <1>6, <1>7, <1>8, <1>9, <1>10, <1>12, <1>13 DEF IpcInv

(* What the end of a handler does to the slots and to the request in hand. *)
LEMMA FinishFrame ==
    ASSUME IpcState, NEW k \in Services, NEW o \in {"ok", "failed", "continue"},
           Finish(k, o)
    PROVE  /\ k = PumpOrder[main.turn] /\ main.busy /\ ~main'.busy
           /\ main.id \in Requests
           /\ \A q \in Requests : q # main.id => request'[q] = request[q]
           /\ \A q \in Requests :
                 /\ request'[q].bound = request[q].bound
                 /\ request'[q].kind = request[q].kind
                 /\ request'[q].reply = request[q].reply
           /\ Stale(k) => request' = request
           /\ ~Stale(k) =>
                 /\ request'[main.id].work = IF o = "continue" THEN request[main.id].work ELSE o
                 /\ request'[main.id].ranIn \in {generation, request[main.id].ranIn}
                 /\ request'[main.id].runs \in {request[main.id].runs, request[main.id].runs + 1}
                 /\ ~main.begin => request'[main.id].runs = request[main.id].runs
           /\ \A j \in Services : j # k => slot'[j] = slot[j]
           /\ slot'[k] = IF o # "continue" /\ Accepted(k) THEN Completed(k, o) ELSE slot[k]
<1> USE DEF IpcState
<1>1. k = PumpOrder[main.turn] /\ main.busy /\ ~main'.busy
  BY DEF Finish, Turn, PumpingFrom
<1>2. main.id \in Requests
  BY <1>1 DEF IpcInv, WorkInHand
<1>3. /\ \A j \in Services : j # k => slot'[j] = slot[j]
      /\ slot'[k] = IF o # "continue" /\ Accepted(k) THEN Completed(k, o) ELSE slot[k]
  BY DEF Finish, TypeOK
<1>4. CASE Stale(k)
  <2>1. request' = request
    BY <1>4 DEF Finish, Worked
  <2>2. QED
    BY <1>1, <1>2, <1>3, <1>4, <2>1
<1>5. CASE ~Stale(k)
  <2> DEFINE old == request[main.id]
             new == [old EXCEPT !.work = IF o = "continue" THEN @ ELSE o,
                                !.ranIn = IF main.begin THEN generation ELSE @,
                                !.runs = IF main.begin /\ @ < 2 THEN @ + 1 ELSE @]
  <2>1. old \in Request
    BY <1>2 DEF TypeOK
  <2>2. Worked(k, o)
    BY DEF Finish
  <2>3. request' = [request EXCEPT ![main.id] = new]
    BY <1>5, <2>2 DEF Worked
  <2>4. request'[main.id] = new /\ \A q \in Requests : q # main.id => request'[q] = request[q]
    BY <1>2, <2>3 DEF TypeOK
  <2>5. /\ new.bound = old.bound /\ new.kind = old.kind /\ new.reply = old.reply
        /\ new.work = IF o = "continue" THEN old.work ELSE o
        /\ new.ranIn \in {generation, old.ranIn}
        /\ new.runs \in {old.runs, old.runs + 1}
        /\ ~main.begin => new.runs = old.runs
    BY <2>1 DEF Request
  <2> HIDE DEF new
  <2>6. QED
    BY <1>1, <1>2, <1>3, <1>5, <2>4, <2>5
<1>6. QED
  BY <1>4, <1>5

LEMMA CompletedFields ==
    ASSUME IpcState, NEW k \in Services, NEW o \in {"ok", "failed", "continue"}
    PROVE  /\ Completed(k, o).owner = slot[k].owner
           /\ Completed(k, o).expect = slot[k].expect
           /\ Completed(k, o).started = slot[k].started
           /\ Completed(k, o).abandoned = slot[k].abandoned
           /\ ~Completed(k, o).executing
           /\ Completed(k, o).success => o = "ok"
           /\ Completed(k, o).pending => slot[k].pending /\ k # "typing"
           /\ slot[k].inflight /\ ~slot[k].abandoned => Completed(k, o).inflight
<1>1. slot[k] \in Slot
  BY DEF IpcState, TypeOK
<1>2. QED
  BY <1>1 DEF Completed, Slot

LEMMA FinishInv ==
    ASSUME IpcState, NEW k \in Services, NEW o \in {"ok", "failed", "continue"},
           Finish(k, o)
    PROVE  IpcInv'
<1> DEFINE id == main.id
           done == o # "continue" /\ Accepted(k)
<1> USE DEF IpcState
<1>1. /\ k = PumpOrder[main.turn] /\ main.busy /\ ~main'.busy
      /\ id \in Requests
      /\ \A q \in Requests : q # id => request'[q] = request[q]
      /\ \A q \in Requests :
            /\ request'[q].bound = request[q].bound
            /\ request'[q].kind = request[q].kind
            /\ request'[q].reply = request[q].reply
  BY FinishFrame
<1>2. /\ Stale(k) => request' = request
      /\ ~Stale(k) =>
            /\ request'[id].work = IF o = "continue" THEN request[id].work ELSE o
            /\ request'[id].ranIn \in {generation, request[id].ranIn}
            /\ request'[id].runs \in {request[id].runs, request[id].runs + 1}
            /\ ~main.begin => request'[id].runs = request[id].runs
  BY FinishFrame
<1>3. /\ \A j \in Services : j # k => slot'[j] = slot[j]
      /\ slot'[k] = IF done THEN Completed(k, o) ELSE slot[k]
  BY FinishFrame
<1>4. UNCHANGED <<running, client>> /\ (Stale(k) => o = "failed")
      /\ (o = "continue" => k = "typing")
  BY DEF Finish
<1>5. /\ request[id].bound # 0 /\ request[id].kind = k
      /\ k = "workspace" => main.expect = request[id].bound
      /\ k \in GuardedServices =>
            /\ request[id].work = "none"
            /\ main.begin => request[id].runs = 0
            /\ slot[k].owner = id => IF k = "typing" THEN slot[k].started ELSE ~slot[k].pending
  BY <1>1 DEF IpcInv, WorkInHand
<1>6. /\ \A j \in Services :
            /\ slot'[j].owner = slot[j].owner
            /\ slot'[j].expect = slot[j].expect
            /\ slot'[j].started = slot[j].started
            /\ slot'[j].abandoned = slot[j].abandoned
            /\ slot'[j].pending => slot[j].pending
            /\ slot[j].inflight /\ ~slot[j].abandoned => slot'[j].inflight
      /\ slot'[k].success => slot[k].success \/ (done /\ o = "ok")
      /\ k = "typing" /\ done => ~slot'[k].pending
  BY <1>3, CompletedFields
<1>7. \A j \in Services : slot[j].owner # 0 => slot[j].owner \in Requests
  BY DEF TypeOK, Slot, Requests
<1>8. FreshUntouched'
  BY <1>1, <1>5 DEF IpcInv, FreshUntouched
<1>9. ClientsHoldRequests'
  <2>1. ASSUME NEW d \in Clients PROVE Holds(d)' /\ Unposted(d)'
    BY <1>1, <1>4, <1>6 DEF IpcInv, ClientsHoldRequests, Holds, Unposted
  <2>2. QED
    BY <1>4, <2>1 DEF IpcInv, ClientsHoldRequests, Shares
<1>10. WaitersOwnSlots'
  BY <1>4, <1>6 DEF IpcInv, WaitersOwnSlots, GuardedServices, Retaining, Numbered, Services
<1>11. SlotsOwned'
  BY <1>1, <1>6, <1>7 DEF IpcInv, SlotsOwned
<1>12. GuardedSlots'
  <2>1. ASSUME NEW j \in GuardedServices, j # k
        PROVE  slot'[j] = slot[j] /\ (slot[j].owner # 0 => request'[slot[j].owner] = request[slot[j].owner])
    <3>1. j \in Services
      BY DEF GuardedServices, Retaining, Numbered, Services
    <3>2. QED
      BY <1>1, <1>3, <1>5, <1>7, <2>1, <3>1 DEF IpcInv, SlotsOwned
  <2>2. CASE k \in GuardedServices /\ done
    <3>1. slot[k].owner = id
      BY <1>1, <2>2, <1>4 DEF IpcInv, RetainedWhileExecuting, GuardedServices, Accepted, Finish
    <3>2. ~slot'[k].pending
      BY <1>5, <1>6, <2>2, <3>1
    <3>3. o = "ok" => request'[id].work = "ok"
      BY <1>2, <1>4
    <3>4. ~slot[k].success
      BY <1>5, <2>2, <3>1 DEF IpcInv, GuardedSlots, GuardedSlot
    <3>5. ~slot'[k].executing
      BY <1>3, <2>2, CompletedFields
    <3>6. QED
      <4>1. GuardedSlot(k)'
        BY <1>1, <1>6, <2>2, <3>1, <3>2, <3>3, <3>4, <3>5 DEF GuardedSlot, Requests
      <4>2. \A j \in GuardedServices : j # k => GuardedSlot(j)'
        BY <2>1 DEF IpcInv, GuardedSlots, GuardedSlot, SlotsOwned, GuardedServices,
                    Retaining, Numbered, Services
      <4>3. QED
        BY <4>1, <4>2 DEF GuardedSlots
  <2>3. CASE k \in GuardedServices /\ ~done
    <3>1. slot'[k] = slot[k]
      BY <1>3, <2>3
    <3>2. slot[k].owner # 0 /\ slot[k].owner # id =>
              request'[slot[k].owner] = request[slot[k].owner]
      BY <1>1, <1>7
    <3>3. slot[k].pending /\ slot[k].owner = id => k = "typing" /\ o = "continue"
      BY <1>5, <2>3 DEF IpcInv, GuardedSlots, GuardedSlot, Accepted
    <3>4. o = "continue" => request'[id].work = request[id].work
      BY <1>2
    <3>5. slot[k].success => slot[k].owner # id
      BY <1>5, <2>3 DEF IpcInv, GuardedSlots, GuardedSlot
    <3>6. slot[k].owner = id => (k = "typing" => slot[k].started)
      BY <1>5, <2>3
    <3>7. QED
      BY <2>1, <3>1, <3>2, <3>3, <3>4, <3>5, <3>6, <2>3
         DEF IpcInv, GuardedSlots, GuardedSlot, SlotsOwned, GuardedServices, Retaining, Numbered, Services
  <2>4. CASE k \notin GuardedServices
    <3>1. \A j \in GuardedServices : j \in Services /\ j # k
      BY <2>4 DEF GuardedServices, Retaining, Numbered, Services
    <3>2. QED
      BY <2>1, <3>1 DEF IpcInv, GuardedSlots, GuardedSlot, SlotsOwned
  <2>5. QED
    BY <2>2, <2>3, <2>4
<1>13. WorkInHand' /\ RetainedWhileExecuting'
  BY <1>1 DEF WorkInHand, RetainedWhileExecuting
<1>14. WorkedOnce'
  <2>1. k \notin Plain => k \in GuardedServices
    BY DEF Services, Plain, GuardedServices, Retaining, Numbered
  <2>2. Guarded(id) => request'[id].runs \in {0, 1}
    BY <1>1, <1>2, <1>5, <2>1 DEF IpcInv, WorkedOnce, Guarded
  <2>3. QED
    BY <1>1, <2>2 DEF IpcInv, WorkedOnce, Guarded
<1>15. SwitchHonoursBinding'
  <2>1. k = "workspace" /\ ~Stale(k) => generation = request[id].bound
    BY <1>5 DEF Stale, Retaining
  <2>2. request[id].kind = "workspace" /\ request'[id].ranIn # 0
            => request'[id].ranIn = request[id].bound
    BY <1>1, <1>2, <1>5, <2>1 DEF IpcInv, SwitchHonoursBinding
  <2>3. QED
    BY <1>1, <2>2 DEF IpcInv, SwitchHonoursBinding
<1>16. QED
  BY <1>8, <1>9, <1>10, <1>11, <1>12, <1>13, <1>14, <1>15 DEF IpcInv

-----------------------------------------------------------------------------
(* The theorems.                                                           *)

(* Types and the inductive invariant hold of every reachable state.        *)
THEOREM IpcInvariant == Spec => []IpcState
<1>1. Init => IpcState
  <2> SUFFICES ASSUME Init PROVE IpcState
    OBVIOUS
  <2> USE ZeroInRange, BoundsAssumption DEF Init
  <2>1. EmptySlot \in Slot /\ NoRequest \in Request /\ IdleClient \in Client
    BY DEF EmptySlot, Slot, NoRequest, Request, IdleClient, Client, Services
  <2>2. main \in Main
    BY PumpingFromType
  <2>3. TypeOK
    BY <2>1, <2>2 DEF TypeOK
  <2>4. FreshUntouched /\ WorkedOnce /\ SwitchHonoursBinding
    BY DEF FreshUntouched, WorkedOnce, SwitchHonoursBinding, Guarded, NoRequest
  <2>5. ClientsHoldRequests /\ WaitersOwnSlots
    BY DEF ClientsHoldRequests, Holds, Unposted, Shares, WaitersOwnSlots, IdleClient
  <2>6. SlotsOwned /\ GuardedSlots
    BY DEF SlotsOwned, GuardedSlots, GuardedSlot, GuardedServices, Retaining, Numbered,
           Services, EmptySlot
  <2>7. WorkInHand /\ RetainedWhileExecuting
    BY DEF WorkInHand, RetainedWhileExecuting, PumpingFrom
  <2>8. QED
    BY <2>3, <2>4, <2>5, <2>6, <2>7 DEF IpcState, IpcInv
<1>2. IpcState /\ [Next]_vars => IpcState'
  <2> SUFFICES ASSUME IpcState, [Next]_vars PROVE IpcState'
    OBVIOUS
  <2>1. ASSUME NEW c \in Clients, NEW k \in Kinds, Admit(c, k) PROVE IpcState'
    BY <2>1, AdmitType, AdmitInv DEF IpcState
  <2>2. ASSUME NEW c \in Clients, Proceed(c) PROVE IpcState'
    BY <2>2, PostType, LeaveType, PostInv, TakeAnswerInv, TimeoutInv
       DEF IpcState, IpcInv, Proceed
  <2>3. ASSUME NEW k \in Services, PassOver(k) PROVE IpcState'
    <3>1. TypeOK'
      BY <2>3, NextTurnType DEF PassOver, IpcState, TypeOK
    <3>2. QED
      BY <2>3, <3>1, PassOverInv DEF IpcState
  <2>4. ASSUME NEW k \in Services, Take(k) PROVE IpcState'
    <3>1. slot[k].owner \in Requests
      BY <2>4 DEF Take, Wanted, IpcState, IpcInv, SlotsOwned, TypeOK, Slot, Requests
    <3>2. QED
      BY <2>4, TakeType, TakeInv DEF IpcState
  <2>5. ASSUME NEW k \in Services, NEW o \in {"ok", "failed", "continue"}, Finish(k, o)
        PROVE  IpcState'
    BY <2>5, FinishFrame, FinishType, FinishInv DEF IpcState
  <2>6. CASE Switch
    <3>1. TypeOK'
      BY <2>6, BoundsAssumption DEF Switch, IpcState, TypeOK
    <3>2. QED
      BY <2>6, <3>1, SwitchInv DEF IpcState
  <2>7. CASE Stop
    BY <2>7, StopType, StopInv DEF IpcState
  <2>8. CASE UNCHANGED vars
    BY <2>8 DEF vars, IpcState, TypeOK, IpcInv, FreshUntouched, ClientsHoldRequests, Holds,
       Unposted, Shares, WaitersOwnSlots, SlotsOwned, GuardedSlots, GuardedSlot,
       WorkInHand, WorkedOnce, Guarded, RetainedWhileExecuting, Turn, SwitchHonoursBinding
  <2>9. QED
    BY <2>1, <2>2, <2>3, <2>4, <2>5, <2>6, <2>7, <2>8 DEF Next, Pump
<1>3. QED
  BY <1>1, <1>2, PTL DEF Spec

(* The slot of a change of workspace or of a document stays with the       *)
(* request the main thread works on.                                       *)
THEOREM SlotsAreRetained == Spec => []RetainedWhileExecuting
<1>1. IpcState => RetainedWhileExecuting
  BY DEF IpcState, IpcInv
<1>2. QED
  BY <1>1, IpcInvariant, PTL

(* A change of workspace is made in the generation its client had named.   *)
THEOREM SwitchesAreBound == Spec => []SwitchHonoursBinding
<1>1. IpcState => SwitchHonoursBinding
  BY DEF IpcState, IpcInv
<1>2. QED
  BY <1>1, IpcInvariant, PTL

(* What a client of a guarded service is told maps to an answer of         *)
(* RequestReply: success only if its own request succeeded.                *)
workMap == [r \in Requests |-> IF ~Guarded(r) THEN "none"
                               ELSE IF request[r].runs > 1 THEN "twice"
                               ELSE request[r].work]
replyMap == [r \in Requests |-> IF Guarded(r) THEN request[r].reply ELSE "none"]

LEMMA ToldSimulates ==
    ASSUME IpcState, NEW c \in Clients, NEW o \in {"ok", "failed"},
           client[c].at # "idle", Told(c, o),
           o = "ok" /\ Guarded(client[c].id) => request[client[c].id].work = "ok"
    PROVE  [Promise!Next]_<<workMap, replyMap>>
<1> DEFINE own == client[c].id
<1>1. /\ own \in Requests
      /\ request'[own] = [request[own] EXCEPT !.reply = o]
      /\ \A q \in Requests : q # own => request'[q] = request[q]
      /\ \A q \in Requests :
            /\ request'[q].kind = request[q].kind
            /\ request'[q].work = request[q].work
            /\ request'[q].runs = request[q].runs
  BY ToldFrame
<1>2. workMap' = workMap
  BY <1>1 DEF workMap, Guarded
<1>3. request'[own].reply = o /\ request[own].reply = "none"
  BY <1>1 DEF IpcState, IpcInv, ClientsHoldRequests, Holds, TypeOK, Request
<1>4. CASE Guarded(own)
  <2>1. replyMap[own] = "none" /\ (o = "ok" => workMap[own] = "ok")
    BY <1>1, <1>3, <1>4 DEF replyMap, workMap, IpcState, IpcInv, WorkedOnce
  <2>2. replyMap' = [replyMap EXCEPT ![own] = o]
    BY <1>1, <1>3, <1>4 DEF replyMap, Guarded
  <2>3. Promise!Answer(own, o)
    BY <1>2, <2>1, <2>2 DEF Promise!Answer, workMap, replyMap
  <2>4. QED
    BY <1>1, <2>3 DEF Promise!Next
<1>5. CASE ~Guarded(own)
  <2>1. replyMap' = replyMap
    BY <1>1, <1>5 DEF replyMap, Guarded
  <2>2. QED
    BY <1>2, <2>1
<1>6. QED
  BY <1>4, <1>5

(* The end of a handler maps to the execution of its request, or to no     *)
(* step if the handler goes on, refused a stale request or serves a        *)
(* service without a guard.                                                *)
LEMMA FinishSimulates ==
    ASSUME IpcState, NEW k \in Services, NEW o \in {"ok", "failed", "continue"},
           Finish(k, o)
    PROVE  [Promise!Next]_<<workMap, replyMap>>
<1> DEFINE id == main.id
<1>1. /\ k = PumpOrder[main.turn] /\ main.busy /\ id \in Requests
      /\ \A q \in Requests : q # id => request'[q] = request[q]
      /\ \A q \in Requests :
            /\ request'[q].kind = request[q].kind
            /\ request'[q].reply = request[q].reply
  BY FinishFrame
<1>2. replyMap' = replyMap
  BY <1>1 DEF replyMap, Guarded
<1>3. k \notin Plain => k \in GuardedServices
  BY DEF Services, Plain, GuardedServices, Retaining, Numbered
<1>4. CASE Stale(k) \/ ~Guarded(id)
  <2>1. Stale(k) => request' = request
    BY FinishFrame
  <2>2. workMap' = workMap
    BY <1>1, <1>4, <2>1 DEF workMap, Guarded
  <2>3. QED
    BY <1>2, <2>2
<1>5. CASE ~Stale(k) /\ Guarded(id)
  <2>1. /\ request[id].work = "none" /\ request[id].runs \in {0, 1}
        /\ main.begin => request[id].runs = 0
    BY <1>1, <1>3, <1>5 DEF IpcState, IpcInv, WorkInHand, WorkedOnce, Guarded
  <2>2. /\ request'[id].work = IF o = "continue" THEN request[id].work ELSE o
        /\ request'[id].runs \in {0, 1}
    BY <1>5, <2>1, FinishFrame
  <2>3. workMap[id] = "none" /\ workMap'[id] = IF o = "continue" THEN "none" ELSE o
    BY <1>1, <1>5, <2>1, <2>2 DEF workMap, Guarded
  <2>4. \A q \in Requests : q # id => workMap'[q] = workMap[q]
    BY <1>1 DEF workMap, Guarded
  <2>5. CASE o = "continue"
    <3>1. workMap' = workMap
      BY <2>3, <2>4, <2>5 DEF workMap
    <3>2. QED
      BY <1>2, <3>1
  <2>6. CASE o # "continue"
    <3>1. workMap' = [workMap EXCEPT ![id] = o]
      BY <2>3, <2>4, <2>6 DEF workMap
    <3>2. Promise!Execute(id, o)
      BY <1>2, <2>3, <3>1 DEF Promise!Execute, workMap, replyMap
    <3>3. QED
      BY <1>1, <2>6, <3>2 DEF Promise!Next
  <2>7. QED
    BY <2>5, <2>6
<1>6. QED
  BY <1>4, <1>5

(* A request that is admitted starts with nothing done and nothing told.   *)
LEMMA AdmitSimulates ==
    ASSUME IpcState, NEW c \in Clients, NEW j \in Kinds, Admit(c, j)
    PROVE  UNCHANGED <<workMap, replyMap>>
<1>1. PICK r \in Requests :
          Fresh(r) /\ request' = [request EXCEPT ![r].kind = j, ![r].bound = generation]
  BY DEF Admit
<1>2. request[r] = NoRequest
  BY <1>1 DEF Fresh, IpcState, IpcInv, FreshUntouched
<1>3. /\ \A q \in Requests : q # r => request'[q] = request[q]
      /\ request'[r] = [NoRequest EXCEPT !.kind = j, !.bound = generation]
  BY <1>1, <1>2 DEF IpcState, TypeOK, NoRequest
<1>4. request'[r].work = "none" /\ request'[r].reply = "none" /\ request'[r].runs = 0
  BY <1>3 DEF NoRequest
<1>5. workMap' = workMap
  <2>1. request[r].work = "none" /\ request[r].runs = 0
    BY <1>2 DEF NoRequest
  <2>2. workMap[r] = "none" /\ workMap'[r] = "none"
    BY <1>4, <2>1 DEF workMap
  <2>3. \A q \in Requests : q # r => workMap'[q] = workMap[q]
    BY <1>3 DEF workMap, Guarded
  <2>4. QED
    BY <2>2, <2>3 DEF workMap
<1>6. replyMap' = replyMap
  BY <1>2, <1>3, <1>4, ZenonT(40) DEF replyMap, Guarded, NoRequest
<1>7. QED
  BY <1>5, <1>6

(* The guarded services implement the abstract request and reply.          *)
THEOREM GuardedSlotsImplementRequestReply == Spec => IsRequestReply
<1>1. Init => Promise!Init
  <2> SUFFICES ASSUME Init PROVE Promise!Init
    OBVIOUS
  <2>1. \A r \in Requests : request[r] = NoRequest
    BY DEF Init
  <2>2. workMap = [r \in Requests |-> "none"] /\ replyMap = [r \in Requests |-> "none"]
    BY <2>1 DEF workMap, replyMap, NoRequest
  <2>3. QED
    BY <2>2 DEF Promise!Init, workMap, replyMap
<1>2. IpcState /\ [Next]_vars => [Promise!Next]_<<workMap, replyMap>>
  <2> SUFFICES ASSUME IpcState, [Next]_vars PROVE [Promise!Next]_<<workMap, replyMap>>
    OBVIOUS
  <2>1. ASSUME NEW c \in Clients, NEW k \in Kinds, Admit(c, k)
        PROVE  [Promise!Next]_<<workMap, replyMap>>
    BY <2>1, AdmitSimulates
  <2>2. ASSUME UNCHANGED request
        PROVE  [Promise!Next]_<<workMap, replyMap>>
    BY <2>2 DEF workMap, replyMap, Guarded
  <2>3. ASSUME NEW c \in Clients, Post(c)
        PROVE  [Promise!Next]_<<workMap, replyMap>>
    <3>1. CASE slot[client[c].kind].inflight
      BY <2>3, <3>1, ToldSimulates DEF Post
    <3>2. CASE ~slot[client[c].kind].inflight
      BY <2>2, <2>3, <3>2 DEF Post
    <3>3. QED
      BY <3>1, <3>2
  <2>4. ASSUME NEW c \in Clients, TakeAnswer(c)
        PROVE  [Promise!Next]_<<workMap, replyMap>>
    <3> DEFINE k == client[c].kind
               o == IF slot[k].success THEN "ok" ELSE "failed"
    <3>1. client[c].at = "waiting" /\ Told(c, o) /\ k \in Services
      BY <2>4 DEF TakeAnswer, IpcState, TypeOK, Client
    <3>2. Guarded(client[c].id) => k \in GuardedServices
      BY <3>1 DEF IpcState, IpcInv, ClientsHoldRequests, Holds, Guarded, Services, Plain,
                  GuardedServices, Retaining, Numbered
    <3>3. o = "ok" /\ Guarded(client[c].id) => request[client[c].id].work = "ok"
      BY <3>1, <3>2 DEF IpcState, IpcInv, GuardedSlots, GuardedSlot, WaitersOwnSlots
    <3> HIDE DEF o
    <3>4. o \in {"ok", "failed"}
      BY DEF o
    <3>5. QED
      BY <3>1, <3>3, <3>4, ToldSimulates
  <2>5. ASSUME NEW c \in Clients, Timeout(c)
        PROVE  [Promise!Next]_<<workMap, replyMap>>
    BY <2>5, ToldSimulates DEF Timeout
  <2>6. ASSUME NEW k \in Services, PassOver(k) \/ Take(k)
        PROVE  [Promise!Next]_<<workMap, replyMap>>
    BY <2>2, <2>6 DEF PassOver, Take
  <2>7. ASSUME NEW k \in Services, NEW o \in {"ok", "failed", "continue"}, Finish(k, o)
        PROVE  [Promise!Next]_<<workMap, replyMap>>
    BY <2>7, FinishSimulates
  <2>8. CASE Switch \/ Stop \/ UNCHANGED vars
    BY <2>2, <2>8 DEF Switch, Stop, vars
  <2>9. QED
    BY <2>1, <2>3, <2>4, <2>5, <2>6, <2>7, <2>8 DEF Next, Pump, Proceed
<1>3. QED
  BY <1>1, <1>2, IpcInvariant, PTL DEF Spec, IsRequestReply, Promise!Spec, workMap, replyMap

-----------------------------------------------------------------------------
(* The documents the services write.                                       *)

\* Saves asked for before something was told do not wait once it is told.
SavesKnew == told => \A i \in 1..Len(queue) : queue[i].knew

\* The inductive invariant: with SavesKnew, that what moves is a text, so that
\* what the queue takes is a save.
DocumentInv ==
    /\ disk \in Texts
    /\ doc \in [Documents -> Doc]
    /\ \A d \in Documents : doc[d].open => doc[d].text \in Texts
    /\ queue \in Seq(Save)
    /\ typing.phase # "idle" => typing \in [phase : {"inserting", "saving"}, doc : Documents,
                                            text : Texts]
    /\ typing.phase = "inserting" => doc[typing.doc].open
    /\ made \in Texts
    /\ told \in BOOLEAN
    /\ SavesKnew

LEMMA TextIsNat == /\ Texts \subseteq Nat /\ 1 \in Texts
                   /\ CanMake /\ made \in Texts => New \in Texts
<1>1. Texts \subseteq Nat /\ 1 \in Texts
  BY DocumentAssumption DEF Texts
<1>2. ASSUME CanMake, made \in Texts PROVE New \in Texts
  BY <1>2, DocumentAssumption DEF CanMake, New, Texts
<1>3. QED
  BY <1>1, <1>2

\* What changes in a document does not unmake it.
Kept(docs) ==
    /\ docs \in [Documents -> Doc]
    /\ \A d \in Documents : docs[d].open => docs[d].text \in Texts

LEMMA LoadedIsKept ==
    ASSUME NEW t \in Texts
    PROVE  Loaded(t) \in Doc /\ Loaded(t).open /\ Loaded(t).text = t /\ ~Loaded(t).modified
BY DEF Loaded, Closed, Doc

\* A write changes what is noted, nothing else.
LEMMA StampedKept ==
    ASSUME NEW docs, Kept(docs), NEW x \in Stamped(docs)
    PROVE  Kept(x) /\ \A d \in Documents : x[d].open = docs[d].open
<1>1. PICK same \in Unnoticed :
          x = [d \in Documents |-> [docs[d] EXCEPT !.noted = @ /\ (docs[d].open => d \in same)]]
  BY DEF Stamped
<1>2. ASSUME NEW d \in Documents
      PROVE  /\ x[d] \in Doc
             /\ x[d].open = docs[d].open /\ x[d].text = docs[d].text
  <2> DEFINE b == docs[d].noted /\ (docs[d].open => d \in same)
  <2>1. x[d] = [docs[d] EXCEPT !.noted = b]
    BY <1>1
  <2>2. docs[d] \in Doc
    BY DEF Kept
  <2>3. docs[d].noted \in BOOLEAN
    BY <2>2 DEF Doc
  <2>4. b \in BOOLEAN
    BY <2>3
  <2> HIDE DEF b
  <2>5. QED
    BY <2>1, <2>2, <2>4 DEF Doc
<1>3. x \in [Documents -> Doc]
  BY <1>1, <1>2
<1>4. QED
  BY <1>2, <1>3 DEF Kept

\* So does a change of one field of one document.
LEMMA OneKept ==
    ASSUME NEW docs, Kept(docs), NEW d \in Documents, NEW r \in Doc,
           r.open => r.text \in Texts
    PROVE  Kept([docs EXCEPT ![d] = r])
BY DEF Kept

LEMMA ChangedKept ==
    ASSUME DocumentInv, NEW d \in Documents, doc[d].open, New \in Texts, NEW m \in BOOLEAN
    PROVE  /\ Kept(Changed(d)) /\ Kept([Changed(d) EXCEPT ![d].modified = m])
           /\ \A e \in Documents : /\ Changed(d)[e].open = doc[e].open
                                   /\ [Changed(d) EXCEPT ![d].modified = m][e].open = doc[e].open
<1> DEFINE x == Changed(d)
           y == [Changed(d) EXCEPT ![d].modified = m]
<1>1. doc \in [Documents -> Doc] /\ \A e \in Documents : doc[e].open => doc[e].text \in Texts
  BY DEF DocumentInv
<1>2. x = [doc EXCEPT ![d] = [doc[d] EXCEPT !.text = New, !.modified = TRUE]]
  BY <1>1 DEF Changed
<1>3. y = [doc EXCEPT ![d] = [doc[d] EXCEPT !.text = New, !.modified = m]]
  BY <1>1, <1>2
<1> HIDE DEF x, y
<1>4. \A b \in BOOLEAN : LET r == [doc[d] EXCEPT !.text = New, !.modified = b]
                         IN r \in Doc /\ r.open = doc[d].open /\ r.text = New
  BY <1>1 DEF Doc
<1>5. Kept(x) /\ \A e \in Documents : x[e].open = doc[e].open
  BY <1>1, <1>2, <1>4 DEF Kept
<1>6. Kept(y) /\ \A e \in Documents : y[e].open = doc[e].open
  BY <1>1, <1>3, <1>4 DEF Kept
<1>7. QED
  BY <1>5, <1>6 DEF x, y

LEMMA InvDocs == DocumentInv <=> /\ DocumentInv /\ Kept(doc)
BY DEF DocumentInv, Kept

\* Documents change; texts, queue, typing and what was told stay.
LEMMA DocsChange ==
    ASSUME DocumentInv, Kept(doc)', UNCHANGED <<disk, queue, typing, told>>, made' \in Texts,
           typing.phase = "inserting" => doc'[typing.doc].open
    PROVE  DocumentInv'
BY DEF DocumentInv, Kept, SavesKnew

LEMMA OpenKeeps ==
    ASSUME DocumentInv, NEW d \in Documents, Open(d)
    PROVE  DocumentInv'
<1>1. doc' = [doc EXCEPT ![d] = Loaded(disk)]
  BY DEF Open
<1>2. Kept(doc)'
  BY <1>1, InvDocs, LoadedIsKept, OneKept DEF DocumentInv
<1>3. typing.phase = "inserting" => doc'[typing.doc].open
  BY <1>1, LoadedIsKept DEF DocumentInv
<1>4. UNCHANGED <<disk, queue, typing, told>> /\ made' \in Texts
  BY DEF Open, DocumentInv
<1>5. QED
  BY <1>2, <1>3, <1>4, DocsChange

LEMMA CloseKeeps ==
    ASSUME DocumentInv, NEW d \in Documents, Close(d)
    PROVE  DocumentInv'
<1>1. doc' = [doc EXCEPT ![d] = Closed]
  BY DEF Close
<1>2. Closed \in Doc /\ ~Closed.open
  BY DEF Closed, Doc
<1>3. Kept(doc)'
  BY <1>1, <1>2, InvDocs, OneKept
<1>4. UNCHANGED <<disk, queue, made, told>>
  BY DEF Close
<1>5. CASE typing.phase = "inserting" /\ typing.doc = d
  <2>1. typing' = Idle
    BY <1>5 DEF Close
  <2>2. typing'.phase = "idle"
    BY <2>1 DEF Idle
  <2>3. QED
    BY <1>3, <1>4, <2>2 DEF DocumentInv, Kept, SavesKnew
<1>6. CASE ~(typing.phase = "inserting" /\ typing.doc = d)
  <2>1. typing' = typing
    BY <1>6 DEF Close
  <2>2. typing.phase = "inserting" => doc'[typing.doc].open
    BY <1>1, <1>6 DEF DocumentInv
  <2>3. QED
    BY <1>3, <1>4, <2>1, <2>2, DocsChange DEF DocumentInv
<1>7. QED
  BY <1>5, <1>6

LEMMA EditKeeps ==
    ASSUME DocumentInv, NEW d \in Documents, Edit(d)
    PROVE  DocumentInv'
<1>1. doc' = Changed(d) /\ made' = New /\ UNCHANGED <<disk, queue, typing, told>>
  BY DEF Edit
<1>2. New \in Texts
  BY TextIsNat DEF Edit, DocumentInv
<1>3. Kept(Changed(d)) /\ \A e \in Documents : Changed(d)[e].open = doc[e].open
  BY <1>2, ChangedKept DEF Edit
<1>4. typing.phase = "inserting" => typing.doc \in Documents /\ doc[typing.doc].open
  BY DEF DocumentInv
<1>5. QED
  BY <1>1, <1>2, <1>3, <1>4, DocsChange

\* A save asked for now knows what was told so far.
LEMMA SavesAdded ==
    ASSUME DocumentInv, NEW q \in Seq(Save), \A i \in 1..Len(q) : q[i].knew = told,
           queue' = queue \o q, told' = told
    PROVE  queue' \in Seq(Save) /\ SavesKnew'
<1>1. queue \in Seq(Save) /\ SavesKnew
  BY DEF DocumentInv
<1>2. queue' \in Seq(Save)
  BY <1>1
<1>3. ASSUME told, NEW i \in 1..Len(queue') PROVE queue'[i].knew
  <2>1. Len(queue) \in Nat /\ Len(q) \in Nat
    BY <1>1, LenProperties
  <2>2. Len(queue') = Len(queue) + Len(q)
    BY <1>1, ConcatProperties
  <2>3. CASE i \in 1..Len(queue)
    <3>1. queue'[i] = queue[i]
      BY <1>1, <2>3, ConcatProperties
    <3>2. QED
      BY <1>1, <1>3, <2>3, <3>1 DEF SavesKnew
  <2>4. CASE i \notin 1..Len(queue)
    <3>1. i - Len(queue) \in 1..Len(q) /\ i \in Nat /\ i > Len(queue)
      BY <2>1, <2>2, <2>4
    <3>2. queue'[i] = q[i - Len(queue)]
      BY <1>1, <2>1, <2>2, <3>1, ConcatProperties
    <3>3. QED
      BY <1>3, <3>1, <3>2
  <2>5. QED
    BY <2>3, <2>4
<1>4. QED
  BY <1>2, <1>3 DEF SavesKnew

LEMMA SnapshotIsSave ==
    ASSUME NEW d \in Documents, NEW t \in Texts, told \in BOOLEAN
    PROVE  Snapshot(d, t) \in Save /\ Snapshot(d, t).knew = told
BY DEF Snapshot, Save

LEMMA QueueSaveKeeps ==
    ASSUME DocumentInv, NEW d \in Documents, QueueSave(d)
    PROVE  DocumentInv'
<1>1. PICK n \in {1, 2} : queue' = queue \o [i \in 1..n |-> Snapshot(d, doc[d].text)]
  BY DEF QueueSave
<1> DEFINE q == [i \in 1..n |-> Snapshot(d, doc[d].text)]
<1>2. Snapshot(d, doc[d].text) \in Save /\ Snapshot(d, doc[d].text).knew = told
  BY SnapshotIsSave DEF QueueSave, DocumentInv
<1>3. q \in Seq(Save) /\ Len(q) = n /\ \A i \in 1..n : q[i].knew = told
  <2>1. n \in Nat /\ DOMAIN q = 1..n /\ q \in [1..n -> Save]
    BY <1>2
  <2>2. q \in Seq(Save)
    BY <2>1, IsASeq
  <2>3. Len(q) = n
    BY <2>1, <2>2, LenProperties
  <2>4. QED
    BY <1>2, <2>2, <2>3
<1> HIDE DEF q
<1>4. told' = told /\ UNCHANGED <<disk, typing, made>>
  BY DEF QueueSave
<1>5. queue' \in Seq(Save) /\ SavesKnew'
  BY <1>1, <1>3, <1>4, SavesAdded DEF q
<1>6. doc' = [doc EXCEPT ![d].modified = FALSE]
  BY DEF QueueSave
<1>7. Kept(doc)' /\ \A e \in Documents : doc'[e].open = doc[e].open
  <2> DEFINE r == [doc[d] EXCEPT !.modified = FALSE]
  <2>1. doc' = [doc EXCEPT ![d] = r]
    BY <1>6
  <2>2. doc[d] \in Doc /\ (doc[d].open => doc[d].text \in Texts)
    BY DEF DocumentInv
  <2>3. r \in Doc /\ r.open = doc[d].open /\ r.text = doc[d].text
    BY <2>2 DEF Doc
  <2> HIDE DEF r
  <2>4. Kept([doc EXCEPT ![d] = r])
    BY <2>2, <2>3, InvDocs, OneKept
  <2>5. QED
    BY <2>1, <2>3, <2>4 DEF DocumentInv
<1>8. QED
  BY <1>4, <1>5, <1>7 DEF DocumentInv, Kept

\* One field of a document that is neither its text nor whether it is open.
Marked(docs, x, d) ==
    \E b \in BOOLEAN : \/ x = [docs EXCEPT ![d].failed = b]
                       \/ x = [docs EXCEPT ![d].modified = b]

LEMMA MarkKept ==
    ASSUME NEW docs, Kept(docs), NEW d \in Documents, NEW x, Marked(docs, x, d)
    PROVE  Kept(x) /\ \A e \in Documents : x[e].open = docs[e].open
<1> PICK b \in BOOLEAN : \/ x = [docs EXCEPT ![d].failed = b]
                         \/ x = [docs EXCEPT ![d].modified = b]
  BY DEF Marked
<1> DEFINE r == [docs[d] EXCEPT !.failed = b]
           s == [docs[d] EXCEPT !.modified = b]
<1>1. docs \in [Documents -> Doc] /\ \A e \in Documents : docs[e].open => docs[e].text \in Texts
  BY DEF Kept
<1>2. x = [docs EXCEPT ![d] = r] \/ x = [docs EXCEPT ![d] = s]
  BY <1>1
<1>3. /\ r \in Doc /\ r.open = docs[d].open /\ r.text = docs[d].text
      /\ s \in Doc /\ s.open = docs[d].open /\ s.text = docs[d].text
  BY <1>1 DEF Doc
<1> HIDE DEF r, s
<1>4. Kept(x)
  BY <1>1, <1>2, <1>3, OneKept
<1>5. \A e \in Documents : x[e].open = docs[e].open
  BY <1>1, <1>2, <1>3
<1>6. QED
  BY <1>4, <1>5

LEMMA WriteKept ==
    ASSUME DocumentInv, NEW d \in Documents
    PROVE  /\ Kept(Written(d)) /\ \A e \in Documents : Written(d)[e].open = doc[e].open
           /\ Kept(WriteFailed(d)) /\ \A e \in Documents : WriteFailed(d)[e].open = doc[e].open
<1> DEFINE b == doc[d].failed \/ doc[d].open
<1>1. Kept(doc) /\ doc \in [Documents -> Doc]
  BY DEF DocumentInv, Kept
<1>2. b \in BOOLEAN
  BY <1>1 DEF Doc
<1>3. WriteFailed(d) = [doc EXCEPT ![d].failed = b]
  BY <1>1 DEF WriteFailed
<1> HIDE DEF b
<1>4. Marked(doc, Written(d), d) /\ Marked(doc, WriteFailed(d), d)
  BY <1>2, <1>3 DEF Marked, Written
<1>5. Kept(Written(d)) /\ \A e \in Documents : Written(d)[e].open = doc[e].open
  BY <1>1, <1>4, MarkKept
<1>6. Kept(WriteFailed(d)) /\ \A e \in Documents : WriteFailed(d)[e].open = doc[e].open
  BY <1>1, <1>4, MarkKept
<1>7. QED
  BY <1>5, <1>6

LEMMA TickKeeps ==
    ASSUME DocumentInv, TickSaveQueue
    PROVE  DocumentInv'
<1> DEFINE s == Head(queue)
<1>1. queue \in Seq(Save) /\ queue # <<>>
  BY DEF DocumentInv, TickSaveQueue
<1>2. s \in Save /\ s = queue[1] /\ Tail(queue) \in Seq(Save)
  BY <1>1, HeadTailProperties
<1>3. s.doc \in Documents /\ s.text \in Texts
  BY <1>2 DEF Save
<1>4. Kept(doc)' /\ \A e \in Documents : doc'[e].open = doc[e].open
  <2>1. CASE doc' \in Stamped(Written(s.doc))
    BY <1>3, <2>1, WriteKept, StampedKept
  <2>2. CASE doc' = WriteFailed(s.doc)
    BY <1>3, <2>2, WriteKept
  <2>3. CASE doc' \in Stamped(WriteFailed(s.doc))
    BY <1>3, <2>3, WriteKept, StampedKept
  <2>4. QED
    BY <2>1, <2>2, <2>3 DEF TickSaveQueue
<1>5. disk' \in Texts /\ made' \in Texts
  BY <1>3, TextIsNat DEF TickSaveQueue, DocumentInv
<1>6. queue' = Tail(queue) /\ typing' = typing /\ told' \in BOOLEAN /\ (told' => told)
  BY DEF TickSaveQueue, DocumentInv
<1>7. SavesKnew'
  <2>1. ASSUME told', NEW i \in 1..Len(queue') PROVE queue'[i].knew
    <3>1. Len(queue') = Len(queue) - 1 /\ Len(queue) \in Nat
      BY <1>1, <1>6, HeadTailProperties, LenProperties
    <3>2. i + 1 \in 1..Len(queue) /\ queue'[i] = queue[i + 1]
      BY <1>1, <1>6, <3>1, HeadTailProperties
    <3>3. QED
      BY <1>6, <2>1, <3>2 DEF DocumentInv, SavesKnew
  <2>2. QED
    BY <2>1 DEF SavesKnew
<1> HIDE DEF s
<1>8. QED
  BY <1>2, <1>4, <1>5, <1>6, <1>7 DEF DocumentInv, Kept

LEMMA OutsideChangeKeeps ==
    ASSUME DocumentInv, ChangeOutside
    PROVE  DocumentInv'
<1>1. Kept(doc)' /\ \A e \in Documents : doc'[e].open = doc[e].open
  BY InvDocs, StampedKept DEF ChangeOutside
<1>2. /\ disk' \in Texts /\ made' \in Texts
      /\ told' = FALSE /\ queue' = queue /\ typing' = typing
  BY TextIsNat DEF ChangeOutside, DocumentInv
<1>3. QED
  BY <1>1, <1>2 DEF DocumentInv, Kept, SavesKnew

LEMMA PollWatcherKeeps ==
    ASSUME DocumentInv, PollFileWatcher
    PROVE  DocumentInv'
<1>1. doc' = [d \in Documents |-> Reloaded(d)]
  BY DEF PollFileWatcher
<1>2. ASSUME NEW d \in Documents
      PROVE  /\ Reloaded(d) \in Doc /\ Reloaded(d).open = doc[d].open
             /\ Reloaded(d).open => Reloaded(d).text \in Texts
  <2>1. doc[d] \in Doc /\ (doc[d].open => doc[d].text \in Texts) /\ doc[d].open \in BOOLEAN
    BY DEF DocumentInv, Doc
  <2>2. CASE doc[d].open /\ ~doc[d].noted /\ ~doc[d].modified
    BY <2>1, <2>2, LoadedIsKept DEF Reloaded, DocumentInv
  <2>3. CASE ~(doc[d].open /\ ~doc[d].noted /\ ~doc[d].modified)
    BY <2>1, <2>3 DEF Reloaded
  <2>4. QED
    BY <2>2, <2>3
<1>3. Kept(doc)' /\ \A e \in Documents : doc'[e].open = doc[e].open
  BY <1>1, <1>2 DEF Kept
<1>4. UNCHANGED <<disk, queue, typing, told>> /\ made' \in Texts
  BY DEF PollFileWatcher, DocumentInv
<1>5. typing.phase = "inserting" => doc'[typing.doc].open
  BY <1>3 DEF DocumentInv
<1>6. QED
  BY <1>3, <1>4, <1>5, DocsChange

\* Nothing waits that could know less.
LEMMA NothingWaits ==
    ASSUME queue' = <<>>
    PROVE  queue' \in Seq(Save) /\ SavesKnew'
BY EmptySeq DEF SavesKnew

LEMMA SaveInspectedKeeps ==
    ASSUME DocumentInv, NEW d \in Documents, SaveInspected(d)
    PROVE  DocumentInv'
<1>1. Kept(doc)' /\ \A e \in Documents : doc'[e].open = doc[e].open
  <2>1. Kept(Written(d)) /\ \A e \in Documents : Written(d)[e].open = doc[e].open
    BY WriteKept
  <2> DEFINE x == [Written(d) EXCEPT ![d].modified = FALSE]
  <2>2. Marked(Written(d), x, d) /\ doc' \in Stamped(x)
    BY DEF SaveInspected, Marked
  <2> HIDE DEF x
  <2>3. Kept(x) /\ \A e \in Documents : x[e].open = doc[e].open
    BY <2>1, <2>2, MarkKept
  <2>4. QED
    BY <2>2, <2>3, StampedKept
<1>2. /\ disk' \in Texts /\ told' = TRUE /\ UNCHANGED <<typing, made>> /\ queue' = <<>>
  BY DEF SaveInspected, SaveQueueIdle, DocumentInv
<1>3. QED
  BY <1>1, <1>2, NothingWaits DEF DocumentInv, Kept

LEMMA ApplyPatchKeeps ==
    ASSUME DocumentInv, NEW d \in Documents, ApplyPatch(d)
    PROVE  DocumentInv'
<1> DEFINE base == IF doc[d].open THEN doc ELSE [doc EXCEPT ![d] = Loaded(disk)]
           patched == [base EXCEPT ![d].text = New]
           p == [base[d] EXCEPT !.text = New]
<1>1. New \in Texts /\ made' \in Texts
  BY TextIsNat DEF ApplyPatch, DocumentInv
<1>2. Kept(base) /\ base[d].open /\ \A e \in Documents : doc[e].open => base[e].open
  <2>1. CASE doc[d].open
    BY <2>1, InvDocs
  <2>2. CASE ~doc[d].open
    <3>1. base = [doc EXCEPT ![d] = Loaded(disk)] /\ doc \in [Documents -> Doc]
      BY <2>2 DEF DocumentInv
    <3> HIDE DEF base
    <3>2. QED
      BY <3>1, InvDocs, LoadedIsKept, OneKept DEF DocumentInv
  <2>3. QED
    BY <2>1, <2>2
<1>3. \/ /\ disk' = New /\ told' = TRUE
         /\ doc' \in Stamped([patched EXCEPT ![d].failed = FALSE])
      \/ doc' = [patched EXCEPT ![d].modified = TRUE] /\ UNCHANGED <<disk, told>>
  BY DEF ApplyPatch
<1>4. queue' = <<>> /\ typing' = typing
  BY DEF ApplyPatch, SaveQueueIdle
<1> HIDE DEF base
<1>5. Kept(patched) /\ \A e \in Documents : patched[e].open = base[e].open
  <2>1. base \in [Documents -> Doc]
    BY <1>2 DEF Kept
  <2>2. p \in Doc /\ p.open = base[d].open /\ p.text = New
    BY <1>1, <2>1 DEF Doc
  <2>3. patched = [base EXCEPT ![d] = p]
    BY <2>1
  <2> HIDE DEF patched, p
  <2>4. QED
    BY <1>1, <1>2, <2>1, <2>2, <2>3, OneKept
<1> HIDE DEF patched
<1>6. Kept(doc)' /\ \A e \in Documents : doc[e].open => doc'[e].open
  <2> DEFINE x == [patched EXCEPT ![d].failed = FALSE]
             y == [patched EXCEPT ![d].modified = TRUE]
  <2>1. /\ Marked(patched, x, d) /\ Marked(patched, y, d)
        /\ doc' \in Stamped(x) \/ doc' = y
    BY <1>3 DEF Marked
  <2> HIDE DEF x, y
  <2>2. Kept(x) /\ \A e \in Documents : x[e].open = base[e].open
    BY <1>5, <2>1, MarkKept
  <2>3. Kept(y) /\ \A e \in Documents : y[e].open = base[e].open
    BY <1>5, <2>1, MarkKept
  <2>4. QED
    BY <1>2, <2>1, <2>2, <2>3, StampedKept
<1>7. disk' \in Texts /\ told' \in BOOLEAN
  BY <1>1, <1>3 DEF DocumentInv
<1>8. QED
  BY <1>1, <1>4, <1>6, <1>7, NothingWaits DEF DocumentInv, Kept

LEMMA BeginTypingKeeps ==
    ASSUME DocumentInv, NEW d \in Documents, BeginTyping(d)
    PROVE  DocumentInv'
<1> DEFINE shown == IF doc[d].open THEN doc[d] ELSE Loaded(disk)
           removed == [shown EXCEPT !.text = New, !.modified = TRUE]
<1>1. shown \in Doc /\ shown.open /\ shown.text \in Texts
  BY LoadedIsKept DEF DocumentInv
<1>2. \/ /\ doc' = [doc EXCEPT ![d] = shown]
         /\ typing' = [phase |-> "inserting", doc |-> d, text |-> shown.text]
         /\ made' = made
      \/ /\ CanMake /\ made' = New
         /\ doc' = [doc EXCEPT ![d] = removed]
         /\ typing' = [phase |-> "inserting", doc |-> d, text |-> New]
  BY DEF BeginTyping
<1>3. New \in Texts => removed \in Doc /\ removed.open /\ removed.text = New
  BY <1>1 DEF Doc
<1>4. made' \in Texts /\ (made' = New => New \in Texts)
  BY <1>2, TextIsNat DEF DocumentInv
<1> HIDE DEF shown, removed
<1>5. Kept(doc)' /\ doc'[d].open
  BY <1>1, <1>2, <1>3, <1>4, InvDocs, OneKept DEF DocumentInv
<1>6. /\ typing'.phase = "inserting" /\ typing'.doc = d
      /\ typing' \in [phase : {"inserting", "saving"}, doc : Documents, text : Texts]
  BY <1>1, <1>2, <1>4
<1>7. UNCHANGED <<disk, queue, told>>
  BY DEF BeginTyping
<1>8. QED
  BY <1>4, <1>5, <1>6, <1>7 DEF DocumentInv, Kept, SavesKnew

LEMMA TypeCharacterKeeps ==
    ASSUME DocumentInv, TypeCharacter
    PROVE  DocumentInv'
<1> DEFINE d == typing.doc
<1>1. /\ typing \in [phase : {"inserting", "saving"}, doc : Documents, text : Texts]
      /\ d \in Documents /\ doc[d].open /\ typing.phase = "inserting"
  BY DEF DocumentInv, TypeCharacter
<1>2. New \in Texts /\ made' = New
  BY TextIsNat DEF TypeCharacter, DocumentInv
<1>3. doc' = Changed(d) /\ UNCHANGED <<disk, queue, told>>
  BY DEF TypeCharacter
<1> HIDE DEF d
<1>4. Kept(doc)' /\ \A e \in Documents : doc'[e].open = doc[e].open
  BY <1>1, <1>2, <1>3, ChangedKept
<1>5. /\ typing' \in [phase : {"inserting", "saving"}, doc : Documents, text : Texts]
      /\ typing'.phase = "inserting" /\ typing'.doc = d
  BY <1>1, <1>2 DEF TypeCharacter, d
<1>6. QED
  BY <1>1, <1>2, <1>3, <1>4, <1>5 DEF DocumentInv, Kept, SavesKnew

LEMMA TypeLastKeeps ==
    ASSUME DocumentInv, TypeLast
    PROVE  DocumentInv'
<1> DEFINE d == typing.doc
<1>1. /\ typing \in [phase : {"inserting", "saving"}, doc : Documents, text : Texts]
      /\ d \in Documents /\ doc[d].open /\ typing.phase = "inserting"
  BY DEF DocumentInv, TypeLast
<1>2. New \in Texts /\ made' = New
  BY TextIsNat DEF TypeLast, DocumentInv
<1>3. /\ UNCHANGED <<disk, told>>
      /\ \/ /\ doc' = [Changed(d) EXCEPT ![d].modified = FALSE]
            /\ queue' = Append(queue, Snapshot(d, New))
            /\ typing' = [typing EXCEPT !.phase = "saving", !.text = New]
         \/ doc' = Changed(d) /\ typing' = Idle /\ queue' = queue
  BY DEF TypeLast
<1> HIDE DEF d
<1>4. Kept(doc)'
  BY <1>1, <1>2, <1>3, ChangedKept
<1>5. queue' \in Seq(Save) /\ SavesKnew'
  <2>1. CASE queue' = Append(queue, Snapshot(d, New))
    <3> DEFINE s == Snapshot(d, New)
    <3>1. s \in Save /\ s.knew = told
      BY <1>1, <1>2, SnapshotIsSave DEF DocumentInv
    <3> HIDE DEF s
    <3>2. <<s>> \in Seq(Save) /\ \A i \in 1..Len(<<s>>) : <<s>>[i].knew = told
      BY <3>1
    <3>3. queue' = queue \o <<s>>
      BY <2>1, <3>1, AppendIsConcat DEF DocumentInv, s
    <3>4. QED
      BY <1>3, <3>2, <3>3, SavesAdded
  <2>2. CASE queue' = queue
    BY <1>3, <2>2 DEF DocumentInv, SavesKnew
  <2>3. QED
    BY <1>3, <2>1, <2>2
<1>6. \/ /\ typing' \in [phase : {"inserting", "saving"}, doc : Documents, text : Texts]
         /\ typing'.phase = "saving"
      \/ typing'.phase = "idle"
  <2>1. CASE typing' = [typing EXCEPT !.phase = "saving", !.text = New]
    <3>1. typing'.phase = "saving"
      BY <1>1, <2>1
    <3>2. typing' \in [phase : {"inserting", "saving"}, doc : Documents, text : Texts]
      BY <1>1, <1>2, <2>1
    <3>3. QED
      BY <3>1, <3>2
  <2>2. CASE typing' = Idle
    BY <2>2 DEF Idle
  <2>3. QED
    BY <1>3, <2>1, <2>2
<1>7. QED
  BY <1>2, <1>3, <1>4, <1>5, <1>6 DEF DocumentInv, Kept

LEMMA EndTypingKeeps ==
    ASSUME DocumentInv, FinishTyping \/ AbandonTyping
    PROVE  DocumentInv'
<1>1. UNCHANGED <<disk, doc, queue, made>> /\ typing'.phase = "idle"
  BY DEF FinishTyping, AbandonTyping, Idle
<1>2. told' \in BOOLEAN /\ (told' = told \/ queue = <<>>)
  BY DEF FinishTyping, AbandonTyping, SaveQueueIdle, DocumentInv
<1>3. SavesKnew'
  <2>1. CASE told' = told
    BY <1>1, <2>1 DEF DocumentInv, SavesKnew
  <2>2. CASE queue = <<>>
    BY <1>1, <2>2, NothingWaits
  <2>3. QED
    BY <1>2, <2>1, <2>2
<1>4. QED
  BY <1>1, <1>2, <1>3 DEF DocumentInv

LEMMA DocumentInitStands == DocumentInit => DocumentInv
<1>1. SUFFICES ASSUME DocumentInit PROVE DocumentInv
  OBVIOUS
<1>2. Closed \in Doc /\ ~Closed.open
  BY DEF Closed, Doc
<1>3. queue \in Seq(Save) /\ typing.phase = "idle"
  BY <1>1, EmptySeq DEF DocumentInit, Idle
<1>4. QED
  BY <1>1, <1>2, <1>3, TextIsNat DEF DocumentInit, DocumentInv, SavesKnew

LEMMA DocumentStep == DocumentInv /\ [DocumentNext]_documentVars => DocumentInv'
<1>1. SUFFICES ASSUME DocumentInv, [DocumentNext]_documentVars PROVE DocumentInv'
  OBVIOUS
<1>2. CASE UNCHANGED documentVars
  BY <1>1, <1>2 DEF documentVars, DocumentInv, SavesKnew
<1>3. ASSUME NEW d \in Documents, User(d) PROVE DocumentInv'
  BY <1>1, <1>3, OpenKeeps, CloseKeeps, EditKeeps, QueueSaveKeeps DEF User
<1>4. ASSUME NEW d \in Documents, RequestFor(d) PROVE DocumentInv'
  BY <1>1, <1>4, SaveInspectedKeeps, ApplyPatchKeeps, BeginTypingKeeps DEF RequestFor
<1>5. CASE TypeCharacter \/ TypeLast \/ FinishTyping \/ AbandonTyping
  BY <1>1, <1>5, TypeCharacterKeeps, TypeLastKeeps, EndTypingKeeps
<1>6. CASE TickSaveQueue \/ PollFileWatcher \/ ChangeOutside
  BY <1>1, <1>6, TickKeeps, PollWatcherKeeps, OutsideChangeKeeps
<1>7. QED
  BY <1>1, <1>2, <1>3, <1>4, <1>5, <1>6 DEF DocumentNext

\* Once a client was told that its text is on disk, through whichever of the
\* three services, a save that was queued before never writes over it
\* (ide_ipc_document_ui.c, ide_ipc_edit_apply.c, ide_ipc_typing_edit.c).
THEOREM ConfirmedTextsStay == DocumentSpec => ConfirmedTextStays
<1>1. DocumentInv => (queue # <<>> /\ queue' = Tail(queue) /\ told /\ disk' # disk
                        => Head(queue).knew)
  <2>1. SUFFICES ASSUME DocumentInv, queue # <<>>, told PROVE Head(queue).knew
    OBVIOUS
  <2>2. Len(queue) \in Nat /\ Len(queue) # 0 /\ Head(queue) = queue[1]
    BY <2>1, EmptySeq, HeadTailProperties, LenProperties DEF DocumentInv
  <2>3. QED
    BY <2>1, <2>2 DEF DocumentInv, SavesKnew
<1>2. QED
  BY <1>1, DocumentInitStands, DocumentStep, PTL DEF DocumentSpec, ConfirmedTextStays

-----------------------------------------------------------------------------
(* Patches (UnifiedDiff).                                                 *)

\* Induction over the natural numbers, for a set in place of a predicate.
LEMMA Induction ==
    ASSUME NEW S, 0 \in S, \A n \in Nat : n \in S => n + 1 \in S
    PROVE  Nat \subseteq S
<1> DEFINE R == {p \in Nat \X Nat : p[1] < p[2]}
           T == Nat \ S
<1>1. OpToRel(<, Nat) = R
  BY DEF OpToRel
<1>2. IsWellFoundedOn(R, Nat)
  BY <1>1, NatLessThanWellFounded
<1>3. SUFFICES ASSUME T # {} PROVE FALSE
  OBVIOUS
<1> HIDE DEF R
<1>4. PICK x \in T : \A y \in T : ~ (<<y, x>> \in R)
  BY <1>2, <1>3, WFMin
<1>5. x \in Nat /\ x # 0
  OBVIOUS
<1>6. x - 1 \in Nat /\ x - 1 < x /\ (x - 1) + 1 = x
  BY <1>5
<1>7. x - 1 \in T
  BY <1>6
<1>8. QED
  BY <1>4, <1>6, <1>7 DEF R

\* The functions the model defines by recursion exist.

\* The rows of the script in S.
RowsUpTo(S, ops, m, f) ==
    f = [n \in 0..m |-> IF n = 0 THEN <<>>
                        ELSE IF n \in S /\ script[n].op \in ops THEN Append(f[n - 1], script[n].row) ELSE f[n - 1]]

LEMMA RowsExist ==
    ASSUME NEW S, NEW ops
    PROVE  \A m \in Nat : \E f : RowsUpTo(S, ops, m, f)
<1> DEFINE N == {m \in Nat : \E f : RowsUpTo(S, ops, m, f)}
<1>1. 0 \in N
  <2> DEFINE f == [n \in 0..0 |-> <<>>]
  <2>1. RowsUpTo(S, ops, 0, f)
    BY DEF RowsUpTo
  <2>2. QED
    BY <2>1
<1>2. ASSUME NEW m \in Nat, m \in N PROVE m + 1 \in N
  <2>1. PICK f : RowsUpTo(S, ops, m, f)
    BY <1>2
  <2> DEFINE last == IF m + 1 \in S /\ script[m + 1].op \in ops THEN Append(f[m], script[m + 1].row) ELSE f[m]
             g == [n \in 0..(m + 1) |-> IF n = m + 1 THEN last ELSE f[n]]
  <2> HIDE DEF last
  <2>2. ASSUME NEW n \in 0..(m + 1)
        PROVE  g[n] = IF n = 0 THEN <<>>
                      ELSE IF n \in S /\ script[n].op \in ops THEN Append(g[n - 1], script[n].row) ELSE g[n - 1]
    <3>1. CASE n = m + 1
      <4>1. n # 0 /\ n - 1 = m /\ n - 1 \in 0..(m + 1) /\ n - 1 # m + 1
        BY <3>1
      <4>2. g[n] = last /\ g[n - 1] = f[m]
        BY <3>1, <4>1
      <4>3. QED
        BY <3>1, <4>1, <4>2 DEF last
    <3>2. CASE n # m + 1
      <4>1. n \in 0..m /\ (n # 0 => n - 1 \in 0..(m + 1) /\ n - 1 # m + 1)
        BY <3>2
      <4>2. g[n] = f[n] /\ (n # 0 => g[n - 1] = f[n - 1])
        BY <3>2, <4>1
      <4>3. f[n] = IF n = 0 THEN <<>>
                   ELSE IF n \in S /\ script[n].op \in ops THEN Append(f[n - 1], script[n].row) ELSE f[n - 1]
        BY <2>1, <4>1 DEF RowsUpTo
      <4>4. QED
        BY <4>2, <4>3
    <3>3. QED
      BY <3>1, <3>2
  <2>3. RowsUpTo(S, ops, m + 1, g)
    BY <2>2 DEF RowsUpTo
  <2>4. QED
    BY <2>3
<1> HIDE DEF N
<1>3. Nat \subseteq N
  BY <1>1, <1>2, Induction
<1>4. QED
  BY <1>3 DEF N

\* The rows of a diff.
LinesUpTo(shown, m, f) ==
    f = [n \in 0..m |-> IF n = 0 THEN FileHeader("p")
                        ELSE IF n \notin shown THEN f[n - 1] ELSE IF n - 1 \in shown THEN Append(f[n - 1], script[n]) ELSE Append(Append(f[n - 1], Header(shown, n)), script[n])]

LEMMA LinesExist ==
    ASSUME NEW shown
    PROVE  \A m \in Nat : \E f : LinesUpTo(shown, m, f)
<1> DEFINE S == {m \in Nat : \E f : LinesUpTo(shown, m, f)}
<1>1. 0 \in S
  <2> DEFINE f == [n \in 0..0 |-> FileHeader("p")]
  <2>1. LinesUpTo(shown, 0, f)
    BY DEF LinesUpTo
  <2>2. QED
    BY <2>1
<1>2. ASSUME NEW m \in Nat, m \in S PROVE m + 1 \in S
  <2>1. PICK f : LinesUpTo(shown, m, f)
    BY <1>2
  <2> DEFINE last == IF m + 1 \notin shown THEN f[m] ELSE IF (m + 1) - 1 \in shown THEN Append(f[m], script[m + 1]) ELSE Append(Append(f[m], Header(shown, m + 1)), script[m + 1])
             g == [n \in 0..(m + 1) |-> IF n = m + 1 THEN last ELSE f[n]]
  <2> HIDE DEF last
  <2>2. ASSUME NEW n \in 0..(m + 1)
        PROVE  g[n] = IF n = 0 THEN FileHeader("p")
                      ELSE IF n \notin shown THEN g[n - 1] ELSE IF n - 1 \in shown THEN Append(g[n - 1], script[n]) ELSE Append(Append(g[n - 1], Header(shown, n)), script[n])
    <3>1. CASE n = m + 1
      <4>1. n # 0 /\ n - 1 = m /\ n - 1 \in 0..(m + 1) /\ n - 1 # m + 1
        BY <3>1
      <4>2. g[n] = last /\ g[n - 1] = f[m]
        BY <3>1, <4>1
      <4>3. QED
        BY <3>1, <4>1, <4>2 DEF last
    <3>2. CASE n # m + 1
      <4>1. n \in 0..m /\ (n # 0 => n - 1 \in 0..(m + 1) /\ n - 1 # m + 1)
        BY <3>2
      <4>2. g[n] = f[n] /\ (n # 0 => g[n - 1] = f[n - 1])
        BY <3>2, <4>1
      <4>3. f[n] = IF n = 0 THEN FileHeader("p")
                   ELSE IF n \notin shown THEN f[n - 1] ELSE IF n - 1 \in shown THEN Append(f[n - 1], script[n]) ELSE Append(Append(f[n - 1], Header(shown, n)), script[n])
        BY <2>1, <4>1 DEF LinesUpTo
      <4>4. QED
        BY <4>2, <4>3
    <3>3. QED
      BY <3>1, <3>2
  <2>3. LinesUpTo(shown, m + 1, g)
    BY <2>2 DEF LinesUpTo
  <2>4. QED
    BY <2>3
<1> HIDE DEF S
<1>3. Nat \subseteq S
  BY <1>1, <1>2, Induction
<1>4. QED
  BY <1>3 DEF S

\* What is read of a diff.
ReadUpTo(b, s, m, f) ==
    f = [n \in 0..m |-> IF n = 0 THEN b
                        ELSE ReadRow(f[n - 1], s[n])]

LEMMA ReadExists ==
    ASSUME NEW b, NEW s
    PROVE  \A m \in Nat : \E f : ReadUpTo(b, s, m, f)
<1> DEFINE S == {m \in Nat : \E f : ReadUpTo(b, s, m, f)}
<1>1. 0 \in S
  <2> DEFINE f == [n \in 0..0 |-> b]
  <2>1. ReadUpTo(b, s, 0, f)
    BY DEF ReadUpTo
  <2>2. QED
    BY <2>1
<1>2. ASSUME NEW m \in Nat, m \in S PROVE m + 1 \in S
  <2>1. PICK f : ReadUpTo(b, s, m, f)
    BY <1>2
  <2> DEFINE last == ReadRow(f[m], s[m + 1])
             g == [n \in 0..(m + 1) |-> IF n = m + 1 THEN last ELSE f[n]]
  <2> HIDE DEF last
  <2>2. ASSUME NEW n \in 0..(m + 1)
        PROVE  g[n] = IF n = 0 THEN b
                      ELSE ReadRow(g[n - 1], s[n])
    <3>1. CASE n = m + 1
      <4>1. n # 0 /\ n - 1 = m /\ n - 1 \in 0..(m + 1) /\ n - 1 # m + 1
        BY <3>1
      <4>2. g[n] = last /\ g[n - 1] = f[m]
        BY <3>1, <4>1
      <4>3. QED
        BY <3>1, <4>1, <4>2 DEF last
    <3>2. CASE n # m + 1
      <4>1. n \in 0..m /\ (n # 0 => n - 1 \in 0..(m + 1) /\ n - 1 # m + 1)
        BY <3>2
      <4>2. g[n] = f[n] /\ (n # 0 => g[n - 1] = f[n - 1])
        BY <3>2, <4>1
      <4>3. f[n] = IF n = 0 THEN b
                   ELSE ReadRow(f[n - 1], s[n])
        BY <2>1, <4>1 DEF ReadUpTo
      <4>4. QED
        BY <4>2, <4>3
    <3>3. QED
      BY <3>1, <3>2
  <2>3. ReadUpTo(b, s, m + 1, g)
    BY <2>2 DEF ReadUpTo
  <2>4. QED
    BY <2>3
<1> HIDE DEF S
<1>3. Nat \subseteq S
  BY <1>1, <1>2, Induction
<1>4. QED
  BY <1>3 DEF S

\* The rows of a hunk, applied.
RowsApplied(text, b, s, m, f) ==
    f = [n \in 0..m |-> IF n = 0 THEN b
                        ELSE ApplyRow(text, f[n - 1], s[n])]

LEMMA RowsAppliedExist ==
    ASSUME NEW text, NEW b, NEW s
    PROVE  \A m \in Nat : \E f : RowsApplied(text, b, s, m, f)
<1> DEFINE S == {m \in Nat : \E f : RowsApplied(text, b, s, m, f)}
<1>1. 0 \in S
  <2> DEFINE f == [n \in 0..0 |-> b]
  <2>1. RowsApplied(text, b, s, 0, f)
    BY DEF RowsApplied
  <2>2. QED
    BY <2>1
<1>2. ASSUME NEW m \in Nat, m \in S PROVE m + 1 \in S
  <2>1. PICK f : RowsApplied(text, b, s, m, f)
    BY <1>2
  <2> DEFINE last == ApplyRow(text, f[m], s[m + 1])
             g == [n \in 0..(m + 1) |-> IF n = m + 1 THEN last ELSE f[n]]
  <2> HIDE DEF last
  <2>2. ASSUME NEW n \in 0..(m + 1)
        PROVE  g[n] = IF n = 0 THEN b
                      ELSE ApplyRow(text, g[n - 1], s[n])
    <3>1. CASE n = m + 1
      <4>1. n # 0 /\ n - 1 = m /\ n - 1 \in 0..(m + 1) /\ n - 1 # m + 1
        BY <3>1
      <4>2. g[n] = last /\ g[n - 1] = f[m]
        BY <3>1, <4>1
      <4>3. QED
        BY <3>1, <4>1, <4>2 DEF last
    <3>2. CASE n # m + 1
      <4>1. n \in 0..m /\ (n # 0 => n - 1 \in 0..(m + 1) /\ n - 1 # m + 1)
        BY <3>2
      <4>2. g[n] = f[n] /\ (n # 0 => g[n - 1] = f[n - 1])
        BY <3>2, <4>1
      <4>3. f[n] = IF n = 0 THEN b
                   ELSE ApplyRow(text, f[n - 1], s[n])
        BY <2>1, <4>1 DEF RowsApplied
      <4>4. QED
        BY <4>2, <4>3
    <3>3. QED
      BY <3>1, <3>2
  <2>3. RowsApplied(text, b, s, m + 1, g)
    BY <2>2 DEF RowsApplied
  <2>4. QED
    BY <2>3
<1> HIDE DEF S
<1>3. Nat \subseteq S
  BY <1>1, <1>2, Induction
<1>4. QED
  BY <1>3 DEF S

\* The hunks of a patch, applied.
HunksApplied(text, b, s, m, f) ==
    f = [n \in 0..m |-> IF n = 0 THEN b
                        ELSE ApplyHunk(text, f[n - 1], s[n])]

LEMMA HunksAppliedExist ==
    ASSUME NEW text, NEW b, NEW s
    PROVE  \A m \in Nat : \E f : HunksApplied(text, b, s, m, f)
<1> DEFINE S == {m \in Nat : \E f : HunksApplied(text, b, s, m, f)}
<1>1. 0 \in S
  <2> DEFINE f == [n \in 0..0 |-> b]
  <2>1. HunksApplied(text, b, s, 0, f)
    BY DEF HunksApplied
  <2>2. QED
    BY <2>1
<1>2. ASSUME NEW m \in Nat, m \in S PROVE m + 1 \in S
  <2>1. PICK f : HunksApplied(text, b, s, m, f)
    BY <1>2
  <2> DEFINE last == ApplyHunk(text, f[m], s[m + 1])
             g == [n \in 0..(m + 1) |-> IF n = m + 1 THEN last ELSE f[n]]
  <2> HIDE DEF last
  <2>2. ASSUME NEW n \in 0..(m + 1)
        PROVE  g[n] = IF n = 0 THEN b
                      ELSE ApplyHunk(text, g[n - 1], s[n])
    <3>1. CASE n = m + 1
      <4>1. n # 0 /\ n - 1 = m /\ n - 1 \in 0..(m + 1) /\ n - 1 # m + 1
        BY <3>1
      <4>2. g[n] = last /\ g[n - 1] = f[m]
        BY <3>1, <4>1
      <4>3. QED
        BY <3>1, <4>1, <4>2 DEF last
    <3>2. CASE n # m + 1
      <4>1. n \in 0..m /\ (n # 0 => n - 1 \in 0..(m + 1) /\ n - 1 # m + 1)
        BY <3>2
      <4>2. g[n] = f[n] /\ (n # 0 => g[n - 1] = f[n - 1])
        BY <3>2, <4>1
      <4>3. f[n] = IF n = 0 THEN b
                   ELSE ApplyHunk(text, f[n - 1], s[n])
        BY <2>1, <4>1 DEF HunksApplied
      <4>4. QED
        BY <4>2, <4>3
    <3>3. QED
      BY <3>1, <3>2
  <2>3. HunksApplied(text, b, s, m + 1, g)
    BY <2>2 DEF HunksApplied
  <2>4. QED
    BY <2>3
<1> HIDE DEF S
<1>3. Nat \subseteq S
  BY <1>1, <1>2, Induction
<1>4. QED
  BY <1>3 DEF S

ReadAll(b, s) == Folded(ReadRow, b, s)

\* No rows.
LEMMA ReadNone ==
    ASSUME NEW b
    PROVE  ReadAll(b, <<>>) = b
<1> DEFINE f == CHOOSE h : ReadUpTo(b, <<>>, 0, h)
<1>1. Len(<<>>) = 0
  BY EmptySeq
<1>2. ReadAll(b, <<>>) = f[0]
  BY <1>1 DEF ReadAll, Folded, ReadUpTo
<1>3. \E h : ReadUpTo(b, <<>>, 0, h)
  BY ReadExists
<1>4. ReadUpTo(b, <<>>, 0, f)
  BY <1>3
<1> HIDE DEF f
<1>5. f[0] = b
  BY <1>4 DEF ReadUpTo
<1>6. QED
  BY <1>2, <1>5

\* One row more.
LEMMA ReadMore ==
    ASSUME NEW T, NEW b, NEW s \in Seq(T), NEW l \in T
    PROVE  ReadAll(b, Append(s, l)) = ReadRow(ReadAll(b, s), l)
<1> DEFINE n == Len(s)
           t == Append(s, l)
           k == CHOOSE h : ReadUpTo(b, s, n, h)
           j == CHOOSE h : ReadUpTo(b, t, n + 1, h)
<1>1. n \in Nat /\ t \in Seq(T) /\ Len(t) = n + 1 /\ t[n + 1] = l /\ \A i \in 1..n : t[i] = s[i]
  BY AppendProperties, LenProperties
<1>2. ReadAll(b, s) = k[n] /\ ReadAll(b, t) = j[n + 1]
  <2>1. ReadAll(b, s) = k[n]
    BY DEF ReadAll, Folded, ReadUpTo
  <2> HIDE DEF t
  <2>2. ReadAll(b, t) = j[n + 1]
    BY <1>1 DEF ReadAll, Folded, ReadUpTo
  <2>3. QED
    BY <2>1, <2>2
<1>3. ReadUpTo(b, s, n, k) /\ ReadUpTo(b, t, n + 1, j)
  <2> HIDE DEF n, t
  <2>1. n \in Nat /\ n + 1 \in Nat
    BY <1>1
  <2>2. \E h : ReadUpTo(b, s, n, h)
    BY <2>1, ReadExists
  <2>3. \E h : ReadUpTo(b, t, n + 1, h)
    BY <2>1, ReadExists
  <2>4. QED
    BY <2>2, <2>3
<1> HIDE DEF n, t, k, j
<1>4. /\ k[0] = b /\ \A i \in 1..n : k[i] = ReadRow(k[i - 1], s[i])
      /\ j[0] = b /\ \A i \in 1..(n + 1) : j[i] = ReadRow(j[i - 1], t[i])
  <2>1. \A i \in 0..n : k[i] = IF i = 0 THEN b ELSE ReadRow(k[i - 1], s[i])
    BY <1>3, Zenon DEF ReadUpTo
  <2>2. \A i \in 0..(n + 1) : j[i] = IF i = 0 THEN b ELSE ReadRow(j[i - 1], t[i])
    BY <1>3, Zenon DEF ReadUpTo
  <2>3. /\ 0 \in 0..n /\ 0 \in 0..(n + 1)
        /\ \A i \in 1..n : i \in 0..n /\ i # 0
        /\ \A i \in 1..(n + 1) : i \in 0..(n + 1) /\ i # 0
    BY <1>1
  <2>4. QED
    BY <2>1, <2>2, <2>3
<1> DEFINE N == {i \in Nat : i <= n => j[i] = k[i]}
<1>5. 0 \in N
  BY <1>4
<1>6. ASSUME NEW i \in Nat, i \in N PROVE i + 1 \in N
  <2>1. SUFFICES ASSUME i + 1 <= n PROVE j[i + 1] = k[i + 1]
    OBVIOUS
  <2>2. i + 1 \in 1..n /\ i + 1 \in 1..(n + 1) /\ (i + 1) - 1 = i /\ j[i] = k[i]
    BY <1>1, <1>6, <2>1
  <2>3. QED
    BY <1>1, <1>4, <2>2
<1> HIDE DEF N
<1>7. n \in N
  BY <1>1, <1>5, <1>6, Induction
<1>8. j[n] = k[n]
  BY <1>1, <1>7 DEF N
<1>9. n + 1 \in 1..(n + 1) /\ (n + 1) - 1 = n
  BY <1>1
<1>10. j[n + 1] = ReadRow(k[n], l)
  BY <1>1, <1>4, <1>8, <1>9
<1>11. QED
  BY <1>2, <1>10 DEF t

\* No rows of a hunk.
LEMMA RowsNoMore ==
    ASSUME NEW text, NEW b
    PROVE  ApplyRows(text, b, <<>>) = b
<1> DEFINE f == CHOOSE h : RowsApplied(text, b, <<>>, 0, h)
<1>1. Len(<<>>) = 0
  BY EmptySeq
<1>2. ApplyRows(text, b, <<>>) = f[0]
  BY <1>1 DEF ApplyRows, Folded, RowsApplied
<1>3. \E h : RowsApplied(text, b, <<>>, 0, h)
  BY RowsAppliedExist
<1>4. RowsApplied(text, b, <<>>, 0, f)
  BY <1>3
<1> HIDE DEF f
<1>5. f[0] = b
  BY <1>4 DEF RowsApplied
<1>6. QED
  BY <1>2, <1>5

\* One row more of a hunk.
LEMMA RowsMore ==
    ASSUME NEW T, NEW text, NEW b, NEW s \in Seq(T), NEW l \in T
    PROVE  ApplyRows(text, b, Append(s, l)) = ApplyRow(text, ApplyRows(text, b, s), l)
<1> DEFINE n == Len(s)
           t == Append(s, l)
           k == CHOOSE h : RowsApplied(text, b, s, n, h)
           j == CHOOSE h : RowsApplied(text, b, t, n + 1, h)
<1>1. n \in Nat /\ t \in Seq(T) /\ Len(t) = n + 1 /\ t[n + 1] = l /\ \A i \in 1..n : t[i] = s[i]
  BY AppendProperties, LenProperties
<1>2. ApplyRows(text, b, s) = k[n] /\ ApplyRows(text, b, t) = j[n + 1]
  <2>1. ApplyRows(text, b, s) = k[n]
    BY DEF ApplyRows, Folded, RowsApplied
  <2> HIDE DEF t
  <2>2. ApplyRows(text, b, t) = j[n + 1]
    BY <1>1 DEF ApplyRows, Folded, RowsApplied
  <2>3. QED
    BY <2>1, <2>2
<1>3. RowsApplied(text, b, s, n, k) /\ RowsApplied(text, b, t, n + 1, j)
  <2> HIDE DEF n, t
  <2>1. n \in Nat /\ n + 1 \in Nat
    BY <1>1
  <2>2. \E h : RowsApplied(text, b, s, n, h)
    BY <2>1, RowsAppliedExist
  <2>3. \E h : RowsApplied(text, b, t, n + 1, h)
    BY <2>1, RowsAppliedExist
  <2>4. QED
    BY <2>2, <2>3
<1> HIDE DEF n, t, k, j
<1>4. /\ k[0] = b /\ \A i \in 1..n : k[i] = ApplyRow(text, k[i - 1], s[i])
      /\ j[0] = b /\ \A i \in 1..(n + 1) : j[i] = ApplyRow(text, j[i - 1], t[i])
  <2>1. \A i \in 0..n : k[i] = IF i = 0 THEN b ELSE ApplyRow(text, k[i - 1], s[i])
    BY <1>3, Zenon DEF RowsApplied
  <2>2. \A i \in 0..(n + 1) : j[i] = IF i = 0 THEN b ELSE ApplyRow(text, j[i - 1], t[i])
    BY <1>3, Zenon DEF RowsApplied
  <2>3. /\ 0 \in 0..n /\ 0 \in 0..(n + 1)
        /\ \A i \in 1..n : i \in 0..n /\ i # 0
        /\ \A i \in 1..(n + 1) : i \in 0..(n + 1) /\ i # 0
    BY <1>1
  <2>4. QED
    BY <2>1, <2>2, <2>3
<1> DEFINE N == {i \in Nat : i <= n => j[i] = k[i]}
<1>5. 0 \in N
  BY <1>4
<1>6. ASSUME NEW i \in Nat, i \in N PROVE i + 1 \in N
  <2>1. SUFFICES ASSUME i + 1 <= n PROVE j[i + 1] = k[i + 1]
    OBVIOUS
  <2>2. i + 1 \in 1..n /\ i + 1 \in 1..(n + 1) /\ (i + 1) - 1 = i /\ j[i] = k[i]
    BY <1>1, <1>6, <2>1
  <2>3. QED
    BY <1>1, <1>4, <2>2
<1> HIDE DEF N
<1>7. n \in N
  BY <1>1, <1>5, <1>6, Induction
<1>8. j[n] = k[n]
  BY <1>1, <1>7 DEF N
<1>9. n + 1 \in 1..(n + 1) /\ (n + 1) - 1 = n
  BY <1>1
<1>10. j[n + 1] = ApplyRow(text, k[n], l)
  BY <1>1, <1>4, <1>8, <1>9
<1>11. QED
  BY <1>2, <1>10 DEF t

Unread == [at |-> 0, out |-> <<>>, ok |-> TRUE]

\* No hunks.
LEMMA HunksNone ==
    ASSUME NEW text
    PROVE  ApplyHunks(text, <<>>) = Unread
<1> DEFINE f == CHOOSE h : HunksApplied(text, Unread, <<>>, 0, h)
<1>1. Len(<<>>) = 0
  BY EmptySeq
<1>2. ApplyHunks(text, <<>>) = f[0]
  BY <1>1 DEF ApplyHunks, Unread, Folded, HunksApplied
<1>3. \E h : HunksApplied(text, Unread, <<>>, 0, h)
  BY HunksAppliedExist
<1>4. HunksApplied(text, Unread, <<>>, 0, f)
  BY <1>3
<1> HIDE DEF f
<1>5. f[0] = Unread
  BY <1>4 DEF HunksApplied
<1>6. QED
  BY <1>2, <1>5

\* One hunk more.
LEMMA HunksMore ==
    ASSUME NEW T, NEW text, NEW s \in Seq(T), NEW l \in T
    PROVE  ApplyHunks(text, Append(s, l)) = ApplyHunk(text, ApplyHunks(text, s), l)
<1> DEFINE n == Len(s)
           t == Append(s, l)
           k == CHOOSE h : HunksApplied(text, Unread, s, n, h)
           j == CHOOSE h : HunksApplied(text, Unread, t, n + 1, h)
<1>1. n \in Nat /\ t \in Seq(T) /\ Len(t) = n + 1 /\ t[n + 1] = l /\ \A i \in 1..n : t[i] = s[i]
  BY AppendProperties, LenProperties
<1>2. ApplyHunks(text, s) = k[n] /\ ApplyHunks(text, t) = j[n + 1]
  <2>1. ApplyHunks(text, s) = k[n]
    BY DEF ApplyHunks, Unread, Folded, HunksApplied
  <2> HIDE DEF t
  <2>2. ApplyHunks(text, t) = j[n + 1]
    BY <1>1 DEF ApplyHunks, Unread, Folded, HunksApplied
  <2>3. QED
    BY <2>1, <2>2
<1>3. HunksApplied(text, Unread, s, n, k) /\ HunksApplied(text, Unread, t, n + 1, j)
  <2> HIDE DEF n, t
  <2>1. n \in Nat /\ n + 1 \in Nat
    BY <1>1
  <2>2. \E h : HunksApplied(text, Unread, s, n, h)
    BY <2>1, HunksAppliedExist
  <2>3. \E h : HunksApplied(text, Unread, t, n + 1, h)
    BY <2>1, HunksAppliedExist
  <2>4. QED
    BY <2>2, <2>3
<1> HIDE DEF n, t, k, j
<1>4. /\ k[0] = Unread /\ \A i \in 1..n : k[i] = ApplyHunk(text, k[i - 1], s[i])
      /\ j[0] = Unread /\ \A i \in 1..(n + 1) : j[i] = ApplyHunk(text, j[i - 1], t[i])
  <2>1. \A i \in 0..n : k[i] = IF i = 0 THEN Unread ELSE ApplyHunk(text, k[i - 1], s[i])
    BY <1>3, Zenon DEF HunksApplied
  <2>2. \A i \in 0..(n + 1) : j[i] = IF i = 0 THEN Unread ELSE ApplyHunk(text, j[i - 1], t[i])
    BY <1>3, Zenon DEF HunksApplied
  <2>3. /\ 0 \in 0..n /\ 0 \in 0..(n + 1)
        /\ \A i \in 1..n : i \in 0..n /\ i # 0
        /\ \A i \in 1..(n + 1) : i \in 0..(n + 1) /\ i # 0
    BY <1>1
  <2>4. QED
    BY <2>1, <2>2, <2>3
<1> DEFINE N == {i \in Nat : i <= n => j[i] = k[i]}
<1>5. 0 \in N
  BY <1>4
<1>6. ASSUME NEW i \in Nat, i \in N PROVE i + 1 \in N
  <2>1. SUFFICES ASSUME i + 1 <= n PROVE j[i + 1] = k[i + 1]
    OBVIOUS
  <2>2. i + 1 \in 1..n /\ i + 1 \in 1..(n + 1) /\ (i + 1) - 1 = i /\ j[i] = k[i]
    BY <1>1, <1>6, <2>1
  <2>3. QED
    BY <1>1, <1>4, <2>2
<1> HIDE DEF N
<1>7. n \in N
  BY <1>1, <1>5, <1>6, Induction
<1>8. j[n] = k[n]
  BY <1>1, <1>7 DEF N
<1>9. n + 1 \in 1..(n + 1) /\ (n + 1) - 1 = n
  BY <1>1
<1>10. j[n + 1] = ApplyHunk(text, k[n], l)
  BY <1>1, <1>4, <1>8, <1>9
<1>11. QED
  BY <1>2, <1>10 DEF t

Line == [op : {" ", "-", "+"}, row : Row]

\* f[n] holds the rows of the script in P up to the n-th.
Picks(P, m, f) ==
    /\ f[0] = <<>>
    /\ \A n \in 1..m : f[n] = IF n \in P THEN Append(f[n - 1], script[n].row) ELSE f[n - 1]

Picked(S, ops) == {n \in 1..Len(script) : n \in S /\ script[n].op \in ops}

\* The rows of a script in a set of row numbers.
LEMMA RowsAre ==
    ASSUME script \in Seq(Line), NEW S, NEW ops
    PROVE  \E f : Picks(Picked(S, ops), Len(script), f) /\ RowsIn(S, ops) = f[Len(script)]
<1> DEFINE f == CHOOSE h : RowsUpTo(S, ops, Len(script), h)
           m == Len(script)
           P == Picked(S, ops)
<1>0. m \in Nat
  BY LenProperties
<1>1. RowsIn(S, ops) = f[m]
  BY DEF RowsIn, RowsUpTo
<1>2. \E h : RowsUpTo(S, ops, m, h)
  BY <1>0, RowsExist
<1>3. RowsUpTo(S, ops, m, f)
  BY <1>2
<1> HIDE DEF f, m
<1>4. \A n \in 0..m : f[n] = IF n = 0 THEN <<>>
                              ELSE IF n \in S /\ script[n].op \in ops
                                   THEN Append(f[n - 1], script[n].row) ELSE f[n - 1]
  BY <1>3, Zenon DEF RowsUpTo
<1>5. 0 \in 0..m /\ \A n \in 1..m : n \in 0..m /\ n # 0
  BY <1>0
<1>6. f[0] = <<>>
  BY <1>4, <1>5
<1>7. \A n \in 1..m : n \in P <=> n \in S /\ script[n].op \in ops
  BY DEF Picked, m
<1>8. \A n \in 1..m : f[n] = IF n \in P THEN Append(f[n - 1], script[n].row) ELSE f[n - 1]
  BY <1>4, <1>5, <1>7
<1>9. Picks(P, m, f)
  BY <1>6, <1>8 DEF Picks
<1>10. QED
  BY <1>1, <1>9 DEF m

LEMMA PicksStay ==
    ASSUME NEW P, NEW m \in Nat, NEW f, Picks(P, m, f), NEW c \in 0..m,
           \A n \in 1..m : c < n => n \notin P
    PROVE  f[m] = f[c]
<1> DEFINE N == {i \in Nat : c + i <= m => f[c + i] = f[c]}
<1>1. 0 \in N
  OBVIOUS
<1>2. ASSUME NEW i \in Nat, i \in N PROVE i + 1 \in N
  <2>1. SUFFICES ASSUME c + (i + 1) <= m PROVE f[c + (i + 1)] = f[c]
    OBVIOUS
  <2> DEFINE n == c + (i + 1)
  <2>2. n \in 1..m /\ n - 1 = c + i /\ n \notin P /\ c + i <= m
    BY <2>1
  <2> HIDE DEF n
  <2>3. f[n] = f[n - 1]
    BY <2>2 DEF Picks
  <2>4. QED
    BY <1>2, <2>2, <2>3 DEF n
<1> HIDE DEF N
<1>3. m - c \in N
  BY <1>1, <1>2, Induction
<1>4. QED
  BY <1>3 DEF N

SameUpTo(P, Q, c) == \A n \in 1..c : n \in P <=> n \in Q

LEMMA PicksAlike ==
    ASSUME NEW P, NEW Q, NEW m \in Nat, NEW f, Picks(P, m, f),
           NEW g, Picks(Q, m, g), NEW c \in 0..m,
           SameUpTo(P, Q, c)
    PROVE  f[c] = g[c]
<1> DEFINE N == {i \in Nat : i <= c => f[i] = g[i]}
<1>1. 0 \in N
  BY DEF Picks
<1>2. ASSUME NEW i \in Nat, i \in N PROVE i + 1 \in N
  <2>1. SUFFICES ASSUME i + 1 <= c PROVE f[i + 1] = g[i + 1]
    OBVIOUS
  <2> DEFINE n == i + 1
  <2>2. n \in 1..m /\ n \in 1..c /\ n - 1 = i /\ f[i] = g[i] /\ (n \in P <=> n \in Q)
    BY <1>2, <2>1 DEF SameUpTo
  <2> HIDE DEF n
  <2>3. f[n] = g[n]
    BY <2>2 DEF Picks
  <2>4. QED
    BY <2>3 DEF n
<1> HIDE DEF N
<1>3. c \in N
  BY <1>1, <1>2, Induction
<1>4. QED
  BY <1>3 DEF N

LEMMA PicksAreRows ==
    ASSUME script \in Seq(Line), NEW P, NEW m \in 0..Len(script), NEW f, Picks(P, m, f)
    PROVE  f[m] \in Seq(Row)
<1> DEFINE N == {i \in Nat : i <= m => f[i] \in Seq(Row)}
<1>0. m \in Nat /\ Len(script) \in Nat
  BY LenProperties
<1>1. 0 \in N
  BY EmptySeq DEF Picks
<1>2. ASSUME NEW i \in Nat, i \in N PROVE i + 1 \in N
  <2>1. SUFFICES ASSUME i + 1 <= m PROVE f[i + 1] \in Seq(Row)
    OBVIOUS
  <2> DEFINE n == i + 1
  <2>2. n \in 1..m /\ n - 1 = i /\ f[i] \in Seq(Row) /\ n \in 1..Len(script)
    BY <1>0, <1>2, <2>1
  <2> HIDE DEF n
  <2>3. script[n].row \in Row
    <3>1. script[n] \in Line
      BY <2>2, ElementOfSeq
    <3>2. QED
      BY <3>1 DEF Line
  <2>4. f[n] = IF n \in P THEN Append(f[i], script[n].row) ELSE f[i]
    BY <2>2 DEF Picks
  <2>5. f[n] \in Seq(Row)
    BY <2>2, <2>3, <2>4, AppendProperties
  <2>6. QED
    BY <2>5 DEF n
<1> HIDE DEF N
<1>3. m \in N
  BY <1>0, <1>1, <1>2, Induction
<1>4. QED
  BY <1>3 DEF N

LEMMA RowsTyped ==
    ASSUME script \in Seq(Line), NEW S, NEW ops
    PROVE  RowsIn(S, ops) \in Seq(Row)
<1>1. PICK m \in Nat : m = Len(script)
  BY LenProperties
<1>2. PICK f : Picks(Picked(S, ops), m, f) /\ RowsIn(S, ops) = f[m]
  BY <1>1, RowsAre
<1>3. m \in 0..Len(script)
  BY <1>1
<1>4. f[m] \in Seq(Row)
  BY <1>2, <1>3, PicksAreRows
<1>5. QED
  BY <1>2, <1>4

LEMMA RowsNone ==
    ASSUME script \in Seq(Line), NEW S, NEW ops, \A n \in 1..Len(script) : n \notin S
    PROVE  RowsIn(S, ops) = <<>>
<1>1. PICK m \in Nat : m = Len(script)
  BY LenProperties
<1>2. PICK P : P = Picked(S, ops)
  OBVIOUS
<1>3. PICK f : Picks(P, m, f) /\ RowsIn(S, ops) = f[m]
  BY <1>1, <1>2, RowsAre
<1>4. \A n \in 1..m : n \notin P
  BY <1>1, <1>2 DEF Picked
<1>5. PICK z : z = 0
  OBVIOUS
<1>6. f[m] = f[z]
  <2>1. z \in 0..m /\ \A n \in 1..m : z < n => n \notin P
    BY <1>4, <1>5
  <2>2. Picks(P, m, f)
    BY <1>3
  <2>3. QED
    BY <2>1, <2>2, PicksStay
<1>7. QED
  BY <1>3, <1>5, <1>6 DEF Picks

LEMMA RowsStep ==
    ASSUME script \in Seq(Line), NEW a \in Nat, NEW b \in Nat, a <= b + 1, b + 1 <= Len(script), NEW ops
    PROVE  RowsIn(a..(b + 1), ops) = IF script[b + 1].op \in ops
                                     THEN Append(RowsIn(a..b, ops), script[b + 1].row)
                                     ELSE RowsIn(a..b, ops)
<1>1. PICK m \in Nat : m = Len(script)
  BY LenProperties
<1>2. PICK c \in Nat : c = b + 1
  OBVIOUS
<1>3. /\ c \in 0..m /\ b \in 0..m /\ c \in 1..m /\ c - 1 = b
      /\ c \in a..c /\ \A n \in 1..m : (n \in a..c <=> n \in a..b \/ n = c) /\ (b < n => n \notin a..b)
      /\ \A n \in 1..m : c < n => n \notin a..c
      /\ \A n \in 1..b : n \in 1..m /\ n # c
  BY <1>1, <1>2
<1>4. PICK S : S = a..b
  OBVIOUS
<1>5. PICK R : R = a..c
  OBVIOUS
<1>6. PICK P : P = Picked(S, ops)
  OBVIOUS
<1>7. PICK Q : Q = Picked(R, ops)
  OBVIOUS
<1>8. PICK f : Picks(P, m, f) /\ RowsIn(S, ops) = f[m]
  BY <1>1, <1>6, RowsAre
<1>9. PICK g : Picks(Q, m, g) /\ RowsIn(R, ops) = g[m]
  BY <1>1, <1>7, RowsAre
<1>10. \A n \in 1..m : (n \in P <=> n \in S /\ script[n].op \in ops) /\ (n \in Q <=> n \in R /\ script[n].op \in ops)
  BY <1>1, <1>6, <1>7 DEF Picked
<1>11. f[m] = f[b]
  <2>1. \A n \in 1..m : b < n => n \notin P
    BY <1>3, <1>4, <1>10
  <2>2. b \in 0..m /\ Picks(P, m, f)
    BY <1>3, <1>8
  <2>3. QED
    BY <2>1, <2>2, PicksStay
<1>12. g[m] = g[c]
  <2>1. \A n \in 1..m : c < n => n \notin Q
    BY <1>3, <1>5, <1>10
  <2>2. c \in 0..m /\ Picks(Q, m, g)
    BY <1>3, <1>9
  <2>3. QED
    BY <2>1, <2>2, PicksStay
<1>13. f[b] = g[b]
  <2>1. SameUpTo(P, Q, b)
    BY <1>3, <1>4, <1>5, <1>10 DEF SameUpTo
  <2>2. b \in 0..m /\ Picks(P, m, f) /\ Picks(Q, m, g)
    BY <1>3, <1>8, <1>9
  <2>3. QED
    BY <2>1, <2>2, PicksAlike
<1>14. g[c] = IF script[c].op \in ops THEN Append(g[b], script[c].row) ELSE g[b]
  <2>1. g[c] = IF c \in Q THEN Append(g[c - 1], script[c].row) ELSE g[c - 1]
    BY <1>3, <1>9 DEF Picks
  <2>2. QED
    BY <1>3, <1>5, <1>10, <2>1
<1>15. RowsIn(R, ops) = IF script[c].op \in ops THEN Append(RowsIn(S, ops), script[c].row) ELSE RowsIn(S, ops)
  BY <1>8, <1>9, <1>11, <1>12, <1>13, <1>14
<1>16. QED
  BY <1>2, <1>4, <1>5, <1>15

\* The rows up to a row of the script, and those between it and a later one.
LEMMA RowsJoin ==
    ASSUME script \in Seq(Line), NEW a \in 0..Len(script), NEW ops
    PROVE  \A b \in a..Len(script) :
               RowsIn(1..a, ops) \o RowsIn((a + 1)..b, ops) = RowsIn(1..b, ops)
<1> DEFINE O(n) == RowsIn(1..n, ops)
           H(n) == RowsIn((a + 1)..n, ops)
           N == {i \in Nat : a + i <= Len(script) => O(a) \o H(a + i) = O(a + i)}
<1>0. Len(script) \in Nat /\ a \in Nat
  BY LenProperties
<1>1. \A n \in 0..Len(script) : O(n) \in Seq(Row) /\ H(n) \in Seq(Row)
  BY RowsTyped
<1>2. H(a) = <<>>
  <2>1. \A n \in 1..Len(script) : n \notin (a + 1)..a
    BY <1>0
  <2>2. QED
    BY <2>1, RowsNone
<1>3. ASSUME NEW n \in a..(Len(script) - 1)
      PROVE  /\ O(n + 1) = IF script[n + 1].op \in ops THEN Append(O(n), script[n + 1].row) ELSE O(n)
             /\ H(n + 1) = IF script[n + 1].op \in ops THEN Append(H(n), script[n + 1].row) ELSE H(n)
             /\ script[n + 1].row \in Row
  <2>1. n \in Nat /\ n + 1 <= Len(script) /\ 1 <= n + 1 /\ a + 1 <= n + 1 /\ a + 1 \in Nat
    BY <1>0
  <2>2. script[n + 1].row \in Row
    <3>1. n + 1 \in 1..Len(script)
      BY <1>0, <2>1
    <3>2. script[n + 1] \in Line
      BY <3>1, ElementOfSeq
    <3>3. QED
      BY <3>2 DEF Line
  <2>3. QED
    BY <2>1, <2>2, RowsStep
<1> HIDE DEF O, H
<1>4. 0 \in N
  BY <1>0, <1>1, <1>2, ConcatEmptySeq
<1>5. ASSUME NEW i \in Nat, i \in N PROVE i + 1 \in N
  <2>1. SUFFICES ASSUME a + (i + 1) <= Len(script) PROVE O(a) \o H(a + (i + 1)) = O(a + (i + 1))
    OBVIOUS
  <2> DEFINE n == a + i
             x == script[n + 1].row
  <2>2. /\ n \in a..(Len(script) - 1) /\ n + 1 = a + (i + 1) /\ O(a) \o H(n) = O(n)
        /\ O(a) \in Seq(Row) /\ H(n) \in Seq(Row) /\ O(n) \in Seq(Row)
    BY <1>0, <1>1, <1>5, <2>1
  <2> HIDE DEF n
  <2>3. /\ O(n + 1) = IF script[n + 1].op \in ops THEN Append(O(n), x) ELSE O(n)
        /\ H(n + 1) = IF script[n + 1].op \in ops THEN Append(H(n), x) ELSE H(n)
        /\ x \in Row
    BY <1>3, <2>2
  <2> HIDE DEF x
  <2>4. O(a) \o Append(H(n), x) = Append(O(n), x)
    <3>1. Append(H(n), x) = H(n) \o <<x>> /\ Append(O(n), x) = O(n) \o <<x>> /\ <<x>> \in Seq(Row)
      BY <2>2, <2>3, AppendIsConcat
    <3>2. O(a) \o (H(n) \o <<x>>) = (O(a) \o H(n)) \o <<x>>
      <4> DEFINE p == O(a)
                 q == H(n)
                 r == <<x>>
      <4>1. p \in Seq(Row) /\ q \in Seq(Row) /\ r \in Seq(Row)
        BY <2>2, <3>1
      <4> HIDE DEF p, q, r
      <4>2. (p \o q) \o r = p \o (q \o r)
        BY <4>1, ConcatAssociative
      <4>3. QED
        BY <4>2 DEF p, q, r
    <3>3. QED
      BY <2>2, <3>1, <3>2
  <2>5. O(a) \o H(n + 1) = O(n + 1)
    BY <2>2, <2>3, <2>4
  <2>6. QED
    BY <2>2, <2>5
<1> HIDE DEF N
<1>6. Nat \subseteq N
  BY <1>4, <1>5, Induction
<1>7. ASSUME NEW b \in a..Len(script) PROVE O(a) \o H(b) = O(b)
  <2>1. b - a \in N /\ a + (b - a) = b
    BY <1>0, <1>6
  <2>2. QED
    BY <2>1 DEF N
<1>8. QED
  BY <1>7 DEF O, H

\* The rows of the old and of the new text up to a row of the script.
OldUpTo(k) == RowsIn(1..k, {" ", "-"})
NewUpTo(k) == RowsIn(1..k, {" ", "+"})

LEMMA RowOfLine ==
    ASSUME script \in Seq(Line), NEW k \in 1..Len(script)
    PROVE  script[k].row \in Row /\ script[k].op \in {" ", "-", "+"}
<1>1. script[k] \in Line
  BY ElementOfSeq
<1>2. QED
  BY <1>1 DEF Line

LEMMA UpToTyped ==
    ASSUME script \in Seq(Line), NEW k
    PROVE  OldUpTo(k) \in Seq(Row) /\ NewUpTo(k) \in Seq(Row)
BY RowsTyped DEF OldUpTo, NewUpTo

LEMMA UpToNone ==
    ASSUME script \in Seq(Line)
    PROVE  OldUpTo(0) = <<>> /\ NewUpTo(0) = <<>>
<1>1. \A n \in 1..Len(script) : n \notin 1..0
  OBVIOUS
<1>2. QED
  BY <1>1, RowsNone DEF OldUpTo, NewUpTo

LEMMA UpToStep ==
    ASSUME script \in Seq(Line), NEW k \in Nat, k + 1 <= Len(script)
    PROVE  LET l == script[k + 1] IN
           /\ OldUpTo(k + 1) = IF l.op = "+" THEN OldUpTo(k) ELSE Append(OldUpTo(k), l.row)
           /\ NewUpTo(k + 1) = IF l.op = "-" THEN NewUpTo(k) ELSE Append(NewUpTo(k), l.row)
<1>0. 1 <= k + 1 /\ 1 \in Nat
  OBVIOUS
<1>1. script[k + 1].op \in {" ", "-", "+"}
  <2>1. k + 1 \in 1..Len(script)
    BY LenProperties
  <2>2. QED
    BY <2>1, RowOfLine
<1>2. OldUpTo(k + 1) = IF script[k + 1].op \in {" ", "-"} THEN Append(OldUpTo(k), script[k + 1].row) ELSE OldUpTo(k)
  BY <1>0, RowsStep DEF OldUpTo
<1>3. NewUpTo(k + 1) = IF script[k + 1].op \in {" ", "+"} THEN Append(NewUpTo(k), script[k + 1].row) ELSE NewUpTo(k)
  BY <1>0, RowsStep DEF NewUpTo
<1>4. QED
  BY <1>1, <1>2, <1>3

\* What is up to one row is the beginning of what is up to the last.
LEMMA UpToBegins ==
    ASSUME script \in Seq(Line), NEW k \in 0..Len(script)
    PROVE  LET o == OldUpTo(k) IN
           /\ Len(o) \in Nat /\ Len(o) <= Len(OldUpTo(Len(script)))
           /\ \A j \in 1..Len(o) : OldUpTo(Len(script))[j] = o[j]
<1> DEFINE o == OldUpTo(k)
           r == RowsIn((k + 1)..Len(script), {" ", "-"})
<1>1. Len(script) \in Nat /\ Len(script) \in k..Len(script)
  BY LenProperties
<1>2. o \o r = OldUpTo(Len(script))
  BY <1>1, RowsJoin DEF OldUpTo
<1>3. o \in Seq(Row) /\ r \in Seq(Row)
  BY UpToTyped, RowsTyped
<1> HIDE DEF o, r
<1>4. Len(o) \in Nat /\ Len(r) \in Nat
  BY <1>3, LenProperties
<1>5. Len(o \o r) = Len(o) + Len(r) /\ \A i \in 1..(Len(o) + Len(r)) : (o \o r)[i] = IF i <= Len(o) THEN o[i] ELSE r[i - Len(o)]
  BY <1>3, ConcatProperties
<1>6. \A j \in 1..Len(o) : j \in 1..(Len(o) + Len(r)) /\ j <= Len(o)
  BY <1>4
<1>7. \A j \in 1..Len(o) : (o \o r)[j] = o[j]
  BY <1>5, <1>6
<1>8. Len(o) <= Len(o \o r)
  BY <1>4, <1>5
<1>9. Len(o) \in Nat /\ Len(o) <= Len(OldUpTo(Len(script))) /\ \A j \in 1..Len(o) : OldUpTo(Len(script))[j] = o[j]
  BY <1>2, <1>4, <1>7, <1>8
<1>10. QED
  BY <1>9 DEF o

\* The old text has the rows of the script that are kept or removed, each where
\* those up to it end.
LEMMA OldTextIs ==
    ASSUME script \in Seq(Line)
    PROVE  LET o == OldUpTo(Len(script)) IN
           /\ OldText = Append(o, Blank) /\ OldRows(DOMAIN script) = o
           /\ NewText = Append(NewUpTo(Len(script)), Blank)
           /\ OldText \in Seq(Row) /\ Len(OldText) = Len(o) + 1 /\ Len(o) \in Nat
           /\ OldText[Len(o) + 1] = Blank
           /\ \A k \in 1..Len(script) :
                  script[k].op # "+" =>
                      /\ Len(OldUpTo(k)) = Len(OldUpTo(k - 1)) + 1
                      /\ Len(OldUpTo(k)) <= Len(o)
                      /\ OldText[Len(OldUpTo(k))] = script[k].row
<1> DEFINE o == OldUpTo(Len(script))
<1>1. Len(script) \in Nat /\ DOMAIN script = 1..Len(script)
  BY LenProperties
<1>2. OldText = Append(o, Blank) /\ OldRows(DOMAIN script) = o
  BY <1>1 DEF OldText, Text, OldRows, OldUpTo
<1>3. NewText = Append(NewUpTo(Len(script)), Blank)
  BY <1>1 DEF NewText, Text, NewRows, NewUpTo
<1>4. o \in Seq(Row) /\ Len(o) \in Nat
  BY UpToTyped, LenProperties
<1>5. Blank \in Row
  BY DEF Row
<1>6. /\ Append(o, Blank) \in Seq(Row) /\ Len(Append(o, Blank)) = Len(o) + 1
      /\ Append(o, Blank)[Len(o) + 1] = Blank
      /\ \A j \in 1..Len(o) : Append(o, Blank)[j] = o[j]
  <2> HIDE DEF o
  <2>1. QED
    BY <1>4, <1>5, AppendProperties
<1>7. ASSUME NEW k \in 1..Len(script), script[k].op # "+"
      PROVE  /\ Len(OldUpTo(k)) = Len(OldUpTo(k - 1)) + 1
             /\ Len(OldUpTo(k)) <= Len(o)
             /\ OldText[Len(OldUpTo(k))] = script[k].row
  <2> DEFINE i == k - 1
             p == OldUpTo(i)
             q == OldUpTo(k)
  <2>1. i \in Nat /\ i + 1 = k /\ i + 1 <= Len(script) /\ k \in 0..Len(script)
    BY <1>1
  <2>2. q = Append(p, script[k].row)
    <3> HIDE DEF i
    <3>1. OldUpTo(i + 1) = IF script[i + 1].op = "+" THEN OldUpTo(i) ELSE Append(OldUpTo(i), script[i + 1].row)
      BY <2>1, UpToStep
    <3>2. QED
      BY <1>7, <2>1, <3>1
  <2>3. p \in Seq(Row) /\ Len(p) \in Nat /\ script[k].row \in Row
    BY UpToTyped, LenProperties, RowOfLine
  <2>4. Len(q) \in Nat /\ Len(q) <= Len(o) /\ \A j \in 1..Len(q) : o[j] = q[j]
    BY <2>1, UpToBegins
  <2> HIDE DEF i, p, q, o
  <2>5. Len(q) = Len(p) + 1 /\ q[Len(p) + 1] = script[k].row
    BY <2>2, <2>3, AppendProperties
  <2>6. Len(q) \in 1..Len(q) /\ Len(q) \in 1..Len(o)
    BY <1>4, <2>3, <2>4, <2>5
  <2>7. o[Len(q)] = script[k].row
    BY <2>4, <2>5, <2>6
  <2>8. OldText[Len(q)] = o[Len(q)]
    BY <1>2, <1>6, <2>6
  <2>9. QED
    BY <2>4, <2>5, <2>7, <2>8 DEF q, p, i
<1>8. QED
  BY <1>2, <1>3, <1>4, <1>6, <1>7

\* A hunk is a run of rows.
LEMMA HunkIs ==
    ASSUME script \in Seq(Line), NEW shown \in SUBSET (1..Len(script)), NEW i \in shown
    PROVE  \E e \in i..Len(script) : Hunk(shown, i) = i..e
<1>0. Len(script) \in Nat /\ i \in 1..Len(script)
  BY LenProperties
<1> DEFINE N == {k \in Nat : i..(i + k) \subseteq shown}
<1>1. 0 \in N
  BY <1>0
<1>2. PICK k \in N : k + 1 \notin N
  <2>1. SUFFICES ASSUME \A k \in N : k + 1 \in N PROVE FALSE
    OBVIOUS
  <2> HIDE DEF N
  <2>2. Nat \subseteq N
    BY <1>1, <2>1, Induction
  <2>3. Len(script) \in N
    BY <1>0, <2>2
  <2>4. i + Len(script) \in shown
    BY <1>0, <2>3 DEF N
  <2>5. QED
    BY <1>0, <2>4
<1>3. PICK e \in Int : e = i + k
  BY <1>0
<1>4. i..e \subseteq shown /\ ~(i..(e + 1) \subseteq shown) /\ i <= e
  BY <1>0, <1>2, <1>3
<1>5. e \in shown
  BY <1>0, <1>4
<1>6. e \in i..Len(script)
  BY <1>0, <1>4, <1>5
<1>7. ASSUME NEW j \in Hunk(shown, i) PROVE j \in i..e
  <2>1. j \in shown /\ i <= j /\ i..j \subseteq shown /\ j \in Nat
    BY DEF Hunk
  <2>2. CASE j > e
    <3>1. i..(e + 1) \subseteq i..j
      BY <1>0, <2>1, <2>2
    <3>2. QED
      BY <1>4, <2>1, <3>1
  <2>3. QED
    BY <1>0, <2>1, <2>2
<1>8. ASSUME NEW j \in i..e PROVE j \in Hunk(shown, i)
  <2>1. j \in shown /\ i <= j /\ i..j \subseteq i..e
    BY <1>0, <1>4
  <2>2. QED
    BY <1>4, <2>1 DEF Hunk
<1>9. QED
  BY <1>6, <1>7, <1>8

\* Every row of the old text between two places of the script is a row of the
\* script between them.
LEMMA Places ==
    ASSUME script \in Seq(Line), NEW a \in 1..Len(script)
    PROVE  \A b \in (a - 1)..Len(script) : \A k \in Nat :
               Len(OldUpTo(a - 1)) < k /\ k <= Len(OldUpTo(b)) =>
                   \E m \in a..b : script[m].op # "+" /\ Len(OldUpTo(m)) = k
<1> DEFINE low == Len(OldUpTo(a - 1))
           Found(b, k) == \E m \in a..b : script[m].op # "+" /\ Len(OldUpTo(m)) = k
           All(b) == \A k \in Nat : low < k /\ k <= Len(OldUpTo(b)) => Found(b, k)
           N == {i \in Nat : (a - 1) + i <= Len(script) => All((a - 1) + i)}
<1>0. Len(script) \in Nat /\ a \in Nat
  BY LenProperties
<1>1. 0 \in N
  <2>1. (a - 1) + 0 = a - 1
    BY <1>0
  <2>2. Len(OldUpTo(a - 1)) \in Nat
    BY UpToTyped, LenProperties
  <2>3. All(a - 1)
    BY <2>2
  <2>4. QED
    BY <2>1, <2>3
<1>2. ASSUME NEW i \in Nat, i \in N PROVE i + 1 \in N
  <2>1. SUFFICES ASSUME (a - 1) + (i + 1) <= Len(script) PROVE All((a - 1) + (i + 1))
    OBVIOUS
  <2>2. PICK b \in Nat : b = (a - 1) + i
    BY <1>0
  <2>3. /\ (a - 1) + (i + 1) = b + 1 /\ b + 1 <= Len(script) /\ b + 1 \in a..(b + 1)
        /\ a..b \subseteq a..(b + 1) /\ b + 1 \in 1..Len(script)
    BY <1>0, <2>1, <2>2
  <2>4. All(b)
    <3> HIDE DEF All
    <3>1. QED
      BY <1>0, <1>2, <2>1, <2>2
  <2>5. /\ OldUpTo(b) \in Seq(Row) /\ Len(OldUpTo(b)) \in Nat /\ script[b + 1].row \in Row
    BY <2>3, UpToTyped, LenProperties, RowOfLine
  <2>6. Len(OldUpTo(b + 1)) = IF script[b + 1].op = "+" THEN Len(OldUpTo(b)) ELSE Len(OldUpTo(b)) + 1
    <3>1. OldUpTo(b + 1) = IF script[b + 1].op = "+" THEN OldUpTo(b) ELSE Append(OldUpTo(b), script[b + 1].row)
      BY <2>3, UpToStep
    <3>2. Len(Append(OldUpTo(b), script[b + 1].row)) = Len(OldUpTo(b)) + 1
      BY <2>5, AppendProperties
    <3>3. QED
      BY <3>1, <3>2
  <2>7. ASSUME NEW k \in Nat, low < k, k <= Len(OldUpTo(b + 1)) PROVE Found(b + 1, k)
    <3>1. CASE k <= Len(OldUpTo(b))
      <4>1. Found(b, k)
        BY <2>4, <2>7, <3>1
      <4>2. QED
        BY <2>3, <4>1
    <3>2. CASE ~(k <= Len(OldUpTo(b)))
      <4>1. script[b + 1].op # "+" /\ Len(OldUpTo(b + 1)) = k
        BY <2>5, <2>6, <2>7, <3>2
      <4>2. QED
        BY <2>3, <4>1
    <3>3. QED
      BY <3>1, <3>2
  <2>8. QED
    BY <2>3, <2>7
<1> HIDE DEF N, All
<1>3. Nat \subseteq N
  BY <1>1, <1>2, Induction
<1>4. ASSUME NEW b \in (a - 1)..Len(script) PROVE All(b)
  <2>1. PICK i \in Nat : (a - 1) + i = b
    <3>1. b - (a - 1) \in Nat /\ (a - 1) + (b - (a - 1)) = b
      BY <1>0
    <3>2. QED
      BY <3>1
  <2>2. i \in N
    BY <1>3
  <2>3. QED
    BY <1>0, <2>1, <2>2 DEF N
<1>5. QED
  BY <1>4 DEF All

\* The rows a text has at the places of the shown rows are those of the script.
Agrees(text, k, shown) ==
    \A m \in 1..k : m \in shown /\ script[m].op # "+" =>
        Len(OldUpTo(m)) <= Len(text) /\ text[Len(OldUpTo(m))] = script[m].row

LEMMA AgreesStands ==
    ASSUME script \in Seq(Line), NEW shown \in SUBSET (1..Len(script)), NEW i \in shown,
           NEW text, Agrees(text, Len(script), shown)
    PROVE  Stands(text, shown, i)
<1>0. Len(script) \in Nat /\ i \in 1..Len(script) /\ i \in Nat
  BY LenProperties
<1>1. PICK e \in i..Len(script) : Hunk(shown, i) = i..e
  BY HunkIs
<1>2. PICK a \in 0..Len(script) : a = i - 1
  BY <1>0
<1>3. a + 1 = i /\ e \in a..Len(script) /\ e \in 0..Len(script) /\ e \in (i - 1)..Len(script)
  BY <1>0, <1>2
<1> DEFINE r == RowsIn(i..e, {" ", "-"})
           o == OldUpTo(a)
           q == OldUpTo(e)
           all == OldUpTo(Len(script))
<1>4. OldRows(Hunk(shown, i)) = r /\ OldBefore(i) = Len(o)
  BY <1>1, <1>2 DEF OldRows, OldBefore, OldUpTo
<1>5. o \o r = q
  BY <1>3, RowsJoin DEF OldUpTo
<1>6. o \in Seq(Row) /\ r \in Seq(Row) /\ Len(o) \in Nat /\ Len(r) \in Nat
  BY UpToTyped, RowsTyped, LenProperties
<1>7. Len(q) \in Nat /\ Len(q) <= Len(all) /\ \A j \in 1..Len(q) : all[j] = q[j]
  BY <1>3, UpToBegins
<1>8. /\ OldText = Append(all, Blank) /\ all \in Seq(Row) /\ Len(all) \in Nat
      /\ \A m \in 1..Len(script) : script[m].op # "+" => OldText[Len(OldUpTo(m))] = script[m].row
  BY OldTextIs, UpToTyped
<1>9. \A j \in 1..Len(all) : OldText[j] = all[j]
  <2>1. Blank \in Row
    BY DEF Row
  <2> HIDE DEF all
  <2>2. QED
    BY <1>8, <2>1, AppendProperties
<1>10. ASSUME NEW k \in 1..Len(r)
       PROVE  Len(o) + k <= Len(text) /\ text[Len(o) + k] = r[k]
  <2>1. PICK j \in Nat : j = Len(o) + k
    <3> HIDE DEF o, r
    <3>1. QED
      BY <1>6
  <2>2. Len(q) = Len(o) + Len(r) /\ \A n \in 1..(Len(o) + Len(r)) : q[n] = IF n <= Len(o) THEN o[n] ELSE r[n - Len(o)]
    <3> HIDE DEF o, r, q
    <3>1. QED
      BY <1>5, <1>6, ConcatProperties
  <2>3. j \in 1..(Len(o) + Len(r)) /\ ~(j <= Len(o)) /\ j - Len(o) = k /\ Len(o) < j /\ j <= Len(q) /\ j \in 1..Len(q) /\ j \in 1..Len(all)
    <3> HIDE DEF o, r, q, all
    <3>1. QED
      BY <1>6, <1>7, <1>8, <2>1, <2>2
  <2>4. q[j] = r[k]
    <3> HIDE DEF o, r, q, all
    <3>1. QED
      BY <2>2, <2>3
  <2>5. PICK m \in i..e : script[m].op # "+" /\ Len(OldUpTo(m)) = j
    <3>1. Len(OldUpTo(i - 1)) < j /\ j <= Len(OldUpTo(e))
      BY <1>2, <2>3
    <3>2. \A b \in (i - 1)..Len(script) : \A x \in Nat :
              Len(OldUpTo(i - 1)) < x /\ x <= Len(OldUpTo(b)) =>
                  \E m \in i..b : script[m].op # "+" /\ Len(OldUpTo(m)) = x
      BY <1>0, Places
    <3>3. QED
      BY <1>3, <3>1, <3>2
  <2>6. m \in shown /\ m \in 1..Len(script)
    <3>1. i..e \subseteq shown
      BY <1>1 DEF Hunk
    <3>2. QED
      BY <1>0, <3>1
  <2>7. OldText[j] = script[m].row
    BY <1>8, <2>5, <2>6
  <2>8. OldText[j] = r[k]
    BY <1>7, <1>9, <2>3, <2>4
  <2>9. j <= Len(text) /\ text[j] = script[m].row
    BY <2>5, <2>6 DEF Agrees
  <2>10. QED
    BY <2>1, <2>7, <2>8, <2>9
<1>11. QED
  BY <1>4, <1>10 DEF Stands

\* What is printed in a diff.
Printed(shown) ==
    Line \cup {Header(shown, i) : i \in 1..Len(script)}
         \cup {[op |-> "-", row |-> [mark |-> "--", word |-> "p"]],
               [op |-> "+", row |-> [mark |-> "++", word |-> "p"]]}

LEMMA TwoAre ==
    ASSUME NEW T, NEW a \in T, NEW b \in T
    PROVE  Append(<<a>>, b) = <<a, b>>
<1> DEFINE t == Append(<<a>>, b)
           s == <<a, b>>
<1>1. t \in Seq(T) /\ Len(t) = 2 /\ t[1] = a /\ t[2] = b
  BY AppendProperties
<1>2. s \in [1..2 -> T] /\ s[1] = a /\ s[2] = b
  OBVIOUS
<1> HIDE DEF s, t
<1>3. t \in [1..2 -> T]
  BY <1>1, LenProperties
<1>4. \A i \in 1..2 : s[i] = t[i]
  BY <1>1, <1>2
<1>5. s = t
  BY <1>2, <1>3, <1>4
<1>6. QED
  BY <1>5 DEF s, t

LEMMA FilesSet ==
    ASSUME NEW a, NEW b, NEW c
    PROVE  [[files |-> a, malformed |-> b] EXCEPT !.files = c] = [files |-> c, malformed |-> b]
OBVIOUS

LEMMA DiffIs ==
    ASSUME script \in Seq(Line), NEW shown
    PROVE  \E f : /\ f[0] = FileHeader("p")
                  /\ \A n \in 1..Len(script) :
                        f[n] = IF n \notin shown THEN f[n - 1]
                               ELSE IF n - 1 \in shown THEN Append(f[n - 1], script[n])
                               ELSE Append(Append(f[n - 1], Header(shown, n)), script[n])
                  /\ \A n \in 0..Len(script) : f[n] \in Seq(Printed(shown))
                  /\ Diff("p", shown) = f[Len(script)]
<1> DEFINE m == Len(script)
           f == CHOOSE h : LinesUpTo(shown, m, h)
           T == Printed(shown)
<1>0. m \in Nat
  BY LenProperties
<1>1. Diff("p", shown) = f[m]
  BY DEF Diff, LinesUpTo
<1>2. LinesUpTo(shown, m, f)
  <2>1. \E h : LinesUpTo(shown, m, h)
    BY <1>0, LinesExist
  <2>2. QED
    BY <2>1
<1> HIDE DEF f
<1>3. \A n \in 0..m : f[n] = IF n = 0 THEN FileHeader("p")
                             ELSE IF n \notin shown THEN f[n - 1]
                             ELSE IF n - 1 \in shown THEN Append(f[n - 1], script[n])
                             ELSE Append(Append(f[n - 1], Header(shown, n)), script[n])
  <2> HIDE DEF m
  <2>1. QED
    BY <1>2, Zenon DEF LinesUpTo
<1>4. 0 \in 0..m /\ \A n \in 1..m : n \in 0..m /\ n # 0
  BY <1>0
<1>5. f[0] = FileHeader("p")
  BY <1>3, <1>4
<1>6. \A n \in 1..m : f[n] = IF n \notin shown THEN f[n - 1]
                             ELSE IF n - 1 \in shown THEN Append(f[n - 1], script[n])
                             ELSE Append(Append(f[n - 1], Header(shown, n)), script[n])
  BY <1>3, <1>4
<1>7. \A n \in 1..m : script[n] \in T /\ Header(shown, n) \in T
  BY ElementOfSeq DEF Printed
<1>8. FileHeader("p") \in Seq(T)
  <2> DEFINE a == [op |-> "-", row |-> [mark |-> "--", word |-> "p"]]
             b == [op |-> "+", row |-> [mark |-> "++", word |-> "p"]]
  <2>1. a \in T /\ b \in T
    BY DEF Printed
  <2>2. FileHeader("p") = <<a, b>>
    BY DEF FileHeader
  <2> HIDE DEF a, b, T
  <2>3. <<>> \in Seq(T) /\ Append(<<>>, a) = <<a>> /\ Append(<<a>>, b) = <<a, b>>
    <3>1. <<>> \in Seq(T)
      BY EmptySeq
    <3>2. Append(<<>>, a) = <<a>>
      OBVIOUS
    <3>3. Append(<<a>>, b) = <<a, b>>
      BY <2>1, TwoAre
    <3>4. QED
      BY <3>1, <3>2, <3>3
  <2>4. <<a>> \in Seq(T)
    BY <2>1, <2>3, AppendProperties
  <2>5. <<a, b>> \in Seq(T)
    BY <2>1, <2>3, <2>4, AppendProperties
  <2>6. QED
    BY <2>2, <2>5
<1> HIDE DEF T
<1> DEFINE N == {n \in Nat : n <= m => f[n] \in Seq(T)}
<1>9. 0 \in N
  BY <1>5, <1>8
<1>10. ASSUME NEW i \in Nat, i \in N PROVE i + 1 \in N
  <2>1. SUFFICES ASSUME i + 1 <= m PROVE f[i + 1] \in Seq(T)
    OBVIOUS
  <2>2. PICK n \in 1..m : n = i + 1 /\ n - 1 = i
    BY <1>0, <2>1
  <2>3. f[i] \in Seq(T)
    BY <1>0, <1>10, <2>1
  <2>4. script[n] \in T /\ Header(shown, n) \in T
    BY <1>7
  <2>5. Append(f[i], script[n]) \in Seq(T) /\ Append(f[i], Header(shown, n)) \in Seq(T)
    BY <2>3, <2>4, AppendProperties
  <2>6. Append(Append(f[i], Header(shown, n)), script[n]) \in Seq(T)
    BY <2>4, <2>5, AppendProperties
  <2>7. f[n] \in Seq(T)
    BY <1>6, <2>2, <2>3, <2>5, <2>6
  <2>8. QED
    BY <2>2, <2>7
<1> HIDE DEF N
<1>11. Nat \subseteq N
  BY <1>9, <1>10, Induction
<1>12. \A n \in 0..m : f[n] \in Seq(T)
  BY <1>0, <1>11 DEF N
<1>13. QED
  BY <1>1, <1>5, <1>6, <1>12 DEF m, T

\* One file and its hunks.
HunksOf(hs) == [files |-> <<[path |-> "p", hunks |-> hs]>>, malformed |-> FALSE]

LEMMA OneFile ==
    ASSUME NEW x, NEW y
    PROVE  LET one(z) == [files |-> <<z>>, malformed |-> FALSE] IN
           /\ one(x).files # <<>> /\ Len(one(x).files) = 1 /\ one(x).malformed = FALSE
           /\ LastFile(one(x)) = x /\ Head(one(x).files) = x /\ WithLast(one(x), y) = one(y)
<1> DEFINE p == [files |-> <<x>>, malformed |-> FALSE]
           q == [files |-> <<y>>, malformed |-> FALSE]
<1>1. p.files = <<x>> /\ p.malformed = FALSE
  OBVIOUS
<1>2. Len(<<x>>) = 1 /\ <<x>>[1] = x /\ <<x>> # <<>> /\ Head(<<x>>) = x
  OBVIOUS
<1>3. Front(<<x>>) = <<>>
  <2>1. 1 - 1 < 1
    OBVIOUS
  <2>2. SubSeq(<<x>>, 1, 1 - 1) = <<>>
    BY <2>1, SubSeqEmpty
  <2>3. QED
    BY <1>2, <2>2 DEF Front
<1>4. WithLast(p, y) = q
  <2> DEFINE a == <<x>>
             c == <<y>>
  <2>1. Append(<<>>, y) = c
    OBVIOUS
  <2>2. WithLast(p, y) = [p EXCEPT !.files = Append(Front(@), y)]
    BY DEF WithLast
  <2>3. [p EXCEPT !.files = Append(Front(@), y)] = [p EXCEPT !.files = c]
    BY <1>1, <1>3, <2>1
  <2>4. p = [files |-> a, malformed |-> FALSE] /\ q = [files |-> c, malformed |-> FALSE]
    OBVIOUS
  <2> HIDE DEF a, c, p, q
  <2>5. [[files |-> a, malformed |-> FALSE] EXCEPT !.files = c] = [files |-> c, malformed |-> FALSE]
    BY FilesSet
  <2>6. QED
    BY <2>2, <2>3, <2>4, <2>5
<1>5. LastFile(p) = x
  BY <1>1, <1>2 DEF LastFile
<1>6. QED
  BY <1>1, <1>2, <1>4, <1>5

LEMMA HunksOfIs ==
    ASSUME NEW hs
    PROVE  /\ HunksOf(hs).files # <<>> /\ LastFile(HunksOf(hs)) = [path |-> "p", hunks |-> hs]
           /\ HunksOf(hs).malformed = FALSE /\ Len(HunksOf(hs).files) = 1
           /\ Head(HunksOf(hs).files) = [path |-> "p", hunks |-> hs]
           /\ \A x : WithLast(HunksOf(hs), [path |-> "p", hunks |-> x]) = HunksOf(x)
<1> DEFINE F(x) == [path |-> "p", hunks |-> x]
<1>1. ASSUME NEW x PROVE WithLast(HunksOf(hs), F(x)) = HunksOf(x)
  <2>1. HunksOf(hs) = [files |-> <<F(hs)>>, malformed |-> FALSE] /\ HunksOf(x) = [files |-> <<F(x)>>, malformed |-> FALSE]
    BY DEF HunksOf
  <2> HIDE DEF F
  <2>2. WithLast([files |-> <<F(hs)>>, malformed |-> FALSE], F(x)) = [files |-> <<F(x)>>, malformed |-> FALSE]
    BY OneFile
  <2>3. QED
    BY <2>1, <2>2
<1>2. /\ HunksOf(hs).files # <<>> /\ LastFile(HunksOf(hs)) = F(hs)
      /\ HunksOf(hs).malformed = FALSE /\ Len(HunksOf(hs).files) = 1
      /\ Head(HunksOf(hs).files) = F(hs)
  <2>1. HunksOf(hs) = [files |-> <<F(hs)>>, malformed |-> FALSE]
    BY DEF HunksOf
  <2> HIDE DEF F
  <2>2. QED
    BY <2>1, OneFile
<1>3. QED
  BY <1>1, <1>2

NothingRead == [files |-> <<>>, malformed |-> FALSE]

LEMMA PathSet ==
    ASSUME NEW a, NEW b, NEW c
    PROVE  [[path |-> a, hunks |-> b] EXCEPT !.path = c] = [path |-> c, hunks |-> b]
OBVIOUS

\* The header of a file is read as a file without hunks.
LEMMA FileHeaderRead ==
    ReadAll(NothingRead, FileHeader("p")) = HunksOf(<<>>)
<1> DEFINE a == [op |-> "-", row |-> [mark |-> "--", word |-> "p"]]
           b == [op |-> "+", row |-> [mark |-> "++", word |-> "p"]]
           T == {a, b}
<1>1. a.op = "-" /\ a.row.mark = "--" /\ b.op = "+" /\ b.row.mark = "++" /\ b.row.word = "p"
  OBVIOUS
<1>2. FileHeader("p") = <<a, b>>
  BY DEF FileHeader
<1> HIDE DEF a, b
<1>3. a \in T /\ b \in T /\ <<>> \in Seq(T)
  BY EmptySeq
<1> HIDE DEF T
<1>4. Append(<<>>, a) = <<a>> /\ Append(<<>>, a) \in Seq(T)
  BY <1>3, AppendProperties
<1>5. FileHeader("p") = Append(Append(<<>>, a), b)
  BY <1>2, <1>3, <1>4, TwoAre
<1> DEFINE p == ReadRow(NothingRead, a)
           q == ReadRow(p, b)
<1>6. ReadAll(NothingRead, <<>>) = NothingRead
  BY ReadNone
<1>7. ReadAll(NothingRead, Append(<<>>, a)) = p
  <2>1. PICK e : e = <<>>
    OBVIOUS
  <2>2. e \in Seq(T) /\ ReadAll(NothingRead, e) = NothingRead
    BY <1>3, <1>6, <2>1
  <2>3. ReadAll(NothingRead, Append(e, a)) = ReadRow(ReadAll(NothingRead, e), a)
    BY <1>3, <2>2, ReadMore
  <2>4. QED
    BY <2>1, <2>2, <2>3
<1>8. ReadAll(NothingRead, Append(Append(<<>>, a), b)) = q
  <2>1. PICK e : e = Append(<<>>, a)
    OBVIOUS
  <2>2. e \in Seq(T) /\ ReadAll(NothingRead, e) = p
    BY <1>4, <1>7, <2>1
  <2>3. ReadAll(NothingRead, Append(e, b)) = ReadRow(ReadAll(NothingRead, e), b)
    BY <1>3, <2>2, ReadMore
  <2>4. QED
    BY <2>1, <2>2, <2>3
<1>9. p = [files |-> <<NoFile>>, malformed |-> FALSE]
  <2>1. p = [NothingRead EXCEPT !.files = Append(@, NoFile)]
    BY <1>1 DEF ReadRow, IsOldHeader, IsNewHeader
  <2>2. NothingRead.files = <<>> /\ Append(<<>>, NoFile) = <<NoFile>>
    BY DEF NothingRead
  <2>3. p = [NothingRead EXCEPT !.files = <<NoFile>>]
    BY <2>1, <2>2
  <2> DEFINE c == <<NoFile>>
             d == <<>>
  <2> HIDE DEF c, d
  <2>4. [[files |-> d, malformed |-> FALSE] EXCEPT !.files = c] = [files |-> c, malformed |-> FALSE]
    BY FilesSet
  <2>5. QED
    BY <2>3, <2>4 DEF NothingRead, c, d
<1> HIDE DEF p
<1>10. p.files # <<>> /\ LastFile(p) = NoFile
  <2> HIDE DEF NoFile
  <2>1. QED
    BY <1>9, OneFile
<1>11. q = WithLast(p, [LastFile(p) EXCEPT !.path = "p"])
  BY <1>1, <1>10 DEF ReadRow, IsOldHeader, IsNewHeader
<1>12. [LastFile(p) EXCEPT !.path = "p"] = [path |-> "p", hunks |-> <<>>]
  <2>1. [[path |-> "", hunks |-> <<>>] EXCEPT !.path = "p"] = [path |-> "p", hunks |-> <<>>]
    BY PathSet
  <2>2. QED
    BY <1>10, <2>1 DEF NoFile
<1>13. WithLast(p, [path |-> "p", hunks |-> <<>>]) = [files |-> <<[path |-> "p", hunks |-> <<>>]>>, malformed |-> FALSE]
  BY <1>9, OneFile
<1>14. q = HunksOf(<<>>)
  BY <1>11, <1>12, <1>13 DEF HunksOf
<1>15. QED
  BY <1>5, <1>8, <1>14

\* How a diff is read, row of the script by row.
LEMMA ReadingIs ==
    ASSUME script \in Seq(Line), NEW shown
    PROVE  \E g : /\ g[0] = HunksOf(<<>>)
                  /\ \A n \in 1..Len(script) :
                        g[n] = IF n \notin shown THEN g[n - 1]
                               ELSE IF n - 1 \in shown THEN ReadRow(g[n - 1], script[n])
                               ELSE ReadRow(ReadRow(g[n - 1], Header(shown, n)), script[n])
                  /\ parse_unified_diff(Diff("p", shown)) = g[Len(script)]
<1>1. PICK m \in Nat : m = Len(script)
  BY LenProperties
<1>2. PICK T : T = Printed(shown)
  OBVIOUS
<1>3. PICK f : /\ f[0] = FileHeader("p")
               /\ \A n \in 1..m :
                        f[n] = IF n \notin shown THEN f[n - 1]
                               ELSE IF n - 1 \in shown THEN Append(f[n - 1], script[n])
                               ELSE Append(Append(f[n - 1], Header(shown, n)), script[n])
               /\ \A n \in 0..m : f[n] \in Seq(T)
               /\ Diff("p", shown) = f[m]
  BY <1>1, <1>2, DiffIs
<1>4. \A n \in 1..m : script[n] \in T /\ Header(shown, n) \in T
  BY <1>1, <1>2, ElementOfSeq DEF Printed
<1> DEFINE R(s) == ReadAll(NothingRead, s)
           g == [n \in 0..m |-> R(f[n])]
<1>5. \A s \in Seq(T) : \A l \in T : R(Append(s, l)) = ReadRow(R(s), l)
  BY ReadMore
<1>6. R(FileHeader("p")) = HunksOf(<<>>) /\ R(f[m]) = parse_unified_diff(f[m])
  BY FileHeaderRead DEF parse_unified_diff, NothingRead, ReadAll
<1> HIDE DEF R
<1>7. g[0] = HunksOf(<<>>) /\ g[m] = R(f[m])
  BY <1>3, <1>6
<1>8. ASSUME NEW n \in 1..m
      PROVE  g[n] = IF n \notin shown THEN g[n - 1]
                    ELSE IF n - 1 \in shown THEN ReadRow(g[n - 1], script[n])
                    ELSE ReadRow(ReadRow(g[n - 1], Header(shown, n)), script[n])
  <2>1. PICK i \in 0..m : i = n - 1
    OBVIOUS
  <2>2. n \in 0..m /\ f[i] \in Seq(T) /\ script[n] \in T /\ Header(shown, n) \in T
    BY <1>3, <1>4
  <2>3. Append(f[i], Header(shown, n)) \in Seq(T)
    BY <2>2, AppendProperties
  <2>4. g[n] = R(f[n]) /\ g[i] = R(f[i])
    BY <2>2
  <2> HIDE DEF g
  <2>5. /\ R(Append(f[i], script[n])) = ReadRow(R(f[i]), script[n])
        /\ R(Append(f[i], Header(shown, n))) = ReadRow(R(f[i]), Header(shown, n))
        /\ R(Append(Append(f[i], Header(shown, n)), script[n])) = ReadRow(R(Append(f[i], Header(shown, n))), script[n])
    BY <1>5, <2>2, <2>3
  <2>6. f[n] = IF n \notin shown THEN f[i]
               ELSE IF i \in shown THEN Append(f[i], script[n])
               ELSE Append(Append(f[i], Header(shown, n)), script[n])
    BY <1>3, <2>1
  <2>7. QED
    BY <2>1, <2>4, <2>5, <2>6
<1> HIDE DEF g
<1>9. QED
  BY <1>1, <1>3, <1>6, <1>7, <1>8

HunkRead == [start : Int, rows : Seq(Line)]

LEMMA HunksSet ==
    ASSUME NEW a, NEW b, NEW c
    PROVE  [[path |-> a, hunks |-> b] EXCEPT !.hunks = c] = [path |-> a, hunks |-> c]
OBVIOUS

LEMMA EndIs ==
    ASSUME NEW T, NEW s \in Seq(T), s # <<>>
    PROVE  Front(s) \in Seq(T) /\ Last(s) \in T /\ s = Append(Front(s), Last(s))
<1> DEFINE n == Len(s)
           f == SubSeq(s, 1, n - 1)
<1>1. n \in Nat \ {0} /\ \A i \in 1..n : s[i] \in T
  BY EmptySeq, LenProperties, ElementOfSeq
<1>2. Front(s) = f /\ Last(s) = s[n] /\ s[n] \in T
  BY <1>1 DEF Front, Last
<1>3. f \in Seq(T) /\ Len(f) = n - 1 /\ \A i \in 1..(n - 1) : f[i] = s[i]
  <2>1. PICK m \in Nat : m = n - 1
    BY <1>1
  <2>2. 1 \in Int /\ m \in Int /\ \A i \in 1..m : s[i] \in T
    BY <1>1, <2>1
  <2>3. PICK r : r = SubSeq(s, 1, m)
    OBVIOUS
  <2>4. /\ r \in Seq(T) /\ Len(r) = IF 1 <= m THEN m - 1 + 1 ELSE 0
        /\ \A i \in 1..(m - 1 + 1) : r[i] = s[1 + i - 1]
    BY <2>2, <2>3, SubSeqProperties
  <2>5. m - 1 + 1 = m /\ \A i \in 1..m : 1 + i - 1 = i
    BY <2>1
  <2>6. r \in Seq(T) /\ Len(r) = m /\ \A i \in 1..m : r[i] = s[i]
    BY <2>1, <2>4, <2>5
  <2>7. QED
    BY <2>1, <2>3, <2>6
<1> DEFINE t == Append(f, s[n])
<1> HIDE DEF f
<1>4. t \in Seq(T) /\ Len(t) = n /\ \A i \in 1..n : t[i] = s[i]
  <2>1. t \in Seq(T) /\ Len(t) = (n - 1) + 1 /\ t[(n - 1) + 1] = s[n] /\ \A i \in 1..(n - 1) : t[i] = f[i]
    BY <1>2, <1>3, AppendProperties
  <2>2. \A i \in 1..n : i = n \/ i \in 1..(n - 1)
    BY <1>1
  <2>3. (n - 1) + 1 = n
    BY <1>1
  <2>4. QED
    BY <1>3, <2>1, <2>2, <2>3
<1>5. s = t
  BY <1>4, SeqEqual
<1>6. QED
  BY <1>2, <1>3, <1>5

\* The hunks with a row more in the last.
Longer(hs, l) == Append(Front(hs), [Last(hs) EXCEPT !.rows = Append(@, l)])

LEMMA HunkRowsSet ==
    ASSUME NEW h \in HunkRead, NEW l \in Line
    PROVE  LET g == [h EXCEPT !.rows = Append(@, l)] IN
           g \in HunkRead /\ g.start = h.start /\ g.rows = Append(h.rows, l)
<1>1. h.rows \in Seq(Line) /\ h.start \in Int
  BY DEF HunkRead
<1>2. Append(h.rows, l) \in Seq(Line)
  BY <1>1, AppendProperties
<1>3. QED
  BY <1>2 DEF HunkRead

LEMMA LongerIs ==
    ASSUME NEW hs \in Seq(HunkRead), hs # <<>>, NEW l \in Line
    PROVE  /\ Longer(hs, l) \in Seq(HunkRead) /\ Longer(hs, l) # <<>>
           /\ \A text : ApplyHunks(text, Longer(hs, l)) = ApplyRow(text, ApplyHunks(text, hs), l)
<1> DEFINE f == Front(hs)
           h == Last(hs)
           g == [h EXCEPT !.rows = Append(@, l)]
<1>1. f \in Seq(HunkRead) /\ h \in HunkRead /\ hs = Append(f, h)
  BY EndIs
<1>2. g \in HunkRead /\ g.start = h.start /\ g.rows = Append(h.rows, l)
  <2> HIDE DEF h
  <2>1. QED
    BY <1>1, HunkRowsSet
<1>3. Longer(hs, l) = Append(f, g)
  BY DEF Longer
<1>4. h.rows \in Seq(Line)
  BY <1>1 DEF HunkRead
<1> HIDE DEF f, g, h
<1>5. Append(f, g) \in Seq(HunkRead) /\ Len(Append(f, g)) # 0
  <2>1. Append(f, g) \in Seq(HunkRead) /\ Len(Append(f, g)) = Len(f) + 1
    BY <1>1, <1>2, AppendProperties
  <2>2. Len(f) \in Nat
    BY <1>1, LenProperties
  <2>3. QED
    BY <2>1, <2>2
<1>6. ASSUME NEW text
      PROVE  ApplyHunks(text, Append(f, g)) = ApplyRow(text, ApplyHunks(text, hs), l)
  <2> DEFINE A(x) == ApplyHunks(text, x)
             c == CopyUpTo(text, A(f), h.start)
  <2>0. \A y \in HunkRead : A(Append(f, y)) = ApplyHunk(text, A(f), y)
    BY <1>1, HunksMore
  <2>1. A(Append(f, h)) = ApplyHunk(text, A(f), h)
    BY <1>1, <2>0
  <2>2. A(Append(f, g)) = ApplyHunk(text, A(f), g)
    BY <1>2, <2>0
  <2>3. ApplyHunk(text, A(f), h) = ApplyRows(text, c, h.rows)
    BY DEF ApplyHunk
  <2>4. ApplyHunk(text, A(f), g) = ApplyRows(text, c, Append(h.rows, l))
    BY <1>2 DEF ApplyHunk
  <2> HIDE DEF A, c
  <2>5. ApplyRows(text, c, Append(h.rows, l)) = ApplyRow(text, ApplyRows(text, c, h.rows), l)
    BY <1>4, RowsMore
  <2>6. A(Append(f, g)) = ApplyRow(text, A(hs), l)
    BY <1>1, <2>1, <2>2, <2>3, <2>4, <2>5
  <2>7. QED
    BY <2>6 DEF A
<1>7. Append(f, g) # <<>>
  BY <1>5, EmptySeq
<1>8. QED
  BY <1>3, <1>5, <1>6, <1>7

\* The hunks with one more, of a single row.
LEMMA BegunIs ==
    ASSUME NEW hs \in Seq(HunkRead), NEW start \in Int, NEW l \in Line
    PROVE  LET x == Longer(Append(hs, [start |-> start, rows |-> <<>>]), l) IN
           /\ x \in Seq(HunkRead) /\ x # <<>>
           /\ Append(hs, [start |-> start, rows |-> <<>>]) # <<>>
           /\ \A text : ApplyHunks(text, x) =
                            ApplyRow(text, CopyUpTo(text, ApplyHunks(text, hs), start), l)
<1> DEFINE h == [start |-> start, rows |-> <<>>]
           q == Append(hs, h)
<1>1. h \in HunkRead /\ h.start = start /\ h.rows = <<>>
  BY EmptySeq DEF HunkRead
<1> HIDE DEF h
<1>2. q \in Seq(HunkRead) /\ q # <<>>
  <2>1. q \in Seq(HunkRead) /\ Len(q) = Len(hs) + 1
    BY <1>1, AppendProperties
  <2>2. Len(hs) \in Nat
    BY LenProperties
  <2> HIDE DEF q
  <2>3. Len(q) # 0
    BY <2>1, <2>2
  <2>4. QED
    BY <2>1, <2>3, EmptySeq
<1>3. ASSUME NEW text PROVE ApplyHunks(text, q) = CopyUpTo(text, ApplyHunks(text, hs), start)
  <2>1. ApplyHunks(text, q) = ApplyHunk(text, ApplyHunks(text, hs), h)
    BY <1>1, HunksMore
  <2>2. ApplyHunk(text, ApplyHunks(text, hs), h) = ApplyRows(text, CopyUpTo(text, ApplyHunks(text, hs), start), <<>>)
    BY <1>1 DEF ApplyHunk
  <2>3. QED
    BY <2>1, <2>2, RowsNoMore
<1> HIDE DEF q
<1>4. /\ Longer(q, l) \in Seq(HunkRead) /\ Longer(q, l) # <<>>
      /\ \A text : ApplyHunks(text, Longer(q, l)) = ApplyRow(text, ApplyHunks(text, q), l)
  BY <1>2, LongerIs
<1>5. QED
  BY <1>2, <1>3, <1>4 DEF q, h

\* What is read of one file, when a hunk is begun and when a row is added to it.
LEMMA HunkIsRead ==
    ASSUME NEW hs, NEW h, h.op = "@", parse_hunk_header(h)
    PROVE  ReadRow(HunksOf(hs), h) = HunksOf(Append(hs, [start |-> h.oldStart, rows |-> <<>>]))
<1> DEFINE p == HunksOf(hs)
           r == [start |-> h.oldStart, rows |-> <<>>]
<1>1. p.files # <<>> /\ LastFile(p) = [path |-> "p", hunks |-> hs] /\ r = ReadHunk(h)
  BY HunksOfIs DEF ReadHunk
<1> HIDE DEF p, r
<1>2. ReadRow(p, h) = WithLast(p, [LastFile(p) EXCEPT !.hunks = Append(@, r)])
  BY <1>1 DEF ReadRow
<1>3. [LastFile(p) EXCEPT !.hunks = Append(@, r)] = [path |-> "p", hunks |-> Append(hs, r)]
  <2>1. [[path |-> "p", hunks |-> hs] EXCEPT !.hunks = Append(hs, r)] = [path |-> "p", hunks |-> Append(hs, r)]
    BY HunksSet
  <2>2. QED
    BY <1>1, <2>1
<1>4. WithLast(p, [path |-> "p", hunks |-> Append(hs, r)]) = HunksOf(Append(hs, r))
  BY HunksOfIs DEF p
<1>5. QED
  BY <1>2, <1>3, <1>4 DEF p, r

LEMMA RowIsRead ==
    ASSUME NEW hs, hs # <<>>, NEW l \in Line, ~IsOldHeader(l), ~IsNewHeader(l)
    PROVE  ReadRow(HunksOf(hs), l) = HunksOf(Longer(hs, l))
<1> DEFINE p == HunksOf(hs)
           x == Longer(hs, l)
<1>1. p.files # <<>> /\ LastFile(p) = [path |-> "p", hunks |-> hs]
  BY HunksOfIs
<1>2. l.op # "@"
  BY DEF Line
<1> HIDE DEF p, x
<1>3. InHunk(p)
  BY <1>1 DEF InHunk
<1>4. ReadRow(p, l) = WithLast(p, Extended(LastFile(p), l))
  BY <1>2, <1>3 DEF ReadRow
<1>5. Extended(LastFile(p), l) = [path |-> "p", hunks |-> x]
  <2>1. [[path |-> "p", hunks |-> hs] EXCEPT !.hunks = x] = [path |-> "p", hunks |-> x]
    BY HunksSet
  <2>2. Extended(LastFile(p), l) = [LastFile(p) EXCEPT !.hunks = x]
    <3>1. PICK f : f = LastFile(p)
      OBVIOUS
    <3>2. f.hunks = hs
      BY <1>1, <3>1
    <3>3. Extended(f, l) = [f EXCEPT !.hunks = Append(Front(f.hunks), [Last(f.hunks) EXCEPT !.rows = Append(@, l)])]
      BY DEF Extended
    <3>4. QED
      BY <3>1, <3>2, <3>3 DEF x, Longer
  <2>3. QED
    BY <1>1, <2>1, <2>2
<1>6. WithLast(p, [path |-> "p", hunks |-> x]) = HunksOf(x)
  BY HunksOfIs DEF p
<1>7. QED
  BY <1>4, <1>5, <1>6 DEF p, x

PatchState == [at : Nat, out : Seq(Row), ok : BOOLEAN]

LEMMA UnreadIs == Unread \in PatchState /\ Unread.at = 0 /\ Unread.ok /\ Unread.out = <<>>
BY EmptySeq DEF Unread, PatchState

\* A row of a hunk.
LEMMA ApplyRowIs ==
    ASSUME NEW text, NEW s \in PatchState, NEW l \in Line
    PROVE  LET t == ApplyRow(text, s, l) IN
           /\ t \in PatchState /\ (t.ok => s.ok)
           /\ l.op = "+" => t.at = s.at /\ t.ok = s.ok /\ t.out = Append(s.out, l.row)
           /\ l.op # "+" /\ t.ok => Matches(text, s, l)
           /\ l.op # "+" /\ s.ok /\ Matches(text, s, l) =>
                  /\ t.ok /\ t.at = s.at + 1
                  /\ t.out = IF l.op = " " THEN Append(s.out, l.row) ELSE s.out
<1> DEFINE t == ApplyRow(text, s, l)
<1>1. s.at \in Nat /\ s.out \in Seq(Row) /\ s.ok \in BOOLEAN /\ l.row \in Row
  BY DEF PatchState, Line
<1>2. PICK longer : longer = Append(s.out, l.row)
  OBVIOUS
<1>3. longer \in Seq(Row)
  BY <1>1, <1>2, AppendProperties
<1>4. CASE l.op = "+"
  <2>1. t = [s EXCEPT !.out = longer]
    BY <1>2, <1>4 DEF ApplyRow
  <2> HIDE DEF t
  <2>2. t \in PatchState /\ t.at = s.at /\ t.ok = s.ok /\ t.out = longer
    BY <1>3, <2>1 DEF PatchState
  <2>3. QED
    BY <1>2, <1>4, <2>2 DEF t
<1>5. CASE l.op # "+" /\ (~s.ok \/ ~Matches(text, s, l))
  <2>1. t = [s EXCEPT !.ok = FALSE]
    BY <1>5 DEF ApplyRow
  <2> HIDE DEF t
  <2>2. t \in PatchState /\ ~t.ok
    BY <2>1 DEF PatchState
  <2>3. QED
    BY <1>5, <2>2 DEF t
<1>6. CASE l.op # "+" /\ s.ok /\ Matches(text, s, l)
  <2>1. PICK out : out = IF l.op = " " THEN longer ELSE s.out
    OBVIOUS
  <2>2. out \in Seq(Row)
    BY <1>1, <1>3, <2>1
  <2>3. t = [s EXCEPT !.at = s.at + 1, !.out = out]
    BY <1>2, <1>6, <2>1 DEF ApplyRow
  <2> HIDE DEF t
  <2>4. s.at + 1 \in Nat
    BY <1>1
  <2>5. t \in PatchState /\ t.at = s.at + 1 /\ t.out = out /\ t.ok = s.ok
    BY <2>2, <2>3, <2>4 DEF PatchState
  <2>6. QED
    BY <1>2, <1>6, <2>1, <2>5 DEF t
<1>7. QED
  BY <1>4, <1>5, <1>6

\* What is copied up to a hunk.
LEMMA CopyIs ==
    ASSUME NEW text \in Seq(Row), NEW s \in PatchState, NEW b \in Nat, s.at <= b, b < Len(text),
           NEW start \in Int, start = b + 1 \/ (b = 0 /\ start = 0)
    PROVE  LET u == CopyUpTo(text, s, start) IN
           /\ u \in PatchState /\ u.at = b /\ u.ok = s.ok
           /\ u.out = s.out \o SubSeq(text, s.at + 1, b)
<1>1. s.at \in Nat /\ s.out \in Seq(Row) /\ s.ok \in BOOLEAN /\ Len(text) \in Nat
  BY LenProperties DEF PatchState
<1>2. Max({start - 1, 0}) = b
  <2>1. b \in {start - 1, 0} /\ \A y \in {start - 1, 0} : b >= y
    OBVIOUS
  <2>2. QED
    BY <2>1 DEF Max
<1>3. Min({b, Len(text)}) = b
  BY <1>1 DEF Min
<1>4. Max({s.at, b}) = b
  <2>1. b \in {s.at, b} /\ \A y \in {s.at, b} : b >= y
    BY <1>1
  <2>2. QED
    BY <1>1, <2>1 DEF Max
<1>5. PICK out : out = s.out \o SubSeq(text, s.at + 1, b)
  OBVIOUS
<1>6. out \in Seq(Row)
  <2>1. SubSeq(text, s.at + 1, b) \in Seq(Row)
    <3>1. PICK a \in Int : a = s.at + 1
      BY <1>1
    <3>2. b \in Int /\ \A i \in a..b : text[i] \in Row
      BY <1>1, <3>1, ElementOfSeq
    <3>3. SubSeq(text, a, b) \in Seq(Row)
      BY <3>1, <3>2, SubSeqProperties
    <3>4. QED
      BY <3>1, <3>3
  <2>2. QED
    BY <1>1, <1>5, <2>1, ConcatProperties
<1> DEFINE u == CopyUpTo(text, s, start)
<1>7. u = [s EXCEPT !.at = b, !.out = out]
  BY <1>2, <1>3, <1>4, <1>5 DEF CopyUpTo
<1> HIDE DEF u
<1>8. u \in PatchState /\ u.at = b /\ u.ok = s.ok /\ u.out = out
  BY <1>6, <1>7 DEF PatchState
<1>9. QED
  BY <1>5, <1>8 DEF u

LEMMA CopyTyped ==
    ASSUME NEW text \in Seq(Row), NEW s \in PatchState, NEW start \in Int
    PROVE  LET u == CopyUpTo(text, s, start) IN u \in PatchState /\ u.ok = s.ok
<1>1. s.at \in Nat /\ s.out \in Seq(Row) /\ s.ok \in BOOLEAN /\ Len(text) \in Nat
  BY LenProperties DEF PatchState
<1>2. PICK high \in Nat : high = Max({start - 1, 0})
  <2>1. \E x \in {start - 1, 0} : x \in Nat /\ \A y \in {start - 1, 0} : x >= y
    <3>1. CASE start - 1 >= 0
      BY <3>1
    <3>2. CASE ~(start - 1 >= 0)
      BY <3>2
    <3>3. QED
      BY <3>1, <3>2
  <2>2. QED
    BY <2>1 DEF Max
<1>3. PICK target \in Nat : target = Min({high, Len(text)}) /\ target <= Len(text)
  <2>1. \E x \in {high, Len(text)} : x \in Nat /\ \A y \in {high, Len(text)} : x <= y
    BY <1>1
  <2>2. QED
    BY <1>1, <2>1 DEF Min
<1>4. PICK b \in Nat : b = Max({s.at, target}) /\ (b = s.at \/ b <= Len(text))
  <2>1. \E x \in {s.at, target} : x \in Nat /\ \A y \in {s.at, target} : x >= y
    BY <1>1
  <2>2. QED
    BY <1>1, <1>3, <2>1 DEF Max
<1>5. PICK a \in Int : a = s.at + 1
  BY <1>1
<1>6. PICK out : out = s.out \o SubSeq(text, a, b)
  OBVIOUS
<1>7. out \in Seq(Row)
  <2>1. b \in Int /\ \A i \in a..b : i \in 1..Len(text)
    <3>1. CASE b = s.at
      BY <1>5, <3>1
    <3>2. CASE b <= Len(text)
      BY <1>1, <1>5, <3>2
    <3>3. QED
      BY <1>4, <3>1, <3>2
  <2>2. \A i \in a..b : text[i] \in Row
    BY <2>1, ElementOfSeq
  <2>3. SubSeq(text, a, b) \in Seq(Row)
    BY <2>1, <2>2, SubSeqProperties
  <2>4. QED
    BY <1>1, <1>6, <2>3, ConcatProperties
<1> DEFINE u == CopyUpTo(text, s, start)
<1>8. u = [s EXCEPT !.at = b, !.out = out]
  BY <1>2, <1>3, <1>4, <1>5, <1>6 DEF CopyUpTo
<1> HIDE DEF u
<1>9. u \in PatchState /\ u.ok = s.ok
  BY <1>7, <1>8 DEF PatchState
<1>10. QED
  BY <1>9 DEF u

\* A hunk begins where the rows before it end.
LEMMA HeaderStarts ==
    ASSUME script \in Seq(Line), NEW shown \in Views, NEW k \in Nat, k + 1 \in Begins(shown)
    PROVE  LET b == Len(OldUpTo(k))
               start == Header(shown, k + 1).oldStart
           IN start \in Int /\ (start = b + 1 \/ (b = 0 /\ start = 0))
<1> DEFINE i == k + 1
           olds == Len(OldRows(Hunk(shown, i)))
<1>1. i - 1 = k /\ i \in shown
  BY DEF Begins
<1>2. OldBefore(i) = Len(OldUpTo(k)) /\ Len(OldUpTo(k)) \in Nat
  BY <1>1, UpToTyped, LenProperties DEF OldBefore, OldRows, OldUpTo
<1>3. Header(shown, i).oldStart = IF olds = 0 THEN Len(OldUpTo(k)) ELSE Len(OldUpTo(k)) + 1
  <2> HIDE DEF i
  <2>1. QED
    BY <1>2 DEF Header
<1>4. ASSUME olds = 0 PROVE Len(OldUpTo(k)) = 0
  <2>1. OldRows(Hunk(shown, i)) = <<>>
    <3>1. OldRows(Hunk(shown, i)) \in Seq(Row)
      BY RowsTyped DEF OldRows
    <3>2. QED
      BY <1>4, <3>1, EmptySeq
  <2>2. OldRows(DOMAIN script) = <<>>
    <3> HIDE DEF i
    <3>1. i \in Begins(shown)
      BY DEF i
    <3>2. QED
      BY <2>1, <3>1 DEF Views
  <2>3. OldUpTo(Len(script)) = <<>>
    BY <2>2, OldTextIs
  <2>4. k \in 0..Len(script)
    <3>1. shown \subseteq DOMAIN script /\ DOMAIN script = 1..Len(script) /\ Len(script) \in Nat
      BY LenProperties DEF Views
    <3>2. QED
      BY <1>1, <3>1
  <2>5. Len(OldUpTo(k)) <= Len(OldUpTo(Len(script)))
    BY <2>4, UpToBegins
  <2>6. Len(OldUpTo(Len(script))) = 0
    BY <2>3, EmptySeq
  <2>7. QED
    BY <1>2, <2>5, <2>6
<1> HIDE DEF olds
<1>5. QED
  BY <1>2, <1>3, <1>4

\* What a row of the script does to what has been reached in a text.
After(text, shown, k, s) ==
    IF k + 1 \notin shown THEN s
    ELSE IF k \in shown THEN ApplyRow(text, s, script[k + 1])
    ELSE ApplyRow(text, CopyUpTo(text, s, Header(shown, k + 1).oldStart), script[k + 1])

\* In any text: the place reached, and the rows found so far.
Reaches(text, shown, k, s) ==
    /\ s \in PatchState
    /\ s.ok => /\ s.at <= Len(OldUpTo(k))
               /\ k \in shown => s.at = Len(OldUpTo(k))
               /\ Agrees(text, k, shown)

\* In the old text: nothing is amiss, and what is out with what is copied later
\* are the rows of the new text so far.
Makes(k, s) ==
    /\ s.ok
    /\ s.out \o SubSeq(OldText, s.at + 1, Len(OldUpTo(k))) = NewUpTo(k)

LEMMA OldGrows ==
    ASSUME script \in Seq(Line), NEW k \in Nat, k + 1 <= Len(script)
    PROVE  /\ Len(OldUpTo(k)) \in Nat /\ Len(OldUpTo(k)) <= Len(OldUpTo(Len(script)))
           /\ Len(OldUpTo(k + 1)) = IF script[k + 1].op = "+" THEN Len(OldUpTo(k)) ELSE Len(OldUpTo(k)) + 1
           /\ script[k + 1] \in Line /\ script[k + 1].row \in Row
<1>1. k \in 0..Len(script) /\ k + 1 \in 1..Len(script)
  BY LenProperties
<1>2. OldUpTo(k) \in Seq(Row) /\ script[k + 1].row \in Row /\ script[k + 1] \in Line
  BY <1>1, UpToTyped, RowOfLine, ElementOfSeq
<1>3. Len(OldUpTo(k)) \in Nat /\ Len(OldUpTo(k)) <= Len(OldUpTo(Len(script)))
  BY <1>1, UpToBegins
<1>4. OldUpTo(k + 1) = IF script[k + 1].op = "+" THEN OldUpTo(k) ELSE Append(OldUpTo(k), script[k + 1].row)
  BY UpToStep
<1>5. Len(Append(OldUpTo(k), script[k + 1].row)) = Len(OldUpTo(k)) + 1
  BY <1>2, AppendProperties
<1>6. QED
  BY <1>2, <1>3, <1>4, <1>5

\* The state a shown row is applied to.
Before(text, shown, k, s) ==
    IF k \in shown THEN s ELSE CopyUpTo(text, s, Header(shown, k + 1).oldStart)

LEMMA BeforeIs ==
    ASSUME script \in Seq(Line), NEW shown \in Views, NEW k \in Nat, k + 1 <= Len(script),
           k + 1 \in shown, NEW text \in Seq(Row), Len(text) = Len(OldUpTo(Len(script))) + 1,
           NEW s, Reaches(text, shown, k, s), s.ok
    PROVE  LET u == Before(text, shown, k, s) IN
           /\ u \in PatchState /\ u.at = Len(OldUpTo(k)) /\ u.ok
           /\ u.out = s.out \o SubSeq(text, s.at + 1, Len(OldUpTo(k)))
<1>1. s \in PatchState /\ s.at <= Len(OldUpTo(k)) /\ (k \in shown => s.at = Len(OldUpTo(k)))
  BY DEF Reaches
<1>2. s.at \in Nat /\ s.out \in Seq(Row)
  BY <1>1 DEF PatchState
<1>3. CASE k \in shown
  <2>1. Before(text, shown, k, s) = s
    BY <1>3 DEF Before
  <2>2. PICK a \in Int : a = s.at + 1
    BY <1>2
  <2>3. PICK b \in Int : b = s.at
    BY <1>2
  <2>4. b < a
    BY <1>2, <2>2, <2>3
  <2>5. SubSeq(text, a, b) = <<>>
    BY <2>4, SubSeqEmpty
  <2>6. SubSeq(text, s.at + 1, Len(OldUpTo(k))) = <<>>
    BY <1>1, <1>3, <2>2, <2>3, <2>5
  <2>7. s.out \o SubSeq(text, s.at + 1, Len(OldUpTo(k))) = s.out
    BY <1>2, <2>6, ConcatEmptySeq
  <2>8. s.ok
    BY <1>1 DEF Reaches
  <2>9. QED
    BY <1>1, <1>3, <2>1, <2>7, <2>8
<1>4. CASE k \notin shown
  <2> DEFINE start == Header(shown, k + 1).oldStart
             b == Len(OldUpTo(k))
  <2>1. k + 1 \in Begins(shown)
    BY <1>4 DEF Begins
  <2>2. start \in Int /\ (start = b + 1 \/ (b = 0 /\ start = 0))
    BY <2>1, HeaderStarts
  <2>3. b \in Nat /\ b < Len(text)
    <3>1. b \in Nat /\ b <= Len(OldUpTo(Len(script)))
      BY OldGrows
    <3>2. Len(OldUpTo(Len(script))) \in Nat
      BY UpToTyped, LenProperties
    <3>3. QED
      BY <3>1, <3>2
  <2>4. Before(text, shown, k, s) = CopyUpTo(text, s, start)
    BY <1>4 DEF Before
  <2> HIDE DEF start, b
  <2>5. s.at <= b
    BY <1>1 DEF b
  <2> DEFINE u == CopyUpTo(text, s, start)
  <2>6. u \in PatchState /\ u.at = b /\ u.ok = s.ok /\ u.out = s.out \o SubSeq(text, s.at + 1, b)
    BY <1>1, <2>2, <2>3, <2>5, CopyIs
  <2>7. QED
    BY <2>4, <2>6 DEF b
<1>5. QED
  BY <1>3, <1>4

LEMMA AfterIs ==
    ASSUME NEW text, NEW shown, NEW k, NEW s, k + 1 \in shown
    PROVE  After(text, shown, k, s) = ApplyRow(text, Before(text, shown, k, s), script[k + 1])
BY DEF After, Before

\* A state in which something was amiss stays one.
LEMMA AmissStays ==
    ASSUME script \in Seq(Line), NEW shown \in Views, NEW k \in Nat, k + 1 <= Len(script),
           NEW text \in Seq(Row), NEW s \in PatchState, ~s.ok
    PROVE  After(text, shown, k, s) \in PatchState /\ ~After(text, shown, k, s).ok
<1> DEFINE u == Before(text, shown, k, s)
<1>1. script[k + 1] \in Line
  BY OldGrows
<1>2. CASE k + 1 \notin shown
  BY <1>2 DEF After
<1>3. CASE k + 1 \in shown
  <2>1. u \in PatchState /\ ~u.ok
    <3>1. CASE k \in shown
      BY <3>1 DEF Before
    <3>2. CASE k \notin shown
      <4> DEFINE c == CopyUpTo(text, s, Header(shown, k + 1).oldStart)
      <4>1. c \in PatchState /\ ~c.ok
        <5>1. k + 1 \in Begins(shown)
          BY <1>3, <3>2 DEF Begins
        <5>2. Header(shown, k + 1).oldStart \in Int
          BY <5>1, HeaderStarts
        <5>3. QED
          BY <5>2, CopyTyped
      <4>2. u = c
        BY <3>2 DEF Before
      <4>3. QED
        BY <4>1, <4>2
    <3>3. QED
      BY <3>1, <3>2
  <2>2. After(text, shown, k, s) = ApplyRow(text, u, script[k + 1])
    BY <1>3, AfterIs
  <2> HIDE DEF u
  <2> DEFINE t == ApplyRow(text, u, script[k + 1])
  <2>3. t \in PatchState /\ (t.ok => u.ok)
    BY <1>1, <2>1, ApplyRowIs
  <2> HIDE DEF t
  <2>4. t \in PatchState /\ ~t.ok
    BY <2>1, <2>3
  <2>5. QED
    BY <2>2, <2>4 DEF t
<1>4. QED
  BY <1>2, <1>3

LEMMA ReachesStep ==
    ASSUME script \in Seq(Line), NEW shown \in Views, NEW k \in Nat, k + 1 <= Len(script),
           NEW text \in Seq(Row), Len(text) = Len(OldUpTo(Len(script))) + 1,
           NEW s, Reaches(text, shown, k, s)
    PROVE  Reaches(text, shown, k + 1, After(text, shown, k, s))
<1> DEFINE t == After(text, shown, k, s)
           l == script[k + 1]
           a == Len(OldUpTo(k))
           b == Len(OldUpTo(k + 1))
<1>1. a \in Nat /\ b = (IF l.op = "+" THEN a ELSE a + 1) /\ l \in Line /\ l.row \in Row
  BY OldGrows
<1>2. s \in PatchState
  BY DEF Reaches
<1>3. CASE ~s.ok
  BY <1>2, <1>3, AmissStays DEF Reaches
<1>4. CASE s.ok /\ k + 1 \notin shown
  <2>1. t = s
    BY <1>4 DEF After
  <2>2. s.at <= a /\ Agrees(text, k, shown) /\ s.at \in Nat
    BY <1>2, <1>4 DEF Reaches, PatchState
  <2>3. s.at <= b
    BY <1>1, <2>2
  <2>4. Agrees(text, k + 1, shown)
    <3>1. \A m \in 1..(k + 1) : m \in shown => m \in 1..k
      BY <1>4
    <3>2. QED
      BY <2>2, <3>1 DEF Agrees
  <2> HIDE DEF t
  <2>5. QED
    BY <1>2, <1>4, <2>1, <2>3, <2>4 DEF Reaches, t
<1>5. CASE s.ok /\ k + 1 \in shown
  <2> DEFINE u == Before(text, shown, k, s)
  <2>1. u \in PatchState /\ u.at = a /\ u.ok
    BY <1>5, BeforeIs
  <2>2. t = ApplyRow(text, u, l)
    BY <1>5, AfterIs
  <2>3. Agrees(text, k, shown)
    BY <1>5 DEF Reaches
  <2> HIDE DEF u, t, a, l
  <2>4. /\ t \in PatchState
        /\ l.op = "+" => t.at = u.at
        /\ l.op # "+" /\ t.ok => Matches(text, u, l) /\ t.at = u.at + 1
    BY <1>1, <2>1, <2>2, ApplyRowIs
  <2>5. ASSUME t.ok PROVE t.at = b
    <3> HIDE DEF b
    <3>1. QED
      BY <1>1, <2>1, <2>4, <2>5
  <2>6. ASSUME t.ok, l.op # "+" PROVE b <= Len(text) /\ text[b] = l.row
    <3> HIDE DEF b
    <3>1. u.at < Len(text) /\ text[u.at + 1] = l.row
      BY <2>4, <2>6 DEF Matches
    <3>2. b = u.at + 1 /\ Len(text) \in Nat
      BY <1>1, <2>1, <2>6, LenProperties
    <3>3. QED
      BY <1>1, <2>1, <3>1, <3>2
  <2>7. ASSUME t.ok PROVE Agrees(text, k + 1, shown)
    <3> SUFFICES ASSUME NEW m \in 1..(k + 1), m \in shown /\ script[m].op # "+"
                 PROVE  Len(OldUpTo(m)) <= Len(text) /\ text[Len(OldUpTo(m))] = script[m].row
      BY DEF Agrees
    <3>1. CASE m = k + 1
      BY <2>6, <2>7, <3>1 DEF l
    <3>2. CASE m # k + 1
      <4>1. m \in 1..k
        BY <3>2
      <4>2. QED
        BY <2>3, <4>1 DEF Agrees
    <3>3. QED
      BY <3>1, <3>2
  <2>8. t.ok => t.at <= b
    BY <1>1, <2>5
  <2>9. QED
    BY <2>4, <2>5, <2>7, <2>8 DEF Reaches, t
<1>6. QED
  BY <1>3, <1>4, <1>5

LEMMA MakesStep ==
    ASSUME script \in Seq(Line), NEW shown \in Views, NEW k \in Nat, k + 1 <= Len(script),
           NEW s, Reaches(OldText, shown, k, s), Makes(k, s)
    PROVE  Makes(k + 1, After(OldText, shown, k, s))
<1> DEFINE T == OldText
           t == After(T, shown, k, s)
           l == script[k + 1]
           a == Len(OldUpTo(k))
           b == Len(OldUpTo(k + 1))
           w == NewUpTo(k)
<1>1. /\ a \in Nat /\ b = (IF l.op = "+" THEN a ELSE a + 1) /\ l \in Line /\ l.row \in Row
      /\ a <= Len(OldUpTo(Len(script)))
  BY OldGrows
<1>2. /\ T \in Seq(Row) /\ Len(T) = Len(OldUpTo(Len(script))) + 1 /\ Len(OldUpTo(Len(script))) \in Nat
      /\ l.op # "+" => T[b] = l.row
  <2>1. k + 1 \in 1..Len(script)
    BY LenProperties
  <2>2. QED
    BY <2>1, OldTextIs
<1>3. NewUpTo(k + 1) = IF l.op = "-" THEN w ELSE Append(w, l.row)
  BY UpToStep
<1>4. w \in Seq(Row)
  BY UpToTyped
<1>5. s \in PatchState /\ s.ok /\ s.at <= a /\ s.at \in Nat /\ s.out \in Seq(Row)
  BY DEF Reaches, Makes, PatchState
<1>6. s.out \o SubSeq(T, s.at + 1, a) = w
  BY DEF Makes
<1>7. k + 1 \in 1..Len(script)
  BY LenProperties
<1>8. CASE k + 1 \notin shown
  <2>1. l.op = " "
    <3>1. k + 1 \in DOMAIN script
      BY <1>7, LenProperties
    <3>2. QED
      BY <1>8, <3>1 DEF Views
  <2>2. t = s
    BY <1>8 DEF After
  <2>3. PICK i \in 1..Len(T) : i = s.at + 1
    BY <1>1, <1>2, <1>5
  <2> HIDE DEF T, a, b, w, l
  <2>4. b = a + 1 /\ b \in i..Len(T) /\ b - 1 = a
    <3>1. b = a + 1
      BY <1>1, <2>1
    <3>2. b \in i..Len(T)
      BY <1>1, <1>2, <1>5, <2>3, <3>1
    <3>3. QED
      BY <1>1, <3>1, <3>2
  <2>5. SubSeq(T, i, b) = SubSeq(T, i, b - 1) \o <<T[b]>>
    BY <1>2, <2>4, SubSeqRecursiveSecond
  <2> DEFINE q == SubSeq(T, i, a)
             r == <<l.row>>
  <2>6. SubSeq(T, i, b) = q \o r
    BY <1>2, <2>1, <2>4, <2>5
  <2>7. q \in Seq(Row) /\ r \in Seq(Row)
    <3>1. i \in Int /\ a \in Int /\ \A j \in i..a : j \in 1..Len(T)
      BY <1>1, <1>2, <2>3, <2>4
    <3>2. \A j \in i..a : T[j] \in Row
      BY <1>2, <3>1, ElementOfSeq
    <3>3. SubSeq(T, i, a) \in Seq(Row)
      BY <3>1, <3>2, SubSeqProperties
    <3>4. QED
      BY <1>1, <3>3
  <2> HIDE DEF q, r
  <2>8. s.out \o (q \o r) = (s.out \o q) \o r
    <3>1. PICK p \in Seq(Row) : p = s.out
      BY <1>5
    <3>2. (p \o q) \o r = p \o (q \o r)
      BY <2>7, ConcatAssociative
    <3>3. QED
      BY <3>1, <3>2
  <2>9. s.out \o q = w
    BY <1>6, <2>3 DEF q
  <2>10. Append(w, l.row) = w \o r
    BY <1>1, <1>4, AppendIsConcat DEF r
  <2>11. s.out \o SubSeq(T, i, b) = NewUpTo(k + 1)
    BY <1>3, <2>1, <2>6, <2>8, <2>9, <2>10
  <2>12. s.out \o SubSeq(T, s.at + 1, b) = NewUpTo(k + 1)
    BY <2>3, <2>11
  <2>13. QED
    BY <1>5, <2>2, <2>12 DEF Makes, T, b
<1>9. CASE k + 1 \in shown
  <2> DEFINE u == Before(T, shown, k, s)
  <2>1. u \in PatchState /\ u.at = a /\ u.ok /\ u.out = s.out \o SubSeq(T, s.at + 1, a)
    BY <1>2, <1>5, <1>9, BeforeIs
  <2>2. t = ApplyRow(T, u, l)
    BY <1>9, AfterIs
  <2> HIDE DEF u, t, T, a, b, w, l
  <2>3. u.out = w
    BY <1>6, <2>1
  <2>4. /\ t \in PatchState
        /\ l.op = "+" => t.at = u.at /\ t.ok = u.ok /\ t.out = Append(u.out, l.row)
        /\ l.op # "+" /\ Matches(T, u, l) =>
               t.ok /\ t.at = u.at + 1 /\ t.out = IF l.op = " " THEN Append(u.out, l.row) ELSE u.out
    BY <1>1, <2>1, <2>2, ApplyRowIs
  <2>5. l.op # "+" => Matches(T, u, l)
    <3> SUFFICES ASSUME l.op # "+" PROVE u.at < Len(T) /\ T[u.at + 1] = l.row
      BY DEF Matches
    <3>1. b = u.at + 1
      BY <1>1, <2>1
    <3>2. QED
      BY <1>1, <1>2, <2>1, <3>1
  <2>6. t.ok /\ t.at = b /\ t.out = NewUpTo(k + 1)
    <3>1. l.op \in {" ", "-", "+"}
      BY <1>1 DEF Line
    <3>2. CASE l.op = "+"
      BY <1>1, <1>3, <2>1, <2>3, <2>4, <3>2
    <3>3. CASE l.op = " "
      BY <1>1, <1>3, <2>1, <2>3, <2>4, <2>5, <3>3
    <3>4. CASE l.op = "-"
      BY <1>1, <1>3, <2>1, <2>3, <2>4, <2>5, <3>4
    <3>5. QED
      BY <3>1, <3>2, <3>3, <3>4
  <2>7. SubSeq(T, t.at + 1, b) = <<>>
    <3>1. b \in Int
      BY <1>1
    <3>2. b + 1 \in Int /\ b < b + 1
      BY <3>1
    <3>3. SubSeq(T, b + 1, b) = <<>>
      BY <3>1, <3>2, SubSeqEmpty
    <3>4. QED
      BY <2>6, <3>3
  <2>8. NewUpTo(k + 1) \in Seq(Row)
    BY UpToTyped
  <2>9. t.out \o SubSeq(T, t.at + 1, b) = NewUpTo(k + 1)
    BY <2>6, <2>7, <2>8, ConcatEmptySeq
  <2>10. QED
    BY <2>6, <2>9 DEF Makes, T, t, b
<1>10. QED
  BY <1>8, <1>9

\* A diff whose headers are read and whose rows are not taken for headers of files
\* is read as one file, and its hunks do to a text what the rows of the script do.
LEMMA ReadableIsRead ==
    ASSUME script \in Seq(Line), AddedPlainly, NEW shown \in Views, Readable(shown)
    PROVE  \E hs \in Seq(HunkRead) :
               /\ parse_unified_diff(Diff("p", shown)) = HunksOf(hs)
               /\ \A text \in Seq(Row) :
                      Len(text) = Len(OldText) => Reaches(text, shown, Len(script), ApplyHunks(text, hs))
               /\ Makes(Len(script), ApplyHunks(OldText, hs))
<1>0. PICK m \in Nat : m = Len(script)
  BY LenProperties
<1>1. shown \subseteq 1..m
  BY <1>0, LenProperties DEF Views
<1>2. PICK g : /\ g[0] = HunksOf(<<>>)
               /\ \A n \in 1..m :
                      g[n] = IF n \notin shown THEN g[n - 1]
                             ELSE IF n - 1 \in shown THEN ReadRow(g[n - 1], script[n])
                             ELSE ReadRow(ReadRow(g[n - 1], Header(shown, n)), script[n])
               /\ parse_unified_diff(Diff("p", shown)) = g[m]
  BY <1>0, ReadingIs
<1>3. OldText \in Seq(Row) /\ Len(OldText) = Len(OldUpTo(m)) + 1
  BY <1>0, OldTextIs
<1> DEFINE Good(n) == \E hs \in Seq(HunkRead) :
                          /\ g[n] = HunksOf(hs)
                          /\ n \in shown => hs # <<>>
                          /\ \A text \in Seq(Row) : Len(text) = Len(OldText) =>
                                 Reaches(text, shown, n, ApplyHunks(text, hs))
                          /\ Makes(n, ApplyHunks(OldText, hs))
           N == {n \in Nat : n <= m => Good(n)}
<1>4. Good(0)
  <2>1. <<>> \in Seq(HunkRead) /\ 0 \notin shown
    BY <1>1, EmptySeq
  <2>3. \A text : Reaches(text, shown, 0, Unread)
    <3>1. Len(OldUpTo(0)) = 0
      BY UpToNone, EmptySeq
    <3>2. QED
      BY <2>1, <3>1, UnreadIs DEF Reaches, Agrees
  <2>4. Makes(0, Unread)
    <3>1. Len(OldUpTo(0)) = 0 /\ NewUpTo(0) = <<>>
      BY UpToNone, EmptySeq
    <3>2. SubSeq(OldText, 1, 0) = <<>>
      BY SubSeqEmpty
    <3>3. <<>> \o <<>> = <<>>
      BY EmptySeq, ConcatEmptySeq
    <3>4. Unread.at + 1 = 1
      BY UnreadIs
    <3>5. QED
      BY <3>1, <3>2, <3>3, <3>4, UnreadIs DEF Makes
  <2>5. ASSUME NEW text PROVE Reaches(text, shown, 0, ApplyHunks(text, <<>>))
    <3>1. ApplyHunks(text, <<>>) = Unread
      BY HunksNone
    <3>2. Reaches(text, shown, 0, Unread)
      BY <2>3
    <3>3. QED
      BY <3>1, <3>2
  <2>6. Makes(0, ApplyHunks(OldText, <<>>))
    <3>1. ApplyHunks(OldText, <<>>) = Unread
      BY HunksNone
    <3>2. QED
      BY <2>4, <3>1
  <2>7. QED
    BY <1>2, <2>1, <2>5, <2>6
<1>5. ASSUME NEW k \in Nat, k + 1 <= m, Good(k) PROVE Good(k + 1)
  <2>1. PICK hs \in Seq(HunkRead) :
            /\ g[k] = HunksOf(hs)
            /\ k \in shown => hs # <<>>
            /\ \A text \in Seq(Row) : Len(text) = Len(OldText) =>
                   Reaches(text, shown, k, ApplyHunks(text, hs))
            /\ Makes(k, ApplyHunks(OldText, hs))
    BY <1>5
  <2>2. SUFFICES ASSUME NEW x \in Seq(HunkRead), g[k + 1] = HunksOf(x), k + 1 \in shown => x # <<>>,
                        \A text : ApplyHunks(text, x) = After(text, shown, k, ApplyHunks(text, hs))
                 PROVE  Good(k + 1)
    <3> HIDE DEF Good
    <3>1. PICK n \in 1..m : n = k + 1 /\ n - 1 = k
      BY <1>5
    <3>2. script[n] \in Line
      BY <1>0, ElementOfSeq
    <3>3. CASE n \notin shown
      <4>1. g[n] = HunksOf(hs)
        BY <1>2, <2>1, <3>1, <3>3
      <4>2. \A text : After(text, shown, k, ApplyHunks(text, hs)) = ApplyHunks(text, hs)
        BY <3>1, <3>3 DEF After
      <4>3. QED
        BY <2>2, <3>1, <3>3, <4>1, <4>2
    <3>4. ASSUME n \in shown PROVE ~IsOldHeader(script[n]) /\ ~IsNewHeader(script[n])
      <4>1. n \in DOMAIN script
        BY <1>0, LenProperties
      <4>2. QED
        BY <4>1 DEF Readable, AddedPlainly
    <3>5. CASE n \in shown /\ k \in shown
      <4> DEFINE x == Longer(hs, script[n])
      <4>1. /\ x \in Seq(HunkRead) /\ x # <<>>
            /\ \A text : ApplyHunks(text, x) = ApplyRow(text, ApplyHunks(text, hs), script[n])
        BY <2>1, <3>2, <3>5, LongerIs
      <4>2. g[n] = ReadRow(HunksOf(hs), script[n])
        BY <1>2, <2>1, <3>1, <3>5
      <4>3. ReadRow(HunksOf(hs), script[n]) = HunksOf(x)
        BY <2>1, <3>2, <3>4, <3>5, RowIsRead
      <4>4. \A text : After(text, shown, k, ApplyHunks(text, hs)) = ApplyRow(text, ApplyHunks(text, hs), script[n])
        BY <3>1, <3>5 DEF After
      <4> HIDE DEF x
      <4>5. QED
        BY <2>2, <3>1, <4>1, <4>2, <4>3, <4>4
    <3>6. CASE n \in shown /\ k \notin shown
      <4> DEFINE h == Header(shown, n)
                 q == Append(hs, [start |-> h.oldStart, rows |-> <<>>])
                 x == Longer(q, script[n])
      <4>1. n \in Begins(shown)
        BY <3>1, <3>6 DEF Begins
      <4>2. h.op = "@" /\ parse_hunk_header(h) /\ h.oldStart \in Int
        <5>1. h.op = "@"
          BY DEF Header
        <5>2. parse_hunk_header(h)
          BY <4>1 DEF Readable
        <5>3. h.oldStart \in Int
          BY <3>1, <4>1, HeaderStarts
        <5>4. QED
          BY <5>1, <5>2, <5>3
      <4> HIDE DEF h
      <4>3. /\ x \in Seq(HunkRead) /\ x # <<>> /\ q # <<>>
            /\ \A text : ApplyHunks(text, x) =
                             ApplyRow(text, CopyUpTo(text, ApplyHunks(text, hs), h.oldStart), script[n])
        BY <3>2, <4>2, BegunIs
      <4>4. g[n] = ReadRow(ReadRow(HunksOf(hs), h), script[n])
        BY <1>2, <2>1, <3>1, <3>6 DEF h
      <4>5. ReadRow(HunksOf(hs), h) = HunksOf(q)
        BY <4>2, HunkIsRead
      <4> HIDE DEF q
      <4>6. ReadRow(HunksOf(q), script[n]) = HunksOf(x)
        BY <3>2, <3>4, <3>6, <4>3, RowIsRead
      <4>7. \A text : After(text, shown, k, ApplyHunks(text, hs)) =
                          ApplyRow(text, CopyUpTo(text, ApplyHunks(text, hs), h.oldStart), script[n])
        BY <3>1, <3>6 DEF After, h
      <4> HIDE DEF x
      <4>8. QED
        BY <2>2, <3>1, <4>3, <4>4, <4>5, <4>6, <4>7
    <3>7. QED
      BY <3>3, <3>5, <3>6
  <2>3. k + 1 <= Len(script)
    BY <1>0, <1>5
  <2>4. ASSUME NEW text \in Seq(Row), Len(text) = Len(OldText)
        PROVE  Reaches(text, shown, k + 1, ApplyHunks(text, x))
    <3>1. Reaches(text, shown, k, ApplyHunks(text, hs))
      BY <2>1, <2>4
    <3>2. Len(text) = Len(OldUpTo(Len(script))) + 1
      BY <1>0, <1>3, <2>4
    <3>3. Reaches(text, shown, k + 1, After(text, shown, k, ApplyHunks(text, hs)))
      BY <2>3, <3>1, <3>2, ReachesStep
    <3>4. QED
      BY <2>2, <3>3
  <2>5. Makes(k + 1, ApplyHunks(OldText, x))
    <3>1. Reaches(OldText, shown, k, ApplyHunks(OldText, hs)) /\ Makes(k, ApplyHunks(OldText, hs))
      BY <1>3, <2>1
    <3>2. Makes(k + 1, After(OldText, shown, k, ApplyHunks(OldText, hs)))
      BY <2>3, <3>1, MakesStep
    <3>3. QED
      BY <2>2, <3>2
  <2>6. QED
    BY <2>2, <2>4, <2>5
<1> HIDE DEF Good
<1>6. 0 \in N
  BY <1>4
<1>7. ASSUME NEW k \in Nat, k \in N PROVE k + 1 \in N
  <2>1. SUFFICES ASSUME k + 1 <= m PROVE Good(k + 1)
    OBVIOUS
  <2>2. Good(k)
    BY <1>0, <1>7, <2>1
  <2>3. QED
    BY <1>5, <2>1, <2>2
<1> HIDE DEF N
<1>8. m \in N
  BY <1>0, <1>6, <1>7, Induction
<1>9. Good(m)
  BY <1>0, <1>8 DEF N
<1>10. QED
  BY <1>0, <1>2, <1>9 DEF Good

\* What has been read, whatever its files are.
Read(p) == \E S : p \in [files : Seq(S), malformed : BOOLEAN]

LEMMA LastSet ==
    ASSUME NEW p, Read(p), p.files # <<>>, NEW y
    PROVE  LET q == WithLast(p, y) IN
           Read(q) /\ Len(q.files) = Len(p.files) /\ q.malformed = p.malformed
<1>1. PICK S : p \in [files : Seq(S), malformed : BOOLEAN]
  BY DEF Read
<1>2. PICK R : R = S \cup {y}
  OBVIOUS
<1>3. p.files \in Seq(S) /\ p.malformed \in BOOLEAN
  BY <1>1
<1>4. PICK fs : fs = p.files
  OBVIOUS
<1> DEFINE f == Front(fs)
<1>5. f \in Seq(R) /\ Len(fs) = Len(f) + 1
  <2>1. f \in Seq(S) /\ Last(fs) \in S /\ fs = Append(f, Last(fs))
    BY <1>3, <1>4, EndIs
  <2>2. f \in Seq(R)
    BY <1>2, <2>1, SeqMonotonic
  <2> HIDE DEF f
  <2>3. Len(Append(f, Last(fs))) = Len(f) + 1
    BY <2>1, AppendProperties
  <2>4. QED
    BY <2>1, <2>2, <2>3
<1> HIDE DEF f
<1>6. y \in R
  BY <1>2
<1>7. PICK z : z = Append(f, y)
  OBVIOUS
<1>8. z \in Seq(R) /\ Len(z) = Len(fs)
  BY <1>5, <1>6, <1>7, AppendProperties
<1> DEFINE q == WithLast(p, y)
<1>9. q = [p EXCEPT !.files = z]
  BY <1>4, <1>7 DEF WithLast, f
<1> HIDE DEF q
<1>10. q \in [files : Seq(R), malformed : BOOLEAN] /\ q.files = z /\ q.malformed = p.malformed
  BY <1>1, <1>8, <1>9
<1>11. QED
  BY <1>4, <1>8, <1>10 DEF Read, q

\* A row read never undoes a malformed header or a file.
LEMMA ReadRowGrows ==
    ASSUME NEW p, Read(p), p.files # <<>>, NEW l
    PROVE  LET q == ReadRow(p, l) IN
           /\ Read(q) /\ q.files # <<>> /\ Len(q.files) \in Nat /\ Len(p.files) \in Nat
           /\ Len(q.files) >= Len(p.files)
           /\ p.malformed => q.malformed
           /\ l.op = "@" /\ ~parse_hunk_header(l) => q.malformed
           /\ IsOldHeader(l) => Len(q.files) >= Len(p.files) + 1
<1> DEFINE q == ReadRow(p, l)
           Grown(x) == Read(x) /\ Len(x.files) = Len(p.files) /\ x.malformed = p.malformed
<1>1. PICK S : p \in [files : Seq(S), malformed : BOOLEAN]
  BY DEF Read
<1>2. p.files \in Seq(S) /\ p.malformed \in BOOLEAN /\ Len(p.files) \in Nat \ {0}
  <2>1. p.files \in Seq(S) /\ p.malformed \in BOOLEAN
    BY <1>1
  <2>2. PICK fs \in Seq(S) : fs = p.files
    BY <2>1
  <2>3. Len(fs) \in Nat \ {0}
    BY <2>2, EmptySeq
  <2>4. QED
    BY <2>1, <2>2, <2>3
<1>3. ASSUME NEW x, Read(x), Len(x.files) \in Nat \ {0} PROVE x.files # <<>>
  BY <1>3, EmptySeq
<1>4. \A y : Grown(WithLast(p, y))
  BY LastSet
<1>5. CASE l.op = "@"
  <2>1. ~IsOldHeader(l)
    BY <1>5 DEF IsOldHeader
  <2>2. CASE parse_hunk_header(l)
    <3>1. \E y : q = WithLast(p, y)
      BY <1>5, <2>2 DEF ReadRow
    <3>2. Grown(q)
      BY <1>4, <3>1
    <3> HIDE DEF q
    <3>3. QED
      BY <1>2, <1>3, <2>1, <2>2, <3>2 DEF q
  <2>3. CASE ~parse_hunk_header(l)
    <3>1. q = [p EXCEPT !.malformed = TRUE]
      BY <1>5, <2>3 DEF ReadRow
    <3> HIDE DEF q
    <3>2. q \in [files : Seq(S), malformed : BOOLEAN] /\ q.files = p.files /\ q.malformed
      BY <1>1, <3>1
    <3>3. Read(q)
      BY <3>2 DEF Read
    <3>4. QED
      BY <1>2, <2>1, <3>2, <3>3 DEF q
  <2>4. QED
    BY <2>2, <2>3
<1>6. CASE l.op # "@" /\ IsOldHeader(l)
  <2>1. q = [p EXCEPT !.files = Append(p.files, NoFile)]
    BY <1>6 DEF ReadRow, IsOldHeader, IsNewHeader
  <2>2. PICK R : R = S \cup {NoFile}
    OBVIOUS
  <2>3. PICK fs \in Seq(R) : fs = p.files
    BY <1>2, <2>2, SeqMonotonic
  <2>4. PICK z : z = Append(fs, NoFile)
    OBVIOUS
  <2>5. z \in Seq(R) /\ Len(z) = Len(fs) + 1
    <3>1. NoFile \in R
      BY <2>2
    <3>2. QED
      BY <2>4, <3>1, AppendProperties
  <2> HIDE DEF q
  <2>6. q = [p EXCEPT !.files = z]
    BY <2>1, <2>3, <2>4
  <2>7. q \in [files : Seq(R), malformed : BOOLEAN] /\ q.files = z /\ q.malformed = p.malformed
    BY <1>1, <2>5, <2>6
  <2>8. Read(q) /\ Len(q.files) = Len(p.files) + 1
    BY <2>3, <2>5, <2>7 DEF Read
  <2>9. Len(q.files) \in Nat \ {0}
    BY <1>2, <2>8
  <2>10. QED
    BY <1>2, <1>3, <1>6, <2>7, <2>8, <2>9 DEF q
<1>7. CASE l.op # "@" /\ ~IsOldHeader(l)
  <2>1. q = p \/ \E y : q = WithLast(p, y)
    <3>1. CASE IsNewHeader(l)
      <4>1. q = WithLast(p, [LastFile(p) EXCEPT !.path = l.row.word])
        BY <1>7, <3>1 DEF ReadRow
      <4>2. QED
        BY <4>1
    <3>2. CASE ~IsNewHeader(l)
      <4>1. q = IF InHunk(p) THEN WithLast(p, Extended(LastFile(p), l)) ELSE p
        BY <1>7, <3>2 DEF ReadRow
      <4>2. QED
        BY <4>1
    <3>3. QED
      BY <3>1, <3>2
  <2>2. Grown(q)
    BY <1>4, <2>1
  <2> HIDE DEF q
  <2>3. QED
    BY <1>2, <1>3, <1>7, <2>2 DEF q
<1>8. QED
  BY <1>5, <1>6, <1>7

\* A diff that is not readable is refused.
LEMMA UnreadableIsRefused ==
    ASSUME script \in Seq(Line), NEW shown \in Views, ~Readable(shown), NEW text
    PROVE  Patched(Diff("p", shown), text) = Refused
<1>0. PICK m \in Nat : m = Len(script) /\ DOMAIN script = 1..m
  BY LenProperties
<1>1. shown \subseteq 1..m /\ \A i \in 1..m : script[i].op # " " => i \in shown
  BY <1>0 DEF Views
<1>2. PICK g : /\ g[0] = HunksOf(<<>>)
               /\ \A n \in 1..m :
                      g[n] = IF n \notin shown THEN g[n - 1]
                             ELSE IF n - 1 \in shown THEN ReadRow(g[n - 1], script[n])
                             ELSE ReadRow(ReadRow(g[n - 1], Header(shown, n)), script[n])
               /\ parse_unified_diff(Diff("p", shown)) = g[m]
  BY <1>0, ReadingIs
<1> DEFINE Bad(n) == n \in Begins(shown) /\ ~parse_hunk_header(Header(shown, n))
           Amiss(n, p) ==
               /\ Read(p) /\ p.files # <<>> /\ Len(p.files) \in Nat /\ Len(p.files) >= 1
               /\ (\E i \in 1..n : Bad(i)) => p.malformed
               /\ (\E i \in 1..n : IsOldHeader(script[i])) => Len(p.files) >= 2
           N == {n \in Nat : n <= m => Amiss(n, g[n])}
<1>3. 0 \in N
  <2>1. Read(g[0]) /\ g[0].files # <<>> /\ Len(g[0].files) = 1
    <3>1. HunksOf(<<>>).files # <<>> /\ Len(HunksOf(<<>>).files) = 1
      BY HunksOfIs
    <3>2. Read(HunksOf(<<>>))
      <4>1. PICK x : x = [path |-> "p", hunks |-> <<>>]
        OBVIOUS
      <4>2. HunksOf(<<>>) \in [files : Seq({x}), malformed : BOOLEAN]
        BY <4>1 DEF HunksOf
      <4>3. QED
        BY <4>2 DEF Read
    <3>3. QED
      BY <1>2, <3>1, <3>2
  <2>2. Amiss(0, g[0])
    BY <2>1
  <2> HIDE DEF Amiss
  <2>3. QED
    BY <2>2
<1>4. ASSUME NEW k \in Nat, k \in N PROVE k + 1 \in N
  <2>1. SUFFICES ASSUME k + 1 <= m PROVE Amiss(k + 1, g[k + 1])
    <3> HIDE DEF Amiss
    <3>1. QED
      BY <2>1
  <2>2. PICK n \in 1..m : n = k + 1 /\ n - 1 = k
    BY <1>0, <2>1
  <2>3. Amiss(k, g[k])
    <3> HIDE DEF Amiss
    <3>1. QED
      BY <1>0, <1>4, <2>1
  <2>4. \A i \in 1..n : i = n \/ i \in 1..k
    BY <2>2
  <2>5. IsOldHeader(script[n]) => n \in shown
    BY <1>1 DEF IsOldHeader
  <2>6. SUFFICES Amiss(n, g[n])
    BY <2>2
  <2> HIDE DEF Bad
  <2>7. CASE n \notin shown
    <3>1. g[n] = g[k] /\ ~Bad(n) /\ ~IsOldHeader(script[n])
      BY <1>2, <2>2, <2>5, <2>7 DEF Bad, Begins
    <3>2. QED
      BY <2>3, <2>4, <3>1
  <2>8. CASE n \in shown /\ k \in shown
    <3>1. g[n] = ReadRow(g[k], script[n])
      BY <1>2, <2>2, <2>8
    <3>2. ~Bad(n)
      BY <2>2, <2>8 DEF Bad, Begins
    <3> DEFINE q == ReadRow(g[k], script[n])
    <3>3. /\ Read(q) /\ q.files # <<>> /\ Len(q.files) \in Nat
          /\ Len(q.files) >= Len(g[k].files)
          /\ g[k].malformed => q.malformed
          /\ IsOldHeader(script[n]) => Len(q.files) >= Len(g[k].files) + 1
      BY <2>3, ReadRowGrows
    <3> HIDE DEF q
    <3>4. Amiss(n, q)
      BY <2>3, <2>4, <3>2, <3>3
    <3>5. QED
      BY <3>1, <3>4 DEF q
  <2>9. CASE n \in shown /\ k \notin shown
    <3> DEFINE h == Header(shown, n)
               p == ReadRow(g[k], h)
               q == ReadRow(p, script[n])
    <3>1. g[n] = q
      BY <1>2, <2>2, <2>9
    <3>2. Bad(n) => h.op = "@" /\ ~parse_hunk_header(h)
      BY DEF Bad, Header
    <3> HIDE DEF h
    <3>3. /\ Read(p) /\ p.files # <<>> /\ Len(p.files) \in Nat
          /\ Len(p.files) >= Len(g[k].files)
          /\ g[k].malformed => p.malformed
          /\ Bad(n) => p.malformed
      BY <2>3, <3>2, ReadRowGrows
    <3> HIDE DEF p
    <3>4. /\ Read(q) /\ q.files # <<>> /\ Len(q.files) \in Nat
          /\ Len(q.files) >= Len(p.files)
          /\ p.malformed => q.malformed
          /\ IsOldHeader(script[n]) => Len(q.files) >= Len(p.files) + 1
      BY <3>3, ReadRowGrows
    <3> HIDE DEF q
    <3>5. Amiss(n, q)
      BY <2>3, <2>4, <3>3, <3>4
    <3>6. QED
      BY <3>1, <3>5
  <2>10. QED
    BY <2>7, <2>8, <2>9
<1> HIDE DEF N
<1>5. m \in N
  BY <1>0, <1>3, <1>4, Induction
<1>6. Amiss(m, g[m])
  BY <1>0, <1>5 DEF N
<1>7. g[m].malformed \/ Len(g[m].files) # 1
  <2>1. CASE \E i \in Begins(shown) : ~parse_hunk_header(Header(shown, i))
    <3>1. PICK i \in Begins(shown) : ~parse_hunk_header(Header(shown, i))
      BY <2>1
    <3>2. i \in 1..m
      BY <1>1 DEF Begins
    <3>3. Bad(i)
      BY <3>1
    <3> HIDE DEF Bad
    <3>4. QED
      BY <1>6, <3>2, <3>3
  <2>2. CASE \E i \in DOMAIN script : IsOldHeader(script[i])
    <3>1. \E i \in 1..m : IsOldHeader(script[i])
      BY <1>0, <2>2
    <3> HIDE DEF Bad
    <3>2. Len(g[m].files) >= 2 /\ Len(g[m].files) \in Nat
      BY <1>6, <3>1
    <3>3. \A c \in Nat : c >= 2 => c # 1
      OBVIOUS
    <3>4. Len(g[m].files) # 1
      BY <3>2, <3>3
    <3>5. QED
      BY <3>4
  <2>3. QED
    BY <2>1, <2>2 DEF Readable
<1>8. QED
  BY <1>2, <1>7 DEF Patched

\* What a readable diff makes of the old text.
LEMMA ReadableIsExact ==
    ASSUME script \in Seq(Line), NEW shown, NEW s, Makes(Len(script), s),
           Reaches(OldText, shown, Len(script), s)
    PROVE  s.ok /\ s.out \o SubSeq(OldText, s.at + 1, Len(OldText)) = NewText
<1> DEFINE T == OldText
           a == Len(OldUpTo(Len(script)))
           w == NewUpTo(Len(script))
           r == <<Blank>>
<1>1. /\ T \in Seq(Row) /\ Len(T) = a + 1 /\ a \in Nat /\ T[a + 1] = Blank
      /\ NewText = Append(w, Blank)
  BY OldTextIs
<1>2. s.ok /\ s.at \in Nat /\ s.at <= a /\ s.out \in Seq(Row)
  BY DEF Makes, Reaches, PatchState
<1>3. s.out \o SubSeq(T, s.at + 1, a) = w
  BY DEF Makes
<1>4. w \in Seq(Row) /\ r \in Seq(Row)
  <2>1. Blank \in Row
    BY DEF Row
  <2>2. QED
    BY <2>1, UpToTyped
<1> HIDE DEF T, a, w, r
<1>5. PICK i \in 1..Len(T) : i = s.at + 1
  BY <1>1, <1>2
<1>6. PICK b \in i..Len(T) : b = a + 1 /\ b - 1 = a /\ b = Len(T)
  BY <1>1, <1>2, <1>5
<1>7. SubSeq(T, i, b) = SubSeq(T, i, b - 1) \o <<T[b]>>
  BY <1>1, SubSeqRecursiveSecond
<1> DEFINE q == SubSeq(T, i, a)
<1>8. SubSeq(T, i, b) = q \o r
  BY <1>1, <1>6, <1>7 DEF r
<1>9. q \in Seq(Row)
  <2>1. i \in Int /\ a \in Int /\ \A j \in i..a : j \in 1..Len(T)
    BY <1>1, <1>5
  <2>2. \A j \in i..a : T[j] \in Row
    BY <1>1, <2>1, ElementOfSeq
  <2>3. QED
    BY <2>1, <2>2, SubSeqProperties
<1> HIDE DEF q
<1>10. s.out \o (q \o r) = (s.out \o q) \o r
  <2>1. PICK p \in Seq(Row) : p = s.out
    BY <1>2
  <2>2. (p \o q) \o r = p \o (q \o r)
    BY <1>4, <1>9, ConcatAssociative
  <2>3. QED
    BY <2>1, <2>2
<1>11. s.out \o q = w
  BY <1>3, <1>5 DEF q
<1>12. Append(w, Blank) = w \o r
  <2>1. Blank \in Row
    BY DEF Row
  <2>2. QED
    BY <1>4, <2>1, AppendIsConcat DEF r
<1>13. s.out \o SubSeq(T, i, b) = NewText
  BY <1>1, <1>8, <1>10, <1>11, <1>12
<1>14. s.out \o SubSeq(T, s.at + 1, Len(T)) = NewText
  BY <1>5, <1>6, <1>13
<1>15. QED
  BY <1>2, <1>14 DEF T

LEMMA PatchedIs ==
    ASSUME NEW diff, NEW hs, parse_unified_diff(diff) = HunksOf(hs), NEW text
    PROVE  LET s == ApplyHunks(text, hs) IN
           Patched(diff, text) =
               IF s.ok THEN [path |-> "p", rows |-> s.out \o SubSeq(text, s.at + 1, Len(text))]
               ELSE Refused
<1> DEFINE p == HunksOf(hs)
           file == [path |-> "p", hunks |-> hs]
           s == ApplyHunks(text, hs)
           rows == s.out \o SubSeq(text, s.at + 1, Len(text))
           r == apply_file_patch_to_text(text, file)
<1>1. p.malformed = FALSE /\ Len(p.files) = 1 /\ Head(p.files) = file
  BY HunksOfIs
<1>2. file.path = "p" /\ file.hunks = hs
  OBVIOUS
<1> HIDE DEF p, file
<1>3. r = [ok |-> s.ok, rows |-> rows]
  BY <1>2 DEF apply_file_patch_to_text
<1> HIDE DEF s, rows, r
<1>4. (r.ok <=> s.ok) /\ r.rows = rows
  BY <1>3
<1>5. parse_unified_diff(diff) = p
  BY DEF p
<1>6. Patched(diff, text) = IF r.ok THEN [path |-> "p", rows |-> r.rows] ELSE Refused
  BY <1>1, <1>2, <1>5 DEF Patched, r
<1>7. QED
  BY <1>4, <1>6 DEF s, rows

LEMMA PatchIsExactHolds ==
    ASSUME script \in Seq(Line)
    PROVE  PatchIsExact
<1> SUFFICES ASSUME AddedPlainly, NEW shown \in Views
             PROVE  LET diff == Diff("p", shown)
                    IN /\ Patched(diff, OldText) =
                            IF Readable(shown) THEN [path |-> "p", rows |-> NewText] ELSE Refused
                       /\ \A i \in DOMAIN OldText : \A row \in Row :
                            LET text == [OldText EXCEPT ![i] = row]
                            IN Patched(diff, text) # Refused =>
                                   \A h \in Begins(shown) : Stands(text, shown, h)
  BY DEF PatchIsExact
<1> DEFINE diff == Diff("p", shown)
<1>1. CASE ~Readable(shown)
  <2>1. \A text : Patched(diff, text) = Refused
    BY <1>1, UnreadableIsRefused
  <2>2. QED
    BY <1>1, <2>1
<1>2. CASE Readable(shown)
  <2>1. PICK hs \in Seq(HunkRead) :
               /\ parse_unified_diff(diff) = HunksOf(hs)
               /\ \A text \in Seq(Row) :
                      Len(text) = Len(OldText) => Reaches(text, shown, Len(script), ApplyHunks(text, hs))
               /\ Makes(Len(script), ApplyHunks(OldText, hs))
    BY <1>2, ReadableIsRead
  <2>2. OldText \in Seq(Row) /\ DOMAIN OldText = 1..Len(OldText)
    BY OldTextIs, LenProperties
  <2> HIDE DEF diff
  <2>3. Patched(diff, OldText) = [path |-> "p", rows |-> NewText]
    <3> DEFINE s == ApplyHunks(OldText, hs)
    <3>1. Reaches(OldText, shown, Len(script), s) /\ Makes(Len(script), s)
      BY <2>1, <2>2
    <3>2. Patched(diff, OldText) =
              IF s.ok THEN [path |-> "p", rows |-> s.out \o SubSeq(OldText, s.at + 1, Len(OldText))] ELSE Refused
      BY <2>1, PatchedIs
    <3> HIDE DEF s
    <3>3. s.ok /\ s.out \o SubSeq(OldText, s.at + 1, Len(OldText)) = NewText
      BY <3>1, ReadableIsExact
    <3>4. QED
      BY <3>2, <3>3
  <2>4. ASSUME NEW i \in DOMAIN OldText, NEW row \in Row,
               Patched(diff, [OldText EXCEPT ![i] = row]) # Refused, NEW h \in Begins(shown)
        PROVE  Stands([OldText EXCEPT ![i] = row], shown, h)
    <3> DEFINE text == [OldText EXCEPT ![i] = row]
               s == ApplyHunks(text, hs)
    <3>1. text \in Seq(Row) /\ Len(text) = Len(OldText)
      BY <2>2, ExceptSeq
    <3> HIDE DEF text
    <3>2. Reaches(text, shown, Len(script), s)
      BY <2>1, <3>1
    <3>3. Patched(diff, text) =
              IF s.ok THEN [path |-> "p", rows |-> s.out \o SubSeq(text, s.at + 1, Len(text))] ELSE Refused
      BY <2>1, PatchedIs
    <3> HIDE DEF s
    <3>4. s.ok
      BY <2>4, <3>3 DEF text
    <3>5. Agrees(text, Len(script), shown)
      BY <3>2, <3>4 DEF Reaches
    <3>6. shown \in SUBSET (1..Len(script)) /\ h \in shown
      BY LenProperties DEF Views, Begins
    <3>7. Stands(text, shown, h)
      BY <3>5, <3>6, AgreesStands
    <3>8. QED
      BY <3>7 DEF text
  <2>5. QED
    BY <1>2, <2>3, <2>4 DEF diff
<1>3. QED
  BY <1>1, <1>2

Scripted == script \in Seq(Line)

(* A diff between any two texts, with any of the rows that are the same left  *)
(* out, turns the first into the second, or is refused where it cannot be     *)
(* read; the first text with any row changed is only patched where all that   *)
(* the diff shows of it still stands (parse_unified_diff and                  *)
(* apply_file_patch_to_text).                                                 *)
THEOREM PatchesAreExact == DiffSpec => []PatchIsExact
<1>1. DiffInit => Scripted
  BY EmptySeq DEF DiffInit, Scripted
<1>2. Scripted /\ [WriteRow]_script => Scripted'
  <2>1. SUFFICES ASSUME Scripted, [WriteRow]_script PROVE Scripted'
    OBVIOUS
  <2>2. CASE WriteRow
    <3>1. PICK op \in {" ", "-", "+"}, row \in Row : script' = Append(script, [op |-> op, row |-> row])
      BY <2>2 DEF WriteRow
    <3>2. PICK l \in Line : l = [op |-> op, row |-> row]
      BY DEF Line
    <3>3. script \in Seq(Line) /\ script' = Append(script, l)
      BY <2>1, <3>1, <3>2 DEF Scripted
    <3>4. script' \in Seq(Line)
      BY <3>3, AppendProperties
    <3>5. QED
      BY <3>4 DEF Scripted
  <2>3. CASE UNCHANGED script
    BY <2>1, <2>3 DEF Scripted
  <2>4. QED
    BY <2>1, <2>2, <2>3
<1>3. Scripted => PatchIsExact
  BY PatchIsExactHolds DEF Scripted
<1>4. QED
  BY <1>1, <1>2, <1>3, PTL DEF DiffSpec
=============================================================================
