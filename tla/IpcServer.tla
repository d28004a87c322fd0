------------------------------ MODULE IpcServer ------------------------------
(***************************************************************************)
(* The control socket of the IDE (src/core/Ipc).  A client thread admits a *)
(* request, leaves it in the one slot of its service and sleeps until the  *)
(* main thread, which looks at the six slots in a fixed order every frame, *)
(* has worked on it, or until it has waited long enough.                   *)
(*                                                                         *)
(* The six slots follow three protocols:                                   *)
(*  - workspace, document: a client that gives up leaves its slot taken    *)
(*    while the main thread works on the request ("abandoned");            *)
(*  - presentation, typing: a generation counter tells the main thread     *)
(*    whether the slot still holds the request it worked on;               *)
(*  - open, edit: neither.                                                 *)
(*                                                                         *)
(* A request is a number; what it asks for is left out.  The generation    *)
(* counters go up with each request, so a slot remembers the request it    *)
(* holds ("owner") in place of the counter.                                *)
(***************************************************************************)
EXTENDS Naturals, Sequences

CONSTANTS
    Clients,        \* client threads
    Kinds,          \* services that clients use
    MaxRequests,    \* bound on the requests admitted
    MaxGeneration   \* bound on the workspace generation

PumpOrder == <<"workspace", "document", "presentation", "typing", "open", "edit">>

Services == {"workspace", "document", "presentation", "typing", "open", "edit"}

ASSUME KindsAssumption == Kinds \subseteq Services
ASSUME BoundsAssumption == MaxRequests \in Nat /\ MaxGeneration \in Nat \ {0}

Retaining == {"workspace", "document"}
Numbered == {"presentation", "typing"}
Plain == {"open", "edit"}

VARIABLES
    running,     \* g_server.running
    generation,  \* the workspace generation; each has a project root of its own
    slot,        \* the state of each service
    client,      \* where each client thread is
    main,        \* where the main thread is in ide_ipc_pump
    request      \* what became of each request (no program variable)

vars == <<running, generation, slot, client, main, request>>

Requests == 1..MaxRequests

Slot == [inflight : BOOLEAN, pending : BOOLEAN, completed : BOOLEAN, success : BOOLEAN,
         executing : BOOLEAN, abandoned : BOOLEAN, started : BOOLEAN,
         owner : 0..MaxRequests,       \* the request last posted
         args : 0..MaxRequests,        \* the request whose arguments are in memory
         expect : 0..MaxGeneration]    \* the generation it may be worked on in

EmptySlot == [inflight |-> FALSE, pending |-> FALSE, completed |-> FALSE, success |-> FALSE,
              executing |-> FALSE, abandoned |-> FALSE, started |-> FALSE,
              owner |-> 0, args |-> 0, expect |-> 0]

Client == [at : {"idle", "admitted", "waiting"}, kind : Services, id : 0..MaxRequests]

IdleClient == [at |-> "idle", kind |-> "workspace", id |-> 0]

Main == [turn : 1..Len(PumpOrder), busy : BOOLEAN, id : 0..MaxRequests,
         begin : BOOLEAN, expect : 0..MaxGeneration]

\* The main thread about to look at slot t, with nothing in hand.
PumpingFrom(t) == [turn |-> t, busy |-> FALSE, id |-> 0, begin |-> FALSE, expect |-> 0]

\* bound is the generation the client named; the rest is what happened to it.
Request == [kind : Services, bound : 0..MaxGeneration, ranIn : 0..MaxGeneration,
            work : {"none", "ok", "failed"}, reply : {"none", "ok", "failed"}, runs : 0..2]

NoRequest == [kind |-> "workspace", bound |-> 0, ranIn |-> 0,
              work |-> "none", reply |-> "none", runs |-> 0]

TypeOK ==
    /\ running \in BOOLEAN
    /\ generation \in 1..MaxGeneration
    /\ slot \in [Services -> Slot]
    /\ client \in [Clients -> Client]
    /\ main \in Main
    /\ request \in [Requests -> Request]

Init ==
    /\ running = TRUE
    /\ generation = 1
    /\ slot = [k \in Services |-> EmptySlot]
    /\ client = [c \in Clients |-> IdleClient]
    /\ main = PumpingFrom(1)
    /\ request = [r \in Requests |-> NoRequest]

-----------------------------------------------------------------------------
(* Client threads *)

\* The lock every request holds from its admission to its answer: shared, but
\* exclusive for a request to change the workspace.
MayEnter(k) ==
    \A d \in Clients : client[d].at = "idle" \/ (k # "workspace" /\ client[d].kind # "workspace")

Fresh(r) == request[r].bound = 0 /\ \A s \in 1..(r - 1) : request[s].bound # 0

\* A request that names the present workspace generation is let in.  One that
\* is refused (lock, token, generation) changes nothing.
Admit(c, k) ==
    /\ client[c].at = "idle"
    /\ running
    /\ MayEnter(k)
    /\ \E r \in Requests :
        /\ Fresh(r)
        /\ client' = [client EXCEPT ![c] = [at |-> "admitted", kind |-> k, id |-> r]]
        /\ request' = [request EXCEPT ![r].kind = k, ![r].bound = generation]
    /\ UNCHANGED <<running, generation, slot, main>>

Told(c, o) ==
    /\ client' = [client EXCEPT ![c] = IdleClient]
    /\ request' = [request EXCEPT ![client[c].id].reply = o]

\* Mutant of Posted: a change of workspace is bound to the generation it finds.
PostedUnbound(c, k) ==
    [EmptySlot EXCEPT !.inflight = TRUE, !.pending = TRUE, !.owner = client[c].id,
                      !.args = client[c].id, !.expect = generation]

\* The slot after a request is left in it.  A change of workspace is bound to
\* the generation its client named, a document operation to the present one.
Posted(c, k) ==
    [inflight |-> TRUE, pending |-> TRUE, completed |-> FALSE, success |-> FALSE,
     executing |-> FALSE, abandoned |-> FALSE, started |-> FALSE,
     owner |-> client[c].id, args |-> client[c].id,
     expect |-> IF k = "workspace" THEN request[client[c].id].bound ELSE generation]

Post(c) ==
    LET k == client[c].kind IN
    /\ client[c].at = "admitted"
    /\ IF slot[k].inflight
       THEN Told(c, "failed") /\ UNCHANGED slot
       ELSE /\ slot' = [slot EXCEPT ![k] = Posted(c, k)]
            /\ client' = [client EXCEPT ![c].at = "waiting"]
            /\ UNCHANGED request
    /\ UNCHANGED <<running, generation, main>>

\* The slot after its client took the answer out of it.
Released(k) ==
    [slot[k] EXCEPT !.inflight = FALSE, !.args = IF k = "typing" THEN 0 ELSE @]

\* The wait of open and edit also ends when the server stops.
TakeAnswer(c) ==
    LET k == client[c].kind IN
    /\ client[c].at = "waiting"
    /\ slot[k].completed \/ (k \in Plain /\ ~running)
    /\ slot' = [slot EXCEPT ![k] = Released(k)]
    /\ Told(c, IF slot[k].success THEN "ok" ELSE "failed")
    /\ UNCHANGED <<running, generation, main>>

\* Mutant of GivenUp: the slot of a request that is being worked on is freed.
GivenUpAtOnce(k) ==
    IF k \in Plain
    THEN [slot[k] EXCEPT !.pending = FALSE, !.inflight = FALSE, !.completed = TRUE, !.success = FALSE]
    ELSE [slot[k] EXCEPT !.pending = FALSE, !.inflight = FALSE, !.abandoned = TRUE]

\* The slot after its client gave up.
GivenUp(k) ==
    CASE k \in Retaining ->
            [slot[k] EXCEPT !.pending = FALSE, !.abandoned = TRUE,
                            !.inflight = slot[k].executing,
                            !.args = IF slot[k].executing THEN @ ELSE 0]
      [] k \in Numbered -> [slot[k] EXCEPT !.pending = FALSE, !.inflight = FALSE]
      [] k \in Plain -> [slot[k] EXCEPT !.pending = FALSE, !.inflight = FALSE,
                                        !.completed = TRUE, !.success = FALSE]

\* The wait may run out at any moment, between the completion of the request
\* and the wake-up too.
Timeout(c) ==
    LET k == client[c].kind IN
    /\ client[c].at = "waiting"
    /\ slot' = [slot EXCEPT ![k] = GivenUp(k)]
    /\ Told(c, "failed")
    /\ UNCHANGED <<running, generation, main>>

-----------------------------------------------------------------------------
(* The main thread *)

Turn(k) == running /\ PumpOrder[main.turn] = k

NextTurn == IF main.turn = Len(PumpOrder) THEN 1 ELSE main.turn + 1

Wanted(k) == slot[k].pending /\ slot[k].inflight

PassOver(k) ==
    /\ Turn(k)
    /\ ~main.busy
    /\ ~Wanted(k)
    /\ main' = PumpingFrom(NextTurn)
    /\ UNCHANGED <<running, generation, slot, client, request>>

\* A typing request stays pending: its handler is called once per frame.
Take(k) ==
    /\ Turn(k)
    /\ ~main.busy
    /\ Wanted(k)
    /\ main' = [main EXCEPT !.busy = TRUE, !.id = slot[k].owner,
                            !.begin = ~slot[k].started, !.expect = slot[k].expect]
    /\ slot' = [slot EXCEPT ![k].pending = (k = "typing"),
                            ![k].executing = (k \in Retaining),
                            ![k].started = (k = "typing")]
    /\ UNCHANGED <<running, generation, client, request>>

\* A request bound to a workspace that is no longer the current one is refused.
Stale(k) == k \in Retaining /\ main.expect # generation

\* Mutant of Accepted: the generation counter is not looked at.
AcceptedUnseen(k) == TRUE

\* Whether the result is written into the slot.
Accepted(k) == k \in Numbered => slot[k].inflight /\ slot[k].owner = main.id

\* Mutant of Completed: an abandoned slot is not freed.
CompletedForgetful(k, o) ==
    [slot[k] EXCEPT !.completed = TRUE, !.success = (o = "ok"), !.executing = FALSE,
                    !.pending = @ /\ k # "typing"]

\* The slot after the main thread is done with the request.
Completed(k, o) ==
    [slot[k] EXCEPT !.completed = TRUE, !.success = (o = "ok"), !.executing = FALSE,
                    !.pending = @ /\ k # "typing",
                    !.args = IF k = "document" THEN 0 ELSE @,
                    !.inflight = @ /\ ~(k \in Retaining /\ slot[k].abandoned)]

\* What the handler did, for the record.
Worked(k, o) ==
    LET old == request[main.id] IN
    IF Stale(k) THEN UNCHANGED request
    ELSE request' = [request EXCEPT ![main.id] =
            [old EXCEPT !.work = IF o = "continue" THEN @ ELSE o,
                        !.ranIn = IF main.begin THEN generation ELSE @,
                        !.runs = IF main.begin /\ @ < 2 THEN @ + 1 ELSE @]]

\* The handler of a change of workspace binds the new one; asked for the
\* workspace that is already open it succeeds and changes nothing.
Rebound(k, o) ==
    \/ UNCHANGED generation
    \/ /\ k = "workspace"
       /\ o = "ok"
       /\ generation < MaxGeneration
       /\ generation' = generation + 1

Finish(k, o) ==
    /\ Turn(k)
    /\ main.busy
    /\ Stale(k) => o = "failed"
    /\ o = "continue" => k = "typing"
    /\ main' = PumpingFrom(NextTurn)
    /\ slot' = IF o # "continue" /\ Accepted(k) THEN [slot EXCEPT ![k] = Completed(k, o)] ELSE slot
    /\ Worked(k, o)
    /\ Rebound(k, o)
    /\ UNCHANGED <<running, client>>

BetweenPumps == running /\ main.turn = 1 /\ ~main.busy

\* The user picks another workspace from the menu.
Switch ==
    /\ BetweenPumps
    /\ generation < MaxGeneration
    /\ generation' = generation + 1
    /\ UNCHANGED <<running, slot, client, main, request>>

\* The slots after ide_ipc_stop.
Stopped(k) ==
    IF k \in Plain \cup {"presentation"} \/ (k = "typing" /\ slot[k].inflight)
    THEN [slot[k] EXCEPT !.pending = FALSE, !.completed = TRUE, !.success = FALSE,
                         !.inflight = @ /\ k \notin Plain]
    ELSE slot[k]

Stop ==
    /\ BetweenPumps
    /\ running' = FALSE
    /\ slot' = [k \in Services |-> Stopped(k)]
    /\ UNCHANGED <<generation, client, main, request>>

-----------------------------------------------------------------------------
Proceed(c) == Post(c) \/ TakeAnswer(c) \/ Timeout(c)

Pump ==
    \E k \in Services :
        \/ PassOver(k)
        \/ Take(k)
        \/ \E o \in {"ok", "failed", "continue"} : Finish(k, o)

Next ==
    \/ \E c \in Clients : \/ \E k \in Kinds : Admit(c, k)
                          \/ Proceed(c)
    \/ Pump
    \/ Switch
    \/ Stop

Spec == Init /\ [][Next]_vars

\* The main loop goes on until the program ends, a handler returns, and a
\* client thread that may go on, at the latest when its wait runs out, does.
FairSpec == Spec /\ WF_vars(Pump) /\ \A c \in Clients : WF_vars(Proceed(c))

-----------------------------------------------------------------------------
(* Properties *)

\* While the main thread works on a change of workspace or on a document, the
\* slot stays with that request, arguments included, though its client may
\* long have gone: no other request can be posted over it
\* (ide_ipc_workspace.c:39, ide_ipc_document.c:34).
RetainedWhileExecuting ==
    \A k \in Retaining :
        Turn(k) /\ main.busy => slot[k].inflight /\ slot[k].executing
                                /\ slot[k].owner = main.id /\ slot[k].args = main.id

\* A change of workspace that was worked on found the very generation its
\* client had named, however the user switched workspaces in the meantime.
SwitchHonoursBinding ==
    \A r \in Requests :
        request[r].kind = "workspace" /\ request[r].ranIn # 0 => request[r].ranIn = request[r].bound

\* A service is never taken for good: whoever leaves, whenever, its slot
\* becomes free for the next request again.
SlotsRecover == \A k \in Services : slot[k].inflight ~> ~slot[k].inflight

\* The services with a guarded slot keep the promise of RequestReply: worked
\* on at most once, and success is told to the client whose request succeeded.
Guarded(r) == request[r].kind \notin Plain

Promise == INSTANCE RequestReply WITH
    work <- [r \in Requests |-> IF ~Guarded(r) THEN "none"
                                ELSE IF request[r].runs > 1 THEN "twice"
                                ELSE request[r].work],
    reply <- [r \in Requests |-> IF Guarded(r) THEN request[r].reply ELSE "none"]

IsRequestReply == Promise!Spec

\* Success is only told to a client whose own request succeeded.  Open and
\* edit break this: the answer to a request that was given up while it was
\* worked on goes to the next one (ide_ipc_server.c:1059, 1111).
AnswersAreTrue == \A r \in Requests : request[r].reply = "ok" => request[r].work = "ok"

\* What is worked on is worked on in the workspace its client had named.
\* Open, edit, present and type check the binding when the request comes in
\* (ide_ipc_server.c:345) and never again.
WorksInBoundWorkspace ==
    \A r \in Requests : request[r].ranIn # 0 => request[r].ranIn = request[r].bound

\* The arguments the handler of a typing request reads stay in memory while it
\* runs.  They are those of the slot, which a client that gives up sets free.
TypingArgumentsLive == Turn("typing") /\ main.busy => slot["typing"].args = main.id
=============================================================================
