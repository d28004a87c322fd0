---------------------------- MODULE RequestReply ----------------------------
(***************************************************************************)
(* What a service of the control socket promises to its clients.  The main *)
(* thread works on a request at most once; a client is told of success     *)
(* only when its own request was worked on successfully; it may be told of *)
(* failure at any time, whatever becomes of the request afterwards.        *)
(***************************************************************************)
CONSTANT Requests

VARIABLES
    work,   \* what the main thread made of each request
    reply   \* what the client of each request was told

Outcomes == {"none", "ok", "failed"}

Init ==
    /\ work = [r \in Requests |-> "none"]
    /\ reply = [r \in Requests |-> "none"]

Execute(r, o) ==
    /\ work[r] = "none"
    /\ work' = [work EXCEPT ![r] = o]
    /\ UNCHANGED reply

Answer(r, o) ==
    /\ reply[r] = "none"
    /\ o = "ok" => work[r] = "ok"
    /\ reply' = [reply EXCEPT ![r] = o]
    /\ UNCHANGED work

Next == \E r \in Requests, o \in {"ok", "failed"} : Execute(r, o) \/ Answer(r, o)

Spec == Init /\ [][Next]_<<work, reply>>
=============================================================================
