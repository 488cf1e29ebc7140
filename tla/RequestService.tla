--------------------------- MODULE RequestService ---------------------------
(***************************************************************************)
(* What the RTSP client promises to those who send requests through it,    *)
(* with connections, queues and nested calls removed.  A request waits for *)
(* a connection or for its handler's turn, or it is with the server.  One  *)
(* that waits does not wait for ever: it is sent, or its handler is told.  *)
(* One that is with the server comes back only by a response, or when the  *)
(* connection is lost; the client has no timeout, and promises no more.    *)
(*                                                                         *)
(* RTSPClient implements it.                                               *)
(***************************************************************************)
CONSTANT Reqs       \* the requests

VARIABLE status     \* of a request: "new", "waiting", "sent" or "told"

In(s) == {i \in Reqs : status[i] = s}

(* The requests of S change their status to s.                             *)
Become(S, s) == [i \in Reqs |-> IF i \in S THEN s ELSE status[i]]

TypeOK == status \in [Reqs -> {"new", "waiting", "sent", "told"}]

Init == status = [i \in Reqs |-> "new"]

Issue == \E i \in In("new") : status' = Become({i}, "waiting")

Send == \E i \in In("waiting") : status' = Become({i}, "sent")

(* A response, or the loss of the connection with all that was sent on it. *)
Return == \E S \in SUBSET In("sent") : status' = Become(S, "waiting")

(* The handler is told the outcome, and may issue another request.         *)
Tell ==
  \E i \in In("waiting") :
    \/ status' = Become({i}, "told")
    \/ \E j \in In("new") :
         status' = [Become({i}, "told") EXCEPT ![j] = "waiting"]

Next == Issue \/ Send \/ Return \/ Tell

vars == <<status>>

SafeSpec == Init /\ [][Next]_vars

Spec ==
  SafeSpec /\ \A i \in Reqs : status[i] = "waiting" ~> status[i] # "waiting"
=============================================================================
