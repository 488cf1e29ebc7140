-------------------------- MODULE RTSPClientProofs --------------------------
(***************************************************************************)
(* Proofs about RTSPClient, for any number of requests, any bound on CSeq  *)
(* numbers and any pipelining.                                             *)
(*                                                                         *)
(* QueuesHaveConnection is inductive once the queues are known to be       *)
(* sequences of requests; IInv adds the type invariant for that.  That a   *)
(* response is given to its own request needs to know that the client and  *)
(* the server agree on what is outstanding, also while a body is awaited:  *)
(* that is LinkOK.                                                         *)
(*                                                                         *)
(* That every request is handled once, and with it that RTSPClient         *)
(* implements the safety part of RequestService, is an argument that       *)
(* counts: what a step takes out of one place it puts into another, so the *)
(* calls of a request's handler and the places that hold the request add   *)
(* up to one - to two for a request that could not be sent again, whose    *)
(* second handler call is already due.                                     *)
(***************************************************************************)
EXTENDS RTSPClient, FiniteSetTheorems, SequenceTheorems, TLAPS

USE BoundsAssumption, PipelineAssumption

IInv == TypeOK /\ QueuesHaveConnection

-----------------------------------------------------------------------------
(* Calls and queues *)

(* Sending a queue, and answering it, gives calls for the requests in it.  *)
LEMMA QueueCalls ==
  ASSUME NEW q \in Seq(Requests), NEW reply \in 0..MaxCSeq
  PROVE  /\ Send(q) \in Seq(Calls)
         /\ Answer(q, reply) \in Seq(Calls)
<1>1. \A i \in DOMAIN q : q[i] \in Requests
  OBVIOUS
<1>2. \A i \in DOMAIN q : /\ Call("send", q[i], 0) \in Calls
                          /\ Call("answer", q[i], reply) \in Calls
  BY <1>1 DEF Call, Calls
<1>3. DOMAIN q = 1..Len(q) /\ Len(q) \in Nat
  OBVIOUS
<1>4. QED
  BY <1>2, <1>3 DEF Send, Answer

(* What the search for a request finds, and what it leaves, is from the    *)
(* queue.                                                                  *)
LEMMA Search ==
  ASSUME waitResp \in Seq(Requests), NEW tag \in 0..MaxCSeq
  PROVE  /\ FoundAt(tag) \in Nat \ {0}
         /\ Found(tag) \in Seq(Requests)
         /\ After(tag) \in Seq(Requests)
<1>1. Len(waitResp) \in Nat /\ DOMAIN waitResp = 1..Len(waitResp)
  OBVIOUS
<1>2. FoundAt(tag) \in Nat \ {0}
  <2>1. CASE FirstFrom(tag) = {}
    BY <1>1, <2>1 DEF FoundAt
  <2>2. CASE FirstFrom(tag) # {}
    <3> DEFINE first == CHOOSE i \in FirstFrom(tag) : TRUE
    <3>1. FirstFrom(tag) \subseteq 1..Len(waitResp)
      BY <1>1 DEF FirstFrom
    <3>2. first \in 1..Len(waitResp)
      BY <3>1, <2>2
    <3>3. FoundAt(tag) = first \/ FoundAt(tag) = first + 1
      BY <2>2 DEF FoundAt
    <3> HIDE DEF first
    <3>4. QED
      BY <1>1, <3>2, <3>3
  <2>3. QED
    BY <2>1, <2>2
<1>3. \A i \in 1..Len(waitResp) : waitResp[i] \in Requests
  OBVIOUS
<1>4. Found(tag) \in Seq(Requests)
  BY <1>1, <1>2, <1>3 DEF Found
<1>5. After(tag) \in Seq(Requests)
  BY <1>1, <1>2, <1>3 DEF After
<1>6. QED
  BY <1>2, <1>4, <1>5

(* A new request is one, if the bounds allow it.                           *)
LEMMA NewRequestIsOne ==
  ASSUME TypeOK, issued < MaxRequests, CSeq < MaxCSeq
  PROVE  /\ NewRequest \in Requests
         /\ Call("send", NewRequest, 0) \in Calls
<1>1. issued + 1 \in Ids /\ CSeq + 1 \in 2..MaxCSeq
  BY DEF TypeOK, Ids
<1>2. NewRequest \in Requests
  BY <1>1 DEF NewRequest, Requests
<1>3. QED
  BY <1>2 DEF Call, Calls

-----------------------------------------------------------------------------
(* The invariant *)

LEMMA InitInv == Init => IInv
<1> SUFFICES ASSUME Init PROVE IInv
  OBVIOUS
<1>1. TypeOK
  <2>1. waitConn \in Seq(Requests) /\ waitResp \in Seq(Requests)
    BY DEF Init
  <2>2. calls \in Seq(Calls) /\ atServer \in Seq(2..MaxCSeq)
    BY DEF Init
  <2>3. answers \in [Ids -> 0..2]
    BY DEF Init
  <2>4. CSeq \in 1..MaxCSeq /\ issued \in 0..MaxRequests
    BY DEF Init
  <2>5. QED
    BY <2>1, <2>2, <2>3, <2>4 DEF Init, TypeOK
<1>2. QueuesHaveConnection
  BY DEF Init, QueuesHaveConnection
<1>3. QED
  BY <1>1, <1>2 DEF IInv

(* A request is issued, in the event loop or by a handler.                 *)
LEMMA SendCommandInv ==
  ASSUME TypeOK, NEW rest \in Seq(Calls), SendCommand(rest)
  PROVE  /\ calls' \in Seq(Calls)
         /\ issued' \in 0..MaxRequests
         /\ CSeq' \in 1..MaxCSeq
<1>1. issued < MaxRequests /\ CSeq < MaxCSeq
  BY DEF SendCommand, MayIssue
<1>2. <<Call("send", NewRequest, 0)>> \in Seq(Calls)
  BY <1>1, NewRequestIsOne
<1>3. calls' \in Seq(Calls)
  BY <1>2, ConcatProperties DEF SendCommand
<1>4. QED
  BY <1>1, <1>3 DEF SendCommand, TypeOK

LEMMA IssueInv ==
  ASSUME IInv, Issue
  PROVE  IInv'
<1>1. calls' \in Seq(Calls) /\ issued' \in 0..MaxRequests /\ CSeq' \in 1..MaxCSeq
  <2>1. << >> \in Seq(Calls)
    OBVIOUS
  <2>2. QED
    BY <2>1, SendCommandInv DEF Issue, IInv
<1>2. TypeOK'
  BY <1>1 DEF Issue, IInv, TypeOK, queueVars
<1>3. QueuesHaveConnection'
  BY DEF Issue, IInv, QueuesHaveConnection, queueVars
<1>4. QED
  BY <1>2, <1>3 DEF IInv

LEMMA CallHandlerInv ==
  ASSUME IInv, CallHandler
  PROVE  IInv'
<1>1. calls[1] \in Calls /\ Tail(calls) \in Seq(Calls)
  BY DEF CallHandler, IInv, TypeOK
<1>2. answers' \in [Ids -> 0..2]
  BY <1>1 DEF CallHandler, IInv, TypeOK, Calls, Requests
<1>3. calls' \in Seq(Calls) /\ issued' \in 0..MaxRequests /\ CSeq' \in 1..MaxCSeq
  <2>1. CASE calls' = Tail(calls) /\ UNCHANGED <<issued, CSeq>>
    BY <1>1, <2>1 DEF IInv, TypeOK
  <2>2. CASE SendCommand(Tail(calls))
    BY <1>1, <2>2, SendCommandInv DEF IInv
  <2>3. QED
    BY <2>1, <2>2 DEF CallHandler
<1>4. TypeOK'
  BY <1>2, <1>3 DEF CallHandler, IInv, TypeOK, queueVars
<1>5. QueuesHaveConnection'
  BY DEF CallHandler, IInv, QueuesHaveConnection, queueVars
<1>6. QED
  BY <1>4, <1>5 DEF IInv

(* What sendRequest() works on.                                            *)
LEMMA SendingFacts ==
  ASSUME TypeOK, Sending
  PROVE  /\ calls[1] \in Calls
         /\ calls[1].req \in Requests
         /\ calls[1].req.cseq \in 2..MaxCSeq
         /\ calls[1].req.id \in Ids
         /\ Tail(calls) \in Seq(Calls)
<1>1. calls[1] \in Calls /\ Tail(calls) \in Seq(Calls)
  BY DEF Sending, TypeOK
<1>2. QED
  BY <1>1 DEF Calls, Requests

LEMMA AwaitConnectionInv ==
  ASSUME IInv, AwaitConnection
  PROVE  IInv'
<1>1. calls[1].req \in Requests /\ Tail(calls) \in Seq(Calls)
  BY SendingFacts DEF AwaitConnection, IInv
<1>2. waitConn' \in Seq(Requests) /\ waitConn' # << >>
  BY <1>1 DEF AwaitConnection, IInv, TypeOK
<1>3. TypeOK'
  BY <1>1, <1>2 DEF AwaitConnection, IInv, TypeOK, appVars
<1>4. QueuesHaveConnection'
  BY <1>2 DEF AwaitConnection, IInv, QueuesHaveConnection
<1>5. QED
  BY <1>3, <1>4 DEF IInv

LEMMA OpenConnectionInv ==
  ASSUME IInv, OpenConnection
  PROVE  IInv'
<1>1. calls[1].req \in Requests /\ Tail(calls) \in Seq(Calls)
  BY SendingFacts DEF OpenConnection, IInv
<1>2. waitConn' \in Seq(Requests) /\ waitConn' # << >>
  BY <1>1 DEF OpenConnection
<1>3. TypeOK'
  BY <1>1, <1>2 DEF OpenConnection, IInv, TypeOK, appVars
<1>4. QueuesHaveConnection'
  BY <1>2 DEF OpenConnection, IInv, QueuesHaveConnection
<1>5. QED
  BY <1>3, <1>4 DEF IInv

LEMMA SendRequestInv ==
  ASSUME IInv, SendRequest
  PROVE  IInv'
<1>1. /\ calls[1].req \in Requests /\ calls[1].req.cseq \in 2..MaxCSeq
      /\ Tail(calls) \in Seq(Calls)
  BY SendingFacts DEF SendRequest, IInv
<1>2. waitResp' \in Seq(Requests) /\ atServer' \in Seq(2..MaxCSeq)
  BY <1>1 DEF SendRequest, IInv, TypeOK
<1>3. TypeOK'
  BY <1>1, <1>2 DEF SendRequest, IInv, TypeOK, appVars
<1>4. QueuesHaveConnection'
  BY DEF SendRequest, IInv, QueuesHaveConnection
<1>5. QED
  BY <1>3, <1>4 DEF IInv

LEMMA SendFailsInv ==
  ASSUME IInv, SendFails
  PROVE  IInv'
<1>1. /\ calls[1].req \in Requests /\ calls[1].req.id \in Ids
      /\ Tail(calls) \in Seq(Calls)
  BY SendingFacts DEF SendFails, IInv
<1>2. /\ <<calls[1].req>> \in Seq(Requests)
      /\ <<calls[1].req, calls[1].req>> \in Seq(Requests)
  BY <1>1
<1>3. /\ Answer(<<calls[1].req>>, 0) \in Seq(Calls)
      /\ Answer(<<calls[1].req, calls[1].req>>, 0) \in Seq(Calls)
  <2>1. 0 \in 0..MaxCSeq
    OBVIOUS
  <2>2. QED
    BY <1>2, <2>1, QueueCalls
<1>4. calls' \in Seq(Calls)
  <2>1. \A q \in Seq(Calls) : q \o Tail(calls) \in Seq(Calls)
    BY <1>1, ConcatProperties
  <2>2. \/ calls' = Answer(<<calls[1].req>>, 0) \o Tail(calls)
        \/ calls' = Answer(<<calls[1].req, calls[1].req>>, 0) \o Tail(calls)
    BY DEF SendFails
  <2>3. QED
    BY <1>3, <2>1, <2>2
<1>5. unsent' \subseteq Ids
  BY <1>1 DEF SendFails, IInv, TypeOK
<1>6. TypeOK'
  BY <1>4, <1>5 DEF SendFails, IInv, TypeOK
<1>7. QueuesHaveConnection'
  BY DEF SendFails, IInv, QueuesHaveConnection
<1>8. QED
  BY <1>6, <1>7 DEF IInv

(* A queue is emptied into calls; its place in the queues is given up.     *)
LEMMA ConnectedInv ==
  ASSUME IInv, Connected
  PROVE  IInv'
<1>1. 0 \in 0..MaxCSeq
  OBVIOUS
<1>2. Send(waitConn) \in Seq(Calls)
  BY <1>1, QueueCalls DEF IInv, TypeOK
<1>3. TypeOK'
  BY <1>2 DEF Connected, IInv, TypeOK, appVars
<1>4. QueuesHaveConnection'
  BY DEF Connected, IInv, QueuesHaveConnection
<1>5. QED
  BY <1>3, <1>4 DEF IInv

LEMMA ConnectionFailedInv ==
  ASSUME IInv, ConnectionFailed
  PROVE  IInv'
<1>1. 0 \in 0..MaxCSeq
  OBVIOUS
<1>2. Answer(waitConn, 0) \in Seq(Calls)
  BY <1>1, QueueCalls DEF IInv, TypeOK
<1>3. TypeOK'
  BY <1>2 DEF ConnectionFailed, IInv, TypeOK, appVars
<1>4. QueuesHaveConnection'
  BY DEF ConnectionFailed, IInv, QueuesHaveConnection
<1>5. QED
  BY <1>3, <1>4 DEF IInv

LEMMA ConnectionLostInv ==
  ASSUME IInv, ConnectionLost
  PROVE  IInv'
<1>1. 0 \in 0..MaxCSeq
  OBVIOUS
<1>2. Answer(waitResp, 0) \in Seq(Calls)
  BY <1>1, QueueCalls DEF IInv, TypeOK
<1>3. TypeOK'
  BY <1>2 DEF ConnectionLost, IInv, TypeOK, appVars
<1>4. QueuesHaveConnection'
  BY DEF ConnectionLost, Reading, IInv, QueuesHaveConnection
<1>5. QED
  BY <1>3, <1>4 DEF IInv

LEMMA ResponseTruncatedInv ==
  ASSUME IInv, ResponseTruncated
  PROVE  IInv'
<1>1. waitResp # << >> /\ waitResp \in Seq(Requests)
  BY DEF ResponseTruncated, IInv, TypeOK
<1>2. <<waitResp[1]>> \in Seq(Requests) /\ Tail(waitResp) \in Seq(Requests)
  BY <1>1
<1>3. calls' \in Seq(Calls) /\ atServer' \in Seq(2..MaxCSeq)
  <2>1. CASE partial # None /\ calls' = Answer(<<waitResp[1]>>, partial.replyTo)
               /\ UNCHANGED atServer
    <3>1. partial.replyTo \in 0..MaxCSeq
      BY <2>1 DEF IInv, TypeOK, Responses
    <3>2. QED
      BY <1>2, <2>1, <3>1, QueueCalls DEF IInv, TypeOK
  <2>2. CASE atServer # << >> /\ calls' = Answer(<<waitResp[1]>>, atServer[1])
               /\ atServer' = Tail(atServer)
    <3>1. atServer[1] \in 2..MaxCSeq /\ Tail(atServer) \in Seq(2..MaxCSeq)
      BY <2>2 DEF IInv, TypeOK
    <3>2. atServer[1] \in 0..MaxCSeq
      BY <3>1
    <3>3. QED
      BY <1>2, <2>2, <3>1, <3>2, QueueCalls
  <2>3. QED
    BY <2>1, <2>2 DEF ResponseTruncated
<1>4. TypeOK'
  BY <1>2, <1>3 DEF ResponseTruncated, IInv, TypeOK, appVars
<1>5. QueuesHaveConnection'
  BY DEF ResponseTruncated, Reading, IInv, QueuesHaveConnection
<1>6. QED
  BY <1>4, <1>5 DEF IInv

-----------------------------------------------------------------------------
(* Responses.  ResponseOK is what handling one leaves of the variables it  *)
(* changes; the rest is up to the two actions that call it.                *)

ResponseOK ==
  /\ socket \in {"closed", "open"}
  /\ waitResp \in Seq(Requests)
  /\ partial \in Responses \cup {None}
  /\ realm \in BOOLEAN
  /\ CSeq \in 1..MaxCSeq
  /\ calls \in Seq(Calls)
  /\ waitResp # << >> => socket = "open"

LEMMA AwaitBodyOK ==
  ASSUME IInv, Reading, NEW m \in Responses, AwaitBody(m)
  PROVE  ResponseOK'
<1>1. m.tag \in 0..MaxCSeq
  BY DEF Responses
<1>2. Found(m.tag) \in Seq(Requests) /\ After(m.tag) \in Seq(Requests)
  BY <1>1, Search DEF IInv, TypeOK
<1>3. waitResp' \in Seq(Requests)
  BY <1>2, ConcatProperties DEF AwaitBody
<1>4. QED
  BY <1>3 DEF AwaitBody, Reading, IInv, TypeOK, ResponseOK

LEMMA HandleResponseOK ==
  ASSUME IInv, Reading, NEW m \in Responses, HandleResponse(m)
  PROVE  ResponseOK'
<1>1. m.tag \in 0..MaxCSeq /\ m.replyTo \in 0..MaxCSeq
  BY DEF Responses
<1>2. Found(m.tag) \in Seq(Requests) /\ After(m.tag) \in Seq(Requests)
  BY <1>1, Search DEF IInv, TypeOK
<1>3. calls' \in Seq(Calls) /\ waitResp' \in Seq(Requests)
  BY <1>1, <1>2, QueueCalls DEF HandleResponse
<1>4. realm' \in BOOLEAN
  BY DEF HandleResponse, IInv, TypeOK
<1>5. QED
  BY <1>3, <1>4 DEF HandleResponse, Reading, IInv, TypeOK, ResponseOK

LEMMA ResendCommandOK ==
  ASSUME IInv, Reading, NEW m \in Responses, ResendCommand(m)
  PROVE  ResponseOK'
<1> DEFINE r == waitResp[FoundAt(m.tag)]
           again == [r EXCEPT !.cseq = CSeq + 1]
<1>1. m.tag \in 0..MaxCSeq
  BY DEF Responses
<1>2. FoundAt(m.tag) \in 1..Len(waitResp)
  BY <1>1, Search DEF ResendCommand, IInv, TypeOK
<1>3. r \in Requests
  BY <1>2 DEF IInv, TypeOK
<1>4. CSeq + 1 \in 2..MaxCSeq
  BY DEF ResendCommand, IInv, TypeOK
<1>5. again \in Requests
  BY <1>3, <1>4 DEF Requests
<1>6. calls' = <<Call("resend", again, 0)>>
  BY DEF ResendCommand
<1> HIDE DEF again
<1>7. Call("resend", again, 0) \in Calls
  BY <1>5 DEF Call, Calls
<1>8. calls' \in Seq(Calls)
  BY <1>6, <1>7
<1>9. CSeq' \in 1..MaxCSeq
  BY <1>4 DEF ResendCommand
<1>10. realm' \in BOOLEAN
  BY DEF ResendCommand, IInv, TypeOK
<1>11. QED
  BY <1>8, <1>9, <1>10 DEF ResendCommand, Reading, IInv, ResponseOK

(* ResponseOK and an unchanged rest make the invariant.                    *)
LEMMA ResponseInv ==
  ASSUME IInv, Reading, ResponseOK',
         UNCHANGED <<waitConn, issued, answers, unsent>>,
         atServer' \in Seq(2..MaxCSeq)
  PROVE  IInv'
<1>1. TypeOK'
  BY DEF IInv, TypeOK, ResponseOK
<1>2. QueuesHaveConnection'
  BY DEF IInv, Reading, QueuesHaveConnection, ResponseOK
<1>3. QED
  BY <1>1, <1>2 DEF IInv

LEMMA ResponseArrivesInv ==
  ASSUME IInv, NEW m \in Responses, ResponseArrives(m)
  PROVE  IInv'
<1>1. ResponseOK'
  BY AwaitBodyOK, HandleResponseOK, ResendCommandOK DEF ResponseArrives
<1>2. atServer' \in Seq(2..MaxCSeq)
  BY DEF ResponseArrives, IInv, TypeOK
<1>3. QED
  BY <1>1, <1>2, ResponseInv DEF ResponseArrives

LEMMA BodyArrivesInv ==
  ASSUME IInv, BodyArrives
  PROVE  IInv'
<1>1. partial \in Responses
  BY DEF BodyArrives, IInv, TypeOK
<1>2. ResponseOK'
  BY <1>1, HandleResponseOK, ResendCommandOK DEF BodyArrives
<1>3. atServer' \in Seq(2..MaxCSeq)
  BY DEF BodyArrives, IInv, TypeOK
<1>4. QED
  BY <1>2, <1>3, ResponseInv DEF BodyArrives

-----------------------------------------------------------------------------
LEMMA NextInv == IInv /\ [Next]_vars => IInv'
<1> SUFFICES ASSUME IInv, [Next]_vars PROVE IInv'
  OBVIOUS
<1>1. CASE Issue
  BY <1>1, IssueInv
<1>2. CASE CallHandler
  BY <1>2, CallHandlerInv
<1>3. CASE AwaitConnection
  BY <1>3, AwaitConnectionInv
<1>4. CASE OpenConnection
  BY <1>4, OpenConnectionInv
<1>5. CASE SendRequest
  BY <1>5, SendRequestInv
<1>6. CASE SendFails
  BY <1>6, SendFailsInv
<1>7. CASE Connected
  BY <1>7, ConnectedInv
<1>8. CASE ConnectionFailed
  BY <1>8, ConnectionFailedInv
<1>9. CASE ConnectionLost
  BY <1>9, ConnectionLostInv
<1>10. CASE ResponseTruncated
  BY <1>10, ResponseTruncatedInv
<1>11. CASE BodyArrives
  BY <1>11, BodyArrivesInv
<1>12. CASE \E m \in Responses : ResponseArrives(m)
  BY <1>12, ResponseArrivesInv
<1>13. CASE UNCHANGED vars
  BY <1>13 DEF vars, queueVars, appVars, IInv, TypeOK, QueuesHaveConnection
<1>14. QED
  BY <1>1, <1>2, <1>3, <1>4, <1>5, <1>6, <1>7, <1>8, <1>9, <1>10, <1>11,
     <1>12, <1>13 DEF Next

LEMMA Invariance == Spec => []IInv
  BY InitInv, NextInv, PTL DEF Spec

(* Whatever the connection and the server do, the client's variables keep  *)
(* their types: queues hold requests, and CSeq numbers stay in range.      *)
THEOREM TypeCorrect == Spec => []TypeOK
<1>1. IInv => TypeOK
  BY DEF IInv
<1>2. QED
  BY Invariance, <1>1, PTL

(* No request of sendRequest() ever waits for a connection that is not     *)
(* being made, or for a response on one that is not open.                  *)
THEOREM NoQueueStalls == Spec => []QueuesHaveConnection
<1>1. IInv => QueuesHaveConnection
  BY DEF IInv
<1>2. QED
  BY Invariance, <1>1, PTL

-----------------------------------------------------------------------------
(* Responses meet their requests *)

(* The requests in q have the CSeqs in s.                                  *)
Matches(q, s) ==
  /\ Len(q) = Len(s)
  /\ \A i \in 1..Len(q) : q[i].cseq = s[i]

(* The requests that wait for a response are those the server has to       *)
(* answer, and before them the one whose response has arrived in part.     *)
LinkOK ==
  \/ partial = None /\ Matches(waitResp, atServer)
  \/ /\ partial # None
     /\ waitResp # << >>
     /\ waitResp[1].cseq = partial.replyTo
     /\ partial.tag \in {0, partial.replyTo}
     /\ Matches(Tail(waitResp), atServer)

Own(s) ==
  \A n \in DOMAIN s :
    s[n].op = "answer" /\ s[n].replyTo # 0 => s[n].replyTo = s[n].req.cseq

LInv == IInv /\ LinkOK /\ Own(calls)

LEMMA OwnConcat ==
  ASSUME NEW s \in Seq(Calls), NEW t \in Seq(Calls), Own(s), Own(t)
  PROVE  Own(s \o t)
<1>1. /\ s \o t \in Seq(Calls)
      /\ Len(s \o t) = Len(s) + Len(t)
      /\ \A i \in 1..(Len(s) + Len(t)) :
           (s \o t)[i] = IF i <= Len(s) THEN s[i] ELSE t[i - Len(s)]
  BY ConcatProperties
<1>2. SUFFICES ASSUME NEW n \in DOMAIN (s \o t)
               PROVE  \/ n \in DOMAIN s /\ (s \o t)[n] = s[n]
                      \/ n - Len(s) \in DOMAIN t /\ (s \o t)[n] = t[n - Len(s)]
  BY DEF Own
<1>3. /\ Len(s) \in Nat /\ DOMAIN s = 1..Len(s)
      /\ Len(t) \in Nat /\ DOMAIN t = 1..Len(t)
      /\ DOMAIN (s \o t) = 1..Len(s \o t)
  BY <1>1
<1>4. QED
  BY <1>1, <1>3

LEMMA OwnTail ==
  ASSUME NEW s \in Seq(Calls), s # << >>, Own(s)
  PROVE  Own(Tail(s))
<1>1. SUFFICES ASSUME NEW n \in DOMAIN Tail(s)
               PROVE  n + 1 \in DOMAIN s /\ Tail(s)[n] = s[n + 1]
  BY DEF Own
<1>2. QED
  OBVIOUS

(* A call that sends, and an answer the client makes up, need no response. *)
LEMMA OwnWithoutReply ==
  ASSUME NEW q \in Seq(Requests)
  PROVE  Own(Answer(q, 0)) /\ Own(Send(q))
<1>1. \A i \in DOMAIN q : Call("answer", q[i], 0).replyTo = 0
  BY DEF Call
<1>2. \A i \in DOMAIN q : Call("send", q[i], 0).op = "send"
  BY DEF Call
<1>3. QED
  BY <1>1, <1>2 DEF Own, Answer, Send

LEMMA OwnReply ==
  ASSUME NEW r, NEW reply, r.cseq = reply
  PROVE  Own(Answer(<<r>>, reply))
<1>1. Call("answer", r, reply).req.cseq = Call("answer", r, reply).replyTo
  BY DEF Call
<1>2. \A n \in DOMAIN <<r>> : <<r>>[n] = r
  OBVIOUS
<1>3. QED
  BY <1>1, <1>2 DEF Own, Answer

(* A response to the first request, with its CSeq or with none, is taken   *)
(* for this request, and leaves the others.                                *)
LEMMA FirstIsFound ==
  ASSUME waitResp \in Seq(Requests), waitResp # << >>,
         NEW tag, tag \in {0, waitResp[1].cseq}
  PROVE  /\ FoundAt(tag) = 1
         /\ Found(tag) = <<waitResp[1]>>
         /\ After(tag) = Tail(waitResp)
<1>1. waitResp[1] \in Requests /\ Len(waitResp) \in Nat \ {0}
      /\ DOMAIN waitResp = 1..Len(waitResp)
  OBVIOUS
<1>2. waitResp[1].cseq \in Nat /\ tag \in Nat /\ waitResp[1].cseq >= tag
  BY <1>1 DEF Requests
<1>3. FirstFrom(tag) = {1}
  <2>1. 1 \in FirstFrom(tag)
    BY <1>1, <1>2 DEF FirstFrom
  <2>2. ASSUME NEW i \in FirstFrom(tag) PROVE i = 1
    <3>1. i \in 1..Len(waitResp) /\ \A j \in 1..(i - 1) : waitResp[j].cseq < tag
      BY <1>1 DEF FirstFrom
    <3>2. SUFFICES ASSUME i > 1 PROVE FALSE
      BY <1>1, <3>1
    <3>3. 1 \in 1..(i - 1)
      BY <1>1, <3>1, <3>2
    <3>4. waitResp[1].cseq < tag
      BY <3>1, <3>3
    <3>5. QED
      BY <1>2, <3>4
  <2>3. QED
    BY <2>1, <2>2
<1>4. FoundAt(tag) = 1
  <2>1. (CHOOSE i \in FirstFrom(tag) : TRUE) = 1
    BY <1>3
  <2>2. FirstFrom(tag) # {}
    BY <1>3
  <2>3. tag = 0 \/ waitResp[1].cseq = tag
    OBVIOUS
  <2>4. QED
    BY <2>1, <2>2, <2>3 DEF FoundAt
<1>5. Found(tag) = <<waitResp[1]>>
  BY <1>1, <1>4 DEF Found
<1>6. After(tag) = Tail(waitResp)
  BY <1>4, TailIsSubSeq DEF After
<1>7. QED
  BY <1>4, <1>5, <1>6

(* Removing the head of both sides, and adding at the end, keeps a match.  *)
LEMMA MatchTail ==
  ASSUME NEW q \in Seq(Requests), NEW s \in Seq(2..MaxCSeq), Matches(q, s),
         q # << >>
  PROVE  /\ s # << >> /\ q[1].cseq = s[1]
         /\ Matches(Tail(q), Tail(s))
<1>1. s # << >> /\ q[1].cseq = s[1]
  BY DEF Matches
<1>2. /\ Len(Tail(q)) = Len(q) - 1 /\ Len(Tail(s)) = Len(s) - 1
      /\ Len(q) \in Nat \ {0}
      /\ \A i \in 1..(Len(q) - 1) : Tail(q)[i] = q[i + 1]
      /\ \A i \in 1..(Len(s) - 1) : Tail(s)[i] = s[i + 1]
  BY <1>1, HeadTailProperties
<1>3. QED
  BY <1>1, <1>2 DEF Matches

LEMMA MatchAppend ==
  ASSUME NEW q \in Seq(Requests), NEW s \in Seq(2..MaxCSeq), Matches(q, s),
         NEW r \in Requests
  PROVE  Matches(Append(q, r), Append(s, r.cseq))
  BY DEF Matches

LEMMA MatchAppendTail ==
  ASSUME NEW q \in Seq(Requests), q # << >>, NEW r \in Requests
  PROVE  /\ Append(q, r) # << >> /\ Append(q, r)[1] = q[1]
         /\ Tail(Append(q, r)) = Append(Tail(q), r)
  OBVIOUS

LEMMA InitLInv == Init => LInv
<1> SUFFICES ASSUME Init PROVE LInv
  OBVIOUS
<1>1. LinkOK
  BY DEF Init, LinkOK, Matches
<1>2. Own(calls)
  BY DEF Init, Own
<1>3. QED
  BY <1>1, <1>2, InitInv DEF LInv

LEMMA SendCommandOwn ==
  ASSUME TypeOK, NEW rest \in Seq(Calls), Own(rest), SendCommand(rest)
  PROVE  Own(calls')
<1>1. issued < MaxRequests /\ CSeq < MaxCSeq
  BY DEF SendCommand, MayIssue
<1>2. <<Call("send", NewRequest, 0)>> \in Seq(Calls)
  BY <1>1, NewRequestIsOne
<1>3. Call("send", NewRequest, 0).op = "send"
  BY DEF Call
<1>4. Own(<<Call("send", NewRequest, 0)>>)
  BY <1>3 DEF Own
<1>5. QED
  BY <1>2, <1>4, OwnConcat DEF SendCommand

(* The actions that touch neither the queue of requests that wait for a    *)
(* response nor what the server has.                                       *)
LEMMA LinkStays ==
  ASSUME LinkOK, UNCHANGED <<waitResp, partial, atServer>>
  PROVE  LinkOK'
  BY DEF LinkOK, Matches

LEMMA IssueL == LInv /\ Issue => LinkOK' /\ Own(calls')
<1> SUFFICES ASSUME LInv, Issue PROVE LinkOK' /\ Own(calls')
  OBVIOUS
<1>1. << >> \in Seq(Calls) /\ Own(<< >>)
  BY DEF Own
<1>2. Own(calls')
  BY <1>1, SendCommandOwn DEF Issue, LInv, IInv
<1>3. LinkOK'
  BY LinkStays DEF Issue, LInv, queueVars
<1>4. QED
  BY <1>2, <1>3

LEMMA CallHandlerL == LInv /\ CallHandler => LinkOK' /\ Own(calls')
<1> SUFFICES ASSUME LInv, CallHandler PROVE LinkOK' /\ Own(calls')
  OBVIOUS
<1>1. calls \in Seq(Calls) /\ calls # << >>
  BY DEF CallHandler, LInv, IInv, TypeOK
<1>2. Tail(calls) \in Seq(Calls) /\ Own(Tail(calls))
  BY <1>1, OwnTail DEF LInv
<1>3. Own(calls')
  BY <1>2, SendCommandOwn DEF CallHandler, LInv, IInv
<1>4. LinkOK'
  BY LinkStays DEF CallHandler, LInv, queueVars
<1>5. QED
  BY <1>3, <1>4

LEMMA SendingL ==
  ASSUME LInv, Sending
  PROVE  calls \in Seq(Calls) /\ Tail(calls) \in Seq(Calls) /\ Own(Tail(calls))
<1>1. calls \in Seq(Calls) /\ calls # << >>
  BY DEF Sending, LInv, IInv, TypeOK
<1>2. QED
  BY <1>1, OwnTail DEF LInv

LEMMA AwaitConnectionL ==
  LInv /\ (AwaitConnection \/ OpenConnection) => LinkOK' /\ Own(calls')
<1> SUFFICES ASSUME LInv, AwaitConnection \/ OpenConnection
             PROVE  LinkOK' /\ Own(calls')
  OBVIOUS
<1>1. Own(calls')
  BY SendingL DEF AwaitConnection, OpenConnection
<1>2. LinkOK'
  BY LinkStays DEF AwaitConnection, OpenConnection, LInv
<1>3. QED
  BY <1>1, <1>2

LEMMA SendRequestL == LInv /\ SendRequest => LinkOK' /\ Own(calls')
<1> SUFFICES ASSUME LInv, SendRequest PROVE LinkOK' /\ Own(calls')
  OBVIOUS
<1>1. Own(calls')
  BY SendingL DEF SendRequest
<1> DEFINE r == calls[1].req
<1>2. r \in Requests
  BY SendingFacts DEF SendRequest, LInv, IInv
<1>3. waitResp \in Seq(Requests) /\ atServer \in Seq(2..MaxCSeq)
  BY DEF LInv, IInv, TypeOK
<1>4. /\ waitResp' = Append(waitResp, r) /\ atServer' = Append(atServer, r.cseq)
      /\ partial' = partial
  BY DEF SendRequest
<1> HIDE DEF r
<1>5. CASE partial = None /\ Matches(waitResp, atServer)
  BY <1>1, <1>2, <1>3, <1>4, <1>5, MatchAppend DEF LinkOK
<1>6. CASE /\ partial # None /\ waitResp # << >>
           /\ waitResp[1].cseq = partial.replyTo
           /\ partial.tag \in {0, partial.replyTo}
           /\ Matches(Tail(waitResp), atServer)
  <2>1. Tail(waitResp) \in Seq(Requests)
    BY <1>3, <1>6
  <2>2. Matches(Append(Tail(waitResp), r), atServer')
    BY <2>1, <1>2, <1>3, <1>4, <1>6, MatchAppend
  <2>3. /\ waitResp' # << >> /\ waitResp'[1] = waitResp[1]
        /\ Tail(waitResp') = Append(Tail(waitResp), r)
    BY <1>2, <1>3, <1>4, <1>6, MatchAppendTail
  <2>4. QED
    BY <1>1, <2>2, <2>3, <1>4, <1>6 DEF LinkOK
<1>7. QED
  BY <1>1, <1>5, <1>6 DEF LInv, LinkOK

LEMMA SendFailsL == LInv /\ SendFails => LinkOK' /\ Own(calls')
<1> SUFFICES ASSUME LInv, SendFails PROVE LinkOK' /\ Own(calls')
  OBVIOUS
<1> DEFINE r == calls[1].req
<1>1. r \in Requests
  BY SendingFacts DEF SendFails, LInv, IInv
<1>2. Tail(calls) \in Seq(Calls) /\ Own(Tail(calls))
  BY SendingL DEF SendFails
<1>3. \/ calls' = Answer(<<r>>, 0) \o Tail(calls)
      \/ calls' = Answer(<<r, r>>, 0) \o Tail(calls)
  BY DEF SendFails
<1> HIDE DEF r
<1>4. <<r>> \in Seq(Requests) /\ <<r, r>> \in Seq(Requests) /\ 0 \in 0..MaxCSeq
  BY <1>1
<1>5. /\ Answer(<<r>>, 0) \in Seq(Calls) /\ Own(Answer(<<r>>, 0))
      /\ Answer(<<r, r>>, 0) \in Seq(Calls) /\ Own(Answer(<<r, r>>, 0))
  BY <1>4, QueueCalls, OwnWithoutReply
<1>6. Own(calls')
  BY <1>2, <1>3, <1>5, OwnConcat
<1>7. LinkOK'
  BY LinkStays DEF SendFails, LInv
<1>8. QED
  BY <1>6, <1>7

LEMMA ConnectedL ==
  LInv /\ (Connected \/ ConnectionFailed) => LinkOK' /\ Own(calls')
<1> SUFFICES ASSUME LInv, Connected \/ ConnectionFailed
             PROVE  LinkOK' /\ Own(calls')
  OBVIOUS
<1>1. Own(Send(waitConn)) /\ Own(Answer(waitConn, 0))
  BY OwnWithoutReply DEF LInv, IInv, TypeOK
<1>2. Own(calls')
  BY <1>1 DEF Connected, ConnectionFailed
<1>3. LinkOK'
  BY LinkStays DEF Connected, ConnectionFailed, LInv
<1>4. QED
  BY <1>2, <1>3

LEMMA ConnectionLostL == LInv /\ ConnectionLost => LinkOK' /\ Own(calls')
<1> SUFFICES ASSUME LInv, ConnectionLost PROVE LinkOK' /\ Own(calls')
  OBVIOUS
<1>1. Own(calls')
  BY OwnWithoutReply DEF ConnectionLost, LInv, IInv, TypeOK
<1>2. LinkOK'
  BY DEF ConnectionLost, LinkOK, Matches
<1>3. QED
  BY <1>1, <1>2

LEMMA ResponseTruncatedL == LInv /\ ResponseTruncated => LinkOK' /\ Own(calls')
<1> SUFFICES ASSUME LInv, ResponseTruncated PROVE LinkOK' /\ Own(calls')
  OBVIOUS
<1>1. /\ waitResp \in Seq(Requests) /\ waitResp # << >>
      /\ atServer \in Seq(2..MaxCSeq)
  BY DEF ResponseTruncated, LInv, IInv, TypeOK
<1>2. CASE /\ partial # None
           /\ calls' = Answer(<<waitResp[1]>>, partial.replyTo)
           /\ UNCHANGED atServer
  <2>1. /\ waitResp[1].cseq = partial.replyTo
        /\ Matches(Tail(waitResp), atServer)
    BY <1>2 DEF LInv, LinkOK
  <2>2. Own(calls')
    BY <1>2, <2>1, OwnReply
  <2>3. LinkOK'
    BY <1>2, <2>1 DEF ResponseTruncated, LinkOK
  <2>4. QED
    BY <2>2, <2>3
<1>3. CASE /\ partial = None
           /\ calls' = Answer(<<waitResp[1]>>, atServer[1])
           /\ atServer' = Tail(atServer)
  <2>1. waitResp[1].cseq = atServer[1] /\ Matches(Tail(waitResp), Tail(atServer))
    BY <1>1, <1>3, MatchTail DEF LInv, LinkOK
  <2>2. Own(calls')
    BY <1>3, <2>1, OwnReply
  <2>3. LinkOK'
    BY <1>3, <2>1 DEF ResponseTruncated, LinkOK
  <2>4. QED
    BY <2>2, <2>3
<1>4. QED
  BY <1>2, <1>3 DEF ResponseTruncated

-----------------------------------------------------------------------------
(* A response m meets the first request; s is what the server has to       *)
(* answer after it.                                                        *)

LEMMA HandleResponseL ==
  ASSUME LInv, waitResp # << >>, NEW m, m.replyTo = waitResp[1].cseq,
         m.tag \in {0, m.replyTo}, HandleResponse(m),
         Matches(Tail(waitResp), atServer')
  PROVE  LinkOK' /\ Own(calls')
<1>1. waitResp \in Seq(Requests)
  BY DEF LInv, IInv, TypeOK
<1>2. Found(m.tag) = <<waitResp[1]>> /\ After(m.tag) = Tail(waitResp)
  BY <1>1, FirstIsFound
<1>3. Own(calls')
  BY <1>2, OwnReply DEF HandleResponse
<1>4. LinkOK'
  BY <1>2 DEF HandleResponse, LinkOK
<1>5. QED
  BY <1>3, <1>4

(* Only the resent request was waiting, so nothing is left to match.       *)
LEMMA ResendCommandL ==
  ASSUME LInv, waitResp # << >>, NEW m, m.replyTo = waitResp[1].cseq,
         m.tag \in {0, m.replyTo}, ResendCommand(m),
         Matches(Tail(waitResp), atServer')
  PROVE  LinkOK' /\ Own(calls')
<1>1. waitResp \in Seq(Requests)
  BY DEF LInv, IInv, TypeOK
<1>2. FoundAt(m.tag) = 1
  BY <1>1, FirstIsFound
<1>3. FoundAt(m.tag) = Len(waitResp) /\ waitResp' = << >> /\ partial' = None
  BY DEF ResendCommand
<1>4. LinkOK'
  <2>1. Len(Tail(waitResp)) = 0
    BY <1>1, <1>2, <1>3, HeadTailProperties
  <2>2. Len(atServer') = 0
    BY <2>1 DEF Matches
  <2>3. Matches(waitResp', atServer')
    BY <1>3, <2>2 DEF Matches
  <2>4. QED
    BY <1>3, <2>3 DEF LinkOK
<1> DEFINE again == [waitResp[FoundAt(m.tag)] EXCEPT !.cseq = CSeq + 1]
<1>5. calls' = <<Call("resend", again, 0)>>
  BY DEF ResendCommand
<1> HIDE DEF again
<1>6. Call("resend", again, 0).op = "resend"
  BY DEF Call
<1>7. Own(calls')
  BY <1>5, <1>6 DEF Own
<1>8. QED
  BY <1>4, <1>7

LEMMA ResponseArrivesL ==
  ASSUME LInv, NEW m \in Responses, ResponseArrives(m)
  PROVE  LinkOK' /\ Own(calls')
<1>1. waitResp \in Seq(Requests) /\ atServer \in Seq(2..MaxCSeq)
  BY DEF LInv, IInv, TypeOK
<1>2. Matches(waitResp, atServer)
  BY DEF ResponseArrives, LInv, LinkOK
<1>3. waitResp # << >>
  BY <1>1, <1>2 DEF ResponseArrives, Matches
<1>4. waitResp[1].cseq = m.replyTo /\ Matches(Tail(waitResp), atServer')
  BY <1>1, <1>2, <1>3, MatchTail DEF ResponseArrives
<1>5. m.tag \in {0, m.replyTo}
  BY DEF ResponseArrives
<1>6. CASE AwaitBody(m)
  <2>1. Found(m.tag) = <<waitResp[1]>> /\ After(m.tag) = Tail(waitResp)
    BY <1>1, <1>3, <1>4, <1>5, FirstIsFound
  <2>2. /\ waitResp' # << >> /\ waitResp'[1] = waitResp[1]
        /\ Tail(waitResp') = Tail(waitResp)
    BY <1>1, <1>3, <1>6, <2>1 DEF AwaitBody
  <2>3. partial' = m /\ m # None /\ calls' = calls
    BY <1>6 DEF AwaitBody, Responses, None
  <2>4. LinkOK'
    BY <1>4, <1>5, <2>2, <2>3 DEF LinkOK
  <2>5. QED
    BY <2>3, <2>4 DEF LInv
<1>7. CASE HandleResponse(m)
  BY <1>3, <1>4, <1>5, <1>7, HandleResponseL
<1>8. CASE ResendCommand(m)
  BY <1>3, <1>4, <1>5, <1>8, ResendCommandL
<1>9. QED
  BY <1>6, <1>7, <1>8 DEF ResponseArrives

LEMMA BodyArrivesL ==
  ASSUME LInv, BodyArrives
  PROVE  LinkOK' /\ Own(calls')
<1>1. /\ waitResp # << >>
      /\ waitResp[1].cseq = partial.replyTo
      /\ partial.tag \in {0, partial.replyTo}
      /\ Matches(Tail(waitResp), atServer)
  BY DEF BodyArrives, LInv, LinkOK
<1>2. Matches(Tail(waitResp), atServer')
  BY <1>1 DEF BodyArrives
<1>3. CASE HandleResponse(partial)
  BY <1>1, <1>2, <1>3, HandleResponseL
<1>4. CASE ResendCommand(partial)
  BY <1>1, <1>2, <1>4, ResendCommandL
<1>5. QED
  BY <1>3, <1>4 DEF BodyArrives

LEMMA NextLInv == LInv /\ [Next]_vars => LInv'
<1> SUFFICES ASSUME LInv, [Next]_vars PROVE LinkOK' /\ Own(calls')
  BY NextInv DEF LInv, Own
<1>1. CASE Issue
  BY <1>1, IssueL
<1>2. CASE CallHandler
  BY <1>2, CallHandlerL
<1>3. CASE AwaitConnection \/ OpenConnection
  BY <1>3, AwaitConnectionL
<1>4. CASE SendRequest
  BY <1>4, SendRequestL
<1>5. CASE SendFails
  BY <1>5, SendFailsL
<1>6. CASE Connected \/ ConnectionFailed
  BY <1>6, ConnectedL
<1>7. CASE ConnectionLost
  BY <1>7, ConnectionLostL
<1>8. CASE ResponseTruncated
  BY <1>8, ResponseTruncatedL
<1>9. CASE BodyArrives
  BY <1>9, BodyArrivesL
<1>10. CASE \E m \in Responses : ResponseArrives(m)
  BY <1>10, ResponseArrivesL
<1>11. CASE UNCHANGED vars
  <2>1. calls' = calls /\ UNCHANGED <<waitResp, partial, atServer>>
    BY <1>11 DEF vars, queueVars
  <2>2. QED
    BY <2>1, LinkStays DEF LInv
<1>12. QED
  BY <1>1, <1>2, <1>3, <1>4, <1>5, <1>6, <1>7, <1>8, <1>9, <1>10, <1>11
  DEF Next

(* A response the server sends reaches the handler of the request it       *)
(* answers, even without a CSeq and when its body comes late.              *)
THEOREM ResponsesMeetRequests == Spec => []AnswersOwnRequest
<1>1. LInv => AnswersOwnRequest
  BY DEF LInv, Own, AnswersOwnRequest
<1>2. QED
  BY InitLInv, NextLInv, <1>1, PTL DEF Spec

-----------------------------------------------------------------------------
(* Every request is handled once *)

One(b) == IF b THEN 1 ELSE 0

(* How often request i is in a queue, and in a list of calls.              *)
Count(q, i) == Cardinality(QueuedIn(q, i))

CallsOf(s, i) == {n \in DOMAIN s : s[n].req.id = i}

CallCount(s, i) == Cardinality(CallsOf(s, i))

-----------------------------------------------------------------------------
(* Counting positions *)

LEMMA PositionsFinite ==
  ASSUME NEW k \in Nat, NEW A \in SUBSET (1..k)
  PROVE  IsFiniteSet(A) /\ Cardinality(A) \in Nat
<1>1. IsFiniteSet(1..k)
  BY FS_Interval
<1>2. IsFiniteSet(A)
  BY <1>1, FS_Subset
<1> QED
  BY <1>2, FS_CardinalityType

(* Positions A, and others that are those of B moved behind them.         *)
LEMMA MovedCount ==
  ASSUME NEW A, NEW B, NEW T, NEW f \in Bijection(B, T),
         IsFiniteSet(A), IsFiniteSet(B), A \cap T = {}
  PROVE  Cardinality(A \cup T) = Cardinality(A) + Cardinality(B)
<1>1. IsFiniteSet(T) /\ Cardinality(T) = Cardinality(B)
  BY FS_Bijection DEF ExistsBijection
<1>2. Cardinality(A \cap T) = 0
  BY FS_EmptySet
<1>3. Cardinality(A \cup T) = Cardinality(A) + Cardinality(T) - Cardinality(A \cap T)
  BY <1>1, FS_Union
<1>4. Cardinality(A) \in Nat /\ Cardinality(T) \in Nat
  BY <1>1, FS_CardinalityType
<1> QED
  BY <1>1, <1>2, <1>3, <1>4

LEMMA CountType ==
  ASSUME NEW q \in Seq(Requests), NEW i
  PROVE  /\ Count(q, i) \in Nat /\ IsFiniteSet(QueuedIn(q, i))
         /\ Count(q, i) = 0 <=> \A n \in DOMAIN q : q[n].id # i
<1>1. IsFiniteSet(QueuedIn(q, i))
  <2>1. Len(q) \in Nat /\ QueuedIn(q, i) \in SUBSET (1..Len(q))
    BY DEF QueuedIn
  <2> QED
    BY <2>1, PositionsFinite
<1>2. Count(q, i) \in Nat
  BY <1>1, FS_CardinalityType DEF Count
<1>3. Count(q, i) = 0 <=> QueuedIn(q, i) = {}
  BY <1>1, FS_EmptySet DEF Count
<1>4. QueuedIn(q, i) = {} <=> \A n \in DOMAIN q : q[n].id # i
  BY DEF QueuedIn
<1> QED
  BY <1>1, <1>2, <1>3, <1>4

LEMMA CallCountType ==
  ASSUME NEW s \in Seq(Calls), NEW i
  PROVE  /\ CallCount(s, i) \in Nat /\ IsFiniteSet(CallsOf(s, i))
         /\ CallCount(s, i) = 0 <=> \A n \in DOMAIN s : s[n].req.id # i
<1>1. IsFiniteSet(CallsOf(s, i))
  <2>1. Len(s) \in Nat /\ CallsOf(s, i) \in SUBSET (1..Len(s))
    BY DEF CallsOf
  <2> QED
    BY <2>1, PositionsFinite
<1>2. CallCount(s, i) \in Nat
  BY <1>1, FS_CardinalityType DEF CallCount
<1>3. CallCount(s, i) = 0 <=> CallsOf(s, i) = {}
  BY <1>1, FS_EmptySet DEF CallCount
<1>4. CallsOf(s, i) = {} <=> \A n \in DOMAIN s : s[n].req.id # i
  BY DEF CallsOf
<1> QED
  BY <1>1, <1>2, <1>3, <1>4

LEMMA ConcatCount ==
  ASSUME NEW q \in Seq(Requests), NEW r \in Seq(Requests), NEW i
  PROVE  Count(q \o r, i) = Count(q, i) + Count(r, i)
<1> DEFINE k == Len(q)  m == Len(r)
           A == QueuedIn(q, i)  B == QueuedIn(r, i)
           T == {n \in (k + 1)..(k + m) : n - k \in B}
           f == [n \in B |-> n + k]
<1>1. /\ k \in Nat /\ m \in Nat
      /\ DOMAIN q = 1..k /\ DOMAIN r = 1..m /\ DOMAIN (q \o r) = 1..(k + m)
      /\ \A n \in 1..k : (q \o r)[n] = q[n]
      /\ \A n \in (k + 1)..(k + m) : (q \o r)[n] = r[n - k]
  OBVIOUS
<1>2. A \in SUBSET (1..k) /\ B \in SUBSET (1..m)
  BY <1>1 DEF QueuedIn
<1>3. QueuedIn(q \o r, i) = A \cup T
  <2> HIDE DEF k, m
  <2>1. 1..(k + m) = (1..k) \cup ((k + 1)..(k + m))
    BY <1>1
  <2>2. \A n \in (k + 1)..(k + m) : n - k \in 1..m
    BY <1>1
  <2> QED
    BY <1>1, <2>1, <2>2 DEF QueuedIn
<1> HIDE DEF k, m, A, B
<1>4. f \in Bijection(B, T)
  <2>1. f \in [B -> T]
    BY <1>1, <1>2
  <2>2. \A x, y \in B : f[x] = f[y] => x = y
    BY <1>1, <1>2
  <2>3. \A t \in T : \E x \in B : f[x] = t
    <3> TAKE t \in T
    <3>1. t - k \in B /\ f[t - k] = t
      BY <1>1
    <3> QED
      BY <3>1
  <2> QED
    BY <2>1, <2>2, <2>3 DEF Bijection, Injection, Surjection, IsInjective
<1>5. IsFiniteSet(A) /\ IsFiniteSet(B)
  BY CountType DEF A, B
<1>6. A \cap T = {}
  BY <1>1, <1>2
<1> HIDE DEF T, f
<1>7. Cardinality(A \cup T) = Cardinality(A) + Cardinality(B)
  BY <1>4, <1>5, <1>6, MovedCount
<1> QED
  BY <1>3, <1>7 DEF Count, A, B

LEMMA ConcatCallCount ==
  ASSUME NEW q \in Seq(Calls), NEW r \in Seq(Calls), NEW i
  PROVE  CallCount(q \o r, i) = CallCount(q, i) + CallCount(r, i)
<1> DEFINE k == Len(q)  m == Len(r)
           A == CallsOf(q, i)  B == CallsOf(r, i)
           T == {n \in (k + 1)..(k + m) : n - k \in B}
           f == [n \in B |-> n + k]
<1>1. /\ k \in Nat /\ m \in Nat
      /\ DOMAIN q = 1..k /\ DOMAIN r = 1..m /\ DOMAIN (q \o r) = 1..(k + m)
      /\ \A n \in 1..k : (q \o r)[n] = q[n]
      /\ \A n \in (k + 1)..(k + m) : (q \o r)[n] = r[n - k]
  OBVIOUS
<1>2. A \in SUBSET (1..k) /\ B \in SUBSET (1..m)
  BY <1>1 DEF CallsOf
<1>3. CallsOf(q \o r, i) = A \cup T
  <2> HIDE DEF k, m
  <2>1. 1..(k + m) = (1..k) \cup ((k + 1)..(k + m))
    BY <1>1
  <2>2. \A n \in (k + 1)..(k + m) : n - k \in 1..m
    BY <1>1
  <2> QED
    BY <1>1, <2>1, <2>2 DEF CallsOf
<1> HIDE DEF k, m, A, B
<1>4. f \in Bijection(B, T)
  <2>1. f \in [B -> T]
    BY <1>1, <1>2
  <2>2. \A x, y \in B : f[x] = f[y] => x = y
    BY <1>1, <1>2
  <2>3. \A t \in T : \E x \in B : f[x] = t
    <3> TAKE t \in T
    <3>1. t - k \in B /\ f[t - k] = t
      BY <1>1
    <3> QED
      BY <3>1
  <2> QED
    BY <2>1, <2>2, <2>3 DEF Bijection, Injection, Surjection, IsInjective
<1>5. IsFiniteSet(A) /\ IsFiniteSet(B)
  BY CallCountType DEF A, B
<1>6. A \cap T = {}
  BY <1>1, <1>2
<1> HIDE DEF T, f
<1>7. Cardinality(A \cup T) = Cardinality(A) + Cardinality(B)
  BY <1>4, <1>5, <1>6, MovedCount
<1> QED
  BY <1>3, <1>7 DEF CallCount, A, B

(* Short queues, and what adding at the end or taking off the head does.   *)
LEMMA EmptyCount ==
  ASSUME NEW i
  PROVE  Count(<< >>, i) = 0 /\ CallCount(<< >>, i) = 0
<1>1. QueuedIn(<< >>, i) = {} /\ CallsOf(<< >>, i) = {}
  BY DEF QueuedIn, CallsOf
<1> QED
  BY <1>1, FS_EmptySet DEF Count, CallCount

LEMMA SingleCount ==
  ASSUME NEW r \in Requests, NEW i
  PROVE  Count(<<r>>, i) = One(r.id = i)
<1>1. QueuedIn(<<r>>, i) = IF r.id = i THEN {1} ELSE {}
  BY DEF QueuedIn
<1> QED
  BY <1>1, FS_EmptySet, FS_Singleton DEF Count, One

LEMMA SingleCallCount ==
  ASSUME NEW c \in Calls, NEW i
  PROVE  CallCount(<<c>>, i) = One(c.req.id = i)
<1>1. CallsOf(<<c>>, i) = IF c.req.id = i THEN {1} ELSE {}
  BY DEF CallsOf
<1> QED
  BY <1>1, FS_EmptySet, FS_Singleton DEF CallCount, One

LEMMA AppendCount ==
  ASSUME NEW q \in Seq(Requests), NEW r \in Requests, NEW i
  PROVE  Count(Append(q, r), i) = Count(q, i) + One(r.id = i)
<1>1. Append(q, r) = q \o <<r>> /\ <<r>> \in Seq(Requests)
  OBVIOUS
<1>2. Count(q \o <<r>>, i) = Count(q, i) + Count(<<r>>, i)
  BY <1>1, ConcatCount
<1> QED
  BY <1>1, <1>2, SingleCount

LEMMA TailCount ==
  ASSUME NEW q \in Seq(Requests), q # << >>, NEW i
  PROVE  Count(q, i) = One(q[1].id = i) + Count(Tail(q), i)
<1>1. /\ q[1] \in Requests /\ Tail(q) \in Seq(Requests)
      /\ <<q[1]>> \in Seq(Requests) /\ q = <<q[1]>> \o Tail(q)
  OBVIOUS
<1>2. Count(<<q[1]>> \o Tail(q), i) = Count(<<q[1]>>, i) + Count(Tail(q), i)
  BY <1>1, ConcatCount
<1>3. Count(<<q[1]>>, i) = One(q[1].id = i)
  BY <1>1, SingleCount
<1>4. Count(q, i) = Count(<<q[1]>> \o Tail(q), i)
  BY <1>1
<1> QED
  BY <1>2, <1>3, <1>4

LEMMA TailCallCount ==
  ASSUME NEW s \in Seq(Calls), s # << >>, NEW i
  PROVE  CallCount(s, i) = One(s[1].req.id = i) + CallCount(Tail(s), i)
<1>1. /\ s[1] \in Calls /\ Tail(s) \in Seq(Calls)
      /\ <<s[1]>> \in Seq(Calls) /\ s = <<s[1]>> \o Tail(s)
  OBVIOUS
<1>2. CallCount(<<s[1]>> \o Tail(s), i)
        = CallCount(<<s[1]>>, i) + CallCount(Tail(s), i)
  BY <1>1, ConcatCallCount
<1>3. CallCount(<<s[1]>>, i) = One(s[1].req.id = i)
  BY <1>1, SingleCallCount
<1>4. CallCount(s, i) = CallCount(<<s[1]>> \o Tail(s), i)
  BY <1>1
<1> QED
  BY <1>2, <1>3, <1>4

(* A queue that becomes calls.                                             *)
LEMMA QueueToCalls ==
  ASSUME NEW q, NEW reply, NEW i
  PROVE  /\ CallCount(Send(q), i) = Count(q, i)
         /\ CallCount(Answer(q, reply), i) = Count(q, i)
<1>1. CallsOf(Send(q), i) = QueuedIn(q, i)
  BY DEF CallsOf, QueuedIn, Send, Call
<1>2. CallsOf(Answer(q, reply), i) = QueuedIn(q, i)
  BY DEF CallsOf, QueuedIn, Answer, Call
<1> QED
  BY <1>1, <1>2 DEF CallCount, Count

LEMMA PlacesCount ==
  ASSUME NEW i
  PROVE  Places(i) = Count(waitConn, i) + Count(waitResp, i) + CallCount(calls, i)
  BY DEF Places, Count, CallCount, CallsOf

LEMMA PlacesCountNext ==
  ASSUME NEW i
  PROVE  Places(i)' = Count(waitConn', i) + Count(waitResp', i)
                        + CallCount(calls', i)
  BY DEF Places, Count, CallCount, CallsOf, QueuedIn

-----------------------------------------------------------------------------
(* The inductive invariant *)

(* Requests that were not issued are nowhere; the others have their        *)
(* handler's calls and the places that hold them in balance.               *)
Balanced ==
  \A i \in Ids :
    answers[i] + Places(i) =
      IF i > issued THEN 0 ELSE IF i \in unsent THEN 2 ELSE 1

Free(q, U) == \A n \in DOMAIN q : q[n].id \notin U

OnlyAnswers(s, U) == \A n \in DOMAIN s : s[n].req.id \in U => s[n].op = "answer"

(* A request that could not be sent again is held only by calls of its     *)
(* handler: it is not sent a third time.                                   *)
UnsentOnlyTold ==
  /\ unsent \subseteq 1..issued
  /\ Free(waitConn, unsent)
  /\ Free(waitResp, unsent)
  /\ OnlyAnswers(calls, unsent)

HInv == LInv /\ Balanced /\ UnsentOnlyTold

LEMMA Types ==
  ASSUME HInv
  PROVE  /\ TypeOK
         /\ waitConn \in Seq(Requests) /\ waitResp \in Seq(Requests)
         /\ calls \in Seq(Calls)
         /\ issued \in Nat
         /\ \A i \in Ids : i \in Nat \ {0} /\ answers[i] \in Nat
<1>1. TypeOK
  BY DEF HInv, LInv, IInv
<1>2. issued \in Nat
  BY <1>1, BoundsAssumption DEF TypeOK
<1>3. ASSUME NEW i \in Ids PROVE i \in Nat \ {0} /\ answers[i] \in Nat
  <2>1. answers[i] \in 0..2
    BY <1>1 DEF TypeOK
  <2>2. i \in Nat \ {0}
    BY BoundsAssumption DEF Ids
  <2> QED
    BY <2>1, <2>2
<1> QED
  BY <1>1, <1>2, <1>3 DEF TypeOK

LEMMA NextTypes ==
  ASSUME HInv, Next
  PROVE  /\ TypeOK' /\ LInv'
         /\ waitConn' \in Seq(Requests) /\ waitResp' \in Seq(Requests)
         /\ calls' \in Seq(Calls)
<1>1. LInv'
  BY NextLInv DEF HInv
<1> QED
  BY <1>1 DEF LInv, IInv, TypeOK

LEMMA FreeAppend ==
  ASSUME NEW U, NEW q \in Seq(Requests), Free(q, U), NEW r \in Requests, r.id \notin U
  PROVE  Free(Append(q, r), U)
  BY DEF Free

LEMMA FreeTail ==
  ASSUME NEW U, NEW q \in Seq(Requests), q # << >>, Free(q, U)
  PROVE  q[1].id \notin U /\ Free(Tail(q), U)
<1>1. /\ Len(q) \in Nat \ {0} /\ DOMAIN q = 1..Len(q)
      /\ DOMAIN Tail(q) = 1..(Len(q) - 1)
      /\ \A n \in 1..(Len(q) - 1) : Tail(q)[n] = q[n + 1]
  OBVIOUS
<1> QED
  BY <1>1 DEF Free

LEMMA OnlyAnswersConcat ==
  ASSUME NEW U, NEW s \in Seq(Calls), NEW t \in Seq(Calls),
         OnlyAnswers(s, U), OnlyAnswers(t, U)
  PROVE  OnlyAnswers(s \o t, U)
<1>1. /\ Len(s) \in Nat /\ Len(t) \in Nat
      /\ DOMAIN s = 1..Len(s) /\ DOMAIN t = 1..Len(t)
      /\ DOMAIN (s \o t) = 1..(Len(s) + Len(t))
      /\ \A n \in 1..(Len(s) + Len(t)) :
           (s \o t)[n] = IF n <= Len(s) THEN s[n] ELSE t[n - Len(s)]
  OBVIOUS
<1>2. SUFFICES ASSUME NEW n \in 1..(Len(s) + Len(t))
               PROVE  (s \o t)[n].req.id \in U => (s \o t)[n].op = "answer"
  BY <1>1 DEF OnlyAnswers
<1>3. CASE n <= Len(s)
  BY <1>1, <1>3 DEF OnlyAnswers
<1>4. CASE ~(n <= Len(s))
  <2>1. n - Len(s) \in DOMAIN t
    BY <1>1, <1>4
  <2> QED
    BY <1>1, <1>4, <2>1 DEF OnlyAnswers
<1> QED
  BY <1>3, <1>4

LEMMA OnlyAnswersTail ==
  ASSUME NEW U, NEW s \in Seq(Calls), s # << >>, OnlyAnswers(s, U)
  PROVE  /\ s[1].req.id \in U => s[1].op = "answer"
         /\ OnlyAnswers(Tail(s), U)
<1>1. /\ Len(s) \in Nat \ {0} /\ DOMAIN s = 1..Len(s)
      /\ DOMAIN Tail(s) = 1..(Len(s) - 1)
      /\ \A n \in 1..(Len(s) - 1) : Tail(s)[n] = s[n + 1]
  OBVIOUS
<1> QED
  BY <1>1 DEF OnlyAnswers

LEMMA OnlyAnswersQueue ==
  ASSUME NEW U, NEW q, NEW reply
  PROVE  /\ OnlyAnswers(Answer(q, reply), U)
         /\ Free(q, U) => OnlyAnswers(Send(q), U)
  BY DEF OnlyAnswers, Free, Answer, Send, Call

(* A step that moves requests between places keeps the balance.            *)
LEMMA Moved ==
  ASSUME HInv, UNCHANGED <<answers, issued, unsent>>,
         \A i \in Ids : Places(i)' = Places(i)
  PROVE  Balanced'
  BY DEF HInv, Balanced

-----------------------------------------------------------------------------
(* Steps of sendRequest() *)

(* The call that is carried out is held by calls, and by no other place    *)
(* but, once it could not be sent, another call of its handler.            *)
LEMMA HeldCall ==
  ASSUME HInv, calls # << >>
  PROVE  /\ calls[1] \in Calls /\ calls[1].req \in Requests
         /\ calls[1].req.id \in Ids /\ calls[1].req.id <= issued
         /\ Tail(calls) \in Seq(Calls)
         /\ Places(calls[1].req.id) \in Nat \ {0}
         /\ OnlyAnswers(Tail(calls), unsent)
<1> DEFINE c == calls[1]
           i == c.req.id
<1>1. calls \in Seq(Calls) /\ c \in Calls /\ Tail(calls) \in Seq(Calls)
  BY Types
<1>2. c.req \in Requests /\ i \in Ids
  BY <1>1 DEF Calls, Requests
<1>3. CallCount(calls, i) = One(c.req.id = i) + CallCount(Tail(calls), i)
  BY <1>1, TailCallCount
<1>4. /\ Count(waitConn, i) \in Nat /\ Count(waitResp, i) \in Nat
      /\ CallCount(Tail(calls), i) \in Nat
  BY <1>1, Types, CountType, CallCountType
<1>5. Places(i) = Count(waitConn, i) + Count(waitResp, i) + CallCount(calls, i)
  BY PlacesCount
<1> HIDE DEF i
<1>6. Places(i) \in Nat \ {0}
  BY <1>3, <1>4, <1>5 DEF One, i
<1>7. answers[i] \in Nat /\ issued \in Nat /\ i \in Nat
  BY <1>2, Types
<1>8. i <= issued
  BY <1>2, <1>6, <1>7 DEF HInv, Balanced
<1>9. OnlyAnswers(Tail(calls), unsent)
  BY <1>1, OnlyAnswersTail DEF HInv, UnsentOnlyTold
<1> QED
  BY <1>1, <1>2, <1>6, <1>8, <1>9 DEF i

LEMMA SendingH ==
  ASSUME HInv, Sending
  PROVE  calls # << >> /\ calls[1].req.id \notin unsent
<1>1. calls # << >> /\ calls[1].op # "answer"
  BY DEF Sending
<1> QED
  BY <1>1, Types, OnlyAnswersTail DEF HInv, UnsentOnlyTold

LEMMA AwaitConnectionH ==
  ASSUME HInv, AwaitConnection \/ OpenConnection
  PROVE  Balanced' /\ UnsentOnlyTold'
<1> DEFINE c == calls[1]
<1>1. Sending /\ UNCHANGED <<answers, issued, unsent>>
  BY DEF AwaitConnection, OpenConnection, appVars
<1>2. calls # << >> /\ c.req.id \notin unsent
  BY <1>1, SendingH
<1>3. waitConn \in Seq(Requests) /\ c.req \in Requests /\ Tail(calls) \in Seq(Calls)
  BY <1>2, HeldCall, Types
<1>4. /\ waitConn' = Append(waitConn, c.req)
      /\ calls' = Tail(calls) /\ waitResp' = waitResp
  <2>1. waitConn = << >> => Append(waitConn, c.req) = <<c.req>>
    OBVIOUS
  <2> QED
    BY <2>1 DEF AwaitConnection, OpenConnection
<1>5. ASSUME NEW i \in Ids PROVE Places(i)' = Places(i)
  <2>1. Count(waitConn', i) = Count(waitConn, i) + One(c.req.id = i)
    BY <1>3, <1>4, AppendCount
  <2>2. CallCount(calls, i) = One(c.req.id = i) + CallCount(calls', i)
    BY <1>2, <1>4, Types, TailCallCount
  <2>3. /\ Count(waitConn, i) \in Nat /\ Count(waitResp, i) \in Nat
        /\ CallCount(calls', i) \in Nat /\ One(c.req.id = i) \in Nat
    BY <1>3, <1>4, Types, CountType, CallCountType DEF One
  <2> QED
    BY <1>4, <2>1, <2>2, <2>3, PlacesCount, PlacesCountNext
<1>6. UnsentOnlyTold'
  BY <1>1, <1>2, <1>3, <1>4, HeldCall, FreeAppend DEF HInv, UnsentOnlyTold
<1> QED
  BY <1>1, <1>5, <1>6, Moved

LEMMA SendRequestH ==
  ASSUME HInv, SendRequest
  PROVE  Balanced' /\ UnsentOnlyTold'
<1> DEFINE c == calls[1]
<1>1. Sending /\ UNCHANGED <<answers, issued, unsent>>
  BY DEF SendRequest, appVars
<1>2. calls # << >> /\ c.req.id \notin unsent
  BY <1>1, SendingH
<1>3. waitResp \in Seq(Requests) /\ c.req \in Requests /\ Tail(calls) \in Seq(Calls)
  BY <1>2, HeldCall, Types
<1>4. /\ waitResp' = Append(waitResp, c.req)
      /\ calls' = Tail(calls) /\ waitConn' = waitConn
  BY DEF SendRequest
<1>5. ASSUME NEW i \in Ids PROVE Places(i)' = Places(i)
  <2>1. Count(waitResp', i) = Count(waitResp, i) + One(c.req.id = i)
    BY <1>3, <1>4, AppendCount
  <2>2. CallCount(calls, i) = One(c.req.id = i) + CallCount(calls', i)
    BY <1>2, <1>4, Types, TailCallCount
  <2>3. /\ Count(waitConn, i) \in Nat /\ Count(waitResp, i) \in Nat
        /\ CallCount(calls', i) \in Nat /\ One(c.req.id = i) \in Nat
    BY <1>3, <1>4, Types, CountType, CallCountType DEF One
  <2> QED
    BY <1>4, <2>1, <2>2, <2>3, PlacesCount, PlacesCountNext
<1>6. UnsentOnlyTold'
  BY <1>1, <1>2, <1>3, <1>4, HeldCall, FreeAppend DEF HInv, UnsentOnlyTold
<1> QED
  BY <1>1, <1>5, <1>6, Moved

(* The handler of a new request is called once; a request that was to be   *)
(* sent again is held twice from now on, and nowhere else.                 *)
LEMMA SendFailsH ==
  ASSUME HInv, SendFails
  PROVE  Balanced' /\ UnsentOnlyTold'
<1> DEFINE r == calls[1].req
           rest == Tail(calls)
<1>1. Sending /\ UNCHANGED <<answers, issued, waitConn, waitResp>>
  BY DEF SendFails
<1>2. calls # << >> /\ r.id \notin unsent
  BY <1>1, SendingH
<1>3. /\ r \in Requests /\ rest \in Seq(Calls) /\ r.id \in Ids /\ r.id <= issued
      /\ OnlyAnswers(rest, unsent)
  BY <1>2, HeldCall
<1>4. <<r>> \in Seq(Requests) /\ <<r, r>> \in Seq(Requests) /\ 0 \in 0..MaxCSeq
  BY <1>3, BoundsAssumption
<1>5. Answer(<<r>>, 0) \in Seq(Calls) /\ Answer(<<r, r>>, 0) \in Seq(Calls)
  BY <1>4, QueueCalls
<1>6. ASSUME NEW i
      PROVE  /\ CallCount(Answer(<<r>>, 0) \o rest, i) = One(r.id = i) + CallCount(rest, i)
             /\ CallCount(Answer(<<r, r>>, 0) \o rest, i)
                  = One(r.id = i) + One(r.id = i) + CallCount(rest, i)
             /\ CallCount(calls, i) = One(r.id = i) + CallCount(rest, i)
             /\ Count(waitConn, i) \in Nat /\ Count(waitResp, i) \in Nat
             /\ CallCount(rest, i) \in Nat
  <2>1. /\ Count(<<r>>, i) = One(r.id = i)
        /\ Count(<<r, r>>, i) = Count(<<r>>, i) + One(r.id = i)
    <3> DEFINE one == <<r>>
    <3>1. Count(one, i) = One(r.id = i)
      BY <1>3, SingleCount
    <3>2. <<r, r>> = Append(one, r) /\ one \in Seq(Requests)
      BY <1>4
    <3> HIDE DEF one, r
    <3>3. Count(Append(one, r), i) = Count(one, i) + One(r.id = i)
      BY <1>3, <3>2, AppendCount
    <3> QED
      BY <3>1, <3>2, <3>3 DEF one
  <2>2. /\ CallCount(Answer(<<r>>, 0), i) = Count(<<r>>, i)
        /\ CallCount(Answer(<<r, r>>, 0), i) = Count(<<r, r>>, i)
    BY QueueToCalls
  <2>3. CallCount(calls, i) = One(r.id = i) + CallCount(rest, i)
    BY <1>2, Types, TailCallCount
  <2>4. /\ CallCount(Answer(<<r>>, 0) \o rest, i)
             = CallCount(Answer(<<r>>, 0), i) + CallCount(rest, i)
        /\ CallCount(Answer(<<r, r>>, 0) \o rest, i)
             = CallCount(Answer(<<r, r>>, 0), i) + CallCount(rest, i)
    <3>1. \A q \in Seq(Calls) : CallCount(q \o rest, i) = CallCount(q, i) + CallCount(rest, i)
      BY <1>3, ConcatCallCount
    <3> QED
      BY <1>5, <3>1
  <2>5. /\ Count(waitConn, i) \in Nat /\ Count(waitResp, i) \in Nat
        /\ CallCount(rest, i) \in Nat
    BY <1>3, Types, CountType, CallCountType
  <2> HIDE DEF r, rest
  <2> QED
    BY <2>1, <2>2, <2>3, <2>4, <2>5
<1> HIDE DEF r, rest
<1>7. CASE calls' = Answer(<<r>>, 0) \o rest /\ unsent' = unsent
  <2>1. ASSUME NEW i \in Ids PROVE Places(i)' = Places(i)
    <3>1. CallCount(calls', i) = CallCount(calls, i)
      BY <1>6, <1>7
    <3> QED
      BY <1>1, <3>1, PlacesCount, PlacesCountNext
  <2>2. OnlyAnswers(calls', unsent)
    BY <1>3, <1>5, <1>7, OnlyAnswersQueue, OnlyAnswersConcat
  <2> QED
    BY <1>1, <1>7, <2>1, <2>2, Moved DEF HInv, UnsentOnlyTold
<1>8. CASE calls' = Answer(<<r, r>>, 0) \o rest /\ unsent' = unsent \cup {r.id}
  <2>1. answers[r.id] + Places(r.id) = 1 /\ answers[r.id] \in Nat
    <3>1. r.id \in Nat /\ issued \in Nat /\ answers[r.id] \in Nat
      BY <1>3, Types
    <3> QED
      BY <1>2, <1>3, <3>1 DEF HInv, Balanced
  <2>2. /\ Count(waitConn, r.id) = 0 /\ Count(waitResp, r.id) = 0
        /\ CallCount(rest, r.id) = 0
    BY <1>6, <2>1, PlacesCount DEF One
  <2>3. Balanced'
    <3> SUFFICES ASSUME NEW i \in Ids
                 PROVE  answers[i] + Places(i)' =
                          IF i > issued THEN 0
                          ELSE IF i \in unsent \cup {r.id} THEN 2 ELSE 1
      BY <1>1, <1>8 DEF Balanced
    <3>1. Places(i)' = Places(i) + One(r.id = i)
      <4>1. CallCount(calls', i) = CallCount(calls, i) + One(r.id = i)
        BY SMTT(30), <1>6, <1>8 DEF One
      <4>2. One(r.id = i) \in Nat /\ CallCount(calls, i) \in Nat
        BY Types, CallCountType DEF One
      <4> QED
        BY <1>1, <1>6, <4>1, <4>2, PlacesCount, PlacesCountNext
    <3>2. CASE r.id = i
      <4>1. Places(i) \in Nat
        BY <1>2, <3>2, HeldCall DEF r
      <4>2. ~(i > issued)
        BY <1>3, <3>2, Types
      <4> QED
        BY <2>1, <3>1, <3>2, <4>1, <4>2 DEF One
    <3>3. CASE r.id # i
      <4>1. Places(i) \in Nat
        BY <1>6, PlacesCount DEF One
      <4>2. Places(i)' = Places(i)
        BY <3>1, <3>3, <4>1 DEF One
      <4> QED
        BY <3>3, <4>2 DEF HInv, Balanced
    <3> QED
      BY <3>2, <3>3
  <2>4. UnsentOnlyTold'
    <3>1. unsent' \subseteq 1..issued
      <4>1. r.id \in 1..issued
        <5>1. r.id \in Nat \ {0} /\ issued \in Nat
          BY <1>3, Types
        <5> QED
          BY <1>3, <5>1
      <4> QED
        BY <4>1, <1>8 DEF HInv, UnsentOnlyTold
    <3>2. Free(waitConn, unsent') /\ Free(waitResp, unsent')
      BY <1>8, <2>2, Types, CountType DEF HInv, UnsentOnlyTold, Free
    <3>3. OnlyAnswers(rest, unsent')
      BY <1>3, <1>8, <2>2, CallCountType DEF OnlyAnswers
    <3>4. OnlyAnswers(calls', unsent')
      BY <1>3, <1>5, <1>8, <3>3, OnlyAnswersQueue, OnlyAnswersConcat
    <3> QED
      BY <1>1, <3>1, <3>2, <3>4 DEF UnsentOnlyTold
  <2> QED
    BY <2>3, <2>4
<1> QED
  BY <1>7, <1>8 DEF SendFails, r, rest

-----------------------------------------------------------------------------
(* Issuing requests, and calling handlers *)

(* The call of a new request comes before the calls in rest.               *)
LEMMA NewCallCount ==
  ASSUME HInv, NEW rest \in Seq(Calls), SendCommand(rest)
  PROVE  /\ issued + 1 \in Ids /\ issued' = issued + 1
         /\ \A i : CallCount(calls', i) = One(issued + 1 = i) + CallCount(rest, i)
         /\ OnlyAnswers(rest, unsent) => OnlyAnswers(calls', unsent)
<1> DEFINE c == Call("send", NewRequest, 0)
<1>1. issued < MaxRequests /\ CSeq < MaxCSeq
  BY DEF SendCommand, MayIssue
<1>2. c \in Calls
  BY <1>1, Types, NewRequestIsOne
<1>3. c.req.id = issued + 1
  BY DEF Call, NewRequest
<1>4. issued + 1 \in Ids
  BY <1>1, Types, BoundsAssumption DEF Ids
<1>5. issued + 1 \notin unsent
  BY Types DEF HInv, UnsentOnlyTold
<1>6. calls' = <<c>> \o rest /\ issued' = issued + 1
  BY DEF SendCommand
<1> HIDE DEF c
<1>7. ASSUME NEW i
      PROVE  CallCount(calls', i) = One(issued + 1 = i) + CallCount(rest, i)
  <2>1. <<c>> \in Seq(Calls)
    BY <1>2
  <2>2. CallCount(<<c>> \o rest, i) = CallCount(<<c>>, i) + CallCount(rest, i)
    BY <2>1, ConcatCallCount
  <2>3. CallCount(<<c>>, i) = One(c.req.id = i)
    BY <1>2, SingleCallCount
  <2> QED
    BY <1>3, <1>6, <2>2, <2>3
<1>8. ASSUME OnlyAnswers(rest, unsent) PROVE OnlyAnswers(calls', unsent)
  <2>1. <<c>> \in Seq(Calls)
    BY <1>2
  <2>2. OnlyAnswers(<<c>>, unsent)
    BY <1>3, <1>5 DEF OnlyAnswers
  <2> QED
    BY <1>6, <1>8, <2>1, <2>2, OnlyAnswersConcat
<1> QED
  BY <1>4, <1>6, <1>7, <1>8

LEMMA IssueH ==
  ASSUME HInv, Issue
  PROVE  Balanced' /\ UnsentOnlyTold'
<1>1. << >> \in Seq(Calls) /\ OnlyAnswers(<< >>, unsent)
  BY DEF OnlyAnswers
<1>2. /\ UNCHANGED <<waitConn, waitResp, answers, unsent>>
      /\ calls = << >> /\ SendCommand(<< >>)
  BY DEF Issue, InEventLoop, queueVars
<1>3. /\ issued + 1 \in Ids /\ issued' = issued + 1
      /\ \A i : CallCount(calls', i) = One(issued + 1 = i) + CallCount(<< >>, i)
      /\ OnlyAnswers(calls', unsent)
  BY <1>1, <1>2, NewCallCount
<1>4. Balanced'
  <2> SUFFICES ASSUME NEW i \in Ids
               PROVE  answers[i] + Places(i)' =
                        IF i > issued + 1 THEN 0 ELSE IF i \in unsent THEN 2 ELSE 1
    BY <1>2, <1>3 DEF Balanced
  <2>1. Places(i)' = Places(i) + One(issued + 1 = i)
    <3>1. CallCount(<< >>, i) = 0
      BY EmptyCount
    <3>2. CallCount(calls', i) = One(issued + 1 = i)
      BY <1>3, <3>1 DEF One
    <3>3. /\ Count(waitConn, i) \in Nat /\ Count(waitResp, i) \in Nat
          /\ One(issued + 1 = i) \in Nat
      BY Types, CountType DEF One
    <3> QED
      BY <1>2, <3>1, <3>2, <3>3, PlacesCount, PlacesCountNext
  <2>2. answers[i] \in Nat /\ i \in Nat /\ issued \in Nat
    BY Types
  <2>3. Places(i) \in Nat
    BY Types, CountType, CallCountType, PlacesCount
  <2>4. unsent \subseteq 1..issued
    BY DEF HInv, UnsentOnlyTold
  <2>5. answers[i] + Places(i) =
          IF i > issued THEN 0 ELSE IF i \in unsent THEN 2 ELSE 1
    BY DEF HInv, Balanced
  <2>6. CASE i = issued + 1
    BY <2>1, <2>2, <2>3, <2>4, <2>5, <2>6 DEF One
  <2>7. CASE i # issued + 1
    BY <2>1, <2>2, <2>3, <2>5, <2>7 DEF One
  <2> QED
    BY <2>6, <2>7
<1>5. UnsentOnlyTold'
  <2>1. unsent \subseteq 1..(issued + 1)
    BY Types DEF HInv, UnsentOnlyTold
  <2> QED
    BY <1>2, <1>3, <2>1 DEF HInv, UnsentOnlyTold
<1> QED
  BY <1>4, <1>5

LEMMA CallHandlerH ==
  ASSUME HInv, CallHandler
  PROVE  Balanced' /\ UnsentOnlyTold'
<1> DEFINE h == calls[1].req.id
           rest == Tail(calls)
<1>1. /\ calls # << >>
      /\ answers' = [answers EXCEPT ![h] = IF @ = 0 THEN 1 ELSE 2]
      /\ UNCHANGED <<waitConn, waitResp, unsent>>
      /\ \/ calls' = rest /\ issued' = issued
         \/ SendCommand(rest)
  BY DEF CallHandler, queueVars
<1>2. /\ h \in Ids /\ h <= issued /\ rest \in Seq(Calls)
      /\ Places(h) \in Nat \ {0} /\ OnlyAnswers(rest, unsent)
  BY <1>1, HeldCall
<1>3. ASSUME NEW i PROVE CallCount(calls, i) = One(h = i) + CallCount(rest, i)
  BY <1>1, Types, TailCallCount
<1> DEFINE new == issued' # issued
<1>4. /\ issued' = issued + One(new)
      /\ new => issued + 1 \in Ids
      /\ \A i : CallCount(calls', i) = One(new /\ i = issued + 1) + CallCount(rest, i)
      /\ OnlyAnswers(calls', unsent)
  <2>0. issued \in Nat /\ \A i : CallCount(rest, i) \in Nat
    BY <1>2, Types, CallCountType
  <2>1. CASE calls' = rest /\ issued' = issued
    BY <1>2, <2>0, <2>1 DEF One
  <2>2. CASE SendCommand(rest)
    <3>1. /\ issued + 1 \in Ids /\ issued' = issued + 1
          /\ \A i : CallCount(calls', i) = One(issued + 1 = i) + CallCount(rest, i)
          /\ OnlyAnswers(calls', unsent)
      BY <1>2, <2>2, NewCallCount
    <3>2. new /\ One(new) = 1
      BY <2>0, <3>1 DEF One
    <3>3. \A i : One(issued + 1 = i) = One(new /\ i = issued + 1)
      BY <3>2 DEF One
    <3> QED
      BY <3>1, <3>2, <3>3
  <2> QED
    BY <1>1, <2>1, <2>2
<1> HIDE DEF h, rest, new
<1>5. Balanced'
  <2> SUFFICES ASSUME NEW i \in Ids
               PROVE  answers'[i] + Places(i)' =
                        IF i > issued' THEN 0 ELSE IF i \in unsent THEN 2 ELSE 1
    BY <1>1 DEF Balanced
  <2>1. Places(i)' + One(h = i) = Places(i) + One(new /\ i = issued + 1)
    <3>1. /\ Count(waitConn, i) \in Nat /\ Count(waitResp, i) \in Nat
          /\ CallCount(rest, i) \in Nat
          /\ One(h = i) \in Nat /\ One(new /\ i = issued + 1) \in Nat
      BY <1>2, Types, CountType, CallCountType DEF One
    <3>2. /\ CallCount(calls, i) = One(h = i) + CallCount(rest, i)
          /\ CallCount(calls', i) = One(new /\ i = issued + 1) + CallCount(rest, i)
      BY <1>3, <1>4
    <3> QED
      BY <1>1, <3>1, <3>2, PlacesCount, PlacesCountNext
  <2>2. /\ answers[i] \in Nat /\ i \in Nat /\ issued \in Nat
        /\ Places(i) \in Nat /\ Places(i)' \in Nat
    <3>1. /\ waitConn' \in Seq(Requests) /\ waitResp' \in Seq(Requests)
          /\ calls' \in Seq(Calls)
      BY NextTypes DEF Next
    <3>2. /\ Count(waitConn', i) \in Nat /\ Count(waitResp', i) \in Nat
          /\ CallCount(calls', i) \in Nat
      BY <3>1, CountType, CallCountType
    <3>3. /\ Count(waitConn, i) \in Nat /\ Count(waitResp, i) \in Nat
          /\ CallCount(calls, i) \in Nat
      BY Types, CountType, CallCountType
    <3> QED
      BY SMTT(30), <3>2, <3>3, Types, PlacesCount, PlacesCountNext
  <2>3. unsent \subseteq 1..issued
    BY DEF HInv, UnsentOnlyTold
  <2>4. answers[i] + Places(i) =
          IF i > issued THEN 0 ELSE IF i \in unsent THEN 2 ELSE 1
    BY DEF HInv, Balanced
  <2>5. answers'[i] = answers[i] + One(h = i)
    <3>1. CASE h = i
      <4>1. answers'[i] = IF answers[i] = 0 THEN 1 ELSE 2
        BY <1>1, <3>1, Types DEF TypeOK
      <4>2. Places(i) \in Nat \ {0} /\ answers[i] + Places(i) <= 2
        BY <1>2, <2>4, <3>1
      <4> QED
        BY <2>2, <3>1, <4>1, <4>2 DEF One
    <3>2. CASE h # i
      BY <1>1, <2>2, <3>2, Types DEF TypeOK, One
    <3> QED
      BY <3>1, <3>2
  <2>6. CASE new /\ i = issued + 1
    BY <1>2, <1>4, <2>1, <2>2, <2>3, <2>4, <2>5, <2>6 DEF One
  <2>7. CASE ~(new /\ i = issued + 1)
    <3>1. answers'[i] + Places(i)' = answers[i] + Places(i)
      BY <2>1, <2>2, <2>5, <2>7 DEF One
    <3>2. (i > issued') <=> (i > issued)
      BY <1>4, <2>2, <2>7 DEF One
    <3> QED
      BY <2>4, <3>1, <3>2
  <2> QED
    BY <2>6, <2>7
<1>6. UnsentOnlyTold'
  <2>1. unsent \subseteq 1..issued'
    BY <1>4, Types DEF HInv, UnsentOnlyTold, One
  <2> QED
    BY <1>1, <1>4, <2>1 DEF HInv, UnsentOnlyTold
<1> QED
  BY <1>5, <1>6

-----------------------------------------------------------------------------
(* Connections and responses *)

LEMMA ConnectionH ==
  ASSUME HInv, Connected \/ ConnectionFailed
  PROVE  Balanced' /\ UnsentOnlyTold'
<1>1. /\ UNCHANGED <<answers, issued, unsent, waitResp>>
      /\ calls = << >> /\ waitConn' = << >>
      /\ calls' = Send(waitConn) \/ calls' = Answer(waitConn, 0)
  BY DEF Connected, ConnectionFailed, InEventLoop, appVars
<1>2. ASSUME NEW i \in Ids PROVE Places(i)' = Places(i)
  <2>1. CallCount(calls', i) = Count(waitConn, i)
    BY <1>1, QueueToCalls
  <2>2. Count(waitConn, i) \in Nat /\ Count(waitResp, i) \in Nat
    BY Types, CountType
  <2>3. Count(<< >>, i) = 0 /\ CallCount(<< >>, i) = 0
    BY EmptyCount
  <2> QED
    BY <1>1, <2>1, <2>2, <2>3, PlacesCount, PlacesCountNext
<1>3. UnsentOnlyTold'
  <2>1. OnlyAnswers(calls', unsent)
    BY <1>1, OnlyAnswersQueue DEF HInv, UnsentOnlyTold
  <2>2. Free(<< >>, unsent)
    BY DEF Free
  <2> QED
    BY <1>1, <2>1, <2>2 DEF HInv, UnsentOnlyTold
<1> QED
  BY <1>1, <1>2, <1>3, Moved

LEMMA ConnectionLostH ==
  ASSUME HInv, ConnectionLost
  PROVE  Balanced' /\ UnsentOnlyTold'
<1>1. /\ UNCHANGED <<answers, issued, unsent, waitConn>>
      /\ calls = << >> /\ waitResp' = << >>
      /\ calls' = Answer(waitResp, 0)
  BY DEF ConnectionLost, Reading, InEventLoop, appVars
<1>2. ASSUME NEW i \in Ids PROVE Places(i)' = Places(i)
  <2>1. CallCount(calls', i) = Count(waitResp, i)
    BY <1>1, QueueToCalls
  <2>2. Count(waitConn, i) \in Nat /\ Count(waitResp, i) \in Nat
    BY Types, CountType
  <2>3. Count(<< >>, i) = 0 /\ CallCount(<< >>, i) = 0
    BY EmptyCount
  <2> QED
    BY <1>1, <2>1, <2>2, <2>3, PlacesCount, PlacesCountNext
<1>3. UnsentOnlyTold'
  <2>1. OnlyAnswers(calls', unsent)
    BY <1>1, OnlyAnswersQueue DEF HInv, UnsentOnlyTold
  <2>2. Free(<< >>, unsent)
    BY DEF Free
  <2> QED
    BY <1>1, <2>1, <2>2 DEF HInv, UnsentOnlyTold
<1> QED
  BY <1>1, <1>2, <1>3, Moved

(* The first request that waits for a response becomes a call: of its      *)
(* handler, or to send it again.                                           *)
LEMMA FirstBecomesCall ==
  ASSUME HInv, waitResp # << >>, calls = << >>, waitResp' = Tail(waitResp),
         UNCHANGED <<answers, issued, unsent, waitConn>>,
         NEW c \in Calls, calls' = <<c>>, c.req.id = waitResp[1].id
  PROVE  Balanced' /\ UnsentOnlyTold'
<1>1. ASSUME NEW i \in Ids PROVE Places(i)' = Places(i)
  <2>1. CallCount(calls', i) = One(waitResp[1].id = i)
    BY SingleCallCount
  <2>2. Count(waitResp, i) = One(waitResp[1].id = i) + Count(waitResp', i)
    BY Types, TailCount
  <2>3. /\ Count(waitConn, i) \in Nat /\ Count(waitResp', i) \in Nat
        /\ One(waitResp[1].id = i) \in Nat /\ CallCount(<< >>, i) = 0
    <3>1. Tail(waitResp) \in Seq(Requests)
      BY Types
    <3> QED
      BY <3>1, Types, CountType, EmptyCount DEF One
  <2> QED
    BY <2>1, <2>2, <2>3, PlacesCount, PlacesCountNext
<1>2. c.req.id \notin unsent /\ Free(waitResp', unsent)
  BY Types, FreeTail DEF HInv, UnsentOnlyTold
<1>3. OnlyAnswers(calls', unsent)
  BY <1>2 DEF OnlyAnswers
<1>4. UnsentOnlyTold'
  BY <1>2, <1>3 DEF HInv, UnsentOnlyTold
<1> QED
  BY <1>1, <1>4, Moved

LEMMA FirstAnswered ==
  ASSUME HInv, waitResp # << >>, calls = << >>, waitResp' = Tail(waitResp),
         UNCHANGED <<answers, issued, unsent, waitConn>>,
         NEW reply \in 0..MaxCSeq, calls' = Answer(<<waitResp[1]>>, reply)
  PROVE  Balanced' /\ UnsentOnlyTold'
<1> DEFINE c == Call("answer", waitResp[1], reply)
<1>1. waitResp[1] \in Requests
  BY Types
<1>2. c \in Calls /\ c.req.id = waitResp[1].id
  BY <1>1 DEF Call, Calls
<1>3. calls' = <<c>>
  BY DEF Answer
<1> HIDE DEF c
<1> QED
  BY <1>2, <1>3, FirstBecomesCall

LEMMA ResponseTruncatedH ==
  ASSUME HInv, ResponseTruncated
  PROVE  Balanced' /\ UnsentOnlyTold'
<1>1. /\ UNCHANGED <<answers, issued, unsent, waitConn>>
      /\ waitResp # << >> /\ calls = << >> /\ waitResp' = Tail(waitResp)
  BY DEF ResponseTruncated, Reading, InEventLoop, appVars
<1>2. PICK reply \in 0..MaxCSeq : calls' = Answer(<<waitResp[1]>>, reply)
  <2>1. CASE partial # None /\ calls' = Answer(<<waitResp[1]>>, partial.replyTo)
    <3>1. partial.replyTo \in 0..MaxCSeq
      BY <2>1, Types DEF TypeOK, Responses
    <3> QED
      BY <2>1, <3>1
  <2>2. CASE atServer # << >> /\ calls' = Answer(<<waitResp[1]>>, atServer[1])
    <3>1. atServer[1] \in 0..MaxCSeq
      <4>1. atServer \in Seq(2..MaxCSeq)
        BY Types DEF TypeOK
      <4>2. 1 \in 1..Len(atServer)
        BY <2>2, <4>1, EmptySeq
      <4>3. atServer[1] \in 2..MaxCSeq
        BY <4>1, <4>2, ElementOfSeq
      <4> QED
        BY <4>3
    <3> QED
      BY <2>2, <3>1
  <2> QED
    BY <2>1, <2>2 DEF ResponseTruncated
<1> QED
  BY <1>1, <1>2, FirstAnswered

(* A response is for the first request that waits for one.                 *)
LEMMA ResponseIsForFirst ==
  ASSUME HInv, NEW m \in Responses,
         ResponseArrives(m) \/ (BodyArrives /\ m = partial)
  PROVE  /\ waitResp # << >>
         /\ FoundAt(m.tag) = 1
         /\ Found(m.tag) = <<waitResp[1]>> /\ After(m.tag) = Tail(waitResp)
<1>1. waitResp \in Seq(Requests) /\ atServer \in Seq(2..MaxCSeq) /\ LinkOK
  BY Types DEF TypeOK, HInv, LInv
<1>2. waitResp # << >> /\ m.tag \in {0, waitResp[1].cseq}
  <2>1. CASE ResponseArrives(m)
    <3>1. Matches(waitResp, atServer)
      BY <1>1, <2>1 DEF ResponseArrives, LinkOK
    <3>2. waitResp # << >>
      BY <1>1, <2>1, <3>1 DEF ResponseArrives, Matches
    <3>3. waitResp[1].cseq = atServer[1]
      BY <1>1, <3>1, <3>2, MatchTail
    <3> QED
      BY <2>1, <3>2, <3>3 DEF ResponseArrives
  <2>2. CASE BodyArrives /\ m = partial
    BY <1>1, <2>2 DEF BodyArrives, LinkOK
  <2> QED
    BY <2>1, <2>2
<1> QED
  BY <1>1, <1>2, FirstIsFound

LEMMA HandleResponseH ==
  ASSUME HInv, NEW m \in Responses, HandleResponse(m),
         ResponseArrives(m) \/ (BodyArrives /\ m = partial)
  PROVE  Balanced' /\ UnsentOnlyTold'
<1>1. /\ UNCHANGED <<answers, issued, unsent, waitConn>>
      /\ calls = << >>
  BY DEF ResponseArrives, BodyArrives, Reading, InEventLoop
<1>2. /\ waitResp # << >> /\ waitResp' = Tail(waitResp)
      /\ calls' = Answer(<<waitResp[1]>>, m.replyTo)
  BY ResponseIsForFirst DEF HandleResponse
<1>3. m.replyTo \in 0..MaxCSeq
  BY DEF Responses
<1> QED
  BY <1>1, <1>2, <1>3, FirstAnswered

LEMMA ResendCommandH ==
  ASSUME HInv, NEW m \in Responses, ResendCommand(m),
         ResponseArrives(m) \/ (BodyArrives /\ m = partial)
  PROVE  Balanced' /\ UnsentOnlyTold'
<1> DEFINE again == [waitResp[1] EXCEPT !.cseq = CSeq + 1]
           c == Call("resend", again, 0)
<1>1. /\ UNCHANGED <<answers, issued, unsent, waitConn>>
      /\ calls = << >>
  BY DEF ResponseArrives, BodyArrives, Reading, InEventLoop
<1>2. waitResp # << >> /\ FoundAt(m.tag) = 1
  BY ResponseIsForFirst
<1>3. waitResp[1] \in Requests
  BY <1>2, Types
<1>4. waitResp' = Tail(waitResp)
  <2>1. Len(waitResp) = 1 /\ waitResp' = << >> /\ waitResp \in Seq(Requests)
    BY <1>2, Types DEF ResendCommand
  <2>2. Tail(waitResp) \in Seq(Requests) /\ Len(Tail(waitResp)) = 0
    BY <1>2, <2>1, HeadTailProperties
  <2>3. Tail(waitResp) = << >>
    BY <2>2, EmptySeq
  <2> QED
    BY <2>1, <2>3
<1>5. calls' = <<c>>
  BY <1>2 DEF ResendCommand
<1>6. c \in Calls /\ c.req.id = waitResp[1].id
  <2>1. CSeq + 1 \in 2..MaxCSeq /\ 0 \in 0..MaxCSeq
    BY Types, BoundsAssumption DEF TypeOK, ResendCommand
  <2>2. again \in Requests /\ again.id = waitResp[1].id
    BY <1>3, <2>1 DEF Requests
  <2> HIDE DEF again
  <2> QED
    BY <2>1, <2>2 DEF Call, Calls
<1> HIDE DEF c
<1> QED
  BY <1>1, <1>2, <1>4, <1>5, <1>6, FirstBecomesCall

LEMMA AwaitBodyH ==
  ASSUME HInv, NEW m \in Responses, AwaitBody(m), ResponseArrives(m)
  PROVE  Balanced' /\ UnsentOnlyTold'
<1>1. /\ waitResp # << >> /\ waitResp' = <<waitResp[1]>> \o Tail(waitResp)
      /\ waitResp \in Seq(Requests)
  BY Types, ResponseIsForFirst DEF AwaitBody
<1>2. waitResp' = waitResp
  BY <1>1
<1>3. UNCHANGED <<answers, issued, unsent, waitConn, calls>>
  BY DEF AwaitBody, ResponseArrives
<1>4. \A i \in Ids : Places(i)' = Places(i)
  BY <1>2, <1>3, PlacesCount, PlacesCountNext
<1> QED
  BY <1>2, <1>3, <1>4, Moved DEF HInv, UnsentOnlyTold

-----------------------------------------------------------------------------
(* Every request is handled once *)

LEMMA InitH == Init => HInv
<1> SUFFICES ASSUME Init PROVE HInv
  OBVIOUS
<1>1. LInv
  BY InitLInv
<1>2. Balanced
  <2> SUFFICES ASSUME NEW i \in Ids
               PROVE  answers[i] + Places(i) = 0 /\ i > issued
    BY DEF Balanced
  <2>1. answers[i] = 0 /\ issued = 0 /\ i > issued
    BY BoundsAssumption DEF Init, Ids
  <2>2. Places(i) = 0
    BY EmptyCount, PlacesCount DEF Init
  <2> QED
    BY <2>1, <2>2
<1>3. UnsentOnlyTold
  BY DEF Init, UnsentOnlyTold, Free, OnlyAnswers
<1> QED
  BY <1>1, <1>2, <1>3 DEF HInv

LEMMA NextH == HInv /\ [Next]_vars => HInv'
<1> SUFFICES ASSUME HInv, [Next]_vars PROVE Balanced' /\ UnsentOnlyTold'
  BY NextLInv DEF HInv
<1>1. CASE Issue
  BY <1>1, IssueH
<1>2. CASE CallHandler
  BY <1>2, CallHandlerH
<1>3. CASE AwaitConnection \/ OpenConnection
  BY <1>3, AwaitConnectionH
<1>4. CASE SendRequest
  BY <1>4, SendRequestH
<1>5. CASE SendFails
  BY <1>5, SendFailsH
<1>6. CASE Connected \/ ConnectionFailed
  BY <1>6, ConnectionH
<1>7. CASE ConnectionLost
  BY <1>7, ConnectionLostH
<1>8. CASE ResponseTruncated
  BY <1>8, ResponseTruncatedH
<1>9. CASE BodyArrives
  <2>1. partial \in Responses
    BY <1>9, Types DEF BodyArrives, TypeOK
  <2> QED
    BY <1>9, <2>1, HandleResponseH, ResendCommandH DEF BodyArrives
<1>10. CASE \E m \in Responses : ResponseArrives(m)
  <2>1. PICK m \in Responses : ResponseArrives(m)
    BY <1>10
  <2>2. AwaitBody(m) \/ HandleResponse(m) \/ ResendCommand(m)
    BY <2>1 DEF ResponseArrives
  <2> QED
    BY <2>1, <2>2, AwaitBodyH, HandleResponseH, ResendCommandH
<1>11. CASE UNCHANGED vars
  <2>1. UNCHANGED <<answers, issued, unsent, waitConn, waitResp, calls>>
    BY <1>11 DEF vars, queueVars, appVars
  <2>2. \A i \in Ids : Places(i)' = Places(i)
    BY <2>1, PlacesCount, PlacesCountNext
  <2> QED
    BY <2>1, <2>2, Moved DEF HInv, UnsentOnlyTold
<1> QED
  BY <1>1, <1>2, <1>3, <1>4, <1>5, <1>6, <1>7, <1>8, <1>9, <1>10, <1>11
  DEF Next

LEMMA HandledInvariance == Spec => []HInv
  BY InitH, NextH, PTL DEF Spec

(* Whatever the connection, the server and the handlers do, a request's    *)
(* handler is called once, and until then one place holds the request; a   *)
(* request that could not be sent again is the only one called twice.      *)
THEOREM OnceHandled == Spec => []HandledOnce
<1>1. HInv => HandledOnce
  <2> SUFFICES ASSUME HInv, NEW i \in 1..issued
               PROVE  /\ answers[i] = 0 => Places(i) > 0
                      /\ answers[i] + Places(i) <= IF i \in unsent THEN 2 ELSE 1
    BY DEF HandledOnce, NoneForgotten
  <2>1. i \in Ids /\ ~(i > issued)
    BY BoundsAssumption DEF HInv, LInv, IInv, TypeOK, Ids
  <2>2. answers[i] + Places(i) = IF i \in unsent THEN 2 ELSE 1
    BY <2>1 DEF HInv, Balanced
  <2>3. answers[i] \in Nat /\ Places(i) \in Nat
    BY <2>1, Types, CountType, CallCountType, PlacesCount
  <2> QED
    BY <2>2, <2>3
<1> QED
  BY <1>1, HandledInvariance, PTL

-----------------------------------------------------------------------------
(* Refinement of RequestService                                            *)

LEMMA StatusOf ==
  ASSUME NEW i \in Ids
  PROVE  /\ Status[i] = IF i > issued THEN "new"
                         ELSE IF answers[i] > 0 THEN "told"
                         ELSE IF QueuedIn(waitResp, i) # {} THEN "sent"
                         ELSE "waiting"
         /\ Status'[i] = IF i > issued' THEN "new"
                          ELSE IF answers'[i] > 0 THEN "told"
                          ELSE IF QueuedIn(waitResp', i) # {} THEN "sent"
                          ELSE "waiting"
  BY DEF Status, QueuedIn

LEMMA StatusStays ==
  ASSUME UNCHANGED <<answers, issued, waitResp>>
  PROVE  UNCHANGED Service!vars
  BY DEF Service!vars, Status, QueuedIn

(* Requests that leave the queue for responses come back.                  *)
LEMMA ReturnStep ==
  ASSUME UNCHANGED <<answers, issued>>,
         \A i \in Ids : QueuedIn(waitResp', i) # {} => QueuedIn(waitResp, i) # {}
  PROVE  Service!Next
<1> DEFINE S == {i \in Ids : Status[i] = "sent" /\ QueuedIn(waitResp', i) = {}}
<1>1. S \in SUBSET Service!In("sent")
  BY DEF Service!In
<1>2. Status' = Service!Become(S, "waiting")
  <2>1. ASSUME NEW i \in Ids
        PROVE  Status'[i] = IF i \in S THEN "waiting" ELSE Status[i]
    BY StatusOf
  <2>2. Status' = [i \in Ids |-> Status'[i]]
    BY DEF Status
  <2> HIDE DEF S
  <2> QED
    BY <2>1, <2>2 DEF Service!Become
<1> HIDE DEF S
<1> QED
  BY <1>1, <1>2 DEF Service!Next, Service!Return

LEMMA InitService == Init => Service!Init
<1> SUFFICES ASSUME Init PROVE Status = [i \in Ids |-> "new"]
  BY DEF Service!Init
<1>1. \A i \in Ids : i > issued
  BY BoundsAssumption DEF Init, Ids
<1> QED
  BY <1>1 DEF Status

(* A request that is issued is one that was new.                           *)
LEMMA NewIsWaiting ==
  ASSUME HInv, issued' = issued + 1, issued + 1 \in Ids, UNCHANGED waitResp,
         answers'[issued + 1] = answers[issued + 1]
  PROVE  Status[issued + 1] = "new" /\ Status'[issued + 1] = "waiting"
<1> DEFINE j == issued + 1
<1>0. Places(j) = Count(waitConn, j) + Count(waitResp, j) + CallCount(calls, j)
  BY PlacesCount
<1>1. issued \in Nat /\ j \in Ids
  BY Types
<1>2. answers[j] + Places(j) = 0
  BY <1>1 DEF HInv, Balanced
<1>3. /\ answers[j] \in Nat /\ Count(waitConn, j) \in Nat
      /\ Count(waitResp, j) \in Nat /\ CallCount(calls, j) \in Nat
  BY <1>1, Types, CountType, CallCountType
<1>4. answers[j] = 0 /\ Count(waitResp, j) = 0
  <2> DEFINE a == answers[j]  b == Count(waitConn, j)
             c == Count(waitResp, j)  d == CallCount(calls, j)
  <2>1. a \in Nat /\ b \in Nat /\ c \in Nat /\ d \in Nat
    BY <1>3
  <2>2. a + (b + c + d) = 0
    BY <1>0, <1>2
  <2> HIDE DEF a, b, c, d
  <2>3. a = 0 /\ c = 0
    BY <2>1, <2>2
  <2> QED
    BY <2>3 DEF a, c
<1>5. QueuedIn(waitResp, j) = {}
  BY <1>4, Types, CountType DEF QueuedIn
<1> QED
  BY <1>1, <1>4, <1>5, StatusOf

LEMMA IssueService ==
  ASSUME HInv, Issue
  PROVE  Service!Next
<1> DEFINE j == issued + 1
<1>1. /\ UNCHANGED <<answers, waitResp>> /\ SendCommand(<< >>)
  BY DEF Issue, queueVars
<1>2. j \in Ids /\ issued' = issued + 1 /\ issued \in Nat
  <2>1. << >> \in Seq(Calls)
    OBVIOUS
  <2> QED
    BY <1>1, <2>1, NewCallCount, Types
<1>3. Status[j] = "new" /\ Status'[j] = "waiting"
  BY <1>1, <1>2, NewIsWaiting
<1>4. \A i \in Ids : i # j => Status'[i] = Status[i]
  <2> SUFFICES ASSUME NEW i \in Ids, i # j PROVE Status'[i] = Status[i]
    OBVIOUS
  <2>1. (i > issued') <=> (i > issued)
    BY <1>2, Types
  <2> QED
    BY <1>1, <2>1, StatusOf
<1>5. Status' = Service!Become({j}, "waiting")
  <2>1. Status' = [i \in Ids |-> Status'[i]]
    BY DEF Status
  <2> HIDE DEF j
  <2> QED
    BY <1>3, <1>4, <2>1 DEF Service!Become
<1>6. j \in Service!In("new")
  BY <1>2, <1>3 DEF Service!In
<1> QED
  BY <1>5, <1>6 DEF Service!Next, Service!Issue

(* A call holds its request alone, or after the handler was told already.  *)
LEMMA CalledIsWaiting ==
  ASSUME HInv, calls # << >>
  PROVE  LET h == calls[1].req.id IN
         /\ h \in Ids
         /\ answers[h] = 0 => Status[h] = "waiting"
         /\ h \notin unsent => answers[h] = 0
         /\ answers[h] # 0 => Status[h] = "told"
<1> DEFINE h == calls[1].req.id
<1>1. h \in Ids /\ h <= issued
  BY HeldCall
<1>2. CallCount(calls, h) \in Nat \ {0}
  <2>1. CallCount(calls, h) = One(h = h) + CallCount(Tail(calls), h)
    BY Types, TailCallCount
  <2>2. CallCount(Tail(calls), h) \in Nat
    BY HeldCall, CallCountType
  <2> HIDE DEF h
  <2> QED
    BY <2>1, <2>2 DEF One
<1>3. /\ answers[h] \in Nat /\ Count(waitConn, h) \in Nat
      /\ Count(waitResp, h) \in Nat /\ h \in Nat /\ issued \in Nat
  BY <1>1, Types, CountType
<1>4. answers[h] + Places(h) = IF h \in unsent THEN 2 ELSE 1
  BY <1>1, <1>3 DEF HInv, Balanced
<1>5. Places(h) = Count(waitConn, h) + Count(waitResp, h) + CallCount(calls, h)
  BY PlacesCount
<1>6. QueuedIn(waitResp, h) = {}
  <2>1. CASE h \in unsent
    BY <2>1 DEF HInv, UnsentOnlyTold, Free, QueuedIn
  <2>2. CASE h \notin unsent
    <3>1. Count(waitResp, h) = 0
      BY <1>2, <1>3, <1>4, <1>5, <2>2
    <3> QED
      BY <3>1, Types, CountType DEF QueuedIn
  <2> QED
    BY <2>1, <2>2
<1>7. h \notin unsent => answers[h] = 0
  BY <1>2, <1>3, <1>4, <1>5
<1> QED
  BY <1>1, <1>3, <1>6, <1>7, StatusOf

LEMMA SendRequestService ==
  ASSUME HInv, SendRequest
  PROVE  Service!Next
<1> DEFINE r == calls[1].req
<1>1. /\ UNCHANGED <<answers, issued>> /\ Sending
      /\ waitResp' = Append(waitResp, r)
  BY DEF SendRequest, appVars
<1>2. calls # << >> /\ r.id \notin unsent
  BY <1>1, SendingH
<1>3. r.id \in Ids /\ r \in Requests /\ r.id <= issued
  BY <1>2, HeldCall
<1>4. answers[r.id] = 0 /\ Status[r.id] = "waiting"
  BY <1>2, CalledIsWaiting
<1>5. /\ waitResp \in Seq(Requests)
      /\ Len(waitResp) \in Nat /\ DOMAIN waitResp = 1..Len(waitResp)
      /\ DOMAIN waitResp' = 1..(Len(waitResp) + 1)
      /\ waitResp'[Len(waitResp) + 1] = r
      /\ \A n \in DOMAIN waitResp : waitResp'[n] = waitResp[n]
  BY <1>1, <1>3, Types
<1> HIDE DEF r
<1>6. QueuedIn(waitResp', r.id) # {}
  BY <1>5 DEF QueuedIn
<1>7. ASSUME NEW i \in Ids, i # r.id PROVE Status'[i] = Status[i]
  <2>1. QueuedIn(waitResp', i) = QueuedIn(waitResp, i)
    BY <1>5, <1>7 DEF QueuedIn
  <2> QED
    BY <1>1, <2>1, StatusOf
<1>8. Status'[r.id] = "sent"
  <2>1. r.id \in Nat /\ issued \in Nat
    BY <1>3, Types
  <2> QED
    BY <1>1, <1>3, <1>4, <1>6, <2>1, StatusOf
<1>9. Status' = Service!Become({r.id}, "sent")
  <2>1. Status' = [i \in Ids |-> Status'[i]]
    BY DEF Status
  <2> QED
    BY <1>7, <1>8, <2>1 DEF Service!Become
<1>10. r.id \in Service!In("waiting")
  BY <1>3, <1>4 DEF Service!In
<1> QED
  BY <1>9, <1>10 DEF Service!Next, Service!Send

LEMMA CallHandlerService ==
  ASSUME HInv, CallHandler
  PROVE  Service!Next \/ UNCHANGED Service!vars
<1> DEFINE h == calls[1].req.id
           j == issued + 1
<1>1. /\ calls # << >>
      /\ answers' = [answers EXCEPT ![h] = IF @ = 0 THEN 1 ELSE 2]
      /\ UNCHANGED waitResp
      /\ issued' = issued \/ SendCommand(Tail(calls))
  BY DEF CallHandler, queueVars
<1>2. /\ h \in Ids /\ h <= issued /\ Tail(calls) \in Seq(Calls)
      /\ issued \in Nat /\ h \in Nat
  BY <1>1, HeldCall, Types
<1>3. /\ answers[h] = 0 => Status[h] = "waiting"
      /\ answers[h] # 0 => Status[h] = "told"
  BY <1>1, CalledIsWaiting
<1>4. /\ answers'[h] \in {1, 2}
      /\ \A i \in Ids : i # h => answers'[i] = answers[i]
  BY <1>1, <1>2, Types DEF TypeOK
<1> HIDE DEF h
<1>5. issued' = issued \/ (issued' = j /\ j \in Ids)
  BY <1>1, <1>2, NewCallCount
<1>6. Status'[h] = "told"
  BY <1>2, <1>4, <1>5, StatusOf
<1>7. ASSUME NEW i \in Ids, i # h, issued' # issued => i # j
      PROVE  Status'[i] = Status[i]
  <2>1. (i > issued') <=> (i > issued)
    BY <1>2, <1>5, <1>7, Types
  <2> QED
    BY <1>1, <1>4, <1>7, <2>1, StatusOf
<1>8. issued' # issued => /\ j \in Ids /\ j # h
                          /\ Status[j] = "new" /\ Status'[j] = "waiting"
  <2> SUFFICES ASSUME issued' # issued
               PROVE  /\ j \in Ids /\ j # h
                      /\ Status[j] = "new" /\ Status'[j] = "waiting"
    OBVIOUS
  <2>1. issued' = j /\ j \in Ids /\ j # h
    BY <1>2, <1>5
  <2> QED
    BY <1>1, <1>4, <2>1, NewIsWaiting
<1>9. Status' = [i \in Ids |-> Status'[i]] /\ Status = [i \in Ids |-> Status[i]]
  BY DEF Status
<1> HIDE DEF j
<1>10. CASE issued' = issued /\ answers[h] # 0
  <2>1. Status' = Status
    BY <1>3, <1>6, <1>7, <1>9, <1>10
  <2> QED
    BY <2>1 DEF Service!vars
<1>11. CASE issued' = issued /\ answers[h] = 0
  <2>1. Status' = Service!Become({h}, "told")
    BY <1>6, <1>7, <1>9, <1>11 DEF Service!Become
  <2>2. h \in Service!In("waiting")
    BY <1>2, <1>3, <1>11 DEF Service!In
  <2> QED
    BY <2>1, <2>2 DEF Service!Next, Service!Tell
<1>12. CASE issued' # issued /\ answers[h] # 0
  <2>1. Status' = Service!Become({j}, "waiting")
    BY <1>3, <1>6, <1>7, <1>8, <1>9, <1>12 DEF Service!Become
  <2>2. j \in Service!In("new")
    BY <1>8, <1>12 DEF Service!In
  <2> QED
    BY <2>1, <2>2 DEF Service!Next, Service!Issue
<1>13. CASE issued' # issued /\ answers[h] = 0
  <2>1. Status' = [Service!Become({h}, "told") EXCEPT ![j] = "waiting"]
    BY <1>6, <1>7, <1>8, <1>9, <1>13 DEF Service!Become
  <2>2. h \in Service!In("waiting") /\ j \in Service!In("new")
    BY <1>2, <1>3, <1>8, <1>13 DEF Service!In
  <2> QED
    BY <2>1, <2>2 DEF Service!Next, Service!Tell
<1> QED
  BY <1>10, <1>11, <1>12, <1>13

LEMMA TailReturns ==
  ASSUME HInv, waitResp # << >>, waitResp' = Tail(waitResp),
         UNCHANGED <<answers, issued>>
  PROVE  Service!Next
<1>1. /\ Len(waitResp) \in Nat \ {0} /\ DOMAIN waitResp = 1..Len(waitResp)
      /\ DOMAIN Tail(waitResp) = 1..(Len(waitResp) - 1)
      /\ \A n \in 1..(Len(waitResp) - 1) : Tail(waitResp)[n] = waitResp[n + 1]
  BY Types
<1>2. ASSUME NEW i \in Ids, NEW n \in QueuedIn(waitResp', i)
      PROVE  n + 1 \in QueuedIn(waitResp, i)
  BY <1>1 DEF QueuedIn
<1> QED
  BY <1>2, ReturnStep

(* What handleResponseBytes() does with a response.                        *)
LEMMA ResponseService ==
  ASSUME HInv, NEW m \in Responses,
         ResponseArrives(m) \/ (BodyArrives /\ m = partial)
  PROVE  Service!Next \/ UNCHANGED Service!vars
<1>1. UNCHANGED <<answers, issued>>
  BY DEF ResponseArrives, BodyArrives
<1>2. /\ waitResp # << >> /\ FoundAt(m.tag) = 1
      /\ Found(m.tag) = <<waitResp[1]>> /\ After(m.tag) = Tail(waitResp)
  BY ResponseIsForFirst
<1>3. CASE AwaitBody(m)
  <2>1. waitResp' = <<waitResp[1]>> \o Tail(waitResp) /\ waitResp \in Seq(Requests)
    BY <1>2, <1>3, Types DEF AwaitBody
  <2>2. waitResp' = waitResp
    BY <1>2, <2>1
  <2> QED
    BY <1>1, <2>2, StatusStays
<1>4. CASE HandleResponse(m)
  <2>1. waitResp' = Tail(waitResp)
    BY <1>2, <1>4 DEF HandleResponse
  <2> QED
    BY <1>1, <1>2, <2>1, TailReturns
<1>5. CASE ResendCommand(m)
  <2>1. waitResp' = << >>
    BY <1>5 DEF ResendCommand
  <2>2. \A i \in Ids : QueuedIn(waitResp', i) = {}
    BY <2>1 DEF QueuedIn
  <2> QED
    BY <1>1, <2>2, ReturnStep
<1> QED
  BY <1>3, <1>4, <1>5 DEF ResponseArrives, BodyArrives

LEMMA NextService ==
  ASSUME HInv, [Next]_vars
  PROVE  [Service!Next]_(Service!vars)
<1>1. CASE Issue
  BY <1>1, IssueService
<1>2. CASE CallHandler
  BY <1>2, CallHandlerService
<1>3. CASE \/ AwaitConnection \/ OpenConnection \/ SendFails
           \/ Connected \/ ConnectionFailed \/ UNCHANGED vars
  <2>1. UNCHANGED <<answers, issued, waitResp>>
    BY <1>3 DEF AwaitConnection, OpenConnection, SendFails, Connected,
         ConnectionFailed, vars, appVars, queueVars
  <2> QED
    BY <2>1, StatusStays
<1>4. CASE SendRequest
  BY <1>4, SendRequestService
<1>5. CASE ConnectionLost
  <2>1. UNCHANGED <<answers, issued>> /\ waitResp' = << >>
    BY <1>5 DEF ConnectionLost, appVars
  <2>2. \A i \in Ids : QueuedIn(waitResp', i) = {}
    BY <2>1 DEF QueuedIn
  <2> QED
    BY <2>1, <2>2, ReturnStep
<1>6. CASE ResponseTruncated
  <2>1. /\ UNCHANGED <<answers, issued>> /\ waitResp # << >>
        /\ waitResp' = Tail(waitResp)
    BY <1>6 DEF ResponseTruncated, appVars
  <2> QED
    BY <2>1, TailReturns
<1>7. CASE BodyArrives
  <2>1. partial \in Responses
    BY <1>7, Types DEF BodyArrives, TypeOK
  <2> QED
    BY <1>7, <2>1, ResponseService
<1>8. CASE \E m \in Responses : ResponseArrives(m)
  BY <1>8, ResponseService
<1> QED
  BY <1>1, <1>2, <1>3, <1>4, <1>5, <1>6, <1>7, <1>8 DEF Next

(* The safety part of RequestService: a handler is told only when its      *)
(* request has come back, and a request comes and goes as promised.        *)
THEOREM RefinesService == Spec => Service!SafeSpec
  BY InitService, NextService, HandledInvariance, PTL
     DEF Spec, Service!SafeSpec
=============================================================================
