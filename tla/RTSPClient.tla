----------------------------- MODULE RTSPClient -----------------------------
(***************************************************************************)
(* RTSPClient.cpp, as a playback uses it: requests wait for the connection *)
(* to the server, then for their response, and each request's handler is   *)
(* told the outcome.  PlaySession rests on what is stated here.            *)
(*                                                                         *)
(* sendRequest() may call the request's handler before it returns, and a   *)
(* handler may send the next request, so calls nest.  calls is what the    *)
(* code has still to do before it is back in the event loop, innermost     *)
(* call first; connections and responses are handled when it is empty.     *)
(*                                                                         *)
(* The server gets the requests of one connection in the order they were   *)
(* sent and answers them in that order.  Requests are told apart by id; a  *)
(* resent one has a new CSeq.  RTSP over HTTP is not used by the player.   *)
(***************************************************************************)
EXTENDS Integers, Sequences, FiniteSets

CONSTANTS
  MaxRequests,  \* bound: requests ever issued
  MaxCSeq,      \* bound: CSeq numbers, resent requests included
  Pipeline      \* requests the application has outstanding: 1 in the player

ASSUME BoundsAssumption == MaxRequests \in Nat /\ MaxCSeq \in Nat \ {0}
ASSUME PipelineAssumption == Pipeline \in Nat \ {0}

VARIABLES
  socket,       \* "closed", "pending" (connect() in progress) or "open"
  waitConn,     \* fRequestsAwaitingConnection
  waitResp,     \* fRequestsAwaitingResponse
  partial,      \* the response in fResponseBuffer whose body is incomplete
  realm,        \* fCurrentAuthenticator has a realm
  CSeq,         \* fCSeq
  calls,        \* calls in progress
  issued,       \* how many requests the application has issued
  answers,      \* answers[i]: how often the handler of request i was called
  atServer,     \* CSeqs the server got on this connection and has to answer
  unsent        \* history: requests that could not be sent again

queueVars == <<socket, waitConn, waitResp>>
appVars == <<realm, CSeq, issued, answers, unsent>>
vars == <<queueVars, partial, calls, atServer, appVars>>

Ids == 1..MaxRequests

(* The constructor sets fCSeq to 1; the first request has number 2.        *)
Requests == [id : Ids, cseq : 2..MaxCSeq]

(* replyTo is the CSeq the server replied to, 0 if the client gives up.    *)
Calls ==
  [op : {"send", "resend", "answer"}, req : Requests, replyTo : 0..MaxCSeq]

(* "error" is another response code, or bad headers in a 200 response:     *)
(* handleSETUPResponse() and the like tell the two apart.                  *)
Codes == {"ok", "error", "unauthorized", "redirect"}

(* tag is the CSeq in the response's header, 0 if it has none.             *)
Responses == [replyTo : 2..MaxCSeq, tag : 0..MaxCSeq, code : Codes]

None == [replyTo |-> 0]

TypeOK ==
  /\ socket \in {"closed", "pending", "open"}
  /\ waitConn \in Seq(Requests)
  /\ waitResp \in Seq(Requests)
  /\ partial \in Responses \cup {None}
  /\ realm \in BOOLEAN
  /\ CSeq \in 1..MaxCSeq
  /\ calls \in Seq(Calls)
  /\ issued \in 0..MaxRequests
  /\ answers \in [Ids -> 0..2]
  /\ atServer \in Seq(2..MaxCSeq)
  /\ unsent \subseteq Ids

Init ==
  /\ socket = "closed"
  /\ waitConn = << >>
  /\ waitResp = << >>
  /\ partial = None
  /\ realm = FALSE
  /\ CSeq = 1
  /\ calls = << >>
  /\ issued = 0
  /\ answers = [i \in Ids |-> 0]
  /\ atServer = << >>
  /\ unsent = {}

-----------------------------------------------------------------------------
(* Requests, and what calls do with them *)

(* Mutant: the counter is read before it is counted up.                    *)
NewRequestPostIncrement == [id |-> issued + 1, cseq |-> CSeq]

NewRequest == [id |-> issued + 1, cseq |-> CSeq + 1]

Call(op, r, reply) == [op |-> op, req |-> r, replyTo |-> reply]

(* The requests of a queue are sent, or their handlers are told of a       *)
(* response, in the queue's order.                                         *)
Send(q) == [i \in DOMAIN q |-> Call("send", q[i], 0)]

Answer(q, reply) == [i \in DOMAIN q |-> Call("answer", q[i], reply)]

InEventLoop == calls = << >>

MayIssue(done) ==
  /\ issued < MaxRequests
  /\ CSeq < MaxCSeq
  /\ issued - Cardinality({i \in Ids : done[i] > 0}) < Pipeline

(* send...Command(): a request record with the next CSeq, and              *)
(* sendRequest(), before the calls in rest go on.                          *)
SendCommand(rest) ==
  /\ MayIssue(answers')
  /\ calls' = <<Call("send", NewRequest, 0)>> \o rest
  /\ issued' = issued + 1
  /\ CSeq' = CSeq + 1

Issue ==
  /\ InEventLoop
  /\ UNCHANGED answers
  /\ SendCommand(<< >>)
  /\ UNCHANGED <<queueVars, partial, realm, atServer, unsent>>

(* A response handler is called; the application may send a request in it. *)
CallHandler ==
  /\ calls # << >> /\ calls[1].op = "answer"
  /\ answers' = [answers EXCEPT ![calls[1].req.id] = IF @ = 0 THEN 1 ELSE 2]
  /\ \/ calls' = Tail(calls) /\ UNCHANGED <<issued, CSeq>>
     \/ SendCommand(Tail(calls))
  /\ UNCHANGED <<queueVars, partial, realm, atServer, unsent>>

-----------------------------------------------------------------------------
(* sendRequest(): each action is one way through it *)

Sending == calls # << >> /\ calls[1].op \in {"send", "resend"}

(* A connection is pending with requests waiting for it: so does this one. *)
AwaitConnection ==
  /\ Sending
  /\ waitConn # << >>
  /\ waitConn' = Append(waitConn, calls[1].req)
  /\ calls' = Tail(calls)
  /\ UNCHANGED <<socket, waitResp, partial, atServer, appVars>>

(* openConnection(), connectToServer(): the connection is now pending.     *)
OpenConnection ==
  /\ Sending
  /\ waitConn = << >>
  /\ socket = "closed"
  /\ socket' = "pending"
  /\ waitConn' = <<calls[1].req>>
  /\ calls' = Tail(calls)
  /\ UNCHANGED <<waitResp, partial, atServer, appVars>>

(* The socket is open, or connect() succeeded at once: send the request.   *)
SendRequest ==
  /\ Sending
  /\ waitConn = << >>
  /\ socket # "pending"
  /\ socket' = "open"
  /\ waitResp' = Append(waitResp, calls[1].req)
  /\ atServer' = Append(atServer, calls[1].req.cseq)
  /\ calls' = Tail(calls)
  /\ UNCHANGED <<waitConn, partial, appVars>>

(* connect() fails, or send(), or no request can be made: the handler is   *)
(* called at once and the request deleted.  A request that was being sent  *)
(* again is handled and deleted once more by handleResponseBytes(), which  *)
(* sees only that resendCommand() failed.                                  *)
SendFails ==
  /\ Sending
  /\ waitConn = << >>
  /\ socket' \in {socket} \cup (IF socket = "closed" THEN {"open"} ELSE {})
  /\ LET r == calls[1].req IN
     \/ /\ calls[1].op = "send"
        /\ calls' = Answer(<<r>>, 0) \o Tail(calls)
        /\ UNCHANGED unsent
     \/ /\ calls[1].op = "resend"
        /\ calls' = Answer(<<r, r>>, 0) \o Tail(calls)
        /\ unsent' = unsent \cup {r.id}
  /\ UNCHANGED <<waitConn, waitResp, partial, realm, CSeq, issued, answers,
                 atServer>>

-----------------------------------------------------------------------------
(* connectionHandler1() *)

(* Every waiting request is sent, from a queue of its own.                 *)
Connected ==
  /\ InEventLoop
  /\ socket = "pending"
  /\ socket' = "open"
  /\ calls' = Send(waitConn)
  /\ waitConn' = << >>
  /\ UNCHANGED <<waitResp, partial, atServer, appVars>>

(* Mutant: the handlers are not told, and the queue is kept.               *)
ConnectionFailedQuietly ==
  /\ InEventLoop
  /\ socket = "pending"
  /\ socket' = "closed"
  /\ UNCHANGED <<waitConn, waitResp, partial, calls, atServer, appVars>>

ConnectionFailed ==
  /\ InEventLoop
  /\ socket = "pending"
  /\ socket' = "closed"
  /\ calls' = Answer(waitConn, 0)
  /\ waitConn' = << >>
  /\ UNCHANGED <<waitResp, partial, atServer, appVars>>

-----------------------------------------------------------------------------
(* handleResponseBytes() *)

Reading == InEventLoop /\ socket = "open"

(* Mutant: the handlers are told, and the queue is kept.                   *)
ConnectionLostKeepsQueue ==
  /\ Reading
  /\ socket' = "closed"
  /\ calls' = Answer(waitResp, 0)
  /\ partial' = None
  /\ atServer' = << >>
  /\ UNCHANGED <<waitConn, waitResp, appVars>>

(* The connection is closed, or reading fails: every pending handler is    *)
(* told, after the socket was closed.                                      *)
ConnectionLost ==
  /\ Reading
  /\ socket' = "closed"
  /\ calls' = Answer(waitResp, 0)
  /\ waitResp' = << >>
  /\ partial' = None
  /\ atServer' = << >>
  /\ UNCHANGED <<waitConn, appVars>>

(* The response buffer is full: an error for the first request.  The rest  *)
(* of the response is no response any more, and nobody is told of it.      *)
ResponseTruncated ==
  /\ Reading
  /\ waitResp # << >>
  /\ \/ /\ partial # None
        /\ calls' = Answer(<<waitResp[1]>>, partial.replyTo)
        /\ UNCHANGED atServer
     \/ /\ partial = None
        /\ atServer # << >>
        /\ calls' = Answer(<<waitResp[1]>>, atServer[1])
        /\ atServer' = Tail(atServer)
  /\ waitResp' = Tail(waitResp)
  /\ partial' = None
  /\ UNCHANGED <<socket, waitConn, appVars>>

(* The first request whose CSeq is not lower than tag.                     *)
FirstFrom(tag) ==
  {i \in DOMAIN waitResp : /\ waitResp[i].cseq >= tag
                           /\ \A j \in 1..(i - 1) : waitResp[j].cseq < tag}

(* Mutant: a response without CSeq is given to the request sent last.      *)
FoundAtLast(tag) ==
  IF tag = 0 THEN Len(waitResp)
  ELSE IF FirstFrom(tag) = {} THEN Len(waitResp) + 1
  ELSE CHOOSE i \in FirstFrom(tag) : TRUE

(* The position of the request a response is taken for.  The search takes  *)
(* requests off the queue until one has a CSeq that is not lower; if it is *)
(* higher that request is gone as well, and the one after it is taken, as  *)
(* if the response had no CSeq.  Past the end: nobody waits for it.        *)
FoundAt(tag) ==
  LET first == CHOOSE i \in FirstFrom(tag) : TRUE IN
  IF FirstFrom(tag) = {} THEN Len(waitResp) + 1
  ELSE IF tag = 0 \/ waitResp[first].cseq = tag THEN first
  ELSE first + 1

(* The request found, if any, and what the search leaves behind it.        *)
Found(tag) ==
  IF FoundAt(tag) > Len(waitResp) THEN << >> ELSE <<waitResp[FoundAt(tag)]>>

After(tag) == SubSeq(waitResp, FoundAt(tag) + 1, Len(waitResp))

(* Mutant: the request is not put back.                                    *)
AwaitBodyForgets(m) ==
  /\ partial' = m
  /\ waitResp' = After(m.tag)
  /\ UNCHANGED <<socket, realm, CSeq, calls>>

(* The headers are complete and the body is not: the request goes back.    *)
AwaitBody(m) ==
  /\ partial' = m
  /\ waitResp' = Found(m.tag) \o After(m.tag)
  /\ UNCHANGED <<socket, realm, CSeq, calls>>

(* A request is resent to the server that a redirect names, and once       *)
(* authenticated, if there is a user name and a password; otherwise the    *)
(* handler, if somebody waits for this response, is told: success, an      *)
(* error code, or bad headers.                                             *)
HandleResponse(m) ==
  /\ m.code # "redirect" \/ Found(m.tag) = << >>
  /\ calls' = Answer(Found(m.tag), m.replyTo)
  /\ waitResp' = After(m.tag)
  /\ partial' = None
  /\ realm' \in {realm, realm \/ m.code = "unauthorized"}
  /\ UNCHANGED <<socket, CSeq>>

(* handleAuthenticationFailure() gives in if it has a realm already.       *)
MustResend(m) ==
  \/ m.code = "redirect"
  \/ m.code = "unauthorized" /\ ~realm

(* resendCommand(), on a new connection if the response redirects.         *)
(* Assumed: no request is pipelined behind one that must be resent.  Its   *)
(* response would be discarded, or be expected from a closed connection.   *)
ResendCommand(m) ==
  /\ FoundAt(m.tag) = Len(waitResp)
  /\ MustResend(m)
  /\ CSeq < MaxCSeq
  /\ LET r == waitResp[FoundAt(m.tag)] IN
     calls' = <<Call("resend", [r EXCEPT !.cseq = CSeq + 1], 0)>>
  /\ CSeq' = CSeq + 1
  /\ socket' = IF m.code = "redirect" THEN "closed" ELSE socket
  /\ realm' = (realm \/ m.code = "unauthorized")
  /\ waitResp' = << >>
  /\ partial' = None

(* The server's next response: its headers, with the whole body or not.    *)
ResponseArrives(m) ==
  /\ Reading
  /\ partial = None
  /\ atServer # << >>
  /\ m.replyTo = atServer[1]
  /\ m.tag \in {0, m.replyTo}
  /\ atServer' = Tail(atServer)
  /\ AwaitBody(m) \/ HandleResponse(m) \/ ResendCommand(m)
  /\ UNCHANGED <<waitConn, issued, answers, unsent>>

(* The rest of the body: the whole response is handled from its start.     *)
BodyArrives ==
  /\ Reading
  /\ partial # None
  /\ HandleResponse(partial) \/ ResendCommand(partial)
  /\ UNCHANGED <<waitConn, issued, answers, atServer, unsent>>

Next ==
  \/ Issue \/ CallHandler
  \/ AwaitConnection \/ OpenConnection \/ SendRequest \/ SendFails
  \/ Connected \/ ConnectionFailed
  \/ ConnectionLost \/ ResponseTruncated \/ BodyArrives
  \/ \E m \in Responses : ResponseArrives(m)

Spec == Init /\ [][Next]_vars

(* The thread does what is to be done before it is back in the event loop, *)
(* and the system tells it what became of a connection, if only after its  *)
(* timeout.  Nothing is assumed of the server once it is connected.        *)
FairSpec ==
  /\ Spec
  /\ WF_vars(CallHandler \/ AwaitConnection \/ OpenConnection
               \/ SendRequest \/ SendFails)
  /\ WF_vars(Connected \/ ConnectionFailed)

-----------------------------------------------------------------------------
(* Correctness *)

QueuedIn(q, i) == {n \in DOMAIN q : q[n].id = i}

(* The places that hold a pointer to the record of request i.              *)
Places(i) ==
  Cardinality(QueuedIn(waitConn, i)) + Cardinality(QueuedIn(waitResp, i))
    + Cardinality({n \in DOMAIN calls : calls[n].req.id = i})

(* RTSPClient.hh:64-65: the handler "is called later to handle the         *)
(* response (or is called immediately ...)".  A request whose handler was  *)
(* not called yet is still held somewhere that will call it.               *)
NoneForgotten == \A i \in 1..issued : answers[i] = 0 => Places(i) > 0

(* The same sentence: a handler is called once, and nothing holds a record *)
(* that was deleted after its handler's call.                              *)
NoneTwice == \A i \in 1..issued : answers[i] + Places(i) <= 1

(* A request is in one queue at a time - the queues link the records       *)
(* themselves - until its handler is called, and it is called once; a      *)
(* request that could not be sent again is the only one called twice.      *)
HandledOnce ==
  /\ NoneForgotten
  /\ \A i \in 1..issued :
       answers[i] + Places(i) <= IF i \in unsent THEN 2 ELSE 1

(* A queue never waits for what cannot come: requests wait for a           *)
(* connection exactly while one is being made, and for a response only     *)
(* while the connection is open - so a response, a failure or a close      *)
(* will empty it.                                                          *)
QueuesHaveConnection ==
  /\ waitConn # << >> <=> socket = "pending"
  /\ waitResp # << >> => socket = "open"

(* A response that has a CSeq goes to the request with this CSeq, and one  *)
(* that has none goes to the request the server meant.                     *)
AnswersOwnRequest ==
  \A n \in DOMAIN calls :
    calls[n].op = "answer" /\ calls[n].replyTo # 0
      => calls[n].replyTo = calls[n].req.cseq

(* Where a request is, seen from outside.                                  *)
Status ==
  [i \in Ids |-> IF i > issued THEN "new"
                ELSE IF answers[i] > 0 THEN "told"
                ELSE IF QueuedIn(waitResp, i) # {} THEN "sent"
                ELSE "waiting"]

Service == INSTANCE RequestService WITH Reqs <- Ids, status <- Status

(* The client keeps the promises of RequestService: a handler is never     *)
(* called while its request is still out, and no request hangs in a queue  *)
(* or a call, however connections fail and handlers send in between.       *)
ImplementsService == Service!Spec
=============================================================================
