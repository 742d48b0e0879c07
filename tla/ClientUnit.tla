---------------------------- MODULE ClientUnit ------------------------------
(***************************************************************************)
(* One connection of the server: CClientUnit with its caches and its event *)
(* mask, the decoder unit's verdicts, and the kernel's two buffers         *)
(* (proxy/client_unit.cpp, proxy/decode_unit.cpp).                         *)
(*                                                                         *)
(* Bytes come in units, which carry their place in the stream they were    *)
(* written to.  pc names the next system call, or the next request of the  *)
(* loop, of the handlers of one event; the client reads and writes between *)
(* any two.  The verdict on _stage follows the call that sets it at once,  *)
(* so _stage needs no variable.  The push to redis (__data_flow) is left   *)
(* to OrderSyncServer, and a policy file request, which is answered and    *)
(* then ends the connection, is a bad request here.                        *)
(***************************************************************************)
EXTENDS Integers, Sequences, FiniteSetsExt

CONSTANTS Streams,        \* what clients write: sequences of requests
          HeadSize,       \* sizeof(TPkgHeader)
          ReplySize,      \* units of a reply
          MaxWebRecvLen,  \* MAX_WEB_RECV_LEN
          SendRoom,       \* units the kernel holds for a client that does not read
          MaxSendErrors   \* 50

(* A request that HandleInput rejects (flag, size above 8000), one that     *)
(* HandleInputBuf rejects (decryption, command), and one that is handled.   *)
Kinds == {"bad", "refused", "data"}

ASSUME UnitAssumption ==
    /\ HeadSize \in Nat \ {0}
    /\ ReplySize \in Nat \ {0}
    /\ MaxWebRecvLen \in Nat \ {0}
    /\ SendRoom \in Nat \ {0}
    /\ MaxSendErrors \in Nat \ {0}
    /\ Streams \subseteq Seq([size : Nat, kind : Kinds])
    /\ \A stream \in Streams : \A n \in DOMAIN stream : stream[n].size >= HeadSize

VARIABLES requests,       \* what this client writes, one of Streams
          next,           \* the next unit it writes
          clientOpen,     \* the client has not closed its socket
          toServer,       \* written, and not read by the server
          toClient,       \* sent by the server, and not read by the client
          r, w,           \* _r and _w
          handled,        \* history: the number of requests handled
          sendErrors,     \* _send_error_times
          newEvents, oldEvents,
          event,          \* the event that is being processed
          pc

clientVars == <<requests, next, clientOpen>>
maskVars == <<newEvents, oldEvents>>
serverVars == <<r, w, handled, sendErrors, maskVars, event, pc>>
unitVars == <<clientVars, toServer, toClient, serverVars>>

Unit == [req : Nat \ {0}, part : Nat \ {0}]
Masks == SUBSET {"in", "out"}
Steps == {"wait", "recv", "cut", "reply", "send", "resend", "closed"}

UnitTypeOK ==
    /\ requests \in Streams
    /\ next \in Unit
    /\ clientOpen \in BOOLEAN
    /\ toServer \in Seq(Unit)
    /\ toClient \in Seq(Unit) /\ Len(toClient) <= SendRoom
    /\ r \in Seq(Unit) /\ w \in Seq(Unit)
    /\ handled \in 0..Len(requests)
    /\ sendErrors \in 0..(MaxSendErrors - 1)
    /\ newEvents \in Masks /\ oldEvents \in Masks /\ event \in Masks
    /\ pc \in Steps

alive == pc # "closed"

S == INSTANCE Session
       WITH sent <- next.req - 1,
            replies <- IF clientOpen THEN toClient \o w ELSE <<>>,
            reading <- clientOpen,
            open <- alive

(* The unit as CListener::proc_request leaves it: attached, with EPOLLIN. *)
UnitInit ==
    /\ requests \in Streams
    /\ next = [req |-> 1, part |-> 1]
    /\ clientOpen = TRUE
    /\ toServer = <<>> /\ toClient = <<>>
    /\ r = <<>> /\ w = <<>>
    /\ handled = 0
    /\ sendErrors = 0
    /\ newEvents = {"in"} /\ oldEvents = {"in"} /\ event = {}
    /\ pc = "wait"

-----------------------------------------------------------------------------
(* The client. *)

(* The unit that follows u in the stream. *)
After(u) == IF u.part = requests[u.req].size THEN [req |-> u.req + 1, part |-> 1]
            ELSE [req |-> u.req, part |-> u.part + 1]

(* One more unit arrives: a packet comes in pieces of any size. *)
ClientWrites ==
    /\ alive /\ clientOpen
    /\ next.req <= Len(requests)
    /\ toServer' = Append(toServer, next)
    /\ next' = After(next)
    /\ UNCHANGED <<requests, clientOpen, toClient, serverVars>>

ClientReads ==
    /\ clientOpen
    /\ toClient # <<>>
    /\ toClient' = Tail(toClient)
    /\ UNCHANGED <<clientVars, toServer, serverVars>>

ClientCloses ==
    /\ clientOpen
    /\ clientOpen' = FALSE
    /\ toClient' = <<>>
    /\ UNCHANGED <<requests, next, toServer, serverVars>>

-----------------------------------------------------------------------------
(* CListener::complete: the unit is deleted and its socket closed, which    *)
(* is a reset, and may take replies with it, if there is unread input.      *)
Complete ==
    /\ pc' = "closed"
    /\ toServer' = <<>>
    /\ toClient' \in IF toServer = <<>> THEN {toClient} ELSE {toClient, <<>>}
    /\ r' = <<>> /\ w' = <<>>
    /\ newEvents' = {} /\ oldEvents' = {} /\ event' = {}
    /\ UNCHANGED <<clientVars, handled, sendErrors>>

(* EPOLLHUP or EPOLLERR; and the timer of a unit that is not being served. *)
HangupNotify == pc = "wait" /\ ~clientOpen /\ Complete
TimerNotify == pc = "wait" /\ Complete

Readable == toServer # <<>> \/ ~clientOpen
Writable == Len(toClient) < SendRoom

(* An event of the connection: InputNotify is called for EPOLLIN, then      *)
(* OutputNotify for EPOLLOUT.                                               *)
TakeEvent ==
    /\ pc = "wait"
    /\ event' = {e \in oldEvents : IF e = "in" THEN Readable ELSE Writable}
    /\ event' # {}
    /\ newEvents' = oldEvents
    /\ pc' = IF "in" \in event' THEN "recv" ELSE "send"
    /\ UNCHANGED <<clientVars, toServer, toClient, r, w, handled, sendErrors, oldEvents>>

-----------------------------------------------------------------------------
(* CClientUnit::send *)

(* It returns -1: the unit will be deleted. *)
SendFails ==
    \/ w = <<>>
    \/ ~clientOpen
    \/ ~Writable /\ sendErrors + 1 >= MaxSendErrors

(* Mutant: EPOLLOUT is not asked for after a part. *)
SendSomeUnwatched ==
    \E n \in 1..Len(w) :
       /\ clientOpen
       /\ Len(toClient) + n <= SendRoom
       /\ toClient' = toClient \o SubSeq(w, 1, n)
       /\ w' = SubSeq(w, n + 1, Len(w))
       /\ newEvents' = newEvents \ {"out"}
       /\ oldEvents' = newEvents'
       /\ sendErrors' = 0

(* Mutant: what has been sent stays in _w after a part. *)
SendSomeKeepsPart ==
    \E n \in 1..Len(w) :
       /\ clientOpen
       /\ Len(toClient) + n <= SendRoom
       /\ toClient' = toClient \o SubSeq(w, 1, n)
       /\ w' = IF n = Len(w) THEN <<>> ELSE w
       /\ newEvents' = IF n = Len(w) THEN newEvents \ {"out"} ELSE newEvents \cup {"out"}
       /\ oldEvents' = newEvents'
       /\ sendErrors' = 0

(* Part of _w is taken (all of it when nobody reads it any more) ... *)
SendSome ==
    \E n \in 1..Len(w) :
       /\ IF clientOpen
          THEN /\ Len(toClient) + n <= SendRoom
               /\ toClient' = toClient \o SubSeq(w, 1, n)
          ELSE /\ n = Len(w)
               /\ UNCHANGED toClient
       /\ w' = SubSeq(w, n + 1, Len(w))
       /\ newEvents' = IF n = Len(w) THEN newEvents \ {"out"} ELSE newEvents \cup {"out"}
       /\ oldEvents' = newEvents'
       /\ sendErrors' = 0

(* Mutant: errors without a limit. *)
SendAgainForEver ==
    /\ w # <<>> /\ clientOpen /\ ~Writable
    /\ sendErrors' = sendErrors + 1
    /\ newEvents' = newEvents \cup {"out"}
    /\ oldEvents' = newEvents'
    /\ UNCHANGED <<w, toClient>>

(* ... or nothing: EAGAIN. *)
SendAgain ==
    /\ w # <<>> /\ clientOpen /\ ~Writable
    /\ sendErrors + 1 < MaxSendErrors
    /\ sendErrors' = sendErrors + 1
    /\ newEvents' = newEvents \cup {"out"}
    /\ oldEvents' = newEvents'
    /\ UNCHANGED <<w, toClient>>

Send == SendSome \/ SendAgain

-----------------------------------------------------------------------------
(* recv, from proc_pkg *)
Recv ==
    /\ pc = "recv"
    /\ IF toServer = <<>>
       THEN Complete                       \* 0, or an error: CONN_DISCONNECT
       ELSE LET n == Min({Len(toServer), MaxWebRecvLen}) IN
            /\ r' = r \o SubSeq(toServer, 1, n)
            /\ toServer' = SubSeq(toServer, n + 1, Len(toServer))
            /\ pc' = "cut"
            /\ UNCHANGED <<clientVars, toClient, w, handled, sendErrors, maskVars, event>>

(* The size of the request at the head of _r, 0 when it is not complete,    *)
(* -1 when it is rejected.                                                  *)
HandleInput ==
    IF Len(r) < HeadSize THEN 0
    ELSE IF Head(r).part # 1 \/ requests[Head(r).req].kind = "bad" THEN -1
    ELSE IF Len(r) < requests[Head(r).req].size THEN 0
    ELSE requests[Head(r).req].size

(* No complete request is left: CONN_DATA_RECVING, POLLER_SUCC.  *)
CutDone ==
    /\ pc = "cut"
    /\ HandleInput = 0
    /\ pc' = IF "out" \in event THEN "send" ELSE "wait"
    /\ oldEvents' = IF "out" \in event THEN oldEvents ELSE newEvents
    /\ UNCHANGED <<clientVars, toServer, toClient, r, w, handled, sendErrors, newEvents, event>>

CutRejected ==
    /\ pc = "cut"
    /\ \/ HandleInput < 0
       \/ HandleInput > 0 /\ requests[Head(r).req].kind = "refused"
    /\ Complete

(* HandleInputBuf, cmd_data_handler up to its send. *)
CmdData ==
    /\ pc = "cut"
    /\ HandleInput > 0
    /\ requests[Head(r).req].kind = "data"
    /\ handled' = handled + 1
    /\ w' = w \o S!Reply(Head(r).req)
    /\ pc' = "reply"
    /\ UNCHANGED <<clientVars, toServer, toClient, r, sendErrors, maskVars, event>>

(* Mutant: all that was received is skipped with the request. *)
CmdSendSkipsAll ==
    /\ pc = "reply"
    /\ Send
    /\ r' = <<>>
    /\ pc' = "cut"
    /\ UNCHANGED <<clientVars, toServer, handled, event>>

(* Mutant: one request for each event. *)
CmdSendOnce ==
    /\ pc = "reply"
    /\ Send
    /\ r' = SubSeq(r, HandleInput + 1, Len(r))
    /\ pc' = IF "out" \in event THEN "send" ELSE "wait"
    /\ UNCHANGED <<clientVars, toServer, handled, event>>

(* The send of cmd_data_handler, and the skip of the request. *)
CmdSend ==
    /\ pc = "reply"
    /\ \/ /\ Send
          /\ r' = SubSeq(r, HandleInput + 1, Len(r))
          /\ pc' = "cut"
          /\ UNCHANGED <<clientVars, toServer, handled, event>>
       \/ SendFails /\ Complete

(* The send of OutputNotify; web_output sends once more after a part. *)
OutputNotify ==
    /\ pc \in {"send", "resend"}
    /\ \/ /\ Send
          /\ pc' = IF pc = "send" /\ w' # <<>> THEN "resend" ELSE "wait"
          /\ UNCHANGED <<clientVars, toServer, r, handled, event>>
       \/ SendFails /\ Complete

UnitNext ==
    \/ ClientWrites \/ ClientReads \/ ClientCloses
    \/ HangupNotify \/ TimerNotify \/ TakeEvent
    \/ Recv \/ CutDone \/ CutRejected \/ CmdData \/ CmdSend
    \/ OutputNotify

(* The server's loop runs, and the client goes on reading. *)
UnitFairness ==
    /\ WF_unitVars(TakeEvent \/ Recv \/ CutDone \/ CutRejected \/ CmdData \/ CmdSend \/ OutputNotify)
    /\ WF_unitVars(ClientReads)

UnitSpec == UnitInit /\ [][UnitNext]_unitVars
FairUnitSpec == UnitSpec /\ UnitFairness

-----------------------------------------------------------------------------
(* Requests are cut at the right byte: what the server has not cut off and  *)
(* the unread input are the client's stream from the first request that is  *)
(* not handled, without a gap and without a repetition.                     *)
NoByteLost ==
    alive =>
      LET bytes == r \o toServer \o <<next>> IN
      /\ Head(bytes) = [req |-> IF pc = "reply" THEN handled ELSE handled + 1, part |-> 1]
      /\ \A n \in 1..(Len(bytes) - 1) : bytes[n + 1] = After(bytes[n])

(* Between two events the kernel watches for EPOLLOUT exactly when there    *)
(* are replies to send, and always for EPOLLIN.                             *)
OutputIsWatched ==
    pc = "wait" => oldEvents = IF w = <<>> THEN {"in"} ELSE {"in", "out"}

(* The connection is a session: requests are handled once and in order, and *)
(* replies come in that order, whatever the pieces they are cut into.       *)
ImplementsSession == S!SessionSpec

(* Every request that is written is handled, and its reply read, unless one *)
(* of the two sides closes the connection.                                  *)
RequestsAreAnswered ==
    \A n \in 1..Max({Len(stream) : stream \in Streams}) :
       (next.req > n) ~>
          \/ ~alive \/ ~clientOpen
          \/ /\ handled >= n
             /\ \A k \in DOMAIN (toClient \o w) : (toClient \o w)[k].req # n

(* web_output gives up a client that is there, "response data to client     *)
(* failed", only when there is response data.                               *)
FailedResponsesExist ==
    [][alive /\ ~alive' /\ clientOpen /\ pc \in {"send", "resend"} => Len(w) > 0]_unitVars
=============================================================================
