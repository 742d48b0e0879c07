-------------------------- MODULE OrderSyncClient --------------------------
(***************************************************************************)
(* OrderSyncClient, the sender of order changes: order_sync_client_t::run  *)
(* with the TcpClient and fetcher_t calls it makes.  It is one thread; a   *)
(* step is one system call with the code up to the next one, and pc names  *)
(* the call the thread is about to make.                                   *)
(*                                                                         *)
(*   "wait"      epoll_wait at the top of the loop                         *)
(*   "check"     CTcpClient::check on a readable socket                    *)
(*   "recheck"   the single Reconnect after check found the peer gone      *)
(*   "fetch"     fetcher_t::fetch, the lpop of the source queue            *)
(*   "send"      CTcpClient::Send of the packet in hand                    *)
(*   "reconnect" the Reconnect inside the send loop                        *)
(*   "recv"      CTcpClient::Recv of the reply                             *)
(*   "down"      the process is not running                                *)
(*                                                                         *)
(* The socket is registered with epoll exactly while it is connected,      *)
(* because every Close removes it and every successful Reconnect is        *)
(* followed by attach.                                                     *)
(***************************************************************************)
EXTENDS TcpLink

CONSTANTS ErrorTimes,   \* __ERROR_TIMES: polls for a reply before giving up on the connection
          NoPacket      \* the packet buffer after out.clean()

ASSUME ClientAssumption ==
    /\ ErrorTimes \in Nat
    /\ NoPacket \notin [eid : Nat, item : Nat]

VARIABLES produced,   \* order changes the pay centre has pushed so far
          popped,     \* order changes the client has popped so far
          pc,         \* the call the client is about to make
          conn,       \* the connection of the client's socket, or NoConn
          out,        \* the packet in hand, or NoPacket
          event_id,   \* the id the next packet gets
          r_errs,     \* fruitless polls for the reply
          fate        \* history: what became of each order change at the client

clientVars == <<produced, popped, pc, conn, out, event_id, r_errs, fate>>

Fates == {"unseen", "held", "answered", "unconfirmed", "rejected", "lost"}
PCs == {"wait", "check", "recheck", "fetch", "send", "reconnect", "recv", "down"}

ClientTypeOK ==
    /\ produced \in 0..Len(Orders)
    /\ popped \in 0..produced
    /\ pc \in PCs
    /\ conn \in Conns \cup {NoConn}
    /\ out \in Packet \cup {NoPacket}
    /\ event_id \in Nat
    /\ r_errs \in 0..(ErrorTimes + 1)
    /\ fate \in [Items -> Fates]

ClientInit ==
    /\ produced = 0
    /\ popped = 0
    /\ pc = "down"
    /\ conn = NoConn
    /\ out = NoPacket
    /\ event_id = 1
    /\ r_errs = 0
    /\ fate = [i \in Items |-> "unseen"]

(* The pay centre pushes the next order change (external). *)
Produce ==
    /\ produced < Len(Orders)
    /\ produced' = produced + 1
    /\ UNCHANGED <<popped, pc, conn, out, event_id, r_errs, fate>>

-----------------------------------------------------------------------------
(* Disconneced() and Close(), which the code always calls together. *)
Disconnect ==
    /\ IF conn = NoConn THEN UNCHANGED <<cli, srv, up, down>> ELSE ClientCloses(conn)
    /\ conn' = NoConn

(* Reconnect() == 0, then readable, writeable and attach. *)
Reconnected ==
    \E c \in Conns : Connect(c) /\ conn' = c

(* main: the process starts, and runs only if the first Connect succeeds. *)
Start ==
    /\ pc = "down"
    /\ Reconnected
    /\ pc' = "wait"
    /\ event_id' = 1
    /\ r_errs' = 0
    /\ UNCHANGED <<produced, popped, out, fate, breaks>>

(* The process dies; the order change it holds exists nowhere else. *)
Crash ==
    /\ pc # "down"
    /\ Break("crash")
    /\ Disconnect
    /\ pc' = "down"
    /\ out' = NoPacket
    /\ fate' = [i \in Items |-> IF fate[i] = "held" THEN "lost" ELSE fate[i]]
    /\ UNCHANGED <<produced, popped, event_id, r_errs>>

-----------------------------------------------------------------------------
(* epoll_wait reports the socket, which is always writeable here: nothing  *)
(* the client sent is unread when it comes back to the top of the loop.    *)
(* A socket that is not connected is not registered and nothing wakes the  *)
(* loop: ev_nums <= 0 continues for ever.                                  *)
Wait ==
    /\ pc = "wait"
    /\ conn # NoConn
    /\ r_errs' = 0
    /\ \/ Readable(conn) /\ pc' = "check"
       \/ (~Readable(conn) \/ Delayed(conn)) /\ pc' = "fetch"
    /\ UNCHANGED <<produced, popped, conn, out, event_id, fate>>
    /\ UNCHANGED linkVars

(* check() reads four bytes and throws them away. *)
CheckData ==
    /\ pc = "check"
    /\ HasReply(conn)
    /\ down' = [down EXCEPT ![conn] = Tail(@)]
    /\ pc' = "fetch"
    /\ UNCHANGED <<cli, srv, up, breaks>>
    /\ UNCHANGED <<produced, popped, conn, out, event_id, r_errs, fate>>

(* check() == 0: the peer closed the connection. *)
CheckClosed ==
    /\ pc = "check"
    /\ PeerGone(conn)
    /\ Disconnect
    /\ pc' = "recheck"
    /\ UNCHANGED <<produced, popped, out, event_id, r_errs, fate, breaks>>

(* One Reconnect, after sleep(1). *)
Recheck ==
    /\ pc = "recheck"
    /\ Reconnected
    /\ pc' = "fetch"
    /\ UNCHANGED <<produced, popped, out, event_id, r_errs, fate, breaks>>

(* The same when the server does not accept: the code goes on without a    *)
(* connection and without a registered socket.                             *)
RecheckFails ==
    /\ pc = "recheck"
    /\ pc' = "fetch"
    /\ UNCHANGED <<produced, popped, conn, out, event_id, r_errs, fate>>
    /\ UNCHANGED linkVars

-----------------------------------------------------------------------------
FetchEmpty ==
    /\ pc = "fetch"
    /\ popped = produced
    /\ pc' = "wait"
    /\ UNCHANGED <<produced, popped, conn, out, event_id, r_errs, fate>>
    /\ UNCHANGED linkVars

(* lpop takes the next order change off the queue ... *)
Pop(f) ==
    /\ pc = "fetch"
    /\ popped < produced
    /\ popped' = popped + 1
    /\ fate' = [fate EXCEPT ![popped + 1] = f]
    /\ UNCHANGED <<produced, conn, event_id, r_errs>>
    /\ UNCHANGED linkVars

(* ... and its reply may be lost: Dequeue leaves the string empty. *)
FetchLost ==
    /\ "srcRedis" \in Faults
    /\ Pop("lost")
    /\ pc' = "wait"
    /\ UNCHANGED out

(* Text that is no JSON, or an update whose creation time the source       *)
(* database does not give: the loop continues with the next one.           *)
FetchRejected ==
    /\ Pop("rejected")
    /\ \/ Orders[popped + 1].text = "bad"
       \/ Orders[popped + 1].type = UPDATE /\ "lookup" \in Faults
    /\ pc' = "wait"
    /\ UNCHANGED out

FetchOrder ==
    /\ Pop("held")
    /\ Orders[popped + 1].text # "bad"
    /\ out' = [eid |-> event_id, item |-> popped + 1]
    /\ pc' = "send"

-----------------------------------------------------------------------------
(* Send writes the whole packet.  A peer that has closed does not make the *)
(* first write fail: the bytes are lost.                                   *)
Send ==
    /\ pc = "send"
    /\ conn # NoConn
    /\ up' = IF srv[conn] = "open" THEN [up EXCEPT ![conn] = Append(@, out)] ELSE up
    /\ pc' = "recv"
    /\ UNCHANGED <<cli, srv, down, breaks>>
    /\ UNCHANGED <<produced, popped, conn, out, event_id, r_errs, fate>>

(* Mutant: the send loop lost, the order change is dropped when Send fails. *)
SendFailsOnce ==
    /\ pc = "send"
    /\ conn # NoConn => srv[conn] = "closed"
    /\ Disconnect
    /\ pc' = "recheck"
    /\ out' = NoPacket
    /\ UNCHANGED <<produced, popped, event_id, r_errs, fate, breaks>>

(* Send returns 0: not connected, or the peer's reset is already known. *)
SendFails ==
    /\ pc = "send"
    /\ conn # NoConn => srv[conn] = "closed"
    /\ Disconnect
    /\ pc' = "reconnect"
    /\ UNCHANGED <<produced, popped, out, event_id, r_errs, fate, breaks>>

SendReconnect ==
    /\ pc = "reconnect"
    /\ Reconnected
    /\ pc' = "send"
    /\ UNCHANGED <<produced, popped, out, event_id, r_errs, fate, breaks>>

(* Mutant: no second attempt, the loop goes back to epoll_wait. *)
SendReconnectGivesUp ==
    /\ pc = "reconnect"
    /\ pc' = "wait"
    /\ UNCHANGED <<produced, popped, conn, out, event_id, r_errs, fate>>
    /\ UNCHANGED linkVars

(* sleep(5), then Send again, which returns 0 at once. *)
SendReconnectFails ==
    /\ pc = "reconnect"
    /\ pc' = "send"
    /\ UNCHANGED <<produced, popped, conn, out, event_id, r_errs, fate>>
    /\ UNCHANGED linkVars

-----------------------------------------------------------------------------
(* recv returns the units that have arrived: all of them, unless TCP       *)
(* delivers a reply in pieces.                                             *)
Arrived(c) ==
    IF "fragment" \in Faults THEN 1..Len(down[c]) ELSE {Len(down[c])}

(* Mutant: the event id in the reply is not compared. *)
ConfirmsAny(units) == \E eid \in 1..event_id : units = Reply(eid)

(* parse_packet accepts exactly the bytes of one reply (the checksum fails *)
(* on anything else), and the event id in it is the one sent.              *)
Confirms(units) == units = Reply(event_id)

(* rr > 0: whatever was read, the order change is done with. *)
RecvReply ==
    /\ pc = "recv"
    /\ HasReply(conn)
    /\ \E n \in Arrived(conn) :
         /\ down' = [down EXCEPT ![conn] = SubSeq(@, n + 1, Len(@))]
         /\ fate' = [fate EXCEPT ![out.item] =
                       IF Confirms(SubSeq(down[conn], 1, n)) THEN "answered" ELSE "unconfirmed"]
    /\ out' = NoPacket
    /\ event_id' = event_id + 1
    /\ pc' = "wait"
    /\ UNCHANGED <<cli, srv, up, breaks>>
    /\ UNCHANGED <<produced, popped, conn, r_errs>>

(* Mutant: rr >= 0 in place of rr > 0, the end of the stream is an answer. *)
RecvClosedIsReply ==
    /\ pc = "recv"
    /\ PeerGone(conn)
    /\ fate' = [fate EXCEPT ![out.item] = "unconfirmed"]
    /\ out' = NoPacket
    /\ event_id' = event_id + 1
    /\ pc' = "wait"
    /\ UNCHANGED <<produced, popped, conn, r_errs>>
    /\ UNCHANGED linkVars

(* rr == 0, or -1 with an error: the same packet is sent again. *)
RecvClosed ==
    /\ pc = "recv"
    /\ PeerGone(conn)
    /\ Disconnect
    /\ pc' = "send"
    /\ UNCHANGED <<produced, popped, out, event_id, r_errs, fate, breaks>>

(* Mutant: one poll too many. *)
RecvPollOnceMore ==
    /\ pc = "recv"
    /\ ~Readable(conn)
    /\ r_errs <= ErrorTimes + 1
    /\ r_errs' = r_errs + 1
    /\ UNCHANGED <<produced, popped, pc, conn, out, event_id, fate>>
    /\ UNCHANGED linkVars

(* EAGAIN: sleep and poll again, ErrorTimes + 1 times. *)
RecvPoll ==
    /\ pc = "recv"
    /\ ~Readable(conn)
    /\ r_errs <= ErrorTimes
    /\ r_errs' = r_errs + 1
    /\ UNCHANGED <<produced, popped, pc, conn, out, event_id, fate>>
    /\ UNCHANGED linkVars

(* Mutant: the packet is sent again without closing the connection. *)
RecvTimeoutKeepsOpen ==
    /\ pc = "recv"
    /\ ~Readable(conn)
    /\ r_errs > ErrorTimes
    /\ Break("timeout")
    /\ r_errs' = 0
    /\ pc' = "send"
    /\ UNCHANGED <<cli, srv, up, down>>
    /\ UNCHANGED <<produced, popped, conn, out, event_id, fate>>

(* Mutant: after the timeout the client goes on with the next order change. *)
RecvTimeoutGivesUp ==
    /\ pc = "recv"
    /\ ~Readable(conn)
    /\ r_errs > ErrorTimes
    /\ Break("timeout")
    /\ Disconnect
    /\ fate' = [fate EXCEPT ![out.item] = "unconfirmed"]
    /\ r_errs' = 0
    /\ out' = NoPacket
    /\ event_id' = event_id + 1
    /\ pc' = "recheck"
    /\ UNCHANGED <<produced, popped>>

(* Still EAGAIN: close the connection and send the packet again. *)
RecvTimeout ==
    /\ pc = "recv"
    /\ ~Readable(conn)
    /\ r_errs > ErrorTimes
    /\ Break("timeout")
    /\ Disconnect
    /\ r_errs' = 0
    /\ pc' = "send"
    /\ UNCHANGED <<produced, popped, out, event_id, fate>>

-----------------------------------------------------------------------------
(* The steps of the loop itself, which the thread always takes. *)
ClientLoop ==
    \/ Wait \/ CheckData \/ CheckClosed \/ RecheckFails
    \/ FetchEmpty \/ FetchLost \/ FetchRejected \/ FetchOrder
    \/ Send \/ SendFails \/ SendReconnectFails
    \/ RecvReply \/ RecvClosed \/ RecvPoll \/ RecvTimeout

(* The steps that need the server to accept a connection. *)
ClientConnects == Start \/ Recheck \/ SendReconnect
=============================================================================
