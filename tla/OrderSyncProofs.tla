--------------------------- MODULE OrderSyncProofs --------------------------
(***************************************************************************)
(* Proofs about OrderSync, for any orders, connections, redis instances    *)
(* and faults: its type invariant; unless TCP delivers a reply in pieces,  *)
(* that at most one request is in flight and that the client lets go of an *)
(* order change only when the server has handled it; and, however replies  *)
(* are cut, that a change reported as synchronised was handled.            *)
(***************************************************************************)
EXTENDS OrderSync, SequenceTheorems, TLAPS

-----------------------------------------------------------------------------
(* The inductive invariant.  Each conjunct says what one part of the       *)
(* system may assume of the others.                                        *)

(* TCP delivers each reply as a whole. *)
WholeReplies == "fragment" \notin Faults

(* The client holds the order change it popped last while it works on it.  *)
InHand == pc \in {"send", "reconnect", "recv"}

HoldInv ==
    InHand => /\ popped \in Items
              /\ out = [eid |-> event_id, item |-> popped]
              /\ fate[popped] = "held"

(* The client's end of its connection is open, and it has a connection     *)
(* where it reads from one.                                                *)
ConnInv ==
    /\ conn # NoConn => cli[conn] = "open"
    /\ pc \in {"check", "recv"} => conn # NoConn

(* A reply on the wire follows the handling of the packet it answers. *)
ReplyInv ==
    pc = "recv" /\ down[conn] # <<>> => Served(popped)

(* What holds however replies are delivered ... *)
LocalInv == HoldInv /\ ConnInv

(* ... and what needs whole replies. *)
FlowInv ==
    /\ LocalInv
    /\ OneRequestInFlight
    /\ ReplyInv
    /\ SettledIsServed

IInv == TypeOK /\ FlowInv

-----------------------------------------------------------------------------
(* Facts about the operators of the modules. *)

LEMMA ReplyType ==
    ASSUME NEW eid \in Nat
    PROVE  /\ Reply(eid) \in Seq(Nat \X (1..ReplyUnits))
           /\ Len(Reply(eid)) = ReplyUnits
           /\ Reply(eid) # <<>>
<1>1. ReplyUnits \in Nat /\ ReplyUnits > 0
  BY OrderAssumption
<1>2. Reply(eid) \in [1..ReplyUnits -> Nat \X (1..ReplyUnits)]
  BY DEF Reply
<1>3. Reply(eid) \in Seq(Nat \X (1..ReplyUnits)) /\ Len(Reply(eid)) = ReplyUnits
  BY <1>1, <1>2 DEF Reply
<1> QED
  BY <1>1, <1>3

(* What __data_flow leaves: the queues keep their type. *)
LEMMA DataFlowType ==
    ASSUME QueueTypeOK, discarded \subseteq Items,
           NEW i \in Items, DataFlow(i)
    PROVE  QueueTypeOK' /\ discarded' \subseteq Items
<1>1. CASE discarded' = discarded \cup {i} /\ UNCHANGED queueVars
  BY <1>1 DEF QueueTypeOK, queueVars
<1>2. ASSUME NEW s \in Svids, Enqueue(s, i), UNCHANGED discarded
      PROVE  QueueTypeOK' /\ discarded' \subseteq Items
  BY <1>2 DEF QueueTypeOK, Enqueue
<1> QED
  BY <1>1, <1>2 DEF DataFlow

(* Opening and closing the client's end keeps the types of the link. *)
LEMMA ConnectType ==
    ASSUME LinkTypeOK, UNCHANGED breaks, Reconnected
    PROVE  LinkTypeOK' /\ conn' \in Conns
  BY DEF Reconnected, Connect, LinkTypeOK, EndStates

LEMMA DisconnectType ==
    ASSUME LinkTypeOK, conn \in Conns \cup {NoConn}, Disconnect, breaks' \in 0..MaxBreaks
    PROVE  LinkTypeOK' /\ conn' = NoConn
<1>1. CASE conn = NoConn
  BY <1>1 DEF Disconnect, LinkTypeOK
<1>2. CASE conn \in Conns /\ conn # NoConn
  <2>1. ClientCloses(conn) /\ conn' = NoConn
    BY <1>2 DEF Disconnect
  <2>2. <<>> \in Seq(Nat \X (1..ReplyUnits))
    OBVIOUS
  <2> QED
    BY <1>2, <2>1, <2>2 DEF ClientCloses, LinkTypeOK, EndStates
<1> QED
  BY <1>1, <1>2

LEMMA BreakType ==
    ASSUME NEW kind, breaks \in 0..MaxBreaks, Break(kind)
    PROVE  breaks' \in 0..MaxBreaks
  BY LinkAssumption DEF Break

(* A step of the client keeps its own types and those of the link. *)
LEMMA ClientStepType ==
    ASSUME LinkTypeOK, ClientTypeOK, LocalInv,
           (Produce /\ UNCHANGED linkVars) \/ Crash \/ ClientLoop \/ ClientConnects
    PROVE  LinkTypeOK' /\ ClientTypeOK'
<1> USE OrderAssumption, LinkAssumption, ClientAssumption
<1> USE DEF PCs, LocalInv
<1>1. CASE Produce /\ UNCHANGED linkVars
  BY <1>1 DEF Produce, ClientTypeOK, LinkTypeOK, linkVars
<1>2. CASE Crash
  <2>1. LinkTypeOK' /\ conn' = NoConn
    BY <1>2, BreakType, DisconnectType DEF Crash, ClientTypeOK, LinkTypeOK
  <2>2. fate' \in [Items -> Fates]
    BY <1>2 DEF Crash, ClientTypeOK, Fates
  <2> QED
    BY <1>2, <2>1, <2>2 DEF Crash, ClientTypeOK
<1>3. CASE Wait
  BY <1>3 DEF Wait, ClientTypeOK, LinkTypeOK, linkVars
<1>4. CASE CheckData
  <2>1. conn \in Conns
    BY <1>4 DEF CheckData, ClientTypeOK, ConnInv
  <2>2. Tail(down[conn]) \in Seq(Nat \X (1..ReplyUnits))
    BY <1>4, <2>1 DEF CheckData, HasReply, LinkTypeOK
  <2> QED
    BY <1>4, <2>1, <2>2 DEF CheckData, ClientTypeOK, LinkTypeOK
<1>5. CASE CheckClosed
  <2>1. LinkTypeOK' /\ conn' = NoConn
    BY <1>5, DisconnectType DEF CheckClosed, ClientTypeOK, LinkTypeOK
  <2> QED
    BY <1>5, <2>1 DEF CheckClosed, ClientTypeOK
<1>6. CASE RecheckFails
  BY <1>6 DEF RecheckFails, ClientTypeOK, LinkTypeOK, linkVars
<1>7. CASE FetchEmpty
  BY <1>7 DEF FetchEmpty, ClientTypeOK, LinkTypeOK, linkVars
<1>8. ASSUME NEW f \in Fates, Pop(f)
      PROVE  /\ LinkTypeOK' /\ popped + 1 \in Items
             /\ produced' \in 0..Len(Orders) /\ popped' \in 0..produced'
             /\ fate' \in [Items -> Fates] /\ conn' \in Conns \cup {NoConn}
             /\ event_id' \in Nat /\ r_errs' \in 0..(ErrorTimes + 1)
  BY <1>8 DEF Pop, ClientTypeOK, LinkTypeOK, linkVars, Items
<1>9. CASE FetchLost
  BY <1>8, <1>9 DEF FetchLost, ClientTypeOK, Fates
<1>10. CASE FetchRejected
  BY <1>8, <1>10 DEF FetchRejected, ClientTypeOK, Fates
<1>11. CASE FetchOrder
  <2>1. out' \in Packet
    BY <1>8, <1>11 DEF FetchOrder, ClientTypeOK, Fates, Packet
  <2> QED
    BY <1>8, <1>11, <2>1 DEF FetchOrder, ClientTypeOK, Fates
<1>12. CASE Send
  <2>1. conn \in Conns
    BY <1>12 DEF Send, ClientTypeOK
  <2>2. out \in Packet
    BY <1>12 DEF Send, HoldInv, InHand, Packet, ClientTypeOK
  <2>3. Append(up[conn], out) \in Seq(Packet)
    BY <2>1, <2>2 DEF LinkTypeOK
  <2>4. up' \in [Conns -> Seq(Packet)]
    BY <1>12, <2>1, <2>3 DEF Send, LinkTypeOK
  <2> QED
    BY <1>12, <2>4 DEF Send, ClientTypeOK, LinkTypeOK
<1>13. CASE SendFails
  <2>1. LinkTypeOK' /\ conn' = NoConn
    BY <1>13, DisconnectType DEF SendFails, ClientTypeOK, LinkTypeOK
  <2> QED
    BY <1>13, <2>1 DEF SendFails, ClientTypeOK
<1>14. CASE SendReconnectFails
  BY <1>14 DEF SendReconnectFails, ClientTypeOK, LinkTypeOK, linkVars
<1>15. CASE RecvReply
  <2>1. conn \in Conns
    BY <1>15 DEF RecvReply, ClientTypeOK, ConnInv
  <2>2. PICK n \in Arrived(conn) :
          /\ down' = [down EXCEPT ![conn] = SubSeq(@, n + 1, Len(@))]
          /\ fate' = [fate EXCEPT ![out.item] =
                        IF Confirms(SubSeq(down[conn], 1, n)) THEN "answered" ELSE "unconfirmed"]
    BY <1>15 DEF RecvReply
  <2>3. n \in Nat
    BY <2>1, <2>2 DEF Arrived, LinkTypeOK
  <2>4. SubSeq(down[conn], n + 1, Len(down[conn])) \in Seq(Nat \X (1..ReplyUnits))
    BY <2>1, <2>3 DEF LinkTypeOK
  <2>5. LinkTypeOK'
    BY <1>15, <2>1, <2>2, <2>4 DEF RecvReply, LinkTypeOK
  <2>6. fate' \in [Items -> Fates]
    BY <2>2 DEF ClientTypeOK, Fates
  <2> QED
    BY <1>15, <2>5, <2>6 DEF RecvReply, ClientTypeOK
<1>16. CASE RecvClosed
  <2>1. LinkTypeOK' /\ conn' = NoConn
    BY <1>16, DisconnectType DEF RecvClosed, ClientTypeOK, LinkTypeOK
  <2> QED
    BY <1>16, <2>1 DEF RecvClosed, ClientTypeOK
<1>17. CASE RecvPoll
  BY <1>17 DEF RecvPoll, ClientTypeOK, LinkTypeOK, linkVars
<1>18. CASE RecvTimeout
  <2>1. LinkTypeOK' /\ conn' = NoConn
    BY <1>18, BreakType, DisconnectType DEF RecvTimeout, ClientTypeOK, LinkTypeOK
  <2> QED
    BY <1>18, <2>1 DEF RecvTimeout, ClientTypeOK
<1>19. CASE Start
  BY <1>19, ConnectType DEF Start, ClientTypeOK
<1>20. CASE Recheck
  BY <1>20, ConnectType DEF Recheck, ClientTypeOK
<1>21. CASE SendReconnect
  BY <1>21, ConnectType DEF SendReconnect, ClientTypeOK
<1> QED
  BY <1>1, <1>2, <1>3, <1>4, <1>5, <1>6, <1>7, <1>9, <1>10, <1>11, <1>12, <1>13, <1>14,
     <1>15, <1>16, <1>17, <1>18, <1>19, <1>20, <1>21 DEF ClientLoop, ClientConnects

(* Handling an order change serves it, and never undoes a handling. *)
LEMMA DataFlowServes ==
    ASSUME QueueTypeOK, NEW i \in Items, DataFlow(i)
    PROVE  /\ Served(i)'
           /\ \A j \in Items : Served(j) => Served(j)'
<1>1. CASE discarded' = discarded \cup {i} /\ UNCHANGED queueVars
  BY <1>1 DEF Served, Queued, queueVars
<1>2. ASSUME NEW s \in Svids, Enqueue(s, i), UNCHANGED discarded
      PROVE  Served(i)' /\ \A j \in Items : Served(j) => Served(j)'
  <2>1. orderQ[s] \in Seq(Items) /\ orderQ'[s] = Append(orderQ[s], i)
    BY <1>2 DEF QueueTypeOK, Enqueue
  <2>2. Len(orderQ'[s]) = Len(orderQ[s]) + 1 /\ orderQ'[s][Len(orderQ[s]) + 1] = i
    BY <2>1
  <2>3. Len(orderQ[s]) + 1 \in 1..Len(orderQ'[s])
    BY <2>1, <2>2
  <2>4. Served(i)'
    BY <2>2, <2>3 DEF Served, Queued
  <2>5. ASSUME NEW j \in Items, NEW t \in Svids, NEW k \in 1..Len(orderQ[t]), orderQ[t][k] = j
        PROVE  k \in 1..Len(orderQ'[t]) /\ orderQ'[t][k] = j
    <3>1. CASE t = s
      BY <2>1, <2>5, <3>1
    <3>2. CASE t # s
      BY <1>2, <2>5, <3>2 DEF Enqueue, QueueTypeOK
    <3> QED
      BY <3>1, <3>2
  <2>6. ASSUME NEW j \in Items, Served(j)
        PROVE  Served(j)'
    <3>1. CASE j \in discarded
      BY <1>2, <3>1 DEF Served
    <3>2. CASE Queued(j)
      <4>1. PICK t \in Svids : \E k \in 1..Len(orderQ[t]) : orderQ[t][k] = j
        BY <3>2 DEF Queued
      <4> QED
        BY <2>5, <4>1 DEF Served, Queued
    <3> QED
      BY <2>6, <3>1, <3>2 DEF Served
  <2> QED
    BY <2>4, <2>6
<1> QED
  BY <1>1, <1>2 DEF DataFlow

(* The server's answer to the packet at the head of a connection. *)
LEMMA InputPacketType ==
    ASSUME LinkTypeOK, NEW c \in Conns, InputPacket(c)
    PROVE  /\ Head(up[c]) \in Packet
           /\ LinkTypeOK'
<1>1. up[c] \in Seq(Packet) /\ up[c] # <<>>
  BY DEF InputPacket, LinkTypeOK
<1>2. Head(up[c]) \in Packet /\ Tail(up[c]) \in Seq(Packet)
  BY <1>1
<1>3. up' \in [Conns -> Seq(Packet)]
  BY <1>2 DEF InputPacket, CmdData, LinkTypeOK
<1>4. Reply(Head(up[c]).eid) \in Seq(Nat \X (1..ReplyUnits))
  BY <1>2, ReplyType DEF Packet
<1>5. down[c] \o Reply(Head(up[c]).eid) \in Seq(Nat \X (1..ReplyUnits))
  BY <1>4 DEF LinkTypeOK
<1>6. down' \in [Conns -> Seq(Nat \X (1..ReplyUnits))]
  BY <1>5 DEF InputPacket, CmdData, LinkTypeOK
<1> QED
  BY <1>2, <1>3, <1>6 DEF InputPacket, CmdData, LinkTypeOK

LEMMA ServerClosesType ==
    ASSUME LinkTypeOK, NEW c \in Conns, ServerCloses(c), breaks' \in 0..MaxBreaks
    PROVE  LinkTypeOK'
  BY DEF ServerCloses, LinkTypeOK, EndStates

(* A step of the server keeps the types of what it changes. *)
LEMMA ServerStepType ==
    ASSUME LinkTypeOK, ServerTypeOK, QueueTypeOK,
           \/ \E c \in Conns : ServerHandles(c) \/ TimerNotify(c)
           \/ Restart
           \/ \E s \in Svids : RedisBreaks(s)
    PROVE  LinkTypeOK' /\ ServerTypeOK' /\ QueueTypeOK'
<1>1. ASSUME NEW c \in Conns, InputPacket(c)
      PROVE  LinkTypeOK' /\ ServerTypeOK' /\ QueueTypeOK'
  <2>1. Head(up[c]) \in Packet /\ LinkTypeOK'
    BY <1>1, InputPacketType
  <2>2. Head(up[c]).item \in Items /\ DataFlow(Head(up[c]).item)
    BY <1>1, <2>1 DEF Packet, InputPacket, CmdData
  <2>3. QueueTypeOK' /\ discarded' \subseteq Items
    BY <2>2, DataFlowType DEF ServerTypeOK
  <2> QED
    BY <1>1, <2>1, <2>3 DEF ServerTypeOK, InputPacket
<1>2. ASSUME NEW c \in Conns, InputOversized(c) \/ InputClosed(c)
      PROVE  LinkTypeOK' /\ ServerTypeOK' /\ QueueTypeOK'
  <2>1. LinkTypeOK'
    BY <1>2, ServerClosesType DEF InputOversized, InputClosed, LinkTypeOK
  <2> QED
    BY <1>2, <2>1 DEF InputOversized, InputClosed, serverVars, queueVars, ServerTypeOK, QueueTypeOK
<1>3. ASSUME NEW c \in Conns, TimerNotify(c)
      PROVE  LinkTypeOK' /\ ServerTypeOK' /\ QueueTypeOK'
  <2>1. LinkTypeOK'
    BY <1>3, BreakType, ServerClosesType DEF TimerNotify, LinkTypeOK
  <2> QED
    BY <1>3, <2>1 DEF TimerNotify, serverVars, queueVars, ServerTypeOK, QueueTypeOK
<1>4. CASE Restart
  <2>1. LinkTypeOK'
    BY <1>4, BreakType DEF Restart, LinkTypeOK, EndStates
  <2>2. srvRedis' \in [Svids -> BOOLEAN]
    BY <1>4 DEF Restart
  <2> QED
    BY <1>4, <2>1, <2>2 DEF Restart, queueVars, ServerTypeOK, QueueTypeOK
<1>5. ASSUME NEW s \in Svids, RedisBreaks(s)
      PROVE  LinkTypeOK' /\ ServerTypeOK' /\ QueueTypeOK'
  BY <1>5, BreakType DEF RedisBreaks, queueVars, LinkTypeOK, ServerTypeOK, QueueTypeOK
<1> QED
  BY <1>1, <1>2, <1>3, <1>4, <1>5 DEF ServerHandles

(* A step of OrderDbSync or of the calendar keeps the types of both. *)
LEMMA SyncStepType ==
    ASSUME QueueTypeOK, SyncTypeOK,
           NextMonth \/ \E s \in Svids : SyncOrder(s) \/ SyncLoses(s)
    PROVE  QueueTypeOK' /\ SyncTypeOK'
<1>1. CASE NextMonth
  BY <1>1 DEF NextMonth, queueVars, QueueTypeOK, SyncTypeOK
<1>2. ASSUME NEW s \in Svids, Dequeue(s)
      PROVE  QueueTypeOK' /\ First(s) \in Items
  BY <1>2 DEF Dequeue, First, QueueTypeOK
<1>3. ASSUME NEW s \in Svids, SyncOrder(s)
      PROVE  QueueTypeOK' /\ SyncTypeOK'
  <2>1. QueueTypeOK' /\ First(s) \in Items /\ Execute(First(s))
    BY <1>2, <1>3 DEF SyncOrder
  <2>2. Orders[First(s)].id \in Ids
    BY <2>1 DEF Ids
  <2>3. TableName(First(s)) \in Months
    BY <2>1, DbSyncAssumption DEF TableName, Mtime, SyncTypeOK
  <2>4. rows' \in [Months -> [Ids -> Items \cup {0}]]
    BY <2>1, <2>2, <2>3 DEF Execute, SyncTypeOK
  <2> QED
    BY <1>3, <2>1, <2>4 DEF SyncOrder, SyncTypeOK
<1>4. ASSUME NEW s \in Svids, SyncLoses(s)
      PROVE  QueueTypeOK' /\ SyncTypeOK'
  BY <1>2, <1>4 DEF SyncLoses, SyncTypeOK
<1> QED
  BY <1>1, <1>3, <1>4

LEMMA ServedSame ==
    ASSUME UNCHANGED <<serverVars, queueVars>>
    PROVE  \A j \in Items : Served(j)' <=> Served(j)
  BY DEF Served, Queued, serverVars, queueVars

(* A step of the client keeps what it knows of its own state. *)
LEMMA ClientStepLocal ==
    ASSUME LinkTypeOK, ClientTypeOK, LocalInv,
           (Produce /\ UNCHANGED linkVars) \/ Crash \/ ClientLoop \/ ClientConnects
    PROVE  LocalInv'
<1> USE DEF LocalInv, HoldInv, InHand, ConnInv
<1>1. CASE Produce /\ UNCHANGED linkVars
  BY <1>1 DEF Produce, linkVars
<1>2. CASE Crash
  BY <1>2 DEF Crash, Disconnect
<1>3. CASE Wait \/ RecheckFails \/ FetchEmpty \/ SendReconnectFails \/ RecvPoll
  BY <1>3 DEF Wait, RecheckFails, FetchEmpty, SendReconnectFails, RecvPoll, linkVars
<1>4. CASE CheckData \/ Send \/ RecvReply
  BY <1>4 DEF CheckData, Send, RecvReply
<1>5. CASE CheckClosed \/ SendFails \/ RecvClosed \/ RecvTimeout
  BY <1>5 DEF CheckClosed, SendFails, RecvClosed, RecvTimeout, Disconnect
<1>6. CASE FetchLost \/ FetchRejected \/ FetchOrder
  <2>1. \E f : Pop(f)
    BY <1>6 DEF FetchLost, FetchRejected, FetchOrder
  <2>2. popped + 1 \in Items
    BY <2>1, OrderAssumption DEF Pop, ClientTypeOK, Items
  <2> QED
    BY <1>6, <2>2 DEF FetchLost, FetchRejected, FetchOrder, Pop, ClientTypeOK, linkVars
<1>7. CASE ClientConnects
  <2>1. Reconnected /\ pc' \notin {"check", "recv"} /\ UNCHANGED <<popped, out, fate>>
        /\ (pc' = "send" => pc = "reconnect" /\ UNCHANGED event_id) /\ pc' # "reconnect"
    BY <1>7 DEF ClientConnects, Start, Recheck, SendReconnect
  <2>2. conn' \in Conns /\ cli'[conn'] = "open"
    BY <2>1 DEF Reconnected, Connect, LinkTypeOK
  <2> QED
    BY <2>1, <2>2
<1> QED
  BY <1>1, <1>2, <1>3, <1>4, <1>5, <1>6, <1>7 DEF ClientLoop

(* A step of the client that leaves it without a connection. *)
LEMMA NoConnFlow ==
    ASSUME conn' = NoConn, pc' # "recv"
    PROVE  OneRequestInFlight' /\ ReplyInv'
  BY DEF OneRequestInFlight, ReplyInv

(* A step of the client that opens a connection. *)
LEMMA NewConnFlow ==
    ASSUME LinkTypeOK, Reconnected, pc' # "recv"
    PROVE  OneRequestInFlight' /\ ReplyInv'
<1>1. PICK c \in Conns : Connect(c) /\ conn' = c
  BY DEF Reconnected
<1>2. up'[c] = <<>> /\ down'[c] = <<>>
  BY <1>1 DEF Connect, LinkTypeOK
<1> QED
  BY <1>1, <1>2 DEF OneRequestInFlight, ReplyInv

(* A step of the client outside the wait for a reply that leaves the link. *)
LEMMA SameConnFlow ==
    ASSUME OneRequestInFlight, UNCHANGED <<linkVars, conn>>, pc # "recv", pc' # "recv"
    PROVE  OneRequestInFlight' /\ ReplyInv'
  BY DEF linkVars, OneRequestInFlight, ReplyInv

(* A step of the client that is done with no order change. *)
LEMMA SettledSame ==
    ASSUME SettledIsServed, UNCHANGED <<serverVars, queueVars>>,
           \A i \in Items : fate'[i] \in {"answered", "unconfirmed"} => fate'[i] = fate[i]
    PROVE  SettledIsServed'
  BY ServedSame DEF SettledIsServed

(* With whole replies, what the client receives is the reply to its packet, *)
(* and all of it.                                                          *)
LEMMA RecvWhole ==
    ASSUME WholeReplies, LinkTypeOK, ClientTypeOK, FlowInv, RecvReply
    PROVE  /\ conn \in Conns /\ out.item = popped /\ popped \in Items
           /\ down'[conn] = <<>> /\ up'[conn] = <<>>
           /\ fate' = [fate EXCEPT ![popped] = "answered"]
           /\ Served(popped)
<1>1. conn \in Conns /\ out.item = popped /\ popped \in Items /\ down[conn] # <<>>
  BY DEF RecvReply, ClientTypeOK, FlowInv, LocalInv, ConnInv, HoldInv, InHand, HasReply
<1>2. down[conn] = Reply(event_id) /\ up[conn] = <<>>
  BY <1>1 DEF RecvReply, FlowInv, OneRequestInFlight, LocalInv, ConnInv
<1>3. down[conn] \in Seq(Nat \X (1..ReplyUnits))
  BY <1>1 DEF LinkTypeOK
<1>4. PICK n \in Arrived(conn) :
        /\ down' = [down EXCEPT ![conn] = SubSeq(@, n + 1, Len(@))]
        /\ fate' = [fate EXCEPT ![out.item] =
                      IF Confirms(SubSeq(down[conn], 1, n)) THEN "answered" ELSE "unconfirmed"]
  BY DEF RecvReply
<1>5. n = Len(down[conn])
  BY <1>4 DEF Arrived, WholeReplies
<1>6. SubSeq(down[conn], 1, n) = down[conn]
  BY <1>3, <1>5
<1>7. SubSeq(down[conn], n + 1, Len(down[conn])) = <<>>
  BY <1>3, <1>5
<1>8. down'[conn] = <<>> /\ up'[conn] = <<>>
  BY <1>1, <1>2, <1>4, <1>7 DEF LinkTypeOK, RecvReply
<1>9. fate' = [fate EXCEPT ![popped] = "answered"]
  BY <1>1, <1>2, <1>4, <1>6 DEF Confirms
<1> QED
  BY <1>1, <1>8, <1>9 DEF RecvReply, FlowInv, ReplyInv

(* A step of the client keeps the flow invariant. *)
LEMMA ClientStepFlow ==
    ASSUME WholeReplies, LinkTypeOK, ClientTypeOK, FlowInv,
           UNCHANGED <<serverVars, queueVars>>,
           (Produce /\ UNCHANGED linkVars) \/ Crash \/ ClientLoop \/ ClientConnects
    PROVE  FlowInv'
<1> USE DEF FlowInv
<1>1. LocalInv'
  BY ClientStepLocal
<1> SUFFICES OneRequestInFlight' /\ ReplyInv' /\ SettledIsServed'
  BY <1>1
<1>2. CASE (Produce /\ UNCHANGED linkVars) \/ RecvPoll
  <2>1. UNCHANGED <<linkVars, popped, pc, conn, out, event_id, fate>>
    BY <1>2 DEF Produce, RecvPoll
  <2> QED
    BY <2>1, ServedSame
    DEF linkVars, LocalInv, HoldInv, InHand, OneRequestInFlight, ReplyInv, SettledIsServed
<1>3. CASE Crash
  BY <1>3, NoConnFlow, SettledSame DEF Crash, Disconnect
<1>4. CASE Wait \/ RecheckFails \/ FetchEmpty \/ SendReconnectFails
  BY <1>4, SameConnFlow, SettledSame DEF Wait, RecheckFails, FetchEmpty, SendReconnectFails
<1>5. CASE CheckData
  BY <1>5 DEF CheckData, HasReply, LocalInv, ConnInv, OneRequestInFlight
<1>6. CASE CheckClosed \/ SendFails \/ RecvClosed \/ RecvTimeout
  BY <1>6, NoConnFlow, SettledSame
  DEF CheckClosed, SendFails, RecvClosed, RecvTimeout, Disconnect
<1>7. CASE FetchLost \/ FetchRejected \/ FetchOrder
  <2>1. PICK f \in {"held", "lost", "rejected"} : Pop(f)
    BY <1>7 DEF FetchLost, FetchRejected, FetchOrder
  <2>2. SettledIsServed'
    BY <2>1, SettledSame DEF Pop, ClientTypeOK
  <2> QED
    BY <1>7, <2>2, SameConnFlow DEF FetchLost, FetchRejected, FetchOrder, Pop
<1>8. CASE Send
  <2>1. conn \in Conns /\ up[conn] = <<>> /\ down[conn] = <<>>
    BY <1>8 DEF Send, ClientTypeOK, OneRequestInFlight
  <2>2. up'[conn] \in {<<>>, <<out>>} /\ down'[conn] = <<>>
    BY <1>8, <2>1 DEF Send, LinkTypeOK
  <2> QED
    BY <1>8, <2>2, SettledSame DEF Send, OneRequestInFlight, ReplyInv
<1>9. CASE RecvReply
  <2>1. SettledIsServed'
    BY <1>9, RecvWhole, ServedSame DEF SettledIsServed, ClientTypeOK
  <2> QED
    BY <1>9, <2>1, RecvWhole DEF RecvReply, OneRequestInFlight, ReplyInv
<1>10. CASE ClientConnects
  BY <1>10, NewConnFlow, SettledSame DEF ClientConnects, Start, Recheck, SendReconnect
<1> QED
  BY <1>2, <1>3, <1>4, <1>5, <1>6, <1>7, <1>8, <1>9, <1>10 DEF ClientLoop

(* A handler that answers a packet: the reply on the wire is to the packet *)
(* the client waits for, and that packet is served.                        *)
LEMMA InputPacketFlow ==
    ASSUME LinkTypeOK, ClientTypeOK, ServerTypeOK, QueueTypeOK, FlowInv,
           UNCHANGED clientVars, NEW c \in Conns, InputPacket(c)
    PROVE  FlowInv'
<1> USE DEF FlowInv, LocalInv
<1> DEFINE m == Head(up[c])
<1>1. PICK i \in Items : m.item = i
  BY InputPacketType DEF Packet
<1>2. Served(i)' /\ \A j \in Items : Served(j) => Served(j)'
  BY <1>1, DataFlowServes DEF InputPacket, CmdData
<1>3. HoldInv' /\ ConnInv'
  BY DEF InputPacket, CmdData, clientVars, HoldInv, InHand, ConnInv
<1>4. SettledIsServed'
  BY <1>2 DEF clientVars, SettledIsServed
<1>5. CASE conn # c
  <2>1. conn # NoConn => up'[conn] = up[conn] /\ down'[conn] = down[conn]
    BY <1>5 DEF InputPacket, CmdData, LinkTypeOK, ClientTypeOK
  <2>2. OneRequestInFlight'
    BY <2>1 DEF clientVars, OneRequestInFlight
  <2>3. ReplyInv'
    BY <2>1, <1>2 DEF clientVars, ReplyInv, ConnInv, HoldInv, InHand
  <2> QED
    BY <1>3, <1>4, <2>2, <2>3
<1>6. CASE conn = c
  <2>1. conn # NoConn /\ up[conn] # <<>> /\ pc = "recv"
    BY <1>6, LinkAssumption DEF InputPacket, OneRequestInFlight
  <2>2. up[conn] = <<out>> /\ down[conn] = <<>> /\ cli[conn] = "open"
    BY <2>1 DEF OneRequestInFlight, ConnInv
  <2>3. m = out /\ m.eid = event_id /\ m.item = popped
    BY <1>6, <2>1, <2>2 DEF HoldInv, InHand
  <2>4. up'[conn] = <<>>
    BY <1>6, <2>2 DEF InputPacket, CmdData, LinkTypeOK
  <2>5. Reply(event_id) \in Seq(Nat \X (1..ReplyUnits))
    BY ReplyType DEF ClientTypeOK
  <2>6. down' = [down EXCEPT ![c] = down[c] \o Reply(m.eid)]
    BY <1>6, <2>2 DEF InputPacket, CmdData
  <2>7. down'[conn] = Reply(event_id)
    <3>1. down'[c] = down[c] \o Reply(m.eid)
      BY <2>6 DEF LinkTypeOK
    <3>2. down'[c] = <<>> \o Reply(event_id)
      BY <1>6, <2>2, <2>3, <3>1, Zenon
    <3>3. <<>> \o Reply(event_id) = Reply(event_id)
      BY ONLY <2>5
    <3> QED
      BY <1>6, <3>2, <3>3, Zenon
  <2>8. OneRequestInFlight'
    BY <2>1, <2>4, <2>7 DEF clientVars, OneRequestInFlight
  <2>9. ReplyInv'
    BY <1>1, <1>2, <2>3 DEF clientVars, ReplyInv
  <2> QED
    BY <1>3, <1>4, <2>8, <2>9
<1> QED
  BY <1>5, <1>6

(* A step that only takes bytes off the wire keeps the flow invariant. *)
LEMMA WireShrinksFlow ==
    ASSUME FlowInv, UNCHANGED <<clientVars, cli, queueVars, discarded>>,
           conn # NoConn => /\ up'[conn] \in {<<>>, up[conn]}
                            /\ down'[conn] \in {<<>>, down[conn]}
    PROVE  FlowInv'
<1> USE DEF FlowInv, LocalInv
<1>1. \A j \in Items : Served(j)' <=> Served(j)
  BY DEF Served, Queued, queueVars
<1>2. HoldInv' /\ ConnInv' /\ OneRequestInFlight'
  BY DEF clientVars, HoldInv, InHand, ConnInv, OneRequestInFlight
<1>3. ReplyInv' /\ SettledIsServed'
  BY <1>1 DEF clientVars, ReplyInv, HoldInv, InHand, ConnInv, SettledIsServed
<1> QED
  BY <1>2, <1>3

(* A step of the server keeps the flow invariant. *)
LEMMA ServerStepFlow ==
    ASSUME LinkTypeOK, ClientTypeOK, ServerTypeOK, QueueTypeOK, FlowInv,
           UNCHANGED clientVars,
           \/ \E c \in Conns : ServerHandles(c) \/ TimerNotify(c)
           \/ Restart
           \/ \E s \in Svids : RedisBreaks(s)
    PROVE  FlowInv'
<1>1. ASSUME NEW c \in Conns, InputPacket(c)
      PROVE  FlowInv'
  BY <1>1, InputPacketFlow
<1>2. ASSUME NEW c \in Conns, InputOversized(c) \/ InputClosed(c) \/ TimerNotify(c)
      PROVE  FlowInv'
  <2>1. ServerCloses(c) /\ UNCHANGED <<discarded, queueVars>>
    BY <1>2 DEF InputOversized, InputClosed, TimerNotify, serverVars
  <2>2. up'[conn] \in {<<>>, up[conn]} \/ conn = NoConn
    BY <2>1 DEF ServerCloses, LinkTypeOK, ClientTypeOK
  <2> QED
    BY <2>1, <2>2, WireShrinksFlow DEF ServerCloses
<1>3. CASE Restart
  <2>1. up'[conn] = <<>> \/ conn = NoConn
    BY <1>3 DEF Restart, ClientTypeOK
  <2> QED
    BY <1>3, <2>1, WireShrinksFlow DEF Restart
<1>4. ASSUME NEW s \in Svids, RedisBreaks(s)
      PROVE  FlowInv'
  BY <1>4, WireShrinksFlow DEF RedisBreaks
<1> QED
  BY <1>1, <1>2, <1>3, <1>4 DEF ServerHandles

(* A reset of the network keeps types and flow. *)
LEMMA NetResetStep ==
    ASSUME LinkTypeOK, ClientTypeOK, FlowInv, NEW c \in Conns, NetReset(c),
           UNCHANGED <<clientVars, serverVars, queueVars>>
    PROVE  LinkTypeOK' /\ FlowInv'
<1>1. LinkTypeOK'
  BY BreakType DEF NetReset, LinkTypeOK, EndStates
<1>2. conn = NoConn \/ (up'[conn] \in {<<>>, up[conn]} /\ down'[conn] \in {<<>>, down[conn]})
  BY DEF NetReset, LinkTypeOK, ClientTypeOK
<1> QED
  BY <1>1, <1>2, WireShrinksFlow DEF NetReset, serverVars

(* OrderDbSync takes from the queues, and what was served stays served. *)
LEMMA SyncStepFlow ==
    ASSUME FlowInv, UNCHANGED <<clientVars, linkVars, serverVars>>,
           NextMonth \/ \E s \in Svids : SyncOrder(s) \/ SyncLoses(s)
    PROVE  FlowInv'
<1>1. orderQ' = orderQ
  BY DEF NextMonth, SyncOrder, SyncLoses, Dequeue, queueVars
<1>2. \A j \in Items : Served(j)' <=> Served(j)
  BY <1>1 DEF Served, Queued, serverVars
<1>3. HoldInv' /\ ConnInv' /\ OneRequestInFlight'
  BY DEF FlowInv, LocalInv, clientVars, linkVars, HoldInv, InHand, ConnInv, OneRequestInFlight
<1>4. ReplyInv' /\ SettledIsServed'
  BY <1>2 DEF FlowInv, LocalInv, clientVars, linkVars, ReplyInv, HoldInv, InHand, SettledIsServed
<1> QED
  BY <1>3, <1>4 DEF FlowInv, LocalInv

-----------------------------------------------------------------------------
(* The theorems. *)

LEMMA InitIInv ==
    ASSUME Init
    PROVE  IInv
<1> USE DEF Init, LinkInit, ClientInit, ServerInit, QueueInit, SyncInit
<1>1. LinkTypeOK
  BY LinkAssumption DEF LinkTypeOK, EndStates
<1>2. ClientTypeOK
  BY OrderAssumption, ClientAssumption DEF ClientTypeOK, PCs, Fates
<1>3. ServerTypeOK /\ QueueTypeOK
  BY DEF ServerTypeOK, QueueTypeOK
<1>4. SyncTypeOK
  BY DEF SyncTypeOK
<1>5. FlowInv
  BY DEF FlowInv, LocalInv, HoldInv, InHand, ConnInv, OneRequestInFlight, ReplyInv, SettledIsServed
<1> QED
  BY <1>1, <1>2, <1>3, <1>4, <1>5 DEF IInv, TypeOK

(* Types, and what the client knows of its own state, are inductive. *)
LEMMA StepType ==
    ASSUME TypeOK, LocalInv, [Next]_vars
    PROVE  TypeOK' /\ LocalInv'
<1> USE DEF TypeOK
<1>1. CASE ClientNext
  <2>1. LinkTypeOK' /\ ClientTypeOK' /\ LocalInv'
    BY <1>1, ClientStepType, ClientStepLocal DEF ClientNext
  <2>2. ServerTypeOK' /\ QueueTypeOK' /\ SyncTypeOK'
    BY <1>1 DEF ClientNext, serverVars, queueVars, syncVars, ServerTypeOK, QueueTypeOK, SyncTypeOK
  <2> QED
    BY <2>1, <2>2
<1>2. CASE ServerNext
  <2>1. LinkTypeOK' /\ ServerTypeOK' /\ QueueTypeOK'
    BY <1>2, ServerStepType DEF ServerNext
  <2>2. ClientTypeOK' /\ SyncTypeOK'
    BY <1>2 DEF ServerNext, clientVars, syncVars, ClientTypeOK, SyncTypeOK
  <2>3. cli' = cli
    BY <1>2 DEF ServerNext, ServerHandles, InputPacket, CmdData, InputOversized, InputClosed,
                TimerNotify, ServerCloses, Restart, RedisBreaks
  <2>4. LocalInv'
    BY <1>2, <2>3 DEF ServerNext, clientVars, LocalInv, HoldInv, InHand, ConnInv
  <2> QED
    BY <2>1, <2>2, <2>4
<1>3. CASE LinkNext
  <2>1. LinkTypeOK' /\ cli' = cli
    BY <1>3, BreakType DEF LinkNext, NetReset, LinkTypeOK, EndStates
  <2>2. ClientTypeOK' /\ ServerTypeOK' /\ QueueTypeOK' /\ SyncTypeOK'
    BY <1>3 DEF LinkNext, clientVars, serverVars, queueVars, syncVars,
                ClientTypeOK, ServerTypeOK, QueueTypeOK, SyncTypeOK
  <2>3. LocalInv'
    BY <1>3, <2>1 DEF LinkNext, clientVars, LocalInv, HoldInv, InHand, ConnInv
  <2> QED
    BY <2>1, <2>2, <2>3
<1>4. CASE SyncNext
  <2>1. QueueTypeOK' /\ SyncTypeOK'
    BY <1>4, SyncStepType DEF SyncNext
  <2>2. LinkTypeOK' /\ ClientTypeOK' /\ ServerTypeOK' /\ LocalInv'
    BY <1>4 DEF SyncNext, clientVars, linkVars, serverVars, LinkTypeOK, ClientTypeOK,
                ServerTypeOK, LocalInv, HoldInv, InHand, ConnInv
  <2> QED
    BY <2>1, <2>2
<1>5. CASE UNCHANGED vars
  BY <1>5 DEF vars, clientVars, linkVars, serverVars, queueVars, syncVars, LinkTypeOK, ClientTypeOK,
              ServerTypeOK, QueueTypeOK, SyncTypeOK, LocalInv, HoldInv, InHand, ConnInv
<1> QED
  BY <1>1, <1>2, <1>3, <1>4, <1>5 DEF Next

(* With whole replies the flow invariant is inductive too. *)
LEMMA StepFlow ==
    ASSUME WholeReplies, IInv, [Next]_vars
    PROVE  FlowInv'
<1> USE DEF IInv, TypeOK
<1>1. CASE ClientNext
  BY <1>1, ClientStepFlow DEF ClientNext
<1>2. CASE ServerNext
  BY <1>2, ServerStepFlow DEF ServerNext
<1>3. CASE LinkNext
  BY <1>3, NetResetStep DEF LinkNext
<1>4. CASE SyncNext
  BY <1>4, SyncStepFlow DEF SyncNext
<1>5. CASE UNCHANGED vars
  BY <1>5, WireShrinksFlow DEF vars, linkVars, serverVars
<1> QED
  BY <1>1, <1>2, <1>3, <1>4, <1>5 DEF Next

(* Every reachable state is of the declared types: in particular the poll  *)
(* counter of order_sync_client_t::run never passes __ERROR_TIMES + 1, and *)
(* the client never pops more than the pay centre pushed.                  *)
THEOREM TypeCorrect == Spec => []TypeOK
<1>1. Init => TypeOK /\ LocalInv
  BY InitIInv DEF IInv, FlowInv
<1>2. (TypeOK /\ LocalInv) /\ [Next]_vars => (TypeOK /\ LocalInv)'
  BY StepType
<1> QED
  BY <1>1, <1>2, PTL DEF Spec

(* With whole replies the inductive invariant holds in every reachable     *)
(* state, whatever is reset, closed, restarted, lost or answered late.     *)
THEOREM Invariance ==
    ASSUME WholeReplies
    PROVE  Spec => []IInv
<1>1. Init => IInv
  BY InitIInv
<1>2. IInv /\ [Next]_vars => IInv'
  BY StepType, StepFlow DEF IInv, FlowInv
<1> QED
  BY <1>1, <1>2, PTL DEF Spec

(* At most one request is outstanding on the client's connection, so that  *)
(* the bytes Recv returns are the reply to the packet in hand and those    *)
(* check() throws away are no reply.                                       *)
THEOREM InFlightCorrect ==
    ASSUME WholeReplies
    PROVE  Spec => []OneRequestInFlight
<1>1. IInv => OneRequestInFlight
  BY DEF IInv, FlowInv
<1> QED
  BY <1>1, Invariance, PTL

(* The client lets go of an order change it has sent only after a handler  *)
(* of the server has run for it.                                           *)
THEOREM SettledCorrect ==
    ASSUME WholeReplies
    PROVE  Spec => []SettledIsServed
<1>1. IInv => SettledIsServed
  BY DEF IInv, FlowInv
<1> QED
  BY <1>1, Invariance, PTL

-----------------------------------------------------------------------------
(***************************************************************************)
(* However TCP cuts the replies, an order change the client reports as     *)
(* synchronised has been handled by the server.  The event id carries the  *)
(* argument: on the client's connection, nothing but the packet in hand    *)
(* and the replies to it bear the current event id.                        *)
(***************************************************************************)
(* Packets and reply units on the client's connection bear no event id     *)
(* above the current one, and the current one only while the client waits  *)
(* for the reply to the order change it popped last.                       *)
PacketsInv ==
    \A n \in 1..Len(up[conn]) :
        /\ up[conn][n].eid <= event_id
        /\ up[conn][n].eid = event_id => pc = "recv" /\ up[conn][n].item = popped

UnitsInv ==
    \A n \in 1..Len(down[conn]) :
        /\ down[conn][n][1] <= event_id
        /\ down[conn][n][1] = event_id => pc = "recv" /\ Served(popped)

EventInv == conn # NoConn => PacketsInv /\ UnitsInv

AInv == LocalInv /\ EventInv /\ AnsweredIsServed

-----------------------------------------------------------------------------
LEMMA AnsweredSame ==
    ASSUME AnsweredIsServed, UNCHANGED <<serverVars, queueVars>>,
           \A i \in Items : fate'[i] = "answered" => fate'[i] = fate[i]
    PROVE  AnsweredIsServed'
  BY ServedSame DEF AnsweredIsServed

LEMMA NewConnEvents ==
    ASSUME LinkTypeOK, Reconnected
    PROVE  EventInv'
<1>1. PICK c \in Conns : Connect(c) /\ conn' = c
  BY DEF Reconnected
<1>2. up'[c] = <<>> /\ down'[c] = <<>>
  BY <1>1 DEF Connect, LinkTypeOK
<1> QED
  BY <1>1, <1>2 DEF EventInv, PacketsInv, UnitsInv

(* A step that leaves the connection, outside the wait for a reply: no     *)
(* current event id is on the wire, so the next order change may be popped. *)
LEMMA SameConnEvents ==
    ASSUME EventInv, UNCHANGED <<linkVars, conn, event_id>>, pc # "recv"
    PROVE  EventInv'
  BY DEF linkVars, EventInv, PacketsInv, UnitsInv

(* Taking n units off the wire leaves units that were there. *)
LEMMA DropUnits ==
    ASSUME NEW q \in Seq(Nat \X (1..ReplyUnits)), NEW n \in Nat, n <= Len(q),
           NEW k \in 1..Len(SubSeq(q, n + 1, Len(q)))
    PROVE  n + k \in 1..Len(q) /\ SubSeq(q, n + 1, Len(q))[k] = q[n + k]
<1>1. PICK l \in Nat : l = Len(q)
  OBVIOUS
<1>2. \A i \in (n + 1)..l : q[i] \in Nat \X (1..ReplyUnits)
  BY <1>1
<1>3. /\ Len(SubSeq(q, n + 1, l)) = IF n + 1 <= l THEN l - (n + 1) + 1 ELSE 0
      /\ \A i \in 1..(l - (n + 1) + 1) : SubSeq(q, n + 1, l)[i] = q[n + 1 + i - 1]
  BY <1>1, <1>2, SubSeqProperties
<1>4. k \in 1..(l - (n + 1) + 1)
  BY <1>1, <1>3
<1>5. n + 1 + k - 1 = n + k /\ n + k \in 1..l
  BY <1>1, <1>4
<1> QED
  BY <1>1, <1>3, <1>4, <1>5

(* A reply that is accepted was sent by a handler of the packet in hand. *)
LEMMA ConfirmedServed ==
    ASSUME LinkTypeOK, ClientTypeOK, LocalInv, EventInv, pc = "recv",
           NEW n \in Nat, n <= Len(down[conn]), Confirms(SubSeq(down[conn], 1, n))
    PROVE  Served(popped)
<1>1. conn \in Conns /\ down[conn] \in Seq(Nat \X (1..ReplyUnits))
  BY DEF LocalInv, ConnInv, ClientTypeOK, LinkTypeOK
<1>2. SubSeq(down[conn], 1, n) = Reply(event_id)
  BY DEF Confirms
<1>3. Len(Reply(event_id)) = ReplyUnits /\ ReplyUnits \in Nat /\ ReplyUnits >= 1
  BY ReplyType, OrderAssumption DEF ClientTypeOK
<1>4. n >= 1
  BY <1>1, <1>2, <1>3
<1>5. down[conn][1] = Reply(event_id)[1]
  BY <1>1, <1>2, <1>4
<1>6. Reply(event_id)[1] = <<event_id, 1>>
  BY <1>3 DEF Reply
<1>7. 1 \in 1..Len(down[conn]) /\ down[conn][1][1] = event_id
  BY <1>1, <1>4, <1>5, <1>6
<1> QED
  BY <1>1, <1>7, LinkAssumption DEF EventInv, UnitsInv

LEMMA ClientStepAnswer ==
    ASSUME LinkTypeOK, ClientTypeOK, AInv, UNCHANGED <<serverVars, queueVars>>,
           (Produce /\ UNCHANGED linkVars) \/ Crash \/ ClientLoop \/ ClientConnects
    PROVE  AInv'
<1> USE DEF AInv
<1>1. LocalInv'
  BY ClientStepLocal
<1> SUFFICES EventInv' /\ AnsweredIsServed'
  BY <1>1
<1>2. CASE (Produce /\ UNCHANGED linkVars) \/ RecvPoll
  <2>1. UNCHANGED <<linkVars, popped, pc, conn, event_id, fate>>
    BY <1>2 DEF Produce, RecvPoll
  <2>2. EventInv'
    <3>1. pc = "recv" => popped \in Items
      BY DEF LocalInv, HoldInv, InHand
    <3> QED
      BY <2>1, <3>1, ServedSame DEF linkVars, EventInv, PacketsInv, UnitsInv
  <2> QED
    BY <2>1, <2>2, AnsweredSame
<1>3. CASE Crash
  BY <1>3, AnsweredSame DEF Crash, Disconnect, EventInv
<1>4. CASE Wait \/ RecheckFails \/ FetchEmpty \/ SendReconnectFails
  BY <1>4, SameConnEvents, AnsweredSame
  DEF Wait, RecheckFails, FetchEmpty, SendReconnectFails
<1>5. CASE CheckData
  <2>1. conn \in Conns /\ down[conn] \in Seq(Nat \X (1..ReplyUnits)) /\ down[conn] # <<>>
    BY <1>5 DEF CheckData, HasReply, LocalInv, ConnInv, ClientTypeOK, LinkTypeOK
  <2>2. down'[conn] = Tail(down[conn]) /\ up' = up
    BY <1>5, <2>1 DEF CheckData, LinkTypeOK
  <2>3. \A k \in 1..Len(Tail(down[conn])) :
            k + 1 \in 1..Len(down[conn]) /\ Tail(down[conn])[k] = down[conn][k + 1]
    <3>1. ASSUME NEW q \in Seq(Nat \X (1..ReplyUnits)), q # <<>>
          PROVE  \A k \in 1..Len(Tail(q)) : k + 1 \in 1..Len(q) /\ Tail(q)[k] = q[k + 1]
      BY ONLY <3>1
    <3> QED
      BY <2>1, <3>1, Zenon
  <2>4. EventInv'
    BY <1>5, <2>2, <2>3 DEF CheckData, EventInv, PacketsInv, UnitsInv
  <2> QED
    BY <1>5, <2>4, AnsweredSame DEF CheckData
<1>6. CASE CheckClosed \/ SendFails \/ RecvClosed \/ RecvTimeout
  BY <1>6, AnsweredSame
  DEF CheckClosed, SendFails, RecvClosed, RecvTimeout, Disconnect, EventInv
<1>7. CASE FetchLost \/ FetchRejected \/ FetchOrder
  <2>1. PICK f \in {"held", "lost", "rejected"} : Pop(f)
    BY <1>7 DEF FetchLost, FetchRejected, FetchOrder
  <2>2. AnsweredIsServed'
    BY <2>1, AnsweredSame DEF Pop, ClientTypeOK
  <2> QED
    BY <2>1, <2>2, SameConnEvents DEF Pop
<1>8. CASE Send
  <2>1. conn \in Conns /\ conn # NoConn /\ up[conn] \in Seq(Packet)
    BY <1>8 DEF Send, ClientTypeOK, LinkTypeOK
  <2>2. out.eid = event_id /\ out.item = popped
    BY <1>8 DEF Send, LocalInv, HoldInv, InHand
  <2>3. up'[conn] = up[conn] \/ up'[conn] = Append(up[conn], out)
    BY <1>8, <2>1 DEF Send, LinkTypeOK
  <2>4. \A n \in 1..Len(up'[conn]) : up'[conn][n] = out \/ (n \in 1..Len(up[conn]) /\ up'[conn][n] = up[conn][n])
    BY <2>1, <2>3
  <2>5. PacketsInv'
    BY <1>8, <2>1, <2>2, <2>4 DEF Send, ClientTypeOK, EventInv, PacketsInv
  <2>6. UnitsInv'
    BY <1>8, <2>1 DEF Send, EventInv, UnitsInv
  <2> QED
    BY <1>8, <2>5, <2>6, AnsweredSame DEF Send, EventInv
<1>9. CASE RecvReply
  <2>1. conn \in Conns /\ out.item = popped /\ popped \in Items
    BY <1>9 DEF RecvReply, ClientTypeOK, LocalInv, ConnInv, HoldInv, InHand
  <2>2. down[conn] \in Seq(Nat \X (1..ReplyUnits)) /\ down[conn] # <<>>
    BY <1>9, <2>1 DEF RecvReply, HasReply, LinkTypeOK
  <2>3. PICK n \in Arrived(conn) :
          /\ down' = [down EXCEPT ![conn] = SubSeq(@, n + 1, Len(@))]
          /\ fate' = [fate EXCEPT ![out.item] =
                        IF Confirms(SubSeq(down[conn], 1, n)) THEN "answered" ELSE "unconfirmed"]
    BY <1>9 DEF RecvReply
  <2>4. n \in Nat /\ n <= Len(down[conn])
    BY <2>2, <2>3 DEF Arrived
  <2>5. down'[conn] = SubSeq(down[conn], n + 1, Len(down[conn])) /\ up' = up
    BY <1>9, <2>1, <2>3 DEF RecvReply, LinkTypeOK
  <2>6. EventInv'
    <3>1. event_id' = event_id + 1 /\ conn' = conn /\ event_id \in Nat
      BY <1>9 DEF RecvReply, ClientTypeOK
    <3>2. PacketsInv /\ UnitsInv
      BY <2>1, LinkAssumption DEF EventInv
    <3>3. ASSUME NEW k \in 1..Len(down'[conn])
          PROVE  down'[conn][k][1] <= event_id /\ down'[conn][k][1] \in Nat
      <4>1. n + k \in 1..Len(down[conn]) /\ down'[conn][k] = down[conn][n + k]
        <5>1. k \in 1..Len(SubSeq(down[conn], n + 1, Len(down[conn])))
          BY <2>5, Zenon
        <5>2. /\ n + k \in 1..Len(down[conn])
              /\ SubSeq(down[conn], n + 1, Len(down[conn]))[k] = down[conn][n + k]
          <6>1. \A q \in Seq(Nat \X (1..ReplyUnits)) : \A m \in Nat : m <= Len(q) =>
                    \A j \in 1..Len(SubSeq(q, m + 1, Len(q))) :
                        m + j \in 1..Len(q) /\ SubSeq(q, m + 1, Len(q))[j] = q[m + j]
            BY ONLY DropUnits
          <6> QED
            BY <2>2, <2>4, <5>1, <6>1, Zenon
        <5> QED
          BY <2>5, <5>2, Zenon
      <4>2. down[conn][n + k] \in Nat \X (1..ReplyUnits)
        BY <2>2, <4>1
      <4> QED
        BY <3>2, <4>1, <4>2 DEF UnitsInv
    <3>4. ASSUME NEW k \in 1..Len(up[conn])
          PROVE  up[conn][k].eid <= event_id /\ up[conn][k].eid \in Nat
      <4>1. up[conn][k] \in Packet
        BY <2>1 DEF LinkTypeOK
      <4> QED
        BY <3>2, <4>1 DEF PacketsInv, Packet
    <3>5. PacketsInv'
      BY <2>5, <3>1, <3>4 DEF PacketsInv
    <3>6. UnitsInv'
      BY <3>1, <3>3 DEF UnitsInv
    <3> QED
      BY <3>5, <3>6 DEF EventInv
  <2>7. AnsweredIsServed'
    BY <1>9, <2>1, <2>3, <2>4, ConfirmedServed, ServedSame
    DEF RecvReply, AnsweredIsServed, ClientTypeOK
  <2> QED
    BY <2>6, <2>7
<1>10. CASE ClientConnects
  BY <1>10, NewConnEvents, AnsweredSame DEF ClientConnects, Start, Recheck, SendReconnect
<1> QED
  BY <1>2, <1>3, <1>4, <1>5, <1>6, <1>7, <1>8, <1>9, <1>10 DEF ClientLoop

(* The reply to a packet bears the packet's event id in every unit. *)
LEMMA AppendedUnits ==
    ASSUME NEW q \in Seq(Nat \X (1..ReplyUnits)), NEW eid \in Nat,
           NEW k \in 1..Len(q \o Reply(eid))
    PROVE  \/ k \in 1..Len(q) /\ (q \o Reply(eid))[k] = q[k]
           \/ (q \o Reply(eid))[k][1] = eid
<1>1. Reply(eid) \in Seq(Nat \X (1..ReplyUnits)) /\ Len(Reply(eid)) = ReplyUnits
  BY ReplyType
<1>2. ASSUME k > Len(q)
      PROVE  k - Len(q) \in 1..ReplyUnits /\ (q \o Reply(eid))[k] = Reply(eid)[k - Len(q)]
  BY <1>1, <1>2
<1>3. \A j \in 1..ReplyUnits : Reply(eid)[j] = <<eid, j>>
  BY DEF Reply
<1>4. CASE k > Len(q)
  <2>1. k - Len(q) \in 1..ReplyUnits /\ (q \o Reply(eid))[k] = Reply(eid)[k - Len(q)]
    BY <1>2, <1>4
  <2> QED
    BY <1>3, <2>1
<1>5. CASE ~(k > Len(q))
  BY <1>1, <1>5
<1> QED
  BY <1>4, <1>5

(* The handler of a packet of the client's connection answers with the     *)
(* packet's own event id, and has served it.                               *)
LEMMA InputPacketAnswer ==
    ASSUME LinkTypeOK, ClientTypeOK, ServerTypeOK, QueueTypeOK, AInv,
           UNCHANGED clientVars, NEW c \in Conns, InputPacket(c)
    PROVE  AInv'
<1> USE DEF AInv
<1>1. PICK i \in Items, e \in Nat : Head(up[c]).item = i /\ Head(up[c]).eid = e
  BY InputPacketType DEF Packet
<1>2. Served(i)' /\ \A j \in Items : Served(j) => Served(j)'
  BY <1>1, DataFlowServes DEF InputPacket, CmdData
<1>3. LocalInv'
  BY DEF InputPacket, CmdData, clientVars, LocalInv, HoldInv, InHand, ConnInv
<1>4. AnsweredIsServed'
  BY <1>2 DEF clientVars, AnsweredIsServed
<1>5. pc = "recv" => popped \in Items
  BY DEF LocalInv, HoldInv, InHand
<1>6. CASE conn # c
  <2>1. conn # NoConn => up'[conn] = up[conn] /\ down'[conn] = down[conn]
    BY <1>6 DEF InputPacket, CmdData, LinkTypeOK, ClientTypeOK
  <2>2. EventInv'
    BY <1>2, <1>5, <2>1 DEF clientVars, EventInv, PacketsInv, UnitsInv
  <2> QED
    BY <1>3, <1>4, <2>2
<1>7. CASE conn = c
  <2>1. PacketsInv /\ UnitsInv /\ cli[c] = "open"
    BY <1>7, LinkAssumption DEF EventInv, LocalInv, ConnInv
  <2>2. up[c] \in Seq(Packet) /\ up[c] # <<>> /\ down[c] \in Seq(Nat \X (1..ReplyUnits))
    BY DEF InputPacket, LinkTypeOK
  <2>3. up'[c] = Tail(up[c])
    BY DEF InputPacket, CmdData, LinkTypeOK
  <2>4. down'[c] = down[c] \o Reply(e)
    BY <1>1, <2>1 DEF InputPacket, CmdData, LinkTypeOK
  <2>5. \A k \in 1..Len(Tail(up[c])) :
            k + 1 \in 1..Len(up[c]) /\ Tail(up[c])[k] = up[c][k + 1]
    BY <2>2
  <2>6. PacketsInv'
    BY <1>7, <2>1, <2>3, <2>5 DEF clientVars, PacketsInv
  <2>7. e <= event_id /\ (e = event_id => pc = "recv" /\ Served(popped)')
    <3>1. 1 \in 1..Len(up[c]) /\ Head(up[c]) = up[c][1]
      BY <2>2
    <3>2. e <= event_id /\ (e = event_id => pc = "recv" /\ i = popped)
      BY <1>1, <1>7, <2>1, <3>1 DEF PacketsInv
    <3>3. i = popped => Served(popped)'
      BY <1>2 DEF clientVars
    <3> QED
      BY <3>2, <3>3
  <2>8. ASSUME NEW k \in 1..Len(down'[c])
        PROVE  /\ down'[c][k][1] <= event_id
               /\ down'[c][k][1] = event_id => pc = "recv" /\ Served(popped)'
    <3>1. CASE k \in 1..Len(down[c]) /\ down'[c][k] = down[c][k]
      <4>1. down[c][k][1] = event_id => pc = "recv" /\ Served(popped)
        BY <1>7, <2>1, <3>1 DEF UnitsInv
      <4>2. pc = "recv" /\ Served(popped) => Served(popped)'
        BY <1>2, <1>5 DEF clientVars
      <4> QED
        BY <1>7, <2>1, <3>1, <4>1, <4>2 DEF UnitsInv
    <3>2. CASE down'[c][k][1] = e
      BY <2>7, <3>2
    <3>3. k \in 1..Len(down[c] \o Reply(e))
      BY <2>4
    <3>4. \/ k \in 1..Len(down[c]) /\ (down[c] \o Reply(e))[k] = down[c][k]
          \/ (down[c] \o Reply(e))[k][1] = e
      BY <2>2, <3>3, AppendedUnits
    <3> QED
      BY <2>4, <3>1, <3>2, <3>4
  <2>9. UnitsInv'
    BY <1>7, <2>8 DEF clientVars, UnitsInv
  <2> QED
    BY <1>3, <1>4, <2>6, <2>9 DEF EventInv
<1> QED
  BY <1>6, <1>7

(* A step that only empties the client's connection. *)
LEMMA WireShrinksAnswer ==
    ASSUME AInv, UNCHANGED <<clientVars, cli, queueVars, discarded>>,
           conn # NoConn => /\ up'[conn] \in {<<>>, up[conn]}
                            /\ down'[conn] \in {<<>>, down[conn]}
    PROVE  AInv'
<1> USE DEF AInv
<1>1. \A j : Served(j)' <=> Served(j)
  BY DEF Served, Queued, queueVars
<1>2. LocalInv'
  BY DEF clientVars, LocalInv, HoldInv, InHand, ConnInv
<1>3. EventInv'
  <2>1. conn # NoConn => PacketsInv'
    BY DEF clientVars, EventInv, PacketsInv
  <2>2. Served(popped)' <=> Served(popped)
    BY <1>1 DEF clientVars
  <2>3. conn # NoConn => UnitsInv'
    BY <2>2 DEF clientVars, EventInv, UnitsInv
  <2> QED
    BY <2>1, <2>3 DEF EventInv, clientVars
<1>4. AnsweredIsServed'
  BY <1>1 DEF clientVars, AnsweredIsServed
<1> QED
  BY <1>2, <1>3, <1>4

LEMMA ServerStepAnswer ==
    ASSUME LinkTypeOK, ClientTypeOK, ServerTypeOK, QueueTypeOK, AInv,
           UNCHANGED clientVars,
           \/ \E c \in Conns : ServerHandles(c) \/ TimerNotify(c)
           \/ Restart
           \/ \E s \in Svids : RedisBreaks(s)
    PROVE  AInv'
<1>1. ASSUME NEW c \in Conns, InputPacket(c)
      PROVE  AInv'
  BY <1>1, InputPacketAnswer
<1>2. ASSUME NEW c \in Conns, InputOversized(c) \/ InputClosed(c) \/ TimerNotify(c)
      PROVE  AInv'
  <2>1. ServerCloses(c) /\ UNCHANGED <<discarded, queueVars>>
    BY <1>2 DEF InputOversized, InputClosed, TimerNotify, serverVars
  <2>2. up'[conn] \in {<<>>, up[conn]} \/ conn = NoConn
    BY <2>1 DEF ServerCloses, LinkTypeOK, ClientTypeOK
  <2> QED
    BY <2>1, <2>2, WireShrinksAnswer DEF ServerCloses
<1>3. CASE Restart
  <2>1. up'[conn] = <<>> \/ conn = NoConn
    BY <1>3 DEF Restart, ClientTypeOK
  <2> QED
    BY <1>3, <2>1, WireShrinksAnswer DEF Restart
<1>4. ASSUME NEW s \in Svids, RedisBreaks(s)
      PROVE  AInv'
  BY <1>4, WireShrinksAnswer DEF RedisBreaks
<1> QED
  BY <1>1, <1>2, <1>3, <1>4 DEF ServerHandles

-----------------------------------------------------------------------------
LEMMA InitAnswer ==
    ASSUME Init
    PROVE  AInv
<1>1. LocalInv
  BY InitIInv DEF IInv, FlowInv
<1> QED
  BY <1>1 DEF AInv, Init, ClientInit, EventInv, AnsweredIsServed

LEMMA StepAnswer ==
    ASSUME TypeOK, AInv, [Next]_vars
    PROVE  AInv'
<1> USE DEF TypeOK
<1>1. CASE ClientNext
  BY <1>1, ClientStepAnswer DEF ClientNext
<1>2. CASE ServerNext
  BY <1>2, ServerStepAnswer DEF ServerNext
<1>3. CASE LinkNext
  <2>1. PICK c \in Conns : NetReset(c)
    BY <1>3 DEF LinkNext
  <2>2. conn = NoConn \/ (up'[conn] \in {<<>>, up[conn]} /\ down'[conn] \in {<<>>, down[conn]})
    BY <1>3, <2>1 DEF LinkNext, NetReset, LinkTypeOK, ClientTypeOK
  <2> QED
    BY <1>3, <2>1, <2>2, WireShrinksAnswer DEF LinkNext, NetReset, serverVars
<1>4. CASE SyncNext
  <2>1. orderQ' = orderQ /\ discarded' = discarded
    BY <1>4 DEF SyncNext, NextMonth, SyncOrder, SyncLoses, Dequeue, queueVars, serverVars
  <2>2. \A j : Served(j)' <=> Served(j)
    BY <2>1 DEF Served, Queued
  <2>3. LocalInv' /\ EventInv'
    <3>1. Served(popped)' <=> Served(popped)
      BY <1>4, <2>2 DEF SyncNext, clientVars
    <3>2. PacketsInv' <=> PacketsInv
      BY <1>4 DEF SyncNext, clientVars, linkVars, PacketsInv
    <3>3. UnitsInv' <=> UnitsInv
      BY <1>4, <3>1 DEF SyncNext, clientVars, linkVars, UnitsInv
    <3> QED
      BY <1>4, <3>2, <3>3 DEF SyncNext, clientVars, linkVars, AInv, LocalInv, HoldInv, InHand,
                              ConnInv, EventInv
  <2>4. AnsweredIsServed'
    BY <1>4, <2>2 DEF SyncNext, clientVars, AInv, AnsweredIsServed
  <2> QED
    BY <2>3, <2>4 DEF AInv
<1>5. CASE UNCHANGED vars
  BY <1>5, WireShrinksAnswer DEF vars, linkVars, serverVars
<1> QED
  BY <1>1, <1>2, <1>3, <1>4, <1>5 DEF Next

(* "sync success" is never logged for an order change that no handler of   *)
(* the server has run for, in whatever pieces the replies arrive.          *)
THEOREM AnsweredCorrect == Spec => []AnsweredIsServed
<1>1. Init => TypeOK /\ LocalInv /\ AInv
  BY InitIInv, InitAnswer DEF IInv, FlowInv
<1>2. (TypeOK /\ LocalInv /\ AInv) /\ [Next]_vars => (TypeOK /\ LocalInv /\ AInv)'
  BY StepType, StepAnswer
<1>3. AInv => AnsweredIsServed
  BY DEF AInv
<1> QED
  BY <1>1, <1>2, <1>3, PTL DEF Spec
=============================================================================
