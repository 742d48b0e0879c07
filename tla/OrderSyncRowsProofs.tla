------------------------- MODULE OrderSyncRowsProofs ------------------------
(***************************************************************************)
(* Proofs about what comes after the pipe: the order in which the copies   *)
(* of the order changes stand in the queues ORDER_Q, and the rows of the   *)
(* target database that OrderDbSync makes of them.                         *)
(***************************************************************************)
EXTENDS OrderSyncPipeProofs

Settled == {"answered", "unconfirmed"}

QueueOf(i) == RedisId(Orders[i].id)

(* A packet with i is on its way to the server ... *)
Sent(i) == \E c \in Conns : \E n \in 1..Len(up[c]) : up[c][n].item = i

(* ... and the server would push i if it were handled now. *)
CanPush(i) == QueueOf(i) \in Svids /\ srvRedis[QueueOf(i)] /\ Sent(i)

(* What is not in the queues and cannot come into them any more. *)
Gone(i) == ~Queued(i) /\ ~CanPush(i)

(* The client is done with i, or has only to read the reply to it. *)
Done(i) ==
    \/ fate[i] \in Settled
    \/ pc = "recv" /\ down[conn] # <<>> /\ i = popped

-----------------------------------------------------------------------------
(* The inductive invariant of the queues.  A copy stands in the queue that *)
(* the order's id selects, and the client has held it.                     *)
PlaceInv ==
    \A s \in Svids : \A q \in 1..Len(orderQ[s]) :
        /\ QueueOf(orderQ[s][q]) = s
        /\ fate[orderQ[s][q]] \notin {"unseen", "rejected"}

(* What the client is done with is in its queue, or will never be: while   *)
(* the connection to redis is broken nothing is pushed, and the restart    *)
(* that opens it again drops every packet on its way.                      *)
ReachInv == \A i \in Items : Done(i) => Queued(i) \/ Gone(i)

(* An older change that the client is done with stands before every newer  *)
(* one, or will never stand in the queue.                                  *)
OrderInv ==
    \A s \in Svids : \A q \in 1..Len(orderQ[s]) : \A i \in Items :
        i < orderQ[s][q] /\ QueueOf(i) = s /\ fate[i] \in Settled
            => (\E r \in 1..(q - 1) : orderQ[s][r] = i) \/ Gone(i)

QInv == PlaceInv /\ ReachInv /\ OrderInv

-----------------------------------------------------------------------------
(* What a step of the pipe does to the fate of one order change. *)
LEMMA FateMoves ==
    ASSUME TypeOK, [Pipe!Next]_(Pipe!vars), NEW i \in Items
    PROVE  \/ fate'[i] = fate[i]
           \/ fate[i] = "unseen" /\ fate'[i] \in {"held", "rejected", "lost"}
           \/ fate[i] = "held" /\ fate'[i] \in {"answered", "lost"}
<1> USE DEF TypeOK, ClientTypeOK
<1>1. CASE UNCHANGED Pipe!vars
  BY <1>1 DEF Pipe!vars
<1>2. ASSUME NEW j \in Items, NEW f, Pipe!Take(j, f)
      PROVE  fate'[i] = fate[i] \/ (fate[i] = "unseen" /\ fate'[i] \in {"held", "rejected", "lost"})
  BY <1>2 DEF Pipe!Take
<1>3. ASSUME NEW j \in Items, Pipe!Serve(j) \/ Pipe!Satisfied(j) \/ Pipe!Forget(j)
      PROVE  fate'[i] = fate[i] \/ (fate[i] = "held" /\ fate'[i] \in {"answered", "lost"})
  BY <1>3 DEF Pipe!Serve, Pipe!Satisfied, Pipe!Forget
<1> QED
  BY <1>1, <1>2, <1>3 DEF Pipe!Next, Pipe!Items, Items

(* In front of what stands in a queue the client has settled everything.   *)
LEMMA OlderIsPast ==
    ASSUME PInv, PlaceInv, NEW s \in Svids, NEW q \in 1..Len(orderQ[s]),
           NEW i \in Items, i < orderQ[s][q]
    PROVE  fate[i] \notin {"unseen", "held"}
<1>1. orderQ[s][q] \in Items /\ popped \in Nat
  BY DEF PInv, IInv, TypeOK, QueueTypeOK, ClientTypeOK
<1>2. orderQ[s][q] <= popped
  BY <1>1 DEF PInv, DoneInv, PlaceInv, Items
<1> QED
  BY <1>1, <1>2 DEF PInv, DoneInv, Items

(* A step that pushes nothing keeps the invariant of the queues, when it   *)
(* leaves every older fate alone and puts nothing settled on the wire.     *)
LEMMA QuietStep ==
    ASSUME PInv, QInv, orderQ' = orderQ, [Pipe!Next]_(Pipe!vars),
           \A i \in Items : Done(i)' => Done(i),
           \A i \in Items : Done(i) /\ CanPush(i)' => CanPush(i)
    PROVE  QInv'
<1> USE DEF QInv
<1>1. \A j \in Items : Queued(j)' <=> Queued(j)
  BY DEF Queued
<1>2. ASSUME NEW s \in Svids, NEW q \in 1..Len(orderQ[s])
      PROVE  orderQ[s][q] \in Items
  BY <1>2 DEF PInv, IInv, TypeOK, QueueTypeOK
<1>3. PlaceInv'
  BY <1>2, FateMoves DEF PlaceInv, PInv, IInv, QueueOf, RedisId
<1>4. ReachInv'
  BY <1>1 DEF ReachInv, Gone
<1>5. OrderInv'
  <2>1. SUFFICES ASSUME NEW s \in Svids, NEW q \in 1..Len(orderQ[s]), NEW i \in Items,
                        i < orderQ[s][q], QueueOf(i) = s, fate'[i] \in Settled,
                        ~ \E r \in 1..(q - 1) : orderQ[s][r] = i
                 PROVE  Gone(i)'
    BY DEF OrderInv, QueueOf, RedisId
  <2>2. fate[i] \in Settled
    BY <2>1, FateMoves, OlderIsPast DEF PInv, IInv, Settled
  <2>3. Gone(i) /\ Done(i)
    BY <2>1, <2>2 DEF OrderInv, Done
  <2> QED
    BY <1>1, <2>3 DEF Gone
<1> QED
  BY <1>3, <1>4, <1>5

-----------------------------------------------------------------------------
(* The client reads the reply before it is done with an order change, and  *)
(* sends none that it is done with.                                        *)
LEMMA ClientDone ==
    ASSUME WholeReplies, PInv, ClientNext, NEW i \in Items
    PROVE  /\ Done(i)' => Done(i)
           /\ Done(i) /\ CanPush(i)' => CanPush(i)
<1> USE DEF PInv, IInv, TypeOK
<1>1. UNCHANGED <<serverVars, queueVars>> /\ QueueOf(i)' = QueueOf(i)
  BY DEF ClientNext, QueueOf, RedisId
<1>2. ASSUME \A c \in Conns : up'[c] \in {<<>>, up[c]}
      PROVE  CanPush(i)' => CanPush(i)
  BY <1>1, <1>2 DEF CanPush, Sent, serverVars
<1>3. ASSUME fate'[i] = fate[i] \/ fate'[i] \notin Settled,
             pc' # "recv" \/ down'[conn'] = <<>>
      PROVE  Done(i)' => Done(i)
  BY <1>3 DEF Done
<1>4. CASE Produce /\ UNCHANGED linkVars
  <2>1. Done(i)' => Done(i)
    BY <1>4 DEF Done, Produce, linkVars
  <2> QED
    BY <1>2, <1>4, <2>1 DEF linkVars
<1>5. CASE Wait \/ RecheckFails \/ FetchEmpty \/ SendReconnectFails \/ CheckData
  <2>1. fate' = fate /\ pc' # "recv" /\ up' = up
    BY <1>5 DEF Wait, RecheckFails, FetchEmpty, SendReconnectFails, CheckData, linkVars
  <2> QED
    BY <1>2, <1>3, <2>1
<1>6. CASE RecvPoll
  <2>1. fate' = fate /\ down'[conn'] = <<>> /\ up' = up
    BY <1>6 DEF RecvPoll, Readable, HasReply, linkVars
  <2> QED
    BY <1>2, <1>3, <2>1
<1>7. CASE CheckClosed \/ SendFails \/ RecvClosed \/ RecvTimeout
  <2>1. fate' = fate /\ pc' # "recv" /\ up' = up
    BY <1>7 DEF CheckClosed, SendFails, RecvClosed, RecvTimeout, Disconnect, ClientCloses
  <2> QED
    BY <1>2, <1>3, <2>1
<1>8. CASE ClientConnects
  <2>1. fate' = fate /\ pc' # "recv" /\ Reconnected
    BY <1>8 DEF ClientConnects, Start, Recheck, SendReconnect
  <2>2. \A c \in Conns : up'[c] \in {<<>>, up[c]}
    BY <2>1 DEF Reconnected, Connect, LinkTypeOK
  <2> QED
    BY <1>2, <1>3, <2>1, <2>2
<1>9. CASE Send
  <2>1. out.item = popped /\ fate[popped] = "held" /\ conn \in Conns /\ conn # NoConn
    BY <1>9 DEF Send, FlowInv, LocalInv, HoldInv, InHand, ClientTypeOK
  <2>2. fate' = fate /\ conn' = conn /\ down' = down /\ pc = "send"
    BY <1>9 DEF Send
  <2>3. down[conn] = <<>>
    BY <2>1, <2>2 DEF FlowInv, OneRequestInFlight
  <2>4. Done(i)' => Done(i)
    BY <1>3, <2>2, <2>3
  <2>5. ASSUME Done(i), Sent(i)'
        PROVE  Sent(i)
    <3>1. i # popped
      BY <2>1, <2>2, <2>5 DEF Done, Settled
    <3>2. PICK c \in Conns : \E m \in 1..Len(up'[c]) : up'[c][m].item = i
      BY <2>5 DEF Sent
    <3>3. PICK n \in 1..Len(up'[c]) : up'[c][n].item = i
      BY <3>2
    <3>4. up[c] \in Seq(Packet)
      BY DEF LinkTypeOK
    <3>5. up'[c] = up[c] \/ (c = conn /\ up'[c] = Append(up[c], out))
      BY <1>9, <2>1 DEF Send, LinkTypeOK
    <3>6. up'[c][n] = out \/ (n \in 1..Len(up[c]) /\ up'[c][n] = up[c][n])
      BY <3>4, <3>5
    <3> QED
      BY <2>1, <3>1, <3>3, <3>6 DEF Sent
  <2> QED
    BY <1>1, <2>4, <2>5 DEF CanPush, serverVars
<1>10. CASE RecvReply
  <2>1. popped \in Items /\ fate' = [fate EXCEPT ![popped] = "answered"]
    BY <1>10, RecvWhole
  <2>2. pc = "recv" /\ down[conn] # <<>> /\ pc' = "wait" /\ up' = up
    BY <1>10 DEF RecvReply, HasReply
  <2>3. Done(i)' => Done(i)
    BY <2>1, <2>2 DEF Done, ClientTypeOK
  <2> QED
    BY <1>2, <2>2, <2>3
<1>11. CASE FetchLost \/ FetchRejected \/ FetchOrder
  <2>1. PICK f \in {"held", "lost", "rejected"} : Pop(f) /\ pc' # "recv"
    BY <1>11 DEF FetchLost, FetchRejected, FetchOrder
  <2>2. fate' = [fate EXCEPT ![popped + 1] = f] /\ up' = up
    BY <2>1 DEF Pop, linkVars
  <2>3. fate'[i] = fate[i] \/ fate'[i] \notin Settled
    BY <2>2 DEF Settled, ClientTypeOK
  <2> QED
    BY <1>2, <1>3, <2>1, <2>2, <2>3
<1>12. CASE Crash
  <2>1. pc' # "recv" /\ up' = up
    BY <1>12 DEF Crash, Disconnect, ClientCloses
  <2>2. fate'[i] = fate[i] \/ fate'[i] \notin Settled
    BY <1>12 DEF Crash, Settled
  <2> QED
    BY <1>2, <1>3, <2>1, <2>2
<1> QED
  BY <1>4, <1>5, <1>6, <1>7, <1>8, <1>9, <1>10, <1>11, <1>12 DEF ClientNext, ClientLoop

-----------------------------------------------------------------------------

(* A packet the server handles no longer is on its way.                    *)
LEMMA SentOnlyShrinks ==
    ASSUME LinkTypeOK, NEW i \in Items, Sent(i)',
           \A c \in Conns : up'[c] \in {<<>>, up[c]} \/ (up'[c] = Tail(up[c]) /\ up[c] # <<>>)
    PROVE  Sent(i)
<1>1. PICK c \in Conns : \E m \in 1..Len(up'[c]) : up'[c][m].item = i
  BY DEF Sent
<1>2. PICK n \in 1..Len(up'[c]) : up'[c][n].item = i
  BY <1>1
<1>3. up[c] \in Seq(Packet)
  BY DEF LinkTypeOK
<1>4. CASE up'[c] = up[c] \/ up'[c] = <<>>
  BY <1>2, <1>4 DEF Sent
<1>5. CASE up'[c] = Tail(up[c]) /\ up[c] # <<>>
  <2>1. n + 1 \in 1..Len(up[c]) /\ up[c][n + 1].item = i
    BY <1>2, <1>3, <1>5
  <2> QED
    BY <2>1 DEF Sent
<1> QED
  BY <1>4, <1>5

(* What __data_flow does to the queues: it puts the order change at the    *)
(* end of the queue its id selects, or it cannot push it and changes none. *)
LEMMA DataFlowPushes ==
    ASSUME QueueTypeOK, NEW j \in Items, DataFlow(j), UNCHANGED srvRedis
    PROVE  \/ /\ orderQ' = orderQ
              /\ ~ CanPush(j)'
           \/ /\ QueueOf(j) \in Svids /\ srvRedis[QueueOf(j)]
              /\ orderQ'[QueueOf(j)] = Append(orderQ[QueueOf(j)], j)
              /\ \A t \in Svids \ {QueueOf(j)} : orderQ'[t] = orderQ[t]
<1>1. QueueOf(j)' = QueueOf(j)
  BY DEF QueueOf, RedisId
<1>2. CASE QueueOf(j) \in Svids /\ srvRedis[QueueOf(j)]
  <2>1. Enqueue(QueueOf(j), j)
    BY <1>2 DEF DataFlow, QueueOf
  <2> QED
    BY <1>2, <2>1 DEF Enqueue, QueueTypeOK
<1>3. CASE ~(QueueOf(j) \in Svids /\ srvRedis[QueueOf(j)])
  <2>1. orderQ' = orderQ
    BY <1>3 DEF DataFlow, QueueOf, queueVars
  <2> QED
    BY <1>1, <1>3, <2>1 DEF CanPush
<1> QED
  BY <1>2, <1>3

(* The server handles a packet, and its order change comes into its queue, *)
(* behind every older one the client has settled.                          *)
LEMMA HandlerStep ==
    ASSUME PInv, QInv, UNCHANGED clientVars, NEW c \in Conns, InputPacket(c)
    PROVE  QInv'
<1> USE DEF PInv, IInv, TypeOK, QInv
<1>0. PICK j : j = Head(up[c]).item
  OBVIOUS
<1> DEFINE s == QueueOf(j)
<1>1. up[c] \in Seq(Packet) /\ up[c] # <<>>
  BY DEF InputPacket, LinkTypeOK
<1>2. Head(up[c]) \in Packet /\ j \in Items
  BY <1>0, InputPacketType DEF Packet
<1>3. DataFlow(j) /\ UNCHANGED <<srvRedis, fate, pc, popped, conn, out, event_id>>
  BY <1>0 DEF InputPacket, CmdData, clientVars
<1>4. Sent(j) /\ fate[j] \notin {"unseen", "rejected"}
  <2>1. 1 \in 1..Len(up[c]) /\ up[c][1] = Head(up[c])
    BY <1>1
  <2> QED
    BY <1>0, <2>1 DEF Sent, SentInv
<1>5. \A i \in Items : QueueOf(i)' = QueueOf(i)
  BY DEF QueueOf, RedisId
<1>6. ASSUME NEW i \in Items, CanPush(i)'
      PROVE  CanPush(i)
  <2>1. \A d \in Conns : up'[d] \in {<<>>, up[d]} \/ (up'[d] = Tail(up[d]) /\ up[d] # <<>>)
    BY <1>1 DEF InputPacket, CmdData, LinkTypeOK
  <2> QED
    BY <1>3, <1>6, <2>1, SentOnlyShrinks DEF CanPush, QueueOf, RedisId
<1>7. ASSUME NEW i \in Items, i # j, Done(i)'
      PROVE  Done(i)
  <2>1. CASE fate[i] \in Settled
    BY <2>1 DEF Done
  <2>2. CASE pc = "recv" /\ down'[conn] # <<>> /\ i = popped
    <3>1. conn \in Conns /\ conn # NoConn
      BY <2>2, LinkAssumption DEF FlowInv, LocalInv, ConnInv, ClientTypeOK
    <3>2. CASE conn = c
      <4>1. up[c] = <<out>> /\ out.item = popped
        BY <1>1, <2>2, <3>1, <3>2 DEF FlowInv, OneRequestInFlight, LocalInv, HoldInv, InHand
      <4>2. j = popped
        BY <1>0, <4>1
      <4> QED
        BY <1>7, <2>2, <4>2
    <3>3. CASE conn # c
      <4>1. down'[conn] = down[conn]
        BY <3>1, <3>3 DEF InputPacket, CmdData, LinkTypeOK
      <4> QED
        BY <2>2, <4>1 DEF Done
    <3> QED
      BY <3>2, <3>3
  <2> QED
    BY <1>3, <1>7, <2>1, <2>2 DEF Done
<1> HIDE DEF s
<1>8. CASE orderQ' = orderQ /\ ~ CanPush(j)'
  <2>1. \A i \in Items : Queued(i)' <=> Queued(i)
    BY <1>8 DEF Queued
  <2>2. PlaceInv'
    <3>1. \A t \in Svids : \A q \in 1..Len(orderQ[t]) : orderQ[t][q] \in Items
      BY DEF QueueTypeOK
    <3> QED
      BY <1>3, <1>8, <3>1 DEF PlaceInv, QueueOf, RedisId
  <2>3. ReachInv'
    BY <1>6, <1>7, <1>8, <2>1 DEF ReachInv, Gone
  <2>4. OrderInv'
    BY <1>3, <1>6, <1>8, <2>1 DEF OrderInv, Gone, QueueOf, RedisId
  <2> QED
    BY <2>2, <2>3, <2>4
<1>9. CASE /\ s \in Svids /\ srvRedis[s]
           /\ orderQ'[s] = Append(orderQ[s], j)
           /\ \A t \in Svids \ {s} : orderQ'[t] = orderQ[t]
  <2>1. orderQ[s] \in Seq(Items)
    BY <1>9 DEF QueueTypeOK
  <2>2. /\ Len(orderQ'[s]) = Len(orderQ[s]) + 1
        /\ orderQ'[s][Len(orderQ[s]) + 1] = j
        /\ \A q \in 1..Len(orderQ[s]) : orderQ'[s][q] = orderQ[s][q]
    BY <1>2, <1>9, <2>1
  <2>3. ASSUME NEW t \in Svids, NEW q \in 1..Len(orderQ'[t])
        PROVE  \/ q \in 1..Len(orderQ[t]) /\ orderQ'[t][q] = orderQ[t][q]
               \/ t = s /\ q = Len(orderQ[s]) + 1 /\ orderQ'[t][q] = j
    <3>1. CASE t = s
      BY <2>1, <2>2, <2>3, <3>1
    <3>2. CASE t # s
      BY <1>9, <2>3, <3>2
    <3> QED
      BY <3>1, <3>2
  <2>4. ASSUME NEW t \in Svids, NEW q \in 1..Len(orderQ[t])
        PROVE  q \in 1..Len(orderQ'[t]) /\ orderQ'[t][q] = orderQ[t][q] /\ orderQ[t][q] \in Items
    <3>1. orderQ[t] \in Seq(Items)
      BY DEF QueueTypeOK
    <3>2. CASE t = s
      BY <2>1, <2>2, <2>4, <3>2
    <3>3. CASE t # s
      BY <1>9, <2>4, <3>1, <3>3
    <3> QED
      BY <3>2, <3>3
  <2>5. Queued(j)'
    <3>1. Len(orderQ[s]) + 1 \in 1..Len(orderQ'[s])
      BY <2>1, <2>2
    <3> QED
      BY <1>9, <2>2, <3>1 DEF Queued
  <2>6. ASSUME NEW i \in Items, i # j
        PROVE  Queued(i)' <=> Queued(i)
    BY <2>3, <2>4, <2>6 DEF Queued
  <2>7. CanPush(j)
    BY <1>4, <1>9 DEF CanPush, s
  <2>8. ASSUME NEW i \in Items, Gone(i)
        PROVE  Gone(i)'
    BY <1>6, <2>6, <2>7, <2>8 DEF Gone
  <2>9. PlaceInv'
    <3>1. SUFFICES ASSUME NEW t \in Svids, NEW q \in 1..Len(orderQ'[t])
                   PROVE  QueueOf(orderQ'[t][q]) = t /\ fate[orderQ'[t][q]] \notin {"unseen", "rejected"}
      BY <1>3 DEF PlaceInv, QueueOf, RedisId
    <3>2. CASE q \in 1..Len(orderQ[t]) /\ orderQ'[t][q] = orderQ[t][q]
      BY <2>4, <3>2 DEF PlaceInv
    <3>3. CASE t = s /\ orderQ'[t][q] = j
      BY <1>4, <3>3 DEF s
    <3> QED
      BY <2>3, <3>2, <3>3
  <2>10. ReachInv'
    BY <1>7, <2>5, <2>6, <2>8 DEF ReachInv
  <2>11. OrderInv'
    <3>1. SUFFICES ASSUME NEW t \in Svids, NEW q \in 1..Len(orderQ'[t]), NEW i \in Items,
                          i < orderQ'[t][q], QueueOf(i) = t, fate[i] \in Settled, ~ Gone(i)'
                   PROVE  \E r \in 1..(q - 1) : orderQ'[t][r] = i
      BY <1>3 DEF OrderInv, QueueOf, RedisId
    <3>2. ~ Gone(i)
      BY <2>8, <3>1
    <3>3. CASE q \in 1..Len(orderQ[t]) /\ orderQ'[t][q] = orderQ[t][q]
      <4>1. PICK r \in 1..(q - 1) : orderQ[t][r] = i
        BY <3>1, <3>2, <3>3 DEF OrderInv
      <4>2. Len(orderQ[t]) \in Nat
        BY DEF QueueTypeOK
      <4>3. r \in 1..Len(orderQ[t])
        BY <3>3, <4>1, <4>2
      <4> QED
        BY <2>4, <4>1, <4>3
    <3>4. CASE t = s /\ q = Len(orderQ[s]) + 1
      <4>1. Queued(i)
        BY <3>1, <3>2 DEF ReachInv, Done
      <4>2. PICK u \in Svids : \E r \in 1..Len(orderQ[u]) : orderQ[u][r] = i
        BY <4>1 DEF Queued
      <4>3. PICK r \in 1..Len(orderQ[u]) : orderQ[u][r] = i
        BY <4>2
      <4>4. u = t
        BY <3>1, <4>3 DEF PlaceInv
      <4>5. r \in 1..(q - 1)
        BY <2>1, <3>4, <4>3, <4>4
      <4> QED
        BY <2>4, <4>3, <4>4, <4>5
    <3> QED
      BY <2>3, <3>3, <3>4
  <2> QED
    BY <2>9, <2>10, <2>11
<1> QED
  BY <1>2, <1>3, <1>8, <1>9, DataFlowPushes DEF s

(* Nothing else the server, the network, the calendar or OrderDbSync does  *)
(* pushes anything, and a restart leaves nothing on the wire.              *)
LEMMA OtherStep ==
    ASSUME PInv, QInv, UNCHANGED <<clientVars, orderQ, discarded>>,
           \A c \in Conns : up'[c] \in {<<>>, up[c]},
           \A c \in Conns : down'[c] \in {<<>>, down[c]},
           \/ \A s \in Svids : srvRedis'[s] => srvRedis[s]
           \/ \A c \in Conns : up'[c] = <<>>
    PROVE  QInv'
<1> USE DEF PInv, IInv, TypeOK
<1>1. UNCHANGED <<fate, pc, popped, conn>>
  BY DEF clientVars
<1>2. ASSUME NEW i \in Items, Done(i)'
      PROVE  Done(i)
  BY <1>1, <1>2, LinkAssumption DEF Done, FlowInv, LocalInv, ConnInv, ClientTypeOK
<1>3. ASSUME NEW i \in Items, CanPush(i)'
      PROVE  CanPush(i)
  <2>1. Sent(i)' /\ QueueOf(i)' = QueueOf(i)
    BY <1>3 DEF CanPush, QueueOf, RedisId
  <2>2. ~ \A c \in Conns : up'[c] = <<>>
    BY <2>1 DEF Sent
  <2> QED
    BY <1>3, <2>1, <2>2, SentOnlyShrinks DEF CanPush, QueueOf, RedisId
<1> QED
  BY <1>2, <1>3, StutterPipe, QuietStep

LEMMA StepQueue ==
    ASSUME WholeReplies, PInv, QInv, [Next]_vars
    PROVE  QInv'
<1> USE DEF PInv, IInv, TypeOK
<1>1. CASE ClientNext
  <2>1. orderQ' = orderQ /\ [Pipe!Next]_(Pipe!vars)
    BY <1>1, ClientStepPipe DEF ClientNext, queueVars
  <2> QED
    BY <1>1, <2>1, ClientDone, QuietStep
<1>2. CASE ServerNext
  <2>1. UNCHANGED clientVars
    BY <1>2 DEF ServerNext
  <2>2. ASSUME NEW c \in Conns, InputPacket(c)
        PROVE  QInv'
    BY <2>1, <2>2, HandlerStep
  <2>3. ASSUME NEW c \in Conns, InputOversized(c) \/ InputClosed(c) \/ TimerNotify(c)
        PROVE  QInv'
    <3>1. ServerCloses(c) /\ UNCHANGED <<orderQ, discarded, srvRedis>>
      BY <2>3 DEF InputOversized, InputClosed, TimerNotify, serverVars, queueVars
    <3>2. \A d \in Conns : up'[d] \in {<<>>, up[d]} /\ down'[d] = down[d]
      BY <3>1 DEF ServerCloses, LinkTypeOK
    <3> QED
      BY <2>1, <3>1, <3>2, OtherStep
  <2>4. CASE Restart
    <3>1. UNCHANGED <<orderQ, discarded, down>> /\ \A d \in Conns : up'[d] = <<>>
      BY <2>4 DEF Restart, queueVars
    <3> QED
      BY <2>1, <3>1, OtherStep
  <2>5. ASSUME NEW s \in Svids, RedisBreaks(s)
        PROVE  QInv'
    <3>1. UNCHANGED <<orderQ, discarded, up, down>> /\ \A t \in Svids : srvRedis'[t] => srvRedis[t]
      BY <2>5 DEF RedisBreaks, queueVars, ServerTypeOK
    <3> QED
      BY <2>1, <3>1, OtherStep
  <2> QED
    BY <1>2, <2>2, <2>3, <2>4, <2>5 DEF ServerNext, ServerHandles
<1>3. CASE LinkNext
  <2>1. UNCHANGED <<clientVars, orderQ, discarded, srvRedis>>
    BY <1>3 DEF LinkNext, serverVars, queueVars
  <2>2. \A d \in Conns : up'[d] \in {<<>>, up[d]} /\ down'[d] \in {<<>>, down[d]}
    BY <1>3 DEF LinkNext, NetReset, LinkTypeOK
  <2> QED
    BY <2>1, <2>2, OtherStep
<1>4. CASE SyncNext \/ UNCHANGED vars
  <2>1. UNCHANGED <<clientVars, orderQ, discarded, srvRedis, up, down>>
    BY <1>4 DEF SyncNext, NextMonth, SyncOrder, SyncLoses, Dequeue, queueVars, serverVars, linkVars, vars
  <2> QED
    BY <2>1, OtherStep
<1> QED
  BY <1>1, <1>2, <1>3, <1>4 DEF Next

LEMMA QueueInvariant ==
    ASSUME WholeReplies
    PROVE  Spec => [](PInv /\ QInv)
<1>1. Init => QInv
  <2>1. SUFFICES ASSUME Init
                 PROVE  QInv
    OBVIOUS
  <2>2. \A s \in Svids : orderQ[s] = <<>>
    BY <2>1 DEF Init, QueueInit
  <2>3. \A i \in Items : fate[i] = "unseen" /\ pc # "recv"
    BY <2>1 DEF Init, ClientInit
  <2> QED
    BY <2>2, <2>3 DEF QInv, PlaceInv, ReachInv, OrderInv, Done, Settled
<1>2. Init => PInv
  BY InitPipe
<1>3. PInv /\ QInv /\ [Next]_vars => PInv' /\ QInv'
  BY StepPipe, StepQueue, StepType, StepFlow DEF PInv, IInv, FlowInv
<1> QED
  BY <1>1, <1>2, <1>3, PTL DEF Spec

(* Then an older copy behind a newer one is the repetition of one before   *)
(* it, or of an order change that died with the client.                    *)
LEMMA CopiesInOrder ==
    ASSUME PInv, QInv
    PROVE  FirstCopiesInOrder
<1>1. SUFFICES ASSUME NEW s \in Svids, NEW q \in 1..Len(orderQ[s]), NEW p \in 1..(q - 1),
                      orderQ[s][p] > orderQ[s][q]
               PROVE  \/ \E r \in 1..(p - 1) : orderQ[s][r] = orderQ[s][q]
                      \/ fate[orderQ[s][q]] = "lost"
  BY DEF FirstCopiesInOrder
<1>2. orderQ[s] \in Seq(Items)
  BY DEF PInv, IInv, TypeOK, QueueTypeOK
<1>3. p \in 1..Len(orderQ[s]) /\ orderQ[s][p] \in Items /\ orderQ[s][q] \in Items
  BY <1>1, <1>2
<1> DEFINE i == orderQ[s][q]
<1>4. i < orderQ[s][p]
  BY <1>1, <1>3 DEF Items
<1>5. fate[i] \in Settled \cup {"lost"}
  BY <1>3, <1>4, OlderIsPast DEF QInv, PlaceInv, PInv, IInv, TypeOK, ClientTypeOK, Fates, Settled
<1>6. Queued(i) /\ QueueOf(i) = s
  BY DEF Queued, QInv, PlaceInv
<1> QED
  BY <1>3, <1>4, <1>5, <1>6 DEF QInv, OrderInv, Gone

(* In every ORDER_Q the first copies stand in the order of the source      *)
(* queue, whatever is reset, timed out, restarted, sent twice, or could    *)
(* not be pushed, but for what the client died holding.                    *)
THEOREM OrderKept ==
    ASSUME WholeReplies
    PROVE  Spec => []FirstCopiesInOrder
  BY QueueInvariant, CopiesInOrder, PTL

-----------------------------------------------------------------------------
(* An insert carries, as stime, the month the order was created in, which  *)
(* is what the client looks up for the updates.                            *)
StimeIsCreation ==
    \A i \in Items : Orders[i].type = INSERT => Orders[i].stime = Orders[i].month

(* An insert and an update of one order then choose the same table,        *)
(* whatever the month in which they are popped.                            *)
LEMMA TableOfCreation ==
    ASSUME StimeIsCreation, NEW i \in Items
    PROVE  TableName(i) = Orders[i].month
<1>1. Mtime(i) = Orders[i].month
  BY DEF StimeIsCreation, Mtime
<1>2. Orders[i].month # 0
  BY DbSyncAssumption
<1> QED
  BY <1>1, <1>2 DEF TableName

(* One statement writes at most one row, in the table of its order change. *)
LEMMA ExecuteInMonth ==
    ASSUME StimeIsCreation, SyncTypeOK, RowsInTheirMonth,
           NEW f \in Items, Execute(f)
    PROVE  RowsInTheirMonth'
<1> DEFINE id == Orders[f].id
<1> SUFFICES ASSUME NEW t \in Months, NEW i \in Items, rows'[t][Orders[i].id] = i
             PROVE  t = Orders[i].month
  BY DEF RowsInTheirMonth
<1>1. TableName(f) = Orders[f].month /\ TableName(f) \in Months
  BY TableOfCreation, DbSyncAssumption
<1>2. CASE rows' = rows
  BY <1>2 DEF RowsInTheirMonth
<1>3. CASE rows' = [rows EXCEPT ![Orders[f].month][id] = f]
  <2>1. Orders[i].id \in Ids /\ rows[t] \in [Ids -> Items \cup {0}]
    BY DEF Ids, SyncTypeOK
  <2>2. CASE t = Orders[f].month /\ Orders[i].id = id
    <3>1. rows'[t][Orders[i].id] = f
      BY <1>1, <1>3, <2>1, <2>2 DEF SyncTypeOK
    <3> QED
      BY <2>2, <3>1
  <2>3. CASE ~(t = Orders[f].month /\ Orders[i].id = id)
    <3>1. rows'[t][Orders[i].id] = rows[t][Orders[i].id]
      BY <1>3, <2>1, <2>3 DEF SyncTypeOK
    <3> QED
      BY <3>1 DEF RowsInTheirMonth
  <2> QED
    BY <2>2, <2>3
<1> QED
  BY <1>1, <1>2, <1>3 DEF Execute

(* Only sync_order writes rows. *)
LEMMA StepInMonth ==
    ASSUME StimeIsCreation, TypeOK, RowsInTheirMonth, [Next]_vars
    PROVE  RowsInTheirMonth'
<1>1. ASSUME NEW s \in Svids, SyncOrder(s)
      PROVE  RowsInTheirMonth'
  <2>1. First(s) \in Items /\ Execute(First(s))
    BY <1>1 DEF SyncOrder, Dequeue, First, TypeOK, QueueTypeOK
  <2> QED
    BY <2>1, ExecuteInMonth DEF TypeOK
<1>2. CASE rows' = rows
  BY <1>2 DEF RowsInTheirMonth
<1>3. CASE ClientNext \/ ServerNext \/ LinkNext \/ UNCHANGED vars
  BY <1>2, <1>3 DEF ClientNext, ServerNext, LinkNext, vars, syncVars
<1>4. CASE SyncNext
  BY <1>1, <1>2, <1>4 DEF SyncNext, NextMonth, SyncLoses
<1> QED
  BY <1>3, <1>4 DEF Next

(* No row is in another table than that of the month in which its order    *)
(* was created, in whatever month sync_order pops the insert and the       *)
(* updates, however often a change is repeated, and whatever is lost.      *)
THEOREM RowsCorrect ==
    ASSUME StimeIsCreation
    PROVE  Spec => []RowsInTheirMonth
<1>1. Init => RowsInTheirMonth
  <2>1. SUFFICES ASSUME Init, NEW t \in Months, NEW i \in Items
                 PROVE  rows[t][Orders[i].id] # i
    BY DEF RowsInTheirMonth
  <2>2. Orders[i].id \in Ids /\ i # 0
    BY OrderAssumption DEF Ids, Items
  <2>3. rows[t][Orders[i].id] = 0
    BY <2>1, <2>2 DEF Init, SyncInit
  <2> QED
    BY <2>2, <2>3
<1>2. TypeOK /\ RowsInTheirMonth /\ [Next]_vars => RowsInTheirMonth'
  BY StepInMonth
<1> QED
  BY <1>1, <1>2, TypeCorrect, PTL DEF Spec
-----------------------------------------------------------------------------
(* What a row shows was popped from the queue of its order. *)
ShowsInv ==
    \A t \in Months, x \in Ids : rows[t][x] # 0 =>
        /\ Orders[rows[t][x]].id = x
        /\ RedisId(x) \in Svids
        /\ \E p \in 1..taken[RedisId(x)] : orderQ[RedisId(x)][p] = rows[t][x]

(* A statement writes the row of its order change, or none. *)
LEMMA ExecuteRow ==
    ASSUME SyncTypeOK, NEW f \in Items, Execute(f), NEW t \in Months, NEW x \in Ids
    PROVE  \/ rows'[t][x] = rows[t][x]
           \/ x = Orders[f].id /\ t = TableName(f) /\ rows'[t][x] = f
<1>1. Orders[f].id \in Ids
  BY DEF Ids
<1>2. TableName(f) \in Months
  BY DbSyncAssumption DEF TableName, Mtime, SyncTypeOK
<1>3. CASE rows' = rows
  BY <1>3
<1>4. CASE rows' = [rows EXCEPT ![TableName(f)][Orders[f].id] = f]
  BY <1>1, <1>2, <1>4 DEF SyncTypeOK
<1> QED
  BY <1>3, <1>4 DEF Execute

(* No step takes anything out of the history of a queue. *)
LEMMA QueuesGrow ==
    ASSUME TypeOK, [Next]_vars, NEW s \in Svids, NEW k \in 1..taken[s]
    PROVE  k \in 1..taken'[s] /\ orderQ'[s][k] = orderQ[s][k]
<1> USE DEF TypeOK
<1>1. orderQ[s] \in Seq(Items) /\ taken[s] \in Nat /\ taken[s] <= Len(orderQ[s])
  BY DEF QueueTypeOK
<1>2. ASSUME UNCHANGED queueVars
      PROVE  k \in 1..taken'[s] /\ orderQ'[s][k] = orderQ[s][k]
  BY <1>2 DEF queueVars
<1>3. CASE ClientNext \/ LinkNext \/ UNCHANGED vars
  BY <1>2, <1>3 DEF ClientNext, LinkNext, vars
<1>4. CASE SyncNext
  <2>1. orderQ' = orderQ /\ (taken' = taken \/ \E u \in Svids : taken' = [taken EXCEPT ![u] = @ + 1])
    BY <1>4 DEF SyncNext, NextMonth, SyncOrder, SyncLoses, Dequeue, queueVars
  <2>2. taken'[s] \in {taken[s], taken[s] + 1}
    BY <2>1 DEF QueueTypeOK
  <2> QED
    BY <1>1, <2>1, <2>2
<1>5. CASE ServerNext
  <2>1. ASSUME NEW u \in Svids, NEW i \in Items, Enqueue(u, i)
        PROVE  k \in 1..taken'[s] /\ orderQ'[s][k] = orderQ[s][k]
    <3>1. taken' = taken /\ orderQ'[s] \in {orderQ[s], Append(orderQ[s], i)}
      BY <2>1 DEF Enqueue, QueueTypeOK
    <3> QED
      BY <1>1, <3>1
  <2>2. ASSUME NEW c \in Conns, InputPacket(c)
        PROVE  k \in 1..taken'[s] /\ orderQ'[s][k] = orderQ[s][k]
    <3>1. Head(up[c]).item \in Items /\ DataFlow(Head(up[c]).item)
      BY <2>2, InputPacketType DEF InputPacket, CmdData, Packet
    <3> QED
      BY <1>2, <2>1, <3>1 DEF DataFlow
  <2> QED
    BY <1>2, <1>5, <2>2 DEF ServerNext, ServerHandles, InputOversized, InputClosed, TimerNotify,
                            Restart, RedisBreaks
<1> QED
  BY <1>3, <1>4, <1>5 DEF Next

(* Only sync_order changes a row, to the order change it pops. *)
LEMMA RowWritten ==
    ASSUME TypeOK, PlaceInv, [Next]_vars, NEW t \in Months, NEW x \in Ids, rows'[t][x] # rows[t][x]
    PROVE  /\ RedisId(x) \in Svids
           /\ taken[RedisId(x)] < Len(orderQ[RedisId(x)])
           /\ taken'[RedisId(x)] = taken[RedisId(x)] + 1
           /\ orderQ' = orderQ
           /\ First(RedisId(x)) \in Items
           /\ rows'[t][x] = First(RedisId(x)) /\ Orders[rows'[t][x]].id = x
<1>1. PICK s \in Svids : SyncOrder(s)
  <2>1. rows' # rows
    OBVIOUS
  <2> QED
    BY <2>1 DEF Next, ClientNext, ServerNext, LinkNext, SyncNext, NextMonth, SyncLoses, vars, syncVars
<1>2. /\ taken[s] \in Nat /\ taken[s] < Len(orderQ[s])
      /\ taken'[s] = taken[s] + 1 /\ orderQ' = orderQ
      /\ taken[s] + 1 \in 1..Len(orderQ[s]) /\ First(s) \in Items
  BY <1>1 DEF SyncOrder, Dequeue, First, TypeOK, QueueTypeOK
<1>3. rows'[t][x] = First(s) /\ x = Orders[First(s)].id
  BY <1>1, <1>2, ExecuteRow DEF SyncOrder, TypeOK
<1>4. RedisId(x) = s
  BY <1>2, <1>3 DEF First, PlaceInv, QueueOf
<1> QED
  BY <1>2, <1>3, <1>4

LEMMA StepShows ==
    ASSUME TypeOK, PlaceInv, ShowsInv, [Next]_vars
    PROVE  ShowsInv'
<1>1. SUFFICES ASSUME NEW t \in Months, NEW x \in Ids, rows'[t][x] # 0
               PROVE  /\ Orders[rows'[t][x]].id = x
                      /\ RedisId(x) \in Svids
                      /\ \E p \in 1..taken'[RedisId(x)] : orderQ'[RedisId(x)][p] = rows'[t][x]
  BY DEF ShowsInv, RedisId, Ids
<1>2. CASE rows'[t][x] = rows[t][x]
  <2>1. PICK p \in 1..taken[RedisId(x)] : orderQ[RedisId(x)][p] = rows[t][x]
    BY <1>1, <1>2 DEF ShowsInv
  <2>2. Orders[rows[t][x]].id = x /\ RedisId(x) \in Svids
    BY <1>1, <1>2 DEF ShowsInv
  <2>3. p \in 1..taken'[RedisId(x)] /\ orderQ'[RedisId(x)][p] = orderQ[RedisId(x)][p]
    BY <2>1, <2>2, QueuesGrow
  <2> QED
    BY <1>2, <2>1, <2>2, <2>3
<1>3. CASE rows'[t][x] # rows[t][x]
  <2> DEFINE s == RedisId(x)
  <2>1. s \in Svids /\ taken'[s] = taken[s] + 1 /\ orderQ' = orderQ
        /\ rows'[t][x] = First(s) /\ Orders[rows'[t][x]].id = x
    BY <1>3, RowWritten
  <2>2. taken[s] \in Nat
    BY <2>1 DEF TypeOK, QueueTypeOK
  <2>3. taken[s] + 1 \in 1..taken'[s] /\ orderQ'[s][taken[s] + 1] = rows'[t][x]
    BY <2>1, <2>2 DEF First
  <2> QED
    BY <2>1, <2>3
<1> QED
  BY <1>2, <1>3

(* When a row goes back, the change it shows had been popped behind the    *)
(* one that it goes back to, and the queue has the older one twice.        *)
LEMMA GoesBackByCopy ==
    ASSUME PInv, QInv, ShowsInv, [Next]_vars, NEW t \in Months, NEW x \in Ids,
           rows'[t][x] < rows[t][x]
    PROVE  Repeated(rows'[t][x]) \/ fate[rows'[t][x]] = "lost"
<1> USE DEF PInv, IInv, TypeOK
<1> DEFINE s == RedisId(x)
           new == rows'[t][x]
           q == taken[s] + 1
<1>1. rows[t][x] \in Items \cup {0}
  BY DEF SyncTypeOK
<1>2. new # rows[t][x]
  BY <1>1 DEF Items
<1>3. s \in Svids /\ taken[s] < Len(orderQ[s]) /\ new = orderQ[s][q] /\ new \in Items
  BY <1>2, RowWritten DEF First, QInv
<1>4. orderQ[s] \in Seq(Items) /\ taken[s] \in Nat
  BY <1>3 DEF QueueTypeOK
<1>5. q \in 1..Len(orderQ[s])
  BY <1>3, <1>4
<1>6. rows[t][x] # 0
  BY <1>3 DEF Items
<1>7. PICK p \in 1..taken[s] : orderQ[s][p] = rows[t][x]
  BY <1>6 DEF ShowsInv
<1>8. p \in 1..(q - 1) /\ orderQ[s][p] > orderQ[s][q]
  BY <1>1, <1>3, <1>4, <1>7 DEF Items
<1>9. CASE \E r \in 1..(p - 1) : orderQ[s][r] = orderQ[s][q]
  <2>1. PICK r \in 1..(p - 1) : orderQ[s][r] = orderQ[s][q]
    BY <1>9
  <2>2. r \in DOMAIN orderQ[s] /\ q \in DOMAIN orderQ[s] /\ r # q
    BY <1>4, <1>5, <1>8, <2>1
  <2> HIDE DEF q, new, s
  <2>3. <<s, r>> \in Copies(new) /\ <<s, q>> \in Copies(new) /\ <<s, r>> # <<s, q>>
    BY <1>3, <2>1, <2>2 DEF Copies
  <2>4. Repeated(new)
    BY <2>3 DEF Repeated
  <2> QED
    BY <2>4 DEF new
<1>10. CASE fate[orderQ[s][q]] = "lost"
  BY <1>3, <1>10
<1> QED
  BY <1>3, <1>5, <1>8, <1>9, <1>10, CopiesInOrder DEF FirstCopiesInOrder

LEMMA ShowsInvariant ==
    ASSUME WholeReplies
    PROVE  Spec => []ShowsInv
<1>1. Init => ShowsInv
  BY DEF Init, SyncInit, ShowsInv
<1>2. PInv /\ QInv /\ ShowsInv /\ [Next]_vars => ShowsInv'
  BY StepShows DEF PInv, IInv, QInv
<1> QED
  BY <1>1, <1>2, QueueInvariant, PTL DEF Spec

(* A row never goes back to an older change of its order but through a     *)
(* repeated copy of that change, or one the client died holding.           *)
THEOREM RowsGoForward ==
    ASSUME WholeReplies
    PROVE  Spec => RowsGoBackOnlyByCopies
<1>1. PInv /\ QInv /\ ShowsInv /\ [Next]_vars
        => [\A t \in Months, id \in Ids :
              LET new == rows'[t][id] IN
              new < rows[t][id] => Repeated(new) \/ fate[new] = "lost"]_vars
  BY GoesBackByCopy
<1> QED
  BY <1>1, QueueInvariant, ShowsInvariant, PTL DEF Spec, RowsGoBackOnlyByCopies

-----------------------------------------------------------------------------
(* What the source promises of its order changes: an order is created      *)
(* once, in one month, by an insert, and every later change updates it.    *)
OrdersAreCreated ==
    /\ StimeIsCreation
    /\ \A i, j \in Items : Orders[i].id = Orders[j].id => Orders[i].month = Orders[j].month
    /\ \A i \in Items : Orders[i].type = INSERT
                          <=> \A j \in Items : Orders[j].id = Orders[i].id => i <= j

(* Where the changes of i's order stand among what has been popped. *)
Applied(i) == {k \in 1..taken[QueueOf(i)] : Orders[orderQ[QueueOf(i)][k]].id = Orders[i].id}

(* They were applied, and the insert was the first of them. *)
InTurn(i) ==
    \A k \in Applied(i) :
        /\ orderQ[QueueOf(i)][k] \notin spoiled
        /\ Orders[orderQ[QueueOf(i)][k]].type = INSERT <=> \A l \in Applied(i) : k <= l

Shown(i) == rows[Orders[i].month][Orders[i].id]

(* Then the row of the order shows the last of them. *)
ShowsLast(i) ==
    QueueOf(i) \in Svids /\ InTurn(i) =>
        \/ Applied(i) = {} /\ Shown(i) = 0
        \/ \E k \in Applied(i) : /\ \A l \in Applied(i) : l <= k
                                 /\ Shown(i) = orderQ[QueueOf(i)][k]

LastInv == \A i \in Items : ShowsLast(i)

(* A step that pops no change of i's order, and does not write its row. *)
LEMMA OtherOrder ==
    ASSUME NEW i \in Items, ShowsLast(i), spoiled \subseteq spoiled',
           QueueOf(i) \in Svids => /\ Applied(i)' = Applied(i)
                                   /\ Shown(i)' = Shown(i)
                                   /\ \A k \in Applied(i) :
                                        orderQ'[QueueOf(i)][k] = orderQ[QueueOf(i)][k]
    PROVE  ShowsLast(i)'
<1>1. QueueOf(i)' = QueueOf(i)
  BY DEF QueueOf, RedisId
<1>2. SUFFICES ASSUME QueueOf(i) \in Svids, InTurn(i)'
               PROVE  (\/ Applied(i) = {} /\ Shown(i) = 0
                       \/ \E k \in Applied(i) : /\ \A l \in Applied(i) : l <= k
                                                /\ Shown(i) = orderQ[QueueOf(i)][k])'
  BY <1>1 DEF ShowsLast
<1>3. InTurn(i)
  BY <1>1, <1>2 DEF InTurn
<1> QED
  BY <1>1, <1>2, <1>3 DEF ShowsLast

(* OrderDbSync pops an order change: i's row is written, or another one. *)
LEMMA PopShows ==
    ASSUME OrdersAreCreated, QueueTypeOK, SyncTypeOK, PlaceInv,
           NEW s \in Svids, SyncOrder(s) \/ SyncLoses(s), NEW i \in Items, ShowsLast(i)
    PROVE  ShowsLast(i)'
<1>1. PICK f \in Items : f = First(s)
  BY DEF SyncOrder, SyncLoses, Dequeue, First, QueueTypeOK
<1>2. PICK q : q = taken[s] + 1
  OBVIOUS
<1>3. /\ q \in 1..Len(orderQ[s]) /\ orderQ' = orderQ /\ orderQ[s][q] = f
      /\ taken' = [taken EXCEPT ![s] = q]
      /\ taken[s] \in Nat
  BY <1>1, <1>2 DEF SyncOrder, SyncLoses, Dequeue, First, QueueTypeOK
<1>4. QueueOf(f) = s /\ QueueOf(i)' = QueueOf(i)
  BY <1>3 DEF PlaceInv, QueueOf, RedisId
<1>5. spoiled \subseteq spoiled'
  BY DEF SyncOrder, SyncLoses
<1>6. Orders[i].id \in Ids /\ Orders[i].month \in Months
  BY DbSyncAssumption DEF Ids
<1>7. CASE Orders[f].id # Orders[i].id
  <2>1. ASSUME QueueOf(i) \in Svids
        PROVE  Applied(i)' = Applied(i)
    <3>1. CASE QueueOf(i) = s
      <4>1. taken'[s] = q /\ 1..q = (1..taken[s]) \cup {q}
        BY <1>2, <1>3 DEF QueueTypeOK
      <4> QED
        BY <1>3, <1>4, <1>7, <3>1, <4>1 DEF Applied
    <3>2. CASE QueueOf(i) # s
      <4>1. taken'[QueueOf(i)] = taken[QueueOf(i)]
        BY <1>3, <2>1, <3>2 DEF QueueTypeOK
      <4> QED
        BY <1>3, <1>4, <4>1 DEF Applied
    <3> QED
      BY <3>1, <3>2
  <2>2. Shown(i)' = Shown(i)
    <3>1. CASE SyncOrder(s)
      BY <1>1, <1>6, <1>7, <3>1, ExecuteRow DEF SyncOrder, Shown
    <3>2. CASE SyncLoses(s)
      BY <3>2 DEF SyncLoses, Shown
    <3> QED
      BY <3>1, <3>2
  <2> QED
    BY <1>3, <1>5, <2>1, <2>2, OtherOrder
<1>8. CASE Orders[f].id = Orders[i].id
  <2>1. QueueOf(i) = s
    BY <1>4, <1>8 DEF QueueOf
  <2>2. Applied(i)' = Applied(i) \cup {q} /\ \A k \in Applied(i) : k \in Nat /\ k < q
    <3>1. taken'[s] = q /\ 1..q = (1..taken[s]) \cup {q}
      BY <1>2, <1>3 DEF QueueTypeOK
    <3>2. Applied(i)' = {k \in 1..q : Orders[orderQ[s][k]].id = Orders[i].id}
      BY <1>3, <1>4, <2>1, <3>1 DEF Applied
    <3>3. Applied(i) = {k \in 1..taken[s] : Orders[orderQ[s][k]].id = Orders[i].id}
      BY <2>1 DEF Applied
    <3>4. Applied(i)' = Applied(i) \cup {q}
      BY <1>3, <1>8, <3>1, <3>2, <3>3
    <3> QED
      BY <1>2, <1>3, <3>3, <3>4
  <2>3. SUFFICES ASSUME InTurn(i)'
                 PROVE  Shown(i)' = f
    <3>1. \A l \in Applied(i)' : l <= q
      BY <1>3, <2>2
    <3>2. q \in Applied(i)' /\ orderQ'[s][q] = f
      BY <1>3, <2>2
    <3> QED
      BY <1>4, <2>1, <2>3, <3>1, <3>2 DEF ShowsLast
  <2>4. f \notin spoiled' /\ (Orders[f].type = INSERT <=> \A l \in Applied(i)' : q <= l)
    BY <1>3, <1>4, <2>1, <2>2, <2>3 DEF InTurn
  <2>5. Orders[f].type = INSERT <=> Applied(i) = {}
    BY <1>3, <2>2, <2>4
  <2>6. InTurn(i)
    <3>1. SUFFICES ASSUME NEW k \in Applied(i)
                   PROVE  /\ orderQ[s][k] \notin spoiled
                          /\ Orders[orderQ[s][k]].type = INSERT <=> \A l \in Applied(i) : k <= l
      BY <2>1 DEF InTurn
    <3>2. /\ orderQ[s][k] \notin spoiled'
          /\ Orders[orderQ[s][k]].type = INSERT <=> \A l \in Applied(i)' : k <= l
      BY <1>3, <1>4, <2>1, <2>2, <2>3 DEF InTurn
    <3>3. k \in Nat /\ k < q
      BY <2>2
    <3>4. k <= q
      BY <1>3, <3>3
    <3>5. (\A l \in Applied(i)' : k <= l) <=> \A l \in Applied(i) : k <= l
      BY <2>2, <3>4
    <3> QED
      BY <1>5, <3>2, <3>5
  <2>7. Shown(i) = 0 <=> Applied(i) = {}
    <3>1. ASSUME NEW k \in Applied(i)
          PROVE  orderQ[s][k] # 0
      <4>1. k \in 1..Len(orderQ[s])
        BY <2>1 DEF Applied, QueueTypeOK
      <4>2. orderQ[s][k] \in Items
        BY <4>1 DEF QueueTypeOK
      <4> QED
        BY <4>2 DEF Items
    <3> QED
      BY <2>1, <2>6, <3>1 DEF ShowsLast
  <2>8. SyncOrder(s)
    BY <1>1, <2>4 DEF SyncLoses
  <2>9. TableName(f) = Orders[i].month
    BY <1>8, TableOfCreation DEF OrdersAreCreated
  <2>10. (Orders[f].type = INSERT) = (Shown(i) = 0)
    BY <2>5, <2>7
  <2>11. rows' = [rows EXCEPT ![Orders[i].month][Orders[i].id] = f]
    BY <1>1, <1>8, <2>8, <2>9, <2>10 DEF SyncOrder, Execute, Shown
  <2> QED
    BY <1>6, <2>11 DEF Shown, SyncTypeOK
<1> QED
  BY <1>7, <1>8

LEMMA StepLast ==
    ASSUME OrdersAreCreated, TypeOK, PlaceInv, LastInv, [Next]_vars
    PROVE  LastInv'
<1>1. SUFFICES ASSUME NEW i \in Items
               PROVE  ShowsLast(i)'
  BY DEF LastInv
<1>2. ASSUME NEW s \in Svids, SyncOrder(s) \/ SyncLoses(s)
      PROVE  ShowsLast(i)'
  BY <1>2, PopShows DEF LastInv, TypeOK
<1>3. ASSUME UNCHANGED <<rows, spoiled, taken>>
      PROVE  ShowsLast(i)'
  <2>1. QueueOf(i)' = QueueOf(i)
    BY DEF QueueOf, RedisId
  <2>2. ASSUME QueueOf(i) \in Svids
        PROVE  Applied(i)' = Applied(i) /\ \A k \in Applied(i) :
                                        orderQ'[QueueOf(i)][k] = orderQ[QueueOf(i)][k]
    BY <1>3, <2>1, <2>2, QueuesGrow DEF Applied
  <2>3. Shown(i)' = Shown(i)
    BY <1>3 DEF Shown
  <2> QED
    BY <1>3, <2>2, <2>3, OtherOrder DEF LastInv
<1>4. CASE ClientNext \/ LinkNext \/ NextMonth \/ UNCHANGED vars
  BY <1>3, <1>4 DEF ClientNext, LinkNext, NextMonth, vars, syncVars, queueVars
<1>5. CASE ServerNext
  <2>1. UNCHANGED <<rows, spoiled>>
    BY <1>5 DEF ServerNext, syncVars
  <2>2. taken' = taken
    BY <1>5 DEF ServerNext, ServerHandles, InputPacket, CmdData, DataFlow, Enqueue, InputOversized,
                InputClosed, TimerNotify, Restart, RedisBreaks, queueVars
  <2> QED
    BY <1>3, <2>1, <2>2
<1> QED
  BY <1>2, <1>4, <1>5 DEF Next, SyncNext

(* When each change of an order came through once, they were popped in the *)
(* order of the source, and the last of them is the last popped.           *)
LEMMA RowsFollow ==
    ASSUME OrdersAreCreated, PInv, QInv, LastInv
    PROVE  RowsFollowSource
<1>1. SUFFICES ASSUME NEW i \in Items,
                      \A j \in Items : Orders[j].id = Orders[i].id => j <= i /\ Clean(j)
               PROVE  Shown(i) = i
  BY DEF RowsFollowSource, Shown
<1> DEFINE s == QueueOf(i)
<1>2. ASSUME NEW j \in Items, Clean(j)
      PROVE  QueueOf(j) \in Svids
             /\ \E k \in 1..taken[QueueOf(j)] : orderQ[QueueOf(j)][k] = j
  <2>1. PICK x \in Copies(j) : x[2] <= taken[x[1]]
    BY <1>2 DEF Clean
  <2>2. PICK u \in Svids : x \in {u} \X DOMAIN orderQ[u]
    BY <2>1 DEF Copies
  <2>3. x[1] = u /\ x[2] \in DOMAIN orderQ[u] /\ orderQ[u][x[2]] = j
    BY <2>1, <2>2 DEF Copies
  <2>4. orderQ[u] \in Seq(Items) /\ taken[u] \in Nat
    BY DEF PInv, IInv, TypeOK, QueueTypeOK
  <2>5. x[2] \in 1..Len(orderQ[u]) /\ x[2] \in 1..taken[u]
    BY <2>1, <2>3, <2>4
  <2>6. QueueOf(j) = u
    BY <2>3, <2>5 DEF QInv, PlaceInv
  <2> QED
    BY <2>3, <2>5, <2>6
<1>3. ASSUME NEW j \in Items, Clean(j), NEW u \in Svids,
             NEW k \in DOMAIN orderQ[u], NEW l \in DOMAIN orderQ[u],
             orderQ[u][k] = j, orderQ[u][l] = j
      PROVE  k = l
  <2>1. <<u, k>> \in Copies(j) /\ <<u, l>> \in Copies(j)
    BY <1>3 DEF Copies
  <2>2. <<u, k>> = <<u, l>>
    BY <1>3, <2>1 DEF Clean
  <2> QED
    BY <2>2
<1>4. s \in Svids
  BY <1>1, <1>2
<1>5. orderQ[s] \in Seq(Items) /\ taken[s] \in Nat /\ taken[s] <= Len(orderQ[s])
  BY <1>4 DEF PInv, IInv, TypeOK, QueueTypeOK
<1>6. ASSUME NEW k \in Applied(i)
      PROVE  /\ k \in 1..taken[s] /\ k \in 1..Len(orderQ[s]) /\ orderQ[s][k] \in Items
             /\ Orders[orderQ[s][k]].id = Orders[i].id /\ Clean(orderQ[s][k])
             /\ orderQ[s][k] <= i
  <2>1. k \in 1..taken[s] /\ k \in 1..Len(orderQ[s])
    BY <1>5 DEF Applied
  <2>2. orderQ[s][k] \in Items
    BY <1>5, <2>1
  <2> QED
    BY <1>1, <2>1, <2>2 DEF Applied
<1>7. ASSUME NEW j \in Items, Orders[j].id = Orders[i].id
      PROVE  \E k \in Applied(i) : orderQ[s][k] = j
  <2>1. QueueOf(j) = s
    BY <1>7 DEF QueueOf
  <2> QED
    BY <1>1, <1>2, <1>7, <2>1 DEF Applied
<1> HIDE DEF s
<1>8. ASSUME NEW k \in Applied(i), NEW l \in Applied(i), k < l
      PROVE  orderQ[s][k] < orderQ[s][l]
  <2>1. orderQ[s][k] # orderQ[s][l]
    <3>1. k \in DOMAIN orderQ[s] /\ l \in DOMAIN orderQ[s]
      BY <1>5, <1>6
    <3> QED
      BY <1>3, <1>4, <1>6, <1>8, <3>1
  <2>2. ~ orderQ[s][k] > orderQ[s][l]
    <3>1. SUFFICES ASSUME orderQ[s][k] > orderQ[s][l]
                   PROVE  FALSE
      OBVIOUS
    <3>2. k \in 1..(l - 1) /\ l \in 1..Len(orderQ[s])
      BY <1>6, <1>8
    <3>3. fate[orderQ[s][l]] # "lost"
      BY <1>6 DEF Clean
    <3>4. PICK r \in 1..(k - 1) : orderQ[s][r] = orderQ[s][l]
      BY <1>4, <3>1, <3>2, <3>3, CopiesInOrder DEF FirstCopiesInOrder
    <3>5. r \in DOMAIN orderQ[s] /\ l \in DOMAIN orderQ[s] /\ r # l
      BY <1>5, <3>2, <3>4
    <3> QED
      BY <1>3, <1>4, <1>6, <3>4, <3>5
  <2>3. orderQ[s][k] \in Nat /\ orderQ[s][l] \in Nat
    BY <1>6 DEF Items
  <2> QED
    BY <2>1, <2>2, <2>3
<1>9. InTurn(i)
  <2>1. SUFFICES ASSUME NEW k \in Applied(i)
                 PROVE  /\ orderQ[s][k] \notin spoiled
                        /\ Orders[orderQ[s][k]].type = INSERT <=> \A l \in Applied(i) : k <= l
    BY DEF InTurn, s
  <2>2. orderQ[s][k] \notin spoiled
    BY <1>6 DEF Clean
  <2>3. ASSUME Orders[orderQ[s][k]].type = INSERT, NEW l \in Applied(i), ~ k <= l
        PROVE  FALSE
    <3>1. l < k
      BY <1>5, <1>6, <2>3
    <3>2. orderQ[s][l] < orderQ[s][k]
      BY <1>8, <3>1
    <3>3. orderQ[s][k] <= orderQ[s][l]
      BY <1>6, <2>3 DEF OrdersAreCreated
    <3>4. orderQ[s][k] \in Nat /\ orderQ[s][l] \in Nat
      BY <1>6 DEF Items
    <3> QED
      BY <3>2, <3>3, <3>4
  <2>4. ASSUME \A l \in Applied(i) : k <= l, NEW j \in Items, Orders[j].id = Orders[orderQ[s][k]].id
        PROVE  orderQ[s][k] <= j
    <3>1. PICK l \in Applied(i) : orderQ[s][l] = j
      BY <1>6, <1>7, <2>4
    <3>2. k = l \/ k < l
      BY <1>5, <1>6, <2>4
    <3> QED
      BY <1>6, <1>8, <3>1, <3>2 DEF Items
  <2>5. (\A l \in Applied(i) : k <= l) => Orders[orderQ[s][k]].type = INSERT
    BY <1>6, <2>4 DEF OrdersAreCreated
  <2> QED
    BY <2>2, <2>3, <2>5
<1>10. PICK k \in Applied(i) : (\A l \in Applied(i) : l <= k) /\ Shown(i) = orderQ[s][k]
  BY <1>4, <1>7, <1>9 DEF LastInv, ShowsLast, s
<1>11. PICK l \in Applied(i) : orderQ[s][l] = i
  BY <1>7
<1>12. l = k \/ l < k
  BY <1>5, <1>6, <1>10
<1> QED
  BY <1>6, <1>8, <1>10, <1>11, <1>12 DEF Items

(* When an order is created once and its changes follow, and each of them  *)
(* came through once and without loss, its row shows the last change, in   *)
(* whatever months they are popped and whatever other orders are repeated, *)
(* lost or failed to be applied.                                           *)
THEOREM RowsUpToDate ==
    ASSUME WholeReplies, OrdersAreCreated
    PROVE  Spec => []RowsFollowSource
<1>1. Init => LastInv
  <2>1. SUFFICES ASSUME Init, NEW i \in Items
                 PROVE  ShowsLast(i)
    BY DEF LastInv
  <2>2. Orders[i].id \in Ids /\ Orders[i].month \in Months
    BY DbSyncAssumption DEF Ids
  <2>3. Shown(i) = 0
    BY <2>1, <2>2 DEF Init, SyncInit, Shown
  <2>4. QueueOf(i) \in Svids => Applied(i) = {}
    BY <2>1 DEF Init, QueueInit, Applied
  <2> QED
    BY <2>3, <2>4 DEF ShowsLast
<1>2. PInv /\ QInv /\ LastInv /\ [Next]_vars => LastInv'
  BY StepLast DEF PInv, IInv, QInv
<1>3. PInv /\ QInv /\ LastInv => RowsFollowSource
  BY RowsFollow
<1> QED
  BY <1>1, <1>2, <1>3, QueueInvariant, PTL DEF Spec
=============================================================================
