------------------------- MODULE OrderSyncPipeProofs ------------------------
(***************************************************************************)
(* With whole replies, OrderSync implements OrderPipe: at-least-once       *)
(* transfer of one order change at a time, in the order of the queue.      *)
(***************************************************************************)
EXTENDS OrderSyncProofs

(* The client is done with every order change before the last it popped,   *)
(* has not seen those after it, and holds the last one while it works on   *)
(* it; whatever is on its way to the server has been held by the client.   *)
DoneInv ==
    \A i \in Items :
        /\ i > popped => fate[i] = "unseen"
        /\ i <= popped => fate[i] # "unseen"
        /\ fate[i] = "held" => InHand /\ i = popped

SentInv ==
    \A c \in Conns : \A n \in 1..Len(up[c]) :
        fate[up[c][n].item] \notin {"unseen", "rejected"}

PInv == IInv /\ DoneInv /\ SentInv

-----------------------------------------------------------------------------
(* A handler serves nothing but the order change it runs for. *)
LEMMA DataFlowServesOnly ==
    ASSUME QueueTypeOK, NEW i \in Items, DataFlow(i), NEW j \in Items, Served(j)'
    PROVE  Served(j) \/ j = i
<1>1. CASE discarded' = discarded \cup {i} /\ UNCHANGED queueVars
  BY <1>1 DEF Served, Queued, queueVars
<1>2. ASSUME NEW s \in Svids, Enqueue(s, i), UNCHANGED discarded
      PROVE  Served(j) \/ j = i
  <2>1. CASE j \in discarded'
    BY <1>2, <2>1 DEF Served
  <2>2. CASE Queued(j)'
    <3>1. PICK t \in Svids : \E k \in 1..Len(orderQ'[t]) : orderQ'[t][k] = j
      BY <2>2 DEF Queued
    <3>2. PICK k \in 1..Len(orderQ'[t]) : orderQ'[t][k] = j
      BY <3>1
    <3>3. CASE t # s
      <4>1. orderQ'[t] = orderQ[t]
        BY <1>2, <3>3 DEF Enqueue, QueueTypeOK
      <4> QED
        BY <3>2, <4>1 DEF Served, Queued
    <3>4. CASE t = s
      <4>1. orderQ[t] \in Seq(Items) /\ orderQ'[t] = Append(orderQ[t], i)
        BY <1>2, <3>4 DEF Enqueue, QueueTypeOK
      <4>2. j = i \/ (k \in 1..Len(orderQ[t]) /\ orderQ[t][k] = j)
        BY <3>2, <4>1
      <4> QED
        BY <4>2 DEF Served, Queued
    <3> QED
      BY <3>3, <3>4
  <2> QED
    BY <2>1, <2>2 DEF Served
<1> QED
  BY <1>1, <1>2 DEF DataFlow

(* A step that serves nothing and takes packets off the wire or leaves it. *)
LEMMA SentShrinks ==
    ASSUME SentInv, fate' = fate,
           \A c \in Conns : up'[c] \in {<<>>, up[c]}
    PROVE  SentInv'
  BY DEF SentInv

-----------------------------------------------------------------------------
(* What the client does to an order change, seen from the pipe. *)
LEMMA ClientStepPipe ==
    ASSUME WholeReplies, PInv, ClientNext
    PROVE  [Pipe!Next]_(Pipe!vars) /\ DoneInv' /\ SentInv'
<1> USE DEF PInv, IInv, TypeOK, Pipe!vars
<1>1. ServedItems' = ServedItems
  BY ServedSame DEF ClientNext, ServedItems
<1>2. UNCHANGED <<serverVars, queueVars>>
  BY DEF ClientNext
<1>3. ASSUME fate' = fate, popped' = popped, InHand => InHand',
             \A c \in Conns : up'[c] \in {<<>>, up[c]}
      PROVE  [Pipe!Next]_(Pipe!vars) /\ DoneInv' /\ SentInv'
  BY <1>1, <1>3, SentShrinks DEF DoneInv
<1>4. CASE Produce /\ UNCHANGED linkVars
  BY <1>3, <1>4 DEF Produce, linkVars, InHand
<1>5. CASE Wait \/ RecheckFails \/ FetchEmpty \/ SendReconnectFails \/ RecvPoll \/ CheckData
  BY <1>3, <1>5 DEF Wait, RecheckFails, FetchEmpty, SendReconnectFails, RecvPoll, CheckData,
                    linkVars, InHand
<1>6. CASE CheckClosed \/ SendFails \/ RecvClosed \/ RecvTimeout
  BY <1>3, <1>6 DEF CheckClosed, SendFails, RecvClosed, RecvTimeout, Disconnect, ClientCloses, InHand
<1>7. CASE ClientConnects
  <2>1. Reconnected /\ UNCHANGED <<fate, popped>> /\ (InHand => InHand')
    BY <1>7 DEF ClientConnects, Start, Recheck, SendReconnect, InHand
  <2>2. \A c \in Conns : up'[c] \in {<<>>, up[c]}
    BY <2>1 DEF Reconnected, Connect, LinkTypeOK
  <2> QED
    BY <1>3, <2>1, <2>2
<1>8. CASE Send
  <2>1. out.item = popped /\ popped \in Items /\ fate[popped] = "held" /\ conn \in Conns
    BY <1>8 DEF Send, FlowInv, LocalInv, HoldInv, InHand, ClientTypeOK
  <2>2. UNCHANGED <<fate, popped>> /\ InHand'
    BY <1>8 DEF Send, InHand
  <2>3. DoneInv'
    BY <2>2 DEF DoneInv
  <2>4. SentInv'
    <3>1. SUFFICES ASSUME NEW c \in Conns, NEW n \in 1..Len(up'[c])
                   PROVE  fate[up'[c][n].item] \notin {"unseen", "rejected"}
      BY <2>2 DEF SentInv
    <3>2. up[c] \in Seq(Packet)
      BY DEF LinkTypeOK
    <3>3. up'[c] = up[c] \/ (c = conn /\ up'[c] = Append(up[c], out))
      BY <1>8, <2>1 DEF Send, LinkTypeOK
    <3>4. up'[c][n] = out \/ (n \in 1..Len(up[c]) /\ up'[c][n] = up[c][n])
      BY <3>2, <3>3
    <3> QED
      BY <2>1, <3>4 DEF SentInv
  <2> QED
    BY <1>1, <2>2, <2>3, <2>4
<1>9. CASE RecvReply
  <2>1. popped \in Items /\ fate' = [fate EXCEPT ![popped] = "answered"] /\ Served(popped)
    BY <1>9, RecvWhole
  <2>2. fate[popped] = "held" /\ popped' = popped /\ up' = up
    BY <1>9 DEF RecvReply, FlowInv, LocalInv, HoldInv, InHand
  <2>3. Pipe!Satisfied(popped)
    BY <1>1, <2>1, <2>2 DEF Pipe!Satisfied, ServedItems
  <2>4. DoneInv'
    BY <2>1, <2>2 DEF DoneInv, ClientTypeOK
  <2>5. SentInv'
    BY <2>1, <2>2 DEF SentInv, LinkTypeOK, ClientTypeOK
  <2> QED
    BY <2>1, <2>3, <2>4, <2>5 DEF Pipe!Next, Pipe!Items, Items
<1>10. CASE FetchLost \/ FetchRejected \/ FetchOrder
  <2>1. PICK f \in {"held", "lost", "rejected"} : Pop(f) /\ (f = "held" => pc' = "send")
    BY <1>10 DEF FetchLost, FetchRejected, FetchOrder
  <2>2. popped + 1 \in Items /\ popped \in Nat
    BY <2>1, OrderAssumption DEF Pop, ClientTypeOK, Items
  <2>3. pc = "fetch" /\ up' = up /\ popped' = popped + 1
        /\ fate' = [fate EXCEPT ![popped + 1] = f]
    BY <2>1 DEF Pop, linkVars
  <2>4. \A j \in Items : j <= popped => fate[j] \notin {"unseen", "held"}
    BY <2>3 DEF DoneInv, InHand
  <2>5. Pipe!Take(popped + 1, f)
    BY <1>1, <2>1, <2>2, <2>3, <2>4 DEF Pipe!Take, Pipe!Unsettled, DoneInv, Items
  <2>6. DoneInv'
    BY <2>1, <2>2, <2>3, <2>4 DEF DoneInv, InHand, ClientTypeOK, Items
  <2>7. SentInv'
    BY <2>2, <2>3 DEF SentInv, LinkTypeOK, ClientTypeOK, DoneInv
  <2> QED
    BY <2>1, <2>2, <2>5, <2>6, <2>7 DEF Pipe!Next, Pipe!Items, Items
<1>11. CASE Crash
  <2>1. \A c \in Conns : up'[c] = up[c]
    BY <1>11 DEF Crash, Disconnect, ClientCloses
  <2>2. fate' = [i \in Items |-> IF fate[i] = "held" THEN "lost" ELSE fate[i]] /\ popped' = popped
    BY <1>11 DEF Crash
  <2>3. DoneInv'
    BY <2>2 DEF DoneInv
  <2>4. SentInv'
    <3>1. ASSUME NEW c \in Conns, NEW n \in 1..Len(up[c])
          PROVE  up[c][n].item \in Items
      <4>1. up[c] \in Seq(Packet)
        BY DEF LinkTypeOK
      <4>2. up[c][n] \in Packet
        BY <4>1
      <4> QED
        BY <4>2 DEF Packet
    <3> QED
      BY <2>1, <2>2, <3>1 DEF SentInv
  <2>5. CASE \E i \in Items : fate[i] = "held"
    <3>1. popped \in Items /\ fate[popped] = "held"
      BY <2>5 DEF DoneInv
    <3>2. fate' = [fate EXCEPT ![popped] = "lost"]
      BY <2>2, <3>1 DEF DoneInv, ClientTypeOK
    <3> QED
      BY <1>1, <2>3, <2>4, <3>1, <3>2 DEF Pipe!Next, Pipe!Forget, Pipe!Items, Items
  <2>6. CASE ~ \E i \in Items : fate[i] = "held"
    BY <1>1, <2>2, <2>3, <2>4, <2>6 DEF ClientTypeOK
  <2> QED
    BY <2>5, <2>6
<1> QED
  BY <1>4, <1>5, <1>6, <1>7, <1>8, <1>9, <1>10, <1>11 DEF ClientNext, ClientLoop

-----------------------------------------------------------------------------
(* A step of the server is the serving of a copy, or nothing to the pipe. *)
LEMMA ServesPipe ==
    ASSUME PInv, UNCHANGED clientVars, NEW c \in Conns, InputPacket(c)
    PROVE  Pipe!Next /\ DoneInv' /\ SentInv'
<1> USE DEF PInv, IInv, TypeOK
<1>1. PICK i : i = Head(up[c]).item
  OBVIOUS
<1>2. up[c] \in Seq(Packet) /\ up[c] # <<>>
  BY DEF InputPacket, LinkTypeOK
<1>3. i \in Items
  BY <1>1, InputPacketType DEF Packet
<1>4. DataFlow(i) /\ fate' = fate /\ popped' = popped /\ DoneInv'
  BY <1>1 DEF InputPacket, CmdData, clientVars, DoneInv, InHand
<1>5. Served(i)' /\ \A j \in Items : Served(j)' <=> (Served(j) \/ j = i)
  BY <1>3, <1>4, DataFlowServes, DataFlowServesOnly
<1>6. ServedItems' = ServedItems \cup {i}
  BY <1>3, <1>5 DEF ServedItems
<1>7. fate[i] \notin {"unseen", "rejected"}
  <2>1. 1 \in 1..Len(up[c]) /\ up[c][1] = Head(up[c])
    BY <1>2
  <2> QED
    BY <1>1, <2>1 DEF SentInv
<1>8. Pipe!Serve(i)
  BY <1>4, <1>6, <1>7 DEF Pipe!Serve
<1>9. SentInv'
  <2>1. SUFFICES ASSUME NEW d \in Conns, NEW n \in 1..Len(up'[d])
                 PROVE  fate[up'[d][n].item] \notin {"unseen", "rejected"}
    BY <1>4 DEF SentInv
  <2>2. CASE d # c
    <3>1. up'[d] = up[d]
      BY <2>2 DEF InputPacket, CmdData, LinkTypeOK
    <3> QED
      BY <3>1 DEF SentInv
  <2>3. CASE d = c
    <3>1. up'[d] = Tail(up[c])
      BY <2>3 DEF InputPacket, CmdData, LinkTypeOK
    <3>2. n + 1 \in 1..Len(up[c]) /\ up'[d][n] = up[c][n + 1]
      BY <1>2, <3>1
    <3> QED
      BY <3>2 DEF SentInv
  <2> QED
    BY <2>2, <2>3
<1> QED
  BY <1>3, <1>4, <1>8, <1>9 DEF Pipe!Next, Pipe!Items, Items

(* A step that serves nothing and leaves the client alone. *)
LEMMA StutterPipe ==
    ASSUME PInv, UNCHANGED <<clientVars, orderQ, discarded>>,
           \A c \in Conns : up'[c] \in {<<>>, up[c]}
    PROVE  UNCHANGED Pipe!vars /\ DoneInv' /\ SentInv'
<1>1. \A j \in Items : Served(j)' <=> Served(j)
  BY DEF Served, Queued
<1>2. ServedItems' = ServedItems /\ fate' = fate
  BY <1>1 DEF ServedItems, clientVars
<1>3. DoneInv'
  BY DEF PInv, DoneInv, InHand, clientVars
<1> QED
  BY <1>2, <1>3, SentShrinks DEF PInv, Pipe!vars

-----------------------------------------------------------------------------
LEMMA StepPipe ==
    ASSUME WholeReplies, PInv, [Next]_vars
    PROVE  [Pipe!Next]_(Pipe!vars) /\ DoneInv' /\ SentInv'
<1> USE DEF PInv, IInv, TypeOK
<1>1. CASE ClientNext
  BY <1>1, ClientStepPipe
<1>2. CASE ServerNext
  <2>1. UNCHANGED clientVars
    BY <1>2 DEF ServerNext
  <2>2. ASSUME NEW c \in Conns, InputPacket(c)
        PROVE  [Pipe!Next]_(Pipe!vars) /\ DoneInv' /\ SentInv'
    BY <2>1, <2>2, ServesPipe
  <2>3. ASSUME NEW c \in Conns, InputOversized(c) \/ InputClosed(c) \/ TimerNotify(c)
        PROVE  [Pipe!Next]_(Pipe!vars) /\ DoneInv' /\ SentInv'
    <3>1. ServerCloses(c) /\ UNCHANGED <<orderQ, discarded>>
      BY <2>3 DEF InputOversized, InputClosed, TimerNotify, serverVars, queueVars
    <3>2. \A d \in Conns : up'[d] \in {<<>>, up[d]}
      BY <3>1 DEF ServerCloses, LinkTypeOK
    <3> QED
      BY <2>1, <3>1, <3>2, StutterPipe
  <2>4. CASE Restart \/ \E s \in Svids : RedisBreaks(s)
    <3>1. UNCHANGED <<orderQ, discarded>> /\ \A d \in Conns : up'[d] \in {<<>>, up[d]}
      BY <2>4 DEF Restart, RedisBreaks, queueVars, LinkTypeOK
    <3> QED
      BY <2>1, <3>1, StutterPipe
  <2> QED
    BY <1>2, <2>2, <2>3, <2>4 DEF ServerNext, ServerHandles
<1>3. CASE LinkNext
  <2>1. UNCHANGED <<clientVars, orderQ, discarded>>
    BY <1>3 DEF LinkNext, serverVars, queueVars
  <2>2. \A d \in Conns : up'[d] \in {<<>>, up[d]}
    BY <1>3 DEF LinkNext, NetReset, LinkTypeOK
  <2> QED
    BY <2>1, <2>2, StutterPipe
<1>4. CASE SyncNext
  <2>1. UNCHANGED <<clientVars, orderQ, discarded, up>>
    BY <1>4 DEF SyncNext, NextMonth, SyncOrder, SyncLoses, Dequeue, queueVars, serverVars, linkVars
  <2> QED
    BY <2>1, StutterPipe
<1>5. CASE UNCHANGED vars
  <2>1. UNCHANGED <<clientVars, orderQ, discarded, up>>
    BY <1>5 DEF vars, linkVars, serverVars, queueVars
  <2> QED
    BY <2>1, StutterPipe
<1> QED
  BY <1>1, <1>2, <1>3, <1>4, <1>5 DEF Next

LEMMA InitPipe ==
    ASSUME Init
    PROVE  PInv /\ Pipe!Init
<1> USE DEF Init, LinkInit, ClientInit, ServerInit, QueueInit
<1>1. DoneInv /\ SentInv
  BY DEF DoneInv, SentInv, Items
<1>2. \A j \in Items : ~ Served(j)
  BY DEF Served, Queued
<1>3. ServedItems = {} /\ fate = [i \in Items |-> "unseen"]
  BY <1>2 DEF ServedItems
<1> QED
  BY <1>1, <1>3, InitIInv DEF PInv, Pipe!Init, Pipe!Items, Items

(* Unless a reply arrives in pieces, client and server together transfer   *)
(* the order changes as OrderPipe promises: whatever is reset, closed or   *)
(* restarted, the client goes on to the next order change only when it has *)
(* dropped, lost or seen served the one before.                            *)
THEOREM PipeCorrect ==
    ASSUME WholeReplies
    PROVE  Spec => ImplementsPipe
<1>1. Init => PInv /\ Pipe!Init
  BY InitPipe
<1>2. PInv /\ [Next]_vars => PInv' /\ [Pipe!Next]_(Pipe!vars)
  BY StepPipe, StepType, StepFlow DEF PInv, IInv, FlowInv
<1> QED
  BY <1>1, <1>2, PTL DEF Spec, ImplementsPipe, Pipe!Spec
=============================================================================
