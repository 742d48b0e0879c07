----------------------------- MODULE OrderSync -----------------------------
(***************************************************************************)
(* The whole system: the pay centre's queue, OrderSyncClient, the TCP      *)
(* connections, OrderSyncServer, the redis queues and OrderDbSync.         *)
(***************************************************************************)
EXTENDS OrderSyncClient, OrderSyncServer, OrderDbSync

vars == <<clientVars, linkVars, serverVars, queueVars, syncVars>>

Init ==
    /\ LinkInit
    /\ ClientInit
    /\ ServerInit
    /\ QueueInit
    /\ SyncInit

TypeOK ==
    /\ LinkTypeOK
    /\ ClientTypeOK
    /\ ServerTypeOK
    /\ QueueTypeOK
    /\ SyncTypeOK

ClientNext ==
    /\ (Produce /\ UNCHANGED linkVars) \/ Crash \/ ClientLoop \/ ClientConnects
    /\ UNCHANGED <<serverVars, queueVars, syncVars>>

ServerNext ==
    /\ \/ \E c \in Conns : ServerHandles(c) \/ TimerNotify(c)
       \/ Restart
       \/ \E s \in Svids : RedisBreaks(s)
    /\ UNCHANGED <<clientVars, syncVars>>

LinkNext ==
    /\ \E c \in Conns : NetReset(c)
    /\ UNCHANGED <<clientVars, serverVars, queueVars, syncVars>>

SyncNext ==
    /\ NextMonth \/ \E s \in Svids : SyncOrder(s) \/ SyncLoses(s)
    /\ UNCHANGED <<clientVars, linkVars, serverVars>>

Next == ClientNext \/ ServerNext \/ LinkNext \/ SyncNext

Spec == Init /\ [][Next]_vars

-----------------------------------------------------------------------------
(* Fairness.  Each of the programs is a loop that never stops by itself:   *)
(* the client's thread takes its next step, the server's event loop runs   *)
(* the handler of every readable connection, an OrderDbSync process calls  *)
(* sync_order again and again.  That a server which is reachable again and *)
(* again is at last connected to, is the strong fairness of a connect      *)
(* attempt: the client repeats it, and each attempt may fail.              *)

Fairness ==
    /\ WF_vars(ClientLoop /\ UNCHANGED <<serverVars, queueVars, syncVars>>)
    /\ SF_vars(ClientConnects /\ UNCHANGED <<serverVars, queueVars, syncVars>>)
    /\ \A c \in Conns :
         WF_vars(ServerHandles(c) /\ UNCHANGED <<clientVars, syncVars>>)
    /\ \A s \in Svids :
         WF_vars(SyncOrder(s) /\ UNCHANGED <<clientVars, linkVars, serverVars>>)

FairSpec == Spec /\ Fairness

-----------------------------------------------------------------------------
(* The client has at most one request outstanding on its connection: when  *)
(* it is not waiting for a reply nothing is in flight, and when it is, the *)
(* wire holds its packet, or the whole reply to it, or nothing.  The code  *)
(* relies on it at every Recv, which takes whatever is there for the       *)
(* answer, and in check(), which throws bytes away.                        *)
OneRequestInFlight ==
    conn # NoConn =>
        /\ pc # "recv" => up[conn] = <<>> /\ down[conn] = <<>>
        /\ pc = "recv" =>
             /\ up[conn] \in {<<>>, <<out>>}
             /\ down[conn] \in {<<>>, Reply(event_id)}
             /\ up[conn] = <<>> \/ down[conn] = <<>>

(* An order change the client reports as synchronised ("sync success") has *)
(* been handled by the server, whatever was reset, closed, sent twice or   *)
(* answered late in between.                                               *)
AnsweredIsServed == \A i \in Items : fate[i] = "answered" => Served(i)

(* The client lets go of a packet it has sent only after the server has    *)
(* handled it: no reply but the one to this packet ends the wait for it.   *)
SettledIsServed ==
    \A i \in Items : fate[i] \in {"answered", "unconfirmed"} => Served(i)

(* An order change reported as synchronised is in ORDER_Q.                 *)
AnsweredIsQueued == \A i \in Items : fate[i] = "answered" => Queued(i)

(* In every ORDER_Q the first copies stand in the order of the source      *)
(* queue: an older order change behind a newer one is a repeated copy of   *)
(* one that already stands before it, unless the client died holding it.   *)
(* That a push of it failed is no exception: redis stays disconnected      *)
(* until the server restarts, and then no old copy is left to be pushed.   *)
FirstCopiesInOrder ==
    \A s \in Svids : \A q \in 1..Len(orderQ[s]) : \A p \in 1..(q - 1) :
        orderQ[s][p] > orderQ[s][q] =>
            \/ \E r \in 1..(p - 1) : orderQ[s][r] = orderQ[s][q]
            \/ fate[orderQ[s][q]] = "lost"

-----------------------------------------------------------------------------
(* Where the copies of i stand in the queues: <<instance, place>>. *)
Copies(i) == {x \in UNION {{s} \X DOMAIN orderQ[s] : s \in Svids} :
                orderQ[x[1]][x[2]] = i}

Repeated(i) == \E x, y \in Copies(i) : x # y

(* i came through once and without loss: the client did not die holding    *)
(* it, one copy of it was pushed, and OrderDbSync has popped and applied   *)
(* that copy.                                                              *)
Clean(i) ==
    /\ fate[i] # "lost"
    /\ i \notin spoiled
    /\ \E x \in Copies(i) : Copies(i) = {x} /\ x[2] <= taken[x[1]]

(* When every change of an order came through once and without loss, the   *)
(* row of the order, in the table of the month it was created in, shows    *)
(* its last change.                                                        *)
RowsFollowSource ==
    \A i \in Items :
        LET same == {j \in Items : Orders[j].id = Orders[i].id} IN
        (\A j \in same : j <= i /\ Clean(j)) => rows[Orders[i].month][Orders[i].id] = i

(* An order has no row but in the table of the month it was created in:    *)
(* the insert and the later updates of an order, popped in any month,      *)
(* select the same table.                                                  *)
RowsInTheirMonth ==
    \A t \in Months, i \in Items :
        rows[t][Orders[i].id] = i => t = Orders[i].month

(* A row goes back to an older change of its order only through a repeated *)
(* copy of that change, or one the client died holding: two OrderDbSync    *)
(* processes never race on one order, because the server picks the queue   *)
(* by the order's id.                                                      *)
RowsGoBackOnlyByCopies ==
    [][\A t \in Months, id \in Ids :
         LET new == rows'[t][id] IN
         new < rows[t][id] => Repeated(new) \/ fate[new] = "lost"]_vars

-----------------------------------------------------------------------------
ServedItems == {i \in Items : Served(i)}

(* The system transfers order changes as OrderPipe promises. *)
Pipe == INSTANCE OrderPipe WITH N <- Len(Orders), served <- ServedItems
ImplementsPipe == Pipe!Spec

-----------------------------------------------------------------------------
(* An order change the client has taken off the queue is at last answered: *)
(* the send loop comes to an end however often the connection is lost.     *)
HeldIsAnswered ==
    \A i \in Items : (fate[i] = "held") ~> (fate[i] = "answered")

(* What is pushed to an ORDER_Q is at last popped by OrderDbSync. *)
QueuedIsTaken ==
    \A s \in Svids : (taken[s] < Len(orderQ[s])) ~> (taken[s] = Len(orderQ[s]))

(* Every order change the pay centre pushes is at last taken by the client *)
(* (README: the client is responsible for sending the source's data).      *)
EveryOrderIsFetched ==
    \A i \in Items : (produced >= i) ~> (popped >= i)
=============================================================================
