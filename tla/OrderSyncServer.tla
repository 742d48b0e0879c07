-------------------------- MODULE OrderSyncServer --------------------------
(***************************************************************************)
(* OrderSyncServer at the level of packets: the handlers that CClientUnit, *)
(* CDecoderUnit and CListener run for one connection, and the queues       *)
(* ORDER_Q in the redis instances they push to.  The server is one thread; *)
(* a handler runs to its end, so each is one action.                       *)
(***************************************************************************)
EXTENDS TcpLink, RedisQueue

VARIABLES srvRedis,   \* srvRedis[s]: the server's connection to redis s works
          discarded   \* history: order changes answered without having been pushed

serverVars == <<srvRedis, discarded>>

ServerTypeOK ==
    /\ srvRedis \in [Svids -> BOOLEAN]
    /\ discarded \subseteq Items

ServerInit ==
    /\ srvRedis = [s \in Svids |-> TRUE]
    /\ discarded = {}

(* A handler has run for the order change. *)
Served(i) == Queued(i) \/ i \in discarded

(* __REDIS_ID: id modulo the number of instances, 0 counting as the last. *)
RedisId(id) ==
    LET r == id % Cardinality(Svids) IN IF r = 0 THEN Cardinality(Svids) ELSE r

(* Mutant: the instances take turns, whatever order a change is of. *)
DataFlowInTurn(i) ==
    LET s == RedisId(i) IN
    IF s \in Svids /\ srvRedis[s]
    THEN Enqueue(s, i) /\ UNCHANGED discarded
    ELSE discarded' = discarded \cup {i} /\ UNCHANGED queueVars

(* __data_flow: push to the redis instance the order id selects.  Neither  *)
(* a missing instance nor a failed rpush is reported to the caller, and a  *)
(* broken redis connection is never opened again.                          *)
DataFlow(i) ==
    LET s == RedisId(Orders[i].id) IN
    IF s \in Svids /\ srvRedis[s]
    THEN Enqueue(s, i) /\ UNCHANGED discarded
    ELSE discarded' = discarded \cup {i} /\ UNCHANGED queueVars

(* cmd_data_handler: the flow of the order data, then the reply. *)
CmdData(c, m) ==
    /\ DataFlow(m.item)
    /\ down' = IF cli[c] = "open" THEN [down EXCEPT ![c] = @ \o Reply(m.eid)] ELSE down
    /\ up' = [up EXCEPT ![c] = Tail(@)]
    /\ UNCHANGED <<cli, srv>>

(* InputNotify with a packet HandleInput accepts. *)
InputPacket(c) ==
    /\ srv[c] = "open"
    /\ up[c] # <<>>
    /\ Orders[Head(up[c]).item].text # "huge"
    /\ CmdData(c, Head(up[c]))
    /\ UNCHANGED <<breaks, srvRedis>>

(* InputNotify with a packet of more than 8000 bytes: the stage becomes    *)
(* CONN_FATAL_ERROR and the listener deletes the connection's objects.     *)
InputOversized(c) ==
    /\ srv[c] = "open"
    /\ up[c] # <<>>
    /\ Orders[Head(up[c]).item].text = "huge"
    /\ ServerCloses(c)
    /\ UNCHANGED <<breaks, serverVars, queueVars>>

(* InputNotify when recv returns 0, or HangupNotify. *)
InputClosed(c) ==
    /\ srv[c] = "open"
    /\ up[c] = <<>>
    /\ cli[c] = "closed"
    /\ ServerCloses(c)
    /\ UNCHANGED <<breaks, serverVars, queueVars>>

(* TimerNotify: nothing came for _webtimeout seconds. *)
TimerNotify(c) ==
    /\ srv[c] = "open"
    /\ Break("idle")
    /\ ServerCloses(c)
    /\ UNCHANGED <<serverVars, queueVars>>

(* The server process ends and is started again, and every connection of a *)
(* client is gone.  InitHelperUnit connects to every redis instance, and   *)
(* takes a context that holds an error for a connection.                   *)
Restart ==
    /\ Break("serverRestart")
    /\ srv' = [c \in Conns |-> "closed"]
    /\ up' = [c \in Conns |-> <<>>]
    /\ srvRedis' \in [Svids -> IF "srvRedis" \in Faults THEN BOOLEAN ELSE {TRUE}]
    /\ UNCHANGED <<cli, down, discarded, queueVars>>

(* The connection to a redis instance breaks (external). *)
RedisBreaks(s) ==
    /\ srvRedis[s]
    /\ Break("srvRedis")
    /\ srvRedis' = [srvRedis EXCEPT ![s] = FALSE]
    /\ UNCHANGED <<cli, srv, up, down, discarded, queueVars>>

ServerHandles(c) == InputPacket(c) \/ InputOversized(c) \/ InputClosed(c)
=============================================================================
