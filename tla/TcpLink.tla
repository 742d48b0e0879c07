------------------------------ MODULE TcpLink ------------------------------
(***************************************************************************)
(* The TCP connections between one OrderSyncClient and the                 *)
(* OrderSyncServer: kernel state that both programs change through         *)
(* connect, accept, send, recv and close.  It is not code of the           *)
(* repository; it is modelled from how TcpClient.cc and client_unit.cpp    *)
(* use it.                                                                 *)
(*                                                                         *)
(* A connection outlives the client's use of it: after the client closes   *)
(* its end, bytes it has sent may still wait to be read by the server.     *)
(* `up' carries request packets, `down' carries the units in which the     *)
(* bytes of a reply may be delivered (ReplyUnits to a reply).              *)
(***************************************************************************)
EXTENDS OrderData

CONSTANTS Conns,       \* connection slots; a slot is reused once both ends closed it
          NoConn,      \* "the client's socket is not connected"
          MaxBreaks    \* bound: disruptions (resets, timeouts, restarts) in a behaviour

ASSUME LinkAssumption ==
    /\ NoConn \notin Conns
    /\ MaxBreaks \in Nat

VARIABLES cli,     \* cli[c]: the client's end is "open" or "closed"
          srv,     \* srv[c]: the server's end is "open" or "closed"
          up,      \* up[c]: packets sent by the client, not yet read by the server
          down,    \* down[c]: reply units sent by the server, not yet read by the client
          breaks   \* disruptions so far (bounded by MaxBreaks)

linkVars == <<cli, srv, up, down, breaks>>

EndStates == {"open", "closed"}

LinkTypeOK ==
    /\ cli \in [Conns -> EndStates]
    /\ srv \in [Conns -> EndStates]
    /\ up \in [Conns -> Seq(Packet)]
    /\ down \in [Conns -> Seq(Nat \X (1..ReplyUnits))]
    /\ breaks \in 0..MaxBreaks

LinkInit ==
    /\ cli = [c \in Conns |-> "closed"]
    /\ srv = [c \in Conns |-> "closed"]
    /\ up = [c \in Conns |-> <<>>]
    /\ down = [c \in Conns |-> <<>>]
    /\ breaks = 0

(* A slot neither side uses any more: the next connect() may take it. *)
Free(c) == cli[c] = "closed" /\ srv[c] = "closed"

(* What epoll and recv tell the client about its end of c. *)
HasReply(c) == down[c] # <<>>
PeerGone(c) == down[c] = <<>> /\ srv[c] = "closed"
Readable(c) == HasReply(c) \/ srv[c] = "closed"

(* What is left of a reply delivered in pieces may still be on its way. *)
Delayed(c) == HasReply(c) /\ "fragment" \in Faults

(* connect() succeeds: the server's kernel completes the handshake. *)
Connect(c) ==
    /\ Free(c)
    /\ cli' = [cli EXCEPT ![c] = "open"]
    /\ srv' = [srv EXCEPT ![c] = "open"]
    /\ up' = [up EXCEPT ![c] = <<>>]
    /\ down' = [down EXCEPT ![c] = <<>>]

(* The client closes its end.  What it has sent can still be read. *)
ClientCloses(c) ==
    /\ cli' = [cli EXCEPT ![c] = "closed"]
    /\ down' = [down EXCEPT ![c] = <<>>]
    /\ UNCHANGED <<srv, up>>

(* The server closes its end.  What it has sent can still be read. *)
ServerCloses(c) ==
    /\ srv' = [srv EXCEPT ![c] = "closed"]
    /\ up' = [up EXCEPT ![c] = <<>>]
    /\ UNCHANGED <<cli, down>>

(* One more disruption, of a kind that this instance lets happen. *)
Break(kind) ==
    /\ kind \in Faults
    /\ breaks < MaxBreaks
    /\ breaks' = breaks + 1

(* The network resets a connection: all that is in flight on it is lost. *)
NetReset(c) ==
    /\ srv[c] = "open"
    /\ Break("reset")
    /\ srv' = [srv EXCEPT ![c] = "closed"]
    /\ up' = [up EXCEPT ![c] = <<>>]
    /\ down' = [down EXCEPT ![c] = <<>>]
    /\ UNCHANGED cli
=============================================================================
