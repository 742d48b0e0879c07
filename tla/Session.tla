------------------------------ MODULE Session -------------------------------
(***************************************************************************)
(* What the server promises to one connection, whole packets at a time:    *)
(* requests are handled in the order they were written, each once, the     *)
(* reply to each follows that to the one before, and replies are read in   *)
(* that order, until the connection is closed.  OrderSyncServer takes this *)
(* for granted; ClientUnit implements it with bytes, caches and events.    *)
(***************************************************************************)
EXTENDS Naturals, Sequences

CONSTANT ReplySize      \* units of a reply

VARIABLES sent,         \* requests the client has written
          handled,      \* requests the server has handled
          replies,      \* the units of replies not yet read
          reading,      \* the client has not closed the connection
          open          \* the server has not closed it

sessionVars == <<sent, handled, replies, reading, open>>

Reply(n) == [part \in 1..ReplySize |-> [req |-> n, part |-> part]]

SessionInit ==
    /\ sent = 0
    /\ handled = 0
    /\ replies = <<>>
    /\ reading = TRUE
    /\ open = TRUE

Write ==
    /\ sent' = sent + 1
    /\ UNCHANGED <<handled, replies, reading, open>>

Handle ==
    /\ open
    /\ handled < sent
    /\ handled' = handled + 1
    /\ replies' = IF reading THEN replies \o Reply(handled + 1) ELSE <<>>
    /\ UNCHANGED <<sent, reading, open>>

Read ==
    /\ replies # <<>>
    /\ replies' = Tail(replies)
    /\ UNCHANGED <<sent, handled, reading, open>>

(* The server closes the connection, and replies are lost from the end,   *)
(* then or later.                                                          *)
Close ==
    /\ open' = FALSE
    /\ \E n \in 0..Len(replies) : replies' = SubSeq(replies, 1, n)
    /\ UNCHANGED <<sent, handled, reading>>

(* The client closes it: nothing more is read. *)
Leave ==
    /\ reading' = FALSE
    /\ replies' = <<>>
    /\ UNCHANGED <<sent, handled, open>>

SessionNext == Write \/ Handle \/ Read \/ Close \/ Leave

SessionSpec == SessionInit /\ [][SessionNext]_sessionVars
=============================================================================
