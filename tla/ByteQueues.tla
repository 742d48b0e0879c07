----------------------------- MODULE ByteQueues -----------------------------
(***************************************************************************)
(* What the raw caches promise their users: each is a queue of bytes.      *)
(* Bytes are put in at the end, several at a time, and taken out at the    *)
(* front; one cache does not disturb another.  When memory is short an     *)
(* append fails, and with it the server.                                   *)
(*                                                                         *)
(* Each byte carries the mark that follows that of the byte before it, so  *)
(* that a byte lost, repeated or out of its place is seen.                 *)
(***************************************************************************)
EXTENDS Integers, Sequences

CONSTANTS Caches,    \* the _r and _w of the connections
          MarkMod,   \* how many marks there are
          Chunks     \* bound: how many bytes are put in at a time

VARIABLES queue,   \* queue[c]: the bytes in cache c
          dead     \* an append has failed

ByteQueuesInit == queue = [c \in Caches |-> <<>>] /\ dead = FALSE

(* The next n bytes after those of q. *)
Stream(q, n) ==
    LET first == IF q = <<>> THEN 0 ELSE q[Len(q)] + 1
    IN  [k \in 1..n |-> (first + k - 1) % MarkMod]

Put(c, n) ==
    /\ queue' = [queue EXCEPT ![c] = @ \o Stream(@, n)]
    /\ UNCHANGED dead

Take(c, n) ==
    /\ queue' = [queue EXCEPT ![c] = SubSeq(@, n + 1, Len(@))]
    /\ UNCHANGED dead

Fail == dead' = TRUE /\ UNCHANGED queue

ByteQueuesNext ==
    /\ ~dead
    /\ \/ Fail
       \/ \E c \in Caches : \/ \E n \in Chunks : Put(c, n)
                            \/ \E n \in 1..Len(queue[c]) : Take(c, n)

ByteQueuesSpec == ByteQueuesInit /\ [][ByteQueuesNext]_<<queue, dead>>
=============================================================================
