----------------------------- MODULE RedisQueue ----------------------------
(***************************************************************************)
(* The lists ORDER_Q that the server pushes to and OrderDbSync pops from,  *)
(* one in each redis instance (external).  A list is kept with its         *)
(* history: orderQ[s] only grows, and its first taken[s] entries are gone. *)
(***************************************************************************)
EXTENDS OrderData, FiniteSets

CONSTANT Svids   \* the svid of each <Redis> of server.xml

ASSUME RedisAssumption ==
    /\ Svids \subseteq Nat
    /\ IsFiniteSet(Svids)
    /\ Svids # {}

VARIABLES orderQ,   \* orderQ[s]: what was ever pushed to ORDER_Q of instance s
          taken     \* taken[s]: how much of it has been popped

queueVars == <<orderQ, taken>>

QueueTypeOK ==
    /\ orderQ \in [Svids -> Seq(Items)]
    /\ taken \in [Svids -> Nat]
    /\ \A s \in Svids : taken[s] <= Len(orderQ[s])

QueueInit ==
    /\ orderQ = [s \in Svids |-> <<>>]
    /\ taken = [s \in Svids |-> 0]

(* rpush ORDER_Q *)
Enqueue(s, i) ==
    /\ orderQ' = [orderQ EXCEPT ![s] = Append(@, i)]
    /\ UNCHANGED taken

(* lpop ORDER_Q, of a list that is not empty *)
Dequeue(s) ==
    /\ taken[s] < Len(orderQ[s])
    /\ taken' = [taken EXCEPT ![s] = @ + 1]
    /\ UNCHANGED orderQ

(* What the next lpop of instance s returns. *)
First(s) == orderQ[s][taken[s] + 1]

(* The order change is in some ORDER_Q, or was there. *)
Queued(i) == \E s \in Svids : \E k \in 1..Len(orderQ[s]) : orderQ[s][k] = i
=============================================================================
