----------------------------- MODULE OrderPipe -----------------------------
(***************************************************************************)
(* What the client and the server together promise of an order change the  *)
(* client holds: at-least-once transfer, one order change at a time, in    *)
(* the order of the source queue.  The client takes the next order change  *)
(* only when it is done with the one before, and is satisfied of one only  *)
(* after the server has served it.  Before that and after it the server    *)
(* may serve further copies of anything the client has taken.              *)
(***************************************************************************)
EXTENDS Naturals

CONSTANT N   \* the number of order changes

VARIABLES fate,    \* fate[i]: what became of i at the client
          served   \* the order changes the server has served

vars == <<fate, served>>

Items == 1..N
Unsettled == {"unseen", "held"}

Init ==
    /\ fate = [i \in Items |-> "unseen"]
    /\ served = {}

(* The client takes the next order change, or takes it and drops it. *)
Take(i, f) ==
    /\ f \in {"held", "rejected", "lost"}
    /\ fate[i] = "unseen"
    /\ \A j \in 1..(i - 1) : fate[j] \notin Unsettled
    /\ fate' = [fate EXCEPT ![i] = f]
    /\ UNCHANGED served

(* The server serves a copy of an order change the client has held. *)
Serve(i) ==
    /\ fate[i] \notin {"unseen", "rejected"}
    /\ served' = served \cup {i}
    /\ UNCHANGED fate

(* The client is done with the order change it holds. *)
Satisfied(i) ==
    /\ fate[i] = "held"
    /\ i \in served
    /\ fate' = [fate EXCEPT ![i] = "answered"]
    /\ UNCHANGED served

(* The client dies and forgets the order change it holds. *)
Forget(i) ==
    /\ fate[i] = "held"
    /\ fate' = [fate EXCEPT ![i] = "lost"]
    /\ UNCHANGED served

Next == \E i \in Items :
            \/ \E f \in {"held", "rejected", "lost"} : Take(i, f)
            \/ Serve(i) \/ Satisfied(i) \/ Forget(i)

Spec == Init /\ [][Next]_vars
=============================================================================
