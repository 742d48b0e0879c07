---------------------------- MODULE MCOrderSync ----------------------------
(***************************************************************************)
(* Small instances of OrderSync for TLC.                                   *)
(***************************************************************************)
EXTENDS OrderSync, TLC

InsertOf(order, m) == [id |-> order, type |-> INSERT, text |-> "ok", stime |-> m, month |-> m]
UpdateOf(order, m) == [id |-> order, type |-> UPDATE, text |-> "ok", stime |-> 0, month |-> m]

(* One order of month 1, created and changed twice. *)
OneOrder == <<InsertOf(1, 1), UpdateOf(1, 1), UpdateOf(1, 1)>>

(* Two orders, which different redis instances serve. *)
TwoOrders == <<InsertOf(1, 1), InsertOf(2, 1), UpdateOf(1, 1)>>

(* Text no reader accepts, and a packet the server does not accept. *)
OddOrders == <<InsertOf(1, 1), [UpdateOf(1, 1) EXCEPT !.text = "bad"],
               InsertOf(2, 1), [UpdateOf(2, 1) EXCEPT !.text = "huge"]>>

Symmetry == Permutations(Conns)
=============================================================================
