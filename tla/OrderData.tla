----------------------------- MODULE OrderData -----------------------------
(***************************************************************************)
(* What travels through the system: order changes, the request packet that *)
(* carries one and the reply packet that answers it.                       *)
(*                                                                         *)
(* An order change is named by its place in the source queue; Orders says  *)
(* what its JSON text holds.  `text' is "bad" when the JSON reader rejects *)
(* it and "huge" when its packet exceeds the server's 8000 bytes; `stime'  *)
(* is 0 when the text has no such key; `month' is the month in which the   *)
(* order was created, which get_ord_date reads for an update.              *)
(***************************************************************************)
EXTENDS Naturals, Sequences

CONSTANTS Orders,      \* the order changes, in the order the source queues them
          ReplyUnits,  \* units in which TCP can deliver the bytes of one reply
          Faults       \* the kinds of fault this instance lets happen

FaultKinds == {"reset", "idle", "timeout", "fragment", "serverRestart",
               "crash", "srcRedis", "lookup", "srvRedis", "dbSync"}

INSERT == 0
UPDATE == 1

OrderRecord == [id : Nat, type : {INSERT, UPDATE}, text : {"ok", "bad", "huge"},
                stime : Nat, month : Nat \ {0}]

ASSUME OrderAssumption ==
    /\ Orders \in Seq(OrderRecord)
    /\ ReplyUnits \in Nat \ {0}
    /\ Faults \subseteq FaultKinds

Items == 1..Len(Orders)

(* Command 0x0002: the client's event id and the order data. *)
Packet == [eid : Nat, item : Items]

(* The reply repeats the event id; its bytes arrive as ReplyUnits units. *)
Reply(eid) == [k \in 1..ReplyUnits |-> <<eid, k>>]
=============================================================================
