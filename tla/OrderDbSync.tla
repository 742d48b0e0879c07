---------------------------- MODULE OrderDbSync ----------------------------
(***************************************************************************)
(* OrderDbSync: one process for each redis instance pops ORDER_Q and runs  *)
(* the SQL on the target database, which keeps one table for each month.   *)
(* One call of sync_order is one action.  A call that finds redis down, or *)
(* the queue empty, changes nothing and is a stuttering step.              *)
(*                                                                         *)
(* The target database is external: a row is the last order change applied *)
(* to it, pid is its primary key.                                          *)
(***************************************************************************)
EXTENDS RedisQueue

CONSTANT Months   \* the months there are, numbered in time: the tables

ASSUME DbSyncAssumption ==
    /\ Months \subseteq Nat \ {0}
    /\ \A i \in Items : Orders[i].month \in Months /\ Orders[i].stime \in Months \cup {0}

VARIABLES rows,     \* rows[t][id]: the order change the row of id in table t shows, or 0
          month,    \* the current month: time(NULL)
          spoiled   \* history: order changes popped here and not applied

syncVars == <<rows, month, spoiled>>

Ids == {Orders[i].id : i \in Items}

SyncTypeOK ==
    /\ rows \in [Months -> [Ids -> Items \cup {0}]]
    /\ month \in Months
    /\ spoiled \subseteq Items

SyncInit ==
    /\ rows = [t \in Months |-> [id \in Ids |-> 0]]
    /\ month \in {m \in Months : \A n \in Months : m <= n}
    /\ spoiled = {}

(* Mutant: stime is read for both types. *)
MtimeIsStime(i) == Orders[i].stime

(* mtime: an insert carries stime, an update the time the client looked up. *)
Mtime(i) == IF Orders[i].type = INSERT THEN Orders[i].stime ELSE Orders[i].month

(* Mutant: always the current month. *)
TableNameOfNow(i) == month

(* sync_get_table_name: the month of mtime, or the current one without it. *)
TableName(i) == IF Mtime(i) = 0 THEN month ELSE Mtime(i)

(* ExecuteNonQuery: an insert of a row that is there fails on its primary  *)
(* key, an update of a row that is not there changes nothing.  Both are    *)
(* done with.                                                              *)
Execute(i) ==
    LET t == TableName(i)
        id == Orders[i].id
    IN rows' = IF (Orders[i].type = INSERT) = (rows[t][id] = 0)
               THEN [rows EXCEPT ![t][id] = i]
               ELSE rows

(* Mutant: the entry stays on the queue until its statement has an effect. *)
SyncOrderUntilApplied(s) ==
    /\ Dequeue(s)
    /\ Execute(First(s))
    /\ rows' # rows
    /\ UNCHANGED <<month, spoiled>>

(* sync_order with an entry to apply. *)
SyncOrder(s) ==
    /\ Dequeue(s)
    /\ Orders[First(s)].text # "bad"
    /\ Execute(First(s))
    /\ UNCHANGED <<month, spoiled>>

(* sync_order that pops an entry and does not apply it: the reply to lpop  *)
(* is lost, the text is no JSON, the process dies, or the statement fails  *)
(* because the database cannot be reached.  The entry is on no queue any   *)
(* more.                                                                   *)
SyncLoses(s) ==
    /\ "dbSync" \in Faults
    /\ Dequeue(s)
    /\ spoiled' = spoiled \cup {First(s)}
    /\ UNCHANGED <<rows, month>>

(* The calendar (external). *)
NextMonth ==
    /\ month + 1 \in Months
    /\ month' = month + 1
    /\ UNCHANGED <<rows, spoiled, queueVars>>
=============================================================================
