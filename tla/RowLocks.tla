------------------------------- MODULE RowLocks -------------------------------
(***************************************************************************)
(* PostgreSQL row locks, shared by the models of the code's transactions.  *)
(* Mode "X" stands for FOR UPDATE and for the lock of an UPDATE or of an   *)
(* inserted unique key, "S" for the KEY SHARE lock that a foreign key      *)
(* takes on the row it names.  A lock is kept until the transaction ends.  *)
(* PostgreSQL lets a plain UPDATE pass a KEY SHARE lock; here it waits:    *)
(* since a transaction reads nothing between its inserts with a foreign    *)
(* key and its own lock of that row, the update might as well come first.  *)
(***************************************************************************)
CONSTANT Txn     \* database sessions, one transaction each at a time

VARIABLE locks   \* the row locks of the transactions in flight

Mode == {"X", "S"}

LocksOn(Row) == [row : Row, tx : Txn, mode : Mode]

CanLock(t, row, mode) ==
  \A l \in locks : l.row = row /\ l.tx # t => l.mode = "S" /\ mode = "S"

WithLock(t, row, mode) == locks \cup {[row |-> row, tx |-> t, mode |-> mode]}

WithoutLocks(t) == {l \in locks : l.tx # t}

Holds(t, row, mode) == [row |-> row, tx |-> t, mode |-> mode] \in locks

\* Two sessions never hold conflicting locks on a row.
MutexOK == \A l, k \in locks : l.row = k.row /\ l.tx # k.tx
                                 => l.mode = "S" /\ k.mode = "S"
===============================================================================
