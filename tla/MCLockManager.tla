---------------------------- MODULE MCLockManager ----------------------------
(* Model-checking instances of LockManager. *)
EXTENDS LockManager

\* Rows 1 and 2 share a shard, row 3 has one of its own.
MCShardOf == [r \in Rids |-> IF r = 3 THEN 1 ELSE 0]

\* Rows 1 and 3 are locked the executor's way, row 1 by everybody.  On row 2 there is a
\* reader, one that reads and upgrades, and a writer.
CONSTANTS t1, t2, t3
MCTxns == {t1, t2, t3}
MCModes ==
    [t \in Txns |-> [r \in Rids |->
        CASE r = 1 -> {"X"}
          [] r = 2 -> IF t = t1 THEN {"S"} ELSE IF t = t2 THEN {"S", "X"} ELSE {"X"}
          [] r = 3 -> IF t = t3 THEN {} ELSE {"X"}]]
=============================================================================
