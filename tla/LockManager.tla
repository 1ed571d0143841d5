----------------------------- MODULE LockManager -----------------------------
(***************************************************************************)
(* The row lock manager, lock_manager.rs, driven by transactions that lock *)
(* rows one after the other and release everything at their end.           *)
(*                                                                         *)
(* lock() runs under the mutex of the row's shard up to its return or to   *)
(* the wait on the condition variable, so it is one step.  unlock_all()    *)
(* takes the shards one by one; what it does in one shard is a critical    *)
(* section of several steps here (one per row and one per iteration of     *)
(* grant_waiting), which no other thread can enter, and the notification   *)
(* comes after the mutex is dropped.  wait_timeout_while tests its         *)
(* condition before it reports a timeout, so a call times out only if the  *)
(* lock has not been granted by then.                                      *)
(***************************************************************************)
EXTENDS Naturals, Sequences, FiniteSets

CONSTANTS
    Txns,       \* transactions; ids are never reused
    Rids,       \* rows
    Modes,      \* txn -> row -> lock modes it may ask for: {"X"} is the executor's
                \* use, and the interface offers {"S", "X"}
    Shards,     \* indices of the lock table's shards
    ShardOf,    \* row -> shard
    Nobody,     \* no owner of a mutex
    MaxQueue    \* bound on a row's queue: a shared holder that asks for an
                \* upgrade again and again queues a request each time

ASSUME ModesAssumption == Modes \in [Txns -> [Rids -> SUBSET {"S", "X"}]]

ASSUME LockAssumption ==
    /\ Shards \subseteq Nat
    /\ ShardOf \in [Rids -> Shards]
    /\ Nobody \notin Txns
    /\ MaxQueue \in Nat

Held == {"none", "S", "X"}

VARIABLES
    entries,    \* rows with an entry in their shard's table
    holders,    \* row -> txn -> mode held ("none": not in the map)
    queue,      \* row -> sequence of waiting requests
    mutex,      \* shard -> thread inside unlock_all's critical section
    pc,         \* txn -> where its thread is
    want,       \* txn -> the request its lock() call is about
    locks,      \* txn -> Transaction.held_locks
    todo,       \* txn -> rows unlock_all has still to release
    shard,      \* txn -> shard unlock_all is in (a set of at most one)
    row,        \* txn -> row unlock_all is at (a set of at most one)
    idx,        \* txn -> i of grant_waiting
    last        \* txn -> last request whose lock() returned Ok (history)

vars == <<entries, holders, queue, mutex, pc, want, locks, todo, shard, row, idx, last>>
unlockVars == <<todo, shard, row, idx>>

Request == [txn : Txns, mode : {"S", "X"}]
Asked   == [rid : Rids, mode : {"S", "X"}]

PCs == {"run",      \* executing statements
        "asleep",   \* in lock(), waiting on the shard's condition variable
        "awake",    \* notified, about to test the wait condition
        "unlock",   \* in unlock_all, outside any shard
        "shard",    \* in unlock_all, holding the mutex, between two rows
        "grant",    \* in grant_waiting
        "notify",   \* mutex dropped, before notify_all
        "done"}

HolderSet(r) == {t \in Txns : holders[r][t] # "none"}
Free(r) == mutex[ShardOf[r]] = Nobody

Init ==
    /\ entries = {}
    /\ holders = [r \in Rids |-> [t \in Txns |-> "none"]]
    /\ queue = [r \in Rids |-> <<>>]
    /\ mutex = [s \in Shards |-> Nobody]
    /\ pc = [t \in Txns |-> "run"]
    /\ want = [t \in Txns |-> {}]
    /\ locks = [t \in Txns |-> {}]
    /\ todo = [t \in Txns |-> {}]
    /\ shard = [t \in Txns |-> {}]
    /\ row = [t \in Txns |-> {}]
    /\ idx = [t \in Txns |-> 1]
    /\ last = [t \in Txns |-> {}]

-----------------------------------------------------------------------------
(* lock() *)

\* LockState::can_grant
Bad_CanGrant(t, r, m) ==        \* forgets the FIFO rule
    IF holders[r][t] # "none"
    THEN holders[r][t] = "X" \/ m = "S" \/ HolderSet(r) = {t}
    ELSE IF m = "S" THEN \A u \in Txns : holders[r][u] # "X" ELSE HolderSet(r) = {}
Bad_UpgradeCompatible(t, r, m) ==   \* forgets to look at the other holders on upgrade
    IF holders[r][t] # "none" THEN TRUE
    ELSE /\ queue[r] = <<>>
         /\ IF m = "S" THEN \A u \in Txns : holders[r][u] # "X" ELSE HolderSet(r) = {}
CanGrant(t, r, m) ==
    IF holders[r][t] # "none"
    THEN holders[r][t] = "X" \/ m = "S" \/ HolderSet(r) = {t}
    ELSE /\ queue[r] = <<>>
         /\ IF m = "S" THEN \A u \in Txns : holders[r][u] # "X" ELSE HolderSet(r) = {}

\* lock() returned Ok: the executor adds the row to the transaction's held set.
ReturnOk(t, r, m) ==
    /\ locks' = [locks EXCEPT ![t] = @ \cup {r}]
    /\ last' = [last EXCEPT ![t] = {[rid |-> r, mode |-> m]}]
    /\ pc' = [pc EXCEPT ![t] = "run"]
    /\ want' = [want EXCEPT ![t] = {}]

\* The branch that grants at once: holders.insert overwrites the mode held.
LockNow(t, r, m) ==
    /\ pc[t] = "run"
    /\ Free(r)
    /\ CanGrant(t, r, m)
    /\ entries' = entries \cup {r}
    /\ holders' = [holders EXCEPT ![r][t] = m]
    /\ ReturnOk(t, r, m)
    /\ UNCHANGED <<queue, mutex, unlockVars>>

\* The wait loop ends as soon as the thread is a holder, in any mode.
Bad_WaitOver(t, r) == TRUE      \* trusts the wakeup
WaitOver(t, r) == holders[r][t] # "none"

\* The branch that queues.  The wait condition is "not a holder yet": a thread
\* that already holds the row in a weaker mode does not sleep at all.
LockQueue(t, r, m) ==
    /\ pc[t] = "run"
    /\ Free(r)
    /\ ~CanGrant(t, r, m)
    /\ Len(queue[r]) < MaxQueue
    /\ entries' = entries \cup {r}
    /\ queue' = [queue EXCEPT ![r] = Append(@, [txn |-> t, mode |-> m])]
    /\ \/ WaitOver(t, r) /\ ReturnOk(t, r, m)
       \/ /\ ~WaitOver(t, r)
          /\ pc' = [pc EXCEPT ![t] = "asleep"]
          /\ want' = [want EXCEPT ![t] = {[rid |-> r, mode |-> m]}]
          /\ UNCHANGED <<locks, last>>
    /\ UNCHANGED <<holders, mutex, unlockVars>>

\* After a notification: return if granted, sleep again if not.
Awake(t, q) ==
    /\ pc[t] = "awake"
    /\ want[t] = {q}
    /\ Free(q.rid)
    /\ \/ WaitOver(t, q.rid) /\ ReturnOk(t, q.rid, q.mode)
       \/ /\ ~WaitOver(t, q.rid)
          /\ pc' = [pc EXCEPT ![t] = "asleep"]
          /\ UNCHANGED <<want, locks, last>>
    /\ UNCHANGED <<entries, holders, queue, mutex, unlockVars>>

RemoveIdx(s, i) == SubSeq(s, 1, i - 1) \o SubSeq(s, i + 1, Len(s))

\* wait_queue.retain(|r| r.txn_id != txn_id).  A transaction that times out is not
\* a holder, so it has one request in the row's queue: the one it waits for.
Bad_Without(s, t) == s       \* a phantom grant later
Without(s, t) ==
    LET mine == {i \in DOMAIN s : s[i].txn = t}
    IN  IF mine = {} THEN s ELSE RemoveIdx(s, CHOOSE i \in mine : TRUE)

Bad_AfterTimeout == "asleep" \* retries instead of reporting the timeout
AfterTimeout == "run"

\* The timeout elapsed.  Granted meanwhile: Ok.  Otherwise the request leaves
\* the queue, the call fails and the transaction goes on or rolls back.
Timeout(t, q) ==
    /\ pc[t] \in {"asleep", "awake"}
    /\ want[t] = {q}
    /\ Free(q.rid)
    /\ \/ /\ holders[q.rid][t] # "none"
          /\ ReturnOk(t, q.rid, q.mode)
          /\ UNCHANGED queue
       \/ /\ ~WaitOver(t, q.rid)
          /\ queue' = [queue EXCEPT ![q.rid] = Without(queue[q.rid], t)]
          /\ pc' = [pc EXCEPT ![t] = AfterTimeout]
          /\ want' = [want EXCEPT ![t] = {}]
          /\ UNCHANGED <<locks, last>>
    /\ UNCHANGED <<entries, holders, mutex, unlockVars>>

-----------------------------------------------------------------------------
(* unlock_all(), at COMMIT, ROLLBACK and the end of an auto-commit statement *)

UnlockAll(t) ==
    /\ pc[t] = "run"
    /\ todo' = [todo EXCEPT ![t] = locks[t]]
    /\ locks' = [locks EXCEPT ![t] = {}]
    /\ last' = [last EXCEPT ![t] = {}]
    /\ pc' = [pc EXCEPT ![t] = "unlock"]
    /\ UNCHANGED <<entries, holders, queue, mutex, want, shard, row, idx>>

\* Shards are visited in the order of their indices.
EnterShard(t, s) ==
    /\ pc[t] = "unlock"
    /\ \E r \in todo[t] : ShardOf[r] = s
    /\ \A r \in todo[t] : ShardOf[r] >= s
    /\ mutex[s] = Nobody
    /\ mutex' = [mutex EXCEPT ![s] = t]
    /\ shard' = [shard EXCEPT ![t] = {s}]
    /\ pc' = [pc EXCEPT ![t] = "shard"]
    /\ UNCHANGED <<entries, holders, queue, want, locks, todo, row, idx, last>>

\* The next row of this shard: drop our hold, then grant_waiting.  The row has
\* an entry, since we hold it; a thread that found none would be stuck here.
ReleaseRow(t, r) ==
    /\ pc[t] = "shard"
    /\ r \in todo[t]
    /\ shard[t] = {ShardOf[r]}
    /\ r \in entries
    /\ todo' = [todo EXCEPT ![t] = @ \ {r}]
    /\ holders' = [holders EXCEPT ![r][t] = "none"]
    /\ pc' = [pc EXCEPT ![t] = "grant"]
    /\ row' = [row EXCEPT ![t] = {r}]
    /\ idx' = [idx EXCEPT ![t] = 1]
    /\ UNCHANGED <<entries, queue, mutex, want, locks, shard, last>>

\* Can the queued request q be granted, given the holders of row r?
Bad_Grantable(r, q) ==         \* forgets the row that nobody holds any more
    \/ q.mode = "S" /\ \A u \in Txns : holders[r][u] # "X"
    \/ q.mode = "X" /\ HolderSet(r) = {q.txn}
Grantable(r, q) ==
    \/ HolderSet(r) = {}
    \/ q.mode = "S" /\ \A u \in Txns : holders[r][u] # "X"
    \/ q.mode = "X" /\ HolderSet(r) = {q.txn}

\* Index of the request to look at after the one at index i was removed.
AfterRemoval(i) == i

GrantNext(t, r) ==
    LET q == queue[r][idx[t]]
    IN  /\ idx[t] <= Len(queue[r])
        /\ \/ /\ Grantable(r, q)
              /\ holders' = [holders EXCEPT ![r][q.txn] = q.mode]
              /\ queue' = [queue EXCEPT ![r] = RemoveIdx(queue[r], idx[t])]
              /\ idx' = [idx EXCEPT ![t] = AfterRemoval(idx[t])]
           \/ /\ ~Grantable(r, q)
              /\ q.mode = "S"
              /\ idx' = [idx EXCEPT ![t] = @ + 1]
              /\ UNCHANGED <<holders, queue>>

GrantStep(t, r) ==
    /\ pc[t] = "grant"
    /\ row[t] = {r}
    /\ GrantNext(t, r)
    /\ UNCHANGED <<entries, mutex, pc, want, locks, todo, shard, row, last>>

Unused(r) == HolderSet(r) = {} /\ queue[r] = <<>>

\* End of the walk, or its break at an exclusive request that must wait; then
\* an entry nobody holds or waits for is removed from the table.
GrantEnd(t, r) ==
    /\ pc[t] = "grant"
    /\ row[t] = {r}
    /\ idx[t] <= Len(queue[r]) =>
          ~Grantable(r, queue[r][idx[t]]) /\ queue[r][idx[t]].mode = "X"
    /\ IF Unused(r)
       THEN /\ entries' = entries \ {r}
            /\ holders' = [holders EXCEPT ![r] = [u \in Txns |-> "none"]]
            /\ queue' = [queue EXCEPT ![r] = <<>>]
       ELSE UNCHANGED <<entries, holders, queue>>
    /\ row' = [row EXCEPT ![t] = {}]
    /\ pc' = [pc EXCEPT ![t] = "shard"]
    /\ UNCHANGED <<mutex, want, locks, todo, shard, idx, last>>

LeaveShard(t, s) ==
    /\ pc[t] = "shard"
    /\ shard[t] = {s}
    /\ \A r \in todo[t] : ShardOf[r] # s
    /\ mutex' = [mutex EXCEPT ![s] = Nobody]
    /\ pc' = [pc EXCEPT ![t] = "notify"]
    /\ UNCHANGED <<entries, holders, queue, want, locks, unlockVars, last>>

\* notify_all on the shard's condition variable.
NotifyAll(t, s) ==
    /\ pc[t] = "notify"
    /\ shard[t] = {s}
    /\ pc' = [u \in Txns |->
                IF u = t THEN "unlock"
                ELSE IF pc[u] = "asleep" /\ \E q \in want[u] : ShardOf[q.rid] = s
                THEN "awake"
                ELSE pc[u]]
    /\ shard' = [shard EXCEPT ![t] = {}]
    /\ UNCHANGED <<entries, holders, queue, mutex, want, locks, todo, row, idx, last>>

\* All shards visited; the transaction is over.
UnlockReturn(t) ==
    /\ pc[t] = "unlock"
    /\ todo[t] = {}
    /\ pc' = [pc EXCEPT ![t] = "done"]
    /\ UNCHANGED <<entries, holders, queue, mutex, want, locks, unlockVars, last>>

AllDone == (\A t \in Txns : pc[t] = "done") /\ UNCHANGED vars

-----------------------------------------------------------------------------
Unlocking(t) ==
    \/ \E s \in Shards : EnterShard(t, s) \/ LeaveShard(t, s) \/ NotifyAll(t, s)
    \/ \E r \in Rids : ReleaseRow(t, r) \/ GrantStep(t, r) \/ GrantEnd(t, r)
    \/ UnlockReturn(t)

Waiting(t) == \E q \in want[t] : Awake(t, q) \/ Timeout(t, q)

Locking(t) == \E r \in Rids : \E m \in Modes[t][r] : LockNow(t, r, m) \/ LockQueue(t, r, m)

Next ==
    \/ \E t \in Txns : Locking(t) \/ Waiting(t) \/ UnlockAll(t) \/ Unlocking(t)
    \/ AllDone

Spec == Init /\ [][Next]_vars
\* Threads run, and a condition variable's timeout elapses; when a transaction
\* ends is the client's business.
Fairness == \A t \in Txns : WF_vars(Waiting(t)) /\ WF_vars(Unlocking(t))

FairSpec == Spec /\ Fairness

-----------------------------------------------------------------------------
(* Properties *)

TypeOK ==
    /\ entries \in SUBSET Rids
    /\ holders \in [Rids -> [Txns -> Held]]
    /\ queue \in [Rids -> Seq(Request)]
    /\ mutex \in [Shards -> Txns \cup {Nobody}]
    /\ pc \in [Txns -> PCs]
    /\ want \in [Txns -> SUBSET Asked]
    /\ locks \in [Txns -> SUBSET Rids]
    /\ todo \in [Txns -> SUBSET Rids]
    /\ shard \in [Txns -> SUBSET Shards]
    /\ row \in [Txns -> SUBSET Rids]
    /\ idx \in [Txns -> Nat \ {0}]
    /\ last \in [Txns -> SUBSET Asked]

\* An exclusive lock excludes every other holder, through grants at once, from
\* the queue, re-acquisition and upgrade.
Compatible ==
    \A r \in Rids : \A t, u \in Txns :
        t # u /\ holders[r][t] = "X" => holders[r][u] = "none"

\* Rows the executor's way: nobody asks for a shared lock on them.
ExclusiveRows == {r \in Rids : \A t \in Txns : "S" \notin Modes[t][r]}

\* On rows that are locked exclusively, lock() returns Ok only to a transaction
\* that holds the lock.  ("Acquire `mode` on `rid` for `txn_id`. Blocks until
\* granted or until the configured timeout elapses.")
OkMeansGranted ==
    \A t \in Txns : \A q \in last[t] :
        q.rid \in ExclusiveRows => holders[q.rid][t] = "X"

\* Once unlock_all has returned, the transaction holds no such row and none can
\* still be granted to it: no lock outlives its transaction, also when calls
\* timed out ("so we don't get a phantom grant").
NothingOutlives ==
    \A t \in Txns : pc[t] = "done" =>
        \A r \in ExclusiveRows :
            holders[r][t] = "none" /\ \A i \in DOMAIN queue[r] : queue[r][i].txn # t

\* Outside critical sections, a row that is waited for is held by somebody and has its
\* entry in the table: no release or timeout leaves waiters behind on a free row, nor
\* removes what their wait condition looks up ("rid entry was removed while we slept").
NobodyStranded ==
    /\ \A r \in Rids : Free(r) /\ queue[r] # <<>> => HolderSet(r) # {}
    /\ \A t \in Txns : pc[t] \in {"asleep", "awake"} => \A q \in want[t] : q.rid \in entries

\* A shared lock never overtakes an exclusive request queued before it
\* ("Prevent reader-starvation of this waiting writer").
WriterNotOvertaken ==
    [][\A r \in Rids, t \in Txns :
         holders[r][t] = "none" /\ holders'[r][t] = "S" =>
            \A i \in DOMAIN queue[r] :
                (\A j \in 1 .. i : queue[r][j].txn # t) => queue[r][i].mode # "X"]_vars

\* Every lock() call returns, granted or timed out, deadlocks included.
CallReturns ==
    \A t \in Txns : pc[t] \in {"asleep", "awake"} ~> pc[t] = "run"
=============================================================================
