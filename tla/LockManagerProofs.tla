-------------------------- MODULE LockManagerProofs --------------------------
(***************************************************************************)
(* Proofs about LockManager, for every set of transactions, rows, modes    *)
(* and shards.  Compatible is inductive together with TypeOK.  That no     *)
(* shared lock overtakes a queued exclusive one also needs that a thread   *)
(* inside unlock_all's critical section owns its shard's mutex (Critical)  *)
(* and that grant_waiting has only walked past shared requests (Prefix).   *)
(*                                                                         *)
(* What lock() and unlock_all() promise their callers needs more: what     *)
(* each phase of a thread leaves in its variables (Phases); on the rows    *)
(* locked the executor's way, that only waiting threads are queued, once   *)
(* each (ExclusiveQueue), and that the holders are the transactions that   *)
(* know it or are about to (ExclusiveHeld); that a queue without a holder  *)
(* is being walked (Walked); and that a waiting request is in the queue or *)
(* granted (Listed).                                                       *)
(***************************************************************************)
EXTENDS LockManager, SequenceTheorems, TLAPS

Critical ==
    /\ \A t \in Txns : pc[t] \in {"shard", "grant"} => \A s \in shard[t] : mutex[s] = t
    /\ \A t \in Txns : pc[t] = "grant" => \A r \in row[t] : ShardOf[r] \in shard[t]

Prefix ==
    \A t \in Txns : pc[t] = "grant" =>
        \A r \in row[t] : \A j \in 1 .. (idx[t] - 1) :
            j \in DOMAIN queue[r] /\ queue[r][j].mode = "S"

IInv == TypeOK /\ Compatible /\ Critical /\ Prefix

\* Where a thread is while its lock() call waits.
Sleep == {"asleep", "awake"}

\* What a thread's variables say of the phase it is in.
Phases ==
    \A t \in Txns :
        /\ pc[t] \notin Sleep => want[t] = {}
        /\ pc[t] = "run" \/ pc[t] \in Sleep => todo[t] = {}
        /\ ~(pc[t] = "run" \/ pc[t] \in Sleep) => locks[t] = {} /\ last[t] = {}
        /\ pc[t] = "done" => todo[t] = {}
        /\ \A q \in last[t] : q.rid \in locks[t]

\* On a row locked the executor's way every lock and every request is exclusive, a queued
\* request is the one its thread waits for, and a thread queues once.
QueueSound(r) ==
    /\ \A t \in Txns : holders[r][t] \in {"none", "X"}
    /\ \A i \in DOMAIN queue[r] :
          /\ queue[r][i].mode = "X" /\ holders[r][queue[r][i].txn] = "none"
          /\ pc[queue[r][i].txn] \in Sleep /\ want[queue[r][i].txn] = {[rid |-> r, mode |-> "X"]}
    /\ \A i, j \in DOMAIN queue[r] : queue[r][i].txn = queue[r][j].txn => i = j

ExclusiveQueue == \A r \in ExclusiveRows : QueueSound(r)

\* Such a row is held by the transactions that have it in their set, are releasing it, or wait
\* for it and have not noticed.
HeldSound(r, t) ==
    /\ r \in locks[t] \cup todo[t] => holders[r][t] = "X"
    /\ holders[r][t] # "none" => r \in locks[t] \/ r \in todo[t]
                              \/ (pc[t] \in Sleep /\ \E q \in want[t] : q.rid = r)

ExclusiveHeld == \A r \in ExclusiveRows : \A t \in Txns : HeldSound(r, t)

\* A queue without a holder is being walked, and the walk skips nobody on a row without a holder.
Walked ==
    /\ \A r \in Rids : queue[r] # <<>> /\ HolderSet(r) = {} =>
          \E t \in Txns : pc[t] = "grant" /\ r \in row[t]
    /\ \A t \in Txns : pc[t] = "grant" => \A r \in row[t] : idx[t] > 1 => HolderSet(r) # {}

\* A waiting thread's request is in the queue or granted, in an entry of the table.
Listed ==
    \A t \in Txns : pc[t] \in Sleep => \A q \in want[t] :
        /\ q.rid \in entries
        /\ holders[q.rid][t] # "none" \/ \E i \in DOMAIN queue[q.rid] : queue[q.rid][i].txn = t

StrongInv == IInv /\ Phases /\ ExclusiveQueue /\ ExclusiveHeld /\ Walked /\ Listed

-----------------------------------------------------------------------------
\* What grant_waiting's wait_queue.remove(i) leaves: the requests before i in
\* their places, and requests only.
LEMMA RemoveIdxFacts ==
    ASSUME NEW s \in Seq(Request), NEW i \in 1 .. Len(s)
    PROVE  /\ RemoveIdx(s, i) \in Seq(Request)
           /\ Len(RemoveIdx(s, i)) = Len(s) - 1
           /\ \A j \in 1 .. (i - 1) : RemoveIdx(s, i)[j] = s[j]
<1> DEFINE a == SubSeq(s, 1, i - 1)
           b == SubSeq(s, i + 1, Len(s))
<1>1. /\ a \in Seq(Request)
      /\ Len(a) = i - 1
      /\ \A j \in 1 .. (i - 1) : a[j] = s[j]
  BY SubSeqProperties
<1>2. b \in Seq(Request) /\ Len(b) = Len(s) - i
  BY SubSeqProperties
<1> HIDE DEF a, b
<1>3. /\ a \o b \in Seq(Request)
      /\ Len(a \o b) = Len(s) - 1
      /\ \A j \in 1 .. (i - 1) : (a \o b)[j] = a[j]
  BY <1>1, <1>2
<1> QED  BY <1>1, <1>3 DEF RemoveIdx, a, b

\* Leaving the queue after a timeout keeps a sequence of requests.
LEMMA WithoutType ==
    ASSUME NEW s \in Seq(Request), NEW t
    PROVE  Without(s, t) \in Seq(Request)
<1> DEFINE mine == {i \in DOMAIN s : s[i].txn = t}
           i == CHOOSE i \in mine : TRUE
<1>1. CASE mine = {}
  BY <1>1 DEF Without
<1>2. CASE mine # {}
  <2>1. i \in 1 .. Len(s)
    BY <1>2
  <2>2. RemoveIdx(s, i) \in Seq(Request)
    BY <2>1, RemoveIdxFacts
  <2> QED  BY <1>2, <2>2 DEF Without
<1> QED  BY <1>1, <1>2

-----------------------------------------------------------------------------
(* Steps *)

\* A thread that takes a lock asks for one of the two modes.
LEMMA LockingModes ==
    ASSUME NEW t \in Txns, Locking(t)
    PROVE  \E r \in Rids, m \in {"S", "X"} : LockNow(t, r, m) \/ LockQueue(t, r, m)
  BY ModesAssumption DEF Locking

\* Every step keeps every variable in its range.
LEMMA TypeOKKept == IInv /\ [Next]_vars => TypeOK'
<1> USE LockAssumption
<1> SUFFICES ASSUME IInv, [Next]_vars PROVE TypeOK'
  OBVIOUS
<1> USE DEF IInv
<1>1. ASSUME NEW t \in Txns, NEW r \in Rids, NEW m \in {"S", "X"}, LockNow(t, r, m) PROVE TypeOK'
  BY <1>1 DEF LockNow, TypeOK, Request, Asked, Held, PCs, ReturnOk, unlockVars
<1>2. ASSUME NEW t \in Txns, NEW r \in Rids, NEW m \in {"S", "X"}, LockQueue(t, r, m) PROVE TypeOK'
  <2>1. [txn |-> t, mode |-> m] \in Request /\ [rid |-> r, mode |-> m] \in Asked
    BY DEF Request, Asked
  <2>2. queue' \in [Rids -> Seq(Request)] /\ entries' \in SUBSET Rids
    BY <1>2, <2>1 DEF LockQueue, TypeOK
  <2>3. CASE ReturnOk(t, r, m)
    BY <1>2, <2>1, <2>2, <2>3 DEF LockQueue, ReturnOk, unlockVars, TypeOK, PCs
  <2>4. CASE /\ pc' = [pc EXCEPT ![t] = "asleep"]
             /\ want' = [want EXCEPT ![t] = {[rid |-> r, mode |-> m]}]
             /\ UNCHANGED <<locks, last>>
    BY <1>2, <2>1, <2>2, <2>4 DEF LockQueue, unlockVars, TypeOK, PCs
  <2> QED
    BY <1>2, <2>3, <2>4 DEF LockQueue
<1>3. ASSUME NEW t \in Txns, NEW q \in want[t], Awake(t, q) PROVE TypeOK'
  <2>1. q \in Asked /\ q.rid \in Rids /\ q = [rid |-> q.rid, mode |-> q.mode]
    BY DEF TypeOK, Asked
  <2>2. CASE ReturnOk(t, q.rid, q.mode)
    BY <1>3, <2>1, <2>2 DEF Awake, ReturnOk, unlockVars, TypeOK, PCs
  <2>3. CASE pc' = [pc EXCEPT ![t] = "asleep"] /\ UNCHANGED <<want, locks, last>>
    BY <1>3, <2>3 DEF Awake, unlockVars, TypeOK, PCs
  <2> QED
    BY <1>3, <2>2, <2>3 DEF Awake
<1>4. ASSUME NEW t \in Txns, NEW q \in want[t], Timeout(t, q) PROVE TypeOK'
  <2>1. q \in Asked /\ q.rid \in Rids /\ q = [rid |-> q.rid, mode |-> q.mode]
    BY DEF TypeOK, Asked
  <2>2. CASE ReturnOk(t, q.rid, q.mode) /\ UNCHANGED queue
    BY <1>4, <2>1, <2>2 DEF Timeout, ReturnOk, unlockVars, TypeOK, PCs
  <2>3. CASE /\ queue' = [queue EXCEPT ![q.rid] = Without(queue[q.rid], t)]
             /\ pc' = [pc EXCEPT ![t] = "run"]
             /\ want' = [want EXCEPT ![t] = {}]
             /\ UNCHANGED <<locks, last>>
    <3>1. Without(queue[q.rid], t) \in Seq(Request)
      BY <2>1, WithoutType DEF TypeOK
    <3>2. queue' \in [Rids -> Seq(Request)]
      BY <2>1, <2>3, <3>1 DEF TypeOK
    <3> QED
      BY <1>4, <2>3, <3>2 DEF Timeout, unlockVars, TypeOK, PCs
  <2> QED
    BY <1>4, <2>2, <2>3 DEF Timeout, AfterTimeout
<1>5. ASSUME NEW t \in Txns, UnlockAll(t) PROVE TypeOK'
  BY <1>5 DEF UnlockAll, TypeOK, Request, Asked, Held, PCs
<1>6. ASSUME NEW t \in Txns, NEW s \in Shards, EnterShard(t, s) PROVE TypeOK'
  BY <1>6 DEF EnterShard, TypeOK, Request, Asked, Held, PCs
<1>7. ASSUME NEW t \in Txns, NEW r \in Rids, ReleaseRow(t, r) PROVE TypeOK'
  BY <1>7 DEF ReleaseRow, TypeOK, Request, Asked, Held, PCs
<1>8. ASSUME NEW t \in Txns, NEW r \in Rids, GrantStep(t, r) PROVE TypeOK'
  <2>1. PICK i \in 1 .. Len(queue[r]) : i = idx[t] /\ queue[r][i] \in Request
    BY <1>8 DEF GrantStep, GrantNext, TypeOK
  <2>2. RemoveIdx(queue[r], i) \in Seq(Request)
    BY <2>1, RemoveIdxFacts DEF TypeOK
  <2>3. queue' \in [Rids -> Seq(Request)]
    <3>1. CASE queue' = queue
      BY <3>1 DEF TypeOK
    <3>2. CASE queue' = [queue EXCEPT ![r] = RemoveIdx(queue[r], i)]
      BY <2>2, <3>2 DEF TypeOK
    <3> QED
      BY <1>8, <2>1, <3>1, <3>2 DEF GrantStep, GrantNext
  <2>4. holders' \in [Rids -> [Txns -> Held]]
    <3>1. queue[r][i].txn \in Txns /\ queue[r][i].mode \in Held
      BY <2>1 DEF Request, Held
    <3>2. CASE holders' = holders
      BY <3>2 DEF TypeOK
    <3>3. CASE holders' = [holders EXCEPT ![r][queue[r][i].txn] = queue[r][i].mode]
      BY <3>1, <3>3 DEF TypeOK
    <3> QED
      BY <1>8, <2>1, <3>2, <3>3 DEF GrantStep, GrantNext
  <2>5. idx' \in [Txns -> Nat \ {0}]
    BY <1>8 DEF GrantStep, GrantNext, AfterRemoval, TypeOK
  <2> QED
    BY <1>8, <2>3, <2>4, <2>5 DEF GrantStep, TypeOK
<1>9. ASSUME NEW t \in Txns, NEW r \in Rids, GrantEnd(t, r) PROVE TypeOK'
  <2>1. CASE UNCHANGED <<entries, holders, queue>>
    BY <1>9, <2>1 DEF GrantEnd, TypeOK, PCs
  <2>2. CASE /\ entries' = entries \ {r}
             /\ holders' = [holders EXCEPT ![r] = [u \in Txns |-> "none"]]
             /\ queue' = [queue EXCEPT ![r] = <<>>]
    BY <1>9, <2>2 DEF GrantEnd, TypeOK, PCs, Held
  <2> QED
    BY <1>9, <2>1, <2>2 DEF GrantEnd
<1>10. ASSUME NEW t \in Txns, NEW s \in Shards, LeaveShard(t, s) PROVE TypeOK'
  BY <1>10 DEF LeaveShard, TypeOK, Request, Asked, Held, PCs, unlockVars
<1>11. ASSUME NEW t \in Txns, NEW s \in Shards, NotifyAll(t, s) PROVE TypeOK'
  BY <1>11 DEF NotifyAll, TypeOK, Request, Asked, Held, PCs
<1>12. ASSUME NEW t \in Txns, UnlockReturn(t) PROVE TypeOK'
  BY <1>12 DEF UnlockReturn, TypeOK, Request, Asked, Held, PCs, unlockVars
<1>13. CASE UNCHANGED vars
  BY <1>13 DEF vars, TypeOK, Request, Asked, Held, PCs
<1> QED
  BY <1>1, <1>2, <1>3, <1>4, <1>5, <1>6, <1>7, <1>8, <1>9, <1>10, <1>11, <1>12, <1>13,
     LockingModes
  DEF Next, Waiting, Unlocking, AllDone

\* A grant, at once or from the queue, looks at the other holders first.
LEMMA CompatibleKept == IInv /\ [Next]_vars => Compatible'
<1> USE LockAssumption
<1> SUFFICES ASSUME IInv, [Next]_vars PROVE Compatible'
  OBVIOUS
<1> USE DEF IInv
<1>1. ASSUME NEW t \in Txns, NEW r \in Rids, NEW m \in {"S", "X"}, LockNow(t, r, m) PROVE Compatible'
  <2>1. holders' = [holders EXCEPT ![r][t] = m] /\ CanGrant(t, r, m)
    BY <1>1 DEF LockNow
  <2>2. CASE m = "X"
    <3>1. \A u \in Txns : u # t => holders[r][u] = "none"
      BY <2>1, <2>2 DEF CanGrant, HolderSet, Compatible, TypeOK
    <3> QED
      BY <2>1, <2>2, <3>1 DEF Compatible, TypeOK
  <2>3. CASE m = "S"
    <3>1. \A u \in Txns : u # t => holders[r][u] # "X"
      BY <2>1, <2>3 DEF CanGrant, Compatible, TypeOK
    <3> QED
      BY <2>1, <2>3, <3>1 DEF Compatible, TypeOK
  <2> QED  BY <2>2, <2>3
<1>2. ASSUME NEW t \in Txns, NEW r \in Rids, NEW m \in {"S", "X"}, LockQueue(t, r, m) PROVE Compatible'
  BY <1>2 DEF LockQueue, Compatible, HolderSet, TypeOK, Held, ReturnOk, unlockVars, WaitOver
<1>3. ASSUME NEW t \in Txns, NEW q \in want[t], Awake(t, q) PROVE Compatible'
  BY <1>3 DEF Awake, Compatible, HolderSet, TypeOK, Held, ReturnOk, unlockVars, WaitOver
<1>4. ASSUME NEW t \in Txns, NEW q \in want[t], Timeout(t, q) PROVE Compatible'
  BY <1>4 DEF Timeout, Compatible, HolderSet, TypeOK, Held, ReturnOk, unlockVars, AfterTimeout, WaitOver
<1>5. ASSUME NEW t \in Txns, UnlockAll(t) PROVE Compatible'
  BY <1>5 DEF UnlockAll, Compatible, HolderSet, TypeOK, Held
<1>6. ASSUME NEW t \in Txns, NEW s \in Shards, EnterShard(t, s) PROVE Compatible'
  BY <1>6 DEF EnterShard, Compatible, HolderSet, TypeOK, Held
<1>7. ASSUME NEW t \in Txns, NEW r \in Rids, ReleaseRow(t, r) PROVE Compatible'
  BY <1>7 DEF ReleaseRow, Compatible, HolderSet, TypeOK, Held
<1>8. ASSUME NEW t \in Txns, NEW r \in Rids, GrantStep(t, r) PROVE Compatible'
  <2>1. PICK i \in 1 .. Len(queue[r]) : i = idx[t] /\ queue[r][i] \in Request
    BY <1>8 DEF GrantStep, GrantNext, TypeOK
  <2> DEFINE q == queue[r][i]
  <2>2. q.txn \in Txns /\ q.mode \in {"S", "X"}
    BY <2>1 DEF Request
  <2>3. CASE holders' = holders
    BY <2>3 DEF Compatible
  <2>4. CASE Grantable(r, q) /\ holders' = [holders EXCEPT ![r][q.txn] = q.mode]
    <3>1. \A u \in Txns : u # q.txn => holders[r][u] # "X"
      BY <2>2, <2>4 DEF Grantable, HolderSet
    <3>2. q.mode = "X" => \A u \in Txns : u # q.txn => holders[r][u] = "none"
      BY <2>2, <2>4 DEF Grantable, HolderSet
    <3> HIDE DEF q
    <3> QED
      BY <2>2, <2>4, <3>1, <3>2 DEF Compatible, TypeOK
  <2> QED  BY <1>8, <2>1, <2>3, <2>4 DEF GrantStep, GrantNext
<1>9. ASSUME NEW t \in Txns, NEW r \in Rids, GrantEnd(t, r) PROVE Compatible'
  <2>1. holders' = holders \/ holders' = [holders EXCEPT ![r] = [u \in Txns |-> "none"]]
    BY <1>9 DEF GrantEnd
  <2>2. CASE holders' = holders
    BY <2>2 DEF Compatible
  <2>3. CASE holders' = [holders EXCEPT ![r] = [u \in Txns |-> "none"]]
    BY <2>3 DEF Compatible, TypeOK
  <2> QED  BY <2>1, <2>2, <2>3
<1>10. ASSUME NEW t \in Txns, NEW s \in Shards, LeaveShard(t, s) PROVE Compatible'
  BY <1>10 DEF LeaveShard, Compatible, HolderSet, TypeOK, Held, unlockVars
<1>11. ASSUME NEW t \in Txns, NEW s \in Shards, NotifyAll(t, s) PROVE Compatible'
  BY <1>11 DEF NotifyAll, Compatible, HolderSet, TypeOK, Held
<1>12. ASSUME NEW t \in Txns, UnlockReturn(t) PROVE Compatible'
  BY <1>12 DEF UnlockReturn, Compatible, HolderSet, TypeOK, Held, unlockVars
<1>13. CASE UNCHANGED vars
  BY <1>13 DEF vars, Compatible, HolderSet, TypeOK, Held
<1> QED
  BY <1>1, <1>2, <1>3, <1>4, <1>5, <1>6, <1>7, <1>8, <1>9, <1>10, <1>11, <1>12, <1>13,
     LockingModes
  DEF Next, Waiting, Unlocking, AllDone

\* Only the owner of a shard's mutex is inside the critical section, and only
\* it gives the mutex back.
LEMMA CriticalKept == IInv /\ [Next]_vars => Critical'
<1> USE LockAssumption
<1> SUFFICES ASSUME IInv, [Next]_vars PROVE Critical'
  OBVIOUS
<1> USE DEF IInv
<1>1. ASSUME NEW t \in Txns, NEW r \in Rids, NEW m \in {"S", "X"}, LockNow(t, r, m) PROVE Critical'
  BY <1>1 DEF LockNow, Critical, TypeOK, Free, ReturnOk, unlockVars
<1>2. ASSUME NEW t \in Txns, NEW r \in Rids, NEW m \in {"S", "X"}, LockQueue(t, r, m) PROVE Critical'
  <2>1. /\ mutex' = mutex /\ shard' = shard /\ row' = row
        /\ \/ pc' = [pc EXCEPT ![t] = "run"]
           \/ pc' = [pc EXCEPT ![t] = "asleep"]
    BY <1>2 DEF LockQueue, ReturnOk, unlockVars
  <2>2. \A u \in Txns : pc'[u] \in {"shard", "grant"} => pc'[u] = pc[u]
    BY <2>1 DEF TypeOK
  <2> QED  BY <2>1, <2>2 DEF Critical
<1>3. ASSUME NEW t \in Txns, NEW q \in want[t], Awake(t, q) PROVE Critical'
  <2>1. UNCHANGED <<queue, mutex, shard, row, idx>>
    BY <1>3 DEF Awake, unlockVars
  <2>2. \A u \in Txns : pc'[u] \in {"shard", "grant"} => pc'[u] = pc[u]
    BY <1>3 DEF Awake, ReturnOk, TypeOK
  <2> QED
    BY <2>1, <2>2 DEF Critical, TypeOK
<1>4. ASSUME NEW t \in Txns, NEW q \in want[t], Timeout(t, q) PROVE Critical'
  <2>1. pc' = [pc EXCEPT ![t] = "run"]
    BY <1>4 DEF Timeout, ReturnOk, AfterTimeout
  <2> QED
    BY <1>4, <2>1 DEF Timeout, unlockVars, Critical, TypeOK
<1>5. ASSUME NEW t \in Txns, UnlockAll(t) PROVE Critical'
  BY <1>5 DEF UnlockAll, Critical, TypeOK, Free
<1>6. ASSUME NEW t \in Txns, NEW s \in Shards, EnterShard(t, s) PROVE Critical'
  BY <1>6 DEF EnterShard, Critical, TypeOK, Free
<1>7. ASSUME NEW t \in Txns, NEW r \in Rids, ReleaseRow(t, r) PROVE Critical'
  BY <1>7 DEF ReleaseRow, Critical, TypeOK, Free
<1>8. ASSUME NEW t \in Txns, NEW r \in Rids, GrantStep(t, r) PROVE Critical'
  BY <1>8 DEF GrantStep, Critical, TypeOK, Free, GrantNext, AfterRemoval
<1>9. ASSUME NEW t \in Txns, NEW r \in Rids, GrantEnd(t, r) PROVE Critical'
  BY <1>9 DEF GrantEnd, Critical, TypeOK, Free
<1>10. ASSUME NEW t \in Txns, NEW s \in Shards, LeaveShard(t, s) PROVE Critical'
  BY <1>10 DEF LeaveShard, Critical, TypeOK, Free, unlockVars
<1>11. ASSUME NEW t \in Txns, NEW s \in Shards, NotifyAll(t, s) PROVE Critical'
  BY <1>11 DEF NotifyAll, Critical, TypeOK, Free
<1>12. ASSUME NEW t \in Txns, UnlockReturn(t) PROVE Critical'
  BY <1>12 DEF UnlockReturn, Critical, TypeOK, Free, unlockVars
<1>13. CASE UNCHANGED vars
  BY <1>13 DEF vars, Critical, TypeOK, Free
<1> QED
  BY <1>1, <1>2, <1>3, <1>4, <1>5, <1>6, <1>7, <1>8, <1>9, <1>10, <1>11, <1>12, <1>13,
     LockingModes
  DEF Next, Waiting, Unlocking, AllDone

\* grant_waiting stops at an exclusive request it cannot grant, and no other
\* thread touches the queue it walks.
LEMMA PrefixKept == IInv /\ [Next]_vars => Prefix'
<1> USE LockAssumption
<1> SUFFICES ASSUME IInv, [Next]_vars PROVE Prefix'
  OBVIOUS
<1> USE DEF IInv
<1>1. ASSUME NEW t \in Txns, NEW r \in Rids, NEW m \in {"S", "X"}, LockNow(t, r, m) PROVE Prefix'
  BY <1>1 DEF LockNow, Prefix, Critical, TypeOK, Free, ReturnOk, unlockVars
<1>2. ASSUME NEW t \in Txns, NEW r \in Rids, NEW m \in {"S", "X"}, LockQueue(t, r, m) PROVE Prefix'
  <2>1. \A u \in Txns : pc[u] = "grant" => r \notin row[u]
    <3>1. mutex[ShardOf[r]] = Nobody
      BY <1>2 DEF LockQueue, Free
    <3>2. \A u \in Txns : u # Nobody
      OBVIOUS
    <3> QED  BY ONLY <3>1, <3>2, Critical DEF Critical
  <2>2. \A u \in Txns : pc'[u] = "grant" => pc[u] = "grant"
    BY <1>2 DEF LockQueue, ReturnOk, TypeOK
  <2>3. row' = row /\ idx' = idx /\ \A x \in Rids : x # r => queue'[x] = queue[x]
    BY <1>2 DEF LockQueue, unlockVars, TypeOK
  <2> SUFFICES ASSUME NEW u \in Txns, pc'[u] = "grant", NEW x \in row'[u],
                      NEW j \in 1 .. (idx'[u] - 1)
               PROVE  j \in DOMAIN queue'[x] /\ queue'[x][j].mode = "S"
    BY DEF Prefix
  <2>4. x \in row[u] /\ x \in Rids /\ x # r
    BY <2>1, <2>2, <2>3 DEF TypeOK
  <2> QED
    BY <2>2, <2>3, <2>4 DEF Prefix
<1>3. ASSUME NEW t \in Txns, NEW q \in want[t], Awake(t, q) PROVE Prefix'
  <2>1. UNCHANGED <<queue, mutex, shard, row, idx>>
    BY <1>3 DEF Awake, unlockVars
  <2>2. \A u \in Txns : pc'[u] \in {"shard", "grant"} => pc'[u] = pc[u]
    BY <1>3 DEF Awake, ReturnOk, TypeOK
  <2> QED
    BY <2>1, <2>2 DEF Critical, Prefix, TypeOK
<1>4. ASSUME NEW t \in Txns, NEW q \in want[t], Timeout(t, q) PROVE Prefix'
  <2>1. \A u \in Txns : pc[u] = "grant" => q.rid \notin row[u]
    <3>1. mutex[ShardOf[q.rid]] = Nobody
      BY <1>4 DEF Timeout, Free
    <3>2. \A u \in Txns : u # Nobody
      OBVIOUS
    <3> QED  BY ONLY <3>1, <3>2, Critical DEF Critical
  <2>2. \A u \in Txns : pc'[u] = "grant" => pc[u] = "grant"
    BY <1>4 DEF Timeout, ReturnOk, AfterTimeout, TypeOK
  <2>3. row' = row /\ idx' = idx /\ \A x \in Rids : x # q.rid => queue'[x] = queue[x]
    BY <1>4 DEF Timeout, unlockVars, TypeOK
  <2> SUFFICES ASSUME NEW u \in Txns, pc'[u] = "grant", NEW x \in row'[u],
                      NEW j \in 1 .. (idx'[u] - 1)
               PROVE  j \in DOMAIN queue'[x] /\ queue'[x][j].mode = "S"
    BY DEF Prefix
  <2>4. x \in row[u] /\ x \in Rids /\ x # q.rid
    BY <2>1, <2>2, <2>3 DEF TypeOK
  <2> QED
    BY <2>2, <2>3, <2>4 DEF Prefix
<1>5. ASSUME NEW t \in Txns, UnlockAll(t) PROVE Prefix'
  BY <1>5 DEF UnlockAll, Prefix, Critical, TypeOK, Free
<1>6. ASSUME NEW t \in Txns, NEW s \in Shards, EnterShard(t, s) PROVE Prefix'
  BY <1>6 DEF EnterShard, Prefix, Critical, TypeOK, Free
<1>7. ASSUME NEW t \in Txns, NEW r \in Rids, ReleaseRow(t, r) PROVE Prefix'
  BY <1>7 DEF ReleaseRow, Prefix, Critical, TypeOK, Free
<1>8. ASSUME NEW t \in Txns, NEW r \in Rids, GrantStep(t, r) PROVE Prefix'
  <2>1. \A u \in Txns : u # t /\ pc[u] = "grant" => r \notin row[u]
    <3>1. pc[t] = "grant" /\ r \in row[t]
      BY <1>8 DEF GrantStep
    <3>2. mutex[ShardOf[r]] = t
      BY <3>1 DEF Critical
    <3> QED  BY <3>2 DEF Critical
  <2>2. PICK i \in 1 .. Len(queue[r]) : i = idx[t]
    BY <1>8 DEF GrantStep, GrantNext, TypeOK
  <2>3. SUFFICES ASSUME NEW u \in Txns, pc[u] = "grant", NEW x \in row[u], NEW j \in 1 .. (idx'[u] - 1)
                 PROVE  j \in DOMAIN queue'[x] /\ queue'[x][j].mode = "S"
    BY <1>8 DEF GrantStep, Prefix
  <2>4. CASE u # t
    <3>1. x \in Rids /\ x # r /\ idx'[u] = idx[u] /\ queue'[x] = queue[x]
      BY <1>8, <2>1, <2>3, <2>4 DEF GrantStep, GrantNext, TypeOK
    <3> QED  BY <2>3, <3>1 DEF Prefix
  <2>5. CASE u = t
    <3>1. x = r /\ queue[r] \in Seq(Request)
      BY <1>8, <2>3, <2>5 DEF GrantStep, TypeOK
    <3>2. CASE queue' = [queue EXCEPT ![r] = RemoveIdx(queue[r], i)] /\ idx'[t] = i
      <4>1. queue'[r] = RemoveIdx(queue[r], i)
        BY <3>2 DEF TypeOK
      <4>2. j \in 1 .. (i - 1) /\ queue[r][j].mode = "S"
        BY <2>2, <2>3, <2>5, <3>1, <3>2 DEF Prefix
      <4>3. /\ queue'[r] \in Seq(Request) /\ Len(queue'[r]) = Len(queue[r]) - 1
            /\ queue'[r][j] = queue[r][j]
        <5>1. i \in 1 .. Len(queue[r])
          BY <2>2
        <5>2. /\ RemoveIdx(queue[r], i) \in Seq(Request)
              /\ Len(RemoveIdx(queue[r], i)) = Len(queue[r]) - 1
              /\ \A k \in 1 .. (i - 1) : RemoveIdx(queue[r], i)[k] = queue[r][k]
          BY <5>1, <3>1, RemoveIdxFacts
        <5> QED  BY <4>1, <4>2, <5>2
      <4>4. j \in 1 .. Len(queue'[r])
        BY <4>2, <4>3, <3>1
      <4> QED  BY <3>1, <4>2, <4>3, <4>4
    <3>3. CASE queue' = queue /\ idx'[t] = i + 1 /\ queue[r][i].mode = "S"
      <4>1. CASE j = i
        BY <3>1, <3>3, <4>1
      <4>2. CASE j # i
        <5>1. j \in 1 .. (idx[t] - 1) /\ r \in row[t] /\ pc[t] = "grant"
          BY <2>2, <2>3, <2>5, <3>1, <3>3, <4>2
        <5> QED  BY <5>1, <3>1, <3>3 DEF Prefix
      <4> QED  BY <4>1, <4>2
    <3> QED
      BY <1>8, <2>2, <3>2, <3>3 DEF GrantStep, GrantNext, AfterRemoval, TypeOK
  <2> QED  BY <2>4, <2>5
<1>9. ASSUME NEW t \in Txns, NEW r \in Rids, GrantEnd(t, r) PROVE Prefix'
  <2>1. \A u \in Txns : u # t /\ pc[u] = "grant" => r \notin row[u]
    <3>1. pc[t] = "grant" /\ r \in row[t]
      BY <1>9 DEF GrantEnd
    <3>2. mutex[ShardOf[r]] = t
      BY <3>1 DEF Critical
    <3> QED  BY <3>2 DEF Critical
  <2>2. \A u \in Txns : pc'[u] = "grant" => u # t /\ pc[u] = "grant" /\ row'[u] = row[u]
    BY <1>9 DEF GrantEnd, TypeOK
  <2>3. idx' = idx /\ \A x \in Rids : x # r => queue'[x] = queue[x]
    BY <1>9 DEF GrantEnd, TypeOK
  <2> SUFFICES ASSUME NEW u \in Txns, pc'[u] = "grant", NEW x \in row'[u],
                      NEW j \in 1 .. (idx'[u] - 1)
               PROVE  j \in DOMAIN queue'[x] /\ queue'[x][j].mode = "S"
    BY DEF Prefix
  <2>4. x \in row[u] /\ x \in Rids /\ x # r
    BY <2>1, <2>2 DEF TypeOK
  <2> QED
    BY <2>2, <2>3, <2>4 DEF Prefix
<1>10. ASSUME NEW t \in Txns, NEW s \in Shards, LeaveShard(t, s) PROVE Prefix'
  BY <1>10 DEF LeaveShard, Prefix, Critical, TypeOK, Free, unlockVars
<1>11. ASSUME NEW t \in Txns, NEW s \in Shards, NotifyAll(t, s) PROVE Prefix'
  BY <1>11 DEF NotifyAll, Prefix, Critical, TypeOK, Free
<1>12. ASSUME NEW t \in Txns, UnlockReturn(t) PROVE Prefix'
  BY <1>12 DEF UnlockReturn, Prefix, Critical, TypeOK, Free, unlockVars
<1>13. CASE UNCHANGED vars
  BY <1>13 DEF vars, Prefix, Critical, TypeOK, Free
<1> QED
  BY <1>1, <1>2, <1>3, <1>4, <1>5, <1>6, <1>7, <1>8, <1>9, <1>10, <1>11, <1>12, <1>13,
     LockingModes
  DEF Next, Waiting, Unlocking, AllDone

-----------------------------------------------------------------------------
(* Steps and the stronger invariant *)

\* The requests behind the one wait_queue.remove(i) takes move up by one place.
LEMMA RemoveIdxAll ==
    ASSUME NEW s \in Seq(Request), NEW i \in 1 .. Len(s)
    PROVE  /\ RemoveIdx(s, i) \in Seq(Request) /\ Len(RemoveIdx(s, i)) = Len(s) - 1
           /\ \A k \in 1 .. (Len(s) - 1) : RemoveIdx(s, i)[k] = s[IF k < i THEN k ELSE k + 1]
<1> DEFINE a == SubSeq(s, 1, i - 1)
           b == SubSeq(s, i + 1, Len(s))
<1>1. a \in Seq(Request) /\ Len(a) = i - 1 /\ \A j \in 1 .. (i - 1) : a[j] = s[j]
  BY SubSeqProperties
<1>2. /\ b \in Seq(Request) /\ Len(b) = Len(s) - i
      /\ \A j \in 1 .. (Len(s) - i) : b[j] = s[i + j]
  BY SubSeqProperties
<1> HIDE DEF a, b
<1>3. /\ a \o b \in Seq(Request) /\ Len(a \o b) = Len(s) - 1
      /\ \A k \in 1 .. (Len(s) - 1) : (a \o b)[k] = IF k < i THEN a[k] ELSE b[k - (i - 1)]
  <2>1. /\ a \o b \in Seq(Request) /\ Len(a \o b) = Len(a) + Len(b)
        /\ \A k \in 1 .. Len(a) + Len(b) : (a \o b)[k] = IF k <= Len(a) THEN a[k] ELSE b[k - Len(a)]
    BY <1>1, <1>2, ConcatProperties
  <2>2. Len(a) + Len(b) = Len(s) - 1 /\ Len(a) = i - 1
    BY <1>1, <1>2
  <2>3. ASSUME NEW k \in 1 .. (Len(s) - 1) PROVE (k <= i - 1) <=> (k < i)
    OBVIOUS
  <2> QED  BY <2>1, <2>2, <2>3
<1>4. \A k \in 1 .. (Len(s) - 1) : (a \o b)[k] = s[IF k < i THEN k ELSE k + 1]
  <2> TAKE k \in 1 .. (Len(s) - 1)
  <2>1. CASE k < i
    BY <1>1, <1>3, <2>1
  <2>2. CASE ~(k < i)
    <3>1. k - (i - 1) \in 1 .. (Len(s) - i) /\ i + (k - (i - 1)) = k + 1
      BY <2>2
    <3> QED  BY <1>2, <1>3, <2>2, <3>1
  <2> QED  BY <2>1, <2>2
<1> QED  BY <1>3, <1>4 DEF RemoveIdx, a, b

\* Every request of the shortened queue was in the queue, in the same order, and only the
\* removed one is gone.
LEMMA RemoveIdxKeeps ==
    ASSUME NEW s \in Seq(Request), NEW i \in 1 .. Len(s)
    PROVE  /\ \A k \in DOMAIN RemoveIdx(s, i) : \E j \in DOMAIN s : j # i /\ RemoveIdx(s, i)[k] = s[j]
           /\ \A j \in DOMAIN s : j # i => \E k \in DOMAIN RemoveIdx(s, i) : RemoveIdx(s, i)[k] = s[j]
           /\ (\A j, l \in DOMAIN s : s[j].txn = s[l].txn => j = l) =>
                 \A j, l \in DOMAIN RemoveIdx(s, i) :
                    RemoveIdx(s, i)[j].txn = RemoveIdx(s, i)[l].txn => j = l
<1> DEFINE z == RemoveIdx(s, i)
           at(k) == IF k < i THEN k ELSE k + 1
<1>1. z \in Seq(Request) /\ Len(z) = Len(s) - 1 /\ \A k \in 1 .. (Len(s) - 1) : z[k] = s[at(k)]
  BY RemoveIdxAll
<1>2. DOMAIN z = 1 .. (Len(s) - 1) /\ DOMAIN s = 1 .. Len(s)
  BY <1>1
<1> HIDE DEF z
<1>3. \A k \in 1 .. (Len(s) - 1) : at(k) \in 1 .. Len(s) /\ at(k) # i
  OBVIOUS
<1>4. \A j \in 1 .. Len(s) : j # i => \E k \in 1 .. (Len(s) - 1) : at(k) = j
  <2> TAKE j \in 1 .. Len(s)
  <2> HAVE j # i
  <2>1. CASE j < i
    BY <2>1
  <2>2. CASE j > i
    <3>1. j - 1 \in 1 .. (Len(s) - 1) /\ at(j - 1) = j
      BY <2>2
    <3> QED  BY <3>1
  <2> QED  BY <2>1, <2>2
<1>5. \A j, l \in 1 .. (Len(s) - 1) : at(j) = at(l) => j = l
  OBVIOUS
<1> HIDE DEF at
<1>6. \A k \in DOMAIN z : \E j \in DOMAIN s : j # i /\ z[k] = s[j]
  BY <1>1, <1>2, <1>3
<1>7. \A j \in DOMAIN s : j # i => \E k \in DOMAIN z : z[k] = s[j]
  BY <1>1, <1>2, <1>4
<1>8. (\A j, l \in DOMAIN s : s[j].txn = s[l].txn => j = l) =>
         \A j, l \in DOMAIN z : z[j].txn = z[l].txn => j = l
  BY <1>1, <1>2, <1>3, <1>5
<1> QED  BY <1>6, <1>7, <1>8 DEF z

\* The retain after a timeout drops a request of the transaction, and nobody else's.
LEMMA WithoutKeeps ==
    ASSUME NEW s \in Seq(Request), NEW t
    PROVE  /\ \A k \in DOMAIN Without(s, t) : \E j \in DOMAIN s : Without(s, t)[k] = s[j]
           /\ \A j \in DOMAIN s : s[j].txn # t =>
                 \E k \in DOMAIN Without(s, t) : Without(s, t)[k] = s[j]
           /\ (\A j, l \in DOMAIN s : s[j].txn = s[l].txn => j = l) =>
                 /\ \A j, l \in DOMAIN Without(s, t) :
                       Without(s, t)[j].txn = Without(s, t)[l].txn => j = l
                 /\ \A k \in DOMAIN Without(s, t) : Without(s, t)[k].txn # t
<1> DEFINE mine == {i \in DOMAIN s : s[i].txn = t}
           i == CHOOSE i \in mine : TRUE
<1>1. CASE mine = {}
  BY <1>1 DEF Without
<1>2. CASE mine # {}
  <2>1. i \in mine /\ i \in 1 .. Len(s) /\ s[i].txn = t
    BY <1>2
  <2>2. Without(s, t) = RemoveIdx(s, i)
    BY <1>2 DEF Without
  <2> HIDE DEF i, mine
  <2> DEFINE z == RemoveIdx(s, i)
  <2>3. /\ \A k \in DOMAIN z : \E j \in DOMAIN s : j # i /\ z[k] = s[j]
        /\ \A j \in DOMAIN s : j # i => \E k \in DOMAIN z : z[k] = s[j]
        /\ (\A j, l \in DOMAIN s : s[j].txn = s[l].txn => j = l) =>
              \A j, l \in DOMAIN z : z[j].txn = z[l].txn => j = l
    BY <2>1, RemoveIdxKeeps
  <2> HIDE DEF z
  <2>4. (\A j, l \in DOMAIN s : s[j].txn = s[l].txn => j = l) => \A k \in DOMAIN z : z[k].txn # t
    BY <2>1, <2>3
  <2> QED  BY <2>1, <2>2, <2>3, <2>4 DEF z
<1> QED  BY <1>1, <1>2

\* One iteration of grant_waiting takes the request at its index out and makes it a holder, or
\* walks past it.
LEMMA GrantStepQueue ==
    ASSUME TypeOK, NEW t \in Txns, NEW r \in Rids, GrantStep(t, r)
    PROVE  \E i \in DOMAIN queue[r] :
             /\ i = idx[t] /\ queue[r][i] \in Request
             /\ \/ /\ Grantable(r, queue[r][i])
                   /\ holders' = [holders EXCEPT ![r][queue[r][i].txn] = queue[r][i].mode]
                   /\ queue' = [queue EXCEPT ![r] = RemoveIdx(queue[r], i)]
                   /\ idx' = [idx EXCEPT ![t] = i]
                \/ /\ ~Grantable(r, queue[r][i])
                   /\ UNCHANGED <<holders, queue>>
                   /\ idx' = [idx EXCEPT ![t] = i + 1]
<1>1. idx[t] \in 1 .. Len(queue[r]) /\ queue[r] \in Seq(Request)
  BY DEF GrantStep, GrantNext, TypeOK
<1>2. idx[t] \in DOMAIN queue[r] /\ queue[r][idx[t]] \in Request
  BY <1>1
<1> QED  BY <1>2 DEF GrantStep, GrantNext, AfterRemoval

\* Outside the executor's rows nothing is claimed: on those, every request is exclusive.
LEMMA ExclusiveModes ==
    ASSUME NEW t \in Txns, NEW r \in ExclusiveRows, NEW m \in Modes[t][r]
    PROVE  m = "X"
  BY ModesAssumption DEF ExclusiveRows

\* A lock() call that queues returns Ok at once if its transaction is a holder already, and
\* else sleeps.
LEMMA LockQueueCases ==
    ASSUME NEW t \in Txns, NEW r \in Rids, NEW m, LockQueue(t, r, m)
    PROVE  /\ pc[t] = "run" /\ ~CanGrant(t, r, m) /\ Free(r)
           /\ entries' = entries \cup {r}
           /\ queue' = [queue EXCEPT ![r] = Append(queue[r], [txn |-> t, mode |-> m])]
           /\ UNCHANGED <<holders, mutex, todo, shard, row, idx>>
           /\ \/ holders[r][t] # "none" /\ ReturnOk(t, r, m)
              \/ /\ holders[r][t] = "none"
                 /\ pc' = [pc EXCEPT ![t] = "asleep"]
                 /\ want' = [want EXCEPT ![t] = {[rid |-> r, mode |-> m]}]
                 /\ UNCHANGED <<locks, last>>
  BY DEF LockQueue, WaitOver, unlockVars

\* A notified thread that tests its wait condition returns Ok or sleeps again.
LEMMA AwakeCases ==
    ASSUME NEW t \in Txns, NEW q, Awake(t, q)
    PROVE  /\ pc[t] = "awake" /\ want[t] = {q} /\ Free(q.rid)
           /\ UNCHANGED <<entries, holders, queue, mutex, todo, shard, row, idx>>
           /\ \/ holders[q.rid][t] # "none" /\ ReturnOk(t, q.rid, q.mode)
              \/ pc' = [pc EXCEPT ![t] = "asleep"] /\ UNCHANGED <<want, locks, last>>
  BY DEF Awake, WaitOver, unlockVars

\* A call whose timeout elapses returns Ok if it was granted, and else leaves the queue.
LEMMA TimeoutCases ==
    ASSUME NEW t \in Txns, NEW q, Timeout(t, q)
    PROVE  /\ pc[t] \in Sleep /\ want[t] = {q} /\ Free(q.rid)
           /\ UNCHANGED <<entries, holders, mutex, todo, shard, row, idx>>
           /\ \/ holders[q.rid][t] # "none" /\ ReturnOk(t, q.rid, q.mode) /\ UNCHANGED queue
              \/ /\ holders[q.rid][t] = "none"
                 /\ queue' = [queue EXCEPT ![q.rid] = Without(queue[q.rid], t)]
                 /\ pc' = [pc EXCEPT ![t] = "run"]
                 /\ want' = [want EXCEPT ![t] = {}]
                 /\ UNCHANGED <<locks, last>>
  BY DEF Timeout, WaitOver, AfterTimeout, Sleep, unlockVars

\* lock() returns Ok: the row is in the transaction's set, and the call is over.
LEMMA ReturnOkFacts ==
    ASSUME TypeOK, NEW t \in Txns, NEW r \in Rids, NEW m, ReturnOk(t, r, m)
    PROVE  /\ \A u \in Txns : u # t => /\ pc'[u] = pc[u] /\ want'[u] = want[u]
                                       /\ locks'[u] = locks[u] /\ last'[u] = last[u]
           /\ pc'[t] = "run" /\ want'[t] = {} /\ locks'[t] = locks[t] \cup {r}
           /\ \A q \in last'[t] : q.rid = r
  BY DEF ReturnOk, TypeOK

\* Each operation leaves the variables of its thread as its next phase has them.
LEMMA PhasesKept == StrongInv /\ [Next]_vars => Phases'
<1> USE LockAssumption
<1> SUFFICES ASSUME StrongInv, [Next]_vars PROVE Phases'
  OBVIOUS
<1> USE DEF StrongInv, IInv
<1>1. ASSUME NEW t \in Txns, NEW r \in Rids, NEW m \in Modes[t][r], LockNow(t, r, m) PROVE Phases'
  BY <1>1 DEF LockNow, ReturnOk, unlockVars, Phases, Sleep, TypeOK, PCs
<1>2. ASSUME NEW t \in Txns, NEW r \in Rids, NEW m \in Modes[t][r], LockQueue(t, r, m) PROVE Phases'
  <2>0. /\ pc[t] = "run" /\ UNCHANGED todo
        /\ \/ ReturnOk(t, r, m)
           \/ /\ pc' = [pc EXCEPT ![t] = "asleep"]
              /\ want' = [want EXCEPT ![t] = {[rid |-> r, mode |-> m]}]
              /\ UNCHANGED <<locks, last>>
    BY <1>2 DEF LockQueue, unlockVars
  <2>1. CASE ReturnOk(t, r, m)
    BY <2>0, <2>1, ReturnOkFacts DEF Phases, Sleep
  <2>2. CASE /\ pc' = [pc EXCEPT ![t] = "asleep"]
             /\ want' = [want EXCEPT ![t] = {[rid |-> r, mode |-> m]}]
             /\ UNCHANGED <<locks, last>>
    BY <2>0, <2>2 DEF Phases, Sleep, TypeOK
  <2> QED  BY <2>0, <2>1, <2>2
<1>3. ASSUME NEW t \in Txns, NEW q \in want[t], Awake(t, q) PROVE Phases'
  <2>0. pc[t] \in Sleep /\ UNCHANGED todo /\ q.rid \in Rids
    BY <1>3, AwakeCases DEF Sleep, TypeOK, Asked
  <2>1. CASE ReturnOk(t, q.rid, q.mode)
    BY <2>0, <2>1, ReturnOkFacts DEF Phases, Sleep
  <2>2. CASE pc' = [pc EXCEPT ![t] = "asleep"] /\ UNCHANGED <<want, locks, last>>
    BY <2>0, <2>2 DEF Phases, Sleep, TypeOK
  <2> QED  BY <1>3, <2>1, <2>2, AwakeCases
<1>4. ASSUME NEW t \in Txns, NEW q \in want[t], Timeout(t, q) PROVE Phases'
  <2>0. pc[t] \in Sleep /\ UNCHANGED todo /\ q.rid \in Rids
    BY <1>4, TimeoutCases DEF TypeOK, Asked
  <2>1. CASE ReturnOk(t, q.rid, q.mode)
    BY <2>0, <2>1, ReturnOkFacts DEF Phases, Sleep
  <2>2. CASE /\ pc' = [pc EXCEPT ![t] = "run"]
             /\ want' = [want EXCEPT ![t] = {}]
             /\ UNCHANGED <<locks, last>>
    BY <2>0, <2>2 DEF Phases, Sleep, TypeOK
  <2> QED  BY <1>4, <2>1, <2>2, TimeoutCases
<1>5. ASSUME NEW t \in Txns, UnlockAll(t) PROVE Phases'
  BY <1>5 DEF UnlockAll, Phases, Sleep, TypeOK, PCs
<1>6. ASSUME NEW t \in Txns, NEW s \in Shards, EnterShard(t, s) PROVE Phases'
  BY <1>6 DEF EnterShard, Phases, Sleep, TypeOK, PCs
<1>7. ASSUME NEW t \in Txns, NEW r \in Rids, ReleaseRow(t, r) PROVE Phases'
  BY <1>7 DEF ReleaseRow, Phases, Sleep, TypeOK, PCs
<1>8. ASSUME NEW t \in Txns, NEW r \in Rids, GrantStep(t, r) PROVE Phases'
  BY <1>8 DEF GrantStep, GrantNext, Phases, Sleep, TypeOK, PCs
<1>9. ASSUME NEW t \in Txns, NEW r \in Rids, GrantEnd(t, r) PROVE Phases'
  BY <1>9 DEF GrantEnd, Phases, Sleep, TypeOK, PCs
<1>10. ASSUME NEW t \in Txns, NEW s \in Shards, LeaveShard(t, s) PROVE Phases'
  BY <1>10 DEF LeaveShard, unlockVars, Phases, Sleep, TypeOK, PCs
<1>11. ASSUME NEW t \in Txns, NEW s \in Shards, NotifyAll(t, s) PROVE Phases'
  BY <1>11 DEF NotifyAll, Phases, Sleep, TypeOK, PCs
<1>12. ASSUME NEW t \in Txns, UnlockReturn(t) PROVE Phases'
  BY <1>12 DEF UnlockReturn, unlockVars, Phases, Sleep, TypeOK, PCs
<1>13. CASE UNCHANGED vars
  BY <1>13 DEF vars, Phases, Sleep, TypeOK, PCs
<1> QED
  BY <1>1, <1>2, <1>3, <1>4, <1>5, <1>6, <1>7, <1>8, <1>9, <1>10, <1>11, <1>12, <1>13
  DEF Next, Locking, Waiting, Unlocking, AllDone

\* The requests in a queue are requests of transactions.
LEMMA QueueTypes ==
    ASSUME TypeOK, NEW r \in Rids, NEW i \in DOMAIN queue[r]
    PROVE  /\ queue[r] \in Seq(Request) /\ i \in 1 .. Len(queue[r]) /\ queue[r][i] \in Request
           /\ queue[r][i].txn \in Txns /\ queue[r][i].mode \in {"S", "X"}
<1>1. queue[r] \in Seq(Request) /\ i \in 1 .. Len(queue[r])
  BY DEF TypeOK
<1>2. queue[r][i] \in Request
  BY <1>1
<1> QED  BY <1>1, <1>2 DEF Request

\* A row whose holders and queue a step leaves alone stays sound if its queued threads still wait
\* for the same request.
LEMMA QueueFrame ==
    ASSUME NEW e \in Rids, QueueSound(e), holders'[e] = holders[e], queue'[e] = queue[e],
           \A i \in DOMAIN queue[e] : /\ pc'[queue[e][i].txn] \in Sleep
                                      /\ want'[queue[e][i].txn] = want[queue[e][i].txn]
    PROVE  QueueSound(e)'
  BY DEF QueueSound, Sleep

\* On the rows locked the executor's way, only a waiting thread has a request in the queue, and
\* the grant, the timeout and the release each take away what they should.
LEMMA ExclusiveQueueKept == StrongInv /\ [Next]_vars => ExclusiveQueue'
<1> USE LockAssumption
<1> SUFFICES ASSUME StrongInv, [Next]_vars PROVE ExclusiveQueue'
  OBVIOUS
<1> USE DEF StrongInv, IInv
<1>1. ASSUME NEW t \in Txns, NEW r \in Rids, NEW m \in Modes[t][r], LockNow(t, r, m) PROVE ExclusiveQueue'
  <2> SUFFICES ASSUME NEW e \in ExclusiveRows PROVE QueueSound(e)'
    BY DEF ExclusiveQueue
  <2>e. e \in Rids /\ QueueSound(e)
    BY DEF ExclusiveRows, ExclusiveQueue
  <2>u. \A i \in DOMAIN queue[e] : queue[e][i].txn \in Txns
    BY <2>e, QueueTypes
  <2>1. \A u \in Txns : pc[u] \in Sleep => u # t /\ pc'[u] \in Sleep /\ want'[u] = want[u]
    BY <1>1 DEF LockNow, ReturnOk, Sleep, TypeOK
  <2>2. queue' = queue /\ holders' = [holders EXCEPT ![r][t] = m]
    BY <1>1 DEF LockNow
  <2>3. \A i \in DOMAIN queue[e] : pc[queue[e][i].txn] \in Sleep
    BY <2>e DEF QueueSound
  <2>4. CASE e # r
    <3>1. holders'[e] = holders[e]
      BY <2>2, <2>4, <2>e DEF TypeOK
    <3> QED  BY <2>e, <2>u, <2>1, <2>2, <2>3, <3>1, QueueFrame
  <2>5. CASE e = r
    <3>1. m = "X"
      BY <2>5, ExclusiveModes
    <3>2. holders'[e][t] = "X" /\ \A u \in Txns : u # t => holders'[e][u] = holders[e][u]
      BY <2>2, <2>5, <2>e, <3>1 DEF TypeOK
    <3> QED  BY <2>e, <2>u, <2>1, <2>2, <2>3, <3>2 DEF QueueSound
  <2> QED  BY <2>4, <2>5
<1>2. ASSUME NEW t \in Txns, NEW r \in Rids, NEW m \in Modes[t][r], LockQueue(t, r, m) PROVE ExclusiveQueue'
  <2> SUFFICES ASSUME NEW e \in ExclusiveRows PROVE QueueSound(e)'
    BY DEF ExclusiveQueue
  <2>e. e \in Rids /\ QueueSound(e)
    BY DEF ExclusiveRows, ExclusiveQueue
  <2>u. \A i \in DOMAIN queue[e] : queue[e][i].txn \in Txns
    BY <2>e, QueueTypes
  <2>1. \A u \in Txns : pc[u] \in Sleep => u # t /\ pc'[u] \in Sleep /\ want'[u] = want[u]
    BY <1>2 DEF LockQueue, ReturnOk, Sleep, TypeOK
  <2>2. holders' = holders /\ queue' = [queue EXCEPT ![r] = Append(queue[r], [txn |-> t, mode |-> m])]
    BY <1>2 DEF LockQueue
  <2>3. \A i \in DOMAIN queue[e] : pc[queue[e][i].txn] \in Sleep
    BY <2>e DEF QueueSound
  <2>4. CASE e # r
    <3>1. queue'[e] = queue[e]
      BY <2>2, <2>4, <2>e DEF TypeOK
    <3> QED  BY <2>e, <2>u, <2>1, <2>2, <2>3, <3>1, QueueFrame
  <2>5. CASE e = r
    <3>1. m = "X"
      BY <2>5, ExclusiveModes
    <3>2. holders[e][t] = "none"
      BY <1>2, <2>5, <2>e, <3>1 DEF LockQueue, CanGrant, QueueSound
    <3>3. pc'[t] \in Sleep /\ want'[t] = {[rid |-> e, mode |-> "X"]}
      BY <1>2, <2>5, <3>1, <3>2 DEF LockQueue, WaitOver, Sleep, TypeOK
    <3> DEFINE n == [txn |-> t, mode |-> "X"]
    <3>4. queue[e] \in Seq(Request) /\ queue'[e] = Append(queue[e], n) /\ n.txn = t /\ n.mode = "X"
      BY <2>2, <2>5, <2>e, <3>1 DEF TypeOK
    <3> HIDE DEF n
    <3>5. \A i \in DOMAIN queue'[e] :
             \/ i \in DOMAIN queue[e] /\ queue'[e][i] = queue[e][i]
             \/ i = Len(queue[e]) + 1 /\ i \notin DOMAIN queue[e] /\ queue'[e][i] = n
      BY <3>4
    <3>6. \A i \in DOMAIN queue[e] : queue[e][i].txn # t
      BY <2>1, <2>3, <2>u
    <3>7. \A i \in DOMAIN queue'[e] :
             /\ queue'[e][i].mode = "X" /\ holders'[e][queue'[e][i].txn] = "none"
             /\ pc'[queue'[e][i].txn] \in Sleep
             /\ want'[queue'[e][i].txn] = {[rid |-> e, mode |-> "X"]}
      BY <2>e, <2>u, <2>1, <2>2, <2>3, <3>2, <3>3, <3>4, <3>5 DEF QueueSound
    <3>8. \A i, j \in DOMAIN queue'[e] : queue'[e][i].txn = queue'[e][j].txn => i = j
      BY <2>e, <3>4, <3>5, <3>6 DEF QueueSound
    <3> QED  BY <2>2, <2>e, <3>7, <3>8 DEF QueueSound
  <2> QED  BY <2>4, <2>5
<1>3. ASSUME NEW t \in Txns, NEW q \in want[t], Awake(t, q) PROVE ExclusiveQueue'
  <2> SUFFICES ASSUME NEW e \in ExclusiveRows PROVE QueueSound(e)'
    BY DEF ExclusiveQueue
  <2>e. e \in Rids /\ QueueSound(e)
    BY DEF ExclusiveRows, ExclusiveQueue
  <2>u. \A i \in DOMAIN queue[e] : queue[e][i].txn \in Txns
    BY <2>e, QueueTypes
  <2>1. /\ want[t] = {q} /\ pc[t] \in Sleep /\ holders' = holders /\ queue' = queue
        /\ (holders[q.rid][t] # "none" /\ ReturnOk(t, q.rid, q.mode)) \/ (pc'[t] \in Sleep /\ want' = want)
    BY <1>3, AwakeCases DEF Sleep, TypeOK
  <2>2. \A u \in Txns : u # t => pc'[u] = pc[u] /\ want'[u] = want[u]
    BY <1>3 DEF Awake, ReturnOk, TypeOK
  <2>3. ASSUME NEW i \in DOMAIN queue[e], queue[e][i].txn = t PROVE holders[q.rid][t] = "none"
    <3>1. {q} = {[rid |-> e, mode |-> "X"]} /\ holders[e][t] = "none"
      BY <2>1, <2>3, <2>e DEF QueueSound
    <3> QED  BY <3>1
  <2>4. \A i \in DOMAIN queue[e] : /\ pc'[queue[e][i].txn] \in Sleep
                                   /\ want'[queue[e][i].txn] = want[queue[e][i].txn]
    <3> SUFFICES ASSUME NEW i \in DOMAIN queue[e]
                 PROVE  pc'[queue[e][i].txn] \in Sleep /\ want'[queue[e][i].txn] = want[queue[e][i].txn]
      OBVIOUS
    <3>1. CASE queue[e][i].txn = t
      BY <2>1, <2>3, <3>1
    <3>2. CASE queue[e][i].txn # t
      BY <2>2, <2>e, <2>u, <3>2 DEF QueueSound, Sleep
    <3> QED  BY <3>1, <3>2
  <2> QED  BY <2>e, <2>1, <2>4, QueueFrame
<1>4. ASSUME NEW t \in Txns, NEW q \in want[t], Timeout(t, q) PROVE ExclusiveQueue'
  <2> SUFFICES ASSUME NEW e \in ExclusiveRows PROVE QueueSound(e)'
    BY DEF ExclusiveQueue
  <2>e. e \in Rids /\ QueueSound(e)
    BY DEF ExclusiveRows, ExclusiveQueue
  <2>u. \A i \in DOMAIN queue[e] : queue[e][i].txn \in Txns
    BY <2>e, QueueTypes
  <2>1. want[t] = {q} /\ holders' = holders /\ q.rid \in Rids
    BY <1>4, TimeoutCases DEF TypeOK, Asked
  <2>2. \A u \in Txns : u # t => pc'[u] = pc[u] /\ want'[u] = want[u]
    BY <1>4 DEF Timeout, ReturnOk, TypeOK
  <2>3. \A i \in DOMAIN queue[e] :
           queue[e][i].txn # t => /\ pc'[queue[e][i].txn] \in Sleep
                                  /\ want'[queue[e][i].txn] = want[queue[e][i].txn]
    BY <2>2, <2>e, <2>u DEF QueueSound, Sleep
  <2>4. ASSUME NEW i \in DOMAIN queue[e], queue[e][i].txn = t
        PROVE  q.rid = e /\ holders[e][t] = "none"
    <3>1. {q} = {[rid |-> e, mode |-> "X"]} /\ holders[e][t] = "none"
      BY <2>1, <2>4, <2>e DEF QueueSound
    <3> QED  BY <3>1
  <2>5. CASE holders[q.rid][t] # "none" /\ UNCHANGED queue
    <3>1. \A i \in DOMAIN queue[e] : queue[e][i].txn # t
      BY <2>4, <2>5
    <3> QED  BY <2>e, <2>1, <2>3, <2>5, <3>1, QueueFrame
  <2>6. CASE queue' = [queue EXCEPT ![q.rid] = Without(queue[q.rid], t)]
    <3>1. CASE e # q.rid
      <4>1. queue'[e] = queue[e] /\ \A i \in DOMAIN queue[e] : queue[e][i].txn # t
        BY <2>4, <2>6, <2>e, <3>1 DEF TypeOK
      <4> QED  BY <2>e, <2>1, <2>3, <4>1, QueueFrame
    <3>2. CASE e = q.rid
      <4>1. queue[e] \in Seq(Request) /\ queue'[e] = Without(queue[e], t)
        BY <2>6, <2>e, <3>2 DEF TypeOK
      <4>2. \A i, j \in DOMAIN queue[e] : queue[e][i].txn = queue[e][j].txn => i = j
        BY <2>e DEF QueueSound
      <4>3. /\ \A k \in DOMAIN queue'[e] : \E j \in DOMAIN queue[e] : queue'[e][k] = queue[e][j]
            /\ \A i, j \in DOMAIN queue'[e] : queue'[e][i].txn = queue'[e][j].txn => i = j
            /\ \A k \in DOMAIN queue'[e] : queue'[e][k].txn # t
        BY <4>1, <4>2, WithoutKeeps
      <4>4. \A i \in DOMAIN queue'[e] :
               /\ queue'[e][i].mode = "X" /\ holders'[e][queue'[e][i].txn] = "none"
               /\ pc'[queue'[e][i].txn] \in Sleep
               /\ want'[queue'[e][i].txn] = {[rid |-> e, mode |-> "X"]}
        BY <2>1, <2>3, <2>e, <4>3 DEF QueueSound
      <4> QED  BY <2>1, <2>e, <4>3, <4>4 DEF QueueSound
    <3> QED  BY <3>1, <3>2
  <2> QED  BY <1>4, <2>5, <2>6, TimeoutCases
<1>5. ASSUME NEW t \in Txns, UnlockAll(t) PROVE ExclusiveQueue'
  <2> SUFFICES ASSUME NEW e \in ExclusiveRows PROVE QueueSound(e)'
    BY DEF ExclusiveQueue
  <2>e. e \in Rids /\ QueueSound(e)
    BY DEF ExclusiveRows, ExclusiveQueue
  <2>u. \A i \in DOMAIN queue[e] : queue[e][i].txn \in Txns
    BY <2>e, QueueTypes
  <2>1. holders'[e] = holders[e] /\ queue'[e] = queue[e]
    BY <1>5, <2>e DEF UnlockAll, TypeOK
  <2>2. \A u \in Txns : pc[u] \in Sleep => pc'[u] \in Sleep /\ want'[u] = want[u]
    BY <1>5 DEF UnlockAll, Sleep, TypeOK
  <2>3. \A i \in DOMAIN queue[e] : pc[queue[e][i].txn] \in Sleep
    BY <2>e DEF QueueSound
  <2> QED  BY <2>e, <2>u, <2>1, <2>2, <2>3, QueueFrame
<1>6. ASSUME NEW t \in Txns, NEW s \in Shards, EnterShard(t, s) PROVE ExclusiveQueue'
  <2> SUFFICES ASSUME NEW e \in ExclusiveRows PROVE QueueSound(e)'
    BY DEF ExclusiveQueue
  <2>e. e \in Rids /\ QueueSound(e)
    BY DEF ExclusiveRows, ExclusiveQueue
  <2>u. \A i \in DOMAIN queue[e] : queue[e][i].txn \in Txns
    BY <2>e, QueueTypes
  <2>1. holders'[e] = holders[e] /\ queue'[e] = queue[e]
    BY <1>6, <2>e DEF EnterShard, TypeOK
  <2>2. \A u \in Txns : pc[u] \in Sleep => pc'[u] \in Sleep /\ want'[u] = want[u]
    BY <1>6 DEF EnterShard, Sleep, TypeOK
  <2>3. \A i \in DOMAIN queue[e] : pc[queue[e][i].txn] \in Sleep
    BY <2>e DEF QueueSound
  <2> QED  BY <2>e, <2>u, <2>1, <2>2, <2>3, QueueFrame
<1>7. ASSUME NEW t \in Txns, NEW r \in Rids, ReleaseRow(t, r) PROVE ExclusiveQueue'
  <2> SUFFICES ASSUME NEW e \in ExclusiveRows PROVE QueueSound(e)'
    BY DEF ExclusiveQueue
  <2>e. e \in Rids /\ QueueSound(e)
    BY DEF ExclusiveRows, ExclusiveQueue
  <2>u. \A i \in DOMAIN queue[e] : queue[e][i].txn \in Txns
    BY <2>e, QueueTypes
  <2>1. /\ queue' = queue /\ \A x \in Txns : holders'[e][x] \in {holders[e][x], "none"}
        /\ \A u \in Txns : pc[u] \in Sleep => pc'[u] \in Sleep /\ want'[u] = want[u]
    BY <1>7, <2>e DEF ReleaseRow, Sleep, TypeOK
  <2> QED  BY <2>e, <2>u, <2>1 DEF QueueSound
<1>8. ASSUME NEW t \in Txns, NEW r \in Rids, GrantStep(t, r) PROVE ExclusiveQueue'
  <2> SUFFICES ASSUME NEW e \in ExclusiveRows PROVE QueueSound(e)'
    BY DEF ExclusiveQueue
  <2>e. e \in Rids /\ QueueSound(e)
    BY DEF ExclusiveRows, ExclusiveQueue
  <2>u. \A i \in DOMAIN queue[e] : queue[e][i].txn \in Txns
    BY <2>e, QueueTypes
  <2>1. PICK i \in DOMAIN queue[r] :
          \/ /\ holders' = [holders EXCEPT ![r][queue[r][i].txn] = queue[r][i].mode]
             /\ queue' = [queue EXCEPT ![r] = RemoveIdx(queue[r], i)]
          \/ UNCHANGED <<holders, queue>>
    BY <1>8, GrantStepQueue
  <2>2. pc' = pc /\ want' = want
    BY <1>8 DEF GrantStep
  <2>3. CASE holders'[e] = holders[e] /\ queue'[e] = queue[e]
    BY <2>2, <2>3, <2>e DEF QueueSound, Sleep
  <2>4. CASE /\ e = r
             /\ holders' = [holders EXCEPT ![r][queue[r][i].txn] = queue[r][i].mode]
             /\ queue' = [queue EXCEPT ![r] = RemoveIdx(queue[r], i)]
    <3> DEFINE u == queue[e][i].txn
    <3>1. u \in Txns /\ queue[e][i].mode = "X" /\ queue[e] \in Seq(Request) /\ i \in 1 .. Len(queue[e])
      BY <2>4, <2>e, <2>u, QueueTypes DEF QueueSound
    <3>2. /\ holders'[e][u] = "X" /\ \A x \in Txns : x # u => holders'[e][x] = holders[e][x]
          /\ queue'[e] = RemoveIdx(queue[e], i)
      BY <2>4, <2>e, <3>1 DEF TypeOK
    <3>3. /\ \A k \in DOMAIN queue'[e] : \E j \in DOMAIN queue[e] : j # i /\ queue'[e][k] = queue[e][j]
          /\ \A j, l \in DOMAIN queue'[e] : queue'[e][j].txn = queue'[e][l].txn => j = l
      BY <2>e, <3>1, <3>2, RemoveIdxKeeps DEF QueueSound
    <3>4. \A j \in DOMAIN queue[e] : j # i => queue[e][j].txn # u
      BY <2>4, <2>e DEF QueueSound
    <3> HIDE DEF u
    <3>5. \A k \in DOMAIN queue'[e] :
             /\ queue'[e][k].mode = "X" /\ holders'[e][queue'[e][k].txn] = "none"
             /\ pc'[queue'[e][k].txn] \in Sleep
             /\ want'[queue'[e][k].txn] = {[rid |-> e, mode |-> "X"]}
      BY <2>2, <2>e, <2>u, <3>2, <3>3, <3>4 DEF QueueSound, Sleep
    <3>6. \A x \in Txns : holders'[e][x] \in {"none", "X"}
      BY <2>e, <3>2 DEF QueueSound
    <3> QED  BY <3>3, <3>5, <3>6 DEF QueueSound
  <2> QED  BY <2>1, <2>3, <2>4, <2>e DEF TypeOK
<1>9. ASSUME NEW t \in Txns, NEW r \in Rids, GrantEnd(t, r) PROVE ExclusiveQueue'
  <2> SUFFICES ASSUME NEW e \in ExclusiveRows PROVE QueueSound(e)'
    BY DEF ExclusiveQueue
  <2>e. e \in Rids /\ QueueSound(e)
    BY DEF ExclusiveRows, ExclusiveQueue
  <2>u. \A i \in DOMAIN queue[e] : queue[e][i].txn \in Txns
    BY <2>e, QueueTypes
  <2>1. \A u \in Txns : pc[u] \in Sleep => pc'[u] \in Sleep /\ want'[u] = want[u]
    BY <1>9 DEF GrantEnd, Sleep, TypeOK
  <2>2. CASE UNCHANGED <<holders, queue>>
    BY <2>1, <2>2, <2>e, <2>u DEF QueueSound
  <2>3. CASE /\ holders' = [holders EXCEPT ![r] = [u \in Txns |-> "none"]]
             /\ queue' = [queue EXCEPT ![r] = <<>>]
    <3>1. CASE e = r
      BY <2>3, <2>e, <3>1 DEF QueueSound, TypeOK
    <3>2. CASE e # r
      <4>1. holders'[e] = holders[e] /\ queue'[e] = queue[e]
        BY <2>3, <2>e, <3>2 DEF TypeOK
      <4> QED  BY <2>1, <4>1, <2>e, <2>u DEF QueueSound
    <3> QED  BY <3>1, <3>2
  <2> QED  BY <1>9, <2>2, <2>3 DEF GrantEnd
<1>10. ASSUME NEW t \in Txns, NEW s \in Shards, LeaveShard(t, s) PROVE ExclusiveQueue'
  <2> SUFFICES ASSUME NEW e \in ExclusiveRows PROVE QueueSound(e)'
    BY DEF ExclusiveQueue
  <2>e. e \in Rids /\ QueueSound(e)
    BY DEF ExclusiveRows, ExclusiveQueue
  <2>u. \A i \in DOMAIN queue[e] : queue[e][i].txn \in Txns
    BY <2>e, QueueTypes
  <2>1. holders'[e] = holders[e] /\ queue'[e] = queue[e]
    BY <1>10, <2>e DEF LeaveShard, unlockVars, TypeOK
  <2>2. \A u \in Txns : pc[u] \in Sleep => pc'[u] \in Sleep /\ want'[u] = want[u]
    BY <1>10 DEF LeaveShard, unlockVars, Sleep, TypeOK
  <2>3. \A i \in DOMAIN queue[e] : pc[queue[e][i].txn] \in Sleep
    BY <2>e DEF QueueSound
  <2> QED  BY <2>e, <2>u, <2>1, <2>2, <2>3, QueueFrame
<1>11. ASSUME NEW t \in Txns, NEW s \in Shards, NotifyAll(t, s) PROVE ExclusiveQueue'
  <2> SUFFICES ASSUME NEW e \in ExclusiveRows PROVE QueueSound(e)'
    BY DEF ExclusiveQueue
  <2>e. e \in Rids /\ QueueSound(e)
    BY DEF ExclusiveRows, ExclusiveQueue
  <2>u. \A i \in DOMAIN queue[e] : queue[e][i].txn \in Txns
    BY <2>e, QueueTypes
  <2>1. holders'[e] = holders[e] /\ queue'[e] = queue[e]
    BY <1>11, <2>e DEF NotifyAll, TypeOK
  <2>2. \A u \in Txns : pc[u] \in Sleep => pc'[u] \in Sleep /\ want'[u] = want[u]
    BY <1>11 DEF NotifyAll, Sleep, TypeOK
  <2>3. \A i \in DOMAIN queue[e] : pc[queue[e][i].txn] \in Sleep
    BY <2>e DEF QueueSound
  <2> QED  BY <2>e, <2>u, <2>1, <2>2, <2>3, QueueFrame
<1>12. ASSUME NEW t \in Txns, UnlockReturn(t) PROVE ExclusiveQueue'
  <2> SUFFICES ASSUME NEW e \in ExclusiveRows PROVE QueueSound(e)'
    BY DEF ExclusiveQueue
  <2>e. e \in Rids /\ QueueSound(e)
    BY DEF ExclusiveRows, ExclusiveQueue
  <2>u. \A i \in DOMAIN queue[e] : queue[e][i].txn \in Txns
    BY <2>e, QueueTypes
  <2>1. holders'[e] = holders[e] /\ queue'[e] = queue[e]
    BY <1>12, <2>e DEF UnlockReturn, unlockVars, TypeOK
  <2>2. \A u \in Txns : pc[u] \in Sleep => pc'[u] \in Sleep /\ want'[u] = want[u]
    BY <1>12 DEF UnlockReturn, unlockVars, Sleep, TypeOK
  <2>3. \A i \in DOMAIN queue[e] : pc[queue[e][i].txn] \in Sleep
    BY <2>e DEF QueueSound
  <2> QED  BY <2>e, <2>u, <2>1, <2>2, <2>3, QueueFrame
<1>13. CASE UNCHANGED vars
  <2> SUFFICES ASSUME NEW e \in ExclusiveRows PROVE QueueSound(e)'
    BY DEF ExclusiveQueue
  <2>e. e \in Rids /\ QueueSound(e)
    BY DEF ExclusiveRows, ExclusiveQueue
  <2>u. \A i \in DOMAIN queue[e] : queue[e][i].txn \in Txns
    BY <2>e, QueueTypes
  <2>1. holders'[e] = holders[e] /\ queue'[e] = queue[e]
    BY <1>13, <2>e DEF vars, TypeOK
  <2>2. \A u \in Txns : pc[u] \in Sleep => pc'[u] \in Sleep /\ want'[u] = want[u]
    BY <1>13 DEF vars, Sleep, TypeOK
  <2>3. \A i \in DOMAIN queue[e] : pc[queue[e][i].txn] \in Sleep
    BY <2>e DEF QueueSound
  <2> QED  BY <2>e, <2>u, <2>1, <2>2, <2>3, QueueFrame
<1> QED
  BY <1>1, <1>2, <1>3, <1>4, <1>5, <1>6, <1>7, <1>8, <1>9, <1>10, <1>11, <1>12, <1>13
  DEF Next, Locking, Waiting, Unlocking, AllDone

\* On those rows a transaction holds what its set says, through returns, grants it has not
\* noticed yet, and releases.
LEMMA ExclusiveHeldKept == StrongInv /\ [Next]_vars => ExclusiveHeld'
<1> USE LockAssumption
<1> SUFFICES ASSUME StrongInv, [Next]_vars PROVE ExclusiveHeld'
  OBVIOUS
<1> USE DEF StrongInv, IInv
<1>1. ASSUME NEW t \in Txns, NEW r \in Rids, NEW m \in Modes[t][r], LockNow(t, r, m) PROVE ExclusiveHeld'
  <2> SUFFICES ASSUME NEW e \in ExclusiveRows, NEW x \in Txns PROVE HeldSound(e, x)'
    BY DEF ExclusiveHeld
  <2>e. e \in Rids /\ HeldSound(e, x) /\ holders[e][x] \in {"none", "X"}
    BY DEF ExclusiveRows, ExclusiveHeld, ExclusiveQueue, QueueSound
  <2>1. /\ holders' = [holders EXCEPT ![r][t] = m] /\ todo' = todo /\ pc[t] = "run"
        /\ \A u \in Txns : u # t => pc'[u] = pc[u] /\ want'[u] = want[u] /\ locks'[u] = locks[u]
        /\ locks'[t] = locks[t] \cup {r}
    BY <1>1, ReturnOkFacts DEF LockNow, unlockVars
  <2>2. CASE e = r /\ x = t
    <3>1. m = "X"
      BY <2>2, ExclusiveModes
    <3>2. holders'[e][x] = "X" /\ e \in locks'[x]
      BY <2>1, <2>2, <2>e, <3>1 DEF TypeOK
    <3> QED  BY <3>2 DEF HeldSound
  <2>3. CASE ~(e = r /\ x = t)
    <3>1. holders'[e][x] = holders[e][x]
      BY <2>1, <2>3, <2>e DEF TypeOK
    <3>2. e \in locks'[x] <=> e \in locks[x]
      BY <2>1, <2>3
    <3>3. x = t \/ (pc'[x] = pc[x] /\ want'[x] = want[x])
      BY <2>1
    <3> QED  BY <2>e, <2>1, <3>1, <3>2, <3>3 DEF HeldSound, Sleep
  <2> QED  BY <2>2, <2>3
<1>2. ASSUME NEW t \in Txns, NEW r \in Rids, NEW m \in Modes[t][r], LockQueue(t, r, m) PROVE ExclusiveHeld'
  <2> SUFFICES ASSUME NEW e \in ExclusiveRows, NEW x \in Txns PROVE HeldSound(e, x)'
    BY DEF ExclusiveHeld
  <2>e. e \in Rids /\ HeldSound(e, x) /\ holders[e][x] \in {"none", "X"}
    BY DEF ExclusiveRows, ExclusiveHeld, ExclusiveQueue, QueueSound
  <2>0. holders' = holders /\ todo' = todo /\ pc[t] = "run"
    BY <1>2 DEF LockQueue, unlockVars
  <2>1. CASE ReturnOk(t, r, m) /\ holders[r][t] # "none"
    <3>1. /\ \A u \in Txns : u # t => pc'[u] = pc[u] /\ want'[u] = want[u] /\ locks'[u] = locks[u]
          /\ locks'[t] = locks[t] \cup {r}
      BY <2>1, ReturnOkFacts
    <3> QED  BY <2>0, <2>1, <2>e, <3>1 DEF HeldSound, Sleep
  <2>2. CASE /\ pc' = [pc EXCEPT ![t] = "asleep"]
             /\ want' = [want EXCEPT ![t] = {[rid |-> r, mode |-> m]}]
             /\ UNCHANGED <<locks, last>>
    <3>1. \A u \in Txns : u # t => pc'[u] = pc[u] /\ want'[u] = want[u]
      BY <2>2 DEF TypeOK
    <3> QED  BY <2>0, <2>2, <2>e, <3>1 DEF HeldSound, Sleep
  <2> QED  BY <1>2, <2>1, <2>2 DEF LockQueue, WaitOver
<1>3. ASSUME NEW t \in Txns, NEW q \in want[t], Awake(t, q) PROVE ExclusiveHeld'
  <2> SUFFICES ASSUME NEW e \in ExclusiveRows, NEW x \in Txns PROVE HeldSound(e, x)'
    BY DEF ExclusiveHeld
  <2>e. e \in Rids /\ HeldSound(e, x) /\ holders[e][x] \in {"none", "X"}
    BY DEF ExclusiveRows, ExclusiveHeld, ExclusiveQueue, QueueSound
  <2>0. holders' = holders /\ todo' = todo /\ want[t] = {q} /\ q.rid \in Rids
    BY <1>3 DEF Awake, unlockVars, TypeOK, Asked
  <2>1. CASE ReturnOk(t, q.rid, q.mode) /\ holders[q.rid][t] # "none"
    <3>1. /\ \A u \in Txns : u # t => pc'[u] = pc[u] /\ want'[u] = want[u] /\ locks'[u] = locks[u]
          /\ locks'[t] = locks[t] \cup {q.rid}
      BY <2>0, <2>1, ReturnOkFacts
    <3> QED  BY <2>0, <2>1, <2>e, <3>1 DEF HeldSound
  <2>2. CASE pc' = [pc EXCEPT ![t] = "asleep"] /\ UNCHANGED <<want, locks, last>>
    <3>1. pc[x] \in Sleep => pc'[x] \in Sleep
      BY <2>2 DEF TypeOK, Sleep
    <3> QED  BY <2>0, <2>2, <2>e, <3>1 DEF HeldSound
  <2> QED  BY <1>3, <2>1, <2>2 DEF Awake, WaitOver
<1>4. ASSUME NEW t \in Txns, NEW q \in want[t], Timeout(t, q) PROVE ExclusiveHeld'
  <2> SUFFICES ASSUME NEW e \in ExclusiveRows, NEW x \in Txns PROVE HeldSound(e, x)'
    BY DEF ExclusiveHeld
  <2>e. e \in Rids /\ HeldSound(e, x) /\ holders[e][x] \in {"none", "X"}
    BY DEF ExclusiveRows, ExclusiveHeld, ExclusiveQueue, QueueSound
  <2>0. holders' = holders /\ todo' = todo /\ want[t] = {q} /\ q.rid \in Rids
    BY <1>4 DEF Timeout, unlockVars, TypeOK, Asked
  <2>1. CASE ReturnOk(t, q.rid, q.mode) /\ holders[q.rid][t] # "none"
    <3>1. /\ \A u \in Txns : u # t => pc'[u] = pc[u] /\ want'[u] = want[u] /\ locks'[u] = locks[u]
          /\ locks'[t] = locks[t] \cup {q.rid}
      BY <2>0, <2>1, ReturnOkFacts
    <3> QED  BY <2>0, <2>1, <2>e, <3>1 DEF HeldSound
  <2>2. CASE /\ pc' = [pc EXCEPT ![t] = "run"] /\ want' = [want EXCEPT ![t] = {}]
             /\ UNCHANGED locks /\ holders[q.rid][t] = "none"
    <3>1. \A u \in Txns : u # t => pc'[u] = pc[u] /\ want'[u] = want[u]
      BY <2>2 DEF TypeOK
    <3> QED  BY <2>0, <2>2, <2>e, <3>1 DEF HeldSound
  <2> QED  BY <1>4, <2>1, <2>2, TimeoutCases
<1>5. ASSUME NEW t \in Txns, UnlockAll(t) PROVE ExclusiveHeld'
  <2> SUFFICES ASSUME NEW e \in ExclusiveRows, NEW x \in Txns PROVE HeldSound(e, x)'
    BY DEF ExclusiveHeld
  <2>e. e \in Rids /\ HeldSound(e, x) /\ holders[e][x] \in {"none", "X"}
    BY DEF ExclusiveRows, ExclusiveHeld, ExclusiveQueue, QueueSound
  <2>1. /\ holders' = holders /\ want' = want /\ pc[t] = "run" /\ todo[t] = {}
        /\ todo'[t] = locks[t] /\ locks'[t] = {}
        /\ \A u \in Txns : u # t => pc'[u] = pc[u] /\ locks'[u] = locks[u] /\ todo'[u] = todo[u]
    BY <1>5 DEF UnlockAll, TypeOK, Phases
  <2> QED  BY <2>e, <2>1 DEF HeldSound, Sleep
<1>6. ASSUME NEW t \in Txns, NEW s \in Shards, EnterShard(t, s) PROVE ExclusiveHeld'
  <2> SUFFICES ASSUME NEW e \in ExclusiveRows, NEW x \in Txns PROVE HeldSound(e, x)'
    BY DEF ExclusiveHeld
  <2>e. e \in Rids /\ HeldSound(e, x) /\ holders[e][x] \in {"none", "X"}
    BY DEF ExclusiveRows, ExclusiveHeld, ExclusiveQueue, QueueSound
  <2>1. /\ holders' = holders /\ locks' = locks /\ todo' = todo /\ want' = want
        /\ pc[x] \in Sleep => pc'[x] \in Sleep
    BY <1>6 DEF EnterShard, Sleep, TypeOK
  <2> QED  BY <2>e, <2>1 DEF HeldSound
<1>7. ASSUME NEW t \in Txns, NEW r \in Rids, ReleaseRow(t, r) PROVE ExclusiveHeld'
  <2> SUFFICES ASSUME NEW e \in ExclusiveRows, NEW x \in Txns PROVE HeldSound(e, x)'
    BY DEF ExclusiveHeld
  <2>e. e \in Rids /\ HeldSound(e, x) /\ holders[e][x] \in {"none", "X"}
    BY DEF ExclusiveRows, ExclusiveHeld, ExclusiveQueue, QueueSound
  <2>1. /\ want' = want /\ locks' = locks /\ locks[t] = {}
        /\ \A u \in Txns : u # t => pc'[u] = pc[u] /\ todo'[u] = todo[u]
        /\ todo'[t] = todo[t] \ {r} /\ pc[t] = "shard"
    BY <1>7 DEF ReleaseRow, TypeOK, Phases, Sleep
  <2>2. CASE e = r /\ x = t
    <3>1. holders'[e][x] = "none"
      BY <1>7, <2>2 DEF ReleaseRow, TypeOK
    <3> QED  BY <2>1, <2>2, <3>1 DEF HeldSound
  <2>3. CASE ~(e = r /\ x = t)
    <3>1. holders'[e][x] = holders[e][x] /\ (e \in todo'[x] <=> e \in todo[x])
      BY <1>7, <2>1, <2>3, <2>e DEF ReleaseRow, TypeOK
    <3>2. x = t \/ pc'[x] = pc[x]
      BY <2>1
    <3> QED  BY <2>1, <2>e, <3>1, <3>2 DEF HeldSound, Sleep
  <2> QED  BY <2>2, <2>3
<1>8. ASSUME NEW t \in Txns, NEW r \in Rids, GrantStep(t, r) PROVE ExclusiveHeld'
  <2> SUFFICES ASSUME NEW e \in ExclusiveRows, NEW x \in Txns PROVE HeldSound(e, x)'
    BY DEF ExclusiveHeld
  <2>e. e \in Rids /\ HeldSound(e, x) /\ holders[e][x] \in {"none", "X"}
    BY DEF ExclusiveRows, ExclusiveHeld, ExclusiveQueue, QueueSound
  <2>1. PICK i \in DOMAIN queue[r] :
          \/ holders' = [holders EXCEPT ![r][queue[r][i].txn] = queue[r][i].mode]
          \/ UNCHANGED holders
    BY <1>8, GrantStepQueue
  <2>2. UNCHANGED <<pc, want, locks, todo>>
    BY <1>8 DEF GrantStep
  <2>3. CASE holders'[e][x] = holders[e][x]
    BY <2>2, <2>3, <2>e DEF HeldSound
  <2>4. CASE /\ e = r /\ x = queue[r][i].txn
             /\ holders' = [holders EXCEPT ![r][queue[r][i].txn] = queue[r][i].mode]
    <3>1. queue[e][i].mode = "X" /\ pc[x] \in Sleep /\ want[x] = {[rid |-> e, mode |-> "X"]}
      BY <2>4 DEF ExclusiveQueue, QueueSound
    <3>2. holders'[e][x] = "X"
      BY <2>4, <2>e, <3>1 DEF TypeOK
    <3> QED  BY <2>2, <3>1, <3>2 DEF HeldSound
  <2>5. queue[r][i].txn \in Txns
    BY QueueTypes
  <2> QED  BY <2>1, <2>3, <2>4, <2>5, <2>e DEF TypeOK
<1>9. ASSUME NEW t \in Txns, NEW r \in Rids, GrantEnd(t, r) PROVE ExclusiveHeld'
  <2> SUFFICES ASSUME NEW e \in ExclusiveRows, NEW x \in Txns PROVE HeldSound(e, x)'
    BY DEF ExclusiveHeld
  <2>e. e \in Rids /\ HeldSound(e, x) /\ holders[e][x] \in {"none", "X"}
    BY DEF ExclusiveRows, ExclusiveHeld, ExclusiveQueue, QueueSound
  <2>1. UNCHANGED <<want, locks, todo>> /\ (pc[x] \in Sleep => pc'[x] \in Sleep)
    BY <1>9 DEF GrantEnd, TypeOK, Sleep
  <2>2. CASE holders'[e][x] = holders[e][x]
    BY <2>1, <2>2, <2>e DEF HeldSound
  <2>3. CASE Unused(r) /\ holders' = [holders EXCEPT ![r] = [u \in Txns |-> "none"]]
    <3>1. \A u \in Txns : holders[r][u] = "none"
      BY <2>3 DEF Unused, HolderSet
    <3>2. holders'[e][x] = holders[e][x]
      BY <2>3, <2>e, <3>1 DEF TypeOK
    <3> QED  BY <2>2, <3>2
  <2> QED  BY <1>9, <2>2, <2>3 DEF GrantEnd
<1>10. ASSUME NEW t \in Txns, NEW s \in Shards, LeaveShard(t, s) PROVE ExclusiveHeld'
  <2> SUFFICES ASSUME NEW e \in ExclusiveRows, NEW x \in Txns PROVE HeldSound(e, x)'
    BY DEF ExclusiveHeld
  <2>e. e \in Rids /\ HeldSound(e, x) /\ holders[e][x] \in {"none", "X"}
    BY DEF ExclusiveRows, ExclusiveHeld, ExclusiveQueue, QueueSound
  <2>1. /\ holders' = holders /\ locks' = locks /\ todo' = todo /\ want' = want
        /\ pc[x] \in Sleep => pc'[x] \in Sleep
    BY <1>10 DEF LeaveShard, unlockVars, Sleep, TypeOK
  <2> QED  BY <2>e, <2>1 DEF HeldSound
<1>11. ASSUME NEW t \in Txns, NEW s \in Shards, NotifyAll(t, s) PROVE ExclusiveHeld'
  <2> SUFFICES ASSUME NEW e \in ExclusiveRows, NEW x \in Txns PROVE HeldSound(e, x)'
    BY DEF ExclusiveHeld
  <2>e. e \in Rids /\ HeldSound(e, x) /\ holders[e][x] \in {"none", "X"}
    BY DEF ExclusiveRows, ExclusiveHeld, ExclusiveQueue, QueueSound
  <2>1. /\ holders' = holders /\ locks' = locks /\ todo' = todo /\ want' = want
        /\ pc[x] \in Sleep => pc'[x] \in Sleep
    BY <1>11 DEF NotifyAll, Sleep, TypeOK
  <2> QED  BY <2>e, <2>1 DEF HeldSound
<1>12. ASSUME NEW t \in Txns, UnlockReturn(t) PROVE ExclusiveHeld'
  <2> SUFFICES ASSUME NEW e \in ExclusiveRows, NEW x \in Txns PROVE HeldSound(e, x)'
    BY DEF ExclusiveHeld
  <2>e. e \in Rids /\ HeldSound(e, x) /\ holders[e][x] \in {"none", "X"}
    BY DEF ExclusiveRows, ExclusiveHeld, ExclusiveQueue, QueueSound
  <2>1. /\ holders' = holders /\ locks' = locks /\ todo' = todo /\ want' = want
        /\ pc[x] \in Sleep => pc'[x] \in Sleep
    BY <1>12 DEF UnlockReturn, unlockVars, Sleep, TypeOK
  <2> QED  BY <2>e, <2>1 DEF HeldSound
<1>13. CASE UNCHANGED vars
  <2> SUFFICES ASSUME NEW e \in ExclusiveRows, NEW x \in Txns PROVE HeldSound(e, x)'
    BY DEF ExclusiveHeld
  <2>e. e \in Rids /\ HeldSound(e, x) /\ holders[e][x] \in {"none", "X"}
    BY DEF ExclusiveRows, ExclusiveHeld, ExclusiveQueue, QueueSound
  <2>1. /\ holders' = holders /\ locks' = locks /\ todo' = todo /\ want' = want
        /\ pc[x] \in Sleep => pc'[x] \in Sleep
    BY <1>13 DEF vars, Sleep, TypeOK
  <2> QED  BY <2>e, <2>1 DEF HeldSound
<1> QED
  BY <1>1, <1>2, <1>3, <1>4, <1>5, <1>6, <1>7, <1>8, <1>9, <1>10, <1>11, <1>12, <1>13
  DEF Next, Locking, Waiting, Unlocking, AllDone

\* A thread that walks a row's queue owns the mutex of the row's shard.
LEMMA WalkerOwns ==
    ASSUME IInv, NEW t \in Txns, pc[t] = "grant", NEW r \in row[t]
    PROVE  r \in Rids /\ mutex[ShardOf[r]] = t
  BY DEF IInv, TypeOK, Critical

\* A step that keeps a row's queue and its holders, and the walks that were under way.
LEMMA WalkedFrame ==
    ASSUME Walked, UNCHANGED <<queue, holders, row, idx>>,
           \A u \in Txns : pc[u] = "grant" <=> pc'[u] = "grant"
    PROVE  Walked'
  BY DEF Walked, HolderSet

\* A lock queues behind a holder, a release walks the queue it leaves without one, and the walk
\* ends with a holder or an empty queue.
LEMMA WalkedKept == StrongInv /\ [Next]_vars => Walked'
<1> USE LockAssumption
<1> SUFFICES ASSUME StrongInv, [Next]_vars PROVE Walked'
  OBVIOUS
<1> USE DEF StrongInv, IInv
<1>1. ASSUME NEW t \in Txns, NEW r \in Rids, NEW m \in Modes[t][r], LockNow(t, r, m) PROVE Walked'
  <2>1. queue' = queue /\ row' = row /\ idx' = idx /\ holders' = [holders EXCEPT ![r][t] = m]
    BY <1>1 DEF LockNow, unlockVars
  <2>2. \A u \in Txns : pc[u] = "grant" <=> pc'[u] = "grant"
    BY <1>1 DEF LockNow, ReturnOk, TypeOK
  <2>3. m # "none"
    BY ModesAssumption
  <2>4. \A x \in Rids : HolderSet(x) # {} => HolderSet(x)' # {}
    BY <2>1, <2>3 DEF HolderSet, TypeOK
  <2>5. \A u \in Txns : row[u] \subseteq Rids
    BY DEF TypeOK
  <2> QED  BY <2>1, <2>2, <2>4, <2>5 DEF Walked
<1>2. ASSUME NEW t \in Txns, NEW r \in Rids, NEW m \in Modes[t][r], LockQueue(t, r, m) PROVE Walked'
  <2>1. row' = row /\ idx' = idx /\ holders' = holders /\ Free(r) /\ ~CanGrant(t, r, m)
    BY <1>2 DEF LockQueue, unlockVars
  <2>2. \A u \in Txns : pc[u] = "grant" <=> pc'[u] = "grant"
    BY <1>2 DEF LockQueue, ReturnOk, TypeOK
  <2>3. \A x \in Rids : x # r => queue'[x] = queue[x]
    BY <1>2 DEF LockQueue, TypeOK
  <2>4. \A x \in Rids : HolderSet(x)' = HolderSet(x)
    BY <2>1 DEF HolderSet
  <2>5. HolderSet(r) # {}
    <3>1. SUFFICES ASSUME HolderSet(r) = {} PROVE FALSE
      OBVIOUS
    <3>2. \A u \in Txns : holders[r][u] = "none"
      BY <3>1 DEF HolderSet
    <3>3. queue[r] # <<>>
      BY <2>1, <3>1, <3>2 DEF CanGrant
    <3>4. PICK u \in Txns : pc[u] = "grant" /\ r \in row[u]
      BY <3>1, <3>3 DEF Walked
    <3> QED  BY <2>1, <3>4, WalkerOwns DEF Free
  <2>6. \A u \in Txns : row[u] \subseteq Rids
    BY DEF TypeOK
  <2> QED  BY <2>1, <2>2, <2>3, <2>4, <2>5, <2>6 DEF Walked
<1>3. ASSUME NEW t \in Txns, NEW q \in want[t], Awake(t, q) PROVE Walked'
  <2>1. UNCHANGED <<queue, holders, row, idx>>
    BY <1>3 DEF Awake, ReturnOk, unlockVars
  <2>2. \A u \in Txns : pc[u] = "grant" <=> pc'[u] = "grant"
    BY <1>3 DEF Awake, ReturnOk, unlockVars, TypeOK
  <2> QED  BY <2>1, <2>2, WalkedFrame
<1>4. ASSUME NEW t \in Txns, NEW q \in want[t], Timeout(t, q) PROVE Walked'
  <2>1. row' = row /\ idx' = idx /\ holders' = holders /\ q.rid \in Rids
    BY <1>4 DEF Timeout, unlockVars, TypeOK, Asked
  <2>2. \A u \in Txns : pc[u] = "grant" <=> pc'[u] = "grant"
    BY <1>4 DEF Timeout, ReturnOk, AfterTimeout, TypeOK
  <2>3. \A x \in Rids : queue[x] = <<>> => queue'[x] = <<>>
    <3> SUFFICES ASSUME NEW x \in Rids, queue[x] = <<>> PROVE queue'[x] = <<>>
      OBVIOUS
    <3>1. Without(<<>>, t) = <<>>
      BY DEF Without
    <3>2. queue' = queue \/ queue' = [queue EXCEPT ![q.rid] = Without(queue[q.rid], t)]
      BY <1>4 DEF Timeout
    <3> QED  BY <2>1, <3>1, <3>2 DEF TypeOK
  <2>4. \A x \in Rids : HolderSet(x)' = HolderSet(x)
    BY <2>1 DEF HolderSet
  <2>5. \A u \in Txns : row[u] \subseteq Rids
    BY DEF TypeOK
  <2> QED  BY <2>1, <2>2, <2>3, <2>4, <2>5 DEF Walked
<1>5. ASSUME NEW t \in Txns, UnlockAll(t) PROVE Walked'
  <2>1. UNCHANGED <<queue, holders, row, idx>>
    BY <1>5 DEF UnlockAll
  <2>2. \A u \in Txns : pc[u] = "grant" <=> pc'[u] = "grant"
    BY <1>5 DEF UnlockAll, TypeOK
  <2> QED  BY <2>1, <2>2, WalkedFrame
<1>6. ASSUME NEW t \in Txns, NEW s \in Shards, EnterShard(t, s) PROVE Walked'
  <2>1. UNCHANGED <<queue, holders, row, idx>>
    BY <1>6 DEF EnterShard
  <2>2. \A u \in Txns : pc[u] = "grant" <=> pc'[u] = "grant"
    BY <1>6 DEF EnterShard, TypeOK
  <2> QED  BY <2>1, <2>2, WalkedFrame
<1>7. ASSUME NEW t \in Txns, NEW r \in Rids, ReleaseRow(t, r) PROVE Walked'
  <2>1. /\ queue' = queue /\ holders' = [holders EXCEPT ![r][t] = "none"] /\ pc[t] = "shard"
        /\ pc'[t] = "grant" /\ row'[t] = {r} /\ idx'[t] = 1 /\ shard[t] = {ShardOf[r]}
        /\ \A u \in Txns : u # t => pc'[u] = pc[u] /\ row'[u] = row[u] /\ idx'[u] = idx[u]
    BY <1>7 DEF ReleaseRow, TypeOK
  <2>2. \A x \in Rids : x # r => HolderSet(x)' = HolderSet(x)
    BY <2>1 DEF HolderSet, TypeOK
  <2>3. \A u \in Txns : pc[u] = "grant" => r \notin row[u]
    <3>1. mutex[ShardOf[r]] = t
      BY <2>1 DEF Critical
    <3> QED  BY <2>1, <3>1, WalkerOwns
  <2>4. \A x \in Rids : queue'[x] # <<>> /\ HolderSet(x)' = {} =>
          \E u \in Txns : pc'[u] = "grant" /\ x \in row'[u]
    <3> SUFFICES ASSUME NEW x \in Rids, queue'[x] # <<>>, HolderSet(x)' = {}
                 PROVE  \E u \in Txns : pc'[u] = "grant" /\ x \in row'[u]
      OBVIOUS
    <3>1. CASE x = r
      BY <2>1, <3>1
    <3>2. CASE x # r
      BY <2>1, <2>2, <3>2 DEF Walked
    <3> QED  BY <3>1, <3>2
  <2>5. \A u \in Txns : row[u] \subseteq Rids
    BY DEF TypeOK
  <2>6. \A u \in Txns : pc'[u] = "grant" => \A x \in row'[u] : idx'[u] > 1 => HolderSet(x)' # {}
    <3> SUFFICES ASSUME NEW u \in Txns, pc'[u] = "grant", NEW x \in row'[u], idx'[u] > 1
                 PROVE  HolderSet(x)' # {}
      OBVIOUS
    <3>1. u # t
      BY <2>1
    <3> QED  BY <2>1, <2>2, <2>3, <2>5, <3>1 DEF Walked
  <2> QED  BY <2>4, <2>6 DEF Walked
<1>8. ASSUME NEW t \in Txns, NEW r \in Rids, GrantStep(t, r) PROVE Walked'
  <2>1. PICK i \in DOMAIN queue[r] :
          /\ i = idx[t]
          /\ \/ /\ holders' = [holders EXCEPT ![r][queue[r][i].txn] = queue[r][i].mode]
                /\ queue' = [queue EXCEPT ![r] = RemoveIdx(queue[r], i)]
                /\ idx' = [idx EXCEPT ![t] = i]
             \/ /\ ~Grantable(r, queue[r][i])
                /\ UNCHANGED <<holders, queue>>
                /\ idx' = [idx EXCEPT ![t] = i + 1]
    BY <1>8, GrantStepQueue
  <2>2. pc' = pc /\ row' = row /\ pc[t] = "grant" /\ row[t] = {r}
    BY <1>8 DEF GrantStep
  <2>3. /\ \A x \in Rids : x # r => HolderSet(x)' = HolderSet(x) /\ queue'[x] = queue[x]
        /\ HolderSet(r)' # {}
    <3>1. CASE /\ holders' = [holders EXCEPT ![r][queue[r][i].txn] = queue[r][i].mode]
               /\ queue' = [queue EXCEPT ![r] = RemoveIdx(queue[r], i)]
      <4>1. queue[r][i].txn \in Txns /\ queue[r][i].mode \in {"S", "X"}
        BY QueueTypes
      <4> QED  BY <3>1, <4>1 DEF HolderSet, TypeOK
    <3>2. CASE ~Grantable(r, queue[r][i]) /\ UNCHANGED <<holders, queue>>
      BY <3>2 DEF HolderSet, Grantable
    <3> QED  BY <2>1, <3>1, <3>2
  <2>4. \A u \in Txns : u # t => idx'[u] = idx[u]
    BY <2>1 DEF TypeOK
  <2>5. \A u \in Txns : row[u] \subseteq Rids
    BY DEF TypeOK
  <2>6. \A x \in Rids : queue'[x] # <<>> /\ HolderSet(x)' = {} =>
          \E u \in Txns : pc'[u] = "grant" /\ x \in row'[u]
    BY <2>2, <2>3 DEF Walked
  <2>7. \A u \in Txns : pc'[u] = "grant" => \A x \in row'[u] : idx'[u] > 1 => HolderSet(x)' # {}
    BY <2>2, <2>3, <2>4, <2>5 DEF Walked
  <2> QED  BY <2>6, <2>7 DEF Walked
<1>9. ASSUME NEW t \in Txns, NEW r \in Rids, GrantEnd(t, r) PROVE Walked'
  <2>1. /\ pc[t] = "grant" /\ row[t] = {r} /\ idx' = idx /\ pc'[t] = "shard"
        /\ \A u \in Txns : u # t => pc'[u] = pc[u] /\ row'[u] = row[u]
    BY <1>9 DEF GrantEnd, TypeOK
  <2>2. \A x \in Rids : HolderSet(x)' = HolderSet(x) /\ (queue'[x] # <<>> => queue[x] # <<>>)
    <3>1. CASE UNCHANGED <<holders, queue>>
      BY <3>1 DEF HolderSet
    <3>2. CASE /\ Unused(r)
               /\ holders' = [holders EXCEPT ![r] = [u \in Txns |-> "none"]]
               /\ queue' = [queue EXCEPT ![r] = <<>>]
      <4>1. HolderSet(r)' = HolderSet(r)
        BY <3>2 DEF HolderSet, Unused, TypeOK
      <4> QED  BY <3>2, <4>1 DEF HolderSet, TypeOK
    <3> QED  BY <1>9, <3>1, <3>2 DEF GrantEnd
  <2>3. queue[r] # <<>> => HolderSet(r) # {}
    <3> SUFFICES ASSUME queue[r] # <<>> PROVE HolderSet(r) # {}
      OBVIOUS
    <3>1. queue[r] \in Seq(Request) /\ idx[t] \in Nat \ {0}
      BY DEF TypeOK
    <3>2. CASE idx[t] <= Len(queue[r])
      BY <1>9, <3>2 DEF GrantEnd, Grantable
    <3>3. CASE ~(idx[t] <= Len(queue[r]))
      <4>1. Len(queue[r]) \in Nat /\ Len(queue[r]) # 0
        BY <3>1
      <4>2. idx[t] > 1
        BY <3>1, <3>3, <4>1
      <4> QED  BY <2>1, <4>2 DEF Walked
    <3> QED  BY <3>2, <3>3
  <2>4. \A u \in Txns : row[u] \subseteq Rids
    BY DEF TypeOK
  <2>5. \A x \in Rids : queue'[x] # <<>> /\ HolderSet(x)' = {} =>
          \E u \in Txns : pc'[u] = "grant" /\ x \in row'[u]
    <3> SUFFICES ASSUME NEW x \in Rids, queue'[x] # <<>>, HolderSet(x)' = {}
                 PROVE  \E u \in Txns : pc'[u] = "grant" /\ x \in row'[u]
      OBVIOUS
    <3>1. x # r
      BY <2>2, <2>3
    <3>2. PICK u \in Txns : pc[u] = "grant" /\ x \in row[u]
      BY <2>2 DEF Walked
    <3> QED  BY <2>1, <3>1, <3>2
  <2>6. \A u \in Txns : pc'[u] = "grant" => \A x \in row'[u] : idx'[u] > 1 => HolderSet(x)' # {}
    BY <2>1, <2>2, <2>4 DEF Walked
  <2> QED  BY <2>5, <2>6 DEF Walked
<1>10. ASSUME NEW t \in Txns, NEW s \in Shards, LeaveShard(t, s) PROVE Walked'
  <2>1. UNCHANGED <<queue, holders, row, idx>>
    BY <1>10 DEF LeaveShard, unlockVars
  <2>2. \A u \in Txns : pc[u] = "grant" <=> pc'[u] = "grant"
    BY <1>10 DEF LeaveShard, unlockVars, TypeOK
  <2> QED  BY <2>1, <2>2, WalkedFrame
<1>11. ASSUME NEW t \in Txns, NEW s \in Shards, NotifyAll(t, s) PROVE Walked'
  <2>1. UNCHANGED <<queue, holders, row, idx>>
    BY <1>11 DEF NotifyAll
  <2>2. \A u \in Txns : pc[u] = "grant" <=> pc'[u] = "grant"
    BY <1>11 DEF NotifyAll, TypeOK
  <2> QED  BY <2>1, <2>2, WalkedFrame
<1>12. ASSUME NEW t \in Txns, UnlockReturn(t) PROVE Walked'
  <2>1. UNCHANGED <<queue, holders, row, idx>>
    BY <1>12 DEF UnlockReturn, unlockVars
  <2>2. \A u \in Txns : pc[u] = "grant" <=> pc'[u] = "grant"
    BY <1>12 DEF UnlockReturn, unlockVars, TypeOK
  <2> QED  BY <2>1, <2>2, WalkedFrame
<1>13. CASE UNCHANGED vars
  <2>1. UNCHANGED <<queue, holders, row, idx>>
    BY <1>13 DEF vars
  <2>2. \A u \in Txns : pc[u] = "grant" <=> pc'[u] = "grant"
    BY <1>13 DEF vars, TypeOK
  <2> QED  BY <2>1, <2>2, WalkedFrame
<1> QED
  BY <1>1, <1>2, <1>3, <1>4, <1>5, <1>6, <1>7, <1>8, <1>9, <1>10, <1>11, <1>12, <1>13
  DEF Next, Locking, Waiting, Unlocking, AllDone

\* A step that only adds entries, and leaves queues, holders and waiting threads as they are.
LEMMA ListedFrame ==
    ASSUME Listed, entries \subseteq entries', UNCHANGED <<queue, holders>>,
           \A u \in Txns : pc'[u] \in Sleep => pc[u] \in Sleep /\ want'[u] = want[u]
    PROVE  Listed'
  BY DEF Listed

\* A waiting request stays in its queue until it is granted or times out, and its row keeps its
\* entry.
LEMMA ListedKept == StrongInv /\ [Next]_vars => Listed'
<1> USE LockAssumption
<1> SUFFICES ASSUME StrongInv, [Next]_vars PROVE Listed'
  OBVIOUS
<1> USE DEF StrongInv, IInv
<1>1. ASSUME NEW t \in Txns, NEW r \in Rids, NEW m \in Modes[t][r], LockNow(t, r, m) PROVE Listed'
  <2> SUFFICES ASSUME NEW x \in Txns, pc'[x] \in Sleep, NEW p \in want'[x]
               PROVE  /\ p.rid \in entries'
                      /\ \/ holders'[p.rid][x] # "none"
                         \/ \E i \in DOMAIN queue'[p.rid] : queue'[p.rid][i].txn = x
    BY DEF Listed
  <2>1. pc[x] \in Sleep /\ want'[x] = want[x]
    BY <1>1 DEF LockNow, ReturnOk, TypeOK, Sleep
  <2>p. /\ p.rid \in Rids /\ p.rid \in entries
        /\ \/ holders[p.rid][x] # "none"
           \/ \E i \in DOMAIN queue[p.rid] : queue[p.rid][i].txn = x
    BY <2>1 DEF Listed, TypeOK, Asked
  <2>2. m # "none"
    BY ModesAssumption
  <2>3. /\ p.rid \in entries' /\ queue' = queue
        /\ holders[p.rid][x] # "none" => holders'[p.rid][x] # "none"
    BY <1>1, <2>2, <2>p DEF LockNow, TypeOK
  <2> QED  BY <2>3, <2>p
<1>2. ASSUME NEW t \in Txns, NEW r \in Rids, NEW m \in Modes[t][r], LockQueue(t, r, m) PROVE Listed'
  <2> SUFFICES ASSUME NEW x \in Txns, pc'[x] \in Sleep, NEW p \in want'[x]
               PROVE  /\ p.rid \in entries'
                      /\ \/ holders'[p.rid][x] # "none"
                         \/ \E i \in DOMAIN queue'[p.rid] : queue'[p.rid][i].txn = x
    BY DEF Listed
  <2>0. /\ entries' = entries \cup {r} /\ holders' = holders
        /\ queue' = [queue EXCEPT ![r] = Append(queue[r], [txn |-> t, mode |-> m])]
    BY <1>2 DEF LockQueue
  <2> DEFINE n == [txn |-> t, mode |-> m]
  <2>n. n.txn = t /\ n \in Request
    BY ModesAssumption DEF Request
  <2>q. queue[r] \in Seq(Request) /\ queue'[r] = Append(queue[r], n)
    BY <2>0 DEF TypeOK
  <2> HIDE DEF n
  <2>a. /\ \A i \in DOMAIN queue[r] : i \in DOMAIN queue'[r] /\ queue'[r][i] = queue[r][i]
        /\ Len(queue[r]) + 1 \in DOMAIN queue'[r] /\ queue'[r][Len(queue[r]) + 1] = n
    BY <2>n, <2>q
  <2>b. CASE x # t
    <3>1. pc[x] \in Sleep /\ want'[x] = want[x]
      BY <1>2, <2>b DEF LockQueue, ReturnOk, TypeOK
    <3>2. /\ p.rid \in Rids /\ p.rid \in entries
          /\ \/ holders[p.rid][x] # "none"
             \/ \E i \in DOMAIN queue[p.rid] : queue[p.rid][i].txn = x
      BY <3>1 DEF Listed, TypeOK, Asked
    <3>3. CASE p.rid = r
      BY <2>0, <2>a, <3>2, <3>3
    <3>4. CASE p.rid # r
      BY <2>0, <3>2, <3>4 DEF TypeOK
    <3> QED  BY <3>3, <3>4
  <2>c. CASE x = t
    <3>1. want'[t] = {[rid |-> r, mode |-> m]}
      BY <1>2, <2>c DEF LockQueue, ReturnOk, TypeOK, Sleep
    <3>2. p.rid = r
      BY <2>c, <3>1
    <3> QED  BY <2>0, <2>a, <2>n, <2>c, <3>2
  <2> QED  BY <2>b, <2>c
<1>3. ASSUME NEW t \in Txns, NEW q \in want[t], Awake(t, q) PROVE Listed'
  <2>1. entries \subseteq entries' /\ UNCHANGED <<queue, holders>>
    BY <1>3 DEF Awake, ReturnOk, unlockVars
  <2>2. \A u \in Txns : pc'[u] \in Sleep => pc[u] \in Sleep /\ want'[u] = want[u]
    BY <1>3 DEF Awake, ReturnOk, unlockVars, Sleep, TypeOK
  <2> QED  BY <2>1, <2>2, ListedFrame
<1>4. ASSUME NEW t \in Txns, NEW q \in want[t], Timeout(t, q) PROVE Listed'
  <2> SUFFICES ASSUME NEW x \in Txns, pc'[x] \in Sleep, NEW p \in want'[x]
               PROVE  /\ p.rid \in entries'
                      /\ \/ holders'[p.rid][x] # "none"
                         \/ \E i \in DOMAIN queue'[p.rid] : queue'[p.rid][i].txn = x
    BY DEF Listed
  <2>1. x # t /\ pc[x] \in Sleep /\ want'[x] = want[x]
    BY <1>4 DEF Timeout, ReturnOk, AfterTimeout, TypeOK, Sleep
  <2>p. /\ p.rid \in Rids /\ p.rid \in entries
        /\ \/ holders[p.rid][x] # "none"
           \/ \E i \in DOMAIN queue[p.rid] : queue[p.rid][i].txn = x
    BY <2>1 DEF Listed, TypeOK, Asked
  <2>2. entries' = entries /\ holders' = holders
    BY <1>4 DEF Timeout
  <2>3. queue' = queue \/ queue' = [queue EXCEPT ![q.rid] = Without(queue[q.rid], t)]
    BY <1>4 DEF Timeout
  <2>4. CASE queue'[p.rid] = queue[p.rid]
    BY <2>2, <2>4, <2>p
  <2>5. CASE queue'[p.rid] = Without(queue[p.rid], t)
    <3>1. queue[p.rid] \in Seq(Request)
      BY <2>p DEF TypeOK
    <3>2. \A j \in DOMAIN queue[p.rid] : queue[p.rid][j].txn # t =>
             \E k \in DOMAIN queue'[p.rid] : queue'[p.rid][k] = queue[p.rid][j]
      BY <2>5, <3>1, WithoutKeeps
    <3> QED  BY <2>1, <2>2, <2>p, <3>2
  <2> QED  BY <2>3, <2>4, <2>5, <2>p DEF TypeOK
<1>5. ASSUME NEW t \in Txns, UnlockAll(t) PROVE Listed'
  <2>1. entries \subseteq entries' /\ UNCHANGED <<queue, holders>>
    BY <1>5 DEF UnlockAll
  <2>2. \A u \in Txns : pc'[u] \in Sleep => pc[u] \in Sleep /\ want'[u] = want[u]
    BY <1>5 DEF UnlockAll, Sleep, TypeOK
  <2> QED  BY <2>1, <2>2, ListedFrame
<1>6. ASSUME NEW t \in Txns, NEW s \in Shards, EnterShard(t, s) PROVE Listed'
  <2>1. entries \subseteq entries' /\ UNCHANGED <<queue, holders>>
    BY <1>6 DEF EnterShard
  <2>2. \A u \in Txns : pc'[u] \in Sleep => pc[u] \in Sleep /\ want'[u] = want[u]
    BY <1>6 DEF EnterShard, Sleep, TypeOK
  <2> QED  BY <2>1, <2>2, ListedFrame
<1>7. ASSUME NEW t \in Txns, NEW r \in Rids, ReleaseRow(t, r) PROVE Listed'
  <2> SUFFICES ASSUME NEW x \in Txns, pc'[x] \in Sleep, NEW p \in want'[x]
               PROVE  /\ p.rid \in entries'
                      /\ \/ holders'[p.rid][x] # "none"
                         \/ \E i \in DOMAIN queue'[p.rid] : queue'[p.rid][i].txn = x
    BY DEF Listed
  <2>1. x # t /\ pc[x] \in Sleep /\ want'[x] = want[x]
    BY <1>7 DEF ReleaseRow, TypeOK, Sleep
  <2>p. /\ p.rid \in Rids /\ p.rid \in entries
        /\ \/ holders[p.rid][x] # "none"
           \/ \E i \in DOMAIN queue[p.rid] : queue[p.rid][i].txn = x
    BY <2>1 DEF Listed, TypeOK, Asked
  <2>2. entries' = entries /\ queue' = queue /\ holders'[p.rid][x] = holders[p.rid][x]
    BY <1>7, <2>1, <2>p DEF ReleaseRow, TypeOK
  <2> QED  BY <2>2, <2>p
<1>8. ASSUME NEW t \in Txns, NEW r \in Rids, GrantStep(t, r) PROVE Listed'
  <2> SUFFICES ASSUME NEW x \in Txns, pc'[x] \in Sleep, NEW p \in want'[x]
               PROVE  /\ p.rid \in entries'
                      /\ \/ holders'[p.rid][x] # "none"
                         \/ \E i \in DOMAIN queue'[p.rid] : queue'[p.rid][i].txn = x
    BY DEF Listed
  <2>1. pc[x] \in Sleep /\ want'[x] = want[x] /\ entries' = entries
    BY <1>8 DEF GrantStep
  <2>p. /\ p.rid \in Rids /\ p.rid \in entries
        /\ \/ holders[p.rid][x] # "none"
           \/ \E i \in DOMAIN queue[p.rid] : queue[p.rid][i].txn = x
    BY <2>1 DEF Listed, TypeOK, Asked
  <2>2. PICK i \in DOMAIN queue[r] :
          \/ /\ holders' = [holders EXCEPT ![r][queue[r][i].txn] = queue[r][i].mode]
             /\ queue' = [queue EXCEPT ![r] = RemoveIdx(queue[r], i)]
          \/ UNCHANGED <<holders, queue>>
    BY <1>8, GrantStepQueue
  <2>3. CASE holders'[p.rid] = holders[p.rid] /\ queue'[p.rid] = queue[p.rid]
    BY <2>1, <2>3, <2>p
  <2>4. CASE /\ p.rid = r
             /\ holders' = [holders EXCEPT ![r][queue[r][i].txn] = queue[r][i].mode]
             /\ queue' = [queue EXCEPT ![r] = RemoveIdx(queue[r], i)]
    <3>1. /\ queue[r][i].txn \in Txns /\ queue[r][i].mode \in {"S", "X"}
          /\ queue[r] \in Seq(Request) /\ i \in 1 .. Len(queue[r])
      BY QueueTypes
    <3>2. /\ holders'[r][queue[r][i].txn] # "none"
          /\ holders[r][x] # "none" => holders'[r][x] # "none"
          /\ queue'[r] = RemoveIdx(queue[r], i)
      BY <2>4, <3>1 DEF TypeOK
    <3>3. \A j \in DOMAIN queue[r] : j # i =>
             \E k \in DOMAIN queue'[r] : queue'[r][k] = queue[r][j]
      BY <3>1, <3>2, RemoveIdxKeeps
    <3> QED  BY <2>1, <2>4, <2>p, <3>2, <3>3
  <2> QED  BY <2>2, <2>3, <2>4, <2>p DEF TypeOK
<1>9. ASSUME NEW t \in Txns, NEW r \in Rids, GrantEnd(t, r) PROVE Listed'
  <2> SUFFICES ASSUME NEW x \in Txns, pc'[x] \in Sleep, NEW p \in want'[x]
               PROVE  /\ p.rid \in entries'
                      /\ \/ holders'[p.rid][x] # "none"
                         \/ \E i \in DOMAIN queue'[p.rid] : queue'[p.rid][i].txn = x
    BY DEF Listed
  <2>1. pc[x] \in Sleep /\ want'[x] = want[x]
    BY <1>9 DEF GrantEnd, TypeOK, Sleep
  <2>p. /\ p.rid \in Rids /\ p.rid \in entries
        /\ \/ holders[p.rid][x] # "none"
           \/ \E i \in DOMAIN queue[p.rid] : queue[p.rid][i].txn = x
    BY <2>1 DEF Listed, TypeOK, Asked
  <2>2. CASE UNCHANGED <<entries, holders, queue>>
    BY <2>2, <2>p
  <2>3. CASE /\ Unused(r) /\ entries' = entries \ {r}
             /\ holders' = [holders EXCEPT ![r] = [u \in Txns |-> "none"]]
             /\ queue' = [queue EXCEPT ![r] = <<>>]
    <3>1. p.rid # r
      BY <2>3, <2>p DEF Unused, HolderSet
    <3> QED  BY <2>3, <2>p, <3>1 DEF TypeOK
  <2> QED  BY <1>9, <2>2, <2>3 DEF GrantEnd
<1>10. ASSUME NEW t \in Txns, NEW s \in Shards, LeaveShard(t, s) PROVE Listed'
  <2>1. entries \subseteq entries' /\ UNCHANGED <<queue, holders>>
    BY <1>10 DEF LeaveShard, unlockVars
  <2>2. \A u \in Txns : pc'[u] \in Sleep => pc[u] \in Sleep /\ want'[u] = want[u]
    BY <1>10 DEF LeaveShard, unlockVars, Sleep, TypeOK
  <2> QED  BY <2>1, <2>2, ListedFrame
<1>11. ASSUME NEW t \in Txns, NEW s \in Shards, NotifyAll(t, s) PROVE Listed'
  <2>1. entries \subseteq entries' /\ UNCHANGED <<queue, holders>>
    BY <1>11 DEF NotifyAll
  <2>2. \A u \in Txns : pc'[u] \in Sleep => pc[u] \in Sleep /\ want'[u] = want[u]
    BY <1>11 DEF NotifyAll, Sleep, TypeOK
  <2> QED  BY <2>1, <2>2, ListedFrame
<1>12. ASSUME NEW t \in Txns, UnlockReturn(t) PROVE Listed'
  <2>1. entries \subseteq entries' /\ UNCHANGED <<queue, holders>>
    BY <1>12 DEF UnlockReturn, unlockVars
  <2>2. \A u \in Txns : pc'[u] \in Sleep => pc[u] \in Sleep /\ want'[u] = want[u]
    BY <1>12 DEF UnlockReturn, unlockVars, Sleep, TypeOK
  <2> QED  BY <2>1, <2>2, ListedFrame
<1>13. CASE UNCHANGED vars
  <2>1. entries \subseteq entries' /\ UNCHANGED <<queue, holders>>
    BY <1>13 DEF vars
  <2>2. \A u \in Txns : pc'[u] \in Sleep => pc[u] \in Sleep /\ want'[u] = want[u]
    BY <1>13 DEF vars, Sleep, TypeOK
  <2> QED  BY <2>1, <2>2, ListedFrame
<1> QED
  BY <1>1, <1>2, <1>3, <1>4, <1>5, <1>6, <1>7, <1>8, <1>9, <1>10, <1>11, <1>12, <1>13
  DEF Next, Locking, Waiting, Unlocking, AllDone

-----------------------------------------------------------------------------
(* Theorems *)

\* The lock table starts empty and every step keeps the invariant.
THEOREM Invariance == Spec => []IInv
<1>1. Init => IInv
  BY LockAssumption
  DEF Init, IInv, TypeOK, Compatible, Critical, Prefix, Held, Request, Asked, PCs
<1>2. IInv /\ [Next]_vars => IInv'
  BY TypeOKKept, CompatibleKept, CriticalKept, PrefixKept DEF IInv
<1> QED  BY <1>1, <1>2, PTL DEF Spec

\* The variables of the lock manager keep their types; in particular
\* grant_waiting's index never leaves the naturals.
THEOREM TypeCorrect == Spec => []TypeOK
  BY Invariance, PTL DEF IInv

\* An exclusive holder of a row is its only holder, however the lock was
\* obtained: at once, from the queue, by upgrade or by re-acquisition.
THEOREM ExclusiveIsExclusive == Spec => []Compatible
  BY Invariance, PTL DEF IInv

\* A shared lock is never granted past an exclusive request queued before it, so
\* a stream of readers cannot starve a waiting writer.
THEOREM WritersKeepTheirTurn == Spec => WriterNotOvertaken
<1> DEFINE Step == \A r \in Rids, t \in Txns :
         holders[r][t] = "none" /\ holders'[r][t] = "S" =>
            \A i \in DOMAIN queue[r] :
                (\A j \in 1 .. i : queue[r][j].txn # t) => queue[r][i].mode # "X"
<1>1. IInv /\ [Next]_vars => [Step]_vars
  <2> SUFFICES ASSUME IInv, Next,
                      NEW r \in Rids, NEW t \in Txns,
                      holders[r][t] = "none", holders'[r][t] = "S",
                      NEW i \in DOMAIN queue[r], \A j \in 1 .. i : queue[r][j].txn # t
               PROVE  queue[r][i].mode = "S"
    OBVIOUS
  <2> USE DEF IInv
  <2>1. ASSUME NEW u \in Txns, NEW x \in Rids, NEW m \in {"S", "X"}, LockNow(u, x, m)
        PROVE  queue[r] = <<>>
    <3>1. u = t /\ x = r
      BY <2>1 DEF LockNow, TypeOK
    <3> QED  BY <2>1, <3>1 DEF LockNow, CanGrant
  <2>2. ASSUME NEW u \in Txns, NEW x \in Rids, GrantStep(u, x)
        PROVE  queue[r][i].mode = "S"
    <3>1. PICK k \in 1 .. Len(queue[x]) : k = idx[u] /\ queue[x][k] \in Request
      BY <2>2 DEF GrantStep, GrantNext, TypeOK
    <3>2. queue[x][k].txn \in Txns
      BY <3>1 DEF Request
    <3>3. \/ holders' = holders
          \/ holders' = [holders EXCEPT ![x][queue[x][k].txn] = queue[x][k].mode]
      BY <2>2, <3>1 DEF GrantStep, GrantNext
    <3>4. x = r /\ queue[x][k].txn = t
      BY <3>2, <3>3 DEF TypeOK
    <3>5. i \in 1 .. (k - 1)
      BY <3>1, <3>4 DEF TypeOK
    <3> QED  BY <2>2, <3>1, <3>4, <3>5 DEF GrantStep, Prefix
  <2>3. ASSUME holders' = holders
        PROVE  FALSE
    BY <2>3
  <2>4. ASSUME NEW u \in Txns, NEW x \in Rids, ReleaseRow(u, x) \/ GrantEnd(u, x)
        PROVE  FALSE
    <3>1. \/ holders' = holders
          \/ holders' = [holders EXCEPT ![x][u] = "none"]
          \/ holders' = [holders EXCEPT ![x] = [v \in Txns |-> "none"]]
      BY <2>4 DEF ReleaseRow, GrantEnd
    <3>2. CASE holders' = [holders EXCEPT ![x][u] = "none"]
      BY <3>2 DEF TypeOK
    <3>3. CASE holders' = [holders EXCEPT ![x] = [v \in Txns |-> "none"]]
      BY <3>3 DEF TypeOK
    <3> QED  BY <2>3, <3>1, <3>2, <3>3
  <2>5. ASSUME NEW u \in Txns, Waiting(u) \/ UnlockAll(u) \/ UnlockReturn(u)
        PROVE  holders' = holders
    BY <2>5 DEF Waiting, Awake, Timeout, UnlockAll, UnlockReturn
  <2>6. ASSUME NEW u \in Txns, NEW s \in Shards,
               EnterShard(u, s) \/ LeaveShard(u, s) \/ NotifyAll(u, s)
        PROVE  holders' = holders
    BY <2>6 DEF EnterShard, LeaveShard, NotifyAll
  <2>7. ASSUME NEW u \in Txns, NEW x \in Rids, NEW m \in {"S", "X"}, LockQueue(u, x, m)
        PROVE  holders' = holders
    BY <2>7 DEF LockQueue
  <2>8. AllDone => holders' = holders
    BY DEF AllDone, vars
  <2> QED
    BY <2>1, <2>2, <2>3, <2>4, <2>5, <2>6, <2>7, <2>8, LockingModes DEF Next, Unlocking
<1> QED  BY <1>1, Invariance, PTL DEF Spec, WriterNotOvertaken

\* The stronger invariant, with what each phase, each exclusive row and each walk keeps.
THEOREM StrongInvariance == Spec => []StrongInv
<1>1. Init => StrongInv
  <2> SUFFICES ASSUME Init PROVE StrongInv
    OBVIOUS
  <2>1. IInv
    BY LockAssumption
    DEF Init, IInv, TypeOK, Compatible, Critical, Prefix, Held, Request, Asked, PCs
  <2>2. Phases /\ Walked /\ Listed
    BY DEF Init, Phases, Walked, Listed, Sleep
  <2>3. \A r \in ExclusiveRows : r \in Rids
    BY DEF ExclusiveRows
  <2>4. ExclusiveQueue /\ ExclusiveHeld
    BY <2>3 DEF Init, ExclusiveQueue, ExclusiveHeld, QueueSound, HeldSound
  <2> QED  BY <2>1, <2>2, <2>4 DEF StrongInv
<1>2. StrongInv /\ [Next]_vars => StrongInv'
  BY TypeOKKept, CompatibleKept, CriticalKept, PrefixKept, PhasesKept, ExclusiveQueueKept,
     ExclusiveHeldKept, WalkedKept, ListedKept
  DEF StrongInv, IInv
<1> QED  BY <1>1, <1>2, PTL DEF Spec

\* lock() on a row that is locked exclusively only returns Ok to a holder of the lock, after
\* spurious wakeups, timeouts and grants that come late.
THEOREM OkIsHonest == Spec => []OkMeansGranted
<1>1. StrongInv => OkMeansGranted
  BY DEF StrongInv, Phases, ExclusiveHeld, HeldSound, OkMeansGranted
<1> QED  BY <1>1, StrongInvariance, PTL

\* A transaction whose unlock_all has returned holds no such row and has no request left that
\* could still be granted, also when calls of it timed out.
THEOREM NoLockOutlives == Spec => []NothingOutlives
<1>1. StrongInv => NothingOutlives
  <2> SUFFICES ASSUME StrongInv, NEW t \in Txns, pc[t] = "done", NEW r \in ExclusiveRows
               PROVE  holders[r][t] = "none" /\ \A i \in DOMAIN queue[r] : queue[r][i].txn # t
    BY DEF NothingOutlives
  <2>1. locks[t] = {} /\ todo[t] = {} /\ pc[t] \notin Sleep
    BY DEF StrongInv, Phases, Sleep
  <2>2. HeldSound(r, t) /\ QueueSound(r)
    BY DEF StrongInv, ExclusiveHeld, ExclusiveQueue
  <2> QED  BY <2>1, <2>2 DEF HeldSound, QueueSound
<1> QED  BY <1>1, StrongInvariance, PTL

\* No release and no timeout leaves requests in the queue of a row that nobody holds, nor takes
\* the entry that a sleeping thread's wait condition looks up.
THEOREM WaitersAreServed == Spec => []NobodyStranded
<1>1. StrongInv => NobodyStranded
  <2> SUFFICES ASSUME StrongInv PROVE NobodyStranded
    OBVIOUS
  <2>1. ASSUME NEW r \in Rids, Free(r), queue[r] # <<>>, HolderSet(r) = {} PROVE FALSE
    <3>1. PICK t \in Txns : pc[t] = "grant" /\ r \in row[t]
      BY <2>1 DEF StrongInv, Walked
    <3>2. mutex[ShardOf[r]] = t
      BY <3>1, WalkerOwns DEF StrongInv
    <3> QED  BY <2>1, <3>2, LockAssumption DEF Free
  <2>2. \A t \in Txns : pc[t] \in {"asleep", "awake"} => \A q \in want[t] : q.rid \in entries
    BY DEF StrongInv, Listed, Sleep
  <2> QED  BY <2>1, <2>2 DEF NobodyStranded
<1> QED  BY <1>1, StrongInvariance, PTL
=============================================================================
