------------------------------ MODULE WalProofs ------------------------------
(***************************************************************************)
(* Proofs about Wal, for every set of threads and pages and every bound.   *)
(*                                                                         *)
(* DurableUnlessExposed holds because of what flushed_lsn means: an LSN it *)
(* covers is durable, exposed, or still in append() and exposed.  That is  *)
(* an invariant since nobody can append between an fsync and the store     *)
(* that publishes it (the writer mutex), and since an append that has its  *)
(* LSN but not its record in the file at that moment is recorded as        *)
(* exposed.  A flush that returns early relies on it.                      *)
(***************************************************************************)
EXTENDS Wal, TLAPS

\* A crash leaves no threads; a log that can be read has no torn record.
Shape ==
    /\ server \in {"up", "recovering"} => ~torn
    /\ ~torn => spilled <= Halves(log)
    /\ server # "up" =>
          /\ writer = Nobody
          /\ \A t \in All : pc[t] = "run" /\ pend[t] = {} /\ page[t] = {} /\ owed[t] = {}

\* Who holds what: an append in progress and a page being written own the
\* page's latch, a published fsync owns the writer mutex.
Owners ==
    /\ \A t \in All : pend[t] # {} => pc[t] = "append"
    /\ \A t \in All : page[t] # {} => pc[t] \in {"wait", "lock", "sync", "publish", "write"}
    /\ \A t \in All : \A r \in pend[t] : r.page # NoPage => latch[r.page] = t
    /\ \A t \in All : \A p \in page[t] : latch[p] = t
    /\ \A t \in All : pc[t] = "publish" => writer = t /\ synced = Halves(log)

\* The counter is ahead of every LSN in use, and no LSN is in use twice.
LsnsInUse ==
    /\ \A i \in DOMAIN log : log[i].lsn < next
    /\ \A t \in All : \A r \in pend[t] :
          /\ r.lsn < next
          /\ \A i \in DOMAIN log : log[i].lsn # r.lsn
          /\ \A u \in All : \A q \in pend[u] : q.lsn = r.lsn => q = r /\ u = t

\* The record a page's latch is held for is newer than the page's others.
NewestPending ==
    \A t \in All : \A r \in pend[t] : r.page # NoPage =>
        \A i \in DOMAIN log : log[i].page = r.page => log[i].lsn < r.lsn

\* What flushed_lsn says.
FlushedMeans ==
    server \in {"up", "recovering"} =>
        /\ \A l \in Written : l <= flushed => l \in Durable \cup exposed
        /\ \A t \in All : \A r \in pend[t] : r.lsn <= flushed => r.lsn \in exposed

\* A flush owes records that are in the log, up to its target.
Promises ==
    /\ acked \subseteq Written
    /\ \A t \in All : \A l \in owed[t] : l \in Written /\ l <= target[t]

\* A page's last change is in the log, unless the image on disk has it; a page
\* being written is known to be flushed, or is what the flush is for.
Images ==
    server \in {"up", "recovering"} =>
        /\ \A p \in Pages : pageLsn[p] \in Written \cup {diskLsn[p]}
        /\ \A t \in All : \A p \in page[t] :
              /\ pageLsn[p] \in Written
              /\ IF pc[t] = "write" THEN pageLsn[p] <= flushed ELSE target[t] = pageLsn[p]

IInv ==
    /\ TypeOK /\ Shape /\ Owners
    /\ LsnsInUse /\ LsnsUnique
    /\ NewestPending /\ PageRecordsOrdered
    /\ FlushedMeans /\ Promises /\ DurableUnlessExposed /\ Images

-----------------------------------------------------------------------------
(* Facts about the log *)

\* append() adds one record at the end and moves none.
LEMMA AppendFacts ==
    ASSUME NEW s \in Seq(Record), NEW r \in Record
    PROVE  /\ Append(s, r) \in Seq(Record)
           /\ Len(Append(s, r)) = Len(s) + 1
           /\ DOMAIN Append(s, r) = 1 .. (Len(s) + 1)
           /\ \A i \in 1 .. Len(s) : Append(s, r)[i] = s[i]
           /\ Append(s, r)[Len(s) + 1] = r
  OBVIOUS

\* A crash leaves a prefix of the log.
LEMMA PrefixFacts ==
    ASSUME NEW s \in Seq(Record), NEW n \in 0 .. Len(s)
    PROVE  /\ SubSeq(s, 1, n) \in Seq(Record)
           /\ Len(SubSeq(s, 1, n)) = n
           /\ DOMAIN SubSeq(s, 1, n) = 1 .. n
           /\ \A i \in 1 .. n : SubSeq(s, 1, n)[i] = s[i]
  OBVIOUS

\* The half at which a crash cuts the file lies in the log.
LEMMA CutFacts ==
    ASSUME NEW n \in Nat, NEW k \in 0 .. (2 * n)
    PROVE  /\ k \div 2 \in 0 .. n
           /\ k <= 2 * (k \div 2) + 1
           /\ k % 2 # 1 => k <= 2 * (k \div 2)
  OBVIOUS

\* The LSNs of the records in the log are numbers.
LEMMA LsnsAreNumbers ==
    ASSUME log \in Seq(Record)
    PROVE  /\ \A i \in DOMAIN log : log[i].lsn \in Nat /\ log[i].page \in Pages \cup {NoPage}
           /\ Written \in SUBSET Nat
<1>1. \A i \in DOMAIN log : log[i] \in Record
  OBVIOUS
<1>2. \A i \in DOMAIN log : log[i].lsn \in Nat /\ log[i].page \in Pages \cup {NoPage}
  BY <1>1 DEF Record
<1> QED  BY <1>2 DEF Written

-----------------------------------------------------------------------------
(* Steps *)

\* Every step, a crash included, keeps every variable in its range.
LEMMA TypeOKKept == IInv /\ [Next]_vars => TypeOK'
<1> USE WalAssumption DEF All
<1> SUFFICES ASSUME IInv, [Next]_vars PROVE TypeOK'
  OBVIOUS
<1> USE DEF IInv
<1>1. ASSUME NEW t \in All, NEW p \in Pages \cup {NoPage}, AppendLsn(t, p) PROVE TypeOK'
  BY <1>1 DEF AppendLsn, LatchFree, atomicVars, logVars, pageVars, historyVars, TypeOK, Halves, PCs, Record
<1>2. ASSUME NEW t \in All, NEW r \in pend[t], AppendWrite(t, r) PROVE TypeOK'
  <2>1. r \in Record /\ log \in Seq(Record)
    BY DEF TypeOK
  <2>2. log' \in Seq(Record) /\ Len(log') = Len(log) + 1
    BY <1>2, <2>1, AppendFacts DEF AppendWrite
  <2>3. synced' = synced /\ synced' \in 0 .. spilled' /\ spilled' \in 0 .. (Halves(log') + 1)
    BY <1>2, <2>1, <2>2 DEF AppendWrite, Halves, TypeOK, Shape
  <2>4. pageLsn' \in [Pages -> Nat] /\ latch' \in [Pages -> All \cup {Nobody}]
    <3>1. CASE r.page = NoPage
      BY <1>2, <3>1 DEF AppendWrite, TypeOK
    <3>2. CASE r.page # NoPage
      <4>1. r.page \in Pages /\ r.lsn \in Nat
        BY <2>1, <3>2 DEF Record
      <4> QED  BY <1>2, <3>2, <4>1 DEF AppendWrite, TypeOK
    <3> QED  BY <3>1, <3>2
  <2>5. pend' \in [All -> SUBSET Record] /\ pc' \in [All -> PCs]
    BY <1>2 DEF AppendWrite, TypeOK, PCs
  <2> QED
    BY <1>2, <2>2, <2>3, <2>4, <2>5 DEF AppendWrite, TypeOK, atomicVars, historyVars
<1>3. ASSUME NEW t \in All, Flush(t) PROVE TypeOK'
  <2>1. Written \in SUBSET Nat
    BY LsnsAreNumbers DEF TypeOK
  <2>2. owed' \in [All -> SUBSET Nat] /\ target' \in [All -> Nat] /\ pc' \in [All -> PCs]
    BY <1>3, <2>1 DEF Flush, Target, TypeOK, PCs
  <2> QED
    BY <1>3, <2>2 DEF Flush, TypeOK, atomicVars, logVars, pageVars
<1>4. ASSUME NEW t \in All, NEW p \in Pages, WritePage(t, p) PROVE TypeOK'
  <2>1. Written \in SUBSET Nat
    BY LsnsAreNumbers DEF TypeOK
  <2>2. {l \in Written : l <= pageLsn[p]} \in SUBSET Nat /\ pageLsn[p] \in Nat
    BY <2>1 DEF TypeOK
  <2>3. /\ owed' \in [All -> SUBSET Nat] /\ target' \in [All -> Nat] /\ pc' \in [All -> PCs]
        /\ page' \in [All -> SUBSET Pages] /\ latch' \in [Pages -> All \cup {Nobody}]
    BY <1>4, <2>2 DEF WritePage, PageTarget, TypeOK, PCs
  <2> QED
    BY <1>4, <2>3 DEF WritePage, TypeOK, atomicVars, logVars
<1>5. ASSUME NEW t \in All, NEW p \in Pages, PageWritten(t, p) PROVE TypeOK'
  BY <1>5 DEF PageWritten, atomicVars, logVars, pageVars, historyVars, TypeOK, Halves, PCs, Record
<1>6. ASSUME NEW t \in All, FlushedByOther(t) PROVE TypeOK'
  BY <1>6 DEF FlushedByOther, Return, atomicVars, logVars, pageVars, historyVars, TypeOK, Halves, PCs, Record
<1>7. ASSUME NEW t \in All, FallBack(t) PROVE TypeOK'
  BY <1>7 DEF FallBack, atomicVars, logVars, pageVars, historyVars, TypeOK, Halves, PCs, Record
<1>8. ASSUME NEW t \in All, TakeFsyncLock(t) PROVE TypeOK'
  <2>1. ASSUME Return(t)
        PROVE  /\ acked' \in SUBSET Nat /\ pc' \in [All -> PCs]
               /\ owed' \in [All -> SUBSET Nat] /\ target' \in [All -> Nat]
    BY <2>1 DEF Return, TypeOK, PCs
  <2>2. CASE Return(t) /\ UNCHANGED fsyncLock
    BY <1>8, <2>1, <2>2 DEF TakeFsyncLock, TypeOK, atomicVars, logVars, pageVars
  <2>3. CASE fsyncLock' = t /\ pc' = [pc EXCEPT ![t] = "sync"] /\ UNCHANGED <<target, owed, acked>>
    BY <1>8, <2>3 DEF TakeFsyncLock, TypeOK, PCs, atomicVars, logVars, pageVars
  <2> QED  BY <1>8, <2>2, <2>3 DEF TakeFsyncLock
<1>9. ASSUME NEW t \in All, Sync(t) PROVE TypeOK'
  BY <1>9 DEF Sync, atomicVars, logVars, pageVars, historyVars, TypeOK, Halves, PCs, Record
<1>10. ASSUME NEW t \in All, Publish(t) PROVE TypeOK'
  <2>1. ASSUME Return(t)
        PROVE  /\ acked' \in SUBSET Nat /\ pc' \in [All -> PCs]
               /\ owed' \in [All -> SUBSET Nat] /\ target' \in [All -> Nat]
    BY <2>1 DEF Return, TypeOK, PCs
  <2>2. flushed' \in 0 .. (next' - 1)
    BY <1>10 DEF Publish, NowDurable, TypeOK
  <2>3. exposed' \in SUBSET Nat
    <3>1. \A u \in All : {r.lsn : r \in pend[u]} \in SUBSET Nat
      <4>1. \A u \in All : \A r \in pend[u] : r \in Record
        BY DEF TypeOK
      <4>2. \A r \in Record : r.lsn \in Nat
        BY DEF Record
      <4> QED  BY <4>1, <4>2
    <3>2. UNION {{r.lsn : r \in pend[u]} : u \in All} \in SUBSET Nat
      BY <3>1
    <3>3. exposed' = exposed \cup UNION {{r.lsn : r \in pend[u]} : u \in All}
      BY <1>10 DEF Publish
    <3> QED  BY <3>2, <3>3 DEF TypeOK
  <2> QED
    BY <1>10, <2>1, <2>2, <2>3 DEF Publish, TypeOK, logVars, pageVars
<1>11. ASSUME NEW k \in synced .. spilled, Crash(k) PROVE TypeOK'
  <2>1. log \in Seq(Record) /\ Len(log) \in Nat /\ k \in 0 .. (2 * Len(log))
    BY <1>11 DEF Crash, Shape, TypeOK, Halves
  <2>2. /\ k \div 2 \in 0 .. Len(log)
        /\ k <= 2 * (k \div 2) + 1
        /\ k % 2 # 1 => k <= 2 * (k \div 2)
    BY <2>1, CutFacts
  <2>3. log' = SubSeq(log, 1, k \div 2)
    BY <1>11 DEF Crash
  <2>4. log' \in Seq(Record) /\ Len(log') = k \div 2
    BY <2>1, <2>2, <2>3, PrefixFacts
  <2>5. synced' \in 0 .. spilled' /\ spilled' \in 0 .. (Halves(log') + 1)
    BY <1>11, <2>1, <2>2, <2>4 DEF Crash, TypeOK, Halves
  <2>6. acked' \in SUBSET Nat /\ exposed' \in SUBSET Nat
    BY <1>11 DEF Crash, TypeOK
  <2>7. /\ pc' \in [All -> PCs] /\ pend' \in [All -> SUBSET Record] /\ target' \in [All -> Nat]
        /\ page' \in [All -> SUBSET Pages] /\ owed' \in [All -> SUBSET Nat]
    BY <1>11 DEF Crash, PCs
  <2>8. /\ latch' \in [Pages -> All \cup {Nobody}] /\ torn' \in BOOLEAN
        /\ fsyncLock' \in All \cup {Nobody} /\ writer' \in All \cup {Nobody}
        /\ server' \in {"up", "down", "recovering", "failed"} /\ crashes' \in Nat
    BY <1>11 DEF Crash, TypeOK
  <2>9. UNCHANGED <<next, flushed, pageLsn, diskLsn>>
    BY <1>11 DEF Crash, atomicVars
  <2> QED
    BY <2>4, <2>5, <2>6, <2>7, <2>8, <2>9 DEF TypeOK
<1>12. ASSUME NEW m \in {0} \cup Written, NEW f \in [Pages -> UNION {RedoLsns(p) : p \in Pages}], Restart(m, f) PROVE TypeOK'
  <2>1. Written \in SUBSET Nat
    BY LsnsAreNumbers DEF TypeOK
  <2>2. exposed' \in SUBSET Nat
    BY <1>12, <2>1 DEF Restart, TypeOK
  <2>3. \A p \in Pages : RedoLsns(p) \in SUBSET Nat
    <3>1. log \in Seq(Record) /\ \A p \in Pages : diskLsn[p] \in Nat
      BY DEF TypeOK
    <3>2. \A i \in DOMAIN log : log[i].lsn \in Nat
      BY <3>1, LsnsAreNumbers
    <3> QED  BY <3>1, <3>2 DEF RedoLsns
  <2>4. f \in [Pages -> Nat]
    BY <2>3
  <2>5. next' \in Nat \ {0} /\ flushed' \in 0 .. (next' - 1)
    BY <1>12, <2>1 DEF Restart, NextAfter
  <2> QED
    BY <1>12, <2>2, <2>4, <2>5 DEF Restart, TypeOK, logVars
<1>13. ASSUME RestartFails PROVE TypeOK'
  BY <1>13 DEF RestartFails, atomicVars, logVars, pageVars, historyVars, TypeOK, Halves, PCs, Record
<1>14. ASSUME UndoAbort PROVE TypeOK'
  <2> DEFINE r == [lsn |-> next, page |-> NoPage]
  <2>1. r \in Record /\ log \in Seq(Record) /\ log' = Append(log, r) /\ r.lsn = next /\ r.page = NoPage
    BY <1>14 DEF UndoAbort, TypeOK, Record
  <2> HIDE DEF r
  <2>2. /\ Len(log') = Len(log) + 1 /\ DOMAIN log' = 1 .. (Len(log) + 1) /\ log' \in Seq(Record)
        /\ log'[Len(log) + 1] = r
        /\ \A i \in 1 .. Len(log) : i \in DOMAIN log /\ log'[i] = log[i]
    BY <2>1, AppendFacts
  <2>3. synced' = synced /\ synced' \in 0 .. spilled' /\ spilled' \in 0 .. (Halves(log') + 1)
    BY <1>14, <2>1, <2>2 DEF UndoAbort, Halves, TypeOK, Shape
  <2>4. next' \in Nat \ {0} /\ flushed' \in 0 .. (next' - 1)
    BY <1>14 DEF UndoAbort, TypeOK
  <2> QED
    BY <1>14, <2>2, <2>3, <2>4 DEF UndoAbort, TypeOK, pageVars, historyVars
<1>15. ASSUME RecoverEnd PROVE TypeOK'
  <2>1. /\ UNCHANGED <<next, log, torn, fsyncLock, writer, pc, pend, target, page, latch, pageLsn, crashes>>
        /\ UNCHANGED <<owed, acked, exposed>>
        /\ diskLsn' = pageLsn /\ server' = "up"
    BY <1>15 DEF RecoverEnd, historyVars
  <2>2. Halves(log') = Halves(log) /\ Halves(log) \in Nat
    BY <2>1 DEF Halves, TypeOK
  <2>3. CASE flushed < next - 1
    <3>1. synced' = Halves(log) /\ spilled' = Halves(log) /\ flushed' = next - 1
      BY <1>15, <2>3 DEF RecoverEnd, Target, NowDurable
    <3>2. synced' \in 0 .. spilled' /\ spilled' \in 0 .. (Halves(log') + 1)
      BY <2>2, <3>1
    <3>3. flushed' \in 0 .. (next' - 1)
      BY <2>1, <3>1 DEF TypeOK
    <3> QED  BY <2>1, <3>2, <3>3 DEF TypeOK
  <2>4. CASE ~(flushed < next - 1)
    <3>1. UNCHANGED <<synced, spilled, flushed>>
      BY <1>15, <2>4 DEF RecoverEnd, Target
    <3> QED  BY <2>1, <2>2, <3>1 DEF TypeOK
  <2> QED  BY <2>3, <2>4
<1>16. CASE UNCHANGED vars
  BY <1>16 DEF vars, atomicVars, logVars, pageVars, historyVars, TypeOK, Halves, PCs, Record
<1>17. Kill \/ PowerLoss => TypeOK'
  <2>1. spilled \in synced .. spilled /\ synced .. (spilled - 1) \subseteq synced .. spilled
    BY DEF TypeOK
  <2> QED  BY <1>11, <2>1 DEF Kill, PowerLoss
<1> QED
  BY <1>1, <1>2, <1>3, <1>4, <1>5, <1>6, <1>7, <1>8, <1>9, <1>10, <1>11, <1>12, <1>13, <1>14, <1>15, <1>16, <1>17
  DEF Next, Appending, Flushing, StaysDown

\* A server that is up has read its log; one that is down has no threads.
LEMMA ShapeKept == IInv /\ [Next]_vars => Shape'
<1> USE WalAssumption DEF All
<1> SUFFICES ASSUME IInv, [Next]_vars PROVE Shape'
  OBVIOUS
<1> USE DEF IInv
<1>1. ASSUME NEW t \in All, NEW p \in Pages \cup {NoPage}, AppendLsn(t, p) PROVE Shape'
  BY <1>1 DEF AppendLsn, LatchFree, atomicVars, logVars, pageVars, historyVars, Shape, TypeOK, Halves
<1>2. ASSUME NEW t \in All, NEW r \in pend[t], AppendWrite(t, r) PROVE Shape'
  BY <1>2 DEF AppendWrite, atomicVars, logVars, pageVars, historyVars, Shape, TypeOK, Halves
<1>3. ASSUME NEW t \in All, Flush(t) PROVE Shape'
  BY <1>3 DEF Flush, Target, atomicVars, logVars, pageVars, historyVars, Shape, TypeOK, Halves
<1>4. ASSUME NEW t \in All, NEW p \in Pages, WritePage(t, p) PROVE Shape'
  BY <1>4 DEF WritePage, LatchFree, PageTarget, atomicVars, logVars, pageVars, historyVars, Shape, TypeOK, Halves
<1>5. ASSUME NEW t \in All, NEW p \in Pages, PageWritten(t, p) PROVE Shape'
  BY <1>5 DEF PageWritten, atomicVars, logVars, pageVars, historyVars, Shape, TypeOK, Halves
<1>6. ASSUME NEW t \in All, FlushedByOther(t) PROVE Shape'
  BY <1>6 DEF FlushedByOther, Return, atomicVars, logVars, pageVars, historyVars, Shape, TypeOK, Halves
<1>7. ASSUME NEW t \in All, FallBack(t) PROVE Shape'
  BY <1>7 DEF FallBack, atomicVars, logVars, pageVars, historyVars, Shape, TypeOK, Halves
<1>8. ASSUME NEW t \in All, TakeFsyncLock(t) PROVE Shape'
  BY <1>8 DEF TakeFsyncLock, Return, atomicVars, logVars, pageVars, historyVars, Shape, TypeOK, Halves
<1>9. ASSUME NEW t \in All, Sync(t) PROVE Shape'
  BY <1>9 DEF Sync, atomicVars, logVars, pageVars, historyVars, Shape, TypeOK, Halves
<1>10. ASSUME NEW t \in All, Publish(t) PROVE Shape'
  BY <1>10 DEF Publish, Return, NowDurable, atomicVars, logVars, pageVars, historyVars, Shape, TypeOK, Halves
<1>11. ASSUME NEW k \in synced .. spilled, Crash(k) PROVE Shape'
  <2>1. log \in Seq(Record) /\ Len(log) \in Nat /\ k \in 0 .. (2 * Len(log))
    BY <1>11 DEF Crash, Shape, TypeOK, Halves
  <2>2. /\ k \div 2 \in 0 .. Len(log)
        /\ k <= 2 * (k \div 2) + 1
        /\ k % 2 # 1 => k <= 2 * (k \div 2)
    BY <2>1, CutFacts
  <2>3. log' = SubSeq(log, 1, k \div 2)
    BY <1>11 DEF Crash
  <2>4. log' \in Seq(Record) /\ Len(log') = k \div 2
    BY <2>1, <2>2, <2>3, PrefixFacts
  <2>5. ~torn' => spilled' <= Halves(log')
    BY <1>11, <2>2, <2>4 DEF Crash, Halves
  <2> QED
    BY <1>11, <2>5 DEF Crash, Shape
<1>12. ASSUME NEW m \in {0} \cup Written, NEW f \in [Pages -> UNION {RedoLsns(p) : p \in Pages}], Restart(m, f) PROVE Shape'
  BY <1>12 DEF Restart, NextAfter, atomicVars, logVars, pageVars, historyVars, Shape, TypeOK, Halves
<1>13. ASSUME RestartFails PROVE Shape'
  BY <1>13 DEF RestartFails, atomicVars, logVars, pageVars, historyVars, Shape, TypeOK, Halves
<1>14. ASSUME UndoAbort PROVE Shape'
  <2> DEFINE r == [lsn |-> next, page |-> NoPage]
  <2>1. r \in Record /\ log \in Seq(Record) /\ log' = Append(log, r) /\ r.lsn = next /\ r.page = NoPage
    BY <1>14 DEF UndoAbort, TypeOK, Record
  <2> HIDE DEF r
  <2>2. /\ Len(log') = Len(log) + 1 /\ DOMAIN log' = 1 .. (Len(log) + 1) /\ log' \in Seq(Record)
        /\ log'[Len(log) + 1] = r
        /\ \A i \in 1 .. Len(log) : i \in DOMAIN log /\ log'[i] = log[i]
    BY <2>1, AppendFacts
  <2>3. spilled' <= Halves(log') /\ torn' = torn /\ ~torn
    BY <1>14, <2>1, <2>2 DEF UndoAbort, Halves, TypeOK, Shape
  <2> QED
    BY <1>14, <2>3 DEF UndoAbort, Shape, historyVars
<1>15. ASSUME RecoverEnd PROVE Shape'
  BY <1>15 DEF RecoverEnd, Target, NowDurable, atomicVars, logVars, pageVars, historyVars, Shape, TypeOK, Halves
<1>16. CASE UNCHANGED vars
  BY <1>16 DEF vars, atomicVars, logVars, pageVars, historyVars, Shape, TypeOK, Halves
<1>17. Kill \/ PowerLoss => Shape'
  <2>1. spilled \in synced .. spilled /\ synced .. (spilled - 1) \subseteq synced .. spilled
    BY DEF TypeOK
  <2> QED  BY <1>11, <2>1 DEF Kill, PowerLoss
<1> QED
  BY <1>1, <1>2, <1>3, <1>4, <1>5, <1>6, <1>7, <1>8, <1>9, <1>10, <1>11, <1>12, <1>13, <1>14, <1>15, <1>16, <1>17
  DEF Next, Appending, Flushing, StaysDown

\* Latches and the writer mutex change hands only when they are free.
LEMMA OwnersKept == IInv /\ [Next]_vars => Owners'
<1> USE WalAssumption DEF All
<1> SUFFICES ASSUME IInv, [Next]_vars PROVE Owners'
  OBVIOUS
<1> USE DEF IInv
<1>1. ASSUME NEW t \in All, NEW p \in Pages \cup {NoPage}, AppendLsn(t, p) PROVE Owners'
  BY <1>1 DEF AppendLsn, LatchFree, atomicVars, logVars, pageVars, historyVars, Owners, Shape, TypeOK, Halves
<1>2. ASSUME NEW t \in All, NEW r \in pend[t], AppendWrite(t, r) PROVE Owners'
  <2>1. r \in Record /\ r.page \in Pages \cup {NoPage} /\ pend[t] = {r} /\ pc[t] = "append"
    BY <1>2 DEF AppendWrite, TypeOK, Record
  <2>2. \A u \in All : u # t => pc'[u] = pc[u] /\ pend'[u] = pend[u]
    BY <1>2 DEF AppendWrite, TypeOK
  <2>3. pc'[t] = "run" /\ pend'[t] = {} /\ page' = page /\ page[t] = {}
    BY <1>2, <2>1 DEF AppendWrite, TypeOK, Owners
  <2>4. \A u \in All : pc[u] # "publish"
    BY <1>2 DEF AppendWrite, Owners
  <2>5. \A p \in Pages : latch[p] # t => latch'[p] = latch[p]
    <3>1. CASE r.page = NoPage
      BY <1>2, <3>1 DEF AppendWrite
    <3>2. CASE r.page # NoPage
      BY <1>2, <2>1, <3>2 DEF AppendWrite, TypeOK, Owners
    <3> QED  BY <3>1, <3>2
  <2>6. \A u \in All : u # t =>
           /\ \A q \in pend[u] : q.page # NoPage => latch'[q.page] = u
           /\ \A p \in page[u] : latch'[p] = u
    BY <2>5 DEF Owners, TypeOK, Record
  <2> QED
    BY <2>2, <2>3, <2>4, <2>6 DEF Owners
<1>3. ASSUME NEW t \in All, Flush(t) PROVE Owners'
  BY <1>3 DEF Flush, Target, atomicVars, logVars, pageVars, historyVars, Owners, Shape, TypeOK, Halves
<1>4. ASSUME NEW t \in All, NEW p \in Pages, WritePage(t, p) PROVE Owners'
  BY <1>4 DEF WritePage, LatchFree, PageTarget, atomicVars, logVars, pageVars, historyVars, Owners, Shape, TypeOK, Halves
<1>5. ASSUME NEW t \in All, NEW p \in Pages, PageWritten(t, p) PROVE Owners'
  <2>1. page[t] = {p} /\ pc[t] = "write" /\ latch[p] = t /\ pend[t] = {}
    BY <1>5 DEF PageWritten, Owners
  <2>2. \A u \in All : u # t => pc'[u] = pc[u] /\ page'[u] = page[u]
    BY <1>5 DEF PageWritten, TypeOK
  <2>3. pc'[t] = "run" /\ page'[t] = {} /\ pend' = pend /\ writer' = writer /\ log' = log /\ synced' = synced
    BY <1>5 DEF PageWritten, TypeOK, logVars
  <2>4. \A x \in Pages : latch[x] # t => latch'[x] = latch[x]
    BY <1>5, <2>1 DEF PageWritten, TypeOK
  <2>5. \A u \in All : u # t =>
           /\ \A q \in pend[u] : q.page # NoPage => latch'[q.page] = u
           /\ \A x \in page[u] : latch'[x] = u
    BY <2>4 DEF Owners, TypeOK, Record
  <2> QED
    BY <2>1, <2>2, <2>3, <2>5 DEF Owners, Halves
<1>6. ASSUME NEW t \in All, FlushedByOther(t) PROVE Owners'
  BY <1>6 DEF FlushedByOther, Return, atomicVars, logVars, pageVars, historyVars, Owners, Shape, TypeOK, Halves
<1>7. ASSUME NEW t \in All, FallBack(t) PROVE Owners'
  BY <1>7 DEF FallBack, atomicVars, logVars, pageVars, historyVars, Owners, Shape, TypeOK, Halves
<1>8. ASSUME NEW t \in All, TakeFsyncLock(t) PROVE Owners'
  <2>1. UNCHANGED <<log, synced, writer, pend, page, latch>>
    BY <1>8 DEF TakeFsyncLock, logVars, pageVars
  <2>2. \A u \in All : u # t => pc'[u] = pc[u]
    BY <1>8 DEF TakeFsyncLock, Return, TypeOK
  <2>3. pc[t] = "lock" /\ pc'[t] \in {"run", "write", "sync"} /\ (pc'[t] = "run" => page[t] = {})
    BY <1>8 DEF TakeFsyncLock, Return, TypeOK
  <2> QED
    BY <2>1, <2>2, <2>3 DEF Owners, Halves
<1>9. ASSUME NEW t \in All, Sync(t) PROVE Owners'
  BY <1>9 DEF Sync, atomicVars, logVars, pageVars, historyVars, Owners, Shape, TypeOK, Halves
<1>10. ASSUME NEW t \in All, Publish(t) PROVE Owners'
  BY <1>10 DEF Publish, Return, NowDurable, atomicVars, logVars, pageVars, historyVars, Owners, Shape, TypeOK, Halves
<1>11. ASSUME NEW k \in synced .. spilled, Crash(k) PROVE Owners'
  BY <1>11 DEF Crash, atomicVars, logVars, pageVars, historyVars, Owners, Shape, TypeOK, Halves
<1>12. ASSUME NEW m \in {0} \cup Written, NEW f \in [Pages -> UNION {RedoLsns(p) : p \in Pages}], Restart(m, f) PROVE Owners'
  BY <1>12 DEF Restart, NextAfter, atomicVars, logVars, pageVars, historyVars, Owners, Shape, TypeOK, Halves
<1>13. ASSUME RestartFails PROVE Owners'
  BY <1>13 DEF RestartFails, atomicVars, logVars, pageVars, historyVars, Owners, Shape, TypeOK, Halves
<1>14. ASSUME UndoAbort PROVE Owners'
  <2>1. \A t \in All : pc[t] = "run" /\ pend[t] = {} /\ page[t] = {}
    BY <1>14 DEF UndoAbort, Shape
  <2> QED
    BY <1>14, <2>1 DEF UndoAbort, Owners, pageVars
<1>15. ASSUME RecoverEnd PROVE Owners'
  <2>1. \A t \in All : pc[t] = "run" /\ pend[t] = {} /\ page[t] = {}
    BY <1>15 DEF RecoverEnd, Shape
  <2> QED
    BY <1>15, <2>1 DEF RecoverEnd, Owners
<1>16. CASE UNCHANGED vars
  BY <1>16 DEF vars, atomicVars, logVars, pageVars, historyVars, Owners, Shape, TypeOK, Halves
<1>17. Kill \/ PowerLoss => Owners'
  <2>1. spilled \in synced .. spilled /\ synced .. (spilled - 1) \subseteq synced .. spilled
    BY DEF TypeOK
  <2> QED  BY <1>11, <2>1 DEF Kill, PowerLoss
<1> QED
  BY <1>1, <1>2, <1>3, <1>4, <1>5, <1>6, <1>7, <1>8, <1>9, <1>10, <1>11, <1>12, <1>13, <1>14, <1>15, <1>16, <1>17
  DEF Next, Appending, Flushing, StaysDown

\* The counter only goes up while the server runs, and restarts above the log.
LEMMA LsnsKept == IInv /\ [Next]_vars => (LsnsInUse /\ LsnsUnique)'
<1> USE WalAssumption DEF All
<1> SUFFICES ASSUME IInv, [Next]_vars PROVE (LsnsInUse /\ LsnsUnique)'
  OBVIOUS
<1> USE DEF IInv
<1>1. ASSUME NEW t \in All, NEW p \in Pages \cup {NoPage}, AppendLsn(t, p) PROVE (LsnsInUse /\ LsnsUnique)'
  <2> DEFINE r0 == [lsn |-> next, page |-> p]
  <2>1. /\ log' = log /\ next' = next + 1 /\ next \in Nat
        /\ pend'[t] = {r0} /\ r0.lsn = next
        /\ \A u \in All : u # t => pend'[u] = pend[u]
    BY <1>1 DEF AppendLsn, logVars, TypeOK
  <2>2. /\ \A i \in DOMAIN log : log[i].lsn \in Nat /\ log[i].lsn < next
        /\ \A u \in All : \A q \in pend[u] : q.lsn \in Nat /\ q.lsn < next
    BY LsnsAreNumbers DEF LsnsInUse, TypeOK, Record
  <2> HIDE DEF r0
  <2> QED
    BY <2>1, <2>2 DEF LsnsInUse, LsnsUnique
<1>2. ASSUME NEW t \in All, NEW r \in pend[t], AppendWrite(t, r) PROVE (LsnsInUse /\ LsnsUnique)'
  BY <1>2 DEF AppendWrite, atomicVars, logVars, pageVars, historyVars, LsnsInUse, LsnsUnique, TypeOK
<1>3. ASSUME NEW t \in All, Flush(t) PROVE (LsnsInUse /\ LsnsUnique)'
  BY <1>3 DEF Flush, Target, atomicVars, logVars, pageVars, historyVars, LsnsInUse, LsnsUnique, TypeOK
<1>4. ASSUME NEW t \in All, NEW p \in Pages, WritePage(t, p) PROVE (LsnsInUse /\ LsnsUnique)'
  BY <1>4 DEF WritePage, LatchFree, PageTarget, atomicVars, logVars, pageVars, historyVars, LsnsInUse, LsnsUnique, TypeOK
<1>5. ASSUME NEW t \in All, NEW p \in Pages, PageWritten(t, p) PROVE (LsnsInUse /\ LsnsUnique)'
  BY <1>5 DEF PageWritten, atomicVars, logVars, pageVars, historyVars, LsnsInUse, LsnsUnique, TypeOK
<1>6. ASSUME NEW t \in All, FlushedByOther(t) PROVE (LsnsInUse /\ LsnsUnique)'
  BY <1>6 DEF FlushedByOther, Return, atomicVars, logVars, pageVars, historyVars, LsnsInUse, LsnsUnique, TypeOK
<1>7. ASSUME NEW t \in All, FallBack(t) PROVE (LsnsInUse /\ LsnsUnique)'
  BY <1>7 DEF FallBack, atomicVars, logVars, pageVars, historyVars, LsnsInUse, LsnsUnique, TypeOK
<1>8. ASSUME NEW t \in All, TakeFsyncLock(t) PROVE (LsnsInUse /\ LsnsUnique)'
  BY <1>8 DEF TakeFsyncLock, Return, atomicVars, logVars, pageVars, historyVars, LsnsInUse, LsnsUnique, TypeOK
<1>9. ASSUME NEW t \in All, Sync(t) PROVE (LsnsInUse /\ LsnsUnique)'
  BY <1>9 DEF Sync, atomicVars, logVars, pageVars, historyVars, LsnsInUse, LsnsUnique, TypeOK
<1>10. ASSUME NEW t \in All, Publish(t) PROVE (LsnsInUse /\ LsnsUnique)'
  BY <1>10 DEF Publish, Return, NowDurable, atomicVars, logVars, pageVars, historyVars, LsnsInUse, LsnsUnique, TypeOK
<1>11. ASSUME NEW k \in synced .. spilled, Crash(k) PROVE (LsnsInUse /\ LsnsUnique)'
  <2>1. log \in Seq(Record) /\ Len(log) \in Nat /\ k \in 0 .. (2 * Len(log))
    BY <1>11 DEF Crash, Shape, TypeOK, Halves
  <2>2. /\ k \div 2 \in 0 .. Len(log)
        /\ k <= 2 * (k \div 2) + 1
        /\ k % 2 # 1 => k <= 2 * (k \div 2)
    BY <2>1, CutFacts
  <2>3. log' = SubSeq(log, 1, k \div 2)
    BY <1>11 DEF Crash
  <2>4. \A i \in DOMAIN log' : i \in DOMAIN log /\ log'[i] = log[i]
    <3> DEFINE n == k \div 2
    <3>1. n \in 0 .. Len(log) /\ log' = SubSeq(log, 1, n)
      BY <2>2, <2>3
    <3> HIDE DEF n
    <3> QED  BY <2>1, <3>1, PrefixFacts
  <2>5. \A u \in All : pend'[u] = {}
    BY <1>11 DEF Crash
  <2>6. next' = next
    BY <1>11 DEF Crash, atomicVars
  <2> QED
    BY <2>4, <2>5, <2>6 DEF LsnsInUse, LsnsUnique
<1>12. ASSUME NEW m \in {0} \cup Written, NEW f \in [Pages -> UNION {RedoLsns(p) : p \in Pages}], Restart(m, f) PROVE (LsnsInUse /\ LsnsUnique)'
  <2>1. log' = log /\ pend' = pend /\ \A u \in All : pend[u] = {}
    BY <1>12 DEF Restart, logVars, Shape
  <2>2. \A i \in DOMAIN log : log[i].lsn \in Nat /\ log[i].lsn <= m
    BY <1>12, LsnsAreNumbers DEF Restart, TypeOK
  <2>3. m \in Nat
    BY LsnsAreNumbers DEF TypeOK
  <2>4. next' = m + 1
    BY <1>12 DEF Restart, NextAfter
  <2> QED
    BY <2>1, <2>2, <2>3, <2>4 DEF LsnsInUse, LsnsUnique
<1>13. ASSUME RestartFails PROVE (LsnsInUse /\ LsnsUnique)'
  BY <1>13 DEF RestartFails, atomicVars, logVars, pageVars, historyVars, LsnsInUse, LsnsUnique, TypeOK
<1>14. ASSUME UndoAbort PROVE (LsnsInUse /\ LsnsUnique)'
  <2> DEFINE r == [lsn |-> next, page |-> NoPage]
  <2>1. r \in Record /\ log \in Seq(Record) /\ log' = Append(log, r) /\ r.lsn = next /\ r.page = NoPage
    BY <1>14 DEF UndoAbort, TypeOK, Record
  <2> HIDE DEF r
  <2>2. /\ Len(log') = Len(log) + 1 /\ DOMAIN log' = 1 .. (Len(log) + 1) /\ log' \in Seq(Record)
        /\ log'[Len(log) + 1] = r
        /\ \A i \in 1 .. Len(log) : i \in DOMAIN log /\ log'[i] = log[i]
    BY <2>1, AppendFacts
  <2>3. \A u \in All : pend'[u] = {}
    BY <1>14 DEF UndoAbort, Shape
  <2>4. next' = next + 1 /\ next \in Nat /\ \A i \in DOMAIN log : log[i].lsn \in Nat /\ log[i].lsn < next
    BY <1>14, LsnsAreNumbers DEF UndoAbort, TypeOK, LsnsInUse
  <2>5. LsnsInUse'
    BY <2>1, <2>2, <2>3, <2>4 DEF LsnsInUse
  <2>6. LsnsUnique'
    BY <2>1, <2>2, <2>4 DEF LsnsUnique
  <2> QED  BY <2>5, <2>6
<1>15. ASSUME RecoverEnd PROVE (LsnsInUse /\ LsnsUnique)'
  BY <1>15 DEF RecoverEnd, Target, NowDurable, atomicVars, logVars, pageVars, historyVars, LsnsInUse, LsnsUnique, TypeOK
<1>16. CASE UNCHANGED vars
  BY <1>16 DEF vars, atomicVars, logVars, pageVars, historyVars, LsnsInUse, LsnsUnique, TypeOK
<1>17. Kill \/ PowerLoss => (LsnsInUse /\ LsnsUnique)'
  <2>1. spilled \in synced .. spilled /\ synced .. (spilled - 1) \subseteq synced .. spilled
    BY DEF TypeOK
  <2> QED  BY <1>11, <2>1 DEF Kill, PowerLoss
<1> QED
  BY <1>1, <1>2, <1>3, <1>4, <1>5, <1>6, <1>7, <1>8, <1>9, <1>10, <1>11, <1>12, <1>13, <1>14, <1>15, <1>16, <1>17
  DEF Next, Appending, Flushing, StaysDown

\* A page's latch is held from the LSN to the write of its record.
LEMMA OrderKept == IInv /\ [Next]_vars => (NewestPending /\ PageRecordsOrdered)'
<1> USE WalAssumption DEF All
<1> SUFFICES ASSUME IInv, [Next]_vars PROVE (NewestPending /\ PageRecordsOrdered)'
  OBVIOUS
<1> USE DEF IInv
<1>1. ASSUME NEW t \in All, NEW p \in Pages \cup {NoPage}, AppendLsn(t, p) PROVE (NewestPending /\ PageRecordsOrdered)'
  <2> DEFINE r0 == [lsn |-> next, page |-> p]
  <2>1. /\ log' = log /\ pend'[t] = {r0} /\ r0.lsn = next
        /\ \A u \in All : u # t => pend'[u] = pend[u]
    BY <1>1 DEF AppendLsn, logVars, TypeOK
  <2>2. \A i \in DOMAIN log : log[i].lsn < next
    BY DEF LsnsInUse
  <2> HIDE DEF r0
  <2> QED
    BY <2>1, <2>2 DEF NewestPending, PageRecordsOrdered
<1>2. ASSUME NEW t \in All, NEW r \in pend[t], AppendWrite(t, r) PROVE (NewestPending /\ PageRecordsOrdered)'
  <2>1. r \in Record /\ log \in Seq(Record) /\ log' = Append(log, r)
    BY <1>2 DEF AppendWrite, TypeOK
  <2> DEFINE n == Len(log) + 1
  <2>2. /\ DOMAIN log' = 1 .. n /\ log'[n] = r
        /\ \A i \in 1 .. n : i # n => i \in DOMAIN log /\ log'[i] = log[i]
        /\ n \in Nat
    BY <2>1, AppendFacts
  <2>3. \A u \in All : u # t => pend'[u] = pend[u]
    BY <1>2 DEF AppendWrite, TypeOK
  <2>4. pend'[t] = {} /\ r \in pend[t]
    BY <1>2 DEF AppendWrite, TypeOK
  <2>5. \A u \in All : \A q \in pend[u] : u # t /\ q.page # NoPage => q.page # r.page
    BY <2>4 DEF Owners
  <2> HIDE DEF n
  <2>6. NewestPending'
    BY <2>2, <2>3, <2>4, <2>5 DEF NewestPending
  <2>7. PageRecordsOrdered'
    <3> SUFFICES ASSUME NEW i \in 1 .. n, NEW j \in 1 .. n, i < j,
                        log'[i].page = log'[j].page, log'[i].page # NoPage
                 PROVE  log'[i].lsn < log'[j].lsn
      BY <2>2 DEF PageRecordsOrdered
    <3>1. i # n
      BY <2>2
    <3>2. CASE j = n
      BY <2>2, <2>4, <3>1, <3>2 DEF NewestPending
    <3>3. CASE j # n
      BY <2>2, <3>1, <3>3 DEF PageRecordsOrdered
    <3> QED  BY <3>2, <3>3
  <2> QED  BY <2>6, <2>7
<1>3. ASSUME NEW t \in All, Flush(t) PROVE (NewestPending /\ PageRecordsOrdered)'
  BY <1>3 DEF Flush, Target, atomicVars, logVars, pageVars, historyVars, NewestPending, PageRecordsOrdered, TypeOK
<1>4. ASSUME NEW t \in All, NEW p \in Pages, WritePage(t, p) PROVE (NewestPending /\ PageRecordsOrdered)'
  BY <1>4 DEF WritePage, LatchFree, PageTarget, atomicVars, logVars, pageVars, historyVars, NewestPending, PageRecordsOrdered, TypeOK
<1>5. ASSUME NEW t \in All, NEW p \in Pages, PageWritten(t, p) PROVE (NewestPending /\ PageRecordsOrdered)'
  BY <1>5 DEF PageWritten, atomicVars, logVars, pageVars, historyVars, NewestPending, PageRecordsOrdered, TypeOK
<1>6. ASSUME NEW t \in All, FlushedByOther(t) PROVE (NewestPending /\ PageRecordsOrdered)'
  BY <1>6 DEF FlushedByOther, Return, atomicVars, logVars, pageVars, historyVars, NewestPending, PageRecordsOrdered, TypeOK
<1>7. ASSUME NEW t \in All, FallBack(t) PROVE (NewestPending /\ PageRecordsOrdered)'
  BY <1>7 DEF FallBack, atomicVars, logVars, pageVars, historyVars, NewestPending, PageRecordsOrdered, TypeOK
<1>8. ASSUME NEW t \in All, TakeFsyncLock(t) PROVE (NewestPending /\ PageRecordsOrdered)'
  BY <1>8 DEF TakeFsyncLock, Return, atomicVars, logVars, pageVars, historyVars, NewestPending, PageRecordsOrdered, TypeOK
<1>9. ASSUME NEW t \in All, Sync(t) PROVE (NewestPending /\ PageRecordsOrdered)'
  BY <1>9 DEF Sync, atomicVars, logVars, pageVars, historyVars, NewestPending, PageRecordsOrdered, TypeOK
<1>10. ASSUME NEW t \in All, Publish(t) PROVE (NewestPending /\ PageRecordsOrdered)'
  BY <1>10 DEF Publish, Return, NowDurable, atomicVars, logVars, pageVars, historyVars, NewestPending, PageRecordsOrdered, TypeOK
<1>11. ASSUME NEW k \in synced .. spilled, Crash(k) PROVE (NewestPending /\ PageRecordsOrdered)'
  <2>1. log \in Seq(Record) /\ Len(log) \in Nat /\ k \in 0 .. (2 * Len(log))
    BY <1>11 DEF Crash, Shape, TypeOK, Halves
  <2>2. /\ k \div 2 \in 0 .. Len(log)
        /\ k <= 2 * (k \div 2) + 1
        /\ k % 2 # 1 => k <= 2 * (k \div 2)
    BY <2>1, CutFacts
  <2>3. log' = SubSeq(log, 1, k \div 2)
    BY <1>11 DEF Crash
  <2>4. \A i \in DOMAIN log' : i \in DOMAIN log /\ log'[i] = log[i]
    <3> DEFINE n == k \div 2
    <3>1. n \in 0 .. Len(log) /\ log' = SubSeq(log, 1, n)
      BY <2>2, <2>3
    <3> HIDE DEF n
    <3> QED  BY <2>1, <3>1, PrefixFacts
  <2>5. \A u \in All : pend'[u] = {}
    BY <1>11 DEF Crash
  <2> QED
    BY <2>4, <2>5 DEF NewestPending, PageRecordsOrdered
<1>12. ASSUME NEW m \in {0} \cup Written, NEW f \in [Pages -> UNION {RedoLsns(p) : p \in Pages}], Restart(m, f) PROVE (NewestPending /\ PageRecordsOrdered)'
  BY <1>12 DEF Restart, NextAfter, atomicVars, logVars, pageVars, historyVars, NewestPending, PageRecordsOrdered, TypeOK
<1>13. ASSUME RestartFails PROVE (NewestPending /\ PageRecordsOrdered)'
  BY <1>13 DEF RestartFails, atomicVars, logVars, pageVars, historyVars, NewestPending, PageRecordsOrdered, TypeOK
<1>14. ASSUME UndoAbort PROVE (NewestPending /\ PageRecordsOrdered)'
  <2> DEFINE r == [lsn |-> next, page |-> NoPage]
  <2>1. r \in Record /\ log \in Seq(Record) /\ log' = Append(log, r) /\ r.lsn = next /\ r.page = NoPage
    BY <1>14 DEF UndoAbort, TypeOK, Record
  <2> HIDE DEF r
  <2>2. /\ Len(log') = Len(log) + 1 /\ DOMAIN log' = 1 .. (Len(log) + 1) /\ log' \in Seq(Record)
        /\ log'[Len(log) + 1] = r
        /\ \A i \in 1 .. Len(log) : i \in DOMAIN log /\ log'[i] = log[i]
    BY <2>1, AppendFacts
  <2>3. \A u \in All : pend'[u] = {}
    BY <1>14 DEF UndoAbort, Shape
  <2>4. PageRecordsOrdered'
    BY <2>1, <2>2 DEF PageRecordsOrdered
  <2> QED
    BY <2>3, <2>4 DEF NewestPending
<1>15. ASSUME RecoverEnd PROVE (NewestPending /\ PageRecordsOrdered)'
  BY <1>15 DEF RecoverEnd, Target, NowDurable, atomicVars, logVars, pageVars, historyVars, NewestPending, PageRecordsOrdered, TypeOK
<1>16. CASE UNCHANGED vars
  BY <1>16 DEF vars, atomicVars, logVars, pageVars, historyVars, NewestPending, PageRecordsOrdered, TypeOK
<1>17. Kill \/ PowerLoss => (NewestPending /\ PageRecordsOrdered)'
  <2>1. spilled \in synced .. spilled /\ synced .. (spilled - 1) \subseteq synced .. spilled
    BY DEF TypeOK
  <2> QED  BY <1>11, <2>1 DEF Kill, PowerLoss
<1> QED
  BY <1>1, <1>2, <1>3, <1>4, <1>5, <1>6, <1>7, <1>8, <1>9, <1>10, <1>11, <1>12, <1>13, <1>14, <1>15, <1>16, <1>17
  DEF Next, Appending, Flushing, StaysDown

\* flushed_lsn is raised to what the fsync covered and what it exposed.
LEMMA DurableKept == IInv /\ [Next]_vars => (FlushedMeans /\ Promises /\ DurableUnlessExposed)'
<1> USE WalAssumption DEF All
<1> SUFFICES ASSUME IInv, [Next]_vars PROVE (FlushedMeans /\ Promises /\ DurableUnlessExposed)'
  OBVIOUS
<1> USE DEF IInv
<1>1. ASSUME NEW t \in All, NEW p \in Pages \cup {NoPage}, AppendLsn(t, p) PROVE (FlushedMeans /\ Promises /\ DurableUnlessExposed)'
  BY <1>1 DEF AppendLsn, LatchFree, atomicVars, logVars, pageVars, historyVars, FlushedMeans, Promises, DurableUnlessExposed, TypeOK, Written, Durable
<1>2. ASSUME NEW t \in All, NEW r \in pend[t], AppendWrite(t, r) PROVE (FlushedMeans /\ Promises /\ DurableUnlessExposed)'
  <2>1. r \in Record /\ log \in Seq(Record) /\ log' = Append(log, r) /\ synced' = synced
    BY <1>2 DEF AppendWrite, TypeOK
  <2>2. /\ DOMAIN log' = 1 .. (Len(log) + 1) /\ log'[Len(log) + 1] = r
        /\ \A i \in DOMAIN log : i \in DOMAIN log' /\ log'[i] = log[i]
    BY <2>1, AppendFacts
  <2>3. Written' = Written \cup {r.lsn}
    BY <2>1, <2>2 DEF Written
  <2>4. Durable \subseteq Durable'
    BY <2>1, <2>2 DEF Durable
  <2>5. UNCHANGED <<server, flushed, exposed, owed, target, acked>>
    BY <1>2 DEF AppendWrite, atomicVars, historyVars
  <2>6. \A u \in All : pend'[u] \subseteq pend[u]
    BY <1>2 DEF AppendWrite, TypeOK
  <2> QED
    BY <2>3, <2>4, <2>5, <2>6 DEF FlushedMeans, Promises, DurableUnlessExposed
<1>3. ASSUME NEW t \in All, Flush(t) PROVE (FlushedMeans /\ Promises /\ DurableUnlessExposed)'
  <2>1. Written' = Written /\ Durable' = Durable
    BY <1>3 DEF Flush, logVars, Written, Durable
  <2>2. \A l \in Written : l <= next - 1
    BY LsnsAreNumbers DEF Written, LsnsInUse, TypeOK
  <2>3. /\ owed' = [owed EXCEPT ![t] = Written] /\ target' = [target EXCEPT ![t] = next - 1]
        /\ UNCHANGED <<server, flushed, exposed, acked, pend>>
    BY <1>3 DEF Flush, Target, atomicVars
  <2> QED
    BY <2>1, <2>2, <2>3 DEF FlushedMeans, Promises, DurableUnlessExposed, TypeOK
<1>4. ASSUME NEW t \in All, NEW p \in Pages, WritePage(t, p) PROVE (FlushedMeans /\ Promises /\ DurableUnlessExposed)'
  BY <1>4 DEF WritePage, LatchFree, PageTarget, atomicVars, logVars, pageVars, historyVars, FlushedMeans, Promises, DurableUnlessExposed, TypeOK, Written, Durable
<1>5. ASSUME NEW t \in All, NEW p \in Pages, PageWritten(t, p) PROVE (FlushedMeans /\ Promises /\ DurableUnlessExposed)'
  BY <1>5 DEF PageWritten, atomicVars, logVars, pageVars, historyVars, FlushedMeans, Promises, DurableUnlessExposed, TypeOK, Written, Durable
<1>6. ASSUME NEW t \in All, FlushedByOther(t) PROVE (FlushedMeans /\ Promises /\ DurableUnlessExposed)'
  <2>1. Written' = Written /\ Durable' = Durable
    BY <1>6 DEF FlushedByOther, logVars, Written, Durable
  <2>2. UNCHANGED <<server, flushed, exposed, pend>> /\ server = "up" /\ flushed >= target[t] /\ Return(t)
    BY <1>6 DEF FlushedByOther, atomicVars
  <2>3. acked' = acked \cup owed[t]
    BY <2>2 DEF Return
  <2>4. owed'[t] = {} /\ \A u \in All : u # t => owed'[u] = owed[u] /\ target'[u] = target[u]
    <3>1. owed' = [owed EXCEPT ![t] = {}] /\ target' = [target EXCEPT ![t] = 0]
      BY <2>2 DEF Return
    <3> QED  BY <3>1 DEF TypeOK
  <2>5. owed[t] \subseteq Durable \cup exposed
    <3>1. Written \in SUBSET Nat
      BY LsnsAreNumbers DEF TypeOK
    <3> QED  BY <2>2, <3>1 DEF Promises, FlushedMeans, TypeOK
  <2> QED
    BY <2>1, <2>2, <2>3, <2>4, <2>5 DEF FlushedMeans, Promises, DurableUnlessExposed
<1>7. ASSUME NEW t \in All, FallBack(t) PROVE (FlushedMeans /\ Promises /\ DurableUnlessExposed)'
  BY <1>7 DEF FallBack, atomicVars, logVars, pageVars, historyVars, FlushedMeans, Promises, DurableUnlessExposed, TypeOK, Written, Durable
<1>8. ASSUME NEW t \in All, TakeFsyncLock(t) PROVE (FlushedMeans /\ Promises /\ DurableUnlessExposed)'
  <2>1. Written' = Written /\ Durable' = Durable
    BY <1>8 DEF TakeFsyncLock, logVars, Written, Durable
  <2>2. UNCHANGED <<server, flushed, exposed, pend>> /\ server = "up"
    BY <1>8 DEF TakeFsyncLock, atomicVars
  <2>3. CASE flushed >= target[t] /\ Return(t)
    <3>1. acked' = acked \cup owed[t]
      BY <2>3 DEF Return
    <3>2. owed'[t] = {} /\ \A u \in All : u # t => owed'[u] = owed[u] /\ target'[u] = target[u]
      <4>1. owed' = [owed EXCEPT ![t] = {}] /\ target' = [target EXCEPT ![t] = 0]
        BY <2>3 DEF Return
      <4> QED  BY <4>1 DEF TypeOK
    <3>3. owed[t] \subseteq Durable \cup exposed
      <4>1. Written \in SUBSET Nat
        BY LsnsAreNumbers DEF TypeOK
      <4> QED  BY <2>2, <2>3, <4>1 DEF Promises, FlushedMeans, TypeOK
    <3> QED
      BY <2>1, <2>2, <3>1, <3>2, <3>3 DEF FlushedMeans, Promises, DurableUnlessExposed
  <2>4. CASE UNCHANGED <<target, owed, acked>>
    BY <2>1, <2>2, <2>4 DEF FlushedMeans, Promises, DurableUnlessExposed
  <2> QED  BY <1>8, <2>3, <2>4 DEF TakeFsyncLock
<1>9. ASSUME NEW t \in All, Sync(t) PROVE (FlushedMeans /\ Promises /\ DurableUnlessExposed)'
  <2>1. Written' = Written /\ Durable \subseteq Durable'
    BY <1>9, LsnsAreNumbers DEF Sync, Written, Durable, Halves, TypeOK
  <2>2. UNCHANGED <<server, flushed, exposed, pend, owed, target, acked>>
    BY <1>9 DEF Sync, atomicVars, historyVars
  <2> QED
    BY <2>1, <2>2 DEF FlushedMeans, Promises, DurableUnlessExposed
<1>10. ASSUME NEW t \in All, Publish(t) PROVE (FlushedMeans /\ Promises /\ DurableUnlessExposed)'
  <2>1. Written' = Written /\ Durable' = Durable
    BY <1>10 DEF Publish, logVars, Written, Durable
  <2>2. Written \subseteq Durable
    BY <1>10 DEF Publish, Owners, Halves, Written, Durable, TypeOK
  <2>3. UNCHANGED <<server, pend>> /\ exposed \subseteq exposed' /\ Return(t)
    BY <1>10 DEF Publish
  <2>4. \A u \in All : \A r \in pend[u] : r.lsn \in exposed'
    BY <1>10 DEF Publish
  <2>5. acked' = acked \cup owed[t]
    BY <2>3 DEF Return
  <2>6. owed'[t] = {} /\ \A u \in All : u # t => owed'[u] = owed[u] /\ target'[u] = target[u]
    <3>1. owed' = [owed EXCEPT ![t] = {}] /\ target' = [target EXCEPT ![t] = 0]
      BY <2>3 DEF Return
    <3> QED  BY <3>1 DEF TypeOK
  <2> QED
    BY <2>1, <2>2, <2>3, <2>4, <2>5, <2>6 DEF FlushedMeans, Promises, DurableUnlessExposed
<1>11. ASSUME NEW k \in synced .. spilled, Crash(k) PROVE (FlushedMeans /\ Promises /\ DurableUnlessExposed)'
  BY <1>11 DEF Crash, atomicVars, logVars, pageVars, historyVars, FlushedMeans, Promises, DurableUnlessExposed, TypeOK, Written, Durable
<1>12. ASSUME NEW m \in {0} \cup Written, NEW f \in [Pages -> UNION {RedoLsns(p) : p \in Pages}], Restart(m, f) PROVE (FlushedMeans /\ Promises /\ DurableUnlessExposed)'
  <2>1. Written' = Written /\ Durable' = Durable
    BY <1>12 DEF Restart, logVars, Written, Durable
  <2>2. UNCHANGED <<acked, owed, target, pend>> /\ exposed' = exposed \cup (Written \ Durable)
    BY <1>12 DEF Restart
  <2>3. \A u \in All : pend[u] = {}
    BY <1>12 DEF Restart, Shape
  <2> QED
    BY <2>1, <2>2, <2>3 DEF FlushedMeans, Promises, DurableUnlessExposed
<1>13. ASSUME RestartFails PROVE (FlushedMeans /\ Promises /\ DurableUnlessExposed)'
  BY <1>13 DEF RestartFails, atomicVars, logVars, pageVars, historyVars, FlushedMeans, Promises, DurableUnlessExposed, TypeOK, Written, Durable
<1>14. ASSUME UndoAbort PROVE (FlushedMeans /\ Promises /\ DurableUnlessExposed)'
  <2> DEFINE r == [lsn |-> next, page |-> NoPage]
  <2>1. r \in Record /\ log \in Seq(Record) /\ log' = Append(log, r) /\ r.lsn = next /\ r.page = NoPage
    BY <1>14 DEF UndoAbort, TypeOK, Record
  <2> HIDE DEF r
  <2>2. /\ Len(log') = Len(log) + 1 /\ DOMAIN log' = 1 .. (Len(log) + 1) /\ log' \in Seq(Record)
        /\ log'[Len(log) + 1] = r
        /\ \A i \in 1 .. Len(log) : i \in DOMAIN log /\ log'[i] = log[i]
    BY <2>1, AppendFacts
  <2>3. Written' = Written \cup {r.lsn} /\ Durable \subseteq Durable'
    <3>1. synced' = synced
      BY <1>14 DEF UndoAbort
    <3>2. DOMAIN log = 1 .. Len(log) /\ Len(log) \in Nat
      BY <2>1
    <3>3. Written' = Written \cup {r.lsn}
      BY <2>2, <3>2 DEF Written
    <3>4. Durable \subseteq Durable'
      BY <2>2, <3>1, <3>2 DEF Durable
    <3> QED  BY <3>3, <3>4
  <2>4. UNCHANGED <<server, flushed, pend, exposed, owed, target, acked>> /\ server = "recovering"
    BY <1>14 DEF UndoAbort, historyVars
  <2>5. ~(r.lsn <= flushed)
    BY <2>1 DEF TypeOK
  <2> QED
    BY <2>3, <2>4, <2>5 DEF FlushedMeans, Promises, DurableUnlessExposed
<1>15. ASSUME RecoverEnd PROVE (FlushedMeans /\ Promises /\ DurableUnlessExposed)'
  <2>1. UNCHANGED <<log, pend, exposed, owed, target, acked>> /\ Written' = Written
    BY <1>15 DEF RecoverEnd, historyVars, Written
  <2>2. Written' \subseteq Durable' \cup exposed'
    <3>1. CASE flushed < Target
      BY <1>15, <2>1, <3>1 DEF RecoverEnd, Written, Durable, Halves, TypeOK
    <3>2. CASE ~(flushed < Target)
      <4>1. Durable' = Durable
        BY <1>15, <2>1, <3>2 DEF RecoverEnd, Durable
      <4>2. \A l \in Written : l <= flushed
        BY <3>2, LsnsAreNumbers DEF Target, Written, LsnsInUse, TypeOK
      <4> QED  BY <1>15, <2>1, <4>1, <4>2 DEF RecoverEnd, FlushedMeans
    <3> QED  BY <3>1, <3>2
  <2>3. \A u \in All : pend[u] = {}
    BY <1>15 DEF RecoverEnd, Shape
  <2> QED
    BY <2>1, <2>2, <2>3 DEF FlushedMeans, Promises, DurableUnlessExposed
<1>16. CASE UNCHANGED vars
  BY <1>16 DEF vars, atomicVars, logVars, pageVars, historyVars, FlushedMeans, Promises, DurableUnlessExposed, TypeOK, Written, Durable
<1>17. Kill \/ PowerLoss => (FlushedMeans /\ Promises /\ DurableUnlessExposed)'
  <2>1. spilled \in synced .. spilled /\ synced .. (spilled - 1) \subseteq synced .. spilled
    BY DEF TypeOK
  <2> QED  BY <1>11, <2>1 DEF Kill, PowerLoss
<1> QED
  BY <1>1, <1>2, <1>3, <1>4, <1>5, <1>6, <1>7, <1>8, <1>9, <1>10, <1>11, <1>12, <1>13, <1>14, <1>15, <1>16, <1>17
  DEF Next, Appending, Flushing, StaysDown

\* Page LSNs change with the log, and page images under the page's latch.
LEMMA ImagesKept == IInv /\ [Next]_vars => Images'
<1> USE WalAssumption DEF All
<1> SUFFICES ASSUME IInv, [Next]_vars PROVE Images'
  OBVIOUS
<1> USE DEF IInv
<1>1. ASSUME NEW t \in All, NEW p \in Pages \cup {NoPage}, AppendLsn(t, p) PROVE Images'
  <2>1. Written' = Written /\ UNCHANGED <<server, flushed, pageLsn, diskLsn, page, target>>
    BY <1>1 DEF AppendLsn, logVars, Written
  <2>2. pc[t] = "run" /\ pc' = [pc EXCEPT ![t] = "append"]
    BY <1>1 DEF AppendLsn
  <2>3. page[t] = {}
    BY <2>2 DEF Owners
  <2>4. \A u \in All : page[u] # {} => pc'[u] = pc[u]
    BY <2>2, <2>3 DEF TypeOK
  <2> QED  BY <2>1, <2>4 DEF Images
<1>2. ASSUME NEW t \in All, NEW r \in pend[t], AppendWrite(t, r) PROVE Images'
  <2>1. r \in Record /\ log \in Seq(Record) /\ log' = Append(log, r)
    BY <1>2 DEF AppendWrite, TypeOK
  <2>2. /\ DOMAIN log' = 1 .. (Len(log) + 1) /\ log'[Len(log) + 1] = r
        /\ \A i \in DOMAIN log : i \in DOMAIN log' /\ log'[i] = log[i]
    BY <2>1, AppendFacts
  <2>3. Written' = Written \cup {r.lsn}
    BY <2>1, <2>2 DEF Written
  <2>4. UNCHANGED <<server, flushed, diskLsn, page, target>>
    BY <1>2 DEF AppendWrite, atomicVars
  <2>5. pc[t] = "append" /\ page[t] = {} /\ pc' = [pc EXCEPT ![t] = "run"]
    BY <1>2 DEF AppendWrite, Owners
  <2>6. \A u \in All : page[u] # {} => pc'[u] = pc[u]
    BY <2>5 DEF TypeOK
  <2>7. CASE r.page = NoPage
    BY <1>2, <2>3, <2>4, <2>6, <2>7 DEF AppendWrite, Images
  <2>8. CASE r.page # NoPage
    <3>1. r.page \in Pages /\ latch[r.page] = t /\ pageLsn' = [pageLsn EXCEPT ![r.page] = r.lsn]
      BY <1>2, <2>1, <2>8 DEF AppendWrite, Record, Owners
    <3>2. \A u \in All : r.page \notin page[u]
      BY <2>5, <3>1 DEF Owners
    <3>3. \A p \in Pages : p # r.page => pageLsn'[p] = pageLsn[p]
      BY <3>1 DEF TypeOK
    <3>4. pageLsn'[r.page] = r.lsn
      BY <3>1 DEF TypeOK
    <3>5. \A u \in All : \A p \in page[u] : p \in Pages /\ pageLsn'[p] = pageLsn[p]
      <4>1. \A u \in All : \A p \in page[u] : p \in Pages
        BY DEF TypeOK
      <4>2. \A u \in All : \A p \in page[u] : p # r.page
        BY <3>2
      <4> QED  BY <3>3, <4>1, <4>2
    <3> QED  BY <2>3, <2>4, <2>6, <3>3, <3>4, <3>5 DEF Images
  <2> QED  BY <2>7, <2>8
<1>3. ASSUME NEW t \in All, Flush(t) PROVE Images'
  <2>1. Written' = Written /\ UNCHANGED <<server, flushed, pageLsn, diskLsn, page>> /\ server = "up"
    BY <1>3 DEF Flush, logVars, atomicVars, pageVars, Written
  <2>2. page[t] = {} /\ pc' = [pc EXCEPT ![t] = "lock"] /\ target' = [target EXCEPT ![t] = next - 1]
    BY <1>3 DEF Flush, Target, Owners
  <2>3. \A u \in All : page[u] # {} => pc'[u] = pc[u] /\ target'[u] = target[u]
    BY <2>2 DEF TypeOK
  <2> QED  BY <2>1, <2>3 DEF Images
<1>4. ASSUME NEW t \in All, NEW p \in Pages, WritePage(t, p) PROVE Images'
  <2>1. Written' = Written /\ UNCHANGED <<server, flushed, pageLsn, diskLsn>> /\ server = "up"
    BY <1>4 DEF WritePage, logVars, atomicVars, Written
  <2>2. /\ pc' = [pc EXCEPT ![t] = "wait"] /\ target' = [target EXCEPT ![t] = pageLsn[p]]
        /\ page' = [page EXCEPT ![t] = {p}] /\ diskLsn[p] # pageLsn[p]
    BY <1>4 DEF WritePage, PageTarget
  <2>3. page'[t] = {p} /\ pc'[t] = "wait" /\ target'[t] = pageLsn[p]
    BY <2>2 DEF TypeOK
  <2>4. \A u \in All : u # t => page'[u] = page[u] /\ pc'[u] = pc[u] /\ target'[u] = target[u]
    BY <2>2 DEF TypeOK
  <2>5. pageLsn[p] \in Written
    BY <2>1, <2>2 DEF Images
  <2> QED  BY <2>1, <2>3, <2>4, <2>5 DEF Images
<1>5. ASSUME NEW t \in All, NEW p \in Pages, PageWritten(t, p) PROVE Images'
  <2>1. Written' = Written /\ UNCHANGED <<server, flushed, pageLsn, target>> /\ server = "up"
    BY <1>5 DEF PageWritten, logVars, atomicVars, Written
  <2>2. /\ diskLsn' = [diskLsn EXCEPT ![p] = pageLsn[p]]
        /\ page' = [page EXCEPT ![t] = {}] /\ pc' = [pc EXCEPT ![t] = "run"]
    BY <1>5 DEF PageWritten
  <2>3. \A q \in Pages : pageLsn[q] \in Written \cup {diskLsn'[q]}
    <3>1. diskLsn'[p] = pageLsn[p] /\ \A q \in Pages : q # p => diskLsn'[q] = diskLsn[q]
      BY <2>2 DEF TypeOK
    <3> QED  BY <2>1, <3>1 DEF Images
  <2>4. page'[t] = {} /\ \A u \in All : u # t => page'[u] = page[u] /\ pc'[u] = pc[u]
    BY <2>2 DEF TypeOK
  <2> QED  BY <2>1, <2>3, <2>4 DEF Images
<1>6. ASSUME NEW t \in All, FlushedByOther(t) PROVE Images'
  <2>1. Written' = Written /\ UNCHANGED <<server, flushed, pageLsn, diskLsn, page>> /\ server = "up"
    BY <1>6 DEF FlushedByOther, logVars, atomicVars, pageVars, Written
  <2>2. flushed >= target[t] /\ pc[t] = "wait"
    BY <1>6 DEF FlushedByOther
  <2>3. /\ pc' = [pc EXCEPT ![t] = IF page[t] = {} THEN "run" ELSE "write"]
        /\ target' = [target EXCEPT ![t] = 0]
    BY <1>6 DEF FlushedByOther, Return
  <2>4. /\ page[t] # {} => pc'[t] = "write"
        /\ \A u \in All : u # t => pc'[u] = pc[u] /\ target'[u] = target[u]
    BY <2>3 DEF TypeOK
  <2>5. \A p \in page[t] : pageLsn[p] <= flushed
    <3>1. \A p \in page[t] : target[t] = pageLsn[p]
      BY <2>1, <2>2 DEF Images
    <3> QED  BY <2>2, <3>1 DEF TypeOK
  <2> QED  BY <2>1, <2>4, <2>5 DEF Images
<1>7. ASSUME NEW t \in All, FallBack(t) PROVE Images'
  BY <1>7 DEF FallBack, atomicVars, logVars, pageVars, historyVars, Images, TypeOK, Written
<1>8. ASSUME NEW t \in All, TakeFsyncLock(t) PROVE Images'
  <2>1. Written' = Written /\ UNCHANGED <<server, flushed, pageLsn, diskLsn, page>> /\ server = "up"
    BY <1>8 DEF TakeFsyncLock, logVars, atomicVars, pageVars, Written
  <2>2. CASE flushed >= target[t] /\ Return(t)
    <3>1. pc[t] = "lock"
      BY <1>8 DEF TakeFsyncLock
    <3>2. /\ pc' = [pc EXCEPT ![t] = IF page[t] = {} THEN "run" ELSE "write"]
          /\ target' = [target EXCEPT ![t] = 0]
      BY <2>2 DEF Return
    <3>3. /\ page[t] # {} => pc'[t] = "write"
          /\ \A u \in All : u # t => pc'[u] = pc[u] /\ target'[u] = target[u]
      BY <3>2 DEF TypeOK
    <3>4. \A p \in page[t] : pageLsn[p] <= flushed
      <4>1. \A p \in page[t] : target[t] = pageLsn[p]
        BY <2>1, <3>1 DEF Images
      <4> QED  BY <2>2, <4>1 DEF TypeOK
    <3> QED  BY <2>1, <3>3, <3>4 DEF Images
  <2>3. CASE pc' = [pc EXCEPT ![t] = "sync"] /\ UNCHANGED target
    <3>1. pc[t] = "lock" /\ pc'[t] = "sync" /\ \A u \in All : u # t => pc'[u] = pc[u]
      BY <1>8, <2>3 DEF TakeFsyncLock, TypeOK
    <3> QED  BY <2>1, <2>3, <3>1 DEF Images
  <2> QED  BY <1>8, <2>2, <2>3 DEF TakeFsyncLock
<1>9. ASSUME NEW t \in All, Sync(t) PROVE Images'
  <2>1. Written' = Written /\ UNCHANGED <<server, flushed, pageLsn, diskLsn, page, target>>
    BY <1>9 DEF Sync, atomicVars, pageVars, Written
  <2>2. pc[t] = "sync" /\ pc'[t] = "publish" /\ \A u \in All : u # t => pc'[u] = pc[u]
    BY <1>9 DEF Sync, TypeOK
  <2> QED  BY <2>1, <2>2 DEF Images
<1>10. ASSUME NEW t \in All, Publish(t) PROVE Images'
  <2>1. Written' = Written /\ UNCHANGED <<server, pageLsn, diskLsn, page>>
    BY <1>10 DEF Publish, logVars, pageVars, Written
  <2>2. flushed' >= flushed /\ flushed' >= next - 1 /\ flushed' \in Nat
    BY <1>10 DEF Publish, NowDurable, TypeOK
  <2>3. \A l \in Written : l <= next - 1 /\ l \in Nat
    BY LsnsAreNumbers DEF Written, LsnsInUse, TypeOK
  <2>4. /\ pc' = [pc EXCEPT ![t] = IF page[t] = {} THEN "run" ELSE "write"]
        /\ target' = [target EXCEPT ![t] = 0]
    BY <1>10 DEF Publish, Return
  <2>5. /\ page[t] # {} => pc'[t] = "write"
        /\ \A u \in All : u # t => pc'[u] = pc[u] /\ target'[u] = target[u]
    BY <2>4 DEF TypeOK
  <2>6. server = "up"
    BY <1>10 DEF Publish
  <2>7. \A u \in All : \A p \in page[u] : p \in Pages /\ pageLsn[p] \in Written
    BY <2>6 DEF Images, TypeOK
  <2>8. \A u \in All : \A p \in page[u] : pageLsn[p] <= flushed'
    BY <2>2, <2>3, <2>7 DEF TypeOK
  <2> QED  BY <2>1, <2>5, <2>6, <2>7, <2>8 DEF Images
<1>11. ASSUME NEW k \in synced .. spilled, Crash(k) PROVE Images'
  BY <1>11 DEF Crash, atomicVars, logVars, pageVars, historyVars, Images, TypeOK, Written
<1>12. ASSUME NEW m \in {0} \cup Written, NEW f \in [Pages -> UNION {RedoLsns(p) : p \in Pages}], Restart(m, f) PROVE Images'
  <2>1. Written' = Written /\ UNCHANGED <<diskLsn, page>> /\ pageLsn' = f
    BY <1>12 DEF Restart, logVars, Written
  <2>2. \A p \in Pages : f[p] \in Written \cup {diskLsn[p]}
    BY <1>12 DEF Restart, RedoLsns, Written
  <2>3. \A u \in All : page[u] = {}
    BY <1>12 DEF Restart, Shape
  <2> QED  BY <2>1, <2>2, <2>3 DEF Images
<1>13. ASSUME RestartFails PROVE Images'
  BY <1>13 DEF RestartFails, atomicVars, logVars, pageVars, historyVars, Images, TypeOK, Written
<1>14. ASSUME UndoAbort PROVE Images'
  <2> DEFINE r == [lsn |-> next, page |-> NoPage]
  <2>1. r \in Record /\ log \in Seq(Record) /\ log' = Append(log, r)
    BY <1>14 DEF UndoAbort, TypeOK, Record
  <2> HIDE DEF r
  <2>2. /\ DOMAIN log' = 1 .. (Len(log) + 1)
        /\ \A i \in DOMAIN log : i \in DOMAIN log' /\ log'[i] = log[i]
    BY <2>1, AppendFacts
  <2>3. Written \subseteq Written'
    BY <2>2 DEF Written
  <2> QED
    BY <1>14, <2>3 DEF UndoAbort, pageVars, Images
<1>15. ASSUME RecoverEnd PROVE Images'
  <2>1. UNCHANGED <<pageLsn, page>> /\ diskLsn' = pageLsn
    BY <1>15 DEF RecoverEnd
  <2>2. \A u \in All : page[u] = {}
    BY <1>15 DEF RecoverEnd, Shape
  <2> QED  BY <2>1, <2>2 DEF Images
<1>16. CASE UNCHANGED vars
  BY <1>16 DEF vars, atomicVars, logVars, pageVars, historyVars, Images, TypeOK, Written
<1>17. Kill \/ PowerLoss => Images'
  <2>1. spilled \in synced .. spilled /\ synced .. (spilled - 1) \subseteq synced .. spilled
    BY DEF TypeOK
  <2> QED  BY <1>11, <2>1 DEF Kill, PowerLoss
<1> QED
  BY <1>1, <1>2, <1>3, <1>4, <1>5, <1>6, <1>7, <1>8, <1>9, <1>10, <1>11, <1>12, <1>13, <1>14, <1>15, <1>16, <1>17
  DEF Next, Appending, Flushing, StaysDown

-----------------------------------------------------------------------------
(* Theorems *)

\* The log starts empty, and every step, crash and restart keeps the invariant.
THEOREM Invariance == Spec => []IInv
<1>1. Init => IInv
  <2> SUFFICES ASSUME Init PROVE IInv
    OBVIOUS
  <2> USE WalAssumption DEF Init, All
  <2>1. TypeOK
    <3>1. log \in Seq(Record) /\ Len(log) = 0
      OBVIOUS
    <3>2. synced \in 0 .. spilled /\ spilled \in 0 .. (Halves(log) + 1)
      BY <3>1 DEF Halves
    <3>3. /\ pc \in [All -> PCs] /\ pend \in [All -> SUBSET Record]
          /\ page \in [All -> SUBSET Pages] /\ owed \in [All -> SUBSET Nat]
      BY DEF PCs
    <3>4. /\ target \in [All -> Nat] /\ latch \in [Pages -> All \cup {Nobody}]
          /\ pageLsn \in [Pages -> Nat] /\ diskLsn \in [Pages -> Nat]
      OBVIOUS
    <3>5. next \in Nat \ {0} /\ flushed \in 0 .. (next - 1)
      OBVIOUS
    <3> QED  BY <3>1, <3>2, <3>3, <3>4, <3>5 DEF TypeOK
  <2>2. Shape /\ Owners /\ LsnsInUse /\ NewestPending
    BY DEF Shape, Owners, LsnsInUse, NewestPending, Halves
  <2>3. LsnsUnique /\ PageRecordsOrdered
    BY DEF LsnsUnique, PageRecordsOrdered
  <2>4. FlushedMeans /\ Promises /\ DurableUnlessExposed /\ Images
    BY DEF FlushedMeans, Promises, DurableUnlessExposed, Images, Written
  <2> QED  BY <2>1, <2>2, <2>3, <2>4 DEF IInv
<1>2. IInv /\ [Next]_vars => IInv'
  BY TypeOKKept, ShapeKept, OwnersKept, LsnsKept, OrderKept, DurableKept, ImagesKept DEF IInv
<1> QED  BY <1>1, <1>2, PTL DEF Spec

\* The variables keep their types; flushed_lsn stays below next_lsn and the
\* synced part of the file inside the part the operating system has.
THEOREM TypeCorrect == Spec => []TypeOK
  BY Invariance, PTL DEF IInv

\* No two records of the log ever have the same LSN, restarts included.
THEOREM LsnsNameRecords == Spec => []LsnsUnique
  BY Invariance, PTL DEF IInv

\* The records of a page are in the file in the order of their LSNs.
THEOREM PagesReplayInOrder == Spec => []PageRecordsOrdered
  BY Invariance, PTL DEF IInv

\* A flush() or flush_to() that returned Ok has made its records durable unless
\* they were exposed by another thread's fsync or by an earlier process.
THEOREM AcknowledgedIsDurable == Spec => []DurableUnlessExposed
  BY Invariance, PTL DEF IInv

\* The WAL rule, up to the records exposed: a page image that reaches the disk, by
\* eviction, flush_page or at the end of recovery, has its log record on disk.
THEOREM PagesFollowTheirLog == Spec => LogBeforePage
<1> DEFINE A == \A p \in Pages : diskLsn'[p] # diskLsn[p] => diskLsn'[p] \in Durable' \cup exposed'
<1>1. IInv /\ [Next]_vars => A
  <2> SUFFICES ASSUME IInv, [Next]_vars PROVE A
    OBVIOUS
  <2> USE WalAssumption DEF All
  <2>1. ASSUME NEW t \in All, NEW p \in Pages, PageWritten(t, p) PROVE A
    <3>1. diskLsn' = [diskLsn EXCEPT ![p] = pageLsn[p]] /\ Durable' = Durable /\ exposed' = exposed
      BY <2>1 DEF PageWritten, logVars, historyVars, Durable
    <3>2. server = "up" /\ p \in page[t] /\ pc[t] = "write"
      BY <2>1 DEF PageWritten
    <3>3. pageLsn[p] \in Durable \cup exposed
      BY <3>2 DEF IInv, Images, FlushedMeans
    <3> QED  BY <3>1, <3>3 DEF IInv, TypeOK
  <2>2. ASSUME RecoverEnd PROVE A
    <3>1. /\ diskLsn' = pageLsn /\ server = "recovering" /\ server' = "up"
          /\ UNCHANGED <<log, next, exposed>> /\ Written' = Written
      BY <2>2 DEF RecoverEnd, historyVars, Written
    <3>2. flushed' = next - 1
      <4>1. next \in Nat /\ flushed \in 0 .. (next - 1)
        BY DEF IInv, TypeOK
      <4>2. flushed' = IF flushed < next - 1 THEN next - 1 ELSE flushed
        BY <2>2 DEF RecoverEnd, Target, NowDurable
      <4> QED  BY <4>1, <4>2
    <3>3. \A l \in Written : l <= next - 1
      BY LsnsAreNumbers DEF Written, IInv, LsnsInUse, TypeOK
    <3>4. FlushedMeans'
      BY DurableKept
    <3>5. Written \subseteq Durable' \cup exposed'
      BY <3>1, <3>2, <3>3, <3>4 DEF FlushedMeans
    <3> QED  BY <3>1, <3>5 DEF IInv, Images
  <2>3. CASE UNCHANGED diskLsn
    BY <2>3
  <2> QED
    BY <2>1, <2>2, <2>3
    DEF Next, Appending, Flushing, StaysDown, AppendLsn, AppendWrite, Flush, WritePage,
        FlushedByOther, FallBack, TakeFsyncLock, Sync, Publish, Kill, PowerLoss, Crash,
        Restart, UndoAbort, RestartFails, vars, pageVars
<1> QED  BY <1>1, Invariance, PTL DEF Spec, LogBeforePage
=============================================================================
