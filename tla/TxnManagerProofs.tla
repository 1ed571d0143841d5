-------------------------- MODULE TxnManagerProofs --------------------------
(***************************************************************************)
(* Safety of TxnManager for every set of connections and every bound.      *)
(*                                                                         *)
(* The argument.  fetch_add hands out each id once (Fresh, IdsUnique), so  *)
(* the thread inside commit() or abort() is the only one that can write    *)
(* the CLOG entry it is about to write.  A running transaction is in the   *)
(* ATT and undecided (RunningIsUndecided); a decision that the client      *)
(* asked for is either in the CLOG or still on its owner's stack with the  *)
(* entry empty (PendingDecision), which is what makes "first decision      *)
(* wins" keep it.  A cached Committed was copied from a CLOG entry that no *)
(* one can change (MemoCommitted), which makes the cache safe to trust for *)
(* that answer.                                                            *)
(***************************************************************************)
EXTENDS TxnManager, TLAPS

\* Where the code uses Transaction.id (or the looked-up id), there is one.
HasId ==
    \A c \in Conns : /\ pc[c] \notin {"off", "alloc"} => id[c] \in TxnIds
                     /\ pc[c] = "attCheck" => lookup[c] \in TxnIds

\* What the frames of commit(), abort(), begin() and snapshot() return to.
Frames ==
    \A c \in Conns : /\ pc[c] \in {"alloc", "insert", "snapshot"} => resume[c] \in {"idle", "stmt"}
                     /\ pc[c] \in {"remove", "decide"} /\ resume[c] \in {"ended", "off"} => ~active[c]
                     /\ pc[c] \in {"remove", "decide"} /\ resume[c] \in {"idle", "stmt"} => verdict[c] = Committed

\* Ids at or above next_txn_id are unused everywhere.
Fresh ==
    /\ nextTxnId > SystemTxnId
    /\ \A c \in Conns : id[c] < nextTxnId /\ snap[c].xmax <= nextTxnId
    /\ \A x \in TxnIds : x >= nextTxnId =>
          clog[x] = InProgress /\ outcome[x] = InProgress /\ x \notin att

\* An id between fetch_add and att.insert is new.
InsertPending ==
    \A c \in Conns : pc[c] = "insert" =>
        id[c] \notin att /\ clog[id[c]] = InProgress /\ outcome[id[c]] = InProgress

\* DecisionKept, strengthened: a decision not yet in the CLOG finds it empty.
PendingDecision ==
    \A x \in TxnIds :
        \/ outcome[x] = InProgress
        \/ clog[x] = outcome[x]
        \/ /\ clog[x] = InProgress
           /\ \E c \in Conns : /\ id[c] = x
                               /\ pc[c] \in {"remove", "decide"}
                               /\ verdict[c] = outcome[x]

\* A cached Committed is what the CLOG says.
MemoCommitted ==
    \A c \in Conns : \A x \in TxnIds : memo[c][x] = Committed => clog[x] = Committed

\* The inductive invariant.
IInv == /\ TypeOK /\ HasId /\ Frames /\ Fresh
        /\ IdsUnique /\ RunningIsUndecided /\ InsertPending /\ AttHasNoLeaks
        /\ PendingDecision /\ MemoCommitted /\ NoDirtyRead /\ SnapshotExact

\* What a cache insertion of status() can change: it may drop any entry (the
\* clear on overflow) and adds the one entry it is called for.
LEMMA MemoiseEffect ==
    ASSUME TypeOK, NEW c \in Conns, NEW x \in TxnIds, NEW s \in Status, Memoise(c, x, s)
    PROVE  /\ memo' \in [Conns -> [TxnIds -> Status]]
           /\ \A d \in Conns : \A y \in TxnIds :
                 memo'[d][y] \in {memo[d][y], InProgress} \/ (d = c /\ y = x /\ memo'[d][y] = s)
<1> DEFINE full == Cardinality(Cached(c)) >= CacheCap
           row == [y \in TxnIds |-> IF y = x THEN s ELSE IF full THEN InProgress ELSE memo[c][y]]
<1>1. memo' = [memo EXCEPT ![c] = row]
  BY DEF Memoise
<1> HIDE DEF full
<1>2. row \in [TxnIds -> Status]
  BY DEF TypeOK, Status
<1>3. \A y \in TxnIds : row[y] \in {memo[c][y], InProgress} \/ (y = x /\ row[y] = s)
  OBVIOUS
<1> HIDE DEF row
<1>4. QED
  BY <1>1, <1>2, <1>3 DEF TypeOK

\* Every step of a connection keeps every variable in its range.
LEMMA TypeOKStep == IInv /\ [Next]_vars => TypeOK'
<1> SUFFICES ASSUME IInv, [Next]_vars PROVE TypeOK'
  OBVIOUS
<1> USE BoundsAssumption DEF IInv, Status, Terminal, InProgress, Committed, Aborted, TxnIds,
        NoId, PCs, SnapshotSet, tmVars, txVars, ctlVars, history
<1>0. CASE UNCHANGED vars
  BY <1>0 DEF vars, TypeOK, NoSnapshot, BeginWindow, HasId, NeedsStatus
<1>1. ASSUME NEW c \in Conns, FetchAddId(c) PROVE TypeOK'
  BY <1>1 DEF FetchAddId, FetchAdd, TypeOK, NoSnapshot, BeginWindow, HasId, NeedsStatus
<1>2. ASSUME NEW c \in Conns, AttInsert(c) PROVE TypeOK'
  BY <1>2 DEF AttInsert, AttWith, TypeOK, NoSnapshot, BeginWindow, HasId, NeedsStatus
<1>3. ASSUME NEW c \in Conns, TakeSnapshot(c) PROVE TypeOK'
  <2>1. BeginWindow \in SUBSET TxnIds
    BY DEF HasId, BeginWindow
  <2>2. SnapshotNow \in SnapshotSet
    BY DEF SnapshotNow, TypeOK
  <2>3. QED
    BY <1>3, <2>1, <2>2 DEF TakeSnapshot, Frames, TypeOK
<1>4. ASSUME NEW c \in Conns, AttRemove(c) PROVE TypeOK'
  BY <1>4 DEF AttRemove, AttWithout, TypeOK, NoSnapshot, BeginWindow, HasId, NeedsStatus
<1>5. ASSUME NEW c \in Conns, Decide(c) PROVE TypeOK'
  <2>1. clog' \in [TxnIds -> Status]
    BY <1>5 DEF Decide, ClogDecide, TypeOK
  <2>2. NoSnapshot \in SnapshotSet
    BY DEF NoSnapshot
  <2>3. snap' \in [Conns -> SnapshotSet]
    <3>1. snap' = snap \/ snap' = [snap EXCEPT ![c] = NoSnapshot]
      BY <1>5 DEF Decide
    <3>2. QED
      BY <2>2, <3>1 DEF TypeOK
  <2>4. id' \in [Conns -> TxnIds \cup {NoId}]
    BY <1>5 DEF Decide, TypeOK
  <2>5. /\ pc' \in [Conns -> PCs]
        /\ resume' \in [Conns -> {"off", "ended", "idle", "stmt"}]
    BY <1>5 DEF Decide, TypeOK
  <2>6. QED
    BY <1>5, <2>1, <2>3, <2>4, <2>5 DEF Decide, TypeOK
<1>6. ASSUME NEW c \in Conns, New(c) PROVE TypeOK'
  BY <1>6 DEF New, TypeOK, NoSnapshot, BeginWindow, HasId, NeedsStatus
<1>7. ASSUME NEW c \in Conns, RefreshAutocommit(c) PROVE TypeOK'
  BY <1>7 DEF RefreshAutocommit, Boundary, TypeOK, NoSnapshot, BeginWindow, HasId, NeedsStatus
<1>8. ASSUME NEW c \in Conns, StartInTx(c) PROVE TypeOK'
  BY <1>8 DEF StartInTx, TypeOK, NoSnapshot, BeginWindow, HasId, NeedsStatus
<1>9. ASSUME NEW c \in Conns, Begin(c) PROVE TypeOK'
  BY <1>9 DEF Begin, Boundary, TypeOK, NoSnapshot, BeginWindow, HasId, NeedsStatus
<1>10. ASSUME NEW c \in Conns, StampRow(c) PROVE TypeOK'
  BY <1>10 DEF StampRow, TypeOK, NoSnapshot, BeginWindow, HasId, NeedsStatus
<1>11. ASSUME NEW c \in Conns, Resnapshot(c) PROVE TypeOK'
  BY <1>11 DEF Resnapshot, TypeOK, NoSnapshot, BeginWindow, HasId, NeedsStatus
<1>12. ASSUME NEW c \in Conns, EndInTx(c) PROVE TypeOK'
  BY <1>12 DEF EndInTx, TypeOK, NoSnapshot, BeginWindow, HasId, NeedsStatus
<1>13. ASSUME NEW c \in Conns, Drop(c) PROVE TypeOK'
  BY <1>13 DEF Drop, TypeOK, NoSnapshot, BeginWindow, HasId, NeedsStatus
<1>14. ASSUME NEW c \in Conns, NEW v \in Terminal, AutocommitEnd(c, v) PROVE TypeOK'
  BY <1>14 DEF AutocommitEnd, EndTx, TypeOK, NoSnapshot, BeginWindow, HasId, NeedsStatus
<1>15. ASSUME NEW c \in Conns, NEW v \in Terminal, FinishTx(c, v) PROVE TypeOK'
  <2>1. NoSnapshot \in SnapshotSet
    BY DEF NoSnapshot
  <2>2. QED
    BY <1>15, <2>1 DEF FinishTx, EndTx, HasId, TypeOK
<1>16. ASSUME NEW c \in Conns, NEW x \in TxnIds, StatusCached(c, x) PROVE TypeOK'
  BY <1>16 DEF StatusCached, Judge, TypeOK, NoSnapshot, BeginWindow, HasId, NeedsStatus
<1>17. ASSUME NEW c \in Conns, NEW x \in TxnIds, StatusFromClog(c, x) PROVE TypeOK'
  BY <1>17 DEF StatusFromClog, Judge, Memoise, TypeOK, NoSnapshot, BeginWindow, HasId, NeedsStatus
<1>18. ASSUME NEW c \in Conns, NEW x \in TxnIds, StatusClogSilent(c, x) PROVE TypeOK'
  BY <1>18 DEF StatusClogSilent, TypeOK, NoSnapshot, BeginWindow, HasId, NeedsStatus
<1>19. ASSUME NEW c \in Conns, StatusFromAtt(c) PROVE TypeOK'
  <2>1. lookup[c] \in TxnIds /\ StatusAbsentFromClog(lookup[c]) \in Status
    BY <1>19 DEF StatusFromAtt, StatusAbsentFromClog, HasId
  <2>2. memo' \in [Conns -> [TxnIds -> Status]]
    <3> DEFINE s == StatusAbsentFromClog(lookup[c])
    <3> HIDE DEF s
    <3>1. s \in Status /\ (memo' = memo \/ Memoise(c, lookup[c], s))
      BY <1>19, <2>1 DEF StatusFromAtt, s
    <3>2. QED
      BY <3>1, <2>1, MemoiseEffect DEF TypeOK
  <2>3. judged' \in [Conns -> SUBSET TxnIds]
    BY <1>19, <2>1 DEF StatusFromAtt, Judge, TypeOK
  <2>4. QED
    BY <1>19, <2>2, <2>3 DEF StatusFromAtt, TypeOK
<1> QED
  BY <1>0, <1>1, <1>2, <1>3, <1>4, <1>5, <1>6, <1>7, <1>8, <1>9, <1>10, <1>11, <1>12, <1>13, <1>14, <1>15, <1>16, <1>17, <1>18, <1>19 DEF Next, Step

\* A thread enters the code that uses its id only after fetch_add gave it one.
LEMMA HasIdStep == IInv /\ [Next]_vars => HasId'
<1> SUFFICES ASSUME IInv, [Next]_vars PROVE HasId'
  OBVIOUS
<1> USE BoundsAssumption DEF IInv, Status, Terminal, InProgress, Committed, Aborted, TxnIds,
        NoId, PCs, SnapshotSet, tmVars, txVars, ctlVars, history
<1>0. CASE UNCHANGED vars
  BY <1>0 DEF vars, HasId, TypeOK
<1>1. ASSUME NEW c \in Conns, FetchAddId(c) PROVE HasId'
  BY <1>1 DEF FetchAddId, FetchAdd, HasId, TypeOK
<1>2. ASSUME NEW c \in Conns, AttInsert(c) PROVE HasId'
  BY <1>2 DEF AttInsert, AttWith, HasId, TypeOK
<1>3. ASSUME NEW c \in Conns, TakeSnapshot(c) PROVE HasId'
  BY <1>3 DEF TakeSnapshot, SnapshotNow, HasId, TypeOK
<1>4. ASSUME NEW c \in Conns, AttRemove(c) PROVE HasId'
  BY <1>4 DEF AttRemove, AttWithout, HasId, TypeOK
<1>5. ASSUME NEW c \in Conns, Decide(c) PROVE HasId'
  BY <1>5 DEF Decide, ClogDecide, HasId, TypeOK
<1>6. ASSUME NEW c \in Conns, New(c) PROVE HasId'
  BY <1>6 DEF New, HasId, TypeOK
<1>7. ASSUME NEW c \in Conns, RefreshAutocommit(c) PROVE HasId'
  BY <1>7 DEF RefreshAutocommit, Boundary, HasId, TypeOK
<1>8. ASSUME NEW c \in Conns, StartInTx(c) PROVE HasId'
  BY <1>8 DEF StartInTx, HasId, TypeOK
<1>9. ASSUME NEW c \in Conns, Begin(c) PROVE HasId'
  BY <1>9 DEF Begin, Boundary, HasId, TypeOK
<1>10. ASSUME NEW c \in Conns, StampRow(c) PROVE HasId'
  BY <1>10 DEF StampRow, HasId, TypeOK
<1>11. ASSUME NEW c \in Conns, Resnapshot(c) PROVE HasId'
  BY <1>11 DEF Resnapshot, HasId, TypeOK
<1>12. ASSUME NEW c \in Conns, EndInTx(c) PROVE HasId'
  BY <1>12 DEF EndInTx, HasId, TypeOK
<1>13. ASSUME NEW c \in Conns, Drop(c) PROVE HasId'
  BY <1>13 DEF Drop, HasId, TypeOK
<1>14. ASSUME NEW c \in Conns, NEW v \in Terminal, AutocommitEnd(c, v) PROVE HasId'
  BY <1>14 DEF AutocommitEnd, EndTx, HasId, TypeOK
<1>15. ASSUME NEW c \in Conns, NEW v \in Terminal, FinishTx(c, v) PROVE HasId'
  BY <1>15 DEF FinishTx, EndTx, HasId, TypeOK
<1>16. ASSUME NEW c \in Conns, NEW x \in TxnIds, StatusCached(c, x) PROVE HasId'
  BY <1>16 DEF StatusCached, Judge, HasId, TypeOK
<1>17. ASSUME NEW c \in Conns, NEW x \in TxnIds, StatusFromClog(c, x) PROVE HasId'
  BY <1>17 DEF StatusFromClog, Judge, Memoise, HasId, TypeOK
<1>18. ASSUME NEW c \in Conns, NEW x \in TxnIds, StatusClogSilent(c, x) PROVE HasId'
  BY <1>18 DEF StatusClogSilent, HasId, TypeOK
<1>19. ASSUME NEW c \in Conns, StatusFromAtt(c) PROVE HasId'
  BY <1>19 DEF StatusFromAtt, Judge, Memoise, StatusAbsentFromClog, HasId, TypeOK
<1> QED
  BY <1>0, <1>1, <1>2, <1>3, <1>4, <1>5, <1>6, <1>7, <1>8, <1>9, <1>10, <1>11, <1>12, <1>13, <1>14, <1>15, <1>16, <1>17, <1>18, <1>19 DEF Next, Step

\* begin() and snapshot() return into a statement or to the idle loop, and a
\* transaction object whose end is being decided is no longer Active.
LEMMA FramesStep == IInv /\ [Next]_vars => Frames'
<1> SUFFICES ASSUME IInv, [Next]_vars PROVE Frames'
  OBVIOUS
<1> USE BoundsAssumption DEF IInv, Status, Terminal, InProgress, Committed, Aborted, TxnIds,
        NoId, PCs, SnapshotSet, tmVars, txVars, ctlVars, history
<1>0. CASE UNCHANGED vars
  BY <1>0 DEF vars, Frames, TypeOK
<1>1. ASSUME NEW c \in Conns, FetchAddId(c) PROVE Frames'
  BY <1>1 DEF FetchAddId, FetchAdd, Frames, TypeOK
<1>2. ASSUME NEW c \in Conns, AttInsert(c) PROVE Frames'
  BY <1>2 DEF AttInsert, AttWith, Frames, TypeOK
<1>3. ASSUME NEW c \in Conns, TakeSnapshot(c) PROVE Frames'
  BY <1>3 DEF TakeSnapshot, SnapshotNow, Frames, TypeOK
<1>4. ASSUME NEW c \in Conns, AttRemove(c) PROVE Frames'
  BY <1>4 DEF AttRemove, AttWithout, Frames, TypeOK
<1>5. ASSUME NEW c \in Conns, Decide(c) PROVE Frames'
  BY <1>5 DEF Decide, ClogDecide, Frames, TypeOK
<1>6. ASSUME NEW c \in Conns, New(c) PROVE Frames'
  BY <1>6 DEF New, Frames, TypeOK
<1>7. ASSUME NEW c \in Conns, RefreshAutocommit(c) PROVE Frames'
  BY <1>7 DEF RefreshAutocommit, Boundary, Frames, TypeOK
<1>8. ASSUME NEW c \in Conns, StartInTx(c) PROVE Frames'
  BY <1>8 DEF StartInTx, Frames, TypeOK
<1>9. ASSUME NEW c \in Conns, Begin(c) PROVE Frames'
  BY <1>9 DEF Begin, Boundary, Frames, TypeOK
<1>10. ASSUME NEW c \in Conns, StampRow(c) PROVE Frames'
  BY <1>10 DEF StampRow, Frames, TypeOK
<1>11. ASSUME NEW c \in Conns, Resnapshot(c) PROVE Frames'
  BY <1>11 DEF Resnapshot, Frames, TypeOK
<1>12. ASSUME NEW c \in Conns, EndInTx(c) PROVE Frames'
  BY <1>12 DEF EndInTx, Frames, TypeOK
<1>13. ASSUME NEW c \in Conns, Drop(c) PROVE Frames'
  BY <1>13 DEF Drop, Frames, TypeOK
<1>14. ASSUME NEW c \in Conns, NEW v \in Terminal, AutocommitEnd(c, v) PROVE Frames'
  BY <1>14 DEF AutocommitEnd, EndTx, Frames, TypeOK
<1>15. ASSUME NEW c \in Conns, NEW v \in Terminal, FinishTx(c, v) PROVE Frames'
  BY <1>15 DEF FinishTx, EndTx, Frames, TypeOK
<1>16. ASSUME NEW c \in Conns, NEW x \in TxnIds, StatusCached(c, x) PROVE Frames'
  BY <1>16 DEF StatusCached, Judge, Frames, TypeOK
<1>17. ASSUME NEW c \in Conns, NEW x \in TxnIds, StatusFromClog(c, x) PROVE Frames'
  BY <1>17 DEF StatusFromClog, Judge, Memoise, Frames, TypeOK
<1>18. ASSUME NEW c \in Conns, NEW x \in TxnIds, StatusClogSilent(c, x) PROVE Frames'
  BY <1>18 DEF StatusClogSilent, Frames, TypeOK
<1>19. ASSUME NEW c \in Conns, StatusFromAtt(c) PROVE Frames'
  BY <1>19 DEF StatusFromAtt, Judge, Memoise, StatusAbsentFromClog, Frames, TypeOK
<1> QED
  BY <1>0, <1>1, <1>2, <1>3, <1>4, <1>5, <1>6, <1>7, <1>8, <1>9, <1>10, <1>11, <1>12, <1>13, <1>14, <1>15, <1>16, <1>17, <1>18, <1>19 DEF Next, Step

\* fetch_add is the only way to get an id, so ids above the counter stay unused.
LEMMA FreshStep == IInv /\ [Next]_vars => Fresh'
<1> SUFFICES ASSUME IInv, [Next]_vars PROVE Fresh'
  OBVIOUS
<1> USE BoundsAssumption DEF IInv, Status, Terminal, InProgress, Committed, Aborted, TxnIds,
        NoId, PCs, SnapshotSet, tmVars, txVars, ctlVars, history
<1>0. CASE UNCHANGED vars
  BY <1>0 DEF vars, Fresh, HasId, TypeOK, NoSnapshot, RunningIsUndecided, Running, Reading
<1>1. ASSUME NEW c \in Conns, FetchAddId(c) PROVE Fresh'
  <2>1. id' = [id EXCEPT ![c] = nextTxnId] /\ nextTxnId' = nextTxnId + 1
    BY <1>1 DEF FetchAddId, FetchAdd
  <2>2. clog' = clog /\ outcome' = outcome /\ att' = att /\ snap' = snap
    BY <1>1 DEF FetchAddId
  <2>3. nextTxnId \in Int /\ id \in [Conns -> Int] /\ \A d \in Conns : snap[d].xmax \in Int
    BY DEF TypeOK
  <2>4. nextTxnId' > SystemTxnId /\ \A d \in Conns : id'[d] < nextTxnId'
    BY <2>1, <2>3 DEF Fresh, SystemTxnId
  <2>5. \A d \in Conns : snap'[d].xmax <= nextTxnId'
    BY <2>1, <2>2, <2>3 DEF Fresh
  <2>6. QED
    BY <2>1, <2>2, <2>3, <2>4, <2>5 DEF Fresh
<1>2. ASSUME NEW c \in Conns, AttInsert(c) PROVE Fresh'
  BY <1>2 DEF AttInsert, AttWith, Fresh, HasId, TypeOK, NoSnapshot, RunningIsUndecided, Running, Reading
<1>3. ASSUME NEW c \in Conns, TakeSnapshot(c) PROVE Fresh'
  BY <1>3 DEF TakeSnapshot, SnapshotNow, Fresh, HasId, TypeOK, NoSnapshot, RunningIsUndecided, Running, Reading
<1>4. ASSUME NEW c \in Conns, AttRemove(c) PROVE Fresh'
  BY <1>4 DEF AttRemove, AttWithout, Fresh, HasId, TypeOK, NoSnapshot, RunningIsUndecided, Running, Reading
<1>5. ASSUME NEW c \in Conns, Decide(c) PROVE Fresh'
  <2>1. id[c] < nextTxnId /\ id[c] \in TxnIds
    BY <1>5 DEF Decide, HasId, Fresh
  <2>2. \A x \in TxnIds : x >= nextTxnId => clog'[x] = clog[x]
    BY <1>5, <2>1 DEF Decide, ClogDecide, TypeOK
  <2>3. \A d \in Conns : id'[d] \in {id[d], 0} /\ snap'[d].xmax \in {snap[d].xmax, 0}
    BY <1>5 DEF Decide, NoSnapshot, TypeOK
  <2>4. nextTxnId' = nextTxnId /\ att' = att /\ outcome' = outcome
    BY <1>5 DEF Decide
  <2>5. nextTxnId \in Int /\ nextTxnId > 1
    BY DEF TypeOK, Fresh, SystemTxnId
  <2>6. \A d \in Conns : id'[d] < nextTxnId' /\ snap'[d].xmax <= nextTxnId'
    BY <2>3, <2>4, <2>5 DEF Fresh
  <2>7. QED
    BY <2>2, <2>4, <2>6 DEF Fresh
<1>6. ASSUME NEW c \in Conns, New(c) PROVE Fresh'
  BY <1>6 DEF New, Fresh, HasId, TypeOK, NoSnapshot, RunningIsUndecided, Running, Reading
<1>7. ASSUME NEW c \in Conns, RefreshAutocommit(c) PROVE Fresh'
  BY <1>7 DEF RefreshAutocommit, Boundary, Fresh, HasId, TypeOK, NoSnapshot, RunningIsUndecided, Running, Reading
<1>8. ASSUME NEW c \in Conns, StartInTx(c) PROVE Fresh'
  BY <1>8 DEF StartInTx, Fresh, HasId, TypeOK, NoSnapshot, RunningIsUndecided, Running, Reading
<1>9. ASSUME NEW c \in Conns, Begin(c) PROVE Fresh'
  BY <1>9 DEF Begin, Boundary, Fresh, HasId, TypeOK, NoSnapshot, RunningIsUndecided, Running, Reading
<1>10. ASSUME NEW c \in Conns, StampRow(c) PROVE Fresh'
  BY <1>10 DEF StampRow, Fresh, HasId, TypeOK, NoSnapshot, RunningIsUndecided, Running, Reading
<1>11. ASSUME NEW c \in Conns, Resnapshot(c) PROVE Fresh'
  BY <1>11 DEF Resnapshot, Fresh, HasId, TypeOK, NoSnapshot, RunningIsUndecided, Running, Reading
<1>12. ASSUME NEW c \in Conns, EndInTx(c) PROVE Fresh'
  BY <1>12 DEF EndInTx, Fresh, HasId, TypeOK, NoSnapshot, RunningIsUndecided, Running, Reading
<1>13. ASSUME NEW c \in Conns, Drop(c) PROVE Fresh'
  BY <1>13 DEF Drop, Fresh, HasId, TypeOK, NoSnapshot, RunningIsUndecided, Running, Reading
<1>14. ASSUME NEW c \in Conns, NEW v \in Terminal, AutocommitEnd(c, v) PROVE Fresh'
  BY <1>14 DEF AutocommitEnd, EndTx, Fresh, HasId, TypeOK, NoSnapshot, RunningIsUndecided, Running, Reading
<1>15. ASSUME NEW c \in Conns, NEW v \in Terminal, FinishTx(c, v) PROVE Fresh'
  BY <1>15 DEF FinishTx, EndTx, Fresh, HasId, TypeOK, NoSnapshot, RunningIsUndecided, Running, Reading
<1>16. ASSUME NEW c \in Conns, NEW x \in TxnIds, StatusCached(c, x) PROVE Fresh'
  BY <1>16 DEF StatusCached, Judge, Fresh, HasId, TypeOK, NoSnapshot, RunningIsUndecided, Running, Reading
<1>17. ASSUME NEW c \in Conns, NEW x \in TxnIds, StatusFromClog(c, x) PROVE Fresh'
  BY <1>17 DEF StatusFromClog, Judge, Memoise, Fresh, HasId, TypeOK, NoSnapshot, RunningIsUndecided, Running, Reading
<1>18. ASSUME NEW c \in Conns, NEW x \in TxnIds, StatusClogSilent(c, x) PROVE Fresh'
  BY <1>18 DEF StatusClogSilent, Fresh, HasId, TypeOK, NoSnapshot, RunningIsUndecided, Running, Reading
<1>19. ASSUME NEW c \in Conns, StatusFromAtt(c) PROVE Fresh'
  BY <1>19 DEF StatusFromAtt, Judge, Memoise, StatusAbsentFromClog, Fresh, HasId, TypeOK, NoSnapshot, RunningIsUndecided, Running, Reading
<1> QED
  BY <1>0, <1>1, <1>2, <1>3, <1>4, <1>5, <1>6, <1>7, <1>8, <1>9, <1>10, <1>11, <1>12, <1>13, <1>14, <1>15, <1>16, <1>17, <1>18, <1>19 DEF Next, Step

\* Two threads in begin() get different ids: the increment is atomic.
LEMMA IdsUniqueStep == IInv /\ [Next]_vars => IdsUnique'
<1> SUFFICES ASSUME IInv, [Next]_vars PROVE IdsUnique'
  OBVIOUS
<1> USE BoundsAssumption DEF IInv, Status, Terminal, InProgress, Committed, Aborted, TxnIds,
        NoId, PCs, SnapshotSet, tmVars, txVars, ctlVars, history
<1>0. CASE UNCHANGED vars
  BY <1>0 DEF vars, IdsUnique, Fresh, HasId, TypeOK
<1>1. ASSUME NEW c \in Conns, FetchAddId(c) PROVE IdsUnique'
  BY <1>1 DEF FetchAddId, FetchAdd, IdsUnique, Fresh, HasId, TypeOK
<1>2. ASSUME NEW c \in Conns, AttInsert(c) PROVE IdsUnique'
  BY <1>2 DEF AttInsert, AttWith, IdsUnique, Fresh, HasId, TypeOK
<1>3. ASSUME NEW c \in Conns, TakeSnapshot(c) PROVE IdsUnique'
  BY <1>3 DEF TakeSnapshot, SnapshotNow, IdsUnique, Fresh, HasId, TypeOK
<1>4. ASSUME NEW c \in Conns, AttRemove(c) PROVE IdsUnique'
  BY <1>4 DEF AttRemove, AttWithout, IdsUnique, Fresh, HasId, TypeOK
<1>5. ASSUME NEW c \in Conns, Decide(c) PROVE IdsUnique'
  <2>1. \A d \in Conns : id'[d] \in {id[d], NoId}
    BY <1>5 DEF Decide, TypeOK
  <2>2. QED
    BY <2>1 DEF IdsUnique
<1>6. ASSUME NEW c \in Conns, New(c) PROVE IdsUnique'
  BY <1>6 DEF New, IdsUnique, Fresh, HasId, TypeOK
<1>7. ASSUME NEW c \in Conns, RefreshAutocommit(c) PROVE IdsUnique'
  BY <1>7 DEF RefreshAutocommit, Boundary, IdsUnique, Fresh, HasId, TypeOK
<1>8. ASSUME NEW c \in Conns, StartInTx(c) PROVE IdsUnique'
  BY <1>8 DEF StartInTx, IdsUnique, Fresh, HasId, TypeOK
<1>9. ASSUME NEW c \in Conns, Begin(c) PROVE IdsUnique'
  BY <1>9 DEF Begin, Boundary, IdsUnique, Fresh, HasId, TypeOK
<1>10. ASSUME NEW c \in Conns, StampRow(c) PROVE IdsUnique'
  BY <1>10 DEF StampRow, IdsUnique, Fresh, HasId, TypeOK
<1>11. ASSUME NEW c \in Conns, Resnapshot(c) PROVE IdsUnique'
  BY <1>11 DEF Resnapshot, IdsUnique, Fresh, HasId, TypeOK
<1>12. ASSUME NEW c \in Conns, EndInTx(c) PROVE IdsUnique'
  BY <1>12 DEF EndInTx, IdsUnique, Fresh, HasId, TypeOK
<1>13. ASSUME NEW c \in Conns, Drop(c) PROVE IdsUnique'
  BY <1>13 DEF Drop, IdsUnique, Fresh, HasId, TypeOK
<1>14. ASSUME NEW c \in Conns, NEW v \in Terminal, AutocommitEnd(c, v) PROVE IdsUnique'
  BY <1>14 DEF AutocommitEnd, EndTx, IdsUnique, Fresh, HasId, TypeOK
<1>15. ASSUME NEW c \in Conns, NEW v \in Terminal, FinishTx(c, v) PROVE IdsUnique'
  BY <1>15 DEF FinishTx, EndTx, IdsUnique, Fresh, HasId, TypeOK
<1>16. ASSUME NEW c \in Conns, NEW x \in TxnIds, StatusCached(c, x) PROVE IdsUnique'
  BY <1>16 DEF StatusCached, Judge, IdsUnique, Fresh, HasId, TypeOK
<1>17. ASSUME NEW c \in Conns, NEW x \in TxnIds, StatusFromClog(c, x) PROVE IdsUnique'
  BY <1>17 DEF StatusFromClog, Judge, Memoise, IdsUnique, Fresh, HasId, TypeOK
<1>18. ASSUME NEW c \in Conns, NEW x \in TxnIds, StatusClogSilent(c, x) PROVE IdsUnique'
  BY <1>18 DEF StatusClogSilent, IdsUnique, Fresh, HasId, TypeOK
<1>19. ASSUME NEW c \in Conns, StatusFromAtt(c) PROVE IdsUnique'
  BY <1>19 DEF StatusFromAtt, Judge, Memoise, StatusAbsentFromClog, IdsUnique, Fresh, HasId, TypeOK
<1> QED
  BY <1>0, <1>1, <1>2, <1>3, <1>4, <1>5, <1>6, <1>7, <1>8, <1>9, <1>10, <1>11, <1>12, <1>13, <1>14, <1>15, <1>16, <1>17, <1>18, <1>19 DEF Next, Step

\* Running transactions stay in the ATT and undecided: only their own thread
\* removes or decides them, and it has then left the statement.
LEMMA RegisteredStep == IInv /\ [Next]_vars => (RunningIsUndecided /\ InsertPending)'
<1> SUFFICES ASSUME IInv, [Next]_vars PROVE (RunningIsUndecided /\ InsertPending)'
  OBVIOUS
<1> USE BoundsAssumption DEF IInv, Status, Terminal, InProgress, Committed, Aborted, TxnIds,
        NoId, PCs, SnapshotSet, tmVars, txVars, ctlVars, history
<1>0. CASE UNCHANGED vars
  BY <1>0 DEF vars, RunningIsUndecided, InsertPending, Running, Reading, IdsUnique, HasId, Fresh, Frames, TypeOK
<1>1. ASSUME NEW c \in Conns, FetchAddId(c) PROVE (RunningIsUndecided /\ InsertPending)'
  BY <1>1 DEF FetchAddId, FetchAdd, RunningIsUndecided, InsertPending, Running, Reading, IdsUnique, HasId, Fresh, Frames, TypeOK
<1>2. ASSUME NEW c \in Conns, AttInsert(c) PROVE (RunningIsUndecided /\ InsertPending)'
  <2>1. att' = att \cup {id[c]} /\ id' = id /\ clog' = clog /\ outcome' = outcome /\ active' = active
    BY <1>2 DEF AttInsert, AttWith
  <2>2. \A d \in Conns : d # c => pc'[d] = pc[d]
    BY <1>2 DEF AttInsert, TypeOK
  <2>3. pc[c] = "insert" /\ pc'[c] = "snapshot"
    BY <1>2 DEF AttInsert, TypeOK
  <2>4. \A d \in Conns : d # c /\ pc[d] = "insert" => id[d] # id[c]
    BY <2>3 DEF IdsUnique, HasId
  <2>5. QED
    BY <2>1, <2>2, <2>3, <2>4 DEF RunningIsUndecided, InsertPending, Running, Reading
<1>3. ASSUME NEW c \in Conns, TakeSnapshot(c) PROVE (RunningIsUndecided /\ InsertPending)'
  BY <1>3 DEF TakeSnapshot, SnapshotNow, RunningIsUndecided, InsertPending, Running, Reading, IdsUnique, HasId, Fresh, Frames, TypeOK
<1>4. ASSUME NEW c \in Conns, AttRemove(c) PROVE (RunningIsUndecided /\ InsertPending)'
  BY <1>4 DEF AttRemove, AttWithout, RunningIsUndecided, InsertPending, Running, Reading, IdsUnique, HasId, Fresh, Frames, TypeOK
<1>5. ASSUME NEW c \in Conns, Decide(c) PROVE (RunningIsUndecided /\ InsertPending)'
  BY <1>5 DEF Decide, ClogDecide, RunningIsUndecided, InsertPending, Running, Reading, IdsUnique, HasId, Fresh, Frames, TypeOK
<1>6. ASSUME NEW c \in Conns, New(c) PROVE (RunningIsUndecided /\ InsertPending)'
  BY <1>6 DEF New, RunningIsUndecided, InsertPending, Running, Reading, IdsUnique, HasId, Fresh, Frames, TypeOK
<1>7. ASSUME NEW c \in Conns, RefreshAutocommit(c) PROVE (RunningIsUndecided /\ InsertPending)'
  BY <1>7 DEF RefreshAutocommit, Boundary, RunningIsUndecided, InsertPending, Running, Reading, IdsUnique, HasId, Fresh, Frames, TypeOK
<1>8. ASSUME NEW c \in Conns, StartInTx(c) PROVE (RunningIsUndecided /\ InsertPending)'
  BY <1>8 DEF StartInTx, RunningIsUndecided, InsertPending, Running, Reading, IdsUnique, HasId, Fresh, Frames, TypeOK
<1>9. ASSUME NEW c \in Conns, Begin(c) PROVE (RunningIsUndecided /\ InsertPending)'
  BY <1>9 DEF Begin, Boundary, RunningIsUndecided, InsertPending, Running, Reading, IdsUnique, HasId, Fresh, Frames, TypeOK
<1>10. ASSUME NEW c \in Conns, StampRow(c) PROVE (RunningIsUndecided /\ InsertPending)'
  BY <1>10 DEF StampRow, RunningIsUndecided, InsertPending, Running, Reading, IdsUnique, HasId, Fresh, Frames, TypeOK
<1>11. ASSUME NEW c \in Conns, Resnapshot(c) PROVE (RunningIsUndecided /\ InsertPending)'
  BY <1>11 DEF Resnapshot, RunningIsUndecided, InsertPending, Running, Reading, IdsUnique, HasId, Fresh, Frames, TypeOK
<1>12. ASSUME NEW c \in Conns, EndInTx(c) PROVE (RunningIsUndecided /\ InsertPending)'
  BY <1>12 DEF EndInTx, RunningIsUndecided, InsertPending, Running, Reading, IdsUnique, HasId, Fresh, Frames, TypeOK
<1>13. ASSUME NEW c \in Conns, Drop(c) PROVE (RunningIsUndecided /\ InsertPending)'
  BY <1>13 DEF Drop, RunningIsUndecided, InsertPending, Running, Reading, IdsUnique, HasId, Fresh, Frames, TypeOK
<1>14. ASSUME NEW c \in Conns, NEW v \in Terminal, AutocommitEnd(c, v) PROVE (RunningIsUndecided /\ InsertPending)'
  BY <1>14 DEF AutocommitEnd, EndTx, RunningIsUndecided, InsertPending, Running, Reading, IdsUnique, HasId, Fresh, Frames, TypeOK
<1>15. ASSUME NEW c \in Conns, NEW v \in Terminal, FinishTx(c, v) PROVE (RunningIsUndecided /\ InsertPending)'
  BY <1>15 DEF FinishTx, EndTx, RunningIsUndecided, InsertPending, Running, Reading, IdsUnique, HasId, Fresh, Frames, TypeOK
<1>16. ASSUME NEW c \in Conns, NEW x \in TxnIds, StatusCached(c, x) PROVE (RunningIsUndecided /\ InsertPending)'
  BY <1>16 DEF StatusCached, Judge, RunningIsUndecided, InsertPending, Running, Reading, IdsUnique, HasId, Fresh, Frames, TypeOK
<1>17. ASSUME NEW c \in Conns, NEW x \in TxnIds, StatusFromClog(c, x) PROVE (RunningIsUndecided /\ InsertPending)'
  BY <1>17 DEF StatusFromClog, Judge, Memoise, RunningIsUndecided, InsertPending, Running, Reading, IdsUnique, HasId, Fresh, Frames, TypeOK
<1>18. ASSUME NEW c \in Conns, NEW x \in TxnIds, StatusClogSilent(c, x) PROVE (RunningIsUndecided /\ InsertPending)'
  BY <1>18 DEF StatusClogSilent, RunningIsUndecided, InsertPending, Running, Reading, IdsUnique, HasId, Fresh, Frames, TypeOK
<1>19. ASSUME NEW c \in Conns, StatusFromAtt(c) PROVE (RunningIsUndecided /\ InsertPending)'
  BY <1>19 DEF StatusFromAtt, Judge, Memoise, StatusAbsentFromClog, RunningIsUndecided, InsertPending, Running, Reading, IdsUnique, HasId, Fresh, Frames, TypeOK
<1> QED
  BY <1>0, <1>1, <1>2, <1>3, <1>4, <1>5, <1>6, <1>7, <1>8, <1>9, <1>10, <1>11, <1>12, <1>13, <1>14, <1>15, <1>16, <1>17, <1>18, <1>19 DEF Next, Step

\* An ATT entry keeps an owner that will still remove it.
LEMMA NoLeaksStep == IInv /\ [Next]_vars => AttHasNoLeaks'
<1> SUFFICES ASSUME IInv, [Next]_vars PROVE AttHasNoLeaks'
  OBVIOUS
<1> USE BoundsAssumption DEF IInv, Status, Terminal, InProgress, Committed, Aborted, TxnIds,
        NoId, PCs, SnapshotSet, tmVars, txVars, ctlVars, history
<1>0. CASE UNCHANGED vars
  BY <1>0 DEF vars, AttHasNoLeaks, IdsUnique, HasId, Fresh, TypeOK
<1>1. ASSUME NEW c \in Conns, FetchAddId(c) PROVE AttHasNoLeaks'
  <2>1. att' = att /\ pc[c] = "alloc"
    BY <1>1 DEF FetchAddId
  <2>2. \A d \in Conns : d # c => pc'[d] = pc[d] /\ id'[d] = id[d]
    BY <1>1 DEF FetchAddId, TypeOK
  <2>3. QED
    BY <2>1, <2>2 DEF AttHasNoLeaks
<1>2. ASSUME NEW c \in Conns, AttInsert(c) PROVE AttHasNoLeaks'
  <2>1. pc[c] = "insert" /\ id' = id /\ att' = att \cup {id[c]}
    BY <1>2 DEF AttInsert, AttWith
  <2>2. pc'[c] = "snapshot" /\ \A d \in Conns : d # c => pc'[d] = pc[d]
    BY <1>2 DEF AttInsert, TypeOK
  <2>3. QED
    BY <2>1, <2>2 DEF AttHasNoLeaks
<1>3. ASSUME NEW c \in Conns, TakeSnapshot(c) PROVE AttHasNoLeaks'
  <2>1. att' = att /\ id' = id /\ \A d \in Conns : d # c => pc'[d] = pc[d]
    BY <1>3 DEF TakeSnapshot, TypeOK
  <2>2. pc'[c] \in {"idle", "stmt"}
    BY <1>3 DEF TakeSnapshot, Frames, TypeOK
  <2>3. QED
    BY <2>1, <2>2 DEF AttHasNoLeaks
<1>4. ASSUME NEW c \in Conns, AttRemove(c) PROVE AttHasNoLeaks'
  BY <1>4 DEF AttRemove, AttWithout, AttHasNoLeaks, IdsUnique, HasId, Fresh, TypeOK
<1>5. ASSUME NEW c \in Conns, Decide(c) PROVE AttHasNoLeaks'
  <2>1. att' = att /\ pc[c] = "decide"
    BY <1>5 DEF Decide
  <2>2. \A d \in Conns : d # c => pc'[d] = pc[d] /\ id'[d] = id[d]
    BY <1>5 DEF Decide, TypeOK
  <2>3. QED
    BY <2>1, <2>2 DEF AttHasNoLeaks
<1>6. ASSUME NEW c \in Conns, New(c) PROVE AttHasNoLeaks'
  <2>1. att' = att /\ id' = id /\ pc[c] = "off"
    BY <1>6 DEF New
  <2>2. \A d \in Conns : d # c => pc'[d] = pc[d]
    BY <1>6 DEF New, TypeOK
  <2>3. QED
    BY <2>1, <2>2 DEF AttHasNoLeaks
<1>7. ASSUME NEW c \in Conns, RefreshAutocommit(c) PROVE AttHasNoLeaks'
  BY <1>7 DEF RefreshAutocommit, Boundary, AttHasNoLeaks, IdsUnique, HasId, Fresh, TypeOK
<1>8. ASSUME NEW c \in Conns, StartInTx(c) PROVE AttHasNoLeaks'
  BY <1>8 DEF StartInTx, AttHasNoLeaks, IdsUnique, HasId, Fresh, TypeOK
<1>9. ASSUME NEW c \in Conns, Begin(c) PROVE AttHasNoLeaks'
  BY <1>9 DEF Begin, Boundary, AttHasNoLeaks, IdsUnique, HasId, Fresh, TypeOK
<1>10. ASSUME NEW c \in Conns, StampRow(c) PROVE AttHasNoLeaks'
  BY <1>10 DEF StampRow, AttHasNoLeaks, IdsUnique, HasId, Fresh, TypeOK
<1>11. ASSUME NEW c \in Conns, Resnapshot(c) PROVE AttHasNoLeaks'
  BY <1>11 DEF Resnapshot, AttHasNoLeaks, IdsUnique, HasId, Fresh, TypeOK
<1>12. ASSUME NEW c \in Conns, EndInTx(c) PROVE AttHasNoLeaks'
  BY <1>12 DEF EndInTx, AttHasNoLeaks, IdsUnique, HasId, Fresh, TypeOK
<1>13. ASSUME NEW c \in Conns, Drop(c) PROVE AttHasNoLeaks'
  BY <1>13 DEF Drop, AttHasNoLeaks, IdsUnique, HasId, Fresh, TypeOK
<1>14. ASSUME NEW c \in Conns, NEW v \in Terminal, AutocommitEnd(c, v) PROVE AttHasNoLeaks'
  BY <1>14 DEF AutocommitEnd, EndTx, AttHasNoLeaks, IdsUnique, HasId, Fresh, TypeOK
<1>15. ASSUME NEW c \in Conns, NEW v \in Terminal, FinishTx(c, v) PROVE AttHasNoLeaks'
  BY <1>15 DEF FinishTx, EndTx, AttHasNoLeaks, IdsUnique, HasId, Fresh, TypeOK
<1>16. ASSUME NEW c \in Conns, NEW x \in TxnIds, StatusCached(c, x) PROVE AttHasNoLeaks'
  BY <1>16 DEF StatusCached, Judge, AttHasNoLeaks, IdsUnique, HasId, Fresh, TypeOK
<1>17. ASSUME NEW c \in Conns, NEW x \in TxnIds, StatusFromClog(c, x) PROVE AttHasNoLeaks'
  BY <1>17 DEF StatusFromClog, Judge, Memoise, AttHasNoLeaks, IdsUnique, HasId, Fresh, TypeOK
<1>18. ASSUME NEW c \in Conns, NEW x \in TxnIds, StatusClogSilent(c, x) PROVE AttHasNoLeaks'
  BY <1>18 DEF StatusClogSilent, AttHasNoLeaks, IdsUnique, HasId, Fresh, TypeOK
<1>19. ASSUME NEW c \in Conns, StatusFromAtt(c) PROVE AttHasNoLeaks'
  BY <1>19 DEF StatusFromAtt, Judge, Memoise, StatusAbsentFromClog, AttHasNoLeaks, IdsUnique, HasId, Fresh, TypeOK
<1> QED
  BY <1>0, <1>1, <1>2, <1>3, <1>4, <1>5, <1>6, <1>7, <1>8, <1>9, <1>10, <1>11, <1>12, <1>13, <1>14, <1>15, <1>16, <1>17, <1>18, <1>19 DEF Next, Step

\* A requested decision reaches the CLOG, and reaches it first.
LEMMA PendingStep == IInv /\ [Next]_vars => PendingDecision'
<1> SUFFICES ASSUME IInv, [Next]_vars PROVE PendingDecision'
  OBVIOUS
<1> USE BoundsAssumption DEF IInv, Status, Terminal, InProgress, Committed, Aborted, TxnIds,
        NoId, PCs, SnapshotSet, tmVars, txVars, ctlVars, history
<1>0. CASE UNCHANGED vars
  BY <1>0 DEF vars, PendingDecision, InsertPending, RunningIsUndecided, Running, Reading, IdsUnique, HasId, Fresh, Frames, TypeOK
<1>1. ASSUME NEW c \in Conns, FetchAddId(c) PROVE PendingDecision'
  <2>1. /\ clog' = clog /\ outcome' = outcome /\ verdict' = verdict
        /\ pc[c] \notin {"remove", "decide"}
        /\ \A d \in Conns : d # c => pc'[d] = pc[d] /\ id'[d] = id[d]
    BY <1>1 DEF FetchAddId, TypeOK
  <2>2. QED
    BY <2>1 DEF PendingDecision
<1>2. ASSUME NEW c \in Conns, AttInsert(c) PROVE PendingDecision'
  BY <1>2 DEF AttInsert, AttWith, PendingDecision, InsertPending, RunningIsUndecided, Running, Reading, IdsUnique, HasId, Fresh, Frames, TypeOK
<1>3. ASSUME NEW c \in Conns, TakeSnapshot(c) PROVE PendingDecision'
  <2>1. /\ clog' = clog /\ outcome' = outcome /\ id' = id /\ verdict' = verdict
        /\ pc[c] \notin {"remove", "decide"}
        /\ \A d \in Conns : d # c => pc'[d] = pc[d]
    BY <1>3 DEF TakeSnapshot, TypeOK
  <2>2. QED
    BY <2>1 DEF PendingDecision
<1>4. ASSUME NEW c \in Conns, AttRemove(c) PROVE PendingDecision'
  BY <1>4 DEF AttRemove, AttWithout, PendingDecision, InsertPending, RunningIsUndecided, Running, Reading, IdsUnique, HasId, Fresh, Frames, TypeOK
<1>5. ASSUME NEW c \in Conns, Decide(c) PROVE PendingDecision'
  <2>1. /\ pc[c] = "decide" /\ outcome' = outcome
        /\ \A d \in Conns : d # c => pc'[d] = pc[d] /\ id'[d] = id[d] /\ verdict'[d] = verdict[d]
    BY <1>5 DEF Decide, TypeOK
  <2>2. /\ \A x \in TxnIds : x # id[c] => clog'[x] = clog[x]
        /\ id[c] \in TxnIds
        /\ clog'[id[c]] = IF clog[id[c]] = InProgress THEN verdict[c] ELSE clog[id[c]]
    BY <1>5 DEF Decide, ClogDecide, HasId, TypeOK
  <2>3. ASSUME NEW x \in TxnIds, x # id[c], outcome[x] # InProgress, clog[x] # outcome[x]
        PROVE  /\ clog'[x] = InProgress
               /\ \E d \in Conns : /\ id'[d] = x /\ pc'[d] \in {"remove", "decide"}
                                   /\ verdict'[d] = outcome'[x]
    <3>1. PICK d \in Conns : /\ id[d] = x /\ pc[d] \in {"remove", "decide"}
                             /\ verdict[d] = outcome[x]
      BY <2>3 DEF PendingDecision
    <3>2. d # c /\ clog[x] = InProgress
      BY <2>3, <3>1 DEF PendingDecision
    <3>3. QED
      BY <2>1, <2>2, <2>3, <3>1, <3>2
  <2>4. outcome[id[c]] # InProgress => clog'[id[c]] = outcome[id[c]]
    <3>1. \A d \in Conns : id[d] = id[c] => d = c
      BY <2>2 DEF IdsUnique
    <3>2. QED
      BY <2>2, <3>1 DEF PendingDecision
  <2>5. QED
    BY <2>1, <2>2, <2>3, <2>4 DEF PendingDecision
<1>6. ASSUME NEW c \in Conns, New(c) PROVE PendingDecision'
  <2>1. /\ clog' = clog /\ outcome' = outcome /\ id' = id /\ verdict' = verdict
        /\ pc[c] \notin {"remove", "decide"}
        /\ \A d \in Conns : d # c => pc'[d] = pc[d]
    BY <1>6 DEF New, TypeOK
  <2>2. QED
    BY <2>1 DEF PendingDecision
<1>7. ASSUME NEW c \in Conns, RefreshAutocommit(c) PROVE PendingDecision'
  BY <1>7 DEF RefreshAutocommit, Boundary, PendingDecision, InsertPending, RunningIsUndecided, Running, Reading, IdsUnique, HasId, Fresh, Frames, TypeOK
<1>8. ASSUME NEW c \in Conns, StartInTx(c) PROVE PendingDecision'
  <2>1. /\ clog' = clog /\ outcome' = outcome /\ id' = id /\ verdict' = verdict
        /\ pc[c] \notin {"remove", "decide"}
        /\ \A d \in Conns : d # c => pc'[d] = pc[d]
    BY <1>8 DEF StartInTx, TypeOK
  <2>2. QED
    BY <2>1 DEF PendingDecision
<1>9. ASSUME NEW c \in Conns, Begin(c) PROVE PendingDecision'
  BY <1>9 DEF Begin, Boundary, PendingDecision, InsertPending, RunningIsUndecided, Running, Reading, IdsUnique, HasId, Fresh, Frames, TypeOK
<1>10. ASSUME NEW c \in Conns, StampRow(c) PROVE PendingDecision'
  BY <1>10 DEF StampRow, PendingDecision, InsertPending, RunningIsUndecided, Running, Reading, IdsUnique, HasId, Fresh, Frames, TypeOK
<1>11. ASSUME NEW c \in Conns, Resnapshot(c) PROVE PendingDecision'
  <2>1. /\ clog' = clog /\ outcome' = outcome /\ id' = id /\ verdict' = verdict
        /\ pc[c] \notin {"remove", "decide"}
        /\ \A d \in Conns : d # c => pc'[d] = pc[d]
    BY <1>11 DEF Resnapshot, TypeOK
  <2>2. QED
    BY <2>1 DEF PendingDecision
<1>12. ASSUME NEW c \in Conns, EndInTx(c) PROVE PendingDecision'
  <2>1. /\ clog' = clog /\ outcome' = outcome /\ id' = id /\ verdict' = verdict
        /\ pc[c] \notin {"remove", "decide"}
        /\ \A d \in Conns : d # c => pc'[d] = pc[d]
    BY <1>12 DEF EndInTx, TypeOK
  <2>2. QED
    BY <2>1 DEF PendingDecision
<1>13. ASSUME NEW c \in Conns, Drop(c) PROVE PendingDecision'
  BY <1>13 DEF Drop, PendingDecision, InsertPending, RunningIsUndecided, Running, Reading, IdsUnique, HasId, Fresh, Frames, TypeOK
<1>14. ASSUME NEW c \in Conns, NEW v \in Terminal, AutocommitEnd(c, v) PROVE PendingDecision'
  <2>1. /\ pc'[c] = "remove" /\ verdict'[c] = v /\ id' = id /\ clog' = clog
        /\ \A d \in Conns : d # c => pc'[d] = pc[d] /\ verdict'[d] = verdict[d]
        /\ pc[c] = "stmt"
    BY <1>14 DEF AutocommitEnd, EndTx, TypeOK
  <2>2. /\ id[c] \in TxnIds /\ outcome'[id[c]] = v
        /\ \A x \in TxnIds : x # id[c] => outcome'[x] = outcome[x]
    BY <1>14 DEF AutocommitEnd, EndTx, HasId, TypeOK
  <2>3. clog[id[c]] = InProgress
    BY <2>1 DEF RunningIsUndecided, Running, Reading
  <2>4. QED
    BY <2>1, <2>2, <2>3 DEF PendingDecision
<1>15. ASSUME NEW c \in Conns, NEW v \in Terminal, FinishTx(c, v) PROVE PendingDecision'
  <2>1. /\ pc'[c] = "remove" /\ verdict'[c] = v /\ id' = id /\ clog' = clog
        /\ \A d \in Conns : d # c => pc'[d] = pc[d] /\ verdict'[d] = verdict[d]
        /\ pc[c] = "stmt"
    BY <1>15 DEF FinishTx, EndTx, TypeOK
  <2>2. /\ id[c] \in TxnIds /\ outcome'[id[c]] = v
        /\ \A x \in TxnIds : x # id[c] => outcome'[x] = outcome[x]
    BY <1>15 DEF FinishTx, EndTx, HasId, TypeOK
  <2>3. clog[id[c]] = InProgress
    BY <2>1 DEF RunningIsUndecided, Running, Reading
  <2>4. QED
    BY <2>1, <2>2, <2>3 DEF PendingDecision
<1>16. ASSUME NEW c \in Conns, NEW x \in TxnIds, StatusCached(c, x) PROVE PendingDecision'
  BY <1>16 DEF StatusCached, Judge, PendingDecision, InsertPending, RunningIsUndecided, Running, Reading, IdsUnique, HasId, Fresh, Frames, TypeOK
<1>17. ASSUME NEW c \in Conns, NEW x \in TxnIds, StatusFromClog(c, x) PROVE PendingDecision'
  BY <1>17 DEF StatusFromClog, Judge, Memoise, PendingDecision, InsertPending, RunningIsUndecided, Running, Reading, IdsUnique, HasId, Fresh, Frames, TypeOK
<1>18. ASSUME NEW c \in Conns, NEW x \in TxnIds, StatusClogSilent(c, x) PROVE PendingDecision'
  <2>1. /\ clog' = clog /\ outcome' = outcome /\ id' = id /\ verdict' = verdict
        /\ pc[c] \notin {"remove", "decide"}
        /\ \A d \in Conns : d # c => pc'[d] = pc[d]
    BY <1>18 DEF StatusClogSilent, TypeOK
  <2>2. QED
    BY <2>1 DEF PendingDecision
<1>19. ASSUME NEW c \in Conns, StatusFromAtt(c) PROVE PendingDecision'
  <2>1. /\ clog' = clog /\ outcome' = outcome /\ id' = id /\ verdict' = verdict
        /\ pc[c] \notin {"remove", "decide"}
        /\ \A d \in Conns : d # c => pc'[d] = pc[d]
    BY <1>19 DEF StatusFromAtt, TypeOK
  <2>2. QED
    BY <2>1 DEF PendingDecision
<1> QED
  BY <1>0, <1>1, <1>2, <1>3, <1>4, <1>5, <1>6, <1>7, <1>8, <1>9, <1>10, <1>11, <1>12, <1>13, <1>14, <1>15, <1>16, <1>17, <1>18, <1>19 DEF Next, Step

\* Neither the status cache nor a lookup reports Committed for an id the CLOG
\* does not have as committed.
LEMMA MemoStep == IInv /\ [Next]_vars => (MemoCommitted /\ NoDirtyRead)'
<1> SUFFICES ASSUME IInv, [Next]_vars PROVE (MemoCommitted /\ NoDirtyRead)'
  OBVIOUS
<1> USE BoundsAssumption DEF IInv, Status, Terminal, InProgress, Committed, Aborted, TxnIds,
        NoId, PCs, SnapshotSet, tmVars, txVars, ctlVars, history
<1>0. CASE UNCHANGED vars
  BY <1>0 DEF vars, MemoCommitted, NoDirtyRead, Cached, TypeOK
<1>1. ASSUME NEW c \in Conns, FetchAddId(c) PROVE (MemoCommitted /\ NoDirtyRead)'
  BY <1>1 DEF FetchAddId, FetchAdd, MemoCommitted, NoDirtyRead, Cached, TypeOK
<1>2. ASSUME NEW c \in Conns, AttInsert(c) PROVE (MemoCommitted /\ NoDirtyRead)'
  BY <1>2 DEF AttInsert, AttWith, MemoCommitted, NoDirtyRead, Cached, TypeOK
<1>3. ASSUME NEW c \in Conns, TakeSnapshot(c) PROVE (MemoCommitted /\ NoDirtyRead)'
  BY <1>3 DEF TakeSnapshot, SnapshotNow, MemoCommitted, NoDirtyRead, Cached, TypeOK
<1>4. ASSUME NEW c \in Conns, AttRemove(c) PROVE (MemoCommitted /\ NoDirtyRead)'
  BY <1>4 DEF AttRemove, AttWithout, MemoCommitted, NoDirtyRead, Cached, TypeOK
<1>5. ASSUME NEW c \in Conns, Decide(c) PROVE (MemoCommitted /\ NoDirtyRead)'
  BY <1>5 DEF Decide, ClogDecide, MemoCommitted, NoDirtyRead, Cached, TypeOK
<1>6. ASSUME NEW c \in Conns, New(c) PROVE (MemoCommitted /\ NoDirtyRead)'
  BY <1>6 DEF New, MemoCommitted, NoDirtyRead, Cached, TypeOK
<1>7. ASSUME NEW c \in Conns, RefreshAutocommit(c) PROVE (MemoCommitted /\ NoDirtyRead)'
  BY <1>7 DEF RefreshAutocommit, Boundary, MemoCommitted, NoDirtyRead, Cached, TypeOK
<1>8. ASSUME NEW c \in Conns, StartInTx(c) PROVE (MemoCommitted /\ NoDirtyRead)'
  BY <1>8 DEF StartInTx, MemoCommitted, NoDirtyRead, Cached, TypeOK
<1>9. ASSUME NEW c \in Conns, Begin(c) PROVE (MemoCommitted /\ NoDirtyRead)'
  BY <1>9 DEF Begin, Boundary, MemoCommitted, NoDirtyRead, Cached, TypeOK
<1>10. ASSUME NEW c \in Conns, StampRow(c) PROVE (MemoCommitted /\ NoDirtyRead)'
  BY <1>10 DEF StampRow, MemoCommitted, NoDirtyRead, Cached, TypeOK
<1>11. ASSUME NEW c \in Conns, Resnapshot(c) PROVE (MemoCommitted /\ NoDirtyRead)'
  BY <1>11 DEF Resnapshot, MemoCommitted, NoDirtyRead, Cached, TypeOK
<1>12. ASSUME NEW c \in Conns, EndInTx(c) PROVE (MemoCommitted /\ NoDirtyRead)'
  BY <1>12 DEF EndInTx, MemoCommitted, NoDirtyRead, Cached, TypeOK
<1>13. ASSUME NEW c \in Conns, Drop(c) PROVE (MemoCommitted /\ NoDirtyRead)'
  BY <1>13 DEF Drop, MemoCommitted, NoDirtyRead, Cached, TypeOK
<1>14. ASSUME NEW c \in Conns, NEW v \in Terminal, AutocommitEnd(c, v) PROVE (MemoCommitted /\ NoDirtyRead)'
  BY <1>14 DEF AutocommitEnd, EndTx, MemoCommitted, NoDirtyRead, Cached, TypeOK
<1>15. ASSUME NEW c \in Conns, NEW v \in Terminal, FinishTx(c, v) PROVE (MemoCommitted /\ NoDirtyRead)'
  BY <1>15 DEF FinishTx, EndTx, MemoCommitted, NoDirtyRead, Cached, TypeOK
<1>16. ASSUME NEW c \in Conns, NEW x \in TxnIds, StatusCached(c, x) PROVE (MemoCommitted /\ NoDirtyRead)'
  BY <1>16 DEF StatusCached, Judge, MemoCommitted, NoDirtyRead, Cached, TypeOK
<1>17. ASSUME NEW c \in Conns, NEW x \in TxnIds, StatusFromClog(c, x) PROVE (MemoCommitted /\ NoDirtyRead)'
  BY <1>17 DEF StatusFromClog, Judge, Memoise, MemoCommitted, NoDirtyRead, Cached, TypeOK
<1>18. ASSUME NEW c \in Conns, NEW x \in TxnIds, StatusClogSilent(c, x) PROVE (MemoCommitted /\ NoDirtyRead)'
  BY <1>18 DEF StatusClogSilent, MemoCommitted, NoDirtyRead, Cached, TypeOK
<1>19. ASSUME NEW c \in Conns, StatusFromAtt(c) PROVE (MemoCommitted /\ NoDirtyRead)'
  <2> DEFINE s == StatusAbsentFromClog(lookup[c])
  <2>0. lookup[c] \in TxnIds /\ s \in Status
    BY <1>19 DEF StatusFromAtt, StatusAbsentFromClog, HasId
  <2>1. s # Committed
    BY DEF StatusAbsentFromClog
  <2>2. clog' = clog /\ judged' = judged
    BY <1>19, <2>1 DEF StatusFromAtt, Judge
  <2>3. \A d \in Conns : \A y \in TxnIds : memo'[d][y] = Committed => memo[d][y] = Committed
    <3> HIDE DEF s
    <3>1. memo' = memo \/ Memoise(c, lookup[c], s)
      BY <1>19 DEF StatusFromAtt, s
    <3>2. QED
      <4>1. CASE memo' = memo
        BY <4>1
      <4>2. CASE Memoise(c, lookup[c], s)
        BY <4>2, <2>0, <2>1, MemoiseEffect
      <4>3. QED
        BY <3>1, <4>1, <4>2
  <2>4. QED
    BY <2>2, <2>3 DEF MemoCommitted, NoDirtyRead
<1> QED
  BY <1>0, <1>1, <1>2, <1>3, <1>4, <1>5, <1>6, <1>7, <1>8, <1>9, <1>10, <1>11, <1>12, <1>13, <1>14, <1>15, <1>16, <1>17, <1>18, <1>19 DEF Next, Step

\* A snapshot taken under the ATT mutex holds every running id but those in
\* the window of begin(); later ids are above its xmax.
LEMMA ExactStep == IInv /\ [Next]_vars => SnapshotExact'
<1> SUFFICES ASSUME IInv, [Next]_vars PROVE SnapshotExact'
  OBVIOUS
<1> USE BoundsAssumption DEF IInv, Status, Terminal, InProgress, Committed, Aborted, TxnIds,
        NoId, PCs, SnapshotSet, tmVars, txVars, ctlVars, history
<1>0. CASE UNCHANGED vars
  BY <1>0 DEF vars, SnapshotExact, Reading, BeginWindow, Fresh, HasId, Frames, TypeOK
<1>1. ASSUME NEW c \in Conns, FetchAddId(c) PROVE SnapshotExact'
  BY <1>1 DEF FetchAddId, FetchAdd, SnapshotExact, Reading, BeginWindow, Fresh, HasId, Frames, TypeOK
<1>2. ASSUME NEW c \in Conns, AttInsert(c) PROVE SnapshotExact'
  BY <1>2 DEF AttInsert, AttWith, SnapshotExact, Reading, BeginWindow, Fresh, HasId, Frames, TypeOK
<1>3. ASSUME NEW c \in Conns, TakeSnapshot(c) PROVE SnapshotExact'
  BY <1>3 DEF TakeSnapshot, SnapshotNow, SnapshotExact, Reading, BeginWindow, Fresh, HasId, Frames, TypeOK
<1>4. ASSUME NEW c \in Conns, AttRemove(c) PROVE SnapshotExact'
  BY <1>4 DEF AttRemove, AttWithout, SnapshotExact, Reading, BeginWindow, Fresh, HasId, Frames, TypeOK
<1>5. ASSUME NEW c \in Conns, Decide(c) PROVE SnapshotExact'
  <2>1. att' = att /\ unborn' = unborn /\ active' = active /\ pc[c] = "decide"
    BY <1>5 DEF Decide
  <2>2. ~Reading(c)'
    BY <1>5 DEF Decide, Reading, Frames, TypeOK
  <2>3. \A d \in Conns : d # c => pc'[d] = pc[d] /\ snap'[d] = snap[d] /\ id'[d] = id[d]
    BY <1>5 DEF Decide, TypeOK
  <2>4. pc'[c] # "insert"
    BY <1>5 DEF Decide, TypeOK
  <2>5. BeginWindow' = BeginWindow
    BY <2>1, <2>3, <2>4 DEF BeginWindow
  <2>6. QED
    BY <2>1, <2>2, <2>3, <2>5 DEF SnapshotExact, Reading
<1>6. ASSUME NEW c \in Conns, New(c) PROVE SnapshotExact'
  BY <1>6 DEF New, SnapshotExact, Reading, BeginWindow, Fresh, HasId, Frames, TypeOK
<1>7. ASSUME NEW c \in Conns, RefreshAutocommit(c) PROVE SnapshotExact'
  BY <1>7 DEF RefreshAutocommit, Boundary, SnapshotExact, Reading, BeginWindow, Fresh, HasId, Frames, TypeOK
<1>8. ASSUME NEW c \in Conns, StartInTx(c) PROVE SnapshotExact'
  BY <1>8 DEF StartInTx, SnapshotExact, Reading, BeginWindow, Fresh, HasId, Frames, TypeOK
<1>9. ASSUME NEW c \in Conns, Begin(c) PROVE SnapshotExact'
  BY <1>9 DEF Begin, Boundary, SnapshotExact, Reading, BeginWindow, Fresh, HasId, Frames, TypeOK
<1>10. ASSUME NEW c \in Conns, StampRow(c) PROVE SnapshotExact'
  BY <1>10 DEF StampRow, SnapshotExact, Reading, BeginWindow, Fresh, HasId, Frames, TypeOK
<1>11. ASSUME NEW c \in Conns, Resnapshot(c) PROVE SnapshotExact'
  BY <1>11 DEF Resnapshot, SnapshotExact, Reading, BeginWindow, Fresh, HasId, Frames, TypeOK
<1>12. ASSUME NEW c \in Conns, EndInTx(c) PROVE SnapshotExact'
  BY <1>12 DEF EndInTx, SnapshotExact, Reading, BeginWindow, Fresh, HasId, Frames, TypeOK
<1>13. ASSUME NEW c \in Conns, Drop(c) PROVE SnapshotExact'
  BY <1>13 DEF Drop, SnapshotExact, Reading, BeginWindow, Fresh, HasId, Frames, TypeOK
<1>14. ASSUME NEW c \in Conns, NEW v \in Terminal, AutocommitEnd(c, v) PROVE SnapshotExact'
  BY <1>14 DEF AutocommitEnd, EndTx, SnapshotExact, Reading, BeginWindow, Fresh, HasId, Frames, TypeOK
<1>15. ASSUME NEW c \in Conns, NEW v \in Terminal, FinishTx(c, v) PROVE SnapshotExact'
  BY <1>15 DEF FinishTx, EndTx, SnapshotExact, Reading, BeginWindow, Fresh, HasId, Frames, TypeOK
<1>16. ASSUME NEW c \in Conns, NEW x \in TxnIds, StatusCached(c, x) PROVE SnapshotExact'
  BY <1>16 DEF StatusCached, Judge, SnapshotExact, Reading, BeginWindow, Fresh, HasId, Frames, TypeOK
<1>17. ASSUME NEW c \in Conns, NEW x \in TxnIds, StatusFromClog(c, x) PROVE SnapshotExact'
  BY <1>17 DEF StatusFromClog, Judge, Memoise, SnapshotExact, Reading, BeginWindow, Fresh, HasId, Frames, TypeOK
<1>18. ASSUME NEW c \in Conns, NEW x \in TxnIds, StatusClogSilent(c, x) PROVE SnapshotExact'
  BY <1>18 DEF StatusClogSilent, SnapshotExact, Reading, BeginWindow, Fresh, HasId, Frames, TypeOK
<1>19. ASSUME NEW c \in Conns, StatusFromAtt(c) PROVE SnapshotExact'
  BY <1>19 DEF StatusFromAtt, Judge, Memoise, StatusAbsentFromClog, SnapshotExact, Reading, BeginWindow, Fresh, HasId, Frames, TypeOK
<1> QED
  BY <1>0, <1>1, <1>2, <1>3, <1>4, <1>5, <1>6, <1>7, <1>8, <1>9, <1>10, <1>11, <1>12, <1>13, <1>14, <1>15, <1>16, <1>17, <1>18, <1>19 DEF Next, Step

\* The inductive invariant holds in every reachable state of the ATT, CLOG and
\* snapshot code.
THEOREM Invariance == Spec => []IInv
<1>1. Init => IInv
  <2> USE BoundsAssumption DEF Init, Status, Terminal, InProgress, Committed, Aborted, TxnIds,
          NoId, SystemTxnId, PCs, SnapshotSet, NoSnapshot
  <2>1. Init => TypeOK /\ HasId /\ Frames
    BY DEF TypeOK, HasId, Frames
  <2>2. Init => Fresh /\ IdsUnique /\ RunningIsUndecided /\ InsertPending /\ AttHasNoLeaks
    BY DEF Fresh, IdsUnique, RunningIsUndecided, Running, Reading, InsertPending, AttHasNoLeaks
  <2>3. Init => PendingDecision /\ MemoCommitted /\ NoDirtyRead /\ SnapshotExact
    BY DEF PendingDecision, MemoCommitted, NoDirtyRead, SnapshotExact, Reading
  <2>4. QED
    BY <2>1, <2>2, <2>3 DEF IInv
<1>2. IInv /\ [Next]_vars => IInv'
  BY TypeOKStep, HasIdStep, FramesStep, FreshStep, IdsUniqueStep, RegisteredStep,
     NoLeaksStep, PendingStep, MemoStep, ExactStep DEF IInv
<1>3. QED
  BY <1>1, <1>2, PTL DEF Spec

\* Every variable stays in its range: in particular every id in the ATT, in a
\* snapshot or in a status cache is one that next_txn_id has handed out.
THEOREM TypeCorrect == Spec => []TypeOK
  BY Invariance, PTL DEF IInv

\* A running transaction is in the ATT and undecided in the CLOG, and no two
\* connections share an id, however their boundaries interleave.
THEOREM RunningTransactionsAreRegistered == Spec => [](RunningIsUndecided /\ IdsUnique)
  BY Invariance, PTL DEF IInv

\* The ATT never keeps an id whose connection has finished with it.
THEOREM AttIsClean == Spec => []AttHasNoLeaks
  BY Invariance, PTL DEF IInv

\* The decision of a COMMIT, ROLLBACK or auto-commit statement is the one the
\* CLOG keeps, whatever the next boundary or Drop does to the same id.
THEOREM DecisionIsKept == Spec => []DecisionKept
<1>1. IInv => DecisionKept
  BY DEF IInv, PendingDecision, DecisionKept
<1>2. QED
  BY <1>1, Invariance, PTL

\* Status lookups never make the work of an uncommitted transaction visible.
THEOREM ReadsAreClean == Spec => []NoDirtyRead
  BY Invariance, PTL DEF IInv

\* A snapshot misses a running transaction only inside the window of begin().
THEOREM SnapshotsAreExact == Spec => []SnapshotExact
  BY Invariance, PTL DEF IInv

\* First decision wins: a terminal CLOG status is never overwritten.
THEOREM FirstDecisionWins == Spec => DecisionsAreFinal
<1>1. IInv /\ [Next]_vars => [\A x \in TxnIds : clog[x] # InProgress => clog'[x] = clog[x]]_vars
  <2> SUFFICES ASSUME IInv, Next, NEW x \in TxnIds, clog[x] # InProgress
               PROVE  clog'[x] = clog[x]
    OBVIOUS
  <2>1. PICK c \in Conns : Step(c)
    BY DEF Next
  <2>2. clog' = clog \/ ClogDecide(id[c], verdict[c])
    BY <2>1 DEF Step, FetchAddId, AttInsert, TakeSnapshot, AttRemove, Decide, New,
         RefreshAutocommit, StartInTx, Begin, StampRow, Resnapshot, EndInTx, Drop,
         AutocommitEnd, FinishTx, StatusCached, StatusFromClog, StatusClogSilent,
         StatusFromAtt, tmVars
  <2>3. QED
    BY <2>2 DEF ClogDecide, IInv, TypeOK
<1>2. QED
  BY <1>1, Invariance, PTL DEF Spec, DecisionsAreFinal
=============================================================================
