---------------------------- MODULE SessionProofs ----------------------------
(***************************************************************************)
(* Proofs about Session, for every number of statements and of swallowed   *)
(* requests.  What a session promises of its work is not inductive: a      *)
(* statement that fails writes first and is undone later, by the bracket   *)
(* around it or by the rollback of its block, and a COPY stays half done   *)
(* over many messages.  The invariant says what holds of the transaction   *)
(* at every message (Recorded, Undone), outside a block (Clean), and of    *)
(* the work of a COPY that may still fail (CopySound).                     *)
(***************************************************************************)
EXTENDS Session, TLAPS

Status == {"new", "open", "committed", "aborted"}

Txn == [active : BOOLEAN, locks : BOOLEAN, status : [Work -> Status],
        next : 1..(MaxWork + 1), failed : SUBSET Work, kept : SUBSET Work]

TypeOK ==
    /\ pc \in {"loop", "copy", "closed"}
    /\ t \in Txn
    /\ copy \in [ext : BOOLEAN, auto : BOOLEAN, work : 0..MaxWork]
    /\ exterr \in BOOLEAN /\ unsent \in BOOLEAN /\ waits \in BOOLEAN
    /\ stmt \in Statements \cup {None} /\ portal \in Statements \cup {None}
    /\ owed \in Nat /\ swallowed \in 0..MaxSwallowed

\* Work that has not begun is new and has not failed; failed work that is committed was kept.
Recorded(x) ==
    /\ \A w \in Work : w >= x.next => x.status[w] = "new" /\ w \notin x.failed
    /\ \A w \in x.failed : x.status[w] = "committed" => w \in x.kept

\* Failed work that a COMMIT would still commit was kept.
Undone(x) == \A w \in x.failed : x.status[w] = "open" => w \in x.kept

\* Outside a block nothing is locked and nothing is undecided.
Clean(x) == ~x.active => ~x.locks /\ \A w \in Work : x.status[w] # "open"

\* A running COPY knows whether it is inside a block, and its work is open and has not failed.
CopySound ==
    /\ copy.auto = ~t.active
    /\ copy.work # 0 => /\ copy.work < t.next /\ copy.work \notin t.failed
                        /\ t.status[copy.work] = "open"

TxnSound ==
    /\ Recorded(t) /\ Undone(t)
    /\ pc # "copy" => Clean(t)
    /\ pc = "copy" => CopySound

\* A COPY started by a Query owes its ReadyForQuery.
Account ==
    /\ pc = "loop" => owed = swallowed /\ (waits /\ swallowed = 0 => ~unsent)
    /\ pc = "copy" => owed = swallowed + (IF copy.ext THEN 0 ELSE 1)

IInv == TypeOK /\ TxnSound /\ Account

-----------------------------------------------------------------------------
(* What the statements leave of a transaction *)

\* The end of a block or of a bracket decides all work, releases all locks, and commits failed
\* work only if it was kept.
LEMMA EndedFacts ==
    ASSUME NEW x \in Txn, Recorded(x), NEW s \in {"committed", "aborted"},
           s = "committed" => Undone(x)
    PROVE  /\ Ended(x, s) \in Txn /\ ~Ended(x, s).active /\ ~Ended(x, s).locks
           /\ Recorded(Ended(x, s)) /\ Undone(Ended(x, s)) /\ Clean(Ended(x, s))
<1>1. Settled(x, s) \in [Work -> Status]
  BY DEF Settled, Txn, Status
<1>2. \A w \in Work : Settled(x, s)[w] = IF x.status[w] = "open" THEN s ELSE x.status[w]
  BY DEF Settled
<1> DEFINE st == Settled(x, s)
<1> HIDE DEF st
<1>3. /\ Ended(x, s) \in Txn /\ ~Ended(x, s).active /\ ~Ended(x, s).locks
      /\ Ended(x, s).status = st /\ Ended(x, s).failed = x.failed
      /\ Ended(x, s).kept = x.kept /\ Ended(x, s).next = x.next
  BY <1>1 DEF Ended, Txn, st
<1>4. \A w \in x.failed : w \in Work
  BY DEF Txn
<1> QED
  BY <1>1, <1>2, <1>3, <1>4 DEF st, Recorded, Undone, Clean, Status

\* The rollback after an error leaves a block's failed work aborted.
LEMMA AutoRollbackFacts ==
    ASSUME NEW x \in Txn, Recorded(x), Clean(x)
    PROVE  /\ AutoRollback(x) \in Txn /\ ~AutoRollback(x).active /\ ~AutoRollback(x).locks
           /\ Recorded(AutoRollback(x)) /\ Undone(AutoRollback(x)) /\ Clean(AutoRollback(x))
<1>1. CASE x.active
  BY <1>1, EndedFacts DEF AutoRollback
<1>2. CASE ~x.active
  BY <1>2 DEF AutoRollback, Undone, Clean, Txn
<1> QED  BY <1>1, <1>2 DEF Txn

\* The next work starts open, and has not failed yet.
LEMMA BegunFacts ==
    ASSUME NEW x \in Txn, Recorded(x), Undone(x), x.next <= MaxWork
    PROVE  /\ Begun(x) \in Txn /\ Recorded(Begun(x)) /\ Undone(Begun(x))
           /\ Begun(x).active = x.active /\ Begun(x).next = x.next + 1
           /\ x.next \in Work /\ x.next \notin Begun(x).failed
<1>1. x.next \in Work /\ x.status \in [Work -> Status] /\ x.next \in Nat /\ x.failed \subseteq Work
  BY SessionAssumption DEF Txn, Work
<1>2. /\ Begun(x) \in Txn /\ Begun(x).active = x.active /\ Begun(x).next = x.next + 1
      /\ Begun(x).failed = x.failed /\ Begun(x).kept = x.kept
      /\ Begun(x).status = [x.status EXCEPT ![x.next] = "open"]
  <2> DEFINE st == [x.status EXCEPT ![x.next] = "open"]
  <2>1. st \in [Work -> Status] /\ x.next + 1 \in 1..(MaxWork + 1)
    BY <1>1, SessionAssumption DEF Status, Work
  <2> HIDE DEF st
  <2>2. Begun(x) = [x EXCEPT !.status = st, !.next = x.next + 1, !.locks = TRUE]
    BY DEF Begun, Txn, st
  <2>3. [x EXCEPT !.status = st, !.next = x.next + 1, !.locks = TRUE] \in Txn
    BY <2>1 DEF Txn
  <2> QED  BY <2>2, <2>3 DEF Txn, st
<1>3. x.next \notin x.failed
  BY <1>1, SessionAssumption DEF Recorded
<1>4. \A w \in Work : w \in Nat
  BY SessionAssumption DEF Work
<1>5. Recorded(Begun(x))
  BY <1>1, <1>2, <1>3, <1>4 DEF Recorded
<1>6. Undone(Begun(x))
  BY <1>1, <1>2, <1>3 DEF Undone
<1> QED  BY <1>1, <1>2, <1>3, <1>5, <1>6

\* A failure is noted; work still open is kept if it failed in Execute inside a block.
LEMMA NotedFacts ==
    ASSUME NEW x \in Txn, Recorded(x), Undone(x), NEW w \in Work, w < x.next, w \notin x.failed,
           x.status[w] # "committed", NEW ext \in BOOLEAN
    PROVE  /\ Noted(x, w, ext) \in Txn /\ Recorded(Noted(x, w, ext))
           /\ Noted(x, w, ext).active = x.active
           /\ ext /\ x.active => Undone(Noted(x, w, ext))
<1>1. /\ Noted(x, w, ext) \in Txn /\ Noted(x, w, ext).active = x.active
      /\ Noted(x, w, ext).failed = x.failed \cup {w} /\ Noted(x, w, ext).status = x.status
      /\ Noted(x, w, ext).next = x.next
      /\ Noted(x, w, ext).kept = IF ext /\ x.active THEN x.kept \cup {w} ELSE x.kept
  BY DEF Noted, Txn
<1>2. \A v \in Work : v \in Nat
  BY SessionAssumption DEF Work
<1>3. x.next \in Nat
  BY SessionAssumption DEF Txn
<1> QED  BY <1>1, <1>2, <1>3 DEF Recorded, Undone

\* A statement that succeeds, or fails in Execute, leaves a sound transaction; one that fails in a
\* Query may leave failed work open in a block, for the rollback that follows.
LEMMA ResultsFacts ==
    ASSUME NEW x \in Txn, Recorded(x), Undone(x), Clean(x),
           NEW k \in Statements \ {"copy"}, NEW ext \in BOOLEAN, NEW r \in Results(k, x, ext)
    PROVE  /\ r.t \in Txn /\ Recorded(r.t) /\ Clean(r.t)
           /\ r.ok \/ ext => Undone(r.t)
<1>1. CASE k = "begin"
  <2>1. r.t = [x EXCEPT !.active = TRUE]
    BY <1>1 DEF Results
  <2>2. [x EXCEPT !.active = TRUE] \in Txn
    BY DEF Txn
  <2> QED  BY <2>1, <2>2 DEF Txn, Recorded, Undone, Clean
<1>2. CASE k = "commit"
  <2>1. r.t = Ended(x, "committed")
    BY <1>2 DEF Results
  <2> QED  BY <2>1, EndedFacts
<1>3. CASE k = "rollback"
  <2>1. r.t = Ended(x, "aborted")
    BY <1>3 DEF Results
  <2> QED  BY <2>1, EndedFacts
<1>4. CASE k = "bad"
  <2>1. r.t = x
    BY <1>4 DEF Results
  <2> QED  BY <2>1
<1>5. CASE k = "dml"
  <2>1. \/ r = [ok |-> FALSE, t |-> Bracket(x, FALSE)]
        \/ x.next <= MaxWork /\ r = [ok |-> TRUE, t |-> Bracket(Begun(x), TRUE)]
        \/ x.next <= MaxWork
           /\ r = [ok |-> FALSE, t |-> Bracket(Noted(Begun(x), x.next, ext), FALSE)]
    <3>1. x.next \in Nat /\ MaxWork \in Nat
      BY SessionAssumption DEF Txn
    <3>2. CASE x.next > MaxWork
      BY <1>5, <3>2 DEF Results
    <3>3. CASE ~(x.next > MaxWork)
      <4>1. x.next <= MaxWork
        BY <3>1, <3>3
      <4>2. r \in {[ok |-> FALSE, t |-> Bracket(x, FALSE)]} \cup
                  {[ok |-> TRUE, t |-> Bracket(Begun(x), TRUE)],
                   [ok |-> FALSE, t |-> Bracket(Noted(Begun(x), x.next, ext), FALSE)]}
        BY <1>5, <3>3 DEF Results
      <4> QED  BY <4>1, <4>2
    <3> QED  BY <3>2, <3>3
  <2>2. CASE r = [ok |-> FALSE, t |-> Bracket(x, FALSE)]
    BY <2>2, EndedFacts DEF Bracket
  <2>3. CASE x.next <= MaxWork /\ r = [ok |-> TRUE, t |-> Bracket(Begun(x), TRUE)]
    <3> DEFINE y == Begun(x)
    <3>1. y \in Txn /\ Recorded(y) /\ Undone(y) /\ y.active = x.active
      BY <2>3, BegunFacts
    <3> HIDE DEF y
    <3>2. CASE x.active
      BY <2>3, <3>1, <3>2 DEF Bracket, Clean, y
    <3>3. CASE ~x.active
      BY <2>3, <3>1, <3>3, EndedFacts DEF Bracket, y
    <3> QED  BY <3>2, <3>3
  <2>4. CASE x.next <= MaxWork
             /\ r = [ok |-> FALSE, t |-> Bracket(Noted(Begun(x), x.next, ext), FALSE)]
    <3> DEFINE y == Begun(x)
               z == Noted(y, x.next, ext)
    <3>1. /\ y \in Txn /\ Recorded(y) /\ Undone(y) /\ y.active = x.active
          /\ x.next \in Work /\ x.next \notin y.failed /\ y.next = x.next + 1
      BY <2>4, BegunFacts
    <3>2. y.status[x.next] # "committed" /\ x.next < y.next
      <4>1. y.status[x.next] = "open"
        BY <3>1 DEF Begun, Txn
      <4> QED  BY <3>1, <4>1, SessionAssumption DEF Work
    <3> HIDE DEF y
    <3>3. /\ z \in Txn /\ Recorded(z) /\ z.active = x.active
          /\ ext /\ x.active => Undone(z)
      BY <3>1, <3>2, NotedFacts
    <3> HIDE DEF z
    <3>4. CASE x.active
      BY <2>4, <3>3, <3>4 DEF Bracket, Clean, y, z
    <3>5. CASE ~x.active
      <4>1. r.t = Ended(z, "aborted")
        BY <2>4, <3>3, <3>5 DEF Bracket, y, z
      <4> QED  BY <3>3, <4>1, EndedFacts
    <3> QED  BY <3>4, <3>5
  <2> QED  BY <2>1, <2>2, <2>3, <2>4
<1> QED  BY <1>1, <1>2, <1>3, <1>4, <1>5 DEF Statements

\* The end of the connection rolls an open block back and releases its locks.
LEMMA TeardownFacts ==
    ASSUME NEW x \in Txn, Recorded(x), Clean(x)
    PROVE  /\ Teardown(x) \in Txn
           /\ Recorded(Teardown(x)) /\ Undone(Teardown(x)) /\ Clean(Teardown(x))
<1> DEFINE y == AutoRollback(x)
<1>1. y \in Txn /\ ~y.active /\ ~y.locks /\ Recorded(y) /\ Undone(y) /\ Clean(y)
  BY AutoRollbackFacts
<1> HIDE DEF y
<1>2. Teardown(x) = y
  BY <1>1 DEF Teardown, Txn, y
<1> QED  BY <1>1, <1>2

-----------------------------------------------------------------------------
(* Steps *)

\* COPY ends, well or not: its failed work is kept only by Execute inside a block, and otherwise
\* undone by its own bracket or by the rollback of the Query.
LEMMA CopyReturnsSound ==
    ASSUME IInv, pc = "copy", NEW ok \in BOOLEAN, NEW asked \in 0..1, CopyReturns(ok, asked)
    PROVE  t' \in Txn /\ Recorded(t') /\ Undone(t') /\ Clean(t')
<1> DEFINE x == IF ok \/ copy.work = 0 THEN t ELSE Noted(t, copy.work, copy.ext)
           y == CopyBracket(x, ok)
<1>1. /\ t \in Txn /\ Recorded(t) /\ Undone(t) /\ copy.auto = ~t.active
      /\ copy.ext \in BOOLEAN /\ copy.auto \in BOOLEAN /\ t.active \in BOOLEAN
  BY DEF IInv, TypeOK, TxnSound, CopySound, Txn
<1>2. /\ x \in Txn /\ Recorded(x) /\ x.active = t.active
      /\ ok \/ (copy.ext /\ t.active) => Undone(x)
  <2>1. CASE ok \/ copy.work = 0
    BY <1>1, <2>1
  <2>2. CASE ~(ok \/ copy.work = 0)
    <3>1. /\ copy.work \in Work /\ copy.work < t.next /\ copy.work \notin t.failed
          /\ t.status[copy.work] = "open"
      BY <2>2, SessionAssumption DEF IInv, TypeOK, TxnSound, CopySound, Work
    <3> QED  BY <1>1, <2>2, <3>1, NotedFacts
  <2> QED  BY <2>1, <2>2
<1> HIDE DEF x
<1>3. CASE copy.auto
  <2>1. y = Ended(x, IF ok THEN "committed" ELSE "aborted")
    BY <1>3 DEF CopyBracket
  <2>2. y \in Txn /\ Recorded(y) /\ Undone(y) /\ Clean(y) /\ ~y.active
    BY <1>2, <2>1, EndedFacts
  <2>3. t' = y
    BY <2>2 DEF CopyReturns, AutoRollback, x
  <2> QED  BY <2>2, <2>3
<1>4. CASE ~copy.auto
  <2>1. y = x /\ x.active /\ Clean(x)
    BY <1>1, <1>2, <1>4 DEF CopyBracket, Clean
  <2>2. CASE ok \/ copy.ext
    BY <1>1, <1>2, <1>4, <2>1, <2>2 DEF CopyReturns, x
  <2>3. CASE ~(ok \/ copy.ext)
    <3>1. t' = AutoRollback(x)
      BY <2>1, <2>3 DEF CopyReturns, x
    <3> QED  BY <1>2, <2>1, <3>1, AutoRollbackFacts
  <2> QED  BY <2>2, <2>3
<1> QED  BY <1>1, <1>3, <1>4

\* A message of the loop other than Query, Execute, COPY and the end leaves the transaction alone.
LoopOnly ==
    \/ QueryEmpty \/ Skip \/ Bind \/ Describe \/ Close \/ Sync \/ Flush \/ Stray
    \/ \E k \in Statements : Parse(k)

\* Every message keeps the types and leaves a sound transaction.
LEMMA TxnSoundKept == IInv /\ [Next]_vars => TxnSound' /\ (t \in Txn)'
<1> SUFFICES ASSUME IInv, [Next]_vars PROVE TxnSound' /\ t' \in Txn
  OBVIOUS
<1>t. t \in Txn /\ Recorded(t) /\ Undone(t) /\ (pc # "copy" => Clean(t))
  BY DEF IInv, TypeOK, TxnSound
<1>1. ASSUME NEW k \in Statements, Query(k) PROVE TxnSound' /\ t' \in Txn
  <2>1. PICK r \in Results(k, t, FALSE) : t' = IF r.ok THEN r.t ELSE AutoRollback(r.t)
    BY <1>1 DEF Query
  <2>2. pc = "loop" /\ pc' = "loop" /\ k \in Statements \ {"copy"}
    BY <1>1 DEF Query
  <2>3. r.t \in Txn /\ Recorded(r.t) /\ Clean(r.t) /\ (r.ok => Undone(r.t))
    BY <1>t, <2>2, ResultsFacts
  <2>4. t' \in Txn /\ Recorded(t') /\ Undone(t') /\ Clean(t')
    BY <2>1, <2>3, AutoRollbackFacts
  <2> QED  BY <2>2, <2>4 DEF TxnSound
<1>2. ASSUME LoopOnly PROVE TxnSound' /\ t' \in Txn
  <2>1. UNCHANGED <<t, pc>> /\ pc = "loop"
    BY <1>2 DEF LoopOnly, QueryEmpty, Skip, Bind, Describe, Close, Sync, Flush, Stray, Parse
  <2> QED  BY <1>t, <2>1 DEF TxnSound
<1>3. CASE Execute
  <2>1. pc = "loop" /\ pc' = "loop" /\ portal \in Statements \cup {None} /\ portal # "copy"
    BY <1>3 DEF Execute, IInv, TypeOK
  <2>2. CASE t' = t
    BY <1>t, <2>1, <2>2 DEF TxnSound
  <2>3. CASE portal # None /\ \E r \in Results(portal, t, TRUE) : t' = r.t
    BY <1>t, <2>1, <2>3, ResultsFacts DEF TxnSound
  <2> QED  BY <1>3, <2>2, <2>3 DEF Execute
<1>4. ASSUME NEW ext \in BOOLEAN, CopyStart(ext) PROVE TxnSound' /\ t' \in Txn
  BY <1>4, <1>t DEF CopyStart, TxnSound, CopySound
<1>5. CASE CopyLine
  <2>1. /\ pc = "copy" /\ pc' = "copy" /\ t' = WithLine /\ (copy.work = 0 => t.next <= MaxWork)
        /\ copy \in [ext : BOOLEAN, auto : BOOLEAN, work : 0..MaxWork]
        /\ copy' = [copy EXCEPT !.work = IF @ = 0 THEN t.next ELSE @]
    BY <1>5 DEF CopyLine, IInv, TypeOK
  <2>2. CASE copy.work = 0
    <3>1. t' = Begun(t) /\ copy'.work = t.next /\ copy'.auto = copy.auto
      BY <1>5, <2>1, <2>2 DEF WithLine, CopyLine
    <3>2. /\ t' \in Txn /\ Recorded(t') /\ Undone(t') /\ t'.active = t.active
          /\ t'.next = t.next + 1 /\ t.next \in Work /\ t.next \notin t'.failed
      BY <1>5, <1>t, <2>2, <3>1, BegunFacts DEF CopyLine
    <3>3. t'.status[t.next] = "open"
      BY <1>t, <3>1, <3>2 DEF Begun, Txn
    <3>4. CopySound'
      BY <2>1, <3>1, <3>2, <3>3, SessionAssumption DEF IInv, TxnSound, CopySound, Work
    <3> QED  BY <2>1, <3>2, <3>4 DEF TxnSound
  <2>3. CASE copy.work # 0
    <3>1. t' = t /\ copy' = copy
      BY <2>1, <2>3 DEF WithLine
    <3> QED  BY <1>t, <2>1, <3>1 DEF IInv, TxnSound, CopySound
  <2> QED  BY <2>2, <2>3
<1>6. CASE CopyDone \/ CopyFails \/ CopySwallows
  <2>1. \E ok \in BOOLEAN, asked \in 0..1 : pc = "copy" /\ CopyReturns(ok, asked)
    <3>1. 0 \in 0..1 /\ 1 \in 0..1
      OBVIOUS
    <3> QED  BY <1>6, <3>1, Zenon DEF CopyDone, CopyFails, CopySwallows
  <2>2. t' \in Txn /\ Recorded(t') /\ Undone(t') /\ Clean(t')
    BY <2>1, CopyReturnsSound
  <2>3. pc' = "loop"
    BY <2>1 DEF CopyReturns
  <2> QED  BY <2>2, <2>3 DEF TxnSound
<1>7. CASE Ends
  <2>1. pc = "loop" /\ pc' = "closed"
    BY <1>7 DEF Ends
  <2>2. CASE t' = Teardown(t)
    BY <1>t, <2>1, <2>2, TeardownFacts DEF TxnSound
  <2>3. ASSUME NEW k \in Statements \ {"copy"}, NEW r \in Results(k, t, FALSE), t' = Teardown(r.t)
        PROVE  TxnSound' /\ t' \in Txn
    <3>1. r.t \in Txn /\ Recorded(r.t) /\ Clean(r.t)
      BY <1>t, <2>1, ResultsFacts
    <3> QED  BY <2>1, <2>3, <3>1, TeardownFacts DEF TxnSound
  <2> QED  BY <1>7, <2>2, <2>3 DEF Ends
<1>8. CASE UNCHANGED vars
  BY <1>8, <1>t DEF vars, IInv, TxnSound, CopySound
<1> QED
  BY <1>1, <1>2, <1>3, <1>4, <1>5, <1>6, <1>7, <1>8 DEF Next, LoopOnly

\* Every message keeps the account of replies, and the types of the rest of the session.
LEMMA AccountKept == IInv /\ [Next]_vars => Account' /\ (t' \in Txn => TypeOK')
<1> SUFFICES ASSUME IInv, [Next]_vars PROVE Account' /\ (t' \in Txn => TypeOK')
  OBVIOUS
<1> USE SessionAssumption DEF IInv, Account, TypeOK
<1>0. ASSUME UNCHANGED <<pc, copy, stmt, portal, swallowed>>, pc = "loop", owed' = owed + 1 - 1,
             unsent' = FALSE, waits' = TRUE, exterr' \in BOOLEAN
      PROVE  Account' /\ (t' \in Txn => TypeOK')
  <2>1. owed' = owed
    BY <1>0
  <2> QED  BY <1>0, <2>1
<1>1. ASSUME NEW k \in Statements, Query(k) PROVE Account' /\ (t' \in Txn => TypeOK')
  BY <1>0, <1>1 DEF Query, Ready, Shipped, prepared
<1>2. ASSUME NEW k \in Statements, Parse(k) PROVE Account' /\ (t' \in Txn => TypeOK')
  BY <1>2 DEF Parse, ExtendedFails, ExtendedOk, Buffered
<1>3. CASE QueryEmpty \/ Sync
  BY <1>0, <1>3 DEF QueryEmpty, Sync, Ready, Shipped, prepared
<1>4. CASE Skip \/ Stray \/ Flush
  BY <1>4 DEF Skip, Stray, Flush, Shipped, prepared
<1>5. CASE Bind \/ Close
  BY <1>5 DEF Bind, Close, Bound, ExtendedFails, ExtendedOk, Buffered
<1>6. CASE Describe \/ Execute
  BY <1>6 DEF Describe, Execute, ExtendedFails, ExtendedOk, Buffered, prepared
<1>7. ASSUME NEW ext \in BOOLEAN, CopyStart(ext) PROVE Account' /\ (t' \in Txn => TypeOK')
  <2>1. /\ copy' = [ext |-> ext, auto |-> ~t.active, work |-> 0] /\ pc = "loop" /\ pc' = "copy"
        /\ unsent' = FALSE /\ waits' = TRUE /\ UNCHANGED <<exterr, stmt, portal, swallowed>>
        /\ owed' = owed + (IF ext THEN 0 ELSE 1)
    <3>1. owed + 0 = owed
      OBVIOUS
    <3> QED  BY <1>7, <3>1 DEF CopyStart, Shipped, prepared
  <2>2. copy' \in [ext : BOOLEAN, auto : BOOLEAN, work : 0..MaxWork] /\ copy'.ext = ext
    <3>1. 0 \in 0..MaxWork
      OBVIOUS
    <3> QED  BY <2>1, <3>1 DEF Txn
  <2>3. owed' \in Nat
    BY <2>1
  <2> QED  BY <2>1, <2>2, <2>3
<1>8. CASE CopyLine
  <2>1. t.next \in 1..(MaxWork + 1)
    BY DEF Txn
  <2>2. copy' \in [ext : BOOLEAN, auto : BOOLEAN, work : 0..MaxWork] /\ copy'.ext = copy.ext
    <3>1. (IF copy.work = 0 THEN t.next ELSE copy.work) \in 0..MaxWork
      BY <1>8, <2>1 DEF CopyLine
    <3> QED  BY <1>8, <3>1 DEF CopyLine
  <2> QED  BY <1>8, <2>2 DEF CopyLine, prepared
<1>9. ASSUME NEW ok \in BOOLEAN, NEW asked \in 0..1, pc = "copy", CopyReturns(ok, asked),
             swallowed' = swallowed + asked, swallowed + asked <= MaxSwallowed,
             waits' \in BOOLEAN, asked = 0 => ~waits', UNCHANGED prepared
      PROVE  Account' /\ (t' \in Txn => TypeOK')
  <2>1. /\ pc' = "loop" /\ copy' = NoCopy /\ exterr' \in BOOLEAN /\ unsent' \in BOOLEAN
        /\ UNCHANGED <<stmt, portal>>
    BY <1>9 DEF CopyReturns, Ready, Shipped, Buffered, prepared
  <2>2. owed' = swallowed' /\ swallowed' \in 0..MaxSwallowed
    <3>1. copy.ext \in BOOLEAN
      OBVIOUS
    <3>2. CASE copy.ext
      BY <1>9, <3>2 DEF CopyReturns
    <3>3. CASE ~copy.ext
      <4>1. owed' = owed + asked - 1 /\ owed = swallowed + 1
        BY <1>9, <3>3 DEF CopyReturns, Ready
      <4> QED  BY <1>9, <4>1
    <3> QED  BY <3>1, <3>2, <3>3
  <2>3. NoCopy \in [ext : BOOLEAN, auto : BOOLEAN, work : 0..MaxWork]
    BY DEF NoCopy
  <2>4. waits' /\ swallowed' = 0 => ~unsent'
    <3>1. asked = 0 \/ swallowed' # 0
      BY <1>9
    <3> QED  BY <1>9, <3>1
  <2> QED  BY <1>9, <2>1, <2>2, <2>3, <2>4
<1>10. CASE CopyDone \/ CopyFails
  <2>1. PICK ok \in BOOLEAN : pc = "copy" /\ CopyReturns(ok, 0)
    BY <1>10, Zenon DEF CopyDone, CopyFails
  <2>2. waits' = FALSE /\ UNCHANGED <<prepared, swallowed>>
    BY <1>10 DEF CopyDone, CopyFails
  <2>3. 0 \in 0..1 /\ swallowed' = swallowed + 0 /\ swallowed + 0 <= MaxSwallowed
    BY <2>2
  <2> QED  BY <1>9, <2>1, <2>2, <2>3
<1>11. CASE CopySwallows
  <2>1. 1 \in 0..1 /\ swallowed + 1 <= MaxSwallowed /\ ~(1 = 0)
    BY <1>11 DEF CopySwallows
  <2>2. /\ pc = "copy" /\ CopyReturns(FALSE, 1) /\ swallowed' = swallowed + 1
        /\ waits' \in BOOLEAN /\ UNCHANGED prepared
    BY <1>11 DEF CopySwallows
  <2> QED  BY <1>9, <2>1, <2>2
<1>12. CASE Ends
  BY <1>12 DEF Ends, prepared
<1>13. CASE UNCHANGED vars
  BY <1>13 DEF vars
<1> QED
  BY <1>1, <1>2, <1>3, <1>4, <1>5, <1>6, <1>7, <1>8, <1>10, <1>11, <1>12, <1>13 DEF Next

-----------------------------------------------------------------------------
\* The inductive invariant holds in every state of a session.
THEOREM Inductive == Spec => []IInv
<1>1. Init => IInv
  <2> SUFFICES ASSUME Init PROVE IInv
    OBVIOUS
  <2>1. t \in Txn
    BY SessionAssumption DEF Init, Txn, Status
  <2>2. TypeOK
    <3>1. NoCopy \in [ext : BOOLEAN, auto : BOOLEAN, work : 0..MaxWork] /\ 0 \in 0..MaxSwallowed
      BY SessionAssumption DEF NoCopy
    <3> QED  BY <2>1, <3>1 DEF Init, TypeOK
  <2>3. TxnSound
    BY DEF Init, TxnSound, Recorded, Undone, Clean
  <2> QED  BY <2>2, <2>3 DEF IInv, Account, Init
<1>2. IInv /\ [Next]_vars => IInv'
  BY TxnSoundKept, AccountKept DEF IInv
<1> QED  BY <1>1, <1>2, PTL DEF Spec

\* Every variable of the session keeps its type.
THEOREM TypeCorrect == Spec => []TypeOK
<1>1. IInv => TypeOK
  BY DEF IInv
<1> QED  BY <1>1, Inductive, PTL

\* handle_client: a statement answered with an error commits nothing, unless it failed in Execute
\* inside a block, whatever statements, COPYs, groups and disconnections surround it.
THEOREM ErrorsUndoWork == Spec => []FailedLeavesNothing
<1>1. IInv => FailedLeavesNothing
  BY DEF IInv, TxnSound, Recorded, FailedLeavesNothing
<1> QED  BY <1>1, Inductive, PTL

\* handle_client: every Query and every Sync has had its one ReadyForQuery when the next message
\* is read, and no part of an awaited reply is left in out_buf, but for what run_copy_in swallowed.
THEOREM EveryRequestIsAnswered == Spec => []AnsweredUnlessSwallowed
<1>1. IInv => AnsweredUnlessSwallowed
  BY DEF IInv, Account, AnsweredUnlessSwallowed
<1> QED  BY <1>1, Inductive, PTL

\* A session outside a block and outside COPY, or gone, holds no row lock and no undecided work.
THEOREM IdleSessionsHoldNothing == Spec => []IdleIsClean
<1>1. IInv => IdleIsClean
  BY DEF IInv, TxnSound, Clean, IdleIsClean
<1> QED  BY <1>1, Inductive, PTL

=============================================================================
