--------------------------- MODULE RowUpdateProofs ---------------------------
(***************************************************************************)
(* Proofs about RowUpdate, for any transactions, rows, statements and      *)
(* retry limits.  That two writers of a version do not both commit rests   *)
(* on the lock held from the recheck to the stamp (Locked), on what a      *)
(* thread may have taken for aborted (Believed), and on the history of     *)
(* each version: every writer but the last one aborts, or a misreading     *)
(* has happened among them (Overwritten).                                  *)
(*                                                                         *)
(* The second half is about rows, in histories where nobody who commits    *)
(* has been taken for aborted (Sound).  A statement accounts for every row *)
(* in its scope all the way (Covered), which takes that a committed UPDATE *)
(* leaves a newer version of each version it has stamped (Replaced).  A    *)
(* row has one live version because a stamp goes on the live version or on *)
(* the transaction's own last one, so that whoever may still commit is the *)
(* deleter of the live version and has the one to replace it (Solid).      *)
(***************************************************************************)
EXTENDS RowUpdate, SequenceTheorems, FiniteSetTheorems, TLAPS

Version == [row : Rows, xmin : Txns \cup {Sys}, xmax : Txns \cup {None}]

PCs == {"idle", "begin", "snapshot", "scan", "next", "check", "stamp", "insert",
        "unlock", "remove", "decide", "done"}

TypeOK ==
    /\ heap \in Seq(Version)
    /\ allocated \subseteq Txns /\ att \subseteq Txns
    /\ clog \in [Txns -> {"none", "committed", "aborted"}]
    /\ memo \in [Txns -> SUBSET Txns]
    /\ locks \in [Txns -> SUBSET (1 .. Len(heap))]
    /\ pc \in [Txns -> PCs]
    /\ block \in [Txns -> BOOLEAN]
    /\ op \in [Txns -> {"update", "delete"}]
    /\ scope \in [Txns -> SUBSET Rows]
    /\ snap \in [Txns -> [seen : SUBSET Txns, active : SUBSET Txns]]
    /\ pos \in [Txns -> Nat \ {0}]
    /\ matched \in [Txns -> SUBSET (1 .. Len(heap))]
    /\ retries \in Nat /\ attempt \in [Txns -> Nat]
    /\ verdict \in [Txns -> {"none", "committed", "aborted"}]
    /\ applied \subseteq Txns \X (1 .. Len(heap))
    /\ misread \subseteq Txns \X Txns

\* A transaction has an id but no entry in the ATT yet, or not even an id.
Unregistered(t) == pc[t] \in {"idle", "begin"}
Over(t) == pc[t] \in {"unlock", "remove", "decide", "done"}

\* What the phase of a transaction says of its ATT entry, its verdict and its decision.
Phases ==
    \A t \in Txns :
        /\ verdict[t] # "none" <=> Over(t)
        /\ ~Unregistered(t) /\ verdict[t] = "none" => t \in att
        /\ clog[t] # "none" => clog[t] = verdict[t]

\* Only registered transactions have left traces in the heap.
Traces ==
    /\ \A v \in DOMAIN heap : /\ heap[v].xmin # Sys => ~Unregistered(heap[v].xmin)
                              /\ heap[v].xmax # None => <<heap[v].xmax, v>> \in applied
    /\ \A p \in applied : ~Unregistered(p[1])

\* Locks are exclusive, and held from before the recheck to after the stamp.
Locked ==
    /\ \A t, u \in Txns : t # u => locks[t] \cap locks[u] = {}
    /\ \A t \in Txns, v \in DOMAIN heap :
          pc[t] \in {"check", "stamp"} /\ First(t, v) => v \in locks[t]

\* Whom a thread takes for aborted has decided to abort, or is in misread.
Aborts(t, u) == verdict[u] = "aborted" \/ (verdict[u] = "committed" /\ <<t, u>> \in misread)
Believed ==
    /\ \A t \in Txns : \A u \in memo[t] : Aborts(t, u)
    /\ \A t \in Txns, v \in DOMAIN heap :
          pc[t] = "stamp" /\ First(t, v) /\ heap[v].xmax \notin {None, t} => Aborts(t, heap[v].xmax)

\* A writer of v took an earlier one for aborted that commits.
Misjudged(v) ==
    \E p \in misread : /\ {<<p[1], v>>, <<p[2], v>>} \subseteq applied
                       /\ verdict[p[2]] = "committed"

Overwritten ==
    \A v \in DOMAIN heap : \A t \in Txns :
        <<t, v>> \in applied /\ t # heap[v].xmax => verdict[t] = "aborted" \/ Misjudged(v)

\* What no step takes back.
Monotone ==
    /\ \A t \in Txns : pc[t] \notin {"idle", "begin"} => pc'[t] \notin {"idle", "begin"}
    /\ \A t \in Txns : verdict[t] # "none" => verdict'[t] = verdict[t]
    /\ applied \subseteq applied' /\ misread \subseteq misread'

Quiet ==
    \/ UNCHANGED <<heap, applied>>
    \/ \E t \in Txns : \E v \in matched[t] : Stamp(t, v) \/ InsertVersion(t, v)

IInv == TypeOK /\ Phases /\ Traces /\ Locked /\ Believed /\ Overwritten
-----------------------------------------------------------------------------
(* Lemmas *)

\* The versions a sequence has stay in it when one is appended.
LEMMA AppendFacts ==
    ASSUME TypeOK, NEW n \in Version, heap' = Append(heap, n)
    PROVE  /\ heap' \in Seq(Version) /\ Len(heap') = Len(heap) + 1
           /\ 1 .. Len(heap) \subseteq 1 .. Len(heap') /\ Len(heap) + 1 \in 1 .. Len(heap')
           /\ \A v \in 1 .. Len(heap) : heap'[v] = heap[v]
           /\ heap'[Len(heap) + 1] = n
<1>1. heap \in Seq(Version)
  BY DEF TypeOK
<1> QED  BY <1>1

\* set_tuple_xmax changes the deleter of one version and nothing else.
LEMMA StampFacts ==
    ASSUME TypeOK, NEW t \in Txns, NEW v \in 1 .. Len(heap), heap' = [heap EXCEPT ![v].xmax = t]
    PROVE  /\ heap' \in Seq(Version) /\ Len(heap') = Len(heap)
           /\ \A w \in 1 .. Len(heap) :
                 /\ heap'[w].row = heap[w].row /\ heap'[w].xmin = heap[w].xmin
                 /\ heap'[w].xmax = IF w = v THEN t ELSE heap[w].xmax
<1>1. heap \in Seq(Version) /\ DOMAIN heap = 1 .. Len(heap) /\ \A w \in 1 .. Len(heap) : heap[w] \in Version
  BY DEF TypeOK
<1> DEFINE n == [heap[v] EXCEPT !.xmax = t]
<1>2. n \in Version /\ n.row = heap[v].row /\ n.xmin = heap[v].xmin /\ n.xmax = t
  BY <1>1 DEF Version
<1>3. heap' = [heap EXCEPT ![v] = n]
  OBVIOUS
<1> HIDE DEF n
<1>4. heap' \in Seq(Version) /\ Len(heap') = Len(heap)
  BY <1>1, <1>2, <1>3, ExceptSeq
<1>5. \A w \in 1 .. Len(heap) : heap'[w] = IF w = v THEN n ELSE heap[w]
  BY <1>1, <1>3
<1> QED  BY <1>2, <1>4, <1>5

\* A lookup only adds to what the thread remembers and to what was misread.
LEMMA LookUpFacts ==
    ASSUME TypeOK, NEW t \in Txns, NEW us \in SUBSET Txns, LookUp(t, us)
    PROVE  /\ memo' \in [Txns -> SUBSET Txns] /\ misread' \subseteq Txns \X Txns
           /\ \A x \in Txns : x # t => memo'[x] = memo[x]
           /\ misread \subseteq misread'
           /\ \A u \in memo'[t] : u \in memo[t] \/ (u \in us /\ Status(t, u) = "aborted")
           /\ \A u \in us : Status(t, u) = "aborted" /\ clog[u] = "none" => <<t, u>> \in misread'
<1> DEFINE dead == {u \in us : Status(t, u) = "aborted"}
<1>1. memo' = [memo EXCEPT ![t] = @ \cup dead] /\ dead \subseteq Txns
  BY DEF LookUp
<1>2. misread' = misread \cup {<<t, u>> : u \in {w \in dead : clog[w] = "none"}}
  BY DEF LookUp
<1> QED  BY <1>1, <1>2 DEF TypeOK

\* The transactions asked about are the creator and the deleter of the version.
LEMMA AskedFacts ==
    ASSUME NEW t, NEW v
    PROVE  Asked(t, v) \subseteq Txns /\ \A u \in Asked(t, v) : u \in {heap[v].xmin, heap[v].xmax}
  BY DEF Asked

\* The recheck under the lock restarts the statement, fails it, or lets it stamp the version
\* because the deleter found is taken for aborted.
LEMMA RecheckCases ==
    ASSUME TypeOK, NEW t \in Txns, NEW v \in matched[t], Recheck(t, v)
    PROVE  /\ v \in 1 .. Len(heap) /\ heap[v].xmax \in Txns \cup {None}
           /\ pc[t] = "check" /\ First(t, v)
           /\ {heap[v].xmax} \ {None, t} \in SUBSET Txns /\ LookUp(t, {heap[v].xmax} \ {None, t})
           /\ UNCHANGED <<heap, allocated, att, clog, locks, block, op, scope, retries, snap, pos,
                          applied, matched>>
           /\ \/ /\ pc' = [pc EXCEPT ![t] = "snapshot"] /\ verdict' = verdict
                 /\ attempt' = [attempt EXCEPT ![t] = @ + 1]
              \/ StartEnd(t, "aborted") /\ UNCHANGED attempt
              \/ /\ pc' = [pc EXCEPT ![t] = "stamp"] /\ UNCHANGED <<verdict, attempt>>
                 /\ heap[v].xmax \notin {None, t} => Status(t, heap[v].xmax) = "aborted"
<1>1. v \in 1 .. Len(heap) /\ heap[v] \in Version
  BY DEF TypeOK
<1>2. heap[v].xmax \in Txns \cup {None}
  BY <1>1 DEF Version
<1>3. heap[v].xmax \in Txns => Status(t, heap[v].xmax) \in {"committed", "aborted", "running"}
  BY DEF Status, TypeOK
<1>4. /\ pc[t] = "check" /\ First(t, v)
      /\ {heap[v].xmax} \ {None, t} \in SUBSET Txns /\ LookUp(t, {heap[v].xmax} \ {None, t})
      /\ UNCHANGED <<heap, allocated, att, clog, locks, block, op, scope, retries, snap, pos,
                     applied, matched>>
  BY <1>2 DEF Recheck, RestartStmt, txnVars, stmtVars
<1>5. \/ /\ pc' = [pc EXCEPT ![t] = "snapshot"] /\ verdict' = verdict
         /\ attempt' = [attempt EXCEPT ![t] = @ + 1]
      \/ StartEnd(t, "aborted") /\ UNCHANGED attempt
      \/ /\ pc' = [pc EXCEPT ![t] = "stamp"] /\ UNCHANGED <<verdict, attempt>>
         /\ heap[v].xmax \notin {None, t} => Status(t, heap[v].xmax) = "aborted"
  BY <1>2, <1>3 DEF Recheck, RestartStmt, Fail, Conflict
<1> QED  BY <1>1, <1>2, <1>4, <1>5

\* The end of a statement: its verdict, and the first step of the transaction's end.
LEMMA StartEndFacts ==
    ASSUME TypeOK, NEW t \in Txns, NEW out \in {"committed", "aborted"}, StartEnd(t, out)
    PROVE  /\ pc' \in [Txns -> PCs] /\ verdict' \in [Txns -> {"none", "committed", "aborted"}]
           /\ pc'[t] \in {"remove", "unlock"} /\ verdict'[t] = out
           /\ \A x \in Txns : x # t => pc'[x] = pc[x] /\ verdict'[x] = verdict[x]
  BY DEF StartEnd, TypeOK, PCs

\* Every step keeps every variable in its range.
LEMMA TypeOKKept == IInv /\ [Next]_vars => TypeOK'
<1> USE RowUpdateAssumption
<1> SUFFICES ASSUME IInv, [Next]_vars PROVE TypeOK'
  OBVIOUS
<1> USE DEF IInv
<1>1. ASSUME NEW t \in Txns, NEW kind \in Kinds, NEW rows \in SUBSET Rows, Begin(t, kind, rows) PROVE TypeOK'
  BY <1>1 DEF Begin, scanVars, TypeOK, PCs
<1>2. ASSUME NEW t \in Txns, Register(t) PROVE TypeOK'
  BY <1>2 DEF Register, stmtVars, scanVars, TypeOK, PCs
<1>3. ASSUME NEW t \in Txns, TakeSnapshot(t) PROVE TypeOK'
  BY <1>3 DEF TakeSnapshot, txnVars, stmtVars, TypeOK, PCs
<1>4. ASSUME NEW t \in Txns, GiveUp(t) PROVE TypeOK'
  BY <1>4 DEF GiveUp, Fail, StartEnd, txnVars, stmtVars, scanVars, TypeOK, PCs
<1>5. ASSUME NEW t \in Txns, ScanVersion(t) PROVE TypeOK'
  <2>1. memo' \in [Txns -> SUBSET Txns] /\ misread' \subseteq Txns \X Txns
    <3>1. LookUp(t, Asked(t, pos[t]))
      BY <1>5 DEF ScanVersion
    <3>2. Asked(t, pos[t]) \in SUBSET Txns
      BY AskedFacts
    <3> QED  BY <3>1, <3>2, LookUpFacts
  <2>2. matched' \in [Txns -> SUBSET (1 .. Len(heap))]
    <3>1. pos[t] \in 1 .. Len(heap)
      BY <1>5 DEF ScanVersion, TypeOK
    <3> QED  BY <1>5, <3>1 DEF ScanVersion, TypeOK
  <2> QED  BY <1>5, <2>1, <2>2 DEF ScanVersion, txnVars, stmtVars, TypeOK
<1>6. ASSUME NEW t \in Txns, ScanEnd(t) PROVE TypeOK'
  BY <1>6 DEF ScanEnd, txnVars, stmtVars, scanVars, TypeOK, PCs
<1>7. ASSUME NEW t \in Txns, NEW v \in matched[t], LockVersion(t, v) PROVE TypeOK'
  BY <1>7 DEF LockVersion, txnVars, stmtVars, scanVars, TypeOK, PCs
<1>8. ASSUME NEW t \in Txns, NEW v \in matched[t], LockTimeout(t, v) PROVE TypeOK'
  BY <1>8 DEF LockTimeout, Fail, StartEnd, txnVars, stmtVars, scanVars, TypeOK, PCs
<1>9. ASSUME NEW t \in Txns, NEW v \in matched[t], Recheck(t, v) PROVE TypeOK'
  <2>1. memo' \in [Txns -> SUBSET Txns] /\ misread' \subseteq Txns \X Txns
    <3>1. /\ {heap[v].xmax} \ {None, t} \in SUBSET Txns
          /\ LookUp(t, {heap[v].xmax} \ {None, t})
      BY <1>9, RecheckCases
    <3> QED  BY <3>1, LookUpFacts
  <2>2. UNCHANGED <<heap, allocated, att, clog, locks, block, op, scope, retries, snap, pos,
                    applied, matched>>
    BY <1>9, RecheckCases
  <2>3. CASE /\ pc' = [pc EXCEPT ![t] = "snapshot"] /\ verdict' = verdict
             /\ attempt' = [attempt EXCEPT ![t] = @ + 1]
    BY <2>1, <2>2, <2>3 DEF TypeOK, PCs
  <2>4. CASE StartEnd(t, "aborted") /\ UNCHANGED attempt
    BY <2>1, <2>2, <2>4, StartEndFacts DEF TypeOK
  <2>5. CASE pc' = [pc EXCEPT ![t] = "stamp"] /\ UNCHANGED <<verdict, attempt>>
    BY <2>1, <2>2, <2>5 DEF TypeOK, PCs
  <2> QED  BY <1>9, <2>3, <2>4, <2>5, RecheckCases
<1>10. ASSUME NEW t \in Txns, NEW v \in matched[t], Stamp(t, v) PROVE TypeOK'
  <2>1. v \in 1 .. Len(heap)
    BY DEF TypeOK
  <2>2. heap' \in Seq(Version) /\ Len(heap') = Len(heap)
    BY <1>10, <2>1, StampFacts DEF Stamp
  <2>3. matched' \in [Txns -> SUBSET (1 .. Len(heap))] /\ pc' \in [Txns -> PCs]
    <3>1. CASE pc' = [pc EXCEPT ![t] = "insert"] /\ UNCHANGED matched
      BY <3>1 DEF TypeOK, PCs
    <3>2. CASE pc' = [pc EXCEPT ![t] = "next"] /\ matched' = [matched EXCEPT ![t] = @ \ {v}]
      BY <3>2 DEF TypeOK, PCs
    <3> QED  BY <1>10, <3>1, <3>2 DEF Stamp
  <2>4. applied' \subseteq Txns \X (1 .. Len(heap))
    BY <1>10, <2>1 DEF Stamp, TypeOK
  <2> QED  BY <1>10, <2>2, <2>3, <2>4 DEF Stamp, txnVars, stmtVars, TypeOK
<1>11. ASSUME NEW t \in Txns, NEW v \in matched[t], InsertVersion(t, v) PROVE TypeOK'
  <2>1. v \in 1 .. Len(heap) /\ heap[v] \in Version
    BY DEF TypeOK
  <2> DEFINE n == [row |-> heap[v].row, xmin |-> t, xmax |-> None]
  <2>2. n \in Version
    BY <2>1 DEF Version
  <2> HIDE DEF n
  <2>3. /\ heap' \in Seq(Version) /\ 1 .. Len(heap) \subseteq 1 .. Len(heap')
        /\ Len(heap) + 1 \in 1 .. Len(heap')
    BY <1>11, <2>2, AppendFacts DEF InsertVersion, n
  <2>4. locks' \in [Txns -> SUBSET (1 .. Len(heap'))]
    BY <1>11, <2>3 DEF InsertVersion, TypeOK
  <2>5. matched' \in [Txns -> SUBSET (1 .. Len(heap'))] /\ applied' \subseteq Txns \X (1 .. Len(heap'))
    BY <1>11, <2>3 DEF InsertVersion, TypeOK
  <2> QED  BY <1>11, <2>3, <2>4, <2>5 DEF InsertVersion, txnVars, stmtVars, TypeOK, PCs
<1>12. ASSUME NEW t \in Txns, NEW out \in {"committed", "aborted"}, Finish(t, out) PROVE TypeOK'
  BY <1>12 DEF Finish, StartEnd, txnVars, stmtVars, scanVars, TypeOK, PCs
<1>13. ASSUME NEW t \in Txns, Unlock(t) PROVE TypeOK'
  BY <1>13 DEF Unlock, txnVars, stmtVars, scanVars, TypeOK, PCs
<1>14. ASSUME NEW t \in Txns, AttRemove(t) PROVE TypeOK'
  BY <1>14 DEF AttRemove, stmtVars, scanVars, TypeOK, PCs
<1>15. ASSUME NEW t \in Txns, Decide(t) PROVE TypeOK'
  BY <1>15 DEF Decide, stmtVars, scanVars, TypeOK, PCs
<1>16. CASE UNCHANGED vars
  BY <1>16 DEF vars, txnVars, stmtVars, scanVars, TypeOK, PCs
<1> QED
  BY <1>1, <1>2, <1>3, <1>4, <1>5, <1>6, <1>7, <1>8, <1>9, <1>10, <1>11, <1>12, <1>13, <1>14, <1>15,
     <1>16
  DEF Next, Statement, Ending, AllDone

\* A verdict is reached when the statement ends, after the transaction was registered, and
\* decided as it is.
LEMMA PhasesKept == IInv /\ [Next]_vars => Phases'
<1> USE RowUpdateAssumption
<1> SUFFICES ASSUME IInv, [Next]_vars PROVE Phases'
  OBVIOUS
<1> USE DEF IInv
<1>1. ASSUME NEW t \in Txns, NEW kind \in Kinds, NEW rows \in SUBSET Rows, Begin(t, kind, rows) PROVE Phases'
  BY <1>1 DEF Begin, scanVars, Phases, Over, Unregistered, TypeOK, PCs
<1>2. ASSUME NEW t \in Txns, Register(t) PROVE Phases'
  BY <1>2 DEF Register, stmtVars, scanVars, Phases, Over, Unregistered, TypeOK, PCs
<1>3. ASSUME NEW t \in Txns, TakeSnapshot(t) PROVE Phases'
  BY <1>3 DEF TakeSnapshot, txnVars, stmtVars, Phases, Over, Unregistered, TypeOK, PCs
<1>4. ASSUME NEW t \in Txns, GiveUp(t) PROVE Phases'
  BY <1>4 DEF GiveUp, Fail, StartEnd, txnVars, stmtVars, scanVars, Phases, Over, Unregistered, TypeOK, PCs
<1>5. ASSUME NEW t \in Txns, ScanVersion(t) PROVE Phases'
  BY <1>5 DEF ScanVersion, LookUp, txnVars, stmtVars, Phases, Over, Unregistered, TypeOK, PCs
<1>6. ASSUME NEW t \in Txns, ScanEnd(t) PROVE Phases'
  BY <1>6 DEF ScanEnd, txnVars, stmtVars, scanVars, Phases, Over, Unregistered, TypeOK, PCs
<1>7. ASSUME NEW t \in Txns, NEW v \in matched[t], LockVersion(t, v) PROVE Phases'
  BY <1>7 DEF LockVersion, txnVars, stmtVars, scanVars, Phases, Over, Unregistered, TypeOK, PCs
<1>8. ASSUME NEW t \in Txns, NEW v \in matched[t], LockTimeout(t, v) PROVE Phases'
  BY <1>8 DEF LockTimeout, Fail, StartEnd, txnVars, stmtVars, scanVars, Phases, Over, Unregistered, TypeOK, PCs
<1>9. ASSUME NEW t \in Txns, NEW v \in matched[t], Recheck(t, v) PROVE Phases'
  <2>2. UNCHANGED <<att, clog>> /\ pc[t] = "check"
    BY <1>9, RecheckCases
  <2>3. CASE pc' = [pc EXCEPT ![t] = "snapshot"] /\ verdict' = verdict
    BY <2>2, <2>3 DEF Phases, Over, Unregistered, TypeOK
  <2>4. CASE StartEnd(t, "aborted")
    BY <2>2, <2>4, StartEndFacts DEF Phases, Over, Unregistered
  <2>5. CASE pc' = [pc EXCEPT ![t] = "stamp"] /\ UNCHANGED verdict
    BY <2>2, <2>5 DEF Phases, Over, Unregistered, TypeOK
  <2> QED  BY <1>9, <2>3, <2>4, <2>5, RecheckCases
<1>10. ASSUME NEW t \in Txns, NEW v \in matched[t], Stamp(t, v) PROVE Phases'
  BY <1>10 DEF Stamp, txnVars, stmtVars, Phases, Over, Unregistered, TypeOK, PCs
<1>11. ASSUME NEW t \in Txns, NEW v \in matched[t], InsertVersion(t, v) PROVE Phases'
  BY <1>11 DEF InsertVersion, txnVars, stmtVars, Phases, Over, Unregistered, TypeOK, PCs
<1>12. ASSUME NEW t \in Txns, NEW out \in {"committed", "aborted"}, Finish(t, out) PROVE Phases'
  BY <1>12 DEF Finish, StartEnd, txnVars, stmtVars, scanVars, Phases, Over, Unregistered, TypeOK, PCs
<1>13. ASSUME NEW t \in Txns, Unlock(t) PROVE Phases'
  BY <1>13 DEF Unlock, txnVars, stmtVars, scanVars, Phases, Over, Unregistered, TypeOK, PCs
<1>14. ASSUME NEW t \in Txns, AttRemove(t) PROVE Phases'
  BY <1>14 DEF AttRemove, stmtVars, scanVars, Phases, Over, Unregistered, TypeOK, PCs
<1>15. ASSUME NEW t \in Txns, Decide(t) PROVE Phases'
  BY <1>15 DEF Decide, stmtVars, scanVars, Phases, Over, Unregistered, TypeOK, PCs
<1>16. CASE UNCHANGED vars
  BY <1>16 DEF vars, txnVars, stmtVars, scanVars, Phases, Over, Unregistered, TypeOK, PCs
<1> QED
  BY <1>1, <1>2, <1>3, <1>4, <1>5, <1>6, <1>7, <1>8, <1>9, <1>10, <1>11, <1>12, <1>13, <1>14, <1>15,
     <1>16
  DEF Next, Statement, Ending, AllDone

\* A registered transaction stays registered, a verdict is final, and history only grows.
LEMMA Forward == IInv /\ [Next]_vars => Monotone
<1> USE RowUpdateAssumption
<1> SUFFICES ASSUME IInv, [Next]_vars PROVE Monotone
  OBVIOUS
<1> USE DEF IInv
<1>1. ASSUME NEW t \in Txns, NEW kind \in Kinds, NEW rows \in SUBSET Rows, Begin(t, kind, rows) PROVE Monotone
  BY <1>1 DEF Begin, scanVars, Unregistered, Phases, Over, TypeOK, PCs, Monotone
<1>2. ASSUME NEW t \in Txns, Register(t) PROVE Monotone
  BY <1>2 DEF Register, stmtVars, scanVars, Unregistered, Phases, Over, TypeOK, PCs, Monotone
<1>3. ASSUME NEW t \in Txns, TakeSnapshot(t) PROVE Monotone
  BY <1>3 DEF TakeSnapshot, txnVars, stmtVars, Unregistered, Phases, Over, TypeOK, PCs, Monotone
<1>4. ASSUME NEW t \in Txns, GiveUp(t) PROVE Monotone
  BY <1>4 DEF GiveUp, Fail, StartEnd, txnVars, stmtVars, scanVars, Unregistered, Phases, Over, TypeOK, PCs, Monotone
<1>5. ASSUME NEW t \in Txns, ScanVersion(t) PROVE Monotone
  <2>1. PICK us \in SUBSET Txns : LookUp(t, us)
    BY <1>5, AskedFacts DEF ScanVersion
  <2>2. misread \subseteq misread'
    BY <2>1, LookUpFacts
  <2> QED  BY <1>5, <2>2 DEF ScanVersion, stmtVars, txnVars, Monotone
<1>6. ASSUME NEW t \in Txns, ScanEnd(t) PROVE Monotone
  BY <1>6 DEF ScanEnd, txnVars, stmtVars, scanVars, Unregistered, Phases, Over, TypeOK, PCs, Monotone
<1>7. ASSUME NEW t \in Txns, NEW v \in matched[t], LockVersion(t, v) PROVE Monotone
  BY <1>7 DEF LockVersion, txnVars, stmtVars, scanVars, Unregistered, Phases, Over, TypeOK, PCs, Monotone
<1>8. ASSUME NEW t \in Txns, NEW v \in matched[t], LockTimeout(t, v) PROVE Monotone
  BY <1>8 DEF LockTimeout, Fail, StartEnd, txnVars, stmtVars, scanVars, Unregistered, Phases, Over, TypeOK, PCs, Monotone
<1>9. ASSUME NEW t \in Txns, NEW v \in matched[t], Recheck(t, v) PROVE Monotone
  <2>1. PICK us \in SUBSET Txns : LookUp(t, us)
    BY <1>9, RecheckCases
  <2>2. misread \subseteq misread'
    BY <2>1, LookUpFacts
  <2>3. applied' = applied /\ pc[t] = "check"
    BY <1>9, RecheckCases
  <2>4. CASE StartEnd(t, "aborted")
    BY <2>2, <2>3, <2>4, StartEndFacts DEF Monotone, Unregistered, Phases, Over
  <2>5. CASE UNCHANGED verdict /\ pc' \in {[pc EXCEPT ![t] = "stamp"], [pc EXCEPT ![t] = "snapshot"]}
    BY <2>2, <2>3, <2>5 DEF Monotone, Unregistered, TypeOK
  <2> QED  BY <1>9, <2>4, <2>5, RecheckCases
<1>10. ASSUME NEW t \in Txns, NEW v \in matched[t], Stamp(t, v) PROVE Monotone
  BY <1>10 DEF Stamp, txnVars, stmtVars, Unregistered, Phases, Over, TypeOK, PCs, Monotone
<1>11. ASSUME NEW t \in Txns, NEW v \in matched[t], InsertVersion(t, v) PROVE Monotone
  BY <1>11 DEF InsertVersion, txnVars, stmtVars, Unregistered, Phases, Over, TypeOK, PCs, Monotone
<1>12. ASSUME NEW t \in Txns, NEW out \in {"committed", "aborted"}, Finish(t, out) PROVE Monotone
  BY <1>12 DEF Finish, StartEnd, txnVars, stmtVars, scanVars, Unregistered, Phases, Over, TypeOK, PCs, Monotone
<1>13. ASSUME NEW t \in Txns, Unlock(t) PROVE Monotone
  BY <1>13 DEF Unlock, txnVars, stmtVars, scanVars, Unregistered, Phases, Over, TypeOK, PCs, Monotone
<1>14. ASSUME NEW t \in Txns, AttRemove(t) PROVE Monotone
  BY <1>14 DEF AttRemove, stmtVars, scanVars, Unregistered, Phases, Over, TypeOK, PCs, Monotone
<1>15. ASSUME NEW t \in Txns, Decide(t) PROVE Monotone
  BY <1>15 DEF Decide, stmtVars, scanVars, Unregistered, Phases, Over, TypeOK, PCs, Monotone
<1>16. CASE UNCHANGED vars
  BY <1>16 DEF vars, txnVars, stmtVars, scanVars, Unregistered, Phases, Over, TypeOK, PCs, Monotone
<1> QED
  BY <1>1, <1>2, <1>3, <1>4, <1>5, <1>6, <1>7, <1>8, <1>9, <1>10, <1>11, <1>12, <1>13, <1>14, <1>15,
     <1>16
  DEF Next, Statement, Ending, AllDone

\* The heap and the history of changes are left alone by every step but the stamp and the
\* insertion.
LEMMA StepKinds == IInv /\ [Next]_vars => Quiet
<1> USE RowUpdateAssumption
<1> SUFFICES ASSUME IInv, [Next]_vars PROVE Quiet
  OBVIOUS
<1> USE DEF IInv
<1>1. ASSUME NEW t \in Txns, NEW kind \in Kinds, NEW rows \in SUBSET Rows, Begin(t, kind, rows) PROVE Quiet
  BY <1>1 DEF Begin, scanVars, Quiet, vars, txnVars, stmtVars, scanVars
<1>2. ASSUME NEW t \in Txns, Register(t) PROVE Quiet
  BY <1>2 DEF Register, stmtVars, scanVars, Quiet, vars, txnVars, stmtVars, scanVars
<1>3. ASSUME NEW t \in Txns, TakeSnapshot(t) PROVE Quiet
  BY <1>3 DEF TakeSnapshot, txnVars, stmtVars, Quiet, vars, txnVars, stmtVars, scanVars
<1>4. ASSUME NEW t \in Txns, GiveUp(t) PROVE Quiet
  BY <1>4 DEF GiveUp, Fail, StartEnd, txnVars, stmtVars, scanVars, Quiet, vars, txnVars, stmtVars, scanVars
<1>5. ASSUME NEW t \in Txns, ScanVersion(t) PROVE Quiet
  BY <1>5 DEF ScanVersion, LookUp, txnVars, stmtVars, Quiet, vars, txnVars, stmtVars, scanVars
<1>6. ASSUME NEW t \in Txns, ScanEnd(t) PROVE Quiet
  BY <1>6 DEF ScanEnd, txnVars, stmtVars, scanVars, Quiet, vars, txnVars, stmtVars, scanVars
<1>7. ASSUME NEW t \in Txns, NEW v \in matched[t], LockVersion(t, v) PROVE Quiet
  BY <1>7 DEF LockVersion, txnVars, stmtVars, scanVars, Quiet, vars, txnVars, stmtVars, scanVars
<1>8. ASSUME NEW t \in Txns, NEW v \in matched[t], LockTimeout(t, v) PROVE Quiet
  BY <1>8 DEF LockTimeout, Fail, StartEnd, txnVars, stmtVars, scanVars, Quiet, vars, txnVars, stmtVars, scanVars
<1>9. ASSUME NEW t \in Txns, NEW v \in matched[t], Recheck(t, v) PROVE Quiet
  BY <1>9, RecheckCases DEF Quiet
<1>10. ASSUME NEW t \in Txns, NEW v \in matched[t], Stamp(t, v) PROVE Quiet
  BY <1>10 DEF Quiet
<1>11. ASSUME NEW t \in Txns, NEW v \in matched[t], InsertVersion(t, v) PROVE Quiet
  BY <1>11 DEF Quiet
<1>12. ASSUME NEW t \in Txns, NEW out \in {"committed", "aborted"}, Finish(t, out) PROVE Quiet
  BY <1>12 DEF Finish, StartEnd, txnVars, stmtVars, scanVars, Quiet, vars, txnVars, stmtVars, scanVars
<1>13. ASSUME NEW t \in Txns, Unlock(t) PROVE Quiet
  BY <1>13 DEF Unlock, txnVars, stmtVars, scanVars, Quiet, vars, txnVars, stmtVars, scanVars
<1>14. ASSUME NEW t \in Txns, AttRemove(t) PROVE Quiet
  BY <1>14 DEF AttRemove, stmtVars, scanVars, Quiet, vars, txnVars, stmtVars, scanVars
<1>15. ASSUME NEW t \in Txns, Decide(t) PROVE Quiet
  BY <1>15 DEF Decide, stmtVars, scanVars, Quiet, vars, txnVars, stmtVars, scanVars
<1>16. CASE UNCHANGED vars
  BY <1>16 DEF vars, txnVars, stmtVars, scanVars, Quiet, vars, txnVars, stmtVars, scanVars
<1> QED
  BY <1>1, <1>2, <1>3, <1>4, <1>5, <1>6, <1>7, <1>8, <1>9, <1>10, <1>11, <1>12, <1>13, <1>14, <1>15,
     <1>16
  DEF Next, Statement, Ending, AllDone

\* Only registered transactions stamp and create versions.
LEMMA TracesKept == IInv /\ [Next]_vars => Traces'
<1> SUFFICES ASSUME IInv, [Next]_vars PROVE Traces'
  OBVIOUS
<1>m. Monotone /\ Quiet
  BY Forward, StepKinds
<1>h. /\ DOMAIN heap = 1 .. Len(heap) /\ \A w \in 1 .. Len(heap) : heap[w] \in Version
      /\ applied \subseteq Txns \X (1 .. Len(heap))
  BY DEF IInv, TypeOK
<1>x. /\ \A w \in 1 .. Len(heap) : heap[w].xmin \in Txns \cup {Sys} /\ heap[w].xmax \in Txns \cup {None}
      /\ \A p \in applied : p[1] \in Txns
  BY <1>h DEF Version
<1>1. CASE UNCHANGED <<heap, applied>>
  BY <1>m, <1>h, <1>x, <1>1 DEF IInv, Traces, Monotone, Unregistered
<1>2. ASSUME NEW t \in Txns, NEW v \in matched[t], Stamp(t, v) PROVE Traces'
  <2>1. /\ v \in 1 .. Len(heap) /\ pc[t] = "stamp" /\ applied' = applied \cup {<<t, v>>}
        /\ heap' = [heap EXCEPT ![v].xmax = t]
    BY <1>2 DEF Stamp, IInv, TypeOK
  <2>2. /\ heap' \in Seq(Version) /\ Len(heap') = Len(heap)
        /\ \A w \in 1 .. Len(heap) : /\ heap'[w].xmin = heap[w].xmin
                                     /\ heap'[w].xmax = IF w = v THEN t ELSE heap[w].xmax
    BY <2>1, StampFacts DEF IInv
  <2>3. DOMAIN heap' = 1 .. Len(heap)
    BY <2>2
  <2>4. pc'[t] \notin {"idle", "begin"}
    BY <1>2 DEF Stamp, IInv, TypeOK
  <2>5. \A p \in applied' : pc'[p[1]] \notin {"idle", "begin"}
    BY <1>m, <1>x, <2>1, <2>4 DEF IInv, Traces, Monotone, Unregistered
  <2>6. ASSUME NEW w \in 1 .. Len(heap)
        PROVE  /\ heap'[w].xmin # Sys => pc'[heap'[w].xmin] \notin {"idle", "begin"}
               /\ heap'[w].xmax # None => <<heap'[w].xmax, w>> \in applied'
    <3>1. heap'[w].xmin = heap[w].xmin /\ heap'[w].xmax = IF w = v THEN t ELSE heap[w].xmax
      BY <2>2
    <3>2. /\ heap[w].xmin # Sys => pc[heap[w].xmin] \notin {"idle", "begin"}
          /\ heap[w].xmax # None => <<heap[w].xmax, w>> \in applied
      BY <1>h DEF IInv, Traces, Unregistered
    <3> QED  BY <1>m, <1>x, <2>1, <3>1, <3>2 DEF Monotone
  <2> QED  BY <2>3, <2>5, <2>6 DEF Traces, Unregistered
<1>3. ASSUME NEW t \in Txns, NEW v \in matched[t], InsertVersion(t, v) PROVE Traces'
  <2>1. v \in 1 .. Len(heap) /\ heap[v] \in Version /\ applied' = applied
    BY <1>3 DEF InsertVersion, IInv, TypeOK
  <2> DEFINE n == [row |-> heap[v].row, xmin |-> t, xmax |-> None]
  <2>2. n \in Version /\ heap' = Append(heap, n) /\ n.xmin = t /\ n.xmax = None
    BY <1>3, <2>1 DEF InsertVersion, Version
  <2> HIDE DEF n
  <2>3. /\ heap' \in Seq(Version) /\ Len(heap') = Len(heap) + 1
        /\ \A w \in 1 .. Len(heap) : heap'[w] = heap[w]
        /\ heap'[Len(heap) + 1] = n
    BY <2>2, AppendFacts DEF IInv
  <2>4. \A w \in DOMAIN heap' : w \in 1 .. Len(heap) \/ w = Len(heap) + 1
    BY <2>3 DEF IInv, TypeOK
  <2>5. pc'[t] \notin {"idle", "begin"}
    BY <1>3 DEF InsertVersion, IInv, TypeOK
  <2> QED  BY <1>m, <1>h, <1>x, <2>1, <2>2, <2>3, <2>4, <2>5 DEF IInv, Traces, Monotone, Unregistered
<1> QED  BY <1>m, <1>1, <1>2, <1>3 DEF Quiet

\* The first matched version is one.
LEMMA FirstUnique ==
    ASSUME TypeOK, NEW t \in Txns, NEW v \in 1 .. Len(heap), NEW w \in 1 .. Len(heap),
           First(t, v), First(t, w)
    PROVE  v = w
  BY DEF First

\* A version is locked by one transaction, from before its recheck to after its stamp.
LEMMA LockedKept == IInv /\ [Next]_vars => Locked'
<1> USE RowUpdateAssumption
<1> SUFFICES ASSUME IInv, [Next]_vars PROVE Locked'
  OBVIOUS
<1> USE DEF IInv
<1>1. ASSUME NEW t \in Txns, NEW kind \in Kinds, NEW rows \in SUBSET Rows, Begin(t, kind, rows) PROVE Locked'
  BY <1>1 DEF Begin, scanVars, Locked, First, TypeOK, PCs
<1>2. ASSUME NEW t \in Txns, Register(t) PROVE Locked'
  BY <1>2 DEF Register, stmtVars, scanVars, Locked, First, TypeOK, PCs
<1>3. ASSUME NEW t \in Txns, TakeSnapshot(t) PROVE Locked'
  BY <1>3 DEF TakeSnapshot, txnVars, stmtVars, Locked, First, TypeOK, PCs
<1>4. ASSUME NEW t \in Txns, GiveUp(t) PROVE Locked'
  BY <1>4 DEF GiveUp, Fail, StartEnd, txnVars, stmtVars, scanVars, Locked, First, TypeOK, PCs
<1>5. ASSUME NEW t \in Txns, ScanVersion(t) PROVE Locked'
  BY <1>5 DEF ScanVersion, LookUp, txnVars, stmtVars, Locked, First, TypeOK, PCs
<1>6. ASSUME NEW t \in Txns, ScanEnd(t) PROVE Locked'
  BY <1>6 DEF ScanEnd, txnVars, stmtVars, scanVars, Locked, First, TypeOK, PCs
<1>7. ASSUME NEW t \in Txns, NEW v \in matched[t], LockVersion(t, v) PROVE Locked'
  <2>1. v \in 1 .. Len(heap) /\ DOMAIN heap = 1 .. Len(heap)
    BY DEF TypeOK
  <2>2. /\ pc' = [pc EXCEPT ![t] = "check"] /\ locks' = [locks EXCEPT ![t] = @ \cup {v}]
        /\ UNCHANGED <<heap, matched>> /\ First(t, v) /\ Free(t, v)
    BY <1>7 DEF LockVersion, scanVars
  <2>3. \A x, u \in Txns : x # u => locks'[x] \cap locks'[u] = {}
    BY <2>2 DEF Locked, Free, TypeOK
  <2>4. ASSUME NEW x \in Txns, NEW w \in DOMAIN heap, pc'[x] \in {"check", "stamp"}, First(x, w)
        PROVE  w \in locks'[x]
    <3>1. CASE x = t
      BY <2>1, <2>2, <2>4, <3>1, FirstUnique DEF TypeOK
    <3>2. CASE x # t
      BY <2>2, <2>4, <3>2 DEF Locked, TypeOK
    <3> QED  BY <3>1, <3>2
  <2> QED  BY <2>2, <2>3, <2>4 DEF Locked, First
<1>8. ASSUME NEW t \in Txns, NEW v \in matched[t], LockTimeout(t, v) PROVE Locked'
  BY <1>8 DEF LockTimeout, Fail, StartEnd, txnVars, stmtVars, scanVars, Locked, First, TypeOK, PCs
<1>9. ASSUME NEW t \in Txns, NEW v \in matched[t], Recheck(t, v) PROVE Locked'
  <2>1. UNCHANGED <<heap, matched, locks>> /\ pc[t] = "check"
    BY <1>9, RecheckCases
  <2>2. \A x \in Txns : pc'[x] \in {"check", "stamp"} => pc[x] \in {"check", "stamp"}
    BY <1>9, <2>1 DEF Recheck, RestartStmt, Fail, StartEnd, TypeOK
  <2> QED  BY <2>1, <2>2 DEF Locked, First
<1>10. ASSUME NEW t \in Txns, NEW v \in matched[t], Stamp(t, v) PROVE Locked'
  <2>1. v \in 1 .. Len(heap) /\ heap' = [heap EXCEPT ![v].xmax = t] /\ locks' = locks
    BY <1>10 DEF Stamp, TypeOK
  <2>2. heap' \in Seq(Version) /\ Len(heap') = Len(heap) /\ heap \in Seq(Version)
    BY <2>1, StampFacts DEF TypeOK
  <2>3. DOMAIN heap' = DOMAIN heap
    BY <2>2
  <2>4. /\ \A x \in Txns : pc'[x] \in {"check", "stamp"} => x # t /\ pc[x] \in {"check", "stamp"}
        /\ \A x \in Txns : x # t => matched'[x] = matched[x]
    BY <1>10 DEF Stamp, TypeOK
  <2> QED  BY <2>1, <2>3, <2>4 DEF Locked, First
<1>11. ASSUME NEW t \in Txns, NEW v \in matched[t], InsertVersion(t, v) PROVE Locked'
  <2>1. v \in 1 .. Len(heap) /\ heap[v] \in Version
    BY DEF TypeOK
  <2> DEFINE n == [row |-> heap[v].row, xmin |-> t, xmax |-> None]
  <2>2. n \in Version /\ heap' = Append(heap, n)
    BY <1>11, <2>1 DEF InsertVersion, Version
  <2> HIDE DEF n
  <2>3. Len(heap') = Len(heap) + 1 /\ heap' \in Seq(Version)
    BY <2>2, AppendFacts
  <2>4. /\ \A x \in Txns : pc'[x] \in {"check", "stamp"} => x # t /\ pc[x] \in {"check", "stamp"}
        /\ \A x \in Txns : x # t => matched'[x] = matched[x] /\ locks'[x] = locks[x]
        /\ locks'[t] = locks[t] \cup {Len(heap) + 1}
    BY <1>11 DEF InsertVersion, TypeOK
  <2>5. \A x \in Txns : Len(heap) + 1 \notin locks[x] /\ matched[x] \subseteq DOMAIN heap
    BY DEF TypeOK
  <2>6. \A x, u \in Txns : x # u => locks'[x] \cap locks'[u] = {}
    BY <2>4, <2>5 DEF Locked
  <2>7. \A x \in Txns, w \in DOMAIN heap' :
           pc'[x] \in {"check", "stamp"} /\ First(x, w)' => w \in locks'[x]
    BY <2>4, <2>5 DEF Locked, First
  <2> QED  BY <2>6, <2>7 DEF Locked
<1>12. ASSUME NEW t \in Txns, NEW out \in {"committed", "aborted"}, Finish(t, out) PROVE Locked'
  BY <1>12 DEF Finish, StartEnd, txnVars, stmtVars, scanVars, Locked, First, TypeOK, PCs
<1>13. ASSUME NEW t \in Txns, Unlock(t) PROVE Locked'
  BY <1>13 DEF Unlock, txnVars, stmtVars, scanVars, Locked, First, TypeOK, PCs
<1>14. ASSUME NEW t \in Txns, AttRemove(t) PROVE Locked'
  BY <1>14 DEF AttRemove, stmtVars, scanVars, Locked, First, TypeOK, PCs
<1>15. ASSUME NEW t \in Txns, Decide(t) PROVE Locked'
  BY <1>15 DEF Decide, stmtVars, scanVars, Locked, First, TypeOK, PCs
<1>16. CASE UNCHANGED vars
  BY <1>16 DEF vars, txnVars, stmtVars, scanVars, Locked, First, TypeOK, PCs
<1> QED
  BY <1>1, <1>2, <1>3, <1>4, <1>5, <1>6, <1>7, <1>8, <1>9, <1>10, <1>11, <1>12, <1>13, <1>14, <1>15,
     <1>16
  DEF Next, Statement, Ending, AllDone

\* Whom a lookup takes for aborted aborts, or is in misread from then on.
LEMMA LookUpAborts ==
    ASSUME IInv, NEW t \in Txns, NEW us \in SUBSET Txns, LookUp(t, us), Monotone,
           NEW u \in us, pc[u] \notin {"idle", "begin"}, Status(t, u) = "aborted"
    PROVE  verdict'[u] = "aborted" \/ (verdict'[u] = "committed" /\ <<t, u>> \in misread')
<1>1. u \in Txns /\ u # Sys /\ verdict[u] \in {"none", "committed", "aborted"}
  BY RowUpdateAssumption DEF IInv, TypeOK
<1>2. /\ misread \subseteq misread'
      /\ clog[u] = "none" => <<t, u>> \in misread'
  BY LookUpFacts DEF IInv
<1>3. CASE u \in memo[t]
  BY <1>1, <1>2, <1>3 DEF IInv, Believed, Aborts, Monotone
<1>4. CASE u \notin memo[t] /\ clog[u] # "none"
  <2>1. clog[u] = "aborted"
    BY <1>1, <1>4 DEF Status
  <2> QED  BY <1>1, <2>1 DEF IInv, Phases, Monotone
<1>5. CASE u \notin memo[t] /\ clog[u] = "none"
  <2>1. u \notin att
    BY <1>1, <1>5 DEF Status
  <2>2. verdict[u] # "none"
    BY <1>1, <2>1 DEF IInv, Phases, Unregistered
  <2> QED  BY <1>1, <1>2, <1>5, <2>2 DEF Monotone
<1> QED  BY <1>3, <1>4, <1>5

\* What a thread remembers stays true when it does not look up.
LEMMA MemoFrame ==
    ASSUME IInv, Monotone, memo' = memo
    PROVE  \A t \in Txns : \A u \in memo'[t] : Aborts(t, u)'
<1>1. \A t \in Txns : memo[t] \subseteq Txns
  BY DEF IInv, TypeOK
<1> QED  BY <1>1 DEF IInv, Believed, Aborts, Monotone

\* A lookup remembers only what is true or is misread.
LEMMA MemoLookUp ==
    ASSUME IInv, Monotone, NEW t \in Txns, NEW us \in SUBSET Txns, LookUp(t, us),
           \A u \in us : pc[u] \notin {"idle", "begin"}
    PROVE  \A x \in Txns : \A u \in memo'[x] : Aborts(x, u)'
<1> SUFFICES ASSUME NEW x \in Txns, NEW u \in memo'[x] PROVE Aborts(x, u)'
  OBVIOUS
<1>1. /\ x # t => memo'[x] = memo[x]
      /\ x = t => u \in memo[x] \/ (u \in us /\ Status(t, u) = "aborted")
  BY LookUpFacts DEF IInv
<1>2. CASE u \in memo[x]
  <2>1. u \in Txns /\ Aborts(x, u)
    BY <1>2 DEF IInv, TypeOK, Believed
  <2> QED  BY <2>1 DEF Aborts, Monotone
<1>3. CASE x = t /\ u \in us /\ Status(t, u) = "aborted"
  BY <1>3, LookUpAborts DEF Aborts
<1> QED  BY <1>1, <1>2, <1>3

\* Two threads about to stamp are about to stamp different versions.
LEMMA StampsApart ==
    ASSUME IInv, NEW t \in Txns, NEW u \in Txns, t # u, NEW v \in DOMAIN heap,
           pc[t] = "stamp", pc[u] \in {"check", "stamp"}, First(t, v)
    PROVE  ~First(u, v)
  BY DEF IInv, Locked

\* A thread that is about to stamp still takes the version's deleter for aborted.
LEMMA StampFrame ==
    ASSUME IInv, Monotone, UNCHANGED heap,
           \A x \in Txns : pc'[x] = "stamp" => pc[x] = "stamp" /\ matched'[x] = matched[x]
    PROVE  \A x \in Txns, w \in DOMAIN heap' :
              pc'[x] = "stamp" /\ First(x, w)' /\ heap'[w].xmax \notin {None, x} =>
                 Aborts(x, heap[w].xmax)'
<1> SUFFICES ASSUME NEW x \in Txns, NEW w \in DOMAIN heap, pc[x] = "stamp", First(x, w),
                    heap[w].xmax \notin {None, x}
             PROVE  \/ verdict'[heap[w].xmax] = "aborted"
                    \/ verdict'[heap[w].xmax] = "committed" /\ <<x, heap[w].xmax>> \in misread'
  BY DEF Aborts, First
<1>1. heap[w] \in Version
  BY DEF IInv, TypeOK
<1>2. heap[w].xmax \in Txns
  BY <1>1 DEF Version
<1>3. Aborts(x, heap[w].xmax)
  BY DEF IInv, Believed
<1> QED  BY <1>2, <1>3 DEF Aborts, Monotone

\* What a thread believes of the deleter it found stays true up to its stamp, since nobody else
\* stamps the version meanwhile.
LEMMA BelievedKept == IInv /\ [Next]_vars => Believed'
<1> USE RowUpdateAssumption
<1> SUFFICES ASSUME IInv, [Next]_vars PROVE Believed'
  OBVIOUS
<1> USE DEF IInv
<1>m. Monotone
  BY Forward
<1>1. ASSUME NEW t \in Txns, NEW kind \in Kinds, NEW rows \in SUBSET Rows, Begin(t, kind, rows) PROVE Believed'
  <2>1. UNCHANGED heap /\ memo' = memo
    BY <1>1 DEF Begin, scanVars
  <2>2. \A x \in Txns : pc'[x] = "stamp" => pc[x] = "stamp" /\ matched'[x] = matched[x]
    BY <1>1 DEF Begin, scanVars, TypeOK
  <2> QED  BY <1>m, <2>1, <2>2, MemoFrame, StampFrame DEF Believed
<1>2. ASSUME NEW t \in Txns, Register(t) PROVE Believed'
  <2>1. UNCHANGED heap /\ memo' = memo
    BY <1>2 DEF Register, stmtVars, scanVars
  <2>2. \A x \in Txns : pc'[x] = "stamp" => pc[x] = "stamp" /\ matched'[x] = matched[x]
    BY <1>2 DEF Register, stmtVars, scanVars, TypeOK
  <2> QED  BY <1>m, <2>1, <2>2, MemoFrame, StampFrame DEF Believed
<1>3. ASSUME NEW t \in Txns, TakeSnapshot(t) PROVE Believed'
  <2>1. UNCHANGED heap /\ memo' = memo
    BY <1>3 DEF TakeSnapshot, txnVars, stmtVars
  <2>2. \A x \in Txns : pc'[x] = "stamp" => pc[x] = "stamp" /\ matched'[x] = matched[x]
    BY <1>3 DEF TakeSnapshot, txnVars, stmtVars, TypeOK
  <2> QED  BY <1>m, <2>1, <2>2, MemoFrame, StampFrame DEF Believed
<1>4. ASSUME NEW t \in Txns, GiveUp(t) PROVE Believed'
  <2>1. UNCHANGED heap /\ memo' = memo
    BY <1>4 DEF GiveUp, Fail, StartEnd, txnVars, stmtVars, scanVars
  <2>2. \A x \in Txns : pc'[x] = "stamp" => pc[x] = "stamp" /\ matched'[x] = matched[x]
    BY <1>4 DEF GiveUp, Fail, StartEnd, txnVars, stmtVars, scanVars, TypeOK
  <2> QED  BY <1>m, <2>1, <2>2, MemoFrame, StampFrame DEF Believed
<1>5. ASSUME NEW t \in Txns, ScanVersion(t) PROVE Believed'
  <2>1. pos[t] \in 1 .. Len(heap) /\ heap[pos[t]] \in Version /\ pos[t] \in DOMAIN heap
    BY <1>5 DEF ScanVersion, TypeOK
  <2>2. Asked(t, pos[t]) \in SUBSET Txns /\ LookUp(t, Asked(t, pos[t]))
    BY <1>5, AskedFacts DEF ScanVersion
  <2>3. \A u \in Asked(t, pos[t]) : pc[u] \notin {"idle", "begin"}
    <3> SUFFICES ASSUME NEW u \in Asked(t, pos[t]) PROVE pc[u] \notin {"idle", "begin"}
      OBVIOUS
    <3>1. u \in Txns /\ u \notin {Sys, None}
      BY <2>2
    <3>2. CASE u = heap[pos[t]].xmin
      BY <2>1, <3>1, <3>2 DEF Traces, Unregistered
    <3>3. CASE u = heap[pos[t]].xmax
      <4>1. <<u, pos[t]>> \in applied
        BY <2>1, <3>1, <3>3 DEF Traces
      <4> QED  BY <4>1 DEF Traces, Unregistered
    <3> QED  BY <3>2, <3>3, AskedFacts
  <2>4. UNCHANGED heap
    BY <1>5 DEF ScanVersion
  <2>5. \A x \in Txns : pc'[x] = "stamp" => pc[x] = "stamp" /\ matched'[x] = matched[x]
    BY <1>5 DEF ScanVersion, TypeOK
  <2> QED  BY <1>m, <2>2, <2>3, <2>4, <2>5, MemoLookUp, StampFrame DEF Believed
<1>6. ASSUME NEW t \in Txns, ScanEnd(t) PROVE Believed'
  <2>1. UNCHANGED heap /\ memo' = memo
    BY <1>6 DEF ScanEnd, txnVars, stmtVars, scanVars
  <2>2. \A x \in Txns : pc'[x] = "stamp" => pc[x] = "stamp" /\ matched'[x] = matched[x]
    BY <1>6 DEF ScanEnd, txnVars, stmtVars, scanVars, TypeOK
  <2> QED  BY <1>m, <2>1, <2>2, MemoFrame, StampFrame DEF Believed
<1>7. ASSUME NEW t \in Txns, NEW v \in matched[t], LockVersion(t, v) PROVE Believed'
  <2>1. UNCHANGED heap /\ memo' = memo
    BY <1>7 DEF LockVersion, txnVars, stmtVars, scanVars
  <2>2. \A x \in Txns : pc'[x] = "stamp" => pc[x] = "stamp" /\ matched'[x] = matched[x]
    BY <1>7 DEF LockVersion, txnVars, stmtVars, scanVars, TypeOK
  <2> QED  BY <1>m, <2>1, <2>2, MemoFrame, StampFrame DEF Believed
<1>8. ASSUME NEW t \in Txns, NEW v \in matched[t], LockTimeout(t, v) PROVE Believed'
  <2>1. UNCHANGED heap /\ memo' = memo
    BY <1>8 DEF LockTimeout, Fail, StartEnd, txnVars, stmtVars, scanVars
  <2>2. \A x \in Txns : pc'[x] = "stamp" => pc[x] = "stamp" /\ matched'[x] = matched[x]
    BY <1>8 DEF LockTimeout, Fail, StartEnd, txnVars, stmtVars, scanVars, TypeOK
  <2> QED  BY <1>m, <2>1, <2>2, MemoFrame, StampFrame DEF Believed
<1>9. ASSUME NEW t \in Txns, NEW v \in matched[t], Recheck(t, v) PROVE Believed'
  <2> DEFINE d == heap[v].xmax
             us == {d} \ {None, t}
  <2>1. /\ v \in 1 .. Len(heap) /\ v \in DOMAIN heap /\ d \in Txns \cup {None}
        /\ pc[t] = "check" /\ First(t, v) /\ us \in SUBSET Txns /\ LookUp(t, us)
        /\ UNCHANGED <<heap, matched>>
    <3>1. TypeOK /\ v \in matched[t] /\ Recheck(t, v)
      BY <1>9
    <3>2. DOMAIN heap = 1 .. Len(heap)
      BY DEF TypeOK
    <3> QED  BY <3>1, <3>2, RecheckCases
  <2>2. \A u \in us : pc[u] \notin {"idle", "begin"}
    <3> SUFFICES ASSUME d \in us PROVE pc[d] \notin {"idle", "begin"}
      OBVIOUS
    <3>1. <<d, v>> \in applied
      BY <2>1 DEF Traces
    <3> QED  BY <3>1 DEF Traces, Unregistered
  <2>3. \A x \in Txns : \A u \in memo'[x] : Aborts(x, u)'
    <3> HIDE DEF us
    <3> QED  BY <1>m, <2>1, <2>2, MemoLookUp
  <2>4. ASSUME NEW x \in Txns, NEW w \in DOMAIN heap', pc'[x] = "stamp", First(x, w)',
               heap'[w].xmax \notin {None, x}
        PROVE  Aborts(x, heap[w].xmax)'
    <3>1. w \in DOMAIN heap /\ First(x, w) /\ heap[w].xmax \notin {None, x} /\ heap[w] \in Version
      BY <2>1, <2>4 DEF First, TypeOK
    <3>2. heap[w].xmax \in Txns
      BY <3>1 DEF Version
    <3>3. CASE x # t
      <4>1. pc[x] = "stamp"
        BY <1>9, <2>4, <3>3 DEF Recheck, RestartStmt, Fail, StartEnd, TypeOK
      <4>2. Aborts(x, heap[w].xmax)
        BY <3>1, <4>1 DEF Believed
      <4> QED  BY <1>m, <2>1, <3>2, <4>2 DEF Aborts, Monotone
    <3>4. CASE x = t
      <4>1. w = v
        <5>1. TypeOK
          OBVIOUS
        <5>2. w \in 1 .. Len(heap)
          BY <3>1 DEF TypeOK
        <5> QED  BY <2>1, <3>1, <3>4, <5>1, <5>2, FirstUnique
      <4>2. d \in us /\ Status(t, d) = "aborted"
        <5>1. d \notin {None, t}
          BY <3>1, <3>4, <4>1
        <5>2. pc'[t] = "stamp"
          BY <2>4, <3>4
        <5>3. d \notin {None, t} => Status(t, d) = "aborted"
          <6>1. pc'[t] # "stamp" \/ (d \notin {None, t} => Status(t, d) = "aborted")
            <7>1. TypeOK /\ v \in matched[t] /\ Recheck(t, v)
              BY <1>9
            <7>2. \/ pc' = [pc EXCEPT ![t] = "snapshot"]
                  \/ StartEnd(t, "aborted")
                  \/ d \notin {None, t} => Status(t, d) = "aborted"
              BY <7>1, RecheckCases
            <7> HIDE DEF d
            <7> QED  BY <7>2 DEF StartEnd, TypeOK
          <6> QED  BY <5>2, <6>1
        <5> QED  BY <5>1, <5>3
      <4>3. verdict'[d] = "aborted" \/ (verdict'[d] = "committed" /\ <<t, d>> \in misread')
        <5> HIDE DEF us, d
        <5> QED  BY <1>m, <2>1, <2>2, <4>2, LookUpAborts
      <4> QED  BY <2>1, <3>4, <4>1, <4>3 DEF Aborts
    <3> QED  BY <3>3, <3>4
  <2> QED  BY <2>3, <2>4 DEF Believed
<1>10. ASSUME NEW t \in Txns, NEW v \in matched[t], Stamp(t, v) PROVE Believed'
  <2>1. /\ v \in 1 .. Len(heap) /\ heap' = [heap EXCEPT ![v].xmax = t] /\ memo' = memo
        /\ pc[t] = "stamp" /\ First(t, v) /\ heap \in Seq(Version)
    BY <1>10 DEF Stamp, TypeOK
  <2>2. /\ heap' \in Seq(Version) /\ Len(heap') = Len(heap)
        /\ \A w \in 1 .. Len(heap) : heap'[w].xmax = IF w = v THEN t ELSE heap[w].xmax
    <3>1. TypeOK /\ t \in Txns /\ v \in 1 .. Len(heap) /\ heap' = [heap EXCEPT ![v].xmax = t]
      BY <2>1
    <3>2. /\ heap' \in Seq(Version) /\ Len(heap') = Len(heap)
          /\ \A w \in 1 .. Len(heap) :
                /\ heap'[w].row = heap[w].row /\ heap'[w].xmin = heap[w].xmin
                /\ heap'[w].xmax = IF w = v THEN t ELSE heap[w].xmax
      <4> HIDE DEF IInv
      <4> QED  BY <3>1, StampFacts
    <3> QED  BY <3>2
  <2>3. DOMAIN heap' = 1 .. Len(heap) /\ DOMAIN heap = 1 .. Len(heap)
    BY <2>1, <2>2
  <2>4. ASSUME NEW x \in Txns, NEW w \in DOMAIN heap', pc'[x] = "stamp", First(x, w)',
               heap'[w].xmax \notin {None, x}
        PROVE  Aborts(x, heap[w].xmax)'
    <3>1. x # t /\ pc[x] = "stamp" /\ matched'[x] = matched[x]
      BY <1>10, <2>4 DEF Stamp, TypeOK
    <3>2. First(x, w)
      BY <2>4, <3>1 DEF First
    <3>3. w # v
      BY <2>1, <2>3, <3>1, <3>2, StampsApart
    <3>4. w \in DOMAIN heap /\ heap'[w].xmax = heap[w].xmax /\ heap[w] \in Version
      BY <2>1, <2>2, <2>3, <3>3
    <3>5. heap[w].xmax \in Txns
      BY <2>4, <3>4 DEF Version
    <3>6. Aborts(x, heap[w].xmax)
      BY <2>4, <3>1, <3>2, <3>4 DEF Believed
    <3> QED  BY <1>m, <3>4, <3>5, <3>6 DEF Aborts, Monotone
  <2> QED  BY <1>m, <2>1, <2>4, MemoFrame DEF Believed
<1>11. ASSUME NEW t \in Txns, NEW v \in matched[t], InsertVersion(t, v) PROVE Believed'
  <2>1. v \in 1 .. Len(heap) /\ heap[v] \in Version /\ memo' = memo
    BY <1>11 DEF InsertVersion, TypeOK
  <2> DEFINE n == [row |-> heap[v].row, xmin |-> t, xmax |-> None]
  <2>2. n \in Version /\ heap' = Append(heap, n)
    BY <1>11, <2>1 DEF InsertVersion, Version
  <2> HIDE DEF n
  <2>3. \A w \in 1 .. Len(heap) : heap'[w] = heap[w]
    BY <2>2, AppendFacts
  <2>4. ASSUME NEW x \in Txns, NEW w \in DOMAIN heap', pc'[x] = "stamp", First(x, w)',
               heap'[w].xmax \notin {None, x}
        PROVE  Aborts(x, heap[w].xmax)'
    <3>1. x # t /\ pc[x] = "stamp" /\ matched'[x] = matched[x]
      BY <1>11, <2>4 DEF InsertVersion, TypeOK
    <3>2. First(x, w) /\ w \in 1 .. Len(heap) /\ w \in DOMAIN heap
      BY <2>4, <3>1 DEF First, TypeOK
    <3>3. heap'[w] = heap[w] /\ heap[w] \in Version
      BY <2>3, <3>2 DEF TypeOK
    <3>4. heap[w].xmax \in Txns
      BY <2>4, <3>3 DEF Version
    <3>5. Aborts(x, heap[w].xmax)
      BY <2>4, <3>1, <3>2, <3>3 DEF Believed
    <3> QED  BY <1>m, <3>3, <3>4, <3>5 DEF Aborts, Monotone
  <2> QED  BY <1>m, <2>1, <2>4, MemoFrame DEF Believed
<1>12. ASSUME NEW t \in Txns, NEW out \in {"committed", "aborted"}, Finish(t, out) PROVE Believed'
  <2>1. UNCHANGED heap /\ memo' = memo
    BY <1>12 DEF Finish, StartEnd, txnVars, stmtVars, scanVars
  <2>2. \A x \in Txns : pc'[x] = "stamp" => pc[x] = "stamp" /\ matched'[x] = matched[x]
    BY <1>12 DEF Finish, StartEnd, txnVars, stmtVars, scanVars, TypeOK
  <2> QED  BY <1>m, <2>1, <2>2, MemoFrame, StampFrame DEF Believed
<1>13. ASSUME NEW t \in Txns, Unlock(t) PROVE Believed'
  <2>1. UNCHANGED heap /\ memo' = memo
    BY <1>13 DEF Unlock, txnVars, stmtVars, scanVars
  <2>2. \A x \in Txns : pc'[x] = "stamp" => pc[x] = "stamp" /\ matched'[x] = matched[x]
    BY <1>13 DEF Unlock, txnVars, stmtVars, scanVars, TypeOK
  <2> QED  BY <1>m, <2>1, <2>2, MemoFrame, StampFrame DEF Believed
<1>14. ASSUME NEW t \in Txns, AttRemove(t) PROVE Believed'
  <2>1. UNCHANGED heap /\ memo' = memo
    BY <1>14 DEF AttRemove, stmtVars, scanVars
  <2>2. \A x \in Txns : pc'[x] = "stamp" => pc[x] = "stamp" /\ matched'[x] = matched[x]
    BY <1>14 DEF AttRemove, stmtVars, scanVars, TypeOK
  <2> QED  BY <1>m, <2>1, <2>2, MemoFrame, StampFrame DEF Believed
<1>15. ASSUME NEW t \in Txns, Decide(t) PROVE Believed'
  <2>1. UNCHANGED heap /\ memo' = memo
    BY <1>15 DEF Decide, stmtVars, scanVars
  <2>2. \A x \in Txns : pc'[x] = "stamp" => pc[x] = "stamp" /\ matched'[x] = matched[x]
    BY <1>15 DEF Decide, stmtVars, scanVars, TypeOK
  <2> QED  BY <1>m, <2>1, <2>2, MemoFrame, StampFrame DEF Believed
<1>16. CASE UNCHANGED vars
  <2>1. UNCHANGED heap /\ memo' = memo
    BY <1>16 DEF vars, txnVars, stmtVars, scanVars
  <2>2. \A x \in Txns : pc'[x] = "stamp" => pc[x] = "stamp" /\ matched'[x] = matched[x]
    BY <1>16 DEF vars, txnVars, stmtVars, scanVars, TypeOK
  <2> QED  BY <1>m, <2>1, <2>2, MemoFrame, StampFrame DEF Believed
<1> QED
  BY <1>1, <1>2, <1>3, <1>4, <1>5, <1>6, <1>7, <1>8, <1>9, <1>10, <1>11, <1>12, <1>13, <1>14, <1>15,
     <1>16
  DEF Next, Statement, Ending, AllDone

\* A writer that is overwritten aborts, or was misread by the one that overwrote it.
LEMMA OverwrittenKept == IInv /\ [Next]_vars => Overwritten'
<1> SUFFICES ASSUME IInv, [Next]_vars PROVE Overwritten'
  OBVIOUS
<1>m. Monotone /\ Quiet
  BY Forward, StepKinds
<1>h. /\ heap \in Seq(Version) /\ DOMAIN heap = 1 .. Len(heap)
      /\ applied \subseteq Txns \X (1 .. Len(heap)) /\ misread \subseteq Txns \X Txns
  BY DEF IInv, TypeOK
<1>j. \A w \in DOMAIN heap : Misjudged(w) => Misjudged(w)'
  BY <1>m, <1>h DEF Misjudged, Monotone
<1>o. ASSUME NEW x \in Txns, NEW w \in DOMAIN heap, <<x, w>> \in applied, x # heap[w].xmax
      PROVE  verdict'[x] = "aborted" \/ Misjudged(w)'
  BY <1>m, <1>j, <1>o DEF IInv, Overwritten, Monotone
<1>1. CASE UNCHANGED <<heap, applied>>
  BY <1>o, <1>1 DEF Overwritten
<1>2. ASSUME NEW t \in Txns, NEW v \in matched[t], Stamp(t, v) PROVE Overwritten'
  <2>1. /\ v \in 1 .. Len(heap) /\ applied' = applied \cup {<<t, v>>} /\ pc[t] = "stamp"
        /\ heap' = [heap EXCEPT ![v].xmax = t] /\ First(t, v)
    BY <1>2 DEF Stamp, IInv, TypeOK
  <2>2. /\ heap' \in Seq(Version) /\ Len(heap') = Len(heap)
        /\ \A w \in 1 .. Len(heap) : heap'[w].xmax = IF w = v THEN t ELSE heap[w].xmax
    BY <2>1, StampFacts DEF IInv
  <2>3. DOMAIN heap' = 1 .. Len(heap)
    BY <2>2
  <2> SUFFICES ASSUME NEW w \in 1 .. Len(heap), NEW x \in Txns, <<x, w>> \in applied',
                      x # heap'[w].xmax
               PROVE  verdict'[x] = "aborted" \/ Misjudged(w)'
    BY <2>3 DEF Overwritten
  <2>4. CASE <<x, w>> \in applied /\ x # heap[w].xmax
    BY <1>h, <1>o, <2>4
  <2>5. CASE w = v /\ x = heap[v].xmax /\ x # t
    <3>1. <<x, v>> \in applied /\ x # None
      BY <1>h, <2>1, <2>5, RowUpdateAssumption DEF IInv, Traces
    <3>2. Aborts(t, x)
      BY <1>h, <2>1, <2>5, <3>1 DEF IInv, Believed
    <3>3. CASE verdict[x] = "aborted"
      BY <1>m, <3>3 DEF Monotone
    <3>4. CASE verdict[x] = "committed" /\ <<t, x>> \in misread
      <4>1. /\ <<t, x>> \in misread' /\ verdict'[x] = "committed"
            /\ <<t, v>> \in applied' /\ <<x, v>> \in applied'
        BY <1>m, <2>1, <3>1, <3>4 DEF Monotone
      <4>2. Misjudged(v)'
        <5> DEFINE p == <<t, x>>
        <5>1. p \in misread' /\ p[1] = t /\ p[2] = x
          BY <4>1
        <5> HIDE DEF p
        <5> QED  BY <4>1, <5>1 DEF Misjudged
      <4> QED  BY <2>5, <4>2
    <3> QED  BY <3>2, <3>3, <3>4 DEF Aborts
  <2>6. w # v => <<x, w>> \in applied /\ x # heap[w].xmax
    BY <2>1, <2>2
  <2>7. w = v => x # t /\ <<x, w>> \in applied
    BY <2>1, <2>2
  <2> QED  BY <2>4, <2>5, <2>6, <2>7
<1>3. ASSUME NEW t \in Txns, NEW v \in matched[t], InsertVersion(t, v) PROVE Overwritten'
  <2>1. v \in 1 .. Len(heap) /\ heap[v] \in Version /\ applied' = applied
    BY <1>3 DEF InsertVersion, IInv, TypeOK
  <2> DEFINE n == [row |-> heap[v].row, xmin |-> t, xmax |-> None]
  <2>2. n \in Version /\ heap' = Append(heap, n)
    BY <1>3, <2>1 DEF InsertVersion, Version
  <2> HIDE DEF n
  <2>3. \A w \in 1 .. Len(heap) : heap'[w] = heap[w]
    BY <2>2, AppendFacts DEF IInv
  <2> QED  BY <1>h, <1>o, <2>1, <2>3 DEF Overwritten
<1> QED  BY <1>m, <1>1, <1>2, <1>3 DEF Quiet

-----------------------------------------------------------------------------
(* Theorems *)

\* The invariant holds in every state.
THEOREM Invariance == Spec => []IInv
<1>1. Init => IInv
  <2> SUFFICES ASSUME Init PROVE IInv
    OBVIOUS
  <2> DEFINE n == Cardinality(Rows)
  <2>1. n \in Nat
    BY RowUpdateAssumption, FS_CardinalityType
  <2> HIDE DEF n
  <2>2. heap \in [1 .. n -> [row : Rows, xmin : {Sys}, xmax : {None}]]
    BY DEF Init, n
  <2>3. heap \in Seq(Version) /\ DOMAIN heap = 1 .. n /\ Len(heap) = n
    <3>1. DOMAIN heap = 1 .. n /\ \A v \in 1 .. n : heap[v] \in Version
      BY <2>2 DEF Version
    <3>2. heap \in [1 .. n -> Version]
      BY <2>2, <3>1
    <3> QED  BY <2>1, <3>2
  <2>4. \A v \in DOMAIN heap : heap[v].xmin = Sys /\ heap[v].xmax = None
    BY <2>2, <2>3
  <2>5. TypeOK
    BY <2>3, RowUpdateAssumption DEF Init, TypeOK, PCs
  <2>6. Phases /\ Traces /\ Locked /\ Believed /\ Overwritten
    <3>1. Phases
      BY DEF Init, Phases, Over, Unregistered
    <3>2. Traces
      BY <2>4 DEF Init, Traces
    <3>3. Locked
      BY DEF Init, Locked
    <3>4. Believed
      BY DEF Init, Believed
    <3>5. Overwritten
      BY DEF Init, Overwritten
    <3> QED  BY <3>1, <3>2, <3>3, <3>4, <3>5
  <2> QED  BY <2>5, <2>6 DEF IInv
<1>2. IInv /\ [Next]_vars => IInv'
  BY TypeOKKept, PhasesKept, TracesKept, LockedKept, BelievedKept, OverwrittenKept DEF IInv
<1> QED  BY <1>1, <1>2, PTL DEF Spec

\* Every variable keeps its type.
THEOREM TypeCorrect == Spec => []TypeOK
<1>1. IInv => TypeOK
  BY DEF IInv
<1> QED  BY <1>1, Invariance, PTL

\* perform_update and perform_delete: two transactions that change the same version of a row do
\* not both commit, unless a writer of the version took an earlier one for aborted while it was
\* committing.
THEOREM NoLostUpdates == Spec => []LostOnlyByMisreading
<1>1. IInv => LostOnlyByMisreading
  <2> SUFFICES ASSUME IInv, NEW t \in Txns, NEW u \in Txns, NEW v \in DOMAIN heap,
                      t # u, {<<t, v>>, <<u, v>>} \subseteq applied, Committed(t), Committed(u)
               PROVE  Misjudged(v)
    BY DEF LostOnlyByMisreading, Misjudged
  <2>1. verdict[t] = "committed" /\ verdict[u] = "committed"
    BY RowUpdateAssumption DEF Committed, IInv, Phases
  <2> QED  BY <2>1 DEF IInv, Overwritten
<1> QED  BY <1>1, Invariance, PTL

-----------------------------------------------------------------------------
(* Rows and their versions *)

\* No transaction that commits, or still may, has been taken for aborted.
Sound == \A p \in misread : verdict[p[2]] = "aborted"
\* Whoever was taken for aborted too early had already begun to end.
Judged == \A p \in misread : verdict[p[2]] # "none"

\* Every row has its first version.
Roots == \A r \in Rows : \E v \in DOMAIN heap : heap[v].row = r /\ heap[v].xmin = Sys

\* Between the stamp on version v and the insertion of its successor.
Moving(t, v) == pc[t] = "insert" /\ First(t, v)

\* An UPDATE has a newer version for each version it has stamped, but for the one it is moving.
Replaced ==
    \A t \in Txns, v \in DOMAIN heap :
        <<t, v>> \in applied /\ op[t] = "update" /\ ~Moving(t, v) =>
            \E w \in DOMAIN heap : w > v /\ heap[w].row = heap[v].row /\ heap[w].xmin = t

\* The version being moved is stamped, by an UPDATE.
Inserting ==
    \A t \in Txns, v \in DOMAIN heap :
        Moving(t, v) => <<t, v>> \in applied /\ op[t] = "update" /\ heap[v].xmax = t

\* Where a row of the scope can be: changed, deleted for good, found, or ahead of the scan.
Done(t, r) == \E v \in DOMAIN heap : <<t, v>> \in applied /\ heap[v].row = r
Gone(r) == \E u \in Txns, v \in DOMAIN heap :
              /\ <<u, v>> \in applied /\ heap[v].row = r
              /\ op[u] = "delete" /\ clog[u] = "committed"
Working(t) == pc[t] \in {"scan", "next", "check", "stamp", "insert"}
Found(t, r) == Working(t) /\ \E v \in matched[t] : heap[v].row = r
Known(t, u) == u = Sys \/ (MustAsk(t, u) /\ clog[u] = "committed")
Ahead(t, r) == pc[t] = "scan" /\ \E v \in DOMAIN heap : /\ v >= pos[t] /\ heap[v].row = r
                                                        /\ Known(t, heap[v].xmin)
Cover(t, r) == Done(t, r) \/ Gone(r) \/ Found(t, r) \/ Ahead(t, r)
Covered ==
    Sound => \A t \in Txns : Working(t) \/ verdict[t] = "committed" =>
                                \A r \in scope[t] : Cover(t, r)

\* What a statement has found was committed, or is its own.
FoundCommitted ==
    \A t \in Txns : \A v \in matched[t] :
        /\ heap[v].xmin = t \/ Committed(heap[v].xmin)
        /\ heap[v].xmax = t => Moving(t, v)

\* Only its creator changes a version that is not committed.
Private ==
    \A v \in DOMAIN heap : heap[v].xmax \notin {None, heap[v].xmin} => Committed(heap[v].xmin)

\* A transaction that may still commit, and its last version of a row.
Undecided(t) == verdict[t] # "aborted" /\ clog[t] # "committed"
Tip(t, r, v) == heap[v].row = r /\ heap[v].xmin = t /\ heap[v].xmax # t
\* t is moving a version of row r.
MovingIn(t, r) == \E m \in DOMAIN heap : heap[m].row = r /\ Moving(t, m)

\* Only an UPDATE creates versions.
Updates == \A v \in DOMAIN heap : heap[v].xmin # Sys => op[heap[v].xmin] = "update"

\* A row has one live version, or a DELETE of it has committed.
One(r) == (Live(r) = {} /\ Gone(r)) \/ \E v \in DOMAIN heap : Live(r) = {v}
\* Whoever has changed a row and may still commit is the deleter of the live version ...
Anchored ==
    \A t \in Txns, r \in Rows : \A w \in DOMAIN heap :
        Undecided(t) /\ heap[w].row = r /\ t \in {heap[w].xmin, heap[w].xmax} =>
            \E v \in Live(r) : heap[v].xmax = t
\* ... and has at most one version to put in its place, ...
OneTip ==
    \A t \in Txns, r \in Rows : \A v, w \in DOMAIN heap : Tip(t, r, v) /\ Tip(t, r, w) => v = w
\* ... an UPDATE exactly one, ...
HasTip ==
    \A t \in Txns, r \in Rows : \A v \in DOMAIN heap :
        Undecided(t) /\ op[t] = "update" /\ heap[v].row = r /\ heap[v].xmax = t /\ ~MovingIn(t, r) =>
            \E w \in DOMAIN heap : Tip(t, r, w)
\* ... but for the row it is moving.
NoTip ==
    \A t \in Txns, r \in Rows : MovingIn(t, r) => \A w \in DOMAIN heap : ~Tip(t, r, w)
Solid == (\A r \in Rows : One(r)) /\ Anchored /\ OneTip /\ HasTip /\ NoTip

-----------------------------------------------------------------------------
(* What a step does to the statements *)

\* All of x's statement stays as it is.
Rest(x) ==
    /\ pc'[x] = pc[x] /\ matched'[x] = matched[x] /\ scope'[x] = scope[x] /\ pos'[x] = pos[x]
    /\ snap'[x] = snap[x] /\ verdict'[x] = verdict[x] /\ op'[x] = op[x]
Others(t) == \A x \in Txns : x # t => Rest(x)
Still == UNCHANGED <<heap, applied, clog>>

\* The statement begins, restarts or fails ...
Leaves(t) ==
    /\ Still /\ pc[t] # "insert" /\ matched'[t] = matched[t] /\ (op'[t] = op[t] \/ Unregistered(t))
    /\ pc'[t] \in {"begin", "snapshot", "unlock", "remove"} /\ verdict'[t] # "committed"
\* ... goes on with a row it has found, or with the first one after the scan ...
Proceeds(t) ==
    /\ Still /\ pc[t] \in {"scan", "next", "check"} /\ pc'[t] \in {"next", "check", "stamp"}
    /\ pc[t] = "scan" => pos[t] > Len(heap)
    /\ matched'[t] = matched[t] /\ scope'[t] = scope[t] /\ op'[t] = op[t] /\ verdict'[t] = verdict[t]
\* ... has changed the last one and ends ...
Succeeds(t) ==
    /\ Still /\ pc[t] = "next" /\ matched[t] = {} /\ Over(t)'
    /\ matched'[t] = matched[t] /\ scope'[t] = scope[t] /\ op'[t] = op[t]
\* ... or its transaction ends.
Concludes(t) ==
    /\ Still /\ Over(t) /\ Over(t)'
    /\ matched'[t] = matched[t] /\ scope'[t] = scope[t] /\ op'[t] = op[t] /\ verdict'[t] = verdict[t]

\* The steps that leave the heap alone, and all of them.
Calm(t) ==
    \/ Leaves(t) \/ TakeSnapshot(t) \/ ScanVersion(t) \/ Proceeds(t) \/ Succeeds(t)
    \/ Concludes(t) \/ Decide(t)
Move(t) ==
    \/ Calm(t)
    \/ \E v \in matched[t] : Stamp(t, v) \/ InsertVersion(t, v)

\* Every step is a move of one transaction, which leaves the other statements alone.
LEMMA Moves == IInv /\ [Next]_vars => UNCHANGED vars \/ \E t \in Txns : Others(t) /\ Move(t)
<1> USE RowUpdateAssumption
<1> SUFFICES ASSUME IInv, [Next]_vars, ~UNCHANGED vars PROVE \E t \in Txns : Others(t) /\ Move(t)
  OBVIOUS
<1> USE DEF IInv
<1>1. ASSUME NEW t \in Txns, NEW kind \in Kinds, NEW rows \in SUBSET Rows, Begin(t, kind, rows)
      PROVE  Others(t) /\ Leaves(t)
  BY <1>1 DEF Begin, scanVars, Others, Rest, Leaves, Still, Unregistered, Phases, Over, TypeOK
<1>2. ASSUME NEW t \in Txns, Register(t) PROVE Others(t) /\ Leaves(t)
  BY <1>2 DEF Register, stmtVars, scanVars, Others, Rest, Leaves, Still, Unregistered, Phases, Over, TypeOK
<1>3. ASSUME NEW t \in Txns, TakeSnapshot(t) PROVE Others(t)
  BY <1>3 DEF TakeSnapshot, txnVars, stmtVars, Others, Rest, TypeOK
<1>4. ASSUME NEW t \in Txns, GiveUp(t) PROVE Others(t) /\ Leaves(t)
  BY <1>4 DEF GiveUp, Fail, StartEnd, txnVars, stmtVars, scanVars, Others, Rest, Leaves, Still, TypeOK
<1>5. ASSUME NEW t \in Txns, ScanVersion(t) PROVE Others(t)
  BY <1>5 DEF ScanVersion, txnVars, stmtVars, Others, Rest, TypeOK
<1>6. ASSUME NEW t \in Txns, ScanEnd(t) PROVE Others(t) /\ Proceeds(t)
  BY <1>6 DEF ScanEnd, txnVars, stmtVars, scanVars, Others, Rest, Proceeds, Still, TypeOK
<1>7. ASSUME NEW t \in Txns, NEW v \in matched[t], LockVersion(t, v) PROVE Others(t) /\ Proceeds(t)
  BY <1>7 DEF LockVersion, txnVars, stmtVars, scanVars, Others, Rest, Proceeds, Still, TypeOK
<1>8. ASSUME NEW t \in Txns, NEW v \in matched[t], LockTimeout(t, v) PROVE Others(t) /\ Leaves(t)
  BY <1>8 DEF LockTimeout, Fail, StartEnd, txnVars, stmtVars, scanVars, Others, Rest, Leaves, Still, TypeOK
<1>9. ASSUME NEW t \in Txns, NEW v \in matched[t], Recheck(t, v)
      PROVE  Others(t) /\ (Leaves(t) \/ Proceeds(t))
  <2>1. /\ pc[t] = "check" /\ Still
        /\ UNCHANGED <<op, scope, snap, pos, matched>>
    BY <1>9, RecheckCases DEF Still
  <2>2. CASE pc' = [pc EXCEPT ![t] = "snapshot"] /\ verdict' = verdict
    BY <2>1, <2>2 DEF Others, Rest, Leaves, Phases, Over, TypeOK
  <2>3. CASE StartEnd(t, "aborted")
    BY <2>1, <2>3 DEF StartEnd, Others, Rest, Leaves, TypeOK
  <2>4. CASE pc' = [pc EXCEPT ![t] = "stamp"] /\ verdict' = verdict
    BY <2>1, <2>4 DEF Others, Rest, Proceeds, TypeOK
  <2> QED  BY <1>9, <2>2, <2>3, <2>4, RecheckCases
<1>10. ASSUME NEW t \in Txns, NEW v \in matched[t], Stamp(t, v) PROVE Others(t)
  BY <1>10 DEF Stamp, txnVars, stmtVars, Others, Rest, TypeOK
<1>11. ASSUME NEW t \in Txns, NEW v \in matched[t], InsertVersion(t, v) PROVE Others(t)
  BY <1>11 DEF InsertVersion, txnVars, stmtVars, Others, Rest, TypeOK
<1>12. ASSUME NEW t \in Txns, NEW out \in {"committed", "aborted"}, Finish(t, out)
       PROVE  Others(t) /\ Succeeds(t)
  BY <1>12 DEF Finish, StartEnd, txnVars, stmtVars, scanVars, Others, Rest, Succeeds, Over, Still, TypeOK
<1>13. ASSUME NEW t \in Txns, Unlock(t) PROVE Others(t) /\ Concludes(t)
  BY <1>13 DEF Unlock, txnVars, stmtVars, scanVars, Others, Rest, Concludes, Over, Still, TypeOK
<1>14. ASSUME NEW t \in Txns, AttRemove(t) PROVE Others(t) /\ Concludes(t)
  BY <1>14 DEF AttRemove, stmtVars, scanVars, Others, Rest, Concludes, Over, Still, TypeOK
<1>15. ASSUME NEW t \in Txns, Decide(t) PROVE Others(t)
  BY <1>15 DEF Decide, stmtVars, scanVars, Others, Rest, TypeOK
<1> QED
  BY <1>1, <1>2, <1>3, <1>4, <1>5, <1>6, <1>7, <1>8, <1>9, <1>10, <1>11, <1>12, <1>13, <1>14, <1>15
  DEF Next, Statement, Ending, AllDone, Move, Calm

\* Thread t looks up the transactions in us, which are registered.
Asks(t, us) == LookUp(t, us) /\ \A u \in us : ~Unregistered(u)

\* A step misreads nobody, or looks up only transactions that are registered.
LEMMA LookUps ==
    IInv /\ [Next]_vars =>
        misread' = misread \/ \E t \in Txns, us \in SUBSET Txns : Asks(t, us)
<1> SUFFICES ASSUME IInv, [Next]_vars
             PROVE  misread' = misread \/ \E t \in Txns, us \in SUBSET Txns : Asks(t, us)
  OBVIOUS
<1>h. \A w \in 1 .. Len(heap) : /\ w \in DOMAIN heap /\ heap[w].xmin \in Txns \cup {Sys}
                                /\ heap[w].xmax \in Txns \cup {None}
  <2>1. \A w \in 1 .. Len(heap) : w \in DOMAIN heap /\ heap[w] \in Version
    BY DEF IInv, TypeOK
  <2> QED  BY <2>1 DEF Version
<1>x. \A w \in 1 .. Len(heap) : /\ heap[w].xmin \in Txns => ~Unregistered(heap[w].xmin)
                                /\ heap[w].xmax \in Txns => ~Unregistered(heap[w].xmax)
  <2> SUFFICES ASSUME NEW w \in 1 .. Len(heap)
               PROVE  /\ heap[w].xmin \in Txns => ~Unregistered(heap[w].xmin)
                      /\ heap[w].xmax \in Txns => ~Unregistered(heap[w].xmax)
    OBVIOUS
  <2>1. heap[w].xmin \in Txns => ~Unregistered(heap[w].xmin)
    BY <1>h, RowUpdateAssumption DEF IInv, Traces
  <2>2. heap[w].xmax \in Txns => <<heap[w].xmax, w>> \in applied
    BY <1>h, RowUpdateAssumption DEF IInv, Traces
  <2>3. \A p \in applied : ~Unregistered(p[1])
    BY DEF IInv, Traces
  <2> QED  BY <2>1, <2>2, <2>3
<1>1. ASSUME NEW t \in Txns, NEW kind \in Kinds, NEW rows \in SUBSET Rows, Begin(t, kind, rows)
      PROVE  misread' = misread
  BY <1>1 DEF Begin
<1>2. ASSUME NEW t \in Txns, Register(t) PROVE misread' = misread
  BY <1>2 DEF Register
<1>3. ASSUME NEW t \in Txns, TakeSnapshot(t) PROVE misread' = misread
  BY <1>3 DEF TakeSnapshot
<1>4. ASSUME NEW t \in Txns, GiveUp(t) PROVE misread' = misread
  BY <1>4 DEF GiveUp
<1>6. ASSUME NEW t \in Txns, ScanEnd(t) PROVE misread' = misread
  BY <1>6 DEF ScanEnd
<1>7. ASSUME NEW t \in Txns, NEW v \in matched[t], LockVersion(t, v) PROVE misread' = misread
  BY <1>7 DEF LockVersion
<1>8. ASSUME NEW t \in Txns, NEW v \in matched[t], LockTimeout(t, v) PROVE misread' = misread
  BY <1>8 DEF LockTimeout
<1>10. ASSUME NEW t \in Txns, NEW v \in matched[t], Stamp(t, v) PROVE misread' = misread
  BY <1>10 DEF Stamp
<1>11. ASSUME NEW t \in Txns, NEW v \in matched[t], InsertVersion(t, v) PROVE misread' = misread
  BY <1>11 DEF InsertVersion
<1>12. ASSUME NEW t \in Txns, NEW out \in {"committed", "aborted"}, Finish(t, out) PROVE misread' = misread
  BY <1>12 DEF Finish
<1>13. ASSUME NEW t \in Txns, Unlock(t) PROVE misread' = misread
  BY <1>13 DEF Unlock
<1>14. ASSUME NEW t \in Txns, AttRemove(t) PROVE misread' = misread
  BY <1>14 DEF AttRemove
<1>15. ASSUME NEW t \in Txns, Decide(t) PROVE misread' = misread
  BY <1>15 DEF Decide
<1>5. ASSUME NEW t \in Txns, ScanVersion(t) PROVE \E us \in SUBSET Txns : Asks(t, us)
  <2>1. pos[t] \in 1 .. Len(heap) /\ LookUp(t, Asked(t, pos[t]))
    BY <1>5 DEF ScanVersion, IInv, TypeOK
  <2>2. /\ Asked(t, pos[t]) \in SUBSET Txns
        /\ \A u \in Asked(t, pos[t]) : u \in {heap[pos[t]].xmin, heap[pos[t]].xmax}
    BY AskedFacts
  <2>3. ASSUME NEW u \in Asked(t, pos[t]) PROVE ~Unregistered(u)
    <3>1. u \in Txns /\ (u = heap[pos[t]].xmin \/ u = heap[pos[t]].xmax)
      BY <2>2
    <3>2. CASE u = heap[pos[t]].xmin
      BY <1>x, <2>1, <3>1, <3>2
    <3>3. CASE u = heap[pos[t]].xmax
      BY <1>x, <2>1, <3>1, <3>3 DEF Unregistered
    <3> QED  BY <3>1, <3>2, <3>3
  <2> QED  BY <2>1, <2>2, <2>3 DEF Asks
<1>9. ASSUME NEW t \in Txns, NEW v \in matched[t], Recheck(t, v) PROVE \E us \in SUBSET Txns : Asks(t, us)
  <2>1. /\ v \in 1 .. Len(heap) /\ {heap[v].xmax} \ {None, t} \in SUBSET Txns
        /\ LookUp(t, {heap[v].xmax} \ {None, t})
    BY <1>9, RecheckCases DEF IInv
  <2>2. ASSUME NEW u \in {heap[v].xmax} \ {None, t} PROVE ~Unregistered(u)
    <3>1. u = heap[v].xmax /\ u \in Txns
      BY <2>1
    <3>2. heap[v].xmax \in Txns => ~Unregistered(heap[v].xmax)
      BY <1>x, <2>1 DEF Unregistered
    <3> QED  BY <3>1, <3>2
  <2> QED  BY <2>1, <2>2 DEF Asks
<1>16. CASE UNCHANGED vars
  BY <1>16 DEF vars
<1> QED
  BY <1>1, <1>2, <1>3, <1>4, <1>5, <1>6, <1>7, <1>8, <1>9, <1>10, <1>11, <1>12, <1>13, <1>14, <1>15,
     <1>16
  DEF Next, Statement, Ending, AllDone

\* Whoever is misread has begun to end.
LEMMA JudgedKept == IInv /\ Judged /\ [Next]_vars => Judged'
<1> SUFFICES ASSUME IInv, Judged, [Next]_vars, NEW p \in misread' PROVE verdict'[p[2]] # "none"
  BY DEF Judged
<1>m. Monotone
  BY Forward
<1>1. CASE p \in misread
  <2>1. p[2] \in Txns /\ verdict[p[2]] # "none"
    BY <1>1 DEF Judged, IInv, TypeOK
  <2> QED  BY <1>m, <2>1 DEF Monotone
<1>2. CASE p \notin misread
  <2>1. PICK t \in Txns, us \in SUBSET Txns : Asks(t, us)
    BY <1>2, LookUps
  <2>2. LookUp(t, us)
    BY <2>1 DEF Asks
  <2>3. p \in {<<t, u>> : u \in {w \in us : Status(t, w) = "aborted"}}
    BY <1>2, <2>2 DEF LookUp
  <2>4. PICK u \in us : p[2] = u /\ Status(t, u) = "aborted"
    BY <2>3
  <2>5. pc[u] \notin {"idle", "begin"}
    BY <2>1 DEF Asks, Unregistered
  <2>6. verdict'[u] = "aborted" \/ (verdict'[u] = "committed" /\ <<t, u>> \in misread')
    BY <1>m, <2>2, <2>4, <2>5, LookUpAborts
  <2> QED  BY <2>4, <2>6
<1> QED  BY <1>1, <1>2

\* A history without misreadings had none before.
LEMMA SoundBefore == ASSUME IInv, Judged, [Next]_vars, Sound' PROVE Sound
<1> SUFFICES ASSUME NEW p \in misread PROVE verdict[p[2]] = "aborted"
  BY DEF Sound
<1>1. p[2] \in Txns /\ verdict[p[2]] # "none" /\ p \in misread' /\ verdict'[p[2]] = verdict[p[2]]
  BY Forward DEF Judged, IInv, TypeOK, Monotone
<1> QED  BY <1>1 DEF Sound

\* What no step takes back, of the heap and the decisions.
Grown ==
    /\ DOMAIN heap \subseteq DOMAIN heap'
    /\ \A v \in DOMAIN heap : heap'[v].row = heap[v].row /\ heap'[v].xmin = heap[v].xmin
    /\ \A u \in Txns : clog[u] = "committed" => clog'[u] = "committed"
    /\ \A u \in Txns : ~Unregistered(u) => op'[u] = op[u]

\* Versions keep their row and creator, commits stay, and a running statement stays what it is.
LEMMA Growth == IInv /\ [Next]_vars => Grown
<1> SUFFICES ASSUME IInv, [Next]_vars PROVE Grown
  OBVIOUS
<1>h. DOMAIN heap = 1 .. Len(heap) /\ heap \in Seq(Version)
  BY DEF IInv, TypeOK
<1>0. CASE UNCHANGED vars
  BY <1>0 DEF vars, txnVars, stmtVars, Grown
<1>1. ASSUME NEW t \in Txns, Others(t), Move(t) PROVE Grown
  <2>1. CASE Leaves(t) \/ Proceeds(t) \/ Succeeds(t) \/ Concludes(t)
    <3>1. Still /\ \A u \in Txns : ~Unregistered(u) => op'[u] = op[u]
      BY <1>1, <2>1 DEF Leaves, Proceeds, Succeeds, Concludes, Others, Rest
    <3> QED  BY <3>1 DEF Still, Grown
  <2>2. CASE TakeSnapshot(t)
    BY <2>2 DEF TakeSnapshot, txnVars, stmtVars, Grown
  <2>3. CASE ScanVersion(t)
    BY <2>3 DEF ScanVersion, txnVars, stmtVars, Grown
  <2>4. CASE Decide(t)
    <3>1. UNCHANGED <<heap, op>> /\ clog' = [clog EXCEPT ![t] = verdict[t]]
      BY <2>4 DEF Decide, stmtVars
    <3>2. \A u \in Txns : clog[u] = "committed" => clog'[u] = "committed"
      BY <3>1 DEF IInv, TypeOK, Phases
    <3> QED  BY <3>1, <3>2 DEF Grown
  <2>5. ASSUME NEW v \in matched[t], Stamp(t, v) PROVE Grown
    <3>1. /\ v \in 1 .. Len(heap) /\ heap' = [heap EXCEPT ![v].xmax = t] /\ UNCHANGED <<clog, op>>
      BY <2>5 DEF Stamp, txnVars, stmtVars, IInv, TypeOK
    <3>2. /\ heap' \in Seq(Version) /\ Len(heap') = Len(heap)
          /\ \A w \in 1 .. Len(heap) : heap'[w].row = heap[w].row /\ heap'[w].xmin = heap[w].xmin
      BY <3>1, StampFacts DEF IInv
    <3>3. DOMAIN heap' = DOMAIN heap
      BY <1>h, <3>2
    <3> QED  BY <1>h, <3>1, <3>2, <3>3 DEF Grown
  <2>6. ASSUME NEW v \in matched[t], InsertVersion(t, v) PROVE Grown
    <3>1. v \in 1 .. Len(heap) /\ heap[v] \in Version /\ UNCHANGED <<clog, op>>
      BY <2>6 DEF InsertVersion, txnVars, stmtVars, IInv, TypeOK
    <3> DEFINE n == [row |-> heap[v].row, xmin |-> t, xmax |-> None]
    <3>2. n \in Version /\ heap' = Append(heap, n)
      BY <2>6, <3>1 DEF InsertVersion, Version
    <3> HIDE DEF n
    <3>3. /\ heap' \in Seq(Version) /\ 1 .. Len(heap) \subseteq 1 .. Len(heap')
          /\ \A w \in 1 .. Len(heap) : heap'[w] = heap[w]
      BY <3>2, AppendFacts DEF IInv
    <3>4. DOMAIN heap' = 1 .. Len(heap')
      BY <3>3
    <3> QED  BY <1>h, <3>1, <3>3, <3>4 DEF Grown
  <2> QED  BY <1>1, <2>1, <2>2, <2>3, <2>4, <2>5, <2>6 DEF Move, Calm
<1> QED  BY <1>0, <1>1, Moves

\* Rows keep their first versions.
LEMMA RootsKept == IInv /\ Roots /\ [Next]_vars => Roots'
  BY Growth DEF Roots, Grown

\* A row that was changed, or deleted for good, stays so.
LEMMA DoneKept ==
    ASSUME IInv, [Next]_vars
    PROVE  /\ \A t \in Txns, r \in Rows : Done(t, r) => Done(t, r)'
           /\ \A r \in Rows : Gone(r) => Gone(r)'
<1>1. Grown /\ Monotone
  BY Growth, Forward
<1>2. \A u \in Txns : \A v : <<u, v>> \in applied => ~Unregistered(u)
  BY DEF IInv, Traces
<1>3. \A t \in Txns, r \in Rows : Done(t, r) => Done(t, r)'
  BY <1>1 DEF Done, Grown, Monotone
<1>4. \A r \in Rows : Gone(r) => Gone(r)'
  BY <1>1, <1>2 DEF Gone, Grown, Monotone
<1> QED  BY <1>3, <1>4

\* A step that leaves the heap alone neither starts nor ends the move of a version.
LEMMA CalmFacts ==
    ASSUME IInv, NEW t \in Txns, Others(t), Calm(t)
    PROVE  /\ UNCHANGED <<heap, applied>>
           /\ \A x \in Txns : \A v : Moving(x, v)' <=> Moving(x, v)
<1>1. UNCHANGED <<heap, applied>>
  BY DEF Calm, Leaves, TakeSnapshot, ScanVersion, Proceeds, Succeeds, Concludes, Decide, Still, txnVars
<1>2. pc[t] # "insert" /\ pc'[t] # "insert"
  BY DEF Calm, Leaves, TakeSnapshot, ScanVersion, Proceeds, Succeeds, Concludes, Decide, Over, IInv, TypeOK
<1>3. \A x \in Txns : \A v : Moving(x, v)' <=> Moving(x, v)
  <2> SUFFICES ASSUME NEW x \in Txns, NEW v PROVE Moving(x, v)' <=> Moving(x, v)
    OBVIOUS
  <2>1. CASE x = t
    BY <1>2, <2>1 DEF Moving
  <2>2. CASE x # t
    <3>1. pc'[x] = pc[x] /\ matched'[x] = matched[x]
      BY <2>2 DEF Others, Rest
    <3> QED  BY <3>1 DEF Moving, First
  <2> QED  BY <2>1, <2>2
<1> QED  BY <1>1, <1>3

\* What the stamp does.
LEMMA StampStep ==
    ASSUME IInv, NEW t \in Txns, Others(t), NEW v \in matched[t], Stamp(t, v)
    PROVE  /\ v \in 1 .. Len(heap) /\ DOMAIN heap = 1 .. Len(heap) /\ DOMAIN heap' = 1 .. Len(heap)
           /\ \A w \in 1 .. Len(heap) :
                 /\ heap'[w].row = heap[w].row /\ heap'[w].xmin = heap[w].xmin
                 /\ heap'[w].xmax = IF w = v THEN t ELSE heap[w].xmax
           /\ applied' = applied \cup {<<t, v>>} /\ UNCHANGED <<clog, op, scope, verdict>>
           /\ First(t, v) /\ pc[t] = "stamp"
           /\ op[t] = "update" => pc'[t] = "insert" /\ matched'[t] = matched[t]
           /\ op[t] # "update" => pc'[t] = "next" /\ matched'[t] = matched[t] \ {v}
           /\ \A x \in Txns : \A w : x # t => (Moving(x, w)' <=> Moving(x, w))
           /\ \A w : ~Moving(t, w)
           /\ \A w \in 1 .. Len(heap) : Moving(t, w)' <=> (op[t] = "update" /\ w = v)
<1>1. TypeOK /\ v \in 1 .. Len(heap) /\ DOMAIN heap = 1 .. Len(heap)
  BY DEF IInv, TypeOK
<1>2. heap' = [heap EXCEPT ![v].xmax = t]
  BY DEF Stamp
<1>3. /\ heap' \in Seq(Version) /\ Len(heap') = Len(heap)
      /\ \A w \in 1 .. Len(heap) :
            /\ heap'[w].row = heap[w].row /\ heap'[w].xmin = heap[w].xmin
            /\ heap'[w].xmax = IF w = v THEN t ELSE heap[w].xmax
  BY <1>1, <1>2, StampFacts
<1>4. DOMAIN heap' = 1 .. Len(heap)
  BY <1>3
<1>5. /\ applied' = applied \cup {<<t, v>>} /\ UNCHANGED <<clog, op, scope, verdict>>
      /\ First(t, v) /\ pc[t] = "stamp"
  BY DEF Stamp, txnVars, stmtVars
<1>6. op[t] = "update" => pc'[t] = "insert" /\ matched'[t] = matched[t]
  BY <1>1 DEF Stamp, TypeOK
<1>7. op[t] # "update" => pc'[t] = "next" /\ matched'[t] = matched[t] \ {v}
  BY <1>1 DEF Stamp, TypeOK
<1>8. \A x \in Txns : \A w : x # t => (Moving(x, w)' <=> Moving(x, w))
  BY DEF Others, Rest, Moving, First
<1>9. \A w : ~Moving(t, w)
  BY <1>5 DEF Moving
<1>10. ASSUME NEW w \in 1 .. Len(heap) PROVE Moving(t, w)' <=> (op[t] = "update" /\ w = v)
  <2>1. CASE op[t] # "update"
    BY <1>7, <2>1 DEF Moving
  <2>2. CASE op[t] = "update"
    <3>1. Moving(t, w)' <=> First(t, w)
      BY <1>6, <2>2 DEF Moving, First
    <3>2. First(t, w) <=> w = v
      BY <1>1, <1>5, FirstUnique
    <3> QED  BY <2>2, <3>1, <3>2
  <2> QED  BY <2>1, <2>2
<1> QED  BY <1>1, <1>3, <1>4, <1>5, <1>6, <1>7, <1>8, <1>9, <1>10

\* What the insertion of the new version does.
LEMMA InsertStep ==
    ASSUME IInv, NEW t \in Txns, Others(t), NEW v \in matched[t], InsertVersion(t, v)
    PROVE  /\ v \in 1 .. Len(heap) /\ DOMAIN heap = 1 .. Len(heap) /\ Len(heap) \in Nat
           /\ DOMAIN heap' = 1 .. Len(heap) + 1
           /\ \A w \in 1 .. Len(heap) : heap'[w] = heap[w]
           /\ heap'[Len(heap) + 1] = [row |-> heap[v].row, xmin |-> t, xmax |-> None]
           /\ UNCHANGED <<applied, clog, op, scope, verdict>>
           /\ Moving(t, v) /\ pc'[t] = "next" /\ matched'[t] = matched[t] \ {v}
           /\ \A x \in Txns : \A w : x # t => (Moving(x, w)' <=> Moving(x, w))
           /\ \A w : ~Moving(t, w)'
           /\ \A w \in 1 .. Len(heap) : Moving(t, w) => w = v
<1>1. TypeOK /\ v \in 1 .. Len(heap) /\ DOMAIN heap = 1 .. Len(heap) /\ heap[v] \in Version
  BY DEF IInv, TypeOK
<1> DEFINE n == [row |-> heap[v].row, xmin |-> t, xmax |-> None]
<1>2. n \in Version /\ heap' = Append(heap, n)
  BY <1>1 DEF InsertVersion, Version
<1> HIDE DEF n
<1>3. /\ heap' \in Seq(Version) /\ Len(heap') = Len(heap) + 1
      /\ \A w \in 1 .. Len(heap) : heap'[w] = heap[w]
      /\ heap'[Len(heap) + 1] = n
  BY <1>1, <1>2, AppendFacts
<1>4. DOMAIN heap' = 1 .. Len(heap) + 1 /\ Len(heap) \in Nat
  BY <1>1, <1>3 DEF TypeOK
<1>5. /\ UNCHANGED <<applied, clog, op, scope, verdict>>
      /\ Moving(t, v) /\ pc'[t] = "next" /\ matched'[t] = matched[t] \ {v}
  BY <1>1 DEF InsertVersion, txnVars, stmtVars, Moving, TypeOK
<1>6. \A x \in Txns : \A w : x # t => (Moving(x, w)' <=> Moving(x, w))
  BY DEF Others, Rest, Moving, First
<1>7. \A w : ~Moving(t, w)'
  BY <1>5 DEF Moving
<1>8. \A w \in 1 .. Len(heap) : Moving(t, w) => w = v
  BY <1>1, <1>5, FirstUnique DEF Moving
<1> QED  BY <1>1, <1>3, <1>4, <1>5, <1>6, <1>7, <1>8 DEF n

\* A version that is being moved is stamped, by an UPDATE, and keeps its stamp until it is moved.
LEMMA InsertingKept == IInv /\ Inserting /\ [Next]_vars => Inserting'
<1> SUFFICES ASSUME IInv, Inserting, [Next]_vars PROVE Inserting'
  OBVIOUS
<1>h. DOMAIN heap = 1 .. Len(heap) /\ \A x \in Txns : matched[x] \subseteq 1 .. Len(heap)
  BY DEF IInv, TypeOK
<1>g. Grown /\ applied \subseteq applied'
  BY Growth, Forward DEF Monotone
<1>p. \A x \in Txns : pc[x] = "insert" => verdict[x] = "none" /\ ~Unregistered(x)
  BY DEF IInv, Phases, Over, Unregistered
<1>o. ASSUME NEW x \in Txns, NEW w, Moving(x, w)
      PROVE  /\ w \in DOMAIN heap /\ heap[w].xmax = x
             /\ <<x, w>> \in applied' /\ op'[x] = "update"
  <2>1. w \in DOMAIN heap /\ pc[x] = "insert"
    BY <1>h, <1>o DEF Moving, First
  <2>2. <<x, w>> \in applied /\ op[x] = "update" /\ heap[w].xmax = x
    BY <1>o, <2>1 DEF Inserting
  <2> QED  BY <1>g, <1>p, <2>1, <2>2 DEF Grown
<1>0. CASE UNCHANGED vars
  <2>1. UNCHANGED <<heap, pc, matched, applied, op>>
    BY <1>0 DEF vars, stmtVars, scanVars
  <2> QED  BY <2>1 DEF Inserting, Moving, First
<1>1. ASSUME NEW t \in Txns, Others(t), Calm(t) PROVE Inserting'
  <2>1. /\ UNCHANGED <<heap, applied>>
        /\ \A x \in Txns : \A w : Moving(x, w)' <=> Moving(x, w)
    BY <1>1, CalmFacts
  <2> QED  BY <1>o, <2>1 DEF Inserting
<1>2. ASSUME NEW t \in Txns, Others(t), NEW v \in matched[t], Stamp(t, v) PROVE Inserting'
  <2> SUFFICES ASSUME NEW x \in Txns, NEW w \in DOMAIN heap', Moving(x, w)'
               PROVE  <<x, w>> \in applied' /\ op'[x] = "update" /\ heap'[w].xmax = x
    BY DEF Inserting
  <2>1. /\ v \in 1 .. Len(heap) /\ w \in 1 .. Len(heap) /\ First(t, v) /\ pc[t] = "stamp"
        /\ heap'[w].xmax = IF w = v THEN t ELSE heap[w].xmax
        /\ applied' = applied \cup {<<t, v>>} /\ UNCHANGED op
        /\ x # t => (Moving(x, w)' <=> Moving(x, w))
        /\ Moving(t, w)' <=> (op[t] = "update" /\ w = v)
    BY <1>2, StampStep
  <2>2. CASE x = t
    BY <2>1, <2>2
  <2>3. CASE x # t
    <3>1. /\ heap[w].xmax = x /\ <<x, w>> \in applied' /\ op'[x] = "update"
          /\ pc[x] = "insert"
      BY <1>o, <2>1, <2>3 DEF Moving
    <3>2. w # v
      <4> SUFFICES ASSUME w = v PROVE FALSE
        OBVIOUS
      <4>1. Aborts(t, x)
        BY <1>h, <2>1, <2>3, <3>1, RowUpdateAssumption DEF IInv, Believed
      <4> QED  BY <1>p, <3>1, <4>1 DEF Aborts
    <3> QED  BY <2>1, <3>1, <3>2
  <2> QED  BY <2>2, <2>3
<1>3. ASSUME NEW t \in Txns, Others(t), NEW v \in matched[t], InsertVersion(t, v) PROVE Inserting'
  <2> SUFFICES ASSUME NEW x \in Txns, NEW w \in DOMAIN heap', Moving(x, w)'
               PROVE  <<x, w>> \in applied' /\ op'[x] = "update" /\ heap'[w].xmax = x
    BY DEF Inserting
  <2>1. /\ \A y \in 1 .. Len(heap) : heap'[y] = heap[y]
        /\ x # t => (Moving(x, w)' <=> Moving(x, w))
        /\ ~Moving(t, w)'
    BY <1>3, InsertStep
  <2>2. Moving(x, w)
    BY <2>1
  <2> QED  BY <1>h, <1>o, <2>1, <2>2
<1> QED  BY <1>0, <1>1, <1>2, <1>3, Moves DEF Move

\* An UPDATE gives every version it has stamped a successor.
LEMMA ReplacedKept == IInv /\ Replaced /\ [Next]_vars => Replaced'
<1> SUFFICES ASSUME IInv, Replaced, [Next]_vars PROVE Replaced'
  OBVIOUS
<1>h. /\ DOMAIN heap = 1 .. Len(heap) /\ Len(heap) \in Nat
      /\ applied \subseteq Txns \X (1 .. Len(heap))
  BY DEF IInv, TypeOK
<1>g. Grown
  BY Growth
<1>o. ASSUME NEW x \in Txns, NEW v, <<x, v>> \in applied, op'[x] = "update", ~Moving(x, v)
      PROVE  \E w \in DOMAIN heap' : w > v /\ heap'[w].row = heap'[v].row /\ heap'[w].xmin = x
  <2>1. v \in DOMAIN heap
    BY <1>h, <1>o
  <2>2. ~Unregistered(x)
    BY <1>o DEF IInv, Traces
  <2>3. op[x] = "update"
    BY <1>g, <1>o, <2>2 DEF Grown
  <2>4. PICK w \in DOMAIN heap : w > v /\ heap[w].row = heap[v].row /\ heap[w].xmin = x
    BY <1>o, <2>1, <2>3 DEF Replaced
  <2> QED  BY <1>g, <2>1, <2>4 DEF Grown
<1> SUFFICES ASSUME NEW x \in Txns, NEW v \in DOMAIN heap', <<x, v>> \in applied',
                    op'[x] = "update", ~Moving(x, v)'
             PROVE  \E w \in DOMAIN heap' : w > v /\ heap'[w].row = heap'[v].row /\ heap'[w].xmin = x
  BY DEF Replaced
<1>0. CASE UNCHANGED vars
  <2>1. <<x, v>> \in applied /\ ~Moving(x, v)
    BY <1>0 DEF vars, scanVars, Moving, First
  <2> QED  BY <1>o, <2>1
<1>1. ASSUME NEW t \in Txns, Others(t), Calm(t) PROVE <<x, v>> \in applied /\ ~Moving(x, v)
  BY <1>1, CalmFacts
<1>2. ASSUME NEW t \in Txns, Others(t), NEW u \in matched[t], Stamp(t, u)
      PROVE  <<x, v>> \in applied /\ ~Moving(x, v)
  <2>1. /\ v \in 1 .. Len(heap) /\ applied' = applied \cup {<<t, u>>} /\ op' = op
        /\ x # t => (Moving(x, v)' <=> Moving(x, v))
        /\ ~Moving(t, v)
        /\ Moving(t, v)' <=> (op[t] = "update" /\ v = u)
    BY <1>2, StampStep
  <2> QED  BY <2>1
<1>3. ASSUME NEW t \in Txns, Others(t), NEW u \in matched[t], InsertVersion(t, u)
      PROVE  \E w \in DOMAIN heap' : w > v /\ heap'[w].row = heap'[v].row /\ heap'[w].xmin = x
  <2>1. /\ u \in 1 .. Len(heap) /\ DOMAIN heap' = 1 .. Len(heap) + 1
        /\ \A w \in 1 .. Len(heap) : heap'[w] = heap[w]
        /\ heap'[Len(heap) + 1] = [row |-> heap[u].row, xmin |-> t, xmax |-> None]
        /\ applied' = applied
        /\ x # t => (Moving(x, v)' <=> Moving(x, v))
    BY <1>3, InsertStep
  <2>2. v \in 1 .. Len(heap) /\ <<x, v>> \in applied
    BY <1>h, <2>1
  <2>3. CASE x = t /\ v = u
    <3>1. /\ Len(heap) + 1 \in DOMAIN heap' /\ Len(heap) + 1 > v
          /\ heap'[Len(heap) + 1].row = heap'[v].row /\ heap'[Len(heap) + 1].xmin = x
      BY <1>h, <2>1, <2>2, <2>3
    <3> QED  BY <3>1
  <2>4. CASE ~Moving(x, v)
    BY <1>o, <2>2, <2>4
  <2>5. Moving(t, v) => v = u
    BY <1>3, <2>2, InsertStep
  <2> QED  BY <2>1, <2>3, <2>4, <2>5
<1> QED  BY <1>o, <1>0, <1>1, <1>2, <1>3, Moves DEF Move

\* A thread that has misread nobody knows the transactions it looks up as they are.
LEMMA SoundStatus ==
    ASSUME IInv, Sound, NEW t \in Txns, NEW u \in Txns
    PROVE  clog[u] = "committed" <=> Status(t, u) = "committed"
<1>1. u # Sys
  BY RowUpdateAssumption
<1>2. clog[u] = "committed" => u \notin memo[t]
  <2> SUFFICES ASSUME clog[u] = "committed", u \in memo[t] PROVE FALSE
    OBVIOUS
  <2>1. verdict[u] = "committed"
    BY DEF IInv, Phases
  <2>2. <<t, u>> \in misread
    BY <2>1 DEF IInv, Believed, Aborts
  <2> QED  BY <2>1, <2>2 DEF Sound
<1> QED  BY <1>1, <1>2 DEF Status

\* The rows of the other statements are where they were.
LEMMA CoverRest ==
    ASSUME IInv, [Next]_vars, NEW x \in Txns, Rest(x), NEW r \in Rows, Cover(x, r)
    PROVE  Cover(x, r)'
<1>g. Grown
  BY Growth
<1>h. /\ DOMAIN heap = 1 .. Len(heap) /\ matched[x] \subseteq 1 .. Len(heap)
      /\ \A v \in DOMAIN heap : heap[v] \in Version
  BY DEF IInv, TypeOK
<1>1. CASE Done(x, r) \/ Gone(r)
  BY <1>1, DoneKept DEF Cover
<1>2. CASE Found(x, r)
  <2>1. Working(x) /\ \E v \in matched[x] : heap[v].row = r
    BY <1>2 DEF Found
  <2>2. Working(x)' /\ \E v \in matched'[x] : heap'[v].row = r
    BY <1>g, <1>h, <2>1 DEF Working, Rest, Grown
  <2> QED  BY <2>2 DEF Found, Cover
<1>3. CASE Ahead(x, r)
  <2>1. PICK v \in DOMAIN heap : v >= pos[x] /\ heap[v].row = r /\ Known(x, heap[v].xmin)
    BY <1>3 DEF Ahead
  <2>2. heap[v].xmin \in Txns \cup {Sys}
    BY <1>h, <2>1 DEF Version
  <2>3. Known(x, heap[v].xmin)'
    <3>1. PICK u \in Txns \cup {Sys} : u = heap[v].xmin
      BY <2>2
    <3>2. Known(x, u)'
      BY <1>g, <2>1, <3>1 DEF Known, MustAsk, Rest, Grown
    <3>3. heap'[v].xmin = u
      BY <1>g, <3>1 DEF Grown
    <3> QED  BY <3>2, <3>3 DEF Known, MustAsk
  <2>4. pc'[x] = "scan" /\ v \in DOMAIN heap' /\ v >= pos'[x] /\ heap'[v].row = r
    BY <1>g, <1>3, <2>1 DEF Ahead, Rest, Grown
  <2> QED  BY <2>3, <2>4 DEF Ahead, Cover
<1> QED  BY <1>1, <1>2, <1>3 DEF Cover

\* The scan finds the row, or the row is gone, or its committed successor is further ahead.
LEMMA CoverScan ==
    ASSUME IInv, Replaced, Sound, [Next]_vars, NEW t \in Txns, ScanVersion(t), NEW r \in Rows,
           r \in scope[t], Cover(t, r)
    PROVE  Cover(t, r)'
<1> DEFINE v == pos[t]
<1>h. /\ DOMAIN heap = 1 .. Len(heap) /\ matched[t] \subseteq 1 .. Len(heap) /\ Len(heap) \in Nat
      /\ \A w \in DOMAIN heap : heap[w] \in Version
      /\ v \in Nat \ {0}
  BY DEF IInv, TypeOK
<1>s. /\ pc[t] = "scan" /\ pc' = pc /\ v <= Len(heap) /\ UNCHANGED <<heap, clog, snap, applied, op>>
      /\ pos'[t] = v + 1
      /\ matched'[t] = IF heap[v].row \in scope[t] /\ Visible(t, v) THEN matched[t] \cup {v}
                       ELSE matched[t]
  BY DEF ScanVersion, txnVars, stmtVars, IInv, TypeOK
<1>w. Working(t)' /\ v \in DOMAIN heap
  BY <1>h, <1>s DEF Working
<1> HIDE DEF v
<1>k. ASSUME NEW w \in DOMAIN heap, w > v, heap[w].row = r, Known(t, heap[w].xmin)
      PROVE  Ahead(t, r)'
  <2>1. w >= pos'[t]
    BY <1>h, <1>s, <1>k
  <2>2. Known(t, heap[w].xmin)'
    BY <1>s, <1>k DEF Known, MustAsk
  <2> QED  BY <1>s, <1>k, <2>1, <2>2 DEF Ahead
<1>1. CASE Done(t, r) \/ Gone(r)
  BY <1>1, DoneKept DEF Cover
<1>2. CASE Found(t, r)
  <2>1. PICK w \in matched[t] : heap[w].row = r
    BY <1>2 DEF Found
  <2>2. w \in matched'[t] /\ heap'[w].row = r
    BY <1>s, <2>1
  <2> QED  BY <1>w, <2>2 DEF Found, Cover
<1>3. CASE Ahead(t, r)
  <2>1. PICK w \in DOMAIN heap : w >= v /\ heap[w].row = r /\ Known(t, heap[w].xmin)
    BY <1>3 DEF Ahead, v
  <2>2. CASE w > v
    BY <1>k, <2>1, <2>2 DEF Cover
  <2>3. CASE w = v /\ Visible(t, v)
    <3>1. v \in matched'[t] /\ heap'[v].row = r
      BY <1>s, <2>1, <2>3
    <3> QED  BY <1>w, <3>1 DEF Found, Cover
  <2>4. CASE w = v /\ ~Visible(t, v)
    <3> DEFINE c == heap[v].xmin
               d == heap[v].xmax
    <3>1. c \in Txns \cup {Sys} /\ d \in Txns \cup {None}
      BY <1>h, <1>w DEF Version
    <3>2. CreatorVisible(t, v)
      <4>1. Known(t, c)
        BY <2>1, <2>4
      <4>2. MustAsk(t, c) /\ Status(t, c) = "committed"
        <5> HIDE DEF c
        <5>1. CASE c = Sys
          BY <5>1 DEF MustAsk, Status
        <5>2. CASE c # Sys
          BY <3>1, <4>1, <5>2, SoundStatus DEF Known
        <5> QED  BY <5>1, <5>2
      <4> QED  BY <4>2 DEF CreatorVisible
    <3>3. d # None /\ (d = t \/ (MustAsk(t, d) /\ Status(t, d) = "committed"))
      BY <2>4, <3>2 DEF Visible, DeleterVisible
    <3>4. d \in Txns /\ <<d, v>> \in applied
      BY <1>w, <3>1, <3>3 DEF IInv, Traces
    <3> HIDE DEF c, d
    <3>5. CASE d = t
      <4>1. Done(t, r)
        BY <1>w, <2>1, <2>4, <3>4, <3>5 DEF Done
      <4> QED  BY <4>1, DoneKept DEF Cover
    <3>6. CASE d # t
      <4>1. MustAsk(t, d) /\ clog[d] = "committed"
        BY <3>3, <3>4, <3>6, SoundStatus
      <4>2. op[d] \in {"update", "delete"} /\ pc[d] # "insert"
        BY <3>4, <4>1 DEF IInv, TypeOK, Phases, Over
      <4>3. CASE op[d] = "delete"
        <5>1. Gone(r)
          BY <1>w, <2>1, <2>4, <3>4, <4>1, <4>3 DEF Gone
        <5> QED  BY <5>1, DoneKept DEF Cover
      <4>4. CASE op[d] = "update"
        <5>1. PICK y \in DOMAIN heap : y > v /\ heap[y].row = heap[v].row /\ heap[y].xmin = d
          BY <1>w, <3>4, <4>2, <4>4 DEF Replaced, Moving
        <5>2. Known(t, heap[y].xmin)
          BY <4>1, <5>1 DEF Known
        <5> QED  BY <1>k, <2>1, <2>4, <5>1, <5>2 DEF Cover
      <4> QED  BY <4>2, <4>3, <4>4
    <3> QED  BY <3>5, <3>6
  <2>5. w > v \/ w = v
    BY <1>h, <2>1
  <2> QED  BY <2>2, <2>3, <2>4, <2>5
<1> QED  BY <1>1, <1>2, <1>3 DEF Cover

\* Every row in scope of a statement that has not failed is accounted for.
LEMMA CoveredKept ==
    IInv /\ Judged /\ Roots /\ Inserting /\ Replaced /\ Covered /\ [Next]_vars => Covered'
<1> SUFFICES ASSUME IInv, Judged, Roots, Inserting, Replaced, Covered, [Next]_vars, Sound',
                    NEW x \in Txns, Working(x)' \/ verdict'[x] = "committed", NEW r \in scope'[x]
             PROVE  Cover(x, r)'
  BY DEF Covered
<1>s. Sound
  BY SoundBefore
<1>h. /\ DOMAIN heap = 1 .. Len(heap) /\ matched \in [Txns -> SUBSET (1 .. Len(heap))]
      /\ Len(heap) \in Nat /\ pos \in [Txns -> Nat \ {0}] /\ pc \in [Txns -> PCs]
      /\ scope \in [Txns -> SUBSET Rows] /\ snap \in [Txns -> [seen : SUBSET Txns, active : SUBSET Txns]]
  BY DEF IInv, TypeOK
<1>r. r \in Rows
  BY TypeOKKept DEF TypeOK
<1>c. ASSUME scope'[x] = scope[x], Working(x) \/ verdict[x] = "committed" PROVE Cover(x, r)
  BY <1>s, <1>c DEF Covered
<1>n. ~Working(x) => ~Found(x, r) /\ ~Ahead(x, r)
  BY DEF Working, Found, Ahead
<1>d. Done(x, r) \/ Gone(r) => Cover(x, r)'
  BY <1>r, DoneKept DEF Cover
<1>v. verdict[x] = "committed" => Over(x) /\ ~Working(x)
  BY DEF IInv, Phases, Over, Working
<1>q. ASSUME Rest(x) PROVE Cover(x, r)'
  <2>1. scope'[x] = scope[x] /\ (Working(x) \/ verdict[x] = "committed")
    BY <1>q DEF Rest, Working
  <2> QED  BY <1>c, <1>q, <1>r, <2>1, CoverRest
<1>0. CASE UNCHANGED vars
  <2>1. Rest(x)
    BY <1>0 DEF vars, stmtVars, scanVars, Rest
  <2> QED  BY <1>q, <2>1
<1>1. ASSUME Others(x), Move(x) PROVE Cover(x, r)'
  <2>1. CASE Leaves(x)
    BY <2>1 DEF Leaves, Working
  <2>2. CASE TakeSnapshot(x)
    <3>1. PICK v \in DOMAIN heap : heap[v].row = r /\ heap[v].xmin = Sys
      BY <1>r DEF Roots
    <3>2. pc'[x] = "scan" /\ pos'[x] = 1 /\ UNCHANGED heap
      BY <1>h, <2>2 DEF TakeSnapshot
    <3>3. v \in DOMAIN heap' /\ v >= pos'[x] /\ heap'[v].row = r /\ Known(x, heap[v].xmin)'
      BY <1>h, <3>1, <3>2 DEF Known
    <3> QED  BY <3>1, <3>2, <3>3 DEF Ahead, Cover
  <2>3. CASE ScanVersion(x)
    <3>1. scope' = scope /\ Working(x)
      BY <2>3 DEF ScanVersion, stmtVars, Working
    <3> QED  BY <1>c, <1>r, <1>s, <2>3, <3>1, CoverScan
  <2>4. CASE Proceeds(x)
    <3>1. Cover(x, r)
      BY <1>c, <2>4 DEF Proceeds, Working
    <3>2. ~Ahead(x, r)
      BY <1>h, <2>4 DEF Ahead, Proceeds
    <3>3. Found(x, r) => Found(x, r)'
      BY <2>4 DEF Found, Proceeds, Working, Still
    <3> QED  BY <1>d, <3>1, <3>2, <3>3 DEF Cover
  <2>5. CASE Succeeds(x)
    <3>1. Cover(x, r) /\ ~Ahead(x, r) /\ ~Found(x, r)
      BY <1>c, <2>5 DEF Succeeds, Working, Ahead, Found
    <3> QED  BY <1>d, <3>1 DEF Cover
  <2>6. CASE Concludes(x)
    <3>1. verdict[x] = "committed" /\ scope'[x] = scope[x]
      BY <2>6 DEF Concludes, Over, Working
    <3> QED  BY <1>c, <1>d, <1>n, <1>v, <3>1 DEF Cover
  <2>7. CASE Decide(x)
    <3>1. verdict[x] = "committed" /\ scope'[x] = scope[x]
      BY <1>h, <2>7 DEF Decide, stmtVars, Working
    <3> QED  BY <1>c, <1>d, <1>n, <1>v, <3>1 DEF Cover
  <2>8. ASSUME NEW v \in matched[x], Stamp(x, v) PROVE Cover(x, r)'
    <3>1. /\ v \in 1 .. Len(heap) /\ DOMAIN heap' = 1 .. Len(heap)
          /\ \A w \in 1 .. Len(heap) : heap'[w].row = heap[w].row
          /\ <<x, v>> \in applied' /\ scope' = scope /\ pc[x] = "stamp"
          /\ op[x] = "update" => pc'[x] = "insert" /\ matched'[x] = matched[x]
          /\ op[x] # "update" => pc'[x] = "next" /\ matched'[x] = matched[x] \ {v}
      BY <1>1, <2>8, StampStep
    <3>2. CASE heap[v].row = r
      BY <3>1, <3>2 DEF Done, Cover
    <3>3. CASE heap[v].row # r
      <4>1. Cover(x, r) /\ ~Ahead(x, r)
        BY <1>c, <3>1 DEF Working, Ahead
      <4>2. Found(x, r) => Found(x, r)'
        <5> SUFFICES ASSUME Found(x, r) PROVE Found(x, r)'
          OBVIOUS
        <5>1. PICK w \in matched[x] : heap[w].row = r
          BY DEF Found
        <5>2. w # v /\ w \in matched'[x] /\ heap'[w].row = r
          BY <1>h, <3>1, <3>3, <5>1
        <5> QED  BY <3>1, <5>2 DEF Found, Working
      <4> QED  BY <1>d, <4>1, <4>2 DEF Cover
    <3> QED  BY <3>2, <3>3
  <2>9. ASSUME NEW v \in matched[x], InsertVersion(x, v) PROVE Cover(x, r)'
    <3>1. /\ v \in 1 .. Len(heap) /\ \A w \in 1 .. Len(heap) : heap'[w] = heap[w]
          /\ scope' = scope /\ Moving(x, v) /\ pc'[x] = "next" /\ matched'[x] = matched[x] \ {v}
      BY <1>1, <2>9, InsertStep
    <3>2. Cover(x, r) /\ ~Ahead(x, r)
      BY <1>c, <3>1 DEF Working, Ahead, Moving
    <3>3. CASE heap[v].row = r
      <4>1. <<x, v>> \in applied
        BY <1>h, <3>1 DEF Inserting
      <4>2. Done(x, r)
        BY <1>h, <3>1, <3>3, <4>1 DEF Done
      <4> QED  BY <1>d, <4>2
    <3>4. CASE heap[v].row # r
      <4>1. Found(x, r) => Found(x, r)'
        <5> SUFFICES ASSUME Found(x, r) PROVE Found(x, r)'
          OBVIOUS
        <5>1. PICK w \in matched[x] : heap[w].row = r
          BY DEF Found
        <5>2. w # v /\ w \in matched'[x] /\ heap'[w].row = r
          BY <1>h, <3>1, <3>4, <5>1
        <5> QED  BY <3>1, <5>2 DEF Found, Working
      <4> QED  BY <1>d, <3>2, <4>1 DEF Cover
    <3> QED  BY <3>3, <3>4
  <2> QED  BY <1>1, <2>1, <2>2, <2>3, <2>4, <2>5, <2>6, <2>7, <2>8, <2>9 DEF Move, Calm
<1>2. ASSUME NEW t \in Txns, Others(t), t # x PROVE Cover(x, r)'
  BY <1>q, <1>2 DEF Others
<1> QED  BY <1>0, <1>1, <1>2, Moves

\* What has committed stays committed.
LEMMA CommittedKept ==
    ASSUME IInv, [Next]_vars, NEW u, Committed(u) PROVE Committed(u)'
  BY Growth DEF Committed, Grown

\* What a statement finds is committed or its own, and not stamped by it.
LEMMA FoundCommittedKept == IInv /\ FoundCommitted /\ [Next]_vars => FoundCommitted'
<1> SUFFICES ASSUME IInv, FoundCommitted, [Next]_vars, NEW x \in Txns, NEW v \in matched'[x]
             PROVE  /\ heap'[v].xmin = x \/ Committed(heap[v].xmin)'
                    /\ heap'[v].xmax = x => Moving(x, v)'
  BY DEF FoundCommitted
<1>h. /\ DOMAIN heap = 1 .. Len(heap) /\ matched[x] \subseteq 1 .. Len(heap)
      /\ \A w \in DOMAIN heap : heap[w] \in Version
      /\ matched \in [Txns -> SUBSET (1 .. Len(heap))] /\ pos[x] \in Nat \ {0} /\ Len(heap) \in Nat
  BY DEF IInv, TypeOK
<1>g. Grown
  BY Growth
<1>n. x # None
  BY RowUpdateAssumption
<1>1. ASSUME v \in matched[x] PROVE heap'[v].xmin = x \/ Committed(heap[v].xmin)'
  <2>1. v \in DOMAIN heap /\ heap'[v].xmin = heap[v].xmin
    BY <1>g, <1>h, <1>1 DEF Grown
  <2>2. heap[v].xmin = x \/ Committed(heap[v].xmin)
    BY <1>1 DEF FoundCommitted
  <2>3. CASE Committed(heap[v].xmin)
    <3>1. PICK u : u = heap[v].xmin
      OBVIOUS
    <3>2. Committed(u)'
      BY <2>3, <3>1, CommittedKept
    <3> QED  BY <2>1, <3>1, <3>2 DEF Committed
  <2> QED  BY <2>1, <2>2, <2>3
<1>2. ASSUME v \in matched[x], heap[v].xmax = x PROVE Moving(x, v)
  BY <1>2 DEF FoundCommitted
<1>3. ASSUME ScanVersion(x), v \notin matched[x]
      PROVE  /\ heap'[v].xmin = x \/ Committed(heap[v].xmin)'
             /\ heap'[v].xmax # x
  <2>1. v = pos[x] /\ Visible(x, v) /\ UNCHANGED <<heap, clog>> /\ v \in DOMAIN heap
    BY <1>h, <1>3 DEF ScanVersion, txnVars
  <2>2. heap[v].xmax # x
    BY <1>n, <2>1 DEF Visible, DeleterVisible
  <2>3. heap[v].xmin \in Txns \cup {Sys}
    BY <1>h, <2>1 DEF Version
  <2>4. heap[v].xmin = x \/ Committed(heap[v].xmin)
    BY <2>1, <2>3 DEF Visible, CreatorVisible, Status, Committed
  <2> QED  BY <2>1, <2>2, <2>4 DEF Committed
<1>0. CASE UNCHANGED vars
  <2>1. UNCHANGED <<heap, matched, pc>>
    BY <1>0 DEF vars, scanVars
  <2>2. Moving(x, v)' <=> Moving(x, v)
    BY <2>1 DEF Moving, First
  <2> QED  BY <1>1, <1>2, <2>1, <2>2
<1>4. ASSUME NEW t \in Txns, Others(t), Calm(t), ~(ScanVersion(x) /\ v \notin matched[x])
      PROVE  v \in matched[x] /\ (heap'[v].xmax = x => Moving(x, v)')
  <2>1. v \in matched[x]
    <3>1. CASE x # t
      BY <1>4, <3>1 DEF Others, Rest
    <3>2. CASE x = t
      BY <1>h, <1>4, <3>2
      DEF Calm, Leaves, Proceeds, Succeeds, Concludes, TakeSnapshot, Decide, scanVars
    <3> QED  BY <3>1, <3>2
  <2>2. UNCHANGED heap /\ (Moving(x, v)' <=> Moving(x, v))
    BY <1>4, CalmFacts
  <2> QED  BY <1>2, <2>1, <2>2
<1>5. ASSUME NEW t \in Txns, Others(t), NEW u \in matched[t], Stamp(t, u)
      PROVE  v \in matched[x] /\ (heap'[v].xmax = x => Moving(x, v)')
  <2>0. /\ x # t => matched'[x] = matched[x]
        /\ op[t] = "update" => matched'[t] = matched[t]
        /\ op[t] # "update" => matched'[t] = matched[t] \ {u}
    BY <1>5, StampStep DEF Others, Rest
  <2>1. v \in matched[x] /\ v \in 1 .. Len(heap)
    BY <1>h, <2>0
  <2>2. /\ heap'[v].xmax = IF v = u THEN t ELSE heap[v].xmax
        /\ x # t => (Moving(x, v)' <=> Moving(x, v))
        /\ ~Moving(t, v)
        /\ Moving(t, v)' <=> (op[t] = "update" /\ v = u)
    BY <1>5, <2>1, StampStep
  <2> QED  BY <1>2, <2>0, <2>1, <2>2
<1>6. ASSUME NEW t \in Txns, Others(t), NEW u \in matched[t], InsertVersion(t, u)
      PROVE  v \in matched[x] /\ (heap'[v].xmax = x => Moving(x, v)')
  <2>0. (x # t => matched'[x] = matched[x]) /\ matched'[t] = matched[t] \ {u}
    BY <1>6, InsertStep DEF Others, Rest
  <2>1. v \in matched[x] /\ v \in 1 .. Len(heap)
    BY <1>h, <2>0
  <2>2. /\ heap'[v] = heap[v]
        /\ x # t => (Moving(x, v)' <=> Moving(x, v))
        /\ Moving(t, v) => v = u
    BY <1>6, <2>1, InsertStep
  <2> QED  BY <1>2, <2>0, <2>1, <2>2
<1> QED  BY <1>0, <1>1, <1>3, <1>4, <1>5, <1>6, Moves DEF Move

\* Versions that are not committed are changed by their creators only.
LEMMA PrivateKept == IInv /\ FoundCommitted /\ Private /\ [Next]_vars => Private'
<1> SUFFICES ASSUME IInv, FoundCommitted, Private, [Next]_vars, NEW v \in DOMAIN heap',
                    heap'[v].xmax \notin {None, heap'[v].xmin}
             PROVE  Committed(heap[v].xmin)'
  BY DEF Private
<1>h. DOMAIN heap = 1 .. Len(heap) /\ Len(heap) \in Nat
  BY DEF IInv, TypeOK
<1>1. ASSUME v \in DOMAIN heap, heap'[v].xmin = heap[v].xmin, Committed(heap[v].xmin)
      PROVE  Committed(heap[v].xmin)'
  <2>1. PICK u : u = heap[v].xmin
    OBVIOUS
  <2>2. Committed(u)'
    BY <1>1, <2>1, CommittedKept
  <2> QED  BY <1>1, <2>1, <2>2 DEF Committed
<1>2. CASE UNCHANGED heap
  BY <1>1, <1>2 DEF Private
<1>3. ASSUME NEW t \in Txns, Others(t), NEW u \in matched[t], Stamp(t, u) PROVE Committed(heap[v].xmin)'
  <2>1. /\ v \in DOMAIN heap /\ heap'[v].xmin = heap[v].xmin
        /\ heap'[v].xmax = IF v = u THEN t ELSE heap[v].xmax
    BY <1>3, StampStep
  <2>2. CASE v = u
    BY <1>1, <2>1, <2>2 DEF FoundCommitted
  <2>3. CASE v # u
    BY <1>1, <2>1, <2>3 DEF Private
  <2> QED  BY <2>2, <2>3
<1>4. ASSUME NEW t \in Txns, Others(t), NEW u \in matched[t], InsertVersion(t, u)
      PROVE  Committed(heap[v].xmin)'
  <2>1. /\ DOMAIN heap' = 1 .. Len(heap) + 1
        /\ \A w \in 1 .. Len(heap) : heap'[w] = heap[w]
        /\ heap'[Len(heap) + 1] = [row |-> heap[u].row, xmin |-> t, xmax |-> None]
    BY <1>4, InsertStep
  <2>2. heap'[Len(heap) + 1].xmax = None
    BY <2>1
  <2>3. v \in 1 .. Len(heap) /\ heap'[v] = heap[v]
    BY <1>h, <2>1, <2>2
  <2> QED  BY <1>1, <1>h, <2>3 DEF Private
<1>5. ASSUME NEW t \in Txns, Others(t), Calm(t) PROVE UNCHANGED heap
  BY <1>5, CalmFacts
<1>6. CASE UNCHANGED vars
  BY <1>2, <1>6 DEF vars
<1> QED  BY <1>2, <1>3, <1>4, <1>5, <1>6, Moves DEF Move

\* A DELETE creates no versions.
LEMMA UpdatesKept == IInv /\ Inserting /\ Updates /\ [Next]_vars => Updates'
<1> SUFFICES ASSUME IInv, Inserting, Updates, [Next]_vars, NEW v \in DOMAIN heap', heap'[v].xmin # Sys
             PROVE  op'[heap'[v].xmin] = "update"
  BY DEF Updates
<1>h. /\ DOMAIN heap = 1 .. Len(heap) /\ Len(heap) \in Nat
      /\ \A w \in DOMAIN heap : heap[w] \in Version
  BY DEF IInv, TypeOK
<1>1. ASSUME v \in DOMAIN heap PROVE op'[heap'[v].xmin] = "update"
  <2>1. heap'[v].xmin = heap[v].xmin /\ heap[v].xmin \in Txns /\ op[heap[v].xmin] = "update"
    BY <1>h, <1>1, Growth DEF Updates, Grown, Version
  <2>2. ~Unregistered(heap[v].xmin)
    BY <1>1, <2>1 DEF IInv, Traces
  <2> QED  BY <2>1, <2>2, Growth DEF Grown
<1>2. ASSUME NEW t \in Txns, Others(t), NEW u \in matched[t], InsertVersion(t, u)
      PROVE  op'[heap'[v].xmin] = "update"
  <2>1. /\ DOMAIN heap' = 1 .. Len(heap) + 1 /\ u \in DOMAIN heap /\ Moving(t, u) /\ op' = op
        /\ heap'[Len(heap) + 1] = [row |-> heap[u].row, xmin |-> t, xmax |-> None]
    BY <1>2, InsertStep
  <2>2. heap'[Len(heap) + 1].xmin = t
    BY <2>1
  <2>3. op[t] = "update"
    BY <2>1 DEF Inserting
  <2>4. v \in DOMAIN heap \/ v = Len(heap) + 1
    BY <1>h, <2>1
  <2> QED  BY <1>1, <2>1, <2>2, <2>3, <2>4
<1>3. ASSUME NEW t \in Txns, Others(t), NEW u \in matched[t], Stamp(t, u) PROVE v \in DOMAIN heap
  BY <1>3, StampStep
<1>4. ASSUME NEW t \in Txns, Others(t), Calm(t) PROVE v \in DOMAIN heap
  BY <1>4, CalmFacts
<1>5. CASE UNCHANGED vars
  BY <1>1, <1>5 DEF vars
<1> QED  BY <1>1, <1>2, <1>3, <1>4, <1>5, Moves DEF Move

\* Who may still commit might have before.
LEMMA UndecidedBefore ==
    ASSUME IInv, [Next]_vars, NEW t \in Txns, Undecided(t)' PROVE Undecided(t)
  BY Growth, Forward DEF Undecided, Grown, Monotone

\* A transaction whose statement is still running may commit.
LEMMA RunningUndecided ==
    ASSUME IInv, NEW t \in Txns, pc[t] \in {"stamp", "insert"}
    PROVE  Undecided(t) /\ ~Committed(t)
<1>1. t # Sys /\ verdict[t] = "none" /\ clog[t] = "none"
  BY RowUpdateAssumption DEF IInv, Phases, Over, TypeOK
<1> QED  BY <1>1 DEF Undecided, Committed

\* Steps that leave the heap and the decisions alone.
LEMMA SolidCalm ==
    ASSUME IInv, Solid, [Next]_vars, UNCHANGED <<heap, clog>>,
           \A x \in Txns : \A v : Moving(x, v)' <=> Moving(x, v)
    PROVE  Solid'
<1>h. \A v \in DOMAIN heap : heap[v] \in Version
  BY DEF IInv, TypeOK
<1>1. \A r : Live(r)' = Live(r)
  BY DEF Live, Committed
<1>2. \A t \in Txns, r \in Rows : MovingIn(t, r)' <=> MovingIn(t, r)
  BY DEF MovingIn
<1>3. \A t \in Txns, r \in Rows : \A v : Tip(t, r, v)' <=> Tip(t, r, v)
  BY DEF Tip
<1>4. ASSUME NEW r \in Rows PROVE One(r)'
  <2>1. One(r)
    BY DEF Solid
  <2> QED  BY <1>1, <2>1, DoneKept DEF One
<1>5. Anchored'
  BY <1>1, UndecidedBefore DEF Solid, Anchored
<1>6. OneTip'
  BY <1>3 DEF Solid, OneTip
<1>7. NoTip'
  BY <1>2, <1>3 DEF Solid, NoTip
<1>8. HasTip'
  <2> SUFFICES ASSUME NEW t \in Txns, NEW r \in Rows, NEW v \in DOMAIN heap, Undecided(t)',
                      op'[t] = "update", heap[v].row = r, heap[v].xmax = t, ~MovingIn(t, r)'
               PROVE  \E w \in DOMAIN heap : Tip(t, r, w)'
    BY DEF HasTip
  <2>1. <<t, v>> \in applied
    BY RowUpdateAssumption DEF IInv, Traces
  <2>2. ~Unregistered(t)
    BY <2>1 DEF IInv, Traces
  <2>3. op[t] = "update" /\ Undecided(t)
    BY <2>2, Growth, UndecidedBefore DEF Grown
  <2>4. PICK w \in DOMAIN heap : Tip(t, r, w)
    BY <1>2, <2>3 DEF Solid, HasTip
  <2> QED  BY <1>3, <2>4
<1> QED  BY <1>4, <1>5, <1>6, <1>7, <1>8 DEF Solid

\* A commit puts the transaction's version of each row it has changed in the place of the live one.
LEMMA SolidDecide ==
    ASSUME IInv, Solid, Private, Updates, [Next]_vars, NEW t \in Txns, Others(t), Decide(t)
    PROVE  Solid'
<1>h. DOMAIN heap = 1 .. Len(heap) /\ \A v \in DOMAIN heap : heap[v] \in Version
  BY DEF IInv, TypeOK
<1>s. Calm(t)
  BY DEF Calm
<1>m. UNCHANGED <<heap, applied>> /\ \A x \in Txns : \A v : Moving(x, v)' <=> Moving(x, v)
  BY <1>s, CalmFacts
<1>d. pc[t] = "decide" /\ UNCHANGED <<op, verdict>> /\ clog' = [clog EXCEPT ![t] = verdict[t]]
  BY DEF Decide, stmtVars
<1>c. clog \in [Txns -> {"none", "committed", "aborted"}] /\ t # Sys
  BY RowUpdateAssumption DEF IInv, TypeOK
<1>1. CASE verdict[t] # "committed" \/ clog[t] = "committed"
  <2>1. \A u : Committed(u)' <=> Committed(u)
    <3>1. clog[t] = "committed" => verdict[t] = "committed"
      BY DEF IInv, Phases
    <3> QED  BY <1>1, <1>c, <1>d, <3>1 DEF Committed
  <2>2. \A r : Live(r)' = Live(r)
    BY <1>m, <2>1 DEF Live
  <2>3. ASSUME NEW r \in Rows PROVE One(r)'
    <3>1. One(r)
      BY DEF Solid
    <3> QED  BY <1>m, <2>2, <3>1, DoneKept DEF One
  <2>4. Anchored'
    BY <1>m, <2>2, UndecidedBefore DEF Solid, Anchored
  <2>5. OneTip' /\ NoTip' /\ HasTip'
    <3>1. \A x \in Txns, r \in Rows : MovingIn(x, r)' <=> MovingIn(x, r)
      BY <1>m DEF MovingIn
    <3>2. \A x \in Txns, r \in Rows : \A v : Tip(x, r, v)' <=> Tip(x, r, v)
      BY <1>m DEF Tip
    <3>3. OneTip'
      BY <1>m, <3>2 DEF Solid, OneTip
    <3>4. NoTip'
      BY <1>m, <3>1, <3>2 DEF Solid, NoTip
    <3>5. HasTip'
      BY <1>d, <1>m, <3>1, <3>2, UndecidedBefore DEF Solid, HasTip
    <3> QED  BY <3>3, <3>4, <3>5
  <2> QED  BY <2>3, <2>4, <2>5 DEF Solid
<1>2. CASE verdict[t] = "committed" /\ clog[t] # "committed"
  <2>u. Undecided(t) /\ ~Committed(t) /\ ~Committed(None)
    BY <1>2, <1>c, RowUpdateAssumption DEF Undecided, Committed
  <2>c. \A u : Committed(u)' <=> (u = t \/ Committed(u))
    BY <1>2, <1>c, <1>d DEF Committed
  <2>l. \A r : Live(r)' = {v \in DOMAIN heap : /\ heap[v].row = r
                                               /\ heap[v].xmin = t \/ Committed(heap[v].xmin)
                                               /\ heap[v].xmax # t /\ ~Committed(heap[v].xmax)}
    BY <1>m, <2>c DEF Live
  <2>1. \A x \in Txns, r \in Rows : MovingIn(x, r)' <=> MovingIn(x, r)
    BY <1>m DEF MovingIn
  <2>2. \A x \in Txns, r \in Rows : \A v : Tip(x, r, v)' <=> Tip(x, r, v)
    BY <1>m DEF Tip
  <2>3. OneTip' /\ NoTip'
    BY <1>m, <2>1, <2>2 DEF Solid, OneTip, NoTip
  <2>4. HasTip'
    BY <1>d, <1>m, <2>1, <2>2, UndecidedBefore DEF Solid, HasTip
  <2>5. Anchored'
    <3> SUFFICES ASSUME NEW x \in Txns, NEW r \in Rows, NEW w \in DOMAIN heap, Undecided(x)',
                        heap[w].row = r, x \in {heap[w].xmin, heap[w].xmax}
                 PROVE  \E v \in Live(r)' : heap[v].xmax = x
      BY <1>m DEF Anchored
    <3>1. PICK v \in Live(r) : heap[v].xmax = x
      BY UndecidedBefore DEF Solid, Anchored
    <3>2. x # t /\ ~Committed(x)
      BY <1>2, <1>c, <1>d, RowUpdateAssumption DEF Undecided, Committed
    <3>3. v \in Live(r)'
      BY <2>l, <3>1, <3>2 DEF Live
    <3> QED  BY <3>1, <3>3
  <2>6. ASSUME NEW r \in Rows PROVE One(r)'
    <3>o. One(r)
      BY DEF Solid
    <3>1. CASE \A w \in DOMAIN heap : heap[w].row = r => t \notin {heap[w].xmin, heap[w].xmax}
      <4>1. Live(r)' = Live(r)
        BY <2>l, <3>1 DEF Live
      <4> QED  BY <1>m, <3>o, <4>1, DoneKept DEF One
    <3>2. ASSUME NEW w \in DOMAIN heap, heap[w].row = r, t \in {heap[w].xmin, heap[w].xmax}
          PROVE  One(r)'
      <4>1. PICK v \in Live(r) : heap[v].xmax = t
        BY <2>u, <3>2 DEF Solid, Anchored
      <4>2. Live(r) = {v} /\ v \in DOMAIN heap /\ heap[v].row = r
        BY <3>o, <4>1 DEF One, Live
      <4>3. \A y \in DOMAIN heap : y \in Live(r)' <=> Tip(t, r, y)
        <5> TAKE y \in DOMAIN heap
        <5>1. y \in Live(r)' => Tip(t, r, y)
          <6> SUFFICES ASSUME y \in Live(r)', heap[y].xmin # t PROVE FALSE
            BY <2>l DEF Tip
          <6>1. y \in Live(r) /\ heap[y].xmax # t
            BY <2>l DEF Live
          <6> QED  BY <4>1, <4>2, <6>1
        <5>2. Tip(t, r, y) => y \in Live(r)'
          <6> SUFFICES ASSUME Tip(t, r, y), Committed(heap[y].xmax) PROVE FALSE
            BY <2>l DEF Tip
          <6>1. heap[y].xmin = t /\ heap[y].xmax \notin {None, heap[y].xmin}
            BY <2>u DEF Tip
          <6> QED  BY <2>u, <6>1 DEF Private
        <5> QED  BY <5>1, <5>2
      <4>4. Live(r)' \subseteq DOMAIN heap
        BY <2>l
      <4>5. op[t] \in {"update", "delete"} /\ <<t, v>> \in applied
        BY <4>1, <4>2, RowUpdateAssumption DEF IInv, TypeOK, Traces
      <4>6. CASE op[t] = "delete"
        <5>1. Live(r)' = {}
          <6>1. \A y \in DOMAIN heap : ~Tip(t, r, y)
            BY <1>c, <4>6 DEF Updates, Tip
          <6> QED  BY <4>3, <4>4, <6>1
        <5>2. clog'[t] = "committed"
          BY <1>2, <1>c, <1>d
        <5>3. Gone(r)'
          BY <1>d, <1>m, <4>2, <4>5, <4>6, <5>2 DEF Gone
        <5> QED  BY <5>1, <5>3 DEF One
      <4>7. CASE op[t] = "update"
        <5>1. ~MovingIn(t, r)
          BY <1>d DEF MovingIn, Moving
        <5>2. PICK y \in DOMAIN heap : Tip(t, r, y)
          BY <2>u, <4>1, <4>2, <4>7, <5>1 DEF Solid, HasTip
        <5>3. \A z \in DOMAIN heap : Tip(t, r, z) => z = y
          BY <5>2 DEF Solid, OneTip
        <5>4. Live(r)' = {y}
          BY <4>3, <4>4, <5>2, <5>3
        <5> QED  BY <1>m, <5>4 DEF One
      <4> QED  BY <4>5, <4>6, <4>7
    <3> QED  BY <3>1, <3>2
  <2> QED  BY <2>3, <2>4, <2>5, <2>6 DEF Solid
<1> QED  BY <1>1, <1>2

\* A stamp goes on the live version of the row, or on the transaction's own last one.
LEMMA SolidStamp ==
    ASSUME IInv, Sound, Solid, FoundCommitted, [Next]_vars, NEW t \in Txns, Others(t),
           NEW u \in matched[t], Stamp(t, u)
    PROVE  Solid'
<1>s. /\ u \in DOMAIN heap /\ DOMAIN heap' = DOMAIN heap
      /\ \A w \in DOMAIN heap :
            /\ heap'[w].row = heap[w].row /\ heap'[w].xmin = heap[w].xmin
            /\ heap'[w].xmax = IF w = u THEN t ELSE heap[w].xmax
      /\ UNCHANGED <<clog, op, verdict>> /\ First(t, u) /\ pc[t] = "stamp"
  BY StampStep
<1>v. /\ \A x \in Txns : \A w : x # t => (Moving(x, w)' <=> Moving(x, w))
      /\ \A w : ~Moving(t, w)
      /\ \A w \in DOMAIN heap : Moving(t, w)' <=> (op[t] = "update" /\ w = u)
  BY StampStep
<1>h. \A v \in DOMAIN heap : heap[v] \in Version
  BY DEF IInv, TypeOK
<1>t. /\ Undecided(t) /\ ~Committed(t) /\ ~Committed(None) /\ t # None
      /\ heap[u].xmax \in Txns \cup {None} /\ heap[u].row \in Rows
  BY <1>h, <1>s, RunningUndecided, RowUpdateAssumption DEF Committed, Version
<1>n. heap[u].xmax # t /\ (heap[u].xmin = t \/ Committed(heap[u].xmin))
  BY <1>v DEF FoundCommitted
<1>a. heap[u].xmax # None => verdict[heap[u].xmax] = "aborted"
  <2> SUFFICES ASSUME heap[u].xmax # None PROVE verdict[heap[u].xmax] = "aborted"
    OBVIOUS
  <2>1. PICK d \in Txns : d = heap[u].xmax
    BY <1>t
  <2>2. Aborts(t, d)
    BY <1>n, <1>s, <2>1 DEF IInv, Believed
  <2> QED  BY <2>1, <2>2 DEF Aborts, Sound
<1>b. ~Committed(heap[u].xmax)
  <2>1. CASE heap[u].xmax = None
    BY <1>t, <2>1
  <2>2. CASE heap[u].xmax # None
    BY <1>a, <1>t, <2>2, RowUpdateAssumption DEF Committed, IInv, Phases
  <2> QED  BY <2>1, <2>2
<1>c. \A x : Committed(x)' <=> Committed(x)
  BY <1>s DEF Committed
<1>l. \A r : Live(r)' = Live(r)
  <2> TAKE r
  <2>1. \A v \in DOMAIN heap : v \in Live(r)' <=> v \in Live(r)
    BY <1>b, <1>c, <1>s, <1>t DEF Live
  <2> QED  BY <1>s, <2>1 DEF Live
<1>p. \A x \in Txns, r \in Rows : \A w \in DOMAIN heap : Tip(x, r, w)' => Tip(x, r, w)
  <2> SUFFICES ASSUME NEW x \in Txns, NEW r \in Rows, NEW w \in DOMAIN heap, Tip(x, r, w)',
                      heap[w].xmax = x
               PROVE  FALSE
    BY <1>s DEF Tip
  <2>1. w = u /\ heap[u].xmin = x /\ x # t
    BY <1>n, <1>s DEF Tip
  <2> QED  BY <1>b, <1>n, <2>1
<1>q. \A x \in Txns, r \in Rows : \A w \in DOMAIN heap :
         Tip(x, r, w) /\ (x # t \/ w # u) => Tip(x, r, w)'
  BY <1>s DEF Tip
<1>m. \A x \in Txns, r \in Rows : x # t => (MovingIn(x, r)' <=> MovingIn(x, r))
  BY <1>s, <1>v DEF MovingIn
<1>1. ASSUME NEW r \in Rows PROVE One(r)'
  <2>1. One(r)
    BY DEF Solid
  <2> QED  BY <1>l, <1>s, <2>1, DoneKept DEF One
<1>2. Anchored'
  <2> SUFFICES ASSUME NEW x \in Txns, NEW r \in Rows, NEW w \in DOMAIN heap, Undecided(x),
                      heap[w].row = r, x \in {heap[w].xmin, heap'[w].xmax}
               PROVE  \E v \in Live(r) : heap'[v].xmax = x
    BY <1>l, <1>s DEF Anchored, Undecided
  <2>1. CASE x \in {heap[w].xmin, heap[w].xmax}
    <3>1. PICK v \in Live(r) : heap[v].xmax = x
      BY <2>1 DEF Solid, Anchored
    <3>2. v # u \/ x = t
      <4> SUFFICES ASSUME v = u PROVE FALSE
        OBVIOUS
      <4> QED  BY <1>a, <1>t, <3>1, RowUpdateAssumption DEF Undecided
    <3>3. v \in DOMAIN heap
      BY DEF Live
    <3> QED  BY <1>s, <3>1, <3>2, <3>3
  <2>2. CASE x \notin {heap[w].xmin, heap[w].xmax}
    <3>1. w = u /\ x = t
      BY <1>s, <2>2
    <3>2. u \in Live(r)
      BY <1>b, <1>n, <1>s, <2>2, <3>1 DEF Live
    <3> QED  BY <1>s, <3>1, <3>2
  <2> QED  BY <2>1, <2>2
<1>3. OneTip'
  BY <1>p, <1>s DEF Solid, OneTip
<1>4. HasTip'
  <2> SUFFICES ASSUME NEW x \in Txns, NEW r \in Rows, NEW v \in DOMAIN heap, Undecided(x),
                      op[x] = "update", heap[v].row = r, heap'[v].xmax = x, ~MovingIn(x, r)'
               PROVE  \E w \in DOMAIN heap : Tip(x, r, w)'
    BY <1>s DEF HasTip, Undecided
  <2>1. CASE x # t
    <3>1. v # u /\ heap[v].xmax = x
      BY <1>s, <2>1
    <3>2. PICK w \in DOMAIN heap : Tip(x, r, w)
      BY <1>m, <2>1, <3>1 DEF Solid, HasTip
    <3> QED  BY <1>q, <2>1, <3>2
  <2>2. CASE x = t
    <3>1. heap[u].row # r
      BY <1>s, <1>v, <2>2 DEF MovingIn
    <3>2. heap[v].xmax = t /\ ~MovingIn(t, r)
      BY <1>s, <1>v, <2>2, <3>1 DEF MovingIn
    <3>3. PICK w \in DOMAIN heap : Tip(t, r, w)
      BY <2>2, <3>2 DEF Solid, HasTip
    <3>4. w # u
      BY <3>1, <3>3 DEF Tip
    <3> QED  BY <1>q, <2>2, <3>3, <3>4
  <2> QED  BY <2>1, <2>2
<1>5. NoTip'
  <2> SUFFICES ASSUME NEW x \in Txns, NEW r \in Rows, MovingIn(x, r)', NEW w \in DOMAIN heap,
                      Tip(x, r, w)'
               PROVE  FALSE
    BY <1>s DEF NoTip
  <2>1. CASE x # t
    BY <1>m, <1>p, <2>1 DEF Solid, NoTip
  <2>2. CASE x = t
    <3>1. heap[u].row = r
      BY <1>s, <1>v, <2>2 DEF MovingIn
    <3>2. Tip(t, r, w) /\ w # u
      BY <1>p, <1>s, <2>2 DEF Tip
    <3>3. CASE heap[u].xmin = t
      <4>1. Tip(t, r, u)
        BY <1>n, <3>1, <3>3 DEF Tip
      <4> QED  BY <1>s, <3>2, <4>1 DEF Solid, OneTip
    <3>4. CASE Committed(heap[u].xmin)
      <4>1. u \in Live(r)
        BY <1>b, <1>s, <3>1, <3>4 DEF Live
      <4>2. PICK v \in Live(r) : heap[v].xmax = t
        BY <1>t, <3>2 DEF Solid, Anchored, Tip
      <4>3. One(r)
        BY DEF Solid
      <4> QED  BY <1>n, <4>1, <4>2, <4>3 DEF One
    <3> QED  BY <1>n, <3>3, <3>4
  <2> QED  BY <2>1, <2>2
<1> QED  BY <1>1, <1>2, <1>3, <1>4, <1>5 DEF Solid

\* The new version is the only one of the transaction to take the place of the live version.
LEMMA SolidInsert ==
    ASSUME IInv, Solid, Inserting, [Next]_vars, NEW t \in Txns, Others(t),
           NEW u \in matched[t], InsertVersion(t, u)
    PROVE  Solid'
<1>n. PICK n : n = Len(heap) + 1
  OBVIOUS
<1>s. /\ u \in DOMAIN heap /\ DOMAIN heap = 1 .. Len(heap) /\ Len(heap) \in Nat
      /\ DOMAIN heap' = 1 .. Len(heap) + 1
      /\ \A w \in DOMAIN heap : heap'[w] = heap[w]
      /\ heap'[n] = [row |-> heap[u].row, xmin |-> t, xmax |-> None]
      /\ UNCHANGED <<clog, op, verdict>>
  BY <1>n, InsertStep
<1>v. /\ Moving(t, u)
      /\ \A x \in Txns : \A w : x # t => (Moving(x, w)' <=> Moving(x, w))
      /\ \A w : ~Moving(t, w)'
      /\ \A w \in DOMAIN heap : Moving(t, w) => w = u
  BY <1>s, InsertStep
<1>r. heap'[n].row = heap[u].row /\ heap'[n].xmin = t /\ heap'[n].xmax = None
  BY <1>s
<1>e. n \notin DOMAIN heap /\ DOMAIN heap' = DOMAIN heap \cup {n}
  BY <1>n, <1>s
<1>h. \A x \in Txns : matched[x] \subseteq DOMAIN heap
  BY <1>s DEF IInv, TypeOK
<1>t. Undecided(t) /\ ~Committed(t) /\ t # None
  BY <1>v, RunningUndecided, RowUpdateAssumption DEF Moving
<1>u. heap[u].xmax = t
  BY <1>s, <1>v DEF Inserting
<1>c. \A x : Committed(x)' <=> Committed(x)
  BY <1>s DEF Committed
<1>l. \A r : Live(r)' = Live(r)
  <2> TAKE r
  <2>1. \A v \in DOMAIN heap : v \in Live(r)' <=> v \in Live(r)
    BY <1>c, <1>e, <1>s DEF Live
  <2>2. n \notin Live(r)'
    BY <1>c, <1>r, <1>t DEF Live
  <2>3. Live(r)' \subseteq DOMAIN heap \cup {n} /\ Live(r) \subseteq DOMAIN heap
    BY <1>e DEF Live
  <2> QED  BY <2>1, <2>2, <2>3
<1>p. \A x \in Txns, r \in Rows : \A w \in DOMAIN heap : Tip(x, r, w)' <=> Tip(x, r, w)
  BY <1>s DEF Tip
<1>q. \A x \in Txns, r \in Rows : Tip(x, r, n)' <=> (x = t /\ r = heap[u].row)
  BY <1>r, <1>t DEF Tip
<1>m. \A x \in Txns, r \in Rows : x # t => (MovingIn(x, r)' <=> MovingIn(x, r))
  <2> SUFFICES ASSUME NEW x \in Txns, NEW r \in Rows, x # t PROVE MovingIn(x, r)' <=> MovingIn(x, r)
    OBVIOUS
  <2>1. \A w : Moving(x, w) => w \in DOMAIN heap
    BY <1>h DEF Moving, First
  <2> QED  BY <1>e, <1>s, <1>v, <2>1 DEF MovingIn
<1>k. \A r \in Rows : ~MovingIn(t, r)' /\ (MovingIn(t, r) <=> heap[u].row = r)
  BY <1>s, <1>v DEF MovingIn
<1>1. ASSUME NEW r \in Rows PROVE One(r)'
  <2>1. One(r)
    BY DEF Solid
  <2> QED  BY <1>e, <1>l, <2>1, DoneKept DEF One
<1>2. Anchored'
  <2> SUFFICES ASSUME NEW x \in Txns, NEW r \in Rows, NEW w \in DOMAIN heap', Undecided(x),
                      heap'[w].row = r, x \in {heap'[w].xmin, heap'[w].xmax}
               PROVE  \E v \in Live(r) : heap'[v].xmax = x
    BY <1>l, <1>s DEF Anchored, Undecided
  <2>1. \E y \in DOMAIN heap : heap[y].row = r /\ x \in {heap[y].xmin, heap[y].xmax}
    <3>1. CASE w \in DOMAIN heap
      BY <1>s, <3>1
    <3>2. CASE w = n
      BY <1>r, <1>s, <1>u, <3>2, RowUpdateAssumption
    <3> QED  BY <1>e, <3>1, <3>2
  <2>2. PICK v \in Live(r) : heap[v].xmax = x
    BY <2>1 DEF Solid, Anchored
  <2>3. v \in DOMAIN heap
    BY DEF Live
  <2> QED  BY <1>s, <2>2, <2>3
<1>3. OneTip'
  <2> SUFFICES ASSUME NEW x \in Txns, NEW r \in Rows, NEW v \in DOMAIN heap', NEW w \in DOMAIN heap',
                      Tip(x, r, v)', Tip(x, r, w)', v # w
               PROVE  FALSE
    BY DEF OneTip
  <2>1. CASE v \in DOMAIN heap /\ w \in DOMAIN heap
    BY <1>p, <2>1 DEF Solid, OneTip
  <2>2. ASSUME NEW y \in DOMAIN heap, Tip(x, r, y)', Tip(x, r, n)' PROVE FALSE
    <3>1. x = t /\ MovingIn(t, r) /\ Tip(t, r, y)
      BY <1>k, <1>p, <1>q, <2>2
    <3> QED  BY <3>1 DEF Solid, NoTip
  <2> QED  BY <1>e, <2>1, <2>2
<1>4. HasTip'
  <2> SUFFICES ASSUME NEW x \in Txns, NEW r \in Rows, NEW v \in DOMAIN heap', Undecided(x),
                      op[x] = "update", heap'[v].row = r, heap'[v].xmax = x, ~MovingIn(x, r)'
               PROVE  \E w \in DOMAIN heap' : Tip(x, r, w)'
    BY <1>s DEF HasTip, Undecided
  <2>1. v \in DOMAIN heap /\ heap[v].row = r /\ heap[v].xmax = x
    BY <1>e, <1>r, <1>s, RowUpdateAssumption
  <2>2. CASE x = t /\ r = heap[u].row
    BY <1>e, <1>q, <2>2
  <2>3. CASE ~(x = t /\ r = heap[u].row)
    <3>1. ~MovingIn(x, r)
      BY <1>k, <1>m, <2>3
    <3>2. PICK w \in DOMAIN heap : Tip(x, r, w)
      BY <2>1, <3>1 DEF Solid, HasTip
    <3> QED  BY <1>e, <1>p, <3>2
  <2> QED  BY <2>2, <2>3
<1>5. NoTip'
  <2> SUFFICES ASSUME NEW x \in Txns, NEW r \in Rows, MovingIn(x, r)', NEW w \in DOMAIN heap',
                      Tip(x, r, w)'
               PROVE  FALSE
    BY DEF NoTip
  <2>1. x # t /\ MovingIn(x, r)
    BY <1>k, <1>m
  <2>2. w \in DOMAIN heap /\ Tip(x, r, w)
    BY <1>e, <1>p, <1>q, <2>1
  <2> QED  BY <2>1, <2>2 DEF Solid, NoTip
<1> QED  BY <1>1, <1>2, <1>3, <1>4, <1>5 DEF Solid

\* A row has one live version before and after every step.
LEMMA SolidKept ==
    ASSUME IInv, Judged, Inserting, FoundCommitted, Private, Updates, Sound => Solid, [Next]_vars, Sound'
    PROVE  Solid'
<1>1. Sound /\ Solid
  BY SoundBefore
<1>0. CASE UNCHANGED vars
  <2>1. UNCHANGED <<heap, clog>> /\ \A x \in Txns : \A v : Moving(x, v)' <=> Moving(x, v)
    BY <1>0 DEF vars, txnVars, scanVars, Moving, First
  <2> QED  BY <1>1, <2>1, SolidCalm
<1>2. ASSUME NEW t \in Txns, Others(t), Calm(t) PROVE Solid'
  <2>1. UNCHANGED heap /\ \A x \in Txns : \A v : Moving(x, v)' <=> Moving(x, v)
    BY <1>2, CalmFacts
  <2>2. CASE Decide(t)
    BY <1>1, <1>2, <2>2, SolidDecide
  <2>3. CASE ~Decide(t)
    <3>1. UNCHANGED clog
      BY <1>2, <2>3
      DEF Calm, Leaves, Proceeds, Succeeds, Concludes, TakeSnapshot, ScanVersion, Still, txnVars
    <3> QED  BY <1>1, <2>1, <3>1, SolidCalm
  <2> QED  BY <2>2, <2>3
<1>3. ASSUME NEW t \in Txns, Others(t), NEW v \in matched[t], Stamp(t, v) PROVE Solid'
  BY <1>1, <1>3, SolidStamp
<1>4. ASSUME NEW t \in Txns, Others(t), NEW v \in matched[t], InsertVersion(t, v) PROVE Solid'
  BY <1>1, <1>4, SolidInsert
<1> QED  BY <1>0, <1>2, <1>3, <1>4, Moves DEF Move

\* The invariant about rows.
RInv ==
    /\ IInv /\ Judged /\ Roots /\ Inserting /\ Replaced /\ Covered
    /\ FoundCommitted /\ Private /\ Updates /\ (Sound => Solid)

\* At first every row has one version.
LEMMA InitSolid == Init => Solid /\ Roots
<1> SUFFICES ASSUME Init PROVE Solid /\ Roots
  OBVIOUS
<1> DEFINE n == Cardinality(Rows)
<1>1. n \in Nat /\ IsFiniteSet(Rows)
  BY RowUpdateAssumption, FS_CardinalityType
<1>2. /\ heap \in [1 .. n -> [row : Rows, xmin : {Sys}, xmax : {None}]]
      /\ {heap[v].row : v \in DOMAIN heap} = Rows
  BY DEF Init
<1>3. IsFiniteSet(1 .. n) /\ Cardinality(1 .. n) = n
  BY <1>1, FS_Interval
<1>4. /\ DOMAIN heap = 1 .. n
      /\ \A v \in 1 .. n : heap[v].row \in Rows /\ heap[v].xmin = Sys /\ heap[v].xmax = None
  BY <1>2
<1>5. \A v, w \in DOMAIN heap : heap[v].row = heap[w].row => v = w
  <2> DEFINE f == [v \in 1 .. n |-> heap[v].row]
  <2>1. f \in [1 .. n -> Rows] /\ \A v \in 1 .. n : f[v] = heap[v].row
    BY <1>4
  <2>2. \A r \in Rows : \E v \in 1 .. n : f[v] = r
    BY <1>2, <1>4, <2>1
  <2> HIDE DEF f
  <2>3. f \in Surjection(1 .. n, Rows)
    BY <2>1, <2>2 DEF Surjection
  <2> HIDE DEF n
  <2>4. f \in Injection(1 .. n, Rows)
    BY <1>1, <1>3, <2>3, FS_SurjSameCardinalityImpliesInj DEF n
  <2> QED  BY <1>4, <2>1, <2>4 DEF Injection, IsInjective
<1>6. Roots
  BY <1>2, <1>4 DEF Roots
<1>7. ASSUME NEW r \in Rows PROVE One(r)
  <2>1. PICK v \in DOMAIN heap : heap[v].row = r
    BY <1>2
  <2>2. Live(r) = {v}
    <3>1. Committed(Sys) /\ ~Committed(None)
      BY RowUpdateAssumption DEF Committed
    <3> QED  BY <1>4, <1>5, <2>1, <3>1 DEF Live
  <2> QED  BY <2>2 DEF One
<1>8. \A t \in Txns, r \in Rows : \A v \in DOMAIN heap :
         heap[v].xmin # t /\ heap[v].xmax # t /\ ~Tip(t, r, v)
  BY <1>4, RowUpdateAssumption DEF Tip
<1>9. Anchored /\ OneTip /\ HasTip /\ NoTip
  BY <1>8 DEF Anchored, OneTip, HasTip, NoTip
<1> QED  BY <1>6, <1>7, <1>9 DEF Solid

-----------------------------------------------------------------------------
(* Theorems about rows *)

\* Rows stay accounted for and keep one live version as long as nobody is misread.
THEOREM RowInvariance == Spec => []RInv
<1>1. Init /\ IInv => RInv
  <2> SUFFICES ASSUME Init, IInv PROVE RInv
    OBVIOUS
  <2>1. Solid /\ Roots
    BY InitSolid
  <2>2. Judged /\ Inserting /\ Replaced
    BY DEF Init, Judged, Inserting, Replaced, Moving
  <2>3. Covered
    BY DEF Init, Covered, Working
  <2>4. FoundCommitted
    BY DEF Init, FoundCommitted
  <2>5. Private /\ Updates
    <3>1. heap \in [1 .. Cardinality(Rows) -> [row : Rows, xmin : {Sys}, xmax : {None}]]
      BY DEF Init
    <3>2. \A v \in DOMAIN heap : heap[v].xmin = Sys /\ heap[v].xmax = None
      BY <3>1
    <3> QED  BY <3>2 DEF Private, Updates
  <2> QED  BY <2>1, <2>2, <2>3, <2>4, <2>5 DEF RInv
<1>2. RInv /\ IInv' /\ [Next]_vars => RInv'
  <2> SUFFICES ASSUME RInv, IInv', [Next]_vars PROVE RInv'
    OBVIOUS
  <2>1. Judged' /\ Roots' /\ Inserting' /\ Replaced' /\ Covered'
    BY JudgedKept, RootsKept, InsertingKept, ReplacedKept, CoveredKept DEF RInv
  <2>2. FoundCommitted' /\ Private' /\ Updates'
    BY FoundCommittedKept, PrivateKept, UpdatesKept DEF RInv
  <2>3. Sound' => Solid'
    BY SolidKept DEF RInv
  <2> QED  BY <2>1, <2>2, <2>3 DEF RInv
<1> QED  BY <1>1, <1>2, Invariance, PTL DEF Spec

\* Whom nobody takes for aborted wrongly has not been misread.
LEMMA NoMisreadingSound == IInv /\ NoMisreading => Sound
<1> SUFFICES ASSUME IInv, NoMisreading, NEW p \in misread PROVE verdict[p[2]] = "aborted"
  BY DEF Sound
<1>1. p[2] \in Txns /\ clog[p[2]] = "aborted"
  BY DEF IInv, TypeOK, NoMisreading
<1> QED  BY <1>1 DEF IInv, Phases

\* What the history says of a row that is gone.
LEMMA GoneApplied ==
    ASSUME NEW r, Gone(r)
    PROVE  \E p \in applied : /\ op[p[1]] = "delete" /\ Committed(p[1])
                              /\ heap[p[2]].row = r
<1>1. PICK u \in Txns, v \in DOMAIN heap :
         /\ <<u, v>> \in applied /\ heap[v].row = r
         /\ op[u] = "delete" /\ clog[u] = "committed"
  BY DEF Gone
<1>2. PICK p \in applied : p = <<u, v>>
  BY <1>1
<1> QED  BY <1>1, <1>2 DEF Committed

\* perform_update and perform_delete with their restarts: a statement whose transaction commits
\* has changed every row in its scope, or a committed DELETE has removed the row.
THEOREM ScopeCovered == Spec => []SuccessCoversScope
<1>1. RInv => SuccessCoversScope
  <2> SUFFICES ASSUME RInv, NoMisreading, NEW t \in Txns, clog[t] = "committed", NEW r \in scope[t]
               PROVE  \/ \E p \in applied : p[1] = t /\ heap[p[2]].row = r
                      \/ \E p \in applied : /\ op[p[1]] = "delete" /\ Committed(p[1])
                                            /\ heap[p[2]].row = r
    BY DEF SuccessCoversScope
  <2>1. Sound
    BY NoMisreadingSound DEF RInv
  <2>2. verdict[t] = "committed" /\ ~Working(t)
    BY DEF RInv, IInv, Phases, Over, Working
  <2>3. Done(t, r) \/ Gone(r)
    BY <2>1, <2>2 DEF RInv, Covered, Cover, Found, Ahead, Working
  <2>4. CASE Done(t, r)
    <3>1. PICK v \in DOMAIN heap : <<t, v>> \in applied /\ heap[v].row = r
      BY <2>4 DEF Done
    <3>2. PICK p \in applied : p = <<t, v>>
      BY <3>1
    <3> QED  BY <3>1, <3>2
  <2> QED  BY <2>3, <2>4, GoneApplied
<1> QED  BY <1>1, RowInvariance, PTL

\* Commits and aborts switch the versions of a row atomically: in every state a row has exactly
\* one committed version that no committed transaction has replaced, or a committed DELETE has
\* removed it.
THEOREM OneVersionLives == Spec => []OneLiveVersion
<1>1. RInv => OneLiveVersion
  <2> SUFFICES ASSUME RInv, NoMisreading, NEW r \in Rows
               PROVE  \/ Cardinality(Live(r)) = 1
                      \/ /\ Live(r) = {}
                         /\ \E p \in applied : /\ op[p[1]] = "delete" /\ Committed(p[1])
                                               /\ heap[p[2]].row = r
    BY DEF OneLiveVersion
  <2>1. One(r)
    BY NoMisreadingSound DEF RInv, Solid
  <2>2. ASSUME NEW v \in DOMAIN heap, Live(r) = {v} PROVE Cardinality(Live(r)) = 1
    BY <2>2, FS_Singleton
  <2>3. CASE Live(r) = {} /\ Gone(r)
    BY <2>3, GoneApplied
  <2> QED  BY <2>1, <2>2, <2>3 DEF One
<1> QED  BY <1>1, RowInvariance, PTL

====
