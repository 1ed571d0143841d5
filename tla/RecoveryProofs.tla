--------------------------- MODULE RecoveryProofs ---------------------------
(***************************************************************************)
(* Proofs about Recovery: what COMMIT acknowledged survives, no            *)
(* transaction comes to count as committed that did not log its Commit, a  *)
(* sequence repeats itself only for the reasons RepeatsOnlyIf lists, and   *)
(* redo fails only for those of StartupFailsOnlyIf, for any number of      *)
(* transactions, log records, kills (in the middle of start-up too) and    *)
(* checkpoints, and every workload.                                        *)
(*                                                                         *)
(* The argument.  What is on record as committed, in memory or in clog.db, *)
(* has its Commit record in the durable part of the log, which no kill     *)
(* takes away, or has changed nothing and can change nothing any more.     *)
(* That the durable part only grows needs the page_lsn of every image to   *)
(* be a number, also after redo, which is defined by recursion over the    *)
(* log: RedoneIsARun unfolds it, and an induction is a least               *)
(* counterexample (LeastExists).                                           *)
(***************************************************************************)
EXTENDS Recovery, SequenceTheorems, FiniteSetTheorems, WellFoundedInduction, TLAPS

Statuses == {"InProgress", "Committed", "Aborted"}
Modes    == {None, "rw", "ro", "vac"}
Stages   == {None, "open", "Commit", "Abort", "Committed", "Aborted"}
Changes  == {"Insert", "Delete"}
Kinds    == Changes \cup {"Begin", "Commit", "Abort", "SeqAdvance", "Checkpoint"}

\* The log is a sequence.
IsSeq(s) == s \in Seq({s[i] : i \in DOMAIN s})

\* A page file: every image has a number for its page_lsn.
PageFile(f) == DOMAIN f = Pages /\ \A p \in Pages : "lsn" \in DOMAIN f[p] /\ f[p].lsn \in Nat

\* A record of the log: whose it is and which page it changes.
RecordOK(r) ==
    /\ r.kind \in Kinds
    /\ r.kind \in Changes \cup {"Begin", "Commit", "SeqAdvance"} => r.txn \in issued
    /\ r.kind \in Changes => r.page \in Heap

TypeInv ==
    /\ IsSeq(log) /\ \A i \in DOMAIN log : RecordOK(log[i])
    /\ durable \in Nat
    /\ PageFile(mem) /\ PageFile(disk)
    /\ clog \in [Ids -> Statuses] /\ clogDisk \in [Ids -> Statuses]
    /\ mode \in [Ids -> Modes] /\ stage \in [Ids -> Stages]
    /\ issued \subseteq Ids /\ att \subseteq issued

Writes(t) == \E i \in DOMAIN log : log[i].kind \in Changes /\ log[i].txn = t
BeginLogged(t) == \E i \in DOMAIN log : log[i].kind = "Begin" /\ log[i].txn = t
CommitDurable(t) == \E i \in DOMAIN log : i <= durable /\ log[i].kind = "Commit" /\ log[i].txn = t

\* A server that is down has no transaction and no record that is not durable.
DownIsQuiet == phase = "down" => att = {} /\ durable = Len(log)

\* VACUUM has logged its Begin, whose LSN it stamps on pages.
VacuumBegan == \A t \in att : mode[t] = "vac" => BeginLogged(t)

\* An id that was never handed out has no status.
UnissuedIsOpen == \A t \in Ids \ issued : clog[t] # "Committed" /\ clogDisk[t] # "Committed"

\* The end of a transaction follows its record.
EndsInOrder ==
    \A t \in Ids : /\ stage[t] = "Commit" => CommitLogged(t)
                   /\ stage[t] = "Committed" => CommitDurable(t)

\* A reader changes nothing, unless its id belonged to a writer before.
ReadersDoNotWrite == \A t \in att \ reused : mode[t] = "ro" => ~Writes(t)

\* Who counts as committed is no longer at work, and its Commit is durable or it changed nothing.
CommittedIsBacked ==
    \A t \in Ids \ reused : clog[t] = "Committed" \/ clogDisk[t] = "Committed" =>
        t \notin att /\ (CommitDurable(t) \/ ~Writes(t))

IInv == /\ TypeInv /\ DownIsQuiet /\ VacuumBegan /\ UnissuedIsOpen
        /\ EndsInOrder /\ ReadersDoNotWrite /\ CommittedIsBacked

-----------------------------------------------------------------------------
(* Numbers, and the recursion of redo.                                     *)

\* Every non-empty set of naturals has a least element.
LEMMA LeastExists ==
  ASSUME NEW T, T \subseteq Nat, T # {}
  PROVE  \E x \in T : \A y \in T : x <= y
<1>1. \E x \in T : \A y \in T : ~ (<<y, x>> \in OpToRel(<, Nat))
  BY NatLessThanWellFounded, WFMin
<1>2. PICK x \in T : \A y \in T : ~ (<<y, x>> \in OpToRel(<, Nat))
  BY <1>1
<1>3. ASSUME NEW y \in T PROVE x <= y
  <2>1. x \in Nat /\ y \in Nat /\ <<y, x>> \notin OpToRel(<, Nat)
    BY <1>2
  <2>2. ~(y < x)
    BY <2>1 DEF OpToRel
  <2>3. \A a, b \in Nat : ~(b < a) => a <= b
    OBVIOUS
  <2> QED BY <2>1, <2>2, <2>3, Zenon
<1> QED BY <1>2, <1>3

\* Every non-empty set of naturals below a bound has a maximum.
LEMMA MaxIsMember ==
  ASSUME NEW T, NEW n \in Nat, T \subseteq 0..n, T # {}
  PROVE  Max(T) \in T /\ \A y \in T : Max(T) >= y
<1> DEFINE U == {n - i : i \in T}
<1>1. U \subseteq Nat /\ U # {}
  OBVIOUS
<1>2. PICK u \in U : \A v \in U : u <= v
  <2> HIDE DEF U
  <2> QED BY <1>1, LeastExists
<1>3. PICK x \in T : u = n - x
  OBVIOUS
<1>4. \A y \in T : x >= y
  <2> TAKE y \in T
  <2>1. n - y \in U OBVIOUS
  <2>2. u <= n - y BY <2>1, <1>2
  <2>3. x \in Nat /\ y \in Nat /\ x <= n /\ y <= n OBVIOUS
  <2> HIDE DEF U
  <2> QED BY <1>3, <2>2, <2>3
<1>5. \E z \in T : \A y \in T : z >= y
  BY <1>4
<1> QED BY <1>5 DEF Max

Seed == [pages |-> disk, alloc |-> alloc, fail |-> FALSE]
IsRun(g, n) == g = [k \in 0..n |-> IF k = 0 THEN Seed ELSE RedoRecord(g[k - 1], k)]

LEMMA RunExists ==
  ASSUME NEW n \in Nat
  PROVE  \E g : IsRun(g, n)
<1> DEFINE Gaps == {m \in Nat : ~ \E g : IsRun(g, m)}
<1>1. SUFFICES ASSUME Gaps # {} PROVE FALSE
  OBVIOUS
<1>2. PICK m \in Gaps : \A y \in Gaps : m <= y
  <2>1. Gaps \subseteq Nat OBVIOUS
  <2> HIDE DEF Gaps
  <2> QED BY <1>1, <2>1, LeastExists
<1>3. m \in Nat /\ ~ \E g : IsRun(g, m)
  OBVIOUS
<1>4. m # 0
  <2> SUFFICES ASSUME m = 0 PROVE FALSE OBVIOUS
  <2> DEFINE g == [k \in 0..0 |-> Seed]
  <2>1. g = [k \in 0..0 |-> IF k = 0 THEN Seed ELSE RedoRecord(g[k - 1], k)]
    <3>1. \A k \in 0..0 : k = 0 OBVIOUS
    <3> QED BY <3>1
  <2> QED BY <2>1, <1>3 DEF IsRun
<1>5. PICK g : IsRun(g, m - 1)
  <2>1. m - 1 \in Nat /\ ~(m <= m - 1) BY <1>3, <1>4
  <2>2. m - 1 \notin Gaps BY <2>1, <1>2
  <2> QED BY <2>1, <2>2
<1> DEFINE h == [k \in 0..m |-> IF k < m THEN g[k] ELSE RedoRecord(g[m - 1], m)]
<1>6. ASSUME NEW k \in 0..m
      PROVE  h[k] = IF k = 0 THEN Seed ELSE RedoRecord(h[k - 1], k)
  <2>1. \A j \in 0..m : j < m => h[j] = g[j] OBVIOUS
  <2>2. h[m] = RedoRecord(g[m - 1], m) BY <1>3
  <2>3. \A j \in 0..(m - 1) : g[j] = IF j = 0 THEN Seed ELSE RedoRecord(g[j - 1], j)
    BY <1>5, Zenon DEF IsRun
  <2> HIDE DEF h
  <2>4. CASE k = m
    <3>1. m - 1 \in 0..m /\ m - 1 < m BY <1>3, <1>4
    <3>2. h[m - 1] = g[m - 1] BY <3>1, <2>1
    <3> QED BY <2>4, <2>2, <3>2, <1>4
  <2>5. CASE k # m
    <3>1. k < m /\ k \in 0..(m - 1) /\ k \in Nat BY <1>3, <2>5
    <3>2. h[k] = g[k] BY <3>1, <2>1
    <3>3. CASE k = 0 BY <3>1, <3>2, <3>3, <2>3
    <3>4. CASE k # 0
      <4>1. k - 1 \in 0..m /\ k - 1 < m BY <3>1, <3>4, <1>3
      <4>2. h[k - 1] = g[k - 1] BY <4>1, <2>1
      <4>3. g[k] = RedoRecord(g[k - 1], k) BY <2>3, <3>1, <3>4
      <4> QED BY <3>2, <4>2, <4>3, <3>4
    <3> QED BY <3>3, <3>4
  <2> QED BY <2>4, <2>5
<1>7. h = [k \in 0..m |-> h[k]]
  OBVIOUS
<1>8. IsRun(h, m)
  <2> HIDE DEF h
  <2>1. [k \in 0..m |-> h[k]] = [k \in 0..m |-> IF k = 0 THEN Seed ELSE RedoRecord(h[k - 1], k)]
    BY <1>6, Zenon
  <2> QED BY <1>7, <2>1, Zenon DEF IsRun
<1> QED BY <1>8, <1>3

LEMMA RedoneIsARun ==
  ASSUME Len(log) \in Nat
  PROVE  \E g : IsRun(g, Len(log)) /\ Redone = g[Len(log)]
<1> DEFINE upTo[k \in 0..Len(log)] ==
            IF k = 0 THEN [pages |-> disk, alloc |-> alloc, fail |-> FALSE]
            ELSE RedoRecord(upTo[k - 1], k)
<1>1. Redone = upTo[Len(log)]
  BY Zenon DEF Redone
<1>2. IsRun(upTo, Len(log))
  <2>1. \E g : IsRun(g, Len(log)) BY RunExists
  <2>2. \E g : g = [k \in 0..Len(log) |-> IF k = 0 THEN [pages |-> disk, alloc |-> alloc, fail |-> FALSE]
            ELSE RedoRecord(g[k - 1], k)] 
     BY <2>1, Zenon DEF IsRun, Seed
  <2> QED BY <2>2, Zenon DEF IsRun, Seed
<1> QED BY <1>1, <1>2, Zenon
-----------------------------------------------------------------------------
(* The log.                                                                *)

\* What is a function on 1..n is a sequence.
LEMMA FunctionIsSeq ==
  ASSUME NEW n \in Nat, NEW f, f = [i \in 1..n |-> f[i]]
  PROVE  IsSeq(f) /\ Len(f) = n
<1>1. DOMAIN f = 1..n
  BY Zenon
<1> DEFINE S == {f[i] : i \in DOMAIN f}
<1>2. f \in [1..n -> S]
  <2>1. \A i \in 1..n : f[i] \in S BY <1>1
  <2> HIDE DEF S
  <2>2. [i \in 1..n |-> f[i]] \in [1..n -> S] BY <2>1
  <2> QED BY <2>2
<1>3. f \in Seq(S)
  <2> HIDE DEF S
  <2> QED BY <1>2, SeqDef
<1>4. Len(f) = n
  <2> HIDE DEF S
  <2>1. Len(f) \in Nat /\ DOMAIN f = 1..Len(f) BY <1>3, LenProperties
  <2>2. 1..Len(f) = 1..n BY <2>1, <1>1
  <2> QED BY <2>1, <2>2
<1> QED BY <1>3, <1>4 DEF IsSeq

\* A record more, and nothing else.
OneMore(s, r, a) ==
    /\ IsSeq(a)
    /\ Len(s) \in Nat /\ DOMAIN s = 1..Len(s)
    /\ Len(a) = Len(s) + 1 /\ DOMAIN a = 1..(Len(s) + 1)
    /\ \A i \in DOMAIN s : a[i] = s[i]
    /\ a[Len(s) + 1] = r

LEMMA AppendOne ==
  ASSUME NEW s, IsSeq(s), NEW r, NEW a, a = Append(s, r)
  PROVE  OneMore(s, r, a)
<1> DEFINE S == {s[i] : i \in DOMAIN s}
           T == S \cup {r}
<1>1. s \in Seq(S)
  BY DEF IsSeq
<1>2. Len(s) \in Nat /\ DOMAIN s = 1..Len(s) /\ s \in [1..Len(s) -> S]
  <2> HIDE DEF S
  <2> QED BY <1>1, LenProperties
<1>3. s \in Seq(T)
  <2>1. s \in [1..Len(s) -> T]
    <3>1. S \subseteq T OBVIOUS
    <3> HIDE DEF S, T
    <3> QED BY <1>2, <3>1
  <2> HIDE DEF T
  <2> QED BY <1>2, <2>1, SeqDef
<1>4. r \in T
  OBVIOUS
<1>5. /\ a \in Seq(T) /\ Len(a) = Len(s) + 1
      /\ \A i \in 1..Len(s) : a[i] = s[i]
      /\ a[Len(s) + 1] = r
  <2> HIDE DEF T
  <2> QED BY <1>3, <1>4, AppendProperties
<1>6. DOMAIN a = 1..(Len(s) + 1)
  <2> HIDE DEF T
  <2> QED BY <1>5, LenProperties
<1>7. IsSeq(a)
  <2>1. a = [i \in 1..(Len(s) + 1) |-> a[i]]
    <3> HIDE DEF T
    <3>1. a \in [1..Len(a) -> T] BY <1>5, LenProperties
    <3> QED BY <3>1, <1>5
  <2>2. Len(s) + 1 \in Nat BY <1>2
  <2> QED BY <2>1, <2>2, FunctionIsSeq
<1> QED BY <1>2, <1>5, <1>6, <1>7 DEF OneMore

LEMMA LogIsSeq ==
  ASSUME NEW s, IsSeq(s)
  PROVE  Len(s) \in Nat /\ DOMAIN s = 1..Len(s) /\ s = [i \in 1..Len(s) |-> s[i]]
<1> DEFINE S == {s[i] : i \in DOMAIN s}
<1>1. s \in Seq(S)
  BY DEF IsSeq
<1> HIDE DEF S
<1>2. Len(s) \in Nat /\ DOMAIN s = 1..Len(s) /\ s \in [1..Len(s) -> S]
  BY <1>1, LenProperties
<1> QED BY <1>2

\* A prefix of the log.
PrefixOf(s, n, a) ==
    /\ IsSeq(a) /\ Len(a) = n /\ DOMAIN a = 1..n
    /\ \A i \in 1..n : a[i] = s[i]

LEMMA SubSeqIsPrefix ==
  ASSUME NEW s, IsSeq(s), NEW n \in 0..Len(s), NEW a, a = SubSeq(s, 1, n)
  PROVE  PrefixOf(s, n, a)
<1> DEFINE S == {s[i] : i \in DOMAIN s}
<1>1. Len(s) \in Nat /\ DOMAIN s = 1..Len(s)
  BY LogIsSeq
<1>2. \A i \in 1..n : s[i] \in S
  BY <1>1
<1>3. n \in Nat /\ 1 \in Int /\ n \in Int
  BY <1>1
<1>4. /\ a \in Seq(S)
      /\ Len(a) = IF 1 <= n THEN n - 1 + 1 ELSE 0
      /\ \A i \in 1..(n - 1 + 1) : a[i] = s[1 + i - 1]
  <2> HIDE DEF S
  <2> QED BY <1>2, <1>3, SubSeqProperties
<1>5. Len(a) = n
  BY <1>3, <1>4
<1>6. DOMAIN a = 1..n /\ a \in [1..n -> S]
  <2> HIDE DEF S
  <2> QED BY <1>4, <1>5, LenProperties
<1>7. a = [i \in 1..n |-> a[i]]
  <2> HIDE DEF S
  <2> QED BY <1>6
<1>8. IsSeq(a)
  BY <1>3, <1>7, FunctionIsSeq
<1>9. \A i \in 1..n : a[i] = s[i]
  <2> TAKE i \in 1..n
  <2>1. n - 1 + 1 = n /\ 1 + i - 1 = i BY <1>3
  <2> QED BY <2>1, <1>4
<1> QED BY <1>5, <1>6, <1>8, <1>9 DEF PrefixOf

\* Two sequences, one behind the other.
Joined(s, u, a) ==
    /\ IsSeq(a) /\ DOMAIN s \subseteq DOMAIN a
    /\ \A i \in DOMAIN s : a[i] = s[i]
    /\ \A i \in DOMAIN a \ DOMAIN s : \E j \in DOMAIN u : a[i] = u[j]

LEMMA ConcatJoins ==
  ASSUME NEW s, IsSeq(s), NEW u, IsSeq(u), NEW a, a = s \o u
  PROVE  Joined(s, u, a)
<1> DEFINE S == {s[i] : i \in DOMAIN s}
           U == {u[i] : i \in DOMAIN u}
           T == S \cup U
<1>1. /\ Len(s) \in Nat /\ DOMAIN s = 1..Len(s) /\ s = [i \in 1..Len(s) |-> s[i]]
      /\ Len(u) \in Nat /\ DOMAIN u = 1..Len(u) /\ u = [i \in 1..Len(u) |-> u[i]]
  BY LogIsSeq
<1>2. s \in Seq(T) /\ u \in Seq(T)
  <2>1. \A i \in 1..Len(s) : s[i] \in T BY <1>1
  <2>2. \A i \in 1..Len(u) : u[i] \in T BY <1>1
  <2> HIDE DEF T
  <2>3. s \in [1..Len(s) -> T] 
    <3>1. [i \in 1..Len(s) |-> s[i]] \in [1..Len(s) -> T] BY <2>1
    <3> QED BY <3>1, <1>1
  <2>4. u \in [1..Len(u) -> T] 
    <3>1. [i \in 1..Len(u) |-> u[i]] \in [1..Len(u) -> T] BY <2>2
    <3> QED BY <3>1, <1>1
  <2> QED BY <2>3, <2>4, <1>1, SeqDef
<1>3. /\ a \in Seq(T) /\ Len(a) = Len(s) + Len(u)
      /\ \A i \in 1..(Len(s) + Len(u)) : a[i] = IF i <= Len(s) THEN s[i] ELSE u[i - Len(s)]
  <2> HIDE DEF T
  <2> QED BY <1>2, ConcatProperties
<1>4. DOMAIN a = 1..(Len(s) + Len(u)) /\ a = [i \in 1..(Len(s) + Len(u)) |-> a[i]]
  <2> HIDE DEF T
  <2>1. DOMAIN a = 1..Len(a) /\ a \in [1..Len(a) -> T] BY <1>3, LenProperties
  <2> QED BY <2>1, <1>3
<1>5. IsSeq(a)
  <2>1. Len(s) + Len(u) \in Nat BY <1>1
  <2> QED BY <2>1, <1>4, FunctionIsSeq
<1>6. DOMAIN s \subseteq DOMAIN a
  BY <1>1, <1>4
<1>7. \A i \in DOMAIN s : a[i] = s[i]
  BY <1>1, <1>3
<1>8. ASSUME NEW i \in DOMAIN a \ DOMAIN s PROVE \E j \in DOMAIN u : a[i] = u[j]
  <2>1. i \in 1..(Len(s) + Len(u)) /\ ~(i <= Len(s)) /\ i - Len(s) \in DOMAIN u
    BY <1>1, <1>4
  <2> QED BY <2>1, <1>3
<1> QED BY <1>5, <1>6, <1>7, <1>8 DEF Joined
-----------------------------------------------------------------------------
(* Page images: every step leaves a number in page_lsn.                    *)

LEMMA WithRowLsn ==
  ASSUME NEW img, "lsn" \in DOMAIN img, NEW r, NEW x, NEW n
  PROVE  "lsn" \in DOMAIN WithRow(img, r, x, n) /\ WithRow(img, r, x, n).lsn = n
BY DEF WithRow

LEMMA PagePut ==
  ASSUME NEW f, PageFile(f), NEW p \in Pages, NEW img, "lsn" \in DOMAIN img, img.lsn \in Nat
  PROVE  PageFile([f EXCEPT ![p] = img])
BY DEF PageFile

\* What redo carries from record to record.
RedoState(st) == DOMAIN st = {"pages", "alloc", "fail"} /\ PageFile(st.pages)

LEMMA RedoRecordShape ==
  ASSUME TypeInv, NEW i \in DOMAIN log, NEW st, RedoState(st)
  PROVE  RedoState(RedoRecord(st, i))
<1> DEFINE rec == log[i]
           p == PageOf(rec)
           img == st.pages[p]
<1>1. i \in Nat /\ RecordOK(rec)
  BY LogIsSeq DEF TypeInv
<1>2. CASE ~ChangesPage(rec)
  BY <1>2 DEF RedoRecord
<1>3. CASE ChangesPage(rec)
  <2>1. p \in Pages
    BY <1>1, <1>3 DEF PageOf, RecordOK, ChangesPage, Changes, Pages, Heap
  <2>2. "lsn" \in DOMAIN img
    BY <2>1 DEF RedoState, PageFile
  <2> DEFINE put(m) == [st EXCEPT !.pages[p] = m]
  <2>3. ASSUME NEW m, "lsn" \in DOMAIN m, m.lsn \in Nat
        PROVE  RedoState([st EXCEPT !.pages[p] = m])
    <3>1. PageFile([st.pages EXCEPT ![p] = m])
      BY <2>1, <2>3, PagePut DEF RedoState
    <3>2. [st EXCEPT !.pages[p] = m].pages = [st.pages EXCEPT ![p] = m]
      BY DEF RedoState
    <3>3. DOMAIN [st EXCEPT !.pages[p] = m] = DOMAIN st
      OBVIOUS
    <3> QED BY <3>1, <3>2, <3>3 DEF RedoState
  <2>4. RedoState([st EXCEPT !.fail = TRUE])
    BY DEF RedoState
  <2>5. ASSUME NEW m, "lsn" \in DOMAIN m, m.lsn \in Nat
        PROVE  RedoState([st EXCEPT !.pages[p] = m, !.alloc = @ \cup {p}])
    <3>1. PageFile([st.pages EXCEPT ![p] = m])
      BY <2>1, <2>5, PagePut DEF RedoState
    <3>2. [st EXCEPT !.pages[p] = m, !.alloc = @ \cup {p}].pages = [st.pages EXCEPT ![p] = m]
      BY DEF RedoState
    <3>3. DOMAIN [st EXCEPT !.pages[p] = m, !.alloc = @ \cup {p}] = DOMAIN st
      OBVIOUS
    <3> QED BY <3>1, <3>2, <3>3 DEF RedoState
  <2>6. CASE st.fail \/ i < RedoStart \/ Applied(img, i)
    BY <2>6, <1>3 DEF RedoRecord
  <2>7. CASE ~(st.fail \/ i < RedoStart \/ Applied(img, i))
    <3>1. CASE rec.kind = "Insert"
      <4>1. RedoRecord(st, i) = IF Full(img) THEN [st EXCEPT !.fail = TRUE]
                ELSE [st EXCEPT !.pages[p] = WithRow(img, i, 0, i), !.alloc = @ \cup {p}]
        BY <3>1, <2>7, <1>3 DEF RedoRecord
      <4>2. "lsn" \in DOMAIN WithRow(img, i, 0, i) /\ WithRow(img, i, 0, i).lsn \in Nat
        BY <2>2, <1>1, WithRowLsn
      <4>3. RedoState([st EXCEPT !.pages[p] = WithRow(img, i, 0, i), !.alloc = @ \cup {p}])
        BY <4>2, <2>5
      <4> QED BY <4>1, <4>3, <2>4
    <3>2. CASE rec.kind = "Delete"
      <4>1. RedoRecord(st, i) = IF p \notin st.alloc THEN st
                ELSE IF rec.row \notin DOMAIN img.rows THEN [st EXCEPT !.fail = TRUE]
                ELSE [st EXCEPT !.pages[p] = WithRow(img, rec.row, rec.txn, i)]
        BY <3>2, <2>7, <1>3 DEF RedoRecord
      <4>2. /\ "lsn" \in DOMAIN WithRow(img, rec.row, rec.txn, i)
            /\ WithRow(img, rec.row, rec.txn, i).lsn \in Nat
        BY <2>2, <1>1, WithRowLsn
      <4>3. RedoState([st EXCEPT !.pages[p] = WithRow(img, rec.row, rec.txn, i)])
        BY <4>2, <2>3
      <4> QED BY <4>1, <4>3, <2>4
    <3>3. CASE rec.kind = "SeqAdvance"
      <4> DEFINE m == [lsn |-> i, last |-> rec.val, cnt |-> 0, called |-> TRUE]
      <4>1. RedoRecord(st, i) = [st EXCEPT !.pages[p] = m]
        BY <3>3, <2>7, <1>3 DEF RedoRecord
      <4>2. "lsn" \in DOMAIN m /\ m.lsn \in Nat
        BY <1>1
      <4> HIDE DEF m
      <4>3. RedoState([st EXCEPT !.pages[p] = m])
        BY <4>2, <2>3
      <4> QED BY <4>1, <4>3
    <3> QED BY <1>3, <3>1, <3>2, <3>3 DEF ChangesPage
  <2> QED BY <2>6, <2>7
<1> QED BY <1>2, <1>3

LEMMA RedoneShape ==
  ASSUME TypeInv
  PROVE  RedoState(Redone)
<1>1. Len(log) \in Nat /\ DOMAIN log = 1..Len(log)
  BY LogIsSeq DEF TypeInv
<1>2. PICK g : IsRun(g, Len(log)) /\ Redone = g[Len(log)]
  BY <1>1, RedoneIsARun
<1> DEFINE Gaps == {k \in 0..Len(log) : ~RedoState(g[k])}
<1>3. SUFFICES ASSUME Gaps # {} PROVE FALSE
  BY <1>1, <1>2
<1>4. PICK k \in Gaps : \A j \in Gaps : k <= j
  <2>1. Gaps \subseteq Nat BY <1>1
  <2> HIDE DEF Gaps
  <2> QED BY <1>3, <2>1, LeastExists
<1>5. k \in 0..Len(log) /\ ~RedoState(g[k])
  OBVIOUS
<1>6. g[k] = IF k = 0 THEN Seed ELSE RedoRecord(g[k - 1], k)
  BY <1>2, <1>5, Zenon DEF IsRun
<1>7. CASE k = 0
  <2>1. RedoState(Seed)
    BY DEF RedoState, Seed, TypeInv
  <2> QED BY <1>5, <1>6, <1>7, <2>1
<1>8. CASE k # 0
  <2>1. k \in DOMAIN log /\ k - 1 \in 0..Len(log) /\ ~(k <= k - 1)
    BY <1>1, <1>5, <1>8
  <2>2. k - 1 \notin Gaps
    BY <2>1, <1>4
  <2>3. RedoState(g[k - 1])
    BY <2>1, <2>2
  <2>4. RedoState(RedoRecord(g[k - 1], k))
    BY <2>1, <2>3, RedoRecordShape
  <2> QED BY <1>5, <1>6, <1>8, <2>4
<1> QED BY <1>7, <1>8
-----------------------------------------------------------------------------
(* What steps do to the log and to the part of the state that IInv reads.  *)

\* The log keeps what it has and gets at most records of these kinds and this transaction.
Extended(kinds, t) ==
    /\ IsSeq(log') /\ DOMAIN log \subseteq DOMAIN log'
    /\ \A i \in DOMAIN log : log'[i] = log[i]
    /\ \A i \in DOMAIN log' \ DOMAIN log :
          log'[i].kind \in kinds /\ log'[i].txn = t /\ (log'[i].kind \in Changes => log'[i].page \in Heap)

LEMMA AppendExtends ==
  ASSUME IsSeq(log), NEW r, log' = Append(log, r), r.kind \in Changes => r.page \in Heap
  PROVE  /\ Extended({r.kind}, r.txn)
         /\ \E i \in DOMAIN log' : log'[i] = r
<1>1. /\ IsSeq(log') /\ Len(log) \in Nat /\ DOMAIN log = 1..Len(log)
      /\ DOMAIN log' = 1..(Len(log) + 1)
      /\ \A i \in DOMAIN log : log'[i] = log[i]
      /\ log'[Len(log) + 1] = r
  <2>1. OneMore(log, r, log')
    BY AppendOne
  <2> QED BY <2>1 DEF OneMore
<1>2. \A i \in DOMAIN log' \ DOMAIN log : i = Len(log) + 1
  BY <1>1
<1>3. Len(log) + 1 \in DOMAIN log'
  BY <1>1
<1>4. DOMAIN log \subseteq DOMAIN log'
  BY <1>1
<1>5. \A i \in DOMAIN log' \ DOMAIN log :
          log'[i].kind \in {r.kind} /\ log'[i].txn = r.txn /\ (log'[i].kind \in Changes => log'[i].page \in Heap)
  BY <1>1, <1>2
<1>6. Extended({r.kind}, r.txn)
  BY <1>1, <1>4, <1>5 DEF Extended
<1> QED BY <1>1, <1>3, <1>6

LEMMA SameExtends ==
  ASSUME IsSeq(log), log' = log, NEW K, NEW t
  PROVE  Extended(K, t)
BY DEF Extended

\* What was durable stays durable.
StillDurable == durable' \in Nat /\ \A i \in DOMAIN log : i <= durable => i <= durable'

LEMMA DurableSame ==
  ASSUME TypeInv, durable' = durable \/ durable' = Len(log)
  PROVE  StillDurable
BY LogIsSeq DEF TypeInv, StillDurable

LEMMA LogFacts ==
  ASSUME NEW K, NEW u, Extended(K, u), NEW t
  PROVE  /\ CommitLogged(t) => CommitLogged(t)'
         /\ BeginLogged(t) => BeginLogged(t)'
         /\ StillDurable => (CommitDurable(t) => CommitDurable(t)')
         /\ Writes(t)' => Writes(t) \/ (t = u /\ K \cap Changes # {})
<1>1. CommitLogged(t) => CommitLogged(t)'
  BY DEF CommitLogged, Extended
<1>2. BeginLogged(t) => BeginLogged(t)'
  BY DEF BeginLogged, Extended
<1>3. StillDurable => (CommitDurable(t) => CommitDurable(t)')
  BY DEF CommitDurable, Extended, StillDurable
<1>4. Writes(t)' => Writes(t) \/ (t = u /\ K \cap Changes # {})
  BY DEF Writes, Extended
<1> QED BY <1>1, <1>2, <1>3, <1>4

\* The records stay well formed.
LEMMA RecordsKept ==
  ASSUME TypeInv, NEW K, NEW u, Extended(K, u), K \subseteq Kinds, issued \subseteq issued',
         K \cap (Changes \cup {"Begin", "Commit", "SeqAdvance"}) # {} => u \in issued'
  PROVE  IsSeq(log)' /\ (\A i \in DOMAIN log : RecordOK(log[i]))'
<1>1. ASSUME NEW i \in DOMAIN log'
      PROVE  RecordOK(log[i])'
  <2>1. CASE i \in DOMAIN log
    <3>1. RecordOK(log[i]) /\ log'[i] = log[i] BY <2>1 DEF TypeInv, Extended
    <3> QED BY <3>1 DEF RecordOK
  <2>2. CASE i \notin DOMAIN log
    <3>1. log'[i].kind \in K /\ log'[i].txn = u /\ (log'[i].kind \in Changes => log'[i].page \in Heap)
      BY <2>2 DEF Extended
    <3>2. log'[i].kind \in Changes \cup {"Begin", "Commit", "SeqAdvance"} => log'[i].txn \in issued'
      BY <3>1
    <3> QED BY <3>1, <3>2 DEF RecordOK
  <2> QED BY <2>1, <2>2
<1>2. IsSeq(log)'
  BY DEF Extended, IsSeq
<1> QED BY <1>1, <1>2

\* Every step but Start, the end of a transaction, Kill and Restart.
Plain(K, t) ==
    /\ Extended(K, t) /\ K \subseteq Kinds \ {"Begin", "Commit"}
    /\ K \cap Changes # {} => t \in att /\ mode[t] = "rw"
    /\ "SeqAdvance" \in K => t \in att
    /\ StillDurable /\ PageFile(mem') /\ PageFile(disk')
    /\ UNCHANGED <<clog, mode, stage, att, issued, reused>>
    /\ clogDisk' \in {clogDisk, clog}
    /\ phase' # "down" \/ UNCHANGED <<log, durable, phase>>

LEMMA PlainKept ==
  ASSUME IInv, NEW K, NEW u, Plain(K, u)
  PROVE  IInv'
<1> USE DEF IInv
<1>0. TypeInv OBVIOUS
<1>a. /\ Extended(K, u) /\ StillDurable
      /\ clog' = clog /\ mode' = mode /\ stage' = stage /\ att' = att /\ issued' = issued /\ reused' = reused
      /\ clogDisk' \in {clogDisk, clog}
  BY DEF Plain
<1>1. TypeInv'
  <2>1. K \cap (Changes \cup {"Begin", "Commit", "SeqAdvance"}) # {} => u \in issued'
    BY <1>a DEF Plain, TypeInv
  <2>2. IsSeq(log)' /\ (\A i \in DOMAIN log : RecordOK(log[i]))'
    <3>1. K \subseteq Kinds /\ issued \subseteq issued' BY <1>a DEF Plain
    <3> QED BY <1>a, <2>1, <3>1, RecordsKept
  <2>3. durable' \in Nat BY <1>a DEF StillDurable
  <2>4. PageFile(mem)' /\ PageFile(disk)' BY DEF Plain, PageFile
  <2>5. clogDisk' \in [Ids -> Statuses] BY <1>a DEF TypeInv
  <2>6. clog' \in [Ids -> Statuses] /\ mode' \in [Ids -> Modes] /\ stage' \in [Ids -> Stages]
        /\ issued' \subseteq Ids /\ att' \subseteq issued'
    BY <1>a DEF TypeInv
  <2> QED BY <2>2, <2>3, <2>4, <2>5, <2>6 DEF TypeInv
<1>2. DownIsQuiet'
  BY <1>a DEF Plain, DownIsQuiet
<1>3. VacuumBegan'
  <2>1. \A t \in att : mode[t] = "vac" => BeginLogged(t)' BY <1>a, LogFacts DEF VacuumBegan
  <2> QED BY <2>1, <1>a DEF VacuumBegan
<1>4. UnissuedIsOpen'
  BY <1>a DEF UnissuedIsOpen
<1>5. EndsInOrder'
  <2>1. \A t \in Ids : /\ stage[t] = "Commit" => CommitLogged(t)'
                       /\ stage[t] = "Committed" => CommitDurable(t)'
    BY <1>a, LogFacts DEF EndsInOrder
  <2> QED BY <2>1, <1>a DEF EndsInOrder
<1>6. ReadersDoNotWrite'
  <2>1. ASSUME NEW t \in att \ reused, mode[t] = "ro" PROVE ~Writes(t)'
    <3>1. ~Writes(t) BY <2>1 DEF ReadersDoNotWrite
    <3>2. ~(t = u /\ K \cap Changes # {}) BY <2>1 DEF Plain
    <3> QED BY <3>1, <3>2, <1>a, LogFacts
  <2> QED BY <2>1, <1>a DEF ReadersDoNotWrite
<1>7. CommittedIsBacked'
  <2>1. ASSUME NEW t \in Ids \ reused, clog[t] = "Committed" \/ clogDisk'[t] = "Committed"
        PROVE  t \notin att /\ (CommitDurable(t)' \/ ~Writes(t)')
    <3>1. t \notin att /\ (CommitDurable(t) \/ ~Writes(t))
      BY <2>1, <1>a DEF CommittedIsBacked
    <3>2. ~(t = u /\ K \cap Changes # {}) BY <3>1 DEF Plain
    <3> QED BY <3>1, <3>2, <1>a, LogFacts
  <2> QED BY <2>1, <1>a DEF CommittedIsBacked
<1> QED BY <1>1, <1>2, <1>3, <1>4, <1>5, <1>6, <1>7
-----------------------------------------------------------------------------
(* The steps that change who is at work, who has ended and what is left.   *)

LEMMA StartKept ==
  ASSUME IInv, NEW t \in Ids, NEW m \in {"rw", "ro", "vac"}, Start(t, m)
  PROVE  IInv'
<1> USE DEF IInv
<1>0. TypeInv OBVIOUS
<1>a. /\ phase = "run" /\ phase' = phase
      /\ att' = att \cup {t} /\ issued' = issued \cup {t}
      /\ mode' = [mode EXCEPT ![t] = m] /\ stage' = [stage EXCEPT ![t] = "open"]
      /\ reused' = IF t \in issued THEN reused \cup {t} ELSE reused
      /\ durable' = durable /\ mem' = mem /\ disk' = disk /\ clog' = clog /\ clogDisk' = clogDisk
  BY DEF Start, Up, store, system
<1>b. IF m = "ro" THEN log' = log ELSE log' = Append(log, [kind |-> "Begin", txn |-> t])
  BY DEF Start
<1>c. Extended({"Begin"}, t) /\ (m # "ro" => BeginLogged(t)')
  <2>1. CASE m = "ro"
    BY <2>1, <1>b, SameExtends DEF TypeInv
  <2>2. CASE m # "ro"
    <3> DEFINE r == [kind |-> "Begin", txn |-> t]
    <3>1. r.kind = "Begin" /\ r.txn = t OBVIOUS
    <3>2. log' = Append(log, r) BY <2>2, <1>b
    <3> HIDE DEF r
    <3>3. (r.kind \in Changes => r.page \in Heap) BY <3>1 DEF Changes
    <3>4. Extended({r.kind}, r.txn) /\ \E i \in DOMAIN log' : log'[i] = r
      BY <3>2, <3>3, AppendExtends DEF TypeInv
    <3>5. BeginLogged(t)' BY <3>1, <3>4 DEF BeginLogged
    <3> QED BY <3>1, <3>4, <3>5
  <2> QED BY <2>1, <2>2
<1>d. StillDurable
  BY <1>a, DurableSame
<1>1. TypeInv'
  <2>1. IsSeq(log)' /\ (\A i \in DOMAIN log : RecordOK(log[i]))'
    <3>1. {"Begin"} \subseteq Kinds /\ issued \subseteq issued' /\ t \in issued' BY <1>a DEF Kinds
    <3> QED BY <1>c, <3>1, RecordsKept
  <2>2. durable' \in Nat BY <1>a DEF TypeInv
  <2>3. PageFile(mem)' /\ PageFile(disk)' BY <1>a DEF TypeInv, PageFile
  <2>4. clog' \in [Ids -> Statuses] /\ clogDisk' \in [Ids -> Statuses] BY <1>a DEF TypeInv
  <2>5. mode' \in [Ids -> Modes] /\ stage' \in [Ids -> Stages] BY <1>a DEF TypeInv, Modes, Stages
  <2>6. issued' \subseteq Ids /\ att' \subseteq issued' BY <1>a DEF TypeInv
  <2> QED BY <2>1, <2>2, <2>3, <2>4, <2>5, <2>6 DEF TypeInv
<1>2. DownIsQuiet'
  BY <1>a DEF DownIsQuiet
<1>3. VacuumBegan'
  <2>1. ASSUME NEW u \in att', mode'[u] = "vac" PROVE BeginLogged(u)'
    <3>1. CASE u = t BY <3>1, <2>1, <1>a, <1>c DEF TypeInv
    <3>2. CASE u # t
      <4>1. u \in att /\ u \in Ids BY <3>2, <1>a DEF TypeInv
      <4>2. mode[u] = "vac" BY <4>1, <3>2, <2>1, <1>a DEF TypeInv
      <4> QED BY <4>1, <4>2, <1>c, LogFacts DEF VacuumBegan
    <3> QED BY <3>1, <3>2
  <2> QED BY <2>1 DEF VacuumBegan
<1>4. UnissuedIsOpen'
  BY <1>a DEF UnissuedIsOpen
<1>5. EndsInOrder'
  <2>1. ASSUME NEW u \in Ids
        PROVE  /\ stage'[u] = "Commit" => CommitLogged(u)'
               /\ stage'[u] = "Committed" => CommitDurable(u)'
    <3>1. CASE u = t BY <3>1, <1>a DEF TypeInv
    <3>2. CASE u # t
      <4>1. stage'[u] = stage[u] BY <3>2, <1>a DEF TypeInv
      <4> QED BY <4>1, <1>c, <1>d, LogFacts DEF EndsInOrder
    <3> QED BY <3>1, <3>2
  <2> QED BY <2>1 DEF EndsInOrder
<1>e. \A u : Writes(u)' => Writes(u)
  <2>1. {"Begin"} \cap Changes = {} BY DEF Changes
  <2> QED BY <2>1, <1>c, LogFacts
<1>6. ReadersDoNotWrite'
  <2>1. ASSUME NEW u \in att' \ reused', mode'[u] = "ro" PROVE ~Writes(u)'
    <3>1. CASE u = t
      <4>1. t \notin issued BY <3>1, <2>1, <1>a
      <4>2. ~Writes(t) BY <4>1 DEF Writes, TypeInv, RecordOK
      <4> QED BY <4>2, <3>1, <1>e
    <3>2. CASE u # t
      <4>1. u \in att \ reused /\ u \in Ids BY <3>2, <2>1, <1>a DEF TypeInv
      <4>2. mode[u] = "ro" BY <4>1, <3>2, <2>1, <1>a DEF TypeInv
      <4> QED BY <4>1, <4>2, <1>e DEF ReadersDoNotWrite
    <3> QED BY <3>1, <3>2
  <2> QED BY <2>1 DEF ReadersDoNotWrite
<1>7. CommittedIsBacked'
  <2>1. ASSUME NEW u \in Ids \ reused', clog[u] = "Committed" \/ clogDisk[u] = "Committed"
        PROVE  u \notin att' /\ (CommitDurable(u)' \/ ~Writes(u)')
    <3>1. u \in issued BY <2>1 DEF UnissuedIsOpen
    <3>2. u # t /\ u \notin reused BY <3>1, <2>1, <1>a
    <3>3. u \notin att /\ (CommitDurable(u) \/ ~Writes(u)) BY <3>2, <2>1 DEF CommittedIsBacked
    <3> QED BY <3>2, <3>3, <1>a, <1>c, <1>d, <1>e, LogFacts
  <2> QED BY <2>1, <1>a DEF CommittedIsBacked
<1> QED BY <1>1, <1>2, <1>3, <1>4, <1>5, <1>6, <1>7

LEMMA LogEndKept ==
  ASSUME IInv, NEW t \in Ids, NEW k \in {"Commit", "Abort"}, LogEnd(t, k)
  PROVE  IInv'
<1> USE DEF IInv
<1>0. TypeInv OBVIOUS
<1>a. /\ phase = "run" /\ phase' = phase /\ t \in att
      /\ att' = att /\ issued' = issued /\ mode' = mode /\ reused' = reused
      /\ stage' = [stage EXCEPT ![t] = k]
      /\ durable' = durable /\ mem' = mem /\ disk' = disk /\ clog' = clog /\ clogDisk' = clogDisk
      /\ log' = Append(log, [kind |-> k, txn |-> t])
  BY DEF LogEnd, Working, Up, store, system, ids
<1>b. Extended({k}, t) /\ \E i \in DOMAIN log' : log'[i].kind = k /\ log'[i].txn = t
  <2> DEFINE r == [kind |-> k, txn |-> t]
  <2>1. r.kind = k /\ r.txn = t OBVIOUS
  <2>2. log' = Append(log, r) BY <1>a
  <2> HIDE DEF r
  <2>3. (r.kind \in Changes => r.page \in Heap) BY <2>1 DEF Changes
  <2>4. Extended({r.kind}, r.txn) /\ \E i \in DOMAIN log' : log'[i] = r
    BY <2>2, <2>3, AppendExtends DEF TypeInv
  <2> QED BY <2>1, <2>4
<1>d. StillDurable
  BY <1>a, DurableSame
<1>1. TypeInv'
  <2>1. IsSeq(log)' /\ (\A i \in DOMAIN log : RecordOK(log[i]))'
    <3>1. {k} \subseteq Kinds /\ issued \subseteq issued' /\ t \in issued' BY <1>a DEF Kinds, TypeInv
    <3> QED BY <1>b, <3>1, RecordsKept
  <2>2. durable' \in Nat BY <1>a DEF TypeInv
  <2>3. PageFile(mem)' /\ PageFile(disk)' BY <1>a DEF TypeInv, PageFile
  <2>4. clog' \in [Ids -> Statuses] /\ clogDisk' \in [Ids -> Statuses] BY <1>a DEF TypeInv
  <2>5. mode' \in [Ids -> Modes] /\ stage' \in [Ids -> Stages] BY <1>a DEF TypeInv, Modes, Stages
  <2>6. issued' \subseteq Ids /\ att' \subseteq issued' BY <1>a DEF TypeInv
  <2> QED BY <2>1, <2>2, <2>3, <2>4, <2>5, <2>6 DEF TypeInv
<1>2. DownIsQuiet'
  BY <1>a DEF DownIsQuiet
<1>3. VacuumBegan'
  <2>1. \A u \in att : mode[u] = "vac" => BeginLogged(u)' BY <1>b, LogFacts DEF VacuumBegan
  <2> QED BY <2>1, <1>a DEF VacuumBegan
<1>4. UnissuedIsOpen'
  BY <1>a DEF UnissuedIsOpen
<1>5. EndsInOrder'
  <2>1. ASSUME NEW u \in Ids
        PROVE  /\ stage'[u] = "Commit" => CommitLogged(u)'
               /\ stage'[u] = "Committed" => CommitDurable(u)'
    <3>1. CASE u = t
      <4>1. stage'[u] = k BY <3>1, <1>a DEF TypeInv
      <4>2. k = "Commit" => CommitLogged(t)' BY <1>b DEF CommitLogged
      <4> QED BY <4>1, <4>2, <3>1
    <3>2. CASE u # t
      <4>1. stage'[u] = stage[u] BY <3>2, <1>a DEF TypeInv
      <4> QED BY <4>1, <1>b, <1>d, LogFacts DEF EndsInOrder
    <3> QED BY <3>1, <3>2
  <2> QED BY <2>1 DEF EndsInOrder
<1>e. \A u : Writes(u)' => Writes(u)
  <2>1. {k} \cap Changes = {} BY DEF Changes
  <2> QED BY <2>1, <1>b, LogFacts
<1>6. ReadersDoNotWrite'
  <2>1. \A u \in att \ reused : mode[u] = "ro" => ~Writes(u)' BY <1>e DEF ReadersDoNotWrite
  <2> QED BY <2>1, <1>a DEF ReadersDoNotWrite
<1>7. CommittedIsBacked'
  <2>1. ASSUME NEW u \in Ids \ reused, clog[u] = "Committed" \/ clogDisk[u] = "Committed"
        PROVE  u \notin att /\ (CommitDurable(u)' \/ ~Writes(u)')
    <3>1. u \notin att /\ (CommitDurable(u) \/ ~Writes(u)) BY <2>1 DEF CommittedIsBacked
    <3> QED BY <3>1, <1>b, <1>d, <1>e, LogFacts
  <2> QED BY <2>1, <1>a DEF CommittedIsBacked
<1> QED BY <1>1, <1>2, <1>3, <1>4, <1>5, <1>6, <1>7

LEMMA FlushEndKept ==
  ASSUME IInv, NEW t \in Ids, FlushEnd(t)
  PROVE  IInv'
<1> USE DEF IInv
<1>0. TypeInv OBVIOUS
<1>a. /\ phase = "run" /\ phase' = phase /\ t \in att /\ stage[t] \in {"Commit", "Abort"}
      /\ att' = att /\ issued' = issued /\ mode' = mode /\ reused' = reused
      /\ stage' = [stage EXCEPT ![t] = IF stage[t] = "Commit" THEN "Committed" ELSE "Aborted"]
      /\ durable' = Len(log) /\ mem' = mem /\ disk' = disk /\ clog' = clog /\ clogDisk' = clogDisk
      /\ log' = log
  BY DEF FlushEnd, Up, store, system, ids
<1>b. Extended({}, t)
  BY <1>a, SameExtends DEF TypeInv
<1>d. StillDurable
  BY <1>a, DurableSame
<1>1. TypeInv'
  <2>1. IsSeq(log)' /\ (\A i \in DOMAIN log : RecordOK(log[i]))'
    <3>1. issued \subseteq issued' BY <1>a
    <3> QED BY <1>b, <3>1, RecordsKept
  <2>2. durable' \in Nat BY <1>d DEF StillDurable
  <2>3. PageFile(mem)' /\ PageFile(disk)' BY <1>a DEF TypeInv, PageFile
  <2>4. clog' \in [Ids -> Statuses] /\ clogDisk' \in [Ids -> Statuses] BY <1>a DEF TypeInv
  <2>5. mode' \in [Ids -> Modes] /\ stage' \in [Ids -> Stages] BY <1>a DEF TypeInv, Modes, Stages
  <2>6. issued' \subseteq Ids /\ att' \subseteq issued' BY <1>a DEF TypeInv
  <2> QED BY <2>1, <2>2, <2>3, <2>4, <2>5, <2>6 DEF TypeInv
<1>2. DownIsQuiet'
  BY <1>a DEF DownIsQuiet
<1>3. VacuumBegan'
  <2>1. \A u \in att : mode[u] = "vac" => BeginLogged(u)' BY <1>b, LogFacts DEF VacuumBegan
  <2> QED BY <2>1, <1>a DEF VacuumBegan
<1>4. UnissuedIsOpen'
  BY <1>a DEF UnissuedIsOpen
<1>5. EndsInOrder'
  <2>1. ASSUME NEW u \in Ids
        PROVE  /\ stage'[u] = "Commit" => CommitLogged(u)'
               /\ stage'[u] = "Committed" => CommitDurable(u)'
    <3>1. CASE u = t
      <4>1. stage'[u] # "Commit" /\ (stage'[u] = "Committed" => stage[u] = "Commit")
        BY <3>1, <1>a DEF TypeInv
      <4>2. stage[u] = "Commit" => CommitLogged(u) BY DEF EndsInOrder
      <4>3. CommitLogged(u) => CommitDurable(u)'
        <5>1. \A i \in DOMAIN log : i <= Len(log) BY LogIsSeq DEF TypeInv
        <5> QED BY <5>1, <1>a DEF CommitLogged, CommitDurable
      <4> QED BY <4>1, <4>2, <4>3
    <3>2. CASE u # t
      <4>1. stage'[u] = stage[u] BY <3>2, <1>a DEF TypeInv
      <4> QED BY <4>1, <1>b, <1>d, LogFacts DEF EndsInOrder
    <3> QED BY <3>1, <3>2
  <2> QED BY <2>1 DEF EndsInOrder
<1>e. \A u : Writes(u)' => Writes(u)
  BY <1>b, LogFacts
<1>6. ReadersDoNotWrite'
  <2>1. \A u \in att \ reused : mode[u] = "ro" => ~Writes(u)' BY <1>e DEF ReadersDoNotWrite
  <2> QED BY <2>1, <1>a DEF ReadersDoNotWrite
<1>7. CommittedIsBacked'
  <2>1. ASSUME NEW u \in Ids \ reused, clog[u] = "Committed" \/ clogDisk[u] = "Committed"
        PROVE  u \notin att /\ (CommitDurable(u)' \/ ~Writes(u)')
    <3>1. u \notin att /\ (CommitDurable(u) \/ ~Writes(u)) BY <2>1 DEF CommittedIsBacked
    <3> QED BY <3>1, <1>b, <1>d, <1>e, LogFacts
  <2> QED BY <2>1, <1>a DEF CommittedIsBacked
<1> QED BY <1>1, <1>2, <1>3, <1>4, <1>5, <1>6, <1>7

\* tm.commit and tm.abort, of a writer after its record or of a reader.
LEMMA DecideKept ==
  ASSUME IInv, NEW t \in Ids, NEW s \in {"Committed", "Aborted"}, DecideWith(t, s), t \in att, phase = "run",
         t \notin reused /\ s = "Committed" => CommitDurable(t) \/ ~Writes(t),
         UNCHANGED <<log, durable, mem, disk, clogDisk, issued, reused, phase>>
  PROVE  IInv'
<1> USE DEF IInv
<1>0. TypeInv OBVIOUS
<1>a. /\ att' = att \ {t} /\ stage' = [stage EXCEPT ![t] = None] /\ mode' = [mode EXCEPT ![t] = None]
      /\ clog' = IF clog[t] = "InProgress" THEN [clog EXCEPT ![t] = s] ELSE clog
  BY DEF DecideWith
<1>b. \A u : /\ CommitLogged(u)' = CommitLogged(u) /\ CommitDurable(u)' = CommitDurable(u)
             /\ Writes(u)' = Writes(u) /\ BeginLogged(u)' = BeginLogged(u)
  BY DEF CommitLogged, CommitDurable, Writes, BeginLogged
<1>1. TypeInv'
  <2>1. IsSeq(log)' /\ (\A i \in DOMAIN log : RecordOK(log[i]))' BY DEF TypeInv, RecordOK, IsSeq
  <2>2. durable' \in Nat BY DEF TypeInv
  <2>3. PageFile(mem)' /\ PageFile(disk)' BY DEF TypeInv, PageFile
  <2>4. clog' \in [Ids -> Statuses] /\ clogDisk' \in [Ids -> Statuses] BY <1>a DEF TypeInv, Statuses
  <2>5. mode' \in [Ids -> Modes] /\ stage' \in [Ids -> Stages] BY <1>a DEF TypeInv, Modes, Stages
  <2>6. issued' \subseteq Ids /\ att' \subseteq issued' BY <1>a DEF TypeInv
  <2> QED BY <2>1, <2>2, <2>3, <2>4, <2>5, <2>6 DEF TypeInv
<1>2. DownIsQuiet'
  BY DEF DownIsQuiet
<1>3. VacuumBegan'
  <2>1. ASSUME NEW u \in att', mode'[u] = "vac" PROVE BeginLogged(u)'
    <3>1. u \in att /\ u # t /\ u \in Ids BY <1>a DEF TypeInv
    <3>2. mode[u] = "vac" BY <3>1, <2>1, <1>a DEF TypeInv
    <3> QED BY <3>1, <3>2, <1>b DEF VacuumBegan
  <2> QED BY <2>1 DEF VacuumBegan
<1>4. UnissuedIsOpen'
  <2>1. \A u \in Ids : u # t => clog'[u] = clog[u] BY <1>a DEF TypeInv
  <2>2. t \in issued BY DEF TypeInv
  <2> QED BY <2>1, <2>2 DEF UnissuedIsOpen
<1>5. EndsInOrder'
  <2>1. ASSUME NEW u \in Ids
        PROVE  /\ stage'[u] = "Commit" => CommitLogged(u)'
               /\ stage'[u] = "Committed" => CommitDurable(u)'
    <3>1. CASE u = t BY <3>1, <1>a DEF TypeInv, None
    <3>2. CASE u # t
      <4>1. stage'[u] = stage[u] BY <3>2, <1>a DEF TypeInv
      <4> QED BY <4>1, <1>b DEF EndsInOrder
    <3> QED BY <3>1, <3>2
  <2> QED BY <2>1 DEF EndsInOrder
<1>6. ReadersDoNotWrite'
  <2>1. ASSUME NEW u \in att' \ reused', mode'[u] = "ro" PROVE ~Writes(u)'
    <3>1. u \in att \ reused /\ u # t /\ u \in Ids BY <1>a DEF TypeInv
    <3>2. mode[u] = "ro" BY <3>1, <2>1, <1>a DEF TypeInv
    <3> QED BY <3>1, <3>2, <1>b DEF ReadersDoNotWrite
  <2> QED BY <2>1 DEF ReadersDoNotWrite
<1>7. CommittedIsBacked'
  <2>1. ASSUME NEW u \in Ids \ reused, clog'[u] = "Committed" \/ clogDisk[u] = "Committed"
        PROVE  u \notin att' /\ (CommitDurable(u) \/ ~Writes(u))
    <3>1. CASE u = t
      <4>1. clogDisk[t] # "Committed" /\ clog[t] # "Committed" BY <3>1, <2>1 DEF CommittedIsBacked
      <4>2. s = "Committed" BY <4>1, <3>1, <2>1, <1>a DEF TypeInv
      <4> QED BY <4>2, <3>1, <2>1, <1>a
    <3>2. CASE u # t
      <4>1. clog'[u] = clog[u] BY <3>2, <1>a DEF TypeInv
      <4>2. u \notin att /\ (CommitDurable(u) \/ ~Writes(u)) BY <4>1, <2>1 DEF CommittedIsBacked
      <4> QED BY <4>2, <1>a
    <3> QED BY <3>1, <3>2
  <2> QED BY <2>1, <1>b DEF CommittedIsBacked
<1> QED BY <1>1, <1>2, <1>3, <1>4, <1>5, <1>6, <1>7

\* A kill leaves a prefix of the log, and all of its durable part.
LEMMA KillKept ==
  ASSUME IInv, NEW n \in durable..Len(log), Kill(n)
  PROVE  IInv'
<1> USE DEF IInv
<1>0. TypeInv OBVIOUS
<1>a. /\ log' = SubSeq(log, 1, n) /\ durable' = n /\ mem' = disk /\ disk' = disk
      /\ clog' = clogDisk /\ clogDisk' = clogDisk /\ att' = {}
      /\ mode' = [u \in Ids |-> None] /\ stage' = [u \in Ids |-> None]
      /\ issued' = issued /\ reused' = reused /\ phase' = "down"
  BY DEF Kill, ids
<1>b. Len(log) \in Nat /\ DOMAIN log = 1..Len(log) /\ durable \in Nat /\ n \in 0..Len(log) /\ durable <= n
      /\ n \in Nat
  <2>1. Len(log) \in Nat /\ DOMAIN log = 1..Len(log) BY LogIsSeq DEF TypeInv
  <2>2. durable \in Nat BY DEF TypeInv
  <2> QED BY <2>1, <2>2
<1>c. /\ IsSeq(log') /\ Len(log') = n /\ DOMAIN log' = 1..n
      /\ \A i \in 1..n : log'[i] = log[i]
  <2>1. PrefixOf(log, n, log') BY <1>a, <1>b, SubSeqIsPrefix DEF TypeInv
  <2> QED BY <2>1 DEF PrefixOf
<1>d. \A u : CommitDurable(u) => CommitDurable(u)'
  <2> SUFFICES ASSUME NEW u, CommitDurable(u) PROVE CommitDurable(u)' OBVIOUS
  <2>1. PICK i \in DOMAIN log : i <= durable /\ log[i].kind = "Commit" /\ log[i].txn = u BY DEF CommitDurable
  <2>2. i \in 1..n /\ i <= n BY <1>b, <2>1
  <2>3. i \in DOMAIN log' /\ i <= durable' /\ log'[i] = log[i] BY <1>a, <1>c, <2>2
  <2> QED BY <2>1, <2>3 DEF CommitDurable
<1>e. DOMAIN log' \subseteq DOMAIN log
  BY <1>b, <1>c
<1>f. \A u : Writes(u)' => Writes(u)
  BY <1>c, <1>e DEF Writes
<1>1. TypeInv'
  <2>1. IsSeq(log)' BY <1>c DEF IsSeq
  <2>2. (\A i \in DOMAIN log : RecordOK(log[i]))'
    <3>1. ASSUME NEW i \in DOMAIN log' PROVE RecordOK(log[i])'
      <4>1. log'[i] = log[i] /\ RecordOK(log[i]) BY <1>c, <1>e DEF TypeInv
      <4> QED BY <4>1, <1>a DEF RecordOK
    <3> QED BY <3>1
  <2>3. durable' \in Nat BY <1>a, <1>b
  <2>4. PageFile(mem)' /\ PageFile(disk)' BY <1>a DEF TypeInv, PageFile
  <2>5. clog' \in [Ids -> Statuses] /\ clogDisk' \in [Ids -> Statuses] BY <1>a DEF TypeInv
  <2>6. mode' \in [Ids -> Modes] /\ stage' \in [Ids -> Stages] BY <1>a DEF Modes, Stages
  <2>7. issued' \subseteq Ids /\ att' \subseteq issued' BY <1>a DEF TypeInv
  <2> QED BY <2>1, <2>2, <2>3, <2>4, <2>5, <2>6, <2>7 DEF TypeInv
<1>2. DownIsQuiet'
  BY <1>a, <1>c DEF DownIsQuiet
<1>3. VacuumBegan'
  BY <1>a DEF VacuumBegan
<1>4. UnissuedIsOpen'
  BY <1>a DEF UnissuedIsOpen
<1>5. EndsInOrder'
  BY <1>a DEF EndsInOrder, None
<1>6. ReadersDoNotWrite'
  BY <1>a DEF ReadersDoNotWrite
<1>7. CommittedIsBacked'
  <2>1. ASSUME NEW u \in Ids \ reused, clogDisk[u] = "Committed"
        PROVE  CommitDurable(u)' \/ ~Writes(u)'
    BY <2>1, <1>d, <1>f DEF CommittedIsBacked
  <2> QED BY <2>1, <1>a DEF CommittedIsBacked
<1> QED BY <1>1, <1>2, <1>3, <1>4, <1>5, <1>6, <1>7

\* Undo appends Abort records, and as many as there are transactions without an end.
LEMMA UndoIsAborts ==
  ASSUME TypeInv
  PROVE  IsSeq(UndoRecords) /\ \A i \in DOMAIN UndoRecords : UndoRecords[i].kind = "Abort"
<1> DEFINE U == Analysis.uncommitted
<1>1. U \subseteq 1..MaxTxn
  BY DEF Analysis, TypeInv, RecordOK, Ids
<1>2. Cardinality(U) \in Nat
  <2>1. IsFiniteSet(1..MaxTxn) BY RecoveryAssumption, FS_Interval
  <2> HIDE DEF U
  <2> QED BY <1>1, <2>1, FS_Subset, FS_CardinalityType
<1> DEFINE n == Cardinality(U)
           who(i) == CHOOSE t \in U : Cardinality({u \in U : u <= t}) = i
           f == [i \in 1..n |-> [kind |-> "Abort", txn |-> who(i)]]
<1>3. UndoRecords = f
  BY Zenon DEF UndoRecords
<1>4. n \in Nat
  BY <1>2
<1>5. f = [i \in 1..n |-> f[i]] /\ DOMAIN f = 1..n /\ \A i \in 1..n : f[i].kind = "Abort"
  <2> HIDE DEF n, who
  <2> QED OBVIOUS
<1> HIDE DEF f, n
<1>6. IsSeq(f)
  BY <1>4, <1>5, FunctionIsSeq
<1> QED BY <1>3, <1>5, <1>6

\* Start-up takes over the commits of the log, all of it durable by now.
LEMMA RestartKept ==
  ASSUME IInv, Restart
  PROVE  IInv'
<1> USE DEF IInv
<1>0. TypeInv OBVIOUS
<1> DEFINE C == Analysis.committed
<1>a. /\ phase = "down" /\ phase' # "down" /\ mem' = Redone.pages
      /\ log' = log \/ log' = log \o UndoRecords
      /\ \/ clog' = clog
         \/ clog' = [t \in Ids |-> IF t \in C THEN "Committed"
                                   ELSE IF t \in Analysis.uncommitted THEN "Aborted" ELSE clog[t]]
  BY DEF Restart
<1>b. /\ durable' = durable /\ disk' = disk /\ clogDisk' = clogDisk /\ att' = att /\ mode' = mode
      /\ stage' = stage /\ issued' = issued /\ reused' = reused
  BY DEF Restart, live
<1>c. att = {} /\ durable = Len(log)
  BY <1>a DEF DownIsQuiet
<1>e. /\ IsSeq(log') /\ DOMAIN log \subseteq DOMAIN log'
      /\ \A i \in DOMAIN log : log'[i] = log[i]
      /\ \A i \in DOMAIN log' \ DOMAIN log : log'[i].kind = "Abort"
  <2>1. CASE log' = log BY <2>1 DEF TypeInv
  <2>2. CASE log' = log \o UndoRecords
    <3>1. IsSeq(UndoRecords) /\ \A i \in DOMAIN UndoRecords : UndoRecords[i].kind = "Abort" BY UndoIsAborts
    <3>2. Joined(log, UndoRecords, log') BY <2>2, <3>1, ConcatJoins DEF TypeInv
    <3> QED BY <3>1, <3>2 DEF Joined
  <2> QED BY <2>1, <2>2, <1>a
<1>f. \A u : (CommitDurable(u) => CommitDurable(u)') /\ (Writes(u)' => Writes(u))
  <2>1. \A u : CommitDurable(u) => CommitDurable(u)' BY <1>b, <1>e DEF CommitDurable
  <2>2. \A u : Writes(u)' => Writes(u) BY <1>e DEF Writes, Changes
  <2> QED BY <2>1, <2>2
<1>g. \A u \in C : u \in issued /\ CommitDurable(u)
  <2> SUFFICES ASSUME NEW u \in C PROVE u \in issued /\ CommitDurable(u) OBVIOUS
  <2>1. PICK i \in DOMAIN log : log[i].kind = "Commit" /\ log[i].txn = u BY DEF Analysis
  <2>2. i <= durable BY <1>c, LogIsSeq DEF TypeInv
  <2>3. u \in issued BY <2>1 DEF TypeInv, RecordOK
  <2> QED BY <2>1, <2>2, <2>3 DEF CommitDurable
<1> HIDE DEF C
<1>1. TypeInv'
  <2>1. IsSeq(log)' BY <1>e DEF IsSeq
  <2>2. (\A i \in DOMAIN log : RecordOK(log[i]))'
    <3>1. ASSUME NEW i \in DOMAIN log' PROVE RecordOK(log[i])'
      <4>1. CASE i \in DOMAIN log
        <5>1. log'[i] = log[i] /\ RecordOK(log[i]) BY <4>1, <1>e DEF TypeInv
        <5> QED BY <5>1, <1>b DEF RecordOK
      <4>2. CASE i \notin DOMAIN log
        <5>1. log'[i].kind = "Abort" BY <4>2, <1>e
        <5> QED BY <5>1 DEF RecordOK, Kinds, Changes
      <4> QED BY <4>1, <4>2
    <3> QED BY <3>1
  <2>3. durable' \in Nat BY <1>b DEF TypeInv
  <2>4. PageFile(mem)' /\ PageFile(disk)'
    <3>1. PageFile(Redone.pages) BY RedoneShape DEF RedoState
    <3> QED BY <3>1, <1>a, <1>b DEF TypeInv, PageFile
  <2>5. clog' \in [Ids -> Statuses] /\ clogDisk' \in [Ids -> Statuses] BY <1>a, <1>b DEF TypeInv, Statuses
  <2>6. mode' \in [Ids -> Modes] /\ stage' \in [Ids -> Stages] BY <1>b DEF TypeInv
  <2>7. issued' \subseteq Ids /\ att' \subseteq issued' BY <1>b DEF TypeInv
  <2> QED BY <2>1, <2>2, <2>3, <2>4, <2>5, <2>6, <2>7 DEF TypeInv
<1>2. DownIsQuiet'
  BY <1>a DEF DownIsQuiet
<1>3. VacuumBegan'
  BY <1>b, <1>c DEF VacuumBegan
<1>h. \A u \in Ids : clog'[u] = "Committed" => clog[u] = "Committed" \/ u \in C
  BY <1>a DEF TypeInv
<1>4. UnissuedIsOpen'
  BY <1>b, <1>g, <1>h DEF UnissuedIsOpen
<1>5. EndsInOrder'
  <2>1. \A u \in Ids : /\ stage[u] = "Commit" => CommitLogged(u)'
                       /\ stage[u] = "Committed" => CommitDurable(u)'
    <3>1. \A u : CommitLogged(u) => CommitLogged(u)' BY <1>e DEF CommitLogged
    <3> QED BY <3>1, <1>f DEF EndsInOrder
  <2> QED BY <2>1, <1>b DEF EndsInOrder
<1>6. ReadersDoNotWrite'
  BY <1>b, <1>c DEF ReadersDoNotWrite
<1>7. CommittedIsBacked'
  <2>1. ASSUME NEW u \in Ids \ reused, clog'[u] = "Committed" \/ clogDisk[u] = "Committed"
        PROVE  CommitDurable(u)' \/ ~Writes(u)'
    <3>1. CommitDurable(u) \/ ~Writes(u)
      BY <2>1, <1>g, <1>h DEF CommittedIsBacked
    <3> QED BY <3>1, <1>f
  <2> QED BY <2>1, <1>b, <1>c DEF CommittedIsBacked
<1> QED BY <1>1, <1>2, <1>3, <1>4, <1>5, <1>6, <1>7
-----------------------------------------------------------------------------
(* The other steps are plain.                                              *)

LEMMA TwoMax ==
  ASSUME NEW a \in Nat, NEW b \in Nat
  PROVE  Max({a, b}) \in Nat /\ Max({a, b}) >= a
<1>1. \E x \in {a, b} : \A y \in {a, b} : x >= y
  OBVIOUS
<1>2. Max({a, b}) \in {a, b} /\ \A y \in {a, b} : Max({a, b}) >= y
  BY <1>1 DEF Max
<1> QED BY <1>2

\* A row is put on page p and the change is logged.
RowPut(t, p) ==
    \E n, x, rec : /\ mem' = [mem EXCEPT ![p] = WithRow(mem[p], n, x, Len(log) + 1)]
                   /\ log' = Append(log, rec)
                   /\ rec.kind \in Changes /\ rec.txn = t /\ rec.page = p

LEMMA ChangeIsPlain ==
  ASSUME IInv, NEW t \in Ids,
         \/ InsertRow(t) \/ InsertFresh(t) \/ \E p \in Heap, r \in 1..MaxLsn : DeleteRow(t, p, r)
  PROVE  Plain(Changes, t)
<1> USE DEF IInv
<1>0. TypeInv OBVIOUS
<1>1. /\ Working(t) /\ mode[t] = "rw"
      /\ durable' = durable /\ disk' = disk /\ clog' = clog /\ clogDisk' = clogDisk /\ mode' = mode
      /\ stage' = stage /\ att' = att /\ issued' = issued /\ reused' = reused /\ phase' = phase
  BY DEF InsertRow, InsertFresh, DeleteRow, frames, live, ids, system
<1>2. \E p \in Heap : RowPut(t, p)
  <2>1. ASSUME NEW p \in Heap, InsertInto(t, p) PROVE RowPut(t, p)
    <3> DEFINE rec == [kind |-> "Insert", txn |-> t, page |-> p]
    <3>1. log' = Append(log, rec) /\ rec.kind \in Changes /\ rec.txn = t /\ rec.page = p
      BY <2>1 DEF InsertInto, Changes
    <3>2. mem' = [mem EXCEPT ![p] = WithRow(mem[p], Len(log) + 1, 0, Len(log) + 1)] BY <2>1 DEF InsertInto
    <3> HIDE DEF rec
    <3> QED BY <3>1, <3>2 DEF RowPut
  <2>2. CASE InsertRow(t)
    <3>1. LastPage \in Heap /\ InsertInto(t, LastPage) BY <2>2 DEF InsertRow, LastPage, Heap
    <3>2. PICK p \in Heap : p = LastPage BY <3>1
    <3>3. InsertInto(t, p) BY <3>1, <3>2
    <3> QED BY <3>3, <2>1
  <2>3. CASE InsertFresh(t)
    <3>1. "Tail" \in Heap /\ InsertInto(t, "Tail") BY <2>3 DEF InsertFresh, Heap
    <3> QED BY <3>1, <2>1
  <2>4. ASSUME NEW p \in Heap, NEW r \in 1..MaxLsn, DeleteRow(t, p, r) PROVE RowPut(t, p)
    <3> DEFINE rec == [kind |-> "Delete", txn |-> t, page |-> p, row |-> r]
    <3>1. log' = Append(log, rec) /\ rec.kind \in Changes /\ rec.txn = t /\ rec.page = p
      BY <2>4 DEF DeleteRow, Changes
    <3>2. mem' = [mem EXCEPT ![p] = WithRow(mem[p], r, t, Len(log) + 1)] BY <2>4 DEF DeleteRow
    <3> HIDE DEF rec
    <3> QED BY <3>1, <3>2 DEF RowPut
  <2> QED BY <2>2, <2>3, <2>4
<1>p. PICK p \in Heap : RowPut(t, p)
  BY <1>2
<1>3. PICK n, x, rec :
         /\ mem' = [mem EXCEPT ![p] = WithRow(mem[p], n, x, Len(log) + 1)]
         /\ log' = Append(log, rec) /\ rec.kind \in Changes /\ rec.txn = t /\ rec.page = p
  BY <1>p DEF RowPut
<1>4. Extended(Changes, t)
  <2>1. Extended({rec.kind}, rec.txn) BY <1>3, AppendExtends DEF TypeInv
  <2> QED BY <2>1, <1>3 DEF Extended
<1>5. PageFile(mem')
  <2>1. p \in Pages /\ "lsn" \in DOMAIN mem[p] BY DEF TypeInv, PageFile, Pages
  <2>2. Len(log) + 1 \in Nat BY LogIsSeq DEF TypeInv
  <2>3. "lsn" \in DOMAIN WithRow(mem[p], n, x, Len(log) + 1) /\ WithRow(mem[p], n, x, Len(log) + 1).lsn \in Nat
    BY <2>1, <2>2, WithRowLsn
  <2> QED BY <2>1, <2>3, <1>3, PagePut DEF TypeInv
<1>6. StillDurable
  BY <1>1, DurableSame
<1>7. t \in att /\ phase = "run"
  BY <1>1 DEF Working, Up
<1>8. Changes \subseteq Kinds \ {"Begin", "Commit"} /\ "SeqAdvance" \notin Changes
  BY DEF Kinds, Changes
<1> QED BY <1>0, <1>1, <1>4, <1>5, <1>6, <1>7, <1>8 DEF Plain, TypeInv

\* The sequence's page is replaced, and the change logged or not.
SequencePut(t) ==
    \E img, rec : /\ "lsn" \in DOMAIN img /\ img.lsn \in Nat /\ mem' = [mem EXCEPT !["Seq"] = img]
                  /\ rec.kind = "SeqAdvance" /\ rec.txn = t
                  /\ log' = log \/ log' = Append(log, rec)

LEMMA SequenceIsPlain ==
  ASSUME IInv, NEW t \in Ids, NextVal(t) \/ \E c \in BOOLEAN : SetVal(t, c)
  PROVE  Plain({"SeqAdvance"}, t)
<1> USE DEF IInv
<1>0. TypeInv OBVIOUS
<1>1. /\ Working(t)
      /\ durable' = durable /\ disk' = disk /\ clog' = clog /\ clogDisk' = clogDisk /\ mode' = mode
      /\ stage' = stage /\ att' = att /\ issued' = issued /\ reused' = reused /\ phase' = phase
  BY DEF NextVal, SetVal, frames, live, ids, system
<1>2. SequencePut(t)
  <2>1. Len(log) + 1 \in Nat BY LogIsSeq DEF TypeInv
  <2>2. mem["Seq"].lsn \in Nat BY DEF TypeInv, PageFile, Pages
  <2>3. CASE NextVal(t)
    <3> DEFINE s == mem["Seq"]
               logs == s.cnt <= 0
               img == [lsn |-> IF logs THEN Len(log) + 1 ELSE s.lsn, last |-> NextValue,
                       cnt |-> IF logs THEN Batch ELSE s.cnt - 1, called |-> TRUE]
               rec == [kind |-> "SeqAdvance", txn |-> t, val |-> Reserved(NextValue)]
    <3>1. "lsn" \in DOMAIN img /\ img.lsn \in Nat BY <2>1, <2>2
    <3>2. mem' = [mem EXCEPT !["Seq"] = img] BY <2>3 DEF NextVal
    <3>3. log' = log \/ log' = Append(log, rec) BY <2>3 DEF NextVal
    <3>4. rec.kind = "SeqAdvance" /\ rec.txn = t OBVIOUS
    <3> HIDE DEF img, rec
    <3> QED BY <3>1, <3>2, <3>3, <3>4 DEF SequencePut
  <2>4. ASSUME NEW c \in BOOLEAN, SetVal(t, c)
        PROVE  SequencePut(t)
    <3> DEFINE v == Max({0} \cup handed) + 1
               img == [lsn |-> Len(log) + 1, last |-> v, cnt |-> 0, called |-> c]
               rec == [kind |-> "SeqAdvance", txn |-> t, val |-> v]
    <3>1. mem' = [mem EXCEPT !["Seq"] = img] /\ log' = Append(log, rec) BY <2>4 DEF SetVal
    <3> HIDE DEF v
    <3>2. "lsn" \in DOMAIN img /\ img.lsn \in Nat /\ rec.kind = "SeqAdvance" /\ rec.txn = t BY <2>1
    <3> HIDE DEF img, rec
    <3> QED BY <3>1, <3>2 DEF SequencePut
  <2> QED BY <2>3, <2>4
<1>3. PICK img, rec : /\ "lsn" \in DOMAIN img /\ img.lsn \in Nat /\ mem' = [mem EXCEPT !["Seq"] = img]
                      /\ rec.kind = "SeqAdvance" /\ rec.txn = t
                      /\ log' = log \/ log' = Append(log, rec)
  BY <1>2 DEF SequencePut
<1>4. Extended({"SeqAdvance"}, t)
  <2>1. CASE log' = log BY <2>1, SameExtends DEF TypeInv
  <2>2. CASE log' = Append(log, rec)
    <3>1. rec.kind \in Changes => rec.page \in Heap BY <1>3 DEF Changes
    <3>2. Extended({rec.kind}, rec.txn) BY <2>2, <3>1, AppendExtends DEF TypeInv
    <3> QED BY <3>2, <1>3
  <2> QED BY <2>1, <2>2, <1>3
<1>5. PageFile(mem')
  <2>1. "Seq" \in Pages BY DEF Pages
  <2> QED BY <2>1, <1>3, PagePut DEF TypeInv
<1>6. StillDurable
  BY <1>1, DurableSame
<1>7. t \in att /\ phase = "run"
  BY <1>1 DEF Working, Up
<1>8. {"SeqAdvance"} \subseteq Kinds \ {"Begin", "Commit"} /\ {"SeqAdvance"} \cap Changes = {}
  BY DEF Kinds, Changes
<1> QED BY <1>0, <1>1, <1>4, <1>5, <1>6, <1>7, <1>8 DEF Plain, TypeInv

\* VACUUM stamps a page with the LSN of its Begin.
LEMMA VacuumIsPlain ==
  ASSUME IInv, NEW t \in Ids, NEW p \in Heap, VacuumPage(t, p)
  PROVE  Plain({}, t)
<1> USE DEF IInv
<1>0. TypeInv OBVIOUS
<1>1. /\ Working(t) /\ mode[t] = "vac" /\ log' = log
      /\ durable' = durable /\ disk' = disk /\ clog' = clog /\ clogDisk' = clogDisk /\ mode' = mode
      /\ stage' = stage /\ att' = att /\ issued' = issued /\ reused' = reused /\ phase' = phase
  BY DEF VacuumPage, frames, live, ids, system
<1>2. t \in att /\ phase = "run"
  BY <1>1 DEF Working, Up
<1>3. Stamp(t) \in Nat
  <2> DEFINE S == {i \in DOMAIN log : log[i].kind = "Begin" /\ log[i].txn = t}
  <2>1. S # {} BY <1>1, <1>2 DEF VacuumBegan, BeginLogged
  <2>2. Len(log) \in Nat /\ S \subseteq 0..Len(log) BY LogIsSeq DEF TypeInv
  <2>3. Stamp(t) = Max(S) BY DEF Stamp
  <2> HIDE DEF S
  <2>4. Max(S) \in S BY <2>1, <2>2, MaxIsMember
  <2>5. PICK x \in S : x = Max(S) BY <2>4
  <2>6. x \in Nat
    <3>1. x \in 0..Len(log) BY <2>2
    <3> QED BY <3>1, <2>2
  <2> QED BY <2>3, <2>5, <2>6
<1>4. PageFile(mem')
  <2>1. p \in Pages BY DEF Pages
  <2>2. "lsn" \in DOMAIN mem[p] /\ mem[p].lsn \in Nat BY <2>1 DEF TypeInv, PageFile
  <2> DEFINE n == Max({mem[p].lsn, Stamp(t)})
  <2>3. n \in Nat BY <2>2, <1>3, TwoMax
  <2>4. \E rows : mem' = [mem EXCEPT ![p].rows = rows, ![p].lsn = n] BY DEF VacuumPage
  <2> HIDE DEF n
  <2>5. PICK rows : mem' = [mem EXCEPT ![p].rows = rows, ![p].lsn = n] BY <2>4
  <2>6. DOMAIN mem' = DOMAIN mem /\ \A q \in DOMAIN mem : q # p => mem'[q] = mem[q] BY <2>5
  <2>7. "lsn" \in DOMAIN mem'[p] /\ mem'[p].lsn = n BY <2>1, <2>2, <2>5 DEF TypeInv, PageFile
  <2> QED BY <2>3, <2>6, <2>7 DEF TypeInv, PageFile
<1>5. StillDurable
  BY <1>1, DurableSame
<1>6. Extended({}, t)
  BY <1>1, SameExtends DEF TypeInv
<1> QED BY <1>0, <1>1, <1>2, <1>4, <1>5, <1>6 DEF Plain, TypeInv

LEMMA PageStepIsPlain ==
  ASSUME IInv, NEW t,
         \/ t \in Ids /\ (Link(t) \/ Release(t))
         \/ t \in Pages /\ WritePage(t)
         \/ RecoverPages
  PROVE  Plain({}, t)
<1> USE DEF IInv
<1>0. TypeInv OBVIOUS
<1>1. /\ log' = log /\ clog' = clog /\ clogDisk' = clogDisk /\ mode' = mode
      /\ stage' = stage /\ att' = att /\ issued' = issued /\ reused' = reused /\ phase' = "run"
  BY DEF Link, Release, WritePage, RecoverPages, frames, live, ids, system, txns, Up
<1>2. PageFile(mem') /\ PageFile(disk') /\ StillDurable
  <2>1. CASE t \in Ids /\ Link(t)
    <3>1. disk' = disk /\ durable' = durable /\ mem' = [mem EXCEPT !["Head"].next = "Tail"]
      BY <2>1 DEF Link, frames
    <3>2. DOMAIN mem' = DOMAIN mem /\ \A q \in DOMAIN mem : q # "Head" => mem'[q] = mem[q] BY <3>1
    <3>3. "Head" \in DOMAIN mem BY DEF TypeInv, PageFile, Pages, Heap
    <3> DEFINE img == [mem["Head"] EXCEPT !.next = "Tail"]
    <3>4. mem'["Head"] = img BY <3>1, <3>3
    <3>5. "lsn" \in DOMAIN mem["Head"] BY <3>3 DEF TypeInv, PageFile
    <3>6. DOMAIN img = DOMAIN mem["Head"] /\ img.lsn = mem["Head"].lsn BY <3>5
    <3>7. PageFile(mem')
      <4> HIDE DEF img
      <4> QED BY <3>2, <3>4, <3>5, <3>6 DEF TypeInv, PageFile
    <3> QED BY <3>1, <3>7, DurableSame DEF TypeInv
  <2>2. CASE t \in Ids /\ Release(t)
    <3>1. disk' = disk /\ durable' = durable /\ mem' = mem BY <2>2 DEF Release
    <3> QED BY <3>1, DurableSame DEF TypeInv
  <2>3. CASE t \in Pages /\ WritePage(t)
    <3>1. mem' = mem /\ disk' = [disk EXCEPT ![t] = mem[t]] /\ durable' = Max({durable, mem[t].lsn})
      BY <2>3 DEF WritePage
    <3>2. "lsn" \in DOMAIN mem[t] /\ mem[t].lsn \in Nat /\ durable \in Nat BY <2>3 DEF TypeInv, PageFile
    <3>3. PageFile(disk') BY <2>3, <3>1, <3>2, PagePut DEF TypeInv
    <3>4. durable' \in Nat /\ durable' >= durable BY <3>1, <3>2, TwoMax
    <3>5. StillDurable
      <4>1. \A i \in DOMAIN log : i \in Nat BY LogIsSeq DEF TypeInv
      <4> QED BY <3>2, <3>4, <4>1 DEF StillDurable
    <3> QED BY <3>1, <3>3, <3>5 DEF TypeInv
  <2>4. CASE RecoverPages
    <3>1. disk' = mem /\ durable' = durable /\ mem' = mem BY <2>4 DEF RecoverPages
    <3> QED BY <3>1, DurableSame DEF TypeInv
  <2> QED BY <2>1, <2>2, <2>3, <2>4
<1>3. Extended({}, t)
  BY <1>1, SameExtends DEF TypeInv
<1> QED BY <1>1, <1>2, <1>3 DEF Plain, TypeInv

LEMMA CheckpointIsPlain ==
  ASSUME IInv,
         CkptClog \/ CkptTables \/ CkptRecord \/ CkptFlush \/ MetaTruncate \/ MetaWrite \/ RecoverClog
  PROVE  Plain({"Checkpoint"}, 0)
<1> USE DEF IInv
<1>0. TypeInv OBVIOUS
<1>1. /\ mem' = mem /\ disk' = disk /\ clog' = clog /\ mode' = mode
      /\ stage' = stage /\ att' = att /\ issued' = issued /\ reused' = reused /\ phase' # "down"
  BY DEF CkptClog, CkptTables, CkptRecord, CkptFlush, MetaTruncate, MetaWrite, RecoverClog, CkptRest,
         store, txns, ids, Up
<1>2. durable' = durable \/ durable' = Len(log)
  BY DEF CkptClog, CkptTables, CkptRecord, CkptFlush, MetaTruncate, MetaWrite, RecoverClog
<1>3. clogDisk' \in {clogDisk, clog}
  BY DEF CkptClog, CkptTables, CkptRecord, CkptFlush, MetaTruncate, MetaWrite, RecoverClog
<1>4. log' = log \/ log' = Append(log, [kind |-> "Checkpoint", txn |-> 0, dpt |-> ckpt.dpt])
  BY DEF CkptClog, CkptTables, CkptRecord, CkptFlush, MetaTruncate, MetaWrite, RecoverClog
<1>5. Extended({"Checkpoint"}, 0)
  <2>1. CASE log' = log BY <2>1, SameExtends DEF TypeInv
  <2>2. CASE log' # log
    <3> DEFINE rec == [kind |-> "Checkpoint", txn |-> 0, dpt |-> ckpt.dpt]
    <3>1. rec.kind = "Checkpoint" /\ rec.txn = 0 /\ log' = Append(log, rec) BY <1>4, <2>2
    <3> HIDE DEF rec
    <3>2. rec.kind \in Changes => rec.page \in Heap BY <3>1 DEF Changes
    <3>3. Extended({rec.kind}, rec.txn) BY <3>1, <3>2, AppendExtends DEF TypeInv
    <3> QED BY <3>1, <3>3
  <2> QED BY <2>1, <2>2
<1>6. StillDurable
  BY <1>2, DurableSame
<1>7. {"Checkpoint"} \subseteq Kinds \ {"Begin", "Commit"} /\ {"Checkpoint"} \cap Changes = {}
  BY DEF Kinds, Changes
<1> QED BY <1>1, <1>3, <1>5, <1>6, <1>7 DEF Plain, TypeInv

LEMMA StutterIsPlain ==
  ASSUME IInv, UNCHANGED vars
  PROVE  Plain({}, 0)
<1> USE DEF IInv
<1>0. TypeInv OBVIOUS
<1>1. /\ mem' = mem /\ disk' = disk /\ clog' = clog /\ clogDisk' = clogDisk /\ mode' = mode /\ log' = log
      /\ stage' = stage /\ att' = att /\ issued' = issued /\ reused' = reused /\ phase' = phase
      /\ durable' = durable
  BY DEF vars
<1>2. Extended({}, 0) /\ StillDurable
  BY <1>0, <1>1, SameExtends, DurableSame DEF TypeInv
<1> QED BY <1>1, <1>2 DEF Plain, TypeInv

-----------------------------------------------------------------------------
(* The theorem.                                                            *)

LEMMA InitIInv ==
  ASSUME Init
  PROVE  IInv
<1>1. IsSeq(log) /\ DOMAIN log = {} /\ Len(log) = 0
  BY DEF Init, IsSeq
<1>2. PageFile(FreshFile)
  BY DEF PageFile, FreshFile, FreshSeq, EmptyHeap
<1>3. mem = FreshFile /\ disk = FreshFile
  BY DEF Init
<1>4. PageFile(mem) /\ PageFile(disk)
  BY <1>2, <1>3
<1>5. TypeInv
  BY <1>1, <1>4 DEF TypeInv, Init, Statuses, Modes, Stages
<1>6. DownIsQuiet /\ VacuumBegan /\ UnissuedIsOpen /\ EndsInOrder /\ ReadersDoNotWrite /\ CommittedIsBacked
  BY DEF Init, DownIsQuiet, VacuumBegan, UnissuedIsOpen, EndsInOrder, ReadersDoNotWrite, CommittedIsBacked, None
<1> QED BY <1>5, <1>6 DEF IInv

LEMMA StepKept ==
  ASSUME IInv, [Next]_vars
  PROVE  IInv'
<1>1. ASSUME NEW t \in Ids, NEW m \in {"rw", "ro", "vac"}, Start(t, m) PROVE IInv'
  BY <1>1, StartKept
<1>2. ASSUME NEW t \in Ids, NEW k \in {"Commit", "Abort"}, LogEnd(t, k) PROVE IInv'
  BY <1>2, LogEndKept
<1>3. ASSUME NEW t \in Ids, FlushEnd(t) PROVE IInv'
  BY <1>3, FlushEndKept
<1>4. ASSUME NEW t \in Ids, Decide(t) PROVE IInv'
  <2>1. /\ stage[t] \in {"Committed", "Aborted"} /\ DecideWith(t, stage[t]) /\ t \in att /\ phase = "run"
        /\ UNCHANGED <<log, durable, mem, disk, clogDisk, issued, reused, phase>>
    BY <1>4 DEF Decide, Up, store, ids, system
  <2>2. stage[t] = "Committed" => CommitDurable(t)
    BY DEF IInv, EndsInOrder
  <2>3. PICK s \in {"Committed", "Aborted"} : s = stage[t]
    BY <2>1
  <2>4. DecideWith(t, s) /\ (s = "Committed" => CommitDurable(t))
    BY <2>1, <2>2, <2>3
  <2> QED BY <2>1, <2>4, DecideKept
<1>5. ASSUME NEW t \in Ids, NEW s \in {"Committed", "Aborted"}, EndReader(t, s) PROVE IInv'
  <2>1. /\ DecideWith(t, s) /\ t \in att /\ phase = "run" /\ mode[t] = "ro"
        /\ UNCHANGED <<log, durable, mem, disk, clogDisk, issued, reused, phase>>
    BY <1>5 DEF EndReader, Working, Up, store, ids, system
  <2>2. t \notin reused => ~Writes(t)
    BY <2>1 DEF IInv, ReadersDoNotWrite
  <2> QED BY <2>1, <2>2, DecideKept
<1>6. ASSUME NEW t \in Ids,
             InsertRow(t) \/ InsertFresh(t) \/ \E p \in Heap, r \in 1..MaxLsn : DeleteRow(t, p, r)
      PROVE  IInv'
  BY <1>6, ChangeIsPlain, PlainKept
<1>7. ASSUME NEW t \in Ids, NextVal(t) \/ \E c \in BOOLEAN : SetVal(t, c) PROVE IInv'
  BY <1>7, SequenceIsPlain, PlainKept
<1>8. ASSUME NEW t \in Ids, \E p \in Heap : VacuumPage(t, p) PROVE IInv'
  BY <1>8, VacuumIsPlain, PlainKept
<1>9. ASSUME NEW t \in Ids, Link(t) \/ Release(t) PROVE IInv'
  BY <1>9, PageStepIsPlain, PlainKept
<1>10. ASSUME NEW p \in Pages, WritePage(p) PROVE IInv'
  BY <1>10, PageStepIsPlain, PlainKept
<1>11. ASSUME CkptClog \/ CkptTables \/ CkptRecord \/ CkptFlush \/ MetaTruncate \/ MetaWrite \/ RecoverClog
       PROVE  IInv'
  BY <1>11, CheckpointIsPlain, PlainKept
<1>12. ASSUME NEW n \in durable..Len(log), Kill(n) PROVE IInv'
  BY <1>12, KillKept
<1>13. CASE Restart
  BY <1>13, RestartKept
<1>14. CASE RecoverPages
  BY <1>14, PageStepIsPlain, PlainKept
<1>15. CASE UNCHANGED vars
  BY <1>15, StutterIsPlain, PlainKept
<1>16. CASE Next
  BY <1>1, <1>2, <1>3, <1>4, <1>5, <1>6, <1>7, <1>8, <1>9, <1>10, <1>11, <1>12, <1>13, <1>14, <1>16 DEF Next
<1> QED BY <1>15, <1>16

\* The invariant holds in every reachable state: what counts as committed is backed by the durable
\* log, through kills, restarts and checkpoints.
THEOREM Invariance == Spec => []IInv
<1>1. Init => IInv
  BY InitIInv
<1>2. IInv /\ [Next]_vars => IInv'
  BY StepKept
<1> QED BY <1>1, <1>2, PTL DEF Spec

\* No change comes to count as committed without a Commit record of its transaction: neither the
\* clog.db that a checkpoint wrote nor the statuses that recovery derives from the log
\* (recovery.rs analyze, Instance::new) turn an unfinished writer into a committed one.
THEOREM NothingComesBack == Spec => []NothingResurrected
<1>1. IInv => NothingResurrected
  <2> SUFFICES ASSUME IInv, NEW i \in DOMAIN log, log[i].kind \in {"Insert", "Delete"},
                      log[i].txn \notin reused, Status(log[i].txn) = "Committed"
               PROVE  CommitLogged(log[i].txn)
    BY DEF NothingResurrected
  <2> DEFINE t == log[i].txn
  <2>1. t \in Ids /\ Writes(t)
    BY DEF IInv, TypeInv, RecordOK, Changes, Writes
  <2>2. clog[t] = "Committed"
    BY DEF Status
  <2>3. CommitDurable(t)
    BY <2>1, <2>2 DEF IInv, CommittedIsBacked
  <2> QED BY <2>3 DEF CommitDurable, CommitLogged
<1> QED BY <1>1, Invariance, PTL
-----------------------------------------------------------------------------
(* The sequence.  While nothing on RepeatsOnlyIf's list has happened, the  *)
(* values reserved by the newest SeqAdvance of the log cover every value   *)
(* handed out, and so does what start-up will make of page and log.        *)

\* No exception that RepeatsOnlyIf names has come up.
Untroubled ==
    /\ exposed \cap {"seq", "reset"} = {}
    /\ \A i \in lost : log[i].kind # "SeqAdvance"

\* The records start-up dropped are still in the log, for good.
LostIsDurable == \A i \in lost : i \in DOMAIN log /\ i <= durable

\* A state of the sequence: untouched, or within the reservation of a record.
Reserves(img, i) ==
    /\ i \in SeqRecords /\ img.lsn = i
    /\ img.last \in Nat /\ img.cnt \in Nat /\ img.called = TRUE
    /\ log[i].val = img.last + img.cnt
SeqImage(img) == img = FreshSeq \/ Reserves(img, img.lsn)

\* The page in memory has the newest reservation, and is past every value handed out.
UpToDate(img) ==
    /\ SeqImage(img) /\ \A i \in SeqRecords : i <= img.lsn
    /\ \A h \in handed : img.lsn # 0 /\ h <= img.last
MemoryAhead ==
    phase \notin {"down", "failed"} =>
        UpToDate(mem["Seq"]) /\ (phase # "run" => mem["Seq"].lsn <= durable)

\* The page in the file and the log are together past every value handed out.
Newest(i) == i \in SeqRecords /\ \A j \in SeqRecords : j <= i
Covers(img, h) ==
    /\ \A i \in SeqRecords : Newest(i) /\ i > img.lsn => h <= log[i].val
    /\ (\A i \in SeqRecords : i <= img.lsn) => img.lsn # 0 /\ h <= img.last
FileAhead == phase = "down" => \A h \in handed : Covers(disk["Seq"], h)

SeqOK ==
    /\ handed \subseteq 1..MaxVal /\ repeated = FALSE
    /\ \A i \in SeqRecords : log[i].val \in Nat
    /\ SeqImage(disk["Seq"]) /\ disk["Seq"].lsn <= durable
    /\ MemoryAhead /\ FileAhead

SeqInv == LostIsDurable /\ (Untroubled => SeqOK)

LEMMA WasUntroubled ==
  ASSUME exposed \subseteq exposed', lost \subseteq lost', \A i \in lost : log'[i] = log[i], Untroubled'
  PROVE  Untroubled
<1>1. exposed \cap {"seq", "reset"} = {}
  BY DEF Untroubled
<1>2. \A i \in lost : log[i].kind # "SeqAdvance"
  BY DEF Untroubled
<1> QED BY <1>1, <1>2 DEF Untroubled

-----------------------------------------------------------------------------
(* Steps that leave the sequence alone.                                    *)

NoAdvance == log' = log \/ \E r : log' = Append(log, r) /\ r.kind # "SeqAdvance"

\* The log has what it had, and the same reservations.
SameReservations ==
    /\ DOMAIN log \subseteq DOMAIN log'
    /\ \A i \in DOMAIN log : log'[i] = log[i]
    /\ SeqRecords' = SeqRecords

LEMMA GrowsAside ==
  ASSUME DOMAIN log \subseteq DOMAIN log', \A i \in DOMAIN log : log'[i] = log[i],
         \A i \in DOMAIN log' \ DOMAIN log : log'[i].kind # "SeqAdvance"
  PROVE  SameReservations
<1>1. SeqRecords' = {i \in DOMAIN log' : log'[i].kind = "SeqAdvance"}
  BY DEF SeqRecords
<1>2. SeqRecords' = SeqRecords
  BY <1>1 DEF SeqRecords
<1> QED BY <1>2 DEF SameReservations

LEMMA NoAdvanceAside ==
  ASSUME IsSeq(log), NoAdvance
  PROVE  SameReservations
<1>1. CASE log' = log
  BY <1>1, GrowsAside
<1>2. ASSUME NEW r, log' = Append(log, r), r.kind # "SeqAdvance" PROVE SameReservations
  <2>1. OneMore(log, r, log') BY <1>2, AppendOne
  <2>2. DOMAIN log \subseteq DOMAIN log' BY <2>1 DEF OneMore
  <2>3. \A i \in DOMAIN log' \ DOMAIN log : log'[i] = r BY <2>1 DEF OneMore
  <2>4. \A i \in DOMAIN log : log'[i] = log[i] BY <2>1 DEF OneMore
  <2> QED BY <1>2, <2>2, <2>3, <2>4, GrowsAside
<1> QED BY <1>1, <1>2 DEF NoAdvance

LEMMA ImageKept ==
  ASSUME SeqRecords \subseteq SeqRecords', \A i \in DOMAIN log : log'[i] = log[i], NEW img, SeqImage(img)
  PROVE  SeqImage(img)'
<1>1. CASE img = FreshSeq
  BY <1>1 DEF SeqImage, FreshSeq
<1>2. CASE Reserves(img, img.lsn)
  <2>1. img.lsn \in SeqRecords' /\ log'[img.lsn] = log[img.lsn]
    BY <1>2 DEF Reserves, SeqRecords
  <2> QED BY <1>2, <2>1 DEF Reserves, SeqImage
<1> QED BY <1>1, <1>2 DEF SeqImage

\* A step that leaves the sequence in memory and what was handed out alone.
Calm ==
    /\ SameReservations /\ StillDurable
    /\ handed' = handed /\ repeated' = repeated /\ exposed' = exposed /\ lost' = lost
    /\ mem'["Seq"] = mem["Seq"]
    /\ \/ disk'["Seq"] = disk["Seq"]
       \/ /\ disk'["Seq"] = mem["Seq"] /\ phase \notin {"down", "failed"}
          /\ mem["Seq"].lsn <= durable' \/ phase = "pages"
    /\ \/ phase' = phase
       \/ phase \notin {"down", "failed"} /\ phase' \in {"pages", "run"} /\ (phase' = "pages" => phase = "undo")

LEMMA CalmKept ==
  ASSUME TypeInv, SeqInv, Calm
  PROVE  SeqInv'
<1>0. /\ DOMAIN log \subseteq DOMAIN log' /\ (\A i \in DOMAIN log : log'[i] = log[i]) /\ SeqRecords' = SeqRecords
  BY DEF Calm, SameReservations
<1>1. LostIsDurable'
  <2>1. \A i \in lost : i \in DOMAIN log' /\ i <= durable'
    BY <1>0 DEF SeqInv, LostIsDurable, Calm, StillDurable
  <2> QED BY <2>1 DEF LostIsDurable, Calm
<1>2. ASSUME Untroubled' PROVE SeqOK'
  <2>1. Untroubled
    <3>1. \A i \in lost : log'[i] = log[i] BY <1>0 DEF SeqInv, LostIsDurable
    <3>2. exposed \subseteq exposed' /\ lost \subseteq lost' BY DEF Calm
    <3> QED BY <1>2, <3>1, <3>2, WasUntroubled
  <2>2. SeqOK BY <2>1 DEF SeqInv
  <2>3. PICK m : m = mem["Seq"] OBVIOUS
  <2>4. PICK d : d = disk["Seq"] OBVIOUS
  <2>5. m.lsn \in Nat /\ d.lsn \in Nat /\ durable \in Nat /\ durable' \in Nat
    BY <2>3, <2>4 DEF TypeInv, PageFile, Pages, Calm, StillDurable
  <2>6. ASSUME NEW img, SeqImage(img), img.lsn <= durable PROVE img.lsn <= durable'
    <3>1. CASE img = FreshSeq BY <3>1, <2>5 DEF FreshSeq
    <3>2. CASE Reserves(img, img.lsn)
      BY <3>2, <2>6 DEF Reserves, SeqRecords, Calm, StillDurable
    <3> QED BY <2>6, <3>1, <3>2 DEF SeqImage
  <2>7. handed' \subseteq 1..MaxVal /\ repeated' = FALSE
    BY <2>2 DEF SeqOK, Calm
  <2>8. (\A i \in SeqRecords : log[i].val \in Nat)'
    <3>1. \A i \in SeqRecords : log'[i].val \in Nat BY <1>0, <2>2 DEF SeqOK, SeqRecords
    <3> QED BY <3>1, <1>0
  <2>9. phase \notin {"down", "failed"} => /\ UpToDate(m) /\ SeqImage(m)
                                           /\ phase # "run" => m.lsn <= durable
    BY <2>2, <2>3 DEF SeqOK, MemoryAhead, UpToDate
  <2>10. SeqImage(d) /\ d.lsn <= durable
    BY <2>2, <2>4 DEF SeqOK
  <2>11. SeqImage(disk["Seq"])' /\ (disk["Seq"].lsn <= durable)'
    <3>1. CASE disk'["Seq"] = d
      <4>1. SeqImage(d)' /\ d.lsn <= durable' BY <1>0, <2>10, <2>6, ImageKept
      <4> QED BY <4>1, <3>1 DEF SeqImage, Reserves
    <3>2. CASE disk'["Seq"] = m /\ phase \notin {"down", "failed"} /\ (m.lsn <= durable' \/ phase = "pages")
      <4>1. SeqImage(m)' BY <1>0, <3>2, <2>9, ImageKept
      <4>2. m.lsn <= durable' BY <3>2, <2>9, <2>6
      <4> QED BY <4>1, <4>2, <3>2 DEF SeqImage, Reserves
    <3> QED BY <3>1, <3>2, <2>3, <2>4 DEF Calm
  <2>12. ASSUME phase' \notin {"down", "failed"}
         PROVE  UpToDate(mem["Seq"])' /\ (phase' # "run" => mem'["Seq"].lsn <= durable')
    <3>1. phase \notin {"down", "failed"} /\ (phase' # "run" => phase # "run")
      BY <2>12 DEF Calm
    <3>2. mem'["Seq"] = m BY <2>3 DEF Calm
    <3>3. UpToDate(m)'
      <4>1. SeqImage(m)' BY <1>0, <3>1, <2>9, ImageKept
      <4>2. \A i \in SeqRecords' : i <= m.lsn BY <3>1, <2>9, <1>0 DEF UpToDate
      <4>3. \A h \in handed' : m.lsn # 0 /\ h <= m.last BY <3>1, <2>9 DEF UpToDate, Calm
      <4> QED BY <4>1, <4>2, <4>3 DEF UpToDate
    <3>4. phase' # "run" => m.lsn <= durable' BY <3>1, <2>9, <2>6
    <3> QED BY <3>2, <3>3, <3>4 DEF UpToDate, SeqImage, Reserves
  <2>13. MemoryAhead'
    BY <2>12 DEF MemoryAhead
  <2>14. ASSUME phase' = "down" PROVE \A h \in handed' : Covers(disk["Seq"], h)'
    <3>1. phase = "down" /\ disk'["Seq"] = d BY <2>14, <2>4 DEF Calm
    <3>2. \A h \in handed : Covers(d, h) BY <3>1, <2>2, <2>4 DEF SeqOK, FileAhead
    <3>3. ASSUME NEW h \in handed PROVE Covers(d, h)'
      <4>1. \A i : Newest(i)' = Newest(i) BY <1>0 DEF Newest
      <4>2. \A i \in SeqRecords : log'[i] = log[i] BY <1>0 DEF SeqRecords
      <4>3. Covers(d, h) BY <3>2
      <4> QED BY <4>1, <4>2, <4>3, <1>0 DEF Covers
    <3> QED BY <3>1, <3>3 DEF Calm, Covers
  <2>15. FileAhead'
    BY <2>14 DEF FileAhead
  <2> QED BY <2>7, <2>8, <2>11, <2>13, <2>15 DEF SeqOK
<1> QED BY <1>1, <1>2 DEF SeqInv

LEMMA OtherPageKept ==
  ASSUME PageFile(mem), NEW p \in Heap, NEW img, mem' = [mem EXCEPT ![p] = img]
  PROVE  mem'["Seq"] = mem["Seq"]
<1>1. "Seq" \in DOMAIN mem /\ p # "Seq"
  BY DEF PageFile, Pages, Heap
<1> QED BY <1>1

LEMMA TransactionIsCalm ==
  ASSUME IInv, NEW t \in Ids,
         \/ \E m \in {"rw", "ro", "vac"} : Start(t, m)
         \/ \E k \in {"Commit", "Abort"} : LogEnd(t, k)
         \/ FlushEnd(t) \/ Decide(t)
         \/ \E s \in {"Committed", "Aborted"} : EndReader(t, s)
  PROVE  Calm
<1>0. TypeInv BY DEF IInv
<1>1. /\ handed' = handed /\ repeated' = repeated /\ exposed' = exposed /\ lost' = lost
      /\ mem' = mem /\ disk' = disk /\ phase' = phase
  BY DEF Start, LogEnd, FlushEnd, Decide, EndReader, store, system, rest, seqHist
<1>2. durable' = durable \/ durable' = Len(log)
  BY DEF Start, LogEnd, FlushEnd, Decide, EndReader
<1>3. NoAdvance
  <2>1. ASSUME NEW m \in {"rw", "ro", "vac"}, Start(t, m) PROVE NoAdvance
    <3> DEFINE r == [kind |-> "Begin", txn |-> t]
    <3>1. log' = log \/ log' = Append(log, r) BY <2>1 DEF Start
    <3>2. r.kind # "SeqAdvance" OBVIOUS
    <3> HIDE DEF r
    <3> QED BY <3>1, <3>2 DEF NoAdvance
  <2>2. ASSUME NEW k \in {"Commit", "Abort"}, LogEnd(t, k) PROVE NoAdvance
    <3> DEFINE r == [kind |-> k, txn |-> t]
    <3>1. log' = Append(log, r) BY <2>2 DEF LogEnd
    <3>2. r.kind # "SeqAdvance" OBVIOUS
    <3> HIDE DEF r
    <3> QED BY <3>1, <3>2 DEF NoAdvance
  <2>3. CASE FlushEnd(t) BY <2>3 DEF FlushEnd, NoAdvance
  <2>4. CASE Decide(t) BY <2>4 DEF Decide, NoAdvance
  <2>5. CASE \E s \in {"Committed", "Aborted"} : EndReader(t, s) BY <2>5 DEF EndReader, NoAdvance
  <2> QED BY <2>1, <2>2, <2>3, <2>4, <2>5
<1>4. SameReservations
  BY <1>0, <1>3, NoAdvanceAside DEF TypeInv
<1>5. StillDurable
  BY <1>0, <1>2, DurableSame
<1> QED BY <1>1, <1>4, <1>5 DEF Calm

LEMMA RowChangeIsCalm ==
  ASSUME IInv, NEW t \in Ids,
         \/ InsertRow(t) \/ InsertFresh(t) \/ \E p \in Heap, r \in 1..MaxLsn : DeleteRow(t, p, r)
  PROVE  Calm
<1>0. TypeInv BY DEF IInv
<1>1. /\ handed' = handed /\ repeated' = repeated /\ exposed' = exposed /\ lost' = lost
      /\ disk' = disk /\ phase' = phase /\ durable' = durable
  BY DEF InsertRow, InsertFresh, DeleteRow, frames, system, rest, seqHist
<1>2. SameReservations
  <2>1. Extended(Changes, t) BY ChangeIsPlain DEF Plain
  <2> QED BY <2>1, GrowsAside DEF Extended, Changes
<1>3. mem'["Seq"] = mem["Seq"]
  <2>1. ASSUME NEW p \in Heap, InsertInto(t, p) PROVE mem'["Seq"] = mem["Seq"]
    <3>1. \E img : mem' = [mem EXCEPT ![p] = img] BY <2>1 DEF InsertInto
    <3> QED BY <3>1, <1>0, OtherPageKept DEF TypeInv
  <2>2. CASE InsertRow(t)
    <3>1. LastPage \in Heap /\ InsertInto(t, LastPage) BY <2>2 DEF InsertRow, LastPage, Heap
    <3>2. PICK p \in Heap : p = LastPage BY <3>1
    <3>3. InsertInto(t, p) BY <3>1, <3>2
    <3> QED BY <3>3, <2>1
  <2>3. CASE InsertFresh(t)
    <3>1. "Tail" \in Heap /\ InsertInto(t, "Tail") BY <2>3 DEF InsertFresh, Heap
    <3> QED BY <3>1, <2>1
  <2>4. ASSUME NEW p \in Heap, NEW r \in 1..MaxLsn, DeleteRow(t, p, r) PROVE mem'["Seq"] = mem["Seq"]
    <3>1. \E img : mem' = [mem EXCEPT ![p] = img] BY <2>4 DEF DeleteRow
    <3> QED BY <3>1, <1>0, OtherPageKept DEF TypeInv
  <2> QED BY <2>2, <2>3, <2>4
<1>4. StillDurable
  BY <1>0, <1>1, DurableSame
<1> QED BY <1>1, <1>2, <1>3, <1>4 DEF Calm

LEMMA PageStepIsCalm ==
  ASSUME IInv, NEW t,
         \/ t \in Ids /\ (Link(t) \/ Release(t) \/ \E p \in Heap : VacuumPage(t, p))
         \/ t \in Pages /\ WritePage(t)
         \/ RecoverPages
  PROVE  Calm
<1>0. TypeInv BY DEF IInv
<1>1. /\ handed' = handed /\ repeated' = repeated /\ exposed' = exposed /\ lost' = lost /\ log' = log
  BY DEF Link, Release, VacuumPage, WritePage, RecoverPages, frames, system, rest, seqHist
<1>2. SameReservations
  BY <1>0, <1>1, NoAdvanceAside DEF NoAdvance, TypeInv
<1>3. StillDurable
  <2>1. ASSUME NEW p \in Heap, t \in Ids, VacuumPage(t, p) PROVE StillDurable
    BY <2>1, VacuumIsPlain DEF Plain
  <2>2. CASE \/ t \in Ids /\ (Link(t) \/ Release(t))
             \/ t \in Pages /\ WritePage(t)
             \/ RecoverPages
    BY <2>2, PageStepIsPlain DEF Plain
  <2> QED BY <2>1, <2>2
<1>a. "Seq" \in DOMAIN mem /\ "Head" # "Seq" /\ "Seq" \in DOMAIN disk
  BY <1>0 DEF TypeInv, PageFile, Pages
<1>4. CASE t \in Ids /\ Link(t)
  <2>1. mem'["Seq"] = mem["Seq"] /\ disk' = disk /\ phase' = phase
    BY <1>4, <1>a DEF Link, frames, system
  <2> QED BY <1>1, <1>2, <1>3, <2>1 DEF Calm
<1>5. CASE t \in Ids /\ Release(t)
  <2>1. mem' = mem /\ disk' = disk /\ phase' = phase
    BY <1>5 DEF Release, system
  <2> QED BY <1>1, <1>2, <1>3, <2>1 DEF Calm
<1>6. ASSUME NEW p \in Heap, t \in Ids, VacuumPage(t, p) PROVE Calm
  <2>1. disk' = disk /\ phase' = phase
    BY <1>6 DEF VacuumPage, frames, system
  <2>2. \E rows, n : mem' = [mem EXCEPT ![p].rows = rows, ![p].lsn = n] BY <1>6 DEF VacuumPage
  <2>3. PICK rows, n : mem' = [mem EXCEPT ![p].rows = rows, ![p].lsn = n] BY <2>2
  <2>4. p # "Seq" BY DEF Heap
  <2>5. mem'["Seq"] = mem["Seq"] BY <2>3, <2>4, <1>a
  <2> QED BY <1>1, <1>2, <1>3, <2>1, <2>5 DEF Calm
<1>7. CASE t \in Pages /\ WritePage(t)
  <2>1. mem' = mem /\ phase' = phase /\ phase = "run" /\ disk' = [disk EXCEPT ![t] = mem[t]]
        /\ durable' = Max({durable, mem[t].lsn})
    BY <1>7 DEF WritePage, system, Up
  <2>2. CASE t # "Seq"
    <3>1. disk'["Seq"] = disk["Seq"] BY <2>1, <2>2, <1>a
    <3> QED BY <1>1, <1>2, <1>3, <2>1, <3>1 DEF Calm
  <2>3. CASE t = "Seq"
    <3>1. disk'["Seq"] = mem["Seq"] BY <2>1, <2>3, <1>a
    <3>2. mem["Seq"].lsn \in Nat /\ durable \in Nat BY <1>0 DEF TypeInv, PageFile, Pages
    <3>3. Max({mem["Seq"].lsn, durable}) >= mem["Seq"].lsn BY <3>2, TwoMax
    <3>4. Max({mem["Seq"].lsn, durable}) \in Nat BY <3>2, TwoMax
    <3>5. {mem["Seq"].lsn, durable} = {durable, mem["Seq"].lsn} OBVIOUS
    <3>6. durable' \in Nat /\ durable' >= mem["Seq"].lsn BY <2>1, <2>3, <3>3, <3>4, <3>5
    <3>7. mem["Seq"].lsn <= durable' BY <3>2, <3>6
    <3> QED BY <1>1, <1>2, <1>3, <2>1, <3>1, <3>7 DEF Calm
  <2> QED BY <2>2, <2>3
<1>8. CASE RecoverPages
  <2>1. mem' = mem /\ phase = "pages" /\ phase' = "run" /\ disk' = mem
    BY <1>8 DEF RecoverPages
  <2> QED BY <1>1, <1>2, <1>3, <2>1 DEF Calm
<1> QED BY <1>4, <1>5, <1>6, <1>7, <1>8

LEMMA CheckpointIsCalm ==
  ASSUME IInv,
         \/ CkptClog \/ CkptTables \/ CkptRecord \/ CkptFlush \/ MetaTruncate \/ MetaWrite \/ RecoverClog
         \/ UNCHANGED vars
  PROVE  Calm
<1>0. TypeInv BY DEF IInv
<1>1. CASE CkptClog \/ CkptTables \/ CkptRecord \/ CkptFlush \/ MetaTruncate \/ MetaWrite \/ RecoverClog
  <2>1. /\ handed' = handed /\ repeated' = repeated /\ exposed' = exposed /\ lost' = lost
        /\ mem' = mem /\ disk' = disk
        /\ phase' = phase \/ (phase = "undo" /\ phase' = "pages")
    BY <1>1 DEF CkptClog, CkptTables, CkptRecord, CkptFlush, MetaTruncate, MetaWrite, RecoverClog, CkptRest,
                store, seqHist, rest, txns
  <2>2. Extended({"Checkpoint"}, 0) /\ StillDurable BY <1>1, CheckpointIsPlain DEF Plain
  <2>3. SameReservations BY <2>2, GrowsAside DEF Extended
  <2> QED BY <2>1, <2>2, <2>3 DEF Calm
<1>2. CASE UNCHANGED vars
  <2>1. /\ handed' = handed /\ repeated' = repeated /\ exposed' = exposed /\ lost' = lost
        /\ mem' = mem /\ disk' = disk /\ phase' = phase /\ log' = log /\ durable' = durable
    BY <1>2 DEF vars
  <2>2. SameReservations BY <1>0, <2>1, NoAdvanceAside DEF NoAdvance, TypeInv
  <2>3. StillDurable BY <1>0, <2>1, DurableSame
  <2> QED BY <2>1, <2>2, <2>3 DEF Calm
<1> QED BY <1>1, <1>2

-----------------------------------------------------------------------------
(* nextval and setval.                                                     *)

\* What the two leave alone.
LEMMA AdvanceKeepsLost ==
  ASSUME TypeInv, SeqInv, NEW r, log' = log \/ log' = Append(log, r), durable' = durable, lost' = lost
  PROVE  LostIsDurable' /\ \A i \in lost : log'[i] = log[i]
<1>1. DOMAIN log \subseteq DOMAIN log' /\ \A i \in DOMAIN log : log'[i] = log[i]
  <2>1. CASE log' = log BY <2>1
  <2>2. CASE log' = Append(log, r)
    <3>1. OneMore(log, r, log') BY <2>2, AppendOne DEF TypeInv
    <3> QED BY <3>1 DEF OneMore
  <2> QED BY <2>1, <2>2
<1>2. \A i \in lost : i \in DOMAIN log /\ i <= durable
  BY DEF SeqInv, LostIsDurable
<1> QED BY <1>1, <1>2 DEF LostIsDurable

\* A new reservation that reaches as far as the page's state and past all values handed out.
LEMMA ReserveKept ==
  ASSUME TypeInv, SeqOK, NEW r, log' = Append(log, r), r.kind = "SeqAdvance",
         NEW s, mem'["Seq"] = s, s.lsn = Len(log) + 1, s.last \in Nat, s.cnt \in Nat, s.called = TRUE,
         r.val = s.last + s.cnt,
         handed' \subseteq 1..MaxVal, \A h \in handed' : h <= s.last, repeated' = FALSE,
         disk' = disk, durable' = durable, phase' = "run"
  PROVE  SeqOK'
<1>L. PICK L : L = Len(log) + 1
  OBVIOUS
<1>1. OneMore(log, r, log')
  BY AppendOne DEF TypeInv
<1>2. /\ Len(log) \in Nat /\ DOMAIN log = 1..Len(log) /\ DOMAIN log' = 1..L
      /\ (\A i \in DOMAIN log : log'[i] = log[i]) /\ log'[L] = r /\ L \in Nat /\ L # 0
  BY <1>L, <1>1 DEF OneMore
<1>3. SeqRecords' = {i \in DOMAIN log' : log'[i].kind = "SeqAdvance"}
  BY DEF SeqRecords
<1>a. DOMAIN log' = DOMAIN log \cup {L} /\ \A i \in DOMAIN log : i <= L
  BY <1>L, <1>2
<1>4. SeqRecords' = SeqRecords \cup {L}
  BY <1>2, <1>3, <1>a DEF SeqRecords
<1>5. handed' \subseteq 1..MaxVal /\ repeated' = FALSE
  OBVIOUS
<1>6. (\A i \in SeqRecords : log[i].val \in Nat)'
  <2>1. \A i \in SeqRecords : log'[i].val \in Nat BY <1>2 DEF SeqOK, SeqRecords
  <2>2. log'[L].val \in Nat BY <1>2
  <2>3. \A i \in SeqRecords' : log'[i].val \in Nat BY <2>1, <2>2, <1>4
  <2> QED BY <2>3
<1>7. SeqImage(disk["Seq"])' /\ (disk["Seq"].lsn <= durable)'
  <2>1. PICK d : d = disk["Seq"] OBVIOUS
  <2>2. SeqImage(d) /\ d.lsn <= durable BY <2>1 DEF SeqOK
  <2>3. SeqImage(d)' BY <2>2, <1>2, <1>4, ImageKept
  <2> QED BY <2>1, <2>2, <2>3 DEF SeqImage, Reserves
<1>8. MemoryAhead'
  <2>1. Reserves(s, L)' BY <1>2, <1>4, <1>L DEF Reserves
  <2>2. SeqImage(s)' BY <2>1, <1>L DEF SeqImage
  <2>3. \A i \in SeqRecords' : i <= s.lsn BY <1>2, <1>4, <1>a, <1>L DEF SeqRecords
  <2>4. \A h \in handed' : s.lsn # 0 /\ h <= s.last BY <1>L, <1>2
  <2>5. UpToDate(s)' BY <2>2, <2>3, <2>4 DEF UpToDate
  <2>6. UpToDate(mem["Seq"])' BY <2>5 DEF UpToDate, SeqImage, Reserves
  <2> QED BY <2>6 DEF MemoryAhead
<1>9. FileAhead'
  BY DEF FileAhead
<1> QED BY <1>5, <1>6, <1>7, <1>8, <1>9 DEF SeqOK

LEMMA NextValKept ==
  ASSUME TypeInv, SeqInv, NEW t \in Ids, NextVal(t)
  PROVE  SeqInv'
<1>a. PICK s : s = mem["Seq"]
  OBVIOUS
<1>b. PICK v : v = NextValue
  OBVIOUS
<1> DEFINE r == [kind |-> "SeqAdvance", txn |-> t, val |-> Reserved(v)]
           u == [lsn |-> IF s.cnt <= 0 THEN Len(log) + 1 ELSE s.lsn, last |-> v,
                 cnt |-> IF s.cnt <= 0 THEN Batch ELSE s.cnt - 1, called |-> TRUE]
<1>1. /\ phase = "run" /\ phase' = "run" /\ v <= MaxVal
      /\ log' = (IF s.cnt <= 0 THEN Append(log, r) ELSE log)
      /\ mem' = [mem EXCEPT !["Seq"] = u]
      /\ handed' = handed \cup {v} /\ repeated' = (repeated \/ v \in handed)
      /\ disk' = disk /\ durable' = durable /\ exposed' = exposed /\ lost' = lost
  BY <1>a, <1>b DEF NextVal, Working, Up, frames, system, rest
<1>2. mem'["Seq"] = u
  <2>1. "Seq" \in DOMAIN mem BY DEF TypeInv, PageFile, Pages
  <2> HIDE DEF u
  <2> QED BY <2>1, <1>1
<1>3. u.lsn = (IF s.cnt <= 0 THEN Len(log) + 1 ELSE s.lsn) /\ u.last = v /\ u.called = TRUE
      /\ u.cnt = (IF s.cnt <= 0 THEN Batch ELSE s.cnt - 1)
  OBVIOUS
<1>4. r.kind = "SeqAdvance" /\ r.val = v + Batch
  BY DEF Reserved
<1>5. PICK w : w = u
  OBVIOUS
<1>6. PICK q : q = r
  OBVIOUS
<1> HIDE DEF u, r
<1>7. LostIsDurable' /\ \A i \in lost : log'[i] = log[i]
  BY <1>1, AdvanceKeepsLost
<1>8. ASSUME Untroubled' PROVE SeqOK'
  <2>1. Untroubled BY <1>8, <1>1, <1>7, WasUntroubled
  <2>2. SeqOK BY <2>1 DEF SeqInv
  <2>3. UpToDate(s) BY <2>2, <1>1, <1>a DEF SeqOK, MemoryAhead
  <2>4. SeqImage(s) /\ (\A i \in SeqRecords : i <= s.lsn) /\ \A h \in handed : s.lsn # 0 /\ h <= s.last
    BY <2>3 DEF UpToDate
  <2>5. MaxVal \in Nat /\ Batch \in Nat BY RecoveryAssumption
  <2>6. handed \subseteq 1..MaxVal /\ repeated = FALSE BY <2>2 DEF SeqOK
  <2>7. v \in Nat /\ v >= 1 /\ (\A h \in handed : h < v) /\ s.cnt \in Nat
        /\ (s.cnt > 0 => Reserves(s, s.lsn) /\ v = s.last + 1)
    <3>1. CASE s = FreshSeq
      <4>1. s.called = FALSE /\ s.lsn = 0 /\ s.cnt = 0 BY <3>1 DEF FreshSeq
      <4>2. v = 1 BY <4>1, <1>a, <1>b DEF NextValue
      <4>3. handed = {} BY <4>1, <2>4
      <4> QED BY <4>1, <4>2, <4>3
    <3>2. CASE Reserves(s, s.lsn)
      <4>1. s.called = TRUE /\ s.last \in Nat /\ s.cnt \in Nat BY <3>2 DEF Reserves
      <4>2. v = s.last + 1 BY <4>1, <1>a, <1>b DEF NextValue
      <4>3. \A h \in handed : h \in Nat /\ h <= s.last BY <2>4, <2>5, <2>6
      <4>4. \A h \in handed : h < v BY <4>1, <4>2, <4>3
      <4>5. v \in Nat /\ v >= 1 BY <4>1, <4>2
      <4> QED BY <4>1, <4>2, <4>4, <4>5, <3>2
    <3> QED BY <2>4, <3>1, <3>2 DEF SeqImage
  <2>8. handed' \subseteq 1..MaxVal /\ repeated' = FALSE /\ \A h \in handed' : h <= v
    <3>1. v \in 1..MaxVal BY <2>5, <2>7, <1>1
    <3>2. handed' \subseteq 1..MaxVal BY <3>1, <2>6, <1>1
    <3>3. v \notin handed BY <2>7
    <3>4. repeated' = FALSE BY <3>3, <2>6, <1>1
    <3>5. \A h \in handed : h \in Nat BY <2>5, <2>6
    <3>6. \A h \in handed' : h <= v BY <3>5, <2>7, <1>1
    <3> QED BY <3>2, <3>4, <3>6
  <2>9. CASE s.cnt <= 0
    <3>1. /\ log' = Append(log, q) /\ q.kind = "SeqAdvance" /\ q.val = v + Batch
          /\ mem'["Seq"] = w /\ w.lsn = Len(log) + 1 /\ w.last = v /\ w.cnt = Batch /\ w.called = TRUE
      BY <2>9, <1>1, <1>2, <1>3, <1>4, <1>5, <1>6
    <3>2. w.last \in Nat /\ w.cnt \in Nat /\ q.val = w.last + w.cnt /\ \A h \in handed' : h <= w.last
      BY <3>1, <2>5, <2>7, <2>8
    <3> QED BY <3>1, <3>2, <2>2, <2>8, <1>1, ReserveKept
  <2>10. CASE ~(s.cnt <= 0)
    <3>1. /\ log' = log /\ mem'["Seq"] = w /\ w.lsn = s.lsn /\ w.last = v /\ w.cnt = s.cnt - 1 /\ w.called = TRUE
      BY <2>10, <1>1, <1>2, <1>3, <1>5
    <3>2. Reserves(s, s.lsn) /\ v = s.last + 1 BY <2>7, <2>10
    <3>3. SeqRecords' = SeqRecords BY <3>1 DEF SeqRecords
    <3>4. s.last \in Nat /\ s.cnt \in Nat /\ log[s.lsn].val = s.last + s.cnt /\ s.lsn \in SeqRecords
      BY <3>2 DEF Reserves
    <3>5. w.last \in Nat /\ w.cnt \in Nat /\ log[s.lsn].val = w.last + w.cnt BY <3>1, <3>2, <3>4, <2>10
    <3>6. Reserves(w, s.lsn)' BY <3>1, <3>3, <3>4, <3>5 DEF Reserves
    <3>7. SeqImage(w)' BY <3>6, <3>1 DEF SeqImage
    <3>8. s.lsn # 0 BY <3>4, LogIsSeq DEF SeqRecords, TypeInv
    <3>9. UpToDate(w)' BY <3>1, <3>3, <3>7, <3>8, <2>4, <2>8 DEF UpToDate
    <3>10. MemoryAhead' BY <3>1, <3>9, <1>1 DEF MemoryAhead, UpToDate, SeqImage, Reserves
    <3>11. SeqImage(disk["Seq"])' /\ (disk["Seq"].lsn <= durable)'
      BY <2>2, <3>1, <3>3, <1>1 DEF SeqOK, SeqImage, Reserves
    <3>12. (\A i \in SeqRecords : log[i].val \in Nat)' BY <2>2, <3>1, <3>3 DEF SeqOK
    <3>13. FileAhead' BY <1>1 DEF FileAhead
    <3> QED BY <2>8, <3>10, <3>11, <3>12, <3>13 DEF SeqOK
  <2> QED BY <2>9, <2>10
<1> QED BY <1>7, <1>8 DEF SeqInv

LEMMA SetValKept ==
  ASSUME TypeInv, SeqInv, NEW t \in Ids, NEW c \in BOOLEAN, SetVal(t, c)
  PROVE  SeqInv'
<1>a. PICK v : v = Max({0} \cup handed) + 1
  OBVIOUS
<1> DEFINE r == [kind |-> "SeqAdvance", txn |-> t, val |-> v]
           u == [lsn |-> Len(log) + 1, last |-> v, cnt |-> 0, called |-> c]
<1>1. /\ phase = "run" /\ phase' = "run"
      /\ log' = Append(log, r) /\ mem' = [mem EXCEPT !["Seq"] = u]
      /\ handed' = handed /\ repeated' = repeated
      /\ exposed' = (IF c THEN exposed ELSE exposed \cup {"reset"})
      /\ disk' = disk /\ durable' = durable /\ lost' = lost
  BY <1>a DEF SetVal, Working, Up, frames, seqHist
<1>2. mem'["Seq"] = u
  <2>1. "Seq" \in DOMAIN mem BY DEF TypeInv, PageFile, Pages
  <2> HIDE DEF u
  <2> QED BY <2>1, <1>1
<1>3. u.lsn = Len(log) + 1 /\ u.last = v /\ u.called = c /\ u.cnt = 0 /\ r.kind = "SeqAdvance" /\ r.val = v
  OBVIOUS
<1>5. PICK w : w = u
  OBVIOUS
<1>6. PICK q : q = r
  OBVIOUS
<1> HIDE DEF u, r
<1>7. LostIsDurable' /\ \A i \in lost : log'[i] = log[i]
  BY <1>1, AdvanceKeepsLost
<1>8. ASSUME Untroubled' PROVE SeqOK'
  <2>1. Untroubled BY <1>8, <1>1, <1>7, WasUntroubled
  <2>2. SeqOK BY <2>1 DEF SeqInv
  <2>3. c = TRUE BY <1>8, <1>1 DEF Untroubled
  <2>4. handed \subseteq 1..MaxVal /\ repeated = FALSE /\ MaxVal \in Nat
    BY <2>2, RecoveryAssumption DEF SeqOK
  <2>5. v \in Nat /\ \A h \in handed : h <= v
    <3> DEFINE T == {0} \cup handed
    <3>1. T \subseteq 0..MaxVal /\ T # {} BY <2>4
    <3>2. Max(T) \in T /\ \A y \in T : Max(T) >= y
      <4> HIDE DEF T
      <4> QED BY <3>1, <2>4, MaxIsMember
    <3>3. PICK x : x = Max(T) OBVIOUS
    <3>4. x \in 0..MaxVal /\ (\A y \in T : x >= y) /\ v = x + 1
      <4>1. v = Max(T) + 1 BY <1>a
      <4> HIDE DEF T
      <4> QED BY <4>1, <3>1, <3>2, <3>3
    <3>5. \A h \in handed : h \in 0..MaxVal /\ x >= h BY <3>1, <3>4
    <3> HIDE DEF T
    <3> QED BY <3>4, <3>5, <2>4
  <2>6. /\ log' = Append(log, q) /\ q.kind = "SeqAdvance" /\ q.val = v
        /\ mem'["Seq"] = w /\ w.lsn = Len(log) + 1 /\ w.last = v /\ w.cnt = 0 /\ w.called = TRUE
    BY <2>3, <1>1, <1>2, <1>3, <1>5, <1>6
  <2>7. w.last \in Nat /\ w.cnt \in Nat /\ q.val = w.last + w.cnt /\ \A h \in handed' : h <= w.last
    BY <2>5, <2>6, <1>1
  <2> QED BY <2>2, <2>4, <2>6, <2>7, <1>1, ReserveKept
<1> QED BY <1>7, <1>8 DEF SeqInv

-----------------------------------------------------------------------------
(* A kill, and start-up.                                                   *)

LEMMA KillKeepsSequence ==
  ASSUME IInv, SeqInv, NEW n \in durable..Len(log), Kill(n)
  PROVE  SeqInv'
<1>0. TypeInv /\ DownIsQuiet
  BY DEF IInv
<1>a. /\ log' = SubSeq(log, 1, n) /\ durable' = n /\ disk' = disk /\ phase # "failed" /\ phase' = "down"
      /\ handed' = handed /\ repeated' = repeated /\ lost' = lost
      /\ exposed \subseteq exposed' /\ (SeqBehind(n) => "seq" \in exposed')
  BY DEF Kill, seqHist
<1>b. Len(log) \in Nat /\ DOMAIN log = 1..Len(log) /\ durable \in Nat /\ n \in 0..Len(log) /\ durable <= n
      /\ n \in Nat
  <2>1. Len(log) \in Nat /\ DOMAIN log = 1..Len(log) BY <1>0, LogIsSeq DEF TypeInv
  <2>2. durable \in Nat BY <1>0 DEF TypeInv
  <2> QED BY <2>1, <2>2
<1>c. DOMAIN log' = 1..n /\ \A i \in 1..n : log'[i] = log[i]
  <2>1. PrefixOf(log, n, log') BY <1>0, <1>a, <1>b, SubSeqIsPrefix DEF TypeInv
  <2> QED BY <2>1 DEF PrefixOf
<1>d. SeqRecords' = {i \in SeqRecords : i <= n} /\ \A i \in SeqRecords' : log'[i] = log[i]
  <2>1. SeqRecords' = {i \in DOMAIN log' : log'[i].kind = "SeqAdvance"} BY DEF SeqRecords
  <2>2. \A i : i \in DOMAIN log' <=> i \in DOMAIN log /\ i <= n BY <1>b, <1>c
  <2>3. \A i \in DOMAIN log' : log'[i] = log[i] BY <1>c
  <2> QED BY <2>1, <2>2, <2>3 DEF SeqRecords
<1>1. LostIsDurable' /\ \A i \in lost : log'[i] = log[i]
  <2>1. \A i \in lost : i \in 1..n /\ i <= n
    <3>1. \A i \in lost : i \in DOMAIN log /\ i <= durable BY DEF SeqInv, LostIsDurable
    <3> QED BY <3>1, <1>b
  <2> QED BY <2>1, <1>a, <1>c DEF LostIsDurable
<1>2. ASSUME Untroubled' PROVE SeqOK'
  <2>1. Untroubled BY <1>2, <1>1, <1>a, WasUntroubled
  <2>2. SeqOK BY <2>1 DEF SeqInv
  <2>3. ~SeqBehind(n) BY <1>2, <1>a DEF Untroubled
  <2>4. PICK d : d = disk["Seq"] OBVIOUS
  <2>5. PICK m : m = mem["Seq"] OBVIOUS
  <2>6. d.lsn \in Nat /\ m.lsn \in Nat BY <1>0, <2>4, <2>5 DEF TypeInv, PageFile, Pages
  <2>7. SeqImage(d) /\ d.lsn <= durable BY <2>2, <2>4 DEF SeqOK
  <2>8. SeqImage(d)' /\ d.lsn <= durable'
    <3>1. d.lsn <= n BY <2>6, <2>7, <1>b
    <3>2. CASE d = FreshSeq BY <3>1, <3>2, <1>a DEF SeqImage, FreshSeq
    <3>3. CASE Reserves(d, d.lsn)
      <4>1. d.lsn \in SeqRecords' /\ log'[d.lsn] = log[d.lsn] BY <3>1, <3>3, <1>d DEF Reserves
      <4>2. Reserves(d, d.lsn)' BY <4>1, <3>3 DEF Reserves
      <4> QED BY <4>2, <3>1, <1>a DEF SeqImage
    <3> QED BY <2>7, <3>2, <3>3 DEF SeqImage
  <2>9. SeqImage(disk["Seq"])' /\ (disk["Seq"].lsn <= durable)'
    BY <2>4, <2>8, <1>a DEF SeqImage, Reserves
  <2>10. (\A i \in SeqRecords : log[i].val \in Nat)'
    <3>1. \A i \in SeqRecords' : log'[i].val \in Nat BY <2>2, <1>d DEF SeqOK
    <3> QED BY <3>1
  <2>11. ASSUME NEW h \in handed PROVE Covers(d, h)'
    <3>0. h \in Nat BY <2>2, RecoveryAssumption DEF SeqOK
    <3>1. CASE phase = "down"
      <4>1. durable = Len(log) BY <3>1, <1>0 DEF DownIsQuiet
      <4>2. n = Len(log) BY <4>1, <1>b
      <4>3. SeqRecords' = SeqRecords BY <4>2, <1>b, <1>d DEF SeqRecords
      <4>4. \A i : Newest(i)' = Newest(i) BY <4>3 DEF Newest
      <4>5. Covers(d, h) BY <3>1, <2>2, <2>4 DEF SeqOK, FileAhead
      <4> QED BY <4>3, <4>4, <4>5, <1>d DEF Covers
    <3>2. CASE phase # "down"
      <4>1. UpToDate(m) BY <3>2, <2>2, <2>5, <1>a DEF SeqOK, MemoryAhead
      <4>2. m.lsn # 0 /\ h <= m.last /\ SeqImage(m) /\ \A i \in SeqRecords : i <= m.lsn BY <4>1 DEF UpToDate
      <4>3. Reserves(m, m.lsn) BY <4>2 DEF SeqImage, FreshSeq
      <4>4. /\ m.lsn \in SeqRecords /\ m.last \in Nat /\ m.cnt \in Nat
            /\ log[m.lsn].val = m.last + m.cnt
        BY <4>3 DEF Reserves
      <4>5. Max(SeqRecords) = m.lsn
        <5>1. SeqRecords \subseteq 0..Len(log) /\ SeqRecords # {} BY <4>4, <1>b DEF SeqRecords
        <5>2. PICK T : T = SeqRecords OBVIOUS
        <5>3. Max(T) \in T /\ \A y \in T : Max(T) >= y BY <5>1, <5>2, <1>b, MaxIsMember
        <5>4. PICK x : x = Max(T) OBVIOUS
        <5>5. x \in Nat /\ x <= m.lsn /\ x >= m.lsn
          <6>1. x \in T /\ \A y \in T : x >= y BY <5>3, <5>4
          <6>2. x \in 0..Len(log) BY <6>1, <5>1, <5>2
          <6> QED BY <6>1, <6>2, <5>2, <4>2, <4>4, <1>b
        <5>6. x = m.lsn BY <5>5, <2>6
        <5> QED BY <5>2, <5>4, <5>6
      <4>6. /\ ~(n < m.lsn)
            /\ ~(d.last < m.last /\ \A i \in SeqRecords : i <= d.lsn)
        BY <2>3, <2>4, <2>5, <4>4, <4>5 DEF SeqBehind
      <4>7. SeqRecords' = SeqRecords
        <5>1. \A i \in SeqRecords : i \in Nat BY <1>b DEF SeqRecords
        <5>2. \A i \in SeqRecords : i <= n BY <5>1, <4>2, <4>6, <2>6, <1>b
        <5> QED BY <5>2, <1>d
      <4>8. ASSUME NEW i \in SeqRecords, Newest(i)' PROVE h <= log'[i].val
        <5>1. i = m.lsn
          <6>1. m.lsn <= i /\ i <= m.lsn /\ i \in Nat BY <4>2, <4>4, <4>7, <4>8, <1>b DEF Newest, SeqRecords
          <6> QED BY <6>1, <2>6
        <5>2. log'[i].val = m.last + m.cnt BY <5>1, <4>4, <4>7, <1>d
        <5> QED BY <5>2, <4>2, <4>4, <3>0
      <4>9. ASSUME \A i \in SeqRecords : i <= d.lsn PROVE d.lsn # 0 /\ h <= d.last
        <5>1. m.lsn <= d.lsn BY <4>9, <4>4
        <5>2. d.lsn # 0 BY <5>1, <4>2, <2>6
        <5>3. d.last \in Nat BY <5>2, <2>7 DEF SeqImage, FreshSeq, Reserves
        <5>4. ~(d.last < m.last) BY <4>6, <4>9
        <5> QED BY <5>2, <5>3, <5>4, <4>2, <4>4, <3>0
      <4> QED BY <4>7, <4>8, <4>9 DEF Covers
    <3> QED BY <3>1, <3>2
  <2>12. FileAhead' BY <2>4, <2>11, <1>a DEF FileAhead, Covers
  <2>13. MemoryAhead' BY <1>a DEF MemoryAhead
  <2>14. handed' \subseteq 1..MaxVal /\ repeated' = FALSE BY <2>2, <1>a DEF SeqOK
  <2> QED BY <2>9, <2>10, <2>12, <2>13, <2>14 DEF SeqOK
<1> QED BY <1>1, <1>2 DEF SeqInv

\* The sequence after redo of the first k records: the newest of their reservations that is past the
\* page in the file, or that page.
RedoneTo(k, img) ==
    \/ /\ img = disk["Seq"]
       /\ \A j \in SeqRecords : j <= k => j <= disk["Seq"].lsn
    \/ /\ img.lsn \in SeqRecords /\ img.lsn <= k /\ img.lsn > disk["Seq"].lsn
       /\ img.last = log[img.lsn].val /\ img.cnt = 0 /\ img.called = TRUE
       /\ \A j \in SeqRecords : j <= k => j <= img.lsn

\* Redo skips no reservation that the page in the file does not have.
NoneSkipped == \A i \in SeqRecords : ~(i < RedoStart /\ disk["Seq"].lsn < i)

LEMMA RedoOfSequence ==
  ASSUME TypeInv, NoneSkipped, NEW k \in DOMAIN log, NEW st, RedoState(st),
         st.fail \/ RedoneTo(k - 1, st.pages["Seq"])
  PROVE  RedoRecord(st, k).fail \/ RedoneTo(k, RedoRecord(st, k).pages["Seq"])
<1>1. k \in Nat /\ k >= 1 /\ RecordOK(log[k]) /\ \A j \in SeqRecords : j \in Nat
  BY LogIsSeq DEF TypeInv, SeqRecords
<1>2. CASE st.fail
  BY <1>2 DEF RedoRecord
<1>3. CASE ~st.fail
  <2> DEFINE rec == log[k]
             p == PageOf(rec)
  <2>1. PICK img : img = st.pages["Seq"] OBVIOUS
  <2>2. PICK d : d = disk["Seq"] OBVIOUS
  <2>3. RedoneTo(k - 1, img) BY <1>3, <2>1
  <2>4. d.lsn \in Nat BY <2>2 DEF TypeInv, PageFile, Pages
  <2>5. ASSUME rec.kind # "SeqAdvance" \/ k <= d.lsn PROVE RedoneTo(k, img)
    <3>1. \A j \in SeqRecords : j <= k => j <= k - 1 \/ j <= d.lsn
      <4>1. \A j \in SeqRecords : j = k => k <= d.lsn BY <2>5 DEF SeqRecords
      <4> QED BY <4>1, <1>1, <2>4
    <3>2. CASE img = d /\ \A j \in SeqRecords : j <= k - 1 => j <= d.lsn
      BY <3>1, <3>2, <2>2 DEF RedoneTo
    <3>3. CASE /\ img.lsn \in SeqRecords /\ img.lsn <= k - 1 /\ img.lsn > d.lsn
               /\ img.last = log[img.lsn].val /\ img.cnt = 0 /\ img.called = TRUE
               /\ \A j \in SeqRecords : j <= k - 1 => j <= img.lsn
      <4>1. img.lsn <= k BY <3>3, <1>1
      <4>2. \A j \in SeqRecords : j <= k => j <= img.lsn BY <3>1, <3>3, <1>1, <2>4
      <4> QED BY <3>3, <4>1, <4>2, <2>2 DEF RedoneTo
    <3> QED BY <2>2, <2>3, <3>2, <3>3 DEF RedoneTo
  <2>6. CASE rec.kind # "SeqAdvance"
    <3>1. RedoneTo(k, img) BY <2>5, <2>6
    <3>2. ~ChangesPage(rec) => RedoRecord(st, k) = st BY DEF RedoRecord
    <3>3. ASSUME ChangesPage(rec) PROVE RedoRecord(st, k).pages["Seq"] = img
      <4>1. p \in Heap /\ p # "Seq" /\ rec.kind \in {"Insert", "Delete"}
        BY <2>6, <3>3, <1>1 DEF PageOf, RecordOK, ChangesPage, Changes, Heap
      <4>2. \/ RedoRecord(st, k) = st \/ RedoRecord(st, k) = [st EXCEPT !.fail = TRUE]
            \/ \E x : RedoRecord(st, k) = [st EXCEPT !.pages[p] = x, !.alloc = @ \cup {p}]
            \/ \E x : RedoRecord(st, k) = [st EXCEPT !.pages[p] = x]
        BY <4>1 DEF RedoRecord
      <4>3. DOMAIN st = {"pages", "alloc", "fail"} /\ "Seq" \in DOMAIN st.pages
        BY DEF RedoState, PageFile, Pages
      <4> HIDE DEF p, rec
      <4>4. ASSUME NEW x PROVE [st EXCEPT !.pages[p] = x, !.alloc = @ \cup {p}].pages["Seq"] = img
        BY <4>1, <4>3, <2>1
      <4>5. ASSUME NEW x PROVE [st EXCEPT !.pages[p] = x].pages["Seq"] = img
        BY <4>1, <4>3, <2>1
      <4>6. [st EXCEPT !.fail = TRUE].pages["Seq"] = img BY <4>3, <2>1
      <4> QED BY <4>2, <4>4, <4>5, <4>6, <2>1
    <3> QED BY <3>1, <3>2, <3>3, <2>1
  <2>7. CASE rec.kind = "SeqAdvance"
    <3>1. p = "Seq" /\ ChangesPage(rec) /\ k \in SeqRecords BY <2>7 DEF PageOf, ChangesPage, SeqRecords
    <3>2. CASE k < RedoStart
      <4>1. ~(d.lsn < k) BY <3>1, <3>2, <2>2 DEF NoneSkipped
      <4>2. k <= d.lsn BY <4>1, <2>4, <1>1
      <4>3. RedoRecord(st, k) = st BY <3>2 DEF RedoRecord
      <4> QED BY <4>2, <4>3, <2>5, <2>1
    <3>3. CASE ~(k < RedoStart) /\ Applied(img, k)
      <4>1. RedoRecord(st, k) = st BY <3>1, <3>3, <1>3, <2>1 DEF RedoRecord
      <4>2. img.lsn >= k BY <3>3 DEF Applied
      <4>3. k <= d.lsn
        <5>1. CASE img = d BY <5>1, <4>2, <2>4, <1>1
        <5>2. CASE img.lsn \in SeqRecords /\ img.lsn <= k - 1 BY <5>2, <4>2, <1>1
        <5> QED BY <5>1, <5>2, <2>2, <2>3 DEF RedoneTo
      <4> QED BY <4>1, <4>3, <2>5, <2>1
    <3>4. CASE ~(k < RedoStart) /\ ~Applied(img, k)
      <4> DEFINE x == [lsn |-> k, last |-> rec.val, cnt |-> 0, called |-> TRUE]
      <4>1. RedoRecord(st, k) = [st EXCEPT !.pages["Seq"] = x]
        BY <3>1, <3>4, <2>7, <1>3, <2>1 DEF RedoRecord
      <4>2. x.lsn = k /\ x.last = rec.val /\ x.cnt = 0 /\ x.called = TRUE OBVIOUS
      <4>3. DOMAIN st = {"pages", "alloc", "fail"} /\ "Seq" \in DOMAIN st.pages
        BY DEF RedoState, PageFile, Pages
      <4> HIDE DEF x
      <4>4. RedoRecord(st, k).pages["Seq"] = x BY <4>1, <4>3
      <4>5. k > d.lsn
        <5>0. ~(img.lsn >= k) BY <3>4 DEF Applied
        <5>1. CASE img = d BY <5>0, <5>1, <2>4, <1>1
        <5>2. CASE img.lsn \in SeqRecords /\ img.lsn > d.lsn BY <5>0, <5>2, <1>1, <2>4
        <5> QED BY <5>1, <5>2, <2>2, <2>3 DEF RedoneTo
      <4>6. RedoneTo(k, x) BY <4>2, <4>5, <3>1, <2>2, <1>1 DEF RedoneTo
      <4> QED BY <4>4, <4>6
    <3> QED BY <3>2, <3>3, <3>4
  <2> QED BY <2>6, <2>7
<1> QED BY <1>2, <1>3

LEMMA RedoneSequence ==
  ASSUME TypeInv, NoneSkipped
  PROVE  Redone.fail \/ RedoneTo(Len(log), Redone.pages["Seq"])
<1>1. Len(log) \in Nat /\ DOMAIN log = 1..Len(log)
  BY LogIsSeq DEF TypeInv
<1>2. PICK g : IsRun(g, Len(log)) /\ Redone = g[Len(log)]
  BY <1>1, RedoneIsARun
<1> DEFINE Good(k) == RedoState(g[k]) /\ (g[k].fail \/ RedoneTo(k, g[k].pages["Seq"]))
           Gaps == {k \in 0..Len(log) : ~Good(k)}
<1>3. SUFFICES ASSUME Gaps # {} PROVE FALSE
  BY <1>1, <1>2
<1>4. PICK k \in Gaps : \A j \in Gaps : k <= j
  <2>1. Gaps \subseteq Nat BY <1>1
  <2> HIDE DEF Gaps
  <2> QED BY <1>3, <2>1, LeastExists
<1>5. k \in 0..Len(log) /\ ~Good(k)
  OBVIOUS
<1>6. g[k] = IF k = 0 THEN Seed ELSE RedoRecord(g[k - 1], k)
  BY <1>2, <1>5, Zenon DEF IsRun
<1>7. CASE k = 0
  <2>1. RedoState(Seed) BY DEF RedoState, Seed, TypeInv
  <2>2. RedoneTo(0, Seed.pages["Seq"])
    <3>1. \A j \in SeqRecords : ~(j <= 0) BY <1>1 DEF SeqRecords
    <3> QED BY <3>1 DEF RedoneTo, Seed
  <2> QED BY <1>5, <1>6, <1>7, <2>1, <2>2
<1>8. CASE k # 0
  <2>1. k \in DOMAIN log /\ k - 1 \in 0..Len(log) /\ ~(k <= k - 1)
    BY <1>1, <1>5, <1>8
  <2>2. k - 1 \notin Gaps
    BY <2>1, <1>4
  <2>3. Good(k - 1)
    BY <2>1, <2>2
  <2>4. RedoState(RedoRecord(g[k - 1], k))
    BY <2>1, <2>3, RedoRecordShape
  <2>5. RedoRecord(g[k - 1], k).fail \/ RedoneTo(k, RedoRecord(g[k - 1], k).pages["Seq"])
    BY <2>1, <2>3, RedoOfSequence
  <2> QED BY <1>5, <1>6, <1>8, <2>4, <2>5
<1> QED BY <1>7, <1>8

LEMMA RestartKeepsSequence ==
  ASSUME IInv, SeqInv, Restart
  PROVE  SeqInv'
<1>0. TypeInv /\ DownIsQuiet
  BY DEF IInv
<1>a. /\ phase = "down" /\ phase' = (IF Redone.fail THEN "failed" ELSE "undo") /\ mem' = Redone.pages
      /\ lost' = lost \cup Dropped(Redone.pages)
      /\ log' = log \/ log' = log \o UndoRecords
      /\ durable' = durable /\ disk' = disk /\ handed' = handed /\ repeated' = repeated /\ exposed' = exposed
  BY DEF Restart, seqHist
<1>b. durable = Len(log) /\ Len(log) \in Nat /\ DOMAIN log = 1..Len(log)
  BY <1>0, <1>a, LogIsSeq DEF DownIsQuiet, TypeInv
<1>c. SameReservations
  <2>1. CASE log' = log BY <2>1, <1>0, NoAdvanceAside DEF NoAdvance, TypeInv
  <2>2. CASE log' = log \o UndoRecords
    <3>1. IsSeq(UndoRecords) /\ \A i \in DOMAIN UndoRecords : UndoRecords[i].kind = "Abort"
      BY <1>0, UndoIsAborts
    <3>2. Joined(log, UndoRecords, log') BY <2>2, <3>1, <1>0, ConcatJoins DEF TypeInv
    <3>3. \A i \in DOMAIN log' \ DOMAIN log : log'[i].kind # "SeqAdvance" BY <3>1, <3>2 DEF Joined
    <3> QED BY <3>2, <3>3, GrowsAside DEF Joined
  <2> QED BY <2>1, <2>2, <1>a
<1>d. /\ DOMAIN log \subseteq DOMAIN log' /\ (\A i \in DOMAIN log : log'[i] = log[i]) /\ SeqRecords' = SeqRecords
  BY <1>c DEF SameReservations
<1>e. lost \subseteq DOMAIN log
  BY DEF SeqInv, LostIsDurable
<1>1. LostIsDurable'
  <2>1. Dropped(Redone.pages) \subseteq DOMAIN log BY DEF Dropped
  <2>2. \A i \in lost' : i \in DOMAIN log' /\ i <= durable' BY <2>1, <1>a, <1>b, <1>d, <1>e
  <2> QED BY <2>2 DEF LostIsDurable
<1>2. ASSUME Untroubled' PROVE SeqOK'
  <2>1. Untroubled BY <1>2, <1>a, <1>d, <1>e, WasUntroubled
  <2>2. SeqOK BY <2>1 DEF SeqInv
  <2>3. NoneSkipped
    <3> SUFFICES ASSUME NEW i \in SeqRecords, i < RedoStart, disk["Seq"].lsn < i PROVE FALSE
      BY DEF NoneSkipped
    <3>1. i \in DOMAIN log /\ log[i].kind = "SeqAdvance" BY DEF SeqRecords
    <3>2. ChangesPage(log[i]) /\ PageOf(log[i]) = "Seq" BY <3>1 DEF ChangesPage, PageOf
    <3>3. i \in Dropped(Redone.pages) BY <3>1, <3>2 DEF Dropped
    <3>4. i \in lost' /\ log'[i].kind = "SeqAdvance" BY <3>1, <3>3, <1>a, <1>d
    <3> QED BY <3>4, <1>2 DEF Untroubled
  <2>4. PICK d : d = disk["Seq"] OBVIOUS
  <2>5. SeqImage(d) /\ d.lsn <= durable /\ d.lsn \in Nat
    BY <1>0, <2>2, <2>4 DEF SeqOK, TypeInv, PageFile, Pages
  <2>6. SeqImage(d)' BY <2>5, <1>d, ImageKept
  <2>7. SeqImage(disk["Seq"])' /\ (disk["Seq"].lsn <= durable)'
    BY <2>4, <2>5, <2>6, <1>a DEF SeqImage, Reserves
  <2>8. (\A i \in SeqRecords : log[i].val \in Nat)'
    <3>1. \A i \in SeqRecords : log'[i].val \in Nat BY <1>d, <2>2 DEF SeqOK, SeqRecords
    <3> QED BY <3>1, <1>d
  <2>9. handed' \subseteq 1..MaxVal /\ repeated' = FALSE BY <2>2, <1>a DEF SeqOK
  <2>10. FileAhead' BY <1>a DEF FileAhead
  <2>11. ASSUME ~Redone.fail PROVE UpToDate(mem["Seq"])' /\ mem'["Seq"].lsn <= durable'
    <3>1. PICK m : m = Redone.pages["Seq"] OBVIOUS
    <3>2. RedoneTo(Len(log), m) BY <1>0, <2>3, <2>11, <3>1, RedoneSequence
    <3>3. \A i \in SeqRecords : i \in Nat /\ i <= Len(log) /\ i # 0 /\ log'[i] = log[i]
      BY <1>b, <1>d DEF SeqRecords
    <3>4. \A h \in handed : h \in Nat /\ Covers(d, h)
      BY <2>2, <2>4, <1>a, RecoveryAssumption DEF SeqOK, FileAhead
    <3>5. UpToDate(m)' /\ m.lsn <= durable
      <4>1. CASE m = d /\ \A j \in SeqRecords : j <= Len(log) => j <= d.lsn
        <5>1. \A j \in SeqRecords : j <= d.lsn BY <4>1, <3>3
        <5>2. \A h \in handed : d.lsn # 0 /\ h <= d.last BY <5>1, <3>4 DEF Covers
        <5>3. UpToDate(d)' BY <5>1, <5>2, <2>6, <1>a, <1>d DEF UpToDate
        <5> QED BY <4>1, <5>3, <2>5
      <4>2. CASE /\ m.lsn \in SeqRecords /\ m.lsn <= Len(log) /\ m.lsn > d.lsn
                 /\ m.last = log[m.lsn].val /\ m.cnt = 0 /\ m.called = TRUE
                 /\ \A j \in SeqRecords : j <= Len(log) => j <= m.lsn
        <5>1. \A j \in SeqRecords : j <= m.lsn BY <4>2, <3>3
        <5>2. Newest(m.lsn) BY <4>2, <5>1 DEF Newest
        <5>3. \A h \in handed : h <= m.last BY <4>2, <5>2, <3>4 DEF Covers
        <5>4. m.last \in Nat /\ log'[m.lsn].val = m.last + m.cnt
          <6>1. log[m.lsn].val \in Nat BY <4>2, <2>2 DEF SeqOK
          <6>2. log'[m.lsn] = log[m.lsn] BY <4>2, <3>3
          <6>3. m.last \in Nat /\ m.cnt = 0 /\ log'[m.lsn].val = m.last BY <6>1, <6>2, <4>2
          <6> QED BY <6>3
        <5>5. Reserves(m, m.lsn)' BY <4>2, <5>4, <1>d DEF Reserves
        <5>6. SeqImage(m)' BY <5>5 DEF SeqImage
        <5>7. UpToDate(m)' BY <5>1, <5>3, <5>6, <4>2, <3>3, <1>a, <1>d DEF UpToDate
        <5> QED BY <5>7, <4>2, <1>b
      <4> QED BY <3>2, <4>1, <4>2, <2>4 DEF RedoneTo
    <3>6. mem'["Seq"] = m BY <3>1, <1>a
    <3> QED BY <3>5, <3>6, <1>a DEF UpToDate, SeqImage, Reserves
  <2>12. MemoryAhead' BY <2>11, <1>a DEF MemoryAhead
  <2> QED BY <2>7, <2>8, <2>9, <2>10, <2>12 DEF SeqOK
<1> QED BY <1>1, <1>2 DEF SeqInv

-----------------------------------------------------------------------------
(* The theorem about the sequence.                                         *)

LEMMA InitSeqInv ==
  ASSUME Init
  PROVE  SeqInv
<1>1. disk["Seq"] = FreshSeq /\ mem["Seq"] = FreshSeq
  BY DEF Init, FreshFile, Pages
<1>2. SeqRecords = {} /\ handed = {} /\ repeated = FALSE /\ lost = {} /\ durable = 0 /\ phase = "run"
  BY DEF Init, SeqRecords
<1>3. SeqImage(disk["Seq"]) /\ disk["Seq"].lsn <= durable
  BY <1>1, <1>2 DEF SeqImage, FreshSeq
<1>4. MemoryAhead
  BY <1>1, <1>2 DEF MemoryAhead, UpToDate, SeqImage
<1>5. FileAhead
  BY <1>2 DEF FileAhead
<1> QED BY <1>2, <1>3, <1>4, <1>5 DEF SeqInv, SeqOK, LostIsDurable

LEMMA StepKeepsSequence ==
  ASSUME IInv, SeqInv, [Next]_vars
  PROVE  SeqInv'
<1>0. TypeInv
  BY DEF IInv
<1>1. ASSUME NEW t \in Ids, \/ \E m \in {"rw", "ro", "vac"} : Start(t, m)
                            \/ \E k \in {"Commit", "Abort"} : LogEnd(t, k)
                            \/ FlushEnd(t) \/ Decide(t)
                            \/ \E s \in {"Committed", "Aborted"} : EndReader(t, s)
      PROVE  SeqInv'
  BY <1>0, <1>1, TransactionIsCalm, CalmKept
<1>2. ASSUME NEW t \in Ids,
             InsertRow(t) \/ InsertFresh(t) \/ \E p \in Heap, r \in 1..MaxLsn : DeleteRow(t, p, r)
      PROVE  SeqInv'
  BY <1>0, <1>2, RowChangeIsCalm, CalmKept
<1>3. ASSUME NEW t \in Ids, Link(t) \/ Release(t) \/ \E p \in Heap : VacuumPage(t, p) PROVE SeqInv'
  BY <1>0, <1>3, PageStepIsCalm, CalmKept
<1>4. ASSUME NEW p \in Pages, WritePage(p) PROVE SeqInv'
  BY <1>0, <1>4, PageStepIsCalm, CalmKept
<1>5. CASE RecoverPages
  BY <1>0, <1>5, PageStepIsCalm, CalmKept
<1>6. CASE \/ CkptClog \/ CkptTables \/ CkptRecord \/ CkptFlush \/ MetaTruncate \/ MetaWrite \/ RecoverClog
           \/ UNCHANGED vars
  BY <1>0, <1>6, CheckpointIsCalm, CalmKept
<1>7. ASSUME NEW t \in Ids, NextVal(t) PROVE SeqInv'
  BY <1>0, <1>7, NextValKept
<1>8. ASSUME NEW t \in Ids, NEW c \in BOOLEAN, SetVal(t, c) PROVE SeqInv'
  BY <1>0, <1>8, SetValKept
<1>9. ASSUME NEW n \in durable..Len(log), Kill(n) PROVE SeqInv'
  BY <1>9, KillKeepsSequence
<1>10. CASE Restart
  BY <1>10, RestartKeepsSequence
<1>11. CASE Next
  BY <1>1, <1>2, <1>3, <1>4, <1>5, <1>6, <1>7, <1>8, <1>9, <1>10, <1>11 DEF Next
<1> QED BY <1>6, <1>11

\* The sequence is ahead of what it handed out in every reachable state in which none of the
\* exceptions has come up: nextval's reservation in the log (sequence.rs), the gate of
\* redo_seq_advance (recovery.rs) and the page_lsn order of page writes carry it through kills.
THEOREM SequenceInvariance == Spec => []SeqInv
<1>1. Init => SeqInv
  BY InitSeqInv
<1>2. IInv /\ SeqInv /\ [Next]_vars => SeqInv'
  BY StepKeepsSequence
<1> QED BY <1>1, <1>2, Invariance, PTL DEF Spec

\* A sequence hands out a value twice only after a kill that found its last reservation unlogged or
\* its page written in the middle of one, after setval(.., false), or when a checkpoint made redo
\* skip a reservation: batches logged ahead by nextval are otherwise enough, whatever their size.
THEOREM SequenceRepeatsOnlyIf == Spec => []RepeatsOnlyIf
<1>1. SeqInv => RepeatsOnlyIf
  BY DEF SeqInv, SeqOK, Untroubled, RepeatsOnlyIf
<1> QED BY <1>1, SequenceInvariance, PTL
-----------------------------------------------------------------------------
(* Start-up.  Redo goes through as long as the rows of a page's image in   *)
(* the file together with the rows logged for it since are rows the page   *)
(* has held at once; only an unlogged VACUUM breaks that, or redo itself   *)
(* when it skips a record.                                                 *)

\* No exception that StartupFailsOnlyIf names has come up.
Unscathed == "vacuum" \notin exposed /\ lost = {}

Rows(img) == DOMAIN img.rows
HeapImage(img) == {"lsn", "rows", "next"} \subseteq DOMAIN img /\ img.lsn \in Nat
InsertsOn(p) == {i \in DOMAIN log : log[i].kind = "Insert" /\ log[i].page = p}
DeletesOn(p) == {i \in DOMAIN log : log[i].kind = "Delete" /\ log[i].page = p}

\* The rows redo makes of image d and the log.
Redoable(p, d) == Rows(d) \cup {i \in InsertsOn(p) : i > d.lsn}

\* The image in the file: its rows were logged, and what was deleted since is there to be deleted.
FileOK(p, d) ==
    /\ HeapImage(d) /\ d.lsn <= durable /\ d.lsn <= Len(log)
    /\ Rows(d) \subseteq InsertsOn(p) /\ \A r \in Rows(d) : r <= d.lsn
    /\ \A i \in DeletesOn(p) : i > d.lsn => log[i].row \in Redoable(p, d) /\ log[i].row < i

\* The image in memory: it fits, it has no row redo would not make, and page_lsn is past its records.
MemOK(p, m, d) ==
    /\ HeapImage(m) /\ m.lsn <= Len(log)
    /\ Rows(m) \subseteq Redoable(p, d) /\ Cardinality(Rows(m)) <= PageCap
    /\ \A i \in InsertsOn(p) \cup DeletesOn(p) : i <= m.lsn

\* During start-up memory has all that redo makes, none of it ahead of the log.
Settled(p, m, d) == Rows(m) = Redoable(p, d) /\ m.lsn <= durable

PageOK(p) ==
    /\ FileOK(p, disk[p])
    /\ phase # "down" => MemOK(p, mem[p], disk[p])
    /\ phase \in {"undo", "pages"} => Settled(p, mem[p], disk[p])
    /\ phase = "down" => Cardinality(Redoable(p, disk[p])) <= PageCap
    /\ p \notin alloc => Rows(mem[p]) = {} /\ Rows(disk[p]) = {}

\* Only a page of the file is linked, or about to be.
LinkOK == "Tail" \notin alloc => /\ mem["Head"].next = None /\ disk["Head"].next = None
                                /\ \A t \in Ids : held[t] # "unlinked"

PagesOK ==
    /\ phase \in {"run", "down", "undo", "pages"} /\ "Head" \in alloc
    /\ LinkOK /\ \A p \in Heap : PageOK(p)
StartInv == DOMAIN held = Ids /\ (Unscathed => PagesOK)

LEMMA WasUnscathed ==
  ASSUME exposed \subseteq exposed', lost \subseteq lost', Unscathed'
  PROVE  Unscathed
BY DEF Unscathed

LEMMA RedoableSubset ==
  ASSUME NEW p, NEW d, FileOK(p, d)
  PROVE  Redoable(p, d) \subseteq InsertsOn(p)
BY DEF Redoable, FileOK

LEMMA InsertsFinite ==
  ASSUME TypeInv, NEW p
  PROVE  IsFiniteSet(InsertsOn(p)) /\ InsertsOn(p) \subseteq 1..Len(log) /\ DeletesOn(p) \subseteq 1..Len(log)
         /\ Len(log) \in Nat
<1>1. Len(log) \in Nat /\ DOMAIN log = 1..Len(log)
  BY LogIsSeq DEF TypeInv
<1>2. InsertsOn(p) \subseteq 1..Len(log) /\ DeletesOn(p) \subseteq 1..Len(log)
  BY <1>1 DEF InsertsOn, DeletesOn
<1>3. IsFiniteSet(1..Len(log))
  BY <1>1, FS_Interval
<1> QED BY <1>1, <1>2, <1>3, FS_Subset

\* Fewer rows fit too.
LEMMA FewerFit ==
  ASSUME NEW S, IsFiniteSet(S), Cardinality(S) <= PageCap, NEW T, T \subseteq S
  PROVE  IsFiniteSet(T) /\ Cardinality(T) <= PageCap
<1>1. IsFiniteSet(T) /\ Cardinality(T) <= Cardinality(S)
  BY FS_Subset
<1>2. Cardinality(T) \in Nat /\ Cardinality(S) \in Nat /\ PageCap \in Nat
  BY <1>1, FS_CardinalityType, RecoveryAssumption
<1> QED BY <1>1, <1>2

-----------------------------------------------------------------------------
(* A page that a step leaves alone.                                        *)

SameOn(p) ==
    /\ DOMAIN log \subseteq DOMAIN log' /\ Len(log') \in Nat /\ Len(log) <= Len(log')
    /\ \A i \in DOMAIN log : log'[i] = log[i]
    /\ InsertsOn(p)' = InsertsOn(p) /\ DeletesOn(p)' = DeletesOn(p)

Aside(p) ==
    /\ SameOn(p) /\ StillDurable
    /\ mem'[p] = mem[p] /\ disk'[p] = disk[p] /\ (p \in alloc => p \in alloc')
    /\ phase' = phase \/ (phase = "undo" /\ phase' = "pages")

LEMMA RecordsAside ==
  ASSUME TypeInv, IsSeq(log'), NEW p, DOMAIN log \subseteq DOMAIN log', \A i \in DOMAIN log : log'[i] = log[i],
         \A i \in DOMAIN log' \ DOMAIN log : ~(log'[i].kind \in Changes /\ log'[i].page = p)
  PROVE  SameOn(p)
<1>1. /\ Len(log) \in Nat /\ DOMAIN log = 1..Len(log)
      /\ Len(log') \in Nat /\ DOMAIN log' = 1..Len(log')
  BY LogIsSeq DEF TypeInv
<1>2. Len(log) <= Len(log')
  <2>1. CASE Len(log) = 0 BY <1>1, <2>1
  <2>2. CASE Len(log) # 0
    <3>1. Len(log) \in DOMAIN log BY <1>1, <2>2
    <3>2. Len(log) \in 1..Len(log') BY <3>1, <1>1
    <3> QED BY <3>2, <1>1
  <2> QED BY <2>1, <2>2
<1>3. InsertsOn(p)' = {i \in DOMAIN log' : log'[i].kind = "Insert" /\ log'[i].page = p}
  BY DEF InsertsOn
<1>4. DeletesOn(p)' = {i \in DOMAIN log' : log'[i].kind = "Delete" /\ log'[i].page = p}
  BY DEF DeletesOn
<1>5. InsertsOn(p)' = InsertsOn(p)
  BY <1>3 DEF InsertsOn, Changes
<1>6. DeletesOn(p)' = DeletesOn(p)
  BY <1>4 DEF DeletesOn, Changes
<1> QED BY <1>1, <1>2, <1>5, <1>6 DEF SameOn

LEMMA FileKept ==
  ASSUME TypeInv, NEW p, SameOn(p), StillDurable, NEW d, FileOK(p, d)
  PROVE  FileOK(p, d)' /\ Redoable(p, d)' = Redoable(p, d)
<1>1. Redoable(p, d)' = Redoable(p, d)
  BY DEF SameOn, Redoable
<1>2. d.lsn \in Nat /\ d.lsn <= durable /\ d.lsn <= Len(log)
  BY DEF FileOK, HeapImage
<1>3. Len(log) \in Nat /\ DOMAIN log = 1..Len(log)
  BY LogIsSeq DEF TypeInv
<1>4. d.lsn <= durable'
  <2>1. CASE d.lsn = 0 BY <2>1 DEF StillDurable
  <2>2. CASE d.lsn # 0
    <3>1. d.lsn \in DOMAIN log BY <2>2, <1>2, <1>3
    <3> QED BY <3>1, <1>2 DEF StillDurable
  <2> QED BY <2>1, <2>2
<1>5. d.lsn <= Len(log')
  <2>1. Len(log) <= Len(log') /\ Len(log') \in Nat BY DEF SameOn
  <2> QED BY <2>1, <1>2, <1>3
<1>6. \A i \in DeletesOn(p) : log'[i] = log[i]
  BY DEF SameOn, DeletesOn
<1> QED BY <1>1, <1>2, <1>4, <1>5, <1>6 DEF FileOK, SameOn

LEMMA AsideKept ==
  ASSUME TypeInv, NEW p, Aside(p), PageOK(p)
  PROVE  PageOK(p)'
<1>1. PICK d : d = disk[p] OBVIOUS
<1>2. PICK m : m = mem[p] OBVIOUS
<1>3. SameOn(p) /\ StillDurable /\ mem'[p] = m /\ disk'[p] = d
  BY <1>1, <1>2 DEF Aside
<1>4. FileOK(p, d) BY <1>1 DEF PageOK
<1>5. FileOK(p, d)' /\ Redoable(p, d)' = Redoable(p, d)
  BY <1>3, <1>4, FileKept
<1>6. ASSUME phase' # "down" PROVE MemOK(p, m, d)'
  <2>1. MemOK(p, m, d) BY <1>1, <1>2, <1>6 DEF PageOK, Aside
  <2>2. m.lsn \in Nat /\ m.lsn <= Len(log) BY <2>1 DEF MemOK, HeapImage
  <2>3. Len(log) \in Nat BY LogIsSeq DEF TypeInv
  <2>4. Len(log') \in Nat /\ Len(log) <= Len(log') BY <1>3 DEF SameOn
  <2>5. m.lsn <= Len(log') BY <2>2, <2>3, <2>4
  <2> QED BY <2>1, <2>5, <1>3, <1>5 DEF MemOK, SameOn
<1>7. ASSUME phase' \in {"undo", "pages"} PROVE Settled(p, m, d)'
  <2>1. phase \in {"undo", "pages"} BY <1>7 DEF Aside
  <2>2. Settled(p, m, d) /\ MemOK(p, m, d) BY <2>1, <1>1, <1>2 DEF PageOK
  <2>3. m.lsn \in Nat /\ m.lsn <= Len(log) /\ m.lsn <= durable BY <2>2 DEF MemOK, HeapImage, Settled
  <2>4. Len(log) \in Nat /\ DOMAIN log = 1..Len(log) BY LogIsSeq DEF TypeInv
  <2>5. m.lsn <= durable'
    <3>1. CASE m.lsn = 0 BY <3>1, <1>3 DEF StillDurable
    <3>2. CASE m.lsn # 0
      <4>1. m.lsn \in DOMAIN log BY <3>2, <2>3, <2>4
      <4> QED BY <4>1, <2>3, <1>3 DEF StillDurable
    <3> QED BY <3>1, <3>2
  <2> QED BY <2>2, <2>5, <1>5 DEF Settled
<1>8. ASSUME phase' = "down" PROVE Cardinality(Redoable(p, d))' <= PageCap
  <2>1. phase = "down" BY <1>8 DEF Aside
  <2> QED BY <2>1, <1>1, <1>5 DEF PageOK
<1>9. p \notin alloc' => Rows(m) = {} /\ Rows(d) = {}
  BY <1>1, <1>2 DEF PageOK, Aside
<1>10. disk'[p] = d /\ mem'[p] = m BY <1>3
<1>11. FileOK(p, disk[p])' BY <1>5, <1>10 DEF FileOK, Redoable
<1>12. (phase # "down" => MemOK(p, mem[p], disk[p]))' BY <1>6, <1>10 DEF MemOK, Redoable
<1>13. (phase \in {"undo", "pages"} => Settled(p, mem[p], disk[p]))' BY <1>7, <1>10 DEF Settled, Redoable
<1>14. (phase = "down" => Cardinality(Redoable(p, disk[p])) <= PageCap)' BY <1>8, <1>10 DEF Redoable
<1>15. (p \notin alloc => Rows(mem[p]) = {} /\ Rows(disk[p]) = {})' BY <1>9, <1>10
<1> QED BY <1>11, <1>12, <1>13, <1>14, <1>15 DEF PageOK

-----------------------------------------------------------------------------
(* The steps that change a page or write it.                               *)

\* What PageOK comes to while the server runs.
LEMMA RunningPage ==
  ASSUME NEW p, NEW m, NEW d, mem'[p] = m, disk'[p] = d, phase' = "run",
         FileOK(p, d)', MemOK(p, m, d)', p \notin alloc' => Rows(m) = {} /\ Rows(d) = {}
  PROVE  PageOK(p)'
<1>1. FileOK(p, disk[p])' BY DEF FileOK, Redoable
<1>2. MemOK(p, mem[p], disk[p])' BY DEF MemOK, Redoable
<1>3. (p \notin alloc => Rows(mem[p]) = {} /\ Rows(disk[p]) = {})' OBVIOUS
<1> QED BY <1>1, <1>2, <1>3 DEF PageOK

LEMMA WithRowImage ==
  ASSUME NEW img, HeapImage(img), NEW r, NEW x, NEW n \in Nat, NEW w, w = WithRow(img, r, x, n)
  PROVE  HeapImage(w) /\ Rows(w) = Rows(img) \cup {r} /\ w.lsn = n /\ w.next = img.next
<1> DEFINE f == [q \in DOMAIN img.rows \cup {r} |-> IF q = r THEN x ELSE img.rows[q]]
<1>1. w = [img EXCEPT !.lsn = n, !.rows = f] BY DEF WithRow
<1>2. DOMAIN f = DOMAIN img.rows \cup {r} OBVIOUS
<1> HIDE DEF f
<1>3. DOMAIN w = DOMAIN img /\ w.lsn = n /\ w.rows = f /\ w.next = img.next BY <1>1 DEF HeapImage
<1> QED BY <1>2, <1>3 DEF HeapImage, Rows

\* An insertion, logged with the next LSN.
LEMMA InsertKeepsPage ==
  ASSUME TypeInv, NEW p \in Heap, PageOK(p), phase = "run", phase' = "run",
         NEW r, log' = Append(log, r), r.kind = "Insert", r.page = p,
         NEW m, m = mem[p], NEW w, w = WithRow(m, Len(log) + 1, 0, Len(log) + 1), mem'[p] = w,
         Cardinality(Rows(m)) < PageCap, disk' = disk, durable' = durable, p \in alloc'
  PROVE  PageOK(p)'
<1>L. PICK L : L = Len(log) + 1 OBVIOUS
<1>d. PICK d : d = disk[p] OBVIOUS
<1>1. OneMore(log, r, log')
  BY AppendOne DEF TypeInv
<1>2. /\ Len(log) \in Nat /\ DOMAIN log = 1..Len(log) /\ DOMAIN log' = 1..L /\ Len(log') = L
      /\ (\A i \in DOMAIN log : log'[i] = log[i]) /\ log'[L] = r /\ L \in Nat
  BY <1>L, <1>1 DEF OneMore
<1>3. DOMAIN log' = DOMAIN log \cup {L} /\ \A i \in DOMAIN log : i < L
  BY <1>L, <1>2
<1>4. InsertsOn(p)' = InsertsOn(p) \cup {L}
  <2>1. InsertsOn(p)' = {i \in DOMAIN log' : log'[i].kind = "Insert" /\ log'[i].page = p} BY DEF InsertsOn
  <2> QED BY <2>1, <1>2, <1>3 DEF InsertsOn
<1>5. DeletesOn(p)' = DeletesOn(p) /\ \A i \in DeletesOn(p) : log'[i] = log[i]
  <2>1. DeletesOn(p)' = {i \in DOMAIN log' : log'[i].kind = "Delete" /\ log'[i].page = p} BY DEF DeletesOn
  <2> QED BY <2>1, <1>2, <1>3 DEF DeletesOn
<1>6. FileOK(p, d) /\ MemOK(p, m, d) BY <1>d DEF PageOK
<1>7. d.lsn \in Nat /\ d.lsn <= Len(log) /\ d.lsn <= durable /\ L > d.lsn
  <2>1. d.lsn \in Nat /\ d.lsn <= Len(log) /\ d.lsn <= durable BY <1>6 DEF FileOK, HeapImage
  <2> QED BY <2>1, <1>2, <1>L
<1>8. Redoable(p, d)' = Redoable(p, d) \cup {L}
  BY <1>4, <1>7 DEF Redoable
<1>9. FileOK(p, d)'
  <2>1. d.lsn <= Len(log') BY <1>2, <1>7, <1>L
  <2>2. \A i \in DeletesOn(p)' : i > d.lsn => log'[i].row \in Redoable(p, d)' /\ log'[i].row < i
    BY <1>5, <1>6, <1>8 DEF FileOK
  <2> QED BY <2>1, <2>2, <1>4, <1>6, <1>7 DEF FileOK
<1>10. HeapImage(w) /\ Rows(w) = Rows(m) \cup {L} /\ w.lsn = L
  <2>1. HeapImage(m) /\ w = WithRow(m, L, 0, L) BY <1>6, <1>L DEF MemOK
  <2> QED BY <2>1, <1>2, WithRowImage
<1>11. Cardinality(Rows(w)) <= PageCap
  <2>1. Rows(m) \subseteq InsertsOn(p) BY <1>6, RedoableSubset DEF MemOK
  <2>2. IsFiniteSet(Rows(m)) BY <2>1, InsertsFinite, FS_Subset
  <2>3. L \notin Rows(m) BY <2>1, <1>3 DEF InsertsOn
  <2>4. PICK S : S = Rows(m) OBVIOUS
  <2>5. Cardinality(S \cup {L}) = Cardinality(S) + 1 /\ Cardinality(S) \in Nat
    BY <2>2, <2>3, <2>4, FS_AddElement, FS_CardinalityType
  <2>6. Cardinality(S) < PageCap /\ PageCap \in Nat BY <2>4, RecoveryAssumption
  <2>7. Cardinality(Rows(w)) = Cardinality(S) + 1 BY <2>4, <2>5, <1>10
  <2> QED BY <2>5, <2>6, <2>7
<1>12. MemOK(p, w, d)'
  <2>1. Rows(w) \subseteq Redoable(p, d)' BY <1>6, <1>8, <1>10 DEF MemOK
  <2>2. \A i \in InsertsOn(p)' \cup DeletesOn(p)' : i <= w.lsn
    <3>1. \A i \in InsertsOn(p) \cup DeletesOn(p) : i \in DOMAIN log BY DEF InsertsOn, DeletesOn
    <3>2. \A i \in DOMAIN log : i <= L BY <1>2, <1>L
    <3> QED BY <3>1, <3>2, <1>2, <1>4, <1>5, <1>10
  <2>3. w.lsn <= Len(log') BY <1>2, <1>10
  <2> QED BY <2>1, <2>2, <2>3, <1>10, <1>11 DEF MemOK
<1> QED BY <1>9, <1>12, <1>d, RunningPage

\* A deletion: the row is on the page, so redo will find it there.
LEMMA DeleteKeepsPage ==
  ASSUME TypeInv, NEW p \in Heap, PageOK(p), phase = "run", phase' = "run",
         NEW r, log' = Append(log, r), r.kind = "Delete", r.page = p,
         NEW m, m = mem[p], NEW x, NEW w, w = WithRow(m, r.row, x, Len(log) + 1), mem'[p] = w,
         r.row \in Rows(m), disk' = disk, durable' = durable, alloc' = alloc
  PROVE  PageOK(p)'
<1>L. PICK L : L = Len(log) + 1 OBVIOUS
<1>d. PICK d : d = disk[p] OBVIOUS
<1>1. OneMore(log, r, log')
  BY AppendOne DEF TypeInv
<1>2. /\ Len(log) \in Nat /\ DOMAIN log = 1..Len(log) /\ DOMAIN log' = 1..L /\ Len(log') = L
      /\ (\A i \in DOMAIN log : log'[i] = log[i]) /\ log'[L] = r /\ L \in Nat
  BY <1>L, <1>1 DEF OneMore
<1>3. DOMAIN log' = DOMAIN log \cup {L} /\ \A i \in DOMAIN log : i < L
  BY <1>L, <1>2
<1>4. InsertsOn(p)' = InsertsOn(p)
  <2>1. InsertsOn(p)' = {i \in DOMAIN log' : log'[i].kind = "Insert" /\ log'[i].page = p} BY DEF InsertsOn
  <2> QED BY <2>1, <1>2, <1>3 DEF InsertsOn
<1>5. DeletesOn(p)' = DeletesOn(p) \cup {L} /\ \A i \in DeletesOn(p) : log'[i] = log[i]
  <2>1. DeletesOn(p)' = {i \in DOMAIN log' : log'[i].kind = "Delete" /\ log'[i].page = p} BY DEF DeletesOn
  <2> QED BY <2>1, <1>2, <1>3 DEF DeletesOn
<1>6. FileOK(p, d) /\ MemOK(p, m, d) BY <1>d DEF PageOK
<1>7. d.lsn \in Nat /\ d.lsn <= Len(log) /\ d.lsn <= durable
  BY <1>6 DEF FileOK, HeapImage
<1>8. Redoable(p, d)' = Redoable(p, d)
  BY <1>4 DEF Redoable
<1>a. r.row \in Redoable(p, d) /\ r.row < L
  <2>1. r.row \in Redoable(p, d) BY <1>6 DEF MemOK
  <2>2. r.row \in InsertsOn(p) BY <2>1, <1>6, RedoableSubset
  <2> QED BY <2>1, <2>2, <1>3 DEF InsertsOn
<1>9. FileOK(p, d)'
  <2>1. d.lsn <= Len(log') BY <1>2, <1>7, <1>L
  <2>2. \A i \in DeletesOn(p)' : i > d.lsn => log'[i].row \in Redoable(p, d)' /\ log'[i].row < i
    BY <1>2, <1>5, <1>6, <1>8, <1>a DEF FileOK
  <2> QED BY <2>1, <2>2, <1>4, <1>6, <1>7 DEF FileOK
<1>10. HeapImage(w) /\ Rows(w) = Rows(m) /\ w.lsn = L
  <2>1. HeapImage(m) /\ w = WithRow(m, r.row, x, L) BY <1>6, <1>L DEF MemOK
  <2>2. HeapImage(w) /\ Rows(w) = Rows(m) \cup {r.row} /\ w.lsn = L BY <2>1, <1>2, WithRowImage
  <2> QED BY <2>2
<1>12. MemOK(p, w, d)'
  <2>1. Rows(w) \subseteq Redoable(p, d)' BY <1>6, <1>8, <1>10 DEF MemOK
  <2>2. \A i \in InsertsOn(p)' \cup DeletesOn(p)' : i <= w.lsn
    <3>1. \A i \in InsertsOn(p) \cup DeletesOn(p) : i \in DOMAIN log BY DEF InsertsOn, DeletesOn
    <3>2. \A i \in DOMAIN log : i <= L BY <1>2, <1>L
    <3> QED BY <3>1, <3>2, <1>2, <1>4, <1>5, <1>10
  <2>3. w.lsn <= Len(log') BY <1>2, <1>10
  <2>4. Cardinality(Rows(w)) <= PageCap BY <1>6, <1>10 DEF MemOK
  <2> QED BY <2>1, <2>2, <2>3, <2>4, <1>10 DEF MemOK
<1>13. p \notin alloc' => Rows(w) = {} /\ Rows(d) = {}
  BY <1>10, <1>d DEF PageOK
<1> QED BY <1>9, <1>12, <1>13, <1>d, RunningPage

\* VACUUM of a page, or a new link: rows may go, and page_lsn does not.
LEMMA TrimKeepsPage ==
  ASSUME TypeInv, NEW p \in Heap, PageOK(p), phase = "run", phase' = "run", log' = log,
         NEW m, m = mem[p], NEW w, mem'[p] = w, HeapImage(w), Rows(w) \subseteq Rows(m),
         w.lsn >= m.lsn, w.lsn <= Len(log), disk' = disk, durable' = durable, alloc' = alloc
  PROVE  PageOK(p)'
<1>d. PICK d : d = disk[p] OBVIOUS
<1>1. InsertsOn(p)' = InsertsOn(p) /\ DeletesOn(p)' = DeletesOn(p)
  BY DEF InsertsOn, DeletesOn
<1>2. Redoable(p, d)' = Redoable(p, d) BY <1>1 DEF Redoable
<1>3. FileOK(p, d) /\ MemOK(p, m, d) BY <1>d DEF PageOK
<1>4. FileOK(p, d)' BY <1>1, <1>2, <1>3 DEF FileOK
<1>5. Cardinality(Rows(w)) <= PageCap
  <2>1. Rows(m) \subseteq InsertsOn(p) BY <1>3, RedoableSubset DEF MemOK
  <2>2. IsFiniteSet(Rows(m)) BY <2>1, InsertsFinite, FS_Subset
  <2> QED BY <2>2, <1>3, FewerFit DEF MemOK
<1>6. \A i \in InsertsOn(p) \cup DeletesOn(p) : i <= w.lsn
  <2>1. \A i \in InsertsOn(p) \cup DeletesOn(p) : i \in Nat BY InsertsFinite
  <2>2. m.lsn \in Nat /\ w.lsn \in Nat BY <1>3 DEF MemOK, HeapImage
  <2> QED BY <2>1, <2>2, <1>3 DEF MemOK
<1>7. MemOK(p, w, d)' BY <1>1, <1>2, <1>3, <1>5, <1>6 DEF MemOK
<1>8. p \notin alloc' => Rows(w) = {} /\ Rows(d) = {}
  BY <1>d DEF PageOK
<1> QED BY <1>4, <1>7, <1>8, <1>d, RunningPage

\* The page is written: nothing on it is left to redo.
LEMMA WriteKeepsPage ==
  ASSUME TypeInv, NEW p \in Heap, PageOK(p), phase # "down", phase' = "run", log' = log,
         NEW m, m = mem[p], mem'[p] = m, disk'[p] = m, m.lsn <= durable', alloc' = alloc
  PROVE  PageOK(p)'
<1>d. PICK d : d = disk[p] OBVIOUS
<1>1. InsertsOn(p)' = InsertsOn(p) /\ DeletesOn(p)' = DeletesOn(p)
  BY DEF InsertsOn, DeletesOn
<1>3. FileOK(p, d) /\ MemOK(p, m, d) BY <1>d DEF PageOK
<1>4. Rows(m) \subseteq InsertsOn(p) BY <1>3, RedoableSubset DEF MemOK
<1>5. m.lsn \in Nat /\ \A i \in InsertsOn(p) \cup DeletesOn(p) : i \in Nat /\ i <= m.lsn
  BY <1>3, InsertsFinite DEF MemOK, HeapImage
<1>6. FileOK(p, m)'
  <2>1. \A r \in Rows(m) : r <= m.lsn BY <1>4, <1>5
  <2>2. \A i \in DeletesOn(p) : ~(i > m.lsn) BY <1>5
  <2> QED BY <2>1, <2>2, <1>1, <1>3, <1>4 DEF FileOK, MemOK
<1>7. MemOK(p, m, m)'
  <2>1. Rows(m) \subseteq Redoable(p, m)' BY DEF Redoable
  <2> QED BY <2>1, <1>1, <1>3 DEF MemOK
<1>8. p \notin alloc' => Rows(m) = {}
  BY DEF PageOK
<1> QED BY <1>6, <1>7, <1>8, RunningPage

-----------------------------------------------------------------------------
(* Action by action.                                                       *)

\* The chain is not extended, or by a page of the file.
StillLinked ==
    /\ alloc \subseteq alloc'
    /\ "Tail" \notin alloc' =>
           /\ mem'["Head"].next = mem["Head"].next
           /\ disk'["Head"].next \in {disk["Head"].next, mem["Head"].next}
           /\ \A t \in Ids : held'[t] = "unlinked" => held[t] = "unlinked"

LEMMA LinkKept ==
  ASSUME LinkOK, StillLinked
  PROVE  LinkOK'
BY DEF LinkOK, StillLinked

\* A step that leaves both heap pages alone.
Bystander ==
    /\ exposed \subseteq exposed' /\ lost \subseteq lost' /\ DOMAIN held' = Ids /\ StillLinked
    /\ \A p \in Heap : Aside(p)

LEMMA BystanderKept ==
  ASSUME TypeInv, StartInv, Bystander
  PROVE  StartInv'
<1>1. SUFFICES ASSUME Unscathed' PROVE PagesOK'
  BY DEF StartInv, Bystander
<1>2. Unscathed BY <1>1, WasUnscathed DEF Bystander
<1>3. PagesOK BY <1>2 DEF StartInv
<1>4. \A p \in Heap : PageOK(p)' BY <1>3, AsideKept DEF PagesOK, Bystander
<1>5. phase' \in {"run", "down", "undo", "pages"}
  <2>1. Aside("Head") BY DEF Bystander, Heap
  <2> QED BY <2>1, <1>3 DEF Aside, PagesOK
<1>6. "Head" \in alloc' BY <1>3 DEF PagesOK, Bystander, StillLinked
<1>7. LinkOK' BY <1>3, LinkKept DEF PagesOK, Bystander
<1> QED BY <1>4, <1>5, <1>6, <1>7 DEF PagesOK

\* Only a record that changes no row is appended, if any.
NoRow == log' = log \/ \E r : log' = Append(log, r) /\ r.kind \notin Changes

LEMMA NoRowSameOn ==
  ASSUME TypeInv, NoRow, NEW p
  PROVE  SameOn(p)
<1>1. CASE log' = log
  BY <1>1, RecordsAside DEF TypeInv
<1>2. ASSUME NEW r, log' = Append(log, r), r.kind \notin Changes PROVE SameOn(p)
  <2>1. OneMore(log, r, log') BY <1>2, AppendOne DEF TypeInv
  <2>2. DOMAIN log \subseteq DOMAIN log' /\ IsSeq(log') BY <2>1 DEF OneMore
  <2>3. \A i \in DOMAIN log' \ DOMAIN log : log'[i] = r BY <2>1 DEF OneMore
  <2>4. \A i \in DOMAIN log : log'[i] = log[i] BY <2>1 DEF OneMore
  <2> QED BY <1>2, <2>2, <2>3, <2>4, RecordsAside
<1> QED BY <1>1, <1>2 DEF NoRow

LEMMA TransactionStandsBy ==
  ASSUME IInv, StartInv, NEW t \in Ids,
         \/ \E m \in {"rw", "ro", "vac"} : Start(t, m)
         \/ \E k \in {"Commit", "Abort"} : LogEnd(t, k)
         \/ FlushEnd(t) \/ Decide(t)
         \/ \E s \in {"Committed", "Aborted"} : EndReader(t, s)
         \/ Release(t)
  PROVE  Bystander
<1>0. TypeInv BY DEF IInv
<1>1. /\ exposed' = exposed /\ lost' = lost /\ alloc' = alloc
      /\ mem' = mem /\ disk' = disk /\ phase' = phase
  BY DEF Start, LogEnd, FlushEnd, Decide, EndReader, Release, store, system, rest
<1>2. durable' = durable \/ durable' = Len(log)
  BY DEF Start, LogEnd, FlushEnd, Decide, EndReader, Release
<1>3. NoRow
  <2>1. ASSUME NEW m \in {"rw", "ro", "vac"}, Start(t, m) PROVE NoRow
    <3> DEFINE r == [kind |-> "Begin", txn |-> t]
    <3>1. log' = log \/ log' = Append(log, r) BY <2>1 DEF Start
    <3>2. r.kind \notin Changes BY DEF Changes
    <3> HIDE DEF r
    <3> QED BY <3>1, <3>2 DEF NoRow
  <2>2. ASSUME NEW k \in {"Commit", "Abort"}, LogEnd(t, k) PROVE NoRow
    <3> DEFINE r == [kind |-> k, txn |-> t]
    <3>1. log' = Append(log, r) BY <2>2 DEF LogEnd
    <3>2. r.kind \notin Changes BY DEF Changes
    <3> HIDE DEF r
    <3> QED BY <3>1, <3>2 DEF NoRow
  <2>3. CASE FlushEnd(t) BY <2>3 DEF FlushEnd, NoRow
  <2>4. CASE Decide(t) BY <2>4 DEF Decide, NoRow
  <2>5. CASE \E s \in {"Committed", "Aborted"} : EndReader(t, s) BY <2>5 DEF EndReader, NoRow
  <2>6. CASE Release(t) BY <2>6 DEF Release, NoRow
  <2> QED BY <2>1, <2>2, <2>3, <2>4, <2>5, <2>6
<1>4. StillDurable
  BY <1>0, <1>2, DurableSame
<1>5. \A p \in Heap : SameOn(p)
  BY <1>0, <1>3, NoRowSameOn
<1>6. held' = held \/ held' = [held EXCEPT ![t] = None]
  BY DEF Start, LogEnd, FlushEnd, Decide, EndReader, Release
<1>7. DOMAIN held' = Ids /\ StillLinked
  BY <1>1, <1>6 DEF StartInv, StillLinked, None
<1> QED BY <1>1, <1>4, <1>5, <1>7 DEF Bystander, Aside

LEMMA SequenceStandsBy ==
  ASSUME IInv, StartInv, NEW t \in Ids, NextVal(t) \/ \E c \in BOOLEAN : SetVal(t, c)
  PROVE  Bystander
<1>0. TypeInv BY DEF IInv
<1>1. /\ exposed \subseteq exposed' /\ lost' = lost /\ alloc' = alloc
      /\ disk' = disk /\ phase' = phase /\ durable' = durable
  BY DEF NextVal, SetVal, frames, system, rest
<1>2. \E img : mem' = [mem EXCEPT !["Seq"] = img]
  BY DEF NextVal, SetVal
<1>3. ASSUME NEW p \in Heap PROVE mem'[p] = mem[p]
  <2>1. p # "Seq" /\ p \in DOMAIN mem BY <1>0 DEF Heap, TypeInv, PageFile, Pages
  <2> QED BY <2>1, <1>2
<1>4. Extended({"SeqAdvance"}, t) BY SequenceIsPlain DEF Plain
<1>5. ASSUME NEW p \in Heap PROVE SameOn(p)
  BY <1>0, <1>4, RecordsAside DEF Extended, Changes
<1>6. StillDurable
  BY <1>0, <1>1, DurableSame
<1>7. held' = [held EXCEPT ![t] = "Seq"]
  BY DEF NextVal, SetVal
<1>8. mem'["Head"] = mem["Head"]
  BY <1>3 DEF Heap
<1>9. DOMAIN held' = Ids /\ StillLinked
  BY <1>1, <1>7, <1>8 DEF StartInv, StillLinked
<1> QED BY <1>1, <1>3, <1>5, <1>6, <1>9 DEF Bystander, Aside

LEMMA CheckpointStandsBy ==
  ASSUME IInv, StartInv,
         \/ CkptClog \/ CkptTables \/ CkptRecord \/ CkptFlush \/ MetaTruncate \/ MetaWrite \/ RecoverClog
         \/ UNCHANGED vars
  PROVE  Bystander
<1>0. TypeInv BY DEF IInv
<1>1. CASE CkptClog \/ CkptTables \/ CkptRecord \/ CkptFlush \/ MetaTruncate \/ MetaWrite \/ RecoverClog
  <2>1. /\ exposed' = exposed /\ lost' = lost /\ alloc' = alloc
        /\ mem' = mem /\ disk' = disk /\ held' = held
        /\ phase' = phase \/ (phase = "undo" /\ phase' = "pages")
    BY <1>1 DEF CkptClog, CkptTables, CkptRecord, CkptFlush, MetaTruncate, MetaWrite, RecoverClog, CkptRest,
                store, rest, txns
  <2>2. Extended({"Checkpoint"}, 0) /\ StillDurable BY <1>1, CheckpointIsPlain DEF Plain
  <2>3. ASSUME NEW p \in Heap PROVE SameOn(p)
    BY <1>0, <2>2, RecordsAside DEF Extended, Changes
  <2>4. DOMAIN held' = Ids /\ StillLinked BY <2>1 DEF StartInv, StillLinked
  <2> QED BY <2>1, <2>2, <2>3, <2>4 DEF Bystander, Aside
<1>2. CASE UNCHANGED vars
  <2>1. /\ exposed' = exposed /\ lost' = lost /\ alloc' = alloc
        /\ mem' = mem /\ disk' = disk /\ phase' = phase /\ log' = log /\ durable' = durable /\ held' = held
    BY <1>2 DEF vars
  <2>2. \A p \in Heap : SameOn(p) BY <1>0, <2>1, NoRowSameOn DEF NoRow
  <2>3. StillDurable BY <1>0, <2>1, DurableSame
  <2>4. DOMAIN held' = Ids /\ StillLinked BY <2>1 DEF StartInv, StillLinked
  <2> QED BY <2>1, <2>2, <2>3, <2>4 DEF Bystander, Aside
<1> QED BY <1>1, <1>2

\* While the server runs, a step that keeps the page it changes and leaves the other alone.
LEMMA OnePageKept ==
  ASSUME TypeInv, StartInv, NEW p \in Heap,
         exposed' = exposed, lost' = lost, phase' = "run", DOMAIN held' = Ids,
         \A q \in Heap \ {p} : Aside(q),
         PagesOK => PageOK(p)' /\ StillLinked
  PROVE  StartInv'
<1>1. SUFFICES ASSUME Unscathed' PROVE PagesOK'
  BY DEF StartInv
<1>2. Unscathed BY <1>1, WasUnscathed
<1>3. PagesOK BY <1>2 DEF StartInv
<1>4. \A q \in Heap \ {p} : PageOK(q)' BY <1>3, AsideKept DEF PagesOK
<1>5. PageOK(p)' /\ StillLinked BY <1>3
<1>6. \A q \in Heap : PageOK(q)' BY <1>4, <1>5
<1>7. LinkOK' BY <1>3, <1>5, LinkKept DEF PagesOK
<1>8. "Head" \in alloc' BY <1>3, <1>5 DEF PagesOK, StillLinked
<1> QED BY <1>6, <1>7, <1>8 DEF PagesOK

\* A record of page p and no other page's business.
LEMMA OtherPageAside ==
  ASSUME TypeInv, NEW p \in Heap, NEW r, log' = Append(log, r), r.page = p,
         NEW w, mem' = [mem EXCEPT ![p] = w], disk' = disk, durable' = durable, phase' = phase,
         alloc \subseteq alloc'
  PROVE  \A q \in Heap \ {p} : Aside(q)
<1> SUFFICES ASSUME NEW q \in Heap \ {p} PROVE Aside(q)
  OBVIOUS
<1>1. OneMore(log, r, log') BY AppendOne DEF TypeInv
<1>2. DOMAIN log \subseteq DOMAIN log' /\ IsSeq(log') BY <1>1 DEF OneMore
<1>3. \A i \in DOMAIN log' \ DOMAIN log : log'[i] = r BY <1>1 DEF OneMore
<1>4. \A i \in DOMAIN log : log'[i] = log[i] BY <1>1 DEF OneMore
<1>5. SameOn(q) BY <1>2, <1>3, <1>4, RecordsAside
<1>6. mem'[q] = mem[q]
  <2>1. q # p /\ q \in DOMAIN mem BY DEF TypeInv, PageFile, Pages
  <2> QED BY <2>1
<1>7. StillDurable BY DurableSame
<1> QED BY <1>5, <1>6, <1>7 DEF Aside

LEMMA InsertKeepsStart ==
  ASSUME IInv, StartInv, NEW t \in Ids, InsertRow(t) \/ InsertFresh(t)
  PROVE  StartInv'
<1>0. TypeInv BY DEF IInv
<1>1. /\ exposed' = exposed /\ lost' = lost /\ phase = "run" /\ phase' = phase
      /\ disk' = disk /\ durable' = durable /\ alloc \subseteq alloc'
  BY DEF InsertRow, InsertFresh, frames, system, rest, Working, Up
<1>2. ASSUME NEW p \in Heap, InsertInto(t, p), NEW x, held' = [held EXCEPT ![t] = x],
             x = "unlinked" => "Tail" \in alloc',
             PagesOK => p \in alloc' /\ Cardinality(Rows(mem[p])) < PageCap
      PROVE  StartInv'
  <2> DEFINE rec == [kind |-> "Insert", txn |-> t, page |-> p]
  <2>1. PICK m : m = mem[p] OBVIOUS
  <2>2. PICK w : w = WithRow(m, Len(log) + 1, 0, Len(log) + 1) OBVIOUS
  <2>3. PICK r : r = rec OBVIOUS
  <2>4. log' = Append(log, r) /\ mem' = [mem EXCEPT ![p] = w] BY <1>2, <2>1, <2>2, <2>3 DEF InsertInto
  <2>5. r.kind = "Insert" /\ r.page = p BY <2>3
  <2> HIDE DEF rec
  <2>6. mem'[p] = w
    <3>1. p \in DOMAIN mem BY <1>0 DEF TypeInv, PageFile, Pages
    <3> QED BY <3>1, <2>4
  <2>7. \A q \in Heap \ {p} : Aside(q) BY <1>0, <1>1, <2>4, <2>5, OtherPageAside
  <2>8. ASSUME PagesOK PROVE PageOK(p)'
    <3>1. PageOK(p) /\ p \in alloc' /\ Cardinality(Rows(m)) < PageCap BY <2>8, <2>1, <1>2 DEF PagesOK
    <3> QED BY <3>1, <1>0, <1>1, <1>2, <2>1, <2>2, <2>4, <2>5, <2>6, InsertKeepsPage
  <2>9. ASSUME PagesOK PROVE StillLinked
    <3>1. mem'["Head"].next = mem["Head"].next
      <4>1. CASE p = "Head"
        <5>1. HeapImage(m) BY <2>9, <2>1, <1>1 DEF PagesOK, PageOK, MemOK
        <5>2. Len(log) + 1 \in Nat BY <1>0, LogIsSeq DEF TypeInv
        <5> QED BY <4>1, <5>1, <5>2, <2>1, <2>2, <2>6, WithRowImage
      <4>2. CASE p # "Head"
        <5>1. Aside("Head") BY <4>2, <2>7 DEF Heap
        <5> QED BY <5>1 DEF Aside
      <4> QED BY <4>1, <4>2
    <3>2. \A u \in Ids : held'[u] = "unlinked" => held[u] = "unlinked" \/ "Tail" \in alloc'
      BY <1>2 DEF StartInv
    <3> QED BY <3>1, <3>2, <1>1 DEF StillLinked
  <2>10. DOMAIN held' = Ids BY <1>2 DEF StartInv
  <2> QED BY <1>0, <1>1, <2>7, <2>8, <2>9, <2>10, OnePageKept
<1>3. CASE InsertRow(t)
  <2>1. LastPage \in Heap /\ InsertInto(t, LastPage) /\ ~Full(mem[LastPage]) /\ alloc' = alloc
    BY <1>3 DEF InsertRow, LastPage, Heap, frames
  <2>2. PICK p \in Heap : p = LastPage BY <2>1
  <2>3. ASSUME PagesOK PROVE Cardinality(Rows(mem[p])) < PageCap
    <3>1. PICK m : m = mem[p] OBVIOUS
    <3>2. PICK d : d = disk[p] OBVIOUS
    <3>3. FileOK(p, d) /\ MemOK(p, m, d) BY <2>3, <3>1, <3>2, <1>1 DEF PagesOK, PageOK
    <3>4. Rows(m) \subseteq InsertsOn(p) BY <3>3, RedoableSubset DEF MemOK
    <3>5. IsFiniteSet(Rows(m)) BY <3>4, <1>0, InsertsFinite, FS_Subset
    <3>6. PICK c : c = Cardinality(Rows(m)) OBVIOUS
    <3>7. c \in Nat BY <3>5, <3>6, FS_CardinalityType
    <3>8. ~(c >= PageCap) BY <2>1, <2>2, <3>1, <3>6 DEF Full, Rows
    <3>9. c < PageCap BY <3>7, <3>8, RecoveryAssumption
    <3> QED BY <3>1, <3>6, <3>9
  <2>4. ASSUME PagesOK PROVE p \in alloc'
    BY <2>1, <2>2, <2>4 DEF PagesOK, LinkOK, LastPage
  <2>5. held' = [held EXCEPT ![t] = p] /\ p # "unlinked" BY <1>3, <2>2 DEF InsertRow, Heap
  <2> QED BY <2>1, <2>2, <2>3, <2>4, <2>5, <1>2
<1>4. CASE InsertFresh(t)
  <2>1. "Tail" \in Heap /\ InsertInto(t, "Tail") /\ "Tail" \notin alloc /\ "Tail" \in alloc'
        /\ held' = [held EXCEPT ![t] = "unlinked"]
    BY <1>4 DEF InsertFresh, Heap
  <2>2. ASSUME PagesOK PROVE Cardinality(Rows(mem["Tail"])) < PageCap
    <3>1. Rows(mem["Tail"]) = {} BY <2>1, <2>2 DEF PagesOK, PageOK
    <3>2. Cardinality(Rows(mem["Tail"])) = 0 BY <3>1, FS_EmptySet
    <3> QED BY <3>2, RecoveryAssumption
  <2> QED BY <2>1, <2>2, <1>2
<1> QED BY <1>3, <1>4

LEMMA DeleteKeepsStart ==
  ASSUME IInv, StartInv, NEW t \in Ids, NEW p \in Heap, NEW row \in 1..MaxLsn, DeleteRow(t, p, row)
  PROVE  StartInv'
<1>0. TypeInv BY DEF IInv
<1>1. /\ exposed' = exposed /\ lost' = lost /\ phase = "run" /\ phase' = phase
      /\ disk' = disk /\ durable' = durable /\ alloc' = alloc
      /\ held' = [held EXCEPT ![t] = p] /\ row \in DOMAIN mem[p].rows
  BY DEF DeleteRow, frames, system, rest, Working, Up
<1> DEFINE rec == [kind |-> "Delete", txn |-> t, page |-> p, row |-> row]
<1>2. PICK m : m = mem[p] OBVIOUS
<1>3. PICK w : w = WithRow(m, row, t, Len(log) + 1) OBVIOUS
<1>4. PICK r : r = rec OBVIOUS
<1>5. log' = Append(log, r) /\ mem' = [mem EXCEPT ![p] = w] BY <1>2, <1>3, <1>4 DEF DeleteRow
<1>6. r.kind = "Delete" /\ r.page = p /\ r.row = row BY <1>4
<1> HIDE DEF rec
<1>7. mem'[p] = w
  <2>1. p \in DOMAIN mem BY <1>0 DEF TypeInv, PageFile, Pages
  <2> QED BY <2>1, <1>5
<1>8. \A q \in Heap \ {p} : Aside(q) BY <1>0, <1>1, <1>5, <1>6, OtherPageAside
<1>9. ASSUME PagesOK PROVE PageOK(p)'
  <2>1. PageOK(p) /\ r.row \in Rows(m) /\ w = WithRow(m, r.row, t, Len(log) + 1)
    BY <1>9, <1>1, <1>2, <1>3, <1>6 DEF PagesOK, Rows
  <2> QED BY <2>1, <1>0, <1>1, <1>2, <1>5, <1>6, <1>7, DeleteKeepsPage
<1>10. ASSUME PagesOK PROVE StillLinked
  <2>1. mem'["Head"].next = mem["Head"].next
    <3>1. CASE p = "Head"
      <4>1. HeapImage(m) BY <1>10, <1>2, <1>1 DEF PagesOK, PageOK, MemOK
      <4>2. Len(log) + 1 \in Nat BY <1>0, LogIsSeq DEF TypeInv
      <4> QED BY <3>1, <4>1, <4>2, <1>2, <1>3, <1>7, WithRowImage
    <3>2. CASE p # "Head"
      <4>1. Aside("Head") BY <3>2, <1>8 DEF Heap
      <4> QED BY <4>1 DEF Aside
    <3> QED BY <3>1, <3>2
  <2>2. \A u \in Ids : held'[u] = "unlinked" => held[u] = "unlinked"
    BY <1>1 DEF StartInv, Heap
  <2> QED BY <2>1, <2>2, <1>1 DEF StillLinked
<1>11. DOMAIN held' = Ids BY <1>1 DEF StartInv
<1> QED BY <1>0, <1>1, <1>8, <1>9, <1>10, <1>11, OnePageKept

\* The page p alone changes, and the log does not.
LEMMA RestAside ==
  ASSUME TypeInv, NEW p, log' = log, StillDurable, phase' = phase, alloc' = alloc,
         \A q \in Heap \ {p} : mem'[q] = mem[q] /\ disk'[q] = disk[q]
  PROVE  \A q \in Heap \ {p} : Aside(q)
<1>1. \A q : SameOn(q) BY NoRowSameOn DEF NoRow
<1> QED BY <1>1 DEF Aside

LEMMA VacuumKeepsStart ==
  ASSUME IInv, StartInv, NEW t \in Ids, NEW p \in Heap, VacuumPage(t, p)
  PROVE  StartInv'
<1>0. TypeInv BY DEF IInv
<1>1. /\ exposed' = exposed /\ lost' = lost /\ phase = "run" /\ phase' = phase /\ log' = log
      /\ disk' = disk /\ durable' = durable /\ alloc' = alloc
      /\ held' = [held EXCEPT ![t] = p] /\ t \in att /\ mode[t] = "vac"
  BY DEF VacuumPage, frames, system, rest, Working, Up
<1>2. PICK m : m = mem[p] OBVIOUS
<1> DEFINE keep == {r \in DOMAIN m.rows : ~Dead(r, m.rows[r], horizon[t])}
<1>3. PICK f : f = [r \in keep |-> m.rows[r]] OBVIOUS
<1>4. PICK n : n = Max({m.lsn, Stamp(t)}) OBVIOUS
<1>5. mem' = [mem EXCEPT ![p].rows = f, ![p].lsn = n] BY <1>2, <1>3, <1>4 DEF VacuumPage
<1>6. DOMAIN f \subseteq DOMAIN m.rows BY <1>3
<1> HIDE DEF keep
<1>7. p \in DOMAIN mem /\ m.lsn \in Nat BY <1>0, <1>2 DEF TypeInv, PageFile, Pages
<1>8. Stamp(t) \in Nat /\ Stamp(t) <= Len(log) /\ Len(log) \in Nat
  <2> DEFINE S == {i \in DOMAIN log : log[i].kind = "Begin" /\ log[i].txn = t}
  <2>1. S # {} BY <1>1 DEF IInv, VacuumBegan, BeginLogged
  <2>2. Len(log) \in Nat /\ S \subseteq 0..Len(log) BY <1>0, LogIsSeq DEF TypeInv
  <2>3. Stamp(t) = Max(S) BY DEF Stamp
  <2> HIDE DEF S
  <2>4. Max(S) \in S BY <2>1, <2>2, MaxIsMember
  <2>5. PICK x \in S : x = Max(S) BY <2>4
  <2>6. x \in Nat /\ x <= Len(log)
    <3>1. x \in 0..Len(log) BY <2>2
    <3> QED BY <3>1, <2>2
  <2> QED BY <2>2, <2>3, <2>5, <2>6
<1>9. n \in {m.lsn, Stamp(t)} /\ n >= m.lsn
  <2>1. PICK a : a = m.lsn OBVIOUS
  <2>2. PICK b : b = Stamp(t) OBVIOUS
  <2>3. a \in Nat /\ b \in Nat /\ n = Max({a, b}) BY <2>1, <2>2, <1>4, <1>7, <1>8
  <2>4. \E x \in {a, b} : \A y \in {a, b} : x >= y BY <2>3
  <2>5. Max({a, b}) \in {a, b} /\ \A y \in {a, b} : Max({a, b}) >= y BY <2>4 DEF Max
  <2> QED BY <2>1, <2>2, <2>3, <2>5
<1>10. PICK w : w = mem'[p] OBVIOUS
<1>11. \A q \in Heap \ {p} : Aside(q)
  <2>1. \A q \in Heap \ {p} : mem'[q] = mem[q]
    <3> TAKE q \in Heap \ {p}
    <3>1. q # p /\ q \in DOMAIN mem BY <1>0 DEF TypeInv, PageFile, Pages
    <3> QED BY <3>1, <1>5
  <2>2. StillDurable BY <1>0, <1>1, DurableSame
  <2> QED BY <2>1, <2>2, <1>0, <1>1, RestAside
<1>12. ASSUME PagesOK PROVE PageOK(p)' /\ StillLinked
  <2>1. PICK d : d = disk[p] OBVIOUS
  <2>2. PageOK(p) /\ MemOK(p, m, d) BY <1>12, <1>1, <1>2, <2>1 DEF PagesOK, PageOK
  <2>3. HeapImage(m) /\ m.lsn <= Len(log) BY <2>2 DEF MemOK
  <2>4. w = [m EXCEPT !.rows = f, !.lsn = n] BY <1>2, <1>5, <1>7, <1>10
  <2>5. DOMAIN w = DOMAIN m /\ w.rows = f /\ w.lsn = n /\ w.next = m.next BY <2>3, <2>4 DEF HeapImage
  <2>6. n \in Nat /\ n <= Len(log) BY <1>7, <1>8, <1>9, <2>3
  <2>7. HeapImage(w) /\ Rows(w) \subseteq Rows(m) /\ w.lsn >= m.lsn /\ w.lsn <= Len(log)
    BY <2>3, <2>5, <2>6, <1>6, <1>9 DEF HeapImage, Rows
  <2>8. PageOK(p)' BY <1>0, <1>1, <1>2, <1>10, <2>2, <2>7, TrimKeepsPage
  <2>9. mem'["Head"].next = mem["Head"].next
    <3>1. CASE p = "Head" BY <3>1, <2>5, <1>2, <1>10
    <3>2. CASE p # "Head"
      <4>1. Aside("Head") BY <3>2, <1>11 DEF Heap
      <4> QED BY <4>1 DEF Aside
    <3> QED BY <3>1, <3>2
  <2>10. \A u \in Ids : held'[u] = "unlinked" => held[u] = "unlinked"
    BY <1>1 DEF StartInv, Heap
  <2>11. StillLinked BY <2>9, <2>10, <1>1 DEF StillLinked
  <2> QED BY <2>8, <2>11
<1>13. DOMAIN held' = Ids BY <1>1 DEF StartInv
<1> QED BY <1>0, <1>1, <1>11, <1>12, <1>13, OnePageKept

LEMMA LinkKeepsStart ==
  ASSUME IInv, StartInv, NEW t \in Ids, Link(t)
  PROVE  StartInv'
<1>0. TypeInv BY DEF IInv
<1>1. /\ exposed' = exposed /\ lost' = lost /\ phase = "run" /\ phase' = phase /\ log' = log
      /\ disk' = disk /\ durable' = durable /\ alloc' = alloc
      /\ held[t] = "unlinked" /\ held' = [held EXCEPT ![t] = "Head"]
      /\ mem' = [mem EXCEPT !["Head"].next = "Tail"]
  BY DEF Link, frames, system, rest, Up
<1>2. PICK m : m = mem["Head"] OBVIOUS
<1>3. PICK w : w = mem'["Head"] OBVIOUS
<1>4. "Head" \in DOMAIN mem /\ "Head" \in Heap BY <1>0 DEF TypeInv, PageFile, Pages, Heap
<1>5. w = [m EXCEPT !.next = "Tail"] BY <1>1, <1>2, <1>3, <1>4
<1>6. \A q \in Heap \ {"Head"} : Aside(q)
  <2>1. \A q \in Heap \ {"Head"} : mem'[q] = mem[q]
    <3> TAKE q \in Heap \ {"Head"}
    <3>1. q # "Head" /\ q \in DOMAIN mem BY <1>0 DEF TypeInv, PageFile, Pages
    <3> QED BY <3>1, <1>1
  <2>2. StillDurable BY <1>0, <1>1, DurableSame
  <2> QED BY <2>1, <2>2, <1>0, <1>1, RestAside
<1>7. ASSUME PagesOK PROVE PageOK("Head")' /\ StillLinked
  <2>1. PICK d : d = disk["Head"] OBVIOUS
  <2>2. PageOK("Head") /\ MemOK("Head", m, d) BY <1>7, <1>1, <1>2, <1>4, <2>1 DEF PagesOK, PageOK
  <2>3. HeapImage(m) /\ m.lsn <= Len(log) BY <2>2 DEF MemOK
  <2>4. DOMAIN w = DOMAIN m /\ w.rows = m.rows /\ w.lsn = m.lsn BY <2>3, <1>5 DEF HeapImage
  <2>5. HeapImage(w) /\ Rows(w) \subseteq Rows(m) /\ w.lsn >= m.lsn /\ w.lsn <= Len(log)
    BY <2>3, <2>4 DEF HeapImage, Rows
  <2>6. PageOK("Head")' BY <1>0, <1>1, <1>2, <1>3, <1>4, <2>2, <2>5, TrimKeepsPage
  <2>7. "Tail" \in alloc' BY <1>7, <1>1 DEF PagesOK, LinkOK
  <2>8. StillLinked BY <2>7, <1>1 DEF StillLinked
  <2> QED BY <2>6, <2>8
<1>8. DOMAIN held' = Ids BY <1>1 DEF StartInv
<1> QED BY <1>0, <1>1, <1>4, <1>6, <1>7, <1>8, OnePageKept

LEMMA WriteKeepsStart ==
  ASSUME IInv, StartInv, NEW p \in Pages, WritePage(p)
  PROVE  StartInv'
<1>0. TypeInv BY DEF IInv
<1>1. /\ exposed' = exposed /\ lost' = lost /\ phase = "run" /\ phase' = phase /\ log' = log
      /\ mem' = mem /\ alloc' = alloc /\ held' = held
      /\ disk' = [disk EXCEPT ![p] = mem[p]] /\ durable' = Max({durable, mem[p].lsn})
  BY DEF WritePage, system, rest, txns, Up
<1>2. DOMAIN disk = Pages /\ mem[p].lsn \in Nat /\ durable \in Nat BY <1>0 DEF TypeInv, PageFile
<1>3. StillDurable BY PageStepIsPlain DEF Plain
<1>4. \A q \in Heap \ {p} : Aside(q)
  <2>1. \A q \in Heap \ {p} : disk'[q] = disk[q] BY <1>1, <1>2 DEF Pages
  <2> QED BY <2>1, <1>0, <1>1, <1>3, RestAside
<1>5. DOMAIN held' = Ids BY <1>1 DEF StartInv
<1>6. StillLinked
  <2>1. disk'["Head"] \in {disk["Head"], mem["Head"]} BY <1>1, <1>2 DEF Pages, Heap
  <2> QED BY <2>1, <1>1 DEF StillLinked
<1>7. CASE p \notin Heap
  <2>1. \A q \in Heap : Aside(q) BY <1>4, <1>7
  <2>2. Bystander BY <2>1, <1>1, <1>5, <1>6 DEF Bystander
  <2> QED BY <2>2, <1>0, BystanderKept
<1>8. CASE p \in Heap
  <2>1. ASSUME PagesOK PROVE PageOK(p)'
    <3>1. PICK m : m = mem[p] OBVIOUS
    <3>2. disk'[p] = m /\ mem'[p] = m BY <3>1, <1>1, <1>2
    <3>3. m.lsn <= durable'
      <4>1. PICK a : a = m.lsn OBVIOUS
      <4>2. a \in Nat /\ durable' = Max({durable, a}) BY <4>1, <3>1, <1>1, <1>2
      <4>3. {a, durable} = {durable, a} OBVIOUS
      <4>4. Max({a, durable}) \in Nat /\ Max({a, durable}) >= a BY <4>2, <1>2, TwoMax
      <4>5. durable' \in Nat /\ durable' >= a BY <4>2, <4>3, <4>4
      <4> QED BY <4>1, <4>2, <4>5
    <3>4. PageOK(p) BY <2>1, <1>8 DEF PagesOK
    <3> QED BY <3>1, <3>2, <3>3, <3>4, <1>0, <1>1, <1>8, WriteKeepsPage
  <2> QED BY <2>1, <1>0, <1>1, <1>4, <1>5, <1>6, <1>8, OnePageKept
<1> QED BY <1>7, <1>8

LEMMA RecoverPagesKeepsStart ==
  ASSUME IInv, StartInv, RecoverPages
  PROVE  StartInv'
<1>0. TypeInv BY DEF IInv
<1>1. /\ exposed' = exposed /\ lost' = lost /\ phase = "pages" /\ phase' = "run" /\ log' = log
      /\ mem' = mem /\ alloc' = alloc /\ held' = held /\ disk' = mem /\ durable' = durable
  BY DEF RecoverPages, rest, txns
<1>2. SUFFICES ASSUME Unscathed' PROVE PagesOK'
  BY <1>1 DEF StartInv
<1>3. PagesOK BY <1>1, <1>2, WasUnscathed DEF StartInv
<1>4. ASSUME NEW p \in Heap PROVE PageOK(p)'
  <2>1. PICK m : m = mem[p] OBVIOUS
  <2>2. PageOK(p) /\ m.lsn <= durable' BY <2>1, <1>1, <1>3 DEF PagesOK, PageOK, Settled
  <2> QED BY <2>1, <2>2, <1>0, <1>1, WriteKeepsPage
<1>5. StillLinked BY <1>1 DEF StillLinked
<1>6. LinkOK' BY <1>3, <1>5, LinkKept DEF PagesOK
<1> QED BY <1>1, <1>3, <1>4, <1>6 DEF PagesOK

LEMMA KillKeepsStart ==
  ASSUME IInv, StartInv, NEW n \in durable..Len(log), Kill(n)
  PROVE  StartInv'
<1>0. TypeInv /\ DownIsQuiet BY DEF IInv
<1>a. /\ log' = SubSeq(log, 1, n) /\ durable' = n /\ disk' = disk /\ mem' = disk /\ phase # "failed" /\ phase' = "down"
      /\ lost' = lost /\ alloc' = alloc /\ held' = [t \in Ids |-> None]
      /\ exposed \subseteq exposed'
      /\ (phase = "run" /\ \E p \in Heap : VacuumPending(p)) => "vacuum" \in exposed'
  BY DEF Kill, Up
<1>b. Len(log) \in Nat /\ DOMAIN log = 1..Len(log) /\ durable \in Nat /\ n \in 0..Len(log) /\ durable <= n
      /\ n \in Nat
  <2>1. Len(log) \in Nat /\ DOMAIN log = 1..Len(log) BY <1>0, LogIsSeq DEF TypeInv
  <2>2. durable \in Nat BY <1>0 DEF TypeInv
  <2> QED BY <2>1, <2>2
<1>c. DOMAIN log' = 1..n /\ Len(log') = n /\ \A i \in 1..n : log'[i] = log[i]
  <2>1. PrefixOf(log, n, log') BY <1>0, <1>a, <1>b, SubSeqIsPrefix DEF TypeInv
  <2> QED BY <2>1 DEF PrefixOf
<1>1. SUFFICES ASSUME Unscathed' PROVE PagesOK'
  BY <1>a DEF StartInv
<1>2. PagesOK BY <1>1, <1>a, WasUnscathed DEF StartInv
<1>3. ASSUME NEW p \in Heap PROVE PageOK(p)'
  <2>1. PICK d : d = disk[p] OBVIOUS
  <2>2. PICK m : m = mem[p] OBVIOUS
  <2>3. FileOK(p, d) BY <2>1, <1>2 DEF PagesOK, PageOK
  <2>4. d.lsn \in Nat /\ d.lsn <= durable /\ d.lsn <= n
    <3>1. d.lsn \in Nat /\ d.lsn <= durable BY <2>3 DEF FileOK, HeapImage
    <3> QED BY <3>1, <1>b
  <2>5. \A i : i \in DOMAIN log' <=> i \in DOMAIN log /\ i <= n BY <1>b, <1>c
  <2>6. \A i \in DOMAIN log' : log'[i] = log[i] BY <1>c
  <2>7. InsertsOn(p)' = {i \in InsertsOn(p) : i <= n}
    <3>1. InsertsOn(p)' = {i \in DOMAIN log' : log'[i].kind = "Insert" /\ log'[i].page = p} BY DEF InsertsOn
    <3> QED BY <3>1, <2>5, <2>6 DEF InsertsOn
  <2>8. DeletesOn(p)' = {i \in DeletesOn(p) : i <= n} /\ \A i \in DeletesOn(p)' : log'[i] = log[i]
    <3>1. DeletesOn(p)' = {i \in DOMAIN log' : log'[i].kind = "Delete" /\ log'[i].page = p} BY DEF DeletesOn
    <3> QED BY <3>1, <2>5, <2>6 DEF DeletesOn
  <2>9. InsertsOn(p) \subseteq Nat /\ DeletesOn(p) \subseteq Nat BY <1>0, <1>b, InsertsFinite
  <2>10. Rows(d) \subseteq InsertsOn(p)'
    <3>1. \A r \in Rows(d) : r \in InsertsOn(p) /\ r \in Nat /\ r <= d.lsn BY <2>3, <2>9 DEF FileOK
    <3>2. \A r \in Rows(d) : r <= n BY <3>1, <2>4, <1>b
    <3> QED BY <3>1, <3>2, <2>7
  <2>11. Redoable(p, d)' \subseteq Redoable(p, d) BY <2>7 DEF Redoable
  <2>12. FileOK(p, d)'
    <3>1. ASSUME NEW i \in DeletesOn(p)', i > d.lsn
          PROVE  log'[i].row \in Redoable(p, d)' /\ log'[i].row < i
      <4>1. i \in DeletesOn(p) /\ i \in Nat /\ i <= n /\ log'[i] = log[i] BY <2>8, <2>9
      <4>2. PICK r : r = log[i].row OBVIOUS
      <4>3. r \in Redoable(p, d) /\ r < i BY <3>1, <4>1, <4>2, <2>3 DEF FileOK
      <4>4. r \in InsertsOn(p) BY <4>3, <2>3, RedoableSubset
      <4>5. r \in Nat /\ r <= n BY <4>1, <4>3, <4>4, <2>9, <1>b
      <4>6. r \in InsertsOn(p)' BY <4>4, <4>5, <2>7
      <4>7. r \in Redoable(p, d)' BY <4>3, <4>6 DEF Redoable
      <4> QED BY <4>1, <4>2, <4>3, <4>7
    <3> QED BY <3>1, <2>3, <2>4, <2>10, <1>a, <1>c DEF FileOK
  <2>13. IsFiniteSet(Redoable(p, d)) /\ Cardinality(Redoable(p, d)) <= PageCap
    <3>0. IsFiniteSet(Redoable(p, d)) BY <2>3, <1>0, RedoableSubset, InsertsFinite, FS_Subset
    <3>1. CASE phase = "down" BY <3>0, <3>1, <2>1, <1>2 DEF PagesOK, PageOK
    <3>2. CASE phase # "down"
      <4>1. MemOK(p, m, d) BY <3>2, <2>1, <2>2, <1>2 DEF PagesOK, PageOK
      <4>2. Redoable(p, d) \subseteq Rows(m)
        <5>1. CASE phase \in {"undo", "pages"} BY <5>1, <2>1, <2>2, <1>2 DEF PagesOK, PageOK, Settled
        <5>2. CASE phase = "run"
          <6>1. ~VacuumPending(p) BY <5>2, <1>1, <1>a DEF Unscathed
          <6>2. ASSUME NEW r \in Redoable(p, d) PROVE r \in Rows(m)
            <7>1. r \in InsertsOn(p) /\ (r \in Rows(d) \/ r > d.lsn)
              BY <2>3, RedoableSubset DEF Redoable
            <7>2. r \in DOMAIN log /\ log[r].kind = "Insert" /\ log[r].page = p BY <7>1 DEF InsertsOn
            <7> QED BY <6>1, <7>1, <7>2, <2>1, <2>2 DEF VacuumPending, Rows
          <6> QED BY <6>2
        <5> QED BY <5>1, <5>2, <3>2, <1>2 DEF PagesOK
      <4>3. IsFiniteSet(Rows(m))
        <5>1. Rows(m) \subseteq InsertsOn(p) BY <4>1, <2>3, RedoableSubset DEF MemOK
        <5> QED BY <5>1, <1>0, InsertsFinite, FS_Subset
      <4> QED BY <4>1, <4>2, <4>3, FewerFit DEF MemOK
    <3> QED BY <3>1, <3>2
  <2>14. Cardinality(Redoable(p, d)') <= PageCap BY <2>11, <2>13, FewerFit
  <2>15. p \notin alloc => Rows(d) = {} BY <2>1, <1>2 DEF PagesOK, PageOK
  <2>16. disk'[p] = d /\ mem'[p] = d BY <2>1, <1>a
  <2>17. FileOK(p, disk[p])' BY <2>12, <2>16 DEF FileOK, Redoable
  <2>18. Cardinality(Redoable(p, disk[p]))' <= PageCap BY <2>14, <2>16 DEF Redoable
  <2>19. (p \notin alloc => Rows(mem[p]) = {} /\ Rows(disk[p]) = {})' BY <2>15, <2>16, <1>a
  <2> QED BY <2>17, <2>18, <2>19, <1>a DEF PageOK
<1>4. LinkOK' BY <1>2, <1>a DEF PagesOK, LinkOK, None
<1> QED BY <1>2, <1>3, <1>4, <1>a DEF PagesOK

-----------------------------------------------------------------------------
(* Redo.                                                                   *)

\* Redo skips no change of a row that the page in the file does not have.
AllRedone == \A p \in Heap : \A i \in InsertsOn(p) \cup DeletesOn(p) : ~(i < RedoStart /\ disk[p].lsn < i)

\* Page p after redo of the first k records.
RedonePage(k, p, img) ==
    /\ HeapImage(img) /\ img.next = disk[p].next
    /\ Rows(img) = Rows(disk[p]) \cup {i \in InsertsOn(p) : i > disk[p].lsn /\ i <= k}
    /\ img.lsn = disk[p].lsn \/ (disk[p].lsn < img.lsn /\ img.lsn <= k)
    /\ \A j \in InsertsOn(p) \cup DeletesOn(p) : j <= k => j <= img.lsn

RedoneRows(k, st) ==
    /\ RedoState(st) /\ st.fail = FALSE /\ alloc \subseteq st.alloc
    /\ \A p \in Heap : RedonePage(k, p, st.pages[p]) /\ (p \notin st.alloc => Rows(st.pages[p]) = {})

\* The server is down, and what redo will make of each page fits on it.
Startable ==
    /\ "Head" \in alloc
    /\ \A p \in Heap : /\ FileOK(p, disk[p]) /\ Cardinality(Redoable(p, disk[p])) <= PageCap
                       /\ p \notin alloc => Rows(disk[p]) = {}

\* A page that record k is not about, or that has it.
LEMMA RedoLeavesPage ==
  ASSUME TypeInv, NEW p \in Heap, NEW k \in DOMAIN log, NEW img, RedonePage(k - 1, p, img),
         FileOK(p, disk[p]),
         k \notin InsertsOn(p) \cup DeletesOn(p) \/ img.lsn >= k
  PROVE  RedonePage(k, p, img)
<1>1. PICK d : d = disk[p] OBVIOUS
<1>2. k \in Nat /\ k >= 1 BY LogIsSeq DEF TypeInv
<1>3. InsertsOn(p) \subseteq Nat /\ DeletesOn(p) \subseteq Nat BY InsertsFinite
<1>4. /\ HeapImage(img) /\ img.next = d.next
      /\ Rows(img) = Rows(d) \cup {i \in InsertsOn(p) : i > d.lsn /\ i <= k - 1}
      /\ img.lsn = d.lsn \/ (d.lsn < img.lsn /\ img.lsn <= k - 1)
      /\ \A j \in InsertsOn(p) \cup DeletesOn(p) : j <= k - 1 => j <= img.lsn
  BY <1>1 DEF RedonePage
<1>5. img.lsn \in Nat /\ d.lsn \in Nat BY <1>1, <1>4 DEF HeapImage, FileOK
<1>6. \A j \in InsertsOn(p) \cup DeletesOn(p) : j <= k => j <= img.lsn
  BY <1>2, <1>3, <1>4, <1>5
<1>7. \A i \in InsertsOn(p) : i > d.lsn /\ i <= k <=> i > d.lsn /\ i <= k - 1
  BY <1>2, <1>3, <1>4, <1>5
<1>8. {i \in InsertsOn(p) : i > d.lsn /\ i <= k} = {i \in InsertsOn(p) : i > d.lsn /\ i <= k - 1}
  BY <1>7
<1>9. img.lsn = d.lsn \/ (d.lsn < img.lsn /\ img.lsn <= k) BY <1>2, <1>4, <1>5
<1> QED BY <1>1, <1>4, <1>6, <1>8, <1>9 DEF RedonePage

\* The page gets the row, or the mark, of record k.
LEMMA RedoPutsRow ==
  ASSUME TypeInv, NEW p \in Heap, NEW k \in DOMAIN log, NEW img, RedonePage(k - 1, p, img),
         FileOK(p, disk[p]), ~(img.lsn >= k), NEW r, NEW x, NEW w, w = WithRow(img, r, x, k),
         \/ k \in InsertsOn(p) /\ r = k
         \/ k \in DeletesOn(p) /\ r \in Rows(img)
  PROVE  RedonePage(k, p, w)
<1>1. PICK d : d = disk[p] OBVIOUS
<1>2. k \in Nat /\ k >= 1 BY LogIsSeq DEF TypeInv
<1>3. InsertsOn(p) \subseteq Nat /\ DeletesOn(p) \subseteq Nat BY InsertsFinite
<1>4. /\ HeapImage(img) /\ img.next = d.next
      /\ Rows(img) = Rows(d) \cup {i \in InsertsOn(p) : i > d.lsn /\ i <= k - 1}
      /\ img.lsn = d.lsn \/ (d.lsn < img.lsn /\ img.lsn <= k - 1)
      /\ \A j \in InsertsOn(p) \cup DeletesOn(p) : j <= k - 1 => j <= img.lsn
  BY <1>1 DEF RedonePage
<1>5. img.lsn \in Nat /\ d.lsn \in Nat /\ d.lsn <= img.lsn /\ img.lsn < k
  <2>1. img.lsn \in Nat /\ d.lsn \in Nat BY <1>1, <1>4 DEF HeapImage, FileOK
  <2> QED BY <2>1, <1>2, <1>4
<1>6. HeapImage(w) /\ Rows(w) = Rows(img) \cup {r} /\ w.lsn = k /\ w.next = img.next
  BY <1>2, <1>4, WithRowImage
<1>7. d.lsn < w.lsn /\ w.lsn <= k BY <1>2, <1>5, <1>6
<1>8. \A j \in InsertsOn(p) \cup DeletesOn(p) : j <= k => j <= w.lsn BY <1>6
<1>9. Rows(w) = Rows(d) \cup {i \in InsertsOn(p) : i > d.lsn /\ i <= k}
  <2>1. CASE k \in InsertsOn(p) /\ r = k
    <3>1. \A i \in InsertsOn(p) : i > d.lsn /\ i <= k <=> (i > d.lsn /\ i <= k - 1) \/ i = k
      BY <1>2, <1>3, <1>5
    <3>2. {i \in InsertsOn(p) : i > d.lsn /\ i <= k} = {i \in InsertsOn(p) : i > d.lsn /\ i <= k - 1} \cup {k}
      BY <2>1, <3>1
    <3> QED BY <2>1, <3>2, <1>4, <1>6
  <2>2. CASE k \in DeletesOn(p) /\ r \in Rows(img)
    <3>1. k \notin InsertsOn(p) BY <2>2 DEF InsertsOn, DeletesOn
    <3>2. \A i \in InsertsOn(p) : i > d.lsn /\ i <= k <=> i > d.lsn /\ i <= k - 1
      BY <3>1, <1>2, <1>3, <1>5
    <3>3. {i \in InsertsOn(p) : i > d.lsn /\ i <= k} = {i \in InsertsOn(p) : i > d.lsn /\ i <= k - 1}
      BY <3>2
    <3> QED BY <2>2, <3>3, <1>4, <1>6
  <2> QED BY <2>1, <2>2
<1> QED BY <1>1, <1>4, <1>6, <1>7, <1>8, <1>9 DEF RedonePage

\* One page of the file is put, the others stay.
Put(st, p, x, st2) ==
    /\ st2.pages[p] = x /\ \A q \in Pages \ {p} : st2.pages[q] = st.pages[q]
    /\ st2.fail = st.fail /\ st.alloc \subseteq st2.alloc /\ st2.alloc \subseteq st.alloc \cup {p}

LEMMA RedoPuts ==
  ASSUME NEW st, RedoState(st), NEW p \in Pages, NEW x, NEW st2,
         \/ st2 = [st EXCEPT !.pages[p] = x]
         \/ st2 = [st EXCEPT !.pages[p] = x, !.alloc = @ \cup {p}]
  PROVE  Put(st, p, x, st2) /\ (st2 = [st EXCEPT !.pages[p] = x, !.alloc = @ \cup {p}] => p \in st2.alloc)
<1>1. DOMAIN st = {"pages", "alloc", "fail"} /\ DOMAIN st.pages = Pages
  BY DEF RedoState, PageFile
<1>2. PICK f : f = [st.pages EXCEPT ![p] = x] OBVIOUS
<1>3. f[p] = x /\ \A q \in Pages \ {p} : f[q] = st.pages[q] BY <1>1, <1>2
<1>4. CASE st2 = [st EXCEPT !.pages[p] = x]
  <2>1. st2.pages = f /\ st2.fail = st.fail /\ st2.alloc = st.alloc BY <1>1, <1>2, <1>4
  <2>2. st2 = [st EXCEPT !.pages[p] = x, !.alloc = @ \cup {p}] => p \in st2.alloc BY <1>1
  <2> QED BY <2>1, <2>2, <1>3 DEF Put
<1>5. CASE st2 = [st EXCEPT !.pages[p] = x, !.alloc = @ \cup {p}]
  <2>1. st2.pages = f /\ st2.fail = st.fail /\ st2.alloc = st.alloc \cup {p} BY <1>1, <1>2, <1>5
  <2> QED BY <2>1, <1>3 DEF Put
<1> QED BY <1>4, <1>5

\* Record k goes through: an Insert finds room, a Delete its row.
LEMMA RedoOfRows ==
  ASSUME TypeInv, AllRedone, Startable, NEW k \in DOMAIN log, NEW st, RedoneRows(k - 1, st)
  PROVE  RedoneRows(k, RedoRecord(st, k))
<1> DEFINE rec == log[k]
<1>1. k \in Nat /\ k >= 1 /\ RecordOK(rec) BY LogIsSeq DEF TypeInv
<1>2. RedoState(st) /\ st.fail = FALSE /\ alloc \subseteq st.alloc BY DEF RedoneRows
<1>3. PICK st2 : st2 = RedoRecord(st, k) OBVIOUS
<1>4. RedoState(st2) BY <1>2, <1>3, RedoRecordShape
<1>5. \A p \in Heap : FileOK(p, disk[p]) BY DEF Startable
<1>6. \A p \in Heap : /\ RedonePage(k - 1, p, st.pages[p])
                      /\ k \notin InsertsOn(p) \cup DeletesOn(p) => RedonePage(k, p, st.pages[p])
  BY <1>5, RedoLeavesPage DEF RedoneRows
<1>7. Heap \subseteq Pages /\ "Seq" \in Pages \ Heap BY DEF Pages, Heap
<1>8. CASE rec.kind \notin Changes
  <2>1. \A p \in Heap : k \notin InsertsOn(p) \cup DeletesOn(p) BY <1>8 DEF InsertsOn, DeletesOn, Changes
  <2>2. \/ st2 = st
        \/ \E x : Put(st, "Seq", x, st2)
    <3>1. CASE rec.kind # "SeqAdvance"
      <4>1. ~ChangesPage(rec) BY <1>8, <3>1 DEF ChangesPage, Changes
      <4> QED BY <4>1, <1>3 DEF RedoRecord
    <3>2. CASE rec.kind = "SeqAdvance"
      <4> DEFINE x == [lsn |-> k, last |-> rec.val, cnt |-> 0, called |-> TRUE]
      <4>1. st2 = st \/ st2 = [st EXCEPT !.pages["Seq"] = x]
        BY <3>2, <1>3 DEF RedoRecord, PageOf
      <4> HIDE DEF x
      <4>2. st2 = [st EXCEPT !.pages["Seq"] = x] => Put(st, "Seq", x, st2) BY <1>2, <1>7, RedoPuts
      <4> QED BY <4>1, <4>2
    <3> QED BY <3>1, <3>2
  <2>3. st2.fail = FALSE /\ st.alloc \subseteq st2.alloc /\ \A p \in Heap : st2.pages[p] = st.pages[p]
    BY <2>2, <1>2, <1>7 DEF Put
  <2> QED BY <2>1, <2>3, <1>2, <1>3, <1>4, <1>6 DEF RedoneRows
<1>9. CASE rec.kind \in Changes
  <2>1. PICK p \in Heap : p = rec.page BY <1>1, <1>9 DEF RecordOK
  <2>2. ChangesPage(rec) /\ PageOf(rec) = p BY <1>9, <2>1 DEF ChangesPage, PageOf, Changes
  <2>3. \A q \in Heap \ {p} : k \notin InsertsOn(q) \cup DeletesOn(q) BY <2>1 DEF InsertsOn, DeletesOn
  <2>4. k \in InsertsOn(p) \cup DeletesOn(p) BY <1>9, <2>1 DEF InsertsOn, DeletesOn, Changes
  <2>5. PICK img : img = st.pages[p] OBVIOUS
  <2>6. PICK d : d = disk[p] OBVIOUS
  <2>7. RedonePage(k - 1, p, img) /\ FileOK(p, d) BY <1>5, <1>6, <2>5, <2>6
  <2>8. /\ HeapImage(img) /\ HeapImage(d)
        /\ Rows(img) = Rows(d) \cup {i \in InsertsOn(p) : i > d.lsn /\ i <= k - 1}
        /\ img.lsn = d.lsn \/ (d.lsn < img.lsn /\ img.lsn <= k - 1)
    BY <2>6, <2>7 DEF RedonePage, FileOK
  <2>9. img.lsn \in Nat /\ d.lsn \in Nat BY <2>8 DEF HeapImage
  <2>10. CASE img.lsn >= k \/ k < RedoStart
    <3>1. img.lsn >= k
      <4>1. k < RedoStart => ~(d.lsn < k) BY <2>4, <2>6 DEF AllRedone
      <4> QED BY <4>1, <2>8, <2>9, <2>10, <1>1
    <3>2. st2 = st
      <4>1. Applied(img, k) BY <3>1 DEF Applied
      <4> QED BY <4>1, <2>2, <2>5, <1>3 DEF RedoRecord
    <3>3. RedonePage(k, p, st.pages[p])
      <4>1. RedonePage(k, p, img) BY <3>1, <2>6, <2>7, RedoLeavesPage
      <4> QED BY <4>1, <2>5
    <3>4. \A q \in Heap : RedonePage(k, q, st.pages[q]) BY <3>3, <2>3, <1>6
    <3>5. \A q \in Heap : q \notin st.alloc => Rows(st.pages[q]) = {} BY DEF RedoneRows
    <3>6. RedoneRows(k, st) BY <3>4, <3>5, <1>2 DEF RedoneRows
    <3> QED BY <3>2, <3>6, <1>3
  <2>11. CASE ~(img.lsn >= k) /\ ~(k < RedoStart)
    <3>0. ~Applied(img, k) /\ k > d.lsn
      <4>1. ~Applied(img, k) BY <2>11 DEF Applied
      <4> QED BY <4>1, <2>8, <2>9, <2>11, <1>1
    <3>1. ASSUME NEW w, RedonePage(k, p, w), Put(st, p, w, st2), p \in st2.alloc
          PROVE  RedoneRows(k, st2)
      <4>1. \A q \in Heap : RedonePage(k, q, st2.pages[q])
        <5> TAKE q \in Heap
        <5>1. CASE q = p BY <3>1, <5>1 DEF Put
        <5>2. CASE q # p BY <3>1, <5>2, <1>6, <1>7, <2>3 DEF Put
        <5> QED BY <5>1, <5>2
      <4>2. \A q \in Heap : q \notin st2.alloc => Rows(st2.pages[q]) = {}
        <5> SUFFICES ASSUME NEW q \in Heap, q \notin st2.alloc PROVE Rows(st2.pages[q]) = {} OBVIOUS
        <5>1. q # p /\ q \notin st.alloc /\ st2.pages[q] = st.pages[q] BY <3>1, <1>7 DEF Put
        <5> QED BY <5>1 DEF RedoneRows
      <4> QED BY <4>1, <4>2, <3>1, <1>2, <1>4 DEF RedoneRows, Put
    <3>2. Rows(img) \subseteq Redoable(p, d) BY <2>8 DEF Redoable
    <3>3. /\ IsFiniteSet(Redoable(p, d)) /\ Cardinality(Redoable(p, d)) <= PageCap
          /\ InsertsOn(p) \subseteq Nat /\ Redoable(p, d) \subseteq InsertsOn(p)
      <4>1. Redoable(p, d) \subseteq InsertsOn(p) BY <2>7, RedoableSubset
      <4>2. IsFiniteSet(InsertsOn(p)) /\ InsertsOn(p) \subseteq Nat BY InsertsFinite
      <4>3. Cardinality(Redoable(p, d)) <= PageCap BY <2>6 DEF Startable
      <4> QED BY <4>1, <4>2, <4>3, FS_Subset
    <3>4. CASE rec.kind = "Insert"
      <4>1. k \in InsertsOn(p) BY <3>4, <2>1 DEF InsertsOn
      <4>2. k \in Redoable(p, d) BY <4>1, <3>0 DEF Redoable
      <4>3. k \notin Rows(img)
        <5>1. \A r \in Rows(d) : r <= d.lsn BY <2>7 DEF FileOK
        <5>2. k \notin Rows(d) BY <5>1, <3>0, <2>9, <1>1
        <5>3. ~(k <= k - 1) BY <1>1
        <5> QED BY <5>2, <5>3, <2>8
      <4>4. ~Full(img)
        <5>1. PICK S : S = Rows(img) OBVIOUS
        <5>2. IsFiniteSet(S \cup {k}) /\ Cardinality(S \cup {k}) <= PageCap
          <6>1. S \cup {k} \subseteq Redoable(p, d) BY <3>2, <4>2, <5>1
          <6> QED BY <6>1, <3>3, FewerFit
        <5>3. IsFiniteSet(S) BY <5>2, FS_Subset
        <5>4. Cardinality(S \cup {k}) = Cardinality(S) + 1 /\ Cardinality(S) \in Nat
          BY <5>1, <5>3, <4>3, FS_AddElement, FS_CardinalityType
        <5>5. PageCap \in Nat BY RecoveryAssumption
        <5>6. ~(Cardinality(S) >= PageCap) BY <5>2, <5>4, <5>5
        <5> QED BY <5>1, <5>6 DEF Full, Rows
      <4>5. PICK w : w = WithRow(img, k, 0, k) OBVIOUS
      <4>6. st2 = [st EXCEPT !.pages[p] = w, !.alloc = @ \cup {p}]
        BY <3>0, <3>4, <4>4, <4>5, <2>2, <2>5, <2>11, <1>2, <1>3 DEF RedoRecord
      <4>7. Put(st, p, w, st2) /\ p \in st2.alloc BY <4>6, <1>2, <1>7, RedoPuts
      <4>8. RedonePage(k, p, w) BY <4>1, <4>5, <2>6, <2>7, <2>11, RedoPutsRow
      <4>9. RedoneRows(k, st2) BY <4>7, <4>8, <3>1
      <4> QED BY <4>9, <1>3
    <3>5. CASE rec.kind = "Delete"
      <4>1. k \in DeletesOn(p) BY <3>5, <2>1 DEF DeletesOn
      <4>2. PICK r : r = rec.row OBVIOUS
      <4>3. r \in Redoable(p, d) /\ r < k BY <4>1, <4>2, <3>0, <2>7 DEF FileOK
      <4>4. r \in Nat /\ r <= k - 1 BY <4>3, <3>3, <1>1
      <4>5. r \in Rows(img) BY <4>3, <4>4, <2>8 DEF Redoable
      <4>6. p \in st.alloc BY <4>5, <2>5 DEF RedoneRows
      <4>7. PICK w : w = WithRow(img, r, rec.txn, k) OBVIOUS
      <4>8. st2 = [st EXCEPT !.pages[p] = w]
        BY <3>0, <3>5, <4>2, <4>5, <4>6, <4>7, <2>2, <2>5, <2>11, <1>2, <1>3 DEF RedoRecord, Rows
      <4>9. Put(st, p, w, st2) BY <4>8, <1>2, <1>7, RedoPuts
      <4>10. p \in st2.alloc BY <4>6, <4>9 DEF Put
      <4>11. RedonePage(k, p, w) BY <4>1, <4>5, <4>7, <2>6, <2>7, <2>11, RedoPutsRow
      <4>12. RedoneRows(k, st2) BY <4>9, <4>10, <4>11, <3>1
      <4> QED BY <4>12, <1>3
    <3> QED BY <3>4, <3>5, <1>9 DEF Changes
  <2> QED BY <2>10, <2>11
<1> QED BY <1>8, <1>9

LEMMA RedoneAllRows ==
  ASSUME TypeInv, AllRedone, Startable
  PROVE  RedoneRows(Len(log), Redone)
<1>1. Len(log) \in Nat /\ DOMAIN log = 1..Len(log)
  BY LogIsSeq DEF TypeInv
<1>2. PICK g : IsRun(g, Len(log)) /\ Redone = g[Len(log)]
  BY <1>1, RedoneIsARun
<1> DEFINE Gaps == {k \in 0..Len(log) : ~RedoneRows(k, g[k])}
<1>3. SUFFICES ASSUME Gaps # {} PROVE FALSE
  BY <1>1, <1>2
<1>4. PICK k \in Gaps : \A j \in Gaps : k <= j
  <2>1. Gaps \subseteq Nat BY <1>1
  <2> HIDE DEF Gaps
  <2> QED BY <1>3, <2>1, LeastExists
<1>5. k \in 0..Len(log) /\ ~RedoneRows(k, g[k])
  OBVIOUS
<1>6. g[k] = IF k = 0 THEN Seed ELSE RedoRecord(g[k - 1], k)
  BY <1>2, <1>5, Zenon DEF IsRun
<1>7. CASE k = 0
  <2>1. RedoState(Seed) BY DEF RedoState, Seed, TypeInv
  <2>2. Seed.fail = FALSE /\ Seed.alloc = alloc /\ Seed.pages = disk BY DEF Seed
  <2>3. ASSUME NEW p \in Heap PROVE RedonePage(0, p, disk[p]) /\ (p \notin alloc => Rows(disk[p]) = {})
    <3>1. FileOK(p, disk[p]) /\ (p \notin alloc => Rows(disk[p]) = {}) BY DEF Startable
    <3>2. \A j \in InsertsOn(p) \cup DeletesOn(p) : ~(j <= 0) BY <1>1 DEF InsertsOn, DeletesOn
    <3> QED BY <3>1, <3>2 DEF RedonePage, FileOK
  <2>4. RedoneRows(0, Seed) BY <2>1, <2>2, <2>3 DEF RedoneRows
  <2> QED BY <1>5, <1>6, <1>7, <2>4
<1>8. CASE k # 0
  <2>1. k \in DOMAIN log /\ k - 1 \in 0..Len(log) /\ ~(k <= k - 1)
    BY <1>1, <1>5, <1>8
  <2>2. k - 1 \notin Gaps
    BY <2>1, <1>4
  <2>3. RedoneRows(k - 1, g[k - 1])
    BY <2>1, <2>2
  <2>4. RedoneRows(k, RedoRecord(g[k - 1], k))
    BY <2>1, <2>3, RedoOfRows
  <2> QED BY <1>5, <1>6, <1>8, <2>4
<1> QED BY <1>7, <1>8

\* Redo goes through, and leaves all the rows it makes of the file and the log.
LEMMA RestartKeepsStart ==
  ASSUME IInv, StartInv, Restart
  PROVE  StartInv'
<1>0. TypeInv /\ DownIsQuiet BY DEF IInv
<1>a. /\ phase = "down" /\ phase' = (IF Redone.fail THEN "failed" ELSE "undo") /\ mem' = Redone.pages
      /\ alloc' = Redone.alloc /\ lost' = lost \cup Dropped(Redone.pages)
      /\ log' = (IF Redone.fail THEN log ELSE log \o UndoRecords)
      /\ durable' = durable /\ disk' = disk /\ held' = held /\ exposed' = exposed
  BY DEF Restart
<1>b. durable = Len(log) /\ Len(log) \in Nat /\ DOMAIN log = 1..Len(log)
  BY <1>0, <1>a, LogIsSeq DEF DownIsQuiet, TypeInv
<1>1. SUFFICES ASSUME Unscathed' PROVE PagesOK'
  BY <1>a DEF StartInv
<1>2. PagesOK BY <1>1, <1>a, WasUnscathed DEF StartInv
<1>3. AllRedone
  <2> SUFFICES ASSUME NEW p \in Heap, NEW i \in InsertsOn(p) \cup DeletesOn(p), i < RedoStart, disk[p].lsn < i
               PROVE  FALSE
    BY DEF AllRedone
  <2>1. i \in DOMAIN log /\ ChangesPage(log[i]) /\ PageOf(log[i]) = p
    BY DEF InsertsOn, DeletesOn, ChangesPage, PageOf
  <2>2. i \in Dropped(Redone.pages) BY <2>1 DEF Dropped
  <2> QED BY <2>2, <1>1, <1>a DEF Unscathed
<1>4. Startable BY <1>2, <1>a DEF Startable, PagesOK, PageOK
<1>5. RedoneRows(Len(log), Redone) BY <1>0, <1>3, <1>4, RedoneAllRows
<1>6. Redone.fail = FALSE /\ alloc \subseteq alloc' /\ phase' = "undo" /\ log' = log \o UndoRecords
  BY <1>5, <1>a DEF RedoneRows
<1>7. /\ IsSeq(log') /\ DOMAIN log \subseteq DOMAIN log'
      /\ \A i \in DOMAIN log : log'[i] = log[i]
      /\ \A i \in DOMAIN log' \ DOMAIN log : log'[i].kind = "Abort"
  <2>1. IsSeq(UndoRecords) /\ \A i \in DOMAIN UndoRecords : UndoRecords[i].kind = "Abort" BY <1>0, UndoIsAborts
  <2>2. Joined(log, UndoRecords, log') BY <1>0, <1>6, <2>1, ConcatJoins DEF TypeInv
  <2> QED BY <2>1, <2>2 DEF Joined
<1>8. StillDurable BY <1>a, <1>b, <1>7 DEF StillDurable
<1>9. ASSUME NEW p \in Heap PROVE PageOK(p)' /\ mem'[p].next = disk[p].next
  <2>1. PICK d : d = disk[p] OBVIOUS
  <2>2. PICK m : m = Redone.pages[p] OBVIOUS
  <2>3. FileOK(p, d) /\ Cardinality(Redoable(p, d)) <= PageCap BY <2>1, <1>4 DEF Startable
  <2>4. RedonePage(Len(log), p, m) /\ (p \notin alloc' => Rows(m) = {}) BY <2>2, <1>5, <1>a DEF RedoneRows
  <2>5. /\ HeapImage(m) /\ m.next = d.next
        /\ Rows(m) = Rows(d) \cup {i \in InsertsOn(p) : i > d.lsn /\ i <= Len(log)}
        /\ m.lsn = d.lsn \/ (d.lsn < m.lsn /\ m.lsn <= Len(log))
        /\ \A j \in InsertsOn(p) \cup DeletesOn(p) : j <= Len(log) => j <= m.lsn
    BY <2>1, <2>4 DEF RedonePage
  <2>6. \A j \in InsertsOn(p) \cup DeletesOn(p) : j <= Len(log)
    BY <1>b DEF InsertsOn, DeletesOn
  <2>7. Rows(m) = Redoable(p, d) /\ \A j \in InsertsOn(p) \cup DeletesOn(p) : j <= m.lsn
    BY <2>5, <2>6 DEF Redoable
  <2>8. m.lsn \in Nat /\ m.lsn <= Len(log)
    <3>1. m.lsn \in Nat BY <2>5 DEF HeapImage
    <3>2. d.lsn <= Len(log) BY <2>3 DEF FileOK
    <3> QED BY <3>1, <3>2, <2>5
  <2>9. SameOn(p) BY <1>0, <1>7, RecordsAside DEF Changes
  <2>10. FileOK(p, d)' /\ Redoable(p, d)' = Redoable(p, d) BY <2>3, <2>9, <1>0, <1>8, FileKept
  <2>11. Len(log') \in Nat /\ Len(log) <= Len(log') BY <2>9 DEF SameOn
  <2>12. MemOK(p, m, d)'
    <3>1. m.lsn <= Len(log') BY <2>8, <2>11, <1>b
    <3>2. Cardinality(Rows(m)) <= PageCap BY <2>3, <2>7
    <3> QED BY <3>1, <3>2, <2>5, <2>7, <2>9, <2>10 DEF MemOK, SameOn
  <2>13. Settled(p, m, d)'
    <3>1. m.lsn <= durable' BY <2>8, <1>a, <1>b
    <3> QED BY <3>1, <2>7, <2>10 DEF Settled
  <2>14. p \notin alloc' => Rows(m) = {} /\ Rows(d) = {}
    BY <2>1, <2>4, <1>4, <1>6 DEF Startable
  <2>15. disk'[p] = d /\ mem'[p] = m BY <2>1, <2>2, <1>a
  <2>16. FileOK(p, disk[p])' BY <2>10, <2>15 DEF FileOK, Redoable
  <2>17. MemOK(p, mem[p], disk[p])' BY <2>12, <2>15 DEF MemOK, Redoable
  <2>18. Settled(p, mem[p], disk[p])' BY <2>13, <2>15 DEF Settled, Redoable
  <2>19. (p \notin alloc => Rows(mem[p]) = {} /\ Rows(disk[p]) = {})' BY <2>14, <2>15
  <2>20. PageOK(p)' BY <2>16, <2>17, <2>18, <2>19, <1>6 DEF PageOK
  <2> QED BY <2>1, <2>5, <2>15, <2>20
<1>10. LinkOK'
  <2>1. mem'["Head"].next = disk["Head"].next BY <1>9 DEF Heap
  <2> QED BY <2>1, <1>2, <1>6, <1>a DEF PagesOK, LinkOK
<1> QED BY <1>2, <1>6, <1>9, <1>10 DEF PagesOK

-----------------------------------------------------------------------------
(* The theorem about start-up.                                             *)

LEMMA InitStartInv ==
  ASSUME Init
  PROVE  StartInv
<1>1. /\ log = <<>> /\ durable = 0 /\ phase = "run" /\ alloc = {"Head", "Seq"}
      /\ held = [t \in Ids |-> None]
      /\ \A p \in Heap : mem[p] = EmptyHeap /\ disk[p] = EmptyHeap
  BY DEF Init, FreshFile, Pages, Heap
<1>2. PICK e : e = EmptyHeap OBVIOUS
<1>3. HeapImage(e) /\ Rows(e) = {} /\ e.lsn = 0 /\ e.next = None
  BY <1>2 DEF EmptyHeap, HeapImage, Rows
<1>4. ASSUME NEW p \in Heap PROVE PageOK(p)
  <2>1. InsertsOn(p) = {} /\ DeletesOn(p) = {} /\ Len(log) = 0 BY <1>1 DEF InsertsOn, DeletesOn
  <2>2. FileOK(p, e) BY <2>1, <1>1, <1>3 DEF FileOK
  <2>3. MemOK(p, e, e)
    <3>1. Cardinality(Rows(e)) <= PageCap BY <1>3, FS_EmptySet, RecoveryAssumption
    <3> QED BY <2>1, <3>1, <1>3 DEF MemOK
  <2> QED BY <2>2, <2>3, <1>1, <1>2, <1>3 DEF PageOK
<1>5. LinkOK
  <2>1. mem["Head"].next = None /\ disk["Head"].next = None BY <1>1, <1>2, <1>3 DEF Heap
  <2> QED BY <2>1, <1>1 DEF LinkOK, None
<1> QED BY <1>1, <1>4, <1>5 DEF StartInv, PagesOK

LEMMA StepKeepsStart ==
  ASSUME IInv, StartInv, [Next]_vars
  PROVE  StartInv'
<1>0. TypeInv
  BY DEF IInv
<1>1. ASSUME NEW t \in Ids, \/ \E m \in {"rw", "ro", "vac"} : Start(t, m)
                            \/ \E k \in {"Commit", "Abort"} : LogEnd(t, k)
                            \/ FlushEnd(t) \/ Decide(t)
                            \/ \E s \in {"Committed", "Aborted"} : EndReader(t, s)
                            \/ Release(t)
      PROVE  StartInv'
  BY <1>0, <1>1, TransactionStandsBy, BystanderKept
<1>2. ASSUME NEW t \in Ids, InsertRow(t) \/ InsertFresh(t) PROVE StartInv'
  BY <1>2, InsertKeepsStart
<1>3. ASSUME NEW t \in Ids, NEW p \in Heap, NEW r \in 1..MaxLsn, DeleteRow(t, p, r) PROVE StartInv'
  BY <1>3, DeleteKeepsStart
<1>4. ASSUME NEW t \in Ids, NEW p \in Heap, VacuumPage(t, p) PROVE StartInv'
  BY <1>4, VacuumKeepsStart
<1>5. ASSUME NEW t \in Ids, Link(t) PROVE StartInv'
  BY <1>5, LinkKeepsStart
<1>6. ASSUME NEW t \in Ids, NextVal(t) \/ \E c \in BOOLEAN : SetVal(t, c) PROVE StartInv'
  BY <1>0, <1>6, SequenceStandsBy, BystanderKept
<1>7. ASSUME NEW p \in Pages, WritePage(p) PROVE StartInv'
  BY <1>7, WriteKeepsStart
<1>8. CASE \/ CkptClog \/ CkptTables \/ CkptRecord \/ CkptFlush \/ MetaTruncate \/ MetaWrite \/ RecoverClog
           \/ UNCHANGED vars
  BY <1>0, <1>8, CheckpointStandsBy, BystanderKept
<1>9. ASSUME NEW n \in durable..Len(log), Kill(n) PROVE StartInv'
  BY <1>9, KillKeepsStart
<1>10. CASE Restart
  BY <1>10, RestartKeepsStart
<1>11. CASE RecoverPages
  BY <1>11, RecoverPagesKeepsStart
<1>12. CASE Next
  BY <1>1, <1>2, <1>3, <1>4, <1>5, <1>6, <1>7, <1>8, <1>9, <1>10, <1>11, <1>12 DEF Next
<1> QED BY <1>8, <1>12

\* As long as no kill left a compaction by VACUUM behind and redo skipped nothing, the file and the
\* log fit together in every reachable state: what redo_insert will add to a page has room on it, and
\* what redo_set_xmax will mark is there (recovery.rs), also when a kill interrupts start-up.
THEOREM StartInvariance == Spec => []StartInv
<1>1. Init => StartInv
  BY InitStartInv
<1>2. IInv /\ StartInv /\ [Next]_vars => StartInv'
  BY StepKeepsStart
<1> QED BY <1>1, <1>2, Invariance, PTL DEF Spec

\* Redo meets a full page or a missing slot, and the server does not come up, only when VACUUM had
\* compacted a page that was not written before the kill, or when start-up has dropped a record:
\* with neither, recovery goes through from any state a kill leaves, however large pages are.
THEOREM StartupGetsThrough == Spec => []StartupFailsOnlyIf
<1>1. StartInv => StartupFailsOnlyIf
  BY DEF StartInv, PagesOK, Unscathed, StartupFailsOnlyIf
<1> QED BY <1>1, StartInvariance, PTL

-----------------------------------------------------------------------------
(* What was acknowledged survives.  First who has ended, and how.          *)

\* Start-up has seeded the commit log, or the server runs.
Serving == phase \in {"run", "undo", "pages"}

\* An id never handed out and a transaction at work have no status yet.
OpenStatus ==
    \A t \in Ids \ reused : /\ t \notin issued => clog[t] = "InProgress" /\ clogDisk[t] = "InProgress"
                            /\ t \in att => clog[t] = "InProgress"

\* A transaction with its Commit in the log is on its way to being committed.
CommitsForward == \A t \in att \ reused : CommitLogged(t) => stage[t] \in {"Commit", "Committed"}

\* The flush at the end of a transaction made all of its changes durable.
EndFlushed ==
    \A t \in att : stage[t] \in {"Committed", "Aborted"} =>
        \A i \in DOMAIN log : log[i].kind \in Changes /\ log[i].txn = t => i <= durable

\* Whose Commit is in the log counts as committed once it is no longer at work.
Recorded == Serving => \A t \in Ids \ (reused \cup att) : CommitLogged(t) => clog[t] = "Committed"

\* An acknowledged change is in the durable part of the log, and so is its Commit.
Promise(i) ==
    /\ i \in DOMAIN log /\ i <= durable /\ log[i].kind \in Changes
    /\ log[i].txn \notin reused => log[i].txn \notin att /\ CommitDurable(log[i].txn)
PromisesKept == \A i \in promised : Promise(i)

EndInv == OpenStatus /\ CommitsForward /\ EndFlushed /\ Recorded /\ PromisesKept

LEMMA PlainKeepsEnds ==
  ASSUME IInv, EndInv, NEW K, NEW u, Plain(K, u), promised' = promised, Serving' => Serving,
         K \cap Changes # {} => stage[u] = "open"
  PROVE  EndInv'
<1> USE DEF EndInv
<1>0. TypeInv BY DEF IInv
<1>a. /\ Extended(K, u) /\ StillDurable
      /\ clog' = clog /\ mode' = mode /\ stage' = stage /\ att' = att /\ issued' = issued /\ reused' = reused
      /\ clogDisk' \in {clogDisk, clog} /\ "Commit" \notin K
  BY DEF Plain
<1>b. \A t : CommitLogged(t)' => CommitLogged(t)
  BY <1>a DEF CommitLogged, Extended
<1>1. OpenStatus'
  BY <1>a DEF OpenStatus
<1>2. CommitsForward'
  BY <1>a, <1>b DEF CommitsForward
<1>3. EndFlushed'
  <2> SUFFICES ASSUME NEW t \in att, stage[t] \in {"Committed", "Aborted"},
                      NEW i \in DOMAIN log', log'[i].kind \in Changes, log'[i].txn = t
               PROVE  i <= durable'
    BY <1>a DEF EndFlushed
  <2>1. i \in DOMAIN log /\ log'[i] = log[i] BY <1>a DEF Extended
  <2>2. i <= durable BY <2>1 DEF EndFlushed
  <2> QED BY <2>1, <2>2, <1>a DEF StillDurable
<1>4. Recorded'
  BY <1>a, <1>b DEF Recorded
<1>5. PromisesKept'
  <2> SUFFICES ASSUME NEW i \in promised PROVE Promise(i)'
    BY <1>a DEF PromisesKept
  <2>1. PICK t : t = log[i].txn OBVIOUS
  <2>2. /\ i \in DOMAIN log /\ i <= durable /\ log[i].kind \in Changes
        /\ t \notin reused => t \notin att /\ CommitDurable(t)
    BY <2>1 DEF PromisesKept, Promise
  <2>3. i \in DOMAIN log' /\ log'[i] = log[i] BY <2>2, <1>a DEF Extended
  <2>4. CommitDurable(t) => CommitDurable(t)' BY <1>a, LogFacts
  <2>5. t \notin reused => t \notin att /\ CommitDurable(t)' BY <2>2, <2>4
  <2>6. t = log'[i].txn BY <2>1, <2>3
  <2>7. (log[i].txn \notin reused => log[i].txn \notin att /\ CommitDurable(log[i].txn))'
    BY <2>5, <2>6, <1>a DEF CommitDurable
  <2> QED BY <2>2, <2>3, <2>7, <1>a DEF StillDurable, Promise
<1> QED BY <1>1, <1>2, <1>3, <1>4, <1>5

\* Promises are not broken by a step that ends or starts a transaction.
LEMMA PromisesCarried ==
  ASSUME TypeInv, PromisesKept, StillDurable, DOMAIN log \subseteq DOMAIN log', \A i \in DOMAIN log : log'[i] = log[i],
         reused \subseteq reused',
         \A i \in promised' \ promised :
             /\ i \in DOMAIN log /\ i <= durable /\ log[i].kind \in Changes
             /\ log[i].txn \notin reused' => log[i].txn \notin att' /\ CommitDurable(log[i].txn),
         \A t \in issued : t \notin att /\ t \notin reused' => t \notin att'
  PROVE  PromisesKept'
<1> SUFFICES ASSUME NEW i \in promised' PROVE Promise(i)'
  BY DEF PromisesKept
<1>1. PICK t : t = log[i].txn OBVIOUS
<1>2. i \in DOMAIN log /\ i <= durable /\ log[i].kind \in Changes
  BY DEF PromisesKept, Promise
<1>3. t \in issued
  BY <1>1, <1>2 DEF TypeInv, RecordOK
<1>4. t \notin reused' => t \notin att' /\ CommitDurable(t)
  BY <1>1, <1>3 DEF PromisesKept, Promise
<1>5. CommitDurable(t) => CommitDurable(t)'
  BY DEF CommitDurable, StillDurable
<1>6. t = log'[i].txn BY <1>1, <1>2
<1>7. t \notin reused' => t \notin att' /\ CommitDurable(t)' BY <1>4, <1>5
<1>8. (log[i].txn \notin reused => log[i].txn \notin att /\ CommitDurable(log[i].txn))'
  BY <1>6, <1>7 DEF CommitDurable
<1> QED BY <1>2, <1>8 DEF StillDurable, Promise

LEMMA StartKeepsEnds ==
  ASSUME IInv, EndInv, NEW t \in Ids, NEW m \in {"rw", "ro", "vac"}, Start(t, m)
  PROVE  EndInv'
<1> USE DEF EndInv
<1>0. TypeInv BY DEF IInv
<1>a. /\ phase = "run" /\ phase' = phase
      /\ att' = att \cup {t} /\ issued' = issued \cup {t}
      /\ stage' = [stage EXCEPT ![t] = "open"]
      /\ reused' = IF t \in issued THEN reused \cup {t} ELSE reused
      /\ durable' = durable /\ clog' = clog /\ clogDisk' = clogDisk /\ promised' = promised
  BY DEF Start, Up, store, system
<1>b. IF m = "ro" THEN log' = log ELSE log' = Append(log, [kind |-> "Begin", txn |-> t])
  BY DEF Start
<1>c. Extended({"Begin"}, t)
  <2>1. CASE m = "ro"
    BY <1>0, <2>1, <1>b, SameExtends DEF TypeInv
  <2>2. CASE m # "ro"
    <3> DEFINE r == [kind |-> "Begin", txn |-> t]
    <3>1. r.kind = "Begin" /\ r.txn = t OBVIOUS
    <3>2. log' = Append(log, r) BY <2>2, <1>b
    <3> HIDE DEF r
    <3>3. (r.kind \in Changes => r.page \in Heap) BY <3>1 DEF Changes
    <3>4. Extended({r.kind}, r.txn) BY <1>0, <3>2, <3>3, AppendExtends DEF TypeInv
    <3> QED BY <3>1, <3>4
  <2> QED BY <2>1, <2>2
<1>d. StillDurable
  BY <1>0, <1>a, DurableSame
<1>e. \A u : CommitLogged(u)' => CommitLogged(u)
  BY <1>c DEF CommitLogged, Extended
<1>f. t \notin issued => ~CommitLogged(t)
  BY <1>0 DEF CommitLogged, TypeInv, RecordOK
<1>g. reused \subseteq reused' /\ (t \in issued => t \in reused') BY <1>a
<1>h. \A u \in Ids : u # t => stage'[u] = stage[u]
  BY <1>0, <1>a DEF TypeInv
<1>i. stage'[t] = "open" BY <1>0, <1>a DEF TypeInv
<1>1. OpenStatus'
  BY <1>a, <1>g DEF OpenStatus
<1>2. CommitsForward'
  <2> SUFFICES ASSUME NEW u \in att' \ reused', CommitLogged(u)' PROVE stage'[u] \in {"Commit", "Committed"}
    BY DEF CommitsForward
  <2>1. CommitLogged(u) BY <1>e
  <2>2. u # t BY <2>1, <1>f, <1>g
  <2>3. u \in att \ reused /\ u \in Ids BY <2>2, <1>0, <1>a, <1>g DEF TypeInv
  <2> QED BY <2>1, <2>2, <2>3, <1>h DEF CommitsForward
<1>3. EndFlushed'
  <2> SUFFICES ASSUME NEW u \in att', stage'[u] \in {"Committed", "Aborted"},
                      NEW i \in DOMAIN log', log'[i].kind \in Changes, log'[i].txn = u
               PROVE  i <= durable'
    BY DEF EndFlushed
  <2>1. u # t BY <1>i
  <2>2. u \in att /\ u \in Ids BY <2>1, <1>0, <1>a DEF TypeInv
  <2>3. stage[u] \in {"Committed", "Aborted"} BY <2>1, <2>2, <1>h
  <2>4. i \in DOMAIN log /\ log'[i] = log[i] BY <1>c DEF Extended, Changes
  <2> QED BY <2>2, <2>3, <2>4, <1>a DEF EndFlushed
<1>4. Recorded'
  BY <1>a, <1>e, <1>g DEF Recorded, Serving
<1>5. PromisesKept'
  BY <1>0, <1>a, <1>c, <1>d, <1>g, PromisesCarried DEF Extended
<1> QED BY <1>1, <1>2, <1>3, <1>4, <1>5

LEMMA LogEndKeepsEnds ==
  ASSUME IInv, EndInv, NEW t \in Ids, NEW k \in {"Commit", "Abort"}, LogEnd(t, k)
  PROVE  EndInv'
<1> USE DEF EndInv
<1>0. TypeInv BY DEF IInv
<1>a. /\ phase = "run" /\ phase' = phase /\ t \in att /\ stage[t] = "open"
      /\ att' = att /\ issued' = issued /\ reused' = reused
      /\ stage' = [stage EXCEPT ![t] = k]
      /\ durable' = durable /\ clog' = clog /\ clogDisk' = clogDisk /\ promised' = promised
      /\ log' = Append(log, [kind |-> k, txn |-> t])
  BY DEF LogEnd, Working, Up, store, system, ids
<1>b. Extended({k}, t)
  <2> DEFINE r == [kind |-> k, txn |-> t]
  <2>1. r.kind = k /\ r.txn = t OBVIOUS
  <2>2. log' = Append(log, r) BY <1>a
  <2> HIDE DEF r
  <2>3. (r.kind \in Changes => r.page \in Heap) BY <2>1 DEF Changes
  <2>4. Extended({r.kind}, r.txn) BY <1>0, <2>2, <2>3, AppendExtends DEF TypeInv
  <2> QED BY <2>1, <2>4
<1>d. StillDurable
  BY <1>0, <1>a, DurableSame
<1>e. \A u : CommitLogged(u)' => CommitLogged(u) \/ (u = t /\ k = "Commit")
  BY <1>b DEF CommitLogged, Extended
<1>h. \A u \in Ids : u # t => stage'[u] = stage[u]
  BY <1>0, <1>a DEF TypeInv
<1>i. stage'[t] = k BY <1>0, <1>a DEF TypeInv
<1>1. OpenStatus'
  BY <1>a DEF OpenStatus
<1>2. CommitsForward'
  <2> SUFFICES ASSUME NEW u \in att \ reused, CommitLogged(u)' PROVE stage'[u] \in {"Commit", "Committed"}
    BY <1>a DEF CommitsForward
  <2>1. CASE u = t
    <3>1. ~CommitLogged(t) BY <2>1, <1>a DEF CommitsForward
    <3> QED BY <3>1, <2>1, <1>e, <1>i
  <2>2. CASE u # t
    <3>1. CommitLogged(u) /\ u \in Ids BY <1>e, <2>2, <1>0 DEF TypeInv
    <3> QED BY <3>1, <2>2, <1>h DEF CommitsForward
  <2> QED BY <2>1, <2>2
<1>3. EndFlushed'
  <2> SUFFICES ASSUME NEW u \in att, stage'[u] \in {"Committed", "Aborted"},
                      NEW i \in DOMAIN log', log'[i].kind \in Changes, log'[i].txn = u
               PROVE  i <= durable'
    BY <1>a DEF EndFlushed
  <2>1. u # t BY <1>i
  <2>2. u \in Ids BY <1>0 DEF TypeInv
  <2>3. stage[u] \in {"Committed", "Aborted"} BY <2>1, <2>2, <1>h
  <2>4. i \in DOMAIN log /\ log'[i] = log[i] BY <1>b DEF Extended, Changes
  <2> QED BY <2>2, <2>3, <2>4, <1>a DEF EndFlushed
<1>4. Recorded'
  <2> SUFFICES ASSUME NEW u \in Ids \ (reused \cup att), CommitLogged(u)' PROVE clog[u] = "Committed"
    BY <1>a DEF Recorded
  <2>1. CommitLogged(u) BY <1>a, <1>e
  <2> QED BY <2>1, <1>a DEF Recorded, Serving
<1>5. PromisesKept'
  BY <1>0, <1>a, <1>b, <1>d, PromisesCarried DEF Extended
<1> QED BY <1>1, <1>2, <1>3, <1>4, <1>5

LEMMA FlushEndKeepsEnds ==
  ASSUME IInv, EndInv, NEW t \in Ids, FlushEnd(t)
  PROVE  EndInv'
<1> USE DEF EndInv
<1>0. TypeInv BY DEF IInv
<1>a. /\ phase = "run" /\ phase' = phase /\ t \in att /\ stage[t] \in {"Commit", "Abort"}
      /\ att' = att /\ issued' = issued /\ reused' = reused
      /\ stage' = [stage EXCEPT ![t] = IF stage[t] = "Commit" THEN "Committed" ELSE "Aborted"]
      /\ durable' = Len(log) /\ clog' = clog /\ clogDisk' = clogDisk /\ promised' = promised
      /\ log' = log
  BY DEF FlushEnd, Up, store, system, ids
<1>d. StillDurable
  BY <1>0, <1>a, DurableSame
<1>e. \A u : CommitLogged(u)' = CommitLogged(u)
  BY <1>a DEF CommitLogged
<1>h. \A u \in Ids : u # t => stage'[u] = stage[u]
  BY <1>0, <1>a DEF TypeInv
<1>i. stage'[t] = IF stage[t] = "Commit" THEN "Committed" ELSE "Aborted" BY <1>0, <1>a DEF TypeInv
<1>1. OpenStatus'
  BY <1>a DEF OpenStatus
<1>2. CommitsForward'
  <2> SUFFICES ASSUME NEW u \in att \ reused, CommitLogged(u) PROVE stage'[u] \in {"Commit", "Committed"}
    BY <1>a, <1>e DEF CommitsForward
  <2>1. stage[u] \in {"Commit", "Committed"} /\ u \in Ids BY <1>0 DEF CommitsForward, TypeInv
  <2> QED BY <2>1, <1>a, <1>h, <1>i
<1>3. EndFlushed'
  <2>1. \A i \in DOMAIN log : i <= Len(log) BY <1>0, LogIsSeq DEF TypeInv
  <2> QED BY <2>1, <1>a DEF EndFlushed
<1>4. Recorded'
  BY <1>a, <1>e DEF Recorded, Serving
<1>5. PromisesKept'
  BY <1>0, <1>a, <1>d, PromisesCarried
<1> QED BY <1>1, <1>2, <1>3, <1>4, <1>5

\* tm.commit and tm.abort again: what is acknowledged now is durable, and the status is the one the
\* log tells.
LEMMA DecideKeepsEnds ==
  ASSUME IInv, EndInv, NEW t \in Ids, NEW s \in {"Committed", "Aborted"}, DecideWith(t, s), t \in att, phase = "run",
         t \notin reused /\ CommitLogged(t) => s = "Committed",
         promised \subseteq promised',
         \A i \in promised' \ promised :
             i \in DOMAIN log /\ i <= durable /\ log[i].kind \in Changes /\ log[i].txn = t /\ CommitDurable(t),
         UNCHANGED <<log, durable, clogDisk, issued, reused, phase>>
  PROVE  EndInv'
<1> USE DEF EndInv
<1>0. TypeInv BY DEF IInv
<1>a. /\ att' = att \ {t} /\ stage' = [stage EXCEPT ![t] = None]
      /\ clog' = IF clog[t] = "InProgress" THEN [clog EXCEPT ![t] = s] ELSE clog
  BY DEF DecideWith
<1>b. \A u : CommitLogged(u)' = CommitLogged(u)
  BY DEF CommitLogged
<1>c. /\ \A u \in Ids : u # t => stage'[u] = stage[u] /\ clog'[u] = clog[u]
      /\ clog[t] = "InProgress" => clog'[t] = s
  BY <1>0, <1>a DEF TypeInv
<1>d. StillDurable
  BY <1>0, DurableSame
<1>e. t \in issued BY <1>0 DEF TypeInv
<1>1. OpenStatus'
  <2> SUFFICES ASSUME NEW u \in Ids \ reused
               PROVE  /\ u \notin issued => clog'[u] = "InProgress" /\ clogDisk[u] = "InProgress"
                      /\ u \in att' => clog'[u] = "InProgress"
    BY DEF OpenStatus
  <2>1. u \notin issued => u # t BY <1>e
  <2>2. u \in att' => u # t /\ u \in att BY <1>a
  <2> QED BY <2>1, <2>2, <1>c DEF OpenStatus
<1>2. CommitsForward'
  <2> SUFFICES ASSUME NEW u \in att' \ reused, CommitLogged(u) PROVE stage'[u] \in {"Commit", "Committed"}
    BY <1>b DEF CommitsForward
  <2>1. u # t /\ u \in att /\ u \in Ids BY <1>0, <1>a DEF TypeInv
  <2> QED BY <2>1, <1>c DEF CommitsForward
<1>3. EndFlushed'
  <2> SUFFICES ASSUME NEW u \in att', stage'[u] \in {"Committed", "Aborted"},
                      NEW i \in DOMAIN log, log[i].kind \in Changes, log[i].txn = u
               PROVE  i <= durable
    BY DEF EndFlushed
  <2>1. u # t /\ u \in att /\ u \in Ids BY <1>0, <1>a DEF TypeInv
  <2>2. stage[u] \in {"Committed", "Aborted"} BY <2>1, <1>c
  <2> QED BY <2>1, <2>2 DEF EndFlushed
<1>4. Recorded'
  <2> SUFFICES ASSUME NEW u \in Ids \ (reused \cup att'), CommitLogged(u) PROVE clog'[u] = "Committed"
    BY <1>b DEF Recorded
  <2>1. CASE u = t
    <3>1. clog[t] = "InProgress" BY <2>1 DEF OpenStatus
    <3> QED BY <3>1, <2>1, <1>c
  <2>2. CASE u # t
    <3>1. clog[u] = "Committed" BY <2>2, <1>a DEF Recorded, Serving
    <3> QED BY <3>1, <2>2, <1>c
  <2> QED BY <2>1, <2>2
<1>5. PromisesKept'
  BY <1>0, <1>a, <1>d, PromisesCarried
<1> QED BY <1>1, <1>2, <1>3, <1>4, <1>5

LEMMA KillKeepsEnds ==
  ASSUME IInv, EndInv, NEW n \in durable..Len(log), Kill(n)
  PROVE  EndInv'
<1> USE DEF EndInv
<1>0. TypeInv BY DEF IInv
<1>a. /\ log' = SubSeq(log, 1, n) /\ durable' = n
      /\ clog' = clogDisk /\ clogDisk' = clogDisk /\ att' = {}
      /\ issued' = issued /\ reused' = reused /\ phase' = "down" /\ promised' = promised
  BY DEF Kill, ids
<1>b. Len(log) \in Nat /\ DOMAIN log = 1..Len(log) /\ durable \in Nat /\ n \in 0..Len(log) /\ durable <= n
      /\ n \in Nat
  <2>1. Len(log) \in Nat /\ DOMAIN log = 1..Len(log) BY <1>0, LogIsSeq DEF TypeInv
  <2>2. durable \in Nat BY <1>0 DEF TypeInv
  <2> QED BY <2>1, <2>2
<1>c. DOMAIN log' = 1..n /\ \A i \in 1..n : log'[i] = log[i]
  <2>1. PrefixOf(log, n, log') BY <1>0, <1>a, <1>b, SubSeqIsPrefix DEF TypeInv
  <2> QED BY <2>1 DEF PrefixOf
<1>d. \A i \in DOMAIN log : i <= durable => i \in DOMAIN log' /\ log'[i] = log[i] /\ i <= durable'
  <2>1. \A i \in DOMAIN log : i <= durable => i \in 1..n BY <1>b
  <2>2. \A i \in 1..n : i <= durable' BY <1>a
  <2> QED BY <2>1, <2>2, <1>c
<1>1. OpenStatus'
  BY <1>a DEF OpenStatus
<1>2. CommitsForward' /\ EndFlushed'
  BY <1>a DEF CommitsForward, EndFlushed
<1>3. Recorded'
  BY <1>a DEF Recorded, Serving
<1>4. PromisesKept'
  <2> SUFFICES ASSUME NEW i \in promised PROVE Promise(i)'
    BY <1>a DEF PromisesKept
  <2>1. PICK t : t = log[i].txn OBVIOUS
  <2>2. i \in DOMAIN log /\ i <= durable /\ log[i].kind \in Changes /\ (t \notin reused => CommitDurable(t))
    BY <2>1 DEF PromisesKept, Promise
  <2>3. i \in DOMAIN log' /\ log'[i] = log[i] /\ i <= durable' BY <2>2, <1>d
  <2>4. CommitDurable(t) => CommitDurable(t)' BY <1>d DEF CommitDurable
  <2>5. (log[i].txn \notin reused => log[i].txn \notin att /\ CommitDurable(log[i].txn))'
    <3>1. t = log'[i].txn BY <2>1, <2>3
    <3>2. t \notin reused => CommitDurable(t)' BY <2>2, <2>4
    <3> QED BY <3>1, <3>2, <1>a DEF CommitDurable
  <2> QED BY <2>2, <2>3, <2>5 DEF Promise
<1> QED BY <1>1, <1>2, <1>3, <1>4

\* What undo leaves of the log: all of it, and Abort records.
Undone ==
    /\ IsSeq(log') /\ DOMAIN log \subseteq DOMAIN log'
    /\ \A i \in DOMAIN log : log'[i] = log[i]
    /\ \A i \in DOMAIN log' \ DOMAIN log : log'[i].kind = "Abort"

LEMMA RestartUndoes ==
  ASSUME TypeInv, Restart
  PROVE  Undone
<1>1. log' = log \/ log' = log \o UndoRecords
  BY DEF Restart
<1>2. CASE log' = log BY <1>2 DEF TypeInv, Undone
<1>3. CASE log' = log \o UndoRecords
  <2>1. IsSeq(UndoRecords) /\ \A i \in DOMAIN UndoRecords : UndoRecords[i].kind = "Abort" BY UndoIsAborts
  <2>2. Joined(log, UndoRecords, log') BY <1>3, <2>1, ConcatJoins DEF TypeInv
  <2> QED BY <2>1, <2>2 DEF Joined, Undone
<1> QED BY <1>1, <1>2, <1>3

LEMMA RestartKeepsEnds ==
  ASSUME IInv, EndInv, Restart
  PROVE  EndInv'
<1> USE DEF EndInv
<1>0. TypeInv BY DEF IInv
<1> DEFINE C == Analysis.committed
           U == Analysis.uncommitted
<1>a. /\ phase = "down" /\ phase' = IF Redone.fail THEN "failed" ELSE "undo"
      /\ clog' = IF Redone.fail THEN clog
                 ELSE [t \in Ids |-> IF t \in C THEN "Committed" ELSE IF t \in U THEN "Aborted" ELSE clog[t]]
  BY DEF Restart
<1>b. /\ durable' = durable /\ clogDisk' = clogDisk /\ att' = att
      /\ issued' = issued /\ reused' = reused /\ promised' = promised
  BY DEF Restart, live
<1>c. att = {}
  BY <1>a DEF IInv, DownIsQuiet
<1>d. Undone BY <1>0, RestartUndoes
<1>e. \A u : CommitLogged(u)' => u \in C
  <2>1. \A u : CommitLogged(u)' => CommitLogged(u) BY <1>d DEF CommitLogged, Undone
  <2> QED BY <2>1 DEF CommitLogged, Analysis
<1>f. C \subseteq issued /\ U \subseteq issued
  BY <1>0 DEF Analysis, TypeInv, RecordOK, Changes
<1>g. StillDurable BY <1>0, <1>b, DurableSame
<1> HIDE DEF C, U
<1>h. \A u \in Ids : /\ u \notin C \cup U => clog'[u] = clog[u]
                     /\ u \in C /\ phase' # "failed" => clog'[u] = "Committed"
  BY <1>a
<1>1. OpenStatus'
  BY <1>b, <1>c, <1>f, <1>h DEF OpenStatus
<1>2. CommitsForward' /\ EndFlushed'
  BY <1>b, <1>c DEF CommitsForward, EndFlushed
<1>3. Recorded'
  BY <1>e, <1>h DEF Recorded, Serving
<1>4. PromisesKept'
  BY <1>0, <1>b, <1>c, <1>d, <1>g, PromisesCarried DEF Undone
<1> QED BY <1>1, <1>2, <1>3, <1>4

LEMMA StepKeepsEnds ==
  ASSUME IInv, EndInv, [Next]_vars
  PROVE  EndInv'
<1>0. TypeInv BY DEF IInv
<1>1. ASSUME NEW t \in Ids, NEW m \in {"rw", "ro", "vac"}, Start(t, m) PROVE EndInv'
  BY <1>1, StartKeepsEnds
<1>2. ASSUME NEW t \in Ids, NEW k \in {"Commit", "Abort"}, LogEnd(t, k) PROVE EndInv'
  BY <1>2, LogEndKeepsEnds
<1>3. ASSUME NEW t \in Ids, FlushEnd(t) PROVE EndInv'
  BY <1>3, FlushEndKeepsEnds
<1>4. ASSUME NEW t \in Ids, Decide(t) PROVE EndInv'
  <2>1. /\ stage[t] \in {"Committed", "Aborted"} /\ DecideWith(t, stage[t]) /\ t \in att /\ phase = "run"
        /\ UNCHANGED <<log, durable, clogDisk, issued, reused, phase>>
        /\ promised' = IF stage[t] = "Aborted" THEN promised
                       ELSE promised \cup {i \in DOMAIN log : log[i].txn = t /\ log[i].kind \in {"Insert", "Delete"}}
    BY <1>4 DEF Decide, Up, store, ids, system
  <2>2. stage[t] = "Committed" => CommitDurable(t)
    BY DEF IInv, EndsInOrder
  <2>3. PICK s \in {"Committed", "Aborted"} : s = stage[t]
    BY <2>1
  <2>4. t \notin reused /\ CommitLogged(t) => s = "Committed"
    BY <2>1, <2>3 DEF EndInv, CommitsForward
  <2>5. \A i \in promised' \ promised :
             i \in DOMAIN log /\ i <= durable /\ log[i].kind \in Changes /\ log[i].txn = t /\ CommitDurable(t)
    <3> SUFFICES ASSUME NEW i \in promised' \ promised
                 PROVE  i \in DOMAIN log /\ i <= durable /\ log[i].kind \in Changes /\ log[i].txn = t /\ CommitDurable(t)
      OBVIOUS
    <3>1. stage[t] = "Committed" /\ i \in DOMAIN log /\ log[i].txn = t /\ log[i].kind \in Changes
      BY <2>1 DEF Changes
    <3> QED BY <3>1, <2>1, <2>2 DEF EndInv, EndFlushed
  <2>6. promised \subseteq promised' /\ DecideWith(t, s) BY <2>1, <2>3
  <2> QED BY <2>1, <2>4, <2>5, <2>6, DecideKeepsEnds
<1>5. ASSUME NEW t \in Ids, NEW s \in {"Committed", "Aborted"}, EndReader(t, s) PROVE EndInv'
  <2>1. /\ DecideWith(t, s) /\ t \in att /\ phase = "run" /\ stage[t] = "open" /\ promised' = promised
        /\ UNCHANGED <<log, durable, clogDisk, issued, reused, phase>>
    BY <1>5 DEF EndReader, Working, Up, store, ids, system
  <2>2. t \notin reused => ~CommitLogged(t)
    BY <2>1 DEF EndInv, CommitsForward
  <2> QED BY <2>1, <2>2, DecideKeepsEnds
<1>6. ASSUME NEW t \in Ids,
             InsertRow(t) \/ InsertFresh(t) \/ \E p \in Heap, r \in 1..MaxLsn : DeleteRow(t, p, r)
      PROVE  EndInv'
  <2>1. promised' = promised /\ phase' = phase /\ stage[t] = "open"
    BY <1>6 DEF InsertRow, InsertFresh, DeleteRow, system, Working
  <2> QED BY <1>6, <2>1, ChangeIsPlain, PlainKeepsEnds DEF Serving
<1>7. ASSUME NEW t \in Ids, NextVal(t) \/ \E c \in BOOLEAN : SetVal(t, c) PROVE EndInv'
  <2>1. promised' = promised /\ phase' = phase /\ stage[t] = "open"
    BY <1>7 DEF NextVal, SetVal, system, Working
  <2> QED BY <1>7, <2>1, SequenceIsPlain, PlainKeepsEnds DEF Serving
<1>8. ASSUME NEW t \in Ids, NEW p \in Heap, VacuumPage(t, p) PROVE EndInv'
  <2>1. promised' = promised /\ phase' = phase
    BY <1>8 DEF VacuumPage, system
  <2> QED BY <1>8, <2>1, VacuumIsPlain, PlainKeepsEnds DEF Serving
<1>9. ASSUME NEW t \in Ids, Link(t) \/ Release(t) PROVE EndInv'
  <2>1. promised' = promised /\ phase' = phase
    BY <1>9 DEF Link, Release, system
  <2> QED BY <1>9, <2>1, PageStepIsPlain, PlainKeepsEnds DEF Serving
<1>10. ASSUME NEW p \in Pages, WritePage(p) PROVE EndInv'
  <2>1. promised' = promised /\ phase' = phase
    BY <1>10 DEF WritePage, system
  <2> QED BY <1>10, <2>1, PageStepIsPlain, PlainKeepsEnds DEF Serving
<1>11. ASSUME CkptClog \/ CkptTables \/ CkptRecord \/ CkptFlush \/ MetaTruncate \/ MetaWrite \/ RecoverClog
       PROVE  EndInv'
  <2>1. promised' = promised /\ (phase' = phase \/ phase = "undo")
    BY <1>11 DEF CkptClog, CkptTables, CkptRecord, CkptFlush, MetaTruncate, MetaWrite, RecoverClog, CkptRest
  <2>2. {"Checkpoint"} \cap Changes = {} BY DEF Changes
  <2> QED BY <1>11, <2>1, <2>2, CheckpointIsPlain, PlainKeepsEnds DEF Serving
<1>12. ASSUME NEW n \in durable..Len(log), Kill(n) PROVE EndInv'
  BY <1>12, KillKeepsEnds
<1>13. CASE Restart
  BY <1>13, RestartKeepsEnds
<1>14. CASE RecoverPages
  <2>1. promised' = promised /\ phase = "pages"
    BY <1>14 DEF RecoverPages
  <2> QED BY <1>14, <2>1, PageStepIsPlain, PlainKeepsEnds DEF Serving
<1>15. CASE UNCHANGED vars
  <2>1. promised' = promised /\ phase' = phase
    BY <1>15 DEF vars
  <2> QED BY <1>15, <2>1, StutterIsPlain, PlainKeepsEnds DEF Serving
<1>16. CASE Next
  BY <1>1, <1>2, <1>3, <1>4, <1>5, <1>6, <1>7, <1>8, <1>9, <1>10, <1>11, <1>12, <1>13, <1>14, <1>16 DEF Next
<1> QED BY <1>15, <1>16

\* Who has its Commit in the log counts as committed as soon as it is no longer at work, and what was
\* acknowledged is durable together with its Commit: through kills between the flush of the Commit
\* and tm.commit, kills during start-up, and the seeding of the CLOG by recovery.
THEOREM EndInvariance == Spec => []EndInv
<1>1. Init => EndInv
  BY DEF Init, EndInv, OpenStatus, CommitsForward, EndFlushed, Recorded, PromisesKept, CommitLogged
<1>2. IInv /\ EndInv /\ [Next]_vars => EndInv'
  BY StepKeepsEnds
<1> QED BY <1>1, <1>2, Invariance, PTL DEF Spec

-----------------------------------------------------------------------------
(* A guard on a page belongs to a transaction at work.                     *)

HeldOpen == \A t \in Ids : held[t] # None => stage[t] = "open" /\ t \in att

LEMMA StepKeepsHeld ==
  ASSUME IInv, StartInv, HeldOpen, [Next]_vars
  PROVE  HeldOpen'
<1>0. TypeInv /\ DOMAIN held = Ids BY DEF IInv, StartInv
\* The guard of t is given up before the end of t, or t is at work with it.
<1>a. ASSUME NEW t \in Ids, held' = held, \A u \in Ids \ {t} : stage'[u] = stage[u],
             att \ {t} \subseteq att', held[t] = None
      PROVE  HeldOpen'
  BY <1>a DEF HeldOpen
<1>b. ASSUME NEW t \in Ids, NEW x, held' = [held EXCEPT ![t] = x], stage' = stage, att' = att,
             x # None => stage[t] = "open" /\ t \in att
      PROVE  HeldOpen'
  BY <1>0, <1>b DEF HeldOpen
<1>1. ASSUME NEW t \in Ids, NEW m, Start(t, m) PROVE HeldOpen'
  <2>1. /\ held' = [held EXCEPT ![t] = None] /\ att' = att \cup {t}
        /\ stage' = [stage EXCEPT ![t] = "open"]
    BY <1>1 DEF Start
  <2>2. \A u \in Ids \ {t} : held'[u] = held[u] /\ stage'[u] = stage[u] BY <2>1, <1>0 DEF TypeInv
  <2>3. held'[t] = None BY <2>1, <1>0
  <2> QED BY <2>1, <2>2, <2>3 DEF HeldOpen
<1>2. ASSUME NEW t \in Ids, \/ \E k \in {"Commit", "Abort"} : LogEnd(t, k)
                            \/ FlushEnd(t) \/ Decide(t)
                            \/ \E s \in {"Committed", "Aborted"} : EndReader(t, s)
      PROVE  HeldOpen'
  <2>1. held' = held /\ att \ {t} \subseteq att'
    BY <1>2 DEF LogEnd, FlushEnd, Decide, DecideWith, EndReader
  <2>2. \E x : stage' = [stage EXCEPT ![t] = x]
    BY <1>2 DEF LogEnd, FlushEnd, Decide, DecideWith, EndReader
  <2>3. \A u \in Ids \ {t} : stage'[u] = stage[u] BY <2>2, <1>0 DEF TypeInv
  <2>4. held[t] = None \/ stage[t] # "open"
    BY <1>2 DEF LogEnd, FlushEnd, Decide, EndReader, Working
  <2>5. held[t] = None BY <2>4 DEF HeldOpen
  <2> QED BY <2>1, <2>3, <2>5, <1>a
<1>3. ASSUME NEW t \in Ids,
             \/ InsertRow(t) \/ InsertFresh(t) \/ \E p \in Heap, r \in 1..MaxLsn : DeleteRow(t, p, r)
             \/ \E p \in Heap : VacuumPage(t, p)
             \/ NextVal(t) \/ \E c \in BOOLEAN : SetVal(t, c)
      PROVE  HeldOpen'
  <2>1. stage' = stage /\ att' = att /\ stage[t] = "open" /\ t \in att
    BY <1>3 DEF InsertRow, InsertFresh, DeleteRow, VacuumPage, NextVal, SetVal, live, Working
  <2>2. \E x : held' = [held EXCEPT ![t] = x]
    BY <1>3 DEF InsertRow, InsertFresh, DeleteRow, VacuumPage, NextVal, SetVal
  <2> QED BY <2>1, <2>2, <1>b
<1>4. ASSUME NEW t \in Ids, Link(t) PROVE HeldOpen'
  <2>1. held' = [held EXCEPT ![t] = "Head"] /\ stage' = stage /\ att' = att /\ held[t] = "unlinked"
    BY <1>4 DEF Link, live
  <2>2. stage[t] = "open" /\ t \in att BY <2>1 DEF HeldOpen, None
  <2> QED BY <2>1, <2>2, <1>b
<1>5. ASSUME NEW t \in Ids, Release(t) PROVE HeldOpen'
  BY <1>5, <1>b DEF Release, live
<1>6. CASE \/ (\E p \in Pages : WritePage(p)) \/ Restart \/ RecoverClog \/ RecoverPages
           \/ CkptClog \/ CkptTables \/ CkptRecord \/ CkptFlush \/ MetaTruncate \/ MetaWrite \/ UNCHANGED vars
  <2>1. held' = held /\ stage' = stage /\ att' = att
    BY <1>6 DEF WritePage, Restart, RecoverClog, RecoverPages, CkptClog, CkptTables, CkptRecord, CkptFlush,
                MetaTruncate, MetaWrite, CkptRest, txns, live, vars
  <2> QED BY <2>1 DEF HeldOpen
<1>7. ASSUME NEW n \in durable..Len(log), Kill(n) PROVE HeldOpen'
  <2>1. held' = [u \in Ids |-> None] BY <1>7 DEF Kill
  <2> QED BY <2>1 DEF HeldOpen
<1>8. CASE Next
  BY <1>1, <1>2, <1>3, <1>4, <1>5, <1>6, <1>7, <1>8 DEF Next
<1> QED BY <1>6, <1>8

LEMMA HeldInvariance == Spec => []HeldOpen
<1>1. Init => HeldOpen
  BY DEF Init, HeldOpen
<1>2. IInv /\ StartInv /\ HeldOpen /\ [Next]_vars => HeldOpen'
  BY StepKeepsHeld
<1> QED BY <1>1, <1>2, Invariance, StartInvariance, PTL DEF Spec

-----------------------------------------------------------------------------
(* Page images and the changes they owe.                                   *)

\* The changes that must not get lost: acknowledged, or of a transaction at work.
Kept == {i \in DOMAIN log : /\ log[i].kind \in Changes /\ i \notin lost /\ log[i].txn \notin reused
                            /\ i \in promised \/ log[i].txn \in att}

\* Row i was deleted by record n at the latest, and the deletion counts.
Removed(p, i, n) ==
    \E j \in DeletesOn(p) :
        /\ j <= n /\ log[j].row = i
        /\ log[j].txn \in reused \/ (log[j].txn \notin att /\ CommitDurable(log[j].txn))

\* A mark on a row is that of a Delete.
Marked(p, g, r) == \E j \in DeletesOn(p) : j <= g.lsn /\ log[j].row = r /\ log[j].txn = g.rows[r]

\* An image has the changes of K up to its page_lsn, and no others than the log's.
Image(p, g, K) ==
    /\ HeapImage(g) /\ g.lsn <= Len(log)
    /\ \A r \in Rows(g) : r \in InsertsOn(p) /\ r <= g.lsn /\ (g.rows[r] # 0 => Marked(p, g, r))
    /\ \A i \in InsertsOn(p) \cap K : i <= g.lsn => i \in Rows(g) \/ Removed(p, i, g.lsn)
    /\ \A j \in DeletesOn(p) \cap K : j <= g.lsn /\ log[j].row \in Rows(g) => g.rows[log[j].row] = log[j].txn

\* page_lsn is past every change of the page that start-up did not drop.
CoversAll(p, g) == \A i \in (InsertsOn(p) \cup DeletesOn(p)) \ lost : i <= g.lsn

\* A Delete follows its Insert, and nothing deletes a row again that a kept Delete has.
DeletesSound(p) ==
    \A j \in DeletesOn(p) :
        /\ log[j].row \in InsertsOn(p) /\ log[j].row < j
        /\ j \in Kept => \A k \in DeletesOn(p) : log[k].row = log[j].row => k <= j

SoundPage(p) ==
    /\ Image(p, disk[p], Kept) /\ disk[p].lsn <= durable
    /\ Serving => Image(p, mem[p], Kept) /\ CoversAll(p, mem[p])

\* A kept row of the second page is on the chain, or its inserter still has to link the page.
OnChain == \A i \in InsertsOn("Tail") \cap Kept : mem["Head"].next = "Tail" \/ held[log[i].txn] = "unlinked"

ChainOK ==
    /\ "Head" \in alloc /\ {mem["Head"].next, disk["Head"].next} \subseteq {None, "Tail"}
    /\ LinkOK /\ ("Tail" \notin alloc => InsertsOn("Tail") = {})
    /\ Serving => OnChain

RowsInv ==
    phase # "failed" =>
        /\ ChainOK /\ (phase = "pages" => durable = Len(log))
        /\ \A p \in Heap : DeletesSound(p) /\ SoundPage(p)

\* A step that keeps the log and adds nothing to the changes it owes but those it logs.
Onward ==
    /\ IsSeq(log') /\ DOMAIN log \subseteq DOMAIN log' /\ \A i \in DOMAIN log : log'[i] = log[i]
    /\ StillDurable /\ lost \subseteq lost' /\ reused \subseteq reused'
    /\ \A i \in promised' \ promised : i \in DOMAIN log /\ log[i].txn \in att
    /\ \A t \in issued : t \in att' => t \in att \/ t \in reused'

LEMMA OnwardLog ==
  ASSUME TypeInv, Onward
  PROVE  /\ Len(log) \in Nat /\ DOMAIN log = 1..Len(log) /\ Len(log') \in Nat /\ DOMAIN log' = 1..Len(log')
         /\ Len(log) <= Len(log') /\ \A i \in DOMAIN log' \ DOMAIN log : i > Len(log)
<1>1. /\ Len(log) \in Nat /\ DOMAIN log = 1..Len(log)
      /\ Len(log') \in Nat /\ DOMAIN log' = 1..Len(log')
  BY LogIsSeq DEF TypeInv, Onward
<1>2. Len(log) <= Len(log')
  <2>1. CASE Len(log) = 0 BY <1>1, <2>1
  <2>2. CASE Len(log) # 0
    <3>1. Len(log) \in DOMAIN log BY <1>1, <2>2
    <3>2. Len(log) \in 1..Len(log') BY <3>1, <1>1 DEF Onward
    <3> QED BY <3>2, <1>1
  <2> QED BY <2>1, <2>2
<1>3. \A i \in DOMAIN log' \ DOMAIN log : i > Len(log)
  BY <1>1
<1> QED BY <1>1, <1>2, <1>3

LEMMA OnwardKept ==
  ASSUME TypeInv, Onward
  PROVE  Kept' \cap DOMAIN log \subseteq Kept
<1> SUFFICES ASSUME NEW i \in Kept', i \in DOMAIN log PROVE i \in Kept
  OBVIOUS
<1>1. /\ log'[i].kind \in Changes /\ i \notin lost' /\ log'[i].txn \notin reused'
      /\ i \in promised' \/ log'[i].txn \in att'
  BY DEF Kept
<1>2. log'[i] = log[i] BY DEF Onward
<1>3. log[i].txn \in issued BY <1>1, <1>2 DEF TypeInv, RecordOK
<1>4. i \notin lost /\ log[i].txn \notin reused BY <1>1, <1>2 DEF Onward
<1>5. i \in promised \/ log[i].txn \in att BY <1>1, <1>2, <1>3 DEF Onward
<1> QED BY <1>1, <1>2, <1>4, <1>5 DEF Kept

LEMMA OnwardRecords ==
  ASSUME TypeInv, Onward, NEW p
  PROVE  /\ InsertsOn(p) = InsertsOn(p)' \cap DOMAIN log
         /\ DeletesOn(p) = DeletesOn(p)' \cap DOMAIN log
         /\ \A i, n : Removed(p, i, n) => Removed(p, i, n)'
<1>1. InsertsOn(p)' = {i \in DOMAIN log' : log'[i].kind = "Insert" /\ log'[i].page = p} BY DEF InsertsOn
<1>2. DeletesOn(p)' = {i \in DOMAIN log' : log'[i].kind = "Delete" /\ log'[i].page = p} BY DEF DeletesOn
<1>3. InsertsOn(p) = InsertsOn(p)' \cap DOMAIN log BY <1>1 DEF InsertsOn, Onward
<1>4. DeletesOn(p) = DeletesOn(p)' \cap DOMAIN log BY <1>2 DEF DeletesOn, Onward
<1>5. ASSUME NEW i, NEW n, Removed(p, i, n) PROVE Removed(p, i, n)'
  <2>1. PICK j \in DeletesOn(p) :
            /\ j <= n /\ log[j].row = i
            /\ log[j].txn \in reused \/ (log[j].txn \notin att /\ CommitDurable(log[j].txn))
    BY <1>5 DEF Removed
  <2>2. j \in DeletesOn(p)' /\ j \in DOMAIN log /\ log'[j] = log[j] BY <1>4 DEF Onward
  <2>3. PICK t : t = log[j].txn OBVIOUS
  <2>4. t \in issued BY <2>2, <2>3 DEF DeletesOn, TypeInv, RecordOK, Changes
  <2>5. CommitDurable(t) => CommitDurable(t)' BY DEF CommitDurable, Onward, StillDurable
  <2>6. t \in reused' \/ (t \notin att' /\ CommitDurable(t)') BY <2>1, <2>3, <2>4, <2>5 DEF Onward
  <2>7. (log[j].txn \in reused \/ (log[j].txn \notin att /\ CommitDurable(log[j].txn)))'
    <3>1. log'[j].txn = t BY <2>2, <2>3
    <3> QED BY <3>1, <2>6 DEF CommitDurable
  <2> QED BY <2>1, <2>2, <2>7 DEF Removed
<1> QED BY <1>3, <1>4, <1>5

\* An image that owed the changes of K owes no more after the step.
LEMMA ImageOnward ==
  ASSUME TypeInv, Onward, NEW p, NEW g, NEW K, Image(p, g, K), Kept' \cap DOMAIN log \subseteq K
  PROVE  Image(p, g, Kept)'
<1>1. /\ Len(log) \in Nat /\ DOMAIN log = 1..Len(log) /\ Len(log') \in Nat
      /\ Len(log) <= Len(log') /\ \A i \in DOMAIN log' \ DOMAIN log : i > Len(log) /\ i \in Nat
  BY OnwardLog
<1>2. /\ InsertsOn(p) = InsertsOn(p)' \cap DOMAIN log /\ DeletesOn(p) = DeletesOn(p)' \cap DOMAIN log
      /\ \A i, n : Removed(p, i, n) => Removed(p, i, n)'
  BY OnwardRecords
<1>3. HeapImage(g) /\ g.lsn \in Nat /\ g.lsn <= Len(log) BY DEF Image, HeapImage
<1>4. g.lsn <= Len(log') BY <1>1, <1>3
<1>5. \A i \in DOMAIN log' : i <= g.lsn => i \in DOMAIN log
  BY <1>1, <1>3
<1>6. InsertsOn(p)' \subseteq DOMAIN log' /\ DeletesOn(p)' \subseteq DOMAIN log'
  BY DEF InsertsOn, DeletesOn
<1>7. ASSUME NEW r \in Rows(g)
      PROVE  r \in InsertsOn(p)' /\ r <= g.lsn /\ (g.rows[r] # 0 => Marked(p, g, r)')
  <2>1. r \in InsertsOn(p) /\ r <= g.lsn /\ (g.rows[r] # 0 => Marked(p, g, r)) BY DEF Image
  <2>2. Marked(p, g, r) => Marked(p, g, r)'
    <3>1. \A j \in DeletesOn(p) : j \in DeletesOn(p)' /\ log'[j] = log[j] BY <1>2 DEF Onward, DeletesOn
    <3> QED BY <3>1 DEF Marked
  <2> QED BY <2>1, <2>2, <1>2
<1>8. ASSUME NEW i \in InsertsOn(p)' \cap Kept', i <= g.lsn PROVE i \in Rows(g) \/ Removed(p, i, g.lsn)'
  <2>1. i \in InsertsOn(p) /\ i \in K BY <1>2, <1>5, <1>6, <1>8
  <2> QED BY <2>1, <1>2, <1>8 DEF Image
<1>9. ASSUME NEW j \in DeletesOn(p)' \cap Kept', j <= g.lsn, log'[j].row \in Rows(g)
      PROVE  g.rows[log'[j].row] = log'[j].txn
  <2>1. j \in DeletesOn(p) /\ j \in K /\ log'[j] = log[j] BY <1>2, <1>5, <1>6, <1>9 DEF Onward
  <2> QED BY <2>1, <1>9 DEF Image
<1> QED BY <1>3, <1>4, <1>7, <1>8, <1>9 DEF Image

\* A page that a step leaves alone owes what it owed.
LEMMA SoundAside ==
  ASSUME TypeInv, Onward, NEW p, Aside(p), SoundPage(p), DeletesSound(p)
  PROVE  SoundPage(p)' /\ DeletesSound(p)'
<1>1. PICK d : d = disk[p] OBVIOUS
<1>2. PICK m : m = mem[p] OBVIOUS
<1>3. PICK K : K = Kept OBVIOUS
<1>4. Kept' \cap DOMAIN log \subseteq K BY <1>3, OnwardKept
<1>5. SameOn(p) /\ mem'[p] = m /\ disk'[p] = d /\ (Serving' => Serving)
  BY <1>1, <1>2 DEF Aside, Serving
<1>6. Image(p, d, K) /\ d.lsn <= durable BY <1>1, <1>3 DEF SoundPage
<1>7. Image(p, d, Kept)' BY <1>4, <1>6, ImageOnward
<1>8. d.lsn <= durable'
  <2>1. d.lsn \in Nat /\ d.lsn <= Len(log) BY <1>6 DEF Image, HeapImage
  <2>2. Len(log) \in Nat /\ DOMAIN log = 1..Len(log) BY LogIsSeq DEF TypeInv
  <2>3. CASE d.lsn = 0 BY <2>3 DEF Onward, StillDurable
  <2>4. CASE d.lsn # 0
    <3>1. d.lsn \in DOMAIN log BY <2>1, <2>2, <2>4
    <3> QED BY <3>1, <1>6 DEF Onward, StillDurable
  <2> QED BY <2>3, <2>4
<1>9. ASSUME Serving' PROVE Image(p, m, Kept)' /\ CoversAll(p, m)'
  <2>1. Image(p, m, K) /\ CoversAll(p, m) BY <1>2, <1>3, <1>5, <1>9 DEF SoundPage
  <2>2. Image(p, m, Kept)' BY <2>1, <1>4, ImageOnward
  <2>3. CoversAll(p, m)' BY <2>1, <1>5 DEF CoversAll, SameOn, Onward
  <2> QED BY <2>2, <2>3
<1>10. SoundPage(p)'
  <2>1. Image(p, disk[p], Kept)' BY <1>5, <1>7 DEF Image, Marked
  <2>2. (Serving => Image(p, mem[p], Kept) /\ CoversAll(p, mem[p]))'
    BY <1>5, <1>9 DEF Image, Marked, CoversAll
  <2> QED BY <2>1, <2>2, <1>5, <1>8 DEF SoundPage
<1>11. DeletesSound(p)'
  <2>1. DeletesOn(p)' = DeletesOn(p) /\ InsertsOn(p)' = InsertsOn(p) BY <1>5 DEF SameOn
  <2>2. \A j \in DeletesOn(p) : j \in DOMAIN log /\ log'[j] = log[j] BY DEF DeletesOn, Onward
  <2>3. \A j \in DeletesOn(p) : j \in Kept' => j \in Kept BY <2>2, <1>3, <1>4
  <2> QED BY <2>1, <2>2, <2>3 DEF DeletesSound
<1> QED BY <1>10, <1>11

\* The chain stays, or grows by the page that was to be linked.
LEMMA ChainKept ==
  ASSUME TypeInv, Onward, ChainOK, StillLinked, Serving' => Serving,
         mem'["Head"].next \in {mem["Head"].next, "Tail"},
         disk'["Head"].next \in {disk["Head"].next, mem["Head"].next},
         "Tail" \notin alloc' => InsertsOn("Tail")' = InsertsOn("Tail"),
         \A i \in InsertsOn("Tail")' \ DOMAIN log : mem'["Head"].next = "Tail" \/ held'[log'[i].txn] = "unlinked",
         \A t \in issued \ reused' : held[t] = "unlinked" => held'[t] = "unlinked" \/ mem'["Head"].next = "Tail"
  PROVE  ChainOK'
<1>1. "Head" \in alloc' BY DEF ChainOK, StillLinked
<1>2. {mem'["Head"].next, disk'["Head"].next} \subseteq {None, "Tail"} BY DEF ChainOK
<1>3. LinkOK' BY LinkKept DEF ChainOK
<1>4. "Tail" \notin alloc' => InsertsOn("Tail")' = {} BY DEF ChainOK, StillLinked
<1>5. ASSUME Serving' PROVE OnChain'
  <2> SUFFICES ASSUME NEW i \in InsertsOn("Tail")' \cap Kept', mem'["Head"].next # "Tail"
               PROVE  held'[log'[i].txn] = "unlinked"
    BY DEF OnChain
  <2>1. CASE i \notin DOMAIN log BY <2>1
  <2>2. CASE i \in DOMAIN log
    <3>1. i \in Kept BY <2>2, OnwardKept
    <3>2. i \in InsertsOn("Tail") BY <2>2, OnwardRecords
    <3>3. held[log[i].txn] = "unlinked" BY <3>1, <3>2, <1>5 DEF ChainOK, OnChain
    <3>4. log'[i] = log[i] BY <2>2 DEF Onward
    <3>5. log'[i].txn \notin reused' BY DEF Kept
    <3>6. log[i].txn \in issued BY <3>1 DEF Kept, TypeInv, RecordOK
    <3> QED BY <3>3, <3>4, <3>5, <3>6
  <2> QED BY <2>1, <2>2
<1> QED BY <1>1, <1>2, <1>3, <1>4, <1>5 DEF ChainOK

LEMMA BystanderKeepsRows ==
  ASSUME TypeInv, RowsInv, Onward, Bystander,
         phase' = "pages" => durable' = Len(log'),
         \A t \in issued \ reused' : held[t] = "unlinked" => held'[t] = "unlinked"
  PROVE  RowsInv'
<1>1. SUFFICES ASSUME phase' # "failed"
               PROVE  ChainOK' /\ \A p \in Heap : SoundPage(p)' /\ DeletesSound(p)'
  BY DEF RowsInv
<1>2. Aside("Head") /\ Aside("Tail") BY DEF Bystander, Heap
<1>3. phase # "failed" /\ (Serving' => Serving) BY <1>1, <1>2 DEF Aside, Serving
<1>4. ChainOK /\ \A p \in Heap : DeletesSound(p) /\ SoundPage(p) BY <1>3 DEF RowsInv
<1>5. \A p \in Heap : SoundPage(p)' /\ DeletesSound(p)' BY <1>4, SoundAside DEF Bystander
<1>6. mem'["Head"].next = mem["Head"].next /\ disk'["Head"].next = disk["Head"].next
  BY <1>2 DEF Aside
<1>7. InsertsOn("Tail")' = InsertsOn("Tail") BY <1>2 DEF Aside, SameOn
<1>8. InsertsOn("Tail")' \ DOMAIN log = {} BY <1>7 DEF InsertsOn
<1>9. ChainOK' BY <1>3, <1>4, <1>6, <1>7, <1>8, ChainKept DEF Bystander
<1> QED BY <1>5, <1>9

-----------------------------------------------------------------------------
(* Steps that leave the heap pages alone.                                  *)

\* A plain step acknowledges nothing.
LEMMA PlainIsOnward ==
  ASSUME TypeInv, NEW K, NEW u, Plain(K, u), promised' = promised, lost' = lost
  PROVE  Onward
BY DEF Plain, Extended, Onward

LEMMA TransactionKeepsRows ==
  ASSUME IInv, StartInv, HeldOpen, RowsInv, NEW t \in Ids,
         \/ \E m \in {"rw", "ro", "vac"} : Start(t, m)
         \/ \E k \in {"Commit", "Abort"} : LogEnd(t, k)
         \/ FlushEnd(t) \/ Decide(t)
         \/ \E s \in {"Committed", "Aborted"} : EndReader(t, s)
         \/ Release(t)
  PROVE  RowsInv'
<1>0. TypeInv BY DEF IInv
<1>1. Bystander BY TransactionStandsBy
<1>2. lost' = lost /\ phase = "run" /\ phase' = phase
  BY DEF Start, LogEnd, FlushEnd, Decide, EndReader, Release, system, rest, Working, Up
<1>3. SameOn("Head") /\ StillDurable BY <1>1 DEF Bystander, Aside, Heap
<1>4. IsSeq(log')
  <2>1. IInv' /\ TypeInv'
    <3>1. \/ \E m \in {"rw", "ro", "vac"} : Start(t, m)
          \/ \E k \in {"Commit", "Abort"} : LogEnd(t, k)
          \/ FlushEnd(t) \/ Decide(t)
          \/ \E s \in {"Committed", "Aborted"} : EndReader(t, s)
          \/ Release(t)
      OBVIOUS
    <3>2. CASE Release(t) BY <3>2, PageStepIsPlain, PlainKept DEF IInv
    <3>3. ASSUME NEW m \in {"rw", "ro", "vac"}, Start(t, m) PROVE IInv' BY <3>3, StartKept
    <3>4. ASSUME NEW k \in {"Commit", "Abort"}, LogEnd(t, k) PROVE IInv' BY <3>4, LogEndKept
    <3>5. CASE FlushEnd(t) BY <3>5, FlushEndKept DEF IInv
    <3>6. CASE Decide(t) \/ \E s \in {"Committed", "Aborted"} : EndReader(t, s)
      <4>1. log' = log /\ durable' = durable BY <3>6 DEF Decide, EndReader
      <4>2. Next BY <3>6 DEF Next
      <4> QED BY <4>2, StepKept DEF IInv
    <3> QED BY <3>1, <3>2, <3>3, <3>4, <3>5, <3>6 DEF IInv
  <2> QED BY <2>1 DEF TypeInv, IsSeq
<1>5. reused \subseteq reused' /\ \A u \in issued : u \in att' => u \in att \/ u \in reused'
  BY DEF Start, LogEnd, FlushEnd, Decide, DecideWith, EndReader, Release, live, ids
<1>6. \A i \in promised' \ promised : i \in DOMAIN log /\ log[i].txn \in att
  BY DEF Start, LogEnd, FlushEnd, Decide, EndReader, Release
<1>7. Onward
  BY <1>2, <1>3, <1>4, <1>5, <1>6 DEF Onward, SameOn
<1>8. \A u \in issued \ reused' : held[u] = "unlinked" => held'[u] = "unlinked"
  <2>1. CASE Release(t)
    <3>1. held[t] # "unlinked" /\ held' = [held EXCEPT ![t] = None] BY <2>1 DEF Release, Pages, Heap
    <3> QED BY <3>1, <1>0 DEF StartInv, TypeInv
  <2>2. ASSUME NEW m, Start(t, m) PROVE \A u \in issued \ reused' : held[u] = "unlinked" => held'[u] = "unlinked"
    <3>1. held' = [held EXCEPT ![t] = None] /\ (t \in issued => t \in reused') BY <2>2 DEF Start
    <3> QED BY <3>1, <1>0 DEF StartInv, TypeInv
  <2>3. CASE held' = held BY <2>3
  <2>4. Release(t) \/ (\E m : Start(t, m)) \/ held' = held
    BY DEF LogEnd, FlushEnd, Decide, EndReader
  <2> QED BY <2>1, <2>2, <2>3, <2>4
<1> QED BY <1>0, <1>1, <1>2, <1>7, <1>8, BystanderKeepsRows

LEMMA SequenceKeepsRows ==
  ASSUME IInv, StartInv, RowsInv, NEW t \in Ids, NextVal(t) \/ \E c \in BOOLEAN : SetVal(t, c)
  PROVE  RowsInv'
<1>0. TypeInv BY DEF IInv
<1>1. Bystander BY SequenceStandsBy
<1>2. lost' = lost /\ promised' = promised /\ phase = "run" /\ phase' = phase /\ held[t] = None
      /\ held' = [held EXCEPT ![t] = "Seq"]
  BY DEF NextVal, SetVal, system, rest, Working, Up
<1>3. Onward BY <1>0, <1>2, SequenceIsPlain, PlainIsOnward
<1>4. \A u \in issued : held[u] = "unlinked" => held'[u] = "unlinked"
  BY <1>0, <1>2 DEF StartInv, TypeInv, None
<1> QED BY <1>0, <1>1, <1>2, <1>3, <1>4, BystanderKeepsRows

LEMMA CheckpointKeepsRows ==
  ASSUME IInv, StartInv, RowsInv,
         \/ CkptClog \/ CkptTables \/ CkptRecord \/ CkptFlush \/ MetaTruncate \/ MetaWrite \/ RecoverClog
         \/ UNCHANGED vars
  PROVE  RowsInv'
<1>0. TypeInv BY DEF IInv
<1>1. Bystander BY CheckpointStandsBy
<1>2. CASE CkptClog \/ CkptTables \/ CkptRecord \/ CkptFlush \/ MetaTruncate \/ MetaWrite \/ RecoverClog
  <2>1. lost' = lost /\ promised' = promised /\ held' = held
    BY <1>2 DEF CkptClog, CkptTables, CkptRecord, CkptFlush, MetaTruncate, MetaWrite, RecoverClog, CkptRest, rest, txns
  <2>2. phase' = "pages" => durable' = Len(log')
    BY <1>2 DEF CkptClog, CkptTables, CkptRecord, CkptFlush, MetaTruncate, MetaWrite, RecoverClog, CkptRest, Up
  <2>3. Onward BY <1>0, <1>2, <2>1, CheckpointIsPlain, PlainIsOnward
  <2> QED BY <1>0, <1>1, <2>1, <2>2, <2>3, BystanderKeepsRows
<1>3. CASE UNCHANGED vars
  <2>1. lost' = lost /\ promised' = promised /\ held' = held /\ phase' = phase /\ durable' = durable /\ log' = log
    BY <1>3 DEF vars
  <2>2. phase' = "pages" => durable' = Len(log') BY <2>1 DEF RowsInv
  <2>3. Onward BY <1>0, <1>3, <2>1, StutterIsPlain, PlainIsOnward
  <2> QED BY <1>0, <1>1, <2>1, <2>2, <2>3, BystanderKeepsRows
<1> QED BY <1>2, <1>3

-----------------------------------------------------------------------------
(* Steps that change a page.                                               *)

\* What SoundPage comes to while the server runs.
LEMMA RunningSound ==
  ASSUME NEW p, NEW m, NEW d, mem'[p] = m, disk'[p] = d, d.lsn <= durable',
         Image(p, d, Kept)', Image(p, m, Kept)', CoversAll(p, m)'
  PROVE  SoundPage(p)'
<1>1. Image(p, disk[p], Kept)' BY DEF Image, Marked
<1>2. (Image(p, mem[p], Kept) /\ CoversAll(p, mem[p]))' BY DEF Image, Marked, CoversAll
<1> QED BY <1>1, <1>2 DEF SoundPage

LEMMA WithRowRows ==
  ASSUME NEW img, HeapImage(img), NEW r, NEW x, NEW n \in Nat, NEW w, w = WithRow(img, r, x, n)
  PROVE  w.rows[r] = x /\ \A q \in Rows(img) \ {r} : w.rows[q] = img.rows[q]
<1> DEFINE f == [q \in DOMAIN img.rows \cup {r} |-> IF q = r THEN x ELSE img.rows[q]]
<1>1. w = [img EXCEPT !.lsn = n, !.rows = f] BY DEF WithRow
<1>2. f[r] = x /\ \A q \in DOMAIN img.rows \ {r} : f[q] = img.rows[q] OBVIOUS
<1> HIDE DEF f
<1>3. w.rows = f BY <1>1 DEF HeapImage
<1> QED BY <1>2, <1>3 DEF Rows

\* Record L puts a row, or a mark, on the image g, which has the changes of K before it.
Puts(p, g, K, L, r, x, w) ==
    /\ L \in Nat /\ Image(p, g, K) /\ g.lsn < L /\ L <= Len(log)
    /\ InsertsOn(p) \subseteq Nat /\ DeletesOn(p) \subseteq Nat
    /\ \A i \in (InsertsOn(p) \cup DeletesOn(p)) \cap K : i < L => i <= g.lsn
    /\ \A j \in DeletesOn(p) : log[j].row < j
    /\ w = WithRow(g, r, x, L)
    /\ \/ L \in InsertsOn(p) /\ r = L /\ x = 0
       \/ /\ L \in DeletesOn(p) /\ r = log[L].row /\ x = log[L].txn /\ r \in Rows(g)
          /\ \A j \in DeletesOn(p) \cap K : log[j].row = r => L <= j

LEMMA ImagePut ==
  ASSUME NEW p, NEW g, NEW K, NEW L, NEW r, NEW x, NEW w, Puts(p, g, K, L, r, x, w)
  PROVE  Image(p, w, K)
<1> USE DEF Puts
<1>1. HeapImage(w) /\ Rows(w) = Rows(g) \cup {r} /\ w.lsn = L BY WithRowImage DEF Image
<1>2. w.rows[r] = x /\ \A q \in Rows(g) \ {r} : w.rows[q] = g.rows[q] BY WithRowRows DEF Image
<1>3. HeapImage(g) /\ g.lsn \in Nat BY DEF Image, HeapImage
<1>4. L \notin InsertsOn(p) \/ L \notin DeletesOn(p) BY DEF InsertsOn, DeletesOn
<1>5. ASSUME NEW q \in Rows(w)
      PROVE  q \in InsertsOn(p) /\ q <= L /\ (w.rows[q] # 0 => Marked(p, w, q))
  <2>1. CASE q \in Rows(g) /\ q # r
    <3>1. q \in InsertsOn(p) /\ q <= g.lsn /\ (g.rows[q] # 0 => Marked(p, g, q)) BY <2>1 DEF Image
    <3>2. w.rows[q] = g.rows[q] BY <2>1, <1>2
    <3>3. \A j \in DeletesOn(p) : j <= g.lsn => j <= L BY <1>3
    <3>4. Marked(p, g, q) => Marked(p, w, q) BY <3>2, <3>3, <1>1 DEF Marked
    <3>5. q <= L BY <3>1, <1>3
    <3> QED BY <3>1, <3>2, <3>4, <3>5
  <2>2. CASE q = r
    <3>1. CASE L \in InsertsOn(p) /\ r = L /\ x = 0 BY <2>2, <3>1, <1>2
    <3>2. CASE L \in DeletesOn(p) /\ r = log[L].row /\ x = log[L].txn /\ r \in Rows(g)
      <4>1. r \in InsertsOn(p) /\ r <= g.lsn BY <3>2 DEF Image
      <4>2. r <= L BY <4>1, <1>3
      <4>3. Marked(p, w, r) BY <3>2, <1>1, <1>2 DEF Marked
      <4> QED BY <2>2, <4>1, <4>2, <4>3
    <3> QED BY <3>1, <3>2
  <2> QED BY <2>1, <2>2, <1>1
<1>6. ASSUME NEW i \in InsertsOn(p) \cap K, i <= L PROVE i \in Rows(w) \/ Removed(p, i, L)
  <2>1. CASE i = L BY <2>1, <1>1, <1>4
  <2>2. CASE i # L
    <3>1. i <= g.lsn BY <1>6, <2>2
    <3>2. i \in Rows(g) \/ Removed(p, i, g.lsn) BY <3>1 DEF Image
    <3>3. \A j \in DeletesOn(p) : j <= g.lsn => j <= L BY <1>3
    <3>4. Removed(p, i, g.lsn) => Removed(p, i, L) BY <3>3 DEF Removed
    <3> QED BY <3>2, <3>4, <1>1
  <2> QED BY <2>1, <2>2
<1>7. ASSUME NEW j \in DeletesOn(p) \cap K, j <= L, log[j].row \in Rows(w)
      PROVE  w.rows[log[j].row] = log[j].txn
  <2>1. CASE j = L
    BY <2>1, <1>2, <1>4
  <2>2. CASE j # L
    <3>1. j <= g.lsn /\ j < L BY <1>7, <2>2
    <3>2. log[j].row # r
      <4>1. CASE L \in InsertsOn(p) /\ r = L
        <5>1. log[j].row < j BY <1>7
        <5> QED BY <4>1, <5>1, <3>1
      <4>2. CASE \A k \in DeletesOn(p) \cap K : log[k].row = r => L <= k
        <5>1. log[j].row = r => L <= j BY <4>2, <1>7
        <5> QED BY <5>1, <3>1
      <4> QED BY <4>1, <4>2
    <3>3. log[j].row \in Rows(g) BY <3>2, <1>1, <1>7
    <3>4. g.rows[log[j].row] = log[j].txn BY <3>1, <3>3 DEF Image
    <3> QED BY <3>2, <3>3, <3>4, <1>2
  <2> QED BY <2>1, <2>2
<1> QED BY <1>1, <1>5, <1>6, <1>7 DEF Image

\* The same of the next state.
PutSound == \A p, g, K, L, r, x, w : Puts(p, g, K, L, r, x, w) => Image(p, w, K)

LEMMA PutIsSound == PutSound
BY ImagePut DEF PutSound

LEMMA PutIsSoundNext == PutSound'
BY PutIsSound, PTL

\* A row, or a mark, is put on page p of a running server, and logged.
LEMMA RowPutSound ==
  ASSUME TypeInv, Onward, lost' = lost, Serving, NEW p \in Heap, SoundPage(p), DeletesSound(p),
         NEW rec, log' = Append(log, rec), rec.page = p,
         NEW row, NEW x, NEW m, m = mem[p], NEW w, w = WithRow(m, row, x, Len(log) + 1), mem'[p] = w,
         disk' = disk, durable' = durable,
         \/ rec.kind = "Insert" /\ row = Len(log) + 1 /\ x = 0
         \/ /\ rec.kind = "Delete" /\ row = rec.row /\ x = rec.txn /\ row \in Rows(m)
            /\ \A j \in DeletesOn(p) \cap Kept : log[j].row # row
  PROVE  SoundPage(p)' /\ DeletesSound(p)'
<1>L. PICK L : L = Len(log) + 1 OBVIOUS
<1>d. PICK d : d = disk[p] OBVIOUS
<1>K. PICK K : K = Kept OBVIOUS
<1>M. PICK M : M = Kept' OBVIOUS
<1>1. OneMore(log, rec, log') BY AppendOne DEF TypeInv
<1>2. /\ Len(log) \in Nat /\ DOMAIN log = 1..Len(log) /\ DOMAIN log' = 1..L /\ Len(log') = L
      /\ (\A i \in DOMAIN log : log'[i] = log[i]) /\ log'[L] = rec /\ L \in Nat
  BY <1>L, <1>1 DEF OneMore
<1>3. DOMAIN log' = DOMAIN log \cup {L} /\ \A i \in DOMAIN log : i \in Nat /\ i < L
  BY <1>L, <1>2
<1>4. /\ InsertsOn(p) \subseteq DOMAIN log /\ DeletesOn(p) \subseteq DOMAIN log
      /\ \A i \in InsertsOn(p)' : i \in InsertsOn(p) \/ (i = L /\ rec.kind = "Insert")
      /\ \A i \in DeletesOn(p)' : i \in DeletesOn(p) \/ (i = L /\ rec.kind = "Delete")
      /\ rec.kind = "Insert" => L \in InsertsOn(p)'
      /\ rec.kind = "Delete" => L \in DeletesOn(p)'
      /\ InsertsOn(p) \subseteq InsertsOn(p)'
  <2>1. InsertsOn(p)' = {i \in DOMAIN log' : log'[i].kind = "Insert" /\ log'[i].page = p} BY DEF InsertsOn
  <2>2. DeletesOn(p)' = {i \in DOMAIN log' : log'[i].kind = "Delete" /\ log'[i].page = p} BY DEF DeletesOn
  <2> QED BY <2>1, <2>2, <1>2, <1>3 DEF InsertsOn, DeletesOn
<1>5. InsertsOn(p)' \subseteq Nat /\ DeletesOn(p)' \subseteq Nat BY <1>2, <1>3, <1>4
<1>6. M \cap DOMAIN log \subseteq K BY <1>K, <1>M, OnwardKept
<1>7. Image(p, d, K) /\ d.lsn <= durable /\ Image(p, m, K) /\ CoversAll(p, m)
  BY <1>d, <1>K DEF SoundPage
<1>8. Image(p, d, Kept)' /\ Image(p, m, Kept)' BY <1>6, <1>7, <1>M, ImageOnward
<1>9. Image(p, m, M)' BY <1>8, <1>M DEF Image
<1>10. m.lsn \in Nat /\ m.lsn < L
  <2>1. m.lsn \in Nat /\ m.lsn <= Len(log) BY <1>7 DEF Image, HeapImage
  <2> QED BY <2>1, <1>2, <1>L
<1>11. rec.kind = "Delete" => row \in InsertsOn(p) /\ row < L
  BY <1>3, <1>4, <1>7 DEF Image
<1>12. \A j \in DeletesOn(p)' : log'[j].row \in InsertsOn(p)' /\ log'[j].row < j
  <2> TAKE j \in DeletesOn(p)'
  <2>1. CASE j \in DeletesOn(p)
    <3>1. log'[j] = log[j] BY <2>1, <1>2, <1>4
    <3> QED BY <2>1, <3>1, <1>4 DEF DeletesSound
  <2>2. CASE j = L /\ rec.kind = "Delete" BY <2>2, <1>2, <1>4, <1>11
  <2> QED BY <2>1, <2>2, <1>4
<1>13. \A i \in (InsertsOn(p)' \cup DeletesOn(p)') \cap M : i < L => i <= m.lsn
  <2> SUFFICES ASSUME NEW i \in (InsertsOn(p)' \cup DeletesOn(p)') \cap M, i < L PROVE i <= m.lsn OBVIOUS
  <2>1. i \in InsertsOn(p) \cup DeletesOn(p) BY <1>2, <1>4
  <2>2. i \notin lost BY <1>M DEF Kept
  <2> QED BY <2>1, <2>2, <1>7 DEF CoversAll
<1>14. \A j \in DeletesOn(p)' \cap M : rec.kind = "Delete" /\ log'[j].row = row => L <= j
  <2> SUFFICES ASSUME NEW j \in DeletesOn(p)' \cap M, rec.kind = "Delete", log'[j].row = row PROVE L <= j OBVIOUS
  <2>1. CASE j \in DeletesOn(p)
    <3>1. log'[j] = log[j] /\ j \in Kept BY <2>1, <1>2, <1>4, <1>6, <1>K
    <3> QED BY <2>1, <3>1
  <2>2. CASE j = L BY <2>2, <1>2
  <2> QED BY <2>1, <2>2, <1>4
<1>15. Puts(p, m, M, L, row, x, w)'
  <2>1. \/ L \in InsertsOn(p)' /\ row = L /\ x = 0
        \/ /\ L \in DeletesOn(p)' /\ row = log'[L].row /\ x = log'[L].txn /\ row \in Rows(m)
           /\ \A j \in DeletesOn(p)' \cap M : log'[j].row = row => L <= j
    <3>1. CASE rec.kind = "Insert" /\ row = Len(log) + 1 /\ x = 0 BY <3>1, <1>4, <1>L
    <3>2. CASE rec.kind = "Delete" /\ row = rec.row /\ x = rec.txn /\ row \in Rows(m)
      BY <3>2, <1>2, <1>4, <1>14
    <3> QED BY <3>1, <3>2
  <2>2. L <= Len(log') /\ w = WithRow(m, row, x, L) BY <1>2, <1>L
  <2> QED BY <2>1, <2>2, <1>2, <1>5, <1>9, <1>10, <1>12, <1>13 DEF Puts
<1>16. Image(p, w, Kept)'
  <2>1. Image(p, w, M)' BY <1>15, PutIsSoundNext DEF PutSound
  <2> QED BY <2>1, <1>M DEF Image
<1>17. CoversAll(p, w)'
  <2>1. HeapImage(m) /\ w = WithRow(m, row, x, L) BY <1>7, <1>L DEF Image
  <2>2. w.lsn = L BY <2>1, <1>2, WithRowImage
  <2>3. \A i \in InsertsOn(p)' \cup DeletesOn(p)' : i <= L BY <1>2, <1>3, <1>4
  <2> QED BY <2>2, <2>3 DEF CoversAll
<1>18. SoundPage(p)' BY <1>7, <1>8, <1>16, <1>17, <1>d, RunningSound
<1>19. DeletesSound(p)'
  <2>1. ASSUME NEW j \in DeletesOn(p)', j \in Kept', NEW k \in DeletesOn(p)', log'[k].row = log'[j].row
        PROVE  k <= j
    <3>1. CASE j = L BY <3>1, <1>2, <1>3, <1>4
    <3>2. CASE j \in DeletesOn(p)
      <4>1. j \in Kept /\ log'[j] = log[j] BY <2>1, <3>2, <1>2, <1>4, <1>6, <1>K, <1>M
      <4>2. CASE k \in DeletesOn(p)
        <5>1. log'[k] = log[k] BY <4>2, <1>2, <1>4
        <5> QED BY <2>1, <3>2, <4>1, <4>2, <5>1 DEF DeletesSound
      <4>3. CASE k = L /\ rec.kind = "Delete"
        <5>1. log'[k].row = row BY <4>3, <1>2
        <5> QED BY <2>1, <3>2, <4>1, <4>3, <5>1
      <4> QED BY <4>2, <4>3, <1>4
    <3> QED BY <3>1, <3>2, <1>4
  <2> QED BY <2>1, <1>12 DEF DeletesSound
<1> QED BY <1>18, <1>19

\* While the server runs, a step that changes one page.
LEMMA OnePageSound ==
  ASSUME TypeInv, RowsInv, Onward, NEW p \in Heap, phase = "run", phase' = "run",
         \A q \in Heap \ {p} : Aside(q), SoundPage(p)' /\ DeletesSound(p)', ChainOK'
  PROVE  RowsInv'
<1>1. \A q \in Heap : DeletesSound(q) /\ SoundPage(q) BY DEF RowsInv
<1>2. \A q \in Heap \ {p} : SoundPage(q)' /\ DeletesSound(q)' BY <1>1, SoundAside
<1>3. \A q \in Heap : SoundPage(q)' /\ DeletesSound(q)' BY <1>2
<1> QED BY <1>3 DEF RowsInv

LEMMA InsertKeepsRows ==
  ASSUME IInv, StartInv, RowsInv, NEW t \in Ids, InsertRow(t) \/ InsertFresh(t)
  PROVE  RowsInv'
<1>0. TypeInv /\ DOMAIN held = Ids BY DEF IInv, StartInv
<1>1. /\ lost' = lost /\ promised' = promised /\ phase = "run" /\ phase' = phase
      /\ disk' = disk /\ durable' = durable /\ alloc \subseteq alloc' /\ held[t] = None
  BY DEF InsertRow, InsertFresh, frames, system, rest, Working, Up
<1>2. Onward BY <1>0, <1>1, ChangeIsPlain, PlainIsOnward
<1>3. Serving /\ ChainOK /\ \A p \in Heap : DeletesSound(p) /\ SoundPage(p) BY <1>1 DEF RowsInv, Serving
<1>4. ASSUME NEW p \in Heap, InsertInto(t, p), NEW h, held' = [held EXCEPT ![t] = h],
             p = "Tail" => "Tail" \in alloc' /\ (mem["Head"].next = "Tail" \/ h = "unlinked"),
             h = "unlinked" => "Tail" \in alloc'
      PROVE  RowsInv'
  <2>1. PICK m : m = mem[p] OBVIOUS
  <2>2. PICK w : w = WithRow(m, Len(log) + 1, 0, Len(log) + 1) OBVIOUS
  <2> DEFINE rec == [kind |-> "Insert", txn |-> t, page |-> p]
  <2>3. PICK r : r = rec OBVIOUS
  <2>4. log' = Append(log, r) /\ mem' = [mem EXCEPT ![p] = w] BY <1>4, <2>1, <2>2, <2>3 DEF InsertInto
  <2>5. r.kind = "Insert" /\ r.page = p /\ r.txn = t BY <2>3
  <2> HIDE DEF rec
  <2>6. mem'[p] = w
    <3>1. p \in DOMAIN mem BY <1>0 DEF TypeInv, PageFile, Pages
    <3> QED BY <3>1, <2>4
  <2>7. \A q \in Heap \ {p} : Aside(q) BY <1>0, <1>1, <2>4, <2>5, OtherPageAside
  <2>8. SoundPage(p)' /\ DeletesSound(p)'
    BY <1>0, <1>1, <1>2, <1>3, <2>1, <2>2, <2>4, <2>5, <2>6, RowPutSound
  <2>9. mem'["Head"].next = mem["Head"].next
    <3>1. CASE p = "Head"
      <4>1. HeapImage(m) BY <2>1, <1>3 DEF SoundPage, Image
      <4>2. Len(log) + 1 \in Nat BY <1>0, LogIsSeq DEF TypeInv
      <4> QED BY <3>1, <4>1, <4>2, <2>1, <2>2, <2>6, WithRowImage
    <3>2. CASE p # "Head"
      <4>1. Aside("Head") BY <3>2, <2>7 DEF Heap
      <4> QED BY <4>1 DEF Aside
    <3> QED BY <3>1, <3>2
  <2>10. \A u \in Ids : held'[u] = "unlinked" => held[u] = "unlinked" \/ "Tail" \in alloc'
    BY <1>0, <1>4
  <2>11. StillLinked BY <2>9, <2>10, <1>1 DEF StillLinked
  <2>12. "Tail" \notin alloc' => InsertsOn("Tail")' = InsertsOn("Tail")
    <3>1. p # "Tail" => Aside("Tail") BY <2>7 DEF Heap
    <3> QED BY <3>1, <1>4 DEF Aside, SameOn
  <2>13. ASSUME NEW i \in InsertsOn("Tail")' \ DOMAIN log
         PROVE  mem'["Head"].next = "Tail" \/ held'[log'[i].txn] = "unlinked"
    <3>1. p = "Tail"
      <4>1. p # "Tail" => Aside("Tail") BY <2>7 DEF Heap
      <4>2. p # "Tail" => i \in InsertsOn("Tail") BY <4>1, <2>13 DEF Aside, SameOn
      <4> QED BY <4>2, <2>13 DEF InsertsOn
    <3>2. OneMore(log, r, log') BY <1>0, <2>4, AppendOne DEF TypeInv
    <3>3. log'[i] = r BY <2>13, <3>2 DEF OneMore, InsertsOn
    <3> QED BY <3>1, <3>3, <2>5, <2>9, <1>0, <1>4
  <2>14. \A u \in issued \ reused' : held[u] = "unlinked" => held'[u] = "unlinked"
    <3>1. issued \subseteq Ids BY <1>0 DEF TypeInv
    <3>2. \A u \in Ids \ {t} : held'[u] = held[u] BY <1>0, <1>4
    <3> QED BY <3>1, <3>2, <1>1 DEF None
  <2>15. ChainOK'
    BY <1>0, <1>1, <1>2, <1>3, <2>9, <2>11, <2>12, <2>13, <2>14, ChainKept DEF Serving
  <2> QED BY <1>0, <1>1, <1>2, <2>7, <2>8, <2>15, OnePageSound
<1>5. CASE InsertRow(t)
  <2>1. LastPage \in Heap /\ InsertInto(t, LastPage) /\ alloc' = alloc /\ held' = [held EXCEPT ![t] = LastPage]
    BY <1>5 DEF InsertRow, LastPage, Heap, frames
  <2>2. PICK p \in Heap : p = LastPage BY <2>1
  <2>3. p = "Tail" => mem["Head"].next = "Tail" /\ "Tail" \in alloc
    BY <2>2, <1>3 DEF LastPage, ChainOK, LinkOK
  <2>4. p # "unlinked" BY DEF Heap
  <2> QED BY <2>1, <2>2, <2>3, <2>4, <1>4
<1>6. CASE InsertFresh(t)
  <2>1. "Tail" \in Heap /\ InsertInto(t, "Tail") /\ "Tail" \in alloc' /\ held' = [held EXCEPT ![t] = "unlinked"]
    BY <1>6 DEF InsertFresh, Heap
  <2> QED BY <2>1, <1>4
<1> QED BY <1>5, <1>6

\* A change that is owed is of a transaction that committed or is at work.
LEMMA KeptStatus ==
  ASSUME TypeInv, EndInv, Serving, NEW i \in Kept
  PROVE  log[i].txn \in Ids \ {0} /\ Status(log[i].txn) # "Aborted"
<1>1. PICK t : t = log[i].txn OBVIOUS
<1>2. t \in issued /\ t \notin reused /\ t \in Ids
  BY <1>1 DEF Kept, TypeInv, RecordOK
<1>3. t # 0 BY <1>2 DEF Ids
<1>4. CASE t \in att
  <2>1. clog[t] = "InProgress" BY <1>2, <1>4 DEF EndInv, OpenStatus
  <2> QED BY <2>1, <1>1, <1>2, <1>3, <1>4 DEF Status
<1>5. CASE t \notin att
  <2>1. Promise(i) BY <1>1, <1>5 DEF Kept, EndInv, PromisesKept
  <2>2. CommitDurable(t) BY <2>1, <1>1, <1>2 DEF Promise
  <2>3. CommitLogged(t) BY <2>2 DEF CommitDurable, CommitLogged
  <2>4. clog[t] = "Committed" BY <2>3, <1>2, <1>5 DEF EndInv, Recorded
  <2> QED BY <2>4, <1>1, <1>2, <1>3 DEF Status
<1> QED BY <1>4, <1>5

LEMMA DeleteKeepsRows ==
  ASSUME IInv, StartInv, EndInv, RowsInv, NEW t \in Ids, NEW p \in Heap, NEW row \in 1..MaxLsn, DeleteRow(t, p, row)
  PROVE  RowsInv'
<1>0. TypeInv /\ DOMAIN held = Ids BY DEF IInv, StartInv
<1>1. /\ lost' = lost /\ promised' = promised /\ phase = "run" /\ phase' = phase
      /\ disk' = disk /\ durable' = durable /\ alloc' = alloc /\ held[t] = None
      /\ held' = [held EXCEPT ![t] = p] /\ row \in DOMAIN mem[p].rows
      /\ mem[p].rows[row] # 0 => Status(mem[p].rows[row]) = "Aborted"
  BY DEF DeleteRow, frames, system, rest, Working, Up
<1>2. Onward BY <1>0, <1>1, ChangeIsPlain, PlainIsOnward
<1>3. Serving /\ ChainOK /\ \A q \in Heap : DeletesSound(q) /\ SoundPage(q) BY <1>1 DEF RowsInv, Serving
<1> DEFINE rec == [kind |-> "Delete", txn |-> t, page |-> p, row |-> row]
<1>4. PICK m : m = mem[p] OBVIOUS
<1>5. PICK w : w = WithRow(m, row, t, Len(log) + 1) OBVIOUS
<1>6. PICK r : r = rec OBVIOUS
<1>7. log' = Append(log, r) /\ mem' = [mem EXCEPT ![p] = w] BY <1>4, <1>5, <1>6 DEF DeleteRow
<1>8. r.kind = "Delete" /\ r.page = p /\ r.row = row /\ r.txn = t BY <1>6
<1> HIDE DEF rec
<1>9. mem'[p] = w
  <2>1. p \in DOMAIN mem BY <1>0 DEF TypeInv, PageFile, Pages
  <2> QED BY <2>1, <1>7
<1>10. \A q \in Heap \ {p} : Aside(q) BY <1>0, <1>1, <1>7, <1>8, OtherPageAside
<1>11. Image(p, m, Kept) /\ CoversAll(p, m) BY <1>3, <1>4 DEF SoundPage
\* The row has the mark of a kept Delete, if there is one, and may then not be deleted.
<1>12. ASSUME NEW j \in DeletesOn(p) \cap Kept, log[j].row = row PROVE FALSE
  <2>1. j <= m.lsn BY <1>11 DEF CoversAll, Kept
  <2>2. m.rows[row] = log[j].txn BY <2>1, <1>1, <1>4, <1>11, <1>12 DEF Image, Rows
  <2>3. log[j].txn # 0 /\ Status(log[j].txn) # "Aborted" BY <1>0, <1>3, KeptStatus
  <2> QED BY <2>2, <2>3, <1>1, <1>4
<1>13. SoundPage(p)' /\ DeletesSound(p)'
  <2>1. r.kind = "Delete" /\ row = r.row /\ t = r.txn /\ row \in Rows(m)
        /\ \A j \in DeletesOn(p) \cap Kept : log[j].row # row
    BY <1>1, <1>4, <1>8, <1>12 DEF Rows
  <2>2. SoundPage(p) /\ DeletesSound(p) BY <1>3
  <2> QED BY <2>1, <2>2, <1>0, <1>1, <1>2, <1>3, <1>4, <1>5, <1>7, <1>8, <1>9, RowPutSound
<1>14. mem'["Head"].next = mem["Head"].next
  <2>1. CASE p = "Head"
    <3>1. HeapImage(m) BY <1>11 DEF Image
    <3>2. Len(log) + 1 \in Nat BY <1>0, LogIsSeq DEF TypeInv
    <3> QED BY <2>1, <3>1, <3>2, <1>4, <1>5, <1>9, WithRowImage
  <2>2. CASE p # "Head"
    <3>1. Aside("Head") BY <2>2, <1>10 DEF Heap
    <3> QED BY <3>1 DEF Aside
  <2> QED BY <2>1, <2>2
<1>15. \A u \in Ids \ {t} : held'[u] = held[u] BY <1>0, <1>1
<1>16. \A u \in Ids : held'[u] = "unlinked" => held[u] = "unlinked" BY <1>0, <1>1 DEF Heap
<1>17. StillLinked BY <1>1, <1>14, <1>16 DEF StillLinked
<1>18. OneMore(log, r, log') BY <1>0, <1>7, AppendOne DEF TypeInv
<1>19. InsertsOn("Tail")' = InsertsOn("Tail") /\ InsertsOn("Tail") \subseteq DOMAIN log
  <2>1. InsertsOn("Tail")' = {i \in DOMAIN log' : log'[i].kind = "Insert" /\ log'[i].page = "Tail"} BY DEF InsertsOn
  <2>2. DOMAIN log \subseteq DOMAIN log' /\ (\A i \in DOMAIN log : log'[i] = log[i])
        /\ \A i \in DOMAIN log' \ DOMAIN log : log'[i].kind = "Delete"
    BY <1>8, <1>18 DEF OneMore
  <2> QED BY <2>1, <2>2 DEF InsertsOn
<1>20. \A u \in issued \ reused' : held[u] = "unlinked" => held'[u] = "unlinked"
  <2>1. issued \subseteq Ids BY <1>0 DEF TypeInv
  <2> QED BY <2>1, <1>1, <1>15 DEF None
<1>21. ChainOK'
  BY <1>0, <1>1, <1>2, <1>3, <1>14, <1>17, <1>19, <1>20, ChainKept DEF Serving
<1> QED BY <1>0, <1>1, <1>2, <1>10, <1>13, <1>21, OnePageSound

\* VACUUM of a page, or a new link: only rows go whose deletion counts.
LEMMA TrimSound ==
  ASSUME TypeInv, Onward, log' = log, lost' = lost, Serving, NEW p \in Heap, SoundPage(p), DeletesSound(p),
         disk' = disk, durable' = durable, NEW m, m = mem[p], NEW w, mem'[p] = w,
         HeapImage(w), Rows(w) \subseteq Rows(m), \A r \in Rows(w) : w.rows[r] = m.rows[r],
         w.lsn >= m.lsn, w.lsn <= Len(log),
         \A r \in (Rows(m) \ Rows(w)) \cap Kept : Removed(p, r, m.lsn)
  PROVE  SoundPage(p)' /\ DeletesSound(p)'
<1>d. PICK d : d = disk[p] OBVIOUS
<1>K. PICK K : K = Kept OBVIOUS
<1>1. Kept' \cap DOMAIN log \subseteq K BY <1>K, OnwardKept
<1>2. Image(p, d, K) /\ d.lsn <= durable /\ Image(p, m, K) /\ CoversAll(p, m) /\ K \cap lost = {}
  BY <1>d, <1>K DEF SoundPage, Kept
<1>3. m.lsn \in Nat /\ w.lsn \in Nat /\ InsertsOn(p) \subseteq Nat /\ DeletesOn(p) \subseteq Nat
  BY <1>2, InsertsFinite DEF Image, HeapImage
<1>4. \A i \in InsertsOn(p) \cup DeletesOn(p) : i <= m.lsn => i <= w.lsn BY <1>3
<1>5. \A i : Removed(p, i, m.lsn) => Removed(p, i, w.lsn) BY <1>4 DEF Removed
<1>6. Image(p, w, K)
  <2>1. ASSUME NEW r \in Rows(w)
        PROVE  r \in InsertsOn(p) /\ r <= w.lsn /\ (w.rows[r] # 0 => Marked(p, w, r))
    <3>1. r \in InsertsOn(p) /\ r <= m.lsn /\ (m.rows[r] # 0 => Marked(p, m, r)) BY <1>2 DEF Image
    <3>2. w.rows[r] = m.rows[r] OBVIOUS
    <3>3. Marked(p, m, r) => Marked(p, w, r) BY <3>2, <1>4 DEF Marked
    <3> QED BY <3>1, <3>2, <3>3, <1>4
  <2>2. ASSUME NEW i \in InsertsOn(p) \cap K PROVE i \in Rows(w) \/ Removed(p, i, w.lsn)
    <3>1. i <= m.lsn BY <1>2 DEF CoversAll
    <3>2. i \in Rows(m) \/ Removed(p, i, m.lsn) BY <3>1, <1>2 DEF Image
    <3> QED BY <3>2, <1>5, <1>K
  <2>3. ASSUME NEW j \in DeletesOn(p) \cap K, log[j].row \in Rows(w) PROVE w.rows[log[j].row] = log[j].txn
    <3>1. j <= m.lsn BY <1>2 DEF CoversAll
    <3>2. m.rows[log[j].row] = log[j].txn BY <2>3, <3>1, <1>2 DEF Image
    <3> QED BY <2>3, <3>2
  <2> QED BY <2>1, <2>2, <2>3 DEF Image
<1>7. CoversAll(p, w)'
  <2>1. InsertsOn(p)' = InsertsOn(p) /\ DeletesOn(p)' = DeletesOn(p) BY DEF InsertsOn, DeletesOn
  <2> QED BY <2>1, <1>2, <1>4 DEF CoversAll
<1>8. Image(p, d, Kept)' /\ Image(p, w, Kept)' BY <1>1, <1>2, <1>6, ImageOnward
<1>9. SoundPage(p)' BY <1>2, <1>7, <1>8, <1>d, RunningSound
<1>10. DeletesSound(p)'
  <2>1. InsertsOn(p)' = InsertsOn(p) /\ DeletesOn(p)' = DeletesOn(p) BY DEF InsertsOn, DeletesOn
  <2>2. \A j \in DeletesOn(p) : j \in Kept' => j \in Kept BY <1>1, <1>K DEF DeletesOn
  <2> QED BY <2>1, <2>2 DEF DeletesSound
<1> QED BY <1>9, <1>10

\* What VACUUM removes of the changes that are owed was deleted, and the deletion counts.
LEMMA DeadIsRemoved ==
  ASSUME IInv, EndInv, Serving, NEW p, NEW m, Image(p, m, Kept), NEW r \in Rows(m) \cap Kept, NEW o, Dead(r, m.rows[r], o)
  PROVE  Removed(p, r, m.lsn)
<1>0. TypeInv BY DEF IInv
<1>1. Status(log[r].txn) # "Aborted" BY <1>0, KeptStatus
<1>2. PICK x : x = m.rows[r] OBVIOUS
<1>3. x # 0 /\ Status(x) = "Committed" BY <1>1, <1>2 DEF Dead, Xmin
<1>4. PICK j \in DeletesOn(p) : j <= m.lsn /\ log[j].row = r /\ log[j].txn = x
  BY <1>2, <1>3 DEF Image, Marked
<1>5. j \in DOMAIN log /\ log[j].kind \in Changes BY DEF DeletesOn, Changes
<1>6. x \in Ids /\ Writes(x) BY <1>0, <1>4, <1>5 DEF TypeInv, RecordOK, Writes
<1>7. clog[x] = "Committed" BY <1>3, <1>6 DEF Status
<1>8. x \notin reused => x \notin att /\ CommitDurable(x) BY <1>6, <1>7 DEF IInv, CommittedIsBacked
<1> QED BY <1>4, <1>8 DEF Removed

LEMMA VacuumKeepsRows ==
  ASSUME IInv, StartInv, EndInv, RowsInv, NEW t \in Ids, NEW p \in Heap, VacuumPage(t, p)
  PROVE  RowsInv'
<1>0. TypeInv /\ DOMAIN held = Ids BY DEF IInv, StartInv
<1>1. /\ lost' = lost /\ promised' = promised /\ phase = "run" /\ phase' = phase /\ log' = log
      /\ disk' = disk /\ durable' = durable /\ alloc' = alloc /\ held[t] = None
      /\ att' = att /\ reused' = reused
      /\ held' = [held EXCEPT ![t] = p] /\ t \in att /\ mode[t] = "vac"
  BY DEF VacuumPage, frames, system, rest, live, ids, Working, Up
<1>2. StillDurable BY <1>0, <1>1, DurableSame
<1>3. Onward BY <1>0, <1>1, <1>2 DEF Onward, TypeInv
<1>4. Serving /\ ChainOK /\ \A q \in Heap : DeletesSound(q) /\ SoundPage(q) BY <1>1 DEF RowsInv, Serving
<1>5. PICK m : m = mem[p] OBVIOUS
<1>6. Image(p, m, Kept) BY <1>4, <1>5 DEF SoundPage
<1> DEFINE keep == {r \in DOMAIN m.rows : ~Dead(r, m.rows[r], horizon[t])}
<1>7. PICK f : f = [r \in keep |-> m.rows[r]] OBVIOUS
<1>8. PICK n : n = Max({m.lsn, Stamp(t)}) OBVIOUS
<1>9. mem' = [mem EXCEPT ![p].rows = f, ![p].lsn = n] BY <1>5, <1>7, <1>8 DEF VacuumPage
<1>10. /\ DOMAIN f \subseteq DOMAIN m.rows /\ \A r \in DOMAIN f : f[r] = m.rows[r]
       /\ \A r \in DOMAIN m.rows \ DOMAIN f : Dead(r, m.rows[r], horizon[t])
  BY <1>7
<1> HIDE DEF keep
<1>11. p \in DOMAIN mem /\ HeapImage(m) /\ m.lsn \in Nat /\ m.lsn <= Len(log)
  BY <1>0, <1>6 DEF TypeInv, PageFile, Pages, Image, HeapImage
<1>12. Stamp(t) \in Nat /\ Stamp(t) <= Len(log)
  <2> DEFINE S == {i \in DOMAIN log : log[i].kind = "Begin" /\ log[i].txn = t}
  <2>1. S # {} BY <1>1 DEF IInv, VacuumBegan, BeginLogged
  <2>2. Len(log) \in Nat /\ S \subseteq 0..Len(log) BY <1>0, LogIsSeq DEF TypeInv
  <2>3. Stamp(t) = Max(S) BY DEF Stamp
  <2> HIDE DEF S
  <2>4. Max(S) \in S BY <2>1, <2>2, MaxIsMember
  <2>5. PICK x \in S : x = Max(S) BY <2>4
  <2>6. x \in Nat /\ x <= Len(log)
    <3>1. x \in 0..Len(log) BY <2>2
    <3> QED BY <3>1, <2>2
  <2> QED BY <2>3, <2>5, <2>6
<1>13. n \in Nat /\ n >= m.lsn /\ n <= Len(log)
  <2>1. PICK a : a = m.lsn OBVIOUS
  <2>2. PICK b : b = Stamp(t) OBVIOUS
  <2>3. a \in Nat /\ b \in Nat /\ n = Max({a, b}) /\ a <= Len(log) /\ b <= Len(log)
    BY <2>1, <2>2, <1>8, <1>11, <1>12
  <2>4. \E x \in {a, b} : \A y \in {a, b} : x >= y BY <2>3
  <2>5. Max({a, b}) \in {a, b} /\ \A y \in {a, b} : Max({a, b}) >= y BY <2>4 DEF Max
  <2> QED BY <2>1, <2>3, <2>5
<1>14. PICK w : w = mem'[p] OBVIOUS
<1>15. w = [m EXCEPT !.rows = f, !.lsn = n] BY <1>5, <1>9, <1>11, <1>14
<1>16. DOMAIN w = DOMAIN m /\ w.rows = f /\ w.lsn = n /\ w.next = m.next BY <1>11, <1>15 DEF HeapImage
<1>17. HeapImage(w) /\ Rows(w) \subseteq Rows(m) /\ \A r \in Rows(w) : w.rows[r] = m.rows[r]
  BY <1>10, <1>11, <1>13, <1>16 DEF HeapImage, Rows
<1>18. ASSUME NEW r \in (Rows(m) \ Rows(w)) \cap Kept PROVE Removed(p, r, m.lsn)
  <2>1. Dead(r, m.rows[r], horizon[t]) BY <1>10, <1>16 DEF Rows
  <2> QED BY <2>1, <1>4, <1>6, DeadIsRemoved
<1>19. SoundPage(p)' /\ DeletesSound(p)'
  <2>1. SoundPage(p) /\ DeletesSound(p) /\ w.lsn >= m.lsn /\ w.lsn <= Len(log) /\ mem'[p] = w
    BY <1>4, <1>13, <1>14, <1>16
  <2> QED BY <2>1, <1>0, <1>1, <1>3, <1>4, <1>5, <1>17, <1>18, TrimSound
<1>20. \A q \in Heap \ {p} : Aside(q)
  <2>1. \A q \in Heap \ {p} : mem'[q] = mem[q]
    <3> TAKE q \in Heap \ {p}
    <3>1. q # p /\ q \in DOMAIN mem BY <1>0 DEF TypeInv, PageFile, Pages
    <3> QED BY <3>1, <1>9
  <2> QED BY <2>1, <1>0, <1>1, <1>2, RestAside
<1>21. mem'["Head"].next = mem["Head"].next
  <2>1. CASE p = "Head" BY <2>1, <1>5, <1>14, <1>16
  <2>2. CASE p # "Head"
    <3>1. Aside("Head") BY <2>2, <1>20 DEF Heap
    <3> QED BY <3>1 DEF Aside
  <2> QED BY <2>1, <2>2
<1>22. \A u \in Ids : held'[u] = "unlinked" <=> held[u] = "unlinked"
  BY <1>0, <1>1 DEF Heap, None
<1>23. StillLinked BY <1>1, <1>21, <1>22 DEF StillLinked
<1>24. InsertsOn("Tail")' = InsertsOn("Tail") /\ InsertsOn("Tail") \subseteq DOMAIN log BY <1>1 DEF InsertsOn
<1>25. ChainOK'
  <2>1. \A u \in issued \ reused' : held[u] = "unlinked" => held'[u] = "unlinked" BY <1>0, <1>22 DEF TypeInv
  <2> QED BY <2>1, <1>0, <1>1, <1>3, <1>4, <1>21, <1>23, <1>24, ChainKept DEF Serving
<1> QED BY <1>0, <1>1, <1>3, <1>19, <1>20, <1>25, OnePageSound

LEMMA LinkKeepsRows ==
  ASSUME IInv, StartInv, RowsInv, NEW t \in Ids, Link(t)
  PROVE  RowsInv'
<1>0. TypeInv /\ DOMAIN held = Ids BY DEF IInv, StartInv
<1>1. /\ lost' = lost /\ promised' = promised /\ phase = "run" /\ phase' = phase /\ log' = log
      /\ disk' = disk /\ durable' = durable /\ alloc' = alloc
      /\ held[t] = "unlinked" /\ held' = [held EXCEPT ![t] = "Head"]
      /\ mem' = [mem EXCEPT !["Head"].next = "Tail"]
  BY DEF Link, frames, system, rest, Up
<1>2. Onward BY <1>0, <1>1, PageStepIsPlain, PlainIsOnward
<1>3. Serving /\ ChainOK /\ \A q \in Heap : DeletesSound(q) /\ SoundPage(q) BY <1>1 DEF RowsInv, Serving
<1>4. PICK m : m = mem["Head"] OBVIOUS
<1>5. PICK w : w = mem'["Head"] OBVIOUS
<1>6. "Head" \in DOMAIN mem /\ "Head" \in Heap BY <1>0 DEF TypeInv, PageFile, Pages, Heap
<1>7. w = [m EXCEPT !.next = "Tail"] BY <1>1, <1>4, <1>5, <1>6
<1>8. HeapImage(m) /\ m.lsn <= Len(log) /\ m.lsn \in Nat BY <1>3, <1>4, <1>6 DEF SoundPage, Image, HeapImage
<1>9. DOMAIN w = DOMAIN m /\ w.rows = m.rows /\ w.lsn = m.lsn /\ w.next = "Tail" BY <1>7, <1>8 DEF HeapImage
<1>10. SoundPage("Head")' /\ DeletesSound("Head")'
  <2>1. HeapImage(w) /\ Rows(w) = Rows(m) /\ w.lsn >= m.lsn /\ w.lsn <= Len(log)
    BY <1>8, <1>9 DEF HeapImage, Rows
  <2>2. SoundPage("Head") /\ DeletesSound("Head") /\ mem'["Head"] = w BY <1>3, <1>5, <1>6
  <2> QED BY <2>1, <2>2, <1>0, <1>1, <1>2, <1>3, <1>4, <1>6, <1>9, TrimSound
<1>11. \A q \in Heap \ {"Head"} : Aside(q)
  <2>1. \A q \in Heap \ {"Head"} : mem'[q] = mem[q]
    <3> TAKE q \in Heap \ {"Head"}
    <3>1. q # "Head" /\ q \in DOMAIN mem BY <1>0 DEF TypeInv, PageFile, Pages
    <3> QED BY <3>1, <1>1
  <2>2. StillDurable BY <1>0, <1>1, DurableSame
  <2> QED BY <2>1, <2>2, <1>0, <1>1, RestAside
<1>12. mem'["Head"].next = "Tail" BY <1>5, <1>9
<1>13. "Tail" \in alloc' BY <1>1, <1>3 DEF ChainOK, LinkOK
<1>14. StillLinked BY <1>1, <1>13 DEF StillLinked
<1>15. InsertsOn("Tail")' = InsertsOn("Tail") BY <1>1 DEF InsertsOn
<1>16. ChainOK' BY <1>0, <1>1, <1>2, <1>3, <1>12, <1>14, <1>15, ChainKept DEF Serving
<1> QED BY <1>0, <1>1, <1>2, <1>6, <1>10, <1>11, <1>16, OnePageSound

\* The page is written: the file has what memory has.
LEMMA WriteSound ==
  ASSUME TypeInv, Onward, log' = log, lost' = lost, Serving, NEW p \in Heap, SoundPage(p), DeletesSound(p),
         NEW m, m = mem[p], mem'[p] = m, disk'[p] = m, m.lsn <= durable'
  PROVE  SoundPage(p)' /\ DeletesSound(p)'
<1>K. PICK K : K = Kept OBVIOUS
<1>1. Kept' \cap DOMAIN log \subseteq K BY <1>K, OnwardKept
<1>2. Image(p, m, K) /\ CoversAll(p, m) BY <1>K DEF SoundPage
<1>3. InsertsOn(p)' = InsertsOn(p) /\ DeletesOn(p)' = DeletesOn(p) BY DEF InsertsOn, DeletesOn
<1>4. CoversAll(p, m)' BY <1>2, <1>3 DEF CoversAll
<1>5. Image(p, m, Kept)' BY <1>1, <1>2, ImageOnward
<1>6. SoundPage(p)' BY <1>4, <1>5, RunningSound
<1>7. DeletesSound(p)'
  <2>1. \A j \in DeletesOn(p) : j \in Kept' => j \in Kept BY <1>1, <1>K DEF DeletesOn
  <2> QED BY <2>1, <1>3 DEF DeletesSound
<1> QED BY <1>6, <1>7

LEMMA WriteKeepsRows ==
  ASSUME IInv, StartInv, RowsInv, NEW p \in Pages, WritePage(p)
  PROVE  RowsInv'
<1>0. TypeInv BY DEF IInv
<1>1. /\ lost' = lost /\ promised' = promised /\ phase = "run" /\ phase' = phase /\ log' = log
      /\ mem' = mem /\ alloc' = alloc /\ held' = held
      /\ disk' = [disk EXCEPT ![p] = mem[p]] /\ durable' = Max({durable, mem[p].lsn}) /\ exposed' = exposed
  BY DEF WritePage, system, rest, txns, Up
<1>2. DOMAIN disk = Pages /\ mem[p].lsn \in Nat /\ durable \in Nat BY <1>0 DEF TypeInv, PageFile
<1>3. Onward BY <1>0, <1>1, PageStepIsPlain, PlainIsOnward
<1>4. StillDurable BY <1>3 DEF Onward
<1>5. \A q \in Heap \ {p} : Aside(q)
  <2>1. \A q \in Heap \ {p} : disk'[q] = disk[q] BY <1>1, <1>2 DEF Pages
  <2> QED BY <2>1, <1>0, <1>1, <1>4, RestAside
<1>6. disk'["Head"] \in {disk["Head"], mem["Head"]} BY <1>1, <1>2 DEF Pages, Heap
<1>7. StillLinked BY <1>1, <1>6 DEF StillLinked
<1>8. CASE p \notin Heap
  <2>1. \A q \in Heap : Aside(q) BY <1>5, <1>8
  <2>2. Bystander BY <2>1, <1>1, <1>7 DEF Bystander, StartInv
  <2> QED BY <2>2, <1>0, <1>1, <1>3, BystanderKeepsRows
<1>9. CASE p \in Heap
  <2>1. Serving /\ ChainOK /\ SoundPage(p) /\ DeletesSound(p) BY <1>1, <1>9 DEF RowsInv, Serving
  <2>2. PICK m : m = mem[p] OBVIOUS
  <2>3. disk'[p] = m /\ mem'[p] = m BY <2>2, <1>1, <1>2
  <2>4. m.lsn <= durable'
    <3>1. PICK a : a = m.lsn OBVIOUS
    <3>2. a \in Nat /\ durable' = Max({durable, a}) BY <3>1, <2>2, <1>1, <1>2
    <3>3. {a, durable} = {durable, a} OBVIOUS
    <3>4. Max({a, durable}) \in Nat /\ Max({a, durable}) >= a BY <3>2, <1>2, TwoMax
    <3>5. durable' \in Nat /\ durable' >= a BY <3>2, <3>3, <3>4
    <3> QED BY <3>1, <3>2, <3>5
  <2>5. SoundPage(p)' /\ DeletesSound(p)' BY <2>1, <2>2, <2>3, <2>4, <1>0, <1>1, <1>3, <1>9, WriteSound
  <2>6. InsertsOn("Tail")' = InsertsOn("Tail") /\ InsertsOn("Tail") \subseteq DOMAIN log BY <1>1 DEF InsertsOn
  <2>7. ChainOK' BY <2>1, <2>6, <1>0, <1>1, <1>3, <1>6, <1>7, ChainKept DEF Serving
  <2> QED BY <2>5, <2>7, <1>0, <1>1, <1>3, <1>5, <1>9, OnePageSound
<1> QED BY <1>8, <1>9

LEMMA RecoverPagesKeepsRows ==
  ASSUME IInv, StartInv, RowsInv, RecoverPages
  PROVE  RowsInv'
<1>0. TypeInv BY DEF IInv
<1>1. /\ lost' = lost /\ promised' = promised /\ phase = "pages" /\ phase' = "run" /\ log' = log
      /\ mem' = mem /\ alloc' = alloc /\ held' = held /\ disk' = mem /\ durable' = durable
  BY DEF RecoverPages, rest, txns
<1>2. Onward BY <1>0, <1>1, PageStepIsPlain, PlainIsOnward
<1>3. Serving /\ ChainOK /\ durable = Len(log) /\ \A q \in Heap : DeletesSound(q) /\ SoundPage(q)
  BY <1>1 DEF RowsInv, Serving
<1>4. ASSUME NEW p \in Heap PROVE SoundPage(p)' /\ DeletesSound(p)'
  <2>1. PICK m : m = mem[p] OBVIOUS
  <2>2. m.lsn <= durable' BY <2>1, <1>1, <1>3 DEF SoundPage, Image
  <2> QED BY <2>1, <2>2, <1>0, <1>1, <1>2, <1>3, WriteSound
<1>5. StillLinked BY <1>1 DEF StillLinked
<1>6. InsertsOn("Tail")' = InsertsOn("Tail") /\ InsertsOn("Tail") \subseteq DOMAIN log BY <1>1 DEF InsertsOn
<1>7. ChainOK' BY <1>0, <1>1, <1>2, <1>3, <1>5, <1>6, ChainKept DEF Serving
<1> QED BY <1>1, <1>4, <1>7 DEF RowsInv

\* A kill leaves the pages of the file, with the records they need.
LEMMA KillKeepsRows ==
  ASSUME IInv, StartInv, RowsInv, NEW n \in durable..Len(log), Kill(n)
  PROVE  RowsInv'
<1>0. TypeInv BY DEF IInv
<1>a. /\ log' = SubSeq(log, 1, n) /\ durable' = n /\ disk' = disk /\ mem' = disk /\ phase # "failed" /\ phase' = "down"
      /\ lost' = lost /\ alloc' = alloc /\ held' = [t \in Ids |-> None] /\ promised' = promised
      /\ att' = {} /\ reused' = reused
  BY DEF Kill, ids
<1>b. Len(log) \in Nat /\ DOMAIN log = 1..Len(log) /\ durable \in Nat /\ n \in 0..Len(log) /\ durable <= n
      /\ n \in Nat
  <2>1. Len(log) \in Nat /\ DOMAIN log = 1..Len(log) BY <1>0, LogIsSeq DEF TypeInv
  <2>2. durable \in Nat BY <1>0 DEF TypeInv
  <2> QED BY <2>1, <2>2
<1>c. DOMAIN log' = 1..n /\ Len(log') = n /\ \A i \in 1..n : log'[i] = log[i]
  <2>1. PrefixOf(log, n, log') BY <1>0, <1>a, <1>b, SubSeqIsPrefix DEF TypeInv
  <2> QED BY <2>1 DEF PrefixOf
<1>d. /\ \A i : i \in DOMAIN log' <=> i \in DOMAIN log /\ i <= n
      /\ \A i \in DOMAIN log' : log'[i] = log[i]
  BY <1>b, <1>c
<1>e. Kept' \subseteq Kept BY <1>a, <1>d DEF Kept
<1>f. ChainOK /\ \A p \in Heap : DeletesSound(p) /\ SoundPage(p) BY <1>a DEF RowsInv
<1>1. ASSUME NEW p PROVE /\ InsertsOn(p)' = {i \in InsertsOn(p) : i <= n}
                         /\ DeletesOn(p)' = {i \in DeletesOn(p) : i <= n}
  <2>1. InsertsOn(p)' = {i \in DOMAIN log' : log'[i].kind = "Insert" /\ log'[i].page = p} BY DEF InsertsOn
  <2>2. DeletesOn(p)' = {i \in DOMAIN log' : log'[i].kind = "Delete" /\ log'[i].page = p} BY DEF DeletesOn
  <2> QED BY <2>1, <2>2, <1>d DEF InsertsOn, DeletesOn
<1>2. ASSUME NEW p \in Heap PROVE SoundPage(p)' /\ DeletesSound(p)'
  <2>1. PICK d : d = disk[p] OBVIOUS
  <2>2. PICK K : K = Kept OBVIOUS
  <2>3. Image(p, d, K) /\ d.lsn <= durable BY <2>1, <2>2, <1>f DEF SoundPage
  <2>4. d.lsn \in Nat /\ d.lsn <= n /\ HeapImage(d)
    <3>1. d.lsn \in Nat /\ HeapImage(d) BY <2>3 DEF Image, HeapImage
    <3> QED BY <3>1, <2>3, <1>b
  <2>5. InsertsOn(p) \subseteq Nat /\ DeletesOn(p) \subseteq Nat BY <1>0, InsertsFinite
  <2>6. /\ \A i \in InsertsOn(p) : i <= d.lsn => i \in InsertsOn(p)'
        /\ \A i \in DeletesOn(p) : i <= d.lsn => i \in DeletesOn(p)'
    BY <2>4, <2>5, <1>1, <1>b
  <2>7. \A i \in DeletesOn(p)' : i \in DeletesOn(p) /\ i <= n /\ log'[i] = log[i]
    <3>1. DeletesOn(p)' \subseteq DOMAIN log' BY DEF DeletesOn
    <3> QED BY <3>1, <1>1, <1>d
  <2>8. ASSUME NEW r \in Rows(d)
        PROVE  r \in InsertsOn(p)' /\ r <= d.lsn /\ (d.rows[r] # 0 => Marked(p, d, r)')
    <3>1. r \in InsertsOn(p) /\ r <= d.lsn /\ (d.rows[r] # 0 => Marked(p, d, r)) BY <2>3 DEF Image
    <3>2. Marked(p, d, r) => Marked(p, d, r)' BY <2>6, <2>7 DEF Marked
    <3> QED BY <3>1, <3>2, <2>6
  <2>9. \A u : CommitDurable(u) => CommitDurable(u)'
    <3> SUFFICES ASSUME NEW u, NEW i \in DOMAIN log, i <= durable, log[i].kind = "Commit", log[i].txn = u
                 PROVE  CommitDurable(u)'
      BY DEF CommitDurable
    <3>1. i \in DOMAIN log' /\ log'[i] = log[i] /\ i <= n
      <4>1. i \in 1..n BY <1>b
      <4> QED BY <4>1, <1>c, <1>b
    <3> QED BY <3>1, <1>a DEF CommitDurable
  <2>10. ASSUME NEW i, Removed(p, i, d.lsn) PROVE Removed(p, i, d.lsn)'
    <3>1. PICK j \in DeletesOn(p) :
            /\ j <= d.lsn /\ log[j].row = i
            /\ log[j].txn \in reused \/ (log[j].txn \notin att /\ CommitDurable(log[j].txn))
      BY <2>10 DEF Removed
    <3>2. j \in DeletesOn(p)' /\ log'[j] = log[j] BY <3>1, <2>6, <2>7
    <3>3. PICK u : u = log[j].txn OBVIOUS
    <3>4. u \in reused' \/ (u \notin att' /\ CommitDurable(u)') BY <3>1, <3>3, <2>9, <1>a
    <3>5. (log[j].txn \in reused \/ (log[j].txn \notin att /\ CommitDurable(log[j].txn)))'
      <4>1. log'[j].txn = u BY <3>2, <3>3
      <4> QED BY <4>1, <3>4 DEF CommitDurable
    <3> QED BY <3>1, <3>2, <3>5 DEF Removed
  <2>11. ASSUME NEW i \in InsertsOn(p)' \cap Kept', i <= d.lsn PROVE i \in Rows(d) \/ Removed(p, i, d.lsn)'
    <3>1. i \in InsertsOn(p) /\ i \in K BY <2>2, <1>1, <1>e
    <3> QED BY <3>1, <2>3, <2>10, <2>11 DEF Image
  <2>12. ASSUME NEW j \in DeletesOn(p)' \cap Kept', j <= d.lsn, log'[j].row \in Rows(d)
         PROVE  d.rows[log'[j].row] = log'[j].txn
    <3>1. j \in DeletesOn(p) /\ j \in K /\ log'[j] = log[j] BY <2>2, <2>7, <1>e
    <3> QED BY <3>1, <2>3, <2>12 DEF Image
  <2>13. d.lsn <= Len(log') BY <2>4, <1>c
  <2>14. Image(p, d, Kept)' BY <2>4, <2>8, <2>11, <2>12, <2>13 DEF Image
  <2>15. disk'[p] = d BY <2>1, <1>a
  <2>16. Image(p, disk[p], Kept)' BY <2>14, <2>15 DEF Image, Marked
  <2>17. SoundPage(p)' BY <2>4, <2>15, <2>16, <1>a DEF SoundPage, Serving
  <2>18. ASSUME NEW j \in DeletesOn(p)'
         PROVE  /\ log'[j].row \in InsertsOn(p)' /\ log'[j].row < j
                /\ j \in Kept' => \A k \in DeletesOn(p)' : log'[k].row = log'[j].row => k <= j
    <3>1. j \in DeletesOn(p) /\ j \in Nat /\ j <= n /\ log'[j] = log[j] BY <2>5, <2>7
    <3>2. PICK r : r = log[j].row OBVIOUS
    <3>3. r \in InsertsOn(p) /\ r < j BY <3>1, <3>2, <1>f DEF DeletesSound
    <3>4. r \in Nat /\ r <= n BY <3>1, <3>3, <2>5, <1>b
    <3>5. r \in InsertsOn(p)' BY <3>3, <3>4, <1>1
    <3>6. j \in Kept' => \A k \in DeletesOn(p)' : log'[k].row = log'[j].row => k <= j
      BY <3>1, <2>7, <1>e, <1>f DEF DeletesSound
    <3> QED BY <3>1, <3>2, <3>3, <3>5, <3>6
  <2>19. DeletesSound(p)' BY <2>18 DEF DeletesSound
  <2> QED BY <2>17, <2>19
<1>3. ChainOK'
  <2>1. InsertsOn("Tail")' \subseteq InsertsOn("Tail") BY <1>1
  <2>2. LinkOK' BY <1>a, <1>f DEF ChainOK, LinkOK, None
  <2> QED BY <2>1, <2>2, <1>a, <1>f DEF ChainOK, Serving
<1> QED BY <1>2, <1>3, <1>a DEF RowsInv

-----------------------------------------------------------------------------
(* Redo, whatever it skips.                                                *)

\* The changes of page p that lie below the redo point and are not in the file.
Skipped(p) == {i \in InsertsOn(p) \cup DeletesOn(p) : i < RedoStart /\ disk[p].lsn < i}

\* Page p after redo of the first k records: it has every change that was not skipped.
SoundAfter(k, p, img) ==
    /\ Image(p, img, Kept \ Skipped(p)) /\ img.next = disk[p].next /\ disk[p].lsn <= img.lsn
    /\ \A i \in (InsertsOn(p) \cup DeletesOn(p)) \ Skipped(p) : i <= k => i <= img.lsn

RedoSound(k, st) ==
    /\ RedoState(st) /\ alloc \subseteq st.alloc
    /\ ~st.fail => \A p \in Heap : SoundAfter(k, p, st.pages[p])

\* What redo starts from.
Resumable ==
    /\ TypeInv /\ "Head" \in alloc /\ ("Tail" \notin alloc => InsertsOn("Tail") = {})
    /\ \A p \in Heap : DeletesSound(p) /\ Image(p, disk[p], Kept)

\* A page that record k is not about, or that has it, or that goes without it.
LEMMA RedoPasses ==
  ASSUME Resumable, NEW p \in Heap, NEW k \in DOMAIN log, NEW img, SoundAfter(k - 1, p, img),
         k \notin InsertsOn(p) \cup DeletesOn(p) \/ img.lsn >= k \/ k \in Skipped(p)
  PROVE  SoundAfter(k, p, img)
<1>1. TypeInv BY DEF Resumable
<1>2. k \in Nat /\ k >= 1 BY <1>1, LogIsSeq DEF TypeInv
<1>3. InsertsOn(p) \subseteq Nat /\ DeletesOn(p) \subseteq Nat BY <1>1, InsertsFinite
<1>4. img.lsn \in Nat BY DEF SoundAfter, Image, HeapImage
<1>5. ASSUME NEW i \in (InsertsOn(p) \cup DeletesOn(p)) \ Skipped(p), i <= k PROVE i <= img.lsn
  <2>1. CASE i = k BY <2>1, <1>2, <1>4
  <2>2. CASE i # k
    <3>1. i <= k - 1 BY <2>2, <1>2, <1>3, <1>5
    <3> QED BY <3>1 DEF SoundAfter
  <2> QED BY <2>1, <2>2
<1> QED BY <1>5 DEF SoundAfter

\* The page gets the row, or the mark, of record k.
LEMMA RedoPutsSound ==
  ASSUME Resumable, NEW p \in Heap, NEW k \in DOMAIN log, NEW img, SoundAfter(k - 1, p, img),
         ~(img.lsn >= k), NEW r, NEW x, NEW w, w = WithRow(img, r, x, k),
         \/ k \in InsertsOn(p) /\ r = k /\ x = 0
         \/ k \in DeletesOn(p) /\ r = log[k].row /\ x = log[k].txn /\ r \in Rows(img)
  PROVE  SoundAfter(k, p, w)
<1>1. TypeInv /\ DeletesSound(p) /\ Image(p, disk[p], Kept) BY DEF Resumable
<1>2. k \in Nat /\ k >= 1 /\ k <= Len(log) BY <1>1, LogIsSeq DEF TypeInv
<1>3. InsertsOn(p) \subseteq Nat /\ DeletesOn(p) \subseteq Nat BY <1>1, InsertsFinite
<1>4. PICK K : K = Kept \ Skipped(p) OBVIOUS
<1>5. Image(p, img, K) /\ HeapImage(img) /\ img.lsn \in Nat BY <1>4 DEF SoundAfter, Image, HeapImage
<1>6. img.lsn < k BY <1>2, <1>5
<1>7. ASSUME NEW i \in (InsertsOn(p) \cup DeletesOn(p)) \cap K, i < k PROVE i <= img.lsn
  <2>1. i <= k - 1 BY <1>2, <1>3, <1>7
  <2> QED BY <2>1, <1>4 DEF SoundAfter
<1>8. \A j \in DeletesOn(p) : log[j].row < j BY <1>1 DEF DeletesSound
<1>9. k \in DeletesOn(p) => \A j \in DeletesOn(p) \cap K : log[j].row = log[k].row => k <= j
  BY <1>1, <1>4 DEF DeletesSound
<1>10. Puts(p, img, K, k, r, x, w) BY <1>2, <1>3, <1>5, <1>6, <1>7, <1>8, <1>9 DEF Puts
<1>11. Image(p, w, K) BY <1>10, ImagePut
<1>12. w.lsn = k /\ w.next = img.next BY <1>2, <1>5, WithRowImage
<1>13. disk[p].lsn <= w.lsn
  <2>1. PICK d : d = disk[p] OBVIOUS
  <2>2. d.lsn \in Nat /\ d.lsn <= img.lsn BY <2>1, <1>1 DEF SoundAfter, Image, HeapImage
  <2> QED BY <2>1, <2>2, <1>2, <1>5, <1>6, <1>12
<1> QED BY <1>4, <1>11, <1>12, <1>13 DEF SoundAfter

LEMMA RedoOfSound ==
  ASSUME Resumable, NEW k \in DOMAIN log, NEW st, RedoSound(k - 1, st)
  PROVE  RedoSound(k, RedoRecord(st, k))
<1> DEFINE rec == log[k]
<1>0. TypeInv BY DEF Resumable
<1>1. k \in Nat /\ k >= 1 /\ RecordOK(rec) BY <1>0, LogIsSeq DEF TypeInv
<1>2. RedoState(st) /\ alloc \subseteq st.alloc /\ DOMAIN st = {"pages", "alloc", "fail"}
  BY DEF RedoSound, RedoState
<1>3. PICK st2 : st2 = RedoRecord(st, k) OBVIOUS
<1>4. RedoState(st2) BY <1>0, <1>2, <1>3, RedoRecordShape
<1>5. Heap \subseteq Pages /\ "Seq" \in Pages \ Heap BY DEF Pages, Heap
\* It is enough to look at a record that goes through, and at the page it is about.
<1>6. ASSUME NEW p \in Heap, \A q \in Heap \ {p} : k \notin InsertsOn(q) \cup DeletesOn(q), ~st.fail,
             NEW w, SoundAfter(k, p, w), Put(st, p, w, st2)
      PROVE  RedoSound(k, st2)
  <2>1. \A q \in Heap \ {p} : SoundAfter(k, q, st.pages[q]) BY <1>6, RedoPasses DEF RedoSound
  <2>2. ASSUME NEW q \in Heap PROVE SoundAfter(k, q, st2.pages[q])
    <3>1. CASE q = p BY <1>6, <3>1 DEF Put
    <3>2. CASE q # p
      <4>1. st2.pages[q] = st.pages[q] BY <1>5, <1>6, <3>2 DEF Put
      <4> QED BY <2>1, <3>2, <4>1
    <3> QED BY <3>1, <3>2
  <2>3. alloc \subseteq st2.alloc BY <1>2, <1>6 DEF Put
  <2> QED BY <2>2, <2>3, <1>4 DEF RedoSound
<1>7. CASE st.fail
  <2>1. st2 = st BY <1>3, <1>7 DEF RedoRecord
  <2> QED BY <2>1, <1>2, <1>3, <1>7 DEF RedoSound
<1>8. CASE ~st.fail /\ rec.kind \notin Changes
  <2>1. \A p \in Heap : k \notin InsertsOn(p) \cup DeletesOn(p) BY <1>8 DEF InsertsOn, DeletesOn, Changes
  <2>2. \A p \in Heap : SoundAfter(k, p, st.pages[p]) BY <2>1, <1>8, RedoPasses DEF RedoSound
  <2>3. \/ st2 = st
        \/ \E x : Put(st, "Seq", x, st2)
    <3>1. CASE rec.kind # "SeqAdvance"
      <4>1. ~ChangesPage(rec) BY <1>8, <3>1 DEF ChangesPage, Changes
      <4> QED BY <4>1, <1>3 DEF RedoRecord
    <3>2. CASE rec.kind = "SeqAdvance"
      <4> DEFINE x == [lsn |-> k, last |-> rec.val, cnt |-> 0, called |-> TRUE]
      <4>1. st2 = st \/ st2 = [st EXCEPT !.pages["Seq"] = x]
        BY <3>2, <1>3 DEF RedoRecord, PageOf
      <4> HIDE DEF x
      <4>2. st2 = [st EXCEPT !.pages["Seq"] = x] => Put(st, "Seq", x, st2) BY <1>2, <1>5, RedoPuts
      <4> QED BY <4>1, <4>2
    <3> QED BY <3>1, <3>2
  <2>4. st.alloc \subseteq st2.alloc /\ \A p \in Heap : st2.pages[p] = st.pages[p]
    BY <2>3, <1>5 DEF Put
  <2>5. \A p \in Heap : SoundAfter(k, p, st2.pages[p]) BY <2>2, <2>4
  <2> QED BY <2>4, <2>5, <1>2, <1>3, <1>4 DEF RedoSound
<1>9. CASE ~st.fail /\ rec.kind \in Changes
  <2>1. PICK p \in Heap : p = rec.page BY <1>1, <1>9 DEF RecordOK
  <2>2. ChangesPage(rec) /\ PageOf(rec) = p BY <1>9, <2>1 DEF ChangesPage, PageOf, Changes
  <2>3. \A q \in Heap \ {p} : k \notin InsertsOn(q) \cup DeletesOn(q) BY <2>1 DEF InsertsOn, DeletesOn
  <2>4. k \in InsertsOn(p) \cup DeletesOn(p) BY <1>9, <2>1 DEF InsertsOn, DeletesOn, Changes
  <2>5. PICK img : img = st.pages[p] OBVIOUS
  <2>6. SoundAfter(k - 1, p, img) /\ img.lsn \in Nat
    <3>1. SoundAfter(k - 1, p, img) BY <1>9, <2>5 DEF RedoSound
    <3> QED BY <3>1 DEF SoundAfter, Image, HeapImage
  <2>7. CASE img.lsn >= k \/ k < RedoStart
    <3>1. st2 = st
      <4>1. img.lsn >= k => Applied(img, k) BY DEF Applied
      <4> QED BY <4>1, <2>2, <2>5, <2>7, <1>3 DEF RedoRecord
    <3>2. img.lsn >= k \/ k \in Skipped(p)
      <4>1. PICK d : d = disk[p] OBVIOUS
      <4>2. d.lsn \in Nat /\ d.lsn <= img.lsn
        BY <4>1, <2>6 DEF SoundAfter, Resumable, Image, HeapImage
      <4>3. ~(d.lsn < k) => img.lsn >= k BY <4>2, <2>6, <1>1
      <4> QED BY <4>1, <4>3, <2>4, <2>7 DEF Skipped
    <3>3. \A q \in Heap : SoundAfter(k, q, st.pages[q])
      <4> TAKE q \in Heap
      <4>1. CASE q = p BY <4>1, <3>2, <2>5, <2>6, RedoPasses
      <4>2. CASE q # p BY <4>2, <2>3, <1>9, RedoPasses DEF RedoSound
      <4> QED BY <4>1, <4>2
    <3> QED BY <3>1, <3>3, <1>2, <1>3 DEF RedoSound
  <2>8. CASE ~(img.lsn >= k) /\ ~(k < RedoStart)
    <3>0. ~Applied(img, k) BY <2>8 DEF Applied
    <3>f. ASSUME st2 = [st EXCEPT !.fail = TRUE] PROVE RedoSound(k, st2)
      <4>1. st2.fail = TRUE /\ st2.alloc = st.alloc BY <3>f, <1>2
      <4> QED BY <4>1, <1>2, <1>4 DEF RedoSound
    <3>1. CASE rec.kind = "Insert"
      <4>1. k \in InsertsOn(p) BY <3>1, <2>1 DEF InsertsOn
      <4>2. PICK w : w = WithRow(img, k, 0, k) OBVIOUS
      <4>3. st2 = [st EXCEPT !.fail = TRUE] \/ st2 = [st EXCEPT !.pages[p] = w, !.alloc = @ \cup {p}]
        BY <3>0, <3>1, <4>2, <2>2, <2>5, <2>8, <1>3, <1>9 DEF RedoRecord
      <4>4. SoundAfter(k, p, w) BY <4>1, <4>2, <2>6, <2>8, RedoPutsSound
      <4>5. st2 = [st EXCEPT !.pages[p] = w, !.alloc = @ \cup {p}] => Put(st, p, w, st2) BY <1>2, <1>5, RedoPuts
      <4>6. RedoSound(k, st2) BY <4>3, <4>4, <4>5, <3>f, <2>3, <1>6, <1>9
      <4> QED BY <4>6, <1>3
    <3>2. CASE rec.kind = "Delete"
      <4>1. k \in DeletesOn(p) BY <3>2, <2>1 DEF DeletesOn
      <4>2. rec.row \in InsertsOn(p) BY <4>1 DEF Resumable, DeletesSound
      <4>3. p \in st.alloc BY <4>2, <1>2 DEF Resumable, Heap
      <4>4. PICK w : w = WithRow(img, rec.row, rec.txn, k) OBVIOUS
      <4>5. \/ st2 = [st EXCEPT !.fail = TRUE]
            \/ rec.row \in Rows(img) /\ st2 = [st EXCEPT !.pages[p] = w]
        BY <3>0, <3>2, <4>3, <4>4, <2>2, <2>5, <2>8, <1>3, <1>9 DEF RedoRecord, Rows
      <4>6. rec.row \in Rows(img) => SoundAfter(k, p, w) BY <4>1, <4>4, <2>6, <2>8, RedoPutsSound
      <4>7. st2 = [st EXCEPT !.pages[p] = w] => Put(st, p, w, st2) BY <1>2, <1>5, RedoPuts
      <4>8. RedoSound(k, st2) BY <4>5, <4>6, <4>7, <3>f, <2>3, <1>6, <1>9
      <4> QED BY <4>8, <1>3
    <3> QED BY <3>1, <3>2, <1>9 DEF Changes
  <2> QED BY <2>7, <2>8
<1> QED BY <1>7, <1>8, <1>9

LEMMA RedoneAllSound ==
  ASSUME Resumable
  PROVE  RedoSound(Len(log), Redone)
<1>0. TypeInv BY DEF Resumable
<1>1. Len(log) \in Nat /\ DOMAIN log = 1..Len(log)
  BY <1>0, LogIsSeq DEF TypeInv
<1>2. PICK g : IsRun(g, Len(log)) /\ Redone = g[Len(log)]
  BY <1>1, RedoneIsARun
<1> DEFINE Gaps == {k \in 0..Len(log) : ~RedoSound(k, g[k])}
<1>3. SUFFICES ASSUME Gaps # {} PROVE FALSE
  BY <1>1, <1>2
<1>4. PICK k \in Gaps : \A j \in Gaps : k <= j
  <2>1. Gaps \subseteq Nat BY <1>1
  <2> HIDE DEF Gaps
  <2> QED BY <1>3, <2>1, LeastExists
<1>5. k \in 0..Len(log) /\ ~RedoSound(k, g[k])
  OBVIOUS
<1>6. g[k] = IF k = 0 THEN Seed ELSE RedoRecord(g[k - 1], k)
  BY <1>2, <1>5, Zenon DEF IsRun
<1>7. CASE k = 0
  <2>1. RedoState(Seed) BY <1>0 DEF RedoState, Seed, TypeInv
  <2>2. Seed.alloc = alloc /\ Seed.pages = disk BY DEF Seed
  <2>3. ASSUME NEW p \in Heap PROVE SoundAfter(0, p, disk[p])
    <3>1. Image(p, disk[p], Kept) BY DEF Resumable
    <3>2. \A j \in InsertsOn(p) \cup DeletesOn(p) : ~(j <= 0) BY <1>1 DEF InsertsOn, DeletesOn
    <3>3. Image(p, disk[p], Kept \ Skipped(p)) BY <3>1 DEF Image
    <3>4. disk[p].lsn <= disk[p].lsn BY <3>1 DEF Image, HeapImage
    <3> QED BY <3>2, <3>3, <3>4 DEF SoundAfter
  <2>4. RedoSound(0, Seed) BY <2>1, <2>2, <2>3 DEF RedoSound
  <2> QED BY <1>5, <1>6, <1>7, <2>4
<1>8. CASE k # 0
  <2>1. k \in DOMAIN log /\ k - 1 \in 0..Len(log) /\ ~(k <= k - 1)
    BY <1>1, <1>5, <1>8
  <2>2. k - 1 \notin Gaps
    BY <2>1, <1>4
  <2>3. RedoSound(k - 1, g[k - 1])
    BY <2>1, <2>2
  <2>4. RedoSound(k, RedoRecord(g[k - 1], k))
    BY <2>1, <2>3, RedoOfSound
  <2> QED BY <1>5, <1>6, <1>8, <2>4
<1> QED BY <1>7, <1>8

LEMMA RestartKeepsRows ==
  ASSUME IInv, RowsInv, Restart
  PROVE  RowsInv'
<1>0. TypeInv BY DEF IInv
<1>a. /\ phase = "down" /\ phase' = (IF Redone.fail THEN "failed" ELSE "undo") /\ mem' = Redone.pages
      /\ alloc' = Redone.alloc /\ lost' = lost \cup Dropped(Redone.pages)
      /\ durable' = durable /\ disk' = disk /\ held' = held
  BY DEF Restart
<1>b. att' = att /\ reused' = reused /\ promised' = promised BY DEF Restart, live
<1>1. SUFFICES ASSUME ~Redone.fail
               PROVE  ChainOK' /\ \A p \in Heap : DeletesSound(p)' /\ SoundPage(p)'
  BY <1>a DEF RowsInv
<1>2. ChainOK /\ \A p \in Heap : DeletesSound(p) /\ SoundPage(p) BY <1>a DEF RowsInv
<1>3. Resumable BY <1>0, <1>2 DEF Resumable, ChainOK, SoundPage
<1>4. alloc \subseteq alloc' /\ \A p \in Heap : SoundAfter(Len(log), p, Redone.pages[p])
  BY <1>1, <1>3, <1>a, RedoneAllSound DEF RedoSound
<1>5. Undone BY <1>0, RestartUndoes
<1>6. StillDurable BY <1>0, <1>a, DurableSame
<1>7. Onward BY <1>5, <1>6, <1>a, <1>b DEF Onward, Undone
<1>8. Kept' \cap DOMAIN log \subseteq Kept BY <1>0, <1>7, OnwardKept
<1>9. \A p : SameOn(p) BY <1>0, <1>5, RecordsAside DEF Undone, Changes
<1>10. \A p \in Heap : Skipped(p) \subseteq lost'
  <2> SUFFICES ASSUME NEW p \in Heap, NEW i \in Skipped(p) PROVE i \in lost' OBVIOUS
  <2>1. i \in DOMAIN log /\ ChangesPage(log[i]) /\ PageOf(log[i]) = p /\ i < RedoStart /\ disk[p].lsn < i
    BY DEF Skipped, InsertsOn, DeletesOn, ChangesPage, PageOf
  <2> QED BY <2>1, <1>a DEF Dropped
<1>11. ASSUME NEW p \in Heap PROVE SoundPage(p)' /\ DeletesSound(p)' /\ mem'[p].next = disk[p].next
  <2>1. PICK d : d = disk[p] OBVIOUS
  <2>2. PICK m : m = Redone.pages[p] OBVIOUS
  <2>3. PICK K : K = Kept OBVIOUS
  <2>4. PICK M : M = Kept \ Skipped(p) OBVIOUS
  <2>5. Image(p, d, K) /\ d.lsn <= durable BY <2>1, <2>3, <1>2 DEF SoundPage
  <2>6. /\ Image(p, m, M) /\ m.next = d.next
        /\ \A i \in (InsertsOn(p) \cup DeletesOn(p)) \ Skipped(p) : i <= Len(log) => i <= m.lsn
    BY <2>1, <2>2, <2>4, <1>4 DEF SoundAfter
  <2>7. Kept' \cap DOMAIN log \subseteq K BY <2>3, <1>8
  <2>8. Kept' \cap DOMAIN log \subseteq M
    <3>1. Kept' \cap lost' = {} BY DEF Kept
    <3> QED BY <3>1, <2>4, <1>8, <1>10
  <2>9. Image(p, d, Kept)' /\ Image(p, m, Kept)' BY <2>5, <2>6, <2>7, <2>8, <1>0, <1>7, ImageOnward
  <2>10. InsertsOn(p)' = InsertsOn(p) /\ DeletesOn(p)' = DeletesOn(p) BY <1>9 DEF SameOn
  <2>11. CoversAll(p, m)'
    <3>1. \A i \in InsertsOn(p) \cup DeletesOn(p) : i <= Len(log)
      <4>1. InsertsOn(p) \subseteq 1..Len(log) /\ DeletesOn(p) \subseteq 1..Len(log) /\ Len(log) \in Nat
        BY <1>0, InsertsFinite
      <4> QED BY <4>1
    <3> QED BY <3>1, <2>6, <2>10, <1>10 DEF CoversAll
  <2>12. mem'[p] = m /\ disk'[p] = d /\ d.lsn <= durable' BY <2>1, <2>2, <2>5, <1>a
  <2>13. SoundPage(p)' BY <2>9, <2>11, <2>12, RunningSound
  <2>14. DeletesSound(p)'
    <3>1. \A j \in DeletesOn(p) : j \in DOMAIN log /\ log'[j] = log[j] BY <1>5 DEF DeletesOn, Undone
    <3>2. \A j \in DeletesOn(p) : j \in Kept' => j \in Kept BY <3>1, <1>8
    <3> QED BY <3>1, <3>2, <2>10, <1>2 DEF DeletesSound
  <2> QED BY <2>1, <2>6, <2>12, <2>13, <2>14
<1>12. mem'["Head"].next = disk["Head"].next BY <1>11 DEF Heap
<1>13. InsertsOn("Tail")' = InsertsOn("Tail") BY <1>9 DEF SameOn
<1>14. OnChain'
  <2> SUFFICES ASSUME NEW i \in InsertsOn("Tail")' \cap Kept', mem'["Head"].next # "Tail" PROVE FALSE
    BY DEF OnChain
  <2>1. Redone.pages["Head"].next = None BY <1>12, <1>2, <1>a DEF ChainOK
  <2>2. i \in DOMAIN log /\ ChangesPage(log[i]) /\ PageOf(log[i]) = "Tail"
    BY <1>13 DEF InsertsOn, ChangesPage, PageOf
  <2>3. i \in Dropped(Redone.pages) BY <2>1, <2>2 DEF Dropped
  <2> QED BY <2>3, <1>a DEF Kept
<1>15. ChainOK'
  <2>1. LinkOK' BY <1>2, <1>4, <1>12, <1>a DEF ChainOK, LinkOK
  <2> QED BY <2>1, <1>2, <1>4, <1>12, <1>13, <1>14, <1>a DEF ChainOK
<1> QED BY <1>11, <1>15

-----------------------------------------------------------------------------
(* The theorem about what was acknowledged.                                *)

LEMMA InitRowsInv ==
  ASSUME Init
  PROVE  RowsInv
<1>1. /\ log = <<>> /\ durable = 0 /\ phase = "run" /\ alloc = {"Head", "Seq"}
      /\ held = [t \in Ids |-> None]
      /\ \A p \in Heap : mem[p] = EmptyHeap /\ disk[p] = EmptyHeap
  BY DEF Init, FreshFile, Pages, Heap
<1>2. PICK e : e = EmptyHeap OBVIOUS
<1>3. HeapImage(e) /\ Rows(e) = {} /\ e.lsn = 0 /\ e.next = None
  BY <1>2 DEF EmptyHeap, HeapImage, Rows
<1>4. \A p : InsertsOn(p) = {} /\ DeletesOn(p) = {} BY <1>1 DEF InsertsOn, DeletesOn
<1>5. ASSUME NEW p \in Heap PROVE DeletesSound(p) /\ SoundPage(p)
  <2>1. Len(log) = 0 BY <1>1
  <2>2. Image(p, e, Kept) /\ CoversAll(p, e) BY <2>1, <1>3, <1>4 DEF Image, CoversAll
  <2>3. mem[p] = e /\ disk[p] = e /\ e.lsn <= durable BY <1>1, <1>2, <1>3
  <2> QED BY <2>2, <2>3, <1>4 DEF DeletesSound, SoundPage
<1>6. ChainOK
  <2>1. mem["Head"].next = None /\ disk["Head"].next = None BY <1>1, <1>2, <1>3 DEF Heap
  <2>2. LinkOK BY <2>1, <1>1 DEF LinkOK, None
  <2> QED BY <2>1, <2>2, <1>1, <1>4 DEF ChainOK, OnChain
<1> QED BY <1>1, <1>5, <1>6 DEF RowsInv

LEMMA StepKeepsRows ==
  ASSUME IInv, StartInv, EndInv, HeldOpen, RowsInv, [Next]_vars
  PROVE  RowsInv'
<1>1. ASSUME NEW t \in Ids, \/ \E m \in {"rw", "ro", "vac"} : Start(t, m)
                            \/ \E k \in {"Commit", "Abort"} : LogEnd(t, k)
                            \/ FlushEnd(t) \/ Decide(t)
                            \/ \E s \in {"Committed", "Aborted"} : EndReader(t, s)
                            \/ Release(t)
      PROVE  RowsInv'
  BY <1>1, TransactionKeepsRows
<1>2. ASSUME NEW t \in Ids, InsertRow(t) \/ InsertFresh(t) PROVE RowsInv'
  BY <1>2, InsertKeepsRows
<1>3. ASSUME NEW t \in Ids, NEW p \in Heap, NEW r \in 1..MaxLsn, DeleteRow(t, p, r) PROVE RowsInv'
  BY <1>3, DeleteKeepsRows
<1>4. ASSUME NEW t \in Ids, NEW p \in Heap, VacuumPage(t, p) PROVE RowsInv'
  BY <1>4, VacuumKeepsRows
<1>5. ASSUME NEW t \in Ids, Link(t) PROVE RowsInv'
  BY <1>5, LinkKeepsRows
<1>6. ASSUME NEW t \in Ids, NextVal(t) \/ \E c \in BOOLEAN : SetVal(t, c) PROVE RowsInv'
  BY <1>6, SequenceKeepsRows
<1>7. ASSUME NEW p \in Pages, WritePage(p) PROVE RowsInv'
  BY <1>7, WriteKeepsRows
<1>8. CASE \/ CkptClog \/ CkptTables \/ CkptRecord \/ CkptFlush \/ MetaTruncate \/ MetaWrite \/ RecoverClog
           \/ UNCHANGED vars
  BY <1>8, CheckpointKeepsRows
<1>9. ASSUME NEW n \in durable..Len(log), Kill(n) PROVE RowsInv'
  BY <1>9, KillKeepsRows
<1>10. CASE Restart
  BY <1>10, RestartKeepsRows
<1>11. CASE RecoverPages
  BY <1>11, RecoverPagesKeepsRows
<1>12. CASE Next
  BY <1>1, <1>2, <1>3, <1>4, <1>5, <1>6, <1>7, <1>8, <1>9, <1>10, <1>11, <1>12 DEF Next
<1> QED BY <1>8, <1>12

\* In every reachable state a page image, in memory and in the file, has each change that is owed up
\* to its page_lsn, unless a deletion that counts took the row away; memory owes none beyond it, and
\* what redo (recovery.rs) makes of the file and the log after a kill is such an image again.
THEOREM RowsInvariance == Spec => []RowsInv
<1>1. Init => RowsInv
  BY InitRowsInv
<1>2. IInv /\ StartInv /\ EndInv /\ HeldOpen /\ RowsInv /\ [Next]_vars => RowsInv'
  BY StepKeepsRows
<1> QED BY <1>1, <1>2, Invariance, StartInvariance, EndInvariance, HeldInvariance, PTL DEF Spec

LEMMA AcknowledgedIsInForce ==
  ASSUME IInv, EndInv, HeldOpen, RowsInv, Up, NEW i \in promised, i \notin lost, log[i].txn \notin reused
  PROVE  InForce(i)
<1>0. TypeInv /\ Serving /\ phase # "failed" BY DEF IInv, Up, Serving
<1>1. PICK t : t = log[i].txn OBVIOUS
<1>2. i \in DOMAIN log /\ log[i].kind \in Changes /\ t \notin att /\ CommitDurable(t)
  BY <1>1 DEF EndInv, PromisesKept, Promise
<1>3. t \in Ids /\ log[i].page \in Heap BY <1>0, <1>1, <1>2 DEF TypeInv, RecordOK
<1>4. \A u \in Ids \ (reused \cup att) : CommitDurable(u) => Status(u) = "Committed"
  BY <1>0 DEF EndInv, Recorded, CommitDurable, CommitLogged, Status
<1>5. Status(t) = "Committed" BY <1>1, <1>2, <1>3, <1>4
<1>6. i \in Kept BY <1>2 DEF Kept
<1>7. PICK p \in Heap : p = log[i].page BY <1>3
<1>8. PICK m : m = mem[p] OBVIOUS
<1>9. Image(p, m, Kept) /\ CoversAll(p, m) /\ OnChain BY <1>0, <1>8 DEF RowsInv, SoundPage, ChainOK
<1>10. CASE log[i].kind = "Insert"
  <2>1. i \in InsertsOn(p) BY <1>2, <1>7, <1>10 DEF InsertsOn
  <2>2. i \in Rows(m) \/ Removed(p, i, m.lsn) BY <2>1, <1>6, <1>9 DEF Image, CoversAll
  <2>3. CASE i \in Rows(m)
    <3>1. p = "Tail" => mem["Head"].next = "Tail"
      <4>1. held[t] # "unlinked" BY <1>2, <1>3 DEF HeldOpen, None
      <4> QED BY <4>1, <2>1, <1>1, <1>6, <1>9 DEF OnChain
    <3>2. Found(i, p) BY <2>3, <3>1, <1>8 DEF Found, Rows
    <3> QED BY <3>2, <1>1, <1>5, <1>7, <1>10 DEF InForce
  <2>4. CASE Removed(p, i, m.lsn)
    <3>1. PICK j \in DeletesOn(p) :
            /\ log[j].row = i /\ (log[j].txn \in reused \/ (log[j].txn \notin att /\ CommitDurable(log[j].txn)))
      BY <2>4 DEF Removed
    <3>2. j \in DOMAIN log /\ log[j].kind = "Delete" BY DEF DeletesOn
    <3>3. log[j].txn \in Ids BY <3>2, <1>0 DEF TypeInv, RecordOK, Changes
    <3>4. log[j].txn \in reused \/ Status(log[j].txn) = "Committed" BY <3>1, <3>3, <1>4
    <3> QED BY <3>1, <3>2, <3>4, <1>1, <1>5, <1>10 DEF InForce
  <2> QED BY <2>2, <2>3, <2>4
<1>11. CASE log[i].kind = "Delete"
  <2>1. i \in DeletesOn(p) BY <1>2, <1>7, <1>11 DEF DeletesOn
  <2>2. log[i].row \in Rows(m) => m.rows[log[i].row] = log[i].txn
    BY <2>1, <1>6, <1>9 DEF Image, CoversAll, Kept
  <2>3. Found(log[i].row, p) => mem[p].rows[log[i].row] = log[i].txn BY <2>2, <1>8 DEF Found, Rows
  <2> QED BY <2>3, <1>1, <1>5, <1>7, <1>11 DEF InForce
<1> QED BY <1>2, <1>10, <1>11 DEF Changes

\* What COMMIT acknowledged (instance.rs) is in force whenever the server runs, after any number of
\* kills, restarts and checkpoints, on pages of any size and with any number of transactions: there
\* is no other way to lose it than the ones CommittedSurvives names.
THEOREM AcknowledgedSurvives == Spec => []CommittedSurvives
<1>1. IInv /\ EndInv /\ HeldOpen /\ RowsInv => CommittedSurvives
  BY AcknowledgedIsInForce DEF CommittedSurvives
<1> QED BY <1>1, Invariance, EndInvariance, HeldInvariance, RowsInvariance, PTL
=============================================================================
