-------------------------- MODULE ConstraintsProofs --------------------------
(***************************************************************************)
(* Proofs about Constraints: a deletion that was committed stays, and no   *)
(* key is committed twice, for any number of connections, rows and         *)
(* statements, under every workload, but for the causes recorded.          *)
(*                                                                         *)
(* The first argument.  A row lock excludes, and it is kept from the lock  *)
(* to the end of the transaction's work, so between the look under the     *)
(* lock and the stamp nobody else stamps the row.  A deleter's stamp can   *)
(* therefore be replaced only by a writer that found it aborted, or that   *)
(* did not look: both are recorded.  What a transaction has stamped still  *)
(* bears its id when it is decided, and afterwards nobody may overwrite    *)
(* it.  (IInv, Invariance.)                                                *)
(*                                                                         *)
(* The second builds on it.  Two rows of one key exclude each other: one   *)
(* of them will never be committed, is gone, was deleted by the creator of *)
(* the other, or is still being checked.  (UInv, ChecksInvariance, from    *)
(* "One key, one row" on.)                                                 *)
(***************************************************************************)
EXTENDS Constraints, SequenceTheorems, WellFoundedInduction, TLAPS

RowFields  == {"tab", "key", "xmin", "xmax", "ctid"}
TaskFields == {"kind", "rid", "tab", "key"}
TxnFields  == {"phase", "prog", "id", "snap", "verdict", "work", "task", "new", "detect", "cands",
               "target", "attempt", "stamped", "failed"}

IsSeq(q) == q \in Seq({q[n] : n \in DOMAIN q})

\* Tasks that wait, and candidates, are about rows there are.
WorkOK(t) == IsSeq(t.work) /\ \A n \in DOMAIN t.work : DOMAIN t.work[n] = TaskFields /\ t.work[n].rid \in Rids
CandsOK(t) == IsSeq(t.cands) /\ \A n \in DOMAIN t.cands : t.cands[n] \in Rids

SessionOK(t) ==
  /\ DOMAIN t = TxnFields
  /\ t.id \in 0..Len(status)
  /\ DOMAIN t.task = TaskFields
  /\ WorkOK(t) /\ CandsOK(t)
  /\ t.stamped \subseteq Rids
  /\ DOMAIN t.prog = {"block", "ext", "stmts"} /\ t.prog.block \in BOOLEAN

Shape ==
  /\ IsSeq(heap) /\ \A i \in Rids : DOMAIN heap[i] = RowFields /\ heap[i].xmax \in 0..Len(status)
  /\ IsSeq(index)
  /\ IsSeq(status)
  /\ IsSeq(lock) /\ Len(lock) = Len(status) /\ \A x \in DOMAIN lock : lock[x] \subseteq Rids
  /\ \A s \in Sessions : SessionOK(session[s])
  /\ buried \subseteq Rids

\* A session has an id of its own from BEGIN on.
Named == \A s \in Sessions : /\ session[s].phase # "start" => session[s].id \in DOMAIN status
                             /\ \A r \in Sessions \ {s} : session[r].id = session[s].id => session[s].id = NoTxn

\* The end of a transaction, in either order.
Undecided(t) == t.phase \notin {"start", "decide", "done"} /\ ~(t.phase = "unlock" /\ DecidesFirst(t))
Ending ==
  \A s \in Sessions : LET t == session[s] IN
    /\ t.phase = "start" => t.id = NoTxn /\ t.stamped = {}
    /\ Undecided(t) => status[t.id] = "running"
    /\ t.phase = "decide" => status[t.id] = "leaving" /\ t.verdict \in {"committed", "aborted"}
    /\ t.phase \in {"unlock", "leave"} => t.verdict \in {"committed", "aborted"}

\* Row locks exclude.
Exclusive == \A x, y \in DOMAIN lock : x # y => lock[x] \cap lock[y] = {}

\* The row a statement is about to change.
Targeted(t) == t.phase \in {"check", "stamp"} \/ (t.phase = "fk" /\ t.task.kind # "insert")

\* A row to be changed is there, and from the lock on it is locked.
Aimed ==
  \A s \in Sessions : LET t == session[s] IN
    /\ t.phase = "lock" \/ Targeted(t) => t.task.rid \in Rids
    /\ Targeted(t) => t.task.rid \in lock[t.id]

\* Looking for ON CONFLICT's row, a session has nothing but its INSERT to go on with.
Seeking ==
  \A s \in Sessions : session[s].phase \in {"lookup", "judge", "wait", "asleep"} /\ session[s].detect
                      => session[s].task.kind = "insert"

Clean == exposed \cap {"overwrote", "misread"} = {}

\* Nobody who may still commit has stamped the row, but the session itself.
Free(i, x) == heap[i].xmax \in {NoTxn, x} \/ status[heap[i].xmax] = "aborted"

\* What was seen under the lock is still so.
Looked(t) == (t.phase = "stamp" /\ Rechecks(t.task.kind)) \/ (t.phase = "fk" /\ t.task.kind # "insert")
Checked == Clean => \A s \in Sessions : Looked(session[s]) => Free(session[s].task.rid, session[s].id)

\* A stamp stays, unless its transaction aborts.
Stamped ==
  Clean => \A s \in Sessions : \A i \in session[s].stamped :
              status[session[s].id] # "aborted" => heap[i].xmax = session[s].id

IInv == /\ Shape /\ Named /\ Ending /\ Exclusive /\ Aimed /\ Seeking
        /\ Checked /\ Stamped /\ DeletedStays

-----------------------------------------------------------------------------
(* Sequences.                                                              *)

\* Every non-empty set of naturals has a least element: the form of induction used below.
LEMMA LeastExists ==
  ASSUME NEW T, T \subseteq Nat, T # {}
  PROVE  \E x \in T : \A y \in T : x <= y
<1>1. \E x \in T : \A y \in T : ~ (<<y, x>> \in OpToRel(<, Nat))
  BY NatLessThanWellFounded, WFMin
<1>2. PICK x \in T : \A y \in T : ~ (<<y, x>> \in OpToRel(<, Nat))
  BY <1>1
<1>3. ASSUME NEW y \in T PROVE x <= y
  <2>1. x \in Nat /\ y \in Nat /\ <<y, x>> \notin OpToRel(<, Nat)
    BY <1>2
  <2>2. ~(y < x)
    BY <2>1 DEF OpToRel
  <2>3. \A a, b \in Nat : ~(b < a) => a <= b
    OBVIOUS
  <2> QED BY <2>1, <2>2, <2>3, Zenon
<1> QED BY <1>2, <1>3

LEMMA SeqFacts ==
  ASSUME NEW q, IsSeq(q)
  PROVE  Len(q) \in Nat /\ DOMAIN q = 1..Len(q) /\ q = [n \in 1..Len(q) |-> q[n]]
<1> DEFINE S == {q[n] : n \in DOMAIN q}
<1>1. q \in Seq(S)
  BY DEF IsSeq
<1> HIDE DEF S
<1>2. Len(q) \in Nat /\ DOMAIN q = 1..Len(q) /\ q \in [1..Len(q) -> S]
  BY <1>1, LenProperties
<1> QED BY <1>2

LEMMA FunctionIsSeq ==
  ASSUME NEW m \in Nat, NEW f, f = [n \in 1..m |-> f[n]]
  PROVE  IsSeq(f) /\ Len(f) = m /\ DOMAIN f = 1..m
<1>1. DOMAIN f = 1..m
  BY Zenon
<1> DEFINE S == {f[n] : n \in DOMAIN f}
<1>2. f \in [1..m -> S]
  <2>1. \A n \in 1..m : f[n] \in S BY <1>1
  <2> HIDE DEF S
  <2>2. [n \in 1..m |-> f[n]] \in [1..m -> S] BY <2>1
  <2> QED BY <2>2
<1>3. f \in Seq(S)
  <2> HIDE DEF S
  <2> QED BY <1>2, SeqDef
<1>4. Len(f) = m
  <2> HIDE DEF S
  <2>1. Len(f) \in Nat /\ DOMAIN f = 1..Len(f) BY <1>3, LenProperties
  <2>2. 1..Len(f) = 1..m BY <2>1, <1>1
  <2> QED BY <2>1, <2>2
<1> QED BY <1>1, <1>3, <1>4 DEF IsSeq

\* One element more, and nothing else.
OneMore(q, e, a) ==
  /\ IsSeq(a)
  /\ Len(q) \in Nat /\ DOMAIN q = 1..Len(q)
  /\ Len(a) = Len(q) + 1 /\ DOMAIN a = 1..(Len(q) + 1)
  /\ \A n \in DOMAIN q : a[n] = q[n]
  /\ a[Len(q) + 1] = e

LEMMA AppendOne ==
  ASSUME NEW q, IsSeq(q), NEW e, NEW a, a = Append(q, e)
  PROVE  OneMore(q, e, a)
<1> DEFINE S == {q[n] : n \in DOMAIN q}
           T == S \cup {e}
<1>1. q \in Seq(S)
  BY DEF IsSeq
<1>2. Len(q) \in Nat /\ DOMAIN q = 1..Len(q) /\ q \in [1..Len(q) -> S]
  <2> HIDE DEF S
  <2> QED BY <1>1, LenProperties
<1>3. q \in Seq(T)
  <2>1. q \in [1..Len(q) -> T]
    <3>1. S \subseteq T OBVIOUS
    <3> HIDE DEF S, T
    <3> QED BY <1>2, <3>1
  <2> HIDE DEF T
  <2> QED BY <1>2, <2>1, SeqDef
<1>4. e \in T
  OBVIOUS
<1>5. /\ a \in Seq(T) /\ Len(a) = Len(q) + 1
      /\ \A n \in 1..Len(q) : a[n] = q[n]
      /\ a[Len(q) + 1] = e
  <2> HIDE DEF T
  <2> QED BY <1>3, <1>4, AppendProperties
<1>6. DOMAIN a = 1..(Len(q) + 1)
  <2> HIDE DEF T
  <2> QED BY <1>5, LenProperties
<1>7. IsSeq(a)
  <2>1. a = [n \in 1..(Len(q) + 1) |-> a[n]]
    <3> HIDE DEF T
    <3>1. a \in [1..Len(a) -> T] BY <1>5, LenProperties
    <3> QED BY <3>1, <1>5
  <2>2. Len(q) + 1 \in Nat BY <1>2
  <2> QED BY <2>1, <2>2, FunctionIsSeq
<1> QED BY <1>2, <1>5, <1>6, <1>7 DEF OneMore

\* Two sequences of members of a set, one behind the other.
LEMMA ConcatOf ==
  ASSUME NEW S, NEW q \in Seq(S), NEW r \in Seq(S)
  PROVE  q \o r \in Seq(S)
BY ConcatProperties

\* Sequences as members of Seq(S).
SeqIn(q, S) == IsSeq(q) /\ \A n \in DOMAIN q : q[n] \in S

LEMMA SeqInIsSeq ==
  ASSUME NEW q, NEW S
  PROVE  SeqIn(q, S) <=> q \in Seq(S)
<1>1. ASSUME SeqIn(q, S) PROVE q \in Seq(S)
  <2>1. Len(q) \in Nat /\ DOMAIN q = 1..Len(q) /\ q = [n \in 1..Len(q) |-> q[n]]
    BY <1>1, SeqFacts DEF SeqIn
  <2>2. \A n \in 1..Len(q) : q[n] \in S BY <1>1, <2>1 DEF SeqIn
  <2>3. [n \in 1..Len(q) |-> q[n]] \in [1..Len(q) -> S] BY <2>2
  <2>4. q \in [1..Len(q) -> S] BY <2>1, <2>3
  <2> QED BY <2>1, <2>4, SeqDef
<1>2. ASSUME q \in Seq(S) PROVE SeqIn(q, S)
  <2>1. Len(q) \in Nat /\ DOMAIN q = 1..Len(q) /\ q \in [1..Len(q) -> S] BY <1>2, LenProperties
  <2>2. q = [n \in 1..Len(q) |-> q[n]] BY <2>1
  <2>3. IsSeq(q) BY <2>1, <2>2, FunctionIsSeq
  <2> QED BY <2>1, <2>3 DEF SeqIn
<1> QED BY <1>1, <1>2

\* What Among computes, number by number.
IsFilter(g, q, T, m) ==
  g = [n \in 0..m |-> IF n = 0 THEN <<>> ELSE IF q[n] \in T THEN Append(g[n - 1], q[n]) ELSE g[n - 1]]

LEMMA FilterExists ==
  ASSUME NEW q, NEW T, NEW m0 \in Nat
  PROVE  \E g : IsFilter(g, q, T, m0)
<1> DEFINE step(x, n) == IF q[n] \in T THEN Append(x, q[n]) ELSE x
           Gaps == {m \in Nat : ~ \E g : IsFilter(g, q, T, m)}
<1>1. SUFFICES ASSUME Gaps # {} PROVE FALSE
  OBVIOUS
<1>2. PICK m \in Gaps : \A y \in Gaps : m <= y
  <2>1. Gaps \subseteq Nat OBVIOUS
  <2> HIDE DEF Gaps
  <2> QED BY <1>1, <2>1, LeastExists
<1>3. m \in Nat /\ ~ \E g : IsFilter(g, q, T, m)
  OBVIOUS
<1>4. m # 0
  <2> SUFFICES ASSUME m = 0 PROVE FALSE OBVIOUS
  <2> DEFINE g == [n \in 0..0 |-> <<>>]
  <2>1. g = [n \in 0..0 |-> IF n = 0 THEN <<>> ELSE IF q[n] \in T THEN Append(g[n - 1], q[n]) ELSE g[n - 1]]
    <3>1. \A n \in 0..0 : n = 0 OBVIOUS
    <3> QED BY <3>1
  <2> QED BY <2>1, <1>3 DEF IsFilter
<1>5. PICK g : IsFilter(g, q, T, m - 1)
  <2>1. m - 1 \in Nat /\ ~(m <= m - 1) BY <1>3, <1>4
  <2>2. m - 1 \notin Gaps BY <2>1, <1>2
  <2> QED BY <2>1, <2>2
<1> DEFINE h == [n \in 0..m |-> IF n < m THEN g[n] ELSE step(g[m - 1], m)]
<1>6. ASSUME NEW n \in 0..m
      PROVE  h[n] = IF n = 0 THEN <<>> ELSE IF q[n] \in T THEN Append(h[n - 1], q[n]) ELSE h[n - 1]
  <2>1. \A j \in 0..m : j < m => h[j] = g[j] OBVIOUS
  <2>2. h[m] = step(g[m - 1], m) BY <1>3
  <2>3. \A j \in 0..(m - 1) : g[j] = IF j = 0 THEN <<>> ELSE IF q[j] \in T THEN Append(g[j - 1], q[j]) ELSE g[j - 1]
    BY <1>5, Zenon DEF IsFilter
  <2> HIDE DEF h
  <2>4. CASE n = m
    <3>1. m - 1 \in 0..m /\ m - 1 < m BY <1>3, <1>4
    <3>2. h[m - 1] = g[m - 1] BY <3>1, <2>1
    <3> QED BY <2>4, <2>2, <3>2, <1>4, Zenon
  <2>5. CASE n # m
    <3>1. n < m /\ n \in 0..(m - 1) /\ n \in Nat BY <1>3, <2>5
    <3>2. h[n] = g[n] BY <3>1, <2>1
    <3>3. CASE n = 0 BY <3>1, <3>2, <3>3, <2>3, Zenon
    <3>4. CASE n # 0
      <4>1. n - 1 \in 0..m /\ n - 1 < m BY <3>1, <3>4, <1>3
      <4>2. h[n - 1] = g[n - 1] BY <4>1, <2>1
      <4>3. g[n] = IF q[n] \in T THEN Append(g[n - 1], q[n]) ELSE g[n - 1] BY <2>3, <3>1, <3>4, Zenon
      <4> QED BY <3>2, <4>2, <4>3, <3>4, Zenon
    <3> QED BY <3>3, <3>4
  <2> QED BY <2>4, <2>5
<1>7. h = [n \in 0..m |-> h[n]]
  OBVIOUS
<1>8. IsFilter(h, q, T, m)
  <2> HIDE DEF h
  <2>1. [n \in 0..m |-> h[n]]
          = [n \in 0..m |-> IF n = 0 THEN <<>> ELSE IF q[n] \in T THEN Append(h[n - 1], q[n]) ELSE h[n - 1]]
    BY <1>6, Zenon
  <2> QED BY <1>7, <2>1, Zenon DEF IsFilter
<1> QED BY <1>8, <1>3

\* Among, number by number, is a sequence of members of both its arguments.
LEMMA AmongFilter ==
  ASSUME NEW q, NEW T, NEW S, SeqIn(q, S)
  PROVE  \E g : /\ IsFilter(g, q, T, Len(q)) /\ Among(q, T) = g[Len(q)]
                 /\ \A n \in 0..Len(q) : g[n] \in Seq(S \cap T)
<1>1. Len(q) \in Nat /\ DOMAIN q = 1..Len(q)
  BY SeqFacts DEF SeqIn
<1>2. PICK g : IsFilter(g, q, T, Len(q)) /\ Among(q, T) = g[Len(q)]
  <2> DEFINE upTo[n \in 0..Len(q)] ==
        IF n = 0 THEN <<>> ELSE IF q[n] \in T THEN Append(upTo[n - 1], q[n]) ELSE upTo[n - 1]
  <2>1. Among(q, T) = upTo[Len(q)] BY Zenon DEF Among
  <2>2. \E g : IsFilter(g, q, T, Len(q)) BY <1>1, FilterExists
  <2>3. \E g : g = [n \in 0..Len(q) |-> IF n = 0 THEN <<>> ELSE IF q[n] \in T THEN Append(g[n - 1], q[n]) ELSE g[n - 1]]
    BY <2>2, Zenon DEF IsFilter
  <2>4. IsFilter(upTo, q, T, Len(q)) BY <2>3, Zenon DEF IsFilter
  <2> QED BY <2>1, <2>4, Zenon
<1> DEFINE V == S \cap T
           Gaps == {n \in 0..Len(q) : g[n] \notin Seq(V)}
<1>3. SUFFICES ASSUME Gaps # {} PROVE FALSE
  BY <1>2
<1>4. PICK n \in Gaps : \A j \in Gaps : n <= j
  <2>1. Gaps \subseteq Nat BY <1>1
  <2> HIDE DEF Gaps
  <2> QED BY <1>3, <2>1, LeastExists
<1>5. n \in 0..Len(q) /\ g[n] \notin Seq(V)
  OBVIOUS
<1>6. g[n] = IF n = 0 THEN <<>> ELSE IF q[n] \in T THEN Append(g[n - 1], q[n]) ELSE g[n - 1]
  BY <1>2, <1>5, Zenon DEF IsFilter
<1>7. CASE n = 0
  <2>1. <<>> \in Seq(V) OBVIOUS
  <2> QED BY <2>1, <1>5, <1>6, <1>7, Zenon
<1>8. CASE n # 0
  <2>1. n \in DOMAIN q /\ n - 1 \in 0..Len(q) /\ ~(n <= n - 1)
    BY <1>1, <1>5, <1>8
  <2>2. n - 1 \notin Gaps BY <2>1, <1>4
  <2>3. g[n - 1] \in Seq(V) BY <2>1, <2>2
  <2>4. CASE q[n] \in T
    <3>1. q[n] \in V BY <2>1, <2>4 DEF SeqIn
    <3> HIDE DEF V
    <3>2. Append(g[n - 1], q[n]) \in Seq(V) BY <2>3, <3>1, AppendProperties
    <3> QED BY <3>2, <1>5, <1>6, <1>8, <2>4, Zenon
  <2>5. CASE q[n] \notin T
    BY <2>3, <1>5, <1>6, <1>8, <2>5, Zenon
  <2> QED BY <2>4, <2>5
<1> QED BY <1>7, <1>8

\* Among returns a sequence of members of both its arguments.
LEMMA AmongIn ==
  ASSUME NEW q, NEW T, NEW S, SeqIn(q, S)
  PROVE  SeqIn(Among(q, T), S \cap T)
<1>1. PICK g : /\ Among(q, T) = g[Len(q)]
               /\ \A n \in 0..Len(q) : g[n] \in Seq(S \cap T)
  BY AmongFilter
<1>2. Len(q) \in 0..Len(q)
  BY SeqFacts DEF SeqIn
<1> QED BY <1>1, <1>2, SeqInIsSeq

\* Among leaves nothing out ...
LEMMA AmongNone ==
  ASSUME NEW q, NEW T, NEW S, SeqIn(q, S), Among(q, T) = <<>>, NEW k \in DOMAIN q
  PROVE  q[k] \notin T
<1>1. Len(q) \in Nat /\ DOMAIN q = 1..Len(q)
  BY SeqFacts DEF SeqIn
<1>2. PICK g : /\ IsFilter(g, q, T, Len(q)) /\ Among(q, T) = g[Len(q)]
               /\ \A n \in 0..Len(q) : g[n] \in Seq(S \cap T)
  BY AmongFilter
<1> SUFFICES ASSUME q[k] \in T PROVE FALSE
  OBVIOUS
<1> DEFINE Gaps == {m \in k..Len(q) : g[m] = <<>>}
<1>3. Len(q) \in Gaps
  BY <1>1, <1>2
<1>4. PICK m \in Gaps : \A j \in Gaps : m <= j
  <2>1. Gaps \subseteq Nat BY <1>1
  <2> HIDE DEF Gaps
  <2> QED BY <1>3, <2>1, LeastExists
<1>5. m \in k..Len(q) /\ g[m] = <<>>
  OBVIOUS
<1>6. m \in 0..Len(q) /\ m # 0 /\ m - 1 \in 0..Len(q)
  BY <1>1, <1>5
<1>7. g[m] = IF q[m] \in T THEN Append(g[m - 1], q[m]) ELSE g[m - 1]
  BY <1>2, <1>6, Zenon DEF IsFilter
<1>8. q[m] \notin T
  <2> SUFFICES ASSUME q[m] \in T PROVE FALSE OBVIOUS
  <2>1. g[m] = Append(g[m - 1], q[m]) BY <1>7
  <2>2. g[m - 1] \in Seq(S \cap T) BY <1>2, <1>6
  <2>3. q[m] \in S \cap T BY <1>1, <1>5 DEF SeqIn
  <2>4. Len(Append(g[m - 1], q[m])) = Len(g[m - 1]) + 1 /\ Len(g[m - 1]) \in Nat
    BY <2>2, <2>3, AppendProperties, LenProperties
  <2> QED BY <2>1, <2>4, <1>5
<1>9. m # k
  BY <1>8
<1>10. m - 1 \in k..Len(q) /\ ~(m <= m - 1)
  BY <1>1, <1>5, <1>9
<1>11. m - 1 \notin Gaps
  BY <1>4, <1>10
<1> QED BY <1>5, <1>7, <1>8, <1>10, <1>11

\* ... and takes nothing twice.
LEMMA AmongOnce ==
  ASSUME NEW N \in Nat, NEW T, NEW q, q = [i \in 1..N |-> i]
  PROVE  \A a, b \in DOMAIN Among(q, T) : Among(q, T)[a] = Among(q, T)[b] => a = b
<1>0. IsSeq(q) /\ Len(q) = N /\ DOMAIN q = 1..N
  <2>1. q = [n \in 1..N |-> q[n]] OBVIOUS
  <2> QED BY <2>1, FunctionIsSeq
<1>1. SeqIn(q, 1..N) /\ \A n \in 1..N : q[n] = n
  BY <1>0 DEF SeqIn
<1>2. PICK g : /\ IsFilter(g, q, T, N) /\ Among(q, T) = g[N]
               /\ \A n \in 0..N : g[n] \in Seq((1..N) \cap T)
  BY <1>0, <1>1, AmongFilter
<1> DEFINE Rising(x, n) == /\ \A a \in DOMAIN x : x[a] <= n
                           /\ \A a, b \in DOMAIN x : x[a] = x[b] => a = b
           Gaps == {n \in 0..N : ~Rising(g[n], n)}
<1>3. SUFFICES ASSUME Gaps # {} PROVE FALSE
  <2>1. Gaps = {} => Rising(g[N], N) OBVIOUS
  <2> QED BY <2>1, <1>2
<1>4. PICK n \in Gaps : \A j \in Gaps : n <= j
  <2>1. Gaps \subseteq Nat OBVIOUS
  <2> HIDE DEF Gaps
  <2> QED BY <1>3, <2>1, LeastExists
<1>5. n \in 0..N /\ ~Rising(g[n], n)
  OBVIOUS
<1>6. g[n] = IF n = 0 THEN <<>> ELSE IF q[n] \in T THEN Append(g[n - 1], q[n]) ELSE g[n - 1]
  BY <1>2, <1>5, Zenon DEF IsFilter
<1>7. n # 0
  <2> SUFFICES ASSUME n = 0 PROVE FALSE OBVIOUS
  <2>1. g[n] = <<>> BY <1>6
  <2>2. Rising(<<>>, n) OBVIOUS
  <2> QED BY <2>1, <2>2, <1>5
<1>8. n \in 1..N /\ n - 1 \in 0..N /\ ~(n <= n - 1)
  BY <1>5, <1>7
<1>9. Rising(g[n - 1], n - 1)
  <2>1. n - 1 \notin Gaps BY <1>4, <1>8
  <2> QED BY <2>1, <1>8
<1> DEFINE x == g[n - 1]
<1>10. x \in Seq(Nat) /\ g[n] \in Seq(Nat)
  <2>1. x \in Seq((1..N) \cap T) /\ g[n] \in Seq((1..N) \cap T) BY <1>2, <1>5, <1>8
  <2>2. (1..N) \cap T \subseteq Nat OBVIOUS
  <2> HIDE DEF x
  <2> QED BY <2>1, <2>2
<1>11. CASE q[n] \in T
  <2>1. g[n] = Append(x, n) BY <1>1, <1>6, <1>7, <1>8, <1>11
  <2> HIDE DEF x
  <2>2. /\ Len(x) \in Nat /\ DOMAIN x = 1..Len(x) /\ DOMAIN g[n] = 1..(Len(x) + 1)
        /\ g[n][Len(x) + 1] = n /\ \A a \in 1..Len(x) : g[n][a] = x[a]
    BY <1>8, <1>10, <2>1, AppendProperties, LenProperties
  <2>3. \A a \in 1..Len(x) : x[a] \in Nat /\ x[a] <= n - 1
    BY <1>9, <1>10, <2>2, ElementOfSeq DEF x
  <2>4. \A a \in DOMAIN g[n] : g[n][a] <= n BY <2>2, <2>3, <1>8
  <2>5. ASSUME NEW a \in DOMAIN g[n], NEW b \in DOMAIN g[n], g[n][a] = g[n][b] PROVE a = b
    <3>1. CASE a \in 1..Len(x) /\ b \in 1..Len(x) BY <3>1, <2>2, <2>5, <1>9 DEF x
    <3>2. CASE a = Len(x) + 1 /\ b \in 1..Len(x) BY <3>2, <2>2, <2>3, <2>5, <1>8
    <3>3. CASE b = Len(x) + 1 /\ a \in 1..Len(x) BY <3>3, <2>2, <2>3, <2>5, <1>8
    <3> QED BY <3>1, <3>2, <3>3, <2>2
  <2> QED BY <1>5, <2>4, <2>5
<1>12. CASE q[n] \notin T
  <2>1. g[n] = x BY <1>6, <1>7, <1>12
  <2>2. \A a \in DOMAIN x : x[a] \in Nat BY <1>10, LenProperties, ElementOfSeq
  <2>3. Rising(g[n], n) BY <2>1, <2>2, <1>8, <1>9
  <2> QED BY <2>3, <1>5
<1> QED BY <1>11, <1>12

-----------------------------------------------------------------------------
(* Steps of a statement that change the session only.                      *)

LEMMA Tables ==
  ASSUME Shape
  PROVE  /\ Len(heap) \in Nat /\ Rids = 1..Len(heap)
         /\ Len(status) \in Nat /\ DOMAIN status = 1..Len(status)
         /\ DOMAIN lock = DOMAIN status
<1>1. Len(heap) \in Nat /\ DOMAIN heap = 1..Len(heap)
  BY SeqFacts DEF Shape
<1>2. Len(status) \in Nat /\ DOMAIN status = 1..Len(status)
  BY SeqFacts DEF Shape
<1>3. Len(lock) \in Nat /\ DOMAIN lock = 1..Len(lock)
  BY SeqFacts DEF Shape
<1> QED BY <1>1, <1>2, <1>3 DEF Shape, Rids

\* What a step of s may make of its session t, as far as the invariant is concerned.
Onward(t, n) ==
  /\ DOMAIN n = TxnFields /\ n.id = t.id /\ n.stamped = t.stamped
  /\ DOMAIN n.prog = {"block", "ext", "stmts"} /\ n.prog.block = t.prog.block
  /\ DOMAIN n.task = TaskFields
  /\ WorkOK(n) /\ CandsOK(n)
  /\ n.phase \notin {"start", "decide", "done"}
  /\ n.phase \in {"unlock", "leave"} => n.verdict \in {"committed", "aborted"}
  /\ ~(n.phase = "unlock" /\ n.prog.block /\ n.verdict = "aborted")
  /\ n.phase = "lock" \/ Targeted(n) => n.task.rid \in Rids
  /\ Targeted(n) => n.task.rid \in lock[n.id]
  /\ n.phase \in {"lookup", "judge", "wait", "asleep"} /\ n.detect => n.task.kind = "insert"

Inner(s) ==
  /\ heap' = heap /\ status' = status /\ lock' = lock /\ buried' = buried
  /\ IsSeq(index')
  /\ exposed \subseteq exposed'
  /\ Undecided(session[s])
  /\ \E n : /\ session' = [session EXCEPT ![s] = n]
            /\ Onward(session[s], n)
            /\ Clean' /\ Looked(n) => Free(n.task.rid, n.id)

LEMMA InnerKept ==
  ASSUME IInv, NEW s \in Sessions, Inner(s)
  PROVE  IInv'
<1> USE DEF IInv
<1>0. Shape OBVIOUS
<1>a. /\ heap' = heap /\ status' = status /\ lock' = lock /\ buried' = buried
      /\ IsSeq(index')
      /\ exposed \subseteq exposed' /\ Undecided(session[s])
  BY DEF Inner
<1>b. PICK n : /\ session' = [session EXCEPT ![s] = n]
               /\ Onward(session[s], n)
               /\ Clean' /\ Looked(n) => Free(n.task.rid, n.id)
  BY DEF Inner
<1>c. /\ Sessions' = Sessions /\ Rids' = Rids
      /\ session'[s] = n /\ \A r \in Sessions \ {s} : session'[r] = session[r]
  BY <1>a, <1>b DEF Sessions, Rids
<1>d. Clean' => Clean
  BY <1>a DEF Clean
<1>e. \A t : (WorkOK(t)' <=> WorkOK(t)) /\ (CandsOK(t)' <=> CandsOK(t)) /\ (SessionOK(t)' <=> SessionOK(t))
  BY <1>a, <1>c DEF WorkOK, CandsOK, SessionOK
<1>f. n.id = session[s].id /\ n.stamped = session[s].stamped
  BY <1>b DEF Onward
<1>1. Shape'
  <2>1. SessionOK(n)
    BY <1>b DEF Onward, SessionOK, Shape
  <2>2. \A r \in Sessions : SessionOK(session'[r])
    BY <1>c, <2>1 DEF Shape
  <2>3. (\A r \in Sessions : SessionOK(session[r]))'
    BY <1>c, <1>e, <2>2
  <2>4. IsSeq(heap)' /\ (\A i \in Rids : DOMAIN heap[i] = RowFields /\ heap[i].xmax \in 0..Len(status))'
    BY <1>a, <1>c DEF Shape, IsSeq
  <2>5. IsSeq(index)'
    BY <1>a DEF IsSeq
  <2>6. IsSeq(status)' /\ IsSeq(lock)' /\ Len(lock)' = Len(status)' /\ (\A x \in DOMAIN lock : lock[x] \subseteq Rids)'
    BY <1>a, <1>c DEF Shape, IsSeq
  <2>7. (buried \subseteq Rids)'
    BY <1>a, <1>c DEF Shape
  <2> QED BY <2>3, <2>4, <2>5, <2>6, <2>7 DEF Shape
<1>2. Named'
  <2>1. \A r \in Sessions : session'[r].id = session[r].id
    BY <1>c, <1>f
  <2>2. \A r \in Sessions : session'[r].phase # "start" => session[r].id \in DOMAIN status
    <3>1. session[s].id \in DOMAIN status BY <1>a DEF Named, Undecided
    <3> QED BY <3>1, <1>c DEF Named
  <2> QED BY <2>1, <2>2, <1>a, <1>c DEF Named
<1>3. Ending'
  <2>1. ASSUME NEW r \in Sessions
        PROVE  /\ session'[r].phase = "start" => session'[r].id = NoTxn /\ session'[r].stamped = {}
               /\ Undecided(session'[r]) => status[session'[r].id] = "running"
               /\ session'[r].phase = "decide" =>
                    status[session'[r].id] = "leaving" /\ session'[r].verdict \in {"committed", "aborted"}
               /\ session'[r].phase \in {"unlock", "leave"} => session'[r].verdict \in {"committed", "aborted"}
    <3>1. CASE r = s
      <4>1. n.phase \notin {"start", "decide"} /\ (n.phase \in {"unlock", "leave"} => n.verdict \in {"committed", "aborted"})
        BY <1>b DEF Onward
      <4>2. status[session[s].id] = "running" BY <1>a DEF Ending
      <4> QED BY <3>1, <4>1, <4>2, <1>c, <1>f
    <3>2. CASE r # s
      <4>1. session'[r] = session[r] BY <3>2, <1>c
      <4> QED BY <4>1 DEF Ending
    <3> QED BY <3>1, <3>2
  <2> QED BY <2>1, <1>a, <1>c DEF Ending, Undecided, DecidesFirst
<1>4. Exclusive'
  BY <1>a DEF Exclusive
<1>5. Aimed'
  <2>1. \A r \in Sessions : /\ session'[r].phase = "lock" \/ Targeted(session'[r]) => session'[r].task.rid \in Rids
                            /\ Targeted(session'[r]) => session'[r].task.rid \in lock[session'[r].id]
    BY <1>b, <1>c DEF Aimed, Onward
  <2> QED BY <2>1, <1>a, <1>c DEF Aimed, Targeted
<1>6. Seeking'
  <2>1. \A r \in Sessions : session'[r].phase \in {"lookup", "judge", "wait", "asleep"} /\ session'[r].detect
                            => session'[r].task.kind = "insert"
    BY <1>b, <1>c DEF Seeking, Onward
  <2> QED BY <2>1, <1>c DEF Seeking
<1>7. Checked'
  <2> SUFFICES ASSUME Clean' PROVE (\A r \in Sessions : Looked(session[r]) => Free(session[r].task.rid, session[r].id))'
    BY DEF Checked
  <2>1. \A r \in Sessions : Looked(session'[r]) => Free(session'[r].task.rid, session'[r].id)
    BY <1>b, <1>c, <1>d DEF Checked
  <2> QED BY <2>1, <1>a, <1>c DEF Looked, Free
<1>8. Stamped'
  <2> SUFFICES ASSUME Clean'
      PROVE (\A r \in Sessions : \A i \in session[r].stamped :
               status[session[r].id] # "aborted" => heap[i].xmax = session[r].id)'
    BY DEF Stamped
  <2>1. \A r \in Sessions : session'[r].id = session[r].id /\ session'[r].stamped = session[r].stamped
    BY <1>c, <1>f
  <2> QED BY <2>1, <1>a, <1>c, <1>d DEF Stamped
<1>9. DeletedStays'
  BY <1>a, <1>d DEF DeletedStays, Committed, Clean
<1> QED BY <1>1, <1>2, <1>3, <1>4, <1>5, <1>6, <1>7, <1>8, <1>9

\* The shape of a session, without the numbers.
Session0(t) ==
  /\ DOMAIN t = TxnFields /\ DOMAIN t.task = TaskFields
  /\ DOMAIN t.prog = {"block", "ext", "stmts"} /\ t.prog.block \in BOOLEAN
  /\ WorkOK(t) /\ CandsOK(t)

LEMMA SessionShape ==
  ASSUME IInv, NEW s \in Sessions
  PROVE  SessionOK(session[s]) /\ Session0(session[s])
BY DEF IInv, Shape, SessionOK, Session0

\* An error leads to the end of the transaction, or of the statement.
LEMMA FailingOnward ==
  ASSUME NEW t, Session0(t)
  PROVE  Onward(t, Failing(t)) /\ ~Looked(Failing(t))
<1> DEFINE n == Failing(t)
<1>1. /\ DOMAIN n = TxnFields /\ n.id = t.id /\ n.stamped = t.stamped /\ n.prog = t.prog /\ n.task = t.task
      /\ n.work = t.work /\ n.cands = t.cands
  BY DEF Failing, Session0, TxnFields
<1>2. \/ n.phase = "end"
      \/ n.verdict = "aborted" /\ n.phase = "leave"
      \/ n.verdict = "aborted" /\ n.phase = "unlock" /\ ~t.prog.block
  BY DEF Failing, Session0, TxnFields
<1> HIDE DEF n
<1>3. WorkOK(n) /\ CandsOK(n)
  BY <1>1 DEF Session0, WorkOK, CandsOK
<1>4. Onward(t, n)
  BY <1>1, <1>2, <1>3 DEF Onward, Session0, Targeted
<1>5. ~Looked(n)
  BY <1>2 DEF Looked
<1> QED BY <1>4, <1>5 DEF n

\* A statement begins with a scan, a search for the conflict or the row to be inserted.
LEMMA LaunchOnward ==
  ASSUME NEW t, Session0(t)
  PROVE  /\ Onward(t, Launch(t)) /\ ~Looked(Launch(t)) /\ ~Targeted(Launch(t))
         /\ Launch(t).phase \in {"end", "scan", "lookup", "fk"}
<1> DEFINE st  == Head(t.prog.stmts)
           row == [kind |-> "insert", rid |-> NoRow, tab |-> st.tab, key |-> st.key]
           n   == Launch(t)
<1>1. CASE t.prog.stmts = <<>>
  <2>1. n = [t EXCEPT !.phase = "end"] BY <1>1 DEF Launch
  <2>2. /\ DOMAIN n = TxnFields /\ n.id = t.id /\ n.stamped = t.stamped /\ n.prog = t.prog /\ n.task = t.task
        /\ n.work = t.work /\ n.cands = t.cands /\ n.phase = "end"
    BY <2>1 DEF Session0, TxnFields
  <2> HIDE DEF n
  <2>3. WorkOK(n) /\ CandsOK(n) BY <2>2 DEF Session0, WorkOK, CandsOK
  <2>4. Onward(t, n) /\ ~Looked(n) /\ ~Targeted(n) /\ n.phase \in {"end", "scan", "lookup", "fk"}
    BY <2>2, <2>3 DEF Onward, Session0, Targeted, Looked
  <2> QED BY <2>4 DEF n
<1>2. CASE t.prog.stmts # <<>> /\ st.op # "insert"
  <2>1. n = [t EXCEPT !.phase = "scan", !.attempt = 0] BY <1>2 DEF Launch
  <2>2. /\ DOMAIN n = TxnFields /\ n.id = t.id /\ n.stamped = t.stamped /\ n.prog = t.prog /\ n.task = t.task
        /\ n.work = t.work /\ n.cands = t.cands /\ n.phase = "scan"
    BY <2>1 DEF Session0, TxnFields
  <2> HIDE DEF n
  <2>3. WorkOK(n) /\ CandsOK(n) BY <2>2 DEF Session0, WorkOK, CandsOK
  <2>4. Onward(t, n) /\ ~Looked(n) /\ ~Targeted(n) /\ n.phase \in {"end", "scan", "lookup", "fk"}
    BY <2>2, <2>3 DEF Onward, Session0, Targeted, Looked
  <2> QED BY <2>4 DEF n
<1>3. CASE t.prog.stmts # <<>> /\ ~(st.op # "insert")
  <2>0. n = [t EXCEPT !.task = row, !.new = NoRow, !.detect = Seeks(st),
                      !.phase = IF Seeks(st) THEN "lookup" ELSE "fk"]
    BY <1>3, Zenon DEF Launch
  <2>r. row.kind = "insert" /\ DOMAIN row = TaskFields BY DEF TaskFields
  <2> DEFINE p == IF Seeks(st) THEN "lookup" ELSE "fk"
  <2>p. p \in {"lookup", "fk"} OBVIOUS
  <2> HIDE DEF row, p
  <2>2. /\ DOMAIN n = TxnFields /\ n.id = t.id /\ n.stamped = t.stamped /\ n.prog = t.prog /\ n.task = row
        /\ n.work = t.work /\ n.cands = t.cands /\ n.phase = p
    BY <2>0 DEF Session0, TxnFields, p
  <2> HIDE DEF n
  <2>3. WorkOK(n) /\ CandsOK(n) BY <2>2 DEF Session0, WorkOK, CandsOK
  <2>4. Onward(t, n) /\ ~Looked(n) /\ ~Targeted(n) /\ n.phase \in {"end", "scan", "lookup", "fk"}
    BY <2>2, <2>3, <2>p, <2>r DEF Onward, Session0, Targeted, Looked
  <2> QED BY <2>4 DEF n
<1> QED BY <1>1, <1>2, <1>3

\* A step that makes n of s's session is one of the class, if n may follow.
LEMMA InnerIf ==
  ASSUME IInv, NEW s \in Sessions, NEW n,
         UNCHANGED <<heap, status, lock, buried>>, exposed \subseteq exposed',
         IsSeq(index'),
         Undecided(session[s]),
         session' = [session EXCEPT ![s] = n],
         Onward(session[s], n),
         Clean' /\ Looked(n) => Free(n.task.rid, n.id)
  PROVE  Inner(s)
BY DEF Inner

LEMMA FlagGrows ==
  ASSUME NEW c, Flag(c)
  PROVE  exposed \subseteq exposed'
BY DEF Flag

LEMMA IndexKept ==
  ASSUME IInv, UNCHANGED index
  PROVE  IsSeq(index')
BY DEF IInv, Shape, IsSeq

\* The matching rows are rows.
LEMMA MatchingIn ==
  ASSUME IInv, NEW tab, NEW key, NEW me, NEW snap
  PROVE  SeqIn(Matching(tab, key, me, snap), Rids)
<1> DEFINE q == [i \in Rids |-> i]
           T == {i \in Rids : heap[i].tab = tab /\ heap[i].key = key /\ IsVisible(heap[i], me, snap)}
<1>1. Len(heap) \in Nat /\ Rids = 1..Len(heap)
  BY Tables DEF IInv
<1>2. SeqIn(q, Rids)
  <2>1. q = [i \in 1..Len(heap) |-> q[i]] BY <1>1
  <2>2. IsSeq(q) /\ DOMAIN q = 1..Len(heap)
    <3> HIDE DEF q
    <3> QED BY <1>1, <2>1, FunctionIsSeq
  <2> QED BY <2>2, <1>1 DEF SeqIn
<1>3. SeqIn(Among(q, T), Rids \cap T)
  <2> HIDE DEF q, T
  <2> QED BY <1>2, AmongIn
<1>4. Matching(tab, key, me, snap) = Among(q, T)
  BY Zenon DEF Matching
<1> HIDE DEF q, T
<1> QED BY <1>3, <1>4 DEF SeqIn

\* A sequence of rows made into one of tasks, one each.
LEMMA TasksOf ==
  ASSUME NEW rows, SeqIn(rows, Rids), NEW kind, NEW tab, NEW key, NEW w,
         w = [i \in DOMAIN rows |-> [kind |-> kind, rid |-> rows[i], tab |-> tab, key |-> key]]
  PROVE  IsSeq(w) /\ \A n \in DOMAIN w : DOMAIN w[n] = TaskFields /\ w[n].rid \in Rids
<1>1. IsSeq(rows) /\ \A n \in DOMAIN rows : rows[n] \in Rids
  BY DEF SeqIn
<1>2. Len(rows) \in Nat /\ DOMAIN rows = 1..Len(rows)
  BY <1>1, SeqFacts
<1>3. DOMAIN w = 1..Len(rows) /\ w = [i \in 1..Len(rows) |-> w[i]]
  BY <1>2
<1>4. IsSeq(w)
  BY <1>2, <1>3, FunctionIsSeq
<1>5. \A n \in DOMAIN rows : w[n] = [kind |-> kind, rid |-> rows[n], tab |-> tab, key |-> key]
  BY Zenon
<1> QED BY <1>1, <1>2, <1>3, <1>4, <1>5 DEF TaskFields

\* The end of the statement by an error.
LEMMA FailInner ==
  ASSUME IInv, NEW s \in Sessions, Fail(s), Undecided(session[s]),
         UNCHANGED <<heap, index, status, lock, buried>>, exposed \subseteq exposed'
  PROVE  Inner(s)
<1> DEFINE n == Failing(session[s])
<1>1. Onward(session[s], n) /\ ~Looked(n)
  BY SessionShape, FailingOnward
<1>2. session' = [session EXCEPT ![s] = n]
  BY DEF Fail, Go
<1> HIDE DEF n
<1> QED BY <1>1, <1>2, InnerIf, IndexKept

\* Only the phase changes.
LEMMA ToInner ==
  ASSUME IInv, NEW s \in Sessions, NEW p, To(s, p), Undecided(session[s]),
         UNCHANGED <<heap, index, status, lock, buried>>, exposed \subseteq exposed',
         p \in {"scan", "fk", "stamp", "place", "next", "lookup", "asleep"},
         p \in {"fk", "stamp"} => \/ Targeted(session[s])
                                  \/ p = "fk" /\ session[s].task.kind = "insert",
         p \in {"lookup", "asleep"} => session[s].phase \in {"wait", "asleep"},
         Clean' => \/ p \notin {"fk", "stamp"}
                   \/ p = "fk" /\ session[s].task.kind = "insert"
                   \/ Free(session[s].task.rid, session[s].id)
  PROVE  Inner(s)
<1> DEFINE t == session[s]
           n == [t EXCEPT !.phase = p]
<1>1. Session0(t)
  BY SessionShape
<1>2. session' = [session EXCEPT ![s] = n]
  BY DEF To, Sessions
<1>t. /\ Targeted(t) => t.task.rid \in Rids /\ t.task.rid \in lock[t.id]
      /\ t.phase \in {"wait", "asleep"} /\ t.detect => t.task.kind = "insert"
  BY DEF IInv, Aimed, Seeking
<1>n. n.phase = p /\ DOMAIN n = TxnFields /\ n.id = t.id /\ n.stamped = t.stamped /\ n.prog = t.prog
      /\ n.task = t.task /\ n.work = t.work /\ n.cands = t.cands /\ n.detect = t.detect
  BY <1>1 DEF Session0, TxnFields
<1> HIDE DEF n
<1>3. WorkOK(n) /\ CandsOK(n)
  BY <1>1, <1>n DEF Session0, WorkOK, CandsOK
<1>4. Targeted(n) => Targeted(t)
  BY <1>n DEF Targeted
<1>5. Onward(t, n)
  <2>1. n.phase \in {"lookup", "judge", "wait", "asleep"} /\ n.detect => n.task.kind = "insert"
    BY <1>n, <1>t
  <2>2. n.phase = "lock" \/ Targeted(n) => n.task.rid \in Rids
    BY <1>n, <1>4, <1>t
  <2>3. Targeted(n) => n.task.rid \in lock[n.id]
    BY <1>n, <1>4, <1>t
  <2>4. n.phase \notin {"start", "decide", "done", "unlock", "leave"}
    BY <1>n
  <2> HIDE DEF t
  <2> QED BY <1>n, <1>1, <1>3, <2>1, <2>2, <2>3, <2>4 DEF Onward, Session0
<1>6. Clean' /\ Looked(n) => Free(n.task.rid, n.id)
  BY <1>n DEF Looked
<1> QED BY <1>2, <1>5, <1>6, InnerIf, IndexKept

LEMMA ScanInner ==
  ASSUME IInv, NEW s \in Sessions, Scan(s)
  PROVE  Inner(s)
<1> DEFINE t == session[s]
           snap == TakenSnapshot(NextTxnId)
           st   == Stmt(s)
           rows == Matching(st.tab, st.key, Me(s), snap)
           w    == [i \in DOMAIN rows |-> [kind |-> st.op, rid |-> rows[i], tab |-> st.tab, key |-> st.to]]
           n    == [t EXCEPT !.phase = "next", !.snap = snap, !.attempt = @ + 1, !.work = w]
<1>1. /\ t.phase = "scan" /\ UNCHANGED <<heap, index, status, lock, buried>> /\ exposed \subseteq exposed'
      /\ Fail(s) \/ session' = [session EXCEPT ![s] = n]
  BY DEF Scan, Go
<1>2. Undecided(t)
  BY <1>1 DEF Undecided
<1>3. CASE Fail(s)
  BY <1>1, <1>2, <1>3, FailInner
<1>4. CASE session' = [session EXCEPT ![s] = n]
  <2>1. Session0(t) BY SessionShape
  <2>2. SeqIn(rows, Rids) BY MatchingIn
  <2>3. IsSeq(w) /\ \A k \in DOMAIN w : DOMAIN w[k] = TaskFields /\ w[k].rid \in Rids
    <3> DEFINE kind == st.op tab == st.tab key == st.to
    <3>1. w = [i \in DOMAIN rows |-> [kind |-> kind, rid |-> rows[i], tab |-> tab, key |-> key]]
      OBVIOUS
    <3> HIDE DEF rows, w, kind, tab, key
    <3> QED BY <2>2, <3>1, TasksOf
  <2> HIDE DEF w, snap
  <2>n. /\ n.phase = "next" /\ DOMAIN n = TxnFields /\ n.id = t.id /\ n.stamped = t.stamped /\ n.prog = t.prog
        /\ n.task = t.task /\ n.work = w /\ n.cands = t.cands
    BY <2>1 DEF Session0, TxnFields
  <2> HIDE DEF n, t
  <2>4. WorkOK(n) /\ CandsOK(n) BY <2>1, <2>3, <2>n DEF Session0, WorkOK, CandsOK
  <2>5. Onward(t, n) /\ ~Looked(n) BY <2>1, <2>n, <2>4 DEF Onward, Session0, Targeted, Looked
  <2> QED BY <1>1, <1>2, <1>4, <2>5, InnerIf, IndexKept DEF t
<1> QED BY <1>1, <1>3, <1>4

LEMMA LockFailsInner ==
  ASSUME IInv, NEW s \in Sessions, LockFails(s)
  PROVE  Inner(s)
BY FailInner DEF LockFails, Undecided

LEMMA CheckRowInner ==
  ASSUME IInv, NEW s \in Sessions, CheckRow(s)
  PROVE  Inner(s)
<1> DEFINE t == session[s]
           x == heap[t.task.rid].xmax
<1>1. /\ t.phase = "check" /\ UNCHANGED <<heap, index, status, lock, buried>>
      /\ Flag({ <<x # NoTxn /\ status[x] = "leaving", "misread">> })
  BY DEF CheckRow, Task
<1>2. Undecided(t) /\ Targeted(t)
  BY <1>1 DEF Undecided, Targeted
<1>3. exposed \subseteq exposed'
  BY <1>1, FlagGrows
<1>4. CASE Recheck(s) = "ok"
  <2>1. To(s, IF t.task.tab = "child" /\ t.task.kind = "update" THEN "fk" ELSE "stamp")
    BY <1>4 DEF CheckRow, Task
  <2>2. PICK p \in {"fk", "stamp"} : To(s, p)
    BY <2>1
  <2>3. Clean' => ~(x # NoTxn /\ status[x] = "leaving")
    <3>1. (x # NoTxn /\ status[x] = "leaving") => "misread" \in exposed'
      <4> DEFINE c == <<x # NoTxn /\ status[x] = "leaving", "misread">>
      <4> SUFFICES ASSUME x # NoTxn /\ status[x] = "leaving" PROVE "misread" \in exposed' OBVIOUS
      <4>1. c[1] = TRUE /\ c[2] = "misread" OBVIOUS
      <4>2. exposed' = exposed \cup {d[2] : d \in {d \in {c} : d[1]}} BY <1>1 DEF Flag
      <4> HIDE DEF c
      <4> QED BY <4>1, <4>2
    <3> QED BY <3>1 DEF Clean
  <2>4. Clean' => Free(t.task.rid, t.id)
    <3>1. x \in {NoTxn, t.id} \/ Status(x) = "aborted"
      BY <1>4 DEF Recheck, Task, Me
    <3>2. Status(x) = "aborted" => status[x] \in {"leaving", "aborted"}
      BY DEF Status
    <3> QED BY <2>3, <3>1, <3>2 DEF Free
  <2> QED BY <1>1, <1>2, <1>3, <2>2, <2>4, ToInner
<1>5. CASE Recheck(s) = "restart"
  <2>1. To(s, "scan") BY <1>5 DEF CheckRow
  <2> QED BY <1>1, <1>2, <1>3, <2>1, ToInner
<1>6. CASE Recheck(s) \notin {"ok", "restart"}
  <2>1. Fail(s) BY <1>6 DEF CheckRow
  <2> QED BY <1>1, <1>2, <1>3, <2>1, FailInner
<1> QED BY <1>4, <1>5, <1>6

LEMMA ForeignKeyInner ==
  ASSUME IInv, NEW s \in Sessions, ForeignKey(s)
  PROVE  Inner(s)
<1> DEFINE t == session[s]
<1>1. /\ t.phase = "fk" /\ UNCHANGED <<heap, index, status, lock, buried>>
      /\ \/ Fail(s)
         \/ To(s, IF t.task.kind = "insert" THEN "place" ELSE "stamp")
  BY DEF ForeignKey
<1>2. Undecided(t)
  BY <1>1 DEF Undecided
<1>3. exposed \subseteq exposed'
  BY FlagGrows DEF ForeignKey
<1>4. CASE Fail(s)
  BY <1>1, <1>2, <1>3, <1>4, FailInner
<1>5. CASE t.task.kind = "insert" /\ To(s, "place")
  BY <1>1, <1>2, <1>3, <1>5, ToInner
<1>6. CASE t.task.kind # "insert" /\ To(s, "stamp")
  <2>1. Targeted(t) /\ Looked(t) BY <1>1, <1>6 DEF Targeted, Looked
  <2>2. Clean' => Clean BY <1>3 DEF Clean
  <2>3. Clean' => Free(t.task.rid, t.id) BY <2>1, <2>2 DEF IInv, Checked
  <2> QED BY <1>1, <1>2, <1>3, <1>6, <2>1, <2>3, ToInner
<1> QED BY <1>1, <1>4, <1>5, <1>6

LEMMA WaitTestInner ==
  ASSUME IInv, NEW s \in Sessions, WaitTest(s)
  PROVE  Inner(s)
<1>1. /\ session[s].phase = "wait" /\ UNCHANGED <<heap, index, status, lock, buried, exposed>>
      /\ To(s, "lookup") \/ To(s, "asleep")
  BY DEF WaitTest
<1>2. Undecided(session[s]) BY <1>1 DEF Undecided
<1>3. PICK p \in {"lookup", "asleep"} : To(s, p) BY <1>1
<1> QED BY <1>1, <1>2, <1>3, ToInner

LEMMA TimeoutInner ==
  ASSUME IInv, NEW s \in Sessions, Timeout(s)
  PROVE  Inner(s)
<1>1. /\ session[s].phase = "asleep" /\ UNCHANGED <<heap, index, status, lock, buried, exposed>>
      /\ To(s, "lookup") \/ Fail(s)
  BY DEF Timeout, TimerFires
<1>2. Undecided(session[s]) BY <1>1 DEF Undecided
<1>3. CASE To(s, "lookup") BY <1>1, <1>2, <1>3, ToInner
<1>4. CASE Fail(s) BY <1>1, <1>2, <1>4, FailInner
<1> QED BY <1>1, <1>3, <1>4

LEMMA EnterInner ==
  ASSUME IInv, NEW s \in Sessions, Enter(s)
  PROVE  Inner(s)
<1> DEFINE t == session[s]
           n == [t EXCEPT !.phase = "next"]
<1>1. /\ t.phase = "enter" /\ UNCHANGED <<heap, status, lock, buried>> /\ index' = Append(index, t.new)
      /\ session' = [session EXCEPT ![s] = n]
  BY DEF Enter, To, Sessions
<1>2. exposed \subseteq exposed'
  BY FlagGrows DEF Enter
<1>3. IsSeq(index')
  BY <1>1, AppendOne DEF OneMore, IInv, Shape
<1>4. Session0(t)
  BY SessionShape
<1>n. /\ n.phase = "next" /\ DOMAIN n = TxnFields /\ n.id = t.id /\ n.stamped = t.stamped /\ n.prog = t.prog
      /\ n.task = t.task /\ n.work = t.work /\ n.cands = t.cands
  BY <1>4 DEF Session0, TxnFields
<1>5. Undecided(t)
  BY <1>1 DEF Undecided
<1> HIDE DEF n, t
<1>6. WorkOK(n) /\ CandsOK(n)
  BY <1>4, <1>n DEF Session0, WorkOK, CandsOK
<1>7. Onward(t, n) /\ ~Looked(n)
  BY <1>4, <1>n, <1>6 DEF Onward, Session0, Targeted, Looked
<1> QED BY <1>1, <1>2, <1>3, <1>5, <1>7, InnerIf DEF t

\* Sequences of tasks about rows there are.
TasksOK(w) == IsSeq(w) /\ \A n \in DOMAIN w : DOMAIN w[n] = TaskFields /\ w[n].rid \in Rids

LEMMA TasksConcat ==
  ASSUME NEW a, TasksOK(a), NEW b, TasksOK(b)
  PROVE  TasksOK(a \o b)
<1> DEFINE A == {a[n] : n \in DOMAIN a}
           B == {b[n] : n \in DOMAIN b}
           S == A \cup B
<1>1. \A e \in S : DOMAIN e = TaskFields /\ e.rid \in Rids
  BY DEF TasksOK
<1>2. SeqIn(a, S) /\ SeqIn(b, S)
  BY DEF TasksOK, SeqIn
<1> HIDE DEF S
<1>3. a \o b \in Seq(S)
  BY <1>2, SeqInIsSeq, ConcatOf
<1>4. SeqIn(a \o b, S)
  BY <1>3, SeqInIsSeq
<1> QED BY <1>1, <1>4 DEF SeqIn, TasksOK

LEMMA TasksTail ==
  ASSUME NEW w, TasksOK(w), w # <<>>
  PROVE  TasksOK(Tail(w)) /\ DOMAIN Head(w) = TaskFields /\ Head(w).rid \in Rids
<1> DEFINE S == {w[n] : n \in DOMAIN w}
<1>1. \A e \in S : DOMAIN e = TaskFields /\ e.rid \in Rids
  BY DEF TasksOK
<1>2. w \in Seq(S)
  BY DEF TasksOK, IsSeq
<1> HIDE DEF S
<1>3. Head(w) \in S /\ Tail(w) \in Seq(S)
  BY <1>2, HeadTailProperties
<1>4. SeqIn(Tail(w), S)
  BY <1>3, SeqInIsSeq
<1> QED BY <1>1, <1>3, <1>4 DEF SeqIn, TasksOK

LEMMA OneTask ==
  ASSUME NEW e, DOMAIN e = TaskFields, e.rid \in Rids
  PROVE  TasksOK(<<e>>)
<1>1. <<e>> \in Seq({e})
  OBVIOUS
<1>2. SeqIn(<<e>>, {e})
  BY <1>1, SeqInIsSeq
<1> QED BY <1>2 DEF SeqIn, TasksOK

LEMMA NextTaskInner ==
  ASSUME IInv, NEW s \in Sessions, NextTask(s)
  PROVE  Inner(s)
<1> DEFINE t == session[s]
<1>1. /\ t.phase = "next" /\ UNCHANGED <<heap, index, status, lock, buried>>
  BY DEF NextTask
<1>2. exposed \subseteq exposed'
  BY FlagGrows DEF NextTask
<1>3. Undecided(t) /\ Session0(t)
  BY <1>1, SessionShape DEF Undecided
<1>4. CASE t.work = <<>>
  <2> DEFINE u == [t EXCEPT !.prog.stmts = Tail(@), !.task = NoTask]
  <2>1. session' = [session EXCEPT ![s] = Launch(u)] BY <1>4 DEF NextTask, Go
  <2>2. /\ DOMAIN u = TxnFields /\ u.id = t.id /\ u.stamped = t.stamped /\ u.task = NoTask
        /\ u.work = t.work /\ u.cands = t.cands
        /\ DOMAIN u.prog = {"block", "ext", "stmts"} /\ u.prog.block = t.prog.block
    BY <1>3 DEF Session0, TxnFields
  <2>3. DOMAIN NoTask = TaskFields BY DEF NoTask, TaskFields
  <2> HIDE DEF u, t
  <2>4. Session0(u) BY <1>3, <2>2, <2>3 DEF Session0, WorkOK, CandsOK
  <2>5. Onward(u, Launch(u)) /\ ~Looked(Launch(u)) BY <2>4, LaunchOnward
  <2>6. Onward(t, Launch(u)) BY <2>2, <2>5 DEF Onward
  <2> QED BY <1>1, <1>2, <1>3, <2>1, <2>5, <2>6, InnerIf, IndexKept DEF t
<1>5. CASE t.work # <<>>
  <2> DEFINE task == Head(t.work)
             c == Cascade(s, task.rid)
             v == [task EXCEPT !.kind = "victim"]
             w == c \o <<v>> \o Tail(t.work)
             a == [t EXCEPT !.work = w]
             b == [t EXCEPT !.phase = "lock", !.task = task, !.work = Tail(t.work)]
  <2>1. \/ Fail(s) \/ session' = [session EXCEPT ![s] = a] \/ session' = [session EXCEPT ![s] = b]
    BY <1>5 DEF NextTask, Go
  <2>2. TasksOK(t.work) BY <1>3 DEF Session0, WorkOK, TasksOK
  <2>3. TasksOK(Tail(t.work)) /\ DOMAIN task = TaskFields /\ task.rid \in Rids BY <1>5, <2>2, TasksTail
  <2>4. CASE Fail(s) BY <1>1, <1>2, <1>3, <2>4, FailInner
  <2>5. CASE session' = [session EXCEPT ![s] = a]
    <3>1. TasksOK(c)
      <4> DEFINE rows == Children(s, task.rid)
                 kind == IF onDelete = "CASCADE" THEN "cascade" ELSE "setnull"
                 tab == "child"
                 key == Null
      <4>1. SeqIn(rows, Rids) BY MatchingIn DEF Children
      <4>2. c = [n \in DOMAIN rows |-> [kind |-> kind, rid |-> rows[n], tab |-> tab, key |-> key]]
        BY DEF Cascade
      <4> HIDE DEF rows, kind, tab, key, c
      <4> QED BY <4>1, <4>2, TasksOf DEF TasksOK
    <3>2. DOMAIN v = TaskFields /\ v.rid \in Rids BY <2>3 DEF TaskFields
    <3>3. TasksOK(<<v>>)
      <4> HIDE DEF v
      <4> QED BY <3>2, OneTask
    <3>4. TasksOK(w)
      <4> HIDE DEF v, c
      <4>1. TasksOK(c \o <<v>>) BY <3>1, <3>3, TasksConcat
      <4> QED BY <4>1, <2>3, TasksConcat
    <3> HIDE DEF w
    <3>5. /\ a.phase = "next" /\ DOMAIN a = TxnFields /\ a.id = t.id /\ a.stamped = t.stamped /\ a.prog = t.prog
          /\ a.task = t.task /\ a.work = w /\ a.cands = t.cands
      BY <1>1, <1>3 DEF Session0, TxnFields
    <3> HIDE DEF a, t
    <3>6. WorkOK(a) /\ CandsOK(a) BY <1>3, <3>4, <3>5 DEF Session0, WorkOK, CandsOK, TasksOK
    <3>7. Onward(t, a) /\ ~Looked(a) BY <1>3, <3>5, <3>6 DEF Onward, Session0, Targeted, Looked
    <3> QED BY <1>1, <1>2, <1>3, <2>5, <3>7, InnerIf, IndexKept DEF t
  <2>6. CASE session' = [session EXCEPT ![s] = b]
    <3> DEFINE w1 == Tail(t.work)
    <3>1. TasksOK(w1) BY <2>3
    <3>2. b = [t EXCEPT !.phase = "lock", !.task = task, !.work = w1] OBVIOUS
    <3> HIDE DEF w1, task
    <3>5. /\ b.phase = "lock" /\ DOMAIN b = TxnFields /\ b.id = t.id /\ b.stamped = t.stamped /\ b.prog = t.prog
          /\ b.task = task /\ b.work = w1 /\ b.cands = t.cands
      BY <1>3, <3>2 DEF Session0, TxnFields
    <3> HIDE DEF b, t
    <3>6. WorkOK(b) /\ CandsOK(b) BY <1>3, <3>1, <3>5 DEF Session0, WorkOK, CandsOK, TasksOK
    <3>7. Onward(t, b) /\ ~Looked(b) BY <1>3, <2>3, <3>5, <3>6 DEF Onward, Session0, Targeted, Looked
    <3> QED BY <1>1, <1>2, <1>3, <2>6, <3>7, InnerIf, IndexKept DEF t
  <2> QED BY <2>1, <2>4, <2>5, <2>6
<1> QED BY <1>4, <1>5

LEMMA LookupInner ==
  ASSUME IInv, NEW s \in Sessions, Lookup(s)
  PROVE  Inner(s)
<1> DEFINE t == session[s]
           c == Among(index, {i \in Rids : heap[i].key = Task(s).key /\ i # session[s].new})
           n == [t EXCEPT !.phase = "judge", !.cands = c]
<1>1. /\ t.phase = "lookup" /\ UNCHANGED <<heap, index, status, lock, buried, exposed>>
      /\ session' = [session EXCEPT ![s] = n]
  BY DEF Lookup, Sessions
<1>2. Undecided(t) /\ Session0(t)
  BY <1>1, SessionShape DEF Undecided
<1>3. IsSeq(c) /\ \A k \in DOMAIN c : c[k] \in Rids
  <2> DEFINE S == {index[k] : k \in DOMAIN index}
             T == {i \in Rids : heap[i].key = Task(s).key /\ i # session[s].new}
  <2>1. SeqIn(index, S) BY DEF SeqIn, IInv, Shape
  <2>2. T \subseteq Rids OBVIOUS
  <2> HIDE DEF S, T
  <2>3. SeqIn(Among(index, T), S \cap T) BY <2>1, AmongIn
  <2>4. c = Among(index, T) BY DEF T
  <2> HIDE DEF c
  <2> QED BY <2>2, <2>3, <2>4 DEF SeqIn
<1> HIDE DEF c
<1>n. /\ n.phase = "judge" /\ DOMAIN n = TxnFields /\ n.id = t.id /\ n.stamped = t.stamped /\ n.prog = t.prog
      /\ n.task = t.task /\ n.work = t.work /\ n.cands = c /\ n.detect = t.detect
  BY <1>2 DEF Session0, TxnFields
<1>4. t.detect => t.task.kind = "insert"
  BY <1>1 DEF IInv, Seeking
<1> HIDE DEF n, t
<1>6. WorkOK(n) /\ CandsOK(n)
  BY <1>2, <1>3, <1>n DEF Session0, WorkOK, CandsOK
<1>7. Onward(t, n) /\ ~Looked(n)
  BY <1>2, <1>4, <1>n, <1>6 DEF Onward, Session0, Targeted, Looked
<1> QED BY <1>1, <1>2, <1>7, InnerIf, IndexKept DEF t

LEMMA EndBlockInner ==
  ASSUME IInv, NEW s \in Sessions, EndBlock(s)
  PROVE  Inner(s)
<1> DEFINE t == session[s]
<1>1. t.phase = "end" /\ UNCHANGED <<heap, index, status, lock, buried>>
  BY DEF EndBlock
<1>2. Undecided(t) /\ Session0(t)
  BY <1>1, SessionShape DEF Undecided
<1>3. PICK verdict \in IF t.prog.block THEN {"committed", "aborted"} ELSE {"committed"} :
        /\ Go(s, [t EXCEPT !.verdict = verdict,
                           !.phase = IF t.prog.block /\ verdict = "aborted" THEN "leave" ELSE "unlock"])
        /\ Flag({ <<t.failed /\ verdict = "committed", "partial">> })
  BY DEF EndBlock
<1>4. exposed \subseteq exposed'
  BY <1>3, FlagGrows
<1>5. verdict \in {"committed", "aborted"}
  OBVIOUS
<1> DEFINE p == IF t.prog.block /\ verdict = "aborted" THEN "leave" ELSE "unlock"
           n == [t EXCEPT !.verdict = verdict, !.phase = p]
<1>6. session' = [session EXCEPT ![s] = n]
  BY <1>3 DEF Go
<1>7. p \in {"leave", "unlock"} /\ ~(p = "unlock" /\ t.prog.block /\ verdict = "aborted")
  OBVIOUS
<1> HIDE DEF p
<1>n. /\ n.phase = p /\ DOMAIN n = TxnFields /\ n.id = t.id /\ n.stamped = t.stamped /\ n.prog = t.prog
      /\ n.task = t.task /\ n.work = t.work /\ n.cands = t.cands /\ n.verdict = verdict
  BY <1>2 DEF Session0, TxnFields
<1> HIDE DEF n, t
<1>8. WorkOK(n) /\ CandsOK(n)
  BY <1>2, <1>n DEF Session0, WorkOK, CandsOK
<1>9. Onward(t, n) /\ ~Looked(n)
  BY <1>2, <1>5, <1>7, <1>n, <1>8 DEF Onward, Session0, Targeted, Looked
<1> QED BY <1>1, <1>2, <1>4, <1>6, <1>9, InnerIf, IndexKept DEF t

LEMMA JudgeInner ==
  ASSUME IInv, NEW s \in Sessions, Judge(s)
  PROVE  Inner(s)
<1> DEFINE t == session[s]
           d == Deciding(s)
           a == [t EXCEPT !.phase = IF t.detect THEN "fk" ELSE "enter"]
           w == [t EXCEPT !.phase = "wait", !.target = Awaited(s, d[1])]
           n == IF d = <<>> THEN a ELSE IF Candidate(s, d[1]) = "duplicate" THEN Duplicate(s, d[1]) ELSE w
<1>1. /\ t.phase = "judge" /\ UNCHANGED <<heap, index, status, lock, buried>>
      /\ session' = [session EXCEPT ![s] = n]
  BY DEF Judge, Go
<1>2. exposed \subseteq exposed'
  BY FlagGrows DEF Judge
<1>3. Undecided(t) /\ Session0(t)
  BY <1>1, SessionShape DEF Undecided
<1>4. t.detect => t.task.kind = "insert"
  BY <1>1 DEF IInv, Seeking
<1>5. d # <<>> => d[1] \in Rids
  <2> DEFINE T == {i \in Rids : Candidate(s, i) # "ignore"}
  <2>1. SeqIn(t.cands, Rids) BY <1>3 DEF Session0, CandsOK, SeqIn
  <2>2. T \subseteq Rids OBVIOUS
  <2>3. d = Among(t.cands, T) BY DEF Deciding
  <2> HIDE DEF T, d, t
  <2>4. d \in Seq(Rids \cap T) BY <2>1, <2>3, AmongIn, SeqInIsSeq
  <2>5. d # <<>> => d[1] \in Rids \cap T BY <2>4
  <2> QED BY <2>5
<1>6. Onward(t, n) /\ ~Looked(n)
  <2>1. CASE d = <<>>
    <3>1. n = a BY <2>1, Zenon
    <3> DEFINE p == IF t.detect THEN "fk" ELSE "enter"
    <3>2. p \in {"fk", "enter"} /\ (p = "fk" => t.task.kind = "insert") BY <1>4
    <3>3. n = [t EXCEPT !.phase = p] BY <3>1
    <3> HIDE DEF p, n
    <3>n. /\ n.phase = p /\ DOMAIN n = TxnFields /\ n.id = t.id /\ n.stamped = t.stamped /\ n.prog = t.prog
          /\ n.task = t.task /\ n.work = t.work /\ n.cands = t.cands
      BY <1>3, <3>3 DEF Session0, TxnFields
    <3> HIDE DEF t
    <3>6. WorkOK(n) /\ CandsOK(n) BY <1>3, <3>n DEF Session0, WorkOK, CandsOK
    <3> QED BY <1>3, <3>2, <3>n, <3>6 DEF Onward, Session0, Targeted, Looked
  <2>2. CASE d # <<>> /\ Candidate(s, d[1]) = "duplicate"
    <3> DEFINE i == d[1]
               e == [t EXCEPT !.phase = "scan", !.work = <<>>]
               g == [t EXCEPT !.phase = "next"]
               l == [t EXCEPT !.phase = "lock", !.task.kind = "upsert", !.task.rid = i]
    <3>0. i \in Rids BY <1>5, <2>2
    <3>1. n = Duplicate(s, i) BY <2>2, Zenon
    <3> HIDE DEF n, d, i
    <3>2. n = e \/ n = Failing(t) \/ n = g \/ n = l
      <4>1. CASE ~t.detect /\ t.task.kind = "update" BY <3>1, <4>1 DEF Duplicate
      <4>2. CASE ~t.detect /\ ~(t.task.kind = "update") BY <3>1, <4>2 DEF Duplicate
      <4>3. CASE t.detect /\ Stmt(s).conflict = "nothing" BY <3>1, <4>3 DEF Duplicate
      <4>4. CASE t.detect /\ ~(Stmt(s).conflict = "nothing") BY <3>1, <4>4 DEF Duplicate
      <4> QED BY <4>1, <4>2, <4>3, <4>4
    <3>3. CASE n = e
      <4>n. /\ n.phase = "scan" /\ DOMAIN n = TxnFields /\ n.id = t.id /\ n.stamped = t.stamped /\ n.prog = t.prog
            /\ n.task = t.task /\ n.work = <<>> /\ n.cands = t.cands
        BY <1>3, <3>3 DEF Session0, TxnFields
      <4>1. IsSeq(<<>>)
        <5>1. <<>> \in Seq({}) OBVIOUS
        <5>2. SeqIn(<<>>, {}) BY <5>1, SeqInIsSeq
        <5> QED BY <5>2 DEF SeqIn
      <4> HIDE DEF t
      <4>6. WorkOK(n) /\ CandsOK(n) BY <1>3, <4>n, <4>1 DEF Session0, WorkOK, CandsOK
      <4> QED BY <1>3, <4>n, <4>6 DEF Onward, Session0, Targeted, Looked
    <3>4. CASE n = Failing(t)
      BY <1>3, <3>4, FailingOnward
    <3>5. CASE n = g
      <4>n. /\ n.phase = "next" /\ DOMAIN n = TxnFields /\ n.id = t.id /\ n.stamped = t.stamped /\ n.prog = t.prog
            /\ n.task = t.task /\ n.work = t.work /\ n.cands = t.cands
        BY <1>3, <3>5 DEF Session0, TxnFields
      <4> HIDE DEF t
      <4>6. WorkOK(n) /\ CandsOK(n) BY <1>3, <4>n DEF Session0, WorkOK, CandsOK
      <4> QED BY <1>3, <4>n, <4>6 DEF Onward, Session0, Targeted, Looked
    <3>6. CASE n = l
      <4>n. /\ n.phase = "lock" /\ DOMAIN n = TxnFields /\ n.id = t.id /\ n.stamped = t.stamped /\ n.prog = t.prog
            /\ DOMAIN n.task = TaskFields /\ n.task.rid = i /\ n.work = t.work /\ n.cands = t.cands
        BY <1>3, <3>6 DEF Session0, TxnFields, TaskFields
      <4> HIDE DEF t
      <4>6. WorkOK(n) /\ CandsOK(n) BY <1>3, <4>n DEF Session0, WorkOK, CandsOK
      <4> QED BY <1>3, <3>0, <4>n, <4>6 DEF Onward, Session0, Targeted, Looked
    <3> QED BY <3>2, <3>3, <3>4, <3>5, <3>6
  <2>3. CASE d # <<>> /\ Candidate(s, d[1]) # "duplicate"
    <3> DEFINE x == Awaited(s, d[1])
    <3>1. n = [t EXCEPT !.phase = "wait", !.target = x] BY <2>3, Zenon
    <3> HIDE DEF n, d, x
    <3>n. /\ n.phase = "wait" /\ DOMAIN n = TxnFields /\ n.id = t.id /\ n.stamped = t.stamped /\ n.prog = t.prog
          /\ n.task = t.task /\ n.work = t.work /\ n.cands = t.cands /\ n.detect = t.detect
      BY <1>3, <3>1 DEF Session0, TxnFields
    <3> HIDE DEF t
    <3>6. WorkOK(n) /\ CandsOK(n) BY <1>3, <3>n DEF Session0, WorkOK, CandsOK
    <3> QED BY <1>3, <1>4, <3>n, <3>6 DEF Onward, Session0, Targeted, Looked
  <2> QED BY <2>1, <2>2, <2>3
<1> HIDE DEF n
<1> QED BY <1>1, <1>2, <1>3, <1>6, InnerIf, IndexKept

-----------------------------------------------------------------------------
(* Steps that change the tables.                                           *)

\* A sequence changed in places is a sequence.
LEMMA ChangedSeq ==
  ASSUME NEW q, IsSeq(q), NEW b, b = [n \in DOMAIN q |-> b[n]]
  PROVE  IsSeq(b) /\ Len(b) = Len(q) /\ DOMAIN b = DOMAIN q
<1>1. Len(q) \in Nat /\ DOMAIN q = 1..Len(q)
  BY SeqFacts
<1>2. b = [n \in 1..Len(q) |-> b[n]]
  BY <1>1, Zenon
<1>3. IsSeq(b) /\ Len(b) = Len(q) /\ DOMAIN b = 1..Len(q)
  BY <1>1, <1>2, FunctionIsSeq
<1>4. DOMAIN b = DOMAIN q
  BY <1>1, <1>3, Zenon
<1> QED BY <1>3, <1>4, Zenon

\* Once begun, a transaction has an id that nobody else has.
LEMMA OwnId ==
  ASSUME IInv, NEW s \in Sessions, session[s].phase # "start"
  PROVE  /\ session[s].id \in DOMAIN status /\ session[s].id \in DOMAIN lock /\ session[s].id # NoTxn
         /\ \A r \in Sessions \ {s} : session[r].id # session[s].id
<1>1. Len(status) \in Nat /\ DOMAIN status = 1..Len(status) /\ DOMAIN lock = DOMAIN status
  BY Tables DEF IInv
<1>2. session[s].id \in DOMAIN status
  BY DEF IInv, Named
<1>3. session[s].id # NoTxn
  BY <1>1, <1>2 DEF NoTxn
<1> QED BY <1>1, <1>2, <1>3 DEF IInv, Named

\* No row appears, no transaction begins.
LEMMA ShapeKept ==
  ASSUME IInv, heap' = heap, index' = index, Sessions' = Sessions,
         IsSeq(status'), Len(status') = Len(status),
         IsSeq(lock'), Len(lock') = Len(lock), \A x \in DOMAIN lock' : lock'[x] \subseteq Rids,
         buried' \subseteq Rids, \A r \in Sessions : SessionOK(session'[r])
  PROVE  Shape'
<1>1. Rids' = Rids
  BY DEF Rids
<1>2. \A t : SessionOK(t)' <=> SessionOK(t)
  BY <1>1 DEF WorkOK, CandsOK, SessionOK
<1>3. (\A r \in Sessions : SessionOK(session[r]))'
  BY <1>2
<1>4. IsSeq(heap)' /\ (\A i \in Rids : DOMAIN heap[i] = RowFields /\ heap[i].xmax \in 0..Len(status))'
  BY <1>1 DEF IInv, Shape, IsSeq
<1>5. IsSeq(index)'
  BY DEF IInv, Shape, IsSeq
<1>6. IsSeq(status)' /\ IsSeq(lock)' /\ Len(lock)' = Len(status)' /\ (\A x \in DOMAIN lock : lock[x] \subseteq Rids)'
  BY <1>1 DEF IInv, Shape, IsSeq
<1>7. (buried \subseteq Rids)'
  BY <1>1
<1> QED BY <1>3, <1>4, <1>5, <1>6, <1>7 DEF Shape

\* A session as it was but for its phase.
Moved(t, n, p) ==
  /\ n.phase = p /\ DOMAIN n = TxnFields /\ n.id = t.id /\ n.stamped = t.stamped /\ n.prog = t.prog
  /\ n.task = t.task /\ n.work = t.work /\ n.cands = t.cands /\ n.detect = t.detect /\ n.verdict = t.verdict

LEMMA MovedIf ==
  ASSUME NEW t, SessionOK(t), NEW p, NEW n, n = [t EXCEPT !.phase = p]
  PROVE  Moved(t, n, p) /\ SessionOK(n)
<1>1. Moved(t, n, p)
  BY DEF SessionOK, TxnFields, Moved
<1>2. WorkOK(n) /\ CandsOK(n)
  BY <1>1 DEF SessionOK, WorkOK, CandsOK, Moved
<1> QED BY <1>1, <1>2 DEF SessionOK, Moved

\* Everybody else is where he was.
LEMMA ToFacts ==
  ASSUME IInv, NEW s \in Sessions, NEW p, To(s, p)
  PROVE  /\ Sessions' = Sessions
         /\ Moved(session[s], session'[s], p)
         /\ \A r \in Sessions : SessionOK(session'[r])
         /\ \A r \in Sessions \ {s} : session'[r] = session[r]
         /\ \A r \in Sessions : session'[r].id = session[r].id /\ session'[r].stamped = session[r].stamped
<1> DEFINE t == session[s]
           n == [t EXCEPT !.phase = p]
<1>1. session' = [session EXCEPT ![s] = n]
  BY DEF To, Sessions
<1>2. Moved(t, n, p) /\ SessionOK(n)
  BY SessionShape, MovedIf
<1> HIDE DEF n
<1>3. Sessions' = Sessions /\ session'[s] = n /\ \A r \in Sessions \ {s} : session'[r] = session[r]
  BY <1>1 DEF Sessions
<1>4. \A r \in Sessions : SessionOK(session'[r])
  BY <1>2, <1>3, SessionShape
<1>5. n.id = t.id /\ n.stamped = t.stamped
  BY <1>2 DEF Moved
<1> QED BY <1>2, <1>3, <1>4, <1>5

LEMMA LeaveKept ==
  ASSUME IInv, NEW s \in Sessions, Leave(s)
  PROVE  IInv'
<1> DEFINE t == session[s]
<1> USE DEF IInv
<1>a. /\ t.phase = "leave" /\ To(s, "decide") /\ status' = [status EXCEPT ![t.id] = "leaving"]
      /\ UNCHANGED <<heap, index, lock, buried, exposed>>
  BY DEF Leave, Me
<1>b. /\ t.id \in DOMAIN status /\ t.id \in DOMAIN lock /\ t.id # NoTxn
      /\ \A r \in Sessions \ {s} : session[r].id # t.id
  BY <1>a, OwnId
<1>c. /\ Sessions' = Sessions /\ Moved(t, session'[s], "decide")
      /\ (\A r \in Sessions : SessionOK(session'[r]))
      /\ (\A r \in Sessions \ {s} : session'[r] = session[r])
      /\ \A r \in Sessions : session'[r].id = session[r].id /\ session'[r].stamped = session[r].stamped
  BY <1>a, ToFacts
<1>d. /\ DOMAIN status' = DOMAIN status /\ status'[t.id] = "leaving"
      /\ \A x : x # t.id => status'[x] = status[x]
  BY <1>a, <1>b
<1>e. status[t.id] = "running" /\ t.verdict \in {"committed", "aborted"}
  BY <1>a DEF Ending, Undecided
<1>f. Clean' <=> Clean
  BY <1>a DEF Clean
<1>1. Shape'
  <2>0. IsSeq(status) /\ status' = [x \in DOMAIN status |-> status'[x]]
    BY <1>a DEF Shape
  <2>1. IsSeq(status') /\ Len(status') = Len(status)
    BY <2>0, ChangedSeq, Zenon
  <2> QED BY <1>a, <1>c, <2>1, ShapeKept DEF Shape
<1>2. Named'
  <2>1. \A r \in Sessions : session'[r].phase # "start" => session[r].id \in DOMAIN status
    BY <1>b, <1>c DEF Named
  <2> QED BY <2>1, <1>c, <1>d DEF Named
<1>3. Ending'
  <2>1. ASSUME NEW r \in Sessions
        PROVE  /\ session'[r].phase = "start" => session'[r].id = NoTxn /\ session'[r].stamped = {}
               /\ Undecided(session'[r]) => status'[session'[r].id] = "running"
               /\ session'[r].phase = "decide" =>
                    status'[session'[r].id] = "leaving" /\ session'[r].verdict \in {"committed", "aborted"}
               /\ session'[r].phase \in {"unlock", "leave"} => session'[r].verdict \in {"committed", "aborted"}
    <3>1. CASE r = s
      BY <3>1, <1>c, <1>d, <1>e DEF Moved, Undecided
    <3>2. CASE r # s
      <4>1. session'[r] = session[r] /\ status'[session[r].id] = status[session[r].id] BY <3>2, <1>b, <1>c, <1>d
      <4> QED BY <4>1 DEF Ending
    <3> QED BY <3>1, <3>2
  <2> QED BY <2>1, <1>c DEF Ending, Undecided, DecidesFirst
<1>4. Exclusive'
  BY <1>a DEF Exclusive
<1>5. Aimed'
  <2>1. \A r \in Sessions : /\ session'[r].phase = "lock" \/ Targeted(session'[r]) => session'[r].task.rid \in Rids
                            /\ Targeted(session'[r]) => session'[r].task.rid \in lock[session'[r].id]
    BY <1>c DEF Aimed, Targeted, Moved
  <2> QED BY <2>1, <1>a, <1>c DEF Aimed, Targeted, Rids
<1>6. Seeking'
  BY <1>c DEF Seeking, Moved
<1>7. Checked'
  <2> SUFFICES ASSUME Clean', NEW r \in Sessions, Looked(session'[r])
               PROVE  heap[session'[r].task.rid].xmax \in {NoTxn, session'[r].id}
                        \/ status'[heap[session'[r].task.rid].xmax] = "aborted"
    BY <1>a, <1>c DEF Checked, Looked, Free
  <2>1. r # s BY <1>c DEF Looked, Moved
  <2>2. session'[r] = session[r] BY <2>1, <1>c
  <2>3. Free(session[r].task.rid, session[r].id) BY <2>2, <1>f DEF Checked
  <2> QED BY <2>2, <2>3, <1>d, <1>e DEF Free
<1>8. Stamped'
  <2>1. \A r \in Sessions : status'[session[r].id] # "aborted" => status[session[r].id] # "aborted"
    BY <1>d, <1>e
  <2> QED BY <2>1, <1>a, <1>c, <1>f DEF Stamped
<1>9. DeletedStays'
  BY <1>a, <1>d, <1>e DEF DeletedStays, Committed
<1> QED BY <1>1, <1>2, <1>3, <1>4, <1>5, <1>6, <1>7, <1>8, <1>9

LEMMA DecideKept ==
  ASSUME IInv, NEW s \in Sessions, Decide(s)
  PROVE  IInv'
<1> DEFINE t == session[s]
<1> USE DEF IInv
<1>a. /\ t.phase = "decide" /\ status' = [status EXCEPT ![t.id] = t.verdict]
      /\ buried' = IF t.verdict = "committed" THEN buried \cup t.stamped ELSE buried
      /\ To(s, IF DecidesFirst(t) THEN "unlock" ELSE "done")
      /\ UNCHANGED <<heap, index, lock, exposed>>
  BY DEF Decide
<1>p. PICK p : p = IF DecidesFirst(t) THEN "unlock" ELSE "done"
  OBVIOUS
<1>q. p \in {"unlock", "done"} /\ (p = "unlock" => DecidesFirst(t)) /\ To(s, p)
  BY <1>a, <1>p
<1>b. /\ t.id \in DOMAIN status /\ t.id \in DOMAIN lock /\ t.id # NoTxn
      /\ \A r \in Sessions \ {s} : session[r].id # t.id
  BY <1>a, OwnId
<1>c. /\ Sessions' = Sessions /\ Moved(t, session'[s], p)
      /\ (\A r \in Sessions : SessionOK(session'[r]))
      /\ (\A r \in Sessions \ {s} : session'[r] = session[r])
      /\ \A r \in Sessions : session'[r].id = session[r].id /\ session'[r].stamped = session[r].stamped
  BY <1>q, ToFacts
<1>d. /\ DOMAIN status' = DOMAIN status /\ status'[t.id] = t.verdict
      /\ \A x : x # t.id => status'[x] = status[x]
  BY <1>a, <1>b
<1>e. status[t.id] = "leaving" /\ t.verdict \in {"committed", "aborted"}
  BY <1>a DEF Ending
<1>f. Clean' <=> Clean
  BY <1>a DEF Clean
<1>g. buried' \subseteq buried \cup t.stamped /\ (buried' # buried => t.verdict = "committed")
  BY <1>a
<1>1. Shape'
  <2>0. IsSeq(status) /\ status' = [x \in DOMAIN status |-> status'[x]]
    BY <1>a DEF Shape
  <2>1. IsSeq(status') /\ Len(status') = Len(status)
    BY <2>0, ChangedSeq, Zenon
  <2>2. buried' \subseteq Rids
    BY <1>g, SessionShape DEF Shape, SessionOK
  <2> QED BY <1>a, <1>c, <2>1, <2>2, ShapeKept DEF Shape
<1>2. Named'
  <2>1. \A r \in Sessions : session'[r].phase # "start" => session[r].id \in DOMAIN status
    BY <1>b, <1>c DEF Named
  <2> QED BY <2>1, <1>c, <1>d DEF Named
<1>3. Ending'
  <2>1. ASSUME NEW r \in Sessions
        PROVE  /\ session'[r].phase = "start" => session'[r].id = NoTxn /\ session'[r].stamped = {}
               /\ Undecided(session'[r]) => status'[session'[r].id] = "running"
               /\ session'[r].phase = "decide" =>
                    status'[session'[r].id] = "leaving" /\ session'[r].verdict \in {"committed", "aborted"}
               /\ session'[r].phase \in {"unlock", "leave"} => session'[r].verdict \in {"committed", "aborted"}
    <3>1. CASE r = s
      <4>1. session'[s].phase = p /\ session'[s].prog = t.prog /\ session'[s].verdict = t.verdict BY <1>c DEF Moved
      <4>2. ~Undecided(session'[s]) BY <1>q, <4>1 DEF Undecided, DecidesFirst
      <4> QED BY <3>1, <1>q, <1>e, <4>1, <4>2
    <3>2. CASE r # s
      <4>1. session'[r] = session[r] /\ status'[session[r].id] = status[session[r].id] BY <3>2, <1>b, <1>c, <1>d
      <4> QED BY <4>1 DEF Ending
    <3> QED BY <3>1, <3>2
  <2> QED BY <2>1, <1>c DEF Ending, Undecided, DecidesFirst
<1>4. Exclusive'
  BY <1>a DEF Exclusive
<1>5. Aimed'
  <2>1. \A r \in Sessions : /\ session'[r].phase = "lock" \/ Targeted(session'[r]) => session'[r].task.rid \in Rids
                            /\ Targeted(session'[r]) => session'[r].task.rid \in lock[session'[r].id]
    BY <1>c, <1>q DEF Aimed, Targeted, Moved
  <2> QED BY <2>1, <1>a, <1>c DEF Aimed, Targeted, Rids
<1>6. Seeking'
  BY <1>c, <1>q DEF Seeking, Moved
<1>7. Checked'
  <2> SUFFICES ASSUME Clean', NEW r \in Sessions, Looked(session'[r])
               PROVE  heap[session'[r].task.rid].xmax \in {NoTxn, session'[r].id}
                        \/ status'[heap[session'[r].task.rid].xmax] = "aborted"
    BY <1>a, <1>c DEF Checked, Looked, Free
  <2>1. r # s BY <1>c, <1>q DEF Looked, Moved
  <2>2. session'[r] = session[r] BY <2>1, <1>c
  <2>3. Free(session[r].task.rid, session[r].id) BY <2>2, <1>f DEF Checked
  <2> QED BY <2>2, <2>3, <1>d, <1>e DEF Free
<1>8. Stamped'
  <2>1. \A r \in Sessions : status'[session[r].id] # "aborted" => status[session[r].id] # "aborted"
    BY <1>d, <1>e
  <2> QED BY <2>1, <1>a, <1>c, <1>f DEF Stamped
<1>9. DeletedStays'
  <2> SUFFICES ASSUME Clean, NEW i \in buried' PROVE heap[i].xmax # NoTxn /\ status'[heap[i].xmax] = "committed"
    BY <1>a, <1>f DEF DeletedStays, Committed, Clean
  <2>1. CASE i \in buried
    BY <2>1, <1>d, <1>e DEF DeletedStays, Committed, Clean
  <2>2. CASE i \notin buried
    <3>1. i \in t.stamped /\ t.verdict = "committed" BY <2>2, <1>g
    <3>2. heap[i].xmax = t.id BY <3>1, <1>e DEF Stamped
    <3> QED BY <3>1, <3>2, <1>b, <1>d
  <2> QED BY <2>1, <2>2
<1> QED BY <1>1, <1>2, <1>3, <1>4, <1>5, <1>6, <1>7, <1>8, <1>9

LEMMA UnlockKept ==
  ASSUME IInv, NEW s \in Sessions, Unlock(s)
  PROVE  IInv'
<1> DEFINE t == session[s]
           p == IF DecidesFirst(t) THEN "done" ELSE "leave"
<1> USE DEF IInv
<1>a. /\ t.phase = "unlock" /\ lock' = [lock EXCEPT ![t.id] = {}]
      /\ UNCHANGED <<heap, index, status, buried, exposed>>
  BY DEF Unlock, Me
<1>b. /\ t.id \in DOMAIN status /\ t.id \in DOMAIN lock /\ t.id # NoTxn
      /\ \A r \in Sessions \ {s} : session[r].id # t.id
  BY <1>a, OwnId
<1>c. /\ Sessions' = Sessions /\ Moved(t, session'[s], p) /\ SessionOK(session'[s])
      /\ \A r \in Sessions \ {s} : session'[r] = IF session[r].phase = "asleep"
                                                 THEN [session[r] EXCEPT !.phase = "wait"] ELSE session[r]
  <2>1. session' = [r \in Sessions |->
          IF r = s THEN [session[s] EXCEPT !.phase = p]
          ELSE IF session[r].phase = "asleep" THEN [session[r] EXCEPT !.phase = "wait"] ELSE session[r]]
    BY DEF Unlock
  <2>2. Sessions' = Sessions BY <2>1 DEF Sessions
  <2> HIDE DEF p
  <2>3. session'[s] = [t EXCEPT !.phase = p] BY <2>1
  <2>4. Moved(t, session'[s], p) /\ SessionOK(session'[s]) BY <2>3, SessionShape, MovedIf
  <2> QED BY <2>1, <2>2, <2>4
<1>h. \A r \in Sessions \ {s} :
        SessionOK(session'[r]) /\ (session'[r] = session[r]
                                   \/ (session[r].phase = "asleep" /\ Moved(session[r], session'[r], "wait")))
  <2> SUFFICES ASSUME NEW r \in Sessions \ {s}
               PROVE SessionOK(session'[r]) /\ (session'[r] = session[r]
                       \/ (session[r].phase = "asleep" /\ Moved(session[r], session'[r], "wait")))
    OBVIOUS
  <2>1. CASE session[r].phase = "asleep"
    <3>1. session'[r] = [session[r] EXCEPT !.phase = "wait"] BY <2>1, <1>c
    <3> QED BY <2>1, <3>1, SessionShape, MovedIf
  <2>2. CASE session[r].phase # "asleep"
    <3>1. session'[r] = session[r] BY <2>2, <1>c
    <3>2. SessionOK(session[r]) BY SessionShape
    <3>3. SessionOK(session'[r]) BY <3>1, <3>2, Zenon
    <3> QED BY <3>1, <3>3, Zenon
  <2> QED BY <2>1, <2>2
<1>p. p \in {"done", "leave"} /\ (p = "leave" => ~DecidesFirst(t))
  OBVIOUS
<1> HIDE DEF p
<1>i. \A r \in Sessions : session'[r].id = session[r].id /\ session'[r].stamped = session[r].stamped
  BY <1>c, <1>h DEF Moved
<1>d. /\ DOMAIN lock' = DOMAIN lock /\ lock'[t.id] = {}
      /\ \A x : x # t.id => lock'[x] = lock[x]
  BY <1>a, <1>b
<1>f. Clean' <=> Clean
  BY <1>a DEF Clean
<1>1. Shape'
  <2>0. IsSeq(lock) /\ lock' = [x \in DOMAIN lock |-> lock'[x]]
    BY <1>a DEF Shape
  <2>1. IsSeq(lock') /\ Len(lock') = Len(lock)
    BY <2>0, ChangedSeq, Zenon
  <2>2. \A x \in DOMAIN lock' : lock'[x] \subseteq Rids
    BY <1>d DEF Shape
  <2>3. \A r \in Sessions : SessionOK(session'[r])
    BY <1>c, <1>h
  <2> QED BY <1>a, <1>c, <2>1, <2>2, <2>3, ShapeKept DEF Shape
<1>2. Named'
  <2>1. \A r \in Sessions : session'[r].phase # "start" => session[r].id \in DOMAIN status
    BY <1>b, <1>h DEF Named
  <2> QED BY <2>1, <1>a, <1>c, <1>i DEF Named
<1>3. Ending'
  <2>1. ASSUME NEW r \in Sessions
        PROVE  /\ session'[r].phase = "start" => session'[r].id = NoTxn /\ session'[r].stamped = {}
               /\ Undecided(session'[r]) => status[session'[r].id] = "running"
               /\ session'[r].phase = "decide" =>
                    status[session'[r].id] = "leaving" /\ session'[r].verdict \in {"committed", "aborted"}
               /\ session'[r].phase \in {"unlock", "leave"} => session'[r].verdict \in {"committed", "aborted"}
    <3>1. CASE r = s
      <4>1. session'[s].phase = p /\ session'[s].id = t.id /\ session'[s].verdict = t.verdict BY <1>c DEF Moved
      <4>2. t.verdict \in {"committed", "aborted"} BY <1>a DEF Ending
      <4>3. p = "leave" => status[t.id] = "running" BY <1>a, <1>p DEF Ending, Undecided
      <4> QED BY <3>1, <1>p, <4>1, <4>2, <4>3 DEF Undecided
    <3>2. CASE session'[r] = session[r]
      BY <3>2 DEF Ending
    <3>3. CASE session[r].phase = "asleep" /\ Moved(session[r], session'[r], "wait")
      <4>1. status[session[r].id] = "running" BY <3>3 DEF Ending, Undecided
      <4> QED BY <3>3, <4>1 DEF Moved
    <3> QED BY <1>h, <3>1, <3>2, <3>3
  <2> QED BY <2>1, <1>a, <1>c DEF Ending, Undecided, DecidesFirst
<1>4. Exclusive'
  BY <1>d DEF Exclusive
<1>5. Aimed'
  <2>1. ASSUME NEW r \in Sessions
        PROVE  /\ session'[r].phase = "lock" \/ Targeted(session'[r]) => session'[r].task.rid \in Rids
               /\ Targeted(session'[r]) => session'[r].task.rid \in lock'[session'[r].id]
    <3>1. CASE r = s
      BY <3>1, <1>c, <1>p DEF Moved, Targeted
    <3>2. CASE r # s /\ session'[r] = session[r]
      <4>1. lock'[session[r].id] = lock[session[r].id] BY <3>2, <1>b, <1>d
      <4> QED BY <3>2, <4>1 DEF Aimed
    <3>3. CASE Moved(session[r], session'[r], "wait")
      BY <3>3 DEF Moved, Targeted
    <3> QED BY <1>h, <3>1, <3>2, <3>3
  <2> QED BY <2>1, <1>a, <1>c DEF Aimed, Targeted, Rids
<1>6. Seeking'
  <2>1. ASSUME NEW r \in Sessions, session'[r].phase \in {"lookup", "judge", "wait", "asleep"}, session'[r].detect
        PROVE  session'[r].task.kind = "insert"
    <3>1. CASE r = s
      BY <2>1, <3>1, <1>c, <1>p DEF Moved
    <3>2. CASE session'[r] = session[r]
      BY <2>1, <3>2 DEF Seeking
    <3>3. CASE session[r].phase = "asleep" /\ Moved(session[r], session'[r], "wait")
      BY <2>1, <3>3 DEF Moved, Seeking
    <3> QED BY <1>h, <3>1, <3>2, <3>3
  <2> QED BY <2>1, <1>c DEF Seeking
<1>7. Checked'
  <2> SUFFICES ASSUME Clean', NEW r \in Sessions, Looked(session'[r])
               PROVE  Free(session'[r].task.rid, session'[r].id)
    BY <1>a, <1>c DEF Checked, Looked, Free
  <2>1. r # s BY <1>c, <1>p DEF Looked, Moved
  <2>2. session'[r] = session[r] BY <2>1, <1>h DEF Moved, Looked
  <2> QED BY <2>2, <1>f DEF Checked
<1>8. Stamped'
  BY <1>a, <1>c, <1>i, <1>f DEF Stamped
<1>9. DeletedStays'
  BY <1>a DEF DeletedStays, Committed
<1> QED BY <1>1, <1>2, <1>3, <1>4, <1>5, <1>6, <1>7, <1>8, <1>9

LEMMA LockRowKept ==
  ASSUME IInv, NEW s \in Sessions, LockRow(s)
  PROVE  IInv'
<1> DEFINE t == session[s]
<1> USE DEF IInv
<1>p. PICK p \in {"check", "stamp"} : To(s, p) /\ (p = "stamp" => ~Rechecks(t.task.kind))
  BY DEF LockRow, Task
<1>a. /\ t.phase = "lock" /\ lock' = [lock EXCEPT ![t.id] = @ \cup {t.task.rid}]
      /\ \A x \in DOMAIN lock : x # t.id => t.task.rid \notin lock[x]
      /\ UNCHANGED <<heap, index, status, buried, exposed>>
  BY DEF LockRow, LockedByOther, Task, Me
<1>b. /\ t.id \in DOMAIN status /\ t.id \in DOMAIN lock /\ t.id # NoTxn
      /\ \A r \in Sessions \ {s} : session[r].id # t.id
  BY <1>a, OwnId
<1>c. /\ Sessions' = Sessions /\ Moved(t, session'[s], p)
      /\ (\A r \in Sessions : SessionOK(session'[r]))
      /\ (\A r \in Sessions \ {s} : session'[r] = session[r])
      /\ \A r \in Sessions : session'[r].id = session[r].id /\ session'[r].stamped = session[r].stamped
  BY <1>p, ToFacts
<1>d. /\ DOMAIN lock' = DOMAIN lock /\ lock'[t.id] = lock[t.id] \cup {t.task.rid}
      /\ \A x : x # t.id => lock'[x] = lock[x]
  BY <1>a, <1>b
<1>e. t.task.rid \in Rids
  BY <1>a DEF Aimed
<1>f. Clean' <=> Clean
  BY <1>a DEF Clean
<1>1. Shape'
  <2>0. IsSeq(lock) /\ lock' = [x \in DOMAIN lock |-> lock'[x]]
    BY <1>a DEF Shape
  <2>1. IsSeq(lock') /\ Len(lock') = Len(lock)
    BY <2>0, ChangedSeq, Zenon
  <2>2. \A x \in DOMAIN lock' : lock'[x] \subseteq Rids
    BY <1>d, <1>e DEF Shape
  <2> QED BY <1>a, <1>c, <2>1, <2>2, ShapeKept DEF Shape
<1>2. Named'
  <2>1. \A r \in Sessions : session'[r].phase # "start" => session[r].id \in DOMAIN status
    BY <1>b, <1>c DEF Named
  <2> QED BY <2>1, <1>a, <1>c DEF Named
<1>3. Ending'
  <2>1. ASSUME NEW r \in Sessions
        PROVE  /\ session'[r].phase = "start" => session'[r].id = NoTxn /\ session'[r].stamped = {}
               /\ Undecided(session'[r]) => status[session'[r].id] = "running"
               /\ session'[r].phase = "decide" =>
                    status[session'[r].id] = "leaving" /\ session'[r].verdict \in {"committed", "aborted"}
               /\ session'[r].phase \in {"unlock", "leave"} => session'[r].verdict \in {"committed", "aborted"}
    <3>1. CASE r = s
      <4>1. status[t.id] = "running" BY <1>a DEF Ending, Undecided
      <4> QED BY <3>1, <1>c, <4>1 DEF Moved
    <3>2. CASE r # s
      <4>1. session'[r] = session[r] BY <3>2, <1>c
      <4> QED BY <4>1 DEF Ending
    <3> QED BY <3>1, <3>2
  <2> QED BY <2>1, <1>a, <1>c DEF Ending, Undecided, DecidesFirst
<1>4. Exclusive'
  BY <1>a, <1>d DEF Exclusive
<1>5. Aimed'
  <2>1. ASSUME NEW r \in Sessions
        PROVE  /\ session'[r].phase = "lock" \/ Targeted(session'[r]) => session'[r].task.rid \in Rids
               /\ Targeted(session'[r]) => session'[r].task.rid \in lock'[session'[r].id]
    <3>1. CASE r = s
      BY <3>1, <1>c, <1>d, <1>e DEF Moved
    <3>2. CASE r # s
      <4>1. session'[r] = session[r] /\ lock'[session[r].id] = lock[session[r].id] BY <3>2, <1>b, <1>c, <1>d
      <4> QED BY <4>1 DEF Aimed
    <3> QED BY <3>1, <3>2
  <2> QED BY <2>1, <1>a, <1>c DEF Aimed, Targeted, Rids
<1>6. Seeking'
  BY <1>c DEF Seeking, Moved
<1>7. Checked'
  <2> SUFFICES ASSUME Clean', NEW r \in Sessions, Looked(session'[r])
               PROVE  Free(session'[r].task.rid, session'[r].id)
    BY <1>a, <1>c DEF Checked, Looked, Free
  <2>1. r # s BY <1>c, <1>p DEF Looked, Moved
  <2>2. session'[r] = session[r] BY <2>1, <1>c
  <2> QED BY <2>2, <1>f DEF Checked
<1>8. Stamped'
  BY <1>a, <1>c, <1>f DEF Stamped
<1>9. DeletedStays'
  BY <1>a DEF DeletedStays, Committed
<1> QED BY <1>1, <1>2, <1>3, <1>4, <1>5, <1>6, <1>7, <1>8, <1>9

LEMMA StampKept ==
  ASSUME IInv, NEW s \in Sessions, Stamp(s)
  PROVE  IInv'
<1> DEFINE t == session[s]
           i == t.task.rid
           x == heap[i].xmax
<1> USE DEF IInv
<1>a. /\ t.phase = "stamp" /\ heap' = [heap EXCEPT ![i].xmax = t.id]
      /\ UNCHANGED <<index, status, lock, buried>>
      /\ Flag({ <<~Rechecks(t.task.kind) /\ x \notin {NoTxn, t.id} /\ status[x] # "aborted", "overwrote">>,
                <<t.task.kind = "update" /\ t.task.tab = "parent" /\ t.task.key # heap[i].key, "rekeyed">> })
  BY DEF Stamp, Task, Me
<1>b. /\ t.id \in DOMAIN status /\ t.id \in DOMAIN lock /\ t.id # NoTxn
      /\ \A r \in Sessions \ {s} : session[r].id # t.id
  BY <1>a, OwnId
<1>p. PICK p \in {"next", "place"} : session' = [session EXCEPT ![s].phase = p, ![s].stamped = @ \cup {i}]
  BY DEF Stamp, Task
<1>e. i \in Rids /\ i \in lock[t.id] /\ status[t.id] = "running"
  BY <1>a DEF Aimed, Targeted, Ending, Undecided
<1>c. /\ Sessions' = Sessions
      /\ (\A r \in Sessions \ {s} : session'[r] = session[r])
      /\ session'[s].phase = p /\ session'[s].id = t.id /\ session'[s].stamped = t.stamped \cup {i}
      /\ SessionOK(session'[s])
  <2> DEFINE v == t.stamped \cup {i}
             n == [t EXCEPT !.phase = p, !.stamped = v]
  <2>1. SessionOK(t) BY SessionShape
  <2>2. session' = [session EXCEPT ![s] = n] BY <1>p DEF Sessions
  <2>3. v \subseteq Rids BY <2>1, <1>e DEF SessionOK
  <2> HIDE DEF v, i
  <2>4. /\ n.phase = p /\ DOMAIN n = TxnFields /\ n.id = t.id /\ n.stamped = v /\ n.prog = t.prog
        /\ n.task = t.task /\ n.work = t.work /\ n.cands = t.cands
    BY <2>1 DEF SessionOK, TxnFields
  <2> HIDE DEF n
  <2>5. WorkOK(n) /\ CandsOK(n) BY <2>1, <2>4 DEF SessionOK, WorkOK, CandsOK
  <2>6. SessionOK(n) BY <2>1, <2>3, <2>4, <2>5 DEF SessionOK
  <2>7. Sessions' = Sessions /\ session'[s] = n /\ \A r \in Sessions \ {s} : session'[r] = session[r]
    BY <2>2 DEF Sessions
  <2> QED BY <2>4, <2>6, <2>7 DEF v
<1>d. /\ DOMAIN heap' = DOMAIN heap /\ heap'[i].xmax = t.id /\ DOMAIN heap'[i] = RowFields
      /\ \A j : j # i => heap'[j] = heap[j]
  <2>1. DOMAIN heap[i] = RowFields /\ i \in DOMAIN heap BY <1>e DEF Shape, Rids
  <2> HIDE DEF i
  <2> QED BY <1>a, <2>1 DEF RowFields
<1>f. Clean' => Clean
  <2>1. exposed \subseteq exposed' BY <1>a, FlagGrows
  <2> QED BY <2>1 DEF Clean
<1>g. Clean' => Free(i, t.id)
  <2> SUFFICES ASSUME Clean' PROVE Free(i, t.id) OBVIOUS
  <2>1. CASE Rechecks(t.task.kind)
    BY <2>1, <1>a, <1>f DEF Checked, Looked
  <2>2. CASE ~Rechecks(t.task.kind)
    <3> DEFINE o == ~Rechecks(t.task.kind) /\ x \notin {NoTxn, t.id} /\ status[x] # "aborted"
               c == <<o, "overwrote">>
               k == <<t.task.kind = "update" /\ t.task.tab = "parent" /\ t.task.key # heap[i].key, "rekeyed">>
    <3>1. SUFFICES ASSUME o PROVE FALSE BY <2>2 DEF Free
    <3>2. c[1] = TRUE /\ c[2] = "overwrote" BY <3>1
    <3>3. exposed' = exposed \cup {d[2] : d \in {d \in {c, k} : d[1]}} BY <1>a DEF Flag
    <3> HIDE DEF c, k, o
    <3>4. "overwrote" \in exposed' BY <3>2, <3>3
    <3> QED BY <3>4 DEF Clean
  <2> QED BY <2>1, <2>2
<1> HIDE DEF i, x
<1>h. Rids' = Rids
  BY <1>d DEF Rids
<1>1. Shape'
  <2>1. IsSeq(heap')
    <3>1. IsSeq(heap) /\ heap' = [j \in DOMAIN heap |-> heap'[j]] BY <1>a DEF Shape
    <3> QED BY <3>1, ChangedSeq, Zenon
  <2>2. \A j \in Rids : DOMAIN heap'[j] = RowFields /\ heap'[j].xmax \in 0..Len(status)
    <3>1. t.id \in 0..Len(status) BY SessionShape DEF SessionOK
    <3> QED BY <3>1, <1>d DEF Shape
  <2>3. \A u : SessionOK(u)' <=> SessionOK(u)
    BY <1>a, <1>h DEF WorkOK, CandsOK, SessionOK
  <2>4. \A r \in Sessions : SessionOK(session'[r])
    BY <1>c DEF Shape
  <2>5. (\A r \in Sessions : SessionOK(session[r]))'
    BY <1>c, <2>3, <2>4
  <2>6. IsSeq(heap)' /\ (\A j \in Rids : DOMAIN heap[j] = RowFields /\ heap[j].xmax \in 0..Len(status))'
    BY <2>1, <2>2, <1>a, <1>h DEF IsSeq
  <2>7. IsSeq(index)' /\ IsSeq(status)' /\ IsSeq(lock)' /\ Len(lock)' = Len(status)'
        /\ (\A y \in DOMAIN lock : lock[y] \subseteq Rids)' /\ (buried \subseteq Rids)'
    BY <1>a, <1>h DEF Shape, IsSeq
  <2> QED BY <2>5, <2>6, <2>7 DEF Shape
<1>2. Named'
  <2>1. \A r \in Sessions : session'[r].id = session[r].id
    BY <1>c
  <2>2. \A r \in Sessions : session'[r].phase # "start" => session[r].id \in DOMAIN status
    BY <1>b, <1>c DEF Named
  <2> QED BY <2>1, <2>2, <1>a, <1>c DEF Named
<1>3. Ending'
  <2>1. ASSUME NEW r \in Sessions
        PROVE  /\ session'[r].phase = "start" => session'[r].id = NoTxn /\ session'[r].stamped = {}
               /\ Undecided(session'[r]) => status[session'[r].id] = "running"
               /\ session'[r].phase = "decide" =>
                    status[session'[r].id] = "leaving" /\ session'[r].verdict \in {"committed", "aborted"}
               /\ session'[r].phase \in {"unlock", "leave"} => session'[r].verdict \in {"committed", "aborted"}
    <3>1. CASE r = s
      BY <3>1, <1>c, <1>e
    <3>2. CASE r # s
      <4>1. session'[r] = session[r] BY <3>2, <1>c
      <4> QED BY <4>1 DEF Ending
    <3> QED BY <3>1, <3>2
  <2> QED BY <2>1, <1>a, <1>c DEF Ending, Undecided, DecidesFirst
<1>4. Exclusive'
  BY <1>a DEF Exclusive
<1>5. Aimed'
  <2>1. \A r \in Sessions : /\ session'[r].phase = "lock" \/ Targeted(session'[r]) => session'[r].task.rid \in Rids
                            /\ Targeted(session'[r]) => session'[r].task.rid \in lock[session'[r].id]
    BY <1>c DEF Aimed, Targeted
  <2> QED BY <2>1, <1>a, <1>c, <1>h DEF Aimed, Targeted
<1>6. Seeking'
  BY <1>c DEF Seeking
<1>7. Checked'
  <2> SUFFICES ASSUME Clean', NEW r \in Sessions, Looked(session'[r])
               PROVE  heap'[session'[r].task.rid].xmax \in {NoTxn, session'[r].id}
                        \/ status[heap'[session'[r].task.rid].xmax] = "aborted"
    BY <1>a, <1>c DEF Checked, Looked, Free
  <2>1. r # s BY <1>c DEF Looked
  <2>2. session'[r] = session[r] BY <2>1, <1>c
  <2>3. Free(session[r].task.rid, session[r].id) BY <2>2, <1>f DEF Checked
  <2>4. session[r].task.rid \in lock[session[r].id] /\ session[r].phase # "start"
    BY <2>2 DEF Aimed, Looked, Targeted
  <2>5. session[r].id \in DOMAIN lock BY <2>4, OwnId
  <2>6. session[r].id # t.id BY <2>1, <1>b
  <2>7. session[r].task.rid # i BY <2>4, <2>5, <2>6, <1>b, <1>e DEF Exclusive
  <2> QED BY <2>2, <2>3, <2>7, <1>d DEF Free
<1>8. Stamped'
  <2> SUFFICES ASSUME Clean', NEW r \in Sessions, NEW j \in session'[r].stamped, status[session'[r].id] # "aborted"
               PROVE  heap'[j].xmax = session'[r].id
    BY <1>a, <1>c DEF Stamped
  <2>1. CASE r = s
    <3>1. j \in t.stamped \/ j = i BY <2>1, <1>c
    <3>2. session'[r].id = t.id BY <2>1, <1>c
    <3>3. CASE j = i BY <3>2, <3>3, <1>d
    <3>4. CASE j # i
      <4>1. heap[j].xmax = t.id BY <3>1, <3>4, <1>e, <1>f DEF Stamped
      <4> QED BY <4>1, <3>2, <3>4, <1>d
    <3> QED BY <3>3, <3>4
  <2>2. CASE r # s
    <3>1. session'[r] = session[r] BY <2>2, <1>c
    <3>2. heap[j].xmax = session[r].id BY <3>1, <1>f DEF Stamped
    <3>3. session[r].phase # "start" BY <3>1 DEF Ending
    <3>4. session[r].id # NoTxn /\ session[r].id # t.id BY <2>2, <3>3, <1>b, OwnId
    <3>5. j # i
      <4> SUFFICES ASSUME j = i PROVE FALSE OBVIOUS
      <4>1. heap[i].xmax \in {NoTxn, t.id} \/ status[heap[i].xmax] = "aborted" BY <1>g DEF Free
      <4> QED BY <4>1, <3>1, <3>2, <3>4
    <3> QED BY <3>1, <3>2, <3>5, <1>d
  <2> QED BY <2>1, <2>2
<1>9. DeletedStays'
  <2> SUFFICES ASSUME Clean', NEW j \in buried PROVE heap'[j].xmax # NoTxn /\ status[heap'[j].xmax] = "committed"
    BY <1>a DEF DeletedStays, Committed, Clean
  <2>1. heap[j].xmax # NoTxn /\ status[heap[j].xmax] = "committed"
    BY <1>f DEF DeletedStays, Committed, Clean
  <2>2. j # i
    <3> SUFFICES ASSUME j = i PROVE FALSE OBVIOUS
    <3>1. heap[i].xmax \in {NoTxn, t.id} \/ status[heap[i].xmax] = "aborted" BY <1>g DEF Free
    <3> QED BY <3>1, <2>1, <1>e
  <2> QED BY <2>1, <2>2, <1>d
<1> QED BY <1>1, <1>2, <1>3, <1>4, <1>5, <1>6, <1>7, <1>8, <1>9

\* More rows or more transactions: a session's shape stays.
LEMMA ShapeGrows ==
  ASSUME NEW u, SessionOK(u), Rids \subseteq Rids', Len(status) \in Nat, Len(status)' \in Nat,
         Len(status) <= Len(status)'
  PROVE  SessionOK(u)'
<1>1. WorkOK(u)' /\ CandsOK(u)'
  BY DEF SessionOK, WorkOK, CandsOK
<1>2. (u.id \in 0..Len(status))' /\ (u.stamped \subseteq Rids)'
  BY DEF SessionOK
<1> QED BY <1>1, <1>2 DEF SessionOK

LEMMA PlaceKept ==
  ASSUME IInv, NEW s \in Sessions, Place(s)
  PROVE  IInv'
<1> DEFINE t == session[s]
           new == Len(heap) + 1
           row == Row(t.task.tab, t.task.key, t.id)
           h == IF t.task.kind = "touch" THEN [heap EXCEPT ![t.task.rid].ctid = new] ELSE heap
<1> USE DEF IInv
<1>a. /\ t.phase = "place" /\ heap' = Append(h, row)
      /\ lock' = [lock EXCEPT ![t.id] = @ \cup {new}]
      /\ UNCHANGED <<index, status, buried, exposed>>
  BY DEF Place, Task, Me
<1>p. PICK p \in {"lookup", "next"} :
        session' = [session EXCEPT ![s].phase = p, ![s].new = new, ![s].detect = FALSE]
  BY DEF Place, Task
<1>b. /\ t.id \in DOMAIN status /\ t.id \in DOMAIN lock /\ t.id # NoTxn
      /\ \A r \in Sessions \ {s} : session[r].id # t.id
  BY <1>a, OwnId
<1>e. status[t.id] = "running"
  BY <1>a DEF Ending, Undecided
<1>n. /\ Len(heap) \in Nat /\ Rids = 1..Len(heap)
      /\ Len(status) \in Nat /\ DOMAIN status = 1..Len(status) /\ DOMAIN lock = DOMAIN status
  BY Tables
<1>h. /\ IsSeq(h) /\ Len(h) = Len(heap) /\ DOMAIN h = Rids
      /\ \A j \in Rids : DOMAIN h[j] = RowFields /\ h[j].xmax = heap[j].xmax
  <2>1. IsSeq(heap) /\ h = [j \in DOMAIN heap |-> h[j]]
    <3>1. IsSeq(heap) BY DEF Shape
    <3>2. heap = [j \in DOMAIN heap |-> heap[j]] BY <3>1, <1>n, SeqFacts DEF Rids
    <3>3. CASE t.task.kind = "touch" BY <3>1, <3>3
    <3>4. CASE t.task.kind # "touch" BY <3>1, <3>2, <3>4
    <3> QED BY <3>3, <3>4
  <2>2. IsSeq(h) /\ Len(h) = Len(heap) /\ DOMAIN h = DOMAIN heap
    <3> HIDE DEF h
    <3> QED BY <2>1, ChangedSeq, Zenon
  <2>3. ASSUME NEW j \in Rids PROVE DOMAIN h[j] = RowFields /\ h[j].xmax = heap[j].xmax
    <3>1. DOMAIN heap[j] = RowFields BY DEF Shape
    <3>2. h[j] = heap[j] \/ h[j] = [heap[j] EXCEPT !.ctid = new] BY DEF Rids
    <3> HIDE DEF h, new
    <3> QED BY <3>1, <3>2 DEF RowFields
  <2> QED BY <2>2, <2>3 DEF Rids
<1>r. DOMAIN row = RowFields /\ row.xmax = 0
  BY DEF Row, RowFields, NoTxn
<1> HIDE DEF h, row
<1>g. /\ IsSeq(heap') /\ DOMAIN heap' = 1..new
      /\ \A j \in Rids : DOMAIN heap'[j] = RowFields /\ heap'[j].xmax = heap[j].xmax
      /\ DOMAIN heap'[new] = RowFields /\ heap'[new].xmax = 0
  <2>1. OneMore(h, row, heap') BY <1>a, <1>h, AppendOne
  <2>2. /\ IsSeq(heap') /\ DOMAIN heap' = 1..new /\ heap'[new] = row
        /\ \A j \in Rids : heap'[j] = h[j]
    BY <2>1, <1>h DEF OneMore
  <2> QED BY <2>2, <1>h, <1>r
<1>m. Rids' = Rids \cup {new} /\ new \notin Rids /\ \A j \in Rids' : j # new => j \in Rids
  BY <1>g, <1>n DEF Rids
<1> HIDE DEF new
<1>c. /\ Sessions' = Sessions
      /\ (\A r \in Sessions \ {s} : session'[r] = session[r])
      /\ session'[s].phase = p /\ session'[s].id = t.id /\ session'[s].stamped = t.stamped
      /\ session'[s].detect = FALSE /\ SessionOK(session'[s])
  <2> DEFINE n == [t EXCEPT !.phase = p, !.new = new, !.detect = FALSE]
  <2>1. SessionOK(t) BY SessionShape
  <2>2. session' = [session EXCEPT ![s] = n] BY <1>p DEF Sessions
  <2>4. /\ n.phase = p /\ DOMAIN n = TxnFields /\ n.id = t.id /\ n.stamped = t.stamped /\ n.prog = t.prog
        /\ n.task = t.task /\ n.work = t.work /\ n.cands = t.cands /\ n.detect = FALSE
    BY <2>1 DEF SessionOK, TxnFields
  <2> HIDE DEF n
  <2>5. WorkOK(n) /\ CandsOK(n) BY <2>1, <2>4 DEF SessionOK, WorkOK, CandsOK
  <2>6. SessionOK(n) BY <2>1, <2>4, <2>5 DEF SessionOK
  <2>7. Sessions' = Sessions /\ session'[s] = n /\ \A r \in Sessions \ {s} : session'[r] = session[r]
    BY <2>2 DEF Sessions
  <2> QED BY <2>4, <2>6, <2>7
<1>d. /\ DOMAIN lock' = DOMAIN lock /\ lock'[t.id] = lock[t.id] \cup {new}
      /\ \A x : x # t.id => lock'[x] = lock[x]
  BY <1>a, <1>b
<1>f. Clean' <=> Clean
  BY <1>a DEF Clean
<1>1. Shape'
  <2>1. IsSeq(lock') /\ Len(lock') = Len(lock)
    <3>1. IsSeq(lock) /\ lock' = [x \in DOMAIN lock |-> lock'[x]] BY <1>a DEF Shape
    <3> QED BY <3>1, ChangedSeq, Zenon
  <2>2. \A x \in DOMAIN lock' : lock'[x] \subseteq Rids'
    BY <1>d, <1>m DEF Shape
  <2>3. \A r \in Sessions : SessionOK(session'[r])
    BY <1>c DEF Shape
  <2>4. ASSUME NEW u, SessionOK(u) PROVE SessionOK(u)'
    <3>1. Rids \subseteq Rids' /\ Len(status)' = Len(status) BY <1>a, <1>m
    <3> QED BY <2>4, <3>1, <1>n, ShapeGrows
  <2>5. (\A r \in Sessions : SessionOK(session[r]))'
    <3>1. ASSUME NEW u PROVE SessionOK(u) => SessionOK(u)' BY <2>4
    <3>2. \A u : SessionOK(u) => SessionOK(u)' BY <3>1
    <3> QED BY <3>2, <2>3, <1>c
  <2>6. IsSeq(heap)' /\ (\A j \in Rids : DOMAIN heap[j] = RowFields /\ heap[j].xmax \in 0..Len(status))'
    <3>1. \A j \in Rids' : DOMAIN heap'[j] = RowFields /\ heap'[j].xmax \in 0..Len(status)
      BY <1>g, <1>m, <1>n DEF Shape
    <3> QED BY <3>1, <1>a, <1>g DEF IsSeq
  <2>7. IsSeq(index)' /\ IsSeq(status)' /\ IsSeq(lock)' /\ Len(lock)' = Len(status)'
    BY <1>a, <2>1 DEF Shape, IsSeq
  <2>8. (\A y \in DOMAIN lock : lock[y] \subseteq Rids)' /\ (buried \subseteq Rids)'
    BY <1>a, <1>m, <2>2 DEF Shape
  <2> QED BY <2>5, <2>6, <2>7, <2>8 DEF Shape
<1>2. Named'
  <2>1. \A r \in Sessions : session'[r].id = session[r].id
    BY <1>c
  <2>2. \A r \in Sessions : session'[r].phase # "start" => session[r].id \in DOMAIN status
    BY <1>b, <1>c DEF Named
  <2> QED BY <2>1, <2>2, <1>a, <1>c DEF Named
<1>3. Ending'
  <2>1. ASSUME NEW r \in Sessions
        PROVE  /\ session'[r].phase = "start" => session'[r].id = NoTxn /\ session'[r].stamped = {}
               /\ Undecided(session'[r]) => status[session'[r].id] = "running"
               /\ session'[r].phase = "decide" =>
                    status[session'[r].id] = "leaving" /\ session'[r].verdict \in {"committed", "aborted"}
               /\ session'[r].phase \in {"unlock", "leave"} => session'[r].verdict \in {"committed", "aborted"}
    <3>1. CASE r = s
      BY <3>1, <1>c, <1>e
    <3>2. CASE r # s
      <4>1. session'[r] = session[r] BY <3>2, <1>c
      <4> QED BY <4>1 DEF Ending
    <3> QED BY <3>1, <3>2
  <2> QED BY <2>1, <1>a, <1>c DEF Ending, Undecided, DecidesFirst
<1>4. Exclusive'
  <2>1. \A x \in DOMAIN lock : new \notin lock[x] BY <1>m DEF Shape
  <2> QED BY <2>1, <1>d DEF Exclusive
<1>5. Aimed'
  <2>1. ASSUME NEW r \in Sessions
        PROVE  /\ session'[r].phase = "lock" \/ Targeted(session'[r]) => session'[r].task.rid \in Rids'
               /\ Targeted(session'[r]) => session'[r].task.rid \in lock'[session'[r].id]
    <3>1. CASE r = s
      BY <3>1, <1>c DEF Targeted
    <3>2. CASE r # s
      <4>1. session'[r] = session[r] /\ lock'[session[r].id] = lock[session[r].id] BY <3>2, <1>b, <1>c, <1>d
      <4> QED BY <4>1, <1>m DEF Aimed
    <3> QED BY <3>1, <3>2
  <2> QED BY <2>1, <1>c DEF Aimed, Targeted
<1>6. Seeking'
  BY <1>c DEF Seeking
<1>7. Checked'
  <2> SUFFICES ASSUME Clean', NEW r \in Sessions, Looked(session'[r])
               PROVE  heap'[session'[r].task.rid].xmax \in {NoTxn, session'[r].id}
                        \/ status[heap'[session'[r].task.rid].xmax] = "aborted"
    BY <1>a, <1>c DEF Checked, Looked, Free
  <2>1. r # s BY <1>c DEF Looked
  <2>2. session'[r] = session[r] BY <2>1, <1>c
  <2>3. Free(session[r].task.rid, session[r].id) BY <2>2, <1>f DEF Checked
  <2>4. session[r].task.rid \in Rids BY <2>2 DEF Aimed, Looked, Targeted
  <2>5. heap'[session[r].task.rid].xmax = heap[session[r].task.rid].xmax BY <2>4, <1>g
  <2> QED BY <2>2, <2>3, <2>5 DEF Free
<1>8. Stamped'
  <2> SUFFICES ASSUME Clean', NEW r \in Sessions, NEW j \in session'[r].stamped, status[session'[r].id] # "aborted"
               PROVE  heap'[j].xmax = session'[r].id
    BY <1>a, <1>c DEF Stamped
  <2>1. session'[r].id = session[r].id /\ session'[r].stamped = session[r].stamped BY <1>c
  <2>2. j \in Rids BY <2>1, SessionShape DEF SessionOK
  <2> QED BY <2>1, <2>2, <1>f, <1>g DEF Stamped
<1>9. DeletedStays'
  <2> SUFFICES ASSUME Clean', NEW j \in buried PROVE heap'[j].xmax # NoTxn /\ status[heap'[j].xmax] = "committed"
    BY <1>a DEF DeletedStays, Committed, Clean
  <2>1. heap[j].xmax # NoTxn /\ status[heap[j].xmax] = "committed"
    BY <1>f DEF DeletedStays, Committed, Clean
  <2>2. j \in Rids BY DEF Shape
  <2> QED BY <2>1, <2>2, <1>g
<1> QED BY <1>1, <1>2, <1>3, <1>4, <1>5, <1>6, <1>7, <1>8, <1>9

LEMMA StartKept ==
  ASSUME IInv, NEW s \in Sessions, Start(s)
  PROVE  IInv'
<1> DEFINE t == session[s]
           N == Len(status) + 1
           snap == [xmax |-> N + 1, active |-> TakenSnapshot(0).active \cup {N}]
           u == [t EXCEPT !.id = N, !.snap = snap]
           n == Launch(u)
<1> USE DEF IInv
<1>a. /\ t.phase = "start" /\ status' = Append(status, "running") /\ lock' = Append(lock, {})
      /\ session' = [session EXCEPT ![s] = n]
      /\ UNCHANGED <<heap, index, buried, exposed>>
  BY DEF Start, Go, NextTxnId
<1>n. /\ Len(heap) \in Nat /\ Rids = 1..Len(heap)
      /\ Len(status) \in Nat /\ DOMAIN status = 1..Len(status) /\ DOMAIN lock = DOMAIN status
      /\ Len(lock) = Len(status)
  BY Tables DEF Shape
<1>u. /\ u.id = N /\ u.stamped = {} /\ Session0(u)
  <2>1. Session0(t) /\ t.stamped = {} BY <1>a, SessionShape DEF Ending
  <2> HIDE DEF N, snap
  <2>2. /\ DOMAIN u = TxnFields /\ u.id = N /\ u.stamped = t.stamped /\ u.prog = t.prog
        /\ u.task = t.task /\ u.work = t.work /\ u.cands = t.cands
    BY <2>1 DEF Session0, TxnFields
  <2> HIDE DEF u
  <2>3. WorkOK(u) /\ CandsOK(u) BY <2>1, <2>2 DEF Session0, WorkOK, CandsOK
  <2> QED BY <2>1, <2>2, <2>3 DEF Session0
<1> HIDE DEF u
<1>l. /\ Onward(u, n) /\ ~Looked(n) /\ ~Targeted(n)
      /\ n.phase \in {"end", "scan", "lookup", "fk"}
  BY <1>u, LaunchOnward
<1> HIDE DEF n
<1>c. Sessions' = Sessions /\ session'[s] = n /\ \A r \in Sessions \ {s} : session'[r] = session[r]
  BY <1>a DEF Sessions
<1>d. /\ IsSeq(status') /\ Len(status') = N /\ DOMAIN status' = 1..N /\ status'[N] = "running"
      /\ \A x \in DOMAIN status : status'[x] = status[x]
  <2>1. IsSeq(status) BY DEF Shape
  <2>2. OneMore(status, "running", status') BY <1>a, <2>1, AppendOne
  <2> QED BY <2>2 DEF OneMore
<1>k. /\ IsSeq(lock') /\ Len(lock') = N /\ DOMAIN lock' = 1..N /\ lock'[N] = {}
      /\ \A x \in DOMAIN lock : lock'[x] = lock[x]
  <2>1. IsSeq(lock) BY DEF Shape
  <2>2. OneMore(lock, {}, lock') BY <1>a, <2>1, AppendOne
  <2> QED BY <2>2, <1>n DEF OneMore
<1>m. N \notin DOMAIN status /\ N # NoTxn /\ N \in Nat /\ Len(status) <= N /\ \A x \in 1..N : x # N => x \in DOMAIN status
  BY <1>n DEF NoTxn
<1> HIDE DEF N
<1>f. (Clean' <=> Clean) /\ Rids' = Rids
  BY <1>a DEF Clean, Rids
<1>i. n.id = N /\ n.stamped = {}
  BY <1>u, <1>l DEF Onward
<1>j. \A r \in Sessions : session[r].id # N
  <2>1. \A r \in Sessions : session[r].id \in 0..Len(status) BY DEF Shape, SessionOK
  <2>2. N \notin 0..Len(status) BY <1>m, <1>n DEF NoTxn
  <2> QED BY <2>1, <2>2
<1>x. \A j \in Rids : /\ heap[j].xmax # N
                      /\ heap[j].xmax # NoTxn => heap[j].xmax \in DOMAIN status
  <2>1. \A j \in Rids : heap[j].xmax \in 0..Len(status) BY DEF Shape
  <2>2. N \notin 0..Len(status) /\ \A y \in 0..Len(status) : y # NoTxn => y \in DOMAIN status
    BY <1>m, <1>n DEF NoTxn
  <2> QED BY <2>1, <2>2
<1>1. Shape'
  <2>3. ASSUME NEW v, SessionOK(v) PROVE SessionOK(v)'
    <3>1. Rids \subseteq Rids' /\ Len(status)' = N BY <1>d, <1>f
    <3> QED BY <2>3, <3>1, <1>m, <1>n, ShapeGrows
  <2>z. PICK z : z = n
    OBVIOUS
  <2>4. SessionOK(z)'
    <3>1. /\ DOMAIN z = TxnFields /\ DOMAIN z.task = TaskFields /\ WorkOK(z) /\ CandsOK(z)
          /\ DOMAIN z.prog = {"block", "ext", "stmts"} /\ z.prog.block = u.prog.block
      BY <1>l, <2>z DEF Onward
    <3>2. z.prog.block \in BOOLEAN BY <3>1, <1>u DEF Session0
    <3>3. WorkOK(z)' /\ CandsOK(z)' BY <3>1, <1>f DEF WorkOK, CandsOK
    <3>4. z.id \in 0..N /\ z.stamped = {} BY <1>i, <1>m, <2>z
    <3>5. (z.id \in 0..Len(status))' BY <1>d, <3>4
    <3>6. DOMAIN z = TxnFields /\ DOMAIN z.task = TaskFields /\ DOMAIN z.prog = {"block", "ext", "stmts"}
      BY <3>1
    <3> HIDE DEF IInv
    <3> QED BY <3>2, <3>3, <3>4, <3>5, <3>6 DEF SessionOK
  <2>5. (\A r \in Sessions : SessionOK(session[r]))'
    <3>1. \A v : SessionOK(v) => SessionOK(v)' BY <2>3
    <3>2. \A r \in Sessions \ {s} : SessionOK(session[r])' BY <3>1, <1>c DEF Shape
    <3>3. session'[s] = z BY <1>c, <2>z
    <3>4. SessionOK(session[s])' BY <3>3, <2>4
    <3> QED BY <3>2, <3>4, <1>c
  <2>6. IsSeq(heap)' /\ (\A j \in Rids : DOMAIN heap[j] = RowFields /\ heap[j].xmax \in 0..Len(status))'
    <3>1. \A y \in 0..Len(status) : y \in 0..N BY <1>m, <1>n
    <3> QED BY <3>1, <1>a, <1>d, <1>f DEF IsSeq, Shape
  <2>7. IsSeq(index)' /\ IsSeq(status)' /\ IsSeq(lock)' /\ Len(lock)' = Len(status)'
    BY <1>a, <1>d, <1>k DEF Shape, IsSeq
  <2>8. (\A y \in DOMAIN lock : lock[y] \subseteq Rids)' /\ (buried \subseteq Rids)'
    <3>1. \A y \in 1..N : lock'[y] \subseteq Rids BY <1>k, <1>m, <1>n DEF Shape
    <3> QED BY <3>1, <1>a, <1>f, <1>k DEF Shape
  <2> QED BY <2>5, <2>6, <2>7, <2>8 DEF Shape
<1>2. Named'
  <2>1. \A r \in Sessions : session'[r].phase # "start" => session'[r].id \in DOMAIN status'
    <3>1. N \in 1..N /\ \A y \in DOMAIN status : y \in 1..N BY <1>m, <1>n DEF NoTxn
    <3> QED BY <3>1, <1>c, <1>d, <1>i DEF Named
  <2>2. \A r, q \in Sessions : q # r /\ session'[q].id = session'[r].id => session'[r].id = NoTxn
    BY <1>c, <1>i, <1>j DEF Named
  <2> QED BY <2>1, <2>2, <1>c DEF Named
<1>3. Ending'
  <2>1. ASSUME NEW r \in Sessions
        PROVE  /\ session'[r].phase = "start" => session'[r].id = NoTxn /\ session'[r].stamped = {}
               /\ Undecided(session'[r]) => status'[session'[r].id] = "running"
               /\ session'[r].phase = "decide" =>
                    status'[session'[r].id] = "leaving" /\ session'[r].verdict \in {"committed", "aborted"}
               /\ session'[r].phase \in {"unlock", "leave"} => session'[r].verdict \in {"committed", "aborted"}
    <3>1. CASE r = s
      BY <3>1, <1>c, <1>d, <1>i, <1>l
    <3>2. CASE r # s
      <4>1. session'[r] = session[r] BY <3>2, <1>c
      <4>2. session[r].phase # "start" => status'[session[r].id] = status[session[r].id] BY <1>d DEF Named
      <4>3. session[r].phase = "start" => ~Undecided(session[r]) BY DEF Undecided
      <4> QED BY <4>1, <4>2, <4>3 DEF Ending
    <3> QED BY <3>1, <3>2
  <2> QED BY <2>1, <1>c DEF Ending, Undecided, DecidesFirst
<1>4. Exclusive'
  <2>1. \A x, y \in 1..N : x # y => lock'[x] \cap lock'[y] = {}
    BY <1>k, <1>m, <1>n DEF Exclusive
  <2> QED BY <2>1, <1>k DEF Exclusive
<1>5. Aimed'
  <2>1. ASSUME NEW r \in Sessions
        PROVE  /\ session'[r].phase = "lock" \/ Targeted(session'[r]) => session'[r].task.rid \in Rids
               /\ Targeted(session'[r]) => session'[r].task.rid \in lock'[session'[r].id]
    <3>1. CASE r = s
      BY <3>1, <1>c, <1>l
    <3>2. CASE r # s
      <4>1. session'[r] = session[r] BY <3>2, <1>c
      <4>2. Targeted(session[r]) => session[r].id \in DOMAIN lock BY <1>n DEF Targeted, Named
      <4>3. Targeted(session[r]) => lock'[session[r].id] = lock[session[r].id] BY <4>2, <1>k
      <4> QED BY <4>1, <4>3 DEF Aimed
    <3> QED BY <3>1, <3>2
  <2> QED BY <2>1, <1>c, <1>f DEF Aimed, Targeted
<1>6. Seeking'
  <2>1. n.phase \in {"lookup", "judge", "wait", "asleep"} /\ n.detect => n.task.kind = "insert" BY <1>l DEF Onward
  <2>2. \A r \in Sessions : session'[r].phase \in {"lookup", "judge", "wait", "asleep"} /\ session'[r].detect
                            => session'[r].task.kind = "insert"
    BY <2>1, <1>c DEF Seeking
  <2> QED BY <2>2, <1>c DEF Seeking
<1>7. Checked'
  <2> SUFFICES ASSUME Clean', NEW r \in Sessions, Looked(session'[r])
               PROVE  heap[session'[r].task.rid].xmax \in {NoTxn, session'[r].id}
                        \/ status'[heap[session'[r].task.rid].xmax] = "aborted"
    BY <1>a, <1>c DEF Checked, Looked, Free
  <2>1. r # s BY <1>c, <1>l
  <2>2. session'[r] = session[r] BY <2>1, <1>c
  <2>3. Free(session[r].task.rid, session[r].id) BY <2>2, <1>f DEF Checked
  <2>4. session[r].task.rid \in Rids BY <2>2 DEF Aimed, Looked, Targeted
  <2> QED BY <2>2, <2>3, <2>4, <1>d, <1>x DEF Free
<1>8. Stamped'
  <2> SUFFICES ASSUME Clean', NEW r \in Sessions, NEW j \in session'[r].stamped, status'[session'[r].id] # "aborted"
               PROVE  heap[j].xmax = session'[r].id
    BY <1>a, <1>c DEF Stamped
  <2>1. r # s BY <1>c, <1>i
  <2>2. session'[r] = session[r] BY <2>1, <1>c
  <2>3. session[r].id \in DOMAIN status BY <2>2 DEF Ending, Named
  <2>4. status[session[r].id] # "aborted" BY <2>2, <2>3, <1>d
  <2> QED BY <2>2, <2>4, <1>f DEF Stamped
<1>9. DeletedStays'
  <2> SUFFICES ASSUME Clean', NEW j \in buried PROVE heap[j].xmax # NoTxn /\ status'[heap[j].xmax] = "committed"
    BY <1>a DEF DeletedStays, Committed, Clean
  <2>1. heap[j].xmax # NoTxn /\ status[heap[j].xmax] = "committed"
    BY <1>f DEF DeletedStays, Committed, Clean
  <2>2. j \in Rids BY DEF Shape
  <2> QED BY <2>1, <2>2, <1>d, <1>x
<1> QED BY <1>1, <1>2, <1>3, <1>4, <1>5, <1>6, <1>7, <1>8, <1>9

-----------------------------------------------------------------------------
(* The invariant, and what follows from it.                                *)

LEMMA InitIInv == Init => IInv
<1> SUFFICES ASSUME Init PROVE IInv
  OBVIOUS
<1>1. PICK w \in Workloads :
        /\ heap = [i \in 1..Len(w.parents) |-> Row("parent", w.parents[i], Past)]
                    \o [i \in 1..Len(w.children) |-> Row("child", w.children[i], Past)]
        /\ index = [i \in 1..Len(w.parents) |-> i]
        /\ status = <<"committed">> /\ lock = << {} >>
        /\ session = [s \in DOMAIN w.programs |-> Idle(w.programs[s])]
        /\ buried = {} /\ exposed = {}
  BY DEF Init
<1>2. /\ w.parents \in Seq(Nat) /\ w.children \in Seq(Nat)
      /\ \A s \in DOMAIN w.programs : w.programs[s] \in [block : BOOLEAN, ext : BOOLEAN, stmts : Seq(Statement)]
  BY ConstraintsAssumption
<1>3. Len(w.parents) \in Nat /\ Len(w.children) \in Nat
  BY <1>2
<1>4. IsSeq(heap) /\ \A i \in Rids : DOMAIN heap[i] = RowFields /\ heap[i].xmax = 0
  <2> DEFINE f == [i \in 1..Len(w.parents) |-> Row("parent", w.parents[i], Past)]
             g == [i \in 1..Len(w.children) |-> Row("child", w.children[i], Past)]
             S == {f[i] : i \in DOMAIN f} \cup {g[i] : i \in DOMAIN g}
  <2>1. heap = f \o g BY <1>1
  <2>2. f = [i \in 1..Len(w.parents) |-> f[i]] /\ g = [i \in 1..Len(w.children) |-> g[i]] OBVIOUS
  <2>3. \A e \in S : DOMAIN e = RowFields /\ e.xmax = 0
    <3>1. \A tab, key, x : DOMAIN Row(tab, key, x) = RowFields /\ Row(tab, key, x).xmax = 0
      BY DEF Row, RowFields, NoTxn
    <3>2. \A i \in DOMAIN f : DOMAIN f[i] = RowFields /\ f[i].xmax = 0 BY <3>1
    <3>3. \A i \in DOMAIN g : DOMAIN g[i] = RowFields /\ g[i].xmax = 0 BY <3>1
    <3> HIDE DEF f, g
    <3> QED BY <3>2, <3>3
  <2> HIDE DEF f, g
  <2>4. IsSeq(f) BY <1>3, <2>2, FunctionIsSeq
  <2>5. IsSeq(g) BY <1>3, <2>2, FunctionIsSeq
  <2>6. SeqIn(f, S) /\ SeqIn(g, S) BY <2>4, <2>5 DEF SeqIn
  <2> HIDE DEF S
  <2>7. f \o g \in Seq(S) BY <2>6, SeqInIsSeq, ConcatOf
  <2>8. SeqIn(heap, S) BY <2>1, <2>7, SeqInIsSeq
  <2> QED BY <2>3, <2>8 DEF SeqIn, Rids
<1>5. IsSeq(index)
  <2>1. index = [i \in 1..Len(w.parents) |-> index[i]] BY <1>1
  <2> QED BY <2>1, <1>3, FunctionIsSeq
<1>6. IsSeq(status) /\ Len(status) = 1 /\ IsSeq(lock) /\ Len(lock) = 1 /\ DOMAIN lock = 1..1 /\ lock[1] = {}
  <2>1. Len(status) = 1 /\ Len(lock) = 1 /\ lock[1] = {} /\ DOMAIN lock = 1..1 BY <1>1
  <2>2. status \in Seq({"committed"}) /\ lock \in Seq({{}}) BY <1>1
  <2>3. SeqIn(status, {"committed"}) /\ SeqIn(lock, {{}}) BY <2>2, SeqInIsSeq
  <2> QED BY <2>1, <2>3 DEF SeqIn
<1>7. Sessions = DOMAIN w.programs /\ \A s \in Sessions : session[s] = Idle(w.programs[s])
  BY <1>1 DEF Sessions
<1>8. ASSUME NEW s \in Sessions
      PROVE  /\ session[s].phase = "start" /\ session[s].id = 0 /\ session[s].stamped = {}
             /\ SessionOK(session[s])
  <2> DEFINE p == w.programs[s]
             t == Idle(p)
  <2>1. session[s] = t BY <1>7
  <2>2. p \in [block : BOOLEAN, ext : BOOLEAN, stmts : Seq(Statement)] BY <1>2, <1>7
  <2>3. DOMAIN p = {"block", "ext", "stmts"} /\ p.block \in BOOLEAN BY <2>2
  <2> HIDE DEF p
  <2>4. /\ t.phase = "start" /\ DOMAIN t = TxnFields /\ t.id = 0 /\ t.stamped = {} /\ t.prog = p
        /\ t.task = NoTask /\ t.work = <<>> /\ t.cands = <<>>
    BY DEF Idle, TxnFields, NoTxn
  <2>5. DOMAIN NoTask = TaskFields BY DEF NoTask, TaskFields
  <2>6. IsSeq(<<>>)
    <3>1. <<>> \in Seq({}) OBVIOUS
    <3>2. SeqIn(<<>>, {}) BY <3>1, SeqInIsSeq
    <3> QED BY <3>2 DEF SeqIn
  <2> HIDE DEF t
  <2>7. WorkOK(t) /\ CandsOK(t) BY <2>4, <2>6 DEF WorkOK, CandsOK
  <2>8. SessionOK(t) BY <2>3, <2>4, <2>5, <2>7, <1>6 DEF SessionOK
  <2> QED BY <2>1, <2>4, <2>8
<1>9. Shape
  <2>1. \A i \in Rids : heap[i].xmax \in 0..Len(status) BY <1>4, <1>6
  <2>2. \A x \in DOMAIN lock : lock[x] \subseteq Rids BY <1>6
  <2>3. \A s \in Sessions : SessionOK(session[s]) BY <1>8
  <2>4. buried \subseteq Rids BY <1>1
  <2>5. IsSeq(heap) /\ \A i \in Rids : DOMAIN heap[i] = RowFields BY <1>4
  <2>6. IsSeq(status) /\ IsSeq(lock) /\ Len(lock) = Len(status) BY <1>6
  <2> QED BY <1>5, <2>1, <2>2, <2>3, <2>4, <2>5, <2>6 DEF Shape
<1>10. Named /\ Ending
  BY <1>8 DEF Named, Ending, Undecided, NoTxn
<1>11. Exclusive
  BY <1>6 DEF Exclusive
<1>12. Aimed /\ Seeking
  BY <1>8 DEF Aimed, Seeking, Targeted
<1>13. Checked /\ Stamped
  BY <1>8 DEF Checked, Stamped, Looked
<1>14. DeletedStays
  BY <1>1 DEF DeletedStays
<1> QED BY <1>9, <1>10, <1>11, <1>12, <1>13, <1>14 DEF IInv

LEMMA StepKept ==
  ASSUME IInv, NEW s \in Sessions, Step(s)
  PROVE  IInv'
<1>1. CASE Start(s)      BY <1>1, StartKept
<1>2. CASE Scan(s)       BY <1>2, ScanInner, InnerKept
<1>3. CASE NextTask(s)   BY <1>3, NextTaskInner, InnerKept
<1>4. CASE LockRow(s)    BY <1>4, LockRowKept
<1>5. CASE LockFails(s)  BY <1>5, LockFailsInner, InnerKept
<1>6. CASE CheckRow(s)   BY <1>6, CheckRowInner, InnerKept
<1>7. CASE Stamp(s)      BY <1>7, StampKept
<1>8. CASE ForeignKey(s) BY <1>8, ForeignKeyInner, InnerKept
<1>9. CASE Place(s)      BY <1>9, PlaceKept
<1>10. CASE Lookup(s)    BY <1>10, LookupInner, InnerKept
<1>11. CASE Judge(s)     BY <1>11, JudgeInner, InnerKept
<1>12. CASE Enter(s)     BY <1>12, EnterInner, InnerKept
<1>13. CASE WaitTest(s)  BY <1>13, WaitTestInner, InnerKept
<1>14. CASE Timeout(s)   BY <1>14, TimeoutInner, InnerKept
<1>15. CASE EndBlock(s)  BY <1>15, EndBlockInner, InnerKept
<1>16. CASE Unlock(s)    BY <1>16, UnlockKept
<1>17. CASE Leave(s)     BY <1>17, LeaveKept
<1>18. CASE Decide(s)    BY <1>18, DecideKept
<1> QED BY <1>1, <1>2, <1>3, <1>4, <1>5, <1>6, <1>7, <1>8, <1>9, <1>10, <1>11, <1>12, <1>13, <1>14,
           <1>15, <1>16, <1>17, <1>18 DEF Step

LEMMA IdleKept ==
  ASSUME IInv, UNCHANGED vars
  PROVE  IInv'
<1> USE DEF vars, IInv
<1>1. Shape'
  <2>1. \A r \in Sessions : SessionOK(session'[r]) BY DEF Shape
  <2> QED BY <2>1, ShapeKept DEF Shape, Sessions
<1>2. Named' /\ Exclusive' /\ Seeking' /\ DeletedStays'
  BY DEF Named, Exclusive, Seeking, DeletedStays, Committed, Sessions
<1>3. Ending'
  BY DEF Ending, Undecided, DecidesFirst, Sessions
<1>4. Aimed'
  BY DEF Aimed, Targeted, Sessions, Rids
<1>5. Checked'
  BY DEF Checked, Clean, Looked, Free, Sessions
<1>6. Stamped'
  BY DEF Stamped, Clean, Sessions
<1> QED BY <1>1, <1>2, <1>3, <1>4, <1>5, <1>6

\* The inductive invariant holds in every run of the writers, whatever the
\* connections ask for (executor.rs perform_update, perform_delete,
\* on_conflict_do_update, cascade_fk_on_parent_delete).
THEOREM Invariance == Spec => []IInv
<1>1. IInv /\ [Next]_vars => IInv'
  <2> SUFFICES ASSUME IInv, [Next]_vars PROVE IInv'
    OBVIOUS
  <2>1. CASE Next BY <2>1, StepKept DEF Next
  <2>2. CASE UNCHANGED vars BY <2>2, IdleKept
  <2> QED BY <2>1, <2>2
<1> QED BY <1>1, InitIInv, PTL DEF Spec

\* A committed deletion stays, for any number of connections, rows and
\* statements: only a writer that does not look again under the lock, or
\* one that took the deleter for aborted, can bring the row back
\* (executor.rs perform_delete, perform_update: the recheck of xmax).
THEOREM DeletionsStay == Spec => []DeletedStays
<1>1. IInv => DeletedStays
  BY DEF IInv
<1> QED BY <1>1, Invariance, PTL

\* Row locks exclude, and from the lock on to the stamp the row stays the
\* writer's: what it saw under the lock is what it overwrites
\* (lock_manager.rs lock, executor.rs perform_update, perform_delete).
THEOREM LocksProtect == Spec => [](Exclusive /\ Aimed /\ Checked)
<1>1. IInv => Exclusive /\ Aimed /\ Checked
  BY DEF IInv
<1> QED BY <1>1, Invariance, PTL
-----------------------------------------------------------------------------
(* One key, one row.                                                       *)
(*                                                                         *)
(* Two rows of one key exclude each other: one of them will never be       *)
(* committed, is gone, was deleted by the creator of the other (so the two *)
(* stand and fall together), or is still being checked.  A check that      *)
(* passes finds every other entry of the key ignorable, and what may be    *)
(* ignored may be ignored for ever; a row without an entry hangs on an     *)
(* entry by the link of a HOT update, which the check has seen.            *)

Pure == exposed \cap {"raced", "hot", "leftover", "partial", "overwrote", "misread"} = {}

\* A transaction that will not commit, or not without leaving its mark.
Losing(t) == t.verdict = "aborted" \/ t.failed
Lost(x)   == status[x] = "aborted" \/ \E s \in Sessions : session[s].id = x /\ Losing(session[s])

Outcomes == {"running", "leaving", "committed", "aborted"}

RowsOK ==
  /\ \A x \in DOMAIN status : status[x] \in Outcomes
  /\ \A i \in Rids : heap[i].xmin \in DOMAIN status /\ heap[i].ctid \in Rids \cup {NoRow}
  /\ \A n \in DOMAIN index : index[n] \in Rids /\ heap[index[n]].tab = "parent"

\* A transaction ends as it was decided to.
Closing == {"unlock", "leave", "decide", "done"}
FateOK(t) ==
  /\ t.failed \in BOOLEAN
  /\ t.phase \notin Closing => t.verdict = "none"
  /\ t.failed => t.phase \in Closing \cup {"end"}
  /\ t.phase \in Closing => t.verdict \in {"committed", "aborted"}
  /\ t.phase = "done" \/ (t.phase = "unlock" /\ DecidesFirst(t)) => status[t.id] = t.verdict

\* Only a row that is there for everybody, or for its creator, is ever deleted.
SeenBy(i, x) == heap[i].xmin = x \/ Committed(heap[i].xmin)
OwnOnly == \A i \in Rids : heap[i].xmax \in {NoTxn, heap[i].xmin} \/ Committed(heap[i].xmin)

Engaged(t)   == t.phase = "lock" \/ Targeted(t) \/ (t.phase = "place" /\ t.task.kind # "insert")
Searching(t) == t.phase \in {"lookup", "judge", "wait", "asleep"} /\ t.detect
TouchTask(k) == k.kind = "touch" => k.tab = "parent" /\ heap[k.rid].tab = "parent" /\ heap[k.rid].key = k.key

TaskOK(t) ==
  /\ t.prog.stmts \in Seq(Statement)
  /\ t.phase \notin Closing \cup {"start", "end"} => t.prog.stmts # <<>>
  /\ \A n \in DOMAIN t.work : SeenBy(t.work[n].rid, t.id) /\ TouchTask(t.work[n])
  /\ Engaged(t) => t.task.rid \in Rids /\ SeenBy(t.task.rid, t.id) /\ TouchTask(t.task)
  /\ t.phase = "place" /\ t.task.kind # "insert" => t.task.rid \in t.stamped
  /\ t.phase = "start" \/ Searching(t) => t.work = <<>>

\* A HOT update takes each of its rows once.
OnceOK(t) ==
  /\ \A m \in DOMAIN t.work : t.work[m].kind = "touch" =>
       /\ heap[t.work[m].rid].xmax # t.id
       /\ \A n \in DOMAIN t.work : t.work[n].kind = "touch" /\ (t.work[n].rid = t.work[m].rid => n = m)
       /\ Engaged(t) => t.task.kind = "touch" /\ t.task.rid # t.work[m].rid
  /\ Engaged(t) /\ t.phase # "place" /\ t.task.kind = "touch" => heap[t.task.rid].xmax # t.id

\* The row a unique check is about.
Checking(t) == t.phase \in {"lookup", "judge", "wait", "asleep", "enter"} /\ ~t.detect
NewOK(t) ==
  /\ t.phase = "enter" => ~t.detect
  /\ Checking(t) => /\ t.new \in Rids /\ heap[t.new].tab = "parent" /\ heap[t.new].key = t.task.key
                    /\ heap[t.new].xmin = t.id

SessionGood(t) == FateOK(t) /\ TaskOK(t) /\ OnceOK(t) /\ NewOK(t)

Pending(i) == \E s \in Sessions : Checking(session[s]) /\ session[s].new = i
Dead(i)    == Lost(heap[i].xmin) \/ Committed(heap[i].xmax) \/ heap[i].xmax = heap[i].xmin

Twins(i, j)    == heap[i].tab = "parent" /\ heap[j].tab = "parent" /\ heap[i].key = heap[j].key /\ i # j
Excluded(i, j) == Dead(i) \/ Pending(i) \/ heap[i].xmax = heap[j].xmin

\* Two rows of one key exclude each other.
Apart == \A i, j \in Rids : Twins(i, j) => Excluded(i, j) \/ Excluded(j, i)

\* A row without an entry hangs on one, unless it does not count (yet).
Hot(a, c) == heap[a].ctid # NoRow /\ (heap[heap[a].ctid].xmin = heap[c].xmin \/ Committed(heap[heap[a].ctid].xmin))
Anchored  ==
  \A c \in Rids : heap[c].tab = "parent" =>
    \/ c \in Range(index) \/ Pending(c) \/ Lost(heap[c].xmin)
    \/ \E a \in Range(index) : heap[a].key = heap[c].key /\ Hot(a, c)

\* A link was made by whoever deleted the row, or by somebody who aborted.
Unhot(a) == heap[a].ctid = NoRow \/ status[heap[heap[a].ctid].xmin] = "aborted"
Links    == \A a \in Rids : Unhot(a) \/ heap[heap[a].ctid].xmin = heap[a].xmax

\* What a check has ignored may still be ignored when the entry is made.
Ignorable(i, x) == status[heap[i].xmin] = "aborted" \/ heap[i].xmax = x \/ Committed(heap[i].xmax)
EnterOK(t) == t.phase = "enter" => \A n \in DOMAIN t.cands : Ignorable(t.cands[n], t.id) /\ Unhot(t.cands[n])
Honest(t)  == t.failed => t.verdict # "committed"

\* A HOT update that has deleted the old version may add the new one.
Touching(t)   == t.phase = "place" /\ t.task.kind = "touch"
Cleared(j, x) == Dead(j) \/ Pending(j) \/ heap[j].xmax = x
Touched ==
  \A s \in Sessions : Touching(session[s]) =>
    /\ \A j \in Rids : Twins(session[s].task.rid, j) => Cleared(j, session[s].id)
    /\ \A r \in Sessions \ {s} : Touching(session[r]) => session[r].task.key # session[s].task.key

UInv ==
  /\ RowsOK /\ OwnOnly
  /\ \A s \in Sessions : SessionGood(session[s])
  /\ Pure => /\ \A s \in Sessions : EnterOK(session[s]) /\ Honest(session[s])
             /\ Apart /\ Anchored /\ Links /\ Touched

-----------------------------------------------------------------------------

\* Nobody whose transaction is lost has committed.
LEMMA LostIsNotCommitted ==
  ASSUME IInv, UInv, Pure, NEW x \in DOMAIN status, Lost(x)
  PROVE  status[x] # "committed"
<1>1. CASE status[x] = "aborted"
  BY <1>1
<1>2. CASE status[x] # "aborted"
  <2>1. PICK s \in Sessions : session[s].id = x /\ Losing(session[s])
    BY <1>2 DEF Lost
  <2> DEFINE t == session[s]
  <2>2. FateOK(t) /\ Honest(t)
    BY DEF UInv, SessionGood
  <2>3. x # NoTxn
    <3>1. Len(status) \in Nat /\ DOMAIN status = 1..Len(status) BY Tables DEF IInv
    <3> QED BY <3>1 DEF NoTxn
  <2>4. t.phase # "start"
    BY <2>1, <2>3 DEF IInv, Ending
  <2>5. /\ Undecided(t) => status[x] = "running"
        /\ t.phase = "decide" => status[x] = "leaving"
    BY <2>1 DEF IInv, Ending
  <2> HIDE DEF t
  <2>6. Losing(t) BY <2>1 DEF t
  <2>7. t.id = x BY <2>1 DEF t
  <2> QED BY <2>2, <2>4, <2>5, <2>6, <2>7 DEF FateOK, Honest, Losing, Undecided, Closing, DecidesFirst
<1> QED BY <1>1, <1>2

\* Two live rows do not exclude each other.
LEMMA LiveAlone ==
  ASSUME IInv, UInv
  PROVE  UniqueUnlessRaced
<1> SUFFICES ASSUME Pure, NEW i \in Live("parent"), NEW j \in Live("parent"), heap[i].key = heap[j].key, i # j
             PROVE  FALSE
  BY DEF UniqueUnlessRaced, Pure
<1>1. ASSUME NEW a \in Live("parent"), NEW b \in Live("parent"), Excluded(a, b)
      PROVE  FALSE
  <2>1. a \in Rids /\ b \in Rids /\ Committed(heap[a].xmin) /\ Committed(heap[b].xmin) /\ ~Committed(heap[a].xmax)
    BY DEF Live
  <2>2. heap[a].xmin \in DOMAIN status
    BY <2>1 DEF UInv, RowsOK
  <2>3. ~Lost(heap[a].xmin)
    BY <2>1, <2>2, LostIsNotCommitted DEF Committed
  <2>4. ~Pending(a)
    <3> SUFFICES ASSUME NEW s \in Sessions, Checking(session[s]), session[s].new = a PROVE FALSE
      BY DEF Pending
    <3>1. heap[a].xmin = session[s].id BY DEF UInv, SessionGood, NewOK
    <3>2. status[session[s].id] = "running" BY DEF IInv, Ending, Undecided, Checking
    <3> QED BY <3>1, <3>2, <2>1 DEF Committed
  <2> QED BY <1>1, <2>1, <2>3, <2>4 DEF Excluded, Dead
<1>2. i \in Rids /\ j \in Rids /\ Twins(i, j)
  BY DEF Live, Twins
<1>3. Excluded(i, j) \/ Excluded(j, i)
  BY <1>2 DEF UInv, Apart
<1> QED BY <1>1, <1>3

-----------------------------------------------------------------------------
(* Steps that leave the tables alone.                                      *)

\* What may become of a session, as far as the rows are concerned.
Follows(t, n) ==
  /\ Losing(t) => Losing(n) /\ n.id = t.id
  /\ Touching(n) => Touching(t) /\ n.task = t.task /\ n.id = t.id
  /\ Pure' /\ Checking(t) => (Checking(n) /\ n.new = t.new) \/ (Losing(n) /\ n.id = t.id)

LEMMA StillKept ==
  ASSUME IInv, UInv, heap' = heap, index' = index, Sessions' = Sessions, exposed \subseteq exposed',
         DOMAIN status \subseteq DOMAIN status', \A x \in DOMAIN status' : status'[x] \in Outcomes,
         \A x \in DOMAIN status : status[x] \in {"aborted", "committed"} => status'[x] = status[x],
         \A r \in Sessions : Follows(session[r], session'[r]),
         \A r \in Sessions : SessionGood(session[r])',
         Pure' => \A r \in Sessions : (EnterOK(session[r]) /\ Honest(session[r]))'
  PROVE  UInv'
<1>0. Rids' = Rids /\ Range(index)' = Range(index)
  BY DEF Rids, Range
<1>a. \A x \in DOMAIN status : Committed(x) => Committed(x)'
  BY DEF Committed
<1>b. \A i \in Rids : heap[i].xmin \in DOMAIN status /\ heap[i].ctid \in Rids \cup {NoRow}
  BY DEF UInv, RowsOK
<1>c. \A i \in Rids : heap[i].xmax # NoTxn => heap[i].xmax \in DOMAIN status
  <2>1. Len(status) \in Nat /\ DOMAIN status = 1..Len(status) BY Tables DEF IInv
  <2>2. \A i \in Rids : heap[i].xmax \in 0..Len(status) BY DEF IInv, Shape
  <2> QED BY <2>1, <2>2 DEF NoTxn
<1>1. RowsOK'
  <2>1. (\A x \in DOMAIN status : status[x] \in Outcomes)' BY DEF Outcomes
  <2>2. /\ \A n \in DOMAIN index : index[n] \in Rids /\ heap[index[n]].tab = "parent"
    BY DEF UInv, RowsOK
  <2> QED BY <1>0, <1>b, <2>1, <2>2 DEF RowsOK
<1>2. OwnOnly'
  <2>1. \A i \in Rids : heap[i].xmax \in {NoTxn, heap[i].xmin} \/ Committed(heap[i].xmin)
    BY DEF UInv, OwnOnly
  <2> QED BY <2>1, <1>0, <1>a, <1>b DEF OwnOnly
<1>3. ASSUME Pure' PROVE Apart' /\ Anchored' /\ Links' /\ Touched'
  <2>0. Pure
    BY <1>3 DEF Pure
  <2>1. \A x \in DOMAIN status : Lost(x) => Lost(x)'
    <3> SUFFICES ASSUME NEW x \in DOMAIN status, Lost(x) PROVE Lost(x)' OBVIOUS
    <3>1. CASE status[x] = "aborted" BY <3>1 DEF Lost
    <3>2. CASE \E s \in Sessions : session[s].id = x /\ Losing(session[s])
      <4>1. PICK s \in Sessions : session[s].id = x /\ Losing(session[s]) BY <3>2
      <4>2. Losing(session'[s]) /\ session'[s].id = x BY <4>1 DEF Follows
      <4> QED BY <4>2 DEF Lost, Losing
    <3> QED BY <3>1, <3>2 DEF Lost
  <2>2. \A i \in Rids : Pending(i) => Pending(i)' \/ Lost(heap[i].xmin)'
    <3> SUFFICES ASSUME NEW i \in Rids, Pending(i) PROVE Pending(i)' \/ Lost(heap[i].xmin)' OBVIOUS
    <3>1. PICK s \in Sessions : Checking(session[s]) /\ session[s].new = i BY DEF Pending
    <3>2. heap[i].xmin = session[s].id BY <3>1 DEF UInv, SessionGood, NewOK
    <3>3. Follows(session[s], session'[s]) OBVIOUS
    <3>4. CASE Checking(session'[s]) /\ session'[s].new = session[s].new
      BY <3>1, <3>4 DEF Pending, Checking
    <3>5. CASE Losing(session'[s]) /\ session'[s].id = session[s].id
      BY <3>2, <3>5 DEF Lost, Losing
    <3> QED BY <1>3, <3>1, <3>3, <3>4, <3>5 DEF Follows
  <2>3. \A i \in Rids : Dead(i) => Dead(i)'
    BY <2>1, <1>a, <1>b, <1>c DEF Dead, Committed
  <2>p. \A i \in Rids : Pending(i) => Pending(i)' \/ Dead(i)'
    BY <2>2 DEF Dead
  <2>4. \A i, j : Twins(i, j)' <=> Twins(i, j)
    BY DEF Twins
  <2>5. \A i, j \in Rids : Excluded(i, j) => Excluded(i, j)'
    BY <2>p, <2>3 DEF Excluded
  <2>6. Apart'
    BY <2>0, <2>4, <2>5, <1>0 DEF UInv, Apart
  <2>7. \A a, c \in Rids : Hot(a, c) => Hot(a, c)'
    BY <1>a, <1>b DEF Hot
  <2>8. \A a \in Rids : Unhot(a) => Unhot(a)'
    BY <1>b DEF Unhot
  <2>9. Range(index) \subseteq Rids
    BY DEF UInv, RowsOK, Range
  <2>10. Anchored'
    <3> SUFFICES ASSUME NEW c \in Rids, heap[c].tab = "parent"
                 PROVE  (\/ c \in Range(index) \/ Pending(c) \/ Lost(heap[c].xmin)
                         \/ \E a \in Range(index) : heap[a].key = heap[c].key /\ Hot(a, c))'
      BY <1>0 DEF Anchored
    <3>1. \/ c \in Range(index) \/ Pending(c) \/ Lost(heap[c].xmin)
          \/ \E a \in Range(index) : heap[a].key = heap[c].key /\ Hot(a, c)
      BY <2>0 DEF UInv, Anchored
    <3> QED BY <3>1, <2>1, <2>2, <2>7, <2>9, <1>0, <1>b
  <2>11. Links'
    BY <2>0, <2>8, <1>0 DEF UInv, Links
  <2>12. \A j \in Rids : \A x : Cleared(j, x) => Cleared(j, x)'
    BY <2>p, <2>3 DEF Cleared
  <2>13. Touched'
    <3>0. \A r \in Sessions : Touching(session'[r]) =>
            Touching(session[r]) /\ session'[r].task = session[r].task /\ session'[r].id = session[r].id
      BY DEF Follows
    <3>1. ASSUME NEW s \in Sessions, Touching(session'[s])
          PROVE  /\ \A j \in Rids : Twins(session[s].task.rid, j) => Cleared(j, session[s].id)'
                 /\ \A r \in Sessions \ {s} : Touching(session'[r]) => session'[r].task.key # session'[s].task.key
      BY <3>0, <3>1, <2>0, <2>12 DEF UInv, Touched
    <3>2. ASSUME NEW s \in Sessions, Touching(session'[s])
          PROVE  /\ (\A j \in Rids : Twins(session[s].task.rid, j) => Cleared(j, session[s].id))'
                 /\ (\A r \in Sessions \ {s} : Touching(session[r]) => session[r].task.key # session[s].task.key)'
      <4>1. session'[s].task = session[s].task /\ session'[s].id = session[s].id BY <3>0, <3>2
      <4>2. \A j \in Rids : Twins(session[s].task.rid, j) => Cleared(j, session[s].id)' BY <3>1, <3>2
      <4>3. \A j : Cleared(j, session[s].id)' <=> (Dead(j)' \/ Pending(j)' \/ heap[j].xmax = session'[s].id) BY DEF Cleared
      <4>4. (\A j \in Rids : Twins(session[s].task.rid, j) => Cleared(j, session[s].id))'
        BY <4>1, <4>2, <4>3, <2>4, <1>0
      <4> QED BY <4>4, <3>1, <3>2 DEF Touching
    <3> QED BY <3>2 DEF Touched, Touching
  <2> QED BY <2>6, <2>10, <2>11, <2>13
<1> QED BY <1>1, <1>2, <1>3 DEF UInv

\* A step of one session that leaves the tables and the transactions alone.
LEMMA QuietKept ==
  ASSUME IInv, UInv, NEW s \in Sessions, NEW n,
         heap' = heap, index' = index, status' = status, exposed \subseteq exposed',
         session' = [session EXCEPT ![s] = n],
         SessionGood(n), Follows(session[s], n), Pure' => EnterOK(n) /\ Honest(n)
  PROVE  UInv'
<1>1. Sessions' = Sessions /\ session'[s] = n /\ \A r \in Sessions \ {s} : session'[r] = session[r]
  BY DEF Sessions
<1>2. Rids' = Rids
  BY DEF Rids
<1>3. Pure' => Pure
  BY DEF Pure
<1>4. \A r \in Sessions : Follows(session[r], session'[r])
  <2>1. ASSUME NEW r \in Sessions, r # s PROVE Follows(session[r], session[r])
    BY DEF Follows
  <2> QED BY <1>1, <2>1
<1>5. \A u : SessionGood(u)' <=> SessionGood(u)
  <2>1. \A u : FateOK(u)' <=> FateOK(u)
    BY DEF FateOK, DecidesFirst
  <2>2. \A u : TaskOK(u)' <=> TaskOK(u)
    BY <1>2 DEF TaskOK, SeenBy, Committed, TouchTask, Engaged, Searching, Targeted
  <2>3. \A u : OnceOK(u)' <=> OnceOK(u)
    BY DEF OnceOK, Engaged, Targeted
  <2>4. \A u : NewOK(u)' <=> NewOK(u)
    BY <1>2 DEF NewOK, Checking
  <2> QED BY <2>1, <2>2, <2>3, <2>4 DEF SessionGood
<1>6. \A r \in Sessions : SessionGood(session'[r])
  BY <1>1 DEF UInv
<1>7. \A r \in Sessions : SessionGood(session[r])'
  BY <1>5, <1>6
<1>8. Pure' => \A r \in Sessions : EnterOK(session'[r]) /\ Honest(session'[r])
  BY <1>1, <1>3 DEF UInv
<1>9. Pure' => \A r \in Sessions : (EnterOK(session[r]) /\ Honest(session[r]))'
  BY <1>8 DEF EnterOK, Honest, Ignorable, Unhot, Committed
<1>10. \A x \in DOMAIN status' : status'[x] \in Outcomes
  BY DEF UInv, RowsOK
<1> QED BY <1>1, <1>4, <1>7, <1>9, <1>10, StillKept

\* A session as it was but for its phase, in every field that matters here.
Rest(t, n) ==
  /\ n.id = t.id /\ n.prog = t.prog /\ n.verdict = t.verdict /\ n.work = t.work /\ n.task = t.task
  /\ n.new = t.new /\ n.detect = t.detect /\ n.cands = t.cands /\ n.stamped = t.stamped /\ n.failed = t.failed

LEMMA PhaseOnly ==
  ASSUME NEW t, DOMAIN t = TxnFields, NEW p, NEW n, n = [t EXCEPT !.phase = p]
  PROVE  Rest(t, n) /\ n.phase = p
BY DEF TxnFields, Rest

\* A statement goes on.
LEMMA PhaseGood ==
  ASSUME NEW t, SessionGood(t), NEW n, Rest(t, n),
         t.phase \notin Closing \cup {"start", "end"}, n.phase \notin Closing \cup {"start", "enter"},
         Engaged(n) => Engaged(t) /\ t.phase # "place",
         n.phase = "place" => t.task.kind = "insert",
         Searching(n) => Searching(t),
         Checking(n) <=> Checking(t)
  PROVE  SessionGood(n) /\ Follows(t, n) /\ EnterOK(n) /\ Honest(n)
<1>1. FateOK(n)
  BY DEF SessionGood, FateOK, Rest, Closing
<1>2. TaskOK(n)
  BY DEF SessionGood, TaskOK, Rest
<1>3. OnceOK(n)
  BY DEF SessionGood, OnceOK, Rest
<1>4. NewOK(n)
  BY DEF SessionGood, NewOK, Rest
<1>5. Follows(t, n)
  BY DEF Follows, Rest, Losing, Touching
<1>6. EnterOK(n) /\ Honest(n)
  BY <1>1 DEF EnterOK, Honest, FateOK, Closing
<1> QED BY <1>1, <1>2, <1>3, <1>4, <1>5, <1>6 DEF SessionGood

\* A statement fails.
LEMMA FailGood ==
  ASSUME NEW t, Session0(t), SessionGood(t), t.phase \notin Closing \cup {"start", "end"}
  PROVE  SessionGood(Failing(t)) /\ Follows(t, Failing(t)) /\ EnterOK(Failing(t)) /\ Honest(Failing(t))
<1> DEFINE n == Failing(t)
<1>1. /\ n.id = t.id /\ n.prog = t.prog /\ n.work = t.work /\ n.task = t.task /\ n.stamped = t.stamped
  BY DEF Failing, Session0, TxnFields
<1>2. t.verdict = "none" /\ t.failed = FALSE
  BY DEF SessionGood, FateOK
<1>3. \/ n.phase = "end" /\ n.failed = TRUE /\ n.verdict = "none"
      \/ n.phase = "leave" /\ n.failed = FALSE /\ n.verdict = "aborted"
      \/ n.phase = "unlock" /\ n.failed = FALSE /\ n.verdict = "aborted" /\ ~t.prog.block
  BY <1>2 DEF Failing, Session0, TxnFields
<1> HIDE DEF n
<1>4. FateOK(n)
  BY <1>1, <1>3 DEF FateOK, Closing, DecidesFirst
<1>5. ~Engaged(n) /\ ~Searching(n) /\ ~Checking(n) /\ n.phase \notin {"place", "start", "enter"}
  BY <1>3 DEF Engaged, Targeted, Searching, Checking
<1>6. TaskOK(n)
  BY <1>1, <1>3, <1>5 DEF SessionGood, TaskOK, Closing
<1>7. OnceOK(n)
  BY <1>1, <1>5 DEF SessionGood, OnceOK
<1>8. NewOK(n) /\ EnterOK(n)
  BY <1>5 DEF NewOK, EnterOK
<1>9. Follows(t, n)
  BY <1>1, <1>3, <1>5 DEF Follows, Losing, Touching
<1>10. Honest(n)
  BY <1>3 DEF Honest
<1> QED BY <1>4, <1>6, <1>7, <1>8, <1>9, <1>10 DEF SessionGood, n

LEMMA FailU ==
  ASSUME IInv, UInv, NEW s \in Sessions, Fail(s), session[s].phase \notin Closing \cup {"start", "end"},
         heap' = heap, index' = index, status' = status, exposed \subseteq exposed'
  PROVE  UInv'
<1>1. Session0(session[s]) /\ SessionGood(session[s])
  BY SessionShape DEF UInv
<1>2. session' = [session EXCEPT ![s] = Failing(session[s])]
  BY DEF Fail, Go
<1> QED BY <1>1, <1>2, FailGood, QuietKept

LEMMA ToU ==
  ASSUME IInv, UInv, NEW s \in Sessions, NEW p, To(s, p),
         heap' = heap, index' = index, status' = status, exposed \subseteq exposed',
         session[s].phase \notin Closing \cup {"start", "end"}, p \notin Closing \cup {"start", "enter"},
         \A n : Rest(session[s], n) /\ n.phase = p =>
           /\ Engaged(n) => Engaged(session[s]) /\ session[s].phase # "place"
           /\ n.phase = "place" => session[s].task.kind = "insert"
           /\ Searching(n) => Searching(session[s])
           /\ Checking(n) <=> Checking(session[s])
  PROVE  UInv'
<1> DEFINE t == session[s]
           n == [t EXCEPT !.phase = p]
<1>1. session' = [session EXCEPT ![s] = n]
  BY DEF To, Sessions
<1>2. Session0(t) /\ SessionGood(t)
  BY SessionShape DEF UInv
<1>3. Rest(t, n) /\ n.phase = p
  <2>1. DOMAIN t = TxnFields BY <1>2 DEF Session0
  <2> HIDE DEF t
  <2> QED BY <2>1, PhaseOnly
<1> HIDE DEF n
<1>4. SessionGood(n) /\ Follows(t, n) /\ EnterOK(n) /\ Honest(n)
  BY <1>2, <1>3, PhaseGood
<1> QED BY <1>1, <1>4, QuietKept

LEMMA LockRowU ==
  ASSUME IInv, UInv, NEW s \in Sessions, LockRow(s)
  PROVE  UInv'
<1>1. PICK p \in {"check", "stamp"} : To(s, p)
  BY DEF LockRow
<1>2. session[s].phase = "lock" /\ UNCHANGED <<heap, index, status, exposed>>
  BY DEF LockRow
<1>3. \A n : Rest(session[s], n) /\ n.phase = p =>
           /\ Engaged(n) => Engaged(session[s]) /\ session[s].phase # "place"
           /\ n.phase = "place" => session[s].task.kind = "insert"
           /\ Searching(n) => Searching(session[s])
           /\ Checking(n) <=> Checking(session[s])
  BY <1>1, <1>2 DEF Engaged, Searching, Checking, Rest
<1> QED BY <1>1, <1>2, <1>3, ToU DEF Closing

LEMMA LockFailsU ==
  ASSUME IInv, UInv, NEW s \in Sessions, LockFails(s)
  PROVE  UInv'
BY FailU DEF LockFails, Closing

LEMMA CheckRowU ==
  ASSUME IInv, UInv, NEW s \in Sessions, CheckRow(s)
  PROVE  UInv'
<1>1. session[s].phase = "check" /\ UNCHANGED <<heap, index, status>> /\ exposed \subseteq exposed'
  BY FlagGrows DEF CheckRow
<1>2. CASE Fail(s)
  BY <1>1, <1>2, FailU DEF Closing
<1>3. CASE \E p \in {"fk", "stamp", "scan"} : To(s, p)
  <2>1. PICK p \in {"fk", "stamp", "scan"} : To(s, p) BY <1>3
  <2>2. \A n : Rest(session[s], n) /\ n.phase = p =>
           /\ Engaged(n) => Engaged(session[s]) /\ session[s].phase # "place"
           /\ n.phase = "place" => session[s].task.kind = "insert"
           /\ Searching(n) => Searching(session[s])
           /\ Checking(n) <=> Checking(session[s])
    BY <1>1, <2>1 DEF Engaged, Targeted, Searching, Checking, Rest
  <2> QED BY <1>1, <2>1, <2>2, ToU DEF Closing
<1>4. Recheck(s) \in {"ok", "restart", "40001"}
  BY DEF Recheck
<1> QED BY <1>2, <1>3, <1>4 DEF CheckRow

LEMMA ForeignKeyU ==
  ASSUME IInv, UInv, NEW s \in Sessions, ForeignKey(s)
  PROVE  UInv'
<1>1. session[s].phase = "fk" /\ UNCHANGED <<heap, index, status>> /\ exposed \subseteq exposed'
  BY FlagGrows DEF ForeignKey
<1>2. CASE Fail(s)
  BY <1>1, <1>2, FailU DEF Closing
<1>3. CASE ~Fail(s)
  <2>1. PICK p : p = (IF session[s].task.kind = "insert" THEN "place" ELSE "stamp") /\ To(s, p)
    BY <1>3 DEF ForeignKey
  <2>2. \A n : Rest(session[s], n) /\ n.phase = p =>
           /\ Engaged(n) => Engaged(session[s]) /\ session[s].phase # "place"
           /\ n.phase = "place" => session[s].task.kind = "insert"
           /\ Searching(n) => Searching(session[s])
           /\ Checking(n) <=> Checking(session[s])
    BY <1>1, <2>1 DEF Engaged, Targeted, Searching, Checking, Rest
  <2> QED BY <1>1, <2>1, <2>2, ToU DEF Closing
<1> QED BY <1>2, <1>3

LEMMA WaitTestU ==
  ASSUME IInv, UInv, NEW s \in Sessions, WaitTest(s)
  PROVE  UInv'
<1>1. PICK p \in {"lookup", "asleep"} : To(s, p)
  BY DEF WaitTest
<1>2. session[s].phase = "wait" /\ UNCHANGED <<heap, index, status, exposed>>
  BY DEF WaitTest
<1>3. \A n : Rest(session[s], n) /\ n.phase = p =>
           /\ Engaged(n) => Engaged(session[s]) /\ session[s].phase # "place"
           /\ n.phase = "place" => session[s].task.kind = "insert"
           /\ Searching(n) => Searching(session[s])
           /\ Checking(n) <=> Checking(session[s])
  BY <1>1, <1>2 DEF Engaged, Targeted, Searching, Checking, Rest
<1> QED BY <1>1, <1>2, <1>3, ToU DEF Closing

LEMMA TimeoutU ==
  ASSUME IInv, UInv, NEW s \in Sessions, Timeout(s)
  PROVE  UInv'
<1>2. session[s].phase = "asleep" /\ UNCHANGED <<heap, index, status, exposed>>
  BY DEF Timeout, TimerFires
<1>1. CASE To(s, "lookup")
  <2>3. \A n : Rest(session[s], n) /\ n.phase = "lookup" =>
           /\ Engaged(n) => Engaged(session[s]) /\ session[s].phase # "place"
           /\ n.phase = "place" => session[s].task.kind = "insert"
           /\ Searching(n) => Searching(session[s])
           /\ Checking(n) <=> Checking(session[s])
    BY <1>1, <1>2 DEF Engaged, Targeted, Searching, Checking, Rest
  <2> QED BY <1>1, <1>2, <2>3, ToU DEF Closing
<1>3. CASE Fail(s)
  BY <1>2, <1>3, FailU DEF Closing
<1> QED BY <1>1, <1>3 DEF Timeout

\* A cause that is there is recorded.
LEMMA FlagRaises ==
  ASSUME NEW causes, NEW p, NEW name, <<p, name>> \in causes, p = TRUE, Flag(causes)
  PROVE  name \in exposed'
<1> DEFINE c == <<p, name>>
<1>1. c[1] = TRUE /\ c[2] = name /\ c \in causes
  OBVIOUS
<1>2. exposed' = exposed \cup {d[2] : d \in {d \in causes : d[1]}}
  BY DEF Flag
<1> HIDE DEF c
<1> QED BY <1>1, <1>2

LEMMA EndBlockU ==
  ASSUME IInv, UInv, NEW s \in Sessions, EndBlock(s)
  PROVE  UInv'
<1> DEFINE t == session[s]
<1>1. t.phase = "end" /\ UNCHANGED <<heap, index, status>>
  BY DEF EndBlock
<1>2. PICK v \in {"committed", "aborted"} :
        /\ v \in IF t.prog.block THEN {"committed", "aborted"} ELSE {"committed"}
        /\ Go(s, [t EXCEPT !.verdict = v, !.phase = IF t.prog.block /\ v = "aborted" THEN "leave" ELSE "unlock"])
        /\ Flag({ <<t.failed /\ v = "committed", "partial">> })
  BY DEF EndBlock
<1> DEFINE p == IF t.prog.block /\ v = "aborted" THEN "leave" ELSE "unlock"
           n == [t EXCEPT !.verdict = v, !.phase = p]
<1>3. session' = [session EXCEPT ![s] = n] /\ exposed \subseteq exposed'
  BY <1>2, FlagGrows DEF Go
<1>4. Session0(t) /\ SessionGood(t)
  BY SessionShape DEF UInv
<1>5. p \in {"leave", "unlock"} /\ (p = "unlock" => ~(t.prog.block /\ v = "aborted"))
  OBVIOUS
<1> HIDE DEF p
<1>6. /\ n.id = t.id /\ n.prog = t.prog /\ n.work = t.work /\ n.task = t.task /\ n.stamped = t.stamped
      /\ n.failed = t.failed /\ n.verdict = v /\ n.phase = p
  BY <1>4 DEF Session0, TxnFields
<1> HIDE DEF n
<1>7. FateOK(n)
  BY <1>4, <1>5, <1>6 DEF SessionGood, FateOK, Closing, DecidesFirst
<1>8. ~Engaged(n) /\ ~Searching(n) /\ ~Checking(n) /\ n.phase \notin {"place", "start", "enter"}
  BY <1>5, <1>6 DEF Engaged, Targeted, Searching, Checking
<1>9. TaskOK(n)
  BY <1>4, <1>5, <1>6, <1>8 DEF SessionGood, TaskOK, Closing
<1>10. OnceOK(n)
  BY <1>4, <1>6, <1>8 DEF SessionGood, OnceOK
<1>11. NewOK(n) /\ EnterOK(n)
  BY <1>8 DEF NewOK, EnterOK
<1>12. Follows(t, n)
  <2>1. ~Checking(t) /\ t.verdict = "none" BY <1>1, <1>4 DEF Checking, SessionGood, FateOK, Closing
  <2> QED BY <2>1, <1>6, <1>8 DEF Follows, Losing, Touching
<1>13. Pure' => Honest(n)
  <2> SUFFICES ASSUME n.failed, v = "committed" PROVE ~Pure'
    BY <1>6 DEF Honest
  <2> DEFINE b == t.failed /\ v = "committed"
  <2>1. b = TRUE BY <1>4, <1>6 DEF SessionGood, FateOK
  <2>2. Flag({<<b, "partial">>}) BY <1>2
  <2> HIDE DEF b
  <2>3. "partial" \in exposed'
    <3> DEFINE cs == {<<b, "partial">>}
    <3>1. <<b, "partial">> \in cs /\ Flag(cs) BY <2>2
    <3> HIDE DEF cs
    <3> QED BY <2>1, <3>1, FlagRaises
  <2> QED BY <2>3 DEF Pure
<1> QED BY <1>1, <1>3, <1>7, <1>9, <1>10, <1>11, <1>12, <1>13, QuietKept DEF SessionGood

\* The end of a transaction goes on.
LEMMA CloseGood ==
  ASSUME NEW t, SessionGood(t), NEW n, Rest(t, n), t.phase \in Closing, n.phase \in Closing
  PROVE  /\ TaskOK(n) /\ OnceOK(n) /\ NewOK(n) /\ Follows(t, n) /\ EnterOK(n) /\ (Honest(t) => Honest(n))
         /\ (n.phase = "done" \/ (n.phase = "unlock" /\ DecidesFirst(n)) => status[n.id] = n.verdict)
              => SessionGood(n)
<1>1. ~Engaged(n) /\ ~Searching(n) /\ ~Checking(n) /\ n.phase \notin {"place", "start", "enter"} /\ ~Checking(t)
  BY DEF Engaged, Targeted, Searching, Checking, Closing
<1>2. TaskOK(n)
  BY <1>1 DEF SessionGood, TaskOK, Rest
<1>3. OnceOK(n)
  BY <1>1 DEF SessionGood, OnceOK, Rest
<1>4. NewOK(n) /\ EnterOK(n)
  BY <1>1 DEF NewOK, EnterOK
<1>5. Follows(t, n)
  BY <1>1 DEF Follows, Losing, Touching, Rest
<1>6. Honest(t) => Honest(n)
  BY DEF Honest, Rest
<1>7. (n.phase = "done" \/ (n.phase = "unlock" /\ DecidesFirst(n)) => status[n.id] = n.verdict)
        => FateOK(n)
  BY DEF SessionGood, FateOK, Rest
<1> QED BY <1>2, <1>3, <1>4, <1>5, <1>6, <1>7 DEF SessionGood

\* Rows and transactions that have ended stay; what is known of a session stays.
LEMMA GoodGrows ==
  ASSUME IInv, UInv, heap' = heap, DOMAIN status \subseteq DOMAIN status',
         \A x \in DOMAIN status : status[x] \in {"aborted", "committed"} => status'[x] = status[x],
         NEW u, WorkOK(u), CandsOK(u)
  PROVE  /\ TaskOK(u) => TaskOK(u)'
         /\ OnceOK(u) => OnceOK(u)'
         /\ NewOK(u) => NewOK(u)'
         /\ EnterOK(u) => EnterOK(u)'
         /\ Honest(u) => Honest(u)'
<1>1. Rids' = Rids
  BY DEF Rids
<1>2. \A i \in Rids : heap[i].xmin \in DOMAIN status /\ heap[i].ctid \in Rids \cup {NoRow}
  BY DEF UInv, RowsOK
<1>3. \A i \in Rids : heap[i].xmax # NoTxn => heap[i].xmax \in DOMAIN status
  <2>1. Len(status) \in Nat /\ DOMAIN status = 1..Len(status) BY Tables DEF IInv
  <2>2. \A i \in Rids : heap[i].xmax \in 0..Len(status) BY DEF IInv, Shape
  <2> QED BY <2>1, <2>2 DEF NoTxn
<1>4. \A i \in Rids : \A x : SeenBy(i, x) => SeenBy(i, x)'
  BY <1>2 DEF SeenBy, Committed
<1>5. ASSUME TaskOK(u) PROVE TaskOK(u)'
  <2>1. \A n \in DOMAIN u.work : SeenBy(u.work[n].rid, u.id)' /\ TouchTask(u.work[n])'
    BY <1>4, <1>5 DEF TaskOK, WorkOK, TouchTask
  <2>2. Engaged(u)' => u.task.rid \in Rids /\ SeenBy(u.task.rid, u.id)' /\ TouchTask(u.task)'
    BY <1>4, <1>5 DEF TaskOK, TouchTask, Engaged, Targeted
  <2>3. (u.phase = "start" \/ Searching(u) => u.work = <<>>)'
    BY <1>5 DEF TaskOK, Searching
  <2> QED BY <1>1, <1>5, <2>1, <2>2, <2>3 DEF TaskOK
<1>6. OnceOK(u) => OnceOK(u)'
  BY DEF OnceOK, Engaged, Targeted
<1>7. NewOK(u) => NewOK(u)'
  BY <1>1 DEF NewOK, Checking
<1>8. EnterOK(u) => EnterOK(u)'
  <2>1. \A i \in Rids : \A x : Ignorable(i, x) => Ignorable(i, x)'
    BY <1>2, <1>3 DEF Ignorable, Committed
  <2>2. \A i \in Rids : Unhot(i) => Unhot(i)'
    BY <1>2 DEF Unhot
  <2> QED BY <2>1, <2>2 DEF EnterOK, CandsOK
<1> QED BY <1>5, <1>6, <1>7, <1>8 DEF Honest

LEMMA UnlockU ==
  ASSUME IInv, UInv, NEW s \in Sessions, Unlock(s)
  PROVE  UInv'
<1> DEFINE t == session[s]
           p == IF DecidesFirst(t) THEN "done" ELSE "leave"
           Next1(r) == IF r = s THEN [t EXCEPT !.phase = p]
                       ELSE IF session[r].phase = "asleep" THEN [session[r] EXCEPT !.phase = "wait"]
                       ELSE session[r]
<1>1. t.phase = "unlock" /\ UNCHANGED <<heap, index, status, exposed>> /\ session' = [r \in Sessions |-> Next1(r)]
  BY DEF Unlock
<1>2. Sessions' = Sessions /\ \A r \in Sessions : session'[r] = Next1(r)
  BY <1>1 DEF Sessions
<1>0. Pure' => Pure
  BY <1>1 DEF Pure
<1>3. ASSUME NEW r \in Sessions
      PROVE  /\ SessionGood(session'[r]) /\ Follows(session[r], session'[r])
             /\ Pure' => EnterOK(session'[r]) /\ Honest(session'[r])
  <2>0. SessionGood(session[r]) /\ DOMAIN session[r] = TxnFields /\ (Pure => EnterOK(session[r]) /\ Honest(session[r]))
    BY SessionShape DEF UInv, Session0
  <2>1. CASE r = s
    <3> DEFINE n == session'[s]
    <3>1. n = [t EXCEPT !.phase = p] BY <1>2
    <3>2. Rest(t, n) /\ n.phase = p
      <4>1. DOMAIN t = TxnFields BY <2>0, <2>1
      <4> HIDE DEF t, n, p
      <4> QED BY <3>1, <4>1, PhaseOnly
    <3>3. p \in Closing /\ t.phase \in Closing BY <1>1 DEF Closing
    <3>4. n.phase = "done" \/ (n.phase = "unlock" /\ DecidesFirst(n)) => status[n.id] = n.verdict
      <4> SUFFICES ASSUME n.phase = "done" \/ (n.phase = "unlock" /\ DecidesFirst(n)) PROVE status[n.id] = n.verdict
        OBVIOUS
      <4>1. DecidesFirst(t) BY <3>2
      <4>2. status[t.id] = t.verdict BY <4>1, <1>1, <2>0, <2>1 DEF SessionGood, FateOK
      <4> QED BY <4>2, <3>2 DEF Rest
    <3> HIDE DEF n, p
    <3> QED BY <3>2, <3>3, <3>4, <2>0, <2>1, <1>0, CloseGood DEF n
  <2>2. CASE r # s /\ session[r].phase = "asleep"
    <3> DEFINE u == session[r]
               n == session'[r]
    <3>1. n = [u EXCEPT !.phase = "wait"] BY <1>2, <2>2
    <3>2. Rest(u, n) /\ n.phase = "wait"
      <4>1. DOMAIN u = TxnFields BY <2>0
      <4> HIDE DEF u, n
      <4> QED BY <3>1, <4>1, PhaseOnly
    <3>3. /\ Engaged(n) => Engaged(u) /\ u.phase # "place"
          /\ n.phase = "place" => u.task.kind = "insert"
          /\ Searching(n) => Searching(u)
          /\ Checking(n) <=> Checking(u)
      BY <3>2, <2>2 DEF Engaged, Targeted, Searching, Checking, Rest
    <3> QED BY <3>2, <3>3, <2>0, <2>2, PhaseGood DEF Closing
  <2>3. CASE r # s /\ session[r].phase # "asleep"
    <3>1. session'[r] = session[r] BY <1>2, <2>3
    <3> QED BY <3>1, <2>0, <1>0 DEF Follows
  <2> QED BY <2>1, <2>2, <2>3
<1>4. \A r \in Sessions : SessionGood(session[r])'
  <2>1. Rids' = Rids BY <1>1 DEF Rids
  <2>2. \A u : (FateOK(u) => FateOK(u)') /\ (TaskOK(u) => TaskOK(u)') /\ (OnceOK(u) => OnceOK(u)') /\ (NewOK(u) => NewOK(u)')
    BY <1>1, <2>1 DEF FateOK, DecidesFirst, TaskOK, OnceOK, NewOK, SeenBy, Committed, TouchTask, Engaged, Targeted, Searching, Checking
  <2> QED BY <1>3, <2>2 DEF SessionGood
<1>5. Pure' => \A r \in Sessions : (EnterOK(session[r]) /\ Honest(session[r]))'
  <2>1. \A u : (EnterOK(u) => EnterOK(u)') /\ (Honest(u) => Honest(u)')
    BY <1>1 DEF EnterOK, Honest, Ignorable, Unhot, Committed
  <2> QED BY <1>3, <2>1
<1>6. \A x \in DOMAIN status' : status'[x] \in Outcomes
  BY <1>1 DEF UInv, RowsOK
<1> QED BY <1>1, <1>2, <1>3, <1>4, <1>5, <1>6, StillKept

\* One session goes on to n and its transaction may end.
LEMMA EndingKept ==
  ASSUME IInv, UInv, NEW s \in Sessions, NEW n, NEW v \in Outcomes,
         heap' = heap, index' = index, exposed' = exposed,
         session[s].phase # "start", status[session[s].id] \notin {"aborted", "committed"},
         status' = [status EXCEPT ![session[s].id] = v],
         session' = [session EXCEPT ![s] = n],
         Rest(session[s], n), session[s].phase \in Closing, n.phase \in Closing,
         n.phase = "done" \/ (n.phase = "unlock" /\ DecidesFirst(n)) => v = n.verdict
  PROVE  UInv'
<1> DEFINE t == session[s]
<1>1. Sessions' = Sessions /\ session'[s] = n /\ \A r \in Sessions \ {s} : session'[r] = session[r]
  BY DEF Sessions
<1>2. t.id \in DOMAIN status /\ \A r \in Sessions \ {s} : session[r].id # t.id
  BY OwnId
<1>3. DOMAIN status' = DOMAIN status /\ status'[t.id] = v /\ \A x : x # t.id => status'[x] = status[x]
  BY <1>2
<1>4. \A x \in DOMAIN status : status[x] \in {"aborted", "committed"} => status'[x] = status[x]
  BY <1>3
<1>5. \A r \in Sessions : SessionGood(session[r]) /\ WorkOK(session[r]) /\ CandsOK(session[r])
  BY SessionShape DEF UInv, SessionOK
<1>6. WorkOK(n) /\ CandsOK(n)
  BY <1>5 DEF Rest, WorkOK, CandsOK
<1>7. TaskOK(n) /\ OnceOK(n) /\ NewOK(n) /\ Follows(t, n) /\ EnterOK(n) /\ (Honest(t) => Honest(n))
  BY <1>5, CloseGood
<1>8. ASSUME NEW r \in Sessions
      PROVE  /\ WorkOK(session'[r]) /\ CandsOK(session'[r]) /\ TaskOK(session'[r]) /\ OnceOK(session'[r]) /\ NewOK(session'[r])
             /\ Follows(session[r], session'[r])
             /\ Pure' => EnterOK(session'[r]) /\ Honest(session'[r])
  <2>0. Pure' => Pure BY DEF Pure
  <2>1. CASE r = s BY <2>0, <2>1, <1>1, <1>6, <1>7 DEF UInv
  <2>2. CASE r # s BY <2>0, <2>2, <1>1, <1>5 DEF UInv, SessionGood, Follows
  <2> QED BY <2>1, <2>2
<1>9. ASSUME NEW r \in Sessions PROVE FateOK(session[r])'
  <2>1. CASE r = s
    <3>1. FateOK(t) BY <1>5 DEF SessionGood
    <3>2. t.verdict \in {"committed", "aborted"} /\ t.failed \in BOOLEAN BY <3>1 DEF FateOK
    <3>3. n.failed \in BOOLEAN /\ n.verdict \in {"committed", "aborted"} /\ n.id = t.id BY <3>2 DEF Rest
    <3>4. n.phase = "done" \/ (n.phase = "unlock" /\ DecidesFirst(n)) => status'[n.id] = n.verdict
      BY <3>3, <1>3
    <3>5. session'[r] = n BY <2>1, <1>1
    <3> QED BY <3>3, <3>4, <3>5 DEF FateOK, DecidesFirst
  <2>2. CASE r # s
    <3>1. FateOK(session[r]) /\ session'[r] = session[r] /\ session[r].id # t.id BY <2>2, <1>1, <1>2, <1>5 DEF SessionGood
    <3>2. status'[session[r].id] = status[session[r].id] BY <3>1, <1>3
    <3> QED BY <3>1, <3>2 DEF FateOK, DecidesFirst
  <2> QED BY <2>1, <2>2
<1>10. ASSUME NEW r \in Sessions
       PROVE  /\ (TaskOK(session[r]) /\ OnceOK(session[r]) /\ NewOK(session[r]))'
              /\ Pure' => (EnterOK(session[r]) /\ Honest(session[r]))'
  <2> DEFINE u == session'[r]
  <2>1. /\ WorkOK(u) /\ CandsOK(u) /\ TaskOK(u) /\ OnceOK(u) /\ NewOK(u)
        /\ Pure' => EnterOK(u) /\ Honest(u)
    BY <1>8
  <2>2. /\ \A w : WorkOK(w) /\ CandsOK(w) =>
             /\ TaskOK(w) => TaskOK(w)'
             /\ OnceOK(w) => OnceOK(w)'
             /\ NewOK(w) => NewOK(w)'
             /\ EnterOK(w) => EnterOK(w)'
             /\ Honest(w) => Honest(w)'
    BY <1>3, <1>4, GoodGrows
  <2> QED BY <2>1, <2>2
<1>11. \A x \in DOMAIN status' : status'[x] \in Outcomes
  BY <1>3 DEF UInv, RowsOK
<1> QED BY <1>1, <1>3, <1>4, <1>8, <1>9, <1>10, <1>11, StillKept DEF SessionGood

LEMMA LeaveU ==
  ASSUME IInv, UInv, NEW s \in Sessions, Leave(s)
  PROVE  UInv'
<1> DEFINE t == session[s]
           n == [t EXCEPT !.phase = "decide"]
<1>1. /\ t.phase = "leave" /\ session' = [session EXCEPT ![s] = n]
      /\ status' = [status EXCEPT ![t.id] = "leaving"] /\ UNCHANGED <<heap, index, exposed>>
  BY DEF Leave, To, Me, Sessions
<1>2. DOMAIN t = TxnFields
  BY SessionShape DEF Session0
<1>3. Rest(t, n) /\ n.phase = "decide"
  <2> HIDE DEF t
  <2> QED BY <1>2, PhaseOnly
<1>4. status[t.id] = "running"
  BY <1>1 DEF IInv, Ending, Undecided
<1> HIDE DEF n
<1>5. n.phase \in Closing /\ t.phase \in Closing
  BY <1>1, <1>3 DEF Closing
<1> QED BY <1>1, <1>3, <1>4, <1>5, EndingKept DEF Outcomes

LEMMA DecideU ==
  ASSUME IInv, UInv, NEW s \in Sessions, Decide(s)
  PROVE  UInv'
<1> DEFINE t == session[s]
           p == IF DecidesFirst(t) THEN "unlock" ELSE "done"
           n == [t EXCEPT !.phase = p]
<1>1. /\ t.phase = "decide" /\ session' = [session EXCEPT ![s] = n]
      /\ status' = [status EXCEPT ![t.id] = t.verdict] /\ UNCHANGED <<heap, index, exposed>>
  BY DEF Decide, To, Me, Sessions
<1>2. DOMAIN t = TxnFields
  BY SessionShape DEF Session0
<1>3. Rest(t, n) /\ n.phase = p
  <2> HIDE DEF t, p
  <2> QED BY <1>2, PhaseOnly
<1>4. status[t.id] = "leaving"
  BY <1>1 DEF IInv, Ending
<1> HIDE DEF n
<1>5. n.phase \in Closing /\ t.phase \in Closing
  BY <1>1, <1>3 DEF Closing
<1>6. t.verdict = n.verdict
  BY <1>3 DEF Rest
<1> HIDE DEF p
<1>7. t.verdict \in Outcomes
  BY <1>1 DEF IInv, Ending, Outcomes
<1> QED BY <1>1, <1>3, <1>4, <1>5, <1>6, <1>7, EndingKept

-----------------------------------------------------------------------------
(* Statements begin and find their rows.                                   *)

\* The rows a scan returns are visible, and none of them comes twice.
LEMMA MatchingSeen ==
  ASSUME IInv, UInv, NEW tab, NEW key, NEW me, NEW snap
  PROVE  LET rows == Matching(tab, key, me, snap) IN
         /\ SeqIn(rows, Rids)
         /\ \A n \in DOMAIN rows :
              /\ heap[rows[n]].tab = tab /\ heap[rows[n]].key = key
              /\ SeenBy(rows[n], me)
              /\ me # NoTxn => heap[rows[n]].xmax # me
         /\ \A m, n \in DOMAIN rows : rows[m] = rows[n] => m = n
<1> DEFINE q == [i \in Rids |-> i]
           T == {i \in Rids : heap[i].tab = tab /\ heap[i].key = key /\ IsVisible(heap[i], me, snap)}
           rows == Matching(tab, key, me, snap)
<1>1. Len(heap) \in Nat /\ Rids = 1..Len(heap)
  BY Tables DEF IInv
<1>2. q = [i \in 1..Len(heap) |-> i] /\ rows = Among(q, T)
  BY <1>1 DEF Matching
<1>3. SeqIn(q, Rids)
  <2>1. q = [i \in 1..Len(heap) |-> q[i]] BY <1>1
  <2>2. IsSeq(q) /\ DOMAIN q = 1..Len(heap)
    <3> HIDE DEF q
    <3> QED BY <1>1, <2>1, FunctionIsSeq
  <2> QED BY <2>2, <1>1 DEF SeqIn
<1>4. \A i \in T : /\ i \in Rids /\ heap[i].tab = tab /\ heap[i].key = key /\ SeenBy(i, me)
                   /\ me # NoTxn => heap[i].xmax # me
  <2> SUFFICES ASSUME NEW i \in T PROVE SeenBy(i, me) /\ (me # NoTxn => heap[i].xmax # me)
    OBVIOUS
  <2>1. i \in Rids /\ IsVisible(heap[i], me, snap) OBVIOUS
  <2>2. Sees(me, snap, heap[i].xmin) /\ ~(heap[i].xmax # NoTxn /\ Sees(me, snap, heap[i].xmax))
    BY <2>1 DEF IsVisible
  <2>3. heap[i].xmin # NoTxn
    <3>1. heap[i].xmin \in DOMAIN status BY <2>1 DEF UInv, RowsOK
    <3>2. Len(status) \in Nat /\ DOMAIN status = 1..Len(status) BY Tables DEF IInv
    <3> QED BY <3>1, <3>2 DEF NoTxn
  <2>4. SeenBy(i, me) BY <2>2, <2>3 DEF Sees, SeenBy, Committed, Status
  <2>5. me # NoTxn => heap[i].xmax # me BY <2>2 DEF Sees
  <2> QED BY <2>4, <2>5
<1>5. \A a, b \in DOMAIN rows : rows[a] = rows[b] => a = b
  <2> HIDE DEF q, T, rows
  <2> QED BY <1>1, <1>2, AmongOnce
<1>6. SeqIn(rows, Rids \cap T)
  <2> HIDE DEF q, T, rows
  <2> QED BY <1>2, <1>3, AmongIn
<1> HIDE DEF rows, T
<1>7. SeqIn(rows, Rids) /\ \A n \in DOMAIN rows : rows[n] \in T
  BY <1>6 DEF SeqIn
<1> QED BY <1>4, <1>5, <1>7 DEF rows

\* A statement begins.
LEMMA LaunchGood ==
  ASSUME NEW t, Session0(t), t.verdict = "none", t.failed = FALSE, t.work = <<>>, t.prog.stmts \in Seq(Statement)
  PROVE  LET n == Launch(t) IN
         /\ SessionGood(n) /\ EnterOK(n) /\ Honest(n)
         /\ n.id = t.id /\ ~Touching(n) /\ ~Checking(n) /\ ~Losing(n)
         /\ n.phase \notin Closing /\ n.phase # "start"
         /\ n.work = t.work /\ n.cands = t.cands
<1> DEFINE n == Launch(t)
           st == Head(t.prog.stmts)
           row == [kind |-> "insert", rid |-> NoRow, tab |-> st.tab, key |-> st.key]
<1>1. /\ n.id = t.id /\ n.verdict = "none" /\ n.failed = FALSE /\ n.work = <<>> /\ n.prog = t.prog /\ n.cands = t.cands
      /\ n.phase # "end" => t.prog.stmts # <<>>
      /\ \/ n.phase \in {"end", "scan"}
         \/ n.phase = "lookup" /\ n.detect = TRUE
         \/ n.phase = "fk" /\ n.task.kind = "insert"
  <2>1. CASE t.prog.stmts = <<>>
    <3>1. n = [t EXCEPT !.phase = "end"] BY <2>1 DEF Launch
    <3> QED BY <3>1 DEF Session0, TxnFields
  <2>2. CASE t.prog.stmts # <<>> /\ st.op # "insert"
    <3>1. n = [t EXCEPT !.phase = "scan", !.attempt = 0] BY <2>2 DEF Launch
    <3> QED BY <2>2, <3>1 DEF Session0, TxnFields
  <2>3. CASE t.prog.stmts # <<>> /\ ~(st.op # "insert")
    <3> DEFINE b == Seeks(st)
    <3>1. n = [t EXCEPT !.task = row, !.new = NoRow, !.detect = b, !.phase = IF b THEN "lookup" ELSE "fk"]
      BY <2>3, Zenon DEF Launch
    <3>2. row.kind = "insert" OBVIOUS
    <3>3. b \in BOOLEAN BY DEF Seeks
    <3> HIDE DEF row, b
    <3>4. CASE b = TRUE
      <4>1. n = [t EXCEPT !.task = row, !.new = NoRow, !.detect = TRUE, !.phase = "lookup"] BY <3>1, <3>4
      <4> QED BY <2>3, <4>1 DEF Session0, TxnFields
    <3>5. CASE b = FALSE
      <4>1. n = [t EXCEPT !.task = row, !.new = NoRow, !.detect = FALSE, !.phase = "fk"] BY <3>1, <3>5
      <4> QED BY <2>3, <4>1, <3>2 DEF Session0, TxnFields
    <3> QED BY <3>3, <3>4, <3>5
  <2> QED BY <2>1, <2>2, <2>3
<1> HIDE DEF n, row, st
<1>2. ~Engaged(n) /\ ~Checking(n) /\ n.phase \notin {"place", "start", "enter"} /\ n.phase \notin Closing
  BY <1>1 DEF Engaged, Targeted, Checking, Closing
<1>3. FateOK(n)
  BY <1>1, <1>2 DEF FateOK, Closing
<1>4. DOMAIN n.work = {}
  BY <1>1
<1>5. TaskOK(n)
  BY <1>1, <1>2, <1>4 DEF TaskOK
<1>6. OnceOK(n)
  BY <1>2, <1>4 DEF OnceOK
<1>7. NewOK(n) /\ EnterOK(n) /\ Honest(n) /\ ~Losing(n) /\ ~Touching(n)
  BY <1>1, <1>2 DEF NewOK, EnterOK, Honest, Losing, Touching
<1> QED BY <1>1, <1>2, <1>3, <1>5, <1>6, <1>7 DEF SessionGood, n

LEMMA StartU ==
  ASSUME IInv, UInv, NEW s \in Sessions, Start(s)
  PROVE  UInv'
<1> DEFINE t == session[s]
           N == Len(status) + 1
           snap == [xmax |-> N + 1, active |-> TakenSnapshot(0).active \cup {N}]
           u == [t EXCEPT !.id = N, !.snap = snap]
           n == Launch(u)
<1>a. /\ t.phase = "start" /\ status' = Append(status, "running")
      /\ session' = [session EXCEPT ![s] = n]
      /\ UNCHANGED <<heap, index, exposed>>
  BY DEF Start, Go, NextTxnId
<1>b. Session0(t) /\ SessionGood(t)
  BY SessionShape DEF UInv
<1>u. /\ Session0(u) /\ u.verdict = "none" /\ u.failed = FALSE /\ u.work = <<>> /\ u.prog.stmts \in Seq(Statement)
  <2> HIDE DEF N, snap
  <2>1. /\ DOMAIN u = TxnFields /\ u.prog = t.prog /\ u.task = t.task /\ u.work = t.work /\ u.cands = t.cands
        /\ u.verdict = t.verdict /\ u.failed = t.failed
    BY <1>b DEF Session0, TxnFields
  <2>2. t.verdict = "none" /\ t.failed = FALSE /\ t.work = <<>> /\ t.prog.stmts \in Seq(Statement)
    BY <1>a, <1>b DEF SessionGood, FateOK, TaskOK, Closing
  <2> HIDE DEF u
  <2>3. WorkOK(u) /\ CandsOK(u) BY <1>b, <2>1 DEF Session0, WorkOK, CandsOK
  <2> QED BY <1>b, <2>1, <2>2, <2>3 DEF Session0
<1> HIDE DEF u
<1>n. /\ SessionGood(n) /\ EnterOK(n) /\ Honest(n)
      /\ ~Touching(n) /\ ~Checking(n) /\ ~Losing(n)
      /\ n.phase \notin Closing /\ n.phase # "start"
      /\ WorkOK(n) /\ CandsOK(n)
  <2>1. /\ SessionGood(n) /\ EnterOK(n) /\ Honest(n)
        /\ ~Touching(n) /\ ~Checking(n) /\ ~Losing(n)
        /\ n.phase \notin Closing /\ n.phase # "start"
        /\ n.work = u.work /\ n.cands = u.cands
    BY <1>u, LaunchGood
  <2> QED BY <2>1, <1>u DEF Session0, WorkOK, CandsOK
<1> HIDE DEF n
<1>c. Sessions' = Sessions /\ session'[s] = n /\ \A r \in Sessions \ {s} : session'[r] = session[r]
  BY <1>a DEF Sessions
<1>d. DOMAIN status \subseteq DOMAIN status' /\ \A x \in DOMAIN status : status'[x] = status[x]
  <2>1. IsSeq(status) BY DEF IInv, Shape
  <2>2. OneMore(status, "running", status') BY <1>a, <2>1, AppendOne
  <2> QED BY <2>2 DEF OneMore
<1>e. Pure' => Pure
  BY <1>a DEF Pure
<1>1. ASSUME NEW r \in Sessions
      PROVE  /\ WorkOK(session'[r]) /\ CandsOK(session'[r]) /\ SessionGood(session'[r])
             /\ Follows(session[r], session'[r])
             /\ Pure' => EnterOK(session'[r]) /\ Honest(session'[r])
  <2>1. CASE r = s
    <3>1. ~Losing(t) /\ ~Checking(t)
      BY <1>a, <1>b DEF SessionGood, FateOK, Closing, Losing, Checking
    <3>2. Follows(t, n) BY <3>1, <1>n DEF Follows
    <3> QED BY <2>1, <3>2, <1>c, <1>n
  <2>2. CASE r # s
    <3>1. WorkOK(session[r]) /\ CandsOK(session[r]) BY SessionShape DEF SessionOK
    <3> QED BY <2>2, <3>1, <1>c, <1>e DEF UInv, Follows
  <2> QED BY <2>1, <2>2
<1>2. ASSUME NEW r \in Sessions PROVE FateOK(session[r])'
  <2>1. FateOK(session'[r]) BY <1>1 DEF SessionGood
  <2>2. session'[r].phase \in {"done", "unlock"} => status'[session'[r].id] = status[session'[r].id]
    <3>1. CASE r = s BY <3>1, <1>c, <1>n DEF Closing
    <3>2. CASE r # s
      <4>1. session'[r] = session[r] BY <3>2, <1>c
      <4>2. session[r].phase # "start" => session[r].id \in DOMAIN status BY OwnId
      <4> QED BY <4>1, <4>2, <1>d
    <3> QED BY <3>1, <3>2
  <2> QED BY <2>1, <2>2 DEF FateOK, DecidesFirst
<1>3. ASSUME NEW r \in Sessions
      PROVE  /\ (TaskOK(session[r]) /\ OnceOK(session[r]) /\ NewOK(session[r]))'
             /\ Pure' => (EnterOK(session[r]) /\ Honest(session[r]))'
  <2> DEFINE w == session'[r]
  <2>1. /\ WorkOK(w) /\ CandsOK(w) /\ TaskOK(w) /\ OnceOK(w) /\ NewOK(w)
        /\ Pure' => EnterOK(w) /\ Honest(w)
    BY <1>1 DEF SessionGood
  <2>2. /\ \A v : WorkOK(v) /\ CandsOK(v) =>
             /\ TaskOK(v) => TaskOK(v)'
             /\ OnceOK(v) => OnceOK(v)'
             /\ NewOK(v) => NewOK(v)'
             /\ EnterOK(v) => EnterOK(v)'
             /\ Honest(v) => Honest(v)'
    BY <1>a, <1>d, GoodGrows
  <2> QED BY <2>1, <2>2
<1>f. \A x \in DOMAIN status' : status'[x] \in Outcomes
  <2>1. IsSeq(status) BY DEF IInv, Shape
  <2>2. OneMore(status, "running", status') BY <1>a, <2>1, AppendOne
  <2>3. \A x \in DOMAIN status : status[x] \in Outcomes BY DEF UInv, RowsOK
  <2> QED BY <2>2, <2>3, SeqFacts, <2>1 DEF OneMore, Outcomes
<1> QED BY <1>a, <1>c, <1>d, <1>f, <1>1, <1>2, <1>3, StillKept DEF SessionGood

LEMMA ScanU ==
  ASSUME IInv, UInv, NEW s \in Sessions, Scan(s)
  PROVE  UInv'
<1> DEFINE t == session[s]
           snap == TakenSnapshot(NextTxnId)
           st   == Stmt(s)
           rows == Matching(st.tab, st.key, Me(s), snap)
           w    == [i \in DOMAIN rows |-> [kind |-> st.op, rid |-> rows[i], tab |-> st.tab, key |-> st.to]]
           n    == [t EXCEPT !.phase = "next", !.snap = snap, !.attempt = @ + 1, !.work = w]
<1>1. /\ t.phase = "scan" /\ UNCHANGED <<heap, index, status>> /\ exposed \subseteq exposed'
      /\ Fail(s) \/ session' = [session EXCEPT ![s] = n]
  BY DEF Scan, Go
<1>3. CASE Fail(s)
  BY <1>1, <1>3, FailU DEF Closing
<1>4. CASE session' = [session EXCEPT ![s] = n]
  <2>1. Session0(t) /\ SessionGood(t) BY SessionShape DEF UInv
  <2>2. t.id # NoTxn /\ Me(s) = t.id BY <1>1, OwnId DEF Me
  <2>3. /\ \A k \in DOMAIN rows : /\ heap[rows[k]].tab = st.tab /\ heap[rows[k]].key = st.key
                                  /\ SeenBy(rows[k], t.id) /\ heap[rows[k]].xmax # t.id
        /\ \A k, m \in DOMAIN rows : rows[k] = rows[m] => k = m
    BY <2>2, MatchingSeen
  <2>4. st.op = "touch" => st.tab = "parent" /\ st.to = st.key
    <3>1. t.prog.stmts \in Seq(Statement) BY <2>1 DEF SessionGood, TaskOK
    <3>2. t.prog.stmts # <<>> BY <1>1, <2>1 DEF SessionGood, TaskOK, Closing
    <3>3. Head(t.prog.stmts) \in Statement BY <3>1, <3>2
    <3> QED BY <3>3 DEF Statement, Stmt
  <2>5. DOMAIN w = DOMAIN rows /\ \A k \in DOMAIN rows :
          w[k].kind = st.op /\ w[k].rid = rows[k] /\ w[k].tab = st.tab /\ w[k].key = st.to
    OBVIOUS
  <2> HIDE DEF w, snap, rows
  <2>n. /\ n.phase = "next" /\ n.id = t.id /\ n.stamped = t.stamped /\ n.prog = t.prog
        /\ n.work = w /\ n.verdict = t.verdict /\ n.failed = t.failed
    BY <2>1 DEF Session0, TxnFields
  <2> HIDE DEF n, t, st
  <2>6. ~Engaged(n) /\ ~Checking(n) /\ ~Searching(n) /\ ~Touching(n) BY <2>n DEF Engaged, Targeted, Checking, Searching, Touching
  <2>7. FateOK(n) BY <1>1, <2>1, <2>n DEF SessionGood, FateOK, Closing
  <2>8. TaskOK(n)
    <3>1. \A k \in DOMAIN w : SeenBy(w[k].rid, n.id) /\ TouchTask(w[k])
      BY <2>3, <2>4, <2>5, <2>n DEF TouchTask
    <3> QED BY <1>1, <2>1, <2>6, <2>n, <3>1 DEF SessionGood, TaskOK, Closing
  <2>9. OnceOK(n) BY <2>3, <2>5, <2>6, <2>n DEF OnceOK
  <2>10. NewOK(n) /\ EnterOK(n) /\ Honest(n) BY <2>6, <2>7, <2>n DEF NewOK, EnterOK, Honest, FateOK, Closing
  <2>11. Follows(t, n)
    <3>1. ~Checking(t) BY <1>1 DEF Checking
    <3> QED BY <3>1, <2>6, <2>n DEF Follows, Losing
  <2>12. SessionGood(n) BY <2>7, <2>8, <2>9, <2>10 DEF SessionGood
  <2> QED BY <1>1, <1>4, <2>10, <2>11, <2>12, QuietKept DEF t
<1> QED BY <1>1, <1>3, <1>4

\* What is left of the work is work.
LEMMA TailOf ==
  ASSUME NEW w, IsSeq(w), w # <<>>
  PROVE  /\ 1 \in DOMAIN w /\ Head(w) = w[1]
         /\ \A n \in DOMAIN Tail(w) : n + 1 \in DOMAIN w /\ n + 1 # 1 /\ n \in Nat /\ Tail(w)[n] = w[n + 1]
<1> DEFINE S == {w[n] : n \in DOMAIN w}
<1>1. w \in Seq(S)
  BY DEF IsSeq
<1> HIDE DEF S
<1>2. Len(w) \in Nat /\ DOMAIN w = 1..Len(w) /\ Len(w) # 0
  BY <1>1, LenProperties, EmptySeq
<1>3. Tail(w) \in Seq(S) /\ Len(Tail(w)) = Len(w) - 1 /\ \A i \in 1..Len(Tail(w)) : Tail(w)[i] = w[i + 1]
  BY <1>1, HeadTailProperties
<1>4. DOMAIN Tail(w) = 1..(Len(w) - 1)
  BY <1>3, LenProperties
<1>5. Head(w) = w[1]
  BY <1>1
<1> QED BY <1>2, <1>3, <1>4, <1>5

\* The tasks of several sequences.
LEMMA ConcatElements ==
  ASSUME NEW a, IsSeq(a), NEW e, NEW b, IsSeq(b), NEW w, w = a \o <<e>> \o b
  PROVE  \A n \in DOMAIN w : \/ w[n] = e \/ (\E m \in DOMAIN a : w[n] = a[m]) \/ (\E m \in DOMAIN b : w[n] = b[m])
<1> DEFINE S == {a[n] : n \in DOMAIN a} \cup {e} \cup {b[n] : n \in DOMAIN b}
<1>1. SeqIn(a, S) /\ SeqIn(b, S)
  BY DEF SeqIn
<1>2. \A x \in S : \/ x = e \/ (\E m \in DOMAIN a : x = a[m]) \/ (\E m \in DOMAIN b : x = b[m])
  OBVIOUS
<1>3. e \in S
  OBVIOUS
<1> HIDE DEF S
<1>4. <<e>> \in Seq(S)
  BY <1>3
<1>5. a \o <<e>> \in Seq(S)
  BY <1>1, <1>4, SeqInIsSeq, ConcatOf
<1>6. w \in Seq(S)
  BY <1>1, <1>5, SeqInIsSeq, ConcatOf
<1>7. SeqIn(w, S)
  BY <1>6, SeqInIsSeq
<1> QED BY <1>2, <1>7 DEF SeqIn

LEMMA NextTaskU ==
  ASSUME IInv, UInv, NEW s \in Sessions, NextTask(s)
  PROVE  UInv'
<1> DEFINE t == session[s]
<1>1. /\ t.phase = "next" /\ UNCHANGED <<heap, index, status>>
  BY DEF NextTask
<1>2. exposed \subseteq exposed'
  BY FlagGrows DEF NextTask
<1>3. Session0(t) /\ SessionGood(t) /\ IsSeq(t.work)
  BY SessionShape DEF UInv, Session0, WorkOK
<1>f. t.verdict = "none" /\ t.failed = FALSE /\ t.prog.stmts \in Seq(Statement) /\ t.prog.stmts # <<>>
  BY <1>1, <1>3 DEF SessionGood, FateOK, TaskOK, Closing
<1>c. ~Checking(t)
  BY <1>1 DEF Checking
<1>4. CASE t.work = <<>>
  <2> DEFINE u == [t EXCEPT !.prog.stmts = Tail(@), !.task = NoTask]
  <2>1. session' = [session EXCEPT ![s] = Launch(u)] BY <1>4 DEF NextTask, Go
  <2>2. /\ DOMAIN u = TxnFields /\ u.id = t.id /\ u.stamped = t.stamped /\ u.task = NoTask
        /\ u.work = t.work /\ u.cands = t.cands /\ u.verdict = t.verdict /\ u.failed = t.failed
        /\ DOMAIN u.prog = {"block", "ext", "stmts"} /\ u.prog.block = t.prog.block
        /\ u.prog.stmts = Tail(t.prog.stmts)
    BY <1>3 DEF Session0, TxnFields
  <2>3. DOMAIN NoTask = TaskFields BY DEF NoTask, TaskFields
  <2>4. Tail(t.prog.stmts) \in Seq(Statement) BY <1>f
  <2> HIDE DEF u, t
  <2>5. Session0(u) BY <1>3, <2>2, <2>3 DEF Session0, WorkOK, CandsOK
  <2>6. /\ SessionGood(Launch(u)) /\ EnterOK(Launch(u)) /\ Honest(Launch(u)) /\ Launch(u).id = u.id
        /\ ~Touching(Launch(u)) /\ ~Checking(Launch(u))
    BY <1>4, <1>f, <2>2, <2>4, <2>5, LaunchGood
  <2>7. Follows(t, Launch(u)) BY <1>c, <1>f, <2>6 DEF Follows, Losing
  <2> QED BY <1>1, <1>2, <2>1, <2>6, <2>7, QuietKept DEF t
<1>5. CASE t.work # <<>>
  <2> DEFINE task == Head(t.work)
             rest == Tail(t.work)
             c == Cascade(s, task.rid)
             v == [task EXCEPT !.kind = "victim"]
             w == c \o <<v>> \o rest
             a == [t EXCEPT !.work = w]
             b == [t EXCEPT !.phase = "lock", !.task = task, !.work = rest]
  <2>1. \/ Fail(s) \/ (task.kind = "delete" /\ session' = [session EXCEPT ![s] = a])
        \/ session' = [session EXCEPT ![s] = b]
    BY <1>5 DEF NextTask, Go
  <2>2. TasksOK(t.work) BY <1>3 DEF Session0, WorkOK, TasksOK
  <2>3. TasksOK(rest) /\ DOMAIN task = TaskFields /\ task.rid \in Rids BY <1>5, <2>2, TasksTail
  <2>t. /\ 1 \in DOMAIN t.work /\ task = t.work[1]
        /\ \A n \in DOMAIN rest : n + 1 \in DOMAIN t.work /\ n + 1 # 1 /\ n \in Nat /\ rest[n] = t.work[n + 1]
    BY <1>3, <1>5, TailOf
  <2>w. \A n \in DOMAIN t.work : SeenBy(t.work[n].rid, t.id) /\ TouchTask(t.work[n])
    BY <1>3 DEF SessionGood, TaskOK
  <2>o. \A m \in DOMAIN t.work : t.work[m].kind = "touch" =>
          /\ heap[t.work[m].rid].xmax # t.id
          /\ \A n \in DOMAIN t.work : t.work[n].kind = "touch" /\ (t.work[n].rid = t.work[m].rid => n = m)
    BY <1>3 DEF SessionGood, OnceOK
  <2>4. CASE Fail(s) BY <1>1, <1>2, <2>4, FailU DEF Closing
  <2>5. CASE task.kind = "delete" /\ session' = [session EXCEPT ![s] = a]
    <3>0. \A m \in DOMAIN t.work : t.work[m].kind # "touch" BY <2>5, <2>t, <2>o
    <3>1. IsSeq(c) /\ \A m \in DOMAIN c : c[m].kind # "touch" /\ SeenBy(c[m].rid, t.id)
      <4> DEFINE rows == Children(s, task.rid)
                 kind == IF onDelete = "CASCADE" THEN "cascade" ELSE "setnull"
      <4>1. SeqIn(rows, Rids) /\ \A m \in DOMAIN rows : SeenBy(rows[m], t.id) BY MatchingSeen DEF Children, Me
      <4>2. c = [n \in DOMAIN rows |-> [kind |-> kind, rid |-> rows[n], tab |-> "child", key |-> Null]]
        BY DEF Cascade
      <4>3. kind # "touch" OBVIOUS
      <4> HIDE DEF rows, kind, c
      <4>4. DOMAIN c = DOMAIN rows /\ \A m \in DOMAIN rows : c[m].kind = kind /\ c[m].rid = rows[m] BY <4>2
      <4>5. IsSeq(c)
        <5> DEFINE tab == "child" key == Null
        <5>1. c = [n \in DOMAIN rows |-> [kind |-> kind, rid |-> rows[n], tab |-> tab, key |-> key]] BY <4>2
        <5> HIDE DEF tab, key
        <5> QED BY <4>1, <5>1, TasksOf
      <4> QED BY <4>1, <4>3, <4>4, <4>5
    <3>2. v.kind = "victim" /\ v.rid = task.rid BY <2>3 DEF TaskFields
    <3>3. IsSeq(rest) BY <2>3 DEF TasksOK
    <3> HIDE DEF v, c, task, rest
    <3>4. \A n \in DOMAIN w : \/ w[n] = v \/ (\E m \in DOMAIN c : w[n] = c[m]) \/ (\E m \in DOMAIN rest : w[n] = rest[m])
      <4> DEFINE w0 == w
      <4>1. w0 = c \o <<v>> \o rest OBVIOUS
      <4> HIDE DEF w0
      <4>2. \A n \in DOMAIN w0 : \/ w0[n] = v \/ (\E m \in DOMAIN c : w0[n] = c[m]) \/ (\E m \in DOMAIN rest : w0[n] = rest[m])
        BY <3>1, <3>3, <4>1, ConcatElements
      <4> QED BY <4>2 DEF w0
    <3> HIDE DEF w
    <3>5. /\ a.phase = "next" /\ a.id = t.id /\ a.stamped = t.stamped /\ a.prog = t.prog
          /\ a.task = t.task /\ a.work = w /\ a.verdict = t.verdict /\ a.failed = t.failed
      BY <1>1, <1>3 DEF Session0, TxnFields
    <3>6. \A n \in DOMAIN w : w[n].kind # "touch" /\ SeenBy(w[n].rid, t.id)
      BY <3>0, <3>1, <3>2, <3>4, <2>t, <2>w
    <3> HIDE DEF a, t
    <3>7. ~Engaged(a) /\ ~Checking(a) /\ ~Searching(a) /\ ~Touching(a)
      BY <3>5 DEF Engaged, Targeted, Checking, Searching, Touching
    <3>8. FateOK(a) BY <1>f, <3>5 DEF FateOK, Closing
    <3>9. TaskOK(a) BY <1>f, <3>5, <3>6, <3>7 DEF TaskOK, TouchTask
    <3>10. OnceOK(a) BY <3>5, <3>6, <3>7 DEF OnceOK
    <3>11. NewOK(a) /\ EnterOK(a) /\ Honest(a) BY <1>f, <3>5, <3>7 DEF NewOK, EnterOK, Honest
    <3>12. Follows(t, a) BY <1>c, <3>5, <3>7 DEF Follows, Losing
    <3> QED BY <1>1, <1>2, <2>5, <3>8, <3>9, <3>10, <3>11, <3>12, QuietKept DEF SessionGood, t
  <2>6. CASE session' = [session EXCEPT ![s] = b]
    <3> HIDE DEF task, rest
    <3>5. /\ b.phase = "lock" /\ b.id = t.id /\ b.stamped = t.stamped /\ b.prog = t.prog
          /\ b.task = task /\ b.work = rest /\ b.verdict = t.verdict /\ b.failed = t.failed
      BY <1>3 DEF Session0, TxnFields
    <3> HIDE DEF b, t
    <3>7. ~Checking(b) /\ ~Searching(b) /\ ~Touching(b)
      BY <3>5 DEF Checking, Searching, Touching
    <3>8. FateOK(b) BY <1>f, <3>5 DEF FateOK, Closing
    <3>9. TaskOK(b)
      <4>1. \A n \in DOMAIN rest : SeenBy(rest[n].rid, t.id) /\ TouchTask(rest[n]) BY <2>t, <2>w
      <4>2. SeenBy(task.rid, t.id) /\ TouchTask(task) BY <2>t, <2>w
      <4> QED BY <1>f, <2>3, <3>5, <3>7, <4>1, <4>2 DEF TaskOK
    <3>10. OnceOK(b)
      <4>1. ASSUME NEW m \in DOMAIN rest, rest[m].kind = "touch"
            PROVE  /\ heap[rest[m].rid].xmax # t.id
                   /\ \A n \in DOMAIN rest : rest[n].kind = "touch" /\ (rest[n].rid = rest[m].rid => n = m)
                   /\ task.kind = "touch" /\ task.rid # rest[m].rid
        <5>1. m + 1 \in DOMAIN t.work /\ m + 1 # 1 /\ rest[m] = t.work[m + 1] /\ m \in Nat BY <2>t
        <5>2. \A n \in DOMAIN t.work : t.work[n].kind = "touch" /\ (t.work[n].rid = rest[m].rid => n = m + 1)
          BY <5>1, <4>1, <2>o
        <5>3. ASSUME NEW n \in DOMAIN rest PROVE rest[n].kind = "touch" /\ (rest[n].rid = rest[m].rid => n = m)
          <6>1. n + 1 \in DOMAIN t.work /\ rest[n] = t.work[n + 1] /\ n \in Nat BY <2>t
          <6>2. n + 1 = m + 1 => n = m BY <6>1, <5>1
          <6> QED BY <6>1, <6>2, <5>2
        <5>4. heap[rest[m].rid].xmax # t.id BY <5>1, <4>1, <2>o
        <5> QED BY <5>1, <5>2, <5>3, <5>4, <2>t
      <4>2. task.kind = "touch" => heap[task.rid].xmax # t.id BY <2>t, <2>o
      <4> QED BY <3>5, <4>1, <4>2 DEF OnceOK
    <3>11. NewOK(b) /\ EnterOK(b) /\ Honest(b) BY <1>f, <3>5, <3>7 DEF NewOK, EnterOK, Honest
    <3>12. Follows(t, b) BY <1>c, <3>5, <3>7 DEF Follows, Losing
    <3> QED BY <1>1, <1>2, <2>6, <3>8, <3>9, <3>10, <3>11, <3>12, QuietKept DEF SessionGood, t
  <2> QED BY <2>1, <2>4, <2>5, <2>6
<1> QED BY <1>4, <1>5

LEMMA LookupU ==
  ASSUME IInv, UInv, NEW s \in Sessions, Lookup(s)
  PROVE  UInv'
<1> DEFINE t == session[s]
           c == Among(index, {i \in Rids : heap[i].key = Task(s).key /\ i # session[s].new})
           n == [t EXCEPT !.phase = "judge", !.cands = c]
<1>1. /\ t.phase = "lookup" /\ UNCHANGED <<heap, index, status, exposed>>
      /\ session' = [session EXCEPT ![s] = n]
  BY DEF Lookup, Sessions
<1>2. Session0(t) /\ SessionGood(t)
  BY SessionShape DEF UInv
<1> HIDE DEF c
<1>n. /\ n.phase = "judge" /\ n.id = t.id /\ n.stamped = t.stamped /\ n.prog = t.prog /\ n.new = t.new
      /\ n.task = t.task /\ n.work = t.work /\ n.detect = t.detect /\ n.verdict = t.verdict /\ n.failed = t.failed
  BY <1>2 DEF Session0, TxnFields
<1> HIDE DEF n, t
<1>3. ~Engaged(n) /\ (Checking(n) <=> Checking(t)) /\ (Searching(n) <=> Searching(t)) /\ ~Touching(n)
  BY <1>1, <1>n DEF Engaged, Targeted, Checking, Searching, Touching
<1>4. FateOK(n)
  BY <1>1, <1>2, <1>n DEF SessionGood, FateOK, Closing
<1>5. TaskOK(n)
  BY <1>1, <1>2, <1>3, <1>n DEF SessionGood, TaskOK, Closing
<1>6. OnceOK(n)
  BY <1>2, <1>3, <1>n DEF SessionGood, OnceOK
<1>7. NewOK(n) /\ EnterOK(n)
  BY <1>2, <1>3, <1>n DEF SessionGood, NewOK, EnterOK
<1>8. Honest(n)
  BY <1>4, <1>n DEF FateOK, Honest, Closing
<1>9. Follows(t, n)
  BY <1>3, <1>n DEF Follows, Losing
<1> QED BY <1>1, <1>4, <1>5, <1>6, <1>7, <1>8, <1>9, QuietKept DEF SessionGood, t

-----------------------------------------------------------------------------
(* The unique check.                                                       *)

\* A candidate that is ignored, and was not misread, is aborted, deleted by
\* the session itself or gone.
LEMMA IgnoredIsIgnorable ==
  ASSUME IInv, UInv, NEW s \in Sessions, session[s].phase = "judge", ~session[s].detect, NEW i \in Rids,
         Candidate(s, i) = "ignore", ~Misread(heap[i])
  PROVE  Ignorable(i, session[s].id)
<1> DEFINE r == heap[i]
           x == session[s].id
<1>1. status[x] = "running" /\ Me(s) = x
  BY DEF IInv, Ending, Undecided, Me
<1>2. r.xmax \in {NoTxn, r.xmin} \/ Committed(r.xmin)
  BY DEF UInv, OwnOnly
<1>3. status[r.xmin] # "leaving" /\ (r.xmax # NoTxn => status[r.xmax] # "leaving")
  BY DEF Misread
<1>4. CASE r.xmin = x
  <2>1. r.xmax # NoTxn
    <3> SUFFICES ASSUME r.xmax = NoTxn PROVE FALSE OBVIOUS
    <3>1. Candidate(s, i) = "duplicate" BY <1>1, <1>4 DEF Candidate
    <3> QED BY <3>1
  <2> QED BY <2>1, <1>1, <1>2, <1>4 DEF Ignorable, Committed
<1>5. CASE r.xmin # x
  <2>1. CASE status[r.xmin] = "aborted" BY <2>1 DEF Ignorable
  <2>2. CASE status[r.xmin] # "aborted"
    <3>1. Status(r.xmin) # "aborted" BY <1>3, <2>2 DEF Status
    <3>2. Status(r.xmin) # "running"
      <4> SUFFICES ASSUME Status(r.xmin) = "running" PROVE FALSE OBVIOUS
      <4>1. Candidate(s, i) = "wait" BY <1>1, <1>5, <3>1 DEF Candidate
      <4> QED BY <4>1
    <3>3. r.xmax # NoTxn
      <4> SUFFICES ASSUME r.xmax = NoTxn PROVE FALSE OBVIOUS
      <4>1. Candidate(s, i) = "duplicate" BY <1>1, <1>5, <3>1, <3>2 DEF Candidate
      <4> QED BY <4>1
    <3>4. r.xmax = x \/ Status(r.xmax) = "committed"
      <4> SUFFICES ASSUME r.xmax # x, Status(r.xmax) # "committed" PROVE FALSE OBVIOUS
      <4>1. Candidate(s, i) \in {"duplicate", "wait"} BY <1>1, <1>5, <3>1, <3>2, <3>3 DEF Candidate
      <4> QED BY <4>1
    <3> QED BY <3>3, <3>4 DEF Ignorable, Committed, Status
  <2> QED BY <2>1, <2>2
<1> QED BY <1>4, <1>5

\* A duplicate has been committed, or is the session's own.
LEMMA DuplicateIsSeen ==
  ASSUME IInv, UInv, NEW s \in Sessions, session[s].phase = "judge", NEW i \in Rids, Candidate(s, i) = "duplicate"
  PROVE  SeenBy(i, session[s].id)
<1> DEFINE r == heap[i]
<1>1. Me(s) = session[s].id
  BY DEF Me
<1>2. r.xmin # NoTxn
  <2>1. r.xmin \in DOMAIN status BY DEF UInv, RowsOK
  <2>2. Len(status) \in Nat /\ DOMAIN status = 1..Len(status) BY Tables DEF IInv
  <2> QED BY <2>1, <2>2 DEF NoTxn
<1>3. SUFFICES ASSUME r.xmin # session[s].id PROVE status[r.xmin] = "committed"
  BY <1>2 DEF SeenBy, Committed
<1>4. Status(r.xmin) # "aborted"
  <2> SUFFICES ASSUME Status(r.xmin) = "aborted" PROVE FALSE OBVIOUS
  <2>1. Candidate(s, i) = "ignore" BY <1>1, <1>3 DEF Candidate
  <2> QED BY <2>1
<1>5. Status(r.xmin) # "running"
  <2> SUFFICES ASSUME Status(r.xmin) = "running" PROVE FALSE OBVIOUS
  <2>1. Candidate(s, i) = "wait" BY <1>1, <1>3, <1>4 DEF Candidate
  <2> QED BY <2>1
<1>6. status[r.xmin] \in Outcomes
  BY DEF UInv, RowsOK
<1> QED BY <1>4, <1>5, <1>6 DEF Status, Outcomes

LEMMA JudgeU ==
  ASSUME IInv, UInv, NEW s \in Sessions, Judge(s)
  PROVE  UInv'
<1> DEFINE t == session[s]
           d == Deciding(s)
           T == {i \in Rids : Candidate(s, i) # "ignore"}
           a == [t EXCEPT !.phase = IF t.detect THEN "fk" ELSE "enter"]
           w == [t EXCEPT !.phase = "wait", !.target = Awaited(s, d[1])]
           n == IF d = <<>> THEN a ELSE IF Candidate(s, d[1]) = "duplicate" THEN Duplicate(s, d[1]) ELSE w
           hot == d = <<>> /\ HotSuccessor(s)
           mis == \E k \in DOMAIN t.cands : Misread(heap[t.cands[k]])
           left == d # <<>> /\ Candidate(s, d[1]) = "duplicate" /\ ~t.detect /\ t.task.kind = "update"
           causes == {<<hot, "hot">>, <<mis, "misread">>, <<left, "leftover">>}
<1>1. /\ t.phase = "judge" /\ UNCHANGED <<heap, index, status>>
      /\ session' = [session EXCEPT ![s] = n]
  BY DEF Judge, Go
<1>2. Flag(causes) /\ exposed \subseteq exposed'
  BY FlagGrows DEF Judge
<1>3. Session0(t) /\ SessionGood(t)
  BY SessionShape DEF UInv
<1>p. Pure' => ~hot /\ ~mis /\ ~left
  <2>1. <<hot, "hot">> \in causes /\ <<mis, "misread">> \in causes /\ <<left, "leftover">> \in causes OBVIOUS
  <2>2. hot \in BOOLEAN /\ mis \in BOOLEAN /\ left \in BOOLEAN OBVIOUS
  <2> HIDE DEF hot, mis, left, causes
  <2>3. hot => "hot" \in exposed' BY <2>1, <2>2, <1>2, FlagRaises
  <2>4. mis => "misread" \in exposed' BY <2>1, <2>2, <1>2, FlagRaises
  <2>5. left => "leftover" \in exposed' BY <2>1, <2>2, <1>2, FlagRaises
  <2> QED BY <2>3, <2>4, <2>5 DEF Pure
<1>4. t.detect => t.task.kind = "insert"
  BY <1>1 DEF IInv, Seeking
<1>c. SeqIn(t.cands, Rids) /\ d = Among(t.cands, T)
  BY <1>3 DEF Session0, CandsOK, SeqIn, Deciding
<1>5. d # <<>> => d[1] \in Rids
  <2> HIDE DEF T, d, t
  <2>4. d \in Seq(Rids \cap T) BY <1>c, AmongIn, SeqInIsSeq
  <2>5. d # <<>> => d[1] \in Rids \cap T BY <2>4
  <2> QED BY <2>5
<1>f. t.verdict = "none" /\ t.failed = FALSE /\ t.prog.stmts \in Seq(Statement) /\ t.prog.stmts # <<>>
  BY <1>1, <1>3 DEF SessionGood, FateOK, TaskOK, Closing
<1> HIDE DEF causes
<1>6. SessionGood(n) /\ Follows(t, n) /\ (Pure' => EnterOK(n) /\ Honest(n))
  <2>1. CASE d = <<>> /\ t.detect
    <3>1. n = [t EXCEPT !.phase = "fk"] BY <2>1
    <3> HIDE DEF n, d
    <3>2. Rest(t, n) /\ n.phase = "fk"
      <4>1. DOMAIN t = TxnFields BY <1>3 DEF Session0
      <4> HIDE DEF t
      <4> QED BY <3>1, <4>1, PhaseOnly
    <3>3. ~Engaged(n) /\ ~Searching(n) /\ ~Checking(n) /\ ~Checking(t)
      BY <1>4, <2>1, <3>2 DEF Engaged, Targeted, Searching, Checking, Rest
    <3> QED BY <1>1, <1>3, <3>2, <3>3, PhaseGood DEF Closing
  <2>2. CASE d = <<>> /\ ~t.detect
    <3>1. n = [t EXCEPT !.phase = "enter"] BY <2>2
    <3>e. ASSUME Pure', NEW k \in DOMAIN t.cands PROVE Ignorable(t.cands[k], t.id) /\ Unhot(t.cands[k])
      <4>1. t.cands[k] \in Rids BY <1>c DEF SeqIn
      <4>2. t.cands[k] \notin T
        <5> HIDE DEF T, t, d, n
        <5> QED BY <1>c, <2>2, AmongNone
      <4>3. Candidate(s, t.cands[k]) = "ignore" BY <4>1, <4>2
      <4>4. ~Misread(heap[t.cands[k]]) BY <1>p, <3>e
      <4>5. Ignorable(t.cands[k], t.id) BY <1>1, <2>2, <4>1, <4>3, <4>4, IgnoredIsIgnorable
      <4>6. ~HotSuccessor(s) BY <1>p, <2>2, <3>e
      <4>7. Unhot(t.cands[k]) BY <4>6 DEF HotSuccessor, Unhot
      <4> QED BY <4>5, <4>7
    <3> HIDE DEF n, d, hot, mis, left
    <3>2. Rest(t, n) /\ n.phase = "enter"
      <4>1. DOMAIN t = TxnFields BY <1>3 DEF Session0
      <4> HIDE DEF t
      <4> QED BY <3>1, <4>1, PhaseOnly
    <3>3. ~Engaged(n) /\ ~Searching(n) /\ Checking(n) /\ Checking(t) /\ ~Touching(n)
      BY <1>1, <2>2, <3>2 DEF Engaged, Targeted, Searching, Checking, Rest, Touching
    <3> HIDE DEF t
    <3>4. FateOK(n) BY <1>f, <3>2 DEF FateOK, Rest, Closing
    <3>5. TaskOK(n) BY <1>1, <1>3, <3>2, <3>3 DEF SessionGood, TaskOK, Rest, Closing
    <3>6. OnceOK(n) BY <1>3, <3>2, <3>3 DEF SessionGood, OnceOK, Rest
    <3>7. NewOK(n) BY <1>3, <2>2, <3>2, <3>3 DEF SessionGood, NewOK, Rest
    <3>8. Follows(t, n) BY <3>2, <3>3 DEF Follows, Losing, Rest
    <3>9. Pure' => EnterOK(n) /\ Honest(n) BY <1>f, <3>2, <3>e DEF EnterOK, Honest, Rest
    <3> QED BY <3>4, <3>5, <3>6, <3>7, <3>8, <3>9 DEF SessionGood
  <2>3. CASE d # <<>> /\ Candidate(s, d[1]) = "duplicate"
    <3> DEFINE i == d[1]
    <3>0. i \in Rids /\ Candidate(s, i) = "duplicate" BY <1>5, <2>3
    <3>1. n = Duplicate(s, i) BY <2>3, Zenon
    <3>l. ~t.detect /\ t.task.kind = "update" => left BY <2>3
    <3>s. SeenBy(i, t.id)
      <4> HIDE DEF i
      <4> QED BY <1>1, <3>0, DuplicateIsSeen
    <3> HIDE DEF n, d, i, left, hot, mis
    <3>2. CASE ~t.detect /\ t.task.kind = "update"
      <4>1. n = [t EXCEPT !.phase = "scan", !.work = <<>>] BY <3>1, <3>2 DEF Duplicate
      <4>2. ~Pure' BY <1>p, <3>l, <3>2
      <4>n. /\ n.phase = "scan" /\ n.id = t.id /\ n.stamped = t.stamped /\ n.prog = t.prog
            /\ n.task = t.task /\ n.work = <<>> /\ n.verdict = t.verdict /\ n.failed = t.failed
        BY <1>3, <4>1 DEF Session0, TxnFields
      <4> HIDE DEF t
      <4>3. ~Engaged(n) /\ ~Searching(n) /\ ~Checking(n) /\ ~Touching(n) /\ DOMAIN n.work = {}
        BY <4>n DEF Engaged, Targeted, Searching, Checking, Touching
      <4>4. FateOK(n) BY <1>f, <4>n DEF FateOK, Closing
      <4>5. TaskOK(n) BY <1>f, <4>n, <4>3 DEF TaskOK
      <4>6. OnceOK(n) BY <4>3 DEF OnceOK
      <4>7. NewOK(n) BY <4>3, <4>n DEF NewOK
      <4>8. Follows(t, n) BY <4>2, <4>3, <4>n DEF Follows, Losing
      <4> QED BY <4>2, <4>4, <4>5, <4>6, <4>7, <4>8 DEF SessionGood
    <3>3. CASE ~t.detect /\ t.task.kind # "update"
      <4>1. n = Failing(t) BY <3>1, <3>3 DEF Duplicate
      <4> HIDE DEF t
      <4> QED BY <1>1, <1>3, <4>1, FailGood DEF Closing, t
    <3>4. CASE t.detect /\ Stmt(s).conflict = "nothing"
      <4>1. n = [t EXCEPT !.phase = "next"] BY <3>1, <3>4 DEF Duplicate
      <4>2. Rest(t, n) /\ n.phase = "next"
        <5>1. DOMAIN t = TxnFields BY <1>3 DEF Session0
        <5> HIDE DEF t
        <5> QED BY <4>1, <5>1, PhaseOnly
      <4>3. ~Engaged(n) /\ ~Searching(n) /\ ~Checking(n) /\ ~Checking(t)
        BY <3>4, <4>2 DEF Engaged, Targeted, Searching, Checking, Rest
      <4> QED BY <1>1, <1>3, <4>2, <4>3, PhaseGood DEF Closing
    <3>5. CASE t.detect /\ Stmt(s).conflict # "nothing"
      <4>1. n = [t EXCEPT !.phase = "lock", !.task.kind = "upsert", !.task.rid = i] BY <3>1, <3>5 DEF Duplicate
      <4>n. /\ n.phase = "lock" /\ n.id = t.id /\ n.stamped = t.stamped /\ n.prog = t.prog
            /\ n.task.kind = "upsert" /\ n.task.rid = i /\ n.work = t.work /\ n.verdict = t.verdict /\ n.failed = t.failed
        BY <1>3, <4>1 DEF Session0, TxnFields, TaskFields
      <4>2. ~Checking(t) /\ t.work = <<>>
        BY <1>1, <1>3, <3>5 DEF Checking, SessionGood, TaskOK, Searching
      <4> HIDE DEF t
      <4>3. ~Searching(n) /\ ~Checking(n) /\ ~Touching(n) /\ DOMAIN n.work = {}
        BY <4>n, <4>2 DEF Searching, Checking, Touching
      <4>4. FateOK(n) BY <1>f, <4>n DEF FateOK, Closing
      <4>5. TaskOK(n) BY <1>f, <3>0, <3>s, <4>n, <4>3 DEF TaskOK, TouchTask
      <4>6. OnceOK(n) BY <4>3, <4>n DEF OnceOK
      <4>7. NewOK(n) BY <4>3, <4>n DEF NewOK
      <4>8. Follows(t, n) BY <4>2, <4>3, <4>n DEF Follows, Losing
      <4>9. EnterOK(n) /\ Honest(n) BY <1>f, <4>n DEF EnterOK, Honest
      <4> QED BY <4>4, <4>5, <4>6, <4>7, <4>8, <4>9 DEF SessionGood
    <3> QED BY <3>2, <3>3, <3>4, <3>5
  <2>4. CASE d # <<>> /\ Candidate(s, d[1]) # "duplicate"
    <3> DEFINE x == Awaited(s, d[1])
    <3>1. n = [t EXCEPT !.phase = "wait", !.target = x] BY <2>4, Zenon
    <3> HIDE DEF n, d, x, hot, mis, left
    <3>2. Rest(t, n) /\ n.phase = "wait"
      BY <1>3, <3>1 DEF Session0, TxnFields, Rest
    <3>3. ~Engaged(n) /\ (Searching(n) <=> Searching(t)) /\ (Checking(n) <=> Checking(t))
      BY <1>1, <3>2 DEF Engaged, Targeted, Searching, Checking, Rest
    <3> QED BY <1>1, <1>3, <3>2, <3>3, PhaseGood DEF Closing
  <2> QED BY <2>1, <2>2, <2>3, <2>4
<1> HIDE DEF n
<1> QED BY <1>1, <1>2, <1>6, QuietKept

-----------------------------------------------------------------------------
(* The steps that write rows and entries.                                  *)

\* Whoever is about to change a row that it may change has found it alive.
LEMMA TargetAlive ==
  ASSUME IInv, UInv, Pure, NEW s \in Sessions, session[s].phase = "stamp", session[s].task.kind = "touch",
         Free(session[s].task.rid, session[s].id)
  PROVE  LET i == session[s].task.rid IN
         /\ ~Dead(i) /\ ~Pending(i)
         /\ heap[i].xmax = NoTxn \/ status[heap[i].xmax] = "aborted"
<1> DEFINE t == session[s]
           i == t.task.rid
<1>1. SessionGood(t) /\ status[t.id] = "running"
  BY DEF UInv, IInv, Ending, Undecided
<1>2. i \in Rids /\ SeenBy(i, t.id) /\ heap[i].xmax # t.id
  BY <1>1 DEF SessionGood, TaskOK, OnceOK, Engaged, Targeted
<1>3. heap[i].xmax = NoTxn \/ status[heap[i].xmax] = "aborted"
  BY <1>2 DEF Free
<1>4. heap[i].xmin \in DOMAIN status /\ heap[i].xmin # NoTxn
  <2>1. heap[i].xmin \in DOMAIN status BY <1>2 DEF UInv, RowsOK
  <2>2. Len(status) \in Nat /\ DOMAIN status = 1..Len(status) BY Tables DEF IInv
  <2> QED BY <2>1, <2>2 DEF NoTxn
<1>5. \A r \in Sessions : session[r].id = t.id => r = s
  BY OwnId
<1>6. ~Lost(heap[i].xmin)
  <2>1. CASE Committed(heap[i].xmin) BY <2>1, <1>4, LostIsNotCommitted DEF Committed
  <2>2. CASE heap[i].xmin = t.id
    <3>1. ~Losing(t) BY <1>1 DEF SessionGood, FateOK, Losing, Closing
    <3> QED BY <2>2, <3>1, <1>1, <1>5 DEF Lost
  <2> QED BY <2>1, <2>2, <1>2 DEF SeenBy
<1>7. ~Dead(i)
  BY <1>3, <1>4, <1>6 DEF Dead, Lost, Committed
<1>8. ~Pending(i)
  <2> SUFFICES ASSUME NEW r \in Sessions, Checking(session[r]), session[r].new = i PROVE FALSE
    BY DEF Pending
  <2>1. heap[i].xmin = session[r].id BY DEF UInv, SessionGood, NewOK
  <2>2. status[session[r].id] = "running" BY DEF IInv, Ending, Undecided, Checking
  <2>3. r # s BY DEF Checking
  <2> QED BY <2>1, <2>2, <2>3, <1>2, <1>5 DEF SeenBy, Committed
<1> QED BY <1>3, <1>7, <1>8

LEMMA StampU ==
  ASSUME IInv, UInv, NEW s \in Sessions, Stamp(s)
  PROVE  UInv'
<1> DEFINE t == session[s]
           i == t.task.rid
           x == heap[i].xmax
<1>a. /\ t.phase = "stamp" /\ heap' = [heap EXCEPT ![i].xmax = t.id]
      /\ UNCHANGED <<index, status>>
      /\ Flag({ <<~Rechecks(t.task.kind) /\ x \notin {NoTxn, t.id} /\ status[x] # "aborted", "overwrote">>,
                <<t.task.kind = "update" /\ t.task.tab = "parent" /\ t.task.key # heap[i].key, "rekeyed">> })
  BY DEF Stamp, Task, Me
<1>b. /\ t.id \in DOMAIN status /\ t.id # NoTxn
      /\ \A r \in Sessions \ {s} : session[r].id # t.id
  BY <1>a, OwnId
<1>p. PICK p \in {"next", "place"} : session' = [session EXCEPT ![s].phase = p, ![s].stamped = @ \cup {i}]
  BY DEF Stamp, Task
<1>q. SessionGood(t) /\ Session0(t)
  BY SessionShape DEF UInv
<1>e. i \in Rids /\ SeenBy(i, t.id) /\ status[t.id] = "running" /\ TouchTask(t.task)
  BY <1>a, <1>q DEF SessionGood, TaskOK, Engaged, Targeted, IInv, Ending, Undecided
<1>n. PICK n : n = session'[s]
  OBVIOUS
<1>c. /\ Sessions' = Sessions
      /\ (\A r \in Sessions \ {s} : session'[r] = session[r])
      /\ n.phase = p /\ n.id = t.id /\ n.stamped = t.stamped \cup {i} /\ n.prog = t.prog /\ n.verdict = t.verdict
      /\ n.work = t.work /\ n.task = t.task /\ n.failed = t.failed
  <2> DEFINE v == t.stamped \cup {i}
             m == [t EXCEPT !.phase = p, !.stamped = v]
  <2>2. session' = [session EXCEPT ![s] = m] BY <1>p DEF Sessions
  <2> HIDE DEF v, i
  <2>4. /\ m.phase = p /\ m.id = t.id /\ m.stamped = v /\ m.prog = t.prog /\ m.verdict = t.verdict
        /\ m.work = t.work /\ m.task = t.task /\ m.failed = t.failed
    BY <1>q DEF Session0, TxnFields
  <2> HIDE DEF m
  <2>7. Sessions' = Sessions /\ session'[s] = m /\ \A r \in Sessions \ {s} : session'[r] = session[r]
    BY <2>2 DEF Sessions
  <2> QED BY <2>4, <2>7, <1>n DEF v
<1>d. /\ DOMAIN heap' = DOMAIN heap /\ heap'[i].xmax = t.id
      /\ \A j : j # i => heap'[j] = heap[j]
      /\ heap'[i].tab = heap[i].tab /\ heap'[i].key = heap[i].key
      /\ heap'[i].xmin = heap[i].xmin /\ heap'[i].ctid = heap[i].ctid
  <2>1. DOMAIN heap[i] = RowFields /\ i \in DOMAIN heap BY <1>e DEF IInv, Shape, Rids
  <2> HIDE DEF i
  <2> QED BY <1>a, <2>1 DEF RowFields
<1>s. \A j : /\ heap'[j].tab = heap[j].tab /\ heap'[j].key = heap[j].key
             /\ heap'[j].xmin = heap[j].xmin /\ heap'[j].ctid = heap[j].ctid
             /\ j # i => heap'[j].xmax = heap[j].xmax
  BY <1>d
<1>f. exposed \subseteq exposed' /\ (Pure' => Pure) /\ (Pure' => Clean') /\ (Pure' => Clean)
  <2>1. exposed \subseteq exposed' BY <1>a, FlagGrows
  <2> QED BY <2>1 DEF Clean, Pure
<1>g. Clean' => Free(i, t.id)
  <2> SUFFICES ASSUME Clean' PROVE Free(i, t.id) OBVIOUS
  <2>0. Clean BY <1>f DEF Clean
  <2>1. CASE Rechecks(t.task.kind)
    BY <2>0, <2>1, <1>a DEF IInv, Checked, Looked
  <2>2. CASE ~Rechecks(t.task.kind)
    <3> DEFINE o == ~Rechecks(t.task.kind) /\ x \notin {NoTxn, t.id} /\ status[x] # "aborted"
               k == <<t.task.kind = "update" /\ t.task.tab = "parent" /\ t.task.key # heap[i].key, "rekeyed">>
               causes == {<<o, "overwrote">>, k}
    <3>1. SUFFICES ASSUME o PROVE FALSE BY <2>2 DEF Free
    <3>2. o = TRUE /\ <<o, "overwrote">> \in causes /\ Flag(causes) BY <3>1, <1>a
    <3> HIDE DEF causes, o
    <3>4. "overwrote" \in exposed' BY <3>2, FlagRaises
    <3> QED BY <3>4 DEF Clean
  <2> QED BY <2>1, <2>2
<1> HIDE DEF i
<1>h. Rids' = Rids /\ Range(index)' = Range(index) /\ Range(index) \subseteq Rids
  <2>1. Range(index) \subseteq Rids BY DEF UInv, RowsOK, Range
  <2> QED BY <1>a, <1>d, <2>1 DEF Rids, Range
<1>x. \A j \in Rids : /\ heap[j].xmin \in DOMAIN status /\ heap[j].xmin # NoTxn /\ heap[j].ctid \in Rids \cup {NoRow}
  <2>1. \A j \in Rids : heap[j].xmin \in DOMAIN status /\ heap[j].ctid \in Rids \cup {NoRow} BY DEF UInv, RowsOK
  <2>2. Len(status) \in Nat /\ DOMAIN status = 1..Len(status) BY Tables DEF IInv
  <2> QED BY <2>1, <2>2 DEF NoTxn
<1>cm. \A y : Committed(y)' <=> Committed(y)
  BY <1>a DEF Committed
<1>1. RowsOK'
  <2>1. \A k \in DOMAIN index : index[k] \in Rids /\ heap[index[k]].tab = "parent" BY DEF UInv, RowsOK
  <2>2. \A y \in DOMAIN status : status[y] \in Outcomes BY DEF UInv, RowsOK
  <2> QED BY <2>1, <2>2, <1>a, <1>h, <1>s, <1>x DEF RowsOK
<1>2. OwnOnly'
  <2>1. \A j \in Rids : heap[j].xmax \in {NoTxn, heap[j].xmin} \/ Committed(heap[j].xmin) BY DEF UInv, OwnOnly
  <2>2. \A j \in Rids : heap'[j].xmax \in {NoTxn, heap[j].xmin} \/ Committed(heap[j].xmin)
    BY <2>1, <1>d, <1>e DEF SeenBy
  <2> QED BY <2>2, <1>h, <1>s, <1>cm DEF OwnOnly
<1>sb. \A j, y : SeenBy(j, y)' <=> SeenBy(j, y)
  BY <1>s, <1>cm DEF SeenBy
<1>tt. \A k : TouchTask(k)' <=> TouchTask(k)
  BY <1>s DEF TouchTask
<1>3. ASSUME NEW r \in Sessions PROVE SessionGood(session[r])'
  <2>1. CASE r = s
    <3>0. /\ t.verdict = "none" /\ t.failed = FALSE /\ t.prog.stmts \in Seq(Statement) /\ t.prog.stmts # <<>>
          /\ \A m \in DOMAIN t.work : SeenBy(t.work[m].rid, t.id) /\ TouchTask(t.work[m])
          /\ \A m \in DOMAIN t.work : t.work[m].kind = "touch" =>
               /\ heap[t.work[m].rid].xmax # t.id
               /\ \A k \in DOMAIN t.work : t.work[k].kind = "touch" /\ (t.work[k].rid = t.work[m].rid => k = m)
               /\ t.task.kind = "touch" /\ i # t.work[m].rid
      BY <1>a, <1>q DEF SessionGood, FateOK, TaskOK, OnceOK, Closing, Engaged, Targeted, i
    <3>1. FateOK(session[r])' BY <2>1, <3>0, <1>c, <1>n DEF FateOK, Closing
    <3>e. n.phase \in {"next", "place"} /\ ~Checking(n) /\ ~Searching(n) /\ n.task.rid = i
          /\ (Engaged(n) => n.phase = "place")
      BY <1>c DEF Checking, Searching, Engaged, Targeted, i
    <3>2. TaskOK(session[r])'
      <4>1. \A m \in DOMAIN n.work : SeenBy(n.work[m].rid, n.id)' /\ TouchTask(n.work[m])'
        BY <3>0, <1>c, <1>sb, <1>tt
      <4>2. n.task.rid \in Rids /\ SeenBy(n.task.rid, n.id)' /\ TouchTask(n.task)' /\ n.task.rid \in n.stamped
        <5>1. SeenBy(n.task.rid, n.id) /\ TouchTask(n.task) BY <3>e, <1>c, <1>e
        <5> QED BY <5>1, <3>e, <1>c, <1>e, <1>sb, <1>tt
      <4>4. /\ n.prog.stmts \in Seq(Statement) /\ n.prog.stmts # <<>> /\ n.phase # "start" BY <3>0, <3>e, <1>c
      <4>5. TaskOK(n)' BY <3>e, <4>1, <4>2, <4>4, <1>h DEF TaskOK, Searching
      <4> QED BY <2>1, <4>5, <1>n
    <3>3. OnceOK(session[r])'
      <4>1. \A m \in DOMAIN n.work : n.work[m].kind = "touch" =>
               /\ heap'[n.work[m].rid].xmax # n.id
               /\ \A k \in DOMAIN n.work : n.work[k].kind = "touch" /\ (n.work[k].rid = n.work[m].rid => k = m)
               /\ n.task.kind = "touch" /\ n.task.rid # n.work[m].rid
        BY <3>0, <3>e, <1>c, <1>s
      <4>2. session'[r] = n BY <2>1, <1>n
      <4>3. Engaged(n) => n.phase = "place" BY <3>e
      <4> QED BY <4>1, <4>2, <4>3 DEF OnceOK, Engaged, Targeted
    <3>4. NewOK(session[r])' BY <2>1, <3>e, <1>n DEF NewOK, Checking
    <3> QED BY <3>1, <3>2, <3>3, <3>4 DEF SessionGood
  <2>2. CASE r # s
    <3> DEFINE u == session[r]
    <3>0. session'[r] = u /\ SessionGood(u) /\ u.id # t.id BY <2>2, <1>b, <1>c DEF UInv
    <3>1. FateOK(session[r])' BY <3>0, <1>a DEF SessionGood, FateOK, DecidesFirst
    <3>2. TaskOK(session[r])'
      <4>1. TaskOK(u) BY <3>0 DEF SessionGood
      <4> QED BY <4>1, <3>0, <1>h, <1>s, <1>cm DEF TaskOK, SeenBy, TouchTask, Searching, Engaged, Targeted
    <3>3. OnceOK(session[r])'
      <4>1. OnceOK(u) BY <3>0 DEF SessionGood
      <4>2. \A j : heap[j].xmax # u.id => heap'[j].xmax # u.id BY <3>0, <1>d
      <4> QED BY <4>1, <4>2, <3>0 DEF OnceOK, Engaged, Targeted
    <3>4. NewOK(session[r])'
      <4>1. NewOK(u) BY <3>0 DEF SessionGood
      <4> QED BY <4>1, <3>0, <1>h, <1>s DEF NewOK, Checking
    <3> QED BY <3>1, <3>2, <3>3, <3>4 DEF SessionGood
  <2> QED BY <2>1, <2>2
<1>4. ASSUME Pure'
      PROVE  /\ \A r \in Sessions : (EnterOK(session[r]) /\ Honest(session[r]))'
             /\ Apart' /\ Anchored' /\ Links' /\ Touched'
  <2>0. Pure /\ Clean /\ Free(i, t.id)
    BY <1>4, <1>f, <1>g
  <2>x. x \in {NoTxn, t.id} \/ status[x] = "aborted"
    BY <2>0 DEF Free, i
  <2>xi. heap[i].xmax = x
    BY DEF i
  <2> HIDE DEF x
  <2>k. /\ \A j : Committed(heap[j].xmax) => heap'[j].xmax = heap[j].xmax
        /\ \A j, y : heap[j].xmax = y /\ y # NoTxn /\ status[y] = "running" => heap'[j].xmax = y
    <3>1. ~Committed(x) BY <2>x, <1>e DEF Committed
    <3>2. status[x] = "running" /\ x # NoTxn => x = t.id BY <2>x
    <3> QED BY <3>1, <3>2, <2>xi, <1>d
  <2>1. \A y : Lost(y)' <=> Lost(y)
    <3>1. \A r \in Sessions : session'[r].id = session[r].id /\ session'[r].verdict = session[r].verdict
                              /\ session'[r].failed = session[r].failed
      BY <1>c, <1>n
    <3> QED BY <3>1, <1>a, <1>c DEF Lost, Losing
  <2>2. \A j : Pending(j)' <=> Pending(j)
    <3>1. ~Checking(t) /\ ~Checking(n) BY <1>a, <1>c DEF Checking
    <3>2. \A r \in Sessions : Checking(session'[r]) <=> Checking(session[r]) BY <3>1, <1>c, <1>n
    <3>3. \A r \in Sessions : Checking(session[r]) => session'[r].new = session[r].new BY <3>1, <1>c
    <3>4. \A j : Pending(j) <=> \E r \in Sessions : Checking(session'[r]) /\ session'[r].new = j
      BY <3>2, <3>3 DEF Pending
    <3> QED BY <3>4, <1>c DEF Pending, Checking
  <2>3. \A j \in Rids : Dead(j) => Dead(j)'
    <3> SUFFICES ASSUME NEW j \in Rids, Dead(j) PROVE Dead(j)' OBVIOUS
    <3>1. CASE Lost(heap[j].xmin) BY <3>1, <2>1, <1>s DEF Dead
    <3>2. CASE Committed(heap[j].xmax) BY <3>2, <2>k, <1>cm DEF Dead
    <3>3. CASE heap[j].xmax = heap[j].xmin
      <4>1. CASE j # i BY <3>3, <4>1, <1>s DEF Dead
      <4>2. CASE j = i
        <5>1. x = t.id \/ status[heap[j].xmin] = "aborted" BY <3>3, <4>2, <2>x, <2>xi, <1>x
        <5>2. CASE x = t.id BY <5>2, <3>3, <4>2, <2>xi, <1>d DEF Dead
        <5>3. CASE status[heap[j].xmin] = "aborted" BY <5>3, <2>1, <1>s DEF Dead, Lost
        <5> QED BY <5>1, <5>2, <5>3
      <4> QED BY <4>1, <4>2
    <3> QED BY <3>1, <3>2, <3>3 DEF Dead
  <2>4. \A j, k : Twins(j, k)' <=> Twins(j, k)
    BY <1>s DEF Twins
  <2>5. \A j, k \in Rids : Excluded(j, k) => Excluded(j, k)' \/ Dead(k)'
    <3> SUFFICES ASSUME NEW j \in Rids, NEW k \in Rids, heap[j].xmax = heap[k].xmin
                 PROVE  heap'[j].xmax = heap'[k].xmin \/ Dead(k)'
      BY <2>2, <2>3 DEF Excluded
    <3>1. CASE j # i BY <3>1, <1>s
    <3>2. CASE j = i
      <4>1. x = t.id \/ status[heap[k].xmin] = "aborted" BY <3>2, <2>x, <2>xi, <1>x
      <4>2. CASE x = t.id BY <4>2, <3>2, <2>xi, <1>d, <1>s
      <4>3. CASE status[heap[k].xmin] = "aborted" BY <4>3, <2>1, <1>s DEF Dead, Lost
      <4> QED BY <4>1, <4>2, <4>3
    <3> QED BY <3>1, <3>2
  <2>6. Apart'
    <3>1. \A j, k \in Rids : Twins(j, k) => Excluded(j, k)' \/ Excluded(k, j)'
      <4>1. \A j, k \in Rids : Twins(j, k) => Excluded(j, k) \/ Excluded(k, j) BY <2>0 DEF UInv, Apart
      <4>2. \A j, k : Dead(k)' => Excluded(k, j)' BY DEF Excluded
      <4> QED BY <4>1, <4>2, <2>5
    <3> QED BY <3>1, <2>4, <1>h DEF Apart
  <2>7. Anchored'
    <3>1. \A a, c \in Rids : Hot(a, c) => Hot(a, c)' BY <1>s, <1>cm DEF Hot
    <3>2. \A c \in Rids : heap[c].tab = "parent" =>
            \/ c \in Range(index) \/ Pending(c) \/ Lost(heap[c].xmin)
            \/ \E a \in Range(index) : heap[a].key = heap[c].key /\ Hot(a, c)
      BY <2>0 DEF UInv, Anchored
    <3>3. ASSUME NEW c \in Rids, heap[c].tab = "parent"
          PROVE  \/ c \in Range(index) \/ Pending(c)' \/ Lost(heap[c].xmin)'
                 \/ \E a \in Range(index) : (heap[a].key = heap[c].key)' /\ Hot(a, c)'
      <4>1. heap'[c].xmin = heap[c].xmin BY <1>s
      <4>2. Lost(heap[c].xmin) => Lost(heap[c].xmin)' BY <4>1, <2>1
      <4> QED BY <3>1, <3>2, <3>3, <4>2, <2>2, <1>h, <1>s
    <3> QED BY <3>3, <1>h, <1>s DEF Anchored
  <2>8. \A a : Unhot(a)' <=> Unhot(a)
    BY <1>a, <1>s DEF Unhot
  <2>9. Links'
    <3> SUFFICES ASSUME NEW a \in Rids, ~Unhot(a) PROVE heap'[heap'[a].ctid].xmin = heap'[a].xmax
      BY <2>8, <1>h DEF Links
    <3>1. heap[heap[a].ctid].xmin = heap[a].xmax BY <2>0 DEF UInv, Links
    <3>2. heap[a].ctid \in Rids /\ status[heap[heap[a].ctid].xmin] # "aborted" BY <1>x DEF Unhot
    <3>3. CASE a # i BY <3>1, <3>3, <1>s
    <3>4. CASE a = i
      <4>1. x = t.id BY <3>1, <3>2, <3>4, <2>x, <2>xi, <1>x
      <4> QED BY <3>1, <3>4, <4>1, <2>xi, <1>d, <1>s
    <3> QED BY <3>3, <3>4
  <2>10. ASSUME NEW r \in Sessions PROVE (EnterOK(session[r]) /\ Honest(session[r]))'
    <3>1. CASE r = s
      <4>1. t.failed = FALSE BY <1>a, <1>q DEF SessionGood, FateOK, Closing
      <4> QED BY <3>1, <4>1, <1>c, <1>n DEF EnterOK, Honest
    <3>2. CASE r # s
      <4> DEFINE u == session[r]
      <4>1. session'[r] = u /\ EnterOK(u) /\ Honest(u) BY <3>2, <1>c, <2>0 DEF UInv
      <4>2. ASSUME u.phase = "enter", NEW m \in DOMAIN u.cands
            PROVE  /\ status[heap'[u.cands[m]].xmin] = "aborted" \/ heap'[u.cands[m]].xmax = u.id \/ Committed(heap'[u.cands[m]].xmax)
        <5>1. Ignorable(u.cands[m], u.id) BY <4>1, <4>2 DEF EnterOK
        <5>2. u.id # NoTxn /\ status[u.id] = "running" BY <4>2, OwnId DEF IInv, Ending, Undecided
        <5> QED BY <5>1, <5>2, <2>k, <1>s DEF Ignorable
      <4>3. u.phase = "enter" => \A m \in DOMAIN u.cands : Unhot(u.cands[m]) BY <4>1 DEF EnterOK
      <4>4. EnterOK(session[r])'
        <5>1. \A m : Unhot(u.cands[m]) => (heap'[u.cands[m]].ctid = NoRow \/ status[heap'[heap'[u.cands[m]].ctid].xmin] = "aborted")
          BY <1>s DEF Unhot
        <5> HIDE DEF u
        <5> QED BY <4>1, <4>2, <4>3, <5>1, <1>a, <1>cm DEF EnterOK, Ignorable, Unhot
      <4> QED BY <4>1, <4>4 DEF Honest
    <3> QED BY <3>1, <3>2
  <2>11. Touching(n) => t.task.kind = "touch"
    BY <1>c DEF Touching
  <2>12. \A j \in Rids : \A y : Cleared(j, y) /\ y # NoTxn /\ status[y] = "running" => Cleared(j, y)'
    BY <2>2, <2>3, <2>k DEF Cleared
  <2>13. ASSUME t.task.kind = "touch"
         PROVE  /\ \A j \in Rids : Twins(i, j) => Cleared(j, t.id)
                /\ \A r \in Sessions \ {s} : Touching(session[r]) => session[r].task.key # t.task.key
    <3>1. /\ ~Dead(i) /\ ~Pending(i) /\ (x = NoTxn \/ status[x] = "aborted")
      BY <2>0, <2>13, <2>xi, <1>a, TargetAlive DEF i
    <3>2. ASSUME NEW j \in Rids, Twins(i, j) PROVE Cleared(j, t.id)
      <4>1. Excluded(i, j) \/ Excluded(j, i) BY <3>2, <2>0, <1>e DEF UInv, Apart
      <4>2. CASE Excluded(i, j)
        <5>1. x = heap[j].xmin BY <4>2, <3>1, <2>xi DEF Excluded
        <5>2. status[heap[j].xmin] = "aborted" BY <5>1, <3>1, <1>x
        <5> QED BY <5>2 DEF Cleared, Dead, Lost
      <4>3. CASE Excluded(j, i)
        BY <4>3, <1>e DEF Excluded, Cleared, Dead, SeenBy
      <4> QED BY <4>1, <4>2, <4>3
    <3>3. ASSUME NEW r \in Sessions \ {s}, Touching(session[r]), session[r].task.key = t.task.key PROVE FALSE
      <4> DEFINE u == session[r]
                 k == u.task.rid
      <4>1. u.phase = "place" /\ u.task.kind = "touch" BY <3>3 DEF Touching
      <4>2. u.id # NoTxn /\ status[u.id] = "running" /\ u.id # t.id
        BY <4>1, <1>b, OwnId DEF IInv, Ending, Undecided
      <4>3. k \in Rids /\ k \in u.stamped /\ TouchTask(u.task)
        BY <4>1 DEF UInv, SessionGood, TaskOK, Engaged
      <4>4. heap[k].xmax = u.id BY <4>2, <4>3, <2>0 DEF IInv, Stamped
      <4>5. heap[i].xmax # u.id BY <4>2, <2>x, <2>xi
      <4>6. Twins(k, i)
        BY <4>1, <4>3, <4>4, <4>5, <3>3, <2>13, <1>e DEF TouchTask, Twins, i
      <4>7. Cleared(i, u.id) BY <4>6, <3>3, <2>0, <1>e DEF UInv, Touched
      <4> QED BY <4>5, <4>7, <3>1 DEF Cleared
    <3> QED BY <3>2, <3>3
  <2>14. Touched'
    <3>1. ASSUME NEW r \in Sessions, NEW u, u = session'[r], Touching(u)
          PROVE  /\ \A j \in Rids : Twins(u.task.rid, j) => Cleared(j, u.id)'
                 /\ \A q \in Sessions \ {r} : Touching(session'[q]) => session'[q].task.key # u.task.key
      <4>1. CASE r = s
        <5>1. t.task.kind = "touch" /\ u.task.rid = i /\ u.task = t.task /\ u.id = t.id
          BY <3>1, <4>1, <2>11, <1>c, <1>n DEF i
        <5>2. u.id # NoTxn /\ status[u.id] = "running" BY <5>1, <1>b, <1>e
        <5>3. \A j \in Rids : Twins(u.task.rid, j) => Cleared(j, u.id)
          <6>1. \A j \in Rids : Twins(i, j) => Cleared(j, t.id) BY <5>1, <2>13
          <6> QED BY <6>1, <5>1
        <5>4. \A q \in Sessions \ {s} : session'[q] = session[q] BY <1>c
        <5> QED BY <4>1, <5>1, <5>2, <5>3, <5>4, <2>12, <2>13
      <4>2. CASE r # s
        <5>1. session[r] = u BY <3>1, <4>2, <1>c
        <5>2. u.id # NoTxn /\ status[u.id] = "running" BY <3>1, <5>1, OwnId DEF IInv, Ending, Undecided, Touching
        <5>3. /\ \A j \in Rids : Twins(u.task.rid, j) => Cleared(j, u.id)
              /\ \A q \in Sessions \ {r} : Touching(session[q]) => session[q].task.key # u.task.key
          BY <3>1, <5>1, <2>0 DEF UInv, Touched
        <5>5. ASSUME NEW q \in Sessions \ {r}, Touching(session'[q]) PROVE session'[q].task.key # u.task.key
          <6>1. CASE q = s
            <7>1. t.task.kind = "touch" /\ session'[q].task = t.task BY <6>1, <5>5, <2>11, <1>c, <1>n
            <7> QED BY <7>1, <3>1, <4>2, <5>1, <2>13
          <6>2. CASE q # s BY <6>2, <5>3, <5>5, <1>c
          <6> QED BY <6>1, <6>2
        <5> QED BY <5>2, <5>3, <5>5, <2>12
      <4> QED BY <4>1, <4>2
    <3> SUFFICES ASSUME NEW r \in Sessions, Touching(session'[r])
                 PROVE  /\ \A j \in Rids : Twins(session[r].task.rid, j)' => Cleared(j, session[r].id)'
                        /\ \A q \in Sessions \ {r} : Touching(session'[q]) => session'[q].task.key # session'[r].task.key
      BY <1>c, <1>h DEF Touched, Touching
    <3>2. PICK u : u = session'[r] OBVIOUS
    <3>3. /\ \A j \in Rids : Twins(u.task.rid, j)' => Cleared(j, u.id)'
          /\ \A q \in Sessions \ {r} : Touching(session'[q]) => session'[q].task.key # u.task.key
      BY <3>1, <3>2, <2>4
    <3> QED BY <3>2, <3>3
  <2> QED BY <2>6, <2>7, <2>9, <2>10, <2>14
<1> QED BY <1>1, <1>2, <1>3, <1>4, <1>c DEF UInv

\* The row a session is replacing by a HOT update is its own or committed, and bears its stamp.
LEMMA ReplacedRow ==
  ASSUME IInv, UInv, Pure, NEW s \in Sessions, Touching(session[s])
  PROVE  LET i == session[s].task.rid IN
         /\ i \in Rids /\ heap[i].xmax = session[s].id /\ SeenBy(i, session[s].id)
         /\ heap[i].tab = "parent" /\ heap[i].key = session[s].task.key /\ session[s].task.tab = "parent"
         /\ ~Pending(i) /\ ~Lost(heap[i].xmin) /\ status[heap[i].xmin] # "aborted"
<1> DEFINE t == session[s]
           i == t.task.rid
<1>1. SessionGood(t) /\ status[t.id] = "running" /\ t.phase = "place" /\ t.task.kind = "touch"
  BY DEF UInv, IInv, Ending, Undecided, Touching
<1>2. i \in Rids /\ i \in t.stamped /\ SeenBy(i, t.id) /\ TouchTask(t.task)
  BY <1>1 DEF SessionGood, TaskOK, Engaged
<1>3. heap[i].xmax = t.id
  <2>1. Clean BY DEF Clean, Pure
  <2> QED BY <1>1, <1>2, <2>1 DEF IInv, Stamped
<1>4. heap[i].xmin \in DOMAIN status
  BY <1>2 DEF UInv, RowsOK
<1>5. \A r \in Sessions : session[r].id = t.id => r = s
  BY <1>1, OwnId
<1>6. ~Lost(heap[i].xmin)
  <2>1. CASE Committed(heap[i].xmin) BY <2>1, <1>4, LostIsNotCommitted DEF Committed
  <2>2. CASE heap[i].xmin = t.id
    <3>1. ~Losing(t) BY <1>1 DEF SessionGood, FateOK, Losing, Closing
    <3> QED BY <2>2, <3>1, <1>1, <1>5 DEF Lost
  <2> QED BY <2>1, <2>2, <1>2 DEF SeenBy
<1>8. ~Pending(i)
  <2> SUFFICES ASSUME NEW r \in Sessions, Checking(session[r]), session[r].new = i PROVE FALSE
    BY DEF Pending
  <2>1. heap[i].xmin = session[r].id BY DEF UInv, SessionGood, NewOK
  <2>2. status[session[r].id] = "running" BY DEF IInv, Ending, Undecided, Checking
  <2>3. r # s BY <1>1 DEF Checking
  <2> QED BY <2>1, <2>2, <2>3, <1>2, <1>5 DEF SeenBy, Committed
<1> QED BY <1>1, <1>2, <1>3, <1>6, <1>8 DEF TouchTask, Lost

LEMMA PlaceU ==
  ASSUME IInv, UInv, NEW s \in Sessions, Place(s)
  PROVE  UInv'
<1>i. PICK new, t, i : new = Len(heap) + 1 /\ t = session[s] /\ i = t.task.rid
  OBVIOUS
<1> DEFINE row == Row(t.task.tab, t.task.key, t.id)
           h == IF t.task.kind = "touch" THEN [heap EXCEPT ![i].ctid = new] ELSE heap
           p == IF t.task.tab = "parent" /\ t.task.kind # "touch" THEN "lookup" ELSE "next"
           m == [t EXCEPT !.phase = p, !.new = new, !.detect = FALSE]
<1>a. /\ t.phase = "place" /\ heap' = Append(h, row)
      /\ UNCHANGED <<index, status, exposed>>
      /\ session' = [session EXCEPT ![s] = m]
  BY <1>i DEF Place, Task, Me, Sessions
<1>b. /\ t.id \in DOMAIN status /\ t.id # NoTxn
      /\ \A r \in Sessions \ {s} : session[r].id # t.id
  BY <1>a, <1>i, OwnId
<1>q. SessionGood(t) /\ Session0(t) /\ status[t.id] = "running"
  BY <1>a, <1>i, SessionShape DEF UInv, IInv, Ending, Undecided
<1>n. /\ Len(heap) \in Nat /\ Rids = 1..Len(heap)
      /\ Len(status) \in Nat /\ DOMAIN status = 1..Len(status)
  BY Tables DEF IInv
<1>h. /\ IsSeq(h) /\ Len(h) = Len(heap) /\ DOMAIN h = Rids
      /\ \A j \in Rids : /\ h[j].tab = heap[j].tab /\ h[j].key = heap[j].key
                         /\ h[j].xmin = heap[j].xmin /\ h[j].xmax = heap[j].xmax
                         /\ h[j].ctid = IF t.task.kind = "touch" /\ j = i THEN new ELSE heap[j].ctid
  <2>1. IsSeq(heap) /\ h = [j \in DOMAIN heap |-> h[j]]
    <3>1. IsSeq(heap) BY DEF IInv, Shape
    <3>2. heap = [j \in DOMAIN heap |-> heap[j]] BY <3>1, <1>n, SeqFacts DEF Rids
    <3>3. CASE t.task.kind = "touch" BY <3>1, <3>3
    <3>4. CASE t.task.kind # "touch" BY <3>1, <3>2, <3>4
    <3> QED BY <3>3, <3>4
  <2>2. IsSeq(h) /\ Len(h) = Len(heap) /\ DOMAIN h = DOMAIN heap
    <3> HIDE DEF h
    <3> QED BY <2>1, ChangedSeq, Zenon
  <2>3. ASSUME NEW j \in Rids
        PROVE /\ h[j].tab = heap[j].tab /\ h[j].key = heap[j].key
              /\ h[j].xmin = heap[j].xmin /\ h[j].xmax = heap[j].xmax
              /\ h[j].ctid = IF t.task.kind = "touch" /\ j = i THEN new ELSE heap[j].ctid
    <3>1. DOMAIN heap[j] = RowFields BY DEF IInv, Shape
    <3>2. h[j] = IF t.task.kind = "touch" /\ j = i THEN [heap[j] EXCEPT !.ctid = new] ELSE heap[j] BY DEF Rids
    <3> HIDE DEF h
    <3> QED BY <3>1, <3>2 DEF RowFields
  <2> QED BY <2>2, <2>3 DEF Rids
<1>r. row.tab = t.task.tab /\ row.key = t.task.key /\ row.xmin = t.id /\ row.xmax = NoTxn /\ row.ctid = NoRow
  BY DEF Row
<1> HIDE DEF h, row
<1>g. /\ DOMAIN heap' = 1..new /\ heap'[new] = row /\ \A j \in Rids : heap'[j] = h[j]
  <2>1. OneMore(h, row, heap') BY <1>a, <1>h, AppendOne
  <2> QED BY <2>1, <1>h, <1>i DEF OneMore
<1>m. Rids' = Rids \cup {new} /\ new \notin Rids /\ new # NoRow
  <2>1. new \notin Rids BY <1>i, <1>n
  <2>2. 1..new = Rids \cup {new} BY <1>i, <1>n
  <2>3. new # NoRow BY <1>i, <1>n DEF NoRow
  <2> QED BY <2>1, <2>2, <2>3, <1>g DEF Rids
<1>s. \A j \in Rids : /\ heap'[j].tab = heap[j].tab /\ heap'[j].key = heap[j].key
                      /\ heap'[j].xmin = heap[j].xmin /\ heap'[j].xmax = heap[j].xmax
                      /\ heap'[j].ctid = heap[j].ctid \/ (t.task.kind = "touch" /\ j = i /\ heap'[j].ctid = new)
  BY <1>g, <1>h
<1>w. /\ heap'[new].tab = t.task.tab /\ heap'[new].key = t.task.key /\ heap'[new].xmin = t.id
      /\ heap'[new].xmax = NoTxn /\ heap'[new].ctid = NoRow
  BY <1>g, <1>r
<1>p. p \in {"lookup", "next"} /\ (p = "lookup" <=> t.task.tab = "parent" /\ t.task.kind # "touch")
  OBVIOUS
<1> HIDE DEF p
<1>c. /\ Sessions' = Sessions
      /\ (\A r \in Sessions \ {s} : session'[r] = session[r])
      /\ session'[s] = m
  BY <1>a DEF Sessions
<1>d. /\ m.phase = p /\ m.id = t.id /\ m.stamped = t.stamped /\ m.prog = t.prog /\ m.verdict = t.verdict
      /\ m.work = t.work /\ m.task = t.task /\ m.failed = t.failed /\ m.new = new /\ m.detect = FALSE
  BY <1>q DEF Session0, TxnFields
<1>o. PICK n : n = m
  OBVIOUS
<1> HIDE DEF m
<1>x. /\ \A j \in Rids : heap[j].xmin \in DOMAIN status /\ heap[j].ctid \in Rids \cup {NoRow}
      /\ \A k \in DOMAIN index : index[k] \in Rids /\ heap[index[k]].tab = "parent"
      /\ \A y \in DOMAIN status : status[y] \in Outcomes
  BY DEF UInv, RowsOK
<1>cm. \A y : Committed(y)' <=> Committed(y)
  BY <1>a DEF Committed
<1>1. RowsOK'
  <2>1. \A j \in Rids' : heap'[j].xmin \in DOMAIN status /\ heap'[j].ctid \in Rids' \cup {NoRow}
    BY <1>b, <1>m, <1>s, <1>w, <1>x
  <2>2. \A k \in DOMAIN index : index[k] \in Rids' /\ heap'[index[k]].tab = "parent"
    BY <1>m, <1>s, <1>x
  <2> QED BY <2>1, <2>2, <1>a, <1>x DEF RowsOK, Outcomes
<1>2. OwnOnly'
  <2>1. \A j \in Rids : heap[j].xmax \in {NoTxn, heap[j].xmin} \/ Committed(heap[j].xmin) BY DEF UInv, OwnOnly
  <2>2. \A j \in Rids' : heap'[j].xmax \in {NoTxn, heap'[j].xmin} \/ (j \in Rids /\ Committed(heap[j].xmin))
    BY <2>1, <1>m, <1>s, <1>w
  <2> QED BY <2>2, <1>s, <1>cm DEF OwnOnly
<1>sb. \A j \in Rids : \A y : SeenBy(j, y)' <=> SeenBy(j, y)
  BY <1>s, <1>cm DEF SeenBy
<1>tt. \A k : k.rid \in Rids => (TouchTask(k)' <=> TouchTask(k))
  BY <1>s DEF TouchTask
<1>e. n.phase \in {"lookup", "next"} /\ ~Searching(n) /\ ~Engaged(n) /\ ~Touching(n)
      /\ (Checking(n) <=> n.phase = "lookup") /\ ~Checking(t)
  BY <1>a, <1>d, <1>o, <1>p DEF Checking, Searching, Engaged, Targeted, Touching
<1>3. ASSUME NEW r \in Sessions PROVE SessionGood(session[r])'
  <2> SUFFICES ASSUME NEW u, u = session'[r] PROVE SessionGood(u)'
    OBVIOUS
  <2>1. CASE r = s
    <3>0. /\ t.verdict = "none" /\ t.failed = FALSE /\ t.prog.stmts \in Seq(Statement) /\ t.prog.stmts # <<>>
          /\ \A k \in DOMAIN t.work : t.work[k].rid \in Rids /\ SeenBy(t.work[k].rid, t.id) /\ TouchTask(t.work[k])
          /\ \A l \in DOMAIN t.work : t.work[l].kind = "touch" =>
               /\ heap[t.work[l].rid].xmax # t.id
               /\ \A k \in DOMAIN t.work : t.work[k].kind = "touch" /\ (t.work[k].rid = t.work[l].rid => k = l)
      BY <1>a, <1>q DEF SessionGood, FateOK, TaskOK, OnceOK, Closing, Session0, WorkOK
    <3>u. u = n BY <2>1, <1>c, <1>o
    <3>1. FateOK(n)' BY <3>0, <1>d, <1>e, <1>o DEF FateOK, Closing
    <3>2. TaskOK(n)'
      <4>1. \A k \in DOMAIN n.work : SeenBy(n.work[k].rid, n.id)' /\ TouchTask(n.work[k])'
        BY <3>0, <1>d, <1>o, <1>sb, <1>tt
      <4>2. ~Searching(n)' /\ ~Engaged(n)' BY <1>e DEF Searching, Engaged, Targeted
      <4> QED BY <3>0, <4>1, <4>2, <1>d, <1>e, <1>o DEF TaskOK
    <3>3. OnceOK(n)'
      <4>1. \A l \in DOMAIN n.work : n.work[l].kind = "touch" =>
               /\ heap'[n.work[l].rid].xmax # n.id
               /\ \A k \in DOMAIN n.work : n.work[k].kind = "touch" /\ (n.work[k].rid = n.work[l].rid => k = l)
        BY <3>0, <1>d, <1>o, <1>s
      <4>2. ~Engaged(n)' BY <1>e DEF Engaged, Targeted
      <4> QED BY <4>1, <4>2 DEF OnceOK
    <3>4. NewOK(n)'
      <4>1. n.phase = "lookup" => t.task.tab = "parent" BY <1>d, <1>o, <1>p
      <4> QED BY <4>1, <1>d, <1>e, <1>m, <1>o, <1>w DEF NewOK, Checking
    <3> QED BY <3>u, <3>1, <3>2, <3>3, <3>4 DEF SessionGood
  <2>2. CASE r # s
    <3>0. session[r] = u /\ SessionGood(u) /\ WorkOK(u) BY <2>2, <1>c, SessionShape DEF UInv, Session0
    <3>1. FateOK(u)' BY <3>0, <1>a DEF SessionGood, FateOK, DecidesFirst
    <3>2. TaskOK(u)'
      <4>1. TaskOK(u) BY <3>0 DEF SessionGood
      <4>2. \A k \in DOMAIN u.work : SeenBy(u.work[k].rid, u.id)' /\ TouchTask(u.work[k])'
        BY <3>0, <4>1, <1>sb, <1>tt DEF TaskOK, WorkOK
      <4>3. Engaged(u) => u.task.rid \in Rids' /\ SeenBy(u.task.rid, u.id)' /\ TouchTask(u.task)'
        BY <4>1, <1>m, <1>sb, <1>tt DEF TaskOK
      <4>4. (Engaged(u)' <=> Engaged(u)) /\ (Searching(u)' <=> Searching(u)) BY DEF Engaged, Targeted, Searching
      <4> QED BY <4>1, <4>2, <4>3, <4>4 DEF TaskOK
    <3>3. OnceOK(u)'
      <4>1. OnceOK(u) /\ (Engaged(u) => u.task.rid \in Rids) BY <3>0 DEF SessionGood, TaskOK
      <4>2. (Engaged(u)' <=> Engaged(u)) BY DEF Engaged, Targeted
      <4>3. \A k \in DOMAIN u.work : heap'[u.work[k].rid].xmax = heap[u.work[k].rid].xmax BY <3>0, <1>s DEF WorkOK
      <4>4. Engaged(u) => heap'[u.task.rid].xmax = heap[u.task.rid].xmax BY <4>1, <1>s
      <4> QED BY <4>1, <4>2, <4>3, <4>4 DEF OnceOK
    <3>4. NewOK(u)'
      <4>1. NewOK(u) BY <3>0 DEF SessionGood
      <4>2. u.new \in Rids => /\ heap'[u.new].tab = heap[u.new].tab /\ heap'[u.new].key = heap[u.new].key
                              /\ heap'[u.new].xmin = heap[u.new].xmin /\ u.new \in Rids'
        BY <1>m, <1>s
      <4> QED BY <4>1, <4>2 DEF NewOK, Checking
    <3> QED BY <3>1, <3>2, <3>3, <3>4 DEF SessionGood
  <2> QED BY <2>1, <2>2
<1>t. ASSUME Pure, t.task.kind = "touch"
      PROVE  /\ Touching(t) /\ i \in Rids /\ heap[i].xmax = t.id /\ SeenBy(i, t.id)
             /\ heap[i].tab = "parent" /\ heap[i].key = t.task.key /\ t.task.tab = "parent"
             /\ ~Pending(i) /\ ~Lost(heap[i].xmin) /\ status[heap[i].xmin] # "aborted"
  <2>1. Touching(session[s]) BY <1>a, <1>i, <1>t DEF Touching
  <2> QED BY <2>1, <1>i, <1>t, ReplacedRow
<1>4. ASSUME Pure'
      PROVE  /\ \A r \in Sessions : (EnterOK(session[r]) /\ Honest(session[r]))'
             /\ Apart' /\ Anchored' /\ Links' /\ Touched'
  <2>0. Pure
    BY <1>4, <1>a DEF Pure
  <2>1. \A y : Lost(y)' <=> Lost(y)
    <3>1. \A r \in Sessions : session'[r].id = session[r].id /\ session'[r].verdict = session[r].verdict
                              /\ session'[r].failed = session[r].failed
      BY <1>c, <1>d, <1>i
    <3> QED BY <3>1, <1>a, <1>c DEF Lost, Losing
  <2>l. \A j \in Rids : Lost(heap[j].xmin) <=> Lost(heap[j].xmin)'
    BY <2>1, <1>s
  <2>2. \A j : Pending(j) => Pending(j)'
    <3> SUFFICES ASSUME NEW j, NEW r \in Sessions, Checking(session[r]), session[r].new = j PROVE Pending(j)'
      BY DEF Pending
    <3>1. r # s BY <1>e, <1>i
    <3>2. session'[r] = session[r] BY <3>1, <1>c
    <3> QED BY <3>2, <1>c DEF Pending, Checking
  <2>n. t.task.tab = "parent" /\ t.task.kind # "touch" => Pending(new)'
    <3> SUFFICES ASSUME n.phase = "lookup" PROVE Pending(new)' BY <1>d, <1>o, <1>p
    <3>1. Checking(n) /\ n.new = new /\ session'[s] = n BY <1>c, <1>d, <1>e, <1>o
    <3> QED BY <3>1, <1>c DEF Pending, Checking
  <2>3. \A j \in Rids : Dead(j) => Dead(j)'
    BY <2>l, <1>s, <1>cm DEF Dead
  <2>4. \A j, k \in Rids : Twins(j, k)' <=> Twins(j, k)
    BY <1>s DEF Twins
  <2>5. \A j, k \in Rids : Excluded(j, k) => Excluded(j, k)'
    BY <2>2, <2>3, <1>s DEF Excluded
  <2>6. ASSUME NEW j \in Rids, heap[j].tab = "parent", t.task.tab = "parent", heap[j].key = t.task.key
        PROVE  Excluded(new, j)' \/ Excluded(j, new)'
    <3>1. CASE t.task.kind # "touch" BY <3>1, <2>6, <2>n DEF Excluded
    <3>2. CASE t.task.kind = "touch" /\ j = i
      <4>1. heap'[j].xmax = heap'[new].xmin BY <3>2, <2>0, <1>s, <1>t, <1>w
      <4> QED BY <4>1 DEF Excluded
    <3>3. CASE t.task.kind = "touch" /\ j # i
      <4>1. Twins(i, j) BY <2>0, <2>6, <3>3, <1>t DEF Twins
      <4>2. Cleared(j, t.id) BY <4>1, <2>0, <3>3, <1>i, <1>t DEF UInv, Touched
      <4>3. Dead(j) \/ Pending(j) \/ heap'[j].xmax = heap'[new].xmin BY <4>2, <1>s, <1>w DEF Cleared
      <4> QED BY <4>3, <2>2, <2>3 DEF Excluded
    <3> QED BY <3>1, <3>2, <3>3
  <2>7. Apart'
    <3> SUFFICES ASSUME NEW j \in Rids', NEW k \in Rids', Twins(j, k)' PROVE Excluded(j, k)' \/ Excluded(k, j)'
      BY DEF Apart
    <3>1. CASE j \in Rids /\ k \in Rids BY <3>1, <2>0, <2>4, <2>5 DEF UInv, Apart
    <3>2. CASE j = new /\ k \in Rids BY <3>2, <2>6, <1>s, <1>w DEF Twins
    <3>3. CASE k = new /\ j \in Rids BY <3>3, <2>6, <1>s, <1>w DEF Twins
    <3>4. j # k BY DEF Twins
    <3> QED BY <3>1, <3>2, <3>3, <3>4, <1>m
  <2>i. Range(index)' = Range(index) /\ Range(index) \subseteq Rids
    <3>1. Range(index) \subseteq Rids BY <1>x DEF Range
    <3> QED BY <3>1, <1>a DEF Range
  <2>l2. \A a \in Rids : Unhot(a) \/ heap[heap[a].ctid].xmin = heap[a].xmax
    BY <2>0 DEF UInv, Links
  <2>8. ASSUME NEW a \in Range(index), NEW c \in Rids, Hot(a, c) PROVE Hot(a, c)' \/ Lost(heap[c].xmin)
    <3>1. a \in Rids /\ heap[a].ctid \in Rids BY <2>8, <2>i, <1>x DEF Hot
    <3>2. CASE heap'[a].ctid = heap[a].ctid
      BY <2>8, <3>1, <3>2, <1>s, <1>cm DEF Hot
    <3>3. CASE t.task.kind = "touch" /\ a = i /\ heap'[a].ctid = new
      <4>1. heap[i].xmax = t.id BY <3>3, <2>0, <1>t
      <4>2. CASE Unhot(a)
        <5>1. status[heap[heap[a].ctid].xmin] = "aborted" BY <4>2, <2>8 DEF Unhot, Hot
        <5>2. heap[c].xmin = heap[heap[a].ctid].xmin BY <5>1, <2>8 DEF Hot, Committed
        <5> QED BY <5>1, <5>2 DEF Lost
      <4>3. CASE heap[heap[a].ctid].xmin = heap[a].xmax
        <5>1. heap[c].xmin = t.id BY <4>1, <4>3, <2>8, <3>3, <1>q DEF Hot, Committed
        <5> QED BY <5>1, <3>3, <1>m, <1>s, <1>w DEF Hot
      <4> QED BY <3>1, <4>2, <4>3, <2>l2
    <3> QED BY <3>1, <3>2, <3>3, <1>s
  <2>9. Anchored'
    <3>0. \A c \in Rids : heap[c].tab = "parent" =>
            \/ c \in Range(index) \/ Pending(c) \/ Lost(heap[c].xmin)
            \/ \E a \in Range(index) : heap[a].key = heap[c].key /\ Hot(a, c)
      BY <2>0 DEF UInv, Anchored
    <3> SUFFICES ASSUME NEW c \in Rids', heap'[c].tab = "parent"
                 PROVE  \/ c \in Range(index) \/ Pending(c)' \/ Lost(heap[c].xmin)'
                        \/ \E a \in Range(index) : (heap[a].key = heap[c].key)' /\ Hot(a, c)'
      BY <2>i DEF Anchored
    <3>1. CASE c \in Rids
      <4>1. \/ c \in Range(index) \/ Pending(c) \/ Lost(heap[c].xmin)
            \/ \E a \in Range(index) : heap[a].key = heap[c].key /\ Hot(a, c)
        BY <3>0, <3>1, <1>s
      <4>2. CASE \E a \in Range(index) : heap[a].key = heap[c].key /\ Hot(a, c)
        <5>1. PICK a \in Range(index) : heap[a].key = heap[c].key /\ Hot(a, c) BY <4>2
        <5>2. heap'[a].key = heap'[c].key BY <5>1, <3>1, <2>i, <1>s
        <5>3. Hot(a, c)' \/ Lost(heap[c].xmin) BY <5>1, <3>1, <2>8
        <5> QED BY <5>2, <5>3, <3>1, <2>l
      <4> QED BY <4>1, <4>2, <3>1, <2>2, <2>l
    <3>2. CASE c = new /\ t.task.kind # "touch"
      BY <3>2, <2>n, <1>w
    <3>3. CASE c = new /\ t.task.kind = "touch"
      <4>0. heap'[i].key = heap'[c].key /\ i \in Rids /\ heap[i].tab = "parent" BY <3>3, <2>0, <1>s, <1>t, <1>w
      <4>1. CASE i \in Range(index)
        <5>1. heap'[i].ctid = new BY <3>3, <4>0, <1>g, <1>h
        <5>2. Hot(i, c)' BY <5>1, <3>3, <1>m DEF Hot
        <5> QED BY <4>0, <4>1, <5>2
      <4>2. CASE i \notin Range(index)
        <5>1. PICK a \in Range(index) : heap[a].key = heap[i].key /\ Hot(a, i)
          BY <4>0, <4>2, <3>0, <3>3, <2>0, <1>t
        <5>2. a # i /\ a \in Rids /\ heap[a].ctid \in Rids /\ heap[a].ctid # NoRow BY <4>2, <5>1, <2>i, <1>x DEF Hot
        <5>3. heap'[a].ctid = heap[a].ctid BY <5>2, <1>s
        <5>4. heap[heap[a].ctid].xmin = t.id \/ Committed(heap[heap[a].ctid].xmin)
          BY <5>1, <3>3, <2>0, <1>t DEF Hot, SeenBy
        <5>5. Hot(a, c)' BY <5>2, <5>3, <5>4, <3>3, <1>cm, <1>s, <1>w DEF Hot
        <5>6. heap'[a].key = heap'[c].key BY <4>0, <5>1, <5>2, <1>s
        <5> QED BY <5>5, <5>6
      <4> QED BY <4>1, <4>2
    <3> QED BY <3>1, <3>2, <3>3, <1>m
  <2>10. \A a \in Rids : heap'[a].ctid = heap[a].ctid => (Unhot(a)' <=> Unhot(a))
    BY <1>a, <1>s, <1>x DEF Unhot
  <2>11. Links'
    <3> SUFFICES ASSUME NEW a \in Rids' PROVE Unhot(a)' \/ heap'[heap'[a].ctid].xmin = heap'[a].xmax
      BY DEF Links
    <3>1. CASE a = new BY <3>1, <1>w DEF Unhot
    <3>2. CASE a \in Rids /\ heap'[a].ctid = heap[a].ctid
      <4>1. CASE Unhot(a) BY <3>2, <4>1, <2>10
      <4>2. CASE ~Unhot(a)
        <5>1. heap[a].ctid \in Rids BY <3>2, <4>2, <1>x DEF Unhot
        <5> QED BY <3>2, <4>2, <5>1, <2>l2, <1>s
      <4> QED BY <4>1, <4>2
    <3>3. CASE t.task.kind = "touch" /\ a = i /\ heap'[a].ctid = new
      BY <3>3, <2>0, <1>s, <1>t, <1>w
    <3> QED BY <3>1, <3>2, <3>3, <1>m, <1>s
  <2>12. ASSUME NEW r \in Sessions PROVE (EnterOK(session[r]) /\ Honest(session[r]))'
    <3> SUFFICES ASSUME NEW u, u = session'[r] PROVE EnterOK(u)' /\ Honest(u)'
      OBVIOUS
    <3>1. CASE r = s
      <4>1. t.failed = FALSE BY <1>a, <1>q DEF SessionGood, FateOK, Closing
      <4>2. u = n BY <3>1, <1>c, <1>o
      <4> QED BY <4>1, <4>2, <1>d, <1>e, <1>o DEF EnterOK, Honest
    <3>2. CASE r # s
      <4>1. session[r] = u /\ EnterOK(u) /\ Honest(u) /\ CandsOK(u)
        BY <3>2, <1>c, <2>0, SessionShape DEF UInv, Session0
      <4>2. ASSUME u.phase = "enter", NEW l \in DOMAIN u.cands
            PROVE  Ignorable(u.cands[l], u.id)' /\ Unhot(u.cands[l])'
        <5>0. PICK c : c = u.cands[l] OBVIOUS
        <5>1. Ignorable(c, u.id) /\ Unhot(c) /\ c \in Rids BY <4>1, <4>2, <5>0 DEF EnterOK, CandsOK
        <5>2. u.id # t.id BY <3>2, <4>1, <1>b
        <5>3. Ignorable(c, u.id)' BY <5>1, <1>a, <1>s, <1>cm DEF Ignorable
        <5>4. ~(t.task.kind = "touch" /\ c = i)
          <6> SUFFICES ASSUME t.task.kind = "touch", c = i PROVE FALSE OBVIOUS
          <6>1. heap[c].xmax = t.id /\ status[heap[c].xmin] # "aborted" BY <2>0, <1>t
          <6> QED BY <6>1, <5>1, <5>2, <1>q DEF Ignorable, Committed
        <5>5. Unhot(c)' BY <5>1, <5>4, <2>10, <1>s
        <5> QED BY <5>0, <5>3, <5>5
      <4>3. EnterOK(u)' BY <4>2 DEF EnterOK
      <4> QED BY <4>1, <4>3 DEF Honest
    <3> QED BY <3>1, <3>2
  <2>13. \A j \in Rids : \A y : Cleared(j, y) => Cleared(j, y)'
    BY <2>2, <2>3, <1>s DEF Cleared
  <2>14. Touched'
    <3>1. ASSUME NEW r \in Sessions, NEW u, u = session'[r], Touching(u)
          PROVE  /\ \A j \in Rids' : Twins(u.task.rid, j)' => Cleared(j, u.id)'
                 /\ \A q \in Sessions \ {r} : Touching(session'[q]) => session'[q].task.key # u.task.key
      <4>1. r # s BY <3>1, <1>c, <1>e, <1>o
      <4>2. session[r] = u BY <3>1, <4>1, <1>c
      <4>3. /\ \A j \in Rids : Twins(u.task.rid, j) => Cleared(j, u.id)
            /\ \A q \in Sessions \ {r} : Touching(session[q]) => session[q].task.key # u.task.key
        BY <3>1, <4>2, <2>0 DEF UInv, Touched
      <4>4. u.task.rid \in Rids /\ heap[u.task.rid].tab = "parent" /\ heap[u.task.rid].key = u.task.key
        BY <3>1, <4>2, <2>0, ReplacedRow
      <4>5. ASSUME NEW j \in Rids', Twins(u.task.rid, j)' PROVE Cleared(j, u.id)'
        <5>1. CASE j \in Rids BY <5>1, <4>3, <4>4, <4>5, <2>4, <2>13
        <5>2. CASE j = new
          <6>1. t.task.tab = "parent" /\ t.task.key = u.task.key BY <5>2, <4>4, <4>5, <1>s, <1>w DEF Twins
          <6>2. t.task.kind # "touch"
            <7> SUFFICES ASSUME t.task.kind = "touch" PROVE FALSE OBVIOUS
            <7>1. Touching(session[s]) BY <2>0, <1>i, <1>t
            <7> QED BY <7>1, <6>1, <4>1, <4>3, <1>i
          <6> QED BY <6>1, <6>2, <5>2, <2>n DEF Cleared
        <5> QED BY <5>1, <5>2, <1>m
      <4>6. ASSUME NEW q \in Sessions \ {r}, Touching(session'[q]) PROVE session'[q].task.key # u.task.key
        <5>1. q # s BY <4>6, <1>c, <1>e, <1>o
        <5> QED BY <5>1, <4>3, <4>6, <1>c
      <4> QED BY <4>5, <4>6
    <3> SUFFICES ASSUME NEW r \in Sessions, Touching(session'[r])
                 PROVE  /\ \A j \in Rids' : Twins(session[r].task.rid, j)' => Cleared(j, session[r].id)'
                        /\ \A q \in Sessions \ {r} : Touching(session'[q]) => session'[q].task.key # session'[r].task.key
      BY <1>c DEF Touched, Touching
    <3>2. PICK u : u = session'[r] OBVIOUS
    <3>3. /\ \A j \in Rids' : Twins(u.task.rid, j)' => Cleared(j, u.id)'
          /\ \A q \in Sessions \ {r} : Touching(session'[q]) => session'[q].task.key # u.task.key
      BY <3>1, <3>2
    <3> QED BY <3>2, <3>3
  <2> QED BY <2>7, <2>9, <2>11, <2>12, <2>14
<1> QED BY <1>1, <1>2, <1>3, <1>4, <1>c DEF UInv

LEMMA EnterU ==
  ASSUME IInv, UInv, NEW s \in Sessions, Enter(s)
  PROVE  UInv'
<1>i. PICK t, new : t = session[s] /\ new = t.new
  OBVIOUS
<1> DEFINE raced == \E k \in DOMAIN index : heap[index[k]].key = t.task.key /\ index[k] \notin Range(t.cands)
           causes == {<<raced, "raced">>}
<1>a. /\ t.phase = "enter" /\ index' = Append(index, new) /\ UNCHANGED <<heap, status>>
      /\ To(s, "next") /\ Flag(causes)
  BY <1>i DEF Enter
<1>b. /\ t.id \in DOMAIN status /\ t.id # NoTxn /\ status[t.id] = "running"
      /\ \A r \in Sessions \ {s} : session[r].id # t.id
  BY <1>a, <1>i, OwnId DEF IInv, Ending, Undecided
<1>q. SessionGood(t) /\ Session0(t)
  BY <1>i, SessionShape DEF UInv
<1>r. Pure' => ~raced
  <2>1. raced \in BOOLEAN /\ <<raced, "raced">> \in causes OBVIOUS
  <2> HIDE DEF raced, causes
  <2>2. raced => "raced" \in exposed' BY <2>1, <1>a, FlagRaises
  <2> QED BY <2>2 DEF Pure
<1>f. exposed \subseteq exposed' /\ (Pure' => Pure)
  <2>1. exposed \subseteq exposed'
    <3> HIDE DEF causes
    <3> QED BY <1>a, FlagGrows
  <2> QED BY <2>1 DEF Pure
<1> HIDE DEF raced, causes
<1>n. PICK n : n = [t EXCEPT !.phase = "next"]
  OBVIOUS
<1>d. Rest(t, n) /\ n.phase = "next"
  BY <1>n, <1>q, PhaseOnly DEF Session0
<1>c. /\ Sessions' = Sessions
      /\ (\A r \in Sessions \ {s} : session'[r] = session[r])
      /\ session'[s] = n
  BY <1>a, <1>i, <1>n DEF To, Sessions
<1>k. ~t.detect /\ Checking(t) /\ new \in Rids /\ heap[new].tab = "parent" /\ heap[new].key = t.task.key /\ heap[new].xmin = t.id
  BY <1>a, <1>i, <1>q DEF SessionGood, NewOK, Checking
<1>e. ~Searching(n) /\ ~Engaged(n) /\ ~Touching(n) /\ ~Checking(n)
  BY <1>d DEF Checking, Searching, Engaged, Targeted, Touching
<1>h. Rids' = Rids
  BY <1>a DEF Rids
<1>x. /\ \A j \in Rids : heap[j].xmin \in DOMAIN status /\ heap[j].ctid \in Rids \cup {NoRow}
      /\ \A k \in DOMAIN index : index[k] \in Rids /\ heap[index[k]].tab = "parent"
      /\ \A y \in DOMAIN status : status[y] \in Outcomes
  BY DEF UInv, RowsOK
<1>m. /\ \A k \in DOMAIN index' : index'[k] = new \/ (k \in DOMAIN index /\ index'[k] = index[k])
      /\ Range(index)' = Range(index) \cup {new}
  <2>1. IsSeq(index) BY DEF IInv, Shape
  <2>2. OneMore(index, new, index') BY <2>1, <1>a, AppendOne
  <2>3. /\ Len(index) \in Nat /\ DOMAIN index = 1..Len(index) /\ DOMAIN index' = 1..(Len(index) + 1)
        /\ \A k \in DOMAIN index : index'[k] = index[k]
        /\ index'[Len(index) + 1] = new
    BY <2>2 DEF OneMore
  <2>4. \A k \in DOMAIN index' : k = Len(index) + 1 \/ k \in DOMAIN index BY <2>3
  <2>5. Len(index) + 1 \in DOMAIN index' /\ DOMAIN index \subseteq DOMAIN index' BY <2>3
  <2>6. \A k \in DOMAIN index' : index'[k] = new \/ (k \in DOMAIN index /\ index'[k] = index[k]) BY <2>3, <2>4
  <2>7. Range(index') = Range(index) \cup {new}
    <3>1. Range(index') = {index'[k] : k \in DOMAIN index'} /\ Range(index) = {index[k] : k \in DOMAIN index} BY DEF Range
    <3>2. \A e \in Range(index') : e \in Range(index) \cup {new} BY <2>6, <3>1
    <3>3. \A e \in Range(index) \cup {new} : e \in Range(index')
      <4>1. new \in Range(index') BY <2>3, <2>5, <3>1
      <4>2. \A e \in Range(index) : e \in Range(index') BY <2>3, <2>5, <3>1
      <4> QED BY <4>1, <4>2
    <3> QED BY <3>2, <3>3
  <2> QED BY <2>6, <2>7
<1>1. RowsOK'
  <2>1. \A k \in DOMAIN index' : index'[k] \in Rids /\ heap[index'[k]].tab = "parent" BY <1>k, <1>m, <1>x
  <2> QED BY <2>1, <1>a, <1>h, <1>x DEF RowsOK, Outcomes
<1>cm. \A y : Committed(y)' <=> Committed(y)
  BY <1>a DEF Committed
<1>2. OwnOnly'
  BY <1>a, <1>h, <1>cm DEF UInv, OwnOnly
<1>3. ASSUME NEW r \in Sessions PROVE SessionGood(session[r])'
  <2> SUFFICES ASSUME NEW u, u = session'[r] PROVE SessionGood(u)'
    OBVIOUS
  <2>1. SessionGood(u)
    <3>1. CASE r # s BY <3>1, <1>c DEF UInv
    <3>2. CASE r = s
      <4>0. u = n BY <3>2, <1>c
      <4>1. FateOK(n) BY <1>a, <1>d, <1>q DEF SessionGood, FateOK, Rest, Closing
      <4>2. TaskOK(n) BY <1>a, <1>d, <1>e, <1>q DEF SessionGood, TaskOK, Rest, Closing
      <4>3. OnceOK(n) BY <1>d, <1>e, <1>q DEF SessionGood, OnceOK, Rest
      <4>4. NewOK(n) BY <1>d, <1>e DEF NewOK
      <4> QED BY <4>0, <4>1, <4>2, <4>3, <4>4 DEF SessionGood
    <3> QED BY <3>1, <3>2
  <2>2. (FateOK(u) => FateOK(u)') /\ (TaskOK(u) => TaskOK(u)') /\ (OnceOK(u) => OnceOK(u)') /\ (NewOK(u) => NewOK(u)')
    BY <1>a, <1>h DEF FateOK, DecidesFirst, TaskOK, OnceOK, NewOK, SeenBy, Committed, TouchTask, Engaged, Targeted, Searching, Checking
  <2> QED BY <2>1, <2>2 DEF SessionGood
<1>4. ASSUME Pure'
      PROVE  /\ \A r \in Sessions : (EnterOK(session[r]) /\ Honest(session[r]))'
             /\ Apart' /\ Anchored' /\ Links' /\ Touched'
  <2>0. Pure /\ EnterOK(t)
    BY <1>4, <1>f, <1>i DEF UInv
  <2>1. \A y : Lost(y)' <=> Lost(y)
    <3>1. \A r \in Sessions : session'[r].id = session[r].id /\ session'[r].verdict = session[r].verdict
                              /\ session'[r].failed = session[r].failed
      BY <1>c, <1>d, <1>i DEF Rest
    <3> QED BY <3>1, <1>a, <1>c DEF Lost, Losing
  <2>2. \A j : Pending(j) => Pending(j)' \/ j = new
    <3> SUFFICES ASSUME NEW j, NEW r \in Sessions, Checking(session[r]), session[r].new = j, j # new PROVE Pending(j)'
      BY DEF Pending
    <3>1. r # s BY <1>i
    <3>2. session'[r] = session[r] BY <3>1, <1>c
    <3> QED BY <3>2, <1>c DEF Pending, Checking
  <2>3. \A j : Dead(j) => Dead(j)'
    BY <2>1, <1>a, <1>cm DEF Dead
  \* Every other row of the key has been ignored, is being checked or does not count.
  <2>4. ASSUME NEW c \in Rids, heap[c].tab = "parent", heap[c].key = t.task.key
        PROVE  Ignorable(c, t.id) \/ Pending(c) \/ Lost(heap[c].xmin)
    <3>1. \A a \in Range(index) : heap[a].key = t.task.key => Ignorable(a, t.id) /\ Unhot(a)
      <4> SUFFICES ASSUME NEW a \in Range(index), heap[a].key = t.task.key PROVE Ignorable(a, t.id) /\ Unhot(a)
        OBVIOUS
      <4>1. PICK k \in DOMAIN index : index[k] = a BY DEF Range
      <4>2. a \in Range(t.cands) BY <4>1, <1>4, <1>r DEF raced
      <4>3. PICK l \in DOMAIN t.cands : t.cands[l] = a BY <4>2 DEF Range
      <4> QED BY <4>3, <2>0, <1>a DEF EnterOK
    <3>2. \/ c \in Range(index) \/ Pending(c) \/ Lost(heap[c].xmin)
          \/ \E a \in Range(index) : heap[a].key = heap[c].key /\ Hot(a, c)
      BY <2>0, <2>4 DEF UInv, Anchored
    <3>3. CASE \E a \in Range(index) : heap[a].key = heap[c].key /\ Hot(a, c)
      <4>1. PICK a \in Range(index) : heap[a].key = heap[c].key /\ Hot(a, c) BY <3>3
      <4>2. Unhot(a) BY <4>1, <3>1, <2>4
      <4>3. status[heap[heap[a].ctid].xmin] = "aborted" BY <4>1, <4>2 DEF Unhot, Hot
      <4>4. heap[c].xmin = heap[heap[a].ctid].xmin BY <4>1, <4>3 DEF Hot, Committed
      <4> QED BY <4>3, <4>4 DEF Lost
    <3> QED BY <3>1, <3>2, <3>3, <2>4
  <2>5. \A j, k : Twins(j, k)' <=> Twins(j, k)
    BY <1>a DEF Twins
  <2>6. ASSUME NEW c \in Rids, c # new, heap[c].tab = "parent", heap[c].key = t.task.key PROVE Excluded(c, new)'
    <3>1. Ignorable(c, t.id) \/ Pending(c) \/ Lost(heap[c].xmin) BY <2>4, <2>6
    <3>2. Dead(c) \/ Pending(c) \/ heap[c].xmax = heap[new].xmin BY <3>1, <1>k DEF Ignorable, Dead, Lost
    <3> QED BY <3>2, <2>2, <2>3, <2>6, <1>a DEF Excluded
  <2>7. \A j, k \in Rids : Twins(j, k) /\ Excluded(j, k) => Excluded(j, k)' \/ Excluded(k, j)'
    <3> SUFFICES ASSUME NEW j \in Rids, NEW k \in Rids, Twins(j, k), Excluded(j, k)
                 PROVE  Excluded(j, k)' \/ Excluded(k, j)'
      OBVIOUS
    <3>1. CASE Dead(j) \/ heap[j].xmax = heap[k].xmin BY <3>1, <2>3, <1>a DEF Excluded
    <3>2. CASE Pending(j) /\ j # new BY <3>2, <2>2 DEF Excluded
    <3>3. CASE j = new
      BY <3>3, <2>6, <1>k DEF Twins
    <3> QED BY <3>1, <3>2, <3>3 DEF Excluded
  <2>8. Apart'
    <3>1. \A j, k : Twins(j, k) => Twins(k, j) BY DEF Twins
    <3>2. \A j, k \in Rids : Twins(j, k) => Excluded(j, k) \/ Excluded(k, j) BY <2>0 DEF UInv, Apart
    <3>3. \A j, k \in Rids : Twins(j, k) => Excluded(j, k)' \/ Excluded(k, j)' BY <3>1, <3>2, <2>7
    <3> QED BY <3>3, <2>5, <1>h DEF Apart
  <2>9. Anchored'
    <3>0. \A a, c : Hot(a, c) => Hot(a, c)' BY <1>a, <1>cm DEF Hot
    <3> SUFFICES ASSUME NEW c \in Rids, heap[c].tab = "parent"
                 PROVE  \/ c \in Range(index)' \/ Pending(c)' \/ Lost(heap[c].xmin)'
                        \/ \E a \in Range(index)' : (heap[a].key = heap[c].key)' /\ Hot(a, c)'
      BY <1>a, <1>h DEF Anchored
    <3>1. \/ c \in Range(index) \/ Pending(c) \/ Lost(heap[c].xmin)
          \/ \E a \in Range(index) : heap[a].key = heap[c].key /\ Hot(a, c)
      BY <2>0 DEF UInv, Anchored
    <3>2. Lost(heap[c].xmin) => Lost(heap[c].xmin)' BY <2>1, <1>a
    <3> QED BY <3>0, <3>1, <3>2, <2>2, <1>a, <1>m
  <2>10. \A a : Unhot(a)' <=> Unhot(a)
    BY <1>a DEF Unhot
  <2>11. Links'
    BY <2>0, <2>10, <1>a, <1>h DEF UInv, Links
  <2>12. ASSUME NEW r \in Sessions PROVE (EnterOK(session[r]) /\ Honest(session[r]))'
    <3> SUFFICES ASSUME NEW u, u = session'[r] PROVE EnterOK(u)' /\ Honest(u)'
      OBVIOUS
    <3>1. EnterOK(u) /\ Honest(u)
      <4>1. CASE r # s BY <4>1, <2>0, <1>c DEF UInv
      <4>2. CASE r = s
        <5>1. t.failed = FALSE BY <1>a, <1>q DEF SessionGood, FateOK, Closing
        <5> QED BY <4>2, <5>1, <1>c, <1>d DEF EnterOK, Honest, Rest
      <4> QED BY <4>1, <4>2
    <3>2. \A j, y : Ignorable(j, y)' <=> Ignorable(j, y) BY <1>a, <1>cm DEF Ignorable
    <3> QED BY <3>1, <3>2, <2>10 DEF EnterOK, Honest
  <2>13. Touched'
    <3>1. ASSUME NEW r \in Sessions, NEW u, u = session'[r], Touching(u)
          PROVE  /\ \A j \in Rids : Twins(u.task.rid, j) => Cleared(j, u.id)'
                 /\ \A q \in Sessions \ {r} : Touching(session'[q]) => session'[q].task.key # u.task.key
      <4>1. r # s BY <3>1, <1>c, <1>e
      <4>2. session[r] = u BY <3>1, <4>1, <1>c
      <4>3. /\ \A j \in Rids : Twins(u.task.rid, j) => Cleared(j, u.id)
            /\ \A q \in Sessions \ {r} : Touching(session[q]) => session[q].task.key # u.task.key
        BY <3>1, <4>2, <2>0 DEF UInv, Touched
      <4>4. /\ u.task.rid \in Rids /\ heap[u.task.rid].tab = "parent" /\ heap[u.task.rid].xmax = u.id
            /\ ~Pending(u.task.rid) /\ ~Lost(heap[u.task.rid].xmin) /\ status[heap[u.task.rid].xmin] # "aborted"
        BY <3>1, <4>2, <2>0, ReplacedRow
      <4>5. u.id # t.id /\ status[u.id] = "running"
        BY <3>1, <4>1, <4>2, <1>b DEF IInv, Ending, Undecided, Touching
      <4>6. ASSUME NEW j \in Rids, Twins(u.task.rid, j) PROVE Cleared(j, u.id)'
        <5>1. j # new
          <6> SUFFICES ASSUME j = new PROVE FALSE OBVIOUS
          <6>1. heap[u.task.rid].key = t.task.key BY <4>6, <1>k DEF Twins
          <6>2. Ignorable(u.task.rid, t.id) BY <6>1, <4>4, <2>4
          <6> QED BY <6>2, <4>4, <4>5 DEF Ignorable, Committed
        <5>2. Cleared(j, u.id) BY <4>3, <4>6
        <5> QED BY <5>1, <5>2, <2>2, <2>3, <1>a DEF Cleared
      <4>7. ASSUME NEW q \in Sessions \ {r}, Touching(session'[q]) PROVE session'[q].task.key # u.task.key
        <5>1. q # s BY <4>7, <1>c, <1>e
        <5> QED BY <5>1, <4>3, <4>7, <1>c
      <4> QED BY <4>6, <4>7
    <3> SUFFICES ASSUME NEW r \in Sessions, Touching(session'[r])
                 PROVE  /\ \A j \in Rids : Twins(session[r].task.rid, j)' => Cleared(j, session[r].id)'
                        /\ \A q \in Sessions \ {r} : Touching(session'[q]) => session'[q].task.key # session'[r].task.key
      BY <1>c, <1>h DEF Touched, Touching
    <3>2. PICK u : u = session'[r] OBVIOUS
    <3>3. /\ \A j \in Rids : Twins(u.task.rid, j)' => Cleared(j, u.id)'
          /\ \A q \in Sessions \ {r} : Touching(session'[q]) => session'[q].task.key # u.task.key
      BY <3>1, <3>2, <2>5
    <3> QED BY <3>2, <3>3
  <2> QED BY <2>8, <2>9, <2>11, <2>12, <2>13
<1> QED BY <1>1, <1>2, <1>3, <1>4, <1>c DEF UInv

-----------------------------------------------------------------------------

LEMMA InitU == Init => UInv
<1> SUFFICES ASSUME Init PROVE UInv
  OBVIOUS
<1>1. PICK w \in Workloads :
        /\ heap = [i \in 1..Len(w.parents) |-> Row("parent", w.parents[i], Past)]
                    \o [i \in 1..Len(w.children) |-> Row("child", w.children[i], Past)]
        /\ index = [i \in 1..Len(w.parents) |-> i]
        /\ status = <<"committed">>
        /\ session = [s \in DOMAIN w.programs |-> Idle(w.programs[s])]
  BY DEF Init
<1>2. /\ w.parents \in Seq(Nat) /\ w.children \in Seq(Nat)
      /\ \A i, j \in DOMAIN w.parents : w.parents[i] = w.parents[j] => i = j
      /\ \A s \in DOMAIN w.programs : w.programs[s] \in [block : BOOLEAN, ext : BOOLEAN, stmts : Seq(Statement)]
  BY ConstraintsAssumption
<1>3. PICK P, C : P = Len(w.parents) /\ C = Len(w.children) /\ P \in Nat /\ C \in Nat /\ DOMAIN w.parents = 1..P
  <2>1. Len(w.parents) \in Nat /\ DOMAIN w.parents = 1..Len(w.parents) BY <1>2, LenProperties
  <2>2. Len(w.children) \in Nat BY <1>2, LenProperties
  <2> QED BY <2>1, <2>2
<1>n. P \in Nat /\ C \in Nat
  BY <1>3
<1>4. /\ Rids = 1..(P + C)
      /\ \A i \in Rids : heap[i].xmin = Past /\ heap[i].xmax = NoTxn /\ heap[i].ctid = NoRow
      /\ \A i \in 1..P : heap[i].tab = "parent" /\ heap[i].key = w.parents[i]
      /\ \A i \in Rids : heap[i].tab = "parent" => i \in 1..P
  <2> DEFINE f == [i \in 1..P |-> Row("parent", w.parents[i], Past)]
             g == [i \in 1..C |-> Row("child", w.children[i], Past)]
             S == {f[i] : i \in 1..P} \cup {g[i] : i \in 1..C}
  <2>1. heap = f \o g BY <1>1, <1>3
  <2>2. f = [i \in 1..P |-> f[i]] /\ g = [i \in 1..C |-> g[i]] OBVIOUS
  <2>3. \A tab, key, x : LET r == Row(tab, key, x) IN r.tab = tab /\ r.key = key /\ r.xmin = x /\ r.xmax = NoTxn /\ r.ctid = NoRow
    BY DEF Row
  <2>4. \A i \in 1..P : f[i].tab = "parent" /\ f[i].key = w.parents[i] /\ f[i].xmin = Past /\ f[i].xmax = NoTxn /\ f[i].ctid = NoRow
    BY <2>3
  <2>5. \A i \in 1..C : g[i].tab = "child" /\ g[i].xmin = Past /\ g[i].xmax = NoTxn /\ g[i].ctid = NoRow
    BY <2>3
  <2> HIDE DEF f, g
  <2>6. IsSeq(f) /\ Len(f) = P /\ DOMAIN f = 1..P BY <1>3, <2>2, FunctionIsSeq
  <2>7. IsSeq(g) /\ Len(g) = C /\ DOMAIN g = 1..C BY <1>3, <2>2, FunctionIsSeq
  <2>8. SeqIn(f, S) /\ SeqIn(g, S) BY <2>6, <2>7 DEF SeqIn
  <2> HIDE DEF S
  <2>9. f \in Seq(S) /\ g \in Seq(S) BY <2>8, SeqInIsSeq
  <2>10. /\ heap \in Seq(S) /\ Len(heap) = P + C
         /\ \A i \in 1..(P + C) : heap[i] = IF i <= P THEN f[i] ELSE g[i - P]
    BY <2>1, <2>6, <2>7, <2>9, ConcatProperties
  <2>11. Rids = 1..(P + C) BY <2>10, LenProperties DEF Rids
  <2>12. ASSUME NEW i \in Rids
         PROVE  \/ i \in 1..P /\ heap[i] = f[i]
                \/ i \notin 1..P /\ i - P \in 1..C /\ heap[i] = g[i - P]
    <3>1. i \in 1..(P + C) BY <2>11
    <3>2. heap[i] = IF i <= P THEN f[i] ELSE g[i - P] BY <3>1, <2>10
    <3>3. CASE i <= P BY <3>1, <3>2, <3>3, <1>n
    <3>4. CASE ~(i <= P) BY <3>1, <3>2, <3>4, <1>n
    <3> QED BY <3>3, <3>4
  <2>13. 1..P \subseteq Rids BY <1>n, <2>11
  <2> QED BY <2>4, <2>5, <2>11, <2>12, <2>13
<1>5. DOMAIN status = {1} /\ status[1] = "committed"
  BY <1>1
<1>6. DOMAIN index = 1..P /\ Range(index) = 1..P /\ \A k \in DOMAIN index : index[k] = k
  BY <1>1, <1>3 DEF Range
<1>7. 1..P \subseteq Rids
  BY <1>n, <1>4
<1>8. RowsOK /\ OwnOnly
  BY <1>4, <1>5, <1>6, <1>7 DEF RowsOK, OwnOnly, Past, Outcomes
<1>9. ASSUME NEW s \in Sessions
      PROVE  SessionGood(session[s]) /\ session[s].phase = "start" /\ EnterOK(session[s]) /\ Honest(session[s])
  <2> DEFINE p == w.programs[s]
             t == Idle(p)
  <2>1. session[s] = t /\ s \in DOMAIN w.programs BY <1>1 DEF Sessions
  <2>2. p \in [block : BOOLEAN, ext : BOOLEAN, stmts : Seq(Statement)] BY <1>2, <2>1
  <2>3. p.stmts \in Seq(Statement) BY <2>2
  <2> HIDE DEF p
  <2>4. /\ t.phase = "start" /\ t.prog = p /\ t.verdict = "none" /\ t.failed = FALSE /\ t.work = <<>>
    BY DEF Idle
  <2> HIDE DEF t
  <2>5. ~Engaged(t) /\ ~Checking(t) /\ ~Searching(t) /\ DOMAIN t.work = {}
    BY <2>4 DEF Engaged, Targeted, Checking, Searching
  <2>6. FateOK(t) BY <2>4 DEF FateOK, Closing
  <2>7. TaskOK(t) BY <2>3, <2>4, <2>5 DEF TaskOK
  <2>8. OnceOK(t) BY <2>5 DEF OnceOK
  <2>9. NewOK(t) /\ EnterOK(t) /\ Honest(t) BY <2>4, <2>5 DEF NewOK, EnterOK, Honest
  <2> QED BY <2>1, <2>4, <2>6, <2>7, <2>8, <2>9 DEF SessionGood
<1>10. Apart
  <2> SUFFICES ASSUME NEW i \in Rids, NEW j \in Rids, Twins(i, j) PROVE FALSE
    BY DEF Apart
  <2>1. i \in 1..P /\ j \in 1..P /\ heap[i].key = heap[j].key /\ i # j BY <1>4 DEF Twins
  <2>2. w.parents[i] = w.parents[j] BY <2>1, <1>4
  <2> QED BY <2>1, <2>2, <1>2, <1>3
<1>11. Anchored /\ Links /\ Touched
  BY <1>4, <1>6, <1>9 DEF Anchored, Links, Unhot, Touched, Touching
<1> QED BY <1>8, <1>9, <1>10, <1>11 DEF UInv

LEMMA IdleU ==
  ASSUME IInv, UInv, UNCHANGED vars
  PROVE  UInv'
<1>1. UNCHANGED <<heap, index, status, session, exposed>>
  BY DEF vars
<1>2. Sessions' = Sessions /\ Rids' = Rids
  BY <1>1 DEF Sessions, Rids
<1>3. \A u : SessionGood(u) => SessionGood(u)'
  <2>1. \A u : (FateOK(u) => FateOK(u)') /\ (TaskOK(u) => TaskOK(u)') /\ (OnceOK(u) => OnceOK(u)') /\ (NewOK(u) => NewOK(u)')
    BY <1>1, <1>2 DEF FateOK, DecidesFirst, TaskOK, OnceOK, NewOK, SeenBy, Committed, TouchTask, Engaged, Targeted, Searching, Checking
  <2> QED BY <2>1 DEF SessionGood
<1>4. \A u : EnterOK(u) /\ Honest(u) => (EnterOK(u) /\ Honest(u))'
  BY <1>1 DEF EnterOK, Honest, Ignorable, Unhot, Committed
<1>5. \A r \in Sessions : SessionGood(session[r])' /\ Follows(session[r], session'[r])
  <2>1. \A u : Follows(u, u) BY DEF Follows
  <2> QED BY <2>1, <1>1, <1>3 DEF UInv
<1>6. Pure' => \A r \in Sessions : (EnterOK(session[r]) /\ Honest(session[r]))'
  <2>1. Pure' => Pure BY <1>1 DEF Pure
  <2> QED BY <2>1, <1>1, <1>4 DEF UInv
<1>7. \A x \in DOMAIN status' : status'[x] \in Outcomes
  BY <1>1 DEF UInv, RowsOK
<1> QED BY <1>1, <1>2, <1>5, <1>6, <1>7, StillKept

LEMMA StepU ==
  ASSUME IInv, UInv, NEW s \in Sessions, Step(s)
  PROVE  UInv'
<1>1. CASE Start(s)      BY <1>1, StartU
<1>2. CASE Scan(s)       BY <1>2, ScanU
<1>3. CASE NextTask(s)   BY <1>3, NextTaskU
<1>4. CASE LockRow(s)    BY <1>4, LockRowU
<1>5. CASE LockFails(s)  BY <1>5, LockFailsU
<1>6. CASE CheckRow(s)   BY <1>6, CheckRowU
<1>7. CASE Stamp(s)      BY <1>7, StampU
<1>8. CASE ForeignKey(s) BY <1>8, ForeignKeyU
<1>9. CASE Place(s)      BY <1>9, PlaceU
<1>10. CASE Lookup(s)    BY <1>10, LookupU
<1>11. CASE Judge(s)     BY <1>11, JudgeU
<1>12. CASE Enter(s)     BY <1>12, EnterU
<1>13. CASE WaitTest(s)  BY <1>13, WaitTestU
<1>14. CASE Timeout(s)   BY <1>14, TimeoutU
<1>15. CASE EndBlock(s)  BY <1>15, EndBlockU
<1>16. CASE Unlock(s)    BY <1>16, UnlockU
<1>17. CASE Leave(s)     BY <1>17, LeaveU
<1>18. CASE Decide(s)    BY <1>18, DecideU
<1> QED BY <1>1, <1>2, <1>3, <1>4, <1>5, <1>6, <1>7, <1>8, <1>9, <1>10, <1>11, <1>12, <1>13, <1>14,
           <1>15, <1>16, <1>17, <1>18 DEF Step

\* The strengthened invariant: rows of one key exclude each other, every row
\* hangs on an entry of the index, and what a passed check ignored may still
\* be ignored when the entry is made (executor.rs check_unique_or_wait,
\* perform_insert, perform_update, on_conflict_do_update).
THEOREM ChecksInvariance == Spec => []UInv
<1>1. IInv /\ UInv /\ [Next]_vars => UInv'
  <2> SUFFICES ASSUME IInv, UInv, [Next]_vars PROVE UInv'
    OBVIOUS
  <2>1. CASE Next BY <2>1, StepU DEF Next
  <2>2. CASE UNCHANGED vars BY <2>2, IdleU
  <2> QED BY <2>1, <2>2
<1> QED BY <1>1, InitU, Invariance, PTL DEF Spec

\* No two committed rows have one key, for any number of connections, rows
\* and statements, under every workload, unless one of the causes the
\* property names has occurred (executor.rs check_unique_or_wait,
\* perform_insert, perform_update).
THEOREM KeysStayUnique == Spec => []UniqueUnlessRaced
<1>1. IInv /\ UInv => UniqueUnlessRaced
  BY LiveAlone
<1> QED BY <1>1, Invariance, ChecksInvariance, PTL
=============================================================================
