---------------------------- MODULE SQLReference ----------------------------
(***************************************************************************)
(* What SQL says a SELECT answers, as a reference for Query.  Statements   *)
(* are taken as they are written: there is no plan, no rewriting, no       *)
(* order of evaluation.  AND and OR are three-valued, INT arithmetic out   *)
(* of range is an error, and SUM and COUNT are exact.                      *)
(*                                                                         *)
(* q is the statement:                                                     *)
(*   from      "none", "table" (A) or "join" (A with B)                    *)
(*   left, on  LEFT JOIN or not, and its condition                         *)
(*   where, having   <<>> or <<condition>>                                 *)
(*   distinct, group, items                                                *)
(*   order     sequence of [e, dir]                                        *)
(*   limit     <<>> or <<n>>                                               *)
(* and db the rows of the tables, db.a and db.b.                           *)
(***************************************************************************)
EXTENDS Expressions, FiniteSets, FiniteSetsExt, Functions

\* A row of FROM is a pair of positions in the two tables; 0 is no row.
Row(q, db, p) ==
    (IF p[1] = 0 THEN <<>> ELSE db.a[p[1]])
        \o (IF q.from # "join" THEN <<>> ELSE IF p[2] = 0 THEN <<Null>> ELSE db.b[p[2]])

SQLBinary(op, l, r) ==
    CASE op = "and" -> IF Bool(FALSE) \in {l, r} THEN Value(Bool(FALSE), {})
                       ELSE Value(IF Null \in {l, r} THEN Null ELSE Bool(TRUE), {})
      [] op = "or"  -> IF Bool(TRUE) \in {l, r} THEN Value(Bool(TRUE), {})
                       ELSE Value(IF Null \in {l, r} THEN Null ELSE Bool(FALSE), {})
      [] OTHER -> IF Null \in {l, r} THEN Value(Null, {}) ELSE EvaluateBinary(op, l, r, TRUE)

\* An aggregate of a set of argument values, tagged with where they come from.
SQLAggregate(kind, type, vs) ==
    LET some == {<<p, v>> \in vs : v # Null}
        nums == {Promote(pv[2]) : pv \in some}
        sum  == MapThenSumSet(LAMBDA pv : Promote(pv[2]), some)
        num(n) == IF type = "int" THEN Int32(n \div Unit) ELSE Double(n)
    IN  IF kind = "count" THEN Int32(Cardinality(some))
        ELSE IF some = {} THEN Null
        ELSE CASE kind = "sum" -> num(sum)
               [] kind = "avg" -> Double(sum \div Cardinality(some))
               [] kind = "min" -> num(Min(nums))
               [] kind = "max" -> num(Max(nums))

\* The value of e for the group g of rows; a row by itself is a group of one.
RECURSIVE SQLValue(_, _, _, _)
SQLValue(q, db, e, g) ==
    CASE e.k = "lit" -> Value(e.v, {})
      [] e.k = "col" -> Value(Row(q, db, CHOOSE p \in g : TRUE)[e.c], {})
      [] e.k = "bin" ->
            LET l == SQLValue(q, db, e.l, g)
                r == SQLValue(q, db, e.r, g)
            IN  IF l.ok /\ r.ok THEN SQLBinary(e.op, l.v, r.v) ELSE Error({})
      [] e.k \in {"not", "neg"} ->
            LET v == SQLValue(q, db, e.e, g)
            IN  IF ~v.ok THEN v
                ELSE IF v.v = Null THEN Value(Null, {})
                ELSE IF e.k = "not" THEN Value(Bool(v.v = Bool(FALSE)), {})
                ELSE IF v.v.t = "dbl" THEN Value(Double(-v.v.v), {})
                ELSE IntArithmetic("-", 0, v.v.v, TRUE)
      [] e.k = "isnull" ->
            LET v == SQLValue(q, db, e.e, g)
            IN  IF v.ok THEN Value(Bool((v.v = Null) # e.negated), {}) ELSE v
      [] e.k = "agg" ->
            LET arg(p) == IF e.arg = <<>> THEN Value(Int32(1), {})
                          ELSE SQLValue(q, db, e.arg[1], {p})
            IN  IF \E p \in g : ~arg(p).ok THEN Error({})
                ELSE Value(SQLAggregate(e.kind, DataType(e), {<<p, arg(p).v>> : p \in g}), {})

Holds(q, db, cond, g) ==
    cond = <<>> \/ SQLValue(q, db, cond[1], g) = Value(Bool(TRUE), {})

-----------------------------------------------------------------------------
Exprs(q) == {q.items[i] : i \in DOMAIN q.items}
                \cup {q.having[i] : i \in DOMAIN q.having}
                \cup {q.order[i].e : i \in DOMAIN q.order}

Keys(q) == IF q.distinct THEN q.items ELSE q.group

Aggregated(q) == Keys(q) # <<>> \/ \E e \in Exprs(q) : ContainsAggregate(e)

\* Every column of an aggregated query is a group key, part of one, or inside an
\* aggregate.
RECURSIVE Grouped(_, _)
Grouped(e, keys) ==
    \/ e \in keys
    \/ e.k = "lit"
    \/ e.k = "bin" /\ Grouped(e.l, keys) /\ Grouped(e.r, keys)
    \/ e.k \in {"not", "neg", "isnull"} /\ Grouped(e.e, keys)
    \/ e.k = "agg" /\ \A i \in DOMAIN e.arg : ~ContainsAggregate(e.arg[i])

SQLValid(q) ==
    /\ \A i \in DOMAIN q.where : DataType(q.where[i]) \in {"bool", "null"}
    /\ \A i \in DOMAIN q.where : ~ContainsAggregate(q.where[i])
    /\ IF Aggregated(q)
       THEN \A e \in Exprs(q) : Grouped(e, {Keys(q)[i] : i \in DOMAIN Keys(q)})
       ELSE q.having = <<>>

-----------------------------------------------------------------------------
Pairs(db) == (DOMAIN db.a) \X (DOMAIN db.b)

Joined(q, db) ==
    CASE q.from = "none"  -> {<<0, 0>>}
      [] q.from = "table" -> (DOMAIN db.a) \X {0}
      [] q.from = "join"  ->
            LET match == {p \in Pairs(db) : Holds(q, db, <<q.on>>, {p})}
            IN  match \cup {p \in (DOMAIN db.a) \X {0} :
                              q.left /\ \A m \in match : m[1] # p[1]}

Chosen(q, db) == {p \in Joined(q, db) : Holds(q, db, q.where, {p})}

KeyOf(q, db, p) == [i \in DOMAIN Keys(q) |-> SQLValue(q, db, Keys(q)[i], {p})]

Groups(q, db) ==
    LET rows == Chosen(q, db)
    IN  IF ~Aggregated(q) THEN {{p} : p \in rows}
        ELSE IF Keys(q) = <<>> THEN {rows}
        ELSE {{r \in rows : KeyOf(q, db, r) = KeyOf(q, db, p)} : p \in rows}

Kept(q, db) == {g \in Groups(q, db) : Holds(q, db, q.having, g)}

\* Some evaluation that SQL may have to make divides by zero or overflows.
SQLFails(q, db) ==
    \/ q.from = "join" /\ \E p \in Pairs(db) : ~SQLValue(q, db, q.on, {p}).ok
    \/ \E p \in Joined(q, db), i \in DOMAIN q.where : ~SQLValue(q, db, q.where[i], {p}).ok
    \/ \E p \in Chosen(q, db), i \in DOMAIN Keys(q) : ~KeyOf(q, db, p)[i].ok
    \/ \E g \in Groups(q, db), e \in Exprs(q) : ~SQLValue(q, db, e, g).ok

\* Does key a sort before key b?  NULLs are last in ascending order.
SortsBefore(a, b, dir) ==
    IF a = Null THEN dir = "desc" /\ b # Null
    ELSE IF b = Null THEN dir = "asc"
    ELSE IF dir = "asc" THEN Promote(a) < Promote(b) ELSE Promote(a) > Promote(b)

RowBefore(a, b, dirs) ==
    \E i \in DOMAIN dirs :
        SortsBefore(a[i], b[i], dirs[i]) /\ \A j \in 1 .. (i - 1) : a[j] = b[j]

\* out is an answer to q: the rows of distinct groups, as many as LIMIT allows, in
\* the order asked for, and no group left out should have come earlier.
SQLAnswer(q, db, out) ==
    LET kept == Kept(q, db)
        val == [g \in kept |-> [i \in DOMAIN q.items |-> SQLValue(q, db, q.items[i], g).v]]
        key == [g \in kept |-> [i \in DOMAIN q.order |-> SQLValue(q, db, q.order[i].e, g).v]]
        dirs == [i \in DOMAIN q.order |-> q.order[i].dir]
    IN  /\ Len(out) = Min({Cardinality(kept)} \cup {q.limit[i] : i \in DOMAIN q.limit})
        /\ \E f \in [DOMAIN out -> kept] :
              /\ \A i \in DOMAIN out : val[f[i]] = out[i]
              /\ IsInjective(f)
              /\ \A i, j \in DOMAIN out : i < j => ~RowBefore(key[f[j]], key[f[i]], dirs)
              /\ \A g \in kept \ Range(f), i \in DOMAIN out : ~RowBefore(key[g], key[f[i]], dirs)
=============================================================================
