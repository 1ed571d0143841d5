-------------------------------- MODULE Query --------------------------------
(***************************************************************************)
(* A SELECT from its analysis to its last row: analyze_select of           *)
(* analyzer.rs, build_select_pipeline and the executors of executor.rs.    *)
(*                                                                         *)
(* The pipeline is                                                         *)
(*   scan or join -> WHERE -> HashAggregate -> HAVING -> Sort -> LIMIT     *)
(*   -> projection,                                                        *)
(* and each executor pulls rows from the one below it.  Only the join, the *)
(* aggregation and the sort keep rows; the others pass one on, so a step   *)
(* here is one iteration of the loop of the executor that is being drained *)
(* and takes a row up to the next executor that keeps it, or to the output.*)
(* What the stages stand for: "from" drains the scan or the join, "groups" *)
(* the rows of the aggregation and "sorted" those of the sort.  The rows   *)
(* are those the statement's snapshot sees (HeapChain, BTree).             *)
(***************************************************************************)
EXTENDS SQLReference, SequencesExt

CONSTANT
    Inputs      \* set of [q, db, index, checked]: a statement (see SQLReference), the
                \* tables, the indexed column of A or 0, and whether the build has
                \* overflow checks

VARIABLES
    in,         \* the input
    stage,      \* "parsed", "planned", "from", "groups", "sorted",
                \* or how it ended: "done", "failed", "rejected"
    plan,       \* the analyzed statement
    src,        \* rows of the outermost scan, in its order
    pos,        \* how many of them have been read
    cur,        \* NestedLoopJoin.cur_outer, as a position in src; 0 is None
    inner,      \* rows read of the inner scan
    matched,    \* matched_current_outer
    pending,    \* pending_left_null_pad
    groups,     \* HashAggregate: sequence of [key, states], in order of arrival
    rows,       \* rows of the stage being drained, after "from"
    buf,        \* Sort: sequence of [keys, row]
    remaining,  \* Limit.remaining; -1 without LIMIT
    out,        \* rows returned
    exposed     \* reasons met for which the outcome may not be SQL's (history)

vars == <<in, stage, plan, src, pos, cur, inner, matched, pending, groups, rows, buf,
          remaining, out, exposed>>
joinVars == <<pos, cur, inner, matched, pending>>

q == in.q
db == in.db
Eval(e, row) == EvaluateExpr(e, row, in.checked)

NoPlan == [items |-> <<>>]

Init ==
    /\ in \in Inputs
    /\ stage = "parsed" /\ plan = NoPlan
    /\ src = <<>> /\ pos = 0
    /\ cur = 0 /\ inner = 0 /\ matched = FALSE /\ pending = FALSE
    /\ groups = <<>> /\ rows = <<>> /\ buf = <<>>
    /\ remaining = -1 /\ out = <<>> /\ exposed = {}

-----------------------------------------------------------------------------
(* analyze_select *)

Refused(aggs) == [ok |-> FALSE, e |-> Lit(Null), aggs |-> aggs]

\* infer_aggregate_type accepts the argument.
AggregateArgOk(a) ==
    IF a.arg = <<>> THEN a.kind = "count"
    ELSE /\ ~ContainsAggregate(a.arg[1])
         /\ CASE a.kind \in {"sum", "avg"} -> DataType(a.arg[1]) # "bool"
              [] a.kind \in {"min", "max"} -> DataType(a.arg[1]) # "null"
              [] OTHER -> TRUE

\* analyze_post_agg: rewrites e to read the row [group keys, aggregates], and
\* collects the aggregates.  Only a bare column is looked up in the keys.
RECURSIVE PostAgg(_, _, _)
PostAgg(e, keys, aggs) ==
    CASE e.k = "lit" -> [ok |-> TRUE, e |-> e, aggs |-> aggs]
      [] e.k = "col" ->
            LET at == {i \in DOMAIN keys : keys[i] = e}
            IN  IF at = {} THEN Refused(aggs)
                ELSE [ok |-> TRUE, e |-> Col(Min(at)), aggs |-> aggs]
      [] e.k = "bin" ->
            LET l == PostAgg(e.l, keys, aggs)
                r == PostAgg(e.r, keys, l.aggs)
            IN  [ok |-> l.ok /\ r.ok, e |-> Bin(e.op, l.e, r.e), aggs |-> r.aggs]
      [] e.k \in {"not", "neg", "isnull"} ->
            LET i == PostAgg(e.e, keys, aggs)
            IN  [i EXCEPT !.e = [e EXCEPT !.e = i.e]]
      [] e.k = "agg" ->
            IF ~AggregateArgOk(e) THEN Refused(aggs)
            ELSE [ok |-> TRUE, e |-> Col(Len(keys) + Len(aggs) + 1), aggs |-> Append(aggs, e)]

\* The same for the SELECT list, HAVING and ORDER BY, one after the other.
PostAggAll(es, keys) ==
    FoldLeft(LAMBDA acc, e :
                LET r == PostAgg(e, keys, acc.aggs)
                IN  [ok |-> acc.ok /\ r.ok, es |-> Append(acc.es, r.e), aggs |-> r.aggs],
             [ok |-> TRUE, es |-> <<>>, aggs |-> <<>>], es)

HasAggregate(es) == \E i \in DOMAIN es : ContainsAggregate(es[i])
Boolean(es) == \A i \in DOMAIN es : DataType(es[i]) \in {"bool", "null"}
OrderExprs == [i \in DOMAIN q.order |-> q.order[i].e]

\* DISTINCT is "group by every projected expression".
GroupKeys == IF q.distinct THEN q.items ELSE q.group

NeedsAggregation == GroupKeys # <<>> \/ HasAggregate(q.items) \/ HasAggregate(q.having)

Accepted ==
    /\ Boolean(q.where) /\ ~HasAggregate(q.where)
    /\ q.from = "join" => Boolean(<<q.on>>) /\ ~ContainsAggregate(q.on)
    /\ ~HasAggregate(GroupKeys)
    /\ q.distinct => q.group = <<>>
    /\ IF NeedsAggregation
       THEN /\ Boolean(q.having)
            /\ PostAggAll(q.items \o q.having \o OrderExprs, GroupKeys).ok
       ELSE q.having = <<>> /\ ~HasAggregate(OrderExprs)

Plan ==
    LET all == PostAggAll(q.items \o q.having \o OrderExprs, GroupKeys)
        n == Len(q.items)
        h == Len(q.having)
    IN  IF ~NeedsAggregation
        THEN [agg |-> FALSE, keys |-> <<>>, aggs |-> <<>>, items |-> q.items,
              having |-> <<>>, order |-> OrderExprs]
        ELSE [agg |-> TRUE, keys |-> GroupKeys, aggs |-> all.aggs,
              items  |-> SubSeq(all.es, 1, n),
              having |-> SubSeq(all.es, n + 1, n + h),
              order  |-> SubSeq(all.es, n + h + 1, Len(all.es))]

\* What an analyzer has to give up here: a key that is an expression over columns
\* is never found again, and two combinations are refused by name.
AnalysisCauses ==
    (IF \E i \in DOMAIN GroupKeys : GroupKeys[i].k \notin {"col", "lit", "agg"}
     THEN {"group_expr"} ELSE {})
        \cup (IF q.distinct /\ (q.group # <<>> \/ HasAggregate(q.items))
              THEN {"unsupported"} ELSE {})

Analyze ==
    /\ stage = "parsed"
    /\ \/ /\ Accepted
          /\ plan' = Plan
          /\ stage' = "planned"
          /\ UNCHANGED exposed
       \/ /\ ~Accepted
          /\ stage' = "rejected"
          /\ exposed' = AnalysisCauses
          /\ UNCHANGED plan
    /\ UNCHANGED <<in, src, joinVars, groups, rows, buf, remaining, out>>

-----------------------------------------------------------------------------
(* build_select_pipeline and open() *)

\* match_cmp_col_literal: <<>> or <<[col, op, lit]>>, with the column on the left.
Bad_Swapped(op) == op
Swapped(op) ==
    CASE op = "<" -> ">" [] op = "<=" -> ">=" [] op = ">" -> "<" [] op = ">=" -> "<="
      [] OTHER -> op
MatchCmp(e) ==
    IF e.k # "bin" \/ e.op \notin Comparisons THEN <<>>
    ELSE IF e.l.k = "col" /\ e.r.k = "lit" THEN <<[col |-> e.l.c, op |-> e.op, lit |-> e.r.v]>>
    ELSE IF e.l.k = "lit" /\ e.r.k = "col"
    THEN <<[col |-> e.r.c, op |-> Swapped(e.op), lit |-> e.l.v]>>
    ELSE <<>>

\* match_between: <<>> or <<[col, low, high]>>, of col >= low AND col <= high.
MatchBetween(w) ==
    IF w.k # "bin" \/ w.op # "and" THEN <<>>
    ELSE LET l == MatchCmp(w.l)
             r == MatchCmp(w.r)
         IN  IF l = <<>> \/ r = <<>> THEN <<>>
             ELSE IF l[1].col # r[1].col THEN <<>>
             ELSE IF l[1].op = ">=" /\ r[1].op = "<="
             THEN <<[col |-> l[1].col, low |-> l[1].lit, high |-> r[1].lit]>>
             ELSE IF l[1].op = "<=" /\ r[1].op = ">="
             THEN <<[col |-> l[1].col, low |-> r[1].lit, high |-> l[1].lit]>>
             ELSE <<>>

\* find_indexable_predicate: equality first; <<>> or the closed range to scan.
IndexRange(w) ==
    LET m == MatchCmp(w)
        r == MatchBetween(w)
        range(l, h) == <<[low |-> LiteralToValue(l).v, high |-> LiteralToValue(h).v,
                          x |-> LiteralToValue(l).x \cup LiteralToValue(h).x]>>
    IN  IF m # <<>> /\ m[1].op = "=" /\ m[1].col = in.index THEN range(m[1].lit, m[1].lit)
        ELSE IF r # <<>> /\ r[1].col = in.index THEN range(r[1].low, r[1].high)
        ELSE <<>>

UsesIndex ==
    q.from = "table" /\ in.index # 0 /\ q.where # <<>> /\ IndexRange(q.where[1]) # <<>>

\* Rows in the order of the index, which has no entry for NULL.
IndexOrder ==
    LET entries == {i \in DOMAIN db.a : db.a[i][in.index] # Null}
        key(i) == db.a[i][in.index].v
    IN  SetToSortSeq(entries, LAMBDA i, j : key(i) < key(j) \/ (key(i) = key(j) /\ i < j))

\* A bound is encoded with the literal's own type; compare_keys decodes it with the
\* column's, and fails on another length.
Encodable(lit) == lit.t = ColType[in.index]

\* LIMIT 0 over a pipeline that keeps no rows never asks for one.
Pulls == q.limit = <<0>> => plan.agg \/ plan.order # <<>>

\* first_ge, then leaf entries until one is past the upper bound.
IndexRows ==
    LET r == IndexRange(q.where[1])[1]
        from == SelectSeq(IndexOrder, LAMBDA i : db.a[i][in.index].v >= r.low.v)
    IN  IF IndexOrder = <<>> THEN [ok |-> TRUE, x |-> {}, rows |-> <<>>]
        ELSE IF ~Encodable(r.low) \/ (Pulls /\ from # <<>> /\ ~Encodable(r.high))
        THEN [ok |-> FALSE, x |-> {"key_type"}, rows |-> <<>>]
        ELSE [ok |-> TRUE, x |-> r.x,
              rows |-> LET s == SelectSeq(from, LAMBDA i : db.a[i][in.index].v <= r.high.v)
                       IN  [k \in DOMAIN s |-> db.a[s[k]]]]

\* Opening a join reads the first outer row.
Open ==
    LET scan == IF q.from = "none" THEN [ok |-> TRUE, x |-> {}, rows |-> <<<<>>>>]
                ELSE IF UsesIndex THEN IndexRows
                ELSE [ok |-> TRUE, x |-> {}, rows |-> db.a]
        first == IF q.from = "join" /\ db.a # <<>> THEN 1 ELSE 0
    IN  /\ stage = "planned"
        /\ src' = scan.rows
        /\ stage' = IF scan.ok THEN "from" ELSE "failed"
        /\ exposed' = scan.x
        /\ remaining' = IF q.limit = <<>> THEN -1 ELSE q.limit[1]
        /\ pos' = first /\ cur' = first
        /\ UNCHANGED <<in, plan, inner, matched, pending, groups, rows, buf, out>>

-----------------------------------------------------------------------------
(* The aggregation and the sort *)

\* AggState: how many values, their sum (a DOUBLE's in its units) and the least or
\* greatest.  A DOUBLE argument gets a DOUBLE sum.
AggInit(a) == [cnt |-> 0, sum |-> 0, best |-> Null]
DoubleSum(a) == DataType(a.arg[1]) = "dbl"

\* AggState::update
AggUpdate(a, s, v) ==
    IF a.arg = <<>> THEN [s EXCEPT !.cnt = @ + 1]
    ELSE IF v = Null THEN s
    ELSE [cnt  |-> s.cnt + 1,
          sum  |-> s.sum + (IF DoubleSum(a) THEN Promote(v) ELSE v.v),
          best |-> IF \/ s.best = Null
                      \/ a.kind = "min" /\ Promote(v) < Promote(s.best)
                      \/ a.kind = "max" /\ Promote(v) > Promote(s.best)
                   THEN v ELSE s.best]

\* AggState::finalize: COUNT and SUM are cut to an INT.
AggFinalize(a, s) ==
    CASE a.kind = "count" -> Int32(Wrap(s.cnt))
      [] a.kind = "sum" -> IF s.cnt = 0 THEN Null
                           ELSE IF DoubleSum(a) THEN Double(s.sum) ELSE Int32(Wrap(s.sum))
      [] a.kind = "avg" -> IF s.cnt = 0 THEN Null
                           ELSE IF DoubleSum(a) THEN Double(s.sum \div s.cnt)
                           ELSE Double((s.sum * Unit) \div s.cnt)
      [] OTHER -> s.best

FinalizeCauses(a, s) ==
    IF \/ a.kind = "count" /\ ~InRange(s.cnt)
       \/ a.kind = "sum" /\ s.cnt # 0 /\ ~DoubleSum(a) /\ ~InRange(s.sum)
    THEN {"wrapped"} ELSE {}

\* Evaluations of es on one row, in order, up to the first error.
EvalAll(es, row) ==
    LET vs == [i \in DOMAIN es |-> Eval(es[i], row)]
        bad == {i \in DOMAIN es : ~vs[i].ok}
        n == IF bad = {} THEN Len(es) ELSE Min(bad)
    IN  [ok |-> bad = {}, vs |-> [i \in DOMAIN es |-> vs[i].v],
         x |-> UNION {vs[i].x : i \in 1 .. n}]

\* One row into HashAggregate::build: the group keys, then the arguments.
ArgExprs == [i \in DOMAIN plan.aggs |->
                IF plan.aggs[i].arg = <<>> THEN Lit(Null) ELSE plan.aggs[i].arg[1]]

Grow(gs, key, args) ==
    LET at == {i \in DOMAIN gs : gs[i].key = key}
        i == IF at = {} THEN Len(gs) + 1 ELSE Min(at)
        all == IF at = {}
               THEN Append(gs, [key |-> key,
                                states |-> [k \in DOMAIN plan.aggs |-> AggInit(plan.aggs[k])]])
               ELSE gs
    IN  [all EXCEPT ![i].states =
            [k \in DOMAIN plan.aggs |-> AggUpdate(plan.aggs[k], @[k], args[k])]]

\* The rows of the aggregation.  Without GROUP BY there is one also for no input.
FinalGroups ==
    IF groups = <<>> /\ plan.keys = <<>> /\ plan.aggs # <<>>
    THEN <<[key |-> <<>>, states |-> [k \in DOMAIN plan.aggs |-> AggInit(plan.aggs[k])]]>>
    ELSE groups

GroupRows ==
    [i \in DOMAIN FinalGroups |->
        FinalGroups[i].key \o [k \in DOMAIN plan.aggs |->
                                  AggFinalize(plan.aggs[k], FinalGroups[i].states[k])]]

GroupCauses ==
    UNION {FinalizeCauses(plan.aggs[k], FinalGroups[i].states[k]) :
              i \in DOMAIN FinalGroups, k \in DOMAIN plan.aggs}

\* compare_keys: is a before b?  NULLs last in ascending order, first in descending.
KeyBefore(a, b) ==
    \E i \in DOMAIN a :
        /\ \A j \in 1 .. (i - 1) : a[j] = b[j]
        /\ a[i] # b[i]
        /\ LET asc == q.order[i].dir = "asc"
           IN  CASE a[i] = Null -> ~asc
                 [] b[i] = Null -> asc
                 [] OTHER -> IF asc THEN Promote(a[i]) < Promote(b[i])
                             ELSE Promote(a[i]) > Promote(b[i])

\* sort_by is stable.
Sorted(b) ==
    LET order == SetToSortSeq(DOMAIN b,
                    LAMBDA i, j : \/ KeyBefore(b[i].keys, b[j].keys)
                                  \/ i < j /\ ~KeyBefore(b[j].keys, b[i].keys))
    IN  [i \in DOMAIN b |-> b[order[i]].row]

-----------------------------------------------------------------------------
(* A row on its way up *)

\* A conjunction of conditions that are not themselves built from AND and OR: NULL
\* for FALSE makes no difference to a filter.
RECURSIVE Conjunction(_)
Conjunction(e) ==
    IF e.k = "bin" /\ e.op = "and" THEN Conjunction(e.l) /\ Conjunction(e.r)
    ELSE CASE e.k = "bin" -> e.op # "or" /\ {e.l.k, e.r.k} \subseteq {"lit", "col", "neg"}
           [] e.k = "isnull" -> e.e.k \in {"lit", "col"}
           [] OTHER -> FALSE

\* Filter::next and the ON of a join: only TRUE passes.
Passes(v) == v = Bool(TRUE)

Filtered(cond, row) ==
    LET f == Eval(cond, row)
    IN  [ok |-> f.ok, pass |-> Passes(f.v),
         x |-> IF Conjunction(cond) THEN f.x \ {"strict_and_or"} ELSE f.x]

Condition(st) ==
    CASE st = "from" -> q.where [] st = "groups" -> plan.having [] OTHER -> <<>>

\* The executor that keeps the rows leaving stage st.
Sink(st) ==
    IF st = "from" /\ plan.agg THEN "aggregate"
    ELSE IF st # "sorted" /\ plan.order # <<>> THEN "sort" ELSE "limit"

\* Limit::next does not ask for another row once it has its number.
Demanded(st) == Sink(st) = "limit" => remaining # 0

\* Where row goes from stage st, and the causes met on its way.
Deliver(st, row, x) ==
    LET f == IF Condition(st) = <<>> THEN [ok |-> TRUE, pass |-> TRUE, x |-> {}]
             ELSE Filtered(Condition(st)[1], row)
        es == CASE Sink(st) = "aggregate" -> plan.keys \o ArgExprs
                [] Sink(st) = "sort" -> plan.order
                [] OTHER -> plan.items
        e == EvalAll(es, row)
        k == Len(plan.keys)
    IN  IF ~f.ok \/ (f.pass /\ ~e.ok)
        THEN /\ stage' = "failed"
             /\ exposed' = exposed \cup x \cup f.x \cup (IF f.ok THEN e.x ELSE {})
             /\ UNCHANGED <<groups, buf, out, remaining>>
        ELSE IF ~f.pass
        THEN /\ exposed' = exposed \cup x \cup f.x
             /\ UNCHANGED <<stage, groups, buf, out, remaining>>
        ELSE /\ exposed' = exposed \cup x \cup f.x \cup e.x
             /\ groups' = IF Sink(st) = "aggregate"
                          THEN Grow(groups, SubSeq(e.vs, 1, k), SubSeq(e.vs, k + 1, Len(e.vs)))
                          ELSE groups
             /\ buf' = IF Sink(st) = "sort" THEN Append(buf, [keys |-> e.vs, row |-> row]) ELSE buf
             /\ out' = IF Sink(st) = "limit" THEN Append(out, e.vs) ELSE out
             /\ remaining' = IF Sink(st) = "limit" /\ remaining > 0 THEN remaining - 1 ELSE remaining
             /\ UNCHANGED stage

-----------------------------------------------------------------------------
(* Draining a scan or a join *)

Working(st) == stage = st /\ Demanded(st)

\* SeqScan, IndexScan or OneRowRelation gives its next row.
ScanRow ==
    /\ Working("from") /\ q.from # "join"
    /\ pos < Len(src)
    /\ pos' = pos + 1
    /\ Deliver("from", src[pos + 1], {})
    /\ UNCHANGED <<in, plan, src, cur, inner, matched, pending, rows>>

NextOuter == IF pos < Len(src) THEN pos + 1 ELSE 0
AdvanceOuter == cur' = NextOuter /\ pos' = (IF NextOuter = 0 THEN pos ELSE NextOuter)

\* NestedLoopJoin::next with an inner row left: join it, evaluate ON.
JoinProbe ==
    LET row == src[cur] \o db.b[inner + 1]
        on == Filtered(q.on, row)
    IN  /\ Working("from") /\ q.from = "join"
        /\ ~pending /\ cur # 0 /\ inner < Len(db.b)
        /\ inner' = inner + 1
        /\ IF on.ok /\ on.pass
           THEN matched' = TRUE /\ Deliver("from", row, on.x)
           ELSE /\ stage' = IF on.ok THEN stage ELSE "failed"
                /\ exposed' = exposed \cup on.x
                /\ UNCHANGED <<matched, groups, buf, out, remaining>>
        /\ UNCHANGED <<in, plan, src, pos, cur, pending, rows>>

\* The inner rows are exhausted and the outer row of a LEFT JOIN found none.
NeedPad == q.left /\ ~matched

JoinNoMatch ==
    /\ Working("from") /\ q.from = "join"
    /\ ~pending /\ cur # 0 /\ inner = Len(db.b)
    /\ NeedPad
    /\ pending' = TRUE
    /\ UNCHANGED <<in, stage, plan, src, pos, cur, inner, matched, groups, rows, buf,
                   remaining, out, exposed>>

\* The padded row.  The outer advances; the inner scan is not opened again.
JoinPad ==
    /\ Working("from") /\ q.from = "join"
    /\ pending
    /\ pending' = FALSE
    /\ AdvanceOuter
    /\ matched' = FALSE
    /\ Deliver("from", src[cur] \o <<Null>>,
               IF NextOuter # 0 /\ inner # 0 THEN {"inner_not_reopened"} ELSE {})
    /\ UNCHANGED <<in, plan, src, inner, rows>>

\* The next outer row; the inner scan starts again.
JoinAdvance ==
    /\ Working("from") /\ q.from = "join"
    /\ ~pending /\ cur # 0 /\ inner = Len(db.b)
    /\ ~NeedPad
    /\ AdvanceOuter
    /\ matched' = FALSE
    /\ inner' = IF NextOuter = 0 THEN inner ELSE 0
    /\ UNCHANGED <<in, stage, plan, src, pending, groups, rows, buf, remaining, out, exposed>>

FromEmpty ==
    IF q.from = "join" THEN cur = 0 /\ ~pending ELSE pos = Len(src)

-----------------------------------------------------------------------------
(* From one stage to the next *)

\* The rows of stage st are used up, or LIMIT wants no more of them.
Over(st) ==
    /\ stage = st
    /\ ~Demanded(st) \/ (IF st = "from" THEN FromEmpty ELSE rows = <<>>)

Aggregate ==
    /\ Over("from") /\ Sink("from") = "aggregate"
    /\ rows' = GroupRows
    /\ exposed' = exposed \cup GroupCauses
    /\ stage' = "groups"
    /\ UNCHANGED <<in, plan, src, joinVars, groups, buf, remaining, out>>

Sort(st) ==
    /\ Over(st) /\ Sink(st) = "sort"
    /\ rows' = Sorted(buf)
    /\ stage' = "sorted"
    /\ UNCHANGED <<in, plan, src, joinVars, groups, buf, remaining, out, exposed>>

\* HashAggregate::next and Sort::next: the next of the rows they built.
NextRow(st) ==
    /\ Working(st) /\ st \in {"groups", "sorted"}
    /\ rows # <<>>
    /\ rows' = Tail(rows)
    /\ Deliver(st, Head(rows), {})
    /\ UNCHANGED <<in, plan, src, joinVars>>

Finish(st) ==
    /\ Over(st) /\ Sink(st) = "limit"
    /\ stage' = "done"
    /\ UNCHANGED <<in, plan, src, joinVars, groups, rows, buf, remaining, out, exposed>>

Ended == stage \in {"done", "failed", "rejected"} /\ UNCHANGED vars

Next ==
    \/ Analyze \/ Open
    \/ ScanRow \/ JoinProbe \/ JoinNoMatch \/ JoinPad \/ JoinAdvance
    \/ Aggregate
    \/ \E st \in {"from", "groups", "sorted"} : Sort(st) \/ NextRow(st) \/ Finish(st)
    \/ Ended

Spec == Init /\ [][Next]_vars

-----------------------------------------------------------------------------
(* Properties *)

\* A SELECT ends as SQL says: with an answer to the statement as it was written, with
\* an error only if an evaluation fails, refused only if it is not valid.  The pipeline,
\* its rewriting to group positions, the choice of an index, LIMIT's early end and the
\* buffers of the join, the aggregation and the sort do not show.  The exceptions are
\* the causes in `exposed`: a LEFT JOIN whose inner scan is not opened again after a
\* padded row, AND and OR that lose an answer to NULL, integers that wrap (literals,
\* arithmetic, SUM and COUNT), an index bound of another type than its column, the minus
\* of a DOUBLE and GROUP BY or DISTINCT over expressions.
AnswersAsSQL ==
    exposed = {} =>
        /\ stage = "done" =>
              IF SQLFails(q, db) THEN q.limit # <<>> ELSE SQLAnswer(q, db, out)
        /\ stage = "failed" => SQLFails(q, db)
        /\ stage = "rejected" => ~SQLValid(q)
=============================================================================
