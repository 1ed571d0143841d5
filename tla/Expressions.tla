----------------------------- MODULE Expressions -----------------------------
(***************************************************************************)
(* SQL values, expressions and their evaluation, executor.rs, with the     *)
(* type inference of analyzer.rs.                                          *)
(*                                                                         *)
(* An INT is an integer of a given width.  A DOUBLE is a number of         *)
(* Units-ths, so that the halves and the means of the instances are exact. *)
(* BOOL, INT, DOUBLE and NULL are told apart; VARCHAR and the date types   *)
(* compare like INT and are left out, with the arithmetic of dates.        *)
(*                                                                         *)
(* An evaluation gives a value or an error, and with it the known reasons  *)
(* for which it may not be what SQL says (causes).                         *)
(***************************************************************************)
EXTENDS Integers, Sequences

CONSTANTS
    MaxInt,     \* i32::MAX
    ColType     \* column position in a row -> type

ASSUME ExpressionAssumption == MaxInt \in Nat \ {0}

Unit == 12

Int32(n)  == [t |-> "int", v |-> n]
Double(n) == [t |-> "dbl", v |-> n]        \* the number n / Unit
Bool(b)   == [t |-> "bool", v |-> IF b THEN 1 ELSE 0]
Null      == [t |-> "null", v |-> 0]

Lit(v)        == [k |-> "lit", v |-> v]
Col(c)        == [k |-> "col", c |-> c]
Bin(op, l, r) == [k |-> "bin", op |-> op, l |-> l, r |-> r]
Not(e)        == [k |-> "not", e |-> e]
Neg(e)        == [k |-> "neg", e |-> e]
IsNull(e, n)  == [k |-> "isnull", e |-> e, negated |-> n]
Agg(kind, arg) == [k |-> "agg", kind |-> kind, arg |-> arg]   \* arg <<>> is COUNT(*)

Comparisons == {"=", "<>", "<", "<=", ">", ">="}
Arithmetic  == {"+", "-", "*", "/"}
Numeric     == {"int", "dbl"}

-----------------------------------------------------------------------------
(* analyzer.rs *)

\* AnalyzedExpr::data_type, infer_binary_type, infer_unary_type and
\* infer_aggregate_type; "null" is the unknown type of the literal NULL.
RECURSIVE DataType(_)
DataType(e) ==
    CASE e.k = "lit" -> e.v.t
      [] e.k = "col" -> ColType[e.c]
      [] e.k = "bin" -> IF e.op \notin Arithmetic THEN "bool"
                        ELSE IF "dbl" \in {DataType(e.l), DataType(e.r)} THEN "dbl" ELSE "int"
      [] e.k \in {"not", "isnull"} -> "bool"
      [] e.k = "neg" -> "int"
      [] e.k = "agg" -> CASE e.kind = "count" -> "int"
                          [] e.kind = "avg" -> "dbl"
                          [] e.kind = "sum" -> IF DataType(e.arg[1]) = "dbl" THEN "dbl" ELSE "int"
                          [] OTHER -> DataType(e.arg[1])

RECURSIVE ContainsAggregate(_)
ContainsAggregate(e) ==
    CASE e.k \in {"lit", "col"} -> FALSE
      [] e.k = "bin" -> ContainsAggregate(e.l) \/ ContainsAggregate(e.r)
      [] e.k \in {"not", "neg", "isnull"} -> ContainsAggregate(e.e)
      [] e.k = "agg" -> TRUE

-----------------------------------------------------------------------------
(* executor.rs *)

Value(v, x) == [ok |-> TRUE, v |-> v, x |-> x]
Error(x)    == [ok |-> FALSE, v |-> Null, x |-> x]

InRange(n) == n \in -(MaxInt + 1) .. MaxInt
Wrap(n) == ((n + MaxInt + 1) % (2 * (MaxInt + 1))) - (MaxInt + 1)

\* literal_to_value: an integer literal is an i64, cut to an i32.
LiteralToValue(v) ==
    IF v.t # "int" \/ InRange(v.v) THEN Value(v, {})
    ELSE Value(Int32(Wrap(v.v)), {"wrapped"})

\* A number as a DOUBLE: mixed operands are promoted.
Promote(v) == IF v.t = "int" THEN v.v * Unit ELSE v.v

Compare(op, a, b) ==
    CASE op = "=" -> a = b [] op = "<>" -> a # b
      [] op = "<" -> a < b [] op = "<=" -> a <= b
      [] op = ">" -> a > b [] op = ">=" -> a >= b

\* Rust's integer division truncates.
Quotient(a, b) ==
    LET abs(n) == IF n < 0 THEN -n ELSE n
        q == abs(a) \div abs(b)
    IN  IF (a < 0) = (b < 0) THEN q ELSE -q

\* INT arithmetic.  Overflow panics in a build with overflow checks and wraps
\* in one without; dividing the least INT by -1 panics in both.
IntArithmetic(op, a, b, checked) ==
    LET n == CASE op = "+" -> a + b [] op = "-" -> a - b [] op = "*" -> a * b
               [] op = "/" -> Quotient(a, b)
    IN  IF op = "/" /\ b = 0 THEN Error({})
        ELSE IF InRange(n) THEN Value(Int32(n), {})
        ELSE IF checked \/ op = "/" THEN Error({})
        ELSE Value(Int32(Wrap(n)), {"wrapped"})

DoubleArithmetic(op, a, b) ==
    IF op = "/" /\ b = 0 THEN Error({})
    ELSE Value(Double(CASE op = "+" -> a + b [] op = "-" -> a - b
                        [] op = "*" -> (a * b) \div Unit
                        [] op = "/" -> (a * Unit) \div b), {})

\* Any NULL operand gives NULL, of AND and OR too: where the other operand
\* decides, SQL has an answer.
BinaryOnNull(op, l, r) ==
    Value(Null, IF \/ op = "and" /\ Bool(FALSE) \in {l, r}
                   \/ op = "or" /\ Bool(TRUE) \in {l, r}
                THEN {"strict_and_or"} ELSE {})

EvaluateBinary(op, l, r, checked) ==
    IF Null \in {l, r} THEN BinaryOnNull(op, l, r)
    ELSE IF l.t \in Numeric /\ r.t \in Numeric THEN
        IF op \in Comparisons THEN Value(Bool(Compare(op, Promote(l), Promote(r))), {})
        ELSE IF op \notin Arithmetic THEN Error({})
        ELSE IF l.t = "int" /\ r.t = "int" THEN IntArithmetic(op, l.v, r.v, checked)
        ELSE DoubleArithmetic(op, Promote(l), Promote(r))
    ELSE IF l.t = "bool" /\ r.t = "bool" THEN
        CASE op = "and" -> Value(Bool(l.v = 1 /\ r.v = 1), {})
          [] op = "or"  -> Value(Bool(l.v = 1 \/ r.v = 1), {})
          [] op \in {"=", "<>"} -> Value(Bool(Compare(op, l.v, r.v)), {})
          [] OTHER -> Error({})
    ELSE Error({})

\* The unary minus knows INT only.
EvaluateUnary(k, v, checked) ==
    IF v = Null THEN Value(Null, {})
    ELSE CASE k = "not" /\ v.t = "bool" -> Value(Bool(v.v = 0), {})
           [] k = "neg" /\ v.t = "int"  -> IntArithmetic("-", 0, v.v, checked)
           [] k = "neg" /\ v.t = "dbl"  -> Error({"neg_double"})
           [] OTHER -> Error({})

\* evaluate_expr, on a row of the input or of the aggregation.  Both operands
\* are evaluated before the operator is applied.
RECURSIVE EvaluateExpr(_, _, _)
EvaluateExpr(e, row, checked) ==
    CASE e.k = "lit" -> LiteralToValue(e.v)
      [] e.k = "col" -> Value(IF e.c \in DOMAIN row THEN row[e.c] ELSE Null, {})
      [] e.k = "bin" ->
            LET l == EvaluateExpr(e.l, row, checked)
                r == EvaluateExpr(e.r, row, checked)
            IN  IF ~l.ok THEN l
                ELSE IF ~r.ok THEN [r EXCEPT !.x = @ \cup l.x]
                ELSE LET b == EvaluateBinary(e.op, l.v, r.v, checked)
                     IN  [b EXCEPT !.x = @ \cup l.x \cup r.x]
      [] e.k \in {"not", "neg"} ->
            LET v == EvaluateExpr(e.e, row, checked)
                u == EvaluateUnary(e.k, v.v, checked)
            IN  IF v.ok THEN [u EXCEPT !.x = @ \cup v.x] ELSE v
      [] e.k = "isnull" ->
            LET v == EvaluateExpr(e.e, row, checked)
            IN  IF v.ok THEN Value(Bool((v.v = Null) # e.negated), v.x) ELSE v
=============================================================================
