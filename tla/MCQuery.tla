------------------------------- MODULE MCQuery -------------------------------
(* Model-checking instance of Query: statements over A(a INT, d DOUBLE) and B(b INT). *)
EXTENDS Query

MCColType == <<"int", "dbl", "int">>

a == Col(1)
d == Col(2)
b == Col(3)
N(n) == Lit(Int32(n))
Half(n) == Lit(Double(n * (Unit \div 2)))
And(l, r) == Bin("and", l, r)
Or(l, r) == Bin("or", l, r)
Star == Agg("count", <<>>)
Asc(e) == [e |-> e, dir |-> "asc"]
Desc(e) == [e |-> e, dir |-> "desc"]

Select(items) ==
    [from |-> "table", left |-> FALSE, on |-> Lit(Null), where |-> <<>>, distinct |-> FALSE,
     group |-> <<>>, items |-> items, having |-> <<>>, order |-> <<>>, limit |-> <<>>]
Where(e) == [Select(<<a, d>>) EXCEPT !.where = <<e>>]
Join(left, on) == [Select(<<a, b>>) EXCEPT !.from = "join", !.left = left, !.on = on]
Grouped1(keys, items) == [Select(items) EXCEPT !.group = keys]
Distinct(items) == [Select(items) EXCEPT !.distinct = TRUE]

-----------------------------------------------------------------------------
\* Conditions that can use an index on a or d, and some that only look like it.
Indexable ==
    {Where(e) : e \in
        {Bin("=", a, N(1)), Bin("=", N(3), a), Bin("=", d, Half(3)), Bin("<>", a, N(1)),
         And(Bin(">=", a, N(0)), Bin("<=", a, N(1))), And(Bin("<=", N(0), a), Bin(">=", N(1), a)),
         And(Bin(">=", a, N(1)), Bin("<=", d, Half(3))), Or(Bin(">=", a, N(1)), Bin("<=", a, N(0))),
         And(Bin("<", a, N(3)), Bin(">=", a, N(1))),
         Bin("=", a, N(9)), And(Bin(">=", a, N(1)), Bin("<=", a, N(5))),
         Bin("=", a, Half(2)), Bin("=", d, N(1)), Bin("=", a, Lit(Null)),
         And(Bin(">=", a, N(0)), Bin("<=", a, Half(3)))}}
    \cup {[Where(Bin("=", a, N(1))) EXCEPT !.items = <<Star, Agg("sum", <<d>>)>>],
          [Where(And(Bin(">=", a, N(0)), Bin("<=", a, Half(3)))) EXCEPT !.limit = <<0>>]}

\* Three-valued conditions, arithmetic and its errors, LIMIT over lazy and eager plans.
Plain ==
    {Where(e) : e \in
        {Or(Bin("=", a, N(1)), Bin(">", d, Half(0))), Not(And(Bin("=", a, N(1)), Bin(">", d, Half(0)))),
         IsNull(And(Bin("=", a, N(1)), Bin(">", d, Half(0))), FALSE), IsNull(d, TRUE), Lit(Null),
         Bin("=", IsNull(a, FALSE), IsNull(d, FALSE)), Bin(">", Bin("/", N(3), a), N(0)), a, Star}}
    \cup {Select(<<Bin("+", a, N(1))>>), Select(<<Bin("*", a, d), Neg(a)>>), Select(<<Neg(d)>>),
          [Select(<<Bin("/", N(3), a)>>) EXCEPT !.limit = <<1>>],
          [Select(<<a>>) EXCEPT !.order = <<Desc(Bin("/", N(3), a))>>, !.limit = <<1>>],
          [Select(<<d>>) EXCEPT !.order = <<Asc(a), Desc(d)>>, !.limit = <<2>>],
          [Select(<<a, d>>) EXCEPT !.order = <<Desc(a)>>],
          [Select(<<Bin("-", d, a)>>) EXCEPT !.order = <<Asc(Bin("-", d, a))>>, !.limit = <<0>>],
          [Select(<<a>>) EXCEPT !.having = <<Bin(">", a, N(0))>>],
          [Select(<<N(1), Bin("*", Half(3), N(2))>>) EXCEPT !.from = "none"]}

Aggregates ==
    {Select(<<Star, Agg("count", <<a>>), Agg("sum", <<a>>), Agg("avg", <<a>>)>>),
     Select(<<Agg("min", <<d>>), Agg("max", <<a>>), Agg("sum", <<d>>), Agg("avg", <<d>>)>>),
     [Grouped1(<<a>>, <<a, Star, Agg("sum", <<d>>)>>)
        EXCEPT !.having = <<Bin(">", Star, N(1))>>, !.order = <<Desc(Agg("max", <<d>>))>>],
     [Grouped1(<<d, a>>, <<a, Bin("+", Agg("count", <<a>>), a)>>)
        EXCEPT !.order = <<Asc(d), Desc(a)>>, !.limit = <<2>>],
     [Grouped1(<<a>>, <<Agg("min", <<d>>)>>) EXCEPT !.having = <<Bin("<", Agg("min", <<d>>), a)>>],
     Grouped1(<<Bin("+", a, N(1))>>, <<Bin("+", a, N(1)), Star>>), Grouped1(<<a>>, <<d>>),
     Grouped1(<<a>>, <<Agg("sum", <<Agg("max", <<d>>)>>)>>),
     [Distinct(<<a>>) EXCEPT !.order = <<Desc(a)>>], [Distinct(<<d, a>>) EXCEPT !.limit = <<2>>],
     Distinct(<<Bin("+", a, N(1))>>), Distinct(<<Star>>), [Distinct(<<a>>) EXCEPT !.order = <<Asc(d)>>]}

Joins ==
    {Join(l, e) : l \in BOOLEAN,
        e \in {Bin("=", a, b), Bin("<", a, b), Or(Bin("=", a, b), Bin("=", b, N(3))),
               Bin(">", Bin("/", b, a), N(0))}}
    \cup {[Join(TRUE, Bin("=", a, b)) EXCEPT !.where = <<IsNull(b, FALSE)>>],
          [Join(TRUE, Bin("<=", a, b)) EXCEPT !.group = <<a>>, !.items = <<a, Agg("count", <<b>>)>>,
              !.order = <<Desc(Agg("count", <<b>>)), Asc(a)>>],
          [Join(FALSE, Bin("<=", a, b)) EXCEPT !.order = <<Desc(b), Asc(a)>>, !.limit = <<2>>],
          [Join(TRUE, Bin("=", a, b)) EXCEPT !.limit = <<1>>]}

-----------------------------------------------------------------------------
R1 == <<Int32(1), Double(18)>>
R2 == <<Int32(1), Null>>
R3 == <<Null, Double(18)>>
R4 == <<Int32(3), Double(-6)>>
R5 == <<Int32(0), Double(18)>>

Input(qs, as, bs, indexes, checks) ==
    [q : qs, db : [a : as, b : bs], index : indexes, checked : checks]

MCInputs ==
    Input(Indexable, BoundedSeq({R1, R2, R3, R4, R5}, 3), {<<>>}, {0, 1, 2}, {TRUE})
    \cup Input(Plain, BoundedSeq({R1, R2, R3, R4, R5}, 3), {<<>>}, {0}, BOOLEAN)
    \cup Input(Aggregates, BoundedSeq({R1, R2, R3, R4, R5}, 3) \cup {<<R1, R2, R3, R1>>},
               {<<>>}, {0}, {TRUE})
    \cup Input(Joins, BoundedSeq({R1, R3, R4, R5}, 3),
               BoundedSeq({<<Null>>, <<Int32(1)>>, <<Int32(3)>>}, 2), {0}, {TRUE})
=============================================================================
