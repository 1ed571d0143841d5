--------------------------- MODULE MCConstraints ---------------------------
EXTENDS Constraints

\* Programs: one statement, or a block by the simple or the extended protocol.
Auto(st)  == [block |-> FALSE, ext |-> FALSE, stmts |-> <<st>>]
Block(ss) == [block |-> TRUE, ext |-> FALSE, stmts |-> ss]
Ext(ss)   == [block |-> TRUE, ext |-> TRUE, stmts |-> ss]

W(parents, children, action, programs) ==
  [parents |-> parents, children |-> children, onDelete |-> action, programs |-> programs]

Ins(k)   == Insert("parent", k, "error")
Ref(k)   == Insert("child", k, "error")

Upsert(k) == Insert("parent", k, "update")
DelP(k)   == Delete("parent", k)
DelC(k)   == Delete("child", k)

MCWorkloads == {
  \* one key inserted twice, deleted and taken again, in opposite orders
  W(<<>>, <<>>, "RESTRICT", << Block(<<Ins(1)>>), Block(<<Ins(1)>>) >>),
  W(<<1>>, <<>>, "RESTRICT", << Block(<<DelP(1), Ins(1)>>), Ext(<<Ins(1)>>) >>),
  W(<<>>, <<>>, "RESTRICT", << Block(<<Ins(1), Ins(2)>>), Block(<<Ins(2), Ins(1)>>) >>),
  \* ON CONFLICT, also against the transaction's own rows
  W(<<1>>, <<>>, "RESTRICT", << Block(<<Upsert(1)>>), Block(<<DelP(1), Ins(1)>>) >>),
  W(<<1>>, <<>>, "RESTRICT", << Block(<<Upsert(1)>>), Block(<<Upsert(1)>>) >>),
  W(<<>>, <<>>, "RESTRICT", << Block(<<Ins(1), DelP(1), Upsert(1)>>),
                              Auto(Insert("parent", 1, "nothing")) >>),
  \* updates, HOT and not, against inserts
  W(<<1>>, <<>>, "RESTRICT", << Block(<<Touch(1)>>), Auto(Ins(1)) >>),
  W(<<1, 2>>, <<>>, "RESTRICT", << Auto(Update("parent", 2, 1)), Block(<<DelP(1)>>) >>),
  \* children against their parent, for every action
  W(<<1>>, <<1>>, "RESTRICT", << Block(<<DelC(1), DelP(1)>>), Block(<<Ref(1)>>) >>),
  W(<<1>>, <<1>>, "CASCADE", << Auto(DelP(1)), Block(<<Ref(1)>>) >>),
  W(<<1>>, <<1>>, "CASCADE", << Block(<<DelP(1)>>), Block(<<DelC(1), DelP(1)>>) >>),
  W(<<1, 2>>, <<1>>, "SET_NULL", << Block(<<DelP(1)>>), Block(<<Update("child", 1, 2),
                                                                  Update("child", 2, 3)>>) >>),
  W(<<1>>, <<1>>, "SET_NULL", << Auto(Update("parent", 1, 2)), Block(<<Ref(1), Ref(2)>>) >>),
  \* three writers of one row: restarts until the retries are used up
  W(<<1>>, <<>>, "CASCADE", << Auto(DelP(1)), Auto(Touch(1)), Auto(Touch(1)) >>) }
=============================================================================
