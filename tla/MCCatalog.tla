----------------------------- MODULE MCCatalog -----------------------------
EXTENDS Catalog

Auto(ss)  == [block |-> FALSE, stmts |-> ss]
Block(ss) == [block |-> TRUE, stmts |-> ss]

Plain == [name |-> "t", chk |-> FALSE]
Checked == [name |-> "t", chk |-> TRUE]

W(tables, programs) == [tables |-> tables, programs |-> programs]

Ins == InsertInto("t")

MCWorkloads == {
  \* a table truncated, and indexed, under INSERTs
  W(<<Plain>>, << Auto(<<Ins, TruncateTable("t"), Ins>>), Auto(<<Ins, Ins>>) >>),
  W(<<Plain>>, << Auto(<<TruncateTable("t"), Ins>>), Auto(<<TruncateTable("t"), Ins>>) >>),
  W(<<Plain>>, << Auto(<<CreateIndex("i", "t"), TruncateTable("t")>>), Auto(<<Ins, Ins>>) >>),
  W(<<Plain>>, << Block(<<CreateIndex("i", "t"), Ins>>), Auto(<<Ins, Ins>>) >>),
  W(<<Plain>>, << Auto(<<CreateIndex("i", "t"), DropIndex("i")>>), Block(<<Ins, CreateIndex("i", "t")>>) >>),
  \* DDL rolled back
  W(<<Plain>>, << Block(<<TruncateTable("t")>>), Auto(<<Ins, Ins>>) >>),
  \* a table used while it is created
  W(<<Plain>>, << Auto(<<CreateTable("u", TRUE, "")>>), Auto(<<InsertInto("u"), InsertInto("u"), InsertInto("u")>>) >>),
  \* tables created and dropped, their ids and constraints
  W(<<Checked>>, << Auto(<<Ins, DropTable("t"), CreateTable("t", FALSE, "")>>), Auto(<<Ins>>) >>),
  W(<<Checked>>, << Auto(<<CreateTable("u", TRUE, "pk"), InsertInto("u")>>), Auto(<<Ins, CreateTable("u", TRUE, "")>>) >>),
  W(<<Checked>>, << Auto(<<DropTable("t"), CreateTable("u", FALSE, "")>>), Auto(<<TruncateTable("t"), Ins>>) >>) }
=============================================================================
