------------------------------ MODULE Catalog ------------------------------
(***************************************************************************)
(* The system catalog, its cache and DDL: src/catalog.rs, and CREATE and   *)
(* DROP TABLE, CREATE and DROP INDEX, TRUNCATE and the catalog lookups of  *)
(* INSERT in src/executor.rs, with the name checks of src/analyzer.rs.     *)
(*                                                                         *)
(* Catalog rows are read without regard to visibility: a row counts until  *)
(* somebody stamps its xmax.  A step is what happens under one page latch  *)
(* or under the cache's mutex; there are no table locks.  pg_attribute     *)
(* goes with pg_class, a heap is a set of rows and an index a set of row   *)
(* numbers (HeapChain and BTree have their pages).                         *)
(***************************************************************************)
EXTENDS Integers, Sequences, FiniteSets, SequencesExt

CONSTANT Workloads   \* see Init

VARIABLES pgClass,       \* rows [id, name, page, oid, chk, xmax]; oid: which CREATE made it
          pgIndex,       \* rows [id, name, table, root, xmax]
          pgConstraint,  \* CHECKs: rows [id, table, owner]; owner: the oid it was made for
          heap,          \* heap[p]: the rows [n, x] on the pages of a heap
          tree,          \* tree[r]: the row numbers in the index with root r
          cache,         \* CatalogCache
          checks,        \* analyzed_check_cache: constraint id -> whose predicate
          status,        \* status[x] of transaction x
          session,       \* session[s]: what connection s is doing
          retired,       \* history: <<n, x>>: row n was on a heap that x replaced or dropped
          excused,       \* history: rows whose INSERT overlapped a DDL statement
          exposed        \* history: the causes that have occurred

catalogVars == <<pgClass, pgIndex, pgConstraint>>
dataVars    == <<heap, tree>>
histVars    == <<retired, excused, exposed>>
vars == <<catalogVars, dataVars, cache, checks, status, session, histVars>>

NoTxn  == 0
Nobody == [id |-> 0, name |-> "", page |-> 0, oid |-> 0, chk |-> FALSE, xmax |-> NoTxn]
EmptyCache == [byId |-> <<>>, byName |-> <<>>, idxs |-> <<>>, cons |-> <<>>]

\* CatalogCache: `invalidate` drops every entry.
Remember(f, k, v) == (k :> v) @@ f

\* Catalog::scan_chain: the rows nobody has stamped, in the order of the chain.
LiveRows(rows) == SelectSeq(rows, LAMBDA r : r.xmax = NoTxn)

\* max existing + 1
FreshId(rows) == Max({0} \cup {rows[i].id : i \in DOMAIN rows}) + 1

----------------------------------------------------------------------------
(* Statements, as the steps that execute them.                             *)

CreateTable(t, chk, pk) == [op |-> "create", name |-> t, index |-> pk, chk |-> chk]
DropTable(t)            == [op |-> "drop", name |-> t, index |-> "", chk |-> FALSE]
TruncateTable(t)        == [op |-> "truncate", name |-> t, index |-> "", chk |-> FALSE]
CreateIndex(i, t)       == [op |-> "createindex", name |-> t, index |-> i, chk |-> FALSE]
DropIndex(i)            == [op |-> "dropindex", name |-> "", index |-> i, chk |-> FALSE]
InsertInto(t)           == [op |-> "insert", name |-> t, index |-> "", chk |-> FALSE]

\* Defect: the cache is not cleared.
Bad_BuildIndex == <<"pickIndex", "byid", "scan", "addIndex">>

\* perform_create_index
BuildIndex == <<"pickIndex", "byid", "scan", "addIndex", "invalidate">>

Script(st) ==
  CASE st.op = "create"      -> <<"absent", "pickTable", "addClass">>
                                  \o (IF st.chk THEN <<"pickCons", "addCons">> ELSE <<>>)
                                  \o (IF st.index # "" THEN BuildIndex ELSE <<>>) \o <<"invalidate">>
    [] st.op = "drop"        -> <<"find", "spotClass", "dropClass", "spotIndexes", "dropIndexes", "invalidate">>
    [] st.op = "truncate"    -> <<"find", "spotFirst", "swapClass", "readdClass", "idxs", "nextIndex", "invalidate">>
    [] st.op = "createindex" -> <<"find", "noIndex">> \o BuildIndex
    [] st.op = "dropindex"   -> <<"findIndex", "spotIndex", "dropIndexes", "invalidate">>
    [] st.op = "insert"      -> <<"find", "byid", "cons", "check", "put", "idxs", "schema", "enter">>

NoStmt == [op |-> "none", name |-> "", index |-> "", chk |-> FALSE]

\* A program is a sequence of statements, in a BEGIN block or one by one.
Idle(prog) == [prog |-> prog, todo |-> <<"begin">>, st |-> NoStmt, id |-> NoTxn, snap |-> {}, def |-> Nobody,
               got |-> Nobody, picked |-> 0, list |-> <<>>, victims |-> {}, checked |-> {}, entries |-> {}, row |-> 0,
               over |-> FALSE, ddl |-> FALSE]

\* A workload: the tables at first, each with or without a CHECK and an
\* index, and one program for each connection.
Init == \E w \in Workloads :
  /\ pgClass = [i \in DOMAIN w.tables |-> [id |-> i, name |-> w.tables[i].name, page |-> i, oid |-> i,
                                           chk |-> w.tables[i].chk, xmax |-> NoTxn]]
  /\ pgIndex = <<>>
  /\ pgConstraint = SelectSeq([i \in DOMAIN w.tables |-> [id |-> i, table |-> i, owner |-> i]],
                              LAMBDA c : w.tables[c.table].chk)
  /\ heap = [i \in DOMAIN w.tables |-> {}]
  /\ tree = <<>>
  /\ cache = EmptyCache /\ checks = <<>>
  /\ status = <<>>
  /\ session = [s \in DOMAIN w.programs |-> Idle(w.programs[s])]
  /\ retired = {} /\ excused = {} /\ exposed = {}

Sessions  == DOMAIN session
Me(s)     == session[s].id
At(s, step) == session[s].todo # <<>> /\ Head(session[s].todo) = step
Flag(cause, cond) == exposed' = IF cond THEN exposed \cup {cause} ELSE exposed

Done(t) == [t EXCEPT !.todo = Tail(@)]
Set(s, t) == session' = [session EXCEPT ![s] = t]

\* An error: the transaction is rolled back.
Failed(t) == [t EXCEPT !.todo = <<"abort">>]

InDdl(t)     == t.st.op \notin {"none", "insert"}
Inserting(t) == t.st.op = "insert"

----------------------------------------------------------------------------
(* Transactions: the id and the snapshot, the next statement, the end.     *)

Begin(s) ==
  /\ At(s, "begin")
  /\ status' = Append(status, "running")
  /\ Set(s, [session[s] EXCEPT !.id = Len(status) + 1, !.todo = <<"next">>,
                               !.snap = {x \in DOMAIN status : status[x] = "committed"}])
  /\ UNCHANGED <<catalogVars, dataVars, cache, checks, histVars>>

\* over: an INSERT and a DDL statement that are under way at the same time.
NextStatement(s) ==
  LET t == session[s]
      st == Head(t.prog.stmts)
  IN /\ At(s, "next")
     /\ IF t.prog.stmts = <<>> THEN Set(s, [t EXCEPT !.todo = <<"end">>])
        ELSE session' = [r \in Sessions |->
               IF r = s THEN [t EXCEPT !.todo = Script(st) \o <<"done">>, !.st = st, !.prog.stmts = Tail(@),
                                       !.ddl = @ \/ st.op # "insert",
                                       !.over = \E q \in Sessions : InDdl(session[q])]
               ELSE [session[r] EXCEPT !.over = @ \/ (Inserting(session[r]) /\ st.op # "insert")]]
     /\ UNCHANGED <<catalogVars, dataVars, cache, checks, status, histVars>>

StatementDone(s) ==
  LET t == session[s]
  IN /\ At(s, "done")
     /\ Set(s, [t EXCEPT !.todo = IF t.prog.block THEN <<"next">> ELSE <<"end">>,
                         !.st = NoStmt, !.over = FALSE])
     /\ excused' = IF Inserting(t) /\ t.over THEN excused \cup {t.row} ELSE excused
     /\ UNCHANGED <<catalogVars, dataVars, cache, checks, status, retired, exposed>>

\* COMMIT, ROLLBACK and the auto-commit boundary: nothing is undone, and
\* nothing of the cache is dropped.
End(s) ==
  LET t == session[s]
  IN /\ At(s, "end") \/ At(s, "abort")
     /\ \E verdict \in (IF At(s, "abort") THEN {} ELSE {"committed"})
                        \cup (IF At(s, "abort") \/ t.prog.block THEN {"aborted"} ELSE {}) :
          /\ status' = [status EXCEPT ![t.id] = verdict]
          /\ Flag("undone", verdict = "aborted" /\ t.ddl)
     /\ Set(s, [Idle(t.prog) EXCEPT !.todo = IF t.prog.block \/ t.prog.stmts = <<>> THEN <<>> ELSE <<"begin">>])
     /\ UNCHANGED <<catalogVars, dataVars, cache, checks, retired, excused>>

----------------------------------------------------------------------------
(* Lookups: the cache under its mutex; on a miss the pages without it, and *)
(* then the cache again.                                                   *)

ByName(s) == At(s, "find") \/ At(s, "absent")

Cached(s) ==
  LET name == session[s].st.name
      id   == IF ByName(s) THEN (IF name \in DOMAIN cache.byName THEN cache.byName[name] ELSE 0)
              ELSE session[s].def.id
  IN IF id \in DOMAIN cache.byId THEN <<cache.byId[id]>> ELSE <<>>

OnPages(s) ==
  SelectSeq(LiveRows(pgClass), LAMBDA r : IF ByName(s) THEN r.name = session[s].st.name
                                          ELSE r.id = session[s].def.id)

\* The table is found; for CREATE TABLE that is an error.
Found(t, def) == IF Head(t.todo) = "absent" THEN Failed(t) ELSE [Done(t) EXCEPT !.def = def]

\* find_table and table_by_id.
LookupTable(s) ==
  LET t == session[s]
  IN /\ ByName(s) \/ At(s, "byid") \/ (At(s, "schema") /\ t.list # <<>>)
     /\ Set(s, IF Cached(s) # <<>> THEN Found(t, Cached(s)[1])
               ELSE IF OnPages(s) # <<>> THEN [t EXCEPT !.todo = <<"fill">> \o @, !.got = OnPages(s)[1]]
               ELSE IF At(s, "absent") THEN Done(t) ELSE Failed(t))
     /\ UNCHANGED <<catalogVars, dataVars, cache, checks, status, histVars>>

\* A table without indexes needs no schema for their keys.
SkipSchema(s) ==
  /\ At(s, "schema") /\ session[s].list = <<>>
  /\ Set(s, Done(session[s]))
  /\ UNCHANGED <<catalogVars, dataVars, cache, checks, status, histVars>>

FillTable(s) ==
  LET t == session[s]
  IN /\ At(s, "fill")
     /\ cache' = [cache EXCEPT !.byId = Remember(@, t.got.id, t.got),
                               !.byName = Remember(@, t.got.name, t.got.id)]
     /\ Set(s, Found(Done(t), t.got))
     /\ Flag("stale", ~Contains(LiveRows(pgClass), t.got))
     /\ UNCHANGED <<catalogVars, dataVars, checks, status, retired, excused>>

IndexesOf(id)     == SelectSeq(LiveRows(pgIndex), LAMBDA i : i.table = id)
ConstraintsOf(id) == SelectSeq(pgConstraint, LAMBDA c : c.table = id)

\* indexes_for_table and constraints_for_table: an empty list is cached too.
LookupList(s) ==
  LET t     == session[s]
      known == IF At(s, "idxs") THEN cache.idxs ELSE cache.cons
  IN /\ At(s, "idxs") \/ At(s, "cons")
     /\ Set(s, IF t.def.id \in DOMAIN known THEN [Done(t) EXCEPT !.list = known[t.def.id]]
               ELSE [t EXCEPT !.todo = <<"fillList">> \o @,
                              !.list = IF At(s, "idxs") THEN IndexesOf(t.def.id)
                                       ELSE ConstraintsOf(t.def.id)])
     /\ UNCHANGED <<catalogVars, dataVars, cache, checks, status, histVars>>

FillList(s) ==
  LET t   == session[s]
      idx == t.todo[2] = "idxs"
      id  == t.def.id
  IN /\ At(s, "fillList")
     /\ cache' = IF idx THEN [cache EXCEPT !.idxs = Remember(@, id, t.list)]
                 ELSE [cache EXCEPT !.cons = Remember(@, id, t.list)]
     /\ Set(s, Done(Done(t)))
     /\ Flag("stale", t.list # IF idx THEN IndexesOf(id) ELSE ConstraintsOf(id))
     /\ UNCHANGED <<catalogVars, dataVars, checks, status, retired, excused>>

\* Defect: what is cached stays cached.
Bad_Invalidated == cache

Invalidated == EmptyCache

Invalidate(s) ==
  /\ At(s, "invalidate")
  /\ cache' = Invalidated
  /\ Set(s, Done(session[s]))
  /\ UNCHANGED <<catalogVars, dataVars, checks, status, histVars>>

----------------------------------------------------------------------------
(* CREATE TABLE and CREATE INDEX.                                          *)

Pick(s, step, id) ==
  /\ At(s, step)
  /\ Set(s, [Done(session[s]) EXCEPT !.picked = id])
  /\ UNCHANGED <<catalogVars, dataVars, cache, checks, status, retired, excused>>

\* DROP TABLE leaves the constraints of the table behind.
PickTable(s) ==
  LET id == FreshId(LiveRows(pgClass))
  IN Pick(s, "pickTable", id) /\ Flag("reused", ConstraintsOf(id) # <<>>)

\* Defect: constraints are numbered table by table.
Bad_PickConstraint(s) ==
  Pick(s, "pickCons", FreshId(ConstraintsOf(session[s].def.id))) /\ UNCHANGED exposed

PickConstraint(s) == Pick(s, "pickCons", FreshId(pgConstraint)) /\ UNCHANGED exposed
PickIndex(s)      == Pick(s, "pickIndex", FreshId(LiveRows(pgIndex))) /\ UNCHANGED exposed

Taken(rows, id) == \E i \in DOMAIN rows : rows[i].id = id

\* new_page and the row of pg_class.
AddClass(s) ==
  LET t == session[s]
      row == [id |-> t.picked, name |-> t.st.name, page |-> Len(heap) + 1, oid |-> Len(pgClass) + 1,
              chk |-> t.st.chk, xmax |-> NoTxn]
  IN /\ At(s, "addClass")
     /\ heap' = Append(heap, {})
     /\ pgClass' = Append(pgClass, row)
     /\ Set(s, [Done(t) EXCEPT !.def = row])
     /\ Flag("idrace", Taken(LiveRows(pgClass), t.picked)
                       \/ \E i \in DOMAIN LiveRows(pgClass) : LiveRows(pgClass)[i].name = t.st.name)
     /\ UNCHANGED <<pgIndex, pgConstraint, tree, cache, checks, status, retired, excused>>

AddConstraint(s) ==
  LET t == session[s]
  IN /\ At(s, "addCons")
     /\ pgConstraint' = Append(pgConstraint, [id |-> t.picked, table |-> t.def.id, owner |-> t.def.oid])
     /\ Set(s, Done(t))
     /\ Flag("idrace", \E r \in Sessions \ {s} : InDdl(session[r]) /\ session[r].picked = t.picked)
     /\ UNCHANGED <<pgClass, pgIndex, dataVars, cache, checks, status, retired, excused>>

\* find_index, which has no cache.
IndexNamed(name) == SelectSeq(LiveRows(pgIndex), LAMBDA i : i.name = name)

NoIndexYet(s) ==
  /\ At(s, "noIndex")
  /\ Set(s, IF IndexNamed(session[s].st.index) = <<>> THEN Done(session[s]) ELSE Failed(session[s]))
  /\ UNCHANGED <<catalogVars, dataVars, cache, checks, status, histVars>>

Visible(t, r) == r.x = t.id \/ (r.x \in t.snap /\ status[r.x] = "committed")

\* visible_rows under the transaction's snapshot: rows it does not see are
\* not indexed, though they may be committed later or are already.
ScanHeap(s) ==
  LET t == session[s]
      rows == heap[t.def.page]
  IN /\ At(s, "scan")
     /\ Set(s, [Done(t) EXCEPT !.entries = {r.n : r \in {r \in rows : Visible(t, r)}}])
     /\ Flag("unscanned", \E r \in rows : ~Visible(t, r) /\ status[r.x] # "aborted")
     /\ UNCHANGED <<catalogVars, dataVars, cache, checks, status, retired, excused>>

\* bulk_build_btree and the row of pg_index.
AddIndex(s) ==
  LET t == session[s]
  IN /\ At(s, "addIndex")
     /\ tree' = Append(tree, t.entries)
     /\ pgIndex' = Append(pgIndex, [id |-> t.picked, name |-> t.st.index, table |-> t.def.id,
                                    root |-> Len(tree) + 1, xmax |-> NoTxn])
     /\ Set(s, Done(t))
     /\ Flag("idrace", Taken(LiveRows(pgIndex), t.picked))
     /\ UNCHANGED <<pgClass, pgConstraint, heap, cache, checks, status, retired, excused>>

----------------------------------------------------------------------------
(* DROP TABLE, DROP INDEX, TRUNCATE.                                       *)

Live(rows) == {i \in DOMAIN rows : rows[i].xmax = NoTxn}

\* tombstone_catalog_rows: one pass over the chain finds the rows, and then
\* each is stamped, whatever has become of it since.
Spot(s, step, victims) ==
  /\ At(s, step)
  /\ Set(s, [Done(session[s]) EXCEPT !.victims = victims])
  /\ UNCHANGED <<catalogVars, dataVars, cache, checks, status, histVars>>

SpotClass(s)   == Spot(s, "spotClass", {r \in Live(pgClass) : pgClass[r].id = session[s].def.id})
SpotIndexes(s) == Spot(s, "spotIndexes", {i \in Live(pgIndex) : pgIndex[i].table = session[s].def.id})
SpotIndex(s)   == Spot(s, "spotIndex", {i \in Live(pgIndex) : pgIndex[i].id = session[s].picked})

Stamped(s, rows) ==
  [i \in DOMAIN rows |-> IF i \in session[s].victims THEN [rows[i] EXCEPT !.xmax = Me(s)] ELSE rows[i]]

\* The rows on the heaps of the victims.
Retire(s) ==
  retired' = retired \cup UNION {{<<r.n, Me(s)>> : r \in heap[pgClass[i].page]} : i \in session[s].victims}

DropClass(s) ==
  /\ At(s, "dropClass")
  /\ pgClass' = Stamped(s, pgClass)
  /\ Retire(s)
  /\ Set(s, Done(session[s]))
  /\ UNCHANGED <<pgIndex, pgConstraint, dataVars, cache, checks, status, excused, exposed>>

DropIndexes(s) ==
  /\ At(s, "dropIndexes")
  /\ pgIndex' = Stamped(s, pgIndex)
  /\ Set(s, Done(session[s]))
  /\ UNCHANGED <<pgClass, pgConstraint, dataVars, cache, checks, status, histVars>>

FindIndex(s) ==
  LET t == session[s]
      hit == IndexNamed(t.st.index)
  IN /\ At(s, "findIndex")
     /\ Set(s, IF hit = <<>> THEN Failed(t) ELSE [Done(t) EXCEPT !.picked = hit[1].id])
     /\ UNCHANGED <<catalogVars, dataVars, cache, checks, status, histVars>>

\* rewrite_catalog_row: the first row is found, an error if there is none,
SpotFirst(s, live) ==
  LET t == session[s]
  IN /\ Set(s, IF live = {} THEN Failed(t) ELSE [Done(t) EXCEPT !.victims = {Min(live)}])
     /\ UNCHANGED <<catalogVars, dataVars, cache, checks, status, histVars>>

SpotTable(s) == At(s, "spotFirst") /\ SpotFirst(s, {r \in Live(pgClass) : pgClass[r].id = session[s].def.id})
SpotTree(s)  == At(s, "spotTree") /\ SpotFirst(s, {i \in Live(pgIndex) : pgIndex[i].id = session[s].picked})

\* it is stamped,
SwapClass(s) ==
  /\ At(s, "swapClass")
  /\ pgClass' = Stamped(s, pgClass)
  /\ Retire(s)
  /\ Set(s, Done(session[s]))
  /\ UNCHANGED <<pgIndex, pgConstraint, dataVars, cache, checks, status, excused, exposed>>

SwapIndex(s) ==
  /\ At(s, "swapIndex")
  /\ pgIndex' = Stamped(s, pgIndex)
  /\ Set(s, Done(session[s]))
  /\ UNCHANGED <<pgClass, pgConstraint, dataVars, cache, checks, status, histVars>>

Victim(s) == CHOOSE i \in session[s].victims : TRUE

\* and the new one goes to the end of the chain.
ReaddClass(s) ==
  /\ At(s, "readdClass")
  /\ heap' = Append(heap, {})
  /\ pgClass' = Append(pgClass, [pgClass[Victim(s)] EXCEPT !.xmax = NoTxn, !.page = Len(heap) + 1])
  /\ Set(s, Done(session[s]))
  /\ UNCHANGED <<pgIndex, pgConstraint, tree, cache, checks, status, histVars>>

ReaddIndex(s) ==
  /\ At(s, "readdIndex")
  /\ tree' = Append(tree, {})
  /\ pgIndex' = Append(pgIndex, [pgIndex[Victim(s)] EXCEPT !.xmax = NoTxn, !.root = Len(tree) + 1])
  /\ Set(s, Done(session[s]))
  /\ UNCHANGED <<pgClass, pgConstraint, heap, cache, checks, status, histVars>>

\* TRUNCATE's loop over the indexes of the table.
NextIndex(s) ==
  LET t == session[s]
  IN /\ At(s, "nextIndex")
     /\ Set(s, IF t.list = <<>> THEN Done(t)
               ELSE [t EXCEPT !.todo = <<"spotTree", "swapIndex", "readdIndex">> \o @,
                              !.picked = Head(t.list).id, !.list = Tail(@)])
     /\ UNCHANGED <<catalogVars, dataVars, cache, checks, status, histVars>>

----------------------------------------------------------------------------
(* INSERT.                                                                 *)

\* enforce_check_constraints: predicates are cached by constraint id, for good.
Check(s) ==
  LET t == session[s]
      ids == {t.list[i].id : i \in DOMAIN t.list} \ DOMAIN checks
      seen == [id \in ids |-> t.list[Min({i \in DOMAIN t.list : t.list[i].id = id})].owner] @@ checks
  IN /\ At(s, "check")
     /\ checks' = seen
     /\ Set(s, [Done(t) EXCEPT !.checked = {seen[t.list[i].id] : i \in DOMAIN t.list}])
     /\ UNCHANGED <<catalogVars, dataVars, cache, status, histVars>>

\* insert_bytes
RowNo == 1 + Cardinality(UNION {heap[p] : p \in DOMAIN heap})

PutRow(s) ==
  LET t == session[s]
  IN /\ At(s, "put")
     /\ heap' = [heap EXCEPT ![t.def.page] = @ \cup {[n |-> RowNo, x |-> t.id]}]
     /\ Set(s, [Done(t) EXCEPT !.row = RowNo])
     /\ UNCHANGED <<catalogVars, tree, cache, checks, status, histVars>>

\* index_insert_for_row_with_lm
EnterIndexes(s) ==
  LET t == session[s]
      roots == {t.list[i].root : i \in DOMAIN t.list}
  IN /\ At(s, "enter")
     /\ tree' = [r \in DOMAIN tree |-> IF r \in roots THEN tree[r] \cup {t.row} ELSE tree[r]]
     /\ Set(s, Done(t))
     /\ UNCHANGED <<catalogVars, heap, cache, checks, status, histVars>>

----------------------------------------------------------------------------
Next == \E s \in Sessions :
  \/ Begin(s) \/ NextStatement(s) \/ StatementDone(s) \/ End(s)
  \/ LookupTable(s) \/ SkipSchema(s) \/ FillTable(s) \/ LookupList(s) \/ FillList(s) \/ Invalidate(s)
  \/ PickTable(s) \/ PickConstraint(s) \/ PickIndex(s) \/ AddClass(s) \/ AddConstraint(s)
  \/ NoIndexYet(s) \/ ScanHeap(s) \/ AddIndex(s)
  \/ FindIndex(s) \/ SpotClass(s) \/ SpotIndexes(s) \/ SpotIndex(s) \/ DropClass(s) \/ DropIndexes(s)
  \/ SpotTable(s) \/ SwapClass(s) \/ ReaddClass(s)
  \/ NextIndex(s) \/ SpotTree(s) \/ SwapIndex(s) \/ ReaddIndex(s)
  \/ Check(s) \/ PutRow(s) \/ EnterIndexes(s)

Spec == Init /\ [][Next]_vars

----------------------------------------------------------------------------
CommittedOn(p) == {r \in heap[p] : status[r.x] = "committed" /\ r.n \notin excused}

\* A lookup by name stops at the first row.
FirstOfName(rows, i) == \A j \in 1..(i - 1) : rows[j].name # rows[i].name

\* Every committed row is in the heap that a lookup finds for some table,
\* unless that heap was dropped or replaced after the row went in.  The
\* exceptions: INSERTs that overlapped a DDL statement, a cache filled with
\* what a lookup had read before the change ("stale"), and a rolled back
\* TRUNCATE or DROP, which stays in force ("undone") (executor.rs
\* perform_truncate, rewrite_catalog_row; catalog.rs find_table, invalidate).
RowsReachable ==
  exposed \cap {"stale", "undone"} = {} =>
    \A p \in DOMAIN heap : \A r \in CommittedOn(p) :
      \/ \E i \in DOMAIN LiveRows(pgClass) : LiveRows(pgClass)[i].page = p /\ FirstOfName(LiveRows(pgClass), i)
      \/ \E x \in DOMAIN status : <<r.n, x>> \in retired /\ status[x] # "aborted"

\* Every committed row of a table is in every index the catalog has for it.
\* The exceptions are those above and rows that CREATE INDEX does not see: the
\* DML path indexes a row when it is written, not when it is committed, so
\* a row another transaction had written, or committed since the snapshot,
\* is never indexed ("unscanned") (executor.rs perform_create_index,
\* index_insert_for_row_with_lm).
IndexComplete ==
  exposed \cap {"stale", "unscanned"} = {} =>
    \A c \in DOMAIN pgClass : \A i \in DOMAIN pgIndex :
      (pgClass[c].xmax = NoTxn /\ pgIndex[i].xmax = NoTxn /\ pgIndex[i].table = pgClass[c].id)
        => {r.n : r \in CommittedOn(pgClass[c].page)} \subseteq tree[pgIndex[i].root]

\* A row is tested against exactly the CHECKs its table was created with,
\* though predicates are cached for ever by constraint id.  The exceptions
\* are overlaps and stale lists as above, a table that gets the id of a dropped one and
\* with it its constraints ("reused"), and two CREATEs that pick an id at
\* the same time ("idrace") (executor.rs enforce_check_constraints,
\* perform_create_table, perform_drop_table).
ChecksOwn ==
  exposed \cap {"stale", "reused", "idrace"} = {} =>
    \A s \in Sessions : (At(s, "put") /\ ~session[s].over) =>
      session[s].checked = IF session[s].def.chk THEN {session[s].def.oid} ELSE {}
=============================================================================
