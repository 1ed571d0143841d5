----------------------------- MODULE HeapChain -----------------------------
(***************************************************************************)
(* The page chain of one heap table under concurrent INSERT, VACUUM        *)
(* (manual and autovacuum) and sequential scans: insert_bytes_hinted,      *)
(* perform_vacuum and SeqScan of src/executor.rs, over the slotted pages   *)
(* of src/page.rs and the free list of src/buffer_pool.rs.  A step is what *)
(* happens under one page latch; nothing but the latches orders the steps. *)
(*                                                                         *)
(* A row is its number, xmin and xmax; a page holds at most Cap rows and   *)
(* a tombstoned slot keeps its number (Row 0) and gives back its space.    *)
(* How DELETE picks and locks its row is in RowUpdate, index entries are   *)
(* in BTree.                                                               *)
(***************************************************************************)
EXTENDS Integers, Sequences, FiniteSets, SequencesExt

CONSTANTS Sessions,    \* connections that insert and delete
          Vacuums,     \* VACUUM statements and autovacuum passes that may overlap
          Cap,         \* rows on a page
          Workloads    \* see Init

VARIABLES page,      \* page[p]: [next, rows, av, owner]
          free,      \* the free list of the buffer pool, newest last
          status,    \* status[x]: what the CLOG and the ATT say of transaction x
          session,   \* session[s]: an INSERT (or DELETE) of connection s
          vacuum,    \* vacuum[v]: a perform_vacuum
          scan,      \* one SeqScan with its snapshot
          todo,      \* statements still to come
          owed,      \* history: numbers of the committed, not deleted rows
          rowNo,     \* history: rows made so far
          exposed    \* history: the races that have happened

vars == <<page, free, status, session, vacuum, scan, todo, owed, rowNo, exposed>>

NoPage    == 0
FirstPage == 1
NoTxn     == 0
Past      == 1     \* a transaction that committed before everything here
Failed    == 2     \* one that aborted

Row(n, x) == [n |-> n, xmin |-> x, xmax |-> NoTxn]
Tombstone == Row(0, NoTxn)

HeapPage(rows) == [next |-> NoPage, rows |-> rows, av |-> FALSE, owner |-> "table"]

LiveSlots(p) == {i \in 1..Len(page[p].rows) : page[p].rows[i] # Tombstone}

Full(p)    == Cardinality(LiveSlots(p)) >= Cap
IsEmpty(p) == LiveSlots(p) = {}

\* The pages of the table: those a walk from its first page meets.
Chain ==
  LET reach[i \in 0..Len(page)] ==
        IF i = 0 THEN {FirstPage}
        ELSE reach[i - 1] \cup {page[p].next : p \in reach[i - 1] \ {NoPage}}
  IN reach[Len(page)] \ {NoPage}

RowsOnChain == UNION {{page[p].rows[i] : i \in LiveSlots(p)} : p \in Chain}

----------------------------------------------------------------------------
(* Transactions: ids in the order they begin, decided once.                *)

Ids       == DOMAIN status
NextTxnId == Len(status) + 1
Active    == {x \in Ids : status[x] = "running"}

Committed(x) == status[x] = "committed"

\* TransactionManager::snapshot, for a transaction that has just begun.
Snapshot == [id |-> NextTxnId, xmax |-> NextTxnId + 1, active |-> Active \cup {NextTxnId}]

\* visibility::is_visible to a transaction that writes nothing itself.
IsVisible(r, s) ==
  /\ r.xmin < s.xmax /\ r.xmin \notin s.active /\ Committed(r.xmin)
  /\ ~(/\ r.xmax # NoTxn /\ r.xmax < s.xmax /\ r.xmax \notin s.active
       /\ Committed(r.xmax))

\* TransactionManager::oldest_active_xmin.
OldestActiveXmin == Min(Active \cup {NextTxnId})

\* Defect: a row counts as dead before its deleter has committed.
Bad_IsTupleDead(r, oldest) ==
  \/ status[r.xmin] = "aborted"
  \/ r.xmax # NoTxn /\ r.xmax < oldest

IsTupleDead(r, oldest) ==
  \/ status[r.xmin] = "aborted"
  \/ r.xmax # NoTxn /\ r.xmax < oldest /\ Committed(r.xmax)

----------------------------------------------------------------------------
NoStatement == [phase |-> "idle", id |-> NoTxn, at |-> NoPage, new |-> NoPage, left |-> 0,
                made |-> {}, gone |-> {}]

NoVacuum == [phase |-> "idle", prev |-> NoPage, cur |-> NoPage, next |-> NoPage,
             dead |-> {}, oldest |-> NoTxn]

NoScan == [phase |-> "idle", snap |-> [id |-> NoTxn, xmax |-> NoTxn, active |-> {}],
           at |-> NoPage, slot |-> 0, want |-> {}, got |-> {}]

\* A workload is the table's pages, each a sequence of rows that are "live"
\* or "dead", and how many rows the INSERTs have, how many DELETEs, VACUUMs
\* and scans there are and whether another table takes pages meanwhile.
Init == \E w \in Workloads :
  LET RowOf(p, i) == LET n == 10 * p + i
                     IN IF w.pages[p][i] = "live" THEN Row(n, Past) ELSE Row(n, Failed)
  IN /\ page = [p \in 1..Len(w.pages) |->
                  [HeapPage([i \in 1..Len(w.pages[p]) |-> RowOf(p, i)])
                     EXCEPT !.next = IF p = Len(w.pages) THEN NoPage ELSE p + 1]]
     /\ owed = {10 * p + i : <<p, i>> \in {<<p, i>> \in (1..Len(w.pages)) \X (1..Cap) :
                                  i <= Len(w.pages[p]) /\ w.pages[p][i] = "live"}}
     /\ free = <<>>
     /\ status = <<"committed", "aborted">>
     /\ session = [s \in Sessions |-> NoStatement]
     /\ vacuum = [v \in Vacuums |-> NoVacuum]
     /\ scan = NoScan
     /\ todo = w.todo
     /\ rowNo = 100
     /\ exposed = {}

Flag(cond, name) == exposed' = exposed \cup (IF cond THEN {name} ELSE {})

----------------------------------------------------------------------------
(* INSERT: insert_bytes_hinted for each row, the last page as the hint.    *)

BeginInsert(s) ==
  /\ session[s].phase = "idle" /\ todo.inserts # <<>>
  /\ todo' = [todo EXCEPT !.inserts = Tail(@)]
  /\ status' = Append(status, "running")
  /\ session' = [session EXCEPT ![s] = [NoStatement EXCEPT
                    !.phase = "walk", !.id = NextTxnId, !.at = FirstPage, !.left = Head(todo.inserts)]]
  /\ UNCHANGED <<page, free, vacuum, scan, owed, rowNo, exposed>>

\* One page of the walk to the tail.
Walk(s) ==
  LET t == session[s]
  IN /\ t.phase = "walk"
     /\ session' = [session EXCEPT ![s] = IF page[t.at].next = NoPage THEN [t EXCEPT !.phase = "try"]
                                          ELSE [t EXCEPT !.at = page[t.at].next]]
     /\ UNCHANGED <<page, free, status, vacuum, scan, todo, owed, rowNo, exposed>>

\* The row is in: the statement goes on to its next row or ends.
Placed(t, p) == [t EXCEPT !.phase = IF t.left > 1 THEN "walk" ELSE "end",
                          !.at = p, !.left = @ - 1]

WithRow(p, r) == [page[p] EXCEPT !.rows = Append(@, r), !.av = FALSE]

TryTail(s) ==
  LET t == session[s]
  IN /\ t.phase = "try"
     /\ IF Full(t.at)
        THEN /\ session' = [session EXCEPT ![s].phase = "fresh"]
             /\ UNCHANGED <<page, rowNo, exposed>>
        ELSE /\ page' = [page EXCEPT ![t.at] = WithRow(t.at, Row(rowNo + 1, t.id))]
             /\ session' = [session EXCEPT ![s] = [Placed(t, t.at) EXCEPT !.made = @ \cup {rowNo + 1}]]
             /\ rowNo' = rowNo + 1
             /\ Flag(t.at \notin Chain, "stray")
     /\ UNCHANGED <<free, status, vacuum, scan, todo, owed>>

\* BufferPool::new_page: the newest page of the free list, else a new one.
NewPage == IF free = <<>> THEN Len(page) + 1 ELSE Last(free)

TakeNewPage(content) ==
  /\ page' = IF free = <<>> THEN Append(page, content) ELSE [page EXCEPT ![NewPage] = content]
  /\ free' = IF free = <<>> THEN free ELSE Front(free)
  /\ Flag(scan.phase = "read" /\ scan.at = NewPage, "underfoot")

FreshPage(s) ==
  LET t == session[s]
  IN /\ t.phase = "fresh"
     /\ TakeNewPage(HeapPage(<<Row(rowNo + 1, t.id)>>))
     /\ session' = [session EXCEPT ![s].phase = "link", ![s].new = NewPage,
                                   ![s].made = @ \cup {rowNo + 1}]
     /\ rowNo' = rowNo + 1
     /\ UNCHANGED <<status, vacuum, scan, todo, owed>>

\* set_next_page_id on the page that was the last when it was walked to.
Link(s) ==
  LET t == session[s]
  IN /\ t.phase = "link"
     /\ page' = [page EXCEPT ![t.at].next = t.new]
     /\ session' = [session EXCEPT ![s] = [Placed(t, t.new) EXCEPT !.new = NoPage]]
     /\ Flag(page[t.at].next # NoPage \/ t.at \notin Chain, "overlink")
     /\ UNCHANGED <<free, status, vacuum, scan, todo, owed, rowNo>>

\* DELETE stamps xmax on a committed row that nobody has deleted.
BeginDelete(s) ==
  /\ session[s].phase = "idle" /\ todo.deletes > 0
  /\ todo' = [todo EXCEPT !.deletes = @ - 1]
  /\ status' = Append(status, "running")
  /\ \E p \in Chain : \E i \in LiveSlots(p) :
       LET r == page[p].rows[i]
       IN /\ Committed(r.xmin) /\ r.xmax = NoTxn
          /\ page' = [page EXCEPT ![p].rows[i].xmax = NextTxnId, ![p].av = FALSE]
          /\ session' = [session EXCEPT ![s] = [NoStatement EXCEPT
                            !.phase = "end", !.id = NextTxnId, !.gone = {r.n}]]
  /\ UNCHANGED <<free, vacuum, scan, owed, rowNo, exposed>>

End(s) ==
  LET t == session[s]
  IN /\ t.phase = "end"
     /\ \/ /\ status' = [status EXCEPT ![t.id] = "committed"]
           /\ owed' = (owed \cup t.made) \ t.gone
        \/ /\ status' = [status EXCEPT ![t.id] = "aborted"]
           /\ UNCHANGED owed
     /\ session' = [session EXCEPT ![s] = NoStatement]
     /\ UNCHANGED <<page, free, vacuum, scan, todo, rowNo, exposed>>

\* Another table or index takes a page of the free list.
OtherTakes ==
  /\ todo.others > 0 /\ free # <<>>
  /\ todo' = [todo EXCEPT !.others = @ - 1]
  /\ \E owner \in {"other", "index"} : TakeNewPage([HeapPage(<<>>) EXCEPT !.owner = owner])
  /\ UNCHANGED <<status, session, vacuum, scan, owed, rowNo>>

----------------------------------------------------------------------------
(* VACUUM.                                                                 *)

BeginVacuum(v) ==
  /\ vacuum[v].phase = "idle" /\ todo.vacuums > 0
  /\ todo' = [todo EXCEPT !.vacuums = @ - 1]
  /\ vacuum' = [vacuum EXCEPT ![v] = [NoVacuum EXCEPT !.phase = "read", !.cur = FirstPage,
                                                      !.oldest = OldestActiveXmin]]
  /\ UNCHANGED <<page, free, status, session, scan, owed, rowNo, exposed>>

\* On to the page that followed this one when it was read.
Onward(t, prev) == IF t.next = NoPage THEN NoVacuum
                   ELSE [t EXCEPT !.phase = "read", !.prev = prev, !.cur = t.next]

\* Under the read latch: the link and the dead rows; a page that is not a
\* heap page is passed over.
VacuumRead(v) ==
  LET t == [vacuum[v] EXCEPT !.next = page[vacuum[v].cur].next]
  IN /\ vacuum[v].phase = "read"
     /\ vacuum' = [vacuum EXCEPT ![v] =
          IF page[t.cur].owner = "index" THEN Onward(t, t.cur) ELSE
          [t EXCEPT !.phase = "clean",
                    !.dead = {i \in LiveSlots(t.cur) : IsTupleDead(page[t.cur].rows[i], t.oldest)}]]
     /\ UNCHANGED <<page, free, status, session, scan, todo, owed, rowNo, exposed>>

\* The slots of the dead rows, emptied.
Cleaned(p, slots) == [page[p] EXCEPT !.rows = [i \in DOMAIN @ |-> IF i \in slots THEN Tombstone ELSE @[i]]]

\* Under the write latch: tombstone and compact; an error if a slot is gone.
VacuumClean(v) ==
  LET t == vacuum[v]
  IN /\ t.phase = "clean"
     /\ IF t.dead \subseteq LiveSlots(t.cur)
        THEN /\ page' = [page EXCEPT ![t.cur] = Cleaned(t.cur, t.dead)]
             /\ vacuum' = [vacuum EXCEPT ![v].phase = "empty"]
             /\ exposed' = exposed
                  \cup (IF \E i \in t.dead : ~IsTupleDead(page[t.cur].rows[i], t.oldest)
                        THEN {"reused"} ELSE {})
                  \cup (IF \E i \in t.dead : /\ scan.phase = "read"
                                             /\ IsVisible(page[t.cur].rows[i], scan.snap)
                        THEN {"horizon"} ELSE {})
        ELSE /\ vacuum' = [vacuum EXCEPT ![v] = NoVacuum]
             /\ UNCHANGED <<page, exposed>>
     /\ UNCHANGED <<free, status, session, scan, todo, owed, rowNo>>

\* became_empty, under a latch of its own.
VacuumEmpty(v) ==
  LET t == vacuum[v]
  IN /\ t.phase = "empty"
     /\ vacuum' = [vacuum EXCEPT ![v] =
          IF ~IsEmpty(t.cur) THEN [t EXCEPT !.phase = "check"]
          ELSE IF t.prev # NoPage THEN [t EXCEPT !.phase = "unlink"]
          ELSE Onward(t, t.cur)]
     /\ UNCHANGED <<page, free, status, session, scan, todo, owed, rowNo, exposed>>

\* Defect: a row that somebody is deleting counts as visible to all.
Bad_AllVisible(p, oldest) ==
  \A i \in LiveSlots(p) : LET r == page[p].rows[i] IN r.xmin < oldest /\ Committed(r.xmin)

AllVisible(p, oldest) ==
  \A i \in LiveSlots(p) : LET r == page[p].rows[i]
                          IN r.xmax = NoTxn /\ r.xmin < oldest /\ Committed(r.xmin)

VacuumCheck(v) ==
  LET t == vacuum[v]
  IN /\ t.phase = "check"
     /\ vacuum' = [vacuum EXCEPT ![v] = IF AllVisible(t.cur, t.oldest)
                                        THEN [t EXCEPT !.phase = "setav"] ELSE Onward(t, t.cur)]
     /\ UNCHANGED <<page, free, status, session, scan, todo, owed, rowNo, exposed>>

\* The page may have changed since the check, and a running scan may hold
\* the creator of a row among the transactions active when it began.
VacuumSetAv(v) ==
  LET t == vacuum[v]
  IN /\ t.phase = "setav"
     /\ page' = [page EXCEPT ![t.cur].av = TRUE]
     /\ vacuum' = [vacuum EXCEPT ![v] = Onward(t, t.cur)]
     /\ exposed' = exposed \cup (IF ~AllVisible(t.cur, t.oldest) THEN {"allvisible"} ELSE {})
                     \cup (IF \E i \in LiveSlots(t.cur) : /\ scan.phase = "read"
                                                          /\ ~IsVisible(page[t.cur].rows[i], scan.snap)
                           THEN {"horizon"} ELSE {})
     /\ UNCHANGED <<free, status, session, scan, todo, owed, rowNo>>

\* prev's link skips the empty page, and the page goes to the free list.
VacuumUnlink(v) ==
  LET t == vacuum[v]
  IN /\ t.phase = "unlink"
     /\ page' = [page EXCEPT ![t.prev].next = t.next]
     /\ vacuum' = [vacuum EXCEPT ![v].phase = "recycle"]
     /\ Flag(page[t.prev].next # t.cur \/ page[t.cur].next # t.next \/ ~IsEmpty(t.cur), "unlink")
     /\ UNCHANGED <<free, status, session, scan, todo, owed, rowNo>>

VacuumRecycle(v) ==
  LET t == vacuum[v]
  IN /\ t.phase = "recycle"
     /\ free' = Append(free, t.cur)
     /\ vacuum' = [vacuum EXCEPT ![v] = Onward(t, t.prev)]
     /\ Flag(t.cur \in ToSet(free) \cup Chain, "unlink")
     /\ UNCHANGED <<page, status, session, scan, todo, owed, rowNo>>

----------------------------------------------------------------------------
(* SELECT without an index: SeqScan.                                       *)

BeginScan ==
  /\ scan.phase = "idle" /\ todo.scans > 0
  /\ todo' = [todo EXCEPT !.scans = @ - 1]
  /\ status' = Append(status, "running")
  /\ scan' = [NoScan EXCEPT !.phase = "read", !.snap = Snapshot, !.at = FirstPage, !.slot = 1,
                            !.want = {r.n : r \in {r \in RowsOnChain : IsVisible(r, Snapshot)}}]
  /\ UNCHANGED <<page, free, session, vacuum, owed, rowNo, exposed>>

\* next(): from its slot to the first visible row of the page, or past it.
ScanNext ==
  LET pg  == page[scan.at]
      hit == {i \in LiveSlots(scan.at) : i >= scan.slot /\ (pg.av \/ IsVisible(pg.rows[i], scan.snap))}
  IN /\ scan.phase = "read"
     /\ scan' = IF hit # {} THEN [scan EXCEPT !.slot = Min(hit) + 1,
                                              !.got = @ \cup {pg.rows[Min(hit)].n}]
                ELSE IF pg.next = NoPage THEN [scan EXCEPT !.phase = "done"]
                ELSE [scan EXCEPT !.at = pg.next, !.slot = 1]
     /\ UNCHANGED <<page, free, status, session, vacuum, todo, owed, rowNo, exposed>>

EndScan ==
  /\ scan.phase = "done"
  /\ scan' = NoScan
  /\ status' = [status EXCEPT ![scan.snap.id] = "committed"]
  /\ UNCHANGED <<page, free, session, vacuum, todo, owed, rowNo, exposed>>

----------------------------------------------------------------------------
\* A race that loses pages or rows has happened: nothing is claimed any more
\* (the chain may even have become a cycle), and the behaviour ends there.
ChainBroken == exposed \cap {"stray", "overlink", "unlink", "reused"} # {}

Next ==
  /\ ~ChainBroken
  /\ \/ \E s \in Sessions : \/ BeginInsert(s) \/ Walk(s) \/ TryTail(s) \/ FreshPage(s) \/ Link(s)
                            \/ BeginDelete(s) \/ End(s)
     \/ \E v \in Vacuums : \/ BeginVacuum(v) \/ VacuumRead(v) \/ VacuumClean(v) \/ VacuumEmpty(v)
                           \/ VacuumCheck(v) \/ VacuumSetAv(v) \/ VacuumUnlink(v) \/ VacuumRecycle(v)
     \/ BeginScan \/ ScanNext \/ EndScan
     \/ OtherTakes

Spec == Init /\ [][Next]_vars

----------------------------------------------------------------------------
\* Every committed row that nobody deleted is on the table's chain, whatever
\* VACUUM, page reuse and other inserters do.  Unless a row was put on a
\* page that had left the chain ("stray"), a page was linked behind one that
\* had a successor or had left the chain ("overlink"), or VACUUM unlinked or
\* recycled a page that had changed since it was found empty ("unlink"), or
\* cleaned the slots of a page reused since it read them ("reused") (executor.rs insert_bytes_hinted, perform_vacuum; buffer_pool.rs
\* recycle_page).
CommittedOnChain ==
  ~ChainBroken => owed \subseteq {r.n : r \in RowsOnChain}

\* A sequential scan returns exactly the rows its snapshot sees, while rows
\* are inserted, deleted, vacuumed away and marked all-visible under it.
\* Unless the chain was broken as above, the page the scan stood on was
\* recycled and taken ("underfoot"), a page changed between VACUUM's check
\* and its setting of all_visible, or VACUUM's horizon, the oldest
\* running id, passed a transaction that the scan's snapshot holds as active
\* (executor.rs SeqScan, perform_vacuum, is_tuple_dead).
ScanSeesSnapshot == (scan.phase = "done" /\ exposed = {}) => scan.got = scan.want
=============================================================================
