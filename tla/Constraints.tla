---------------------------- MODULE Constraints ----------------------------
(***************************************************************************)
(* UNIQUE and FOREIGN KEY under concurrent INSERT, INSERT ... ON CONFLICT, *)
(* COPY, UPDATE and DELETE: perform_insert, perform_copy_row,              *)
(* on_conflict_do_update, check_unique_or_wait, perform_update,            *)
(* perform_delete and cascade_fk_on_parent_delete of src/executor.rs with  *)
(* wait_for_txn_completion of src/lock_manager.rs.                         *)
(*                                                                         *)
(* A parent table has a unique index on its key, a child table refers to   *)
(* that key.  A step is what happens under one page latch.  A scan of a    *)
(* table is one step (RowUpdate takes it row by row), and so is judging    *)
(* all candidates of a unique check: a candidate that may be ignored may   *)
(* be ignored for ever, so only the last look matters.  The index is the   *)
(* sequence of its entries (BTree has its pages), row locks are their      *)
(* contract (LockManager has their queues).                                *)
(***************************************************************************)
EXTENDS Integers, Sequences, Functions

CONSTANTS Retries,     \* MAX_RETRIES of UPDATE and DELETE
          Workloads    \* see Init

\* What a connection can be asked to do; conflict is about INSERT's ON CONFLICT
\* clause.  A touch is an UPDATE that leaves the parent's key alone.
Statement ==
  {st \in [op : {"insert", "update", "touch", "delete"}, tab : {"parent", "child"},
           key : Nat, to : Nat, conflict : {"error", "nothing", "update"}] :
     st.op = "touch" => st.tab = "parent" /\ st.to = st.key}

ASSUME ConstraintsAssumption ==
  /\ Retries \in Nat
  /\ \A w \in Workloads :
       /\ w.parents \in Seq(Nat) /\ w.children \in Seq(Nat)
       /\ \A i, j \in DOMAIN w.parents : w.parents[i] = w.parents[j] => i = j
       /\ w.onDelete \in {"RESTRICT", "CASCADE", "SET_NULL"}
       /\ \A s \in DOMAIN w.programs :
            w.programs[s] \in [block : BOOLEAN, ext : BOOLEAN, stmts : Seq(Statement)]

VARIABLES heap,      \* the rows of both tables, in insertion order
          index,     \* entries of the parent's unique index: row ids
          status,    \* status[x] of transaction x; "leaving" between ATT and CLOG
          lock,      \* lock[x]: the row ids transaction x holds exclusive locks on
          session,   \* session[s]: what connection s is doing
          onDelete,  \* the foreign key's ON DELETE action
          buried,    \* history: rows whose deleter has committed
          decided,   \* history: decided[x]: the snapshot of x's last foreign key test
          exposed    \* history: the causes that have occurred

vars == <<heap, index, status, lock, session, onDelete, buried, decided, exposed>>

NoTxn == 0
Past  == 1          \* the transaction that made the initial rows
NoRow == 0
Null  == 0          \* a child that refers to nothing

Row(tab, key, x) == [tab |-> tab, key |-> key, xmin |-> x, xmax |-> NoTxn, ctid |-> NoRow]

NoSnapshot == [xmax |-> 0, active |-> {}]
NoTask     == [kind |-> "none", rid |-> NoRow, tab |-> "parent", key |-> Null]

\* The members of T in the sequence q, in the order they have there.
Among(q, T) ==
  LET upTo[n \in 0..Len(q)] ==
        IF n = 0 THEN <<>> ELSE IF q[n] \in T THEN Append(upTo[n - 1], q[n]) ELSE upTo[n - 1]
  IN upTo[Len(q)]

Sessions  == DOMAIN session
Rids      == DOMAIN heap
NextTxnId == Len(status) + 1

----------------------------------------------------------------------------
(* Transactions and visibility.                                            *)

\* TransactionManager::status: a transaction in neither ATT nor CLOG has
\* aborted, as far as anybody can tell.
Status(x) == IF status[x] = "leaving" THEN "aborted" ELSE status[x]

\* TransactionManager::snapshot.
TakenSnapshot(n) == [xmax |-> n, active |-> {x \in DOMAIN status : status[x] = "running"}]

Sees(me, snap, x) ==
  x = me \/ (x < snap.xmax /\ x \notin snap.active /\ Status(x) = "committed")

\* visibility::is_visible.
IsVisible(r, me, snap) ==
  Sees(me, snap, r.xmin) /\ ~(r.xmax # NoTxn /\ Sees(me, snap, r.xmax))

\* visible_rows / matching_rows: the visible rows of a table with a key, in heap order.
Matching(tab, key, me, snap) ==
  Among([i \in Rids |-> i],
        {i \in Rids : heap[i].tab = tab /\ heap[i].key = key /\ IsVisible(heap[i], me, snap)})

Committed(x) == x # NoTxn /\ status[x] = "committed"

Live(tab) == {i \in Rids : heap[i].tab = tab /\ Committed(heap[i].xmin) /\ ~Committed(heap[i].xmax)}

\* A look at a row misjudges a transaction that is about to be recorded.
Misread(r) == status[r.xmin] = "leaving" \/ (r.xmax # NoTxn /\ status[r.xmax] = "leaving")

----------------------------------------------------------------------------
(* Statements.  A program is one statement, or several in a BEGIN block;   *)
(* ext: by the extended protocol, where an error leaves the block open.    *)

Insert(tab, key, conflict) == [op |-> "insert", tab |-> tab, key |-> key, to |-> key, conflict |-> conflict]
Update(tab, key, to)       == [op |-> "update", tab |-> tab, key |-> key, to |-> to, conflict |-> "error"]
Touch(key)                 == [op |-> "touch", tab |-> "parent", key |-> key, to |-> key, conflict |-> "error"]
Delete(tab, key)           == [op |-> "delete", tab |-> tab, key |-> key, to |-> key, conflict |-> "error"]

Idle(prog) == [phase |-> "start", prog |-> prog, id |-> NoTxn, snap |-> NoSnapshot, verdict |-> "none",
               work |-> <<>>, task |-> NoTask, new |-> NoRow, detect |-> FALSE, cands |-> <<>>,
               target |-> NoTxn, attempt |-> 0, stamped |-> {}, failed |-> FALSE]

\* A workload: keys of the parents, keys the children refer to, the ON DELETE
\* action, and one program for each connection.
Init == \E w \in Workloads :
  /\ heap = [i \in 1..Len(w.parents) |-> Row("parent", w.parents[i], Past)]
              \o [i \in 1..Len(w.children) |-> Row("child", w.children[i], Past)]
  /\ index = [i \in 1..Len(w.parents) |-> i]
  /\ status = <<"committed">>
  /\ lock = << {} >>
  /\ session = [s \in DOMAIN w.programs |-> Idle(w.programs[s])]
  /\ onDelete = w.onDelete
  /\ buried = {} /\ decided = << NoSnapshot >> /\ exposed = {}

Go(s, next)  == session' = [session EXCEPT ![s] = next]
To(s, phase) == session' = [session EXCEPT ![s].phase = phase]
Flag(causes) == exposed' = exposed \cup {c[2] : c \in {c \in causes : c[1]}}

Me(s)   == session[s].id
Stmt(s) == Head(session[s].prog.stmts)
Task(s) == session[s].task

\* INSERT with ON CONFLICT looks for a conflict first; the child has no unique index to look in.
Seeks(st) == st.conflict # "error" /\ st.tab = "parent"

\* How a statement begins.
Launch(t) ==
  IF t.prog.stmts = <<>> THEN [t EXCEPT !.phase = "end"]
  ELSE LET st == Head(t.prog.stmts)
           row == [kind |-> "insert", rid |-> NoRow, tab |-> st.tab, key |-> st.key]
       IN IF st.op # "insert" THEN [t EXCEPT !.phase = "scan", !.attempt = 0]
          ELSE [t EXCEPT !.task = row, !.new = NoRow, !.detect = Seeks(st),
                         !.phase = IF Seeks(st) THEN "lookup" ELSE "fk"]

\* BEGIN or the auto-commit boundary: an id and a snapshot.
Start(s) ==
  /\ session[s].phase = "start"
  /\ status' = Append(status, "running")
  /\ lock' = Append(lock, {})
  /\ decided' = Append(decided, NoSnapshot)
  /\ Go(s, Launch([session[s] EXCEPT !.id = NextTxnId,
             !.snap = [xmax |-> NextTxnId + 1, active |-> TakenSnapshot(0).active \cup {NextTxnId}]]))
  /\ UNCHANGED <<heap, index, onDelete, buried, exposed>>

\* An error ends an auto-commit statement and rolls a block back, but not a
\* block of the extended protocol, which the client may still COMMIT.
Failing(t) == IF t.prog.ext /\ t.prog.block THEN [t EXCEPT !.phase = "end", !.failed = TRUE]
              ELSE [t EXCEPT !.phase = IF t.prog.block THEN "leave" ELSE "unlock", !.verdict = "aborted"]

Fail(s) == Go(s, Failing(session[s]))

----------------------------------------------------------------------------
(* UPDATE and DELETE: rows are found, then taken one at a time.            *)

\* The head of the 'restart loop: a fresh snapshot and the rows it sees.
Scan(s) ==
  LET snap == TakenSnapshot(NextTxnId)
      st   == Stmt(s)
      rows == Matching(st.tab, st.key, Me(s), snap)
  IN /\ session[s].phase = "scan"
     /\ IF session[s].attempt >= Retries THEN Fail(s)
        ELSE Go(s, [session[s] EXCEPT !.phase = "next", !.snap = snap, !.attempt = @ + 1,
               !.work = [i \in DOMAIN rows |-> [kind |-> st.op, rid |-> rows[i], tab |-> st.tab,
                                                key |-> st.to]]])
     /\ UNCHANGED <<heap, index, status, lock, onDelete, buried, decided, exposed>>

\* cascade_fk_on_parent_delete: what happens to the children of row i first.
Children(s, i) == Matching("child", heap[i].key, Me(s), session[s].snap)

Cascade(s, i) ==
  LET rows == Children(s, i)
      kind == IF onDelete = "CASCADE" THEN "cascade" ELSE "setnull"
  IN [n \in DOMAIN rows |-> [kind |-> kind, rid |-> rows[n], tab |-> "child", key |-> Null]]

\* The next task; before a parent goes, its children.  No task: the
\* statement has succeeded.
NextTask(s) ==
  LET t == session[s]
  IN /\ t.phase = "next"
     /\ IF t.work = <<>>
        THEN /\ Go(s, Launch([t EXCEPT !.prog.stmts = Tail(@), !.task = NoTask]))
             /\ UNCHANGED <<decided, exposed>>
        ELSE LET task == Head(t.work)
                 parent == task.kind = "delete" /\ task.tab = "parent"
             IN /\ IF parent /\ onDelete = "RESTRICT" /\ Children(s, task.rid) # <<>> THEN Fail(s)
                   ELSE IF parent
                   THEN Go(s, [t EXCEPT !.work = Cascade(s, task.rid)
                                          \o << [task EXCEPT !.kind = "victim"] >> \o Tail(@)])
                   ELSE Go(s, [t EXCEPT !.phase = "lock", !.task = task, !.work = Tail(@)])
                /\ decided' = IF parent THEN [decided EXCEPT ![t.id] = t.snap] ELSE decided
                /\ Flag({ <<parent /\ \E i \in Rids : heap[i].tab = "child" /\ Misread(heap[i]), "misread">> })
     /\ UNCHANGED <<heap, index, status, lock, onDelete, buried>>

\* Do UPDATE and DELETE look again once they hold the lock?  DO UPDATE,
\* CASCADE and SET NULL do not.
Rechecks(kind) == kind \in {"update", "touch", "delete", "victim"}

LockedByOther(s) == \E x \in DOMAIN lock \ {Me(s)} : Task(s).rid \in lock[x]

LockRow(s) ==
  /\ session[s].phase = "lock"
  /\ ~LockedByOther(s)
  /\ lock' = [lock EXCEPT ![Me(s)] = @ \cup {Task(s).rid}]
  /\ To(s, IF Rechecks(Task(s).kind) THEN "check" ELSE "stamp")
  /\ UNCHANGED <<heap, index, status, onDelete, buried, decided, exposed>>

\* The timeout of lock(), the only end of a deadlock.
LockFails(s) ==
  /\ session[s].phase = "lock"
  /\ LockedByOther(s)
  /\ Fail(s)
  /\ UNCHANGED <<heap, index, status, lock, onDelete, buried, decided, exposed>>

\* Defect: whoever deleted the row meanwhile is ignored.
Bad_Recheck(s) == "ok"

\* The recheck under the lock.
Recheck(s) ==
  LET x == heap[Task(s).rid].xmax
  IN IF x \in {NoTxn, Me(s)} \/ Status(x) = "aborted" THEN "ok"
     ELSE IF Status(x) = "committed" THEN "restart" ELSE "40001"

CheckRow(s) ==
  LET x == heap[Task(s).rid].xmax
  IN /\ session[s].phase = "check"
     /\ CASE Recheck(s) = "ok" -> To(s, IF Task(s).tab = "child" /\ Task(s).kind = "update"
                                        THEN "fk" ELSE "stamp")
          [] Recheck(s) = "restart" -> To(s, "scan")
          [] OTHER -> Fail(s)
     /\ Flag({ <<x # NoTxn /\ status[x] = "leaving", "misread">> })
     /\ UNCHANGED <<heap, index, status, lock, onDelete, buried, decided>>

\* set_tuple_xmax.
Stamp(s) ==
  LET t == Task(s)
      x == heap[t.rid].xmax
  IN /\ session[s].phase = "stamp"
     /\ heap' = [heap EXCEPT ![t.rid].xmax = Me(s)]
     /\ session' = [session EXCEPT ![s].phase = IF t.kind \in {"delete", "victim", "cascade"}
                                                THEN "next" ELSE "place",
                                   ![s].stamped = @ \cup {t.rid}]
     /\ Flag({ <<~Rechecks(t.kind) /\ x \notin {NoTxn, Me(s)} /\ status[x] # "aborted", "overwrote">>,
               <<t.kind = "update" /\ t.tab = "parent" /\ t.key # heap[t.rid].key, "rekeyed">> })
     /\ UNCHANGED <<index, status, lock, onDelete, buried, decided>>

----------------------------------------------------------------------------
(* Writing a row.                                                          *)

\* fk_target_exists: by the index, whose entries it does not follow to the
\* rows that replaced them.
FkTargetExists(s) ==
  \E n \in DOMAIN index :
    heap[index[n]].key = Task(s).key /\ IsVisible(heap[index[n]], Me(s), session[s].snap)

\* Defect: the foreign key is not tested for the rows of an UPDATE.
Bad_FkSatisfied(s) == Task(s).kind = "update" \/ Task(s).tab = "parent" \/ FkTargetExists(s)

\* enforce_fk_on_child_write.
FkSatisfied(s) == Task(s).tab = "parent" \/ Task(s).key = Null \/ FkTargetExists(s)

ForeignKey(s) ==
  LET t == session[s]
  IN /\ t.phase = "fk"
     /\ IF FkSatisfied(s) THEN To(s, IF t.task.kind = "insert" THEN "place" ELSE "stamp") ELSE Fail(s)
     /\ decided' = [decided EXCEPT ![t.id] = t.snap]
     /\ Flag({ <<\E i \in Rids : heap[i].tab = "parent" /\ Misread(heap[i]), "misread">> })
     /\ UNCHANGED <<heap, index, status, lock, onDelete, buried>>

\* insert_bytes and the lock on the new row, which nobody else can want yet;
\* a HOT update then points the old row at it and leaves the index alone.
Place(s) ==
  LET t   == Task(s)
      new == Len(heap) + 1
      row == Row(t.tab, t.key, Me(s))
  IN /\ session[s].phase = "place"
     /\ heap' = Append(IF t.kind = "touch" THEN [heap EXCEPT ![t.rid].ctid = new] ELSE heap, row)
     /\ lock' = [lock EXCEPT ![Me(s)] = @ \cup {new}]
     /\ session' = [session EXCEPT ![s].phase = IF t.tab = "parent" /\ t.kind # "touch"
                                                THEN "lookup" ELSE "next",
                                   ![s].new = new, ![s].detect = FALSE]
     /\ UNCHANGED <<index, status, onDelete, buried, decided, exposed>>

\* leaf_lookup_eq: the entries of the key, without the row being indexed.
Lookup(s) ==
  /\ session[s].phase = "lookup"
  /\ session' = [session EXCEPT ![s].phase = "judge",
       ![s].cands = Among(index, {i \in Rids : heap[i].key = Task(s).key /\ i # session[s].new})]
  /\ UNCHANGED <<heap, index, status, lock, onDelete, buried, decided, exposed>>

\* What a candidate means for the row to be indexed: ignore it, a duplicate,
\* or a transaction to wait for.  Looking for ON CONFLICT's row the code
\* asks for the status of its own id too.
Candidate(s, i) ==
  LET r   == heap[i]
      own == r.xmin = Me(s)
  IN IF own /\ r.xmax = NoTxn THEN "duplicate"
     ELSE IF (own /\ ~session[s].detect) \/ Status(r.xmin) = "aborted" THEN "ignore"
     ELSE IF Status(r.xmin) = "running" THEN "wait"
     ELSE IF r.xmax = NoTxn THEN "duplicate"
     ELSE IF r.xmax = Me(s) \/ Status(r.xmax) = "committed" THEN "ignore"
     ELSE IF Status(r.xmax) = "aborted" THEN "duplicate" ELSE "wait"

\* The transaction whose end decides about a candidate.
Awaited(s, i) == IF Status(heap[i].xmin) = "running" THEN heap[i].xmin ELSE heap[i].xmax

\* Defect: a row whose creator is still running is ignored.
Bad_Deciding(s) ==
  Among(session[s].cands, {i \in Rids : Candidate(s, i) # "ignore" /\ Status(heap[i].xmin) = "committed"})

Deciding(s) == Among(session[s].cands, {i \in Rids : Candidate(s, i) # "ignore"})

\* A duplicate: 23505, but UPDATE starts over, DO NOTHING skips the row and
\* DO UPDATE turns to the row found.
Duplicate(s, i) ==
  LET t == session[s]
  IN IF ~t.detect /\ t.task.kind = "update" THEN [t EXCEPT !.phase = "scan", !.work = <<>>]
     ELSE IF ~t.detect THEN Failing(t)
     ELSE IF Stmt(s).conflict = "nothing" THEN [t EXCEPT !.phase = "next"]
     ELSE [t EXCEPT !.phase = "lock", !.task.kind = "upsert", !.task.rid = i]

\* A live row that one of the candidates was HOT-updated to.
HotSuccessor(s) ==
  \E n \in DOMAIN session[s].cands : LET c == heap[session[s].cands[n]].ctid
                                     IN c # NoRow /\ status[heap[c].xmin] # "aborted"

Judge(s) ==
  LET t == session[s]
      d == Deciding(s)
  IN /\ t.phase = "judge"
     /\ Go(s, IF d = <<>> THEN [t EXCEPT !.phase = IF t.detect THEN "fk" ELSE "enter"]
              ELSE IF Candidate(s, d[1]) = "duplicate" THEN Duplicate(s, d[1])
              ELSE [t EXCEPT !.phase = "wait", !.target = Awaited(s, d[1])])
     /\ Flag({ <<d = <<>> /\ HotSuccessor(s), "hot">>,
               <<\E n \in DOMAIN t.cands : Misread(heap[t.cands[n]]), "misread">>,
               <<d # <<>> /\ Candidate(s, d[1]) = "duplicate" /\ ~t.detect /\ t.task.kind = "update",
                 "leftover">> })
     /\ UNCHANGED <<heap, index, status, lock, onDelete, buried, decided>>

\* btree::insert, after whatever has happened since the lookup.
Enter(s) ==
  LET t == session[s]
  IN /\ t.phase = "enter"
     /\ index' = Append(index, t.new)
     /\ To(s, "next")
     /\ Flag({ <<\E n \in DOMAIN index : heap[index[n]].key = t.task.key /\ index[n] \notin Range(t.cands),
                 "raced">> })
     /\ UNCHANGED <<heap, status, lock, onDelete, buried, decided>>

----------------------------------------------------------------------------
(* wait_for_txn_completion: a condition variable with a timeout.           *)

Ended(x) == Status(x) # "running"

\* The predicate, tested before sleeping and after each notification.
WaitTest(s) ==
  /\ session[s].phase = "wait"
  /\ To(s, IF Ended(session[s].target) THEN "lookup" ELSE "asleep")
  /\ UNCHANGED <<heap, index, status, lock, onDelete, buried, decided, exposed>>

\* Defect: the waiter relies on being notified.
Bad_TimerFires(s) == FALSE

\* The timer may fire as long as the waiter sleeps ...
TimerFires(s) == session[s].phase = "asleep"

\* ... and the predicate is tested once more.
Timeout(s) ==
  /\ TimerFires(s)
  /\ IF Ended(session[s].target) THEN To(s, "lookup") ELSE Fail(s)
  /\ UNCHANGED <<heap, index, status, lock, onDelete, buried, decided, exposed>>

----------------------------------------------------------------------------
(* The end of a transaction.                                               *)

\* COMMIT and both ends of an auto-commit statement release the locks and
\* then decide; ROLLBACK decides first.
DecidesFirst(t) == t.prog.block /\ t.verdict = "aborted"

\* The client of a block ends it either way.
EndBlock(s) ==
  LET t == session[s]
  IN /\ t.phase = "end"
     /\ \E verdict \in IF t.prog.block THEN {"committed", "aborted"} ELSE {"committed"} :
          /\ Go(s, [t EXCEPT !.verdict = verdict,
                             !.phase = IF t.prog.block /\ verdict = "aborted" THEN "leave" ELSE "unlock"])
          /\ Flag({ <<t.failed /\ verdict = "committed", "partial">> })
     /\ UNCHANGED <<heap, index, status, lock, onDelete, buried, decided>>

\* unlock_all; every waiter is notified.
Unlock(s) ==
  /\ session[s].phase = "unlock"
  /\ lock' = [lock EXCEPT ![Me(s)] = {}]
  /\ session' = [r \in Sessions |->
       IF r = s THEN [session[s] EXCEPT !.phase = IF DecidesFirst(session[s]) THEN "done" ELSE "leave"]
       ELSE IF session[r].phase = "asleep" THEN [session[r] EXCEPT !.phase = "wait"]
       ELSE session[r]]
  /\ UNCHANGED <<heap, index, status, onDelete, buried, decided, exposed>>

\* tm.commit / tm.abort: out of the ATT, then into the CLOG.
Leave(s) ==
  /\ session[s].phase = "leave"
  /\ status' = [status EXCEPT ![Me(s)] = "leaving"]
  /\ To(s, "decide")
  /\ UNCHANGED <<heap, index, lock, onDelete, buried, decided, exposed>>

Decide(s) ==
  LET t == session[s]
  IN /\ t.phase = "decide"
     /\ status' = [status EXCEPT ![t.id] = t.verdict]
     /\ buried' = IF t.verdict = "committed" THEN buried \cup t.stamped ELSE buried
     /\ To(s, IF DecidesFirst(t) THEN "unlock" ELSE "done")
     /\ UNCHANGED <<heap, index, lock, onDelete, decided, exposed>>

Step(s) ==
  \/ Start(s) \/ Scan(s) \/ NextTask(s) \/ LockRow(s) \/ LockFails(s) \/ CheckRow(s) \/ Stamp(s)
  \/ ForeignKey(s) \/ Place(s) \/ Lookup(s) \/ Judge(s) \/ Enter(s)
  \/ WaitTest(s) \/ Timeout(s)
  \/ EndBlock(s) \/ Unlock(s) \/ Leave(s) \/ Decide(s)

Next == \E s \in Sessions : Step(s)

Spec == Init /\ [][Next]_vars

\* Every thread goes on, locks time out and so do waits.
FairSpec == Spec /\ \A s \in 1..3 : WF_vars(s \in Sessions /\ Step(s))

----------------------------------------------------------------------------
\* No two committed rows have one key: a unique check that passes leaves no
\* live or coming row behind, also when it waited, was retried or met
\* deleted, aborted and updated versions.  Unless another entry of the key
\* came between the check and the insertion ("raced"), the other row is a
\* HOT-updated version without an entry ("hot"), a statement left a row
\* behind whose check failed ("leftover": UPDATE starts over; "partial": an
\* error in the extended protocol, then COMMIT), a deleted row came back
\* ("overwrote"), or a committing transaction was taken for an aborted one
\* ("misread") (executor.rs check_unique_or_wait, perform_insert).
UniqueUnlessRaced ==
  exposed \cap {"raced", "hot", "leftover", "partial", "overwrote", "misread"} = {} =>
    \A i, j \in Live("parent") : heap[i].key = heap[j].key => i = j

Unseen(x, y) == /\ decided[x] # NoSnapshot
                /\ y >= decided[x].xmax \/ y \in decided[x].active

\* Every committed child refers to a committed parent, whatever happens to
\* the parents and children.  Unless the transactions that wrote the child
\* and deleted the parent were concurrent and neither saw the other's work,
\* the parent's key was changed by UPDATE ("rekeyed"), which nothing guards,
\* or for the causes above (executor.rs enforce_fk_on_child_write,
\* cascade_fk_on_parent_delete).
NoOrphanUnlessConcurrent ==
  exposed \cap {"rekeyed", "overwrote", "misread"} = {} =>
    \A c \in Live("child") :
      \/ heap[c].key = Null
      \/ \E p \in Live("parent") : heap[p].key = heap[c].key
      \/ \E p \in Rids : /\ heap[p].tab = "parent" /\ heap[p].key = heap[c].key
                         /\ Committed(heap[p].xmax)
                         /\ Unseen(heap[c].xmin, heap[p].xmax) /\ Unseen(heap[p].xmax, heap[c].xmin)

\* A row whose deletion was committed stays deleted: no later writer that
\* rolls back brings it back.  Unless that writer was DO UPDATE, CASCADE or
\* SET NULL, which do not look again under the lock ("overwrote"), or
\* took the deleter for aborted (executor.rs perform_delete,
\* on_conflict_do_update, cascade_fk_on_parent_delete).
DeletedStays ==
  exposed \cap {"overwrote", "misread"} = {} => \A i \in buried : Committed(heap[i].xmax)

\* Every transaction ends, also when unique checks wait for each other (in a
\* circle that only the timeout breaks), for their own transaction, or for
\* one that notified them before its end was on record
\* (lock_manager.rs wait_for_txn_completion).
EverybodyEnds == <>(\A s \in Sessions : session[s].phase = "done")
=============================================================================
