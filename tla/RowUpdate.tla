------------------------------ MODULE RowUpdate ------------------------------
(***************************************************************************)
(* UPDATE and DELETE on one table under concurrency: perform_update and    *)
(* perform_delete of executor.rs with the transaction end around them, on  *)
(* top of snapshots, statuses and exclusive row locks.                     *)
(*                                                                         *)
(* Each transaction runs one statement, in auto-commit or in a BEGIN block.*)
(* A transaction id is modelled by the transaction itself, and "id below   *)
(* the snapshot's xmax" by membership in the ids handed out by then.       *)
(* The lock manager is its contract for exclusive locks (module            *)
(* LockManager), a version being a row id.  status() reads the CLOG and    *)
(* then the ATT; it is one step here because its result is always the one  *)
(* at some instant in between, and so is a visibility test, which looks    *)
(* the deleter up only after it has found the creator committed.           *)
(***************************************************************************)
EXTENDS Naturals, Sequences, FiniteSets

CONSTANTS
    Txns,       \* transactions, each on its own connection and thread
    Rows,       \* logical rows of the table, each with one version at first
    Sys,        \* the transaction that created them
    None,       \* xmax = 0: not deleted
    Kinds,      \* the kinds of statement run: pairs <<in a BEGIN block, operation>>
    RetryLimits,\* values of MAX_RETRIES to run with
    MaxVersions \* bound on the number of versions in the heap

ASSUME RowUpdateAssumption ==
    /\ Sys \notin Txns /\ None \notin Txns \cup {Sys}
    /\ Kinds \subseteq BOOLEAN \X {"update", "delete"}
    /\ RetryLimits \subseteq Nat \ {0}
    /\ IsFiniteSet(Rows)

VARIABLES
    heap,       \* versions in insertion order
    allocated,  \* transactions that have an id
    att,        \* TransactionManager.att
    clog,       \* transaction -> decision
    memo,       \* transaction -> transactions its thread has cached as aborted
    locks,      \* transaction -> versions it holds exclusive locks on
    pc, block, op, scope,   \* the statement: in a BEGIN block? which, on which rows
    snap,       \* transaction -> snapshot
    pos,        \* transaction -> next version its scan looks at
    matched,    \* transaction -> versions found and not yet processed
    retries,    \* MAX_RETRIES of the two statements, which never changes
    attempt,    \* transaction -> restarts of the statement
    verdict,    \* transaction -> how it will end
    applied,    \* pairs <<t, v>>: t has stamped version v (history)
    misread     \* pairs <<t, u>>: t took u for aborted before u decided (history)

txnVars  == <<allocated, att, clog>>
stmtVars == <<block, op, scope, retries>>
scanVars == <<snap, pos, matched, attempt>>
vars == <<heap, txnVars, memo, locks, pc, stmtVars, scanVars, verdict, applied, misread>>

\* The table as committed by an earlier transaction, in some order of the rows.
Init ==
    /\ heap \in {h \in [1 .. Cardinality(Rows) -> [row : Rows, xmin : {Sys}, xmax : {None}]] :
                   {h[v].row : v \in DOMAIN h} = Rows}
    /\ allocated = {} /\ att = {}
    /\ clog = [t \in Txns |-> "none"]
    /\ memo = [t \in Txns |-> {}]
    /\ locks = [t \in Txns |-> {}]
    /\ pc = [t \in Txns |-> "idle"]
    /\ block = [t \in Txns |-> FALSE]
    /\ op = [t \in Txns |-> "update"]
    /\ scope = [t \in Txns |-> {}]
    /\ retries \in RetryLimits
    /\ snap = [t \in Txns |-> [seen |-> {}, active |-> {}]]
    /\ pos = [t \in Txns |-> 1]
    /\ matched = [t \in Txns |-> {}]
    /\ attempt = [t \in Txns |-> 0]
    /\ verdict = [t \in Txns |-> "none"]
    /\ applied = {} /\ misread = {}

-----------------------------------------------------------------------------
(* Status and visibility *)

\* TransactionManager::status as thread t sees it.
Status(t, u) ==
    IF u = Sys THEN "committed"
    ELSE IF u \in memo[t] THEN "aborted"
    ELSE IF clog[u] # "none" THEN clog[u]
    ELSE IF u \in att THEN "running"
    ELSE "aborted"

\* The snapshot does not settle the matter by itself: status is consulted.
MustAsk(t, u) == u = Sys \/ (u # t /\ u \in snap[t].seen /\ u \notin snap[t].active)

CreatorVisible(t, v) ==
    LET u == heap[v].xmin
    IN  u = t \/ (MustAsk(t, u) /\ Status(t, u) = "committed")

DeleterVisible(t, v) ==
    LET u == heap[v].xmax
    IN  u # None /\ (u = t \/ (MustAsk(t, u) /\ Status(t, u) = "committed"))

Visible(t, v) == CreatorVisible(t, v) /\ ~DeleterVisible(t, v)

\* The transactions is_visible asks the status of.
Asked(t, v) ==
    {u \in Txns : MustAsk(t, u) /\ (u = heap[v].xmin \/ (u = heap[v].xmax /\ CreatorVisible(t, v)))}

\* What looking up the transactions in us leaves behind in thread t.
LookUp(t, us) ==
    LET dead == {u \in us : Status(t, u) = "aborted"}
    IN  /\ memo' = [memo EXCEPT ![t] = @ \cup dead]
        /\ misread' = misread \cup {<<t, u>> : u \in {w \in dead : clog[w] = "none"}}

-----------------------------------------------------------------------------
(* The statement *)

\* begin(): the id, and the entry in the ATT.
Begin(t, kind, rows) ==
    /\ pc[t] = "idle"
    /\ allocated' = allocated \cup {t}
    /\ block' = [block EXCEPT ![t] = kind[1]]
    /\ op' = [op EXCEPT ![t] = kind[2]]
    /\ scope' = [scope EXCEPT ![t] = rows]
    /\ pc' = [pc EXCEPT ![t] = "begin"]
    /\ UNCHANGED <<heap, att, clog, memo, locks, retries, scanVars, verdict, applied, misread>>

Register(t) ==
    /\ pc[t] = "begin"
    /\ att' = att \cup {t}
    /\ pc' = [pc EXCEPT ![t] = "snapshot"]
    /\ UNCHANGED <<heap, allocated, clog, memo, locks, stmtVars, scanVars, verdict, applied, misread>>

\* COMMIT and both ends of an auto-commit statement release the locks and then
\* decide; ROLLBACK, asked for or after an error in a block, decides first.
DecidesFirst(t, outcome) == block[t] /\ outcome = "aborted"

StartEnd(t, outcome) ==
    /\ verdict' = [verdict EXCEPT ![t] = outcome]
    /\ pc' = [pc EXCEPT ![t] = IF DecidesFirst(t, outcome) THEN "remove" ELSE "unlock"]

Fail(t) == StartEnd(t, "aborted")

RetriesLeft(n) == n < retries

\* The head of the 'restart loop: a fresh snapshot, or 40001.
TakeSnapshot(t) ==
    /\ pc[t] = "snapshot"
    /\ RetriesLeft(attempt[t])
    /\ snap' = [snap EXCEPT ![t] = [seen |-> allocated, active |-> att]]
    /\ pos' = [pos EXCEPT ![t] = 1]
    /\ matched' = [matched EXCEPT ![t] = {}]
    /\ pc' = [pc EXCEPT ![t] = "scan"]
    /\ UNCHANGED <<heap, txnVars, memo, locks, stmtVars, attempt, verdict, applied, misread>>

GiveUp(t) ==
    /\ pc[t] = "snapshot"
    /\ ~RetriesLeft(attempt[t])
    /\ Fail(t)
    /\ UNCHANGED <<heap, txnVars, memo, locks, stmtVars, scanVars, applied, misread>>

\* matching_rows, one version at a time.
ScanVersion(t) ==
    LET v == pos[t]
    IN  /\ pc[t] = "scan"
        /\ v <= Len(heap)
        /\ matched' = [matched EXCEPT ![t] =
                         IF heap[v].row \in scope[t] /\ Visible(t, v) THEN @ \cup {v} ELSE @]
        /\ LookUp(t, Asked(t, v))
        /\ pos' = [pos EXCEPT ![t] = v + 1]
        /\ UNCHANGED <<heap, txnVars, locks, pc, stmtVars, snap, attempt, verdict, applied>>

ScanEnd(t) ==
    /\ pc[t] = "scan"
    /\ pos[t] > Len(heap)
    /\ pc' = [pc EXCEPT ![t] = "next"]
    /\ UNCHANGED <<heap, txnVars, memo, locks, stmtVars, scanVars, verdict, applied, misread>>

First(t, v) == v \in matched[t] /\ \A w \in matched[t] : v <= w

Bad_Free(t, v) == TRUE
Free(t, v) == \A u \in Txns \ {t} : v \notin locks[u]

\* lm.lock, granted at once or after a wait ...
LockVersion(t, v) ==
    /\ pc[t] = "next"
    /\ First(t, v)
    /\ Free(t, v)
    /\ locks' = [locks EXCEPT ![t] = @ \cup {v}]
    /\ pc' = [pc EXCEPT ![t] = "check"]
    /\ UNCHANGED <<heap, txnVars, memo, stmtVars, scanVars, verdict, applied, misread>>

\* ... or timed out.
LockTimeout(t, v) ==
    /\ pc[t] = "next"
    /\ First(t, v)
    /\ ~Free(t, v)
    /\ Fail(t)
    /\ UNCHANGED <<heap, txnVars, memo, locks, stmtVars, scanVars, applied, misread>>

\* The recheck under the lock, by the deleter found on the version.
Bad_Conflict(t, u) == FALSE         \* trusts the lock
Conflict(t, u) == u \notin {None, t} /\ Status(t, u) = "committed"

Bad_Skip(t) ==      \* goes on with the next row instead of restarting
    /\ pc' = [pc EXCEPT ![t] = "next"]
    /\ matched' = [matched EXCEPT ![t] = {v \in @ : \E w \in @ : w < v}]
    /\ UNCHANGED attempt
RestartStmt(t) ==
    /\ pc' = [pc EXCEPT ![t] = "snapshot"]
    /\ attempt' = [attempt EXCEPT ![t] = @ + 1]
    /\ UNCHANGED matched

Recheck(t, v) ==
    LET u == heap[v].xmax
    IN  /\ pc[t] = "check"
        /\ First(t, v)
        /\ LookUp(t, {u} \ {None, t})
        /\ \/ /\ Conflict(t, u)
              /\ RestartStmt(t)
              /\ UNCHANGED verdict
           \/ /\ u \notin {None, t} /\ Status(t, u) = "running"
              /\ Fail(t)
              /\ UNCHANGED <<attempt, matched>>
           \/ /\ ~Conflict(t, u) /\ (u \notin {None, t} => Status(t, u) # "running")
              /\ pc' = [pc EXCEPT ![t] = "stamp"]
              /\ UNCHANGED <<attempt, matched, verdict>>
        /\ UNCHANGED <<heap, txnVars, locks, stmtVars, snap, pos, applied>>

\* set_tuple_xmax; a DELETE is done with the row.
Stamp(t, v) ==
    /\ pc[t] = "stamp"
    /\ First(t, v)
    /\ heap' = [heap EXCEPT ![v].xmax = t]
    /\ applied' = applied \cup {<<t, v>>}
    /\ IF op[t] = "update"
       THEN pc' = [pc EXCEPT ![t] = "insert"] /\ UNCHANGED matched
       ELSE pc' = [pc EXCEPT ![t] = "next"] /\ matched' = [matched EXCEPT ![t] = @ \ {v}]
    /\ UNCHANGED <<txnVars, memo, locks, stmtVars, snap, pos, attempt, verdict, misread>>

\* insert_bytes, and the lock on the new version, which nobody else can want yet.
InsertVersion(t, v) ==
    /\ pc[t] = "insert"
    /\ First(t, v)
    /\ Len(heap) < MaxVersions
    /\ heap' = Append(heap, [row |-> heap[v].row, xmin |-> t, xmax |-> None])
    /\ locks' = [locks EXCEPT ![t] = @ \cup {Len(heap) + 1}]
    /\ matched' = [matched EXCEPT ![t] = @ \ {v}]
    /\ pc' = [pc EXCEPT ![t] = "next"]
    /\ UNCHANGED <<txnVars, memo, stmtVars, snap, pos, attempt, verdict, applied, misread>>

-----------------------------------------------------------------------------
(* The end of the transaction *)

\* The statement has processed every row it found: it commits, but the client of
\* a block may ROLLBACK instead.
Finish(t, outcome) ==
    /\ pc[t] = "next"
    /\ matched[t] = {}
    /\ outcome = "aborted" => block[t]
    /\ StartEnd(t, outcome)
    /\ UNCHANGED <<heap, txnVars, memo, locks, stmtVars, scanVars, applied, misread>>

\* unlock_all
Unlock(t) ==
    /\ pc[t] = "unlock"
    /\ locks' = [locks EXCEPT ![t] = {}]
    /\ pc' = [pc EXCEPT ![t] = IF DecidesFirst(t, verdict[t]) THEN "done" ELSE "remove"]
    /\ UNCHANGED <<heap, txnVars, memo, stmtVars, scanVars, verdict, applied, misread>>

\* tm.commit / tm.abort: out of the ATT, then into the CLOG.
AttRemove(t) ==
    /\ pc[t] = "remove"
    /\ att' = att \ {t}
    /\ pc' = [pc EXCEPT ![t] = "decide"]
    /\ UNCHANGED <<heap, allocated, clog, memo, locks, stmtVars, scanVars, verdict, applied, misread>>

Decide(t) ==
    /\ pc[t] = "decide"
    /\ clog' = [clog EXCEPT ![t] = verdict[t]]
    /\ pc' = [pc EXCEPT ![t] = IF DecidesFirst(t, verdict[t]) THEN "unlock" ELSE "done"]
    /\ UNCHANGED <<heap, allocated, att, memo, locks, stmtVars, scanVars, verdict, applied, misread>>

AllDone == (\A t \in Txns : pc[t] = "done") /\ UNCHANGED vars

-----------------------------------------------------------------------------
Statement(t) ==
    \/ \E kind \in Kinds, rows \in SUBSET Rows \ {{}} : Begin(t, kind, rows)
    \/ Register(t) \/ TakeSnapshot(t) \/ GiveUp(t) \/ ScanVersion(t) \/ ScanEnd(t)
    \/ \E v \in matched[t] :
          \/ LockVersion(t, v) \/ LockTimeout(t, v)
          \/ Recheck(t, v) \/ Stamp(t, v) \/ InsertVersion(t, v)

Ending(t) ==
    \/ \E outcome \in {"committed", "aborted"} : Finish(t, outcome)
    \/ Unlock(t) \/ AttRemove(t) \/ Decide(t)

Next == (\E t \in Txns : Statement(t) \/ Ending(t)) \/ AllDone

Spec == Init /\ [][Next]_vars

-----------------------------------------------------------------------------
(* Properties *)

Committed(t) == t = Sys \/ (t \in Txns /\ clog[t] = "committed")

\* Two transactions that change the same version of a row do not both commit
\* ("so any other writer either left or is now sequenced behind us",
\* executor.rs:3521), but if some writer of the version took an earlier one
\* for aborted while the earlier one, committing, was between leaving the ATT and
\* entering the CLOG.  (Its stamp hides the earlier one's from third writers.)
LostOnlyByMisreading ==
    \A t, u \in Txns : \A v \in DOMAIN heap :
        t # u /\ {<<t, v>>, <<u, v>>} \subseteq applied /\ Committed(t) /\ Committed(u)
        => \E p \in misread : /\ {<<p[1], v>>, <<p[2], v>>} \subseteq applied
                              /\ verdict[p[2]] = "committed"

\* Nobody has taken a transaction for aborted that commits, or still may.
NoMisreading == \A p \in misread : clog[p[2]] = "aborted"

Live(r) == {v \in DOMAIN heap : /\ heap[v].row = r /\ Committed(heap[v].xmin)
                                /\ ~Committed(heap[v].xmax)}

\* In every state a row has one committed version, or none once a DELETE of it
\* has committed: commits and aborts switch versions atomically.
OneLiveVersion ==
    NoMisreading =>
        \A r \in Rows :
            \/ Cardinality(Live(r)) = 1
            \/ /\ Live(r) = {}
               /\ \E p \in applied : /\ op[p[1]] = "delete" /\ Committed(p[1])
                                     /\ heap[p[2]].row = r

\* A statement that succeeds has changed every row in its scope, also the rows
\* that others were changing meanwhile, unless the row is gone.
SuccessCoversScope ==
    NoMisreading =>
        \A t \in Txns : clog[t] = "committed" =>
            \A r \in scope[t] :
                \/ \E p \in applied : p[1] = t /\ heap[p[2]].row = r
                \/ \E p \in applied : /\ op[p[1]] = "delete" /\ Committed(p[1])
                                      /\ heap[p[2]].row = r
=============================================================================
