----------------------------- MODULE TxnManager -----------------------------
(***************************************************************************)
(* Transaction ids, the Active Transaction Table, the commit log and the   *)
(* snapshots built from them: transaction_manager.rs, transaction.rs,      *)
(* clog.rs (get / set) and visibility.rs.                                  *)
(*                                                                         *)
(* Every connection is a thread that owns one Transaction object.  What    *)
(* one thread does between two accesses to shared memory (the atomic       *)
(* counter, the ATT mutex, the CLOG mutex) is one step; TM::begin, commit, *)
(* abort and status are therefore several steps each, and the steps of     *)
(* different threads interleave.  commit() and abort() read the CLOG entry *)
(* and write it under two acquisitions of the mutex; the entry of an id is *)
(* written by the thread that owns the id only, so the pair is one step.   *)
(*                                                                         *)
(* Abstracted: last_lsn of the ATT entries, timestamps, the undo log, and  *)
(* the page layout of the CLOG (it is a map from ids to statuses).         *)
(***************************************************************************)
EXTENDS Integers, FiniteSets

CONSTANTS
    Conns,      \* connection threads (autovacuum is one more of them)
    MaxTxnId,   \* bound: ids 1 .. MaxTxnId are handed out
    CacheCap    \* capacity of the thread-local status cache (4096 in the code)

ASSUME BoundsAssumption ==
    /\ MaxTxnId \in Nat /\ MaxTxnId >= 1
    /\ CacheCap \in Nat \ {0}

InProgress == "InProgress"
Committed  == "Committed"
Aborted    == "Aborted"
Status     == {InProgress, Committed, Aborted}
Terminal   == {Committed, Aborted}

SystemTxnId == 1
TxnIds      == 1 .. MaxTxnId
NoId        == 0

VARIABLES
    nextTxnId,  \* TransactionManager.next_txn_id
    att,        \* keys of TransactionManager.att
    clog,       \* Clog: id -> status, InProgress when never written
    memo,       \* thread -> CLOG_CACHE; InProgress stands for "no entry"
    id,         \* connection -> Transaction.id
    active,     \* connection -> Transaction.state = Active
    snap,       \* connection -> Transaction.snapshot
    pc,         \* connection -> where its thread is
    verdict,    \* connection -> the decision being made by commit()/abort()
    resume,     \* connection -> where the thread goes after the call
    lookup,     \* connection -> id whose status is being looked up
    writers,    \* ids that occur as xmin or xmax in some row
    \* History, read by the properties only:
    outcome,    \* id -> what the owner's COMMIT, ROLLBACK or statement end asked for
    judged,     \* connection -> ids the current snapshot has found committed
    unborn      \* connection -> ids allocated but not in the ATT at its snapshot
                \* (judged and unborn are emptied with the snapshot's last use)

tmVars  == <<nextTxnId, att, clog>>
txVars  == <<id, active, snap>>
ctlVars == <<verdict, resume, lookup, writers>>
history == <<outcome, judged, unborn>>
vars    == <<nextTxnId, att, clog, memo, id, active, snap, pc, verdict, resume,
             lookup, writers, outcome, judged, unborn>>

PCs == {"off",      \* no Transaction object
        "idle",     \* between two statements
        "stmt",     \* inside execute(), reading rows
        "remove",   \* in TM::commit / TM::abort, before att.remove
        "decide",   \* in TM::commit / TM::abort, before the CLOG update
        "alloc",    \* in TM::begin, before fetch_add
        "insert",   \* in TM::begin, before att.insert
        "snapshot", \* before TM::snapshot
        "attCheck"} \* in status_uncached, between the CLOG read and the ATT read

NoSnapshot  == [valid |-> FALSE, xmax |-> 0, active |-> {}]
SnapshotSet == [valid : BOOLEAN, xmax : 0 .. MaxTxnId + 1, active : SUBSET TxnIds]

\* After bootstrap: id 1 is committed and the counter is at 2.
Init ==
    /\ nextTxnId = SystemTxnId + 1
    /\ att = {}
    /\ clog = [x \in TxnIds |-> IF x = SystemTxnId THEN Committed ELSE InProgress]
    /\ memo = [c \in Conns |-> [x \in TxnIds |-> InProgress]]
    /\ id = [c \in Conns |-> NoId]
    /\ active = [c \in Conns |-> FALSE]
    /\ snap = [c \in Conns |-> NoSnapshot]
    /\ pc = [c \in Conns |-> "off"]
    /\ verdict = [c \in Conns |-> Committed]
    /\ resume = [c \in Conns |-> "off"]
    /\ lookup = [c \in Conns |-> NoId]
    /\ writers = {SystemTxnId}
    /\ outcome = [x \in TxnIds |-> InProgress]
    /\ judged = [c \in Conns |-> {}]
    /\ unborn = [c \in Conns |-> {}]

-----------------------------------------------------------------------------
(* TransactionManager::begin and ::snapshot, called by Transaction::new,    *)
(* begin and refresh_autocommit.                                            *)

\* Operators named Bad_... are mutated forms of the definition that follows
\* them, each a plausible bug; no specification uses them.
FetchAdd(n) == n + 1

FetchAddId(c) ==
    /\ pc[c] = "alloc"
    /\ nextTxnId <= MaxTxnId
    /\ id' = [id EXCEPT ![c] = nextTxnId]
    /\ nextTxnId' = FetchAdd(nextTxnId)
    /\ pc' = [pc EXCEPT ![c] = "insert"]
    /\ UNCHANGED <<att, clog, memo, active, snap, ctlVars, history>>

Bad_AttWith(x) == att              \* begin() forgets to register the id
AttWith(x) == att \cup {x}

AttInsert(c) ==
    /\ pc[c] = "insert"
    /\ att' = AttWith(id[c])
    /\ pc' = [pc EXCEPT ![c] = "snapshot"]
    /\ UNCHANGED <<nextTxnId, clog, memo, txVars, ctlVars, history>>

\* Ids handed out by fetch_add whose att.insert has not happened yet.
BeginWindow == {id[d] : d \in {e \in Conns : pc[e] = "insert"}}

\* TM::snapshot: the ATT and the frontier, both read under the ATT mutex.
Bad_SnapshotActive == [valid |-> TRUE, xmax |-> nextTxnId, active |-> {}]
SnapshotNow == [valid |-> TRUE, xmax |-> nextTxnId, active |-> att]

TakeSnapshot(c) ==
    /\ pc[c] = "snapshot"
    /\ snap' = [snap EXCEPT ![c] = SnapshotNow]
    /\ pc' = [pc EXCEPT ![c] = resume[c]]
    /\ resume' = [resume EXCEPT ![c] = "off"]
    /\ judged' = [judged EXCEPT ![c] = {}]
    /\ unborn' = [unborn EXCEPT ![c] = BeginWindow]
    /\ UNCHANGED <<tmVars, memo, id, active, verdict, lookup, writers, outcome>>

-----------------------------------------------------------------------------
(* TransactionManager::commit and ::abort: leave the ATT, then write the    *)
(* CLOG unless it already holds a decision ("first decision wins").         *)

Bad_AttWithout(x) == IF clog[x] = InProgress THEN att ELSE att \ {x}   \* keep until decided
AttWithout(x) == att \ {x}

AttRemove(c) ==
    /\ pc[c] = "remove"
    /\ att' = AttWithout(id[c])
    /\ pc' = [pc EXCEPT ![c] = "decide"]
    /\ UNCHANGED <<nextTxnId, clog, memo, txVars, ctlVars, history>>

Bad_LastDecisionWins(x, v) == clog' = [clog EXCEPT ![x] = v]
ClogDecide(x, v) ==
    clog' = IF clog[x] = InProgress THEN [clog EXCEPT ![x] = v] ELSE clog

Decide(c) ==
    /\ pc[c] = "decide"
    /\ ClogDecide(id[c], verdict[c])
    /\ verdict' = [verdict EXCEPT ![c] = Committed]
    /\ \/ /\ resume[c] = "off"     \* Drop: the Transaction object is gone
          /\ pc' = [pc EXCEPT ![c] = "off"]
          /\ snap' = [snap EXCEPT ![c] = NoSnapshot]
          /\ id' = [id EXCEPT ![c] = NoId]
          /\ UNCHANGED resume
       \/ /\ resume[c] = "ended"   \* the transaction ended; its id stays
          /\ pc' = [pc EXCEPT ![c] = "idle"]
          /\ resume' = [resume EXCEPT ![c] = "off"]
          /\ UNCHANGED <<snap, id>>
       \/ /\ resume[c] \in {"idle", "stmt"}   \* a boundary: on to TM::begin
          /\ pc' = [pc EXCEPT ![c] = "alloc"]
          /\ UNCHANGED <<snap, id, resume>>
    /\ UNCHANGED <<nextTxnId, att, memo, active, lookup, writers, history>>

-----------------------------------------------------------------------------
(* The Transaction object and the statement boundaries of executor::execute *)

\* Transaction::new, on connect and at each autovacuum pass.
New(c) ==
    /\ pc[c] = "off"
    /\ nextTxnId <= MaxTxnId
    /\ active' = [active EXCEPT ![c] = FALSE]
    /\ pc' = [pc EXCEPT ![c] = "alloc"]
    /\ resume' = [resume EXCEPT ![c] = "idle"]
    /\ UNCHANGED <<tmVars, memo, id, snap, verdict, lookup, writers, history>>

\* commit(old id), then a new id and a snapshot; the thread ends up at "next".
Boundary(c, next) ==
    /\ pc' = [pc EXCEPT ![c] = "remove"]
    /\ verdict' = [verdict EXCEPT ![c] = Committed]
    /\ resume' = [resume EXCEPT ![c] = next]

\* execute() on an Inactive transaction: refresh_autocommit, then the statement.
RefreshAutocommit(c) ==
    /\ pc[c] = "idle" /\ ~active[c]
    /\ nextTxnId <= MaxTxnId
    /\ Boundary(c, "stmt")
    /\ UNCHANGED <<tmVars, memo, txVars, lookup, writers, history>>

\* execute() inside an explicit transaction.
StartInTx(c) ==
    /\ pc[c] = "idle" /\ active[c]
    /\ pc' = [pc EXCEPT ![c] = "stmt"]
    /\ UNCHANGED <<tmVars, memo, txVars, ctlVars, history>>

\* The BEGIN statement: Transaction::begin after refresh_autocommit.
Begin(c) ==
    /\ pc[c] = "stmt" /\ ~active[c]
    /\ nextTxnId <= MaxTxnId
    /\ active' = [active EXCEPT ![c] = TRUE]
    /\ Boundary(c, "idle")
    /\ judged' = [judged EXCEPT ![c] = {}]
    /\ unborn' = [unborn EXCEPT ![c] = {}]
    /\ UNCHANGED <<tmVars, memo, id, snap, lookup, writers, outcome>>

\* INSERT, UPDATE and DELETE stamp rows with the transaction's id.
StampRow(c) ==
    /\ pc[c] = "stmt"
    /\ writers' = writers \cup {id[c]}
    /\ UNCHANGED <<tmVars, memo, txVars, pc, verdict, resume, lookup, history>>

\* UPDATE / DELETE re-evaluation: set_snapshot(tm.snapshot(id)).
Resnapshot(c) ==
    /\ pc[c] = "stmt"
    /\ pc' = [pc EXCEPT ![c] = "snapshot"]
    /\ resume' = [resume EXCEPT ![c] = "stmt"]
    /\ UNCHANGED <<tmVars, memo, txVars, verdict, lookup, writers, history>>

\* The client's transaction ends with decision v.
EndTx(c, v) ==
    /\ pc' = [pc EXCEPT ![c] = "remove"]
    /\ verdict' = [verdict EXCEPT ![c] = v]
    /\ resume' = [resume EXCEPT ![c] = "ended"]
    /\ outcome' = [outcome EXCEPT ![id[c]] = v]
    /\ judged' = [judged EXCEPT ![c] = {}]
    /\ unborn' = [unborn EXCEPT ![c] = {}]

\* End of an auto-commit statement: tm.commit on success, tm.abort on error.
AutocommitEnd(c, v) ==
    /\ pc[c] = "stmt" /\ ~active[c]
    /\ EndTx(c, v)
    /\ UNCHANGED <<tmVars, memo, txVars, lookup, writers>>

\* A statement inside an explicit transaction that leaves it open.
EndInTx(c) ==
    /\ pc[c] = "stmt" /\ active[c]
    /\ pc' = [pc EXCEPT ![c] = "idle"]
    /\ UNCHANGED <<tmVars, memo, txVars, ctlVars, history>>

\* COMMIT (Transaction::commit), and ROLLBACK or the automatic rollback of a
\* failed statement (Transaction::set_inactive).
FinishTx(c, v) ==
    /\ pc[c] = "stmt" /\ active[c]
    /\ EndTx(c, v)
    /\ active' = [active EXCEPT ![c] = FALSE]
    /\ snap' = [snap EXCEPT ![c] = NoSnapshot]
    /\ UNCHANGED <<tmVars, memo, id, lookup, writers>>

\* Disconnect outside an explicit transaction, or after FinishTx(c, Aborted):
\* Drop for Transaction aborts whatever id the object carries.
Drop(c) ==
    /\ pc[c] = "idle" /\ ~active[c]
    /\ pc' = [pc EXCEPT ![c] = "remove"]
    /\ verdict' = [verdict EXCEPT ![c] = Aborted]
    /\ resume' = [resume EXCEPT ![c] = "off"]
    /\ UNCHANGED <<tmVars, memo, txVars, lookup, writers, history>>

-----------------------------------------------------------------------------
(* TransactionManager::status, called by visibility.rs for a row written    *)
(* by transaction x that the snapshot does not already settle.              *)

\* visibility.rs: own writes, writes after the snapshot and writes concurrent
\* with it are settled by the snapshot; the rest depends on status(x).
NeedsStatus(c, x) ==
    /\ x \in writers
    /\ x # id[c]
    /\ x < snap[c].xmax
    /\ x \notin snap[c].active

Cached(c) == {x \in TxnIds : memo[c][x] # InProgress}

Memoise(c, x, s) ==
    memo' = [memo EXCEPT ![c] =
               [y \in TxnIds |->
                  IF y = x THEN s
                  ELSE IF Cardinality(Cached(c)) >= CacheCap THEN InProgress
                  ELSE memo[c][y]]]

\* status(x) returned s: a row created (deleted) by x is visible (gone) iff
\* s = Committed.
Judge(c, x, s) ==
    judged' = IF s = Committed THEN [judged EXCEPT ![c] = @ \cup {x}] ELSE judged

StatusCached(c, x) ==
    /\ pc[c] = "stmt"
    /\ NeedsStatus(c, x)
    /\ x \in Cached(c)
    /\ Judge(c, x, memo[c][x])
    /\ UNCHANGED <<tmVars, memo, txVars, pc, ctlVars, outcome, unborn>>

StatusFromClog(c, x) ==
    /\ pc[c] = "stmt"
    /\ NeedsStatus(c, x)
    /\ x \notin Cached(c)
    /\ clog[x] \in Terminal
    /\ Memoise(c, x, clog[x])
    /\ Judge(c, x, clog[x])
    /\ UNCHANGED <<tmVars, txVars, pc, ctlVars, outcome, unborn>>

StatusClogSilent(c, x) ==
    /\ pc[c] = "stmt"
    /\ NeedsStatus(c, x)
    /\ x \notin Cached(c)
    /\ clog[x] = InProgress
    /\ lookup' = [lookup EXCEPT ![c] = x]
    /\ pc' = [pc EXCEPT ![c] = "attCheck"]
    /\ UNCHANGED <<tmVars, memo, txVars, verdict, resume, writers, history>>

\* Undecided in the CLOG: running if in the ATT, aborted otherwise.
Bad_StatusAbsent(x) == IF x \in att THEN InProgress ELSE Committed
StatusAbsentFromClog(x) == IF x \in att THEN InProgress ELSE Aborted

StatusFromAtt(c) ==
    LET s == StatusAbsentFromClog(lookup[c])
    IN  /\ pc[c] = "attCheck"
        /\ IF s \in Terminal THEN Memoise(c, lookup[c], s) ELSE memo' = memo
        /\ Judge(c, lookup[c], s)
        /\ lookup' = [lookup EXCEPT ![c] = NoId]
        /\ pc' = [pc EXCEPT ![c] = "stmt"]
        /\ UNCHANGED <<tmVars, txVars, verdict, resume, writers, outcome, unborn>>

-----------------------------------------------------------------------------
Step(c) ==
    \/ FetchAddId(c) \/ AttInsert(c) \/ TakeSnapshot(c)
    \/ AttRemove(c) \/ Decide(c)
    \/ New(c) \/ RefreshAutocommit(c) \/ StartInTx(c) \/ Begin(c)
    \/ StampRow(c) \/ Resnapshot(c) \/ EndInTx(c) \/ Drop(c)
    \/ \E v \in Terminal : AutocommitEnd(c, v) \/ FinishTx(c, v)
    \/ \E x \in TxnIds : StatusCached(c, x) \/ StatusFromClog(c, x) \/ StatusClogSilent(c, x)
    \/ StatusFromAtt(c)

Next == \E c \in Conns : Step(c)

Spec == Init /\ [][Next]_vars
-----------------------------------------------------------------------------
(* Properties *)

TypeOK ==
    /\ nextTxnId \in 1 .. MaxTxnId + 1
    /\ att \in SUBSET TxnIds
    /\ clog \in [TxnIds -> Status]
    /\ memo \in [Conns -> [TxnIds -> Status]]
    /\ id \in [Conns -> TxnIds \cup {NoId}]
    /\ active \in [Conns -> BOOLEAN]
    /\ snap \in [Conns -> SnapshotSet]
    /\ pc \in [Conns -> PCs]
    /\ verdict \in [Conns -> Terminal]
    /\ resume \in [Conns -> {"off", "ended", "idle", "stmt"}]
    /\ lookup \in [Conns -> TxnIds \cup {NoId}]
    /\ writers \in SUBSET TxnIds
    /\ outcome \in [TxnIds -> Status]
    /\ judged \in [Conns -> SUBSET TxnIds]
    /\ unborn \in [Conns -> SUBSET TxnIds]

\* The transaction of c may still read under the snapshot it holds.
Reading(c) == pc[c] \in {"stmt", "attCheck"} \/ (pc[c] = "idle" /\ active[c])
Running(c) == pc[c] = "snapshot" \/ Reading(c)

\* A transaction that is running (its rows carry its id) is registered in the
\* ATT and has no decision in the CLOG, whatever boundaries, late commits of
\* finished ids (refresh_autocommit after ROLLBACK) and drops went before.
RunningIsUndecided ==
    \A c \in Conns : Running(c) => /\ id[c] \in att
                                  /\ clog[id[c]] = InProgress

\* No two connections ever carry the same transaction id.
IdsUnique ==
    \A c, d \in Conns : id[c] = id[d] /\ id[c] # NoId => c = d

\* Nothing stays in the ATT once its connection is done with it: an entry
\* belongs to a live connection that has not yet left commit() or abort().
\* (Drop for Transaction: "make sure we don't leak the txn in the ATT".)
AttHasNoLeaks ==
    \A x \in att : \E c \in Conns :
        id[c] = x /\ pc[c] \in {"snapshot", "idle", "stmt", "attCheck", "remove"}

\* What a COMMIT, a ROLLBACK or the end of an auto-commit statement decided is
\* what the CLOG says from then on; neither the commit() of the next boundary
\* nor the abort() of Drop can turn it round.
DecisionKept ==
    \A x \in TxnIds :
        outcome[x] = InProgress
        \/ clog[x] = outcome[x]
        \/ \E c \in Conns : id[c] = x /\ pc[c] \in {"remove", "decide"}
                                     /\ verdict[c] = outcome[x]

\* First decision wins: a status other than InProgress never changes.
DecisionsAreFinal ==
    [][\A x \in TxnIds : clog[x] # InProgress => clog'[x] = clog[x]]_vars

\* Status lookups (from the CLOG, from the thread's cache, or by default when
\* neither CLOG nor ATT know the id) never make uncommitted work visible.
NoDirtyRead ==
    \A c \in Conns : \A x \in judged[c] : clog[x] = Committed

\* A snapshot leaves out no running transaction, except one whose begin() was
\* between fetch_add and att.insert when the snapshot was taken.
SnapshotExact ==
    \A c \in Conns : Reading(c) =>
        \A x \in TxnIds :
            x < snap[c].xmax /\ x \notin snap[c].active /\ x \in att \cup BeginWindow
                => x \in unborn[c]

=============================================================================
