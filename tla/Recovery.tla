------------------------------ MODULE Recovery ------------------------------
(***************************************************************************)
(* Crash recovery: what a killed and restarted server makes of its log,    *)
(* its pages, its commit log and checkpoint.meta (recovery.rs,             *)
(* checkpoint.rs, clog.rs, sequence.rs, Instance::new and checkpoint).     *)
(*                                                                         *)
(* One table of two heap pages, Head and Tail, and one sequence.  A        *)
(* record's LSN is its place in the log, and an Insert's LSN names the row *)
(* it made.  The log is used by its contract: a flush makes a prefix       *)
(* durable, a kill keeps a prefix at least that long, and a page is        *)
(* written after the log up to its page_lsn.  A write(2) of a page         *)
(* survives a kill.                                                        *)
(***************************************************************************)
EXTENDS Integers, Sequences, FiniteSets, FiniteSetsExt

CONSTANTS
    MaxTxn,      \* bound on transaction ids
    MaxLsn,      \* bound on the length of the log
    MaxVal,      \* bound on the values of the sequence
    MaxCrashes,  \* bound on kills
    MaxCkpts,    \* bound on checkpoints
    PageCap,     \* rows that fit on a page
    Batch,       \* SEQ_LOG_VALS
    Workloads    \* what a behaviour does, with how many transactions, log records and kills

\* "grow": an INSERT that needs a new page.
Statements == {"insert", "grow", "delete", "vacuum", "seq", "read", "ckpt"}

ASSUME RecoveryAssumption ==
    /\ {MaxTxn, MaxLsn, MaxVal, MaxCrashes, MaxCkpts, PageCap, Batch} \subseteq Nat
    /\ PageCap > 0
    /\ Workloads \subseteq [does : SUBSET Statements, txns : 0..MaxTxn,
                      lsns : 0..MaxLsn, kills : 0..MaxCrashes]

Heap == {"Head", "Tail"}
Pages == Heap \cup {"Seq"}
Ids == 1..MaxTxn
None == "none"
\* checkpoint.meta is missing or too short to read.
NoMeta == [lsn |-> 0, next |-> 0]

VARIABLES
    workload,           \* the statements of this behaviour, chosen at the start
    log, durable,       \* WAL records; how many of them are fsynced
    mem, disk,          \* page images in the buffer pool and in the file
    alloc,              \* pages the file has been extended to
    dirty, dpt,         \* dirty frames; the dirty page table (page -> rec_lsn)
    clog, clogDisk,     \* transaction statuses in memory and in clog.db
    nextId, att,        \* the id counter and the active transaction table
    mode, stage,        \* what a transaction is for, and how far its end has come
    held,               \* the page a transaction still holds a mutated guard on
    ckpt, meta,         \* the checkpoint being taken; checkpoint.meta
    phase,              \* "run", or where start-up stands
    crashes, ckpts,     \* counters for the bounds
    horizon,            \* oldest_active_xmin as a VACUUM read it when it began
    issued, reused,     \* history: ids handed out, and handed out again
    promised,           \* history: acknowledged changes, by LSN
    handed, repeated,   \* history: sequence values returned, and whether one came twice
    lost, exposed       \* history: LSNs that start-up dropped; kills at a weak moment

store == <<mem, disk, alloc, dirty, dpt>>
frames == <<disk, alloc, dirty, dpt>>
live == <<att, mode, stage>>
ids == <<nextId, horizon, issued, reused>>
txns == <<att, mode, stage, held, ids>>
seqHist == <<handed, repeated>>
rest == <<crashes, ckpts, lost, exposed>>
system == <<clogDisk,  ckpt, meta, phase, rest>>
vars == <<workload, log, durable, mem, disk, alloc, dirty, dpt, clog, clogDisk, nextId, att, mode,
          stage, held, ckpt, meta, phase, crashes, ckpts, horizon, issued, reused, promised,
          handed, repeated, lost, exposed>>

(***************************************************************************)
(* Pages.  A heap image is the rows with their xmax (0: none) and the link *)
(* to the next page; the sequence's image is its state.                    *)
(***************************************************************************)
EmptyHeap == [lsn |-> 0, rows |-> <<>>, next |-> None]
FreshSeq == [lsn |-> 0, last |-> 0, cnt |-> 0, called |-> FALSE]
FreshFile == [p \in Pages |-> IF p = "Seq" THEN FreshSeq ELSE EmptyHeap]
Full(img) == Cardinality(DOMAIN img.rows) >= PageCap
WithRow(img, r, x, lsn) ==
    [img EXCEPT !.lsn = lsn,
                !.rows = [q \in DOMAIN img.rows \cup {r} |-> IF q = r THEN x ELSE img.rows[q]]]

\* The ends of transactions, as the log tells them.
Xmin(r) == log[r].txn
CommitLogged(t) == \E i \in DOMAIN log : log[i].kind = "Commit" /\ log[i].txn = t

\* status() of another thread, on a clear cache.
Status(t) == IF clog[t] # "InProgress" THEN clog[t]
             ELSE IF t \in att THEN "InProgress" ELSE "Aborted"

Init ==
    /\ workload \in Workloads
    /\ log = <<>> /\ durable = 0
    /\ mem = FreshFile /\ disk = FreshFile /\ alloc = {"Head", "Seq"}
    /\ dirty = {} /\ dpt = <<>>
    /\ clog = [t \in Ids |-> "InProgress"] /\ clogDisk = clog
    /\ nextId = 1 /\ att = {} /\ mode = [t \in Ids |-> None] /\ stage = mode
    /\ held = mode /\ ckpt = [at |-> None] /\ meta = NoMeta /\ phase = "run"
    /\ crashes = 0 /\ ckpts = 0 /\ issued = {} /\ reused = {} /\ promised = {}
    /\ horizon = [t \in Ids |-> 0]
    /\ handed = {} /\ repeated = FALSE /\ lost = {} /\ exposed = {}

Up == phase = "run"
Room(n) == Len(log) + n <= workload.lsns
Does(s) == s \in workload.does
Working(t) == Up /\ t \in att /\ stage[t] = "open" /\ held[t] = None

(***************************************************************************)
(* Transactions.  "rw" has its records between Begin and Commit or Abort   *)
(* (an explicit transaction, or an autocommit INSERT, UPDATE or DELETE);   *)
(* "ro" logs neither (a connection's idle id, a SELECT); "vac" is VACUUM.  *)
(***************************************************************************)
Start(t, m) ==
    /\ Up /\ t = nextId /\ t <= workload.txns
    /\ nextId' = nextId + 1
    /\ att' = att \cup {t} /\ issued' = issued \cup {t}
    /\ mode' = [mode EXCEPT ![t] = m]
    /\ stage' = [stage EXCEPT ![t] = "open"]
    /\ held' = [held EXCEPT ![t] = None]
    /\ IF m = "ro" THEN log' = log ELSE Room(1) /\ log' = Append(log, [kind |-> "Begin", txn |-> t])
    /\ reused' = IF t \in issued THEN reused \cup {t} ELSE reused
    /\ horizon' = [horizon EXCEPT ![t] = IF m = "vac" THEN Min(att \cup {t}) ELSE 0]
    /\ UNCHANGED <<workload, durable, store, clog, promised, seqHist, system>>

\* COMMIT and ROLLBACK append the record, flush, and only then tell the transaction manager.
LogEnd(t, k) ==
    /\ Working(t) /\ mode[t] # "ro" /\ Room(1)
    /\ log' = Append(log, [kind |-> k, txn |-> t])
    /\ stage' = [stage EXCEPT ![t] = k]
    /\ UNCHANGED <<workload, durable, store, clog, att, mode, held, promised, seqHist, ids, system>>

FlushEnd(t) ==
    /\ Up /\ t \in att /\ stage[t] \in {"Commit", "Abort"}
    /\ durable' = Len(log)
    /\ stage' = [stage EXCEPT ![t] = IF @ = "Commit" THEN "Committed" ELSE "Aborted"]
    /\ UNCHANGED <<workload, log, store, clog, att, mode, held, promised, seqHist, ids, system>>

\* tm.commit / tm.abort: the first decision wins.  The client is told after it.
DecideWith(t, s) ==
    /\ att' = att \ {t}
    /\ clog' = IF clog[t] = "InProgress" THEN [clog EXCEPT ![t] = s] ELSE clog
    /\ stage' = [stage EXCEPT ![t] = None]
    /\ mode' = [mode EXCEPT ![t] = None]

Decide(t) ==
    /\ Up /\ t \in att /\ stage[t] \in {"Committed", "Aborted"}
    /\ DecideWith(t, stage[t])
    /\ promised' = IF stage[t] = "Aborted" THEN promised
                   ELSE promised \cup {i \in DOMAIN log : log[i].txn = t /\ log[i].kind \in {"Insert", "Delete"}}
    /\ UNCHANGED <<workload, log, durable, store, held, seqHist, ids, system>>

\* The end of a SELECT (commit) or of a connection (Drop: abort) that logged nothing.
EndReader(t, s) ==
    /\ Working(t) /\ mode[t] = "ro"
    /\ DecideWith(t, s)
    /\ UNCHANGED <<workload, log, durable, store, held, promised, seqHist, ids, system>>

(***************************************************************************)
(* Changes.  The image, the record and page_lsn change under the page's    *)
(* latch; the frame is marked dirty when the guard is dropped, later.      *)
(***************************************************************************)
InsertInto(t, p) ==
    /\ mem' = [mem EXCEPT ![p] = WithRow(@, Len(log) + 1, 0, Len(log) + 1)]
    /\ log' = Append(log, [kind |-> "Insert", txn |-> t, page |-> p])

LastPage == IF mem["Head"].next = None THEN "Head" ELSE "Tail"

InsertRow(t) ==
    /\ Working(t) /\ mode[t] = "rw" /\ Does("insert") /\ Room(1) /\ ~Full(mem[LastPage])
    /\ InsertInto(t, LastPage)
    /\ held' = [held EXCEPT ![t] = LastPage]
    /\ UNCHANGED <<workload, durable, frames, clog, live, promised, seqHist, ids, system>>

\* new_page: the frame is dirty from the start, so release() never enters it in the dirty page table.
InsertFresh(t) ==
    /\ Working(t) /\ mode[t] = "rw" /\ Does("grow") /\ Room(1)
    /\ LastPage = "Head" /\ Full(mem["Head"]) /\ "Tail" \notin alloc
    /\ InsertInto(t, "Tail")
    /\ alloc' = alloc \cup {"Tail"} /\ dirty' = dirty \cup {"Tail"}
    /\ held' = [held EXCEPT ![t] = "unlinked"]
    /\ UNCHANGED <<workload, durable, disk, dpt, clog, live, promised, seqHist, ids, system>>

\* The new page is linked after its row was logged; the link itself is not logged.
Link(t) ==
    /\ Up /\ held[t] = "unlinked"
    /\ mem' = [mem EXCEPT !["Head"].next = "Tail"]
    /\ held' = [held EXCEPT ![t] = "Head"]
    /\ UNCHANGED <<workload, log, durable, frames, clog, live, promised, seqHist, ids, system>>

DeleteRow(t, p, r) ==
    /\ Working(t) /\ mode[t] = "rw" /\ Room(1) /\ Does("delete")
    /\ r \in DOMAIN mem[p].rows
    /\ mem[p].rows[r] # 0 => Status(mem[p].rows[r]) = "Aborted"
    /\ Xmin(r) = t \/ Status(Xmin(r)) = "Committed"
    /\ mem' = [mem EXCEPT ![p] = WithRow(@, r, t, Len(log) + 1)]
    /\ log' = Append(log, [kind |-> "Delete", txn |-> t, page |-> p, row |-> r])
    /\ held' = [held EXCEPT ![t] = p]
    /\ UNCHANGED <<workload, durable, frames, clog, live, promised, seqHist, ids, system>>

\* is_tuple_dead with the horizon oldest_active_xmin().
Dead(r, xmax, oldest) ==
    \/ Status(Xmin(r)) = "Aborted"
    \/ xmax # 0 /\ xmax < oldest /\ Status(xmax) = "Committed"

\* VACUUM of a page is not logged: it raises page_lsn to the LSN of VACUUM's own Begin.  A page
\* behind the head that becomes empty is unlinked and recycled; that is HeapChain's subject.
Stamp(t) == Max({i \in DOMAIN log : log[i].kind = "Begin" /\ log[i].txn = t})

VacuumPage(t, p) ==
    LET keep == {r \in DOMAIN mem[p].rows : ~Dead(r, mem[p].rows[r], horizon[t])} IN
    /\ Working(t) /\ mode[t] = "vac" /\ p \in alloc
    /\ keep # DOMAIN mem[p].rows
    /\ p = "Tail" => keep # {}
    /\ mem' = [mem EXCEPT ![p].rows = [r \in keep |-> mem[p].rows[r]],
                          ![p].lsn = Max({@, Stamp(t)})]
    /\ held' = [held EXCEPT ![t] = p]
    /\ UNCHANGED <<workload, log, durable, frames, clog, live, promised, seqHist, ids, system>>

\* nextval: a record only when the reserved batch is used up; it reserves the values that follow.
Bad_Reserved(v) == v
Reserved(v) == v + Batch
NextValue == IF mem["Seq"].called THEN mem["Seq"].last + 1 ELSE 1

NextVal(t) ==
    LET s == mem["Seq"]
        logs == s.cnt <= 0 IN
    /\ Working(t) /\ mode[t] # "vac" /\ Does("seq")
    /\ NextValue <= MaxVal /\ (logs => Room(1))
    /\ log' = IF logs THEN Append(log, [kind |-> "SeqAdvance", txn |-> t, val |-> Reserved(NextValue)]) ELSE log
    /\ mem' = [mem EXCEPT !["Seq"] = [lsn |-> IF logs THEN Len(log) + 1 ELSE s.lsn, last |-> NextValue,
                                      cnt |-> IF logs THEN Batch ELSE s.cnt - 1, called |-> TRUE]]
    /\ handed' = handed \cup {NextValue}
    /\ repeated' = (repeated \/ NextValue \in handed)
    /\ held' = [held EXCEPT ![t] = "Seq"]
    /\ UNCHANGED <<workload, durable, frames, clog, live, promised, ids, system>>

\* setval, used to move the sequence past the values handed out.
SetVal(t, called) ==
    LET v == Max({0} \cup handed) + 1 IN
    /\ Working(t) /\ mode[t] # "vac" /\ Does("seq") /\ Room(1) /\ v <= MaxVal
    /\ log' = Append(log, [kind |-> "SeqAdvance", txn |-> t, val |-> v])
    /\ mem' = [mem EXCEPT !["Seq"] = [lsn |-> Len(log) + 1, last |-> v, cnt |-> 0, called |-> called]]
    /\ held' = [held EXCEPT ![t] = "Seq"]
    /\ exposed' = IF called THEN exposed ELSE exposed \cup {"reset"}
    /\ UNCHANGED <<workload, durable, frames, clog, live, promised, seqHist, ids,
                   clogDisk, ckpt, meta, phase, crashes, ckpts, lost>>

\* release(): a clean frame becomes dirty and enters the table with its page_lsn.
Release(t) ==
    /\ Up /\ held[t] \in Pages
    /\ held' = [held EXCEPT ![t] = None]
    /\ dirty' = dirty \cup {held[t]}
    /\ dpt' = IF held[t] \in dirty \cup DOMAIN dpt THEN dpt
              ELSE [p \in DOMAIN dpt \cup {held[t]} |-> IF p = held[t] THEN mem[p].lsn ELSE dpt[p]]
    /\ UNCHANGED <<workload, log, durable, mem, disk, alloc, clog, live, promised, seqHist, ids, system>>

\* A dirty page reaches the file (eviction, flush_page, flush_all at the end of a session).
WritePage(p) ==
    /\ Up /\ p \in dirty
    /\ durable' = Max({durable, mem[p].lsn})
    /\ disk' = [disk EXCEPT ![p] = mem[p]]
    /\ dirty' = dirty \ {p}
    /\ dpt' = [q \in DOMAIN dpt \ {p} |-> dpt[q]]
    /\ UNCHANGED <<workload, log, mem, alloc, clog, txns, promised, seqHist, system>>

(***************************************************************************)
(* CHECKPOINT: CLOG, then the tables, the record, the log, the meta file.  *)
(***************************************************************************)
CkptRest == UNCHANGED <<workload, store, clog, txns, phase, promised, seqHist, crashes, lost, exposed>>

CkptClog ==
    /\ Up /\ Does("ckpt") /\ ckpt.at = None /\ ckpts < MaxCkpts
    /\ clogDisk' = clog /\ ckpts' = ckpts + 1
    /\ ckpt' = [at |-> "tables"]
    /\ UNCHANGED <<log, durable, meta>> /\ CkptRest

CkptTables ==
    /\ Up /\ ckpt.at = "tables"
    /\ ckpt' = [at |-> "record", dpt |-> dpt]
    /\ UNCHANGED <<log, durable, clogDisk, meta, ckpts>> /\ CkptRest

CkptRecord ==
    /\ Up /\ ckpt.at = "record" /\ Room(1)
    /\ log' = Append(log, [kind |-> "Checkpoint", txn |-> 0, dpt |-> ckpt.dpt])
    /\ ckpt' = [at |-> "flush", lsn |-> Len(log) + 1]
    /\ UNCHANGED <<durable, clogDisk, meta, ckpts>> /\ CkptRest

CkptFlush ==
    /\ Up /\ ckpt.at = "flush"
    /\ durable' = Len(log)
    /\ ckpt' = [ckpt EXCEPT !.at = "truncate"]
    /\ UNCHANGED <<log, clogDisk, meta, ckpts>> /\ CkptRest

\* checkpoint::write opens with truncate(true); the counter was read for the argument.
MetaTruncate ==
    /\ Up /\ ckpt.at = "truncate"
    /\ ckpt' = [at |-> "write", lsn |-> ckpt.lsn, next |-> nextId]
    /\ meta' = NoMeta
    /\ UNCHANGED <<log, durable, clogDisk, ckpts>> /\ CkptRest

MetaWrite ==
    /\ Up /\ ckpt.at = "write"
    /\ meta' = [lsn |-> ckpt.lsn, next |-> ckpt.next]
    /\ ckpt' = [at |-> None]
    /\ UNCHANGED <<log, durable, clogDisk, ckpts>> /\ CkptRest

(***************************************************************************)
(* A kill, at any moment, start-up included.                               *)
(***************************************************************************)
SeqRecords == {i \in DOMAIN log : log[i].kind = "SeqAdvance"}
\* The sequence can repeat itself: its last reservation is not in the log that is left, or the
\* page was written after it and has handed out values since.
SeqBehind(n) ==
    /\ handed # {}
    /\ \/ SeqRecords # {} /\ n < Max(SeqRecords)
       \/ /\ disk["Seq"].last < mem["Seq"].last
          /\ \A i \in SeqRecords : i <= disk["Seq"].lsn

\* A vacuumed page whose compaction is not in the file: the file's image has less room.
VacuumPending(p) ==
    \E r \in DOMAIN log :
        /\ log[r].kind = "Insert" /\ log[r].page = p
        /\ r \notin DOMAIN mem[p].rows
        /\ r \in DOMAIN disk[p].rows \/ r > disk[p].lsn

Kill(n) ==
    /\ phase # "failed" /\ crashes < workload.kills
    /\ crashes' = crashes + 1
    /\ log' = SubSeq(log, 1, n) /\ durable' = n
    /\ mem' = disk /\ dirty' = {} /\ dpt' = <<>>
    /\ clog' = clogDisk
    /\ att' = {} /\ mode' = [t \in Ids |-> None] /\ stage' = mode' /\ held' = mode'
    /\ ckpt' = [at |-> None] /\ phase' = "down"
    /\ exposed' = exposed \cup {x \in {"seq", "vacuum"} :
                                IF x = "seq" THEN SeqBehind(n) ELSE Up /\ \E p \in Heap : VacuumPending(p)}
    /\ UNCHANGED <<workload, disk, alloc, clogDisk, meta, ckpts, promised, seqHist, lost, ids>>

(***************************************************************************)
(* Start-up: analyze, redo, undo.                                          *)
(***************************************************************************)
Bad_Analysis ==
    LET of(k) == {log[i].txn : i \in {j \in DOMAIN log : log[j].kind = k}} IN
    [committed |-> of("Commit") \cup of("Abort"), uncommitted |-> of("Begin") \ of("Commit"),
     maxTxn |-> Max({0} \cup {log[i].txn : i \in DOMAIN log})]

Analysis ==
    LET of(k) == {log[i].txn : i \in {j \in DOMAIN log : log[j].kind = k}}
        dml == UNION {of(k) : k \in {"Insert", "Delete", "SeqAdvance"}} IN
    [committed |-> of("Commit"),
     uncommitted |-> (of("Begin") \ (of("Commit") \cup of("Abort"))) \cap dml,
     maxTxn |-> Max({0} \cup {log[i].txn : i \in DOMAIN log})]

\* min(rec_lsn) of the checkpoint's table; 0 without a checkpoint or with an empty table.
RedoStart ==
    IF meta.lsn \notin DOMAIN log THEN 0
    ELSE IF log[meta.lsn].kind # "Checkpoint" \/ DOMAIN log[meta.lsn].dpt = {} THEN 0
    ELSE Min({log[meta.lsn].dpt[p] : p \in DOMAIN log[meta.lsn].dpt})

PageOf(rec) == IF rec.kind = "SeqAdvance" THEN "Seq" ELSE rec.page
ChangesPage(rec) == rec.kind \in {"Insert", "Delete", "SeqAdvance"}

\* The idempotence gate of every redo function.
Bad_AppliedLate(img, i) == img.lsn > i
Bad_AppliedEarly(img, i) == img.lsn >= i - 1
Applied(img, i) == img.lsn >= i

\* redo_insert, redo_set_xmax, redo_seq_advance behind the page_lsn gate; fail is an Err.
RedoRecord(st, i) ==
    LET rec == log[i]
        p == PageOf(rec)
        img == st.pages[p] IN
    IF st.fail \/ i < RedoStart \/ ~ChangesPage(rec) THEN st
    ELSE IF Applied(img, i) THEN st
    ELSE CASE rec.kind = "Insert" ->
                IF Full(img) THEN [st EXCEPT !.fail = TRUE]
                ELSE [st EXCEPT !.pages[p] = WithRow(img, i, 0, i), !.alloc = @ \cup {p}]
           [] rec.kind = "Delete" ->
                IF p \notin st.alloc THEN st
                ELSE IF rec.row \notin DOMAIN img.rows THEN [st EXCEPT !.fail = TRUE]
                ELSE [st EXCEPT !.pages[p] = WithRow(img, rec.row, rec.txn, i)]
           [] rec.kind = "SeqAdvance" ->
                [st EXCEPT !.pages[p] = [lsn |-> i, last |-> rec.val, cnt |-> 0, called |-> TRUE]]

Redone ==
    LET upTo[k \in 0..Len(log)] ==
            IF k = 0 THEN [pages |-> disk, alloc |-> alloc, fail |-> FALSE]
            ELSE RedoRecord(upTo[k - 1], k)
    IN upTo[Len(log)]

\* Changes in the log that are in no image after redo: below the redo point, or on an unlinked page.
Dropped(pages) ==
    {i \in DOMAIN log :
        /\ ChangesPage(log[i])
        /\ \/ i < RedoStart /\ disk[PageOf(log[i])].lsn < i
           \/ PageOf(log[i]) = "Tail" /\ pages["Head"].next = None}

UndoRecords == [i \in 1..Cardinality(Analysis.uncommitted) |->
                  [kind |-> "Abort", txn |-> CHOOSE t \in Analysis.uncommitted :
                     Cardinality({u \in Analysis.uncommitted : u <= t}) = i]]

Restart ==
    /\ phase = "down"
    /\ LET redo == Redone IN
       /\ phase' = IF redo.fail THEN "failed" ELSE "undo"
       /\ mem' = redo.pages /\ alloc' = redo.alloc
       /\ dirty' = {p \in Pages : redo.pages[p] # disk[p]}
       /\ lost' = lost \cup Dropped(redo.pages)
       /\ log' = IF redo.fail THEN log ELSE log \o UndoRecords
       /\ nextId' = IF log = <<>> THEN Max({1, meta.next})
                    ELSE Max({Analysis.maxTxn, meta.next}) + 1
       /\ clog' = IF redo.fail THEN clog
                  ELSE [t \in Ids |-> IF t \in Analysis.committed THEN "Committed"
                                      ELSE IF t \in Analysis.uncommitted THEN "Aborted" ELSE clog[t]]
    /\ UNCHANGED <<workload, durable, disk, dpt, clogDisk, live, held, horizon, issued, reused, ckpt, meta,
                   promised, seqHist, crashes, ckpts, exposed>>

\* The log of undo is flushed, the statuses are written and clog.db is synced.
RecoverClog ==
    /\ phase = "undo"
    /\ durable' = Len(log) /\ clogDisk' = clog /\ phase' = "pages"
    /\ UNCHANGED <<workload, log, store, clog, txns, ckpt, meta, promised, seqHist, rest>>

\* flush_all; then the server accepts connections.
RecoverPages ==
    /\ phase = "pages"
    /\ disk' = mem /\ dirty' = {} /\ phase' = "run"
    /\ UNCHANGED <<workload, log, durable, mem, alloc, dpt, clog, clogDisk, txns, ckpt, meta, promised, seqHist, rest>>

Next ==
    \/ \E t \in Ids :
         \/ (Does("insert") /\ Start(t, "rw")) \/ (Does("read") /\ Start(t, "ro"))
         \/ (Does("vacuum") /\ Start(t, "vac"))
         \/ LogEnd(t, "Commit") \/ (mode[t] = "rw" /\ LogEnd(t, "Abort"))
         \/ FlushEnd(t) \/ Decide(t)
         \/ EndReader(t, "Committed") \/ EndReader(t, "Aborted")
         \/ InsertRow(t) \/ InsertFresh(t) \/ Link(t)
         \/ \E p \in Heap, r \in 1..MaxLsn : DeleteRow(t, p, r)
         \/ \E p \in Heap : VacuumPage(t, p)
         \/ NextVal(t) \/ \E c \in BOOLEAN : SetVal(t, c)
         \/ Release(t)
    \/ \E p \in Pages : WritePage(p)
    \/ CkptClog \/ CkptTables \/ CkptRecord \/ CkptFlush \/ MetaTruncate \/ MetaWrite
    \/ \E n \in durable..Len(log) : Kill(n)
    \/ Restart \/ RecoverClog \/ RecoverPages

Spec == Init /\ [][Next]_vars

-----------------------------------------------------------------------------
\* A row can be found by a scan: it is on a page of the chain.
Found(r, p) == r \in DOMAIN mem[p].rows /\ (p = "Tail" => mem["Head"].next = "Tail")

\* The acknowledged change i is in force.  VACUUM may have taken a row away that was deleted since,
\* by a transaction that counts as committed, whether its client came to hear of it or not.
InForce(i) ==
    LET rec == log[i] IN
    /\ Status(rec.txn) = "Committed"
    /\ IF rec.kind = "Insert"
       THEN \/ Found(i, rec.page)
            \/ \E j \in DOMAIN log : /\ log[j].kind = "Delete" /\ log[j].row = i
                                     /\ log[j].txn \in reused \/ Status(log[j].txn) = "Committed"
       ELSE Found(rec.row, rec.page) => mem[rec.page].rows[rec.row] = rec.txn

(***************************************************************************)
(* What COMMIT acknowledged survives kills, restarts and checkpoints: the  *)
(* change is there and its transaction counts as committed.  The code has  *)
(* three ways to lose it, and only these: the change is below the redo     *)
(* point on a page the dirty page table left out, its page is not linked   *)
(* into the chain, or the transaction ran under an id handed out before.   *)
(***************************************************************************)
CommittedSurvives ==
    Up => \A i \in promised : i \in lost \/ log[i].txn \in reused \/ InForce(i)

(***************************************************************************)
(* Nothing that was not committed comes to count as committed: a writer    *)
(* whose status is Committed has its Commit record in the log, also after  *)
(* recovery has seeded the CLOG.                                           *)
(***************************************************************************)
NothingResurrected ==
    Up => \A i \in DOMAIN log :
             log[i].kind \in {"Insert", "Delete"} /\ log[i].txn \notin reused
                 /\ Status(log[i].txn) = "Committed"
             => CommitLogged(log[i].txn)

(***************************************************************************)
(* Start-up gets through redo.  It can meet a full page or a missing slot  *)
(* only because VACUUM compacts pages without logging it, or because an    *)
(* earlier record lies below the redo point.                               *)
(***************************************************************************)
StartupFailsOnlyIf == phase = "failed" => "vacuum" \in exposed \/ lost # {}

(***************************************************************************)
(* A sequence hands out a value twice only after a kill that found its     *)
(* last reservation unlogged, or its page written in the middle of one, or *)
(* after setval(.., false), which makes nextval start over.                *)
(***************************************************************************)
RepeatsOnlyIf ==
    repeated => exposed \cap {"seq", "reset"} # {} \/ \E i \in lost : log[i].kind = "SeqAdvance"

=============================================================================
