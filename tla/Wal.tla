--------------------------------- MODULE Wal ---------------------------------
(***************************************************************************)
(* The write-ahead log, wal.rs: threads append records, force the log      *)
(* (flush at COMMIT, ROLLBACK and checkpoints, flush_to before a dirty     *)
(* page is written) next to the background writer; the process is killed   *)
(* or the machine stops, and the server starts again on what is left.      *)
(*                                                                         *)
(* append() takes its LSN from an atomic counter first and writes the      *)
(* record later, under the writer mutex; these are two steps.  Records of  *)
(* a page are appended under the page's write latch.  A record is a length *)
(* prefix and a body, two writes into a BufWriter, which may hand what it  *)
(* holds to the operating system before either: positions in the file are  *)
(* counted in such halves.  The condition variable is left out: each of    *)
(* its waits ends by a notification or by a timeout, so at any time.       *)
(***************************************************************************)
EXTENDS Integers, Sequences

CONSTANTS
    Threads,    \* threads that serve connections, and the checkpointer
    Bg,         \* the background writer thread
    Pages,      \* heap, index and sequence pages
    NoPage,     \* page of a Begin, Commit, Abort or Checkpoint record
    Nobody,     \* no owner of a mutex or latch
    MaxLsn,     \* bound on LSNs handed out
    MaxCrashes  \* bound on crashes

ASSUME WalAssumption ==
    /\ Bg \notin Threads
    /\ Nobody \notin Threads \cup {Bg}
    /\ NoPage \notin Pages
    /\ MaxLsn \in Nat
    /\ MaxCrashes \in Nat

All == Threads \cup {Bg}

VARIABLES
    next,       \* next_lsn
    flushed,    \* flushed_lsn
    log,        \* records written, in the order of the file
    spilled,    \* halves of log that have left the BufWriter
    synced,     \* halves of log that an fsync has covered
    torn,       \* the file ends in a length prefix without its body
    fsyncLock,  \* owner of fsync_lock
    writer,     \* owner of the writer mutex, while it syncs
    pc,         \* thread -> where it is
    pend,       \* thread -> record whose append is under way (at most one)
    target,     \* thread -> LSN its flush is to reach
    page,       \* thread -> page it is writing out (at most one)
    latch,      \* page -> owner of the latch
    pageLsn,    \* page -> page_lsn in the buffer pool
    diskLsn,    \* page -> page_lsn of the page's image on disk
    server,     \* the process: "up", "down", "recovering", or "failed" to start
    crashes,
    owed,       \* thread -> LSNs its flush promises to make durable (history)
    acked,      \* LSNs promised by flushes that returned Ok (history)
    exposed     \* LSNs that flushed_lsn covered with no fsync behind it (history)

logVars    == <<log, spilled, synced, torn>>
atomicVars == <<next, flushed>>
pageVars   == <<latch, pageLsn, diskLsn>>
historyVars == <<owed, acked, exposed>>
vars == <<atomicVars, logVars, fsyncLock, writer, pc, pend, target, page, pageVars,
          server, crashes, historyVars>>

Record == [lsn : Nat, page : Pages \cup {NoPage}]

PCs == {"run",      \* a thread: executing; the writer: asleep
        "append",   \* LSN taken, record not written
        "wait",     \* in flush_to, waiting for somebody else's fsync
        "lock",     \* about to take fsync_lock
        "sync",     \* holding fsync_lock, about to flush and fsync
        "publish",  \* fsync done, flushed_lsn not yet raised
        "write"}    \* flush_to returned, about to write the page

Halves(s) == 2 * Len(s)
Written == {log[i].lsn : i \in DOMAIN log}
Durable == {log[i].lsn : i \in {j \in DOMAIN log : 2 * j <= synced}}

Init ==
    /\ next = 1 /\ flushed = 0
    /\ log = <<>> /\ spilled = 0 /\ synced = 0 /\ torn = FALSE
    /\ fsyncLock = Nobody /\ writer = Nobody
    /\ pc = [t \in All |-> "run"]
    /\ pend = [t \in All |-> {}]
    /\ target = [t \in All |-> 0]
    /\ page = [t \in All |-> {}]
    /\ latch = [p \in Pages |-> Nobody]
    /\ pageLsn = [p \in Pages |-> 0]
    /\ diskLsn = [p \in Pages |-> 0]
    /\ server = "up" /\ crashes = 0
    /\ owed = [t \in All |-> {}]
    /\ acked = {} /\ exposed = {}

-----------------------------------------------------------------------------
(* append() *)

Bad_LatchFree(p) == TRUE        \* logs after the latch is released
LatchFree(p) == latch[p] = Nobody

\* The LSN; for a change of a page, under the page's write latch.
AppendLsn(t, p) ==
    /\ server = "up" /\ pc[t] = "run" /\ t \in Threads
    /\ next <= MaxLsn
    /\ p \in Pages => LatchFree(p)
    /\ next' = next + 1
    /\ pend' = [pend EXCEPT ![t] = {[lsn |-> next, page |-> p]}]
    /\ latch' = IF p = NoPage THEN latch ELSE [latch EXCEPT ![p] = t]
    /\ pc' = [pc EXCEPT ![t] = "append"]
    /\ UNCHANGED <<flushed, logVars, fsyncLock, writer, target, page, pageLsn, diskLsn,
                   server, crashes, historyVars>>

\* The two writes into the BufWriter, each of which may first hand over what it
\* holds, and a large body itself; then set_page_lsn and the latch's release.
AppendWrite(t, r) ==
    /\ server = "up" /\ pc[t] = "append"
    /\ pend[t] = {r}
    /\ writer = Nobody
    /\ log' = Append(log, r)
    /\ spilled' \in {spilled} \cup Halves(log) .. (Halves(log) + 2)
    /\ pend' = [pend EXCEPT ![t] = {}]
    /\ IF r.page = NoPage
       THEN UNCHANGED <<pageLsn, latch>>
       ELSE /\ pageLsn' = [pageLsn EXCEPT ![r.page] = r.lsn]
            /\ latch' = [latch EXCEPT ![r.page] = Nobody]
    /\ pc' = [pc EXCEPT ![t] = "run"]
    /\ UNCHANGED <<atomicVars, synced, torn, fsyncLock, writer, target, page, diskLsn,
                   server, crashes, historyVars>>

-----------------------------------------------------------------------------
(* flush() and flush_to() *)

Bad_Target == next - 2          \* off by one
Target == next - 1

\* flush(): by a thread, or by the background writer when it wakes.
Flush(t) ==
    /\ server = "up" /\ pc[t] = "run"
    /\ target' = [target EXCEPT ![t] = Target]
    /\ owed' = [owed EXCEPT ![t] = Written]
    /\ pc' = [pc EXCEPT ![t] = "lock"]
    /\ UNCHANGED <<atomicVars, logVars, fsyncLock, writer, pend, page, pageVars,
                   server, crashes, acked, exposed>>

Bad_PageTarget(p) == pageLsn[p] - 1     \* off by one
PageTarget(p) == pageLsn[p]

\* evict() and flush_page(): if dirty, flush_to(page_lsn) under the page's latch.
WritePage(t, p) ==
    /\ server = "up" /\ pc[t] = "run" /\ t \in Threads
    /\ LatchFree(p)
    /\ diskLsn[p] # pageLsn[p]
    /\ latch' = [latch EXCEPT ![p] = t]
    /\ page' = [page EXCEPT ![t] = {p}]
    /\ target' = [target EXCEPT ![t] = PageTarget(p)]
    /\ owed' = [owed EXCEPT ![t] = {l \in Written : l <= pageLsn[p]}]
    /\ pc' = [pc EXCEPT ![t] = "wait"]
    /\ UNCHANGED <<atomicVars, logVars, fsyncLock, writer, pend, pageLsn, diskLsn,
                   server, crashes, acked, exposed>>

\* What a flush that returns Ok leaves: a promise kept, or so the caller thinks.
\* For a page, its image is written next.
Return(t) ==
    /\ acked' = acked \cup owed[t]
    /\ pc' = [pc EXCEPT ![t] = IF page[t] = {} THEN "run" ELSE "write"]
    /\ owed' = [owed EXCEPT ![t] = {}]
    /\ target' = [target EXCEPT ![t] = 0]

\* The fast path of flush_to, and the end of its wait.
FlushedByOther(t) ==
    /\ server = "up" /\ pc[t] = "wait"
    /\ flushed >= target[t]
    /\ Return(t)
    /\ UNCHANGED <<atomicVars, logVars, fsyncLock, writer, pend, page, pageVars,
                   server, crashes, exposed>>

\* The wait timed out: fsync ourselves.
FallBack(t) ==
    /\ server = "up" /\ pc[t] = "wait"
    /\ flushed < target[t]
    /\ pc' = [pc EXCEPT ![t] = "lock"]
    /\ UNCHANGED <<atomicVars, logVars, fsyncLock, writer, pend, target, page, pageVars,
                   server, crashes, historyVars>>

\* fsync_lock, and the second look at flushed_lsn: the leader may have covered us.
TakeFsyncLock(t) ==
    /\ server = "up" /\ pc[t] = "lock"
    /\ fsyncLock = Nobody
    /\ \/ /\ flushed >= target[t]
          /\ Return(t)
          /\ UNCHANGED fsyncLock
       \/ /\ flushed < target[t]
          /\ fsyncLock' = t
          /\ pc' = [pc EXCEPT ![t] = "sync"]
          /\ UNCHANGED <<target, owed, acked>>
    /\ UNCHANGED <<atomicVars, logVars, writer, pend, page, pageVars,
                   server, crashes, exposed>>

\* BufWriter::flush and sync_all, under the writer mutex.
Sync(t) ==
    /\ server = "up" /\ pc[t] = "sync"
    /\ writer = Nobody
    /\ writer' = t
    /\ spilled' = Halves(log)
    /\ synced' = Halves(log)
    /\ pc' = [pc EXCEPT ![t] = "publish"]
    /\ UNCHANGED <<atomicVars, log, torn, fsyncLock, pend, target, page, pageVars,
                   server, crashes, historyVars>>

NowDurable == next - 1

\* flushed_lsn is raised to the last LSN handed out, then both mutexes go.
Publish(t) ==
    /\ server = "up" /\ pc[t] = "publish"
    /\ flushed' = IF flushed < NowDurable THEN NowDurable ELSE flushed
    /\ exposed' = exposed \cup UNION {{r.lsn : r \in pend[u]} : u \in All}
    /\ writer' = Nobody
    /\ fsyncLock' = Nobody
    /\ Return(t)
    /\ UNCHANGED <<next, logVars, pend, page, pageVars, server, crashes>>

\* DiskManager::write_page, still under the page's latch.
PageWritten(t, p) ==
    /\ server = "up" /\ pc[t] = "write"
    /\ page[t] = {p}
    /\ diskLsn' = [diskLsn EXCEPT ![p] = pageLsn[p]]
    /\ latch' = [latch EXCEPT ![p] = Nobody]
    /\ page' = [page EXCEPT ![t] = {}]
    /\ pc' = [pc EXCEPT ![t] = "run"]
    /\ UNCHANGED <<atomicVars, logVars, fsyncLock, writer, pend, target, pageLsn,
                   server, crashes, historyVars>>

-----------------------------------------------------------------------------
(* Crash and restart *)

\* What is left of the file: k halves, at least those an fsync has covered.
Crash(k) ==
    /\ server \in {"up", "recovering"} /\ crashes < MaxCrashes
    /\ server' = "down" /\ crashes' = crashes + 1
    /\ log' = SubSeq(log, 1, k \div 2)
    /\ torn' = (k % 2 = 1)
    /\ spilled' = k
    /\ fsyncLock' = Nobody /\ writer' = Nobody
    /\ pc' = [t \in All |-> "run"]
    /\ pend' = [t \in All |-> {}]
    /\ target' = [t \in All |-> 0]
    /\ page' = [t \in All |-> {}]
    /\ latch' = [p \in Pages |-> Nobody]
    /\ owed' = [t \in All |-> {}]
    /\ acked' = acked \cap {log'[i].lsn : i \in DOMAIN log'}
    /\ exposed' = exposed \cap {log'[i].lsn : i \in DOMAIN log'}
    /\ UNCHANGED <<atomicVars, synced, pageLsn, diskLsn>>

\* The process dies: the operating system keeps what it was given.
Kill == Crash(spilled)

\* The machine stops: some of what was not synced is lost as well.
PowerLoss == \E k \in synced .. (spilled - 1) : Crash(k)

\* redo applies the records of page p above the image's page_lsn: the page ends
\* with the largest of these.
RedoLsns(p) ==
    {diskLsn[p]} \cup {log[i].lsn : i \in {j \in DOMAIN log : log[j].page = p}}

\* set_next_lsn(max_lsn + 1)
NextAfter(m) == m + 1

\* Instance::new on a readable log whose largest LSN is m (0: no records):
\* set_next_lsn, and redo to the page_lsns of f.
Restart(m, f) ==
    /\ server = "down" /\ ~torn
    /\ \A i \in DOMAIN log : log[i].lsn <= m
    /\ next' = NextAfter(m)
    /\ flushed' = m
    /\ exposed' = exposed \cup (Written \ Durable)
    /\ \A p \in Pages : f[p] \in RedoLsns(p) /\ \A l \in RedoLsns(p) : l <= f[p]
    /\ pageLsn' = f
    /\ server' = "recovering"
    /\ UNCHANGED <<logVars, fsyncLock, writer, pc, pend, target, page, latch, diskLsn,
                   crashes, owed, acked>>

\* undo: an Abort record for an unfinished transaction.  How many there are depends
\* on the transactions of the records, which are abstracted.
UndoAbort ==
    /\ server = "recovering" /\ log # <<>>
    /\ next <= MaxLsn
    /\ log' = Append(log, [lsn |-> next, page |-> NoPage])
    /\ spilled' \in {spilled} \cup Halves(log) .. (Halves(log) + 2)
    /\ next' = next + 1
    /\ UNCHANGED <<flushed, synced, torn, fsyncLock, writer, pc, pend, target, page,
                   pageVars, server, crashes, historyVars>>

\* The end of recovery: wal.flush, which has nothing to do unless undo has logged
\* something, and flush_all.
RecoverEnd ==
    /\ server = "recovering"
    /\ IF flushed < Target
       THEN synced' = Halves(log) /\ spilled' = Halves(log) /\ flushed' = NowDurable
       ELSE UNCHANGED <<synced, spilled, flushed>>
    /\ diskLsn' = pageLsn
    /\ server' = "up"
    /\ UNCHANGED <<next, log, torn, fsyncLock, writer, pc, pend, target, page,
                   latch, pageLsn, crashes, historyVars>>

\* read_records meets a record without a body and returns the error.
RestartFails ==
    /\ server = "down" /\ torn
    /\ server' = "failed"
    /\ UNCHANGED <<atomicVars, logVars, fsyncLock, writer, pc, pend, target, page,
                   pageVars, crashes, historyVars>>

StaysDown == server = "failed" /\ UNCHANGED vars

-----------------------------------------------------------------------------
Appending(t) ==
    \/ \E p \in Pages \cup {NoPage} : AppendLsn(t, p)
    \/ \E r \in pend[t] : AppendWrite(t, r)

Flushing(t) ==
    \/ Flush(t)
    \/ \E p \in Pages : WritePage(t, p) \/ PageWritten(t, p)
    \/ FlushedByOther(t) \/ FallBack(t) \/ TakeFsyncLock(t) \/ Sync(t) \/ Publish(t)

Next ==
    \/ \E t \in All : Appending(t) \/ Flushing(t)
    \/ Kill \/ PowerLoss
    \/ \E m \in {0} \cup Written, f \in [Pages -> UNION {RedoLsns(p) : p \in Pages}] :
          Restart(m, f)
    \/ UndoAbort \/ RecoverEnd
    \/ RestartFails \/ StaysDown

Spec == Init /\ [][Next]_vars

-----------------------------------------------------------------------------
(* Properties *)

TypeOK ==
    /\ next \in Nat \ {0} /\ flushed \in 0 .. (next - 1)
    /\ log \in Seq(Record)
    /\ synced \in 0 .. spilled /\ spilled \in 0 .. (Halves(log) + 1)
    /\ torn \in BOOLEAN
    /\ fsyncLock \in All \cup {Nobody} /\ writer \in All \cup {Nobody}
    /\ pc \in [All -> PCs]
    /\ pend \in [All -> SUBSET Record]
    /\ target \in [All -> Nat]
    /\ page \in [All -> SUBSET Pages]
    /\ latch \in [Pages -> All \cup {Nobody}]
    /\ pageLsn \in [Pages -> Nat] /\ diskLsn \in [Pages -> Nat]
    /\ server \in {"up", "down", "recovering", "failed"} /\ crashes \in Nat
    /\ owed \in [All -> SUBSET Nat] /\ acked \in SUBSET Nat /\ exposed \in SUBSET Nat

\* An LSN names one record of the log, across restarts: redo's comparison with
\* page_lsn and the prev_lsn chains depend on it.
LsnsUnique ==
    \A i, j \in DOMAIN log : log[i].lsn = log[j].lsn => i = j

\* A page's records are in the file in LSN order, so redo, which reads the file
\* front to back and skips what page_lsn covers, skips nothing it needs.
PageRecordsOrdered ==
    \A i, j \in DOMAIN log :
        i < j /\ log[i].page = log[j].page /\ log[i].page # NoPage => log[i].lsn < log[j].lsn

\* What a flush that returned Ok had to force is durable, but for records whose
\* LSN flushed_lsn covered while they were not in the synced file: those whose
\* append was between the counter and the write when some fsync was published,
\* and those an earlier process left unsynced.
DurableUnlessExposed == server = "up" => acked \subseteq Durable \cup exposed

\* The WAL rule, "log on disk before page on disk": a page image that reaches the
\* disk carries the LSN of a durable record, with the same exception.
LogBeforePage ==
    [][\A p \in Pages : diskLsn'[p] # diskLsn[p] => diskLsn'[p] \in Durable' \cup exposed']_vars
=============================================================================
