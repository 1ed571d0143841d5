------------------------------ MODULE BufferPool ------------------------------
(***************************************************************************)
(* One shard of the buffer pool, buffer_pool.rs: threads fetch, change and *)
(* release pages through pinned guards; a miss evicts a victim of the      *)
(* clock; VACUUM recycles pages; connections that end run flush_all.       *)
(* Shards share nothing but the disk and the log, and a page belongs to    *)
(* one shard for good.                                                     *)
(*                                                                         *)
(* The page table's RwLock covers lookup and pin, and the whole of a miss. *)
(* release and flush_all take neither it nor a pin: they touch a frame's   *)
(* atomics at any time.  The content of a page is the set of the changes   *)
(* applied to it, each named by its LSN.                                   *)
(***************************************************************************)
EXTENDS Integers, Sequences, FiniteSets, FiniteSetsExt

CONSTANTS
    Threads,
    Pages,
    NoPage,
    Capacity,    \* frames of the shard
    PinModulus,  \* pin counts are unsigned and wrap: 2^32
    MaxLsn,      \* no limit allows more changes than this
    Limits       \* bounds on changes, recycled pages, calls of flush_all and I/O errors;
                 \* a behaviour keeps to one of them

ASSUME PoolAssumption ==
    /\ NoPage \notin Pages
    /\ Capacity \in Nat \ {0}
    /\ PinModulus \in Nat \ {0}
    /\ IsFiniteSet(Threads) /\ Cardinality(Threads) < PinModulus    \* a thread has one guard
    /\ MaxLsn \in Nat
    /\ Limits \subseteq [changes : 0 .. MaxLsn, recycled : Nat, flushes : Nat, errors : Nat]

Frames == 0 .. (Capacity - 1)
NoFrame == Capacity

VARIABLES
    frame,      \* frame -> its image and atomics
    pageTable,  \* page -> its frame
    arm,        \* the clock's arm
    freeFrames, \* free_frames, a stack
    freeList,   \* free_list, a stack of recycled pages
    dpt,        \* dirty page table: page -> LSN (at most one)
    disk,       \* page -> image in the file
    durable,    \* the log is forced up to this LSN
    lsn,        \* last LSN handed out
    guard,      \* thread -> its PageGuard
    op,         \* thread -> the call it is in, and how far
    use,        \* page -> "none", "live" in a table or index, or "dead": unlinked
    limit, recycled, flushes, errors,   \* the bounds, and counters for them
    content,    \* page -> changes made to it since it was created (history)
    stale,      \* threads whose guard's frame was evicted under them (history)
    raced,      \* pages hit by a race of flush_all or of a stale guard (history)
    early       \* LSNs that flush_all wrote before the log (history)

poolVars == <<frame, pageTable, arm, freeFrames, freeList, dpt>>
fileVars == <<disk, durable, lsn>>
bounds   == <<limit, recycled, flushes, errors>>
history  == <<content, stale, raced, early>>
vars == <<poolVars, fileVars, guard, op, use, bounds, history>>

Blank(p) == [page |-> p, changes |-> {}]
PageLsn(image) == Max({0} \cup image.changes)

NoGuard == [page |-> NoPage, fid |-> NoFrame, mutated |-> FALSE]
Holding(t) == guard[t] # NoGuard
Users(f) == {t \in Threads : guard[t].fid = f}

\* Where a call is: in fetch_page, new_page, release or flush_all.
NoOp == [at |-> "none", why |-> "", page |-> NoPage, fid |-> NoFrame, left |-> 0, seen |-> {}]
At(t, place) == op[t].at = place
Goto(t, place) == op' = [op EXCEPT ![t].at = place]
Return(t) == op' = [op EXCEPT ![t] = NoOp]
Ready(t) == op[t] = NoOp /\ ~Holding(t)

\* Nobody holds the page table's write lock, which a miss keeps to its end.
TableFree == \A t \in Threads : op[t].at \notin {"pick", "sweep", "evict", "reset", "install"}

Init ==
    /\ frame = [f \in Frames |-> [image |-> Blank(NoPage), page |-> NoPage, pin |-> 0,
                                  dirty |-> FALSE, referenced |-> FALSE]]
    /\ pageTable = [p \in Pages |-> NoFrame]
    /\ arm = 0
    /\ freeFrames = [i \in 1 .. Capacity |-> Capacity - i]
    /\ freeList = <<>>
    /\ dpt = [p \in Pages |-> {}]
    /\ disk = [p \in Pages |-> Blank(NoPage)]
    /\ durable = 0 /\ lsn = 0
    /\ guard = [t \in Threads |-> NoGuard]
    /\ op = [t \in Threads |-> NoOp]
    /\ use = [p \in Pages |-> "none"]
    /\ limit \in Limits /\ recycled = 0 /\ flushes = 0 /\ errors = 0
    /\ content = [p \in Pages |-> {}]
    /\ stale = {} /\ raced = {} /\ early = {}

-----------------------------------------------------------------------------
(* fetch_page *)

\* Pin the frame and hand out a guard.
Pin(t, p, f) ==
    /\ frame' = [frame EXCEPT ![f].pin = (@ + 1) % PinModulus, ![f].referenced = TRUE]
    /\ guard' = [guard EXCEPT ![t] = [page |-> p, fid |-> f, mutated |-> FALSE]]
    /\ Return(t)

\* try_fetch_fast: lookup, pin and reference bit under the table's read lock.
\* Its check of the frame's page id cannot fail there.  Page ids may
\* come from a pointer read before the page was unlinked.
FetchFast(t, p) ==
    /\ Ready(t) /\ use[p] # "none"
    /\ TableFree
    /\ pageTable[p] # NoFrame
    /\ Pin(t, p, pageTable[p])
    /\ UNCHANGED <<pageTable, arm, freeFrames, freeList, dpt, fileVars, use, bounds, history>>

\* Not in the table; the read lock goes before the write lock is taken.
FetchMiss(t, p) ==
    /\ Ready(t) /\ use[p] # "none"
    /\ TableFree
    /\ pageTable[p] = NoFrame
    /\ op' = [op EXCEPT ![t] = [NoOp EXCEPT !.at = "miss", !.why = "fetch", !.page = p]]
    /\ UNCHANGED <<poolVars, fileVars, guard, use, bounds, history>>

\* "Did someone else just install it?"
Recheck(p) == pageTable[p]

\* fetch_slow up to pick_or_evict.
FetchSlow(t, p) ==
    /\ At(t, "miss") /\ op[t].why = "fetch" /\ op[t].page = p
    /\ TableFree
    /\ IF Recheck(p) # NoFrame
       THEN Pin(t, p, Recheck(p))
       ELSE Goto(t, "pick") /\ UNCHANGED <<frame, guard>>
    /\ UNCHANGED <<pageTable, arm, freeFrames, freeList, dpt, fileVars, use, bounds, history>>

-----------------------------------------------------------------------------
(* new_page and recycle_page *)

\* VACUUM has unlinked the page; guards on it may still be around.
Recycle(t, p) ==
    /\ Ready(t) /\ use[p] = "live"
    /\ recycled < limit.recycled
    /\ recycled' = recycled + 1
    /\ freeList' = Append(freeList, p)
    /\ use' = [use EXCEPT ![p] = "dead"]
    /\ UNCHANGED <<frame, pageTable, arm, freeFrames, dpt, fileVars, guard, op, limit,
                   flushes, errors, history>>

\* A recycled page; its id leaves the free list before the table is locked.
NewRecycled(t) ==
    /\ Ready(t) /\ freeList # <<>>
    /\ op' = [op EXCEPT ![t] = [NoOp EXCEPT !.at = "miss", !.why = "recycled",
                                            !.page = freeList[Len(freeList)]]]
    /\ freeList' = SubSeq(freeList, 1, Len(freeList) - 1)
    /\ UNCHANGED <<frame, pageTable, arm, freeFrames, dpt, fileVars, guard, use, bounds, history>>

\* DiskManager::allocate_page extends the file by a blank page.
NewFresh(t, p) ==
    /\ Ready(t) /\ freeList = <<>>
    /\ disk[p].page = NoPage
    /\ disk' = [disk EXCEPT ![p] = Blank(p)]
    /\ op' = [op EXCEPT ![t] = [NoOp EXCEPT !.at = "miss", !.why = "fresh", !.page = p]]
    /\ UNCHANGED <<poolVars, durable, lsn, guard, use, bounds, history>>

\* install_fresh; and install_recycled, which first evicts a copy of the page that
\* is still resident, pinned or not.
NewSlow(t, p) ==
    /\ At(t, "miss") /\ op[t].why # "fetch" /\ op[t].page = p
    /\ TableFree
    /\ IF op[t].why = "recycled" /\ pageTable[p] # NoFrame
       THEN op' = [op EXCEPT ![t].at = "evict", ![t].fid = pageTable[p]]
       ELSE Goto(t, "pick")
    /\ UNCHANGED <<poolVars, fileVars, guard, use, bounds, history>>

-----------------------------------------------------------------------------
(* pick_or_evict, and the installation of the page in its frame *)

Bad_Rounds == 1                     \* one round of the clock only
Rounds == 2

PickFrame(t) ==
    /\ At(t, "pick")
    /\ IF freeFrames # <<>>
       THEN /\ op' = [op EXCEPT ![t].at = "install", ![t].fid = freeFrames[Len(freeFrames)]]
            /\ freeFrames' = SubSeq(freeFrames, 1, Len(freeFrames) - 1)
       ELSE /\ op' = [op EXCEPT ![t].at = "sweep", ![t].left = Rounds * Capacity]
            /\ UNCHANGED freeFrames
    /\ UNCHANGED <<frame, pageTable, arm, freeList, dpt, fileVars, guard, use, bounds, history>>

InUse(f) == frame[f].pin > 0

NextArm == (arm + 1) % Capacity

\* One frame of ClockReplacer::victim's sweep.  "seen" are the frames met pinned.
Sweep(t) ==
    /\ At(t, "sweep") /\ op[t].left > 0
    /\ arm' = NextArm
    /\ \/ /\ InUse(arm)
          /\ op' = [op EXCEPT ![t].left = @ - 1, ![t].seen = @ \cup {arm}]
          /\ UNCHANGED frame
       \/ /\ ~InUse(arm) /\ frame[arm].referenced
          /\ frame' = [frame EXCEPT ![arm].referenced = FALSE]
          /\ op' = [op EXCEPT ![t].left = @ - 1]
       \/ /\ ~InUse(arm) /\ ~frame[arm].referenced
          /\ op' = [op EXCEPT ![t].at = "evict", ![t].fid = arm]
          /\ UNCHANGED frame
    /\ UNCHANGED <<pageTable, freeFrames, freeList, dpt, fileVars, guard, use, bounds, history>>

\* "buffer pool exhausted: all frames pinned"
Exhausted(t) ==
    /\ At(t, "sweep") /\ op[t].left = 0
    /\ Return(t)
    /\ UNCHANGED <<poolVars, fileVars, guard, use, bounds, history>>

MustWrite(f) == frame[f].page # NoPage /\ frame[f].dirty

Bad_FlushTo(image) == durable       \* no flush_to before the page
FlushTo(image) == Max({durable, PageLsn(image)})

\* The first half of evict: a dirty image is written, its log first.
EvictWrite(t) ==
    LET f == op[t].fid
    IN  /\ At(t, "evict")
        /\ IF MustWrite(f)
           THEN /\ durable' = FlushTo(frame[f].image)
                /\ disk' = [disk EXCEPT ![frame[f].page] = frame[f].image]
           ELSE UNCHANGED <<durable, disk>>
        /\ Goto(t, "reset")
        /\ UNCHANGED <<poolVars, lsn, guard, use, bounds, history>>

Undirtied(p) == [dpt EXCEPT ![p] = {}]

\* The rest of evict: unmap the page and clear the frame.  A victim is used at once;
\* install_recycled frees its page's frame and then picks one.
EvictReset(t) ==
    LET f == op[t].fid
        p == frame[f].page
    IN  /\ At(t, "reset")
        /\ IF p # NoPage
           THEN /\ pageTable' = [pageTable EXCEPT ![p] = NoFrame]
                /\ dpt' = Undirtied(p)
           ELSE UNCHANGED <<pageTable, dpt>>
        /\ frame' = [frame EXCEPT ![f] = [@ EXCEPT !.page = NoPage, !.dirty = FALSE,
                                                   !.pin = 0, !.referenced = FALSE]]
        /\ IF p = op[t].page
           THEN /\ freeFrames' = Append(freeFrames, f)
                /\ op' = [op EXCEPT ![t].at = "pick", ![t].fid = NoFrame]
           ELSE Goto(t, "install") /\ UNCHANGED freeFrames
        /\ stale' = stale \cup Users(f)
        /\ raced' = IF Users(f) = {} THEN raced ELSE raced \cup {p}
        /\ UNCHANGED <<arm, freeList, fileVars, guard, use, bounds, content, early>>

\* fetch_slow reads the page from the file; a new page is blank, and dirty.
Install(t) ==
    LET f == op[t].fid
        p == op[t].page
        new == op[t].why # "fetch"
    IN  /\ At(t, "install")
        /\ frame' = [frame EXCEPT ![f] = [image |-> IF new THEN Blank(p) ELSE disk[p],
                                          page |-> p, pin |-> 1, dirty |-> new,
                                          referenced |-> TRUE]]
        /\ pageTable' = [pageTable EXCEPT ![p] = f]
        /\ guard' = [guard EXCEPT ![t] = [page |-> p, fid |-> f, mutated |-> FALSE]]
        /\ Return(t)
        /\ use' = IF new THEN [use EXCEPT ![p] = "live"] ELSE use
        /\ content' = IF new THEN [content EXCEPT ![p] = {}] ELSE content
        /\ raced' = IF new THEN raced \ {p} ELSE raced
        /\ UNCHANGED <<arm, freeFrames, freeList, dpt, fileVars, bounds, stale, early>>

\* read_page, write_page or flush_to fails, and the call with it.
IoError(t) ==
    /\ errors < limit.errors
    /\ \/ At(t, "install") /\ op[t].why = "fetch"
       \/ At(t, "evict") /\ MustWrite(op[t].fid)
       \/ At(t, "write")
    /\ errors' = errors + 1
    /\ Return(t)
    /\ UNCHANGED <<poolVars, fileVars, guard, use, limit, recycled, flushes, history>>

-----------------------------------------------------------------------------
(* PageGuard: write, and drop, which calls release *)

\* A logged change under the page's write latch.
Write(t) ==
    LET g == guard[t]
    IN  /\ op[t] = NoOp /\ Holding(t)
        /\ lsn < limit.changes
        /\ lsn' = lsn + 1
        /\ guard' = [guard EXCEPT ![t].mutated = TRUE]
        /\ frame' = [frame EXCEPT ![g.fid].image.changes = @ \cup {lsn'}]
        /\ IF t \in stale
           THEN raced' = raced \cup {frame[g.fid].page} /\ UNCHANGED content
           ELSE content' = [content EXCEPT ![g.page] = @ \cup {lsn'}] /\ UNCHANGED raced
        /\ UNCHANGED <<pageTable, arm, freeFrames, freeList, dpt, disk, durable, op, use,
                       bounds, stale, early>>

Drop(t) ==
    /\ guard' = [guard EXCEPT ![t] = NoGuard]
    /\ stale' = stale \ {t}
    /\ Return(t)

Bad_Marked(fr) == fr                \* forgets the dirty bit
Marked(fr) == [fr EXCEPT !.dirty = TRUE]

\* release up to the swap of the dirty bit.
Release(t) ==
    LET g == guard[t]
    IN  /\ op[t] = NoOp /\ Holding(t)
        /\ \/ /\ frame[g.fid].pin = 0
              /\ Drop(t)
              /\ UNCHANGED frame
           \/ /\ frame[g.fid].pin # 0 /\ g.mutated
              /\ frame' = [frame EXCEPT ![g.fid] = Marked(@)]
              /\ Goto(t, IF frame[g.fid].dirty THEN "unpin" ELSE "dpt")
              /\ UNCHANGED <<guard, stale>>
           \/ /\ frame[g.fid].pin # 0 /\ ~g.mutated
              /\ Goto(t, "unpin")
              /\ UNCHANGED <<frame, guard, stale>>
        /\ UNCHANGED <<pageTable, arm, freeFrames, freeList, dpt, fileVars, use, bounds,
                       content, raced, early>>

\* The page was clean: it enters the dirty page table with its present LSN.
NoteDirty(t) ==
    LET g == guard[t]
    IN  /\ At(t, "dpt")
        /\ dpt' = IF dpt[g.page] = {}
                  THEN [dpt EXCEPT ![g.page] = {PageLsn(frame[g.fid].image)}] ELSE dpt
        /\ Goto(t, "unpin")
        /\ raced' = IF t \in stale THEN raced \cup {g.page} ELSE raced
        /\ UNCHANGED <<frame, pageTable, arm, freeFrames, freeList, fileVars, guard, use,
                       bounds, content, stale, early>>

\* fetch_sub, which wraps if an eviction has zeroed the count meanwhile.
Unpin(t) ==
    /\ At(t, "unpin")
    /\ frame' = [frame EXCEPT ![guard[t].fid].pin = (@ - 1) % PinModulus]
    /\ raced' = IF t \in stale THEN raced \cup {frame[guard[t].fid].page} ELSE raced
    /\ Drop(t)
    /\ UNCHANGED <<pageTable, arm, freeFrames, freeList, dpt, fileVars, use, bounds,
                   content, early>>

-----------------------------------------------------------------------------
(* flush_all *)

\* wal.flush, then the frames in order.
FlushAll(t) ==
    /\ Ready(t)
    /\ flushes < limit.flushes
    /\ flushes' = flushes + 1
    /\ durable' = lsn
    /\ op' = [op EXCEPT ![t] = [NoOp EXCEPT !.at = "scan", !.fid = 0]]
    /\ UNCHANGED <<poolVars, disk, lsn, guard, use, limit, recycled, errors, history>>

\* The frame's dirty bit and page id, without a lock or a pin.
ScanFrame(t) ==
    LET f == op[t].fid
    IN  /\ At(t, "scan") /\ f \in Frames
        /\ IF MustWrite(f)
           THEN op' = [op EXCEPT ![t].at = "write", ![t].page = frame[f].page]
           ELSE op' = [op EXCEPT ![t].fid = f + 1]
        /\ UNCHANGED <<poolVars, fileVars, guard, use, bounds, history>>

ScanEnd(t) ==
    /\ At(t, "scan") /\ op[t].fid = Capacity
    /\ Return(t)
    /\ UNCHANGED <<poolVars, fileVars, guard, use, bounds, history>>

\* Whatever the frame holds now is written at the page id read before.
FlushWrite(t) ==
    LET image == frame[op[t].fid].image
        p     == op[t].page
    IN  /\ At(t, "write")
        /\ disk' = [disk EXCEPT ![p] = image]
        /\ early' = early \cup {l \in image.changes : l > durable}
        /\ raced' = IF image = [page |-> p, changes |-> content[p]] THEN raced
                    ELSE raced \cup {p}
        /\ Goto(t, "clean")
        /\ UNCHANGED <<poolVars, durable, lsn, guard, use, bounds, content, stale>>

\* A guard that has changed the frame's page and will still mark it dirty.
WillMark(f) == \E t \in Users(f) \ stale : guard[t].mutated /\ op[t] = NoOp

\* The latch is gone; the dirty bit of whatever the frame holds now is cleared.
FlushClean(t) ==
    LET f == op[t].fid
        p == frame[f].page
    IN  /\ At(t, "clean")
        /\ frame' = [frame EXCEPT ![f].dirty = FALSE]
        /\ raced' = IF p # NoPage /\ frame[f].image # disk[p] /\ ~WillMark(f)
                    THEN raced \cup {p} ELSE raced
        /\ Goto(t, "undpt")
        /\ UNCHANGED <<pageTable, arm, freeFrames, freeList, dpt, fileVars, guard, use,
                       bounds, content, stale, early>>

FlushUndirty(t) ==
    /\ At(t, "undpt")
    /\ dpt' = [dpt EXCEPT ![op[t].page] = {}]
    /\ op' = [op EXCEPT ![t].at = "scan", ![t].fid = @ + 1, ![t].page = NoPage]
    /\ UNCHANGED <<frame, pageTable, arm, freeFrames, freeList, fileVars, guard, use,
                   bounds, history>>

-----------------------------------------------------------------------------
Fetching(t) == \E p \in Pages : FetchFast(t, p) \/ FetchMiss(t, p) \/ FetchSlow(t, p)
Creating(t) == \/ \E p \in Pages : Recycle(t, p) \/ NewFresh(t, p) \/ NewSlow(t, p)
               \/ NewRecycled(t)
Replacing(t) == PickFrame(t) \/ Sweep(t) \/ Exhausted(t) \/ EvictWrite(t) \/ EvictReset(t)
                \/ Install(t) \/ IoError(t)
Guarding(t) == Write(t) \/ Release(t) \/ NoteDirty(t) \/ Unpin(t)
FlushingAll(t) == FlushAll(t) \/ ScanFrame(t) \/ ScanEnd(t) \/ FlushWrite(t) \/ FlushClean(t)
                  \/ FlushUndirty(t)

Next == \E t \in Threads :
            Fetching(t) \/ Creating(t) \/ Replacing(t) \/ Guarding(t) \/ FlushingAll(t)

Spec == Init /\ [][Next]_vars

-----------------------------------------------------------------------------
(* Properties *)

\* Who holds a guard reads the page's latest content, whatever was evicted, read
\* back, flushed or recycled meanwhile, but for the pages hit by flush_all's races
\* (it writes and cleans a frame it has not pinned) or by a stale guard.
ReadsLatest ==
    \A t \in Threads :
        LET g == guard[t]
        IN  Holding(t) /\ t \notin stale /\ g.page \notin raced =>
                /\ frame[g.fid].page = g.page
                /\ frame[g.fid].image = [page |-> g.page, changes |-> content[g.page]]

\* A call fails with "all frames pinned" only if its sweep met every frame pinned.
ExhaustedMeansPinned ==
    \A t \in Threads : At(t, "sweep") /\ op[t].left = 0 => op[t].seen = Frames

\* The WAL rule: no image reaches the file before its log, but for what flush_all
\* writes of changes made after its wal.flush.
LogFirst == \A p \in Pages : disk[p].changes \subseteq 1 .. durable \cup early
=============================================================================
