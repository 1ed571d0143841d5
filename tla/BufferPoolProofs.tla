-------------------------- MODULE BufferPoolProofs --------------------------
(***************************************************************************)
(* Proofs about BufferPool, for any threads, pages, frames and bounds.     *)
(* LogFirst and ExhaustedMeansPinned have short invariants of their own    *)
(* (Logged, Swept).  That a guard reads the latest content rests on what   *)
(* the table's lock protects (Exclusive, Mapped, Mine), on pages being     *)
(* created by one thread each (Created), on the pin counts (Guarded) and   *)
(* on which of the copies of a page is its latest (Current, OnDisk,        *)
(* Victim).  An operator XEffect says what step X does to single calls,    *)
(* frames and guards; every proof below uses the effects only.             *)
(***************************************************************************)
EXTENDS BufferPool, SequenceTheorems, FiniteSetTheorems, TLAPS

Locking == {"pick", "sweep", "evict", "reset", "install"}
Places == Locking \cup {"none", "miss", "dpt", "unpin", "scan", "write", "clean", "undpt"}

Image == [page : Pages \cup {NoPage}, changes : SUBSET (1 .. MaxLsn)]
Frame == [image : Image, page : Pages \cup {NoPage}, pin : Nat, dirty : BOOLEAN,
          referenced : BOOLEAN]
Guard == [page : Pages \cup {NoPage}, fid : 0 .. Capacity, mutated : BOOLEAN]
Call == [at : Places, why : {"", "fetch", "recycled", "fresh"}, page : Pages \cup {NoPage},
         fid : 0 .. Capacity, left : Nat, seen : SUBSET Frames]

TypeOK ==
    /\ frame \in [Frames -> Frame]
    /\ pageTable \in [Pages -> 0 .. Capacity]
    /\ arm \in Frames
    /\ freeFrames \in Seq(Frames) /\ freeList \in Seq(Pages)
    /\ dpt \in [Pages -> SUBSET Int]
    /\ disk \in [Pages -> Image]
    /\ durable \in 0 .. MaxLsn /\ lsn \in 0 .. MaxLsn
    /\ guard \in [Threads -> Guard]
    /\ op \in [Threads -> Call]
    /\ use \in [Pages -> {"none", "live", "dead"}]
    /\ limit \in Limits /\ recycled \in Nat /\ flushes \in Nat /\ errors \in Nat
    /\ content \in [Pages -> SUBSET (1 .. MaxLsn)]
    /\ stale \subseteq Threads /\ raced \subseteq Pages \cup {NoPage} /\ early \subseteq 1 .. MaxLsn

\* What a thread has where it is: a page to bring in, a frame to do it with, or a guard.
PlacedAt(t) ==
    /\ op[t].at = "none" => op[t] = NoOp
    /\ op[t].at \in Locking \cup {"miss", "write", "clean", "undpt"} => op[t].page \in Pages
    /\ op[t].at \in {"evict", "reset", "install", "write", "clean", "undpt"} => op[t].fid \in Frames
    /\ Holding(t) => guard[t].page \in Pages /\ guard[t].fid \in Frames
    /\ Holding(t) => op[t].at \in {"none", "dpt", "unpin"}
    /\ op[t].at \in {"dpt", "unpin"} => Holding(t)
    /\ t \in stale => Holding(t)

Placed == \A t \in Threads : PlacedAt(t)

\* The table's write lock has one holder.
Exclusive == \A t, u \in Threads : op[t].at \in Locking /\ op[u].at \in Locking => t = u

\* No image is ahead of the log's end.
Logged ==
    /\ durable <= lsn
    /\ \A f \in Frames : frame[f].image.changes \subseteq 1 .. lsn
    /\ \A p \in Pages : disk[p].changes \subseteq 1 .. lsn

\* How many frames the arm has passed since it passed f.
Behind(f) == IF f < arm THEN arm - 1 - f ELSE arm - 1 - f + Capacity

\* A frame the sweep has passed was pinned or is unreferenced since; one passed twice was pinned.
Swept ==
    \A t \in Threads : At(t, "sweep") => \A f \in Frames :
        /\ Behind(f) < 2 * Capacity - op[t].left => f \in op[t].seen \/ ~frame[f].referenced
        /\ Behind(f) < Capacity - op[t].left => f \in op[t].seen

\* The page table and the frames agree, and free frames are empty.
Mapped ==
    /\ \A p \in Pages : pageTable[p] # NoFrame => frame[pageTable[p]].page = p
    /\ \A f \in Frames : frame[f].page # NoPage => pageTable[frame[f].page] = f
    /\ \A i \in DOMAIN freeFrames : frame[freeFrames[i]].page = NoPage
    /\ \A i, j \in DOMAIN freeFrames : freeFrames[i] = freeFrames[j] => i = j

\* What the holder of the lock may count on.
MineAt(t) ==
    /\ op[t].at \in {"pick", "sweep", "install"} => pageTable[op[t].page] = NoFrame
    /\ op[t].at \in {"evict", "reset"} =>
          \/ pageTable[op[t].page] = NoFrame
          \/ op[t].why = "recycled" /\ pageTable[op[t].page] = op[t].fid
    /\ op[t].at = "sweep" => freeFrames = <<>>
    /\ op[t].at \in {"evict", "reset"} /\ pageTable[op[t].page] = NoFrame => freeFrames = <<>>
    /\ op[t].at = "install" => /\ frame[op[t].fid].page = NoPage
                               /\ \A i \in DOMAIN freeFrames : freeFrames[i] # op[t].fid

Mine == \A t \in Threads : MineAt(t)

Bringing(t) == op[t].at \in Locking \cup {"miss"}

\* The free list holds unlinked pages, each once.
Listed ==
    /\ \A i \in DOMAIN freeList : use[freeList[i]] = "dead"
    /\ \A i, j \in DOMAIN freeList : freeList[i] = freeList[j] => i = j

\* What a call that brings in a page knows of it.
BringingAt(t) ==
    Bringing(t) =>
        /\ op[t].why = "fetch" => use[op[t].page] # "none"
        /\ op[t].why = "recycled" =>
              use[op[t].page] = "dead" /\ \A i \in DOMAIN freeList : freeList[i] # op[t].page
        /\ op[t].why = "fresh" => use[op[t].page] = "none" /\ disk[op[t].page].page # NoPage
        /\ op[t].why # ""

\* A page is created, or created again, by one thread.
OneCreator ==
    \A t, u \in Threads : Bringing(t) /\ Bringing(u) /\ op[t].page = op[u].page
                          /\ op[t].why # "fetch" /\ op[u].why # "fetch" => t = u

\* A page in a frame is in use, and a page in use is in the file.
Known ==
    \A p \in Pages : /\ pageTable[p] # NoFrame => use[p] # "none"
                     /\ use[p] # "none" => disk[p].page # NoPage

\* The image of a page that is in the pool, or that flush_all is about to write, is one.
Imaged ==
    /\ \A f \in Frames : frame[f].page # NoPage => frame[f].image.page # NoPage
    /\ \A t \in Threads : op[t].at = "write" => frame[op[t].fid].image.page # NoPage

Created == Listed /\ (\A t \in Threads : BringingAt(t)) /\ OneCreator /\ Known /\ Imaged

Latest(p) == [page |-> p, changes |-> content[p]]
Sound(f) == frame[f].page # NoPage /\ frame[f].page \notin raced
Pins(f) == Users(f) \ stale

\* A guard that is not stale is a guard of the frame's page; the others are counted no more.
Guarded ==
    /\ \A t \in Threads : Holding(t) /\ t \notin stale => frame[guard[t].fid].page = guard[t].page
    /\ \A f \in Frames : Sound(f) => frame[f].pin = Cardinality(Pins(f))

\* A frame holds the latest content of its page; a clean one has it from the file, or will be
\* marked dirty.
Current ==
    \A f \in Frames : Sound(f) =>
        /\ frame[f].image = Latest(frame[f].page)
        /\ ~frame[f].dirty => disk[frame[f].page] = Latest(frame[f].page) \/ WillMark(f)

\* install_recycled has unmapped the page and has a frame for it: nothing can stop it.
Replaced(p) ==
    \E t \in Threads : /\ op[t].page = p /\ op[t].why = "recycled"
                       /\ At(t, "install") \/ (At(t, "pick") /\ freeFrames # <<>>)

\* A page in no frame has its latest content in the file.
OnDisk ==
    \A p \in Pages : pageTable[p] = NoFrame /\ use[p] # "none" /\ p \notin raced
                     => disk[p] = Latest(p) \/ Replaced(p)

\* A victim has no guards, and once it is written the file has its content.
VictimAt(t) ==
    LET f == op[t].fid
    IN  op[t].at \in {"evict", "reset"} /\ pageTable[op[t].page] = NoFrame /\ Sound(f) =>
            /\ Pins(f) = {}
            /\ op[t].at = "reset" => disk[frame[f].page] = Latest(frame[f].page)

Victim == \A t \in Threads : VictimAt(t)

Safety == TypeOK /\ Placed /\ Exclusive
Owned == Safety /\ Mapped /\ Mine /\ Created
IInv == Owned /\ Guarded /\ Current /\ OnDisk /\ Victim
\* Only the call of t, only frame f, only the guard of t may have changed.
Stepped(t) == op' \in [Threads -> Call] /\ \A u \in Threads \ {t} : op'[u] = op[u]
Framed(f) == frame' \in [Frames -> Frame] /\ \A g \in Frames \ {f} : frame'[g] = frame[g]
Handed(t) == guard' \in [Threads -> Guard] /\ \A u \in Threads \ {t} : guard'[u] = guard[u]

-----------------------------------------------------------------------------
(* What the steps do to single calls, frames and guards *)

\* A finite set of integers has a greatest element, which is its Max.
LEMMA MaxFacts ==
    ASSUME NEW S \in SUBSET Int, S # {}, IsFiniteSet(S)
    PROVE  Max(S) \in S /\ \A y \in S : y <= Max(S)
<1> DEFINE Above(x) == {y \in S : y > x}
           Aboves == {Above(x) : x \in S}
           R == StrictSubsetOrdering(S)
<1>1. IsWellFoundedOn(R, SUBSET S)
  BY FS_StrictSubsetOrderingWellFounded, FS_FiniteSubsetsOfFinite
<1>2. Aboves \subseteq SUBSET S /\ Aboves # {}
  OBVIOUS
<1>3. \E a \in Aboves : \A b \in Aboves : ~(<<b, a>> \in R)
  <2> HIDE DEF Aboves, R
  <2> QED  BY <1>1, <1>2, WFMin
<1>4. PICK x \in S : \A z \in S : ~(<<Above(z), Above(x)>> \in R)
  BY <1>3
<1>5. \A y \in S : y <= x
  <2> SUFFICES ASSUME NEW y \in S, y > x PROVE FALSE
    OBVIOUS
  <2>1. Above(y) \subseteq Above(x)
    <3> SUFFICES ASSUME NEW z \in S, z > y PROVE z > x
      OBVIOUS
    <3>1. x \in Int /\ y \in Int /\ z \in Int
      OBVIOUS
    <3> QED  BY <3>1
  <2>2. y \in Above(x) /\ y \notin Above(y)
    OBVIOUS
  <2>3. Above(y) # Above(x)
    BY <2>2
  <2>4. <<Above(y), Above(x)>> \in (SUBSET S) \X (SUBSET S)
    OBVIOUS
  <2>5. <<Above(y), Above(x)>> \in R
    <3> HIDE DEF Above
    <3> QED  BY <2>1, <2>3, <2>4 DEF StrictSubsetOrdering
  <2> QED  BY <1>4, <2>5
<1> QED  BY <1>5 DEF Max

\* A call returns.
LEMMA OpReturn ==
    ASSUME TypeOK, NEW t \in Threads, Return(t)
    PROVE  Stepped(t) /\ op'[t] = NoOp
<1>1. NoOp \in Call
  BY PoolAssumption DEF NoOp, Call, Places, Locking, NoFrame, Frames
<1> HIDE DEF NoOp
<1> QED  BY <1>1 DEF Return, TypeOK, Stepped

\* A call goes on.
LEMMA OpGoto ==
    ASSUME TypeOK, NEW t \in Threads, NEW place \in Places, Goto(t, place)
    PROVE  /\ Stepped(t) /\ op'[t].at = place
           /\ op'[t].why = op[t].why /\ op'[t].page = op[t].page /\ op'[t].fid = op[t].fid
           /\ op'[t].left = op[t].left /\ op'[t].seen = op[t].seen
  BY DEF Goto, TypeOK, Stepped, Call

\* A call goes on with a frame.
LEMMA OpAtFid ==
    ASSUME TypeOK, NEW t \in Threads, NEW place \in Places, NEW f \in 0 .. Capacity,
           op' = [op EXCEPT ![t].at = place, ![t].fid = f]
    PROVE  /\ Stepped(t) /\ op'[t].at = place
           /\ op'[t].why = op[t].why /\ op'[t].page = op[t].page /\ op'[t].fid = f
           /\ op'[t].left = op[t].left /\ op'[t].seen = op[t].seen
  BY DEF TypeOK, Stepped, Call

\* A call goes on with a page.
LEMMA OpAtPage ==
    ASSUME TypeOK, NEW t \in Threads, NEW place \in Places, NEW p \in Pages,
           op' = [op EXCEPT ![t].at = place, ![t].page = p]
    PROVE  /\ Stepped(t) /\ op'[t].at = place
           /\ op'[t].why = op[t].why /\ op'[t].page = p /\ op'[t].fid = op[t].fid
           /\ op'[t].left = op[t].left /\ op'[t].seen = op[t].seen
  BY DEF TypeOK, Stepped, Call

\* A call begins.
LEMMA OpNew ==
    ASSUME TypeOK, NEW t \in Threads, NEW w \in {"fetch", "recycled", "fresh"}, NEW p \in Pages,
           op' = [op EXCEPT ![t] = [NoOp EXCEPT !.at = "miss", !.why = w, !.page = p]]
    PROVE  /\ Stepped(t) /\ op'[t].at = "miss" /\ op'[t].why = w /\ op'[t].page = p
           /\ op'[t].seen = {}
<1> DEFINE c == [NoOp EXCEPT !.at = "miss", !.why = w, !.page = p]
<1>1. NoOp \in Call /\ NoOp.seen = {}
  BY PoolAssumption DEF NoOp, Call, Places, Locking, NoFrame, Frames
<1> HIDE DEF NoOp
<1>2. c \in Call
  BY <1>1, PoolAssumption DEF Call, Places, Locking
<1>3. c.at = "miss" /\ c.why = w /\ c.page = p /\ c.seen = {}
  BY <1>1 DEF Call
<1>4. op' = [op EXCEPT ![t] = c]
  OBVIOUS
<1> HIDE DEF c
<1> QED  BY <1>2, <1>3, <1>4 DEF TypeOK, Stepped

\* A frame is pinned.
LEMMA PinFrame ==
    ASSUME TypeOK, NEW f \in Frames,
           frame' = [frame EXCEPT ![f].pin = (@ + 1) % PinModulus, ![f].referenced = TRUE]
    PROVE  /\ Framed(f) /\ frame'[f].pin = (frame[f].pin + 1) % PinModulus
           /\ frame'[f].image = frame[f].image /\ frame'[f].page = frame[f].page
           /\ frame'[f].dirty = frame[f].dirty /\ frame'[f].referenced
<1> DEFINE n == (frame[f].pin + 1) % PinModulus
<1>1. n \in Nat
  BY PoolAssumption DEF TypeOK, Frame
<1>2. frame' = [frame EXCEPT ![f].pin = n, ![f].referenced = TRUE]
  BY DEF TypeOK
<1> HIDE DEF n
<1> DEFINE r == [frame[f] EXCEPT !.pin = n, !.referenced = TRUE]
<1>3. frame[f] \in Frame
  BY DEF TypeOK
<1>4. /\ r \in Frame /\ r.pin = n /\ r.image = frame[f].image /\ r.page = frame[f].page
      /\ r.dirty = frame[f].dirty /\ r.referenced
  BY <1>1, <1>3 DEF Frame
<1>5. frame' = [frame EXCEPT ![f] = r]
  BY <1>2 DEF TypeOK
<1> HIDE DEF r
<1>6. Framed(f) /\ frame'[f] = r
  BY <1>4, <1>5 DEF TypeOK, Framed
<1> QED  BY <1>4, <1>6 DEF n

\* A frame is cleared.
LEMMA ResetFrame ==
    ASSUME TypeOK, NEW f \in Frames,
           frame' = [frame EXCEPT ![f] = [@ EXCEPT !.page = NoPage, !.dirty = FALSE,
                                                   !.pin = 0, !.referenced = FALSE]]
    PROVE  /\ Framed(f) /\ frame'[f].pin = 0
           /\ frame'[f].image = frame[f].image /\ frame'[f].page = NoPage
           /\ ~frame'[f].dirty /\ ~frame'[f].referenced
  BY DEF TypeOK, Framed, Frame

\* The image in a frame gets a change.
LEMMA ChangeFrame ==
    ASSUME TypeOK, NEW f \in Frames, NEW n \in 1 .. MaxLsn, 
           frame' = [frame EXCEPT ![f].image.changes = @ \cup {n}]
    PROVE  /\ Framed(f) /\ frame'[f].pin = frame[f].pin
           /\ frame'[f].image.page = frame[f].image.page
           /\ frame'[f].image.changes = frame[f].image.changes \cup {n}
           /\ frame'[f].page = frame[f].page
           /\ frame'[f].dirty = frame[f].dirty /\ frame'[f].referenced = frame[f].referenced
<1> DEFINE i == [frame[f].image EXCEPT !.changes = @ \cup {n}]
<1>1. frame[f].image \in Image
  BY DEF TypeOK, Frame
<1>2. i \in Image /\ i.page = frame[f].image.page /\ i.changes = frame[f].image.changes \cup {n}
  BY <1>1 DEF Image
<1>3. frame' = [frame EXCEPT ![f].image = i]
  BY DEF TypeOK
<1> HIDE DEF i
<1> DEFINE r == [frame[f] EXCEPT !.image = i]
<1>4. frame[f] \in Frame
  BY DEF TypeOK
<1>5. /\ r \in Frame /\ r.image = i /\ r.pin = frame[f].pin /\ r.page = frame[f].page
      /\ r.dirty = frame[f].dirty /\ r.referenced = frame[f].referenced
  BY <1>2, <1>4 DEF Frame
<1>6. frame' = [frame EXCEPT ![f] = r]
  BY <1>3 DEF TypeOK
<1> HIDE DEF r
<1>7. Framed(f) /\ frame'[f] = r
  BY <1>5, <1>6 DEF TypeOK, Framed
<1> QED  BY <1>2, <1>5, <1>7

\* A call takes on a value.
LEMMA OpValue ==
    ASSUME TypeOK, NEW t \in Threads, NEW c \in Call, op' = [op EXCEPT ![t] = c]
    PROVE  Stepped(t) /\ op'[t] = c
  BY DEF TypeOK, Stepped

\* A frame takes on a value.
LEMMA FrameValue ==
    ASSUME TypeOK, NEW f \in Frames, NEW r \in Frame, frame' = [frame EXCEPT ![f] = r]
    PROVE  Framed(f) /\ frame'[f] = r
  BY DEF TypeOK, Framed

\* A thread gets a guard, or drops it.
LEMMA GuardValue ==
    ASSUME TypeOK, NEW t \in Threads, NEW p \in Pages, NEW f \in Frames,
           guard' = [guard EXCEPT ![t] = [page |-> p, fid |-> f, mutated |-> FALSE]]
    PROVE  Handed(t) /\ guard'[t] = [page |-> p, fid |-> f, mutated |-> FALSE]
<1> DEFINE g == [page |-> p, fid |-> f, mutated |-> FALSE]
<1>1. g \in Guard
  BY PoolAssumption DEF Guard, Frames
<1>2. guard' = [guard EXCEPT ![t] = g]
  OBVIOUS
<1> HIDE DEF g
<1>3. Handed(t) /\ guard'[t] = g
  BY <1>1, <1>2 DEF TypeOK, Handed
<1> QED  BY <1>3 DEF g

\* A dropped guard is gone, and its thread in no call.
LEMMA GuardDropped ==
    ASSUME TypeOK, NEW t \in Threads, Drop(t)
    PROVE  /\ Handed(t) /\ guard'[t] = NoGuard /\ Stepped(t) /\ op'[t] = NoOp
           /\ stale' = stale \ {t}
<1>1. NoGuard \in Guard
  BY PoolAssumption DEF NoGuard, Guard, NoFrame
<1>2. Handed(t) /\ guard'[t] = NoGuard
  <2> HIDE DEF NoGuard
  <2> QED  BY <1>1 DEF Drop, TypeOK, Handed
<1> QED  BY <1>2, OpReturn DEF Drop

\* The calls of a flush_all.
LEMMA OpScan ==
    ASSUME TypeOK, NEW t \in Threads,
           op' = [op EXCEPT ![t] = [NoOp EXCEPT !.at = "scan", !.fid = 0]]
    PROVE  Stepped(t) /\ op'[t].at = "scan" /\ op'[t].fid = 0
<1> DEFINE c == [NoOp EXCEPT !.at = "scan", !.fid = 0]
<1>1. NoOp \in Call
  BY PoolAssumption DEF NoOp, Call, Places, Locking, NoFrame, Frames
<1> HIDE DEF NoOp
<1>0. 0 \in 0 .. Capacity /\ "scan" \in Places
  BY PoolAssumption DEF Places
<1>2. c \in Call /\ c.at = "scan" /\ c.fid = 0
  BY <1>0, <1>1 DEF Call
<1>3. op' = [op EXCEPT ![t] = c]
  OBVIOUS
<1> HIDE DEF c
<1> QED  BY <1>2, <1>3, OpValue

\* The next frame of a flush_all.
LEMMA OpNextFrame ==
    ASSUME TypeOK, NEW t \in Threads, op[t].fid \in Frames, op' = [op EXCEPT ![t].fid = op[t].fid + 1]
    PROVE  /\ Stepped(t) /\ op'[t].at = op[t].at /\ op'[t].why = op[t].why
           /\ op'[t].page = op[t].page /\ op'[t].fid = op[t].fid + 1
<1> DEFINE n == op[t].fid + 1
<1>1. n \in 0 .. Capacity
  BY PoolAssumption DEF Frames
<1>2. op' = [op EXCEPT ![t].fid = n]
  OBVIOUS
<1> HIDE DEF n
<1> DEFINE c == [op[t] EXCEPT !.fid = n]
<1>3. op[t] \in Call
  BY DEF TypeOK
<1>4. c \in Call /\ c.at = op[t].at /\ c.why = op[t].why /\ c.page = op[t].page /\ c.fid = n
  BY <1>1, <1>3 DEF Call
<1>5. op' = [op EXCEPT ![t] = c]
  BY <1>2 DEF TypeOK
<1> HIDE DEF c
<1>6. Stepped(t) /\ op'[t] = c
  BY <1>4, <1>5, OpValue
<1> QED  BY <1>4, <1>6 DEF n

\* A call of flush_all goes back to its scan.
LEMMA OpBackToScan ==
    ASSUME TypeOK, NEW t \in Threads, op[t].fid \in Frames,
           op' = [op EXCEPT ![t].at = "scan", ![t].fid = @ + 1, ![t].page = NoPage]
    PROVE  Stepped(t) /\ op'[t].at = "scan" /\ op'[t].why = op[t].why /\ op'[t].fid = op[t].fid + 1
<1> DEFINE n == op[t].fid + 1
<1>1. n \in 0 .. Capacity
  BY PoolAssumption DEF Frames
<1>2. op' = [op EXCEPT ![t].at = "scan", ![t].fid = n, ![t].page = NoPage]
  BY DEF TypeOK, Call
<1> HIDE DEF n
<1> DEFINE c == [op[t] EXCEPT !.at = "scan", !.fid = n, !.page = NoPage]
<1>3. op[t] \in Call
  BY DEF TypeOK
<1>4. c \in Call /\ c.at = "scan" /\ c.why = op[t].why /\ c.fid = n
  BY <1>1, <1>3 DEF Call, Places, Locking
<1>5. op' = [op EXCEPT ![t] = c]
  BY <1>2 DEF TypeOK
<1> HIDE DEF c
<1>6. Stepped(t) /\ op'[t] = c
  BY <1>4, <1>5, OpValue
<1> QED  BY <1>4, <1>6 DEF n

\* The sweep begins.
LEMMA OpSweep ==
    ASSUME TypeOK, NEW t \in Threads, op' = [op EXCEPT ![t].at = "sweep", ![t].left = 2 * Capacity]
    PROVE  /\ Stepped(t) /\ op'[t].at = "sweep" /\ op'[t].why = op[t].why /\ op'[t].page = op[t].page
           /\ op'[t].left = 2 * Capacity
<1> DEFINE n == 2 * Capacity
<1>1. n \in Nat
  BY PoolAssumption
<1>2. op' = [op EXCEPT ![t].at = "sweep", ![t].left = n]
  OBVIOUS
<1> HIDE DEF n
<1> DEFINE c == [op[t] EXCEPT !.at = "sweep", !.left = n]
<1>3. op[t] \in Call
  BY DEF TypeOK
<1>4. c \in Call /\ c.at = "sweep" /\ c.why = op[t].why /\ c.page = op[t].page /\ c.left = n
  BY <1>1, <1>3 DEF Call, Places, Locking
<1>5. op' = [op EXCEPT ![t] = c]
  BY <1>2 DEF TypeOK
<1> HIDE DEF c
<1>6. Stepped(t) /\ op'[t] = c
  BY <1>4, <1>5, OpValue
<1> QED  BY <1>4, <1>6 DEF n

\* The sweep goes on.
LEMMA OpSwept ==
    ASSUME TypeOK, NEW t \in Threads, op[t].left > 0,
           \/ op' = [op EXCEPT ![t].left = @ - 1, ![t].seen = @ \cup {arm}]
           \/ op' = [op EXCEPT ![t].left = @ - 1]
    PROVE  /\ Stepped(t) /\ op'[t].at = op[t].at /\ op'[t].why = op[t].why
           /\ op'[t].page = op[t].page /\ op'[t].left = op[t].left - 1
           /\ \/ op'[t].seen = op[t].seen \cup {arm}
              \/ op'[t].seen = op[t].seen /\ op' = [op EXCEPT ![t].left = @ - 1]
<1> DEFINE n == op[t].left - 1
           s == op[t].seen \cup {arm}
<1>0. op[t] \in Call
  BY DEF TypeOK
<1>a. op[t].left \in Nat /\ op[t].seen \subseteq Frames /\ arm \in Frames
  BY <1>0 DEF TypeOK, Call
<1>1. n \in Nat /\ s \subseteq Frames
  BY <1>a
<1>2. CASE op' = [op EXCEPT ![t].left = @ - 1, ![t].seen = @ \cup {arm}]
  <2> DEFINE c == [op[t] EXCEPT !.left = n, !.seen = s]
  <2>1. op' = [op EXCEPT ![t] = c]
    BY <1>0, <1>2 DEF TypeOK, Call
  <2> HIDE DEF n, s
  <2>2. /\ c \in Call /\ c.at = op[t].at /\ c.why = op[t].why /\ c.page = op[t].page
        /\ c.left = n /\ c.seen = s
    BY <1>0, <1>1 DEF Call
  <2> HIDE DEF c
  <2>3. Stepped(t) /\ op'[t] = c
    BY <2>1, <2>2, OpValue
  <2> QED  BY <2>2, <2>3 DEF n, s
<1>3. CASE op' = [op EXCEPT ![t].left = @ - 1]
  <2> DEFINE c == [op[t] EXCEPT !.left = n]
  <2>1. op' = [op EXCEPT ![t] = c]
    BY <1>0, <1>3 DEF TypeOK, Call
  <2> HIDE DEF n, s
  <2>2. /\ c \in Call /\ c.at = op[t].at /\ c.why = op[t].why /\ c.page = op[t].page
        /\ c.left = n /\ c.seen = op[t].seen
    BY <1>0, <1>1 DEF Call
  <2> HIDE DEF c
  <2>3. Stepped(t) /\ op'[t] = c
    BY <2>1, <2>2, OpValue
  <2> QED  BY <1>3, <2>2, <2>3 DEF n
<1> QED  BY <1>2, <1>3

\* A bit of a frame changes.
LEMMA DirtyFrame ==
    ASSUME TypeOK, NEW f \in Frames, NEW b \in BOOLEAN,
           frame' = [frame EXCEPT ![f] = [@ EXCEPT !.dirty = b]]
    PROVE  /\ Framed(f) /\ frame'[f].pin = frame[f].pin /\ frame'[f].dirty = b
           /\ frame'[f].image = frame[f].image /\ frame'[f].page = frame[f].page
           /\ frame'[f].referenced = frame[f].referenced
<1> DEFINE r == [frame[f] EXCEPT !.dirty = b]
<1>1. frame[f] \in Frame
  BY DEF TypeOK
<1>2. /\ r \in Frame /\ r.pin = frame[f].pin /\ r.dirty = b /\ r.image = frame[f].image
      /\ r.page = frame[f].page /\ r.referenced = frame[f].referenced
  BY <1>1 DEF Frame
<1>3. frame' = [frame EXCEPT ![f] = r]
  BY DEF TypeOK
<1> HIDE DEF r
<1> QED  BY <1>2, <1>3, FrameValue

\* The clock clears a reference bit.
LEMMA UnreferencedFrame ==
    ASSUME TypeOK, NEW f \in Frames, frame' = [frame EXCEPT ![f].referenced = FALSE]
    PROVE  /\ Framed(f) /\ frame'[f].pin = frame[f].pin /\ frame'[f].dirty = frame[f].dirty
           /\ frame'[f].image = frame[f].image /\ frame'[f].page = frame[f].page
           /\ ~frame'[f].referenced
<1> DEFINE r == [frame[f] EXCEPT !.referenced = FALSE]
<1>1. frame[f] \in Frame
  BY DEF TypeOK
<1>2. /\ r \in Frame /\ r.pin = frame[f].pin /\ r.dirty = frame[f].dirty /\ r.image = frame[f].image
      /\ r.page = frame[f].page /\ ~r.referenced
  BY <1>1 DEF Frame
<1>3. frame' = [frame EXCEPT ![f] = r]
  BY DEF TypeOK
<1> HIDE DEF r
<1> QED  BY <1>2, <1>3, FrameValue

\* A frame is unpinned.
LEMMA UnpinFrame ==
    ASSUME TypeOK, NEW f \in Frames, frame' = [frame EXCEPT ![f].pin = (@ - 1) % PinModulus]
    PROVE  /\ Framed(f) /\ frame'[f].pin = (frame[f].pin - 1) % PinModulus
           /\ frame'[f].image = frame[f].image /\ frame'[f].page = frame[f].page
           /\ frame'[f].dirty = frame[f].dirty /\ frame'[f].referenced = frame[f].referenced
<1> DEFINE n == (frame[f].pin - 1) % PinModulus
           r == [frame[f] EXCEPT !.pin = n]
<1>1. frame[f] \in Frame
  BY DEF TypeOK
<1>2. n \in Nat
  BY <1>1, PoolAssumption DEF Frame
<1>3. frame' = [frame EXCEPT ![f] = r]
  BY DEF TypeOK
<1> HIDE DEF n
<1>4. /\ r \in Frame /\ r.pin = n /\ r.dirty = frame[f].dirty /\ r.image = frame[f].image
      /\ r.page = frame[f].page /\ r.referenced = frame[f].referenced
  BY <1>1, <1>2 DEF Frame
<1> HIDE DEF r
<1>5. Framed(f) /\ frame'[f] = r
  BY <1>3, <1>4, FrameValue
<1> QED  BY <1>4, <1>5 DEF n

\* page_lsn is an upper bound of an image's changes.
LEMMA PageLsnFacts ==
    ASSUME NEW i, i.changes \in SUBSET (1 .. MaxLsn)
    PROVE  /\ PageLsn(i) \in 0 .. MaxLsn /\ PageLsn(i) \in {0} \cup i.changes
           /\ \A l \in i.changes : l <= PageLsn(i)
<1> DEFINE S == {0} \cup i.changes
<1>1. S \in SUBSET (0 .. MaxLsn) /\ S # {} /\ MaxLsn \in Int
  BY PoolAssumption
<1>2. IsFiniteSet(0 .. MaxLsn)
  BY <1>1, FS_Interval
<1>3. IsFiniteSet(S) /\ S \in SUBSET Int
  <2> HIDE DEF S
  <2>1. IsFiniteSet(S)
    BY <1>1, <1>2, FS_Subset
  <2>2. S \in SUBSET Int
    BY <1>1
  <2> QED  BY <2>1, <2>2
<1>4. Max(S) \in S /\ \A y \in S : y <= Max(S)
  <2> HIDE DEF S
  <2> QED  BY <1>1, <1>3, MaxFacts
<1>5. PageLsn(i) = Max(S)
  BY DEF PageLsn
<1> HIDE DEF S
<1>6. PageLsn(i) \in 0 .. MaxLsn
  BY <1>1, <1>4, <1>5
<1> QED  BY <1>4, <1>5, <1>6 DEF S

\* The log is forced up to the image's page_lsn, and never back.
LEMMA FlushToFacts ==
    ASSUME NEW i, i.changes \in SUBSET (1 .. MaxLsn), durable \in 0 .. MaxLsn
    PROVE  /\ FlushTo(i) \in 0 .. MaxLsn /\ durable <= FlushTo(i) /\ i.changes \subseteq 1 .. FlushTo(i)
           /\ FlushTo(i) \in {durable, PageLsn(i)}
<1> DEFINE S == {durable, PageLsn(i)}
<1>1. PageLsn(i) \in 0 .. MaxLsn /\ \A l \in i.changes : l <= PageLsn(i)
  BY PageLsnFacts
<1>2. S \in SUBSET Int /\ S # {} /\ IsFiniteSet(S)
  <2>1. IsFiniteSet({durable} \cup {PageLsn(i)})
    BY FS_Singleton, FS_Union
  <2>2. S = {durable} \cup {PageLsn(i)}
    OBVIOUS
  <2> QED  BY <1>1, <2>1, <2>2
<1>3. Max(S) \in S /\ \A y \in S : y <= Max(S)
  <2> HIDE DEF S
  <2> QED  BY <1>2, MaxFacts
<1>4. FlushTo(i) = Max(S)
  BY DEF FlushTo
<1>5. FlushTo(i) \in S /\ durable <= FlushTo(i) /\ PageLsn(i) <= FlushTo(i)
  BY <1>3, <1>4
<1> QED  BY <1>1, <1>5

-----------------------------------------------------------------------------
(* What each step does *)

\* A hit pins the frame and hands out a guard.
HitEffect(t, p) ==
    /\ ~Holding(t) /\ op[t].at \in {"none", "miss"} /\ TableFree /\ pageTable[p] \in Frames
    /\ Framed(pageTable[p])
    /\ frame'[pageTable[p]].pin = (frame[pageTable[p]].pin + 1) % PinModulus
    /\ frame'[pageTable[p]].image = frame[pageTable[p]].image
    /\ frame'[pageTable[p]].page = frame[pageTable[p]].page
    /\ frame'[pageTable[p]].dirty = frame[pageTable[p]].dirty
    /\ Handed(t) /\ guard'[t] = [page |-> p, fid |-> pageTable[p], mutated |-> FALSE]
    /\ Stepped(t) /\ op'[t] = NoOp
    /\ UNCHANGED <<pageTable, arm, freeFrames, freeList, dpt, disk, durable, lsn, use,
                  limit, recycled, flushes, errors, content, stale, raced, early>>

\* fetch_page finds the page in the table, in either path.
LEMMA HitDoes ==
    ASSUME Safety, NEW t \in Threads, NEW p \in Pages, FetchFast(t, p) \/ (FetchSlow(t,
           p) /\ pageTable[p] # NoFrame)
    PROVE  HitEffect(t, p)
<1> USE DEF HitEffect
<1>1. TypeOK /\ Pin(t, p, pageTable[p]) /\ TableFree /\ pageTable[p] # NoFrame
  BY DEF FetchFast, FetchSlow, Recheck, Safety
<1>2. pageTable[p] \in Frames
  BY <1>1, PoolAssumption DEF TypeOK, NoFrame, Frames
<1>3. ~Holding(t) /\ op[t].at \in {"none", "miss"}
  <2>1. CASE FetchFast(t, p)
    <3>1. op[t] = NoOp /\ ~Holding(t)
      BY <2>1 DEF FetchFast, Ready
    <3>2. NoOp.at = "none"
      BY DEF NoOp
    <3> QED  BY <3>1, <3>2
  <2>2. CASE FetchSlow(t, p)
    <3>1. op[t].at = "miss"
      BY <2>2 DEF FetchSlow, At
    <3>2. Holding(t) => op[t].at \in {"none", "dpt", "unpin"}
      BY DEF Safety, Placed, PlacedAt
    <3> QED  BY <3>1, <3>2
  <2> QED  BY <2>1, <2>2
<1> DEFINE f == pageTable[p]
<1>4. /\ frame' = [frame EXCEPT ![f].pin = (@ + 1) % PinModulus, ![f].referenced = TRUE]
      /\ guard' = [guard EXCEPT ![t] = [page |-> p, fid |-> f, mutated |-> FALSE]]
      /\ Return(t)
  BY <1>1 DEF Pin
<1>5. UNCHANGED <<pageTable, arm, freeFrames, freeList, dpt, disk, durable, lsn, use, limit, recycled,
                  flushes, errors, content, stale, raced, early>>
  BY DEF FetchFast, FetchSlow, fileVars, bounds, history
<1>6. f \in Frames
  BY <1>2
<1> HIDE DEF f
<1>7. /\ Framed(f) /\ frame'[f].pin = (frame[f].pin + 1) % PinModulus
      /\ frame'[f].image = frame[f].image /\ frame'[f].page = frame[f].page
      /\ frame'[f].dirty = frame[f].dirty
  BY <1>1, <1>4, <1>6, PinFrame
<1>8. Handed(t) /\ guard'[t] = [page |-> p, fid |-> f, mutated |-> FALSE]
  BY <1>1, <1>4, <1>6, GuardValue
<1>9. Stepped(t) /\ op'[t] = NoOp
  BY <1>1, <1>4, OpReturn
<1> QED  BY <1>1, <1>2, <1>3, <1>5, <1>7, <1>8, <1>9 DEF f

\* A miss of the fast path.
MissEffect(t, p) ==
    /\ op[t] = NoOp /\ ~Holding(t) /\ use[p] # "none"
    /\ Stepped(t) /\ op'[t].at = "miss" /\ op'[t].why = "fetch" /\ op'[t].page = p
    /\ UNCHANGED <<frame, pageTable, arm, freeFrames, freeList, dpt, disk, durable, lsn,
                  guard, use, limit, recycled, flushes, errors, content, stale, raced, early>>

\* FetchMiss has this effect.
LEMMA MissDoes ==
    ASSUME Safety, NEW t \in Threads, NEW p \in Pages, FetchMiss(t, p)
    PROVE  MissEffect(t, p)
  BY OpNew DEF FetchMiss, Ready, Safety, poolVars, fileVars, bounds, history, MissEffect

\* The slow path of fetch_page goes for a frame.
SlowEffect(t, p) ==
    /\ op[t].at = "miss" /\ op[t].why = "fetch" /\ op[t].page = p /\ TableFree
    /\ pageTable[p] = NoFrame
    /\ Stepped(t) /\ op'[t].at = "pick" /\ op'[t].why = "fetch" /\ op'[t].page = p
    /\ UNCHANGED <<frame, pageTable, arm, freeFrames, freeList, dpt, disk, durable, lsn,
                  guard, use, limit, recycled, flushes, errors, content, stale, raced, early>>

\* FetchSlow has this effect.
LEMMA SlowDoes ==
    ASSUME Safety, NEW t \in Threads, NEW p \in Pages, FetchSlow(t, p), pageTable[p] = NoFrame
    PROVE  SlowEffect(t, p)
<1> USE DEF SlowEffect
<1>1. TypeOK /\ Goto(t, "pick") /\ "pick" \in Places
  BY DEF Safety, FetchSlow, Recheck, Places, Locking
<1>2. Stepped(t) /\ op'[t].at = "pick" /\ op'[t].why = op[t].why /\ op'[t].page = op[t].page
  BY <1>1, OpGoto
<1> QED  BY <1>2 DEF FetchSlow, Recheck, At, poolVars, fileVars, bounds, history

\* A page is given up.
RecycleEffect(t, p) ==
    /\ use[p] = "live" /\ use' = [use EXCEPT ![p] = "dead"] /\ freeList' = Append(freeList, p)
    /\ recycled' = recycled + 1
    /\ UNCHANGED <<frame, pageTable, arm, freeFrames, dpt, disk, durable, lsn, guard, op,
                  limit, flushes, errors, content, stale, raced, early>>

\* Recycle has this effect.
LEMMA RecycleDoes ==
    ASSUME Safety, NEW t \in Threads, NEW p \in Pages, Recycle(t, p)
    PROVE  RecycleEffect(t, p)
  BY DEF Recycle, fileVars, history, RecycleEffect

\* The file grows by a page.
FreshEffect(t, p) ==
    /\ op[t] = NoOp /\ ~Holding(t) /\ disk[p].page = NoPage /\ disk' = [disk EXCEPT ![p] = Blank(p)]
    /\ Stepped(t) /\ op'[t].at = "miss" /\ op'[t].why = "fresh" /\ op'[t].page = p
    /\ UNCHANGED <<frame, pageTable, arm, freeFrames, freeList, dpt, durable, lsn, guard,
                  use, limit, recycled, flushes, errors, content, stale, raced, early>>

\* NewFresh has this effect.
LEMMA FreshDoes ==
    ASSUME Safety, NEW t \in Threads, NEW p \in Pages, NewFresh(t, p)
    PROVE  FreshEffect(t, p)
  BY OpNew DEF NewFresh, Ready, Safety, poolVars, bounds, history, FreshEffect

\* new_page evicts the resident copy of a recycled page or goes for a frame.
NewSlowEffect(t, p) ==
    /\ op[t].at = "miss" /\ op[t].why # "fetch" /\ op[t].page = p /\ TableFree
    /\ Stepped(t) /\ op'[t].why = op[t].why /\ op'[t].page = p
    /\ \/ /\ op[t].why = "recycled" /\ pageTable[p] \in Frames
          /\ op'[t].at = "evict" /\ op'[t].fid = pageTable[p]
       \/ /\ ~(op[t].why = "recycled" /\ pageTable[p] # NoFrame)
          /\ op'[t].at = "pick"
    /\ UNCHANGED <<frame, pageTable, arm, freeFrames, freeList, dpt, disk, durable, lsn,
                  guard, use, limit, recycled, flushes, errors, content, stale, raced, early>>

\* NewSlow has this effect.
LEMMA NewSlowDoes ==
    ASSUME Safety, NEW t \in Threads, NEW p \in Pages, NewSlow(t, p)
    PROVE  NewSlowEffect(t, p)
<1> USE DEF NewSlowEffect
<1>1. TypeOK /\ "pick" \in Places /\ "evict" \in Places /\ pageTable[p] \in 0 .. Capacity
  BY DEF Safety, TypeOK, Places, Locking
<1>2. CASE op[t].why = "recycled" /\ pageTable[p] # NoFrame
  <2>1. op' = [op EXCEPT ![t].at = "evict", ![t].fid = pageTable[p]]
    BY <1>2 DEF NewSlow
  <2>2. /\ Stepped(t) /\ op'[t].at = "evict" /\ op'[t].why = op[t].why
        /\ op'[t].page = op[t].page /\ op'[t].fid = pageTable[p]
    BY <1>1, <2>1, OpAtFid
  <2>3. pageTable[p] \in Frames
    BY <1>1, <1>2, PoolAssumption DEF NoFrame, Frames
  <2> QED  BY <1>2, <2>2, <2>3 DEF NewSlow, At, poolVars, fileVars, bounds, history
<1>3. CASE ~(op[t].why = "recycled" /\ pageTable[p] # NoFrame)
  <2>1. Goto(t, "pick")
    BY <1>3 DEF NewSlow
  <2>2. Stepped(t) /\ op'[t].at = "pick" /\ op'[t].why = op[t].why /\ op'[t].page = op[t].page
    BY <1>1, <2>1, OpGoto
  <2> QED  BY <1>3, <2>2 DEF NewSlow, At, poolVars, fileVars, bounds, history
<1> QED  BY <1>2, <1>3

\* A page is taken from the free list.
RecycledEffect(t) ==
    /\ op[t] = NoOp /\ ~Holding(t) /\ freeList # <<>> /\ freeList[Len(freeList)] \in Pages
    /\ Stepped(t) /\ op'[t].at = "miss" /\ op'[t].why = "recycled"
    /\ op'[t].page = freeList[Len(freeList)]
    /\ freeList' = SubSeq(freeList, 1, Len(freeList) - 1)
    /\ UNCHANGED <<frame, pageTable, arm, freeFrames, dpt, disk, durable, lsn, guard, use,
                  limit, recycled, flushes, errors, content, stale, raced, early>>

\* NewRecycled has this effect.
LEMMA RecycledDoes ==
    ASSUME Safety, NEW t \in Threads, NewRecycled(t)
    PROVE  RecycledEffect(t)
<1> USE DEF RecycledEffect
<1> DEFINE p == freeList[Len(freeList)]
<1>1. TypeOK /\ freeList \in Seq(Pages) /\ freeList # <<>>
  BY DEF Safety, TypeOK, NewRecycled
<1>2. p \in Pages
  BY <1>1
<1>3. op' = [op EXCEPT ![t] = [NoOp EXCEPT !.at = "miss", !.why = "recycled", !.page = p]]
  BY DEF NewRecycled
<1> HIDE DEF p
<1>4. Stepped(t) /\ op'[t].at = "miss" /\ op'[t].why = "recycled" /\ op'[t].page = p
  BY <1>1, <1>2, <1>3, OpNew
<1> QED  BY <1>2, <1>4 DEF p, NewRecycled, Ready, fileVars, bounds, history

\* A frame is taken from the free ones, or the clock starts.
PickEffect(t) ==
    /\ op[t].at = "pick" /\ Stepped(t) /\ op'[t].why = op[t].why /\ op'[t].page = op[t].page
    /\ \/ /\ freeFrames # <<>> /\ freeFrames[Len(freeFrames)] \in Frames
          /\ op'[t].at = "install" /\ op'[t].fid = freeFrames[Len(freeFrames)]
          /\ freeFrames' = SubSeq(freeFrames, 1, Len(freeFrames) - 1)
       \/ /\ freeFrames = <<>> /\ freeFrames' = freeFrames
          /\ op'[t].at = "sweep" /\ op'[t].left = 2 * Capacity
    /\ UNCHANGED <<frame, pageTable, arm, freeList, dpt, disk, durable, lsn, guard, use,
                  limit, recycled, flushes, errors, content, stale, raced, early>>

\* PickFrame has this effect.
LEMMA PickDoes ==
    ASSUME Safety, NEW t \in Threads, PickFrame(t)
    PROVE  PickEffect(t)
<1> USE DEF PickEffect
<1>1. TypeOK /\ freeFrames \in Seq(Frames) /\ op[t].at = "pick" /\ "install" \in Places
  BY DEF Safety, TypeOK, PickFrame, At, Places, Locking
<1>u. UNCHANGED <<frame, pageTable, arm, freeList, dpt, disk, durable, lsn, guard, use, limit,
                  recycled, flushes, errors, content, stale, raced, early>>
  BY DEF PickFrame, fileVars, bounds, history
<1>2. CASE freeFrames # <<>>
  <2> DEFINE f == freeFrames[Len(freeFrames)]
  <2>1. f \in Frames
    BY <1>1, <1>2
  <2>2. /\ op' = [op EXCEPT ![t].at = "install", ![t].fid = f]
        /\ freeFrames' = SubSeq(freeFrames, 1, Len(freeFrames) - 1)
    BY <1>2 DEF PickFrame
  <2> HIDE DEF f
  <2>3. f \in 0 .. Capacity
    BY <2>1, PoolAssumption DEF Frames
  <2>4. /\ Stepped(t) /\ op'[t].at = "install" /\ op'[t].why = op[t].why
        /\ op'[t].page = op[t].page /\ op'[t].fid = f
    BY <1>1, <2>2, <2>3, OpAtFid
  <2> QED  BY <1>1, <1>2, <1>u, <2>1, <2>2, <2>4 DEF f
<1>3. CASE freeFrames = <<>>
  <2>1. op' = [op EXCEPT ![t].at = "sweep", ![t].left = 2 * Capacity] /\ freeFrames' = freeFrames
    BY <1>3 DEF PickFrame, Rounds
  <2>2. /\ Stepped(t) /\ op'[t].at = "sweep" /\ op'[t].why = op[t].why /\ op'[t].page = op[t].page
        /\ op'[t].left = 2 * Capacity
    BY <1>1, <2>1, OpSweep
  <2> QED  BY <1>1, <1>3, <1>u, <2>1, <2>2
<1> QED  BY <1>2, <1>3

\* The clock passes a frame or stops at it.
SweepEffect(t) ==
    /\ op[t].at = "sweep" /\ op[t].left > 0 /\ arm \in Frames /\ arm' = NextArm
    /\ Stepped(t) /\ op'[t].why = op[t].why /\ op'[t].page = op[t].page
    /\ Framed(arm) /\ frame'[arm].pin = frame[arm].pin /\ frame'[arm].dirty = frame[arm].dirty
    /\ frame'[arm].image = frame[arm].image /\ frame'[arm].page = frame[arm].page
    /\ \/ /\ frame' = frame /\ op'[t].at = "sweep" /\ op'[t].left = op[t].left - 1
          /\ op'[t].seen = op[t].seen \cup {arm}
       \/ /\ frame[arm].referenced /\ ~frame'[arm].referenced /\ op'[t].at = "sweep"
          /\ op'[t].left = op[t].left - 1 /\ op[t].seen \subseteq op'[t].seen
       \/ /\ frame[arm].pin = 0 /\ frame' = frame /\ op'[t].at = "evict" /\ op'[t].fid = arm
    /\ UNCHANGED <<pageTable, freeFrames, freeList, dpt, disk, durable, lsn, guard, use,
                  limit, recycled, flushes, errors, content, stale, raced, early>>

\* Sweep has this effect.
LEMMA SweepDoes ==
    ASSUME Safety, NEW t \in Threads, Sweep(t)
    PROVE  SweepEffect(t)
<1> USE DEF SweepEffect
<1>1. /\ TypeOK /\ op[t].at = "sweep" /\ op[t].left > 0 /\ "evict" \in Places /\ arm \in Frames
      /\ arm' = NextArm /\ frame[arm] \in Frame
  BY DEF Safety, TypeOK, Sweep, At, Places, Locking
<1>u. UNCHANGED <<pageTable, freeFrames, freeList, dpt, disk, durable, lsn, guard, use, limit, recycled,
                  flushes, errors, content, stale, raced, early>>
  BY DEF Sweep, fileVars, bounds, history
<1>2. CASE op' = [op EXCEPT ![t].left = @ - 1, ![t].seen = @ \cup {arm}] /\ frame' = frame
  <2>1. /\ Stepped(t) /\ op'[t].at = op[t].at /\ op'[t].why = op[t].why
        /\ op'[t].page = op[t].page /\ op'[t].left = op[t].left - 1
        /\ op'[t].seen = op[t].seen \cup {arm}
    <3>1. /\ Stepped(t) /\ op'[t].at = op[t].at /\ op'[t].why = op[t].why
          /\ op'[t].page = op[t].page /\ op'[t].left = op[t].left - 1
          /\ \/ op'[t].seen = op[t].seen \cup {arm}
             \/ op'[t].seen = op[t].seen /\ op' = [op EXCEPT ![t].left = @ - 1]
      BY <1>1, <1>2, OpSwept
    <3>2. op[t] \in Call
      BY <1>1 DEF TypeOK
    <3>3. op'[t].seen = op[t].seen \cup {arm}
      BY <1>1, <1>2, <3>2 DEF TypeOK, Call
    <3> QED  BY <3>1, <3>3
  <2> QED  BY <1>1, <1>2, <1>u, <2>1 DEF Framed, TypeOK
<1>3. CASE /\ frame[arm].referenced /\ frame' = [frame EXCEPT ![arm].referenced = FALSE]
           /\ op' = [op EXCEPT ![t].left = @ - 1]
  <2>1. /\ Stepped(t) /\ op'[t].at = op[t].at /\ op'[t].why = op[t].why
        /\ op'[t].page = op[t].page /\ op'[t].left = op[t].left - 1 /\ op[t].seen \subseteq op'[t].seen
    <3>1. /\ Stepped(t) /\ op'[t].at = op[t].at /\ op'[t].why = op[t].why
          /\ op'[t].page = op[t].page /\ op'[t].left = op[t].left - 1
          /\ \/ op'[t].seen = op[t].seen \cup {arm}
             \/ op'[t].seen = op[t].seen /\ op' = [op EXCEPT ![t].left = @ - 1]
      BY <1>1, <1>3, OpSwept
    <3> QED  BY <3>1
  <2>2. /\ Framed(arm) /\ frame'[arm].pin = frame[arm].pin /\ frame'[arm].dirty = frame[arm].dirty
        /\ frame'[arm].image = frame[arm].image /\ frame'[arm].page = frame[arm].page
        /\ ~frame'[arm].referenced
    BY <1>1, <1>3, UnreferencedFrame
  <2> QED  BY <1>1, <1>3, <1>u, <2>1, <2>2
<1>4. CASE frame[arm].pin = 0 /\ op' = [op EXCEPT ![t].at = "evict", ![t].fid = arm] /\ frame' = frame
  <2>1. arm \in 0 .. Capacity
    BY <1>1, PoolAssumption DEF Frames
  <2>2. /\ Stepped(t) /\ op'[t].at = "evict" /\ op'[t].why = op[t].why
        /\ op'[t].page = op[t].page /\ op'[t].fid = arm
    BY <1>1, <1>4, <2>1, OpAtFid
  <2> QED  BY <1>1, <1>4, <1>u, <2>2 DEF Framed, TypeOK
<1>5. frame[arm].pin \in Nat
  BY <1>1 DEF Frame
<1>6. ~InUse(arm) => frame[arm].pin = 0
  BY <1>5 DEF InUse
<1> QED  BY <1>2, <1>3, <1>4, <1>6 DEF Sweep

\* The call fails.
ExhaustedEffect(t) ==
    /\ op[t].at = "sweep" /\ Stepped(t) /\ op'[t] = NoOp
    /\ UNCHANGED <<frame, pageTable, arm, freeFrames, freeList, dpt, disk, durable, lsn,
                  guard, use, limit, recycled, flushes, errors, content, stale, raced, early>>

\* Exhausted has this effect.
LEMMA ExhaustedDoes ==
    ASSUME Safety, NEW t \in Threads, Exhausted(t)
    PROVE  ExhaustedEffect(t)
  BY OpReturn DEF Safety, Exhausted, At, poolVars, fileVars, bounds, history, ExhaustedEffect

\* A dirty victim is written, its log first.
EvictWriteEffect(t) ==
    /\ op[t].at = "evict" /\ op[t].fid \in Frames
    /\ Stepped(t) /\ op'[t].at = "reset" /\ op'[t].why = op[t].why
    /\ op'[t].page = op[t].page /\ op'[t].fid = op[t].fid
    /\ \/ /\ frame[op[t].fid].page \in Pages /\ frame[op[t].fid].dirty
          /\ durable' = FlushTo(frame[op[t].fid].image)
          /\ disk' = [disk EXCEPT ![frame[op[t].fid].page] = frame[op[t].fid].image]
       \/ /\ frame[op[t].fid].page = NoPage \/ ~frame[op[t].fid].dirty
          /\ UNCHANGED <<durable, disk>>
    /\ UNCHANGED <<frame, pageTable, arm, freeFrames, freeList, dpt, lsn, guard, use,
                  limit, recycled, flushes, errors, content, stale, raced, early>>

\* EvictWrite has this effect.
LEMMA EvictWriteDoes ==
    ASSUME Safety, NEW t \in Threads, EvictWrite(t)
    PROVE  EvictWriteEffect(t)
<1> USE DEF EvictWriteEffect
<1>1. TypeOK /\ op[t].at = "evict" /\ op[t].fid \in Frames /\ "reset" \in Places /\ Goto(t, "reset")
  BY DEF Safety, Placed, PlacedAt, EvictWrite, At, Places, Locking
<1>2. /\ Stepped(t) /\ op'[t].at = "reset" /\ op'[t].why = op[t].why
      /\ op'[t].page = op[t].page /\ op'[t].fid = op[t].fid
  BY <1>1, OpGoto
<1>3. UNCHANGED <<frame, pageTable, arm, freeFrames, freeList, dpt, lsn, guard, use, limit, recycled,
                  flushes, errors, content, stale, raced, early>>
  BY DEF EvictWrite, poolVars, bounds, history
<1>4. frame[op[t].fid] \in Frame
  BY <1>1 DEF TypeOK
<1>5. frame[op[t].fid].page # NoPage => frame[op[t].fid].page \in Pages
  BY <1>4 DEF Frame
<1> QED  BY <1>1, <1>2, <1>3, <1>5 DEF EvictWrite, MustWrite

\* The victim is unmapped and cleared.
EvictResetEffect(t) ==
    /\ op[t].at = "reset" /\ op[t].fid \in Frames /\ op[t].page \in Pages
    /\ Framed(op[t].fid) /\ frame'[op[t].fid].page = NoPage
    /\ frame'[op[t].fid].image = frame[op[t].fid].image /\ ~frame'[op[t].fid].referenced
    /\ \/ /\ frame[op[t].fid].page \in Pages
          /\ pageTable' = [pageTable EXCEPT ![frame[op[t].fid].page] = NoFrame]
       \/ frame[op[t].fid].page = NoPage /\ pageTable' = pageTable
    /\ dpt' \in [Pages -> SUBSET Int]
    /\ Stepped(t) /\ op'[t].why = op[t].why /\ op'[t].page = op[t].page
    /\ \/ /\ frame[op[t].fid].page = op[t].page /\ freeFrames' = Append(freeFrames, op[t].fid)
          /\ op'[t].at = "pick"
       \/ /\ frame[op[t].fid].page # op[t].page /\ freeFrames' = freeFrames
          /\ op'[t].at = "install" /\ op'[t].fid = op[t].fid
    /\ stale' = stale \cup Users(op[t].fid)
    /\ raced' = IF Users(op[t].fid) = {} THEN raced ELSE raced \cup {frame[op[t].fid].page}
    /\ UNCHANGED <<arm, freeList, disk, durable, lsn, guard, use, limit, recycled, flushes,
                  errors, content, early>>

\* EvictReset has this effect.
LEMMA EvictResetDoes ==
    ASSUME Safety, NEW t \in Threads, EvictReset(t)
    PROVE  EvictResetEffect(t)
<1> USE DEF EvictResetEffect
<1>1. /\ TypeOK /\ op[t].at = "reset" /\ op[t].fid \in Frames /\ op[t].page \in Pages
      /\ "install" \in Places /\ "pick" \in Places
  BY DEF Safety, Placed, PlacedAt, EvictReset, At, Places, Locking
<1> DEFINE f == op[t].fid
<1>2. f \in Frames
  BY <1>1
<1>3. frame' = [frame EXCEPT ![f] = [@ EXCEPT !.page = NoPage, !.dirty = FALSE,
                                              !.pin = 0, !.referenced = FALSE]]
  BY DEF EvictReset
<1>4. frame[f] \in Frame
  BY <1>1 DEF TypeOK
<1>5. frame[f].page \in Pages \cup {NoPage}
  BY <1>4 DEF Frame
<1>6. /\ \/ frame[f].page \in Pages /\ pageTable' = [pageTable EXCEPT ![frame[f].page] = NoFrame]
         \/ frame[f].page = NoPage /\ pageTable' = pageTable
      /\ dpt' \in [Pages -> SUBSET Int]
  <2>1. CASE frame[f].page # NoPage
    BY <1>1, <1>5, <2>1 DEF EvictReset, Undirtied, TypeOK
  <2>2. CASE frame[f].page = NoPage
    BY <1>1, <2>2 DEF EvictReset, TypeOK
  <2> QED  BY <2>1, <2>2
<1>7. /\ stale' = stale \cup Users(f)
      /\ raced' = IF Users(f) = {} THEN raced ELSE raced \cup {frame[f].page}
      /\ UNCHANGED <<arm, freeList, disk, durable, lsn, guard, use, limit, recycled, flushes, errors,
                     content, early>>
  BY DEF EvictReset, fileVars, bounds
<1>8. \/ /\ frame[f].page = op[t].page /\ freeFrames' = Append(freeFrames, f)
         /\ op' = [op EXCEPT ![t].at = "pick", ![t].fid = NoFrame]
      \/ frame[f].page # op[t].page /\ freeFrames' = freeFrames /\ Goto(t, "install")
  BY DEF EvictReset
<1> HIDE DEF f
<1>9. /\ Framed(f) /\ frame'[f].image = frame[f].image /\ frame'[f].page = NoPage
      /\ ~frame'[f].referenced
  BY <1>1, <1>2, <1>3, ResetFrame
<1>10. NoFrame \in 0 .. Capacity
  BY PoolAssumption DEF NoFrame
<1>11. /\ Stepped(t) /\ op'[t].why = op[t].why /\ op'[t].page = op[t].page
       /\ \/ /\ frame[f].page = op[t].page /\ freeFrames' = Append(freeFrames, f)
             /\ op'[t].at = "pick"
          \/ /\ frame[f].page # op[t].page /\ freeFrames' = freeFrames
             /\ op'[t].at = "install" /\ op'[t].fid = op[t].fid
  <2>1. CASE op' = [op EXCEPT ![t].at = "pick", ![t].fid = NoFrame]
    <3>1. Stepped(t) /\ op'[t].at = "pick" /\ op'[t].why = op[t].why /\ op'[t].page = op[t].page
      BY <1>1, <1>10, <2>1, OpAtFid
    <3>2. ~Goto(t, "install")
      BY <3>1, <1>1 DEF Goto, TypeOK, Call
    <3> QED  BY <1>8, <3>1, <3>2
  <2>2. CASE frame[f].page # op[t].page /\ freeFrames' = freeFrames /\ Goto(t, "install")
    <3>1. /\ Stepped(t) /\ op'[t].at = "install" /\ op'[t].why = op[t].why
          /\ op'[t].page = op[t].page /\ op'[t].fid = op[t].fid
      BY <1>1, <2>2, OpGoto
    <3> QED  BY <2>2, <3>1
  <2> QED  BY <1>8, <2>1, <2>2
<1> QED  BY <1>1, <1>6, <1>7, <1>9, <1>11 DEF f

\* The page is read, or created, in its frame.
InstallEffect(t) ==
    /\ op[t].at = "install" /\ op[t].fid \in Frames /\ op[t].page \in Pages
    /\ Framed(op[t].fid) /\ frame'[op[t].fid].page = op[t].page /\ frame'[op[t].fid].pin = 1
    /\ pageTable' = [pageTable EXCEPT ![op[t].page] = op[t].fid]
    /\ Handed(t) /\ guard'[t] = [page |-> op[t].page, fid |-> op[t].fid, mutated |-> FALSE]
    /\ Stepped(t) /\ op'[t] = NoOp
    /\ \/ /\ op[t].why = "fetch" /\ UNCHANGED <<use, content, raced>>
          /\ frame'[op[t].fid].image = disk[op[t].page]
       \/ /\ op[t].why # "fetch" /\ use' = [use EXCEPT ![op[t].page] = "live"]
          /\ content' = [content EXCEPT ![op[t].page] = {}] /\ raced' = raced \ {op[t].page}
          /\ frame'[op[t].fid].image = Blank(op[t].page) /\ frame'[op[t].fid].dirty
    /\ UNCHANGED <<arm, freeFrames, freeList, dpt, disk, durable, lsn, limit, recycled,
                  flushes, errors, stale, early>>

\* Install has this effect.
LEMMA InstallDoes ==
    ASSUME Safety, NEW t \in Threads, Install(t)
    PROVE  InstallEffect(t)
<1> USE DEF InstallEffect
<1>1. TypeOK /\ op[t].at = "install" /\ op[t].fid \in Frames /\ op[t].page \in Pages
  BY DEF Safety, Placed, PlacedAt, Install, At, Locking
<1> DEFINE f == op[t].fid
           p == op[t].page
           new == op[t].why # "fetch"
           i == IF new THEN Blank(p) ELSE disk[p]
           r == [image |-> i, page |-> p, pin |-> 1, dirty |-> new, referenced |-> TRUE]
<1>2. f \in Frames /\ p \in Pages /\ new \in BOOLEAN
  BY <1>1
<1>3. i \in Image
  <2>1. Blank(p) \in Image
    BY <1>2 DEF Blank, Image
  <2>2. disk[p] \in Image
    BY <1>1, <1>2 DEF TypeOK
  <2> QED  BY <2>1, <2>2
<1>4. frame' = [frame EXCEPT ![f] = r]
  BY DEF Install
<1>5. guard' = [guard EXCEPT ![t] = [page |-> p, fid |-> f, mutated |-> FALSE]] /\ Return(t)
  BY DEF Install
<1>6. /\ pageTable' = [pageTable EXCEPT ![p] = f]
      /\ UNCHANGED <<arm, freeFrames, freeList, dpt, disk, durable, lsn, limit, recycled, flushes,
                     errors, stale, early>>
  BY DEF Install, fileVars, bounds
<1>7. \/ op[t].why = "fetch" /\ UNCHANGED <<use, content, raced>> /\ i = disk[p]
      \/ /\ op[t].why # "fetch" /\ use' = [use EXCEPT ![p] = "live"]
         /\ content' = [content EXCEPT ![p] = {}] /\ raced' = raced \ {p} /\ i = Blank(p) /\ new
  BY DEF Install
<1>8. r \in Frame /\ r.page = p /\ r.pin = 1 /\ r.image = i /\ r.dirty = new
  <2> HIDE DEF i, new
  <2> QED  BY <1>2, <1>3 DEF Frame
<1> HIDE DEF r, i, new
<1>9. Framed(f) /\ frame'[f] = r
  BY <1>1, <1>2, <1>4, <1>8, FrameValue
<1> HIDE DEF f, p
<1>10. Handed(t) /\ guard'[t] = [page |-> p, fid |-> f, mutated |-> FALSE]
  BY <1>1, <1>2, <1>5, GuardValue
<1>11. Stepped(t) /\ op'[t] = NoOp
  BY <1>1, <1>5, OpReturn
<1> QED  BY <1>1, <1>6, <1>7, <1>8, <1>9, <1>10, <1>11 DEF f, p

\* The call fails.
IoErrorEffect(t) ==
    /\ errors' = errors + 1 /\ Stepped(t) /\ op'[t] = NoOp
    /\ \/ op[t].at = "install" /\ op[t].why = "fetch"
       \/ op[t].at = "evict"
       \/ op[t].at = "write"
    /\ UNCHANGED <<frame, pageTable, arm, freeFrames, freeList, dpt, disk, durable, lsn,
                  guard, use, limit, recycled, flushes, content, stale, raced, early>>

\* IoError has this effect.
LEMMA IoErrorDoes ==
    ASSUME Safety, NEW t \in Threads, IoError(t)
    PROVE  IoErrorEffect(t)
  BY OpReturn DEF Safety, IoError, At, poolVars, fileVars, history, IoErrorEffect

\* A change gets the next LSN and goes to the frame.
WriteEffect(t) ==
    /\ op[t] = NoOp /\ Holding(t) /\ guard[t].fid \in Frames /\ guard[t].page \in Pages
    /\ lsn' = lsn + 1 /\ lsn' \in 1 .. MaxLsn
    /\ Handed(t) /\ guard'[t].page = guard[t].page /\ guard'[t].fid = guard[t].fid
    /\ guard'[t].mutated
    /\ Framed(guard[t].fid) /\ frame'[guard[t].fid].pin = frame[guard[t].fid].pin
    /\ frame'[guard[t].fid].image.page = frame[guard[t].fid].image.page
    /\ frame'[guard[t].fid].image.changes = frame[guard[t].fid].image.changes \cup {lsn'}
    /\ frame'[guard[t].fid].page = frame[guard[t].fid].page
    /\ frame'[guard[t].fid].dirty = frame[guard[t].fid].dirty
    /\ frame'[guard[t].fid].referenced = frame[guard[t].fid].referenced
    /\ \/ /\ t \in stale /\ raced' = raced \cup {frame[guard[t].fid].page} /\ content' = content
       \/ /\ t \notin stale /\ raced' = raced
          /\ content' = [content EXCEPT ![guard[t].page] = @ \cup {lsn'}]
    /\ UNCHANGED <<pageTable, arm, freeFrames, freeList, dpt, disk, durable, op, use,
                  limit, recycled, flushes, errors, stale, early>>

\* Write has this effect.
LEMMA WriteDoes ==
    ASSUME Safety, NEW t \in Threads, Write(t)
    PROVE  WriteEffect(t)
<1> USE DEF WriteEffect
<1>1. TypeOK /\ op[t] = NoOp /\ Holding(t) /\ guard[t].fid \in Frames /\ guard[t].page \in Pages
  BY DEF Safety, Placed, PlacedAt, Write
<1>2. lsn' = lsn + 1 /\ lsn' \in 1 .. MaxLsn
  <2>1. limit.changes \in 0 .. MaxLsn /\ lsn \in Nat /\ MaxLsn \in Nat
    BY <1>1, PoolAssumption DEF TypeOK
  <2> QED  BY <2>1 DEF Write
<1> DEFINE f == guard[t].fid
           n == lsn'
           g == [guard[t] EXCEPT !.mutated = TRUE]
<1>3. guard' = [guard EXCEPT ![t] = g]
  BY <1>1 DEF Write, TypeOK
<1>4. guard[t] \in Guard
  BY <1>1 DEF TypeOK
<1>5. g \in Guard /\ g.page = guard[t].page /\ g.fid = guard[t].fid /\ g.mutated
  BY <1>4 DEF Guard
<1>6. frame' = [frame EXCEPT ![f].image.changes = @ \cup {n}]
  BY DEF Write
<1>7. /\ \/ /\ t \in stale /\ raced' = raced \cup {frame[f].page} /\ content' = content
         \/ /\ t \notin stale /\ raced' = raced
            /\ content' = [content EXCEPT ![guard[t].page] = @ \cup {n}]
      /\ UNCHANGED <<pageTable, arm, freeFrames, freeList, dpt, disk, durable, op, use, limit, recycled,
                     flushes, errors, stale, early>>
  BY DEF Write, bounds
<1>8. f \in Frames /\ n \in 1 .. MaxLsn
  BY <1>1, <1>2
<1> HIDE DEF g, f, n
<1>9. Handed(t) /\ guard'[t] = g
  BY <1>1, <1>3, <1>5 DEF TypeOK, Handed
<1>10. /\ Framed(f) /\ frame'[f].pin = frame[f].pin
       /\ frame'[f].image.page = frame[f].image.page
       /\ frame'[f].image.changes = frame[f].image.changes \cup {n}
       /\ frame'[f].page = frame[f].page
       /\ frame'[f].dirty = frame[f].dirty /\ frame'[f].referenced = frame[f].referenced
  BY <1>1, <1>6, <1>8, ChangeFrame
<1> QED  BY <1>1, <1>2, <1>5, <1>7, <1>9, <1>10 DEF f, n

\* release marks the frame of a mutated guard dirty, or does nothing on a pin count of zero.
ReleaseEffect(t) ==
    /\ op[t] = NoOp /\ Holding(t) /\ guard[t].fid \in Frames /\ guard[t].page \in Pages
    /\ Stepped(t) /\ Handed(t) /\ Framed(guard[t].fid)
    /\ frame'[guard[t].fid].pin = frame[guard[t].fid].pin
    /\ frame'[guard[t].fid].image = frame[guard[t].fid].image
    /\ frame'[guard[t].fid].page = frame[guard[t].fid].page
    /\ frame'[guard[t].fid].referenced = frame[guard[t].fid].referenced
    /\ \/ /\ frame[guard[t].fid].pin = 0 /\ frame' = frame /\ op'[t] = NoOp
          /\ guard'[t] = NoGuard /\ stale' = stale \ {t}
       \/ /\ guard[t].mutated /\ frame'[guard[t].fid].dirty /\ op'[t].at \in {"unpin", "dpt"}
          /\ guard' = guard /\ stale' = stale
       \/ /\ ~guard[t].mutated /\ frame' = frame /\ op'[t].at = "unpin"
          /\ guard' = guard /\ stale' = stale
    /\ UNCHANGED <<pageTable, arm, freeFrames, freeList, dpt, disk, durable, lsn, use,
                  limit, recycled, flushes, errors, content, raced, early>>

\* Release has this effect.
LEMMA ReleaseDoes ==
    ASSUME Safety, NEW t \in Threads, Release(t)
    PROVE  ReleaseEffect(t)
<1> USE DEF ReleaseEffect
<1>1. /\ TypeOK /\ op[t] = NoOp /\ Holding(t) /\ guard[t].fid \in Frames /\ guard[t].page \in Pages
      /\ "unpin" \in Places /\ "dpt" \in Places
  BY DEF Safety, Placed, PlacedAt, Release, Places
<1>u. UNCHANGED <<pageTable, arm, freeFrames, freeList, dpt, disk, durable, lsn, use, limit, recycled,
                  flushes, errors, content, raced, early>>
  BY DEF Release, fileVars, bounds
<1> DEFINE f == guard[t].fid
<1>2. f \in Frames
  BY <1>1
<1>h. (guard' = guard => Handed(t)) /\ (frame' = frame => Framed(f))
  BY <1>1 DEF TypeOK, Handed, Framed
<1>3. CASE frame[f].pin = 0 /\ Drop(t) /\ frame' = frame
  <2>1. Handed(t) /\ guard'[t] = NoGuard /\ Stepped(t) /\ op'[t] = NoOp /\ stale' = stale \ {t}
    BY <1>1, <1>3, GuardDropped
  <2> QED  BY <1>1, <1>u, <1>h, <1>3, <2>1
<1>4. CASE /\ guard[t].mutated /\ frame' = [frame EXCEPT ![f] = Marked(@)]
           /\ Goto(t, IF frame[f].dirty THEN "unpin" ELSE "dpt") /\ guard' = guard /\ stale' = stale
  <2> DEFINE place == IF frame[f].dirty THEN "unpin" ELSE "dpt"
  <2>1. place \in {"unpin", "dpt"} /\ place \in Places /\ Goto(t, place)
    BY <1>1, <1>4
  <2> HIDE DEF place
  <2>2. Stepped(t) /\ op'[t].at \in {"unpin", "dpt"}
    BY <1>1, <2>1, OpGoto
  <2>3. frame' = [frame EXCEPT ![f] = [@ EXCEPT !.dirty = TRUE]]
    BY <1>4 DEF Marked
  <2> HIDE DEF f
  <2>4. /\ Framed(f) /\ frame'[f].pin = frame[f].pin /\ frame'[f].dirty = TRUE
        /\ frame'[f].image = frame[f].image /\ frame'[f].page = frame[f].page
        /\ frame'[f].referenced = frame[f].referenced
    BY <1>1, <1>2, <2>3, DirtyFrame
  <2> QED  BY <1>1, <1>u, <1>h, <1>4, <2>2, <2>4 DEF f
<1>5. CASE ~guard[t].mutated /\ Goto(t, "unpin") /\ UNCHANGED <<frame, guard, stale>>
  <2>1. Stepped(t) /\ op'[t].at = "unpin"
    BY <1>1, <1>5, OpGoto
  <2> QED  BY <1>1, <1>u, <1>h, <1>5, <2>1
<1> QED  BY <1>3, <1>4, <1>5 DEF Release

\* The page enters the dirty page table.
NoteDirtyEffect(t) ==
    /\ op[t].at = "dpt" /\ Stepped(t) /\ op'[t].at = "unpin" /\ dpt' \in [Pages -> SUBSET Int]
    /\ raced \subseteq raced' /\ raced' \subseteq raced \cup {guard[t].page}
    /\ UNCHANGED <<frame, pageTable, arm, freeFrames, freeList, disk, durable, lsn, guard,
                  use, limit, recycled, flushes, errors, content, stale, early>>

\* NoteDirty has this effect.
LEMMA NoteDirtyDoes ==
    ASSUME Safety, NEW t \in Threads, NoteDirty(t)
    PROVE  NoteDirtyEffect(t)
<1> USE DEF NoteDirtyEffect
<1>1. TypeOK /\ op[t].at = "dpt" /\ "unpin" \in Places /\ Goto(t, "unpin")
  BY DEF Safety, NoteDirty, At, Places
<1>2. Stepped(t) /\ op'[t].at = "unpin"
  BY <1>1, OpGoto
<1>3. guard[t].page \in Pages /\ guard[t].fid \in Frames
  BY <1>1 DEF Safety, Placed, PlacedAt
<1>4. PageLsn(frame[guard[t].fid].image) \in Int
  <2>1. frame[guard[t].fid].image.changes \in SUBSET (1 .. MaxLsn)
    BY <1>1, <1>3 DEF TypeOK, Frame, Image
  <2> QED  BY <2>1, PageLsnFacts
<1>5. dpt' \in [Pages -> SUBSET Int]
  BY <1>1, <1>3, <1>4 DEF NoteDirty, TypeOK
<1> QED  BY <1>1, <1>2, <1>5 DEF NoteDirty, fileVars, bounds

\* The pin count goes down and the guard is gone.
UnpinEffect(t) ==
    /\ op[t].at = "unpin" /\ Holding(t) /\ guard[t].fid \in Frames
    /\ Framed(guard[t].fid)
    /\ frame'[guard[t].fid].pin = (frame[guard[t].fid].pin - 1) % PinModulus
    /\ frame'[guard[t].fid].image = frame[guard[t].fid].image
    /\ frame'[guard[t].fid].page = frame[guard[t].fid].page
    /\ frame'[guard[t].fid].dirty = frame[guard[t].fid].dirty
    /\ frame'[guard[t].fid].referenced = frame[guard[t].fid].referenced
    /\ Handed(t) /\ guard'[t] = NoGuard /\ Stepped(t) /\ op'[t] = NoOp /\ stale' = stale \ {t}
    /\ raced' = IF t \in stale THEN raced \cup {frame[guard[t].fid].page} ELSE raced
    /\ UNCHANGED <<pageTable, arm, freeFrames, freeList, dpt, disk, durable, lsn, use,
                  limit, recycled, flushes, errors, content, early>>

\* Unpin has this effect.
LEMMA UnpinDoes ==
    ASSUME Safety, NEW t \in Threads, Unpin(t)
    PROVE  UnpinEffect(t)
<1> USE DEF UnpinEffect
<1>1. TypeOK /\ op[t].at = "unpin" /\ Holding(t) /\ guard[t].fid \in Frames
  BY DEF Safety, Placed, PlacedAt, Unpin, At
<1> DEFINE f == guard[t].fid
<1>2. /\ frame' = [frame EXCEPT ![f].pin = (@ - 1) % PinModulus] /\ Drop(t)
      /\ raced' = IF t \in stale THEN raced \cup {frame[f].page} ELSE raced
      /\ UNCHANGED <<pageTable, arm, freeFrames, freeList, dpt, disk, durable, lsn, use, limit, recycled,
                     flushes, errors, content, early>>
  BY DEF Unpin, fileVars, bounds
<1>3. f \in Frames
  BY <1>1
<1> HIDE DEF f
<1>4. /\ Framed(f) /\ frame'[f].pin = (frame[f].pin - 1) % PinModulus
      /\ frame'[f].image = frame[f].image /\ frame'[f].page = frame[f].page
      /\ frame'[f].dirty = frame[f].dirty /\ frame'[f].referenced = frame[f].referenced
  BY <1>1, <1>2, <1>3, UnpinFrame
<1>5. Handed(t) /\ guard'[t] = NoGuard /\ Stepped(t) /\ op'[t] = NoOp /\ stale' = stale \ {t}
  BY <1>1, <1>2, GuardDropped
<1> QED  BY <1>1, <1>2, <1>4, <1>5 DEF f

\* flush_all forces the log and starts.
FlushAllEffect(t) ==
    /\ op[t] = NoOp /\ ~Holding(t) /\ durable' = lsn /\ flushes' = flushes + 1
    /\ Stepped(t) /\ op'[t].at = "scan" /\ op'[t].fid = 0
    /\ UNCHANGED <<frame, pageTable, arm, freeFrames, freeList, dpt, disk, lsn, guard, use,
                  limit, recycled, errors, content, stale, raced, early>>

\* FlushAll has this effect.
LEMMA FlushAllDoes ==
    ASSUME Safety, NEW t \in Threads, FlushAll(t)
    PROVE  FlushAllEffect(t)
  BY OpScan DEF Safety, FlushAll, Ready, poolVars, history, FlushAllEffect

\* flush_all looks at a frame.
ScanFrameEffect(t) ==
    /\ op[t].at = "scan" /\ op[t].fid \in Frames /\ Stepped(t)
    /\ \/ /\ frame[op[t].fid].page \in Pages /\ op'[t].at = "write"
          /\ op'[t].page = frame[op[t].fid].page /\ op'[t].fid = op[t].fid
       \/ op'[t].at = "scan" /\ op'[t].fid = op[t].fid + 1
    /\ UNCHANGED <<frame, pageTable, arm, freeFrames, freeList, dpt, disk, durable, lsn,
                  guard, use, limit, recycled, flushes, errors, content, stale, raced, early>>

\* ScanFrame has this effect.
LEMMA ScanFrameDoes ==
    ASSUME Safety, NEW t \in Threads, ScanFrame(t)
    PROVE  ScanFrameEffect(t)
<1> USE DEF ScanFrameEffect
<1>1. TypeOK /\ op[t].at = "scan" /\ op[t].fid \in Frames /\ "write" \in Places
  BY DEF Safety, ScanFrame, At, Places
<1>2. frame[op[t].fid] \in Frame
  BY <1>1 DEF TypeOK
<1>u. UNCHANGED <<frame, pageTable, arm, freeFrames, freeList, dpt, disk, durable, lsn, guard, use, limit,
                  recycled, flushes, errors, content, stale, raced, early>>
  BY DEF ScanFrame, poolVars, fileVars, bounds, history
<1>3. CASE MustWrite(op[t].fid)
  <2> DEFINE p == frame[op[t].fid].page
  <2>1. p \in Pages
    BY <1>2, <1>3 DEF MustWrite, Frame
  <2>2. op' = [op EXCEPT ![t].at = "write", ![t].page = p]
    BY <1>3 DEF ScanFrame
  <2> HIDE DEF p
  <2>3. Stepped(t) /\ op'[t].at = "write" /\ op'[t].page = p /\ op'[t].fid = op[t].fid
    BY <1>1, <2>1, <2>2, OpAtPage
  <2> QED  BY <1>1, <1>u, <2>1, <2>3 DEF p
<1>4. CASE ~MustWrite(op[t].fid)
  <2>1. op' = [op EXCEPT ![t].fid = op[t].fid + 1]
    BY <1>4 DEF ScanFrame
  <2>2. Stepped(t) /\ op'[t].at = op[t].at /\ op'[t].fid = op[t].fid + 1
    BY <1>1, <2>1, OpNextFrame
  <2> QED  BY <1>1, <1>u, <2>2
<1> QED  BY <1>3, <1>4

\* flush_all ends.
ScanEndEffect(t) ==
    /\ op[t].at = "scan" /\ Stepped(t) /\ op'[t] = NoOp
    /\ UNCHANGED <<frame, pageTable, arm, freeFrames, freeList, dpt, disk, durable, lsn,
                  guard, use, limit, recycled, flushes, errors, content, stale, raced, early>>

\* ScanEnd has this effect.
LEMMA ScanEndDoes ==
    ASSUME Safety, NEW t \in Threads, ScanEnd(t)
    PROVE  ScanEndEffect(t)
  BY OpReturn DEF Safety, ScanEnd, At, poolVars, fileVars, bounds, history, ScanEndEffect

\* flush_all writes what the frame holds.
FlushWriteEffect(t) ==
    /\ op[t].at = "write" /\ op[t].fid \in Frames /\ op[t].page \in Pages
    /\ Stepped(t) /\ op'[t].at = "clean" /\ op'[t].fid = op[t].fid /\ op'[t].page = op[t].page
    /\ disk' = [disk EXCEPT ![op[t].page] = frame[op[t].fid].image]
    /\ early' = early \cup {l \in frame[op[t].fid].image.changes : l > durable}
    /\ raced' = IF frame[op[t].fid].image = Latest(op[t].page) THEN raced
                ELSE raced \cup {op[t].page}
    /\ UNCHANGED <<frame, pageTable, arm, freeFrames, freeList, dpt, durable, lsn, guard,
                  use, limit, recycled, flushes, errors, content, stale>>

\* FlushWrite has this effect.
LEMMA FlushWriteDoes ==
    ASSUME Safety, NEW t \in Threads, FlushWrite(t)
    PROVE  FlushWriteEffect(t)
<1> USE DEF FlushWriteEffect
<1>1. /\ TypeOK /\ op[t].at = "write" /\ op[t].fid \in Frames /\ op[t].page \in Pages
      /\ "clean" \in Places /\ Goto(t, "clean")
  BY DEF Safety, Placed, PlacedAt, FlushWrite, At, Places
<1>2. Stepped(t) /\ op'[t].at = "clean" /\ op'[t].fid = op[t].fid /\ op'[t].page = op[t].page
  BY <1>1, OpGoto
<1> QED  BY <1>1, <1>2 DEF FlushWrite, Latest, poolVars, bounds

\* flush_all clears the dirty bit.
FlushCleanEffect(t) ==
    /\ op[t].at = "clean" /\ op[t].fid \in Frames /\ op[t].page \in Pages
    /\ Framed(op[t].fid) /\ frame'[op[t].fid].pin = frame[op[t].fid].pin
    /\ frame'[op[t].fid].image = frame[op[t].fid].image
    /\ frame'[op[t].fid].page = frame[op[t].fid].page
    /\ frame'[op[t].fid].referenced = frame[op[t].fid].referenced
    /\ Stepped(t) /\ op'[t].at = "undpt" /\ op'[t].fid = op[t].fid /\ op'[t].page = op[t].page
    /\ \/ raced' = raced \cup {frame[op[t].fid].page} /\ frame[op[t].fid].page # NoPage
       \/ /\ raced' = raced
          /\ \/ frame[op[t].fid].page = NoPage \/ WillMark(op[t].fid)
             \/ frame[op[t].fid].image = disk[frame[op[t].fid].page]
    /\ UNCHANGED <<pageTable, arm, freeFrames, freeList, dpt, disk, durable, lsn, guard,
                  use, limit, recycled, flushes, errors, content, stale, early>>

\* FlushClean has this effect.
LEMMA FlushCleanDoes ==
    ASSUME Safety, NEW t \in Threads, FlushClean(t)
    PROVE  FlushCleanEffect(t)
<1> USE DEF FlushCleanEffect
<1>1. /\ TypeOK /\ op[t].at = "clean" /\ op[t].fid \in Frames /\ op[t].page \in Pages
      /\ "undpt" \in Places /\ Goto(t, "undpt")
  BY DEF Safety, Placed, PlacedAt, FlushClean, At, Places
<1>2. Stepped(t) /\ op'[t].at = "undpt" /\ op'[t].fid = op[t].fid /\ op'[t].page = op[t].page
  BY <1>1, OpGoto
<1> DEFINE f == op[t].fid
<1>3. /\ frame' = [frame EXCEPT ![f].dirty = FALSE]
      /\ raced' = IF frame[f].page # NoPage /\ frame[f].image # disk[frame[f].page] /\ ~WillMark(f)
                  THEN raced \cup {frame[f].page} ELSE raced
      /\ UNCHANGED <<pageTable, arm, freeFrames, freeList, dpt, disk, durable, lsn, guard, use, limit,
                     recycled, flushes, errors, content, stale, early>>
  BY DEF FlushClean, fileVars, bounds
<1>4. f \in Frames
  BY <1>1
<1> HIDE DEF f
<1>5. frame' = [frame EXCEPT ![f] = [@ EXCEPT !.dirty = FALSE]]
  BY <1>1, <1>3 DEF TypeOK
<1>6. /\ Framed(f) /\ frame'[f].pin = frame[f].pin /\ frame'[f].image = frame[f].image
      /\ frame'[f].page = frame[f].page /\ frame'[f].referenced = frame[f].referenced
  BY <1>1, <1>4, <1>5, DirtyFrame
<1> QED  BY <1>1, <1>2, <1>3, <1>6 DEF f

\* flush_all goes on with the next frame.
FlushUndirtyEffect(t) ==
    /\ op[t].at = "undpt" /\ dpt' \in [Pages -> SUBSET Int]
    /\ Stepped(t) /\ op'[t].at = "scan"
    /\ UNCHANGED <<frame, pageTable, arm, freeFrames, freeList, disk, durable, lsn, guard,
                  use, limit, recycled, flushes, errors, content, stale, raced, early>>

\* FlushUndirty has this effect.
LEMMA FlushUndirtyDoes ==
    ASSUME Safety, NEW t \in Threads, FlushUndirty(t)
    PROVE  FlushUndirtyEffect(t)
<1> USE DEF FlushUndirtyEffect
<1>1. TypeOK /\ op[t].at = "undpt" /\ op[t].fid \in Frames /\ op[t].page \in Pages
  BY DEF Safety, Placed, PlacedAt, FlushUndirty, At
<1>2. op' = [op EXCEPT ![t].at = "scan", ![t].fid = @ + 1, ![t].page = NoPage]
  BY DEF FlushUndirty
<1>3. Stepped(t) /\ op'[t].at = "scan"
  BY <1>1, <1>2, OpBackToScan
<1>4. dpt' \in [Pages -> SUBSET Int]
  BY <1>1 DEF FlushUndirty, TypeOK
<1> QED  BY <1>1, <1>3, <1>4 DEF FlushUndirty, fileVars, bounds, history

\* What a step does.
Effect ==
    \/ UNCHANGED vars
    \/ \E t \in Threads, p \in Pages :
          \/ HitEffect(t, p) \/ MissEffect(t, p) \/ SlowEffect(t, p) \/ RecycleEffect(t, p) \/
             FreshEffect(t, p) \/ NewSlowEffect(t, p)
    \/ \E t \in Threads :
          \/ RecycledEffect(t) \/ PickEffect(t) \/ SweepEffect(t) \/ ExhaustedEffect(t) \/
             EvictWriteEffect(t) \/ EvictResetEffect(t) \/ InstallEffect(t) \/ IoErrorEffect(t) \/
             WriteEffect(t) \/ ReleaseEffect(t) \/ NoteDirtyEffect(t) \/ UnpinEffect(t) \/
             FlushAllEffect(t) \/ ScanFrameEffect(t) \/ ScanEndEffect(t) \/ FlushWriteEffect(t) \/
             FlushCleanEffect(t) \/ FlushUndirtyEffect(t)

\* Every step of the pool has one of the effects.
LEMMA StepHasEffect == Safety /\ [Next]_vars => Effect
<1> SUFFICES ASSUME Safety, [Next]_vars PROVE Effect
  OBVIOUS
<1> USE DEF Effect
<1>1. ASSUME NEW t \in Threads, NEW p \in Pages, FetchFast(t, p) PROVE Effect
  <2>1. HitEffect(t, p)
    BY <1>1, HitDoes
  <2> QED  BY <2>1
<1>2. ASSUME NEW t \in Threads, NEW p \in Pages, FetchMiss(t, p) PROVE Effect
  <2>1. MissEffect(t, p)
    BY <1>2, MissDoes
  <2> QED  BY <2>1
<1>3. ASSUME NEW t \in Threads, NEW p \in Pages, FetchSlow(t, p) PROVE Effect
  <2>1. HitEffect(t, p) \/ SlowEffect(t, p)
    BY <1>3, HitDoes, SlowDoes
  <2> QED  BY <2>1
<1>4. ASSUME NEW t \in Threads, NEW p \in Pages, Recycle(t, p) PROVE Effect
  <2>1. RecycleEffect(t, p)
    BY <1>4, RecycleDoes
  <2> QED  BY <2>1
<1>5. ASSUME NEW t \in Threads, NEW p \in Pages, NewFresh(t, p) PROVE Effect
  <2>1. FreshEffect(t, p)
    BY <1>5, FreshDoes
  <2> QED  BY <2>1
<1>6. ASSUME NEW t \in Threads, NEW p \in Pages, NewSlow(t, p) PROVE Effect
  <2>1. NewSlowEffect(t, p)
    BY <1>6, NewSlowDoes
  <2> QED  BY <2>1
<1>7. ASSUME NEW t \in Threads, NewRecycled(t) PROVE Effect
  <2>1. RecycledEffect(t)
    BY <1>7, RecycledDoes
  <2> QED  BY <2>1
<1>8. ASSUME NEW t \in Threads, PickFrame(t) PROVE Effect
  <2>1. PickEffect(t)
    BY <1>8, PickDoes
  <2> QED  BY <2>1
<1>9. ASSUME NEW t \in Threads, Sweep(t) PROVE Effect
  <2>1. SweepEffect(t)
    BY <1>9, SweepDoes
  <2> QED  BY <2>1
<1>10. ASSUME NEW t \in Threads, Exhausted(t) PROVE Effect
  <2>1. ExhaustedEffect(t)
    BY <1>10, ExhaustedDoes
  <2> QED  BY <2>1
<1>11. ASSUME NEW t \in Threads, EvictWrite(t) PROVE Effect
  <2>1. EvictWriteEffect(t)
    BY <1>11, EvictWriteDoes
  <2> QED  BY <2>1
<1>12. ASSUME NEW t \in Threads, EvictReset(t) PROVE Effect
  <2>1. EvictResetEffect(t)
    BY <1>12, EvictResetDoes
  <2> QED  BY <2>1
<1>13. ASSUME NEW t \in Threads, Install(t) PROVE Effect
  <2>1. InstallEffect(t)
    BY <1>13, InstallDoes
  <2> QED  BY <2>1
<1>14. ASSUME NEW t \in Threads, IoError(t) PROVE Effect
  <2>1. IoErrorEffect(t)
    BY <1>14, IoErrorDoes
  <2> QED  BY <2>1
<1>15. ASSUME NEW t \in Threads, Write(t) PROVE Effect
  <2>1. WriteEffect(t)
    BY <1>15, WriteDoes
  <2> QED  BY <2>1
<1>16. ASSUME NEW t \in Threads, Release(t) PROVE Effect
  <2>1. ReleaseEffect(t)
    BY <1>16, ReleaseDoes
  <2> QED  BY <2>1
<1>17. ASSUME NEW t \in Threads, NoteDirty(t) PROVE Effect
  <2>1. NoteDirtyEffect(t)
    BY <1>17, NoteDirtyDoes
  <2> QED  BY <2>1
<1>18. ASSUME NEW t \in Threads, Unpin(t) PROVE Effect
  <2>1. UnpinEffect(t)
    BY <1>18, UnpinDoes
  <2> QED  BY <2>1
<1>19. ASSUME NEW t \in Threads, FlushAll(t) PROVE Effect
  <2>1. FlushAllEffect(t)
    BY <1>19, FlushAllDoes
  <2> QED  BY <2>1
<1>20. ASSUME NEW t \in Threads, ScanFrame(t) PROVE Effect
  <2>1. ScanFrameEffect(t)
    BY <1>20, ScanFrameDoes
  <2> QED  BY <2>1
<1>21. ASSUME NEW t \in Threads, ScanEnd(t) PROVE Effect
  <2>1. ScanEndEffect(t)
    BY <1>21, ScanEndDoes
  <2> QED  BY <2>1
<1>22. ASSUME NEW t \in Threads, FlushWrite(t) PROVE Effect
  <2>1. FlushWriteEffect(t)
    BY <1>22, FlushWriteDoes
  <2> QED  BY <2>1
<1>23. ASSUME NEW t \in Threads, FlushClean(t) PROVE Effect
  <2>1. FlushCleanEffect(t)
    BY <1>23, FlushCleanDoes
  <2> QED  BY <2>1
<1>24. ASSUME NEW t \in Threads, FlushUndirty(t) PROVE Effect
  <2>1. FlushUndirtyEffect(t)
    BY <1>24, FlushUndirtyDoes
  <2> QED  BY <2>1
<1> QED
  BY <1>1, <1>2, <1>3, <1>4, <1>5, <1>6, <1>7, <1>8, <1>9, <1>10, <1>11, <1>12, <1>13, <1>14, <1>15, <1>16,
     <1>17, <1>18, <1>19, <1>20, <1>21, <1>22, <1>23, <1>24
  DEF Next, Fetching, Creating, Replacing, Guarding, FlushingAll

-----------------------------------------------------------------------------
(* Types, places and the lock *)

\* Every step keeps the types.
LEMMA TypeKept == Safety /\ Effect => TypeOK'
<1> SUFFICES ASSUME Safety, Effect PROVE TypeOK'
  OBVIOUS
<1>1. ASSUME NEW t \in Threads, NEW p \in Pages, HitEffect(t, p) PROVE TypeOK'
  BY <1>1 DEF HitEffect, Safety, TypeOK, Stepped, Framed, Handed
<1>2. ASSUME NEW t \in Threads, NEW p \in Pages, MissEffect(t, p) PROVE TypeOK'
  BY <1>2 DEF MissEffect, Safety, TypeOK, Stepped, Framed, Handed
<1>3. ASSUME NEW t \in Threads, NEW p \in Pages, SlowEffect(t, p) PROVE TypeOK'
  BY <1>3 DEF SlowEffect, Safety, TypeOK, Stepped, Framed, Handed
<1>4. ASSUME NEW t \in Threads, NEW p \in Pages, RecycleEffect(t, p) PROVE TypeOK'
  BY <1>4 DEF RecycleEffect, Safety, TypeOK, Stepped, Framed, Handed
<1>5. ASSUME NEW t \in Threads, NEW p \in Pages, FreshEffect(t, p) PROVE TypeOK'
  <2>1. TypeOK
    BY DEF Safety
  <2>2. disk' = [disk EXCEPT ![p] = Blank(p)] /\ Blank(p) \in Image
    BY <1>5 DEF FreshEffect, Blank, Image
  <2>3. disk' \in [Pages -> Image]
    BY <2>1, <2>2 DEF TypeOK
  <2> QED  BY <1>5, <2>1, <2>3 DEF FreshEffect, Stepped, Framed, Handed, TypeOK
<1>6. ASSUME NEW t \in Threads, NEW p \in Pages, NewSlowEffect(t, p) PROVE TypeOK'
  BY <1>6 DEF NewSlowEffect, Safety, TypeOK, Stepped, Framed, Handed
<1>7. ASSUME NEW t \in Threads, RecycledEffect(t) PROVE TypeOK'
  BY <1>7 DEF RecycledEffect, Safety, TypeOK, Stepped, Framed, Handed
<1>8. ASSUME NEW t \in Threads, PickEffect(t) PROVE TypeOK'
  <2>1. TypeOK /\ freeFrames \in Seq(Frames)
    BY DEF Safety, TypeOK
  <2>2. freeFrames' \in Seq(Frames)
    <3>1. CASE freeFrames' = freeFrames
      BY <2>1, <3>1
    <3>2. CASE freeFrames # <<>> /\ freeFrames' = SubSeq(freeFrames, 1, Len(freeFrames) - 1)
      BY <2>1, <3>2
    <3> QED  BY <1>8, <3>1, <3>2 DEF PickEffect
  <2> QED  BY <1>8, <2>1, <2>2 DEF PickEffect, Stepped, Framed, Handed, TypeOK
<1>9. ASSUME NEW t \in Threads, SweepEffect(t) PROVE TypeOK'
  <2>1. TypeOK
    BY DEF Safety
  <2>2. arm' \in Frames
    <3>1. arm \in Frames /\ arm' = (arm + 1) % Capacity
      BY <1>9 DEF SweepEffect, NextArm
    <3> QED  BY <3>1, PoolAssumption DEF Frames
  <2> QED  BY <1>9, <2>1, <2>2 DEF SweepEffect, Stepped, Framed, Handed, TypeOK
<1>10. ASSUME NEW t \in Threads, ExhaustedEffect(t) PROVE TypeOK'
  BY <1>10 DEF ExhaustedEffect, Safety, TypeOK, Stepped, Framed, Handed
<1>11. ASSUME NEW t \in Threads, EvictWriteEffect(t) PROVE TypeOK'
  <2>1. TypeOK
    BY DEF Safety
  <2>2. durable' \in 0 .. MaxLsn /\ disk' \in [Pages -> Image]
    <3> DEFINE f == op[t].fid
    <3>1. CASE UNCHANGED <<durable, disk>>
      BY <2>1, <3>1 DEF TypeOK
    <3>2. CASE /\ frame[f].page \in Pages /\ durable' = FlushTo(frame[f].image)
               /\ disk' = [disk EXCEPT ![frame[f].page] = frame[f].image]
      <4>1. f \in Frames
        BY <1>11 DEF EvictWriteEffect
      <4>2. frame[f].image \in Image /\ durable \in 0 .. MaxLsn
        BY <2>1, <4>1 DEF TypeOK, Frame
      <4>3. frame[f].image.changes \in SUBSET (1 .. MaxLsn)
        BY <4>2 DEF Image
      <4>4. FlushTo(frame[f].image) \in 0 .. MaxLsn
        BY <4>2, <4>3, FlushToFacts
      <4> QED  BY <2>1, <3>2, <4>2, <4>4 DEF TypeOK
    <3> QED  BY <1>11, <3>1, <3>2 DEF EvictWriteEffect
  <2> QED  BY <1>11, <2>1, <2>2 DEF EvictWriteEffect, Stepped, Framed, Handed, TypeOK
<1>12. ASSUME NEW t \in Threads, EvictResetEffect(t) PROVE TypeOK'
  <2>1. TypeOK /\ op[t].fid \in Frames
    BY <1>12 DEF Safety, EvictResetEffect
  <2>2. pageTable' \in [Pages -> 0 .. Capacity]
    <3>1. NoFrame \in 0 .. Capacity
      BY PoolAssumption DEF NoFrame
    <3> QED  BY <1>12, <2>1, <3>1 DEF EvictResetEffect, TypeOK
  <2>3. freeFrames' \in Seq(Frames)
    <3>1. freeFrames \in Seq(Frames)
      BY <2>1 DEF TypeOK
    <3>2. freeFrames' = freeFrames \/ freeFrames' = Append(freeFrames, op[t].fid)
      BY <1>12 DEF EvictResetEffect
    <3> QED  BY <2>1, <3>1, <3>2
  <2>4. frame[op[t].fid].page \in Pages \cup {NoPage}
    BY <2>1 DEF TypeOK, Frame
  <2>5. stale' \subseteq Threads /\ raced' \subseteq Pages \cup {NoPage}
    BY <1>12, <2>1, <2>4 DEF EvictResetEffect, TypeOK, Users
  <2> QED  BY <1>12, <2>1, <2>2, <2>3, <2>5 DEF EvictResetEffect, Stepped, Framed, Handed, TypeOK
<1>13. ASSUME NEW t \in Threads, InstallEffect(t) PROVE TypeOK'
  <2>1. TypeOK /\ op[t].fid \in Frames /\ op[t].page \in Pages
    BY <1>13 DEF Safety, InstallEffect
  <2>2. pageTable' \in [Pages -> 0 .. Capacity]
    <3>1. op[t].fid \in 0 .. Capacity
      BY <2>1, PoolAssumption DEF Frames
    <3> QED  BY <1>13, <2>1, <3>1 DEF InstallEffect, TypeOK
  <2>3. /\ use' \in [Pages -> {"none", "live", "dead"}] /\ raced' \subseteq Pages \cup {NoPage}
        /\ content' \in [Pages -> SUBSET (1 .. MaxLsn)]
    BY <1>13, <2>1 DEF InstallEffect, TypeOK
  <2> QED  BY <1>13, <2>1, <2>2, <2>3 DEF InstallEffect, Stepped, Framed, Handed, TypeOK
<1>14. ASSUME NEW t \in Threads, IoErrorEffect(t) PROVE TypeOK'
  BY <1>14 DEF IoErrorEffect, Safety, TypeOK, Stepped, Framed, Handed
<1>15. ASSUME NEW t \in Threads, WriteEffect(t) PROVE TypeOK'
  <2>1. TypeOK /\ guard[t].fid \in Frames /\ guard[t].page \in Pages /\ lsn' \in 1 .. MaxLsn
    BY <1>15 DEF Safety, WriteEffect
  <2>2. frame[guard[t].fid].page \in Pages \cup {NoPage}
    BY <2>1 DEF TypeOK, Frame
  <2>3. raced' \subseteq Pages \cup {NoPage}
    BY <1>15, <2>1, <2>2 DEF WriteEffect, TypeOK
  <2>5. content' \in [Pages -> SUBSET (1 .. MaxLsn)]
    <3>1. content \in [Pages -> SUBSET (1 .. MaxLsn)]
      BY <2>1 DEF TypeOK
    <3>2. content' = content \/ content' = [content EXCEPT ![guard[t].page] = @ \cup {lsn'}]
      BY <1>15 DEF WriteEffect
    <3> DEFINE n == lsn'
    <3>3. n \in 1 .. MaxLsn /\ (content' = content \/ content' = [content EXCEPT ![guard[t].page] = @ \cup {n}])
      BY <2>1, <3>2
    <3> HIDE DEF n
    <3> QED  BY <2>1, <3>1, <3>3
  <2>4. lsn' \in 0 .. MaxLsn
    BY <2>1
  <2> QED  BY <1>15, <2>1, <2>3, <2>4, <2>5 DEF WriteEffect, Stepped, Framed, Handed, TypeOK
<1>16. ASSUME NEW t \in Threads, ReleaseEffect(t) PROVE TypeOK'
  BY <1>16 DEF ReleaseEffect, Safety, TypeOK, Stepped, Framed, Handed
<1>17. ASSUME NEW t \in Threads, NoteDirtyEffect(t) PROVE TypeOK'
  <2>1. TypeOK
    BY DEF Safety
  <2>2. guard[t].page \in Pages \cup {NoPage}
    BY <2>1 DEF TypeOK, Guard
  <2>3. raced' \subseteq Pages \cup {NoPage}
    BY <1>17, <2>1, <2>2 DEF NoteDirtyEffect, TypeOK
  <2> QED  BY <1>17, <2>1, <2>3 DEF NoteDirtyEffect, Stepped, Framed, Handed, TypeOK
<1>18. ASSUME NEW t \in Threads, UnpinEffect(t) PROVE TypeOK'
  <2>1. TypeOK /\ guard[t].fid \in Frames
    BY <1>18 DEF Safety, UnpinEffect
  <2>2. frame[guard[t].fid].page \in Pages \cup {NoPage}
    BY <2>1 DEF TypeOK, Frame
  <2>3. raced' \subseteq Pages \cup {NoPage}
    BY <1>18, <2>1, <2>2 DEF UnpinEffect, TypeOK
  <2> QED  BY <1>18, <2>1, <2>3 DEF UnpinEffect, Stepped, Framed, Handed, TypeOK
<1>19. ASSUME NEW t \in Threads, FlushAllEffect(t) PROVE TypeOK'
  BY <1>19 DEF FlushAllEffect, Safety, TypeOK, Stepped, Framed, Handed
<1>20. ASSUME NEW t \in Threads, ScanFrameEffect(t) PROVE TypeOK'
  BY <1>20 DEF ScanFrameEffect, Safety, TypeOK, Stepped, Framed, Handed
<1>21. ASSUME NEW t \in Threads, ScanEndEffect(t) PROVE TypeOK'
  BY <1>21 DEF ScanEndEffect, Safety, TypeOK, Stepped, Framed, Handed
<1>22. ASSUME NEW t \in Threads, FlushWriteEffect(t) PROVE TypeOK'
  <2>1. TypeOK /\ op[t].fid \in Frames /\ op[t].page \in Pages
    BY <1>22 DEF Safety, FlushWriteEffect
  <2>2. frame[op[t].fid].image \in Image
    BY <2>1 DEF TypeOK, Frame
  <2>3. frame[op[t].fid].image.changes \in SUBSET (1 .. MaxLsn)
    BY <2>2 DEF Image
  <2>4. disk' \in [Pages -> Image] /\ early' \subseteq 1 .. MaxLsn /\ raced' \subseteq Pages \cup {NoPage}
    BY <1>22, <2>1, <2>2, <2>3 DEF FlushWriteEffect, TypeOK
  <2> QED  BY <1>22, <2>1, <2>4 DEF FlushWriteEffect, Stepped, Framed, Handed, TypeOK
<1>23. ASSUME NEW t \in Threads, FlushCleanEffect(t) PROVE TypeOK'
  <2>1. TypeOK /\ op[t].fid \in Frames
    BY <1>23 DEF Safety, FlushCleanEffect
  <2>2. frame[op[t].fid].page \in Pages \cup {NoPage}
    BY <2>1 DEF TypeOK, Frame
  <2>3. raced' \subseteq Pages \cup {NoPage}
    BY <1>23, <2>1, <2>2 DEF FlushCleanEffect, TypeOK
  <2> QED  BY <1>23, <2>1, <2>3 DEF FlushCleanEffect, Stepped, Framed, Handed, TypeOK
<1>24. ASSUME NEW t \in Threads, FlushUndirtyEffect(t) PROVE TypeOK'
  BY <1>24 DEF FlushUndirtyEffect, Safety, TypeOK, Stepped, Framed, Handed
<1>25. CASE UNCHANGED vars
  BY <1>25 DEF vars, poolVars, fileVars, bounds, history, Safety, TypeOK, Stepped, Framed, Handed
<1> QED
  BY <1>1, <1>2, <1>3, <1>4, <1>5, <1>6, <1>7, <1>8, <1>9, <1>10, <1>11, <1>12, <1>13, <1>14, <1>15, <1>16,
     <1>17, <1>18, <1>19, <1>20, <1>21, <1>22, <1>23, <1>24, <1>25
  DEF Effect

\* A thread in no call is nowhere.
LEMMA NoOpAt == NoOp.at = "none"
  BY DEF NoOp

\* A step of one thread leaves the others where they are.
LEMMA OthersPlaced ==
    ASSUME Placed, NEW t \in Threads, Stepped(t), PlacedAt(t)',
           \A u \in Threads \ {t} : guard'[u] = guard[u] /\ (u \in stale' => u \in stale)
    PROVE  Placed'
<1> SUFFICES ASSUME NEW u \in Threads, u # t PROVE PlacedAt(u)'
  BY DEF Placed
<1>1. op'[u] = op[u] /\ guard'[u] = guard[u] /\ (u \in stale' => u \in stale) /\ PlacedAt(u)
  BY DEF Stepped, Placed
<1> QED  BY <1>1 DEF PlacedAt, Holding

\* A thread that has returned.
LEMMA ReturnPlaced ==
    ASSUME NEW t \in Threads, op'[t] = NoOp, t \in stale' => Holding(t)',
           Holding(t)' => guard'[t].page \in Pages /\ guard'[t].fid \in Frames
    PROVE  PlacedAt(t)'
  BY NoOpAt DEF PlacedAt, Holding, Locking

\* Every step keeps what a thread has where it is.
LEMMA PlacedKept == Safety /\ Effect => Placed'
<1> SUFFICES ASSUME Safety, Effect PROVE Placed'
  OBVIOUS
<1>1. ASSUME NEW t \in Threads, NEW p \in Pages, HitEffect(t, p) PROVE Placed'
  <2>1. Placed /\ PlacedAt(t) /\ Stepped(t)
    BY <1>1 DEF Safety, Placed, HitEffect
  <2>2. \A u \in Threads \ {t} : guard'[u] = guard[u] /\ (u \in stale' => u \in stale)
    BY <1>1 DEF HitEffect, Handed
  <2>3. op'[t] = NoOp /\ pageTable[p] \in Frames /\ ~Holding(t) /\ stale' = stale
    BY <1>1 DEF HitEffect
  <2>4. guard'[t] = [page |-> p, fid |-> pageTable[p], mutated |-> FALSE]
    BY <1>1 DEF HitEffect
  <2>5. t \notin stale
    BY <2>1, <2>3 DEF PlacedAt
  <2>9. PlacedAt(t)'
    BY <2>3, <2>4, <2>5, ReturnPlaced DEF Holding
  <2> QED  BY <2>1, <2>2, <2>9, OthersPlaced
<1>2. ASSUME NEW t \in Threads, NEW p \in Pages, MissEffect(t, p) PROVE Placed'
  <2>1. Placed /\ PlacedAt(t) /\ Stepped(t)
    BY <1>2 DEF Safety, Placed, MissEffect
  <2>2. \A u \in Threads \ {t} : guard'[u] = guard[u] /\ (u \in stale' => u \in stale)
    BY <1>2 DEF MissEffect, Handed
  <2>3. ~Holding(t) /\ guard' = guard /\ stale' = stale
    BY <1>2, <2>1, NoOpAt DEF MissEffect, PlacedAt
  <2>9. PlacedAt(t)'
    BY <1>2, <2>1, <2>3 DEF MissEffect, PlacedAt, Holding, Locking
  <2> QED  BY <2>1, <2>2, <2>9, OthersPlaced
<1>3. ASSUME NEW t \in Threads, NEW p \in Pages, SlowEffect(t, p) PROVE Placed'
  <2>1. Placed /\ PlacedAt(t) /\ Stepped(t)
    BY <1>3 DEF Safety, Placed, SlowEffect
  <2>2. \A u \in Threads \ {t} : guard'[u] = guard[u] /\ (u \in stale' => u \in stale)
    BY <1>3 DEF SlowEffect, Handed
  <2>3. ~Holding(t) /\ guard' = guard /\ stale' = stale
    BY <1>3, <2>1, NoOpAt DEF SlowEffect, PlacedAt
  <2>9. PlacedAt(t)'
    BY <1>3, <2>1, <2>3 DEF SlowEffect, PlacedAt, Holding, Locking
  <2> QED  BY <2>1, <2>2, <2>9, OthersPlaced
<1>4. ASSUME NEW t \in Threads, NEW p \in Pages, RecycleEffect(t, p) PROVE Placed'
  BY <1>4
    DEF RecycleEffect, Safety, Placed, PlacedAt, Stepped, Framed, Handed, Holding, NoOp, NoGuard,
    Locking
<1>5. ASSUME NEW t \in Threads, NEW p \in Pages, FreshEffect(t, p) PROVE Placed'
  <2>1. Placed /\ PlacedAt(t) /\ Stepped(t)
    BY <1>5 DEF Safety, Placed, FreshEffect
  <2>2. \A u \in Threads \ {t} : guard'[u] = guard[u] /\ (u \in stale' => u \in stale)
    BY <1>5 DEF FreshEffect, Handed
  <2>3. ~Holding(t) /\ guard' = guard /\ stale' = stale
    BY <1>5, <2>1, NoOpAt DEF FreshEffect, PlacedAt
  <2>9. PlacedAt(t)'
    BY <1>5, <2>1, <2>3 DEF FreshEffect, PlacedAt, Holding, Locking
  <2> QED  BY <2>1, <2>2, <2>9, OthersPlaced
<1>6. ASSUME NEW t \in Threads, NEW p \in Pages, NewSlowEffect(t, p) PROVE Placed'
  <2>1. Placed /\ PlacedAt(t) /\ Stepped(t)
    BY <1>6 DEF Safety, Placed, NewSlowEffect
  <2>2. \A u \in Threads \ {t} : guard'[u] = guard[u] /\ (u \in stale' => u \in stale)
    BY <1>6 DEF NewSlowEffect, Handed
  <2>3. ~Holding(t) /\ guard' = guard /\ stale' = stale
    BY <1>6, <2>1, NoOpAt DEF NewSlowEffect, PlacedAt
  <2>9. PlacedAt(t)'
    BY <1>6, <2>1, <2>3 DEF NewSlowEffect, PlacedAt, Holding, Locking
  <2> QED  BY <2>1, <2>2, <2>9, OthersPlaced
<1>7. ASSUME NEW t \in Threads, RecycledEffect(t) PROVE Placed'
  <2>1. Placed /\ PlacedAt(t) /\ Stepped(t)
    BY <1>7 DEF Safety, Placed, RecycledEffect
  <2>2. \A u \in Threads \ {t} : guard'[u] = guard[u] /\ (u \in stale' => u \in stale)
    BY <1>7 DEF RecycledEffect, Handed
  <2>3. ~Holding(t) /\ guard' = guard /\ stale' = stale
    BY <1>7, <2>1, NoOpAt DEF RecycledEffect, PlacedAt
  <2>9. PlacedAt(t)'
    BY <1>7, <2>1, <2>3 DEF RecycledEffect, PlacedAt, Holding, Locking
  <2> QED  BY <2>1, <2>2, <2>9, OthersPlaced
<1>8. ASSUME NEW t \in Threads, PickEffect(t) PROVE Placed'
  <2>1. Placed /\ PlacedAt(t) /\ Stepped(t)
    BY <1>8 DEF Safety, Placed, PickEffect
  <2>2. \A u \in Threads \ {t} : guard'[u] = guard[u] /\ (u \in stale' => u \in stale)
    BY <1>8 DEF PickEffect, Handed
  <2>3. ~Holding(t) /\ guard' = guard /\ stale' = stale
    BY <1>8, <2>1, NoOpAt DEF PickEffect, PlacedAt
  <2>9. PlacedAt(t)'
    BY <1>8, <2>1, <2>3 DEF PickEffect, PlacedAt, Holding, Locking
  <2> QED  BY <2>1, <2>2, <2>9, OthersPlaced
<1>9. ASSUME NEW t \in Threads, SweepEffect(t) PROVE Placed'
  <2>1. Placed /\ PlacedAt(t) /\ Stepped(t)
    BY <1>9 DEF Safety, Placed, SweepEffect
  <2>2. \A u \in Threads \ {t} : guard'[u] = guard[u] /\ (u \in stale' => u \in stale)
    BY <1>9 DEF SweepEffect, Handed
  <2>3. ~Holding(t) /\ guard' = guard /\ stale' = stale
    BY <1>9, <2>1, NoOpAt DEF SweepEffect, PlacedAt
  <2>9. PlacedAt(t)'
    BY <1>9, <2>1, <2>3 DEF SweepEffect, PlacedAt, Holding, Locking
  <2> QED  BY <2>1, <2>2, <2>9, OthersPlaced
<1>10. ASSUME NEW t \in Threads, ExhaustedEffect(t) PROVE Placed'
  <2>1. Placed /\ PlacedAt(t) /\ Stepped(t)
    BY <1>10 DEF Safety, Placed, ExhaustedEffect
  <2>2. \A u \in Threads \ {t} : guard'[u] = guard[u] /\ (u \in stale' => u \in stale)
    BY <1>10 DEF ExhaustedEffect, Handed
  <2>3. op'[t] = NoOp /\ guard' = guard /\ stale' = stale
    BY <1>10 DEF ExhaustedEffect
  <2>9. PlacedAt(t)'
    BY <2>1, <2>3, ReturnPlaced DEF PlacedAt, Holding
  <2> QED  BY <2>1, <2>2, <2>9, OthersPlaced
<1>11. ASSUME NEW t \in Threads, EvictWriteEffect(t) PROVE Placed'
  <2>1. Placed /\ PlacedAt(t) /\ Stepped(t)
    BY <1>11 DEF Safety, Placed, EvictWriteEffect
  <2>2. \A u \in Threads \ {t} : guard'[u] = guard[u] /\ (u \in stale' => u \in stale)
    BY <1>11 DEF EvictWriteEffect, Handed
  <2>3. ~Holding(t) /\ guard' = guard /\ stale' = stale
    BY <1>11, <2>1, NoOpAt DEF EvictWriteEffect, PlacedAt
  <2>9. PlacedAt(t)'
    BY <1>11, <2>1, <2>3 DEF EvictWriteEffect, PlacedAt, Holding, Locking
  <2> QED  BY <2>1, <2>2, <2>9, OthersPlaced
<1>12. ASSUME NEW t \in Threads, EvictResetEffect(t) PROVE Placed'
  <2>1. Placed /\ PlacedAt(t) /\ Stepped(t) /\ op[t].at = "reset" /\ op[t].fid \in Frames /\ guard' = guard
    BY <1>12 DEF Safety, Placed, EvictResetEffect
  <2>2. stale' = stale \cup Users(op[t].fid)
    BY <1>12 DEF EvictResetEffect
  <2>3. \A u \in Threads : u \in stale' => Holding(u)
    <3> SUFFICES ASSUME NEW u \in Threads, guard[u].fid = op[t].fid PROVE guard[u] # NoGuard
      BY <2>1, <2>2 DEF Placed, PlacedAt, Users, Holding
    <3> QED  BY <2>1, PoolAssumption DEF NoGuard, NoFrame, Frames
  <2>4. \A u \in Threads : PlacedAt(u)'
    <3> SUFFICES ASSUME NEW u \in Threads PROVE PlacedAt(u)'
      OBVIOUS
    <3>1. CASE u # t
      <4>1. op'[u] = op[u] /\ PlacedAt(u)
        BY <2>1, <3>1 DEF Stepped, Placed
      <4> QED  BY <2>1, <2>3, <4>1 DEF PlacedAt, Holding
    <3>2. CASE u = t
      <4>1. op'[t].at \in {"pick", "install"} /\ op'[t].page \in Pages
        BY <1>12 DEF EvictResetEffect
      <4>2. op'[t].at = "install" => op'[t].fid \in Frames
        BY <1>12 DEF EvictResetEffect
      <4>3. ~Holding(t)
        BY <2>1 DEF PlacedAt
      <4> QED  BY <2>1, <2>3, <3>2, <4>1, <4>2, <4>3 DEF PlacedAt, Holding, Locking
    <3> QED  BY <3>1, <3>2
  <2> QED  BY <2>4 DEF Placed
<1>13. ASSUME NEW t \in Threads, InstallEffect(t) PROVE Placed'
  <2>1. Placed /\ PlacedAt(t) /\ Stepped(t)
    BY <1>13 DEF Safety, Placed, InstallEffect
  <2>2. \A u \in Threads \ {t} : guard'[u] = guard[u] /\ (u \in stale' => u \in stale)
    BY <1>13 DEF InstallEffect, Handed
  <2>3. op'[t] = NoOp /\ op[t].fid \in Frames /\ op[t].page \in Pages /\ stale' = stale /\ op[t].at = "install"
    BY <1>13 DEF InstallEffect
  <2>4. guard'[t] = [page |-> op[t].page, fid |-> op[t].fid, mutated |-> FALSE]
    BY <1>13 DEF InstallEffect
  <2>5. t \notin stale
    BY <2>1, <2>3 DEF PlacedAt
  <2>9. PlacedAt(t)'
    BY <2>3, <2>4, <2>5, ReturnPlaced DEF Holding
  <2> QED  BY <2>1, <2>2, <2>9, OthersPlaced
<1>14. ASSUME NEW t \in Threads, IoErrorEffect(t) PROVE Placed'
  <2>1. Placed /\ PlacedAt(t) /\ Stepped(t)
    BY <1>14 DEF Safety, Placed, IoErrorEffect
  <2>2. \A u \in Threads \ {t} : guard'[u] = guard[u] /\ (u \in stale' => u \in stale)
    BY <1>14 DEF IoErrorEffect, Handed
  <2>3. op'[t] = NoOp /\ guard' = guard /\ stale' = stale
    BY <1>14 DEF IoErrorEffect
  <2>9. PlacedAt(t)'
    BY <2>1, <2>3, ReturnPlaced DEF PlacedAt, Holding
  <2> QED  BY <2>1, <2>2, <2>9, OthersPlaced
<1>15. ASSUME NEW t \in Threads, WriteEffect(t) PROVE Placed'
  <2>1. Placed /\ PlacedAt(t) /\ Stepped(t)
    BY <1>15 DEF Safety, Placed, WriteEffect, Stepped, TypeOK
  <2>2. \A u \in Threads \ {t} : guard'[u] = guard[u] /\ (u \in stale' => u \in stale)
    BY <1>15 DEF WriteEffect, Handed
  <2>3. op'[t] = NoOp /\ stale' = stale
    BY <1>15 DEF WriteEffect
  <2>4. guard'[t].mutated /\ guard'[t].page \in Pages /\ guard'[t].fid \in Frames
    BY <1>15 DEF WriteEffect
  <2>5. guard'[t] # NoGuard
    BY <2>4, PoolAssumption DEF NoGuard
  <2>9. PlacedAt(t)'
    BY <2>3, <2>4, <2>5, ReturnPlaced DEF Holding
  <2> QED  BY <2>1, <2>2, <2>9, OthersPlaced
<1>16. ASSUME NEW t \in Threads, ReleaseEffect(t) PROVE Placed'
  <2>1. Placed /\ PlacedAt(t) /\ Stepped(t)
    BY <1>16 DEF Safety, Placed, ReleaseEffect
  <2>2. \A u \in Threads \ {t} : guard'[u] = guard[u] /\ (u \in stale' => u \in stale)
    BY <1>16 DEF ReleaseEffect, Handed
  <2>9. PlacedAt(t)'
    <3>1. CASE op'[t] = NoOp /\ guard'[t] = NoGuard /\ stale' = stale \ {t}
      BY <3>1, ReturnPlaced DEF Holding
    <3>2. CASE op'[t].at \in {"unpin", "dpt"} /\ guard' = guard /\ stale' = stale
      <4>1. Holding(t)
        BY <1>16 DEF ReleaseEffect
      <4> QED  BY <2>1, <3>2, <4>1 DEF PlacedAt, Holding, Locking
    <3> QED  BY <1>16, <3>1, <3>2 DEF ReleaseEffect
  <2> QED  BY <2>1, <2>2, <2>9, OthersPlaced
<1>17. ASSUME NEW t \in Threads, NoteDirtyEffect(t) PROVE Placed'
  BY <1>17
    DEF NoteDirtyEffect, Safety, Placed, PlacedAt, Stepped, Framed, Handed, Holding, NoOp, NoGuard,
    Locking
<1>18. ASSUME NEW t \in Threads, UnpinEffect(t) PROVE Placed'
  <2>1. Placed /\ PlacedAt(t) /\ Stepped(t)
    BY <1>18 DEF Safety, Placed, UnpinEffect
  <2>2. \A u \in Threads \ {t} : guard'[u] = guard[u] /\ (u \in stale' => u \in stale)
    BY <1>18 DEF UnpinEffect, Handed
  <2>3. op'[t] = NoOp /\ guard'[t] = NoGuard /\ stale' = stale \ {t}
    BY <1>18 DEF UnpinEffect
  <2>9. PlacedAt(t)'
    BY <2>3, ReturnPlaced DEF Holding
  <2> QED  BY <2>1, <2>2, <2>9, OthersPlaced
<1>19. ASSUME NEW t \in Threads, FlushAllEffect(t) PROVE Placed'
  <2>1. Placed /\ PlacedAt(t) /\ Stepped(t)
    BY <1>19 DEF Safety, Placed, FlushAllEffect
  <2>2. \A u \in Threads \ {t} : guard'[u] = guard[u] /\ (u \in stale' => u \in stale)
    BY <1>19 DEF FlushAllEffect, Handed
  <2>3. ~Holding(t) /\ guard' = guard /\ stale' = stale
    BY <1>19, <2>1, NoOpAt DEF FlushAllEffect, PlacedAt
  <2>9. PlacedAt(t)'
    BY <1>19, <2>1, <2>3 DEF FlushAllEffect, PlacedAt, Holding, Locking
  <2> QED  BY <2>1, <2>2, <2>9, OthersPlaced
<1>20. ASSUME NEW t \in Threads, ScanFrameEffect(t) PROVE Placed'
  <2>1. Placed /\ PlacedAt(t) /\ Stepped(t)
    BY <1>20 DEF Safety, Placed, ScanFrameEffect
  <2>2. \A u \in Threads \ {t} : guard'[u] = guard[u] /\ (u \in stale' => u \in stale)
    BY <1>20 DEF ScanFrameEffect, Handed
  <2>3. ~Holding(t) /\ guard' = guard /\ stale' = stale
    BY <1>20, <2>1, NoOpAt DEF ScanFrameEffect, PlacedAt
  <2>9. PlacedAt(t)'
    BY <1>20, <2>1, <2>3 DEF ScanFrameEffect, PlacedAt, Holding, Locking
  <2> QED  BY <2>1, <2>2, <2>9, OthersPlaced
<1>21. ASSUME NEW t \in Threads, ScanEndEffect(t) PROVE Placed'
  <2>1. Placed /\ PlacedAt(t) /\ Stepped(t)
    BY <1>21 DEF Safety, Placed, ScanEndEffect
  <2>2. \A u \in Threads \ {t} : guard'[u] = guard[u] /\ (u \in stale' => u \in stale)
    BY <1>21 DEF ScanEndEffect, Handed
  <2>3. op'[t] = NoOp /\ guard' = guard /\ stale' = stale
    BY <1>21 DEF ScanEndEffect
  <2>9. PlacedAt(t)'
    BY <2>1, <2>3, ReturnPlaced DEF PlacedAt, Holding
  <2> QED  BY <2>1, <2>2, <2>9, OthersPlaced
<1>22. ASSUME NEW t \in Threads, FlushWriteEffect(t) PROVE Placed'
  <2>1. Placed /\ PlacedAt(t) /\ Stepped(t)
    BY <1>22 DEF Safety, Placed, FlushWriteEffect
  <2>2. \A u \in Threads \ {t} : guard'[u] = guard[u] /\ (u \in stale' => u \in stale)
    BY <1>22 DEF FlushWriteEffect, Handed
  <2>3. ~Holding(t) /\ guard' = guard /\ stale' = stale
    BY <1>22, <2>1, NoOpAt DEF FlushWriteEffect, PlacedAt
  <2>9. PlacedAt(t)'
    BY <1>22, <2>1, <2>3 DEF FlushWriteEffect, PlacedAt, Holding, Locking
  <2> QED  BY <2>1, <2>2, <2>9, OthersPlaced
<1>23. ASSUME NEW t \in Threads, FlushCleanEffect(t) PROVE Placed'
  <2>1. Placed /\ PlacedAt(t) /\ Stepped(t)
    BY <1>23 DEF Safety, Placed, FlushCleanEffect
  <2>2. \A u \in Threads \ {t} : guard'[u] = guard[u] /\ (u \in stale' => u \in stale)
    BY <1>23 DEF FlushCleanEffect, Handed
  <2>3. ~Holding(t) /\ guard' = guard /\ stale' = stale
    BY <1>23, <2>1, NoOpAt DEF FlushCleanEffect, PlacedAt
  <2>9. PlacedAt(t)'
    BY <1>23, <2>1, <2>3 DEF FlushCleanEffect, PlacedAt, Holding, Locking
  <2> QED  BY <2>1, <2>2, <2>9, OthersPlaced
<1>24. ASSUME NEW t \in Threads, FlushUndirtyEffect(t) PROVE Placed'
  <2>1. Placed /\ PlacedAt(t) /\ Stepped(t)
    BY <1>24 DEF Safety, Placed, FlushUndirtyEffect
  <2>2. \A u \in Threads \ {t} : guard'[u] = guard[u] /\ (u \in stale' => u \in stale)
    BY <1>24 DEF FlushUndirtyEffect, Handed
  <2>3. ~Holding(t) /\ guard' = guard /\ stale' = stale
    BY <1>24, <2>1, NoOpAt DEF FlushUndirtyEffect, PlacedAt
  <2>9. PlacedAt(t)'
    BY <1>24, <2>1, <2>3 DEF FlushUndirtyEffect, PlacedAt, Holding, Locking
  <2> QED  BY <2>1, <2>2, <2>9, OthersPlaced
<1>25. CASE UNCHANGED vars
  BY <1>25
    DEF vars, poolVars, fileVars, bounds, history, Safety, Placed, PlacedAt, Stepped, Framed, Handed,
    Holding, NoOp, NoGuard, Locking
<1> QED
  BY <1>1, <1>2, <1>3, <1>4, <1>5, <1>6, <1>7, <1>8, <1>9, <1>10, <1>11, <1>12, <1>13, <1>14, <1>15, <1>16,
     <1>17, <1>18, <1>19, <1>20, <1>21, <1>22, <1>23, <1>24, <1>25
  DEF Effect

\* The lock is taken only when nobody has it.
LEMMA ExclusiveStays ==
    ASSUME Exclusive, NEW t \in Threads, Stepped(t),
           op'[t].at \in Locking => op[t].at \in Locking \/ TableFree
    PROVE  Exclusive'
  BY DEF Exclusive, Stepped, TableFree, Locking

\* The table's write lock has one holder after every step.
LEMMA ExclusiveKept == Safety /\ Effect => Exclusive'
<1> SUFFICES ASSUME Safety, Effect PROVE Exclusive'
  OBVIOUS
<1>1. ASSUME NEW t \in Threads, NEW p \in Pages, HitEffect(t, p) PROVE Exclusive'
  <2>1. Stepped(t) /\ Exclusive
    BY <1>1 DEF HitEffect, Safety
  <2>2. op'[t].at \in Locking => op[t].at \in Locking \/ TableFree
    BY <1>1, NoOpAt DEF HitEffect, Locking
  <2> QED  BY <2>1, <2>2, ExclusiveStays
<1>2. ASSUME NEW t \in Threads, NEW p \in Pages, MissEffect(t, p) PROVE Exclusive'
  <2>1. Stepped(t) /\ Exclusive
    BY <1>2 DEF MissEffect, Safety
  <2>2. op'[t].at \in Locking => op[t].at \in Locking \/ TableFree
    BY <1>2, NoOpAt DEF MissEffect, Locking
  <2> QED  BY <2>1, <2>2, ExclusiveStays
<1>3. ASSUME NEW t \in Threads, NEW p \in Pages, SlowEffect(t, p) PROVE Exclusive'
  <2>1. Stepped(t) /\ Exclusive
    BY <1>3 DEF SlowEffect, Safety
  <2>2. op'[t].at \in Locking => op[t].at \in Locking \/ TableFree
    BY <1>3, NoOpAt DEF SlowEffect, Locking
  <2> QED  BY <2>1, <2>2, ExclusiveStays
<1>4. ASSUME NEW t \in Threads, NEW p \in Pages, RecycleEffect(t, p) PROVE Exclusive'
  BY <1>4 DEF RecycleEffect, Safety, Exclusive
<1>5. ASSUME NEW t \in Threads, NEW p \in Pages, FreshEffect(t, p) PROVE Exclusive'
  <2>1. Stepped(t) /\ Exclusive
    BY <1>5 DEF FreshEffect, Safety
  <2>2. op'[t].at \in Locking => op[t].at \in Locking \/ TableFree
    BY <1>5, NoOpAt DEF FreshEffect, Locking
  <2> QED  BY <2>1, <2>2, ExclusiveStays
<1>6. ASSUME NEW t \in Threads, NEW p \in Pages, NewSlowEffect(t, p) PROVE Exclusive'
  <2>1. Stepped(t) /\ Exclusive
    BY <1>6 DEF NewSlowEffect, Safety
  <2>2. op'[t].at \in Locking => op[t].at \in Locking \/ TableFree
    BY <1>6, NoOpAt DEF NewSlowEffect, Locking
  <2> QED  BY <2>1, <2>2, ExclusiveStays
<1>7. ASSUME NEW t \in Threads, RecycledEffect(t) PROVE Exclusive'
  <2>1. Stepped(t) /\ Exclusive
    BY <1>7 DEF RecycledEffect, Safety
  <2>2. op'[t].at \in Locking => op[t].at \in Locking \/ TableFree
    BY <1>7, NoOpAt DEF RecycledEffect, Locking
  <2> QED  BY <2>1, <2>2, ExclusiveStays
<1>8. ASSUME NEW t \in Threads, PickEffect(t) PROVE Exclusive'
  <2>1. Stepped(t) /\ Exclusive
    BY <1>8 DEF PickEffect, Safety
  <2>2. op'[t].at \in Locking => op[t].at \in Locking \/ TableFree
    BY <1>8, NoOpAt DEF PickEffect, Locking
  <2> QED  BY <2>1, <2>2, ExclusiveStays
<1>9. ASSUME NEW t \in Threads, SweepEffect(t) PROVE Exclusive'
  <2>1. Stepped(t) /\ Exclusive
    BY <1>9 DEF SweepEffect, Safety
  <2>2. op'[t].at \in Locking => op[t].at \in Locking \/ TableFree
    BY <1>9, NoOpAt DEF SweepEffect, Locking
  <2> QED  BY <2>1, <2>2, ExclusiveStays
<1>10. ASSUME NEW t \in Threads, ExhaustedEffect(t) PROVE Exclusive'
  <2>1. Stepped(t) /\ Exclusive
    BY <1>10 DEF ExhaustedEffect, Safety
  <2>2. op'[t].at \in Locking => op[t].at \in Locking \/ TableFree
    BY <1>10, NoOpAt DEF ExhaustedEffect, Locking
  <2> QED  BY <2>1, <2>2, ExclusiveStays
<1>11. ASSUME NEW t \in Threads, EvictWriteEffect(t) PROVE Exclusive'
  <2>1. Stepped(t) /\ Exclusive
    BY <1>11 DEF EvictWriteEffect, Safety
  <2>2. op'[t].at \in Locking => op[t].at \in Locking \/ TableFree
    BY <1>11, NoOpAt DEF EvictWriteEffect, Locking
  <2> QED  BY <2>1, <2>2, ExclusiveStays
<1>12. ASSUME NEW t \in Threads, EvictResetEffect(t) PROVE Exclusive'
  <2>1. Stepped(t) /\ Exclusive
    BY <1>12 DEF EvictResetEffect, Safety
  <2>2. op'[t].at \in Locking => op[t].at \in Locking \/ TableFree
    BY <1>12, NoOpAt DEF EvictResetEffect, Locking
  <2> QED  BY <2>1, <2>2, ExclusiveStays
<1>13. ASSUME NEW t \in Threads, InstallEffect(t) PROVE Exclusive'
  <2>1. Stepped(t) /\ Exclusive
    BY <1>13 DEF InstallEffect, Safety
  <2>2. op'[t].at \in Locking => op[t].at \in Locking \/ TableFree
    BY <1>13, NoOpAt DEF InstallEffect, Locking
  <2> QED  BY <2>1, <2>2, ExclusiveStays
<1>14. ASSUME NEW t \in Threads, IoErrorEffect(t) PROVE Exclusive'
  <2>1. Stepped(t) /\ Exclusive
    BY <1>14 DEF IoErrorEffect, Safety
  <2>2. op'[t].at \in Locking => op[t].at \in Locking \/ TableFree
    BY <1>14, NoOpAt DEF IoErrorEffect, Locking
  <2> QED  BY <2>1, <2>2, ExclusiveStays
<1>15. ASSUME NEW t \in Threads, WriteEffect(t) PROVE Exclusive'
  BY <1>15 DEF WriteEffect, Safety, Exclusive
<1>16. ASSUME NEW t \in Threads, ReleaseEffect(t) PROVE Exclusive'
  <2>1. Stepped(t) /\ Exclusive
    BY <1>16 DEF ReleaseEffect, Safety
  <2>2. op'[t].at \in Locking => op[t].at \in Locking \/ TableFree
    BY <1>16, NoOpAt DEF ReleaseEffect, Locking
  <2> QED  BY <2>1, <2>2, ExclusiveStays
<1>17. ASSUME NEW t \in Threads, NoteDirtyEffect(t) PROVE Exclusive'
  <2>1. Stepped(t) /\ Exclusive
    BY <1>17 DEF NoteDirtyEffect, Safety
  <2>2. op'[t].at \in Locking => op[t].at \in Locking \/ TableFree
    BY <1>17, NoOpAt DEF NoteDirtyEffect, Locking
  <2> QED  BY <2>1, <2>2, ExclusiveStays
<1>18. ASSUME NEW t \in Threads, UnpinEffect(t) PROVE Exclusive'
  <2>1. Stepped(t) /\ Exclusive
    BY <1>18 DEF UnpinEffect, Safety
  <2>2. op'[t].at \in Locking => op[t].at \in Locking \/ TableFree
    BY <1>18, NoOpAt DEF UnpinEffect, Locking
  <2> QED  BY <2>1, <2>2, ExclusiveStays
<1>19. ASSUME NEW t \in Threads, FlushAllEffect(t) PROVE Exclusive'
  <2>1. Stepped(t) /\ Exclusive
    BY <1>19 DEF FlushAllEffect, Safety
  <2>2. op'[t].at \in Locking => op[t].at \in Locking \/ TableFree
    BY <1>19, NoOpAt DEF FlushAllEffect, Locking
  <2> QED  BY <2>1, <2>2, ExclusiveStays
<1>20. ASSUME NEW t \in Threads, ScanFrameEffect(t) PROVE Exclusive'
  <2>1. Stepped(t) /\ Exclusive
    BY <1>20 DEF ScanFrameEffect, Safety
  <2>2. op'[t].at \in Locking => op[t].at \in Locking \/ TableFree
    BY <1>20, NoOpAt DEF ScanFrameEffect, Locking
  <2> QED  BY <2>1, <2>2, ExclusiveStays
<1>21. ASSUME NEW t \in Threads, ScanEndEffect(t) PROVE Exclusive'
  <2>1. Stepped(t) /\ Exclusive
    BY <1>21 DEF ScanEndEffect, Safety
  <2>2. op'[t].at \in Locking => op[t].at \in Locking \/ TableFree
    BY <1>21, NoOpAt DEF ScanEndEffect, Locking
  <2> QED  BY <2>1, <2>2, ExclusiveStays
<1>22. ASSUME NEW t \in Threads, FlushWriteEffect(t) PROVE Exclusive'
  <2>1. Stepped(t) /\ Exclusive
    BY <1>22 DEF FlushWriteEffect, Safety
  <2>2. op'[t].at \in Locking => op[t].at \in Locking \/ TableFree
    BY <1>22, NoOpAt DEF FlushWriteEffect, Locking
  <2> QED  BY <2>1, <2>2, ExclusiveStays
<1>23. ASSUME NEW t \in Threads, FlushCleanEffect(t) PROVE Exclusive'
  <2>1. Stepped(t) /\ Exclusive
    BY <1>23 DEF FlushCleanEffect, Safety
  <2>2. op'[t].at \in Locking => op[t].at \in Locking \/ TableFree
    BY <1>23, NoOpAt DEF FlushCleanEffect, Locking
  <2> QED  BY <2>1, <2>2, ExclusiveStays
<1>24. ASSUME NEW t \in Threads, FlushUndirtyEffect(t) PROVE Exclusive'
  <2>1. Stepped(t) /\ Exclusive
    BY <1>24 DEF FlushUndirtyEffect, Safety
  <2>2. op'[t].at \in Locking => op[t].at \in Locking \/ TableFree
    BY <1>24, NoOpAt DEF FlushUndirtyEffect, Locking
  <2> QED  BY <2>1, <2>2, ExclusiveStays
<1>25. CASE UNCHANGED vars
  BY <1>25 DEF vars, poolVars, fileVars, bounds, history, Safety, Exclusive
<1> QED
  BY <1>1, <1>2, <1>3, <1>4, <1>5, <1>6, <1>7, <1>8, <1>9, <1>10, <1>11, <1>12, <1>13, <1>14, <1>15, <1>16,
     <1>17, <1>18, <1>19, <1>20, <1>21, <1>22, <1>23, <1>24, <1>25
  DEF Effect

-----------------------------------------------------------------------------
(* The log comes first *)

\* The pool starts out safe.
LEMMA InitSafe == Init => Safety
<1> SUFFICES ASSUME Init PROVE Safety
  OBVIOUS
<1> USE PoolAssumption
<1>1. frame \in [Frames -> Frame]
  <2>1. Blank(NoPage) \in Image
    BY DEF Blank, Image
  <2>2. ASSUME NEW i \in Image
        PROVE  [image |-> i, page |-> NoPage, pin |-> 0, dirty |-> FALSE, referenced |-> FALSE] \in Frame
    BY DEF Frame
  <2>3. [image |-> Blank(NoPage), page |-> NoPage, pin |-> 0, dirty |-> FALSE, referenced |-> FALSE] \in Frame
    BY <2>1, <2>2
  <2> QED  BY <2>3 DEF Init
<1>2. pageTable \in [Pages -> 0 .. Capacity] /\ arm \in Frames /\ freeList \in Seq(Pages)
  BY DEF Init, NoFrame, Frames
<1>3. freeFrames \in Seq(Frames)
  <2>1. \A i \in 1 .. Capacity : Capacity - i \in Frames
    BY DEF Frames
  <2> QED  BY <2>1 DEF Init
<1>4. disk \in [Pages -> Image]
  BY DEF Init, Blank, Image
<1>5. NoGuard \in Guard /\ NoOp \in Call
  <2>1. NoFrame \in 0 .. Capacity /\ "none" \in Places
    BY DEF NoFrame, Places
  <2> QED  BY <2>1 DEF NoGuard, NoOp, Guard, Call
<1>6. guard \in [Threads -> Guard] /\ op \in [Threads -> Call]
  BY <1>5 DEF Init
<1>7. TypeOK
  <2>1. dpt \in [Pages -> SUBSET Int] /\ use \in [Pages -> {"none", "live", "dead"}]
    BY DEF Init
  <2>2. durable \in 0 .. MaxLsn /\ lsn \in 0 .. MaxLsn
    BY DEF Init
  <2>3. limit \in Limits /\ recycled \in Nat /\ flushes \in Nat /\ errors \in Nat
    BY DEF Init
  <2>4. /\ content \in [Pages -> SUBSET (1 .. MaxLsn)] /\ stale \subseteq Threads
        /\ raced \subseteq Pages \cup {NoPage} /\ early \subseteq 1 .. MaxLsn
    BY DEF Init
  <2> QED  BY <1>1, <1>2, <1>3, <1>4, <1>6, <2>1, <2>2, <2>3, <2>4 DEF TypeOK
<1>8. \A t \in Threads : op[t] = NoOp /\ ~Holding(t) /\ t \notin stale
  BY DEF Init, Holding
<1>9. Placed /\ Exclusive
  BY <1>8, NoOpAt DEF Placed, PlacedAt, Exclusive, Locking
<1> QED  BY <1>7, <1>9 DEF Safety

\* Types, places and the lock are kept.
LEMMA SafetyKept == Safety /\ [Next]_vars => Safety'
<1> SUFFICES ASSUME Safety, [Next]_vars PROVE Safety'
  OBVIOUS
<1>1. Effect
  BY StepHasEffect
<1>2. TypeOK' /\ Placed' /\ Exclusive'
  BY <1>1, TypeKept, PlacedKept, ExclusiveKept
<1> QED  BY <1>2 DEF Safety

\* No image gets ahead of the log.
LEMMA LoggedKept == Safety /\ Logged /\ Effect => Logged'
<1> SUFFICES ASSUME Safety /\ Logged, Effect PROVE Logged'
  OBVIOUS
<1>1. ASSUME NEW t \in Threads, NEW p \in Pages, HitEffect(t, p) PROVE Logged'
  <2>1. \A f \in Frames : frame'[f].image = frame[f].image
    BY <1>1 DEF HitEffect, Framed
  <2> QED  BY <1>1, <2>1 DEF HitEffect, Logged
<1>2. ASSUME NEW t \in Threads, NEW p \in Pages, MissEffect(t, p) PROVE Logged'
  BY <1>2 DEF MissEffect, Logged
<1>3. ASSUME NEW t \in Threads, NEW p \in Pages, SlowEffect(t, p) PROVE Logged'
  BY <1>3 DEF SlowEffect, Logged
<1>4. ASSUME NEW t \in Threads, NEW p \in Pages, RecycleEffect(t, p) PROVE Logged'
  BY <1>4 DEF RecycleEffect, Logged
<1>5. ASSUME NEW t \in Threads, NEW p \in Pages, FreshEffect(t, p) PROVE Logged'
  <2>1. disk' = [disk EXCEPT ![p] = Blank(p)] /\ Blank(p).changes = {} /\ TypeOK
    BY <1>5 DEF FreshEffect, Blank, Safety
  <2>2. \A q \in Pages : disk'[q].changes \subseteq 1 .. lsn
    BY <2>1 DEF Logged, TypeOK
  <2> QED  BY <1>5, <2>2 DEF FreshEffect, Logged
<1>6. ASSUME NEW t \in Threads, NEW p \in Pages, NewSlowEffect(t, p) PROVE Logged'
  BY <1>6 DEF NewSlowEffect, Logged
<1>7. ASSUME NEW t \in Threads, RecycledEffect(t) PROVE Logged'
  BY <1>7 DEF RecycledEffect, Logged
<1>8. ASSUME NEW t \in Threads, PickEffect(t) PROVE Logged'
  BY <1>8 DEF PickEffect, Logged
<1>9. ASSUME NEW t \in Threads, SweepEffect(t) PROVE Logged'
  <2>1. \A f \in Frames : frame'[f].image = frame[f].image
    BY <1>9 DEF SweepEffect, Framed
  <2> QED  BY <1>9, <2>1 DEF SweepEffect, Logged
<1>10. ASSUME NEW t \in Threads, ExhaustedEffect(t) PROVE Logged'
  BY <1>10 DEF ExhaustedEffect, Logged
<1>11. ASSUME NEW t \in Threads, EvictWriteEffect(t) PROVE Logged'
  <2> DEFINE f == op[t].fid
  <2>1. f \in Frames /\ lsn' = lsn /\ frame' = frame /\ TypeOK
    BY <1>11 DEF EvictWriteEffect, Safety
  <2>2. CASE UNCHANGED <<durable, disk>>
    BY <2>1, <2>2 DEF Logged
  <2>3. CASE /\ frame[f].page \in Pages /\ durable' = FlushTo(frame[f].image)
             /\ disk' = [disk EXCEPT ![frame[f].page] = frame[f].image]
    <3> DEFINE i == frame[f].image
    <3>1. i.changes \subseteq 1 .. lsn /\ durable <= lsn
      BY <2>1 DEF Logged
    <3>2. i \in Image /\ durable \in 0 .. MaxLsn /\ lsn \in 0 .. MaxLsn
      BY <2>1 DEF TypeOK, Frame
    <3>3. i.changes \in SUBSET (1 .. MaxLsn)
      BY <3>2 DEF Image
    <3>4. \A q \in Pages : disk'[q].changes \subseteq 1 .. lsn
      BY <2>1, <2>3, <3>1 DEF Logged, TypeOK
    <3> HIDE DEF i
    <3>5. FlushTo(i) \in {durable, PageLsn(i)}
      BY <3>2, <3>3, FlushToFacts
    <3>6. PageLsn(i) \in {0} \cup i.changes
      BY <3>3, PageLsnFacts
    <3>7. FlushTo(i) <= lsn
      BY <3>1, <3>2, <3>5, <3>6
    <3>8. durable' <= lsn
      BY <2>3, <3>7 DEF i
    <3> QED  BY <2>1, <3>4, <3>8 DEF Logged
  <2> QED  BY <1>11, <2>2, <2>3 DEF EvictWriteEffect
<1>12. ASSUME NEW t \in Threads, EvictResetEffect(t) PROVE Logged'
  <2>1. \A f \in Frames : frame'[f].image = frame[f].image
    BY <1>12 DEF EvictResetEffect, Framed
  <2> QED  BY <1>12, <2>1 DEF EvictResetEffect, Logged
<1>13. ASSUME NEW t \in Threads, InstallEffect(t) PROVE Logged'
  <2> DEFINE f == op[t].fid
  <2>1. f \in Frames /\ op[t].page \in Pages
    BY <1>13 DEF InstallEffect
  <2>2. frame'[f].image = disk[op[t].page] \/ frame'[f].image = Blank(op[t].page)
    BY <1>13 DEF InstallEffect
  <2>3. frame'[f].image.changes \subseteq 1 .. lsn
    BY <2>1, <2>2 DEF Logged, Blank
  <2>4. \A g \in Frames : g # f => frame'[g] = frame[g]
    BY <1>13 DEF InstallEffect, Framed
  <2>5. \A g \in Frames : frame'[g].image.changes \subseteq 1 .. lsn
    BY <2>3, <2>4 DEF Logged
  <2> QED  BY <1>13, <2>5 DEF InstallEffect, Logged
<1>14. ASSUME NEW t \in Threads, IoErrorEffect(t) PROVE Logged'
  BY <1>14 DEF IoErrorEffect, Logged
<1>15. ASSUME NEW t \in Threads, WriteEffect(t) PROVE Logged'
  <2> DEFINE f == guard[t].fid
  <2>1. lsn' = lsn + 1 /\ lsn \in Nat /\ durable \in Nat /\ UNCHANGED <<durable, disk>>
    BY <1>15 DEF WriteEffect, Safety, TypeOK
  <2>2. 1 .. lsn \subseteq 1 .. lsn' /\ lsn' \in 1 .. lsn'
    BY <2>1
  <2>3. frame'[f].image.changes = frame[f].image.changes \cup {lsn'} /\ f \in Frames
    BY <1>15 DEF WriteEffect
  <2>4. \A g \in Frames : g # f => frame'[g] = frame[g]
    BY <1>15 DEF WriteEffect, Framed
  <2>5. \A g \in Frames : frame'[g].image.changes \subseteq 1 .. lsn'
    <3> SUFFICES ASSUME NEW g \in Frames PROVE frame'[g].image.changes \subseteq 1 .. lsn'
      OBVIOUS
    <3>1. frame[g].image.changes \subseteq 1 .. lsn
      BY DEF Logged
    <3> QED  BY <2>2, <2>3, <2>4, <3>1
  <2>6. \A q \in Pages : disk'[q].changes \subseteq 1 .. lsn'
    BY <2>1, <2>2 DEF Logged
  <2>7. durable' <= lsn'
    BY <2>1 DEF Logged
  <2> QED  BY <2>5, <2>6, <2>7 DEF Logged
<1>16. ASSUME NEW t \in Threads, ReleaseEffect(t) PROVE Logged'
  <2>1. \A f \in Frames : frame'[f].image = frame[f].image
    BY <1>16 DEF ReleaseEffect, Framed
  <2> QED  BY <1>16, <2>1 DEF ReleaseEffect, Logged
<1>17. ASSUME NEW t \in Threads, NoteDirtyEffect(t) PROVE Logged'
  BY <1>17 DEF NoteDirtyEffect, Logged
<1>18. ASSUME NEW t \in Threads, UnpinEffect(t) PROVE Logged'
  <2>1. \A f \in Frames : frame'[f].image = frame[f].image
    BY <1>18 DEF UnpinEffect, Framed
  <2> QED  BY <1>18, <2>1 DEF UnpinEffect, Logged
<1>19. ASSUME NEW t \in Threads, FlushAllEffect(t) PROVE Logged'
  <2>1. lsn \in Nat /\ durable' = lsn /\ UNCHANGED <<frame, disk, lsn>>
    BY <1>19 DEF FlushAllEffect, Safety, TypeOK
  <2> QED  BY <2>1 DEF Logged
<1>20. ASSUME NEW t \in Threads, ScanFrameEffect(t) PROVE Logged'
  BY <1>20 DEF ScanFrameEffect, Logged
<1>21. ASSUME NEW t \in Threads, ScanEndEffect(t) PROVE Logged'
  BY <1>21 DEF ScanEndEffect, Logged
<1>22. ASSUME NEW t \in Threads, FlushWriteEffect(t) PROVE Logged'
  <2>1. /\ op[t].fid \in Frames /\ op[t].page \in Pages /\ UNCHANGED <<frame, durable, lsn>>
        /\ disk' = [disk EXCEPT ![op[t].page] = frame[op[t].fid].image]
    BY <1>22 DEF FlushWriteEffect
  <2>2. \A q \in Pages : disk'[q].changes \subseteq 1 .. lsn
    BY <2>1 DEF Logged, Safety, TypeOK
  <2> QED  BY <2>1, <2>2 DEF Logged
<1>23. ASSUME NEW t \in Threads, FlushCleanEffect(t) PROVE Logged'
  <2>1. \A f \in Frames : frame'[f].image = frame[f].image
    BY <1>23 DEF FlushCleanEffect, Framed
  <2> QED  BY <1>23, <2>1 DEF FlushCleanEffect, Logged
<1>24. ASSUME NEW t \in Threads, FlushUndirtyEffect(t) PROVE Logged'
  BY <1>24 DEF FlushUndirtyEffect, Logged
<1>25. CASE UNCHANGED vars
  BY <1>25 DEF vars, poolVars, fileVars, bounds, history, Logged
<1> QED
  BY <1>1, <1>2, <1>3, <1>4, <1>5, <1>6, <1>7, <1>8, <1>9, <1>10, <1>11, <1>12, <1>13, <1>14, <1>15, <1>16,
     <1>17, <1>18, <1>19, <1>20, <1>21, <1>22, <1>23, <1>24, <1>25
  DEF Effect

\* No step writes an image before its log.
LEMMA LogFirstKept == Safety /\ Logged /\ LogFirst /\ Effect => LogFirst'
<1> SUFFICES ASSUME Safety /\ Logged /\ LogFirst, Effect PROVE LogFirst'
  OBVIOUS
<1>1. ASSUME NEW t \in Threads, NEW p \in Pages, HitEffect(t, p) PROVE LogFirst'
  BY <1>1 DEF HitEffect, LogFirst
<1>2. ASSUME NEW t \in Threads, NEW p \in Pages, MissEffect(t, p) PROVE LogFirst'
  BY <1>2 DEF MissEffect, LogFirst
<1>3. ASSUME NEW t \in Threads, NEW p \in Pages, SlowEffect(t, p) PROVE LogFirst'
  BY <1>3 DEF SlowEffect, LogFirst
<1>4. ASSUME NEW t \in Threads, NEW p \in Pages, RecycleEffect(t, p) PROVE LogFirst'
  BY <1>4 DEF RecycleEffect, LogFirst
<1>5. ASSUME NEW t \in Threads, NEW p \in Pages, FreshEffect(t, p) PROVE LogFirst'
  <2>1. disk' = [disk EXCEPT ![p] = Blank(p)] /\ Blank(p).changes = {} /\ UNCHANGED <<durable, early>>
    BY <1>5 DEF FreshEffect, Blank
  <2> QED  BY <2>1 DEF LogFirst, Safety, TypeOK
<1>6. ASSUME NEW t \in Threads, NEW p \in Pages, NewSlowEffect(t, p) PROVE LogFirst'
  BY <1>6 DEF NewSlowEffect, LogFirst
<1>7. ASSUME NEW t \in Threads, RecycledEffect(t) PROVE LogFirst'
  BY <1>7 DEF RecycledEffect, LogFirst
<1>8. ASSUME NEW t \in Threads, PickEffect(t) PROVE LogFirst'
  BY <1>8 DEF PickEffect, LogFirst
<1>9. ASSUME NEW t \in Threads, SweepEffect(t) PROVE LogFirst'
  BY <1>9 DEF SweepEffect, LogFirst
<1>10. ASSUME NEW t \in Threads, ExhaustedEffect(t) PROVE LogFirst'
  BY <1>10 DEF ExhaustedEffect, LogFirst
<1>11. ASSUME NEW t \in Threads, EvictWriteEffect(t) PROVE LogFirst'
  <2> DEFINE f == op[t].fid
  <2>1. f \in Frames /\ early' = early /\ TypeOK
    BY <1>11 DEF EvictWriteEffect, Safety
  <2>2. CASE UNCHANGED <<durable, disk>>
    BY <2>1, <2>2 DEF LogFirst
  <2>3. CASE /\ frame[f].page \in Pages /\ durable' = FlushTo(frame[f].image)
             /\ disk' = [disk EXCEPT ![frame[f].page] = frame[f].image]
    <3> DEFINE i == frame[f].image
    <3>1. i \in Image /\ durable \in 0 .. MaxLsn
      BY <2>1 DEF TypeOK, Frame
    <3>2. i.changes \in SUBSET (1 .. MaxLsn)
      BY <3>1 DEF Image
    <3>3. disk' = [disk EXCEPT ![frame[f].page] = i] /\ durable' = FlushTo(i)
      BY <2>3
    <3> HIDE DEF i
    <3>4. FlushTo(i) \in 0 .. MaxLsn /\ durable <= FlushTo(i) /\ i.changes \subseteq 1 .. FlushTo(i)
      BY <3>1, <3>2, FlushToFacts
    <3>5. 1 .. durable \subseteq 1 .. durable' /\ i.changes \subseteq 1 .. durable'
      BY <3>1, <3>3, <3>4
    <3> QED  BY <2>1, <2>3, <3>3, <3>5 DEF LogFirst, TypeOK
  <2> QED  BY <1>11, <2>2, <2>3 DEF EvictWriteEffect
<1>12. ASSUME NEW t \in Threads, EvictResetEffect(t) PROVE LogFirst'
  BY <1>12 DEF EvictResetEffect, LogFirst
<1>13. ASSUME NEW t \in Threads, InstallEffect(t) PROVE LogFirst'
  BY <1>13 DEF InstallEffect, LogFirst
<1>14. ASSUME NEW t \in Threads, IoErrorEffect(t) PROVE LogFirst'
  BY <1>14 DEF IoErrorEffect, LogFirst
<1>15. ASSUME NEW t \in Threads, WriteEffect(t) PROVE LogFirst'
  BY <1>15 DEF WriteEffect, LogFirst
<1>16. ASSUME NEW t \in Threads, ReleaseEffect(t) PROVE LogFirst'
  BY <1>16 DEF ReleaseEffect, LogFirst
<1>17. ASSUME NEW t \in Threads, NoteDirtyEffect(t) PROVE LogFirst'
  BY <1>17 DEF NoteDirtyEffect, LogFirst
<1>18. ASSUME NEW t \in Threads, UnpinEffect(t) PROVE LogFirst'
  BY <1>18 DEF UnpinEffect, LogFirst
<1>19. ASSUME NEW t \in Threads, FlushAllEffect(t) PROVE LogFirst'
  <2>1. lsn \in Int /\ durable \in Int /\ durable' = lsn /\ durable <= lsn /\ UNCHANGED <<disk, early>>
    BY <1>19 DEF FlushAllEffect, Safety, TypeOK, Logged
  <2>2. 1 .. durable \subseteq 1 .. durable'
    BY <2>1
  <2> QED  BY <2>1, <2>2 DEF LogFirst
<1>20. ASSUME NEW t \in Threads, ScanFrameEffect(t) PROVE LogFirst'
  BY <1>20 DEF ScanFrameEffect, LogFirst
<1>21. ASSUME NEW t \in Threads, ScanEndEffect(t) PROVE LogFirst'
  BY <1>21 DEF ScanEndEffect, LogFirst
<1>22. ASSUME NEW t \in Threads, FlushWriteEffect(t) PROVE LogFirst'
  <2> DEFINE i == frame[op[t].fid].image
  <2>1. /\ op[t].fid \in Frames /\ op[t].page \in Pages /\ durable' = durable
        /\ disk' = [disk EXCEPT ![op[t].page] = i] /\ early' = early \cup {l \in i.changes : l > durable}
    BY <1>22 DEF FlushWriteEffect
  <2>2. i \in Image /\ durable \in Int /\ disk \in [Pages -> Image]
    BY <2>1 DEF Safety, TypeOK, Frame
  <2>3. i.changes \subseteq 1 .. MaxLsn
    BY <2>2 DEF Image
  <2> HIDE DEF i
  <2>4. i.changes \subseteq 1 .. durable \cup {l \in i.changes : l > durable}
    BY <2>2, <2>3
  <2> QED  BY <2>1, <2>2, <2>4 DEF LogFirst
<1>23. ASSUME NEW t \in Threads, FlushCleanEffect(t) PROVE LogFirst'
  BY <1>23 DEF FlushCleanEffect, LogFirst
<1>24. ASSUME NEW t \in Threads, FlushUndirtyEffect(t) PROVE LogFirst'
  BY <1>24 DEF FlushUndirtyEffect, LogFirst
<1>25. CASE UNCHANGED vars
  BY <1>25 DEF vars, poolVars, fileVars, bounds, history, LogFirst
<1> QED
  BY <1>1, <1>2, <1>3, <1>4, <1>5, <1>6, <1>7, <1>8, <1>9, <1>10, <1>11, <1>12, <1>13, <1>14, <1>15, <1>16,
     <1>17, <1>18, <1>19, <1>20, <1>21, <1>22, <1>23, <1>24, <1>25
  DEF Effect

\* TypeCorrect: every variable keeps its type.
THEOREM TypeCorrect == Spec => []TypeOK
<1>1. Safety => TypeOK
  BY DEF Safety
<1> QED  BY <1>1, InitSafe, SafetyKept, PTL DEF Spec

\* The WAL rule.  An image that evict writes is covered by the log that evict forces first;
\* only flush_all, which forces the log once and then goes through the frames, writes
\* changes ahead of it.
THEOREM LogComesFirst == Spec => []LogFirst
<1> DEFINE Inv == Safety /\ Logged /\ LogFirst
<1>1. Init => Inv
  <2> SUFFICES ASSUME Init PROVE Inv
    OBVIOUS
  <2>1. Safety
    BY InitSafe
  <2>2. \A f \in Frames : frame[f].image.changes = {}
    BY DEF Init, Blank
  <2>3. \A p \in Pages : disk[p].changes = {}
    BY DEF Init, Blank
  <2>4. durable = 0 /\ lsn = 0
    BY DEF Init
  <2>5. Logged /\ LogFirst
    BY <2>2, <2>3, <2>4 DEF Logged, LogFirst
  <2> QED  BY <2>1, <2>5
<1>2. Inv /\ [Next]_vars => Inv'
  <2> SUFFICES ASSUME Inv, [Next]_vars PROVE Inv'
    OBVIOUS
  <2>1. Effect /\ Safety'
    BY StepHasEffect, SafetyKept
  <2>2. Logged' /\ LogFirst'
    BY <2>1, LoggedKept, LogFirstKept
  <2> QED  BY <2>1, <2>2
<1>3. Inv => LogFirst
  OBVIOUS
<1> QED  BY <1>1, <1>2, <1>3, PTL DEF Spec

-----------------------------------------------------------------------------
(* The clock *)

\* How Behind counts.
LEMMA BehindFacts ==
    ASSUME arm \in Frames, NEW f \in Frames
    PROVE  /\ Behind(f) \in 0 .. (Capacity - 1) /\ Behind(arm) = Capacity - 1
           /\ arm' = NextArm => Behind(f)' = IF f = arm THEN 0 ELSE Behind(f) + 1
<1>1. arm \in 0 .. (Capacity - 1) /\ f \in 0 .. (Capacity - 1) /\ Capacity \in Nat \ {0}
  BY PoolAssumption DEF Frames
<1>2. NextArm = IF arm + 1 = Capacity THEN 0 ELSE arm + 1
  BY <1>1 DEF NextArm
<1>3. Behind(f)' = IF f < arm' THEN arm' - 1 - f ELSE arm' - 1 - f + Capacity
  BY DEF Behind
<1>4. Behind(f) \in 0 .. (Capacity - 1) /\ Behind(arm) = Capacity - 1
  BY <1>1 DEF Behind
<1>5. ASSUME arm' = NextArm PROVE Behind(f)' = IF f = arm THEN 0 ELSE Behind(f) + 1
  BY <1>1, <1>2, <1>3, <1>5 DEF Behind
<1> QED  BY <1>4, <1>5

\* A step of another thread leaves a sweep alone.
LEMMA SweptStays ==
    ASSUME Swept, Exclusive, NEW t \in Threads, Stepped(t), op'[t].at # "sweep", arm' = arm,
           \/ \A f \in Frames : frame'[f].referenced = frame[f].referenced
           \/ op[t].at \in Locking
           \/ TableFree
    PROVE  Swept'
<1> SUFFICES ASSUME NEW u \in Threads, op'[u].at = "sweep", NEW f \in Frames
             PROVE  /\ (Behind(f) < 2 * Capacity - op[u].left => f \in op[u].seen \/ ~frame[f].referenced)'
                    /\ (Behind(f) < Capacity - op[u].left => f \in op[u].seen)'
  BY DEF Swept, At
<1>1. u # t /\ op'[u] = op[u]
  BY DEF Stepped
<1>2. op[u].at = "sweep" /\ "sweep" \in Locking
  BY <1>1 DEF Locking
<1>3. frame'[f].referenced = frame[f].referenced
  <2>1. op[t].at \notin Locking
    BY <1>1, <1>2 DEF Exclusive
  <2>2. ~TableFree
    BY <1>2 DEF TableFree
  <2> QED  BY <2>1, <2>2
<1>4. /\ Behind(f) < 2 * Capacity - op[u].left => f \in op[u].seen \/ ~frame[f].referenced
      /\ Behind(f) < Capacity - op[u].left => f \in op[u].seen
  BY <1>2 DEF Swept, At
<1>5. Behind(f)' = Behind(f)
  BY DEF Behind
<1> QED  BY <1>1, <1>3, <1>4, <1>5

\* Every step keeps what the sweep has found.
LEMMA SweptKept == Safety /\ Swept /\ Effect => Swept'
<1> SUFFICES ASSUME Safety /\ Swept, Effect PROVE Swept'
  OBVIOUS
<1>1. ASSUME NEW t \in Threads, NEW p \in Pages, HitEffect(t, p) PROVE Swept'
  <2>1. Swept /\ Exclusive /\ Stepped(t) /\ op'[t].at # "sweep" /\ arm' = arm
    BY <1>1, NoOpAt DEF HitEffect, Safety
  <2>2. \/ \A f \in Frames : frame'[f].referenced = frame[f].referenced
        \/ op[t].at \in Locking
        \/ TableFree
    BY <1>1 DEF HitEffect, Framed, Locking
  <2> QED  BY <2>1, <2>2, SweptStays
<1>2. ASSUME NEW t \in Threads, NEW p \in Pages, MissEffect(t, p) PROVE Swept'
  <2>1. Swept /\ Exclusive /\ Stepped(t) /\ op'[t].at # "sweep" /\ arm' = arm
    BY <1>2, NoOpAt DEF MissEffect, Safety
  <2>2. \/ \A f \in Frames : frame'[f].referenced = frame[f].referenced
        \/ op[t].at \in Locking
        \/ TableFree
    BY <1>2 DEF MissEffect, Framed, Locking
  <2> QED  BY <2>1, <2>2, SweptStays
<1>3. ASSUME NEW t \in Threads, NEW p \in Pages, SlowEffect(t, p) PROVE Swept'
  <2>1. Swept /\ Exclusive /\ Stepped(t) /\ op'[t].at # "sweep" /\ arm' = arm
    BY <1>3, NoOpAt DEF SlowEffect, Safety
  <2>2. \/ \A f \in Frames : frame'[f].referenced = frame[f].referenced
        \/ op[t].at \in Locking
        \/ TableFree
    BY <1>3 DEF SlowEffect, Framed, Locking
  <2> QED  BY <2>1, <2>2, SweptStays
<1>4. ASSUME NEW t \in Threads, NEW p \in Pages, RecycleEffect(t, p) PROVE Swept'
  <2>1. UNCHANGED <<op, frame, arm>>
    BY <1>4 DEF RecycleEffect
  <2> QED  BY <2>1 DEF Swept, At, Behind
<1>5. ASSUME NEW t \in Threads, NEW p \in Pages, FreshEffect(t, p) PROVE Swept'
  <2>1. Swept /\ Exclusive /\ Stepped(t) /\ op'[t].at # "sweep" /\ arm' = arm
    BY <1>5, NoOpAt DEF FreshEffect, Safety
  <2>2. \/ \A f \in Frames : frame'[f].referenced = frame[f].referenced
        \/ op[t].at \in Locking
        \/ TableFree
    BY <1>5 DEF FreshEffect, Framed, Locking
  <2> QED  BY <2>1, <2>2, SweptStays
<1>6. ASSUME NEW t \in Threads, NEW p \in Pages, NewSlowEffect(t, p) PROVE Swept'
  <2>1. Swept /\ Exclusive /\ Stepped(t) /\ op'[t].at # "sweep" /\ arm' = arm
    BY <1>6, NoOpAt DEF NewSlowEffect, Safety
  <2>2. \/ \A f \in Frames : frame'[f].referenced = frame[f].referenced
        \/ op[t].at \in Locking
        \/ TableFree
    BY <1>6 DEF NewSlowEffect, Framed, Locking
  <2> QED  BY <2>1, <2>2, SweptStays
<1>7. ASSUME NEW t \in Threads, RecycledEffect(t) PROVE Swept'
  <2>1. Swept /\ Exclusive /\ Stepped(t) /\ op'[t].at # "sweep" /\ arm' = arm
    BY <1>7, NoOpAt DEF RecycledEffect, Safety
  <2>2. \/ \A f \in Frames : frame'[f].referenced = frame[f].referenced
        \/ op[t].at \in Locking
        \/ TableFree
    BY <1>7 DEF RecycledEffect, Framed, Locking
  <2> QED  BY <2>1, <2>2, SweptStays
<1>8. ASSUME NEW t \in Threads, PickEffect(t) PROVE Swept'
  <2>1. Stepped(t) /\ UNCHANGED <<arm, frame>> /\ op[t].at = "pick" /\ Exclusive /\ arm \in Frames
    BY <1>8 DEF PickEffect, Safety, TypeOK
  <2>2. CASE op'[t].at = "install"
    BY <2>1, <2>2, SweptStays
  <2>3. CASE op'[t].at = "sweep" /\ op'[t].left = 2 * Capacity
    <3>1. \A u \in Threads : op'[u].at = "sweep" => u = t
      BY <2>1 DEF Exclusive, Stepped, Locking
    <3>2. \A f \in Frames : Behind(f)' = Behind(f) /\ Behind(f) \in 0 .. (Capacity - 1)
      BY <2>1, BehindFacts DEF Behind
    <3>3. Capacity \in Nat
      BY PoolAssumption
    <3>4. \A f \in Frames : /\ ~(Behind(f)' < 2 * Capacity - op'[t].left)
                            /\ ~(Behind(f)' < Capacity - op'[t].left)
      BY <2>3, <3>2, <3>3
    <3> QED  BY <3>1, <3>4 DEF Swept, At
  <2> QED  BY <1>8, <2>2, <2>3 DEF PickEffect
<1>9. ASSUME NEW t \in Threads, SweepEffect(t) PROVE Swept'
  <2>1. Stepped(t) /\ op[t].at = "sweep" /\ Exclusive /\ arm \in Frames /\ arm' = NextArm
    BY <1>9 DEF SweepEffect, Safety, TypeOK
  <2>2. \A u \in Threads : op'[u].at = "sweep" => u = t
    BY <2>1 DEF Exclusive, Stepped, Locking
  <2> SUFFICES ASSUME op'[t].at = "sweep", NEW f \in Frames
               PROVE  /\ Behind(f)' < 2 * Capacity - op'[t].left => f \in op'[t].seen \/ ~frame'[f].referenced
                      /\ Behind(f)' < Capacity - op'[t].left => f \in op'[t].seen
    BY <2>2 DEF Swept, At
  <2>3. op[t].left \in Nat /\ Capacity \in Nat \ {0} /\ op'[t].left = op[t].left - 1
        /\ op[t].seen \subseteq op'[t].seen
    <3>1. op[t] \in Call
      BY DEF Safety, TypeOK
    <3>2. op[t].left \in Nat
      BY <3>1 DEF Call
    <3>3. op'[t].left = op[t].left - 1 /\ op[t].seen \subseteq op'[t].seen
      BY <1>9 DEF SweepEffect
    <3> QED  BY <3>2, <3>3, PoolAssumption
  <2>4. \A g \in Frames : /\ Behind(g) < 2 * Capacity - op[t].left => g \in op[t].seen \/ ~frame[g].referenced
                          /\ Behind(g) < Capacity - op[t].left => g \in op[t].seen
    BY <2>1 DEF Swept, At
  <2>5. CASE f # arm
    <3>1. Behind(f)' = Behind(f) + 1 /\ Behind(f) \in 0 .. (Capacity - 1)
      BY <2>1, <2>5, BehindFacts
    <3>2. frame'[f] = frame[f]
      BY <1>9, <2>5 DEF SweepEffect, Framed
    <3>3. /\ Behind(f)' < 2 * Capacity - op'[t].left => Behind(f) < 2 * Capacity - op[t].left
          /\ Behind(f)' < Capacity - op'[t].left => Behind(f) < Capacity - op[t].left
      BY <2>3, <3>1
    <3> QED  BY <2>3, <2>4, <3>2, <3>3
  <2>6. CASE f = arm
    <3>1. CASE op'[t].seen = op[t].seen \cup {arm}
      BY <2>6, <3>1
    <3>2. CASE frame[arm].referenced /\ ~frame'[arm].referenced
      <4>1. Behind(f)' = 0 /\ Behind(arm) = Capacity - 1
        BY <2>1, <2>6, BehindFacts
      <4>2. Behind(f)' < Capacity - op'[t].left => Behind(arm) < 2 * Capacity - op[t].left
        BY <2>3, <4>1
      <4>3. Behind(arm) < 2 * Capacity - op[t].left => arm \in op[t].seen
        BY <2>1, <2>4, <3>2
      <4> QED  BY <2>3, <2>6, <3>2, <4>2, <4>3
    <3> QED  BY <1>9, <3>1, <3>2 DEF SweepEffect
  <2> QED  BY <2>5, <2>6
<1>10. ASSUME NEW t \in Threads, ExhaustedEffect(t) PROVE Swept'
  <2>1. Swept /\ Exclusive /\ Stepped(t) /\ op'[t].at # "sweep" /\ arm' = arm
    BY <1>10, NoOpAt DEF ExhaustedEffect, Safety
  <2>2. \/ \A f \in Frames : frame'[f].referenced = frame[f].referenced
        \/ op[t].at \in Locking
        \/ TableFree
    BY <1>10 DEF ExhaustedEffect, Framed, Locking
  <2> QED  BY <2>1, <2>2, SweptStays
<1>11. ASSUME NEW t \in Threads, EvictWriteEffect(t) PROVE Swept'
  <2>1. Swept /\ Exclusive /\ Stepped(t) /\ op'[t].at # "sweep" /\ arm' = arm
    BY <1>11, NoOpAt DEF EvictWriteEffect, Safety
  <2>2. \/ \A f \in Frames : frame'[f].referenced = frame[f].referenced
        \/ op[t].at \in Locking
        \/ TableFree
    BY <1>11 DEF EvictWriteEffect, Framed, Locking
  <2> QED  BY <2>1, <2>2, SweptStays
<1>12. ASSUME NEW t \in Threads, EvictResetEffect(t) PROVE Swept'
  <2>1. Swept /\ Exclusive /\ Stepped(t) /\ op'[t].at # "sweep" /\ arm' = arm
    BY <1>12, NoOpAt DEF EvictResetEffect, Safety
  <2>2. \/ \A f \in Frames : frame'[f].referenced = frame[f].referenced
        \/ op[t].at \in Locking
        \/ TableFree
    BY <1>12 DEF EvictResetEffect, Framed, Locking
  <2> QED  BY <2>1, <2>2, SweptStays
<1>13. ASSUME NEW t \in Threads, InstallEffect(t) PROVE Swept'
  <2>1. Swept /\ Exclusive /\ Stepped(t) /\ op'[t].at # "sweep" /\ arm' = arm
    BY <1>13, NoOpAt DEF InstallEffect, Safety
  <2>2. \/ \A f \in Frames : frame'[f].referenced = frame[f].referenced
        \/ op[t].at \in Locking
        \/ TableFree
    BY <1>13 DEF InstallEffect, Framed, Locking
  <2> QED  BY <2>1, <2>2, SweptStays
<1>14. ASSUME NEW t \in Threads, IoErrorEffect(t) PROVE Swept'
  <2>1. Swept /\ Exclusive /\ Stepped(t) /\ op'[t].at # "sweep" /\ arm' = arm
    BY <1>14, NoOpAt DEF IoErrorEffect, Safety
  <2>2. \/ \A f \in Frames : frame'[f].referenced = frame[f].referenced
        \/ op[t].at \in Locking
        \/ TableFree
    BY <1>14 DEF IoErrorEffect, Framed, Locking
  <2> QED  BY <2>1, <2>2, SweptStays
<1>15. ASSUME NEW t \in Threads, WriteEffect(t) PROVE Swept'
  <2>1. Swept /\ Exclusive /\ Stepped(t) /\ op'[t].at # "sweep" /\ arm' = arm
    BY <1>15, NoOpAt DEF WriteEffect, Safety, TypeOK, Stepped
  <2>2. \/ \A f \in Frames : frame'[f].referenced = frame[f].referenced
        \/ op[t].at \in Locking
        \/ TableFree
    BY <1>15 DEF WriteEffect, Framed, Locking
  <2> QED  BY <2>1, <2>2, SweptStays
<1>16. ASSUME NEW t \in Threads, ReleaseEffect(t) PROVE Swept'
  <2>1. Swept /\ Exclusive /\ Stepped(t) /\ op'[t].at # "sweep" /\ arm' = arm
    BY <1>16, NoOpAt DEF ReleaseEffect, Safety
  <2>2. \/ \A f \in Frames : frame'[f].referenced = frame[f].referenced
        \/ op[t].at \in Locking
        \/ TableFree
    BY <1>16 DEF ReleaseEffect, Framed, Locking
  <2> QED  BY <2>1, <2>2, SweptStays
<1>17. ASSUME NEW t \in Threads, NoteDirtyEffect(t) PROVE Swept'
  <2>1. Swept /\ Exclusive /\ Stepped(t) /\ op'[t].at # "sweep" /\ arm' = arm
    BY <1>17, NoOpAt DEF NoteDirtyEffect, Safety
  <2>2. \/ \A f \in Frames : frame'[f].referenced = frame[f].referenced
        \/ op[t].at \in Locking
        \/ TableFree
    BY <1>17 DEF NoteDirtyEffect, Framed, Locking
  <2> QED  BY <2>1, <2>2, SweptStays
<1>18. ASSUME NEW t \in Threads, UnpinEffect(t) PROVE Swept'
  <2>1. Swept /\ Exclusive /\ Stepped(t) /\ op'[t].at # "sweep" /\ arm' = arm
    BY <1>18, NoOpAt DEF UnpinEffect, Safety
  <2>2. \/ \A f \in Frames : frame'[f].referenced = frame[f].referenced
        \/ op[t].at \in Locking
        \/ TableFree
    BY <1>18 DEF UnpinEffect, Framed, Locking
  <2> QED  BY <2>1, <2>2, SweptStays
<1>19. ASSUME NEW t \in Threads, FlushAllEffect(t) PROVE Swept'
  <2>1. Swept /\ Exclusive /\ Stepped(t) /\ op'[t].at # "sweep" /\ arm' = arm
    BY <1>19, NoOpAt DEF FlushAllEffect, Safety
  <2>2. \/ \A f \in Frames : frame'[f].referenced = frame[f].referenced
        \/ op[t].at \in Locking
        \/ TableFree
    BY <1>19 DEF FlushAllEffect, Framed, Locking
  <2> QED  BY <2>1, <2>2, SweptStays
<1>20. ASSUME NEW t \in Threads, ScanFrameEffect(t) PROVE Swept'
  <2>1. Swept /\ Exclusive /\ Stepped(t) /\ op'[t].at # "sweep" /\ arm' = arm
    BY <1>20, NoOpAt DEF ScanFrameEffect, Safety
  <2>2. \/ \A f \in Frames : frame'[f].referenced = frame[f].referenced
        \/ op[t].at \in Locking
        \/ TableFree
    BY <1>20 DEF ScanFrameEffect, Framed, Locking
  <2> QED  BY <2>1, <2>2, SweptStays
<1>21. ASSUME NEW t \in Threads, ScanEndEffect(t) PROVE Swept'
  <2>1. Swept /\ Exclusive /\ Stepped(t) /\ op'[t].at # "sweep" /\ arm' = arm
    BY <1>21, NoOpAt DEF ScanEndEffect, Safety
  <2>2. \/ \A f \in Frames : frame'[f].referenced = frame[f].referenced
        \/ op[t].at \in Locking
        \/ TableFree
    BY <1>21 DEF ScanEndEffect, Framed, Locking
  <2> QED  BY <2>1, <2>2, SweptStays
<1>22. ASSUME NEW t \in Threads, FlushWriteEffect(t) PROVE Swept'
  <2>1. Swept /\ Exclusive /\ Stepped(t) /\ op'[t].at # "sweep" /\ arm' = arm
    BY <1>22, NoOpAt DEF FlushWriteEffect, Safety
  <2>2. \/ \A f \in Frames : frame'[f].referenced = frame[f].referenced
        \/ op[t].at \in Locking
        \/ TableFree
    BY <1>22 DEF FlushWriteEffect, Framed, Locking
  <2> QED  BY <2>1, <2>2, SweptStays
<1>23. ASSUME NEW t \in Threads, FlushCleanEffect(t) PROVE Swept'
  <2>1. Swept /\ Exclusive /\ Stepped(t) /\ op'[t].at # "sweep" /\ arm' = arm
    BY <1>23, NoOpAt DEF FlushCleanEffect, Safety
  <2>2. \/ \A f \in Frames : frame'[f].referenced = frame[f].referenced
        \/ op[t].at \in Locking
        \/ TableFree
    BY <1>23 DEF FlushCleanEffect, Framed, Locking
  <2> QED  BY <2>1, <2>2, SweptStays
<1>24. ASSUME NEW t \in Threads, FlushUndirtyEffect(t) PROVE Swept'
  <2>1. Swept /\ Exclusive /\ Stepped(t) /\ op'[t].at # "sweep" /\ arm' = arm
    BY <1>24, NoOpAt DEF FlushUndirtyEffect, Safety
  <2>2. \/ \A f \in Frames : frame'[f].referenced = frame[f].referenced
        \/ op[t].at \in Locking
        \/ TableFree
    BY <1>24 DEF FlushUndirtyEffect, Framed, Locking
  <2> QED  BY <2>1, <2>2, SweptStays
<1>25. CASE UNCHANGED vars
  <2>1. UNCHANGED <<op, frame, arm>>
    BY <1>25 DEF vars, poolVars
  <2> QED  BY <2>1 DEF Swept, At, Behind
<1> QED
  BY <1>1, <1>2, <1>3, <1>4, <1>5, <1>6, <1>7, <1>8, <1>9, <1>10, <1>11, <1>12, <1>13, <1>14, <1>15, <1>16,
     <1>17, <1>18, <1>19, <1>20, <1>21, <1>22, <1>23, <1>24, <1>25
  DEF Effect

\* The error "all frames pinned" is honest: within two rounds of the clock every frame was met
\* pinned.  The first round clears the reference bits of the frames that are not pinned, nobody
\* can set them again while the table is locked, so the second would have stopped at them.
THEOREM ExhaustionIsHonest == Spec => []ExhaustedMeansPinned
<1> DEFINE Inv == Safety /\ Swept
<1>1. Init => Inv
  <2> SUFFICES ASSUME Init PROVE Inv
    OBVIOUS
  <2>1. \A t \in Threads : op[t].at = "none"
    BY NoOpAt DEF Init
  <2> QED  BY <2>1, InitSafe DEF Swept, At
<1>2. Inv /\ [Next]_vars => Inv'
  BY StepHasEffect, SafetyKept, SweptKept
<1>3. Inv => ExhaustedMeansPinned
  <2> SUFFICES ASSUME Inv, NEW t \in Threads, op[t].at = "sweep", op[t].left = 0
               PROVE  op[t].seen = Frames
    BY DEF ExhaustedMeansPinned, At
  <2>1. arm \in Frames /\ op[t] \in Call
    BY DEF Safety, TypeOK
  <2>2. op[t].seen \subseteq Frames
    BY <2>1 DEF Call
  <2>3. ASSUME NEW f \in Frames PROVE f \in op[t].seen
    <3>1. Behind(f) \in 0 .. (Capacity - 1)
      BY <2>1, BehindFacts
    <3>2. Behind(f) < Capacity - op[t].left
      BY <3>1, PoolAssumption
    <3> QED  BY <3>2 DEF Swept, At
  <2> QED  BY <2>2, <2>3
<1> QED  BY <1>1, <1>2, <1>3, PTL DEF Spec

-----------------------------------------------------------------------------
(* The page table *)

\* The page table and the frames' pages are left alone.
LEMMA MappedStays ==
    ASSUME Mapped, Safety, pageTable' = pageTable, freeFrames' = freeFrames,
           \A f \in Frames : frame'[f].page = frame[f].page
    PROVE  Mapped'
<1>1. TypeOK
  BY DEF Safety
<1>2. \A p \in Pages : pageTable[p] # NoFrame => pageTable[p] \in Frames
  BY <1>1, PoolAssumption DEF TypeOK, NoFrame, Frames
<1>3. \A i \in DOMAIN freeFrames : freeFrames[i] \in Frames
  <2>1. freeFrames \in Seq(Frames)
    BY <1>1 DEF TypeOK
  <2> QED  BY <2>1
<1> QED  BY <1>2, <1>3 DEF Mapped

\* The page table and the frames agree after every step.
LEMMA MappedKept == Safety /\ Mapped /\ Mine /\ Effect => Mapped'
<1> SUFFICES ASSUME Safety /\ Mapped /\ Mine, Effect PROVE Mapped'
  OBVIOUS
<1>1. ASSUME NEW t \in Threads, NEW p \in Pages, HitEffect(t, p) PROVE Mapped'
  <2>1. /\ UNCHANGED <<pageTable, freeFrames>>
        /\ \A f \in Frames : frame'[f].page = frame[f].page
    BY <1>1 DEF HitEffect, Framed
  <2> QED  BY <2>1, MappedStays
<1>2. ASSUME NEW t \in Threads, NEW p \in Pages, MissEffect(t, p) PROVE Mapped'
  <2>1. /\ UNCHANGED <<pageTable, freeFrames>>
        /\ \A f \in Frames : frame'[f].page = frame[f].page
    BY <1>2 DEF MissEffect, Framed
  <2> QED  BY <2>1, MappedStays
<1>3. ASSUME NEW t \in Threads, NEW p \in Pages, SlowEffect(t, p) PROVE Mapped'
  <2>1. /\ UNCHANGED <<pageTable, freeFrames>>
        /\ \A f \in Frames : frame'[f].page = frame[f].page
    BY <1>3 DEF SlowEffect, Framed
  <2> QED  BY <2>1, MappedStays
<1>4. ASSUME NEW t \in Threads, NEW p \in Pages, RecycleEffect(t, p) PROVE Mapped'
  <2>1. /\ UNCHANGED <<pageTable, freeFrames>>
        /\ \A f \in Frames : frame'[f].page = frame[f].page
    BY <1>4 DEF RecycleEffect, Framed
  <2> QED  BY <2>1, MappedStays
<1>5. ASSUME NEW t \in Threads, NEW p \in Pages, FreshEffect(t, p) PROVE Mapped'
  <2>1. /\ UNCHANGED <<pageTable, freeFrames>>
        /\ \A f \in Frames : frame'[f].page = frame[f].page
    BY <1>5 DEF FreshEffect, Framed
  <2> QED  BY <2>1, MappedStays
<1>6. ASSUME NEW t \in Threads, NEW p \in Pages, NewSlowEffect(t, p) PROVE Mapped'
  <2>1. /\ UNCHANGED <<pageTable, freeFrames>>
        /\ \A f \in Frames : frame'[f].page = frame[f].page
    BY <1>6 DEF NewSlowEffect, Framed
  <2> QED  BY <2>1, MappedStays
<1>7. ASSUME NEW t \in Threads, RecycledEffect(t) PROVE Mapped'
  <2>1. /\ UNCHANGED <<pageTable, freeFrames>>
        /\ \A f \in Frames : frame'[f].page = frame[f].page
    BY <1>7 DEF RecycledEffect, Framed
  <2> QED  BY <2>1, MappedStays
<1>8. ASSUME NEW t \in Threads, PickEffect(t) PROVE Mapped'
  <2>1. UNCHANGED <<pageTable, frame>> /\ freeFrames \in Seq(Frames)
    BY <1>8 DEF PickEffect, Safety, TypeOK
  <2>2. \A i \in DOMAIN freeFrames' : i \in DOMAIN freeFrames /\ freeFrames'[i] = freeFrames[i]
    <3>1. CASE freeFrames' = freeFrames
      BY <3>1
    <3>2. CASE freeFrames # <<>> /\ freeFrames' = SubSeq(freeFrames, 1, Len(freeFrames) - 1)
      BY <2>1, <3>2
    <3> QED  BY <1>8, <3>1, <3>2 DEF PickEffect
  <2> QED  BY <2>1, <2>2 DEF Mapped
<1>9. ASSUME NEW t \in Threads, SweepEffect(t) PROVE Mapped'
  <2>1. /\ UNCHANGED <<pageTable, freeFrames>>
        /\ \A f \in Frames : frame'[f].page = frame[f].page
    BY <1>9 DEF SweepEffect, Framed
  <2> QED  BY <2>1, MappedStays
<1>10. ASSUME NEW t \in Threads, ExhaustedEffect(t) PROVE Mapped'
  <2>1. /\ UNCHANGED <<pageTable, freeFrames>>
        /\ \A f \in Frames : frame'[f].page = frame[f].page
    BY <1>10 DEF ExhaustedEffect, Framed
  <2> QED  BY <2>1, MappedStays
<1>11. ASSUME NEW t \in Threads, EvictWriteEffect(t) PROVE Mapped'
  <2>1. /\ UNCHANGED <<pageTable, freeFrames>>
        /\ \A f \in Frames : frame'[f].page = frame[f].page
    BY <1>11 DEF EvictWriteEffect, Framed
  <2> QED  BY <2>1, MappedStays
<1>12. ASSUME NEW t \in Threads, EvictResetEffect(t) PROVE Mapped'
  <2> DEFINE f == op[t].fid
             q == frame[f].page
  <2>1. /\ f \in Frames /\ frame'[f].page = NoPage /\ \A g \in Frames : g # f => frame'[g].page = frame[g].page
        /\ pageTable \in [Pages -> 0 .. Capacity] /\ freeFrames \in Seq(Frames) /\ op[t].page \in Pages
    BY <1>12 DEF EvictResetEffect, Framed, Safety, TypeOK
  <2>2. \/ q \in Pages /\ pageTable' = [pageTable EXCEPT ![q] = NoFrame]
        \/ q = NoPage /\ pageTable' = pageTable
    BY <1>12 DEF EvictResetEffect
  <2>3. \/ q = op[t].page /\ freeFrames' = Append(freeFrames, f)
        \/ freeFrames' = freeFrames
    BY <1>12 DEF EvictResetEffect
  <2> HIDE DEF q, f
  <2>4. \A g \in Frames : frame[g].page # NoPage => pageTable[frame[g].page] = g
    BY DEF Mapped
  <2>5. \A p \in Pages : pageTable[p] # NoFrame => pageTable[p] \in Frames /\ frame[pageTable[p]].page = p
    BY <2>1, PoolAssumption DEF Mapped, NoFrame, Frames
  <2>6. \A i \in DOMAIN freeFrames : freeFrames[i] \in Frames /\ frame[freeFrames[i]].page = NoPage
    BY <2>1 DEF Mapped
  <2>7. \A p \in Pages : pageTable'[p] # NoFrame => frame'[pageTable'[p]].page = p
    <3> SUFFICES ASSUME NEW p \in Pages, pageTable'[p] # NoFrame PROVE frame'[pageTable'[p]].page = p
      OBVIOUS
    <3>1. pageTable'[p] = pageTable[p] /\ p # q
      BY <2>1, <2>2, PoolAssumption
    <3>2. pageTable[p] # f
      BY <2>5, <3>1 DEF q
    <3> QED  BY <2>1, <2>5, <3>1, <3>2
  <2>8. \A g \in Frames : frame'[g].page # NoPage => pageTable'[frame'[g].page] = g
    <3> SUFFICES ASSUME NEW g \in Frames, frame'[g].page # NoPage PROVE pageTable'[frame'[g].page] = g
      OBVIOUS
    <3>1. g # f /\ frame'[g].page = frame[g].page /\ pageTable[frame[g].page] = g
      BY <2>1, <2>4
    <3>2. frame[g].page \in Pages
      <4>1. frame[g] \in Frame
        BY DEF Safety, TypeOK
      <4> QED  BY <3>1, <4>1 DEF Frame
    <3>3. frame[g].page # q
      <4> SUFFICES ASSUME frame[g].page = q PROVE FALSE
        OBVIOUS
      <4>1. q # NoPage /\ frame[f].page = q
        BY <3>2, PoolAssumption DEF q
      <4>2. pageTable[q] = f
        BY <2>1, <2>4, <4>1
      <4> QED  BY <3>1, <4>2
    <3> QED  BY <2>1, <2>2, <3>1, <3>2, <3>3
  <2>9. /\ \A i \in DOMAIN freeFrames' : frame'[freeFrames'[i]].page = NoPage
        /\ \A i, j \in DOMAIN freeFrames' : freeFrames'[i] = freeFrames'[j] => i = j
    <3>1. CASE freeFrames' = freeFrames
      BY <2>1, <2>6, <3>1 DEF Mapped
    <3>2. CASE q = op[t].page /\ freeFrames' = Append(freeFrames, f)
      <4>1. \A i \in DOMAIN freeFrames : freeFrames[i] # f
        BY <2>1, <2>6, <3>2, PoolAssumption DEF q
      <4>2. /\ DOMAIN freeFrames' = 1 .. (Len(freeFrames) + 1) /\ DOMAIN freeFrames = 1 .. Len(freeFrames)
            /\ \A i \in 1 .. Len(freeFrames) : freeFrames'[i] = freeFrames[i]
            /\ freeFrames'[Len(freeFrames) + 1] = f /\ Len(freeFrames) \in Nat
        BY <2>1, <3>2
      <4>3. \A i \in DOMAIN freeFrames' : i \in DOMAIN freeFrames \/ i = Len(freeFrames) + 1
        BY <4>2
      <4>4. \A i, j \in DOMAIN freeFrames : freeFrames[i] = freeFrames[j] => i = j
        BY DEF Mapped
      <4>5. \A i \in DOMAIN freeFrames' : frame'[freeFrames'[i]].page = NoPage
        BY <2>1, <2>6, <4>2, <4>3
      <4>6. \A i, j \in DOMAIN freeFrames' : freeFrames'[i] = freeFrames'[j] => i = j
        BY <4>1, <4>2, <4>3, <4>4
      <4> QED  BY <4>5, <4>6
    <3> QED  BY <2>3, <3>1, <3>2
  <2> QED  BY <2>7, <2>8, <2>9 DEF Mapped
<1>13. ASSUME NEW t \in Threads, InstallEffect(t) PROVE Mapped'
  <2> DEFINE f == op[t].fid
             q == op[t].page
  <2>1. /\ f \in Frames /\ q \in Pages /\ op[t].at = "install" /\ frame'[f].page = q
        /\ \A g \in Frames : g # f => frame'[g].page = frame[g].page
        /\ pageTable' = [pageTable EXCEPT ![q] = f] /\ freeFrames' = freeFrames
        /\ pageTable \in [Pages -> 0 .. Capacity] /\ freeFrames \in Seq(Frames)
    BY <1>13 DEF InstallEffect, Framed, Safety, TypeOK
  <2>2. /\ pageTable[q] = NoFrame /\ frame[f].page = NoPage
        /\ \A i \in DOMAIN freeFrames : freeFrames[i] # f
    BY <2>1 DEF Mine, MineAt
  <2> HIDE DEF q, f
  <2>3. \A p \in Pages : pageTable'[p] # NoFrame => frame'[pageTable'[p]].page = p
    <3> SUFFICES ASSUME NEW p \in Pages, p # q, pageTable[p] # NoFrame
                 PROVE  frame'[pageTable[p]].page = p
      BY <2>1
    <3>1. pageTable[p] \in Frames /\ frame[pageTable[p]].page = p
      BY <2>1, PoolAssumption DEF Mapped, NoFrame, Frames
    <3>2. pageTable[p] # f
      BY <2>2, <3>1, PoolAssumption
    <3> QED  BY <2>1, <3>1, <3>2
  <2>4. \A g \in Frames : frame'[g].page # NoPage => pageTable'[frame'[g].page] = g
    <3> SUFFICES ASSUME NEW g \in Frames, g # f, frame[g].page # NoPage
                 PROVE  pageTable'[frame[g].page] = g
      BY <2>1
    <3>1. pageTable[frame[g].page] = g
      BY DEF Mapped
    <3>2. g # NoFrame
      BY PoolAssumption DEF Frames, NoFrame
    <3>3. frame[g].page # q
      BY <2>2, <3>1, <3>2
    <3> QED  BY <2>1, <3>1, <3>3
  <2>5. \A i \in DOMAIN freeFrames : frame'[freeFrames[i]].page = NoPage
    <3>1. \A i \in DOMAIN freeFrames : freeFrames[i] \in Frames
      BY <2>1
    <3> QED  BY <2>1, <2>2, <3>1 DEF Mapped
  <2> QED  BY <2>1, <2>3, <2>4, <2>5 DEF Mapped
<1>14. ASSUME NEW t \in Threads, IoErrorEffect(t) PROVE Mapped'
  <2>1. /\ UNCHANGED <<pageTable, freeFrames>>
        /\ \A f \in Frames : frame'[f].page = frame[f].page
    BY <1>14 DEF IoErrorEffect, Framed
  <2> QED  BY <2>1, MappedStays
<1>15. ASSUME NEW t \in Threads, WriteEffect(t) PROVE Mapped'
  <2>1. /\ UNCHANGED <<pageTable, freeFrames>>
        /\ \A f \in Frames : frame'[f].page = frame[f].page
    BY <1>15 DEF WriteEffect, Framed
  <2> QED  BY <2>1, MappedStays
<1>16. ASSUME NEW t \in Threads, ReleaseEffect(t) PROVE Mapped'
  <2>1. /\ UNCHANGED <<pageTable, freeFrames>>
        /\ \A f \in Frames : frame'[f].page = frame[f].page
    BY <1>16 DEF ReleaseEffect, Framed
  <2> QED  BY <2>1, MappedStays
<1>17. ASSUME NEW t \in Threads, NoteDirtyEffect(t) PROVE Mapped'
  <2>1. /\ UNCHANGED <<pageTable, freeFrames>>
        /\ \A f \in Frames : frame'[f].page = frame[f].page
    BY <1>17 DEF NoteDirtyEffect, Framed
  <2> QED  BY <2>1, MappedStays
<1>18. ASSUME NEW t \in Threads, UnpinEffect(t) PROVE Mapped'
  <2>1. /\ UNCHANGED <<pageTable, freeFrames>>
        /\ \A f \in Frames : frame'[f].page = frame[f].page
    BY <1>18 DEF UnpinEffect, Framed
  <2> QED  BY <2>1, MappedStays
<1>19. ASSUME NEW t \in Threads, FlushAllEffect(t) PROVE Mapped'
  <2>1. /\ UNCHANGED <<pageTable, freeFrames>>
        /\ \A f \in Frames : frame'[f].page = frame[f].page
    BY <1>19 DEF FlushAllEffect, Framed
  <2> QED  BY <2>1, MappedStays
<1>20. ASSUME NEW t \in Threads, ScanFrameEffect(t) PROVE Mapped'
  <2>1. /\ UNCHANGED <<pageTable, freeFrames>>
        /\ \A f \in Frames : frame'[f].page = frame[f].page
    BY <1>20 DEF ScanFrameEffect, Framed
  <2> QED  BY <2>1, MappedStays
<1>21. ASSUME NEW t \in Threads, ScanEndEffect(t) PROVE Mapped'
  <2>1. /\ UNCHANGED <<pageTable, freeFrames>>
        /\ \A f \in Frames : frame'[f].page = frame[f].page
    BY <1>21 DEF ScanEndEffect, Framed
  <2> QED  BY <2>1, MappedStays
<1>22. ASSUME NEW t \in Threads, FlushWriteEffect(t) PROVE Mapped'
  <2>1. /\ UNCHANGED <<pageTable, freeFrames>>
        /\ \A f \in Frames : frame'[f].page = frame[f].page
    BY <1>22 DEF FlushWriteEffect, Framed
  <2> QED  BY <2>1, MappedStays
<1>23. ASSUME NEW t \in Threads, FlushCleanEffect(t) PROVE Mapped'
  <2>1. /\ UNCHANGED <<pageTable, freeFrames>>
        /\ \A f \in Frames : frame'[f].page = frame[f].page
    BY <1>23 DEF FlushCleanEffect, Framed
  <2> QED  BY <2>1, MappedStays
<1>24. ASSUME NEW t \in Threads, FlushUndirtyEffect(t) PROVE Mapped'
  <2>1. /\ UNCHANGED <<pageTable, freeFrames>>
        /\ \A f \in Frames : frame'[f].page = frame[f].page
    BY <1>24 DEF FlushUndirtyEffect, Framed
  <2> QED  BY <2>1, MappedStays
<1>25. CASE UNCHANGED vars
  <2>1. /\ UNCHANGED <<pageTable, freeFrames>>
        /\ \A f \in Frames : frame'[f].page = frame[f].page
    BY <1>25 DEF vars, poolVars
  <2> QED  BY <2>1, MappedStays
<1> QED
  BY <1>1, <1>2, <1>3, <1>4, <1>5, <1>6, <1>7, <1>8, <1>9, <1>10, <1>11, <1>12, <1>13, <1>14, <1>15, <1>16,
     <1>17, <1>18, <1>19, <1>20, <1>21, <1>22, <1>23, <1>24, <1>25
  DEF Effect

\* What the holder of the lock counts on is changed by nobody else.
LEMMA MineStays ==
    ASSUME Safety, Mine, NEW t \in Threads, Stepped(t), op'[t].at \notin Locking,
           pageTable' = pageTable,
           freeFrames' = freeFrames, \A f \in Frames : frame'[f].page = frame[f].page
    PROVE  Mine'
<1> SUFFICES ASSUME NEW u \in Threads, op'[u].at \in Locking PROVE MineAt(u)'
  BY DEF Mine, MineAt, Locking
<1>1. op'[u] = op[u] /\ MineAt(u)
  BY DEF Stepped, Mine
<1>2. op[u].at = "install" => op[u].fid \in Frames
  BY DEF Safety, Placed, PlacedAt
<1> QED  BY <1>1, <1>2 DEF MineAt

\* A step of the holder of the lock concerns no other.
LEMMA MineAlone ==
    ASSUME Safety, NEW t \in Threads, Stepped(t), op[t].at \in Locking \/ TableFree, MineAt(t)'
    PROVE  Mine'
<1> SUFFICES ASSUME NEW u \in Threads, u # t PROVE MineAt(u)'
  BY DEF Mine
<1>1. op'[u] = op[u] /\ op[u].at \notin Locking
  BY DEF Stepped, Safety, Exclusive, TableFree, Locking
<1> QED  BY <1>1 DEF MineAt, Locking

\* What the holder of the lock counts on is kept.
LEMMA MineKept == Owned /\ Effect => Mine'
<1> SUFFICES ASSUME Owned, Effect PROVE Mine'
  OBVIOUS
<1> USE DEF Owned
<1>1. ASSUME NEW t \in Threads, NEW p \in Pages, HitEffect(t, p) PROVE Mine'
  <2>1. Stepped(t) /\ op'[t].at \notin Locking /\ UNCHANGED <<pageTable, freeFrames>>
    BY <1>1, NoOpAt DEF HitEffect, Locking
  <2>2. \A f \in Frames : frame'[f].page = frame[f].page
    BY <1>1 DEF HitEffect, Framed
  <2> QED  BY <2>1, <2>2, MineStays
<1>2. ASSUME NEW t \in Threads, NEW p \in Pages, MissEffect(t, p) PROVE Mine'
  <2>1. Stepped(t) /\ op'[t].at \notin Locking /\ UNCHANGED <<pageTable, freeFrames>>
    BY <1>2, NoOpAt DEF MissEffect, Locking
  <2>2. \A f \in Frames : frame'[f].page = frame[f].page
    BY <1>2 DEF MissEffect, Framed
  <2> QED  BY <2>1, <2>2, MineStays
<1>3. ASSUME NEW t \in Threads, NEW p \in Pages, SlowEffect(t, p) PROVE Mine'
  <2>1. Stepped(t) /\ TableFree /\ op'[t].at = "pick" /\ op'[t].page = p /\ pageTable'[p] = NoFrame
    BY <1>3 DEF SlowEffect
  <2>2. MineAt(t)'
    BY <2>1 DEF MineAt
  <2> QED  BY <2>1, <2>2, MineAlone
<1>4. ASSUME NEW t \in Threads, NEW p \in Pages, RecycleEffect(t, p) PROVE Mine'
  <2>1. UNCHANGED <<op, frame, pageTable, freeFrames>>
    BY <1>4 DEF RecycleEffect
  <2> QED  BY <2>1 DEF Mine, MineAt
<1>5. ASSUME NEW t \in Threads, NEW p \in Pages, FreshEffect(t, p) PROVE Mine'
  <2>1. Stepped(t) /\ op'[t].at \notin Locking /\ UNCHANGED <<pageTable, freeFrames>>
    BY <1>5, NoOpAt DEF FreshEffect, Locking
  <2>2. \A f \in Frames : frame'[f].page = frame[f].page
    BY <1>5 DEF FreshEffect, Framed
  <2> QED  BY <2>1, <2>2, MineStays
<1>6. ASSUME NEW t \in Threads, NEW p \in Pages, NewSlowEffect(t, p) PROVE Mine'
  <2>1. Stepped(t) /\ TableFree /\ op'[t].page = p /\ op'[t].why = op[t].why /\ pageTable' = pageTable
    BY <1>6 DEF NewSlowEffect
  <2>2. MineAt(t)'
    <3>1. CASE op[t].why = "recycled" /\ pageTable[p] \in Frames /\ op'[t].at = "evict" /\ op'[t].fid = pageTable[p]
      <4>1. pageTable[p] # NoFrame
        BY <3>1, PoolAssumption DEF Frames, NoFrame
      <4> QED  BY <2>1, <3>1, <4>1 DEF MineAt
    <3>2. CASE ~(op[t].why = "recycled" /\ pageTable[p] # NoFrame) /\ op'[t].at = "pick"
      <4>1. op[t].why # "recycled" => pageTable[p] = NoFrame
        <5>1. op[t].at = "miss" /\ op[t].why # "fetch" /\ op[t].page = p
          BY <1>6 DEF NewSlowEffect
        <5>2. op[t].why \in {"", "fetch", "recycled", "fresh"}
          BY DEF Safety, TypeOK, Call
        <5>3. BringingAt(t) /\ Bringing(t)
          BY <5>1 DEF Created, Bringing
        <5> QED  BY <5>1, <5>2, <5>3 DEF BringingAt, Created, Known
      <4> QED  BY <2>1, <3>2, <4>1 DEF MineAt
    <3> QED  BY <1>6, <3>1, <3>2 DEF NewSlowEffect
  <2> QED  BY <2>1, <2>2, MineAlone
<1>7. ASSUME NEW t \in Threads, RecycledEffect(t) PROVE Mine'
  <2>1. Stepped(t) /\ op'[t].at \notin Locking /\ UNCHANGED <<pageTable, freeFrames>>
    BY <1>7, NoOpAt DEF RecycledEffect, Locking
  <2>2. \A f \in Frames : frame'[f].page = frame[f].page
    BY <1>7 DEF RecycledEffect, Framed
  <2> QED  BY <2>1, <2>2, MineStays
<1>8. ASSUME NEW t \in Threads, PickEffect(t) PROVE Mine'
  <2>1. /\ Stepped(t) /\ op[t].at = "pick" /\ op[t].at \in Locking /\ op'[t].page = op[t].page
        /\ UNCHANGED <<pageTable, frame>> /\ freeFrames \in Seq(Frames)
    BY <1>8 DEF PickEffect, Locking, Safety, TypeOK
  <2>2. pageTable[op[t].page] = NoFrame
    BY <2>1 DEF Mine, MineAt
  <2>3. MineAt(t)'
    <3>1. CASE freeFrames = <<>> /\ freeFrames' = freeFrames /\ op'[t].at = "sweep"
      BY <2>1, <2>2, <3>1 DEF MineAt
    <3>2. CASE /\ freeFrames # <<>> /\ op'[t].at = "install" /\ op'[t].fid = freeFrames[Len(freeFrames)]
               /\ freeFrames' = SubSeq(freeFrames, 1, Len(freeFrames) - 1)
      <4>1. Len(freeFrames) \in DOMAIN freeFrames
        BY <2>1, <3>2
      <4>2. \A i \in DOMAIN freeFrames' : /\ i \in DOMAIN freeFrames /\ i # Len(freeFrames)
                                          /\ freeFrames'[i] = freeFrames[i]
        BY <2>1, <3>2
      <4>3. frame[op'[t].fid].page = NoPage
        BY <3>2, <4>1 DEF Mapped
      <4>4. \A i \in DOMAIN freeFrames' : freeFrames'[i] # op'[t].fid
        BY <3>2, <4>1, <4>2 DEF Mapped
      <4> QED  BY <2>1, <2>2, <3>2, <4>3, <4>4 DEF MineAt
    <3> QED  BY <1>8, <3>1, <3>2 DEF PickEffect
  <2> QED  BY <2>1, <2>3, MineAlone
<1>9. ASSUME NEW t \in Threads, SweepEffect(t) PROVE Mine'
  <2>1. /\ Stepped(t) /\ op[t].at = "sweep" /\ op[t].at \in Locking /\ op'[t].page = op[t].page
        /\ UNCHANGED <<pageTable, freeFrames>> /\ op'[t].at \in {"sweep", "evict"}
    BY <1>9 DEF SweepEffect, Locking
  <2>2. pageTable[op[t].page] = NoFrame /\ freeFrames = <<>>
    BY <2>1 DEF Mine, MineAt
  <2>3. MineAt(t)'
    BY <2>1, <2>2 DEF MineAt
  <2> QED  BY <2>1, <2>3, MineAlone
<1>10. ASSUME NEW t \in Threads, ExhaustedEffect(t) PROVE Mine'
  <2>1. Stepped(t) /\ op'[t].at \notin Locking /\ UNCHANGED <<pageTable, freeFrames>>
    BY <1>10, NoOpAt DEF ExhaustedEffect, Locking
  <2>2. \A f \in Frames : frame'[f].page = frame[f].page
    BY <1>10 DEF ExhaustedEffect, Framed
  <2> QED  BY <2>1, <2>2, MineStays
<1>11. ASSUME NEW t \in Threads, EvictWriteEffect(t) PROVE Mine'
  <2>1. /\ Stepped(t) /\ op[t].at = "evict" /\ op[t].at \in Locking /\ op'[t].page = op[t].page
        /\ op'[t].fid = op[t].fid /\ op'[t].why = op[t].why /\ op'[t].at = "reset"
        /\ UNCHANGED <<pageTable, freeFrames>>
    BY <1>11 DEF EvictWriteEffect, Locking
  <2>2. MineAt(t)
    BY DEF Mine
  <2>3. MineAt(t)'
    BY <2>1, <2>2 DEF MineAt
  <2> QED  BY <2>1, <2>3, MineAlone
<1>12. ASSUME NEW t \in Threads, EvictResetEffect(t) PROVE Mine'
  <2> DEFINE f == op[t].fid
             q == frame[f].page
  <2>1. /\ Stepped(t) /\ op[t].at = "reset" /\ op[t].at \in Locking /\ op'[t].page = op[t].page
        /\ f \in Frames /\ op[t].page \in Pages /\ frame'[f].page = NoPage
        /\ op'[t].at \in {"pick", "install"} /\ pageTable \in [Pages -> 0 .. Capacity]
    BY <1>12 DEF EvictResetEffect, Locking, Safety, TypeOK
  <2>2. \/ q \in Pages /\ pageTable' = [pageTable EXCEPT ![q] = NoFrame]
        \/ q = NoPage /\ pageTable' = pageTable
    BY <1>12 DEF EvictResetEffect
  <2>3. op'[t].at = "install" => q # op[t].page /\ freeFrames' = freeFrames /\ op'[t].fid = f
    BY <1>12 DEF EvictResetEffect
  <2>4. pageTable[op[t].page] = NoFrame \/ pageTable[op[t].page] = f
    BY <2>1 DEF Mine, MineAt
  <2>5. f # NoFrame
    BY <2>1, PoolAssumption DEF Frames, NoFrame
  <2>6. pageTable[op[t].page] = f => q = op[t].page
    BY <2>1, <2>5 DEF Mapped
  <2>7. pageTable'[op[t].page] = NoFrame
    BY <2>1, <2>2, <2>4, <2>6, PoolAssumption
  <2>8. op'[t].at = "install" => freeFrames' = <<>>
    BY <2>1, <2>3, <2>4, <2>6 DEF Mine, MineAt
  <2> HIDE DEF q
  <2>9. MineAt(t)'
    BY <2>1, <2>3, <2>7, <2>8 DEF MineAt
  <2> QED  BY <2>1, <2>9, MineAlone
<1>13. ASSUME NEW t \in Threads, InstallEffect(t) PROVE Mine'
  <2>1. Stepped(t) /\ op[t].at \in Locking /\ op'[t].at = "none"
    BY <1>13, NoOpAt DEF InstallEffect, Locking
  <2>2. MineAt(t)'
    BY <2>1 DEF MineAt
  <2> QED  BY <2>1, <2>2, MineAlone
<1>14. ASSUME NEW t \in Threads, IoErrorEffect(t) PROVE Mine'
  <2>1. Stepped(t) /\ op'[t].at \notin Locking /\ UNCHANGED <<pageTable, freeFrames>>
    BY <1>14, NoOpAt DEF IoErrorEffect, Locking
  <2>2. \A f \in Frames : frame'[f].page = frame[f].page
    BY <1>14 DEF IoErrorEffect, Framed
  <2> QED  BY <2>1, <2>2, MineStays
<1>15. ASSUME NEW t \in Threads, WriteEffect(t) PROVE Mine'
  <2>1. Stepped(t) /\ op'[t].at \notin Locking /\ UNCHANGED <<pageTable, freeFrames>>
    BY <1>15, NoOpAt DEF WriteEffect, Locking, Safety, TypeOK, Stepped
  <2>2. \A f \in Frames : frame'[f].page = frame[f].page
    BY <1>15 DEF WriteEffect, Framed
  <2> QED  BY <2>1, <2>2, MineStays
<1>16. ASSUME NEW t \in Threads, ReleaseEffect(t) PROVE Mine'
  <2>1. Stepped(t) /\ op'[t].at \notin Locking /\ UNCHANGED <<pageTable, freeFrames>>
    BY <1>16, NoOpAt DEF ReleaseEffect, Locking
  <2>2. \A f \in Frames : frame'[f].page = frame[f].page
    BY <1>16 DEF ReleaseEffect, Framed
  <2> QED  BY <2>1, <2>2, MineStays
<1>17. ASSUME NEW t \in Threads, NoteDirtyEffect(t) PROVE Mine'
  <2>1. Stepped(t) /\ op'[t].at \notin Locking /\ UNCHANGED <<pageTable, freeFrames>>
    BY <1>17, NoOpAt DEF NoteDirtyEffect, Locking
  <2>2. \A f \in Frames : frame'[f].page = frame[f].page
    BY <1>17 DEF NoteDirtyEffect, Framed
  <2> QED  BY <2>1, <2>2, MineStays
<1>18. ASSUME NEW t \in Threads, UnpinEffect(t) PROVE Mine'
  <2>1. Stepped(t) /\ op'[t].at \notin Locking /\ UNCHANGED <<pageTable, freeFrames>>
    BY <1>18, NoOpAt DEF UnpinEffect, Locking
  <2>2. \A f \in Frames : frame'[f].page = frame[f].page
    BY <1>18 DEF UnpinEffect, Framed
  <2> QED  BY <2>1, <2>2, MineStays
<1>19. ASSUME NEW t \in Threads, FlushAllEffect(t) PROVE Mine'
  <2>1. Stepped(t) /\ op'[t].at \notin Locking /\ UNCHANGED <<pageTable, freeFrames>>
    BY <1>19, NoOpAt DEF FlushAllEffect, Locking
  <2>2. \A f \in Frames : frame'[f].page = frame[f].page
    BY <1>19 DEF FlushAllEffect, Framed
  <2> QED  BY <2>1, <2>2, MineStays
<1>20. ASSUME NEW t \in Threads, ScanFrameEffect(t) PROVE Mine'
  <2>1. Stepped(t) /\ op'[t].at \notin Locking /\ UNCHANGED <<pageTable, freeFrames>>
    BY <1>20, NoOpAt DEF ScanFrameEffect, Locking
  <2>2. \A f \in Frames : frame'[f].page = frame[f].page
    BY <1>20 DEF ScanFrameEffect, Framed
  <2> QED  BY <2>1, <2>2, MineStays
<1>21. ASSUME NEW t \in Threads, ScanEndEffect(t) PROVE Mine'
  <2>1. Stepped(t) /\ op'[t].at \notin Locking /\ UNCHANGED <<pageTable, freeFrames>>
    BY <1>21, NoOpAt DEF ScanEndEffect, Locking
  <2>2. \A f \in Frames : frame'[f].page = frame[f].page
    BY <1>21 DEF ScanEndEffect, Framed
  <2> QED  BY <2>1, <2>2, MineStays
<1>22. ASSUME NEW t \in Threads, FlushWriteEffect(t) PROVE Mine'
  <2>1. Stepped(t) /\ op'[t].at \notin Locking /\ UNCHANGED <<pageTable, freeFrames>>
    BY <1>22, NoOpAt DEF FlushWriteEffect, Locking
  <2>2. \A f \in Frames : frame'[f].page = frame[f].page
    BY <1>22 DEF FlushWriteEffect, Framed
  <2> QED  BY <2>1, <2>2, MineStays
<1>23. ASSUME NEW t \in Threads, FlushCleanEffect(t) PROVE Mine'
  <2>1. Stepped(t) /\ op'[t].at \notin Locking /\ UNCHANGED <<pageTable, freeFrames>>
    BY <1>23, NoOpAt DEF FlushCleanEffect, Locking
  <2>2. \A f \in Frames : frame'[f].page = frame[f].page
    BY <1>23 DEF FlushCleanEffect, Framed
  <2> QED  BY <2>1, <2>2, MineStays
<1>24. ASSUME NEW t \in Threads, FlushUndirtyEffect(t) PROVE Mine'
  <2>1. Stepped(t) /\ op'[t].at \notin Locking /\ UNCHANGED <<pageTable, freeFrames>>
    BY <1>24, NoOpAt DEF FlushUndirtyEffect, Locking
  <2>2. \A f \in Frames : frame'[f].page = frame[f].page
    BY <1>24 DEF FlushUndirtyEffect, Framed
  <2> QED  BY <2>1, <2>2, MineStays
<1>25. CASE UNCHANGED vars
  <2>1. UNCHANGED <<op, frame, pageTable, freeFrames>>
    BY <1>25 DEF vars, poolVars
  <2> QED  BY <2>1 DEF Mine, MineAt
<1> QED
  BY <1>1, <1>2, <1>3, <1>4, <1>5, <1>6, <1>7, <1>8, <1>9, <1>10, <1>11, <1>12, <1>13, <1>14, <1>15, <1>16,
     <1>17, <1>18, <1>19, <1>20, <1>21, <1>22, <1>23, <1>24, <1>25
  DEF Effect

-----------------------------------------------------------------------------
(* Creation of pages *)

\* Nobody creates, installs or gives up a page.
LEMMA CreatedStays ==
    ASSUME Safety, Created, NEW t \in Threads, Stepped(t), freeList' = freeList, use' = use,
           Bringing(t)' => Bringing(t) /\ op'[t].why = op[t].why /\ op'[t].page = op[t].page,
           \A p \in Pages : pageTable'[p] # NoFrame => pageTable[p] # NoFrame,
           \A p \in Pages : disk[p].page # NoPage => disk'[p].page # NoPage,
           \A f \in Frames : frame'[f].page # NoPage => frame[f].page # NoPage,
           \A f \in Frames : frame'[f].image.page = frame[f].image.page,
           op'[t].at = "write" => op'[t].fid \in Frames /\ frame[op'[t].fid].image.page # NoPage
    PROVE  Created'
<1>1. \A u \in Threads : Bringing(u)' => Bringing(u) /\ op'[u].why = op[u].why /\ op'[u].page = op[u].page
  BY DEF Stepped, Bringing
<1>2. \A u \in Threads : Bringing(u) => op[u].page \in Pages
  BY DEF Safety, Placed, PlacedAt, Bringing
<1>3. Listed'
  BY DEF Created, Listed
<1>4. ASSUME NEW u \in Threads PROVE BringingAt(u)'
  BY <1>1, <1>2 DEF Created, BringingAt
<1>5. OneCreator'
  BY <1>1 DEF Created, OneCreator
<1>6. Known'
  BY DEF Created, Known
<1>7. Imaged'
  <2>1. \A u \in Threads : op'[u].at = "write" => op'[u].fid \in Frames /\ frame[op'[u].fid].image.page # NoPage
    BY DEF Stepped, Created, Imaged, Safety, Placed, PlacedAt
  <2> QED  BY <2>1 DEF Created, Imaged
<1> QED  BY <1>3, <1>4, <1>5, <1>6, <1>7 DEF Created

\* Pages are created by one thread each, after every step.
LEMMA CreatedKept == Owned /\ Effect => Created'
<1> SUFFICES ASSUME Owned, Effect PROVE Created'
  OBVIOUS
<1> USE DEF Owned
<1>1. ASSUME NEW t \in Threads, NEW p \in Pages, HitEffect(t, p) PROVE Created'
  <2>1. Stepped(t) /\ freeList' = freeList /\ use' = use
    BY <1>1 DEF HitEffect
  <2>2. Bringing(t)' => Bringing(t) /\ op'[t].why = op[t].why /\ op'[t].page = op[t].page
    BY <1>1, NoOpAt DEF HitEffect, Bringing, Locking
  <2>3. /\ \A q \in Pages : pageTable'[q] # NoFrame => pageTable[q] # NoFrame
        /\ \A q \in Pages : disk[q].page # NoPage => disk'[q].page # NoPage
    BY <1>1 DEF HitEffect
  <2>4. /\ \A f \in Frames : frame'[f].page # NoPage => frame[f].page # NoPage
        /\ \A f \in Frames : frame'[f].image.page = frame[f].image.page
    BY <1>1 DEF HitEffect, Framed
  <2>5. op'[t].at = "write" => op'[t].fid \in Frames /\ frame[op'[t].fid].image.page # NoPage
    BY <1>1, NoOpAt DEF HitEffect
  <2> QED  BY <2>1, <2>2, <2>3, <2>4, <2>5, CreatedStays
<1>2. ASSUME NEW t \in Threads, NEW p \in Pages, MissEffect(t, p) PROVE Created'
  <2>1. /\ Stepped(t) /\ use[p] # "none" /\ op'[t].why = "fetch" /\ op'[t].page = p /\ op'[t].at = "miss"
        /\ UNCHANGED <<frame, pageTable, freeList, use, disk>>
    BY <1>2 DEF MissEffect
  <2>2. Listed' /\ Known'
    BY <2>1 DEF Created, Listed, Known
  <2>3. \A u \in Threads : BringingAt(u)'
    BY <2>1 DEF Created, BringingAt, Bringing, Stepped
  <2>4. OneCreator'
    BY <2>1 DEF Created, OneCreator, Bringing, Stepped
  <2>5. Imaged'
    BY <2>1 DEF Created, Imaged, Stepped
  <2> QED  BY <2>2, <2>3, <2>4, <2>5 DEF Created
<1>3. ASSUME NEW t \in Threads, NEW p \in Pages, SlowEffect(t, p) PROVE Created'
  <2>1. Stepped(t) /\ freeList' = freeList /\ use' = use
    BY <1>3 DEF SlowEffect
  <2>2. Bringing(t)' => Bringing(t) /\ op'[t].why = op[t].why /\ op'[t].page = op[t].page
    BY <1>3, NoOpAt DEF SlowEffect, Bringing, Locking
  <2>3. /\ \A q \in Pages : pageTable'[q] # NoFrame => pageTable[q] # NoFrame
        /\ \A q \in Pages : disk[q].page # NoPage => disk'[q].page # NoPage
    BY <1>3 DEF SlowEffect
  <2>4. /\ \A f \in Frames : frame'[f].page # NoPage => frame[f].page # NoPage
        /\ \A f \in Frames : frame'[f].image.page = frame[f].image.page
    BY <1>3 DEF SlowEffect, Framed
  <2>5. op'[t].at = "write" => op'[t].fid \in Frames /\ frame[op'[t].fid].image.page # NoPage
    BY <1>3, NoOpAt DEF SlowEffect
  <2> QED  BY <2>1, <2>2, <2>3, <2>4, <2>5, CreatedStays
<1>4. ASSUME NEW t \in Threads, NEW p \in Pages, RecycleEffect(t, p) PROVE Created'
  <2>1. /\ use[p] = "live" /\ use' = [use EXCEPT ![p] = "dead"] /\ freeList' = Append(freeList, p)
        /\ UNCHANGED <<frame, pageTable, disk, op>>
    BY <1>4 DEF RecycleEffect
  <2>2. use \in [Pages -> {"none", "live", "dead"}] /\ freeList \in Seq(Pages)
    BY DEF Safety, TypeOK
  <2>3. /\ \A q \in Pages : use[q] = "dead" => use'[q] = "dead" /\ q # p
        /\ \A q \in Pages : (use'[q] = "none") = (use[q] = "none")
    BY <2>1, <2>2
  <2>4. /\ DOMAIN freeList' = 1 .. (Len(freeList) + 1) /\ DOMAIN freeList = 1 .. Len(freeList)
        /\ \A i \in 1 .. Len(freeList) : freeList'[i] = freeList[i] /\ freeList[i] \in Pages
        /\ freeList'[Len(freeList) + 1] = p /\ Len(freeList) \in Nat
    BY <2>1, <2>2
  <2>5. \A i \in DOMAIN freeList' : i \in DOMAIN freeList \/ i = Len(freeList) + 1
    BY <2>4
  <2>6. \A i \in DOMAIN freeList : use[freeList[i]] = "dead" /\ freeList[i] # p
    BY <2>3, <2>4 DEF Created, Listed
  <2>7. Listed'
    <3>1. \A i \in DOMAIN freeList' : use'[freeList'[i]] = "dead"
      BY <2>1, <2>2, <2>3, <2>4, <2>5, <2>6
    <3>2. \A i, j \in DOMAIN freeList : freeList[i] = freeList[j] => i = j
      BY DEF Created, Listed
    <3>3. \A i, j \in DOMAIN freeList' : freeList'[i] = freeList'[j] => i = j
      BY <2>4, <2>5, <2>6, <3>2
    <3> QED  BY <3>1, <3>3 DEF Listed
  <2>8. ASSUME NEW u \in Threads PROVE BringingAt(u)'
    <3> SUFFICES ASSUME Bringing(u) PROVE BringingAt(u)'
      BY <2>1 DEF BringingAt, Bringing
    <3>1. op[u].page \in Pages /\ BringingAt(u)
      BY DEF Safety, Placed, PlacedAt, Bringing, Created
    <3>2. op[u].why = "recycled" => \A i \in DOMAIN freeList' : freeList'[i] # op[u].page
      BY <2>3, <2>4, <2>5, <3>1 DEF BringingAt
    <3> QED  BY <2>1, <2>3, <3>1, <3>2 DEF BringingAt
  <2>9. OneCreator' /\ Imaged'
    BY <2>1 DEF Created, OneCreator, Imaged, Bringing
  <2>10. Known'
    BY <2>1, <2>3 DEF Created, Known
  <2> QED  BY <2>7, <2>8, <2>9, <2>10 DEF Created
<1>5. ASSUME NEW t \in Threads, NEW p \in Pages, FreshEffect(t, p) PROVE Created'
  <2>1. /\ Stepped(t) /\ disk[p].page = NoPage /\ disk' = [disk EXCEPT ![p] = Blank(p)] /\ op'[t].at = "miss"
        /\ op'[t].why = "fresh" /\ op'[t].page = p /\ UNCHANGED <<frame, pageTable, freeList, use>>
    BY <1>5 DEF FreshEffect
  <2>2. /\ \A q \in Pages : disk[q].page # NoPage => disk'[q].page # NoPage
        /\ disk'[p].page # NoPage
    BY <2>1, PoolAssumption DEF Safety, TypeOK, Blank
  <2>3. use[p] = "none"
    BY <2>1 DEF Created, Known
  <2>4. Listed' /\ Known'
    BY <2>1, <2>2 DEF Created, Listed, Known
  <2>5. ASSUME NEW u \in Threads PROVE BringingAt(u)'
    <3>1. CASE u = t
      BY <2>1, <2>2, <2>3, <3>1 DEF BringingAt
    <3>2. CASE u # t
      <4>1. op'[u] = op[u] /\ BringingAt(u) /\ (Bringing(u) => op[u].page \in Pages)
        BY <2>1, <3>2 DEF Stepped, Created, Safety, Placed, PlacedAt, Bringing
      <4> QED  BY <2>1, <2>2, <4>1 DEF BringingAt, Bringing
    <3> QED  BY <3>1, <3>2
  <2>6. \A u \in Threads : Bringing(u) /\ op[u].why # "fetch" => op[u].page # p
    <3> SUFFICES ASSUME NEW u \in Threads, Bringing(u), op[u].why # "fetch", op[u].page = p PROVE FALSE
      OBVIOUS
    <3>1. op[u] \in Call /\ BringingAt(u)
      BY DEF Safety, TypeOK, Created
    <3>2. op[u].why \in {"", "fetch", "recycled", "fresh"}
      BY <3>1 DEF Call
    <3> QED  BY <2>1, <2>3, <3>1, <3>2 DEF BringingAt
  <2>7. OneCreator'
    BY <2>1, <2>6 DEF Created, OneCreator, Bringing, Stepped
  <2>8. Imaged'
    BY <2>1 DEF Created, Imaged, Stepped
  <2> QED  BY <2>4, <2>5, <2>7, <2>8 DEF Created
<1>6. ASSUME NEW t \in Threads, NEW p \in Pages, NewSlowEffect(t, p) PROVE Created'
  <2>1. Stepped(t) /\ freeList' = freeList /\ use' = use
    BY <1>6 DEF NewSlowEffect
  <2>2. Bringing(t)' => Bringing(t) /\ op'[t].why = op[t].why /\ op'[t].page = op[t].page
    BY <1>6, NoOpAt DEF NewSlowEffect, Bringing, Locking
  <2>3. /\ \A q \in Pages : pageTable'[q] # NoFrame => pageTable[q] # NoFrame
        /\ \A q \in Pages : disk[q].page # NoPage => disk'[q].page # NoPage
    BY <1>6 DEF NewSlowEffect
  <2>4. /\ \A f \in Frames : frame'[f].page # NoPage => frame[f].page # NoPage
        /\ \A f \in Frames : frame'[f].image.page = frame[f].image.page
    BY <1>6 DEF NewSlowEffect, Framed
  <2>5. op'[t].at = "write" => op'[t].fid \in Frames /\ frame[op'[t].fid].image.page # NoPage
    BY <1>6, NoOpAt DEF NewSlowEffect
  <2> QED  BY <2>1, <2>2, <2>3, <2>4, <2>5, CreatedStays
<1>7. ASSUME NEW t \in Threads, RecycledEffect(t) PROVE Created'
  <2> DEFINE q == freeList[Len(freeList)]
  <2>1. /\ Stepped(t) /\ freeList # <<>> /\ q \in Pages /\ op'[t].at = "miss" /\ op'[t].why = "recycled"
        /\ op'[t].page = q /\ freeList' = SubSeq(freeList, 1, Len(freeList) - 1)
        /\ UNCHANGED <<frame, pageTable, use, disk>> /\ freeList \in Seq(Pages)
    BY <1>7 DEF RecycledEffect, Safety, TypeOK
  <2>2. \A i \in DOMAIN freeList' : /\ i \in DOMAIN freeList /\ i # Len(freeList)
                                    /\ freeList'[i] = freeList[i]
    BY <2>1
  <2>3. Len(freeList) \in DOMAIN freeList
    BY <2>1
  <2>4. use[q] = "dead" /\ \A i \in DOMAIN freeList' : freeList'[i] # q
    BY <2>2, <2>3 DEF Created, Listed
  <2>5. \E i \in DOMAIN freeList : freeList[i] = q
    BY <2>3
  <2> HIDE DEF q
  <2>6. Listed' /\ Known'
    BY <2>1, <2>2 DEF Created, Listed, Known
  <2>7. ASSUME NEW u \in Threads PROVE BringingAt(u)'
    <3>1. CASE u = t
      BY <2>1, <2>4, <3>1 DEF BringingAt
    <3>2. CASE u # t
      <4>1. op'[u] = op[u] /\ BringingAt(u)
        BY <2>1, <3>2 DEF Stepped, Created
      <4> QED  BY <2>1, <2>2, <4>1 DEF BringingAt, Bringing
    <3> QED  BY <3>1, <3>2
  <2>8. \A u \in Threads : Bringing(u) /\ op[u].why # "fetch" => op[u].page # q
    <3> SUFFICES ASSUME NEW u \in Threads, Bringing(u), op[u].why # "fetch", op[u].page = q PROVE FALSE
      OBVIOUS
    <3>1. op[u] \in Call /\ BringingAt(u)
      BY DEF Safety, TypeOK, Created
    <3>2. op[u].why \in {"", "fetch", "recycled", "fresh"}
      BY <3>1 DEF Call
    <3> QED  BY <2>4, <2>5, <3>1, <3>2 DEF BringingAt
  <2>9. OneCreator'
    BY <2>1, <2>8 DEF Created, OneCreator, Bringing, Stepped
  <2>10. Imaged'
    BY <2>1 DEF Created, Imaged, Stepped
  <2> QED  BY <2>6, <2>7, <2>9, <2>10 DEF Created
<1>8. ASSUME NEW t \in Threads, PickEffect(t) PROVE Created'
  <2>1. Stepped(t) /\ freeList' = freeList /\ use' = use
    BY <1>8 DEF PickEffect
  <2>2. Bringing(t)' => Bringing(t) /\ op'[t].why = op[t].why /\ op'[t].page = op[t].page
    BY <1>8, NoOpAt DEF PickEffect, Bringing, Locking
  <2>3. /\ \A q \in Pages : pageTable'[q] # NoFrame => pageTable[q] # NoFrame
        /\ \A q \in Pages : disk[q].page # NoPage => disk'[q].page # NoPage
    BY <1>8 DEF PickEffect
  <2>4. /\ \A f \in Frames : frame'[f].page # NoPage => frame[f].page # NoPage
        /\ \A f \in Frames : frame'[f].image.page = frame[f].image.page
    BY <1>8 DEF PickEffect, Framed
  <2>5. op'[t].at = "write" => op'[t].fid \in Frames /\ frame[op'[t].fid].image.page # NoPage
    BY <1>8, NoOpAt DEF PickEffect
  <2> QED  BY <2>1, <2>2, <2>3, <2>4, <2>5, CreatedStays
<1>9. ASSUME NEW t \in Threads, SweepEffect(t) PROVE Created'
  <2>1. Stepped(t) /\ freeList' = freeList /\ use' = use
    BY <1>9 DEF SweepEffect
  <2>2. Bringing(t)' => Bringing(t) /\ op'[t].why = op[t].why /\ op'[t].page = op[t].page
    BY <1>9, NoOpAt DEF SweepEffect, Bringing, Locking
  <2>3. /\ \A q \in Pages : pageTable'[q] # NoFrame => pageTable[q] # NoFrame
        /\ \A q \in Pages : disk[q].page # NoPage => disk'[q].page # NoPage
    BY <1>9 DEF SweepEffect
  <2>4. /\ \A f \in Frames : frame'[f].page # NoPage => frame[f].page # NoPage
        /\ \A f \in Frames : frame'[f].image.page = frame[f].image.page
    BY <1>9 DEF SweepEffect, Framed
  <2>5. op'[t].at = "write" => op'[t].fid \in Frames /\ frame[op'[t].fid].image.page # NoPage
    BY <1>9, NoOpAt DEF SweepEffect
  <2> QED  BY <2>1, <2>2, <2>3, <2>4, <2>5, CreatedStays
<1>10. ASSUME NEW t \in Threads, ExhaustedEffect(t) PROVE Created'
  <2>1. Stepped(t) /\ freeList' = freeList /\ use' = use
    BY <1>10 DEF ExhaustedEffect
  <2>2. Bringing(t)' => Bringing(t) /\ op'[t].why = op[t].why /\ op'[t].page = op[t].page
    BY <1>10, NoOpAt DEF ExhaustedEffect, Bringing, Locking
  <2>3. /\ \A q \in Pages : pageTable'[q] # NoFrame => pageTable[q] # NoFrame
        /\ \A q \in Pages : disk[q].page # NoPage => disk'[q].page # NoPage
    BY <1>10 DEF ExhaustedEffect
  <2>4. /\ \A f \in Frames : frame'[f].page # NoPage => frame[f].page # NoPage
        /\ \A f \in Frames : frame'[f].image.page = frame[f].image.page
    BY <1>10 DEF ExhaustedEffect, Framed
  <2>5. op'[t].at = "write" => op'[t].fid \in Frames /\ frame[op'[t].fid].image.page # NoPage
    BY <1>10, NoOpAt DEF ExhaustedEffect
  <2> QED  BY <2>1, <2>2, <2>3, <2>4, <2>5, CreatedStays
<1>11. ASSUME NEW t \in Threads, EvictWriteEffect(t) PROVE Created'
  <2>1. Stepped(t) /\ freeList' = freeList /\ use' = use
    BY <1>11 DEF EvictWriteEffect
  <2>2. Bringing(t)' => Bringing(t) /\ op'[t].why = op[t].why /\ op'[t].page = op[t].page
    BY <1>11, NoOpAt DEF EvictWriteEffect, Bringing, Locking
  <2>3. /\ \A q \in Pages : pageTable'[q] # NoFrame => pageTable[q] # NoFrame
        /\ \A q \in Pages : disk[q].page # NoPage => disk'[q].page # NoPage
    <3>1. pageTable' = pageTable
      BY <1>11 DEF EvictWriteEffect
    <3>2. frame[op[t].fid].page \in Pages => frame[op[t].fid].image.page # NoPage
      BY <1>11, PoolAssumption DEF EvictWriteEffect, Created, Imaged
    <3>3. disk \in [Pages -> Image]
      BY DEF Safety, TypeOK
    <3> QED  BY <1>11, <3>1, <3>2, <3>3 DEF EvictWriteEffect
  <2>4. /\ \A f \in Frames : frame'[f].page # NoPage => frame[f].page # NoPage
        /\ \A f \in Frames : frame'[f].image.page = frame[f].image.page
    BY <1>11 DEF EvictWriteEffect, Framed
  <2>5. op'[t].at = "write" => op'[t].fid \in Frames /\ frame[op'[t].fid].image.page # NoPage
    BY <1>11, NoOpAt DEF EvictWriteEffect
  <2> QED  BY <2>1, <2>2, <2>3, <2>4, <2>5, CreatedStays
<1>12. ASSUME NEW t \in Threads, EvictResetEffect(t) PROVE Created'
  <2>1. Stepped(t) /\ freeList' = freeList /\ use' = use
    BY <1>12 DEF EvictResetEffect
  <2>2. Bringing(t)' => Bringing(t) /\ op'[t].why = op[t].why /\ op'[t].page = op[t].page
    BY <1>12, NoOpAt DEF EvictResetEffect, Bringing, Locking
  <2>3. /\ \A q \in Pages : pageTable'[q] # NoFrame => pageTable[q] # NoFrame
        /\ \A q \in Pages : disk[q].page # NoPage => disk'[q].page # NoPage
    <3>1. pageTable \in [Pages -> 0 .. Capacity]
      BY DEF Safety, TypeOK
    <3> QED  BY <1>12, <3>1 DEF EvictResetEffect
  <2>4. /\ \A f \in Frames : frame'[f].page # NoPage => frame[f].page # NoPage
        /\ \A f \in Frames : frame'[f].image.page = frame[f].image.page
    BY <1>12 DEF EvictResetEffect, Framed
  <2>5. op'[t].at = "write" => op'[t].fid \in Frames /\ frame[op'[t].fid].image.page # NoPage
    BY <1>12, NoOpAt DEF EvictResetEffect
  <2> QED  BY <2>1, <2>2, <2>3, <2>4, <2>5, CreatedStays
<1>13. ASSUME NEW t \in Threads, InstallEffect(t) PROVE Created'
  <2> DEFINE f == op[t].fid
             q == op[t].page
  <2>1. /\ Stepped(t) /\ f \in Frames /\ q \in Pages /\ op[t].at = "install" /\ op'[t].at = "none" /\ Framed(f)
        /\ pageTable' = [pageTable EXCEPT ![q] = f] /\ UNCHANGED <<freeList, disk>> /\ BringingAt(t)
        /\ Bringing(t) /\ frame'[f].page = q
    BY <1>13, NoOpAt DEF InstallEffect, Created, Bringing, Locking
  <2>2. op[t].why \in {"", "fetch", "recycled", "fresh"}
    <3>1. op[t] \in Call
      BY DEF Safety, TypeOK
    <3> QED  BY <3>1 DEF Call
  <2>3. /\ pageTable \in [Pages -> 0 .. Capacity] /\ use \in [Pages -> {"none", "live", "dead"}]
    BY DEF Safety, TypeOK
  <2>4. disk[q].page # NoPage
    BY <2>1, <2>2 DEF BringingAt, Created, Known
  <2>5. frame'[f].image.page # NoPage
    <3>1. frame'[f].image = disk[q] \/ frame'[f].image = Blank(q)
      BY <1>13 DEF InstallEffect
    <3>2. Blank(q).page = q
      BY DEF Blank
    <3> QED  BY <2>1, <2>4, <3>1, <3>2, PoolAssumption
  <2>6. \/ op[t].why = "fetch" /\ use' = use
        \/ op[t].why # "fetch" /\ use' = [use EXCEPT ![q] = "live"]
    BY <1>13 DEF InstallEffect
  <2>7. \A i \in DOMAIN freeList : freeList[i] \in Pages
    <3>1. freeList \in Seq(Pages)
      BY DEF Safety, TypeOK
    <3> QED  BY <3>1
  <2>8. op[t].why # "fetch" => \A i \in DOMAIN freeList : freeList[i] # q
    BY <2>1, <2>2 DEF BringingAt, Created, Listed
  <2> HIDE DEF f
  <2>9. Listed'
    BY <2>1, <2>3, <2>6, <2>7, <2>8 DEF Created, Listed
  <2>10. Known'
    BY <2>1, <2>2, <2>3, <2>4, <2>6 DEF Created, Known, BringingAt
  <2>11. Imaged'
    <3>1. \A g \in Frames : frame'[g] = frame[g] \/ (g = f /\ frame'[g].image.page # NoPage)
      BY <2>1, <2>5 DEF Framed
    <3>2. \A u \in Threads : op'[u].at = "write" => op[u] = op'[u] /\ op[u].fid \in Frames
      BY <2>1 DEF Stepped, Safety, Placed, PlacedAt
    <3> QED  BY <3>1, <3>2 DEF Created, Imaged
  <2>12. \A u \in Threads : Bringing(u)' => u # t /\ op'[u] = op[u] /\ Bringing(u)
    BY <2>1 DEF Stepped, Bringing, Locking
  <2>13. OneCreator'
    BY <2>12 DEF Created, OneCreator
  <2>14. ASSUME NEW u \in Threads PROVE BringingAt(u)'
    <3> SUFFICES ASSUME Bringing(u)' PROVE BringingAt(u)'
      BY DEF BringingAt
    <3>1. u # t /\ op'[u] = op[u] /\ Bringing(u) /\ BringingAt(u) /\ op[u].page \in Pages
      BY <2>12 DEF Created, Safety, Placed, PlacedAt, Bringing
    <3>2. op[t].why # "fetch" /\ op[u].why # "fetch" => op[u].page # q
      BY <2>1, <3>1 DEF Created, OneCreator
    <3>3. /\ op[u].why # "fetch" => use'[op[u].page] = use[op[u].page]
          /\ use[op[u].page] # "none" => use'[op[u].page] # "none"
      BY <2>3, <2>6, <3>1, <3>2
    <3> QED  BY <2>1, <3>1, <3>3 DEF BringingAt
  <2> QED  BY <2>9, <2>10, <2>11, <2>13, <2>14 DEF Created
<1>14. ASSUME NEW t \in Threads, IoErrorEffect(t) PROVE Created'
  <2>1. Stepped(t) /\ freeList' = freeList /\ use' = use
    BY <1>14 DEF IoErrorEffect
  <2>2. Bringing(t)' => Bringing(t) /\ op'[t].why = op[t].why /\ op'[t].page = op[t].page
    BY <1>14, NoOpAt DEF IoErrorEffect, Bringing, Locking
  <2>3. /\ \A q \in Pages : pageTable'[q] # NoFrame => pageTable[q] # NoFrame
        /\ \A q \in Pages : disk[q].page # NoPage => disk'[q].page # NoPage
    BY <1>14 DEF IoErrorEffect
  <2>4. /\ \A f \in Frames : frame'[f].page # NoPage => frame[f].page # NoPage
        /\ \A f \in Frames : frame'[f].image.page = frame[f].image.page
    BY <1>14 DEF IoErrorEffect, Framed
  <2>5. op'[t].at = "write" => op'[t].fid \in Frames /\ frame[op'[t].fid].image.page # NoPage
    BY <1>14, NoOpAt DEF IoErrorEffect
  <2> QED  BY <2>1, <2>2, <2>3, <2>4, <2>5, CreatedStays
<1>15. ASSUME NEW t \in Threads, WriteEffect(t) PROVE Created'
  <2>1. Stepped(t) /\ freeList' = freeList /\ use' = use
    BY <1>15 DEF WriteEffect, Stepped, Safety, TypeOK
  <2>2. Bringing(t)' => Bringing(t) /\ op'[t].why = op[t].why /\ op'[t].page = op[t].page
    BY <1>15, NoOpAt DEF WriteEffect, Bringing, Locking
  <2>3. /\ \A q \in Pages : pageTable'[q] # NoFrame => pageTable[q] # NoFrame
        /\ \A q \in Pages : disk[q].page # NoPage => disk'[q].page # NoPage
    BY <1>15 DEF WriteEffect
  <2>4. /\ \A f \in Frames : frame'[f].page # NoPage => frame[f].page # NoPage
        /\ \A f \in Frames : frame'[f].image.page = frame[f].image.page
    BY <1>15 DEF WriteEffect, Framed
  <2>5. op'[t].at = "write" => op'[t].fid \in Frames /\ frame[op'[t].fid].image.page # NoPage
    BY <1>15, NoOpAt DEF WriteEffect
  <2> QED  BY <2>1, <2>2, <2>3, <2>4, <2>5, CreatedStays
<1>16. ASSUME NEW t \in Threads, ReleaseEffect(t) PROVE Created'
  <2>1. Stepped(t) /\ freeList' = freeList /\ use' = use
    BY <1>16 DEF ReleaseEffect
  <2>2. Bringing(t)' => Bringing(t) /\ op'[t].why = op[t].why /\ op'[t].page = op[t].page
    BY <1>16, NoOpAt DEF ReleaseEffect, Bringing, Locking
  <2>3. /\ \A q \in Pages : pageTable'[q] # NoFrame => pageTable[q] # NoFrame
        /\ \A q \in Pages : disk[q].page # NoPage => disk'[q].page # NoPage
    BY <1>16 DEF ReleaseEffect
  <2>4. /\ \A f \in Frames : frame'[f].page # NoPage => frame[f].page # NoPage
        /\ \A f \in Frames : frame'[f].image.page = frame[f].image.page
    BY <1>16 DEF ReleaseEffect, Framed
  <2>5. op'[t].at = "write" => op'[t].fid \in Frames /\ frame[op'[t].fid].image.page # NoPage
    BY <1>16, NoOpAt DEF ReleaseEffect
  <2> QED  BY <2>1, <2>2, <2>3, <2>4, <2>5, CreatedStays
<1>17. ASSUME NEW t \in Threads, NoteDirtyEffect(t) PROVE Created'
  <2>1. Stepped(t) /\ freeList' = freeList /\ use' = use
    BY <1>17 DEF NoteDirtyEffect
  <2>2. Bringing(t)' => Bringing(t) /\ op'[t].why = op[t].why /\ op'[t].page = op[t].page
    BY <1>17, NoOpAt DEF NoteDirtyEffect, Bringing, Locking
  <2>3. /\ \A q \in Pages : pageTable'[q] # NoFrame => pageTable[q] # NoFrame
        /\ \A q \in Pages : disk[q].page # NoPage => disk'[q].page # NoPage
    BY <1>17 DEF NoteDirtyEffect
  <2>4. /\ \A f \in Frames : frame'[f].page # NoPage => frame[f].page # NoPage
        /\ \A f \in Frames : frame'[f].image.page = frame[f].image.page
    BY <1>17 DEF NoteDirtyEffect, Framed
  <2>5. op'[t].at = "write" => op'[t].fid \in Frames /\ frame[op'[t].fid].image.page # NoPage
    BY <1>17, NoOpAt DEF NoteDirtyEffect
  <2> QED  BY <2>1, <2>2, <2>3, <2>4, <2>5, CreatedStays
<1>18. ASSUME NEW t \in Threads, UnpinEffect(t) PROVE Created'
  <2>1. Stepped(t) /\ freeList' = freeList /\ use' = use
    BY <1>18 DEF UnpinEffect
  <2>2. Bringing(t)' => Bringing(t) /\ op'[t].why = op[t].why /\ op'[t].page = op[t].page
    BY <1>18, NoOpAt DEF UnpinEffect, Bringing, Locking
  <2>3. /\ \A q \in Pages : pageTable'[q] # NoFrame => pageTable[q] # NoFrame
        /\ \A q \in Pages : disk[q].page # NoPage => disk'[q].page # NoPage
    BY <1>18 DEF UnpinEffect
  <2>4. /\ \A f \in Frames : frame'[f].page # NoPage => frame[f].page # NoPage
        /\ \A f \in Frames : frame'[f].image.page = frame[f].image.page
    BY <1>18 DEF UnpinEffect, Framed
  <2>5. op'[t].at = "write" => op'[t].fid \in Frames /\ frame[op'[t].fid].image.page # NoPage
    BY <1>18, NoOpAt DEF UnpinEffect
  <2> QED  BY <2>1, <2>2, <2>3, <2>4, <2>5, CreatedStays
<1>19. ASSUME NEW t \in Threads, FlushAllEffect(t) PROVE Created'
  <2>1. Stepped(t) /\ freeList' = freeList /\ use' = use
    BY <1>19 DEF FlushAllEffect
  <2>2. Bringing(t)' => Bringing(t) /\ op'[t].why = op[t].why /\ op'[t].page = op[t].page
    BY <1>19, NoOpAt DEF FlushAllEffect, Bringing, Locking
  <2>3. /\ \A q \in Pages : pageTable'[q] # NoFrame => pageTable[q] # NoFrame
        /\ \A q \in Pages : disk[q].page # NoPage => disk'[q].page # NoPage
    BY <1>19 DEF FlushAllEffect
  <2>4. /\ \A f \in Frames : frame'[f].page # NoPage => frame[f].page # NoPage
        /\ \A f \in Frames : frame'[f].image.page = frame[f].image.page
    BY <1>19 DEF FlushAllEffect, Framed
  <2>5. op'[t].at = "write" => op'[t].fid \in Frames /\ frame[op'[t].fid].image.page # NoPage
    BY <1>19, NoOpAt DEF FlushAllEffect
  <2> QED  BY <2>1, <2>2, <2>3, <2>4, <2>5, CreatedStays
<1>20. ASSUME NEW t \in Threads, ScanFrameEffect(t) PROVE Created'
  <2>1. Stepped(t) /\ freeList' = freeList /\ use' = use
    BY <1>20 DEF ScanFrameEffect
  <2>2. Bringing(t)' => Bringing(t) /\ op'[t].why = op[t].why /\ op'[t].page = op[t].page
    BY <1>20, NoOpAt DEF ScanFrameEffect, Bringing, Locking
  <2>3. /\ \A q \in Pages : pageTable'[q] # NoFrame => pageTable[q] # NoFrame
        /\ \A q \in Pages : disk[q].page # NoPage => disk'[q].page # NoPage
    BY <1>20 DEF ScanFrameEffect
  <2>4. /\ \A f \in Frames : frame'[f].page # NoPage => frame[f].page # NoPage
        /\ \A f \in Frames : frame'[f].image.page = frame[f].image.page
    BY <1>20 DEF ScanFrameEffect, Framed
  <2>5. op'[t].at = "write" => op'[t].fid \in Frames /\ frame[op'[t].fid].image.page # NoPage
    BY <1>20, PoolAssumption DEF ScanFrameEffect, Created, Imaged
  <2> QED  BY <2>1, <2>2, <2>3, <2>4, <2>5, CreatedStays
<1>21. ASSUME NEW t \in Threads, ScanEndEffect(t) PROVE Created'
  <2>1. Stepped(t) /\ freeList' = freeList /\ use' = use
    BY <1>21 DEF ScanEndEffect
  <2>2. Bringing(t)' => Bringing(t) /\ op'[t].why = op[t].why /\ op'[t].page = op[t].page
    BY <1>21, NoOpAt DEF ScanEndEffect, Bringing, Locking
  <2>3. /\ \A q \in Pages : pageTable'[q] # NoFrame => pageTable[q] # NoFrame
        /\ \A q \in Pages : disk[q].page # NoPage => disk'[q].page # NoPage
    BY <1>21 DEF ScanEndEffect
  <2>4. /\ \A f \in Frames : frame'[f].page # NoPage => frame[f].page # NoPage
        /\ \A f \in Frames : frame'[f].image.page = frame[f].image.page
    BY <1>21 DEF ScanEndEffect, Framed
  <2>5. op'[t].at = "write" => op'[t].fid \in Frames /\ frame[op'[t].fid].image.page # NoPage
    BY <1>21, NoOpAt DEF ScanEndEffect
  <2> QED  BY <2>1, <2>2, <2>3, <2>4, <2>5, CreatedStays
<1>22. ASSUME NEW t \in Threads, FlushWriteEffect(t) PROVE Created'
  <2>1. Stepped(t) /\ freeList' = freeList /\ use' = use
    BY <1>22 DEF FlushWriteEffect
  <2>2. Bringing(t)' => Bringing(t) /\ op'[t].why = op[t].why /\ op'[t].page = op[t].page
    BY <1>22, NoOpAt DEF FlushWriteEffect, Bringing, Locking
  <2>3. /\ \A q \in Pages : pageTable'[q] # NoFrame => pageTable[q] # NoFrame
        /\ \A q \in Pages : disk[q].page # NoPage => disk'[q].page # NoPage
    <3>1. pageTable' = pageTable /\ disk' = [disk EXCEPT ![op[t].page] = frame[op[t].fid].image]
      BY <1>22 DEF FlushWriteEffect
    <3>2. frame[op[t].fid].image.page # NoPage
      BY <1>22 DEF FlushWriteEffect, Created, Imaged
    <3>3. disk \in [Pages -> Image]
      BY DEF Safety, TypeOK
    <3> QED  BY <3>1, <3>2, <3>3
  <2>4. /\ \A f \in Frames : frame'[f].page # NoPage => frame[f].page # NoPage
        /\ \A f \in Frames : frame'[f].image.page = frame[f].image.page
    BY <1>22 DEF FlushWriteEffect, Framed
  <2>5. op'[t].at = "write" => op'[t].fid \in Frames /\ frame[op'[t].fid].image.page # NoPage
    BY <1>22, NoOpAt DEF FlushWriteEffect
  <2> QED  BY <2>1, <2>2, <2>3, <2>4, <2>5, CreatedStays
<1>23. ASSUME NEW t \in Threads, FlushCleanEffect(t) PROVE Created'
  <2>1. Stepped(t) /\ freeList' = freeList /\ use' = use
    BY <1>23 DEF FlushCleanEffect
  <2>2. Bringing(t)' => Bringing(t) /\ op'[t].why = op[t].why /\ op'[t].page = op[t].page
    BY <1>23, NoOpAt DEF FlushCleanEffect, Bringing, Locking
  <2>3. /\ \A q \in Pages : pageTable'[q] # NoFrame => pageTable[q] # NoFrame
        /\ \A q \in Pages : disk[q].page # NoPage => disk'[q].page # NoPage
    BY <1>23 DEF FlushCleanEffect
  <2>4. /\ \A f \in Frames : frame'[f].page # NoPage => frame[f].page # NoPage
        /\ \A f \in Frames : frame'[f].image.page = frame[f].image.page
    BY <1>23 DEF FlushCleanEffect, Framed
  <2>5. op'[t].at = "write" => op'[t].fid \in Frames /\ frame[op'[t].fid].image.page # NoPage
    BY <1>23, NoOpAt DEF FlushCleanEffect
  <2> QED  BY <2>1, <2>2, <2>3, <2>4, <2>5, CreatedStays
<1>24. ASSUME NEW t \in Threads, FlushUndirtyEffect(t) PROVE Created'
  <2>1. Stepped(t) /\ freeList' = freeList /\ use' = use
    BY <1>24 DEF FlushUndirtyEffect
  <2>2. Bringing(t)' => Bringing(t) /\ op'[t].why = op[t].why /\ op'[t].page = op[t].page
    BY <1>24, NoOpAt DEF FlushUndirtyEffect, Bringing, Locking
  <2>3. /\ \A q \in Pages : pageTable'[q] # NoFrame => pageTable[q] # NoFrame
        /\ \A q \in Pages : disk[q].page # NoPage => disk'[q].page # NoPage
    BY <1>24 DEF FlushUndirtyEffect
  <2>4. /\ \A f \in Frames : frame'[f].page # NoPage => frame[f].page # NoPage
        /\ \A f \in Frames : frame'[f].image.page = frame[f].image.page
    BY <1>24 DEF FlushUndirtyEffect, Framed
  <2>5. op'[t].at = "write" => op'[t].fid \in Frames /\ frame[op'[t].fid].image.page # NoPage
    BY <1>24, NoOpAt DEF FlushUndirtyEffect
  <2> QED  BY <2>1, <2>2, <2>3, <2>4, <2>5, CreatedStays
<1>25. CASE UNCHANGED vars
  BY <1>25
    DEF vars, poolVars, fileVars, Created, Listed, BringingAt, Bringing, OneCreator, Known, Imaged
<1> QED
  BY <1>1, <1>2, <1>3, <1>4, <1>5, <1>6, <1>7, <1>8, <1>9, <1>10, <1>11, <1>12, <1>13, <1>14, <1>15, <1>16,
     <1>17, <1>18, <1>19, <1>20, <1>21, <1>22, <1>23, <1>24, <1>25
  DEF Effect

\* At the start the table is empty and every frame free.
LEMMA InitOwned == Init => Owned
<1> SUFFICES ASSUME Init PROVE Owned
  OBVIOUS
<1> USE PoolAssumption
<1>1. Safety
  BY InitSafe
<1>2. /\ \A t \in Threads : op[t].at = "none"
      /\ \A f \in Frames : frame[f].page = NoPage
      /\ \A p \in Pages : pageTable[p] = NoFrame /\ use[p] = "none"
      /\ freeList = <<>>
  BY NoOpAt DEF Init
<1>3. \A i \in DOMAIN freeFrames : i \in 1 .. Capacity /\ freeFrames[i] = Capacity - i /\ freeFrames[i] \in Frames
  BY DEF Init, Frames
<1>4. \A i, j \in DOMAIN freeFrames : freeFrames[i] = freeFrames[j] => i = j
  BY <1>3
<1>5. Mapped
  BY <1>2, <1>3, <1>4 DEF Mapped
<1>6. Mine
  BY <1>2 DEF Mine, MineAt
<1>7. Created
  <2>1. Listed
    BY <1>2 DEF Listed
  <2>2. \A t \in Threads : ~Bringing(t)
    BY <1>2 DEF Bringing, Locking
  <2>3. (\A t \in Threads : BringingAt(t)) /\ OneCreator
    BY <2>2 DEF BringingAt, OneCreator
  <2>4. Known /\ Imaged
    BY <1>2 DEF Known, Imaged
  <2> QED  BY <2>1, <2>3, <2>4 DEF Created
<1> QED  BY <1>1, <1>5, <1>6, <1>7 DEF Owned

\* What the lock and the free list protect is kept.
LEMMA OwnedKept == Owned /\ [Next]_vars => Owned'
<1> SUFFICES ASSUME Owned, [Next]_vars PROVE Owned'
  OBVIOUS
<1>1. Safety /\ Mapped /\ Mine
  BY DEF Owned
<1>2. Effect /\ Safety'
  BY <1>1, StepHasEffect, SafetyKept
<1>3. Mapped' /\ Mine' /\ Created'
  BY <1>1, <1>2, MappedKept, MineKept, CreatedKept
<1> QED  BY <1>2, <1>3 DEF Owned

-----------------------------------------------------------------------------
(* Guards and pin counts *)

\* The guards that count are finitely many, and fewer than a pin count can tell apart.
LEMMA PinsFacts ==
    ASSUME NEW f
    PROVE  /\ IsFiniteSet(Pins(f)) /\ Cardinality(Pins(f)) \in Nat /\ Cardinality(Pins(f)) < PinModulus
           /\ Cardinality(Pins(f)) = 0 <=> Pins(f) = {}
<1>1. Pins(f) \subseteq Threads /\ IsFiniteSet(Threads)
  BY PoolAssumption DEF Pins, Users
<1>2. IsFiniteSet(Pins(f)) /\ Cardinality(Pins(f)) <= Cardinality(Threads)
  BY <1>1, FS_Subset
<1>3. Cardinality(Pins(f)) \in Nat /\ Cardinality(Threads) \in Nat
  BY <1>1, <1>2, FS_CardinalityType
<1>4. Cardinality(Pins(f)) = 0 <=> Pins(f) = {}
  BY <1>2, FS_EmptySet
<1>5. Cardinality(Pins(f)) < PinModulus
  <2>1. Cardinality(Threads) < PinModulus /\ PinModulus \in Nat
    BY PoolAssumption
  <2> QED  BY <1>2, <1>3, <2>1
<1> QED  BY <1>2, <1>3, <1>4, <1>5

\* A thread that holds nothing is no user of a frame, and not stale.
LEMMA NotHolding ==
    ASSUME Safety, NEW t \in Threads, ~Holding(t)
    PROVE  t \notin stale /\ guard[t] = NoGuard /\ \A f \in Frames : t \notin Users(f)
<1>1. t \notin stale /\ guard[t] = NoGuard
  BY DEF Safety, Placed, PlacedAt, Holding
<1>2. NoGuard.fid = NoFrame
  BY DEF NoGuard
<1>3. \A f \in Frames : f # NoFrame
  BY PoolAssumption DEF Frames, NoFrame
<1> QED  BY <1>1, <1>2, <1>3 DEF Users

\* A sound frame is the only one with its page.
LEMMA OneFrame ==
    ASSUME Owned, NEW f \in Frames, NEW g \in Frames, frame[f].page # NoPage,
           frame[f].page = frame[g].page
    PROVE  f = g
  BY DEF Owned, Mapped

\* The frame of a sound guard is in the table under the guard's page.
LEMMA GuardMapped ==
    ASSUME Owned, Guarded, NEW t \in Threads, Holding(t), t \notin stale
    PROVE  /\ guard[t].fid \in Frames /\ guard[t].page \in Pages
           /\ frame[guard[t].fid].page = guard[t].page /\ guard[t].page # NoPage
           /\ pageTable[guard[t].page] = guard[t].fid
<1>1. guard[t].fid \in Frames /\ guard[t].page \in Pages
  BY DEF Owned, Safety, Placed, PlacedAt
<1>2. frame[guard[t].fid].page = guard[t].page /\ guard[t].page # NoPage
  BY <1>1, PoolAssumption DEF Guarded
<1> QED  BY <1>1, <1>2 DEF Owned, Mapped

\* No guard that counts is on a frame that is empty.
LEMMA EmptyUnpinned ==
    ASSUME Owned, Guarded, NEW f \in Frames, frame[f].page = NoPage
    PROVE  Pins(f) = {}
<1> SUFFICES ASSUME NEW u \in Pins(f) PROVE FALSE
  OBVIOUS
<1>1. u \in Threads /\ guard[u].fid = f /\ u \notin stale
  BY DEF Pins, Users
<1>2. Holding(u)
  BY <1>1, NotHolding DEF Owned, Users
<1> QED  BY <1>1, <1>2, GuardMapped

\* Pages, pins and guards are left alone.
LEMMA GuardedStays ==
    ASSUME Safety, Guarded, stale' = stale, raced \subseteq raced',
           \A u \in Threads : /\ guard'[u].fid = guard[u].fid /\ guard'[u].page = guard[u].page
                              /\ Holding(u)' => Holding(u),
           \A f \in Frames : frame'[f].page = frame[f].page /\ frame'[f].pin = frame[f].pin
    PROVE  Guarded'
<1>1. \A f \in Frames : Pins(f)' = Pins(f) /\ (Sound(f)' => Sound(f))
  BY DEF Pins, Users, Sound
<1>2. \A u \in Threads : Holding(u) => guard[u].fid \in Frames
  BY DEF Safety, Placed, PlacedAt
<1> QED  BY <1>1, <1>2 DEF Guarded

\* Every step keeps the guards and the pin counts right.
LEMMA GuardedKept == Owned /\ Guarded /\ Effect => Guarded'
<1> SUFFICES ASSUME Owned /\ Guarded, Effect PROVE Guarded'
  OBVIOUS
<1> USE DEF Owned
<1>1. ASSUME NEW t \in Threads, NEW p \in Pages, HitEffect(t, p) PROVE Guarded'
  <2> DEFINE f == pageTable[p]
  <2>1. /\ ~Holding(t) /\ f \in Frames /\ Framed(f) /\ stale' = stale /\ raced' = raced
        /\ frame'[f].pin = (frame[f].pin + 1) % PinModulus /\ frame'[f].page = frame[f].page
        /\ Handed(t) /\ guard'[t] = [page |-> p, fid |-> f, mutated |-> FALSE]
    BY <1>1 DEF HitEffect
  <2>2. frame[f].page = p
    BY <2>1, PoolAssumption DEF Mapped, NoFrame, Frames
  <2> HIDE DEF f
  <2>3. t \notin stale /\ \A g \in Frames : t \notin Users(g)
    BY <2>1, NotHolding
  <2>4. \A u \in Threads : u # t => guard'[u] = guard[u]
    BY <2>1 DEF Handed
  <2>5. \A g \in Frames : /\ frame'[g].page = frame[g].page /\ (Sound(g)' => Sound(g))
                          /\ g # f => frame'[g] = frame[g]
    BY <2>1 DEF Framed, Sound
  <2>6. ASSUME NEW u \in Threads, Holding(u)', u \notin stale'
        PROVE  frame'[guard'[u].fid].page = guard'[u].page
    <3>1. CASE u = t
      BY <2>1, <2>2, <3>1
    <3>2. CASE u # t
      <4>1. guard'[u] = guard[u] /\ Holding(u) /\ guard[u].fid \in Frames
        BY <2>4, <2>6, <3>2 DEF Holding, Safety, Placed, PlacedAt
      <4> QED  BY <2>1, <2>5, <2>6, <4>1 DEF Guarded
    <3> QED  BY <3>1, <3>2
  <2>7. ASSUME NEW g \in Frames, Sound(g)' PROVE frame'[g].pin = Cardinality(Pins(g)')
    <3>1. frame[g].pin = Cardinality(Pins(g))
      BY <2>5, <2>7 DEF Guarded
    <3>2. CASE g # f
      <4>1. Pins(g)' = Pins(g)
        BY <2>1, <2>3, <2>4, <3>2 DEF Pins, Users
      <4> QED  BY <2>5, <3>1, <3>2, <4>1
    <3>3. CASE g = f
      <4>1. Pins(g)' = Pins(g) \cup {t} /\ t \notin Pins(g)
        BY <2>1, <2>3, <2>4, <3>3 DEF Pins, Users
      <4>2. IsFiniteSet(Pins(g)) /\ Cardinality(Pins(g)) \in Nat
        BY PinsFacts
      <4>3. Cardinality(Pins(g)') = Cardinality(Pins(g)) + 1
        BY <4>1, <4>2, FS_AddElement
      <4>4. Cardinality(Pins(g) \cup {t}) < PinModulus
        <5>1. Pins(g) \cup {t} \subseteq Threads /\ IsFiniteSet(Threads)
          BY PoolAssumption DEF Pins, Users
        <5>2. Cardinality(Pins(g) \cup {t}) <= Cardinality(Threads)
          BY <5>1, FS_Subset
        <5>3. Cardinality(Threads) \in Nat /\ Cardinality(Threads) < PinModulus /\ PinModulus \in Nat
          BY <5>1, FS_CardinalityType, PoolAssumption
        <5> QED  BY <4>1, <4>2, <4>3, <5>2, <5>3
      <4>5. (frame[g].pin + 1) % PinModulus = frame[g].pin + 1
        <5>1. PinModulus \in Nat \ {0}
          BY PoolAssumption
        <5> QED  BY <3>1, <4>1, <4>2, <4>3, <4>4, <5>1
      <4> QED  BY <2>1, <3>1, <3>3, <4>3, <4>5
    <3> QED  BY <3>2, <3>3
  <2> QED  BY <2>6, <2>7 DEF Guarded
<1>2. ASSUME NEW t \in Threads, NEW p \in Pages, MissEffect(t, p) PROVE Guarded'
  <2>1. /\ stale' = stale /\ raced \subseteq raced'
        /\ \A u \in Threads : guard'[u] = guard[u] /\ (Holding(u)' => Holding(u))
    BY <1>2 DEF MissEffect, Holding
  <2>2. \A f \in Frames : frame'[f].page = frame[f].page /\ frame'[f].pin = frame[f].pin
    BY <1>2 DEF MissEffect, Framed
  <2> QED  BY <2>1, <2>2, GuardedStays
<1>3. ASSUME NEW t \in Threads, NEW p \in Pages, SlowEffect(t, p) PROVE Guarded'
  <2>1. /\ stale' = stale /\ raced \subseteq raced'
        /\ \A u \in Threads : guard'[u] = guard[u] /\ (Holding(u)' => Holding(u))
    BY <1>3 DEF SlowEffect, Holding
  <2>2. \A f \in Frames : frame'[f].page = frame[f].page /\ frame'[f].pin = frame[f].pin
    BY <1>3 DEF SlowEffect, Framed
  <2> QED  BY <2>1, <2>2, GuardedStays
<1>4. ASSUME NEW t \in Threads, NEW p \in Pages, RecycleEffect(t, p) PROVE Guarded'
  <2>1. /\ stale' = stale /\ raced \subseteq raced'
        /\ \A u \in Threads : guard'[u] = guard[u] /\ (Holding(u)' => Holding(u))
    BY <1>4 DEF RecycleEffect, Holding
  <2>2. \A f \in Frames : frame'[f].page = frame[f].page /\ frame'[f].pin = frame[f].pin
    BY <1>4 DEF RecycleEffect, Framed
  <2> QED  BY <2>1, <2>2, GuardedStays
<1>5. ASSUME NEW t \in Threads, NEW p \in Pages, FreshEffect(t, p) PROVE Guarded'
  <2>1. /\ stale' = stale /\ raced \subseteq raced'
        /\ \A u \in Threads : guard'[u] = guard[u] /\ (Holding(u)' => Holding(u))
    BY <1>5 DEF FreshEffect, Holding
  <2>2. \A f \in Frames : frame'[f].page = frame[f].page /\ frame'[f].pin = frame[f].pin
    BY <1>5 DEF FreshEffect, Framed
  <2> QED  BY <2>1, <2>2, GuardedStays
<1>6. ASSUME NEW t \in Threads, NEW p \in Pages, NewSlowEffect(t, p) PROVE Guarded'
  <2>1. /\ stale' = stale /\ raced \subseteq raced'
        /\ \A u \in Threads : guard'[u] = guard[u] /\ (Holding(u)' => Holding(u))
    BY <1>6 DEF NewSlowEffect, Holding
  <2>2. \A f \in Frames : frame'[f].page = frame[f].page /\ frame'[f].pin = frame[f].pin
    BY <1>6 DEF NewSlowEffect, Framed
  <2> QED  BY <2>1, <2>2, GuardedStays
<1>7. ASSUME NEW t \in Threads, RecycledEffect(t) PROVE Guarded'
  <2>1. /\ stale' = stale /\ raced \subseteq raced'
        /\ \A u \in Threads : guard'[u] = guard[u] /\ (Holding(u)' => Holding(u))
    BY <1>7 DEF RecycledEffect, Holding
  <2>2. \A f \in Frames : frame'[f].page = frame[f].page /\ frame'[f].pin = frame[f].pin
    BY <1>7 DEF RecycledEffect, Framed
  <2> QED  BY <2>1, <2>2, GuardedStays
<1>8. ASSUME NEW t \in Threads, PickEffect(t) PROVE Guarded'
  <2>1. /\ stale' = stale /\ raced \subseteq raced'
        /\ \A u \in Threads : guard'[u] = guard[u] /\ (Holding(u)' => Holding(u))
    BY <1>8 DEF PickEffect, Holding
  <2>2. \A f \in Frames : frame'[f].page = frame[f].page /\ frame'[f].pin = frame[f].pin
    BY <1>8 DEF PickEffect, Framed
  <2> QED  BY <2>1, <2>2, GuardedStays
<1>9. ASSUME NEW t \in Threads, SweepEffect(t) PROVE Guarded'
  <2>1. /\ stale' = stale /\ raced \subseteq raced'
        /\ \A u \in Threads : guard'[u] = guard[u] /\ (Holding(u)' => Holding(u))
    BY <1>9 DEF SweepEffect, Holding
  <2>2. \A f \in Frames : frame'[f].page = frame[f].page /\ frame'[f].pin = frame[f].pin
    BY <1>9 DEF SweepEffect, Framed
  <2> QED  BY <2>1, <2>2, GuardedStays
<1>10. ASSUME NEW t \in Threads, ExhaustedEffect(t) PROVE Guarded'
  <2>1. /\ stale' = stale /\ raced \subseteq raced'
        /\ \A u \in Threads : guard'[u] = guard[u] /\ (Holding(u)' => Holding(u))
    BY <1>10 DEF ExhaustedEffect, Holding
  <2>2. \A f \in Frames : frame'[f].page = frame[f].page /\ frame'[f].pin = frame[f].pin
    BY <1>10 DEF ExhaustedEffect, Framed
  <2> QED  BY <2>1, <2>2, GuardedStays
<1>11. ASSUME NEW t \in Threads, EvictWriteEffect(t) PROVE Guarded'
  <2>1. /\ stale' = stale /\ raced \subseteq raced'
        /\ \A u \in Threads : guard'[u] = guard[u] /\ (Holding(u)' => Holding(u))
    BY <1>11 DEF EvictWriteEffect, Holding
  <2>2. \A f \in Frames : frame'[f].page = frame[f].page /\ frame'[f].pin = frame[f].pin
    BY <1>11 DEF EvictWriteEffect, Framed
  <2> QED  BY <2>1, <2>2, GuardedStays
<1>12. ASSUME NEW t \in Threads, EvictResetEffect(t) PROVE Guarded'
  <2> DEFINE f == op[t].fid
  <2>1. /\ f \in Frames /\ Framed(f) /\ frame'[f].page = NoPage /\ guard' = guard
        /\ stale' = stale \cup Users(f) /\ raced \subseteq raced'
    BY <1>12 DEF EvictResetEffect
  <2> HIDE DEF f
  <2>2. ASSUME NEW u \in Threads, Holding(u), u \notin stale'
        PROVE  frame'[guard[u].fid].page = guard[u].page
    <3>1. guard[u].fid \in Frames /\ guard[u].fid # f /\ u \notin stale
      BY <2>1, <2>2 DEF Users, Safety, Placed, PlacedAt
    <3> QED  BY <2>1, <2>2, <3>1 DEF Framed, Guarded
  <2>3. ASSUME NEW g \in Frames, Sound(g)' PROVE frame'[g].pin = Cardinality(Pins(g)')
    <3>1. g # f
      BY <2>1, <2>3 DEF Sound
    <3>2. frame'[g] = frame[g] /\ Sound(g)
      BY <2>1, <2>3, <3>1 DEF Framed, Sound
    <3>3. Pins(g)' = Pins(g)
      BY <2>1, <3>1 DEF Pins, Users
    <3> QED  BY <3>2, <3>3 DEF Guarded
  <2> QED  BY <2>1, <2>2, <2>3 DEF Guarded, Holding
<1>13. ASSUME NEW t \in Threads, InstallEffect(t) PROVE Guarded'
  <2> DEFINE f == op[t].fid
             p == op[t].page
  <2>1. /\ f \in Frames /\ p \in Pages /\ Framed(f) /\ frame'[f].page = p /\ frame'[f].pin = 1 /\ Handed(t)
        /\ guard'[t] = [page |-> p, fid |-> f, mutated |-> FALSE] /\ stale' = stale
        /\ op[t].at = "install" /\ raced \ {p} \subseteq raced'
    BY <1>13 DEF InstallEffect
  <2>2. pageTable[p] = NoFrame /\ frame[f].page = NoPage
    BY <2>1 DEF Mine, MineAt
  <2>3. ~Holding(t)
    BY <2>1 DEF Safety, Placed, PlacedAt
  <2> HIDE DEF f, p
  <2>4. t \notin stale /\ (\A g \in Frames : t \notin Users(g)) /\ Pins(f) = {}
    BY <2>1, <2>2, <2>3, NotHolding, EmptyUnpinned
  <2>5. \A u \in Threads : u # t => guard'[u] = guard[u]
    BY <2>1 DEF Handed
  <2>6. ASSUME NEW u \in Threads, Holding(u)', u \notin stale'
        PROVE  frame'[guard'[u].fid].page = guard'[u].page
    <3>1. CASE u = t
      BY <2>1, <3>1
    <3>2. CASE u # t
      <4>1. guard'[u] = guard[u] /\ Holding(u) /\ guard[u].fid \in Frames /\ u \notin stale
        BY <2>1, <2>5, <2>6, <3>2 DEF Holding, Safety, Placed, PlacedAt
      <4>2. guard[u].fid # f
        BY <2>4, <4>1 DEF Pins, Users
      <4> QED  BY <2>1, <4>1, <4>2 DEF Guarded, Framed
    <3> QED  BY <3>1, <3>2
  <2>7. ASSUME NEW g \in Frames, Sound(g)' PROVE frame'[g].pin = Cardinality(Pins(g)')
    <3>1. CASE g = f
      <4>1. Pins(g)' = {t}
        BY <2>1, <2>4, <2>5, <3>1 DEF Pins, Users
      <4>2. Cardinality({t}) = 1
        BY FS_Singleton
      <4> QED  BY <2>1, <3>1, <4>1, <4>2
    <3>2. CASE g # f
      <4>1. frame'[g] = frame[g] /\ Pins(g)' = Pins(g)
        BY <2>1, <2>4, <2>5, <3>2 DEF Framed, Pins, Users
      <4>2. frame[g].page # NoPage => frame[g].page # p
        <5>1. g # NoFrame
          BY PoolAssumption DEF Frames, NoFrame
        <5> QED  BY <2>2, <5>1 DEF Mapped
      <4>3. Sound(g)
        BY <2>1, <2>7, <4>1, <4>2 DEF Sound
      <4> QED  BY <4>1, <4>3 DEF Guarded
    <3> QED  BY <3>1, <3>2
  <2> QED  BY <2>6, <2>7 DEF Guarded
<1>14. ASSUME NEW t \in Threads, IoErrorEffect(t) PROVE Guarded'
  <2>1. /\ stale' = stale /\ raced \subseteq raced'
        /\ \A u \in Threads : guard'[u] = guard[u] /\ (Holding(u)' => Holding(u))
    BY <1>14 DEF IoErrorEffect, Holding
  <2>2. \A f \in Frames : frame'[f].page = frame[f].page /\ frame'[f].pin = frame[f].pin
    BY <1>14 DEF IoErrorEffect, Framed
  <2> QED  BY <2>1, <2>2, GuardedStays
<1>15. ASSUME NEW t \in Threads, WriteEffect(t) PROVE Guarded'
  <2>1. /\ stale' = stale /\ raced \subseteq raced' /\ Holding(t)
        /\ guard'[t].fid = guard[t].fid /\ guard'[t].page = guard[t].page
        /\ \A u \in Threads \ {t} : guard'[u] = guard[u]
    BY <1>15 DEF WriteEffect, Handed
  <2>2. \A f \in Frames : frame'[f].page = frame[f].page /\ frame'[f].pin = frame[f].pin
    BY <1>15 DEF WriteEffect, Framed
  <2>3. \A u \in Threads : /\ guard'[u].fid = guard[u].fid /\ guard'[u].page = guard[u].page
                           /\ Holding(u)' => Holding(u)
    BY <2>1 DEF Holding
  <2> QED  BY <2>1, <2>2, <2>3, GuardedStays
<1>16. ASSUME NEW t \in Threads, ReleaseEffect(t) PROVE Guarded'
  <2> DEFINE f == guard[t].fid
  <2>1. /\ f \in Frames /\ Holding(t) /\ raced' = raced /\ Handed(t)
        /\ \A g \in Frames : frame'[g].page = frame[g].page /\ frame'[g].pin = frame[g].pin
    BY <1>16 DEF ReleaseEffect, Framed
  <2>2. CASE guard' = guard /\ stale' = stale
    <3>1. \A u \in Threads : /\ guard'[u].fid = guard[u].fid /\ guard'[u].page = guard[u].page
                             /\ Holding(u)' => Holding(u)
      BY <2>2 DEF Holding
    <3> QED  BY <2>1, <2>2, <3>1, GuardedStays
  <2>3. CASE frame[f].pin = 0 /\ guard'[t] = NoGuard /\ stale' = stale \ {t}
    <3> HIDE DEF f
    <3>1. \A u \in Threads : u # t => guard'[u] = guard[u]
      BY <2>1 DEF Handed
    <3>2. NoGuard.fid = NoFrame /\ \A g \in Frames : g # NoFrame
      BY PoolAssumption DEF NoGuard, Frames, NoFrame
    <3>3. ASSUME NEW u \in Threads, Holding(u)', u \notin stale'
          PROVE  frame'[guard'[u].fid].page = guard'[u].page
      <4>1. u # t
        BY <2>3, <3>3 DEF Holding
      <4>2. guard'[u] = guard[u] /\ Holding(u) /\ guard[u].fid \in Frames /\ u \notin stale
        BY <2>3, <3>1, <3>3, <4>1 DEF Holding, Safety, Placed, PlacedAt
      <4> QED  BY <2>1, <4>2 DEF Guarded
    <3>4. ASSUME NEW g \in Frames, Sound(g)' PROVE frame'[g].pin = Cardinality(Pins(g)')
      <4>1. Sound(g) /\ frame[g].pin = Cardinality(Pins(g))
        BY <2>1, <3>4 DEF Sound, Guarded
      <4>2. t \notin Pins(g)
        <5> SUFFICES ASSUME t \in Pins(g) PROVE FALSE
          OBVIOUS
        <5>1. g = f
          BY DEF Pins, Users, f
        <5>2. Cardinality(Pins(g)) = 0 <=> Pins(g) = {}
          BY PinsFacts
        <5> QED  BY <2>3, <4>1, <5>1, <5>2
      <4>3. Pins(g)' = Pins(g)
        BY <2>3, <3>1, <3>2, <4>2 DEF Pins, Users
      <4> QED  BY <2>1, <4>1, <4>3
    <3> QED  BY <3>3, <3>4 DEF Guarded
  <2> QED  BY <1>16, <2>2, <2>3 DEF ReleaseEffect
<1>17. ASSUME NEW t \in Threads, NoteDirtyEffect(t) PROVE Guarded'
  <2>1. /\ stale' = stale /\ raced \subseteq raced'
        /\ \A u \in Threads : guard'[u] = guard[u] /\ (Holding(u)' => Holding(u))
    BY <1>17 DEF NoteDirtyEffect, Holding
  <2>2. \A f \in Frames : frame'[f].page = frame[f].page /\ frame'[f].pin = frame[f].pin
    BY <1>17 DEF NoteDirtyEffect, Framed
  <2> QED  BY <2>1, <2>2, GuardedStays
<1>18. ASSUME NEW t \in Threads, UnpinEffect(t) PROVE Guarded'
  <2> DEFINE f == guard[t].fid
  <2>1. /\ f \in Frames /\ Holding(t) /\ Handed(t) /\ guard'[t] = NoGuard /\ stale' = stale \ {t}
        /\ raced' = IF t \in stale THEN raced \cup {frame[f].page} ELSE raced
        /\ frame'[f].pin = (frame[f].pin - 1) % PinModulus
        /\ \A g \in Frames : frame'[g].page = frame[g].page /\ (g # f => frame'[g] = frame[g])
    BY <1>18 DEF UnpinEffect, Framed
  <2>2. \A u \in Threads : u # t => guard'[u] = guard[u]
    BY <2>1 DEF Handed
  <2>3. NoGuard.fid = NoFrame /\ \A g \in Frames : g # NoFrame
    BY PoolAssumption DEF NoGuard, Frames, NoFrame
  <2>f. guard[t].fid = f
    OBVIOUS
  <2> HIDE DEF f
  <2>4. ASSUME NEW u \in Threads, Holding(u)', u \notin stale'
        PROVE  frame'[guard'[u].fid].page = guard'[u].page
    <3>1. u # t
      BY <2>1, <2>4 DEF Holding
    <3>2. guard'[u] = guard[u] /\ Holding(u) /\ guard[u].fid \in Frames /\ u \notin stale
      BY <2>1, <2>2, <2>4, <3>1 DEF Holding, Safety, Placed, PlacedAt
    <3> QED  BY <2>1, <3>2 DEF Guarded
  <2>5. ASSUME NEW g \in Frames, Sound(g)' PROVE frame'[g].pin = Cardinality(Pins(g)')
    <3>1. Sound(g) /\ frame[g].pin = Cardinality(Pins(g))
      BY <2>1, <2>5 DEF Sound, Guarded
    <3>2. CASE g # f
      <4>1. Pins(g)' = Pins(g)
        BY <2>1, <2>2, <2>3, <2>f, <3>2 DEF Pins, Users
      <4> QED  BY <2>1, <3>1, <3>2, <4>1
    <3>3. CASE g = f
      <4>1. t \notin stale
        BY <2>1, <2>5, <3>3 DEF Sound
      <4>2. Pins(g)' = Pins(g) \ {t} /\ t \in Pins(g)
        BY <2>1, <2>2, <2>3, <2>f, <3>3, <4>1 DEF Pins, Users
      <4>3. IsFiniteSet(Pins(g)) /\ Cardinality(Pins(g)) \in Nat /\ Cardinality(Pins(g)) < PinModulus
            /\ Cardinality(Pins(g)) # 0
        BY <4>2, PinsFacts
      <4>4. Cardinality(Pins(g)') = Cardinality(Pins(g)) - 1
        BY <4>2, <4>3, FS_RemoveElement
      <4>5. (frame[g].pin - 1) % PinModulus = frame[g].pin - 1
        <5>1. PinModulus \in Nat \ {0}
          BY PoolAssumption
        <5> QED  BY <3>1, <4>3, <5>1
      <4> QED  BY <2>1, <3>1, <3>3, <4>4, <4>5
    <3> QED  BY <3>2, <3>3
  <2> QED  BY <2>4, <2>5 DEF Guarded
<1>19. ASSUME NEW t \in Threads, FlushAllEffect(t) PROVE Guarded'
  <2>1. /\ stale' = stale /\ raced \subseteq raced'
        /\ \A u \in Threads : guard'[u] = guard[u] /\ (Holding(u)' => Holding(u))
    BY <1>19 DEF FlushAllEffect, Holding
  <2>2. \A f \in Frames : frame'[f].page = frame[f].page /\ frame'[f].pin = frame[f].pin
    BY <1>19 DEF FlushAllEffect, Framed
  <2> QED  BY <2>1, <2>2, GuardedStays
<1>20. ASSUME NEW t \in Threads, ScanFrameEffect(t) PROVE Guarded'
  <2>1. /\ stale' = stale /\ raced \subseteq raced'
        /\ \A u \in Threads : guard'[u] = guard[u] /\ (Holding(u)' => Holding(u))
    BY <1>20 DEF ScanFrameEffect, Holding
  <2>2. \A f \in Frames : frame'[f].page = frame[f].page /\ frame'[f].pin = frame[f].pin
    BY <1>20 DEF ScanFrameEffect, Framed
  <2> QED  BY <2>1, <2>2, GuardedStays
<1>21. ASSUME NEW t \in Threads, ScanEndEffect(t) PROVE Guarded'
  <2>1. /\ stale' = stale /\ raced \subseteq raced'
        /\ \A u \in Threads : guard'[u] = guard[u] /\ (Holding(u)' => Holding(u))
    BY <1>21 DEF ScanEndEffect, Holding
  <2>2. \A f \in Frames : frame'[f].page = frame[f].page /\ frame'[f].pin = frame[f].pin
    BY <1>21 DEF ScanEndEffect, Framed
  <2> QED  BY <2>1, <2>2, GuardedStays
<1>22. ASSUME NEW t \in Threads, FlushWriteEffect(t) PROVE Guarded'
  <2>1. /\ stale' = stale /\ raced \subseteq raced'
        /\ \A u \in Threads : guard'[u] = guard[u] /\ (Holding(u)' => Holding(u))
    BY <1>22 DEF FlushWriteEffect, Holding
  <2>2. \A f \in Frames : frame'[f].page = frame[f].page /\ frame'[f].pin = frame[f].pin
    BY <1>22 DEF FlushWriteEffect, Framed
  <2> QED  BY <2>1, <2>2, GuardedStays
<1>23. ASSUME NEW t \in Threads, FlushCleanEffect(t) PROVE Guarded'
  <2>1. /\ stale' = stale /\ raced \subseteq raced'
        /\ \A u \in Threads : guard'[u] = guard[u] /\ (Holding(u)' => Holding(u))
    BY <1>23 DEF FlushCleanEffect, Holding
  <2>2. \A f \in Frames : frame'[f].page = frame[f].page /\ frame'[f].pin = frame[f].pin
    BY <1>23 DEF FlushCleanEffect, Framed
  <2> QED  BY <2>1, <2>2, GuardedStays
<1>24. ASSUME NEW t \in Threads, FlushUndirtyEffect(t) PROVE Guarded'
  <2>1. /\ stale' = stale /\ raced \subseteq raced'
        /\ \A u \in Threads : guard'[u] = guard[u] /\ (Holding(u)' => Holding(u))
    BY <1>24 DEF FlushUndirtyEffect, Holding
  <2>2. \A f \in Frames : frame'[f].page = frame[f].page /\ frame'[f].pin = frame[f].pin
    BY <1>24 DEF FlushUndirtyEffect, Framed
  <2> QED  BY <2>1, <2>2, GuardedStays
<1>25. CASE UNCHANGED vars
  <2>1. /\ stale' = stale /\ raced \subseteq raced'
        /\ \A u \in Threads : guard'[u] = guard[u] /\ (Holding(u)' => Holding(u))
    BY <1>25 DEF vars, history, Holding
  <2>2. \A f \in Frames : frame'[f].page = frame[f].page /\ frame'[f].pin = frame[f].pin
    BY <1>25 DEF vars, poolVars
  <2> QED  BY <2>1, <2>2, GuardedStays
<1> QED
  BY <1>1, <1>2, <1>3, <1>4, <1>5, <1>6, <1>7, <1>8, <1>9, <1>10, <1>11, <1>12, <1>13, <1>14, <1>15, <1>16,
     <1>17, <1>18, <1>19, <1>20, <1>21, <1>22, <1>23, <1>24, <1>25
  DEF Effect

-----------------------------------------------------------------------------
(* The latest content, in the frames *)

\* A guard that will mark its frame goes on to, unless its own thread does something.
LEMMA WillMarkStays ==
    ASSUME NEW t \in Threads, Stepped(t), ~(guard[t].mutated /\ op[t] = NoOp), NEW f \in Frames,
           WillMark(f),
           \A u \in Users(f) \ {t} : guard'[u] = guard[u] /\ (u \in stale' => u \in stale)
    PROVE  WillMark(f)'
<1>1. PICK u \in Users(f) \ stale : guard[u].mutated /\ op[u] = NoOp
  BY DEF WillMark
<1>2. u # t /\ u \in Threads /\ guard[u].fid = f
  BY <1>1 DEF Users
<1>3. op'[u] = op[u] /\ guard'[u] = guard[u] /\ u \notin stale'
  BY <1>1, <1>2 DEF Stepped
<1>4. u \in Users(f)' \ stale' /\ guard'[u].mutated /\ op'[u] = NoOp
  BY <1>1, <1>2, <1>3 DEF Users
<1> QED  BY <1>4 DEF WillMark

\* A thread in the middle of a call, or without a guard, marks nothing.
LEMMA NoMark ==
    ASSUME Safety, NEW t \in Threads, ~Holding(t) \/ op[t].at # "none"
    PROVE  ~(guard[t].mutated /\ op[t] = NoOp)
<1>1. NoGuard.mutated = FALSE
  BY DEF NoGuard
<1> QED  BY <1>1, NoOpAt DEF Holding

\* The frames' images and bits, the file and the contents are left alone.
LEMMA CurrentStays ==
    ASSUME Safety, Current, raced \subseteq raced', content' = content, disk' = disk,
           NEW t \in Threads, Stepped(t), ~Holding(t) \/ op[t].at # "none",
           \A f \in Frames : /\ frame'[f].page = frame[f].page /\ frame'[f].image = frame[f].image
                             /\ frame'[f].dirty = frame[f].dirty,
           \A u \in Threads \ {t} : guard'[u] = guard[u] /\ (u \in stale' => u \in stale)
    PROVE  Current'
<1> SUFFICES ASSUME NEW f \in Frames, Sound(f)'
             PROVE  /\ frame'[f].image = Latest(frame[f].page)'
                    /\ ~frame'[f].dirty => disk'[frame'[f].page] = Latest(frame[f].page)' \/ WillMark(f)'
  BY DEF Current
<1>1. Sound(f)
  BY DEF Sound
<1>2. Latest(frame[f].page)' = Latest(frame[f].page)
  BY DEF Latest
<1>3. WillMark(f) => WillMark(f)'
  BY NoMark, WillMarkStays DEF Users
<1> QED  BY <1>1, <1>2, <1>3 DEF Current

\* Every step keeps the latest content in the frames.
LEMMA CurrentKept == IInv /\ Effect => Current'
<1> SUFFICES ASSUME IInv, Effect PROVE Current'
  OBVIOUS
<1> USE DEF IInv, Owned
<1>1. ASSUME NEW t \in Threads, NEW p \in Pages, HitEffect(t, p) PROVE Current'
  <2>1. /\ raced \subseteq raced' /\ content' = content /\ disk' = disk /\ Stepped(t)
        /\ ~Holding(t) \/ op[t].at # "none"
    BY <1>1 DEF HitEffect, Holding
  <2>2. \A f \in Frames : /\ frame'[f].page = frame[f].page /\ frame'[f].image = frame[f].image
                          /\ frame'[f].dirty = frame[f].dirty
    BY <1>1 DEF HitEffect, Framed
  <2>3. \A u \in Threads \ {t} : guard'[u] = guard[u] /\ (u \in stale' => u \in stale)
    BY <1>1 DEF HitEffect, Handed
  <2> QED  BY <2>1, <2>2, <2>3, CurrentStays
<1>2. ASSUME NEW t \in Threads, NEW p \in Pages, MissEffect(t, p) PROVE Current'
  <2>1. /\ raced \subseteq raced' /\ content' = content /\ disk' = disk /\ Stepped(t)
        /\ ~Holding(t) \/ op[t].at # "none"
    BY <1>2 DEF MissEffect, Holding
  <2>2. \A f \in Frames : /\ frame'[f].page = frame[f].page /\ frame'[f].image = frame[f].image
                          /\ frame'[f].dirty = frame[f].dirty
    BY <1>2 DEF MissEffect, Framed
  <2>3. \A u \in Threads \ {t} : guard'[u] = guard[u] /\ (u \in stale' => u \in stale)
    BY <1>2 DEF MissEffect, Handed
  <2> QED  BY <2>1, <2>2, <2>3, CurrentStays
<1>3. ASSUME NEW t \in Threads, NEW p \in Pages, SlowEffect(t, p) PROVE Current'
  <2>1. /\ raced \subseteq raced' /\ content' = content /\ disk' = disk /\ Stepped(t)
        /\ ~Holding(t) \/ op[t].at # "none"
    BY <1>3 DEF SlowEffect, Holding
  <2>2. \A f \in Frames : /\ frame'[f].page = frame[f].page /\ frame'[f].image = frame[f].image
                          /\ frame'[f].dirty = frame[f].dirty
    BY <1>3 DEF SlowEffect, Framed
  <2>3. \A u \in Threads \ {t} : guard'[u] = guard[u] /\ (u \in stale' => u \in stale)
    BY <1>3 DEF SlowEffect, Handed
  <2> QED  BY <2>1, <2>2, <2>3, CurrentStays
<1>4. ASSUME NEW t \in Threads, NEW p \in Pages, RecycleEffect(t, p) PROVE Current'
  <2>1. UNCHANGED <<frame, guard, stale, op, disk, content, raced>>
    BY <1>4 DEF RecycleEffect
  <2> QED  BY <2>1 DEF Current, Sound, Latest, WillMark, Users
<1>5. ASSUME NEW t \in Threads, NEW p \in Pages, FreshEffect(t, p) PROVE Current'
  <2> SUFFICES ASSUME NEW g \in Frames, Sound(g)'
               PROVE  /\ frame'[g].image = Latest(frame[g].page)'
                      /\ ~frame'[g].dirty => disk'[frame'[g].page] = Latest(frame[g].page)' \/ WillMark(g)'
    BY DEF Current
  <2>1. /\ disk[p].page = NoPage /\ disk' = [disk EXCEPT ![p] = Blank(p)] /\ Stepped(t) /\ ~Holding(t)
        /\ UNCHANGED <<frame, guard, stale, content, raced, pageTable>>
    BY <1>5 DEF FreshEffect
  <2>2. Sound(g) /\ WillMark(g) => WillMark(g)'
    BY <2>1, NoMark, WillMarkStays
  <2>3. Sound(g) /\ Latest(frame[g].page)' = Latest(frame[g].page)
    BY <2>1 DEF Sound, Latest
  <2>4. frame[g].page \in Pages /\ frame[g].page # p
    <3>1. frame[g] \in Frame
      BY DEF Safety, TypeOK
    <3>2. frame[g].page \in Pages /\ frame[g].page # NoPage
      BY <2>3, <3>1 DEF Frame, Sound
    <3>3. pageTable[frame[g].page] = g /\ g # NoFrame
      BY <3>2, PoolAssumption DEF Mapped, Frames, NoFrame
    <3>4. disk[frame[g].page].page # NoPage
      BY <3>2, <3>3 DEF Created, Known
    <3> QED  BY <2>1, <3>2, <3>4
  <2>5. disk'[frame[g].page] = disk[frame[g].page]
    BY <2>1, <2>4 DEF Safety, TypeOK
  <2> QED  BY <2>1, <2>2, <2>3, <2>5 DEF Current
<1>6. ASSUME NEW t \in Threads, NEW p \in Pages, NewSlowEffect(t, p) PROVE Current'
  <2>1. /\ raced \subseteq raced' /\ content' = content /\ disk' = disk /\ Stepped(t)
        /\ ~Holding(t) \/ op[t].at # "none"
    BY <1>6 DEF NewSlowEffect, Holding
  <2>2. \A f \in Frames : /\ frame'[f].page = frame[f].page /\ frame'[f].image = frame[f].image
                          /\ frame'[f].dirty = frame[f].dirty
    BY <1>6 DEF NewSlowEffect, Framed
  <2>3. \A u \in Threads \ {t} : guard'[u] = guard[u] /\ (u \in stale' => u \in stale)
    BY <1>6 DEF NewSlowEffect, Handed
  <2> QED  BY <2>1, <2>2, <2>3, CurrentStays
<1>7. ASSUME NEW t \in Threads, RecycledEffect(t) PROVE Current'
  <2>1. /\ raced \subseteq raced' /\ content' = content /\ disk' = disk /\ Stepped(t)
        /\ ~Holding(t) \/ op[t].at # "none"
    BY <1>7 DEF RecycledEffect, Holding
  <2>2. \A f \in Frames : /\ frame'[f].page = frame[f].page /\ frame'[f].image = frame[f].image
                          /\ frame'[f].dirty = frame[f].dirty
    BY <1>7 DEF RecycledEffect, Framed
  <2>3. \A u \in Threads \ {t} : guard'[u] = guard[u] /\ (u \in stale' => u \in stale)
    BY <1>7 DEF RecycledEffect, Handed
  <2> QED  BY <2>1, <2>2, <2>3, CurrentStays
<1>8. ASSUME NEW t \in Threads, PickEffect(t) PROVE Current'
  <2>1. /\ raced \subseteq raced' /\ content' = content /\ disk' = disk /\ Stepped(t)
        /\ ~Holding(t) \/ op[t].at # "none"
    BY <1>8 DEF PickEffect, Holding
  <2>2. \A f \in Frames : /\ frame'[f].page = frame[f].page /\ frame'[f].image = frame[f].image
                          /\ frame'[f].dirty = frame[f].dirty
    BY <1>8 DEF PickEffect, Framed
  <2>3. \A u \in Threads \ {t} : guard'[u] = guard[u] /\ (u \in stale' => u \in stale)
    BY <1>8 DEF PickEffect, Handed
  <2> QED  BY <2>1, <2>2, <2>3, CurrentStays
<1>9. ASSUME NEW t \in Threads, SweepEffect(t) PROVE Current'
  <2>1. /\ raced \subseteq raced' /\ content' = content /\ disk' = disk /\ Stepped(t)
        /\ ~Holding(t) \/ op[t].at # "none"
    BY <1>9 DEF SweepEffect, Holding
  <2>2. \A f \in Frames : /\ frame'[f].page = frame[f].page /\ frame'[f].image = frame[f].image
                          /\ frame'[f].dirty = frame[f].dirty
    BY <1>9 DEF SweepEffect, Framed
  <2>3. \A u \in Threads \ {t} : guard'[u] = guard[u] /\ (u \in stale' => u \in stale)
    BY <1>9 DEF SweepEffect, Handed
  <2> QED  BY <2>1, <2>2, <2>3, CurrentStays
<1>10. ASSUME NEW t \in Threads, ExhaustedEffect(t) PROVE Current'
  <2>1. /\ raced \subseteq raced' /\ content' = content /\ disk' = disk /\ Stepped(t)
        /\ ~Holding(t) \/ op[t].at # "none"
    BY <1>10 DEF ExhaustedEffect, Holding
  <2>2. \A f \in Frames : /\ frame'[f].page = frame[f].page /\ frame'[f].image = frame[f].image
                          /\ frame'[f].dirty = frame[f].dirty
    BY <1>10 DEF ExhaustedEffect, Framed
  <2>3. \A u \in Threads \ {t} : guard'[u] = guard[u] /\ (u \in stale' => u \in stale)
    BY <1>10 DEF ExhaustedEffect, Handed
  <2> QED  BY <2>1, <2>2, <2>3, CurrentStays
<1>11. ASSUME NEW t \in Threads, EvictWriteEffect(t) PROVE Current'
  <2> SUFFICES ASSUME NEW g \in Frames, Sound(g)'
               PROVE  /\ frame'[g].image = Latest(frame[g].page)'
                      /\ ~frame'[g].dirty => disk'[frame'[g].page] = Latest(frame[g].page)' \/ WillMark(g)'
    BY DEF Current
  <2> DEFINE f == op[t].fid
  <2>1. /\ f \in Frames /\ Stepped(t) /\ op[t].at # "none" /\ UNCHANGED <<frame, guard, stale, content, raced>>
        /\ \/ frame[f].page \in Pages /\ disk' = [disk EXCEPT ![frame[f].page] = frame[f].image]
           \/ disk' = disk
    BY <1>11 DEF EvictWriteEffect
  <2> HIDE DEF f
  <2>2. WillMark(g) => WillMark(g)'
    BY <2>1, NoMark, WillMarkStays
  <2>3. Sound(g) /\ Latest(frame[g].page)' = Latest(frame[g].page) /\ frame[g].image = Latest(frame[g].page)
    BY <2>1 DEF Sound, Latest, Current
  <2>4. frame[g].page = frame[f].page => g = f
    BY <2>1, <2>3, OneFrame DEF Sound, Owned
  <2>5. disk'[frame[g].page] = disk[frame[g].page] \/ disk'[frame[g].page] = frame[g].image
    <3>1. disk \in [Pages -> Image]
      BY DEF Safety, TypeOK
    <3>2. CASE frame[g].page = frame[f].page
      BY <2>1, <2>4, <3>1, <3>2
    <3>3. CASE frame[g].page # frame[f].page
      <4>1. frame[g] \in Frame
        BY DEF Safety, TypeOK
      <4>2. frame[g].page \in Pages
        BY <2>3, <4>1 DEF Frame, Sound
      <4> QED  BY <2>1, <3>1, <3>3, <4>2
    <3> QED  BY <3>2, <3>3
  <2> QED  BY <2>1, <2>2, <2>3, <2>5 DEF Current
<1>12. ASSUME NEW t \in Threads, EvictResetEffect(t) PROVE Current'
  <2> SUFFICES ASSUME NEW g \in Frames, Sound(g)'
               PROVE  /\ frame'[g].image = Latest(frame[g].page)'
                      /\ ~frame'[g].dirty => disk'[frame'[g].page] = Latest(frame[g].page)' \/ WillMark(g)'
    BY DEF Current
  <2> DEFINE f == op[t].fid
  <2>1. /\ f \in Frames /\ Stepped(t) /\ op[t].at # "none" /\ Framed(f) /\ frame'[f].page = NoPage
        /\ stale' = stale \cup Users(f) /\ raced \subseteq raced' /\ UNCHANGED <<guard, content, disk>>
    BY <1>12 DEF EvictResetEffect
  <2> HIDE DEF f
  <2>2. g # f /\ frame'[g] = frame[g] /\ Sound(g)
    BY <2>1 DEF Sound, Framed
  <2>3. \A u \in Users(g) : u \in stale' => u \in stale
    BY <2>1, <2>2 DEF Users
  <2>4. WillMark(g) => WillMark(g)'
    BY <2>1, <2>3, NoMark, WillMarkStays
  <2>5. Latest(frame[g].page)' = Latest(frame[g].page)
    BY <2>1, <2>2 DEF Latest
  <2> QED  BY <2>1, <2>2, <2>4, <2>5 DEF Current
<1>13. ASSUME NEW t \in Threads, InstallEffect(t) PROVE Current'
  <2> SUFFICES ASSUME NEW g \in Frames, Sound(g)'
               PROVE  /\ frame'[g].image = Latest(frame[g].page)'
                      /\ ~frame'[g].dirty => disk'[frame'[g].page] = Latest(frame[g].page)' \/ WillMark(g)'
    BY DEF Current
  <2> DEFINE f == op[t].fid
             p == op[t].page
  <2>1. /\ f \in Frames /\ p \in Pages /\ Stepped(t) /\ op[t].at = "install" /\ Framed(f) /\ Handed(t)
        /\ frame'[f].page = p /\ stale' = stale /\ disk' = disk
    BY <1>13 DEF InstallEffect
  <2>2. \/ /\ op[t].why = "fetch" /\ UNCHANGED <<use, content, raced>> /\ frame'[f].image = disk[p]
        \/ /\ op[t].why # "fetch" /\ content' = [content EXCEPT ![p] = {}] /\ raced' = raced \ {p}
           /\ frame'[f].image = Blank(p) /\ frame'[f].dirty
    BY <1>13 DEF InstallEffect
  <2>3. pageTable[p] = NoFrame
    BY <2>1 DEF Mine, MineAt
  <2>4. CASE g = f
    <3>1. CASE op[t].why = "fetch" /\ UNCHANGED <<use, content, raced>> /\ frame'[f].image = disk[p]
      <4>1. p \notin raced /\ frame'[g].page = p /\ Latest(frame[g].page)' = Latest(p)
        BY <2>1, <2>4, <3>1 DEF Sound, Latest
      <4>2. use[p] # "none"
        BY <2>1, <3>1 DEF Created, BringingAt, Bringing, Locking
      <4>3. disk[p] = Latest(p) \/ Replaced(p)
        BY <2>1, <2>3, <4>1, <4>2 DEF OnDisk
      <4>4. ~Replaced(p)
        BY <2>1, <3>1 DEF Replaced, At, Safety, Exclusive, Locking
      <4> QED  BY <2>1, <2>4, <3>1, <4>1, <4>3, <4>4
    <3>2. CASE /\ content' = [content EXCEPT ![p] = {}] /\ frame'[f].image = Blank(p) /\ frame'[f].dirty
      <4>1. Latest(frame[g].page)' = Blank(p)
        BY <2>1, <2>4, <3>2 DEF Latest, Blank, Safety, TypeOK
      <4> QED  BY <2>4, <3>2, <4>1
    <3> QED  BY <2>2, <3>1, <3>2
  <2>5. CASE g # f
    <3> HIDE DEF f, p
    <3>1. frame'[g] = frame[g] /\ frame[g].page # NoPage
      BY <2>1, <2>5 DEF Framed, Sound
    <3>2. g # NoFrame /\ pageTable[frame[g].page] = g
      BY <3>1, PoolAssumption DEF Frames, NoFrame, Mapped
    <3>3. frame[g].page # p
      BY <2>3, <3>2
    <3>4. Sound(g) /\ Latest(frame[g].page)' = Latest(frame[g].page)
      <4>1. Sound(g)
        BY <2>2, <3>1, <3>3 DEF Sound
      <4>2. frame[g].page \in Pages
        <5>1. frame[g] \in Frame
          BY DEF Safety, TypeOK
        <5> QED  BY <3>1, <5>1 DEF Frame
      <4>3. content'[frame[g].page] = content[frame[g].page]
        BY <2>2, <3>3, <4>2 DEF Safety, TypeOK
      <4> QED  BY <3>1, <4>1, <4>3 DEF Latest
    <3>5. \A u \in Users(g) \ {t} : guard'[u] = guard[u] /\ (u \in stale' => u \in stale)
      BY <2>1 DEF Handed, Users
    <3>6. WillMark(g) => WillMark(g)'
      BY <2>1, <3>5, NoMark, WillMarkStays
    <3> QED  BY <2>1, <3>1, <3>4, <3>6 DEF Current
  <2> QED  BY <2>4, <2>5
<1>14. ASSUME NEW t \in Threads, IoErrorEffect(t) PROVE Current'
  <2>1. /\ raced \subseteq raced' /\ content' = content /\ disk' = disk /\ Stepped(t)
        /\ ~Holding(t) \/ op[t].at # "none"
    BY <1>14 DEF IoErrorEffect, Holding
  <2>2. \A f \in Frames : /\ frame'[f].page = frame[f].page /\ frame'[f].image = frame[f].image
                          /\ frame'[f].dirty = frame[f].dirty
    BY <1>14 DEF IoErrorEffect, Framed
  <2>3. \A u \in Threads \ {t} : guard'[u] = guard[u] /\ (u \in stale' => u \in stale)
    BY <1>14 DEF IoErrorEffect, Handed
  <2> QED  BY <2>1, <2>2, <2>3, CurrentStays
<1>15. ASSUME NEW t \in Threads, WriteEffect(t) PROVE Current'
  <2> SUFFICES ASSUME NEW g \in Frames, Sound(g)'
               PROVE  /\ frame'[g].image = Latest(frame[g].page)'
                      /\ ~frame'[g].dirty => disk'[frame'[g].page] = Latest(frame[g].page)' \/ WillMark(g)'
    BY DEF Current
  <2> DEFINE f == guard[t].fid
             q == guard[t].page
             n == lsn'
  <2>1. /\ Holding(t) /\ op[t] = NoOp /\ f \in Frames /\ q \in Pages /\ Framed(f) /\ Handed(t)
        /\ frame'[f].image.page = frame[f].image.page /\ frame'[f].page = frame[f].page
        /\ frame'[f].image.changes = frame[f].image.changes \cup {n}
        /\ frame'[f].dirty = frame[f].dirty /\ op' = op /\ stale' = stale /\ disk' = disk
        /\ guard'[t].fid = f /\ guard'[t].mutated
    BY <1>15 DEF WriteEffect
  <2>2. \/ t \in stale /\ raced' = raced \cup {frame[f].page} /\ content' = content
        \/ t \notin stale /\ raced' = raced /\ content' = [content EXCEPT ![q] = @ \cup {n}]
    BY <1>15 DEF WriteEffect
  <2>3. t \notin stale => frame[f].page = q
    BY <2>1, GuardMapped DEF Owned
  <2>f. guard[t].fid = f
    OBVIOUS
  <2> HIDE DEF f, q, n
  <2>4. Sound(g)
    BY <2>1, <2>2 DEF Sound, Framed
  <2>5. CASE g = f
    <3>1. t \notin stale /\ frame[f].page = q /\ content' = [content EXCEPT ![q] = @ \cup {n}]
      BY <2>1, <2>2, <2>3, <2>5 DEF Sound
    <3>2. frame[g].image = Latest(q)
      BY <2>4, <2>5, <3>1 DEF Current
    <3>3. content'[q] = content[q] \cup {n}
      BY <2>1, <3>1 DEF Safety, TypeOK
    <3>4. frame'[f].image.page = q /\ frame'[f].image.changes = content'[q]
      BY <2>1, <2>5, <3>2, <3>3 DEF Latest
    <3>5. frame'[f].image \in Image
      BY <2>1 DEF Framed, Frame
    <3>6. frame'[f].image = [page |-> q, changes |-> content'[q]]
      BY <3>4, <3>5 DEF Image
    <3>7. Latest(frame[g].page)' = [page |-> q, changes |-> content'[q]]
      BY <2>1, <2>5, <3>1 DEF Latest
    <3>8. WillMark(g)'
      BY <2>1, <2>5, <3>1 DEF WillMark, Users
    <3> QED  BY <2>5, <3>6, <3>7, <3>8
  <2>6. CASE g # f
    <3>1. frame'[g] = frame[g]
      BY <2>1, <2>6 DEF Framed
    <3>2. content'[frame[g].page] = content[frame[g].page]
      <4>1. CASE content' = content
        BY <4>1
      <4>2. CASE t \notin stale /\ content' = [content EXCEPT ![q] = @ \cup {n}]
        <5>1. frame[g].page # q
          BY <2>1, <2>3, <2>4, <2>6, <4>2, OneFrame DEF Sound, Owned
        <5>2. frame[g] \in Frame
          BY DEF Safety, TypeOK
        <5>3. frame[g].page \in Pages
          BY <2>4, <5>2 DEF Frame, Sound
        <5> QED  BY <4>2, <5>1, <5>3 DEF Safety, TypeOK
      <4> QED  BY <2>2, <4>1, <4>2
    <3>3. Latest(frame[g].page)' = Latest(frame[g].page)
      BY <3>1, <3>2 DEF Latest
    <3>4. WillMark(g) => WillMark(g)'
      <4> SUFFICES ASSUME WillMark(g) PROVE WillMark(g)'
        OBVIOUS
      <4>1. PICK u \in Users(g) \ stale : guard[u].mutated /\ op[u] = NoOp
        BY DEF WillMark
      <4>2. u # t /\ u \in Threads /\ guard[u].fid = g
        BY <2>6, <2>f, <4>1 DEF Users
      <4>3. guard'[u] = guard[u]
        BY <2>1, <4>2 DEF Handed
      <4>4. u \in Users(g)' \ stale' /\ guard'[u].mutated /\ op'[u] = NoOp
        BY <2>1, <4>1, <4>2, <4>3 DEF Users
      <4> QED  BY <4>4 DEF WillMark
    <3> QED  BY <2>1, <2>4, <3>1, <3>3, <3>4 DEF Current
  <2> QED  BY <2>5, <2>6
<1>16. ASSUME NEW t \in Threads, ReleaseEffect(t) PROVE Current'
  <2> SUFFICES ASSUME NEW g \in Frames, Sound(g)'
               PROVE  /\ frame'[g].image = Latest(frame[g].page)'
                      /\ ~frame'[g].dirty => disk'[frame'[g].page] = Latest(frame[g].page)' \/ WillMark(g)'
    BY DEF Current
  <2> DEFINE f == guard[t].fid
  <2>1. /\ f \in Frames /\ Holding(t) /\ Stepped(t) /\ Handed(t) /\ Framed(f) /\ op[t] = NoOp
        /\ frame'[f].image = frame[f].image /\ frame'[f].page = frame[f].page
        /\ UNCHANGED <<disk, content, raced>>
    BY <1>16 DEF ReleaseEffect
  <2>2. \/ frame[f].pin = 0 /\ frame' = frame /\ guard'[t] = NoGuard /\ stale' = stale \ {t}
        \/ guard[t].mutated /\ frame'[f].dirty /\ guard' = guard /\ stale' = stale
        \/ ~guard[t].mutated /\ frame' = frame /\ guard' = guard /\ stale' = stale
    BY <1>16 DEF ReleaseEffect
  <2>f. guard[t].fid = f
    OBVIOUS
  <2> HIDE DEF f
  <2>3. \A h \in Frames : h # f => frame'[h] = frame[h]
    BY <2>1 DEF Framed
  <2>4. frame'[g].page = frame[g].page /\ frame'[g].image = frame[g].image
    BY <2>1, <2>3
  <2>5. Sound(g)
    BY <2>1, <2>4 DEF Sound
  <2>6. Latest(frame[g].page)' = Latest(frame[g].page)
    BY <2>1, <2>4 DEF Latest
  <2>7. frame'[g].image = Latest(frame[g].page)'
    BY <2>4, <2>5, <2>6 DEF Current
  <2>8. ASSUME ~frame'[g].dirty, WillMark(g) PROVE WillMark(g)' /\ ~frame[g].dirty
    <3>1. PICK u \in Users(g) \ stale : guard[u].mutated /\ op[u] = NoOp
      BY <2>8 DEF WillMark
    <3>2. u \in Threads /\ guard[u].fid = g /\ u \in Pins(g)
      BY <3>1 DEF Users, Pins
    <3>3. frame[g].pin # 0
      <4>1. Cardinality(Pins(g)) = 0 <=> Pins(g) = {}
        BY PinsFacts
      <4> QED  BY <2>5, <3>2, <4>1 DEF Guarded
    <3>4. u # t
      BY <2>2, <2>8, <2>f, <3>1, <3>2, <3>3
    <3>5. guard'[u] = guard[u] /\ op'[u] = op[u] /\ u \notin stale'
      BY <2>1, <2>2, <3>1, <3>2, <3>4 DEF Handed, Stepped
    <3>6. u \in Users(g)' \ stale' /\ guard'[u].mutated /\ op'[u] = NoOp
      BY <3>1, <3>2, <3>5 DEF Users
    <3>7. ~frame[g].dirty
      BY <2>2, <2>3, <2>8
    <3> QED  BY <3>6, <3>7 DEF WillMark
  <2>9. ~frame'[g].dirty => ~frame[g].dirty
    BY <2>2, <2>3
  <2> QED  BY <2>1, <2>4, <2>5, <2>6, <2>7, <2>8, <2>9 DEF Current
<1>17. ASSUME NEW t \in Threads, NoteDirtyEffect(t) PROVE Current'
  <2>1. /\ raced \subseteq raced' /\ content' = content /\ disk' = disk /\ Stepped(t)
        /\ ~Holding(t) \/ op[t].at # "none"
    BY <1>17 DEF NoteDirtyEffect, Holding
  <2>2. \A f \in Frames : /\ frame'[f].page = frame[f].page /\ frame'[f].image = frame[f].image
                          /\ frame'[f].dirty = frame[f].dirty
    BY <1>17 DEF NoteDirtyEffect, Framed
  <2>3. \A u \in Threads \ {t} : guard'[u] = guard[u] /\ (u \in stale' => u \in stale)
    BY <1>17 DEF NoteDirtyEffect, Handed
  <2> QED  BY <2>1, <2>2, <2>3, CurrentStays
<1>18. ASSUME NEW t \in Threads, UnpinEffect(t) PROVE Current'
  <2>1. /\ raced \subseteq raced' /\ content' = content /\ disk' = disk /\ Stepped(t)
        /\ ~Holding(t) \/ op[t].at # "none"
    BY <1>18 DEF UnpinEffect, Holding
  <2>2. \A f \in Frames : /\ frame'[f].page = frame[f].page /\ frame'[f].image = frame[f].image
                          /\ frame'[f].dirty = frame[f].dirty
    BY <1>18 DEF UnpinEffect, Framed
  <2>3. \A u \in Threads \ {t} : guard'[u] = guard[u] /\ (u \in stale' => u \in stale)
    BY <1>18 DEF UnpinEffect, Handed
  <2> QED  BY <2>1, <2>2, <2>3, CurrentStays
<1>19. ASSUME NEW t \in Threads, FlushAllEffect(t) PROVE Current'
  <2>1. /\ raced \subseteq raced' /\ content' = content /\ disk' = disk /\ Stepped(t)
        /\ ~Holding(t) \/ op[t].at # "none"
    BY <1>19 DEF FlushAllEffect, Holding
  <2>2. \A f \in Frames : /\ frame'[f].page = frame[f].page /\ frame'[f].image = frame[f].image
                          /\ frame'[f].dirty = frame[f].dirty
    BY <1>19 DEF FlushAllEffect, Framed
  <2>3. \A u \in Threads \ {t} : guard'[u] = guard[u] /\ (u \in stale' => u \in stale)
    BY <1>19 DEF FlushAllEffect, Handed
  <2> QED  BY <2>1, <2>2, <2>3, CurrentStays
<1>20. ASSUME NEW t \in Threads, ScanFrameEffect(t) PROVE Current'
  <2>1. /\ raced \subseteq raced' /\ content' = content /\ disk' = disk /\ Stepped(t)
        /\ ~Holding(t) \/ op[t].at # "none"
    BY <1>20 DEF ScanFrameEffect, Holding
  <2>2. \A f \in Frames : /\ frame'[f].page = frame[f].page /\ frame'[f].image = frame[f].image
                          /\ frame'[f].dirty = frame[f].dirty
    BY <1>20 DEF ScanFrameEffect, Framed
  <2>3. \A u \in Threads \ {t} : guard'[u] = guard[u] /\ (u \in stale' => u \in stale)
    BY <1>20 DEF ScanFrameEffect, Handed
  <2> QED  BY <2>1, <2>2, <2>3, CurrentStays
<1>21. ASSUME NEW t \in Threads, ScanEndEffect(t) PROVE Current'
  <2>1. /\ raced \subseteq raced' /\ content' = content /\ disk' = disk /\ Stepped(t)
        /\ ~Holding(t) \/ op[t].at # "none"
    BY <1>21 DEF ScanEndEffect, Holding
  <2>2. \A f \in Frames : /\ frame'[f].page = frame[f].page /\ frame'[f].image = frame[f].image
                          /\ frame'[f].dirty = frame[f].dirty
    BY <1>21 DEF ScanEndEffect, Framed
  <2>3. \A u \in Threads \ {t} : guard'[u] = guard[u] /\ (u \in stale' => u \in stale)
    BY <1>21 DEF ScanEndEffect, Handed
  <2> QED  BY <2>1, <2>2, <2>3, CurrentStays
<1>22. ASSUME NEW t \in Threads, FlushWriteEffect(t) PROVE Current'
  <2> SUFFICES ASSUME NEW g \in Frames, Sound(g)'
               PROVE  /\ frame'[g].image = Latest(frame[g].page)'
                      /\ ~frame'[g].dirty => disk'[frame'[g].page] = Latest(frame[g].page)' \/ WillMark(g)'
    BY DEF Current
  <2> DEFINE f == op[t].fid
             p == op[t].page
  <2>1. /\ f \in Frames /\ p \in Pages /\ Stepped(t) /\ op[t].at # "none"
        /\ disk' = [disk EXCEPT ![p] = frame[f].image]
        /\ raced' = IF frame[f].image = Latest(p) THEN raced ELSE raced \cup {p}
        /\ UNCHANGED <<frame, guard, stale, content>>
    BY <1>22 DEF FlushWriteEffect
  <2> HIDE DEF f, p
  <2>2. WillMark(g) => WillMark(g)'
    BY <2>1, NoMark, WillMarkStays
  <2>3. Sound(g) /\ Latest(frame[g].page)' = Latest(frame[g].page) /\ frame[g].image = Latest(frame[g].page)
    BY <2>1 DEF Sound, Latest, Current
  <2>4. frame[g].page = p => frame[f].image = Latest(p)
    BY <2>1 DEF Sound
  <2>5. disk'[frame[g].page] = disk[frame[g].page] \/ disk'[frame[g].page] = Latest(frame[g].page)
    BY <2>1, <2>4 DEF Safety, TypeOK
  <2> QED  BY <2>1, <2>2, <2>3, <2>5 DEF Current
<1>23. ASSUME NEW t \in Threads, FlushCleanEffect(t) PROVE Current'
  <2> SUFFICES ASSUME NEW g \in Frames, Sound(g)'
               PROVE  /\ frame'[g].image = Latest(frame[g].page)'
                      /\ ~frame'[g].dirty => disk'[frame'[g].page] = Latest(frame[g].page)' \/ WillMark(g)'
    BY DEF Current
  <2> DEFINE f == op[t].fid
  <2>1. /\ f \in Frames /\ Stepped(t) /\ op[t].at # "none" /\ Framed(f) /\ raced \subseteq raced'
        /\ frame'[f].image = frame[f].image /\ frame'[f].page = frame[f].page
        /\ UNCHANGED <<disk, guard, stale, content>>
    BY <1>23 DEF FlushCleanEffect
  <2>2. \/ frame[f].page \in raced' \/ frame[f].page = NoPage \/ WillMark(f)
        \/ frame[f].image = disk[frame[f].page]
    BY <1>23 DEF FlushCleanEffect
  <2> HIDE DEF f
  <2>3. WillMark(g) => WillMark(g)'
    BY <2>1, NoMark, WillMarkStays
  <2>4. frame'[g].page = frame[g].page /\ frame'[g].image = frame[g].image /\ (g # f => frame'[g] = frame[g])
    BY <2>1 DEF Framed
  <2>5. Sound(g) /\ Latest(frame[g].page)' = Latest(frame[g].page) /\ frame[g].image = Latest(frame[g].page)
    BY <2>1, <2>4 DEF Sound, Latest, Current
  <2>6. g = f => disk[frame[g].page] = Latest(frame[g].page) \/ WillMark(g)
    BY <2>1, <2>2, <2>5 DEF Sound
  <2> QED  BY <2>1, <2>3, <2>4, <2>5, <2>6 DEF Current
<1>24. ASSUME NEW t \in Threads, FlushUndirtyEffect(t) PROVE Current'
  <2>1. /\ raced \subseteq raced' /\ content' = content /\ disk' = disk /\ Stepped(t)
        /\ ~Holding(t) \/ op[t].at # "none"
    BY <1>24 DEF FlushUndirtyEffect, Holding
  <2>2. \A f \in Frames : /\ frame'[f].page = frame[f].page /\ frame'[f].image = frame[f].image
                          /\ frame'[f].dirty = frame[f].dirty
    BY <1>24 DEF FlushUndirtyEffect, Framed
  <2>3. \A u \in Threads \ {t} : guard'[u] = guard[u] /\ (u \in stale' => u \in stale)
    BY <1>24 DEF FlushUndirtyEffect, Handed
  <2> QED  BY <2>1, <2>2, <2>3, CurrentStays
<1>25. CASE UNCHANGED vars
  <2>1. UNCHANGED <<frame, guard, stale, op, disk, content, raced>>
    BY <1>25 DEF vars, poolVars, fileVars, history
  <2> QED  BY <2>1 DEF Current, Sound, Latest, WillMark, Users
<1> QED
  BY <1>1, <1>2, <1>3, <1>4, <1>5, <1>6, <1>7, <1>8, <1>9, <1>10, <1>11, <1>12, <1>13, <1>14, <1>15, <1>16,
     <1>17, <1>18, <1>19, <1>20, <1>21, <1>22, <1>23, <1>24, <1>25
  DEF Effect

-----------------------------------------------------------------------------
(* The latest content, in the file *)

\* A page that is being replaced stays so while its thread has the lock.
LEMMA ReplacedStays ==
    ASSUME NEW t \in Threads, Stepped(t), op[t].at \notin {"install", "pick"}, freeFrames' = freeFrames,
           NEW p \in Pages, Replaced(p)
    PROVE  Replaced(p)'
<1>1. PICK u \in Threads : /\ op[u].page = p /\ op[u].why = "recycled"
                           /\ At(u, "install") \/ (At(u, "pick") /\ freeFrames # <<>>)
  BY DEF Replaced
<1>2. op'[u] = op[u]
  BY <1>1 DEF Stepped, At
<1> QED  BY <1>1, <1>2 DEF Replaced, At

\* No page is being replaced when the lock is free or its holder does something else.
LEMMA NotReplaced ==
    ASSUME Safety, NEW t \in Threads, NEW p \in Pages,
           \/ TableFree
           \/ op[t].at \in {"sweep", "evict", "reset"}
           \/ op[t].at = "install" /\ (op[t].why = "fetch" \/ op[t].page # p)
    PROVE  ~Replaced(p)
<1> SUFFICES ASSUME NEW u \in Threads, op[u].page = p, op[u].why = "recycled", op[u].at \in {"install", "pick"}
             PROVE  FALSE
  BY DEF Replaced, At
<1>1. op[u].at \in Locking /\ ~TableFree
  BY DEF Locking, TableFree
<1>2. op[t].at \in Locking => u = t
  BY <1>1 DEF Safety, Exclusive
<1> QED  BY <1>1, <1>2 DEF Locking

\* The table, the file and the contents are left alone.
LEMMA OnDiskStays ==
    ASSUME OnDisk, pageTable' = pageTable, use' = use, raced \subseteq raced', disk' = disk,
           content' = content,
           \A p \in Pages : Replaced(p) => Replaced(p)'
    PROVE  OnDisk'
  BY DEF OnDisk, Latest

\* Every step keeps the latest content of unmapped pages in the file.
LEMMA OnDiskKept == IInv /\ Effect => OnDisk'
<1> SUFFICES ASSUME IInv, Effect PROVE OnDisk'
  OBVIOUS
<1> USE DEF IInv, Owned
<1>1. ASSUME NEW t \in Threads, NEW p \in Pages, HitEffect(t, p) PROVE OnDisk'
  <2>1. /\ UNCHANGED <<pageTable, use, disk, content, freeFrames>> /\ raced \subseteq raced' /\ Stepped(t)
        /\ op[t].at \notin {"install", "pick"} \/ (op[t].at = "install" /\ op[t].why = "fetch")
    BY <1>1, NoOpAt DEF HitEffect
  <2>2. \A q \in Pages : Replaced(q) => Replaced(q)'
    BY <2>1, ReplacedStays, NotReplaced
  <2> QED  BY <2>1, <2>2, OnDiskStays
<1>2. ASSUME NEW t \in Threads, NEW p \in Pages, MissEffect(t, p) PROVE OnDisk'
  <2>1. /\ UNCHANGED <<pageTable, use, disk, content, freeFrames>> /\ raced \subseteq raced' /\ Stepped(t)
        /\ op[t].at \notin {"install", "pick"} \/ (op[t].at = "install" /\ op[t].why = "fetch")
    BY <1>2, NoOpAt DEF MissEffect
  <2>2. \A q \in Pages : Replaced(q) => Replaced(q)'
    BY <2>1, ReplacedStays, NotReplaced
  <2> QED  BY <2>1, <2>2, OnDiskStays
<1>3. ASSUME NEW t \in Threads, NEW p \in Pages, SlowEffect(t, p) PROVE OnDisk'
  <2>1. /\ UNCHANGED <<pageTable, use, disk, content, freeFrames>> /\ raced \subseteq raced' /\ Stepped(t)
        /\ op[t].at \notin {"install", "pick"} \/ (op[t].at = "install" /\ op[t].why = "fetch")
    BY <1>3, NoOpAt DEF SlowEffect
  <2>2. \A q \in Pages : Replaced(q) => Replaced(q)'
    BY <2>1, ReplacedStays, NotReplaced
  <2> QED  BY <2>1, <2>2, OnDiskStays
<1>4. ASSUME NEW t \in Threads, NEW p \in Pages, RecycleEffect(t, p) PROVE OnDisk'
  <2>1. /\ UNCHANGED <<pageTable, disk, content, raced, op, freeFrames>> /\ use[p] = "live"
        /\ use' = [use EXCEPT ![p] = "dead"]
    BY <1>4 DEF RecycleEffect
  <2>2. \A q \in Pages : use'[q] # "none" => use[q] # "none"
    BY <2>1 DEF Safety, TypeOK
  <2> QED  BY <2>1, <2>2 DEF OnDisk, Latest, Replaced, At
<1>5. ASSUME NEW t \in Threads, NEW p \in Pages, FreshEffect(t, p) PROVE OnDisk'
  <2> SUFFICES ASSUME NEW q \in Pages, pageTable'[q] = NoFrame, use'[q] # "none", q \notin raced'
               PROVE  disk'[q] = Latest(q)' \/ Replaced(q)'
    BY DEF OnDisk
  <2>1. /\ disk[p].page = NoPage /\ disk' = [disk EXCEPT ![p] = Blank(p)] /\ Stepped(t) /\ op[t].at = "none"
        /\ UNCHANGED <<pageTable, use, content, raced, freeFrames>>
    BY <1>5, NoOpAt DEF FreshEffect
  <2>2. q # p
    BY <2>1 DEF Created, Known
  <2>3. Replaced(q) => Replaced(q)'
    BY <2>1, ReplacedStays
  <2>4. disk'[q] = disk[q] /\ Latest(q)' = Latest(q)
    BY <2>1, <2>2 DEF Latest, Safety, TypeOK
  <2> QED  BY <2>1, <2>3, <2>4 DEF OnDisk
<1>6. ASSUME NEW t \in Threads, NEW p \in Pages, NewSlowEffect(t, p) PROVE OnDisk'
  <2>1. /\ UNCHANGED <<pageTable, use, disk, content, freeFrames>> /\ raced \subseteq raced' /\ Stepped(t)
        /\ op[t].at \notin {"install", "pick"} \/ (op[t].at = "install" /\ op[t].why = "fetch")
    BY <1>6, NoOpAt DEF NewSlowEffect
  <2>2. \A q \in Pages : Replaced(q) => Replaced(q)'
    BY <2>1, ReplacedStays, NotReplaced
  <2> QED  BY <2>1, <2>2, OnDiskStays
<1>7. ASSUME NEW t \in Threads, RecycledEffect(t) PROVE OnDisk'
  <2>1. /\ UNCHANGED <<pageTable, use, disk, content, freeFrames>> /\ raced \subseteq raced' /\ Stepped(t)
        /\ op[t].at \notin {"install", "pick"} \/ (op[t].at = "install" /\ op[t].why = "fetch")
    BY <1>7, NoOpAt DEF RecycledEffect
  <2>2. \A q \in Pages : Replaced(q) => Replaced(q)'
    BY <2>1, ReplacedStays, NotReplaced
  <2> QED  BY <2>1, <2>2, OnDiskStays
<1>8. ASSUME NEW t \in Threads, PickEffect(t) PROVE OnDisk'
  <2>1. /\ UNCHANGED <<pageTable, use, disk, content, raced>> /\ Stepped(t) /\ op[t].at = "pick"
        /\ op'[t].why = op[t].why /\ op'[t].page = op[t].page
        /\ freeFrames # <<>> => op'[t].at = "install"
    BY <1>8 DEF PickEffect
  <2>2. ASSUME NEW q \in Pages, Replaced(q) PROVE Replaced(q)'
    <3>1. PICK u \in Threads : /\ op[u].page = q /\ op[u].why = "recycled"
                               /\ At(u, "install") \/ (At(u, "pick") /\ freeFrames # <<>>)
      BY <2>2 DEF Replaced
    <3>2. u = t
      BY <2>1, <3>1 DEF At, Safety, Exclusive, Locking
    <3> QED  BY <2>1, <3>1, <3>2 DEF Replaced, At
  <2> QED  BY <2>1, <2>2, OnDiskStays
<1>9. ASSUME NEW t \in Threads, SweepEffect(t) PROVE OnDisk'
  <2>1. /\ UNCHANGED <<pageTable, use, disk, content, freeFrames>> /\ raced \subseteq raced' /\ Stepped(t)
        /\ op[t].at \notin {"install", "pick"} \/ (op[t].at = "install" /\ op[t].why = "fetch")
    BY <1>9, NoOpAt DEF SweepEffect
  <2>2. \A q \in Pages : Replaced(q) => Replaced(q)'
    BY <2>1, ReplacedStays, NotReplaced
  <2> QED  BY <2>1, <2>2, OnDiskStays
<1>10. ASSUME NEW t \in Threads, ExhaustedEffect(t) PROVE OnDisk'
  <2>1. /\ UNCHANGED <<pageTable, use, disk, content, freeFrames>> /\ raced \subseteq raced' /\ Stepped(t)
        /\ op[t].at \notin {"install", "pick"} \/ (op[t].at = "install" /\ op[t].why = "fetch")
    BY <1>10, NoOpAt DEF ExhaustedEffect
  <2>2. \A q \in Pages : Replaced(q) => Replaced(q)'
    BY <2>1, ReplacedStays, NotReplaced
  <2> QED  BY <2>1, <2>2, OnDiskStays
<1>11. ASSUME NEW t \in Threads, EvictWriteEffect(t) PROVE OnDisk'
  <2> SUFFICES ASSUME NEW q \in Pages, pageTable'[q] = NoFrame, use'[q] # "none", q \notin raced'
               PROVE  disk'[q] = Latest(q)' \/ Replaced(q)'
    BY DEF OnDisk
  <2> DEFINE f == op[t].fid
  <2>1. /\ f \in Frames /\ op[t].at = "evict" /\ UNCHANGED <<pageTable, use, content, raced>>
        /\ \/ frame[f].page \in Pages /\ disk' = [disk EXCEPT ![frame[f].page] = frame[f].image]
           \/ disk' = disk
    BY <1>11 DEF EvictWriteEffect
  <2> HIDE DEF f
  <2>2. ~Replaced(q)
    BY <2>1, NotReplaced
  <2>3. frame[f].page # q
    <3>1. f # NoFrame
      BY <2>1, PoolAssumption DEF Frames, NoFrame
    <3> QED  BY <2>1, <3>1, PoolAssumption DEF Mapped
  <2>4. disk'[q] = disk[q] /\ Latest(q)' = Latest(q)
    BY <2>1, <2>3 DEF Latest, Safety, TypeOK
  <2> QED  BY <2>1, <2>2, <2>4 DEF OnDisk
<1>12. ASSUME NEW t \in Threads, EvictResetEffect(t) PROVE OnDisk'
  <2> SUFFICES ASSUME NEW q \in Pages, pageTable'[q] = NoFrame, use'[q] # "none", q \notin raced'
               PROVE  disk'[q] = Latest(q)' \/ Replaced(q)'
    BY DEF OnDisk
  <2> DEFINE f == op[t].fid
  <2>1. /\ f \in Frames /\ op[t].at = "reset" /\ op[t].page \in Pages /\ UNCHANGED <<use, content, disk>>
        /\ raced \subseteq raced' /\ op'[t].why = op[t].why /\ op'[t].page = op[t].page
    BY <1>12 DEF EvictResetEffect
  <2>2. \/ frame[f].page \in Pages /\ pageTable' = [pageTable EXCEPT ![frame[f].page] = NoFrame]
        \/ frame[f].page = NoPage /\ pageTable' = pageTable
    BY <1>12 DEF EvictResetEffect
  <2>3. frame[f].page = op[t].page => op'[t].at = "pick" /\ freeFrames' = Append(freeFrames, f)
    BY <1>12 DEF EvictResetEffect
  <2>4. VictimAt(t) /\ MineAt(t)
    BY DEF Victim, Mine
  <2>f. op[t].fid = f
    OBVIOUS
  <2> HIDE DEF f
  <2>5. ~Replaced(q) /\ q \notin raced /\ Latest(q)' = Latest(q)
    BY <2>1, NotReplaced DEF Latest
  <2>6. CASE q # frame[f].page
    <3>1. pageTable[q] = NoFrame
      BY <2>2, <2>6 DEF Safety, TypeOK
    <3> QED  BY <2>1, <2>5, <3>1 DEF OnDisk
  <2>7. CASE q = frame[f].page
    <3>1. Sound(f) /\ pageTable[q] = f
      BY <2>1, <2>5, <2>7, PoolAssumption DEF Sound, Mapped
    <3>2. CASE pageTable[op[t].page] = NoFrame
      <4>1. disk[q] = Latest(q)
        BY <2>1, <2>4, <2>7, <2>f, <3>1, <3>2 DEF VictimAt
      <4> QED  BY <2>1, <2>5, <4>1
    <3>3. CASE pageTable[op[t].page] # NoFrame
      <4>1. op[t].why = "recycled" /\ pageTable[op[t].page] = f
        BY <2>1, <2>4, <2>f, <3>3 DEF MineAt
      <4>2. frame[f].page = op[t].page
        BY <2>1, <3>3, <4>1 DEF Mapped
      <4>3. freeFrames' # <<>>
        <5>1. freeFrames \in Seq(Frames) /\ freeFrames' = Append(freeFrames, f)
          BY <2>3, <4>2 DEF Safety, TypeOK
        <5> QED  BY <2>1, <5>1
      <4>4. op'[t].at = "pick" /\ op'[t].page = q /\ op'[t].why = "recycled"
        BY <2>1, <2>3, <2>7, <4>1, <4>2
      <4> QED  BY <4>3, <4>4 DEF Replaced, At
    <3> QED  BY <3>2, <3>3
  <2> QED  BY <2>6, <2>7
<1>13. ASSUME NEW t \in Threads, InstallEffect(t) PROVE OnDisk'
  <2> SUFFICES ASSUME NEW q \in Pages, pageTable'[q] = NoFrame, use'[q] # "none", q \notin raced'
               PROVE  disk'[q] = Latest(q)' \/ Replaced(q)'
    BY DEF OnDisk
  <2> DEFINE p == op[t].page
  <2>1. /\ p \in Pages /\ op[t].at = "install" /\ op[t].fid \in Frames /\ disk' = disk
        /\ pageTable' = [pageTable EXCEPT ![p] = op[t].fid]
        /\ \/ op[t].why = "fetch" /\ UNCHANGED <<use, content, raced>>
           \/ /\ op[t].why # "fetch" /\ use' = [use EXCEPT ![p] = "live"]
              /\ content' = [content EXCEPT ![p] = {}] /\ raced' = raced \ {p}
    BY <1>13 DEF InstallEffect
  <2>2. op[t].fid # NoFrame
    BY <2>1, PoolAssumption DEF Frames, NoFrame
  <2> HIDE DEF p
  <2>3. q # p /\ pageTable[q] = NoFrame
    BY <2>1, <2>2 DEF Safety, TypeOK
  <2>4. ~Replaced(q)
    BY <2>1, <2>3, NotReplaced DEF p
  <2>5. use[q] # "none" /\ content'[q] = content[q] /\ q \notin raced
    BY <2>1, <2>3 DEF Safety, TypeOK
  <2>6. Latest(q)' = Latest(q)
    BY <2>5 DEF Latest
  <2> QED  BY <2>1, <2>3, <2>4, <2>5, <2>6 DEF OnDisk
<1>14. ASSUME NEW t \in Threads, IoErrorEffect(t) PROVE OnDisk'
  <2>1. /\ UNCHANGED <<pageTable, use, disk, content, freeFrames>> /\ raced \subseteq raced' /\ Stepped(t)
        /\ op[t].at \notin {"install", "pick"} \/ (op[t].at = "install" /\ op[t].why = "fetch")
    BY <1>14, NoOpAt DEF IoErrorEffect
  <2>2. \A q \in Pages : Replaced(q) => Replaced(q)'
    BY <2>1, ReplacedStays, NotReplaced
  <2> QED  BY <2>1, <2>2, OnDiskStays
<1>15. ASSUME NEW t \in Threads, WriteEffect(t) PROVE OnDisk'
  <2> SUFFICES ASSUME NEW q \in Pages, pageTable'[q] = NoFrame, use'[q] # "none", q \notin raced'
               PROVE  disk'[q] = Latest(q)' \/ Replaced(q)'
    BY DEF OnDisk
  <2> DEFINE n == lsn'
  <2>1. /\ Holding(t) /\ UNCHANGED <<pageTable, freeFrames, use, disk, op>>
        /\ \/ raced \subseteq raced' /\ content' = content
           \/ t \notin stale /\ raced' = raced /\ content' = [content EXCEPT ![guard[t].page] = @ \cup {n}]
    BY <1>15 DEF WriteEffect
  <2>2. t \notin stale => q # guard[t].page
    <3> SUFFICES ASSUME t \notin stale PROVE q # guard[t].page
      OBVIOUS
    <3>1. guard[t].fid \in Frames /\ pageTable[guard[t].page] = guard[t].fid
      BY <2>1, GuardMapped DEF Owned
    <3>2. guard[t].fid # NoFrame
      BY <3>1, PoolAssumption DEF Frames, NoFrame
    <3> QED  BY <2>1, <3>1, <3>2
  <2> HIDE DEF n
  <2>3. content'[q] = content[q] /\ q \notin raced
    BY <2>1, <2>2 DEF Safety, TypeOK
  <2>4. Latest(q)' = Latest(q) /\ (Replaced(q) => Replaced(q)')
    BY <2>1, <2>3 DEF Latest, Replaced, At
  <2> QED  BY <2>1, <2>3, <2>4 DEF OnDisk
<1>16. ASSUME NEW t \in Threads, ReleaseEffect(t) PROVE OnDisk'
  <2>1. /\ UNCHANGED <<pageTable, use, disk, content, freeFrames>> /\ raced \subseteq raced' /\ Stepped(t)
        /\ op[t].at \notin {"install", "pick"} \/ (op[t].at = "install" /\ op[t].why = "fetch")
    BY <1>16, NoOpAt DEF ReleaseEffect
  <2>2. \A q \in Pages : Replaced(q) => Replaced(q)'
    BY <2>1, ReplacedStays, NotReplaced
  <2> QED  BY <2>1, <2>2, OnDiskStays
<1>17. ASSUME NEW t \in Threads, NoteDirtyEffect(t) PROVE OnDisk'
  <2>1. /\ UNCHANGED <<pageTable, use, disk, content, freeFrames>> /\ raced \subseteq raced' /\ Stepped(t)
        /\ op[t].at \notin {"install", "pick"} \/ (op[t].at = "install" /\ op[t].why = "fetch")
    BY <1>17, NoOpAt DEF NoteDirtyEffect
  <2>2. \A q \in Pages : Replaced(q) => Replaced(q)'
    BY <2>1, ReplacedStays, NotReplaced
  <2> QED  BY <2>1, <2>2, OnDiskStays
<1>18. ASSUME NEW t \in Threads, UnpinEffect(t) PROVE OnDisk'
  <2>1. /\ UNCHANGED <<pageTable, use, disk, content, freeFrames>> /\ raced \subseteq raced' /\ Stepped(t)
        /\ op[t].at \notin {"install", "pick"} \/ (op[t].at = "install" /\ op[t].why = "fetch")
    BY <1>18, NoOpAt DEF UnpinEffect
  <2>2. \A q \in Pages : Replaced(q) => Replaced(q)'
    BY <2>1, ReplacedStays, NotReplaced
  <2> QED  BY <2>1, <2>2, OnDiskStays
<1>19. ASSUME NEW t \in Threads, FlushAllEffect(t) PROVE OnDisk'
  <2>1. /\ UNCHANGED <<pageTable, use, disk, content, freeFrames>> /\ raced \subseteq raced' /\ Stepped(t)
        /\ op[t].at \notin {"install", "pick"} \/ (op[t].at = "install" /\ op[t].why = "fetch")
    BY <1>19, NoOpAt DEF FlushAllEffect
  <2>2. \A q \in Pages : Replaced(q) => Replaced(q)'
    BY <2>1, ReplacedStays, NotReplaced
  <2> QED  BY <2>1, <2>2, OnDiskStays
<1>20. ASSUME NEW t \in Threads, ScanFrameEffect(t) PROVE OnDisk'
  <2>1. /\ UNCHANGED <<pageTable, use, disk, content, freeFrames>> /\ raced \subseteq raced' /\ Stepped(t)
        /\ op[t].at \notin {"install", "pick"} \/ (op[t].at = "install" /\ op[t].why = "fetch")
    BY <1>20, NoOpAt DEF ScanFrameEffect
  <2>2. \A q \in Pages : Replaced(q) => Replaced(q)'
    BY <2>1, ReplacedStays, NotReplaced
  <2> QED  BY <2>1, <2>2, OnDiskStays
<1>21. ASSUME NEW t \in Threads, ScanEndEffect(t) PROVE OnDisk'
  <2>1. /\ UNCHANGED <<pageTable, use, disk, content, freeFrames>> /\ raced \subseteq raced' /\ Stepped(t)
        /\ op[t].at \notin {"install", "pick"} \/ (op[t].at = "install" /\ op[t].why = "fetch")
    BY <1>21, NoOpAt DEF ScanEndEffect
  <2>2. \A q \in Pages : Replaced(q) => Replaced(q)'
    BY <2>1, ReplacedStays, NotReplaced
  <2> QED  BY <2>1, <2>2, OnDiskStays
<1>22. ASSUME NEW t \in Threads, FlushWriteEffect(t) PROVE OnDisk'
  <2> SUFFICES ASSUME NEW q \in Pages, pageTable'[q] = NoFrame, use'[q] # "none", q \notin raced'
               PROVE  disk'[q] = Latest(q)' \/ Replaced(q)'
    BY DEF OnDisk
  <2> DEFINE f == op[t].fid
             p == op[t].page
  <2>1. /\ p \in Pages /\ Stepped(t) /\ op[t].at = "write" /\ disk' = [disk EXCEPT ![p] = frame[f].image]
        /\ raced' = IF frame[f].image = Latest(p) THEN raced ELSE raced \cup {p}
        /\ UNCHANGED <<pageTable, freeFrames, use, content>>
    BY <1>22 DEF FlushWriteEffect
  <2> HIDE DEF f, p
  <2>2. q \notin raced /\ Latest(q)' = Latest(q) /\ (Replaced(q) => Replaced(q)')
    BY <2>1, ReplacedStays DEF Latest
  <2>3. disk'[q] = disk[q] \/ disk'[q] = Latest(q)
    BY <2>1 DEF Safety, TypeOK
  <2> QED  BY <2>1, <2>2, <2>3 DEF OnDisk
<1>23. ASSUME NEW t \in Threads, FlushCleanEffect(t) PROVE OnDisk'
  <2>1. /\ UNCHANGED <<pageTable, use, disk, content, freeFrames>> /\ raced \subseteq raced' /\ Stepped(t)
        /\ op[t].at \notin {"install", "pick"} \/ (op[t].at = "install" /\ op[t].why = "fetch")
    BY <1>23, NoOpAt DEF FlushCleanEffect
  <2>2. \A q \in Pages : Replaced(q) => Replaced(q)'
    BY <2>1, ReplacedStays, NotReplaced
  <2> QED  BY <2>1, <2>2, OnDiskStays
<1>24. ASSUME NEW t \in Threads, FlushUndirtyEffect(t) PROVE OnDisk'
  <2>1. /\ UNCHANGED <<pageTable, use, disk, content, freeFrames>> /\ raced \subseteq raced' /\ Stepped(t)
        /\ op[t].at \notin {"install", "pick"} \/ (op[t].at = "install" /\ op[t].why = "fetch")
    BY <1>24, NoOpAt DEF FlushUndirtyEffect
  <2>2. \A q \in Pages : Replaced(q) => Replaced(q)'
    BY <2>1, ReplacedStays, NotReplaced
  <2> QED  BY <2>1, <2>2, OnDiskStays
<1>25. CASE UNCHANGED vars
  BY <1>25 DEF vars, poolVars, fileVars, history, OnDisk, Latest, Replaced, At
<1> QED
  BY <1>1, <1>2, <1>3, <1>4, <1>5, <1>6, <1>7, <1>8, <1>9, <1>10, <1>11, <1>12, <1>13, <1>14, <1>15, <1>16,
     <1>17, <1>18, <1>19, <1>20, <1>21, <1>22, <1>23, <1>24, <1>25
  DEF Effect

-----------------------------------------------------------------------------
(* Victims, and what guards read *)

\* What the holder of the lock knows of its victim is changed by nobody else.
LEMMA VictimStays ==
    ASSUME Safety, Victim, NEW t \in Threads, Stepped(t), op'[t].at \notin {"evict", "reset"},
           pageTable' = pageTable, raced \subseteq raced',
           \A f \in Frames : frame'[f].page = frame[f].page /\ Pins(f)' \subseteq Pins(f),
           \A f \in Frames : Sound(f)' /\ Pins(f) = {} /\ disk[frame[f].page] = Latest(frame[f].page)
                             => disk'[frame[f].page] = [page |-> frame[f].page, changes |-> content'[frame[f].page]]
    PROVE  Victim'
<1> SUFFICES ASSUME NEW u \in Threads, op'[u].at \in {"evict", "reset"} PROVE VictimAt(u)'
  BY DEF Victim, VictimAt
<1>1. op'[u] = op[u] /\ VictimAt(u) /\ op[u].fid \in Frames
  BY DEF Stepped, Victim, Safety, Placed, PlacedAt
<1>2. ASSUME NEW f \in Frames, op[u].fid = f PROVE VictimAt(u)'
  <2>1. Sound(f)' => Sound(f)
    BY DEF Sound
  <2>2. Latest(frame[f].page)' = [page |-> frame[f].page, changes |-> content'[frame[f].page]]
    BY DEF Latest
  <2>3. op'[u].fid = f /\ frame'[f].page = frame[f].page /\ Pins(f)' \subseteq Pins(f)
    BY <1>1, <1>2
  <2>4. ASSUME pageTable'[op'[u].page] = NoFrame, Sound(f)'
        PROVE  /\ Pins(f)' = {}
               /\ op'[u].at = "reset" => disk'[frame'[f].page] = Latest(frame[f].page)'
    <3>1. Pins(f) = {} /\ (op[u].at = "reset" => disk[frame[f].page] = Latest(frame[f].page))
      BY <1>1, <1>2, <2>1, <2>4 DEF VictimAt
    <3> QED  BY <1>1, <2>2, <2>3, <2>4, <3>1
  <2> DEFINE V(h) == op'[u].at \in {"evict", "reset"} /\ pageTable'[op'[u].page] = NoFrame /\ Sound(h)' =>
                        /\ Pins(h)' = {}
                        /\ op'[u].at = "reset" => disk'[frame'[h].page] = Latest(frame[h].page)'
  <2>5. V(f)
    BY <2>4
  <2> QED  BY <2>3, <2>5 DEF VictimAt, Sound, Pins, Users, Latest
<1> QED  BY <1>1, <1>2

\* A step of the holder of the lock concerns no other.
LEMMA VictimAlone ==
    ASSUME Safety, NEW t \in Threads, Stepped(t), op[t].at \in Locking \/ TableFree, VictimAt(t)'
    PROVE  Victim'
<1> SUFFICES ASSUME NEW u \in Threads, u # t PROVE VictimAt(u)'
  BY DEF Victim
<1>1. op'[u] = op[u] /\ op[u].at \notin Locking
  BY DEF Stepped, Safety, Exclusive, TableFree, Locking
<1> QED  BY <1>1 DEF VictimAt, Locking

\* Every step keeps what is known of a victim.
LEMMA VictimKept == IInv /\ Effect => Victim'
<1> SUFFICES ASSUME IInv, Effect PROVE Victim'
  OBVIOUS
<1> USE DEF IInv, Owned
<1>1. ASSUME NEW t \in Threads, NEW p \in Pages, HitEffect(t, p) PROVE Victim'
  <2>1. Stepped(t) /\ (op[t].at \in Locking \/ TableFree) /\ op'[t].at \notin {"evict", "reset"}
    BY <1>1, NoOpAt DEF HitEffect, Locking
  <2>2. VictimAt(t)'
    BY <2>1 DEF VictimAt
  <2> QED  BY <2>1, <2>2, VictimAlone
<1>2. ASSUME NEW t \in Threads, NEW p \in Pages, MissEffect(t, p) PROVE Victim'
  <2>1. /\ Stepped(t) /\ op'[t].at \notin {"evict", "reset"} /\ pageTable' = pageTable
        /\ raced \subseteq raced' /\ UNCHANGED <<disk, content>>
    BY <1>2, NoOpAt DEF MissEffect
  <2>2. \A f \in Frames : frame'[f].page = frame[f].page
    BY <1>2 DEF MissEffect, Framed
  <2>3. \A f \in Frames : Pins(f)' \subseteq Pins(f)
    BY <1>2 DEF MissEffect, Pins, Users
  <2> QED  BY <2>1, <2>2, <2>3, VictimStays DEF Latest
<1>3. ASSUME NEW t \in Threads, NEW p \in Pages, SlowEffect(t, p) PROVE Victim'
  <2>1. Stepped(t) /\ (op[t].at \in Locking \/ TableFree) /\ op'[t].at \notin {"evict", "reset"}
    BY <1>3, NoOpAt DEF SlowEffect, Locking
  <2>2. VictimAt(t)'
    BY <2>1 DEF VictimAt
  <2> QED  BY <2>1, <2>2, VictimAlone
<1>4. ASSUME NEW t \in Threads, NEW p \in Pages, RecycleEffect(t, p) PROVE Victim'
  <2>1. UNCHANGED <<frame, guard, stale, op, disk, content, raced, pageTable>>
    BY <1>4 DEF RecycleEffect
  <2> QED  BY <2>1 DEF Victim, VictimAt, Sound, Latest, Pins, Users
<1>5. ASSUME NEW t \in Threads, NEW p \in Pages, FreshEffect(t, p) PROVE Victim'
  <2>1. /\ Stepped(t) /\ op'[t].at = "miss" /\ disk[p].page = NoPage /\ disk' = [disk EXCEPT ![p] = Blank(p)]
        /\ UNCHANGED <<pageTable, raced, content, frame, guard, stale>>
    BY <1>5 DEF FreshEffect
  <2>2. \A f \in Frames : Pins(f)' \subseteq Pins(f)
    BY <2>1 DEF Pins, Users
  <2>3. ASSUME NEW f \in Frames, Sound(f)', disk[frame[f].page] = Latest(frame[f].page)
        PROVE  disk'[frame[f].page] = [page |-> frame[f].page, changes |-> content'[frame[f].page]]
    <3>1. frame[f].page # NoPage
      BY <2>1, <2>3 DEF Sound
    <3>2. disk[frame[f].page].page # NoPage
      BY <2>3, <3>1 DEF Latest
    <3>3. disk'[frame[f].page] = disk[frame[f].page]
      BY <2>1, <3>2 DEF Safety, TypeOK
    <3> QED  BY <2>1, <2>3, <3>3 DEF Latest
  <2>4. op'[t].at \notin {"evict", "reset"} /\ raced \subseteq raced' /\ \A f \in Frames : frame'[f].page = frame[f].page
    BY <2>1
  <2> QED  BY <2>1, <2>2, <2>3, <2>4, VictimStays
<1>6. ASSUME NEW t \in Threads, NEW p \in Pages, NewSlowEffect(t, p) PROVE Victim'
  <2>1. /\ Stepped(t) /\ TableFree /\ op'[t].page = p /\ pageTable' = pageTable
        /\ op'[t].at = "pick" \/ (op'[t].at = "evict" /\ pageTable[p] \in Frames)
    BY <1>6 DEF NewSlowEffect
  <2>2. pageTable[p] \in Frames => pageTable[p] # NoFrame
    BY PoolAssumption DEF Frames, NoFrame
  <2>3. VictimAt(t)'
    BY <2>1, <2>2 DEF VictimAt
  <2> QED  BY <2>1, <2>3, VictimAlone
<1>7. ASSUME NEW t \in Threads, RecycledEffect(t) PROVE Victim'
  <2>1. /\ Stepped(t) /\ op'[t].at \notin {"evict", "reset"} /\ pageTable' = pageTable
        /\ raced \subseteq raced' /\ UNCHANGED <<disk, content>>
    BY <1>7, NoOpAt DEF RecycledEffect
  <2>2. \A f \in Frames : frame'[f].page = frame[f].page
    BY <1>7 DEF RecycledEffect, Framed
  <2>3. \A f \in Frames : Pins(f)' \subseteq Pins(f)
    BY <1>7 DEF RecycledEffect, Pins, Users
  <2> QED  BY <2>1, <2>2, <2>3, VictimStays DEF Latest
<1>8. ASSUME NEW t \in Threads, PickEffect(t) PROVE Victim'
  <2>1. Stepped(t) /\ (op[t].at \in Locking \/ TableFree) /\ op'[t].at \notin {"evict", "reset"}
    BY <1>8, NoOpAt DEF PickEffect, Locking
  <2>2. VictimAt(t)'
    BY <2>1 DEF VictimAt
  <2> QED  BY <2>1, <2>2, VictimAlone
<1>9. ASSUME NEW t \in Threads, SweepEffect(t) PROVE Victim'
  <2>1. /\ Stepped(t) /\ op[t].at \in Locking /\ arm \in Frames /\ UNCHANGED <<guard, stale, raced>>
        /\ op'[t].at = "sweep" \/ (op'[t].at = "evict" /\ op'[t].fid = arm /\ frame[arm].pin = 0 /\ frame' = frame)
    BY <1>9 DEF SweepEffect, Locking
  <2>2. CASE op'[t].at = "sweep"
    <3>1. VictimAt(t)'
      BY <2>2 DEF VictimAt
    <3> QED  BY <2>1, <3>1, VictimAlone
  <2>3. CASE op'[t].at = "evict" /\ op'[t].fid = arm /\ frame[arm].pin = 0 /\ frame' = frame
    <3>1. ASSUME NEW f \in Frames, f = arm PROVE VictimAt(t)'
      <4>1. Sound(f)' => Sound(f)
        BY <2>1, <2>3 DEF Sound
      <4>2. Sound(f) => Pins(f) = {}
        <5>1. Sound(f) => Cardinality(Pins(f)) = 0
          BY <2>3, <3>1 DEF Guarded
        <5> QED  BY <5>1, PinsFacts
      <4>3. Pins(f)' = Pins(f)
        BY <2>1 DEF Pins, Users
      <4>4. op'[t].fid = f /\ op'[t].at # "reset"
        BY <2>3, <3>1
      <4> QED  BY <4>1, <4>2, <4>3, <4>4 DEF VictimAt, Sound, Pins, Users
    <3>2. VictimAt(t)'
      BY <2>1, <3>1
    <3> QED  BY <2>1, <3>2, VictimAlone
  <2> QED  BY <2>1, <2>2, <2>3
<1>10. ASSUME NEW t \in Threads, ExhaustedEffect(t) PROVE Victim'
  <2>1. Stepped(t) /\ (op[t].at \in Locking \/ TableFree) /\ op'[t].at \notin {"evict", "reset"}
    BY <1>10, NoOpAt DEF ExhaustedEffect, Locking
  <2>2. VictimAt(t)'
    BY <2>1 DEF VictimAt
  <2> QED  BY <2>1, <2>2, VictimAlone
<1>11. ASSUME NEW t \in Threads, EvictWriteEffect(t) PROVE Victim'
  <2>1. /\ Stepped(t) /\ op[t].at = "evict" /\ op[t].at \in Locking /\ op[t].fid \in Frames /\ op'[t].at = "reset"
        /\ op'[t].page = op[t].page /\ op'[t].fid = op[t].fid
        /\ UNCHANGED <<frame, pageTable, content, raced, guard, stale>>
    BY <1>11 DEF EvictWriteEffect, Locking
  <2>2. ASSUME NEW f \in Frames, op[t].fid = f PROVE VictimAt(t)'
    <3>1. \/ frame[f].page \in Pages /\ disk' = [disk EXCEPT ![frame[f].page] = frame[f].image]
          \/ (frame[f].page = NoPage \/ ~frame[f].dirty) /\ disk' = disk
      BY <1>11, <2>2 DEF EvictWriteEffect
    <3>2. Pins(f)' = Pins(f) /\ (Sound(f)' => Sound(f)) /\ Latest(frame[f].page)' = Latest(frame[f].page)
      BY <2>1 DEF Pins, Users, Sound, Latest
    <3>3. pageTable[op[t].page] = NoFrame /\ Sound(f) => Pins(f) = {}
      BY <2>1, <2>2 DEF Victim, VictimAt
    <3>4. Sound(f) /\ Pins(f) = {} => disk'[frame[f].page] = Latest(frame[f].page)
      <4> SUFFICES ASSUME Sound(f), Pins(f) = {} PROVE disk'[frame[f].page] = Latest(frame[f].page)
        OBVIOUS
      <4>1. ~WillMark(f)
        BY DEF WillMark, Pins
      <4>2. frame[f].image = Latest(frame[f].page) /\ (~frame[f].dirty => disk[frame[f].page] = Latest(frame[f].page))
        BY <4>1 DEF Current
      <4>3. frame[f].page # NoPage
        BY DEF Sound
      <4> QED  BY <3>1, <4>2, <4>3 DEF Safety, TypeOK
    <3>5. op'[t].fid = f /\ frame' = frame /\ op'[t].page = op[t].page /\ pageTable' = pageTable
      BY <2>1, <2>2
    <3> DEFINE V(h) == pageTable'[op'[t].page] = NoFrame /\ Sound(h)' =>
                          Pins(h)' = {} /\ disk'[frame'[h].page] = Latest(frame[h].page)'
    <3>6. V(f)
      BY <3>2, <3>3, <3>4, <3>5
    <3> QED  BY <2>1, <3>5, <3>6 DEF VictimAt, Sound, Pins, Users, Latest
  <2>3. VictimAt(t)'
    BY <2>1, <2>2
  <2> QED  BY <2>1, <2>3, VictimAlone
<1>12. ASSUME NEW t \in Threads, EvictResetEffect(t) PROVE Victim'
  <2>1. Stepped(t) /\ (op[t].at \in Locking \/ TableFree) /\ op'[t].at \notin {"evict", "reset"}
    BY <1>12, NoOpAt DEF EvictResetEffect, Locking
  <2>2. VictimAt(t)'
    BY <2>1 DEF VictimAt
  <2> QED  BY <2>1, <2>2, VictimAlone
<1>13. ASSUME NEW t \in Threads, InstallEffect(t) PROVE Victim'
  <2>1. Stepped(t) /\ (op[t].at \in Locking \/ TableFree) /\ op'[t].at \notin {"evict", "reset"}
    BY <1>13, NoOpAt DEF InstallEffect, Locking
  <2>2. VictimAt(t)'
    BY <2>1 DEF VictimAt
  <2> QED  BY <2>1, <2>2, VictimAlone
<1>14. ASSUME NEW t \in Threads, IoErrorEffect(t) PROVE Victim'
  <2>1. /\ Stepped(t) /\ op'[t].at \notin {"evict", "reset"} /\ pageTable' = pageTable
        /\ raced \subseteq raced' /\ UNCHANGED <<disk, content>>
    BY <1>14, NoOpAt DEF IoErrorEffect
  <2>2. \A f \in Frames : frame'[f].page = frame[f].page
    BY <1>14 DEF IoErrorEffect, Framed
  <2>3. \A f \in Frames : Pins(f)' \subseteq Pins(f)
    BY <1>14 DEF IoErrorEffect, Pins, Users
  <2> QED  BY <2>1, <2>2, <2>3, VictimStays DEF Latest
<1>15. ASSUME NEW t \in Threads, WriteEffect(t) PROVE Victim'
  <2> DEFINE n == lsn'
             q == guard[t].page
  <2>1. /\ Holding(t) /\ op' = op /\ op[t] = NoOp /\ Handed(t) /\ guard'[t].fid = guard[t].fid /\ stale' = stale
        /\ UNCHANGED <<pageTable, disk>> /\ raced \subseteq raced'
        /\ \/ content' = content
           \/ t \notin stale /\ content' = [content EXCEPT ![q] = @ \cup {n}]
        /\ \A f \in Frames : frame'[f].page = frame[f].page
    BY <1>15 DEF WriteEffect, Framed
  <2>2. Stepped(t) /\ op'[t].at \notin {"evict", "reset"}
    BY <2>1, NoOpAt DEF Stepped, Safety, TypeOK
  <2>3. \A f \in Frames : Pins(f)' \subseteq Pins(f)
    BY <2>1 DEF Pins, Users, Handed
  <2> HIDE DEF n, q
  <2>4. ASSUME NEW f \in Frames, Sound(f)', Pins(f) = {}, disk[frame[f].page] = Latest(frame[f].page)
        PROVE  disk'[frame[f].page] = [page |-> frame[f].page, changes |-> content'[frame[f].page]]
    <3>1. t \notin stale => frame[f].page # q
      <4> SUFFICES ASSUME t \notin stale, frame[f].page = q PROVE FALSE
        OBVIOUS
      <4>1. guard[t].fid \in Frames /\ frame[guard[t].fid].page = q /\ q # NoPage
        BY <2>1, GuardMapped DEF Owned, q
      <4>2. guard[t].fid = f
        BY <4>1, OneFrame DEF Owned
      <4> QED  BY <2>4, <4>2 DEF Pins, Users
    <3>2. content'[frame[f].page] = content[frame[f].page]
      <4>1. frame[f] \in Frame
        BY DEF Safety, TypeOK
      <4>2. frame[f].page \in Pages
        BY <2>1, <2>4, <4>1 DEF Frame, Sound
      <4> QED  BY <2>1, <3>1, <4>2 DEF Safety, TypeOK
    <3> QED  BY <2>1, <2>4, <3>2 DEF Latest
  <2> QED  BY <2>1, <2>2, <2>3, <2>4, VictimStays
<1>16. ASSUME NEW t \in Threads, ReleaseEffect(t) PROVE Victim'
  <2>1. /\ Stepped(t) /\ op'[t].at \notin {"evict", "reset"} /\ pageTable' = pageTable
        /\ raced \subseteq raced' /\ UNCHANGED <<disk, content>>
    BY <1>16, NoOpAt DEF ReleaseEffect
  <2>2. \A f \in Frames : frame'[f].page = frame[f].page
    BY <1>16 DEF ReleaseEffect, Framed
  <2>3. \A f \in Frames : Pins(f)' \subseteq Pins(f)
    <3>1. NoGuard.fid = NoFrame /\ \A f \in Frames : f # NoFrame
      BY PoolAssumption DEF NoGuard, Frames, NoFrame
    <3>2. (guard' = guard /\ stale' = stale) \/ (guard'[t] = NoGuard /\ stale' = stale \ {t})
      BY <1>16 DEF ReleaseEffect
    <3>3. \A u \in Threads : u # t => guard'[u] = guard[u]
      BY <1>16 DEF ReleaseEffect, Handed
    <3> QED  BY <3>1, <3>2, <3>3 DEF Pins, Users
  <2> QED  BY <2>1, <2>2, <2>3, VictimStays DEF Latest
<1>17. ASSUME NEW t \in Threads, NoteDirtyEffect(t) PROVE Victim'
  <2>1. /\ Stepped(t) /\ op'[t].at \notin {"evict", "reset"} /\ pageTable' = pageTable
        /\ raced \subseteq raced' /\ UNCHANGED <<disk, content>>
    BY <1>17, NoOpAt DEF NoteDirtyEffect
  <2>2. \A f \in Frames : frame'[f].page = frame[f].page
    BY <1>17 DEF NoteDirtyEffect, Framed
  <2>3. \A f \in Frames : Pins(f)' \subseteq Pins(f)
    BY <1>17 DEF NoteDirtyEffect, Pins, Users
  <2> QED  BY <2>1, <2>2, <2>3, VictimStays DEF Latest
<1>18. ASSUME NEW t \in Threads, UnpinEffect(t) PROVE Victim'
  <2>1. /\ Stepped(t) /\ op'[t].at \notin {"evict", "reset"} /\ pageTable' = pageTable
        /\ raced \subseteq raced' /\ UNCHANGED <<disk, content>>
    BY <1>18, NoOpAt DEF UnpinEffect
  <2>2. \A f \in Frames : frame'[f].page = frame[f].page
    BY <1>18 DEF UnpinEffect, Framed
  <2>3. \A f \in Frames : Pins(f)' \subseteq Pins(f)
    <3>1. NoGuard.fid = NoFrame /\ \A f \in Frames : f # NoFrame
      BY PoolAssumption DEF NoGuard, Frames, NoFrame
    <3>2. (guard' = guard /\ stale' = stale) \/ (guard'[t] = NoGuard /\ stale' = stale \ {t})
      BY <1>18 DEF UnpinEffect
    <3>3. \A u \in Threads : u # t => guard'[u] = guard[u]
      BY <1>18 DEF UnpinEffect, Handed
    <3> QED  BY <3>1, <3>2, <3>3 DEF Pins, Users
  <2> QED  BY <2>1, <2>2, <2>3, VictimStays DEF Latest
<1>19. ASSUME NEW t \in Threads, FlushAllEffect(t) PROVE Victim'
  <2>1. /\ Stepped(t) /\ op'[t].at \notin {"evict", "reset"} /\ pageTable' = pageTable
        /\ raced \subseteq raced' /\ UNCHANGED <<disk, content>>
    BY <1>19, NoOpAt DEF FlushAllEffect
  <2>2. \A f \in Frames : frame'[f].page = frame[f].page
    BY <1>19 DEF FlushAllEffect, Framed
  <2>3. \A f \in Frames : Pins(f)' \subseteq Pins(f)
    BY <1>19 DEF FlushAllEffect, Pins, Users
  <2> QED  BY <2>1, <2>2, <2>3, VictimStays DEF Latest
<1>20. ASSUME NEW t \in Threads, ScanFrameEffect(t) PROVE Victim'
  <2>1. /\ Stepped(t) /\ op'[t].at \notin {"evict", "reset"} /\ pageTable' = pageTable
        /\ raced \subseteq raced' /\ UNCHANGED <<disk, content>>
    BY <1>20, NoOpAt DEF ScanFrameEffect
  <2>2. \A f \in Frames : frame'[f].page = frame[f].page
    BY <1>20 DEF ScanFrameEffect, Framed
  <2>3. \A f \in Frames : Pins(f)' \subseteq Pins(f)
    BY <1>20 DEF ScanFrameEffect, Pins, Users
  <2> QED  BY <2>1, <2>2, <2>3, VictimStays DEF Latest
<1>21. ASSUME NEW t \in Threads, ScanEndEffect(t) PROVE Victim'
  <2>1. /\ Stepped(t) /\ op'[t].at \notin {"evict", "reset"} /\ pageTable' = pageTable
        /\ raced \subseteq raced' /\ UNCHANGED <<disk, content>>
    BY <1>21, NoOpAt DEF ScanEndEffect
  <2>2. \A f \in Frames : frame'[f].page = frame[f].page
    BY <1>21 DEF ScanEndEffect, Framed
  <2>3. \A f \in Frames : Pins(f)' \subseteq Pins(f)
    BY <1>21 DEF ScanEndEffect, Pins, Users
  <2> QED  BY <2>1, <2>2, <2>3, VictimStays DEF Latest
<1>22. ASSUME NEW t \in Threads, FlushWriteEffect(t) PROVE Victim'
  <2> DEFINE g == op[t].fid
             p == op[t].page
  <2>1. /\ p \in Pages /\ Stepped(t) /\ op'[t].at = "clean" /\ disk' = [disk EXCEPT ![p] = frame[g].image]
        /\ raced' = IF frame[g].image = Latest(p) THEN raced ELSE raced \cup {p}
        /\ UNCHANGED <<pageTable, content, frame, guard, stale>>
    BY <1>22 DEF FlushWriteEffect
  <2> HIDE DEF g, p
  <2>2. \A f \in Frames : Pins(f)' \subseteq Pins(f)
    BY <2>1 DEF Pins, Users
  <2>3. ASSUME NEW f \in Frames, Sound(f)', disk[frame[f].page] = Latest(frame[f].page)
        PROVE  disk'[frame[f].page] = [page |-> frame[f].page, changes |-> content'[frame[f].page]]
    <3>1. frame[f].page \notin raced'
      BY <2>1, <2>3 DEF Sound
    <3>2. disk'[frame[f].page] = Latest(frame[f].page)
      BY <2>1, <2>3, <3>1 DEF Safety, TypeOK
    <3> QED  BY <2>1, <3>2 DEF Latest
  <2>4. /\ op'[t].at \notin {"evict", "reset"} /\ raced \subseteq raced'
        /\ \A f \in Frames : frame'[f].page = frame[f].page
    BY <2>1
  <2> QED  BY <2>1, <2>2, <2>3, <2>4, VictimStays
<1>23. ASSUME NEW t \in Threads, FlushCleanEffect(t) PROVE Victim'
  <2>1. /\ Stepped(t) /\ op'[t].at \notin {"evict", "reset"} /\ pageTable' = pageTable
        /\ raced \subseteq raced' /\ UNCHANGED <<disk, content>>
    BY <1>23, NoOpAt DEF FlushCleanEffect
  <2>2. \A f \in Frames : frame'[f].page = frame[f].page
    BY <1>23 DEF FlushCleanEffect, Framed
  <2>3. \A f \in Frames : Pins(f)' \subseteq Pins(f)
    BY <1>23 DEF FlushCleanEffect, Pins, Users
  <2> QED  BY <2>1, <2>2, <2>3, VictimStays DEF Latest
<1>24. ASSUME NEW t \in Threads, FlushUndirtyEffect(t) PROVE Victim'
  <2>1. /\ Stepped(t) /\ op'[t].at \notin {"evict", "reset"} /\ pageTable' = pageTable
        /\ raced \subseteq raced' /\ UNCHANGED <<disk, content>>
    BY <1>24, NoOpAt DEF FlushUndirtyEffect
  <2>2. \A f \in Frames : frame'[f].page = frame[f].page
    BY <1>24 DEF FlushUndirtyEffect, Framed
  <2>3. \A f \in Frames : Pins(f)' \subseteq Pins(f)
    BY <1>24 DEF FlushUndirtyEffect, Pins, Users
  <2> QED  BY <2>1, <2>2, <2>3, VictimStays DEF Latest
<1>25. CASE UNCHANGED vars
  <2>1. UNCHANGED <<frame, guard, stale, op, disk, content, raced, pageTable>>
    BY <1>25 DEF vars, poolVars, fileVars, history
  <2> QED  BY <2>1 DEF Victim, VictimAt, Sound, Latest, Pins, Users
<1> QED
  BY <1>1, <1>2, <1>3, <1>4, <1>5, <1>6, <1>7, <1>8, <1>9, <1>10, <1>11, <1>12, <1>13, <1>14, <1>15, <1>16,
     <1>17, <1>18, <1>19, <1>20, <1>21, <1>22, <1>23, <1>24, <1>25
  DEF Effect

\* IInv is an invariant of the pool.
THEOREM Invariance == Spec => []IInv
<1>1. Init => IInv
  <2> SUFFICES ASSUME Init PROVE IInv
    OBVIOUS
  <2>1. Owned
    BY InitOwned
  <2>2. /\ \A t \in Threads : op[t].at = "none" /\ ~Holding(t)
        /\ \A f \in Frames : frame[f].page = NoPage
        /\ \A p \in Pages : use[p] = "none"
    BY NoOpAt DEF Init, Holding
  <2>3. Guarded /\ Current /\ OnDisk
    BY <2>2 DEF Guarded, Current, OnDisk, Sound
  <2>4. Victim
    BY <2>2 DEF Victim, VictimAt
  <2> QED  BY <2>1, <2>3, <2>4 DEF IInv
<1>2. IInv /\ [Next]_vars => IInv'
  <2> SUFFICES ASSUME IInv, [Next]_vars PROVE IInv'
    OBVIOUS
  <2>1. Owned /\ Guarded /\ Safety
    BY DEF IInv, Owned
  <2>2. Owned' /\ Effect
    BY <2>1, OwnedKept, StepHasEffect
  <2>3. Guarded' /\ Current' /\ OnDisk' /\ Victim'
    BY <2>1, <2>2, GuardedKept, CurrentKept, OnDiskKept, VictimKept
  <2> QED  BY <2>2, <2>3 DEF IInv
<1> QED  BY <1>1, <1>2, PTL DEF Spec

\* A guard that was not evicted under its thread shows the latest content of its page,
\* however fetch_page, new_page, release, flush_all and the clock interleave and whichever of
\* their reads and writes fail, but for the pages hit by flush_all's races or a stale guard.
THEOREM GuardsReadLatest == Spec => []ReadsLatest
<1>1. IInv => ReadsLatest
  <2> SUFFICES ASSUME IInv, NEW t \in Threads, Holding(t), t \notin stale, guard[t].page \notin raced
               PROVE  /\ frame[guard[t].fid].page = guard[t].page
                      /\ frame[guard[t].fid].image = [page |-> guard[t].page, changes |-> content[guard[t].page]]
    BY DEF ReadsLatest
  <2>1. guard[t].fid \in Frames /\ frame[guard[t].fid].page = guard[t].page /\ guard[t].page # NoPage
    BY GuardMapped DEF IInv
  <2>2. Sound(guard[t].fid)
    BY <2>1 DEF Sound
  <2> QED  BY <2>1, <2>2 DEF IInv, Current, Latest
<1> QED  BY <1>1, Invariance, PTL

=============================================================================
