------------------------------- MODULE BTree -------------------------------
(***************************************************************************)
(* The B+tree of src/btree.rs under concurrent sessions, with the root's   *)
(* row in pg_index (update_index_root in src/executor.rs) and the catalog  *)
(* cache that remembers it (src/catalog.rs).  A step is what happens under *)
(* one page latch: insert_recursive drops the latch of a node before it    *)
(* visits the child and takes it again to post a split, so sessions        *)
(* interleave between any two nodes.                                       *)
(*                                                                         *)
(* Keys are numbers and an entry is <<key, rid>> on a leaf, <<key, child>> *)
(* on an internal node; every entry has the same size, so a node is full   *)
(* at Cap entries.  Pages are numbered in the order they are allocated.    *)
(***************************************************************************)
EXTENDS Integers, Sequences, FiniteSets, SequencesExt

CONSTANTS Writers,     \* sessions that insert, and VACUUMs that delete
          Cap,         \* entries that fit on a node
          Workloads    \* the calls of a behaviour, see Init

VARIABLES node,      \* node[p]: the node on page p
          root,      \* root_page_id in the live pg_index row, NoPage while there is none
          rowsLeft,  \* pg_index rows that still fit on its head page
          cached,    \* the root in CatalogCache.indexes_by_table, or NotCached
          writer,    \* writer[w]: the insert() or delete() of session w
          scan,      \* one IndexScan
          sweep,     \* one sweep_empty_leaves
          todo,      \* todo[op]: calls of each kind still to be made
          exposed,   \* history: what has happened that can hide entries
          cutOff     \* history: the leaves that a sweep took off the chain

vars == <<node, root, rowsLeft, cached, writer, scan, sweep, todo, exposed, cutOff>>

ASSUME CapAssumption == Cap \in Nat \ {0, 1}

NoPage    == 0
NotCached == -1
FirstLeaf == 1
LiveRid   == 9     \* the version VACUUM re-aims an entry at

Leaf(next, es) == [kind |-> "leaf", next |-> next, ents |-> es]

\* next_page_id of an internal node is its leftmost child p0.
Internal(p0, es) == [kind |-> "internal", next |-> p0, ents |-> es]

Pages == DOMAIN node

----------------------------------------------------------------------------
(* Searching and changing one node.                                        *)

\* compare_keys, on decoded keys of one totally ordered type (so neither an
\* interval, which it rejects, nor a NaN, which it takes for equal to all).
KeyLe(a, b) == a <= b

\* rightmost_le: entries up to the first one whose key is greater; 0 is None.
RightmostLe(es, k) == Max({i \in 0..Len(es) : \A j \in 1..i : KeyLe(es[j][1], k)})

Child(n, k) == LET i == RightmostLe(n.ents, k)
               IN IF i = 0 THEN n.next ELSE n.ents[i][2]

InsertSorted(es, e) == InsertAt(es, RightmostLe(es, e[1]) + 1, e)

Fits(es) == Len(es) < Cap

\* entries[..mid] stay, entries[mid..] move; the separator is entries[mid].
Middle(es) == Len(es) \div 2

\* Defect: the right half starts one entry late.
Bad_LeafHalves(es) == <<SubSeq(es, 1, Middle(es)), SubSeq(es, Middle(es) + 2, Len(es))>>

LeafHalves(es) == <<SubSeq(es, 1, Middle(es)), SubSeq(es, Middle(es) + 1, Len(es))>>

\* The promoted entry stays on neither side: its child is the right node's p0.
InternalHalves(es) == <<SubSeq(es, 1, Middle(es)), SubSeq(es, Middle(es) + 2, Len(es))>>

\* Defect: the last key of the left half.
Bad_Separator(es) == es[Middle(es)][1]

Separator(es) == es[Middle(es) + 1][1]

\* Equal keys on both sides of a separator.
Straddles(es) == es[Middle(es)][1] = es[Middle(es) + 1][1]

----------------------------------------------------------------------------
(* What the tree holds, and what a lookup at rest would find.              *)

\* The entries of the leaf chain from leaf p on.
ChainFrom(p) ==
  LET chain[q \in Pages \cup {NoPage}] ==
        IF q = NoPage THEN <<>> ELSE node[q].ents \o chain[node[q].next]
  IN chain[p]

Entries == UNION {ToSet(ChainFrom(p)) : p \in {FirstLeaf} \cup cutOff}

\* descend_to_leaf.
DescendToLeaf(from, k) ==
  LET down[p \in Pages] == IF node[p].kind = "leaf" THEN p ELSE down[Child(node[p], k)]
  IN down[from]

\* IndexScan over Eq(k): first_ge, then read_at up to the first other key.
LookupEq(from, k) ==
  LET es    == ChainFrom(DescendToLeaf(from, k))
      start == {i \in 1..Len(es) : es[i][1] >= k /\ \A j \in 1..(i - 1) : es[j][1] < k}
  IN {es[i] : i \in {i \in 1..Len(es) : \E f \in start :
                       i >= f /\ \A j \in f..i : es[j][1] = k}}

----------------------------------------------------------------------------
(* CREATE INDEX: bulk_build_btree over the sorted entries of the table.    *)

\* Split into runs of at most n elements, in order.
Packed(es, n) == [i \in 1..((Len(es) + n - 1) \div n) |->
                    SubSeq(es, (i - 1) * n + 1, IF i * n < Len(es) THEN i * n ELSE Len(es))]

\* One internal level over the last built one: level is a sequence of
\* <<first key, page>>; a node takes p0 and up to Cap further children.
BuildLevel(pages, level) ==
  LET groups == Packed(level, Cap + 1)
  IN [pages |-> pages \o [i \in 1..Len(groups) |-> Internal(groups[i][1][2], Tail(groups[i]))],
      level |-> [i \in 1..Len(groups) |-> <<groups[i][1][1], Len(pages) + i>>]]

BulkBuild(es) ==
  LET packs == Packed(es, Cap)
      leaves == [i \in 1..Len(packs) |-> Leaf(IF i = Len(packs) THEN NoPage ELSE i + 1, packs[i])]
      build[i \in 0..Len(packs)] ==
        IF i = 0 THEN [pages |-> leaves, level |-> [j \in 1..Len(packs) |-> <<packs[j][1][1], j>>]]
        ELSE IF Len(build[i - 1].level) = 1 THEN build[i - 1]
        ELSE BuildLevel(build[i - 1].pages, build[i - 1].level)
  IN IF es = <<>> THEN <<Leaf(NoPage, <<>>)>> ELSE build[Len(packs)].pages

Idle == [op |-> "none", phase |-> "idle", root |-> NoPage, at |-> NoPage, path |-> <<>>,
         e |-> <<0, 0>>, up |-> <<0, 0>>, dirty |-> FALSE]

NoScan == [phase |-> "idle", at |-> NoPage, slot |-> 0, lo |-> 0, hi |-> 0,
           want |-> {}, got |-> {}, shifted |-> FALSE]

NoSweep == [phase |-> "idle", prev |-> NoPage, cur |-> NoPage, next |-> NoPage]

\* A workload w: the indexed keys when the index is created (in order), the
\* rows left on the head page of pg_index, and the calls of each kind with
\* the keys that inserts use.
Init == \E w \in Workloads :
  /\ node = BulkBuild([i \in 1..Len(w.keys) |-> <<w.keys[i], 0>>])
  /\ root = Len(node)
  /\ rowsLeft = w.rows
  /\ cached = NotCached
  /\ writer = [x \in Writers |-> Idle]
  /\ scan = NoScan
  /\ sweep = NoSweep
  /\ todo = w.todo
  /\ exposed = {}
  /\ cutOff = {}

----------------------------------------------------------------------------
(* The catalog's answer to "which root?".                                  *)

\* indexes_for_table: from the cache, else from pg_index into the cache.
RootSeen == IF cached = NotCached THEN root ELSE cached

\* Any DDL calls Catalog::invalidate.
Invalidate ==
  /\ todo.ddl > 0
  /\ todo' = [todo EXCEPT !.ddl = @ - 1]
  /\ cached' = NotCached
  /\ UNCHANGED <<node, root, rowsLeft, writer, scan, sweep, exposed, cutOff>>

----------------------------------------------------------------------------
(* insert() and delete().                                                  *)

\* A split is known to the tree once it is posted: until then, and for every
\* call that read nodes before it, the tree is in between.
SplitPending == \E w \in Writers : writer[w].phase \in {"up", "grow", "find", "drop", "put"}

\* Session w takes record r, and if it split a node every other call in
\* progress has overlapped a split.
WriterNow(w, r, splits) ==
  writer' = [x \in Writers |->
               IF x = w THEN r
               ELSE [writer[x] EXCEPT !.dirty = @ \/ (splits /\ writer[x].op # "none")]]

Begin(w, op, e, from) ==
  WriterNow(w, [Idle EXCEPT !.op = op, !.phase = "down", !.root = from, !.at = from, !.e = e,
                            !.dirty = SplitPending], FALSE)

\* index_insert_for_row_with_lm: a table whose index list is empty indexes nothing.
BeginInsert(w) ==
  /\ writer[w].op = "none" /\ todo.inserts # <<>>
  /\ todo' = [todo EXCEPT !.inserts = Tail(@)]
  /\ cached' = RootSeen
  /\ IF RootSeen = NoPage
     THEN /\ exposed' = exposed \cup {"unindexed"}
          /\ UNCHANGED writer
     ELSE /\ Begin(w, "insert", <<Head(todo.inserts), Len(todo.inserts)>>, RootSeen)
          /\ UNCHANGED exposed
  /\ UNCHANGED <<node, root, rowsLeft, scan, sweep, cutOff>>

\* VACUUM drops the entry of a dead row.
BeginDelete(w) ==
  /\ writer[w].op = "none" /\ todo.deletes > 0 /\ RootSeen # NoPage
  /\ todo' = [todo EXCEPT !.deletes = @ - 1]
  /\ cached' = RootSeen
  /\ \E e \in Entries : Begin(w, "delete", e, RootSeen)
  /\ UNCHANGED <<node, root, rowsLeft, scan, sweep, exposed, cutOff>>

Descend(w) ==
  LET s == writer[w]
  IN /\ s.phase = "down" /\ node[s.at].kind = "internal"
     /\ WriterNow(w, [s EXCEPT !.at = Child(node[s.at], s.e[1]), !.path = <<s.at>> \o @], FALSE)
     /\ UNCHANGED <<node, root, rowsLeft, cached, scan, sweep, todo, exposed, cutOff>>

\* The tree that a change to a node by session w relies on is not the current one.
Unsafe(s) == (IF s.root # root THEN {"stale"} ELSE {}) \cup (IF s.dirty THEN {"overlap"} ELSE {})

\* A split goes up: to the parent the descent came from, or to a new root.
GoUp(s, sep, right) ==
  [s EXCEPT !.up = <<sep, right>>,
            !.phase = IF s.path = <<>> THEN "grow" ELSE "up",
            !.at = IF s.path = <<>> THEN NoPage ELSE Head(s.path),
            !.path = IF s.path = <<>> THEN <<>> ELSE Tail(s.path)]

SplitLeaf(p, es) ==
  node' = Append([node EXCEPT ![p] = Leaf(Len(node) + 1, LeafHalves(es)[1])],
                 Leaf(node[p].next, LeafHalves(es)[2]))

InsertLeaf(w) ==
  LET s  == writer[w]
      n  == node[s.at]
      es == InsertSorted(n.ents, s.e)
  IN /\ s.phase = "down" /\ s.op = "insert" /\ n.kind = "leaf"
     /\ IF s.e \in ToSet(n.ents)          \* idempotence check
        THEN WriterNow(w, Idle, FALSE) /\ UNCHANGED <<node, exposed>>
        ELSE IF Fits(n.ents)
        THEN /\ node' = [node EXCEPT ![s.at].ents = es]
             /\ WriterNow(w, Idle, FALSE)
             /\ exposed' = exposed \cup Unsafe(s) \cup (IF s.at \in cutOff THEN {"cutoff"} ELSE {})
        ELSE /\ SplitLeaf(s.at, es)
             /\ WriterNow(w, GoUp(s, Separator(es), Len(node) + 1), TRUE)
             /\ exposed' = exposed \cup Unsafe(s)
                             \cup (IF s.at \in cutOff THEN {"cutoff"} ELSE {})
                             \cup (IF Straddles(es) THEN {"straddle"} ELSE {})
     /\ UNCHANGED <<root, rowsLeft, cached, scan, sweep, todo, cutOff>>

InsertParent(w) ==
  LET s  == writer[w]
      n  == node[s.at]
      es == InsertSorted(n.ents, s.up)
  IN /\ s.phase = "up"
     /\ IF Fits(n.ents)
        THEN /\ node' = [node EXCEPT ![s.at].ents = es]
             /\ WriterNow(w, Idle, FALSE)
        ELSE /\ node' = Append([node EXCEPT ![s.at].ents = InternalHalves(es)[1]],
                               Internal(es[Middle(es) + 1][2], InternalHalves(es)[2]))
             /\ WriterNow(w, GoUp(s, Separator(es), Len(node) + 1), TRUE)
     /\ exposed' = exposed \cup Unsafe(s)
     /\ UNCHANGED <<root, rowsLeft, cached, scan, sweep, todo, cutOff>>

\* insert(): a new root above the old one.
GrowRoot(w) ==
  LET s == writer[w]
  IN /\ s.phase = "grow"
     /\ node' = Append(node, Internal(s.root, <<s.up>>))
     /\ WriterNow(w, [s EXCEPT !.phase = "find", !.at = Len(node) + 1], FALSE)
     /\ UNCHANGED <<root, rowsLeft, cached, scan, sweep, todo, exposed, cutOff>>

\* update_index_root, pass 1: which row is it?  The row is known by its root.
FindRow(w) ==
  LET s == writer[w]
  IN /\ s.phase = "find"
     /\ WriterNow(w, IF root = NoPage THEN Idle ELSE [s EXCEPT !.phase = "drop", !.root = root], FALSE)
     /\ UNCHANGED <<node, root, rowsLeft, cached, scan, sweep, todo, exposed, cutOff>>

\* Pass 2 tombstones the row found, an error if somebody else has.
DropRow(w) ==
  LET s == writer[w]
  IN /\ s.phase = "drop"
     /\ IF root = s.root
        THEN root' = NoPage /\ WriterNow(w, [s EXCEPT !.phase = "put"], FALSE)
        ELSE WriterNow(w, Idle, FALSE) /\ UNCHANGED root
     /\ UNCHANGED <<node, rowsLeft, cached, scan, sweep, todo, exposed, cutOff>>

\* ... and appends the new row to the head page, an error if that is full.
PutRow(w) ==
  LET s == writer[w]
  IN /\ s.phase = "put"
     /\ IF rowsLeft > 0
        THEN root' = s.at /\ rowsLeft' = rowsLeft - 1 /\ UNCHANGED exposed
        ELSE exposed' = exposed \cup {"vanished"} /\ UNCHANGED <<root, rowsLeft>>
     /\ WriterNow(w, Idle, FALSE)
     /\ UNCHANGED <<node, cached, scan, sweep, todo, cutOff>>

\* delete(): the leaf is rebuilt without the entry, so later slots move down.
DeleteLeaf(w) ==
  LET s  == writer[w]
      es == node[s.at].ents
      hit == {i \in 1..Len(es) : es[i] = s.e}
  IN /\ s.phase = "down" /\ s.op = "delete" /\ node[s.at].kind = "leaf"
     /\ WriterNow(w, [s EXCEPT !.phase = "gap"], FALSE)
     /\ IF hit = {} THEN UNCHANGED <<node, scan>>
        ELSE /\ node' = [node EXCEPT ![s.at].ents = RemoveAt(es, Min(hit))]
             /\ scan' = [scan EXCEPT !.want = @ \ {s.e},
                                     !.shifted = @ \/ (scan.at = s.at /\ scan.slot > Min(hit))]
     /\ UNCHANGED <<root, rowsLeft, cached, sweep, todo, exposed, cutOff>>

\* VACUUM may put an entry for the live version of the row in its place,
\* from the root it started with.
Rewire(w) ==
  LET s == writer[w]
  IN /\ s.phase = "gap"
     /\ \/ Begin(w, "insert", <<s.e[1], LiveRid>>, s.root)
        \/ WriterNow(w, Idle, FALSE)
     /\ UNCHANGED <<node, root, rowsLeft, cached, scan, sweep, todo, exposed, cutOff>>

----------------------------------------------------------------------------
(* IndexScan over Between(lo, hi), Eq(k) being Between(k, k).              *)

InRange(k) == scan.lo <= k /\ k <= scan.hi

BeginScan ==
  /\ scan.phase = "idle" /\ todo.scans > 0 /\ RootSeen # NoPage
  /\ todo' = [todo EXCEPT !.scans = @ - 1]
  /\ cached' = RootSeen
  /\ \E lo \in todo.ranges, hi \in todo.ranges :
       /\ lo <= hi
       /\ scan' = [NoScan EXCEPT !.phase = "down", !.at = RootSeen, !.lo = lo, !.hi = hi,
                                 !.want = {e \in Entries : lo <= e[1] /\ e[1] <= hi}]
  /\ UNCHANGED <<node, root, rowsLeft, writer, sweep, exposed, cutOff>>

\* descend_to_leaf, one node.
ScanDown ==
  /\ scan.phase = "down"
  /\ scan' = IF node[scan.at].kind = "internal"
             THEN [scan EXCEPT !.at = Child(node[scan.at], scan.lo)]
             ELSE [scan EXCEPT !.phase = "seek"]
  /\ UNCHANGED <<node, root, rowsLeft, cached, writer, sweep, todo, exposed, cutOff>>

\* first_ge, one leaf.
ScanSeek ==
  LET n  == node[scan.at]
      ge == {i \in 1..Len(n.ents) : n.ents[i][1] >= scan.lo}
  IN /\ scan.phase = "seek"
     /\ scan' = IF ge # {} THEN [scan EXCEPT !.phase = "read", !.slot = Min(ge)]
                ELSE IF n.next = NoPage THEN [scan EXCEPT !.phase = "done"]
                ELSE [scan EXCEPT !.at = n.next]
     /\ UNCHANGED <<node, root, rowsLeft, cached, writer, sweep, todo, exposed, cutOff>>

\* Defect: the cursor skips the first slot of the next leaf.
Bad_NextCursor(n) ==
  IF scan.slot < Len(n.ents) THEN [scan EXCEPT !.slot = @ + 1]
  ELSE IF n.next = NoPage THEN [scan EXCEPT !.phase = "done"]
  ELSE [scan EXCEPT !.at = n.next, !.slot = 2]

\* The cursor after the entry in this slot.
NextCursor(n) ==
  IF scan.slot < Len(n.ents) THEN [scan EXCEPT !.slot = @ + 1]
  ELSE IF n.next = NoPage THEN [scan EXCEPT !.phase = "done"]
  ELSE [scan EXCEPT !.at = n.next, !.slot = 1]

\* read_at, one leaf, and the bound check of IndexScan::next.
ScanRead ==
  LET n == node[scan.at]
  IN /\ scan.phase = "read"
     /\ scan' = IF scan.slot > Len(n.ents)
                THEN IF n.next = NoPage THEN [scan EXCEPT !.phase = "done"]
                     ELSE [scan EXCEPT !.at = n.next, !.slot = 1]
                ELSE IF n.ents[scan.slot][1] > scan.hi THEN [scan EXCEPT !.phase = "done"]
                ELSE [NextCursor(n) EXCEPT !.got = @ \cup {n.ents[scan.slot]}]
     /\ UNCHANGED <<node, root, rowsLeft, cached, writer, sweep, todo, exposed, cutOff>>

ScanEnd ==
  /\ scan.phase = "done"
  /\ scan' = NoScan
  /\ UNCHANGED <<node, root, rowsLeft, cached, writer, sweep, todo, exposed, cutOff>>

----------------------------------------------------------------------------
(* The end of VACUUM: sweep_empty_leaves.                                  *)

BeginSweep ==
  /\ sweep.phase = "idle" /\ todo.sweeps > 0 /\ RootSeen # NoPage
  /\ todo' = [todo EXCEPT !.sweeps = @ - 1]
  /\ cached' = RootSeen
  /\ sweep' = [NoSweep EXCEPT !.phase = "look", !.prev = FirstLeaf, !.cur = node[FirstLeaf].next]
  /\ UNCHANGED <<node, root, rowsLeft, writer, scan, exposed, cutOff>>

\* Reads the next leaf and lets go of it.
SweepLook ==
  /\ sweep.phase = "look"
  /\ sweep' = IF sweep.cur = NoPage THEN NoSweep
              ELSE IF node[sweep.cur].ents = <<>>
              THEN [sweep EXCEPT !.phase = "unlink", !.next = node[sweep.cur].next]
              ELSE [sweep EXCEPT !.prev = sweep.cur, !.cur = node[sweep.cur].next]
  /\ UNCHANGED <<node, root, rowsLeft, cached, writer, scan, todo, exposed, cutOff>>

\* Sets prev's link to what followed the empty leaf when it was read.
SweepUnlink ==
  /\ sweep.phase = "unlink"
  /\ node' = [node EXCEPT ![sweep.prev].next = sweep.next]
  /\ cutOff' = cutOff \cup {node[sweep.prev].next}
  /\ exposed' = exposed \cup (IF ChainFrom(node[sweep.prev].next) # ChainFrom(sweep.next)
                              THEN {"cutoff"} ELSE {})
  /\ sweep' = [sweep EXCEPT !.phase = "look", !.cur = sweep.next]
  /\ UNCHANGED <<root, rowsLeft, cached, writer, scan, todo>>

----------------------------------------------------------------------------
Next ==
  \/ \E w \in Writers :
       \/ BeginInsert(w) \/ BeginDelete(w) \/ Descend(w) \/ InsertLeaf(w) \/ InsertParent(w)
       \/ GrowRoot(w) \/ FindRow(w) \/ DropRow(w) \/ PutRow(w) \/ DeleteLeaf(w) \/ Rewire(w)
  \/ BeginScan \/ ScanDown \/ ScanSeek \/ ScanRead \/ ScanEnd
  \/ BeginSweep \/ SweepLook \/ SweepUnlink
  \/ Invalidate

Spec == Init /\ [][Next]_vars

----------------------------------------------------------------------------
\* The tree implements IndexSpec: whatever splits, root growth, pg_index
\* rewrites and sweeps do, the entries on the leaf chain (and on the leaves a
\* sweep cut off) change by one entry of one call at a time, and no call
\* returns before its entry is in, or out (btree.rs insert, delete).
Abstract == INSTANCE IndexSpec WITH
  EntrySet <- Nat \X Nat,
  entries  <- Entries,
  call     <- [w \in Writers |->
                 IF writer[w].op = "none" THEN [op |-> "none", e |-> <<0, 0>>, took |-> FALSE]
                 ELSE [op |-> writer[w].op, e |-> writer[w].e, took |-> writer[w].phase # "down"]]

RefinesIndexSpec == Abstract!Spec

\* At rest a lookup finds every entry, from the root in pg_index and from a
\* root the catalog cache still remembers: a root that has since been split
\* leads to a leaf left of the entry, and first_ge walks right.  Unless an
\* insertion came through a stale root, overlapped another's split or went
\* to a leaf off the chain; a split separated equal keys; or pg_index was
\* full when the root moved (btree.rs insert_recursive, first_ge;
\* executor.rs update_index_root, sweep_empty_leaves).
LookupFindsAll ==
  (exposed \subseteq {"unindexed"} /\ \A w \in Writers : writer[w].op = "none")
    => \A r \in {root, cached} \ {NoPage, NotCached} : \A e \in Entries : e \in LookupEq(r, e[1])

\* A scan returns every entry of its range that was in the index from the
\* scan's start to its end, although leaves split and slots move under its
\* cursor between two reads.  Unless a delete moved the slots below the
\* cursor down, or lookups had become incomplete (btree.rs read_at).
ScanMissesNothing ==
  (scan.phase = "done" /\ ~scan.shifted /\ exposed \subseteq {"unindexed", "vanished"})
    => scan.want \subseteq scan.got

=============================================================================
