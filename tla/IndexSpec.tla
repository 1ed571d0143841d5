----------------------------- MODULE IndexSpec -----------------------------
(***************************************************************************)
(* What src/btree.rs promises the executor: an index is a set of           *)
(* <<key, rid>> entries; insert() adds its entry and delete() removes its  *)
(* entry at one instant between the call and the return, and nothing else  *)
(* a call does (splitting nodes, growing the root, rewriting pg_index) is  *)
(* visible in the set.  delete() may also miss: it returns false.          *)
(***************************************************************************)
CONSTANTS Writers,    \* the sessions that insert and delete
          EntrySet    \* the possible entries

VARIABLES entries,    \* the entries of the index
          call        \* call[w]: the call of session w, and whether it took effect

NoCall == [op |-> "none", e |-> <<0, 0>>, took |-> FALSE]

Init == /\ entries \in SUBSET EntrySet
        /\ call = [w \in Writers |-> NoCall]

Call(w) == /\ call[w].op = "none" \/ call[w].took
           /\ call'[w] \in [op : {"insert", "delete"}, e : EntrySet, took : {FALSE}]
           /\ call' = [call EXCEPT ![w] = call'[w]]
           /\ UNCHANGED entries

TakeEffect(w) ==
  /\ call[w].op # "none" /\ ~call[w].took
  /\ \/ call[w].op = "insert" /\ entries' = entries \cup {call[w].e}
     \/ call[w].op = "delete" /\ entries' \in {entries \ {call[w].e}, entries}
  /\ \E after \in {NoCall, [call[w] EXCEPT !.took = TRUE]} : call' = [call EXCEPT ![w] = after]

Return(w) == /\ call[w].took
             /\ call' = [call EXCEPT ![w] = NoCall]
             /\ UNCHANGED entries

Next == \E w \in Writers : Call(w) \/ TakeEffect(w) \/ Return(w)

vars == <<entries, call>>

Spec == Init /\ [][Next]_vars
============================================================================
