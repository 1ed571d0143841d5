------------------------------ MODULE Session -------------------------------
(***************************************************************************)
(* One connection: the message loop of handle_client, simple and extended  *)
(* protocol, COPY, and the session's transaction (instance.rs), with the   *)
(* reply buffer of Connection (protocol.rs).                               *)
(*                                                                         *)
(* A message that arrives is handled to the end in one action: the server  *)
(* thread is alone with its connection, and pipelined messages wait in the *)
(* socket.  Statements are told apart by what they do to the transaction;  *)
(* "dml" stands for every statement that changes rows or fails to.  Each   *)
(* dml or COPY that gets as far as writing has a number, its work.         *)
(***************************************************************************)
EXTENDS Naturals, FiniteSets

CONSTANTS
    MaxWork,       \* bound on the statements that write
    MaxSwallowed   \* bound on the requests read by COPY

ASSUME SessionAssumption == MaxWork \in Nat /\ MaxSwallowed \in Nat

None == "none"
Work == 1..MaxWork
\* "bad" does not parse.
Statements == {"begin", "commit", "rollback", "dml", "copy", "bad"}

VARIABLES
    pc,          \* "loop", "copy" or "closed"
    t,           \* the transaction: in a block, holding row locks, and its work
    copy,        \* of a running COPY: started by Execute, bracketed on its own
    exterr,      \* extended_error
    stmt,        \* the prepared statement, None if there is none
    portal,      \* the portal, None if there is none
    unsent,      \* out_buf is not empty
    waits,       \* the client has nothing more to send before it gets a reply
    owed,        \* Query, Sync and unknown messages minus ReadyForQuery replies
    swallowed    \* of those messages, the ones that COPY has read

vars == <<pc, t, copy, exterr, stmt, portal, unsent, waits, owed, swallowed>>
prepared == <<stmt, portal>>

NoCopy == [ext |-> FALSE, auto |-> FALSE, work |-> 0]

\* failed: work of a statement answered with an error; kept: of those, the ones that failed in
\* Execute inside a block.
Init ==
    /\ pc = "loop"
    /\ t = [active |-> FALSE, locks |-> FALSE, status |-> [w \in Work |-> "new"],
            next |-> 1, failed |-> {}, kept |-> {}]
    /\ copy = NoCopy /\ exterr = FALSE /\ stmt = None /\ portal = None
    /\ unsent = FALSE /\ waits = TRUE /\ owed = 0 /\ swallowed = 0

(***************************************************************************)
(* Statements as functions from the transaction to what they leave of it.  *)
(***************************************************************************)
Settled(x, s) == [w \in Work |-> IF x.status[w] = "open" THEN s ELSE x.status[w]]

\* The end of a block or of a bracket, with its unlock_all.
Bad_Ended(x, s) == [x EXCEPT !.active = FALSE, !.status = Settled(x, s)]
Ended(x, s) == [x EXCEPT !.active = FALSE, !.locks = FALSE, !.status = Settled(x, s)]

\* After a failed simple Query an open block is rolled back.
Bad_AutoRollback(x) == [x EXCEPT !.active = @]
AutoRollback(x) == IF x.active THEN Ended(x, "aborted") ELSE x

\* The next work starts, as part of the block or of the bracket around its statement.
Begun(x) == [x EXCEPT !.status[x.next] = "open", !.next = @ + 1, !.locks = TRUE]

\* A failed statement is noted with what it has written.
Noted(x, w, ext) ==
    [x EXCEPT !.failed = @ \cup {w}, !.kept = IF ext /\ x.active THEN @ \cup {w} ELSE @]

\* execute: the auto-commit bracket around a statement outside a block.
Bracket(x, ok) == IF x.active THEN x ELSE Ended(x, IF ok THEN "committed" ELSE "aborted")

\* The results of execute() for a statement other than COPY: the transaction, and Ok or Err.
Results(k, x, ext) ==
    CASE k = "begin" -> {[ok |-> ~x.active, t |-> [x EXCEPT !.active = TRUE]]}
      [] k = "commit" -> {[ok |-> x.active, t |-> Ended(x, "committed")]}
      [] k = "rollback" -> {[ok |-> x.active, t |-> Ended(x, "aborted")]}
      [] k = "bad" -> {[ok |-> FALSE, t |-> x]}
      [] k = "dml" ->
           {[ok |-> FALSE, t |-> Bracket(x, FALSE)]} \cup
           IF x.next > MaxWork THEN {}
           ELSE {[ok |-> TRUE, t |-> Bracket(Begun(x), TRUE)],
                 [ok |-> FALSE, t |-> Bracket(Noted(Begun(x), x.next, ext), FALSE)]}

(***************************************************************************)
(* Replies.  Only ReadyForQuery, CopyInResponse and Flush ship the buffer. *)
(***************************************************************************)
Bad_Shipped == unsent' = TRUE
Shipped == unsent' = FALSE
Buffered == unsent' = TRUE
Ready(asked) == owed' = owed + asked - 1 /\ Shipped

(***************************************************************************)
(* The simple protocol.                                                    *)
(***************************************************************************)
Query(k) ==
    /\ pc = "loop" /\ k # "copy"
    /\ \E r \in Results(k, t, FALSE) : t' = IF r.ok THEN r.t ELSE AutoRollback(r.t)
    /\ Ready(1) /\ waits' = TRUE
    /\ UNCHANGED <<pc, copy, exterr, prepared, swallowed>>

\* An empty query string, or a message type the server does not know.
QueryEmpty ==
    /\ pc = "loop"
    /\ Ready(1) /\ waits' = TRUE
    /\ UNCHANGED <<pc, t, copy, exterr, prepared, swallowed>>

(***************************************************************************)
(* The extended protocol.  After an error the group's messages are skipped *)
(* until Sync, except Close, and except a Query, which runs.               *)
(***************************************************************************)
ExtendedFails == exterr' = TRUE /\ Buffered /\ waits' = FALSE
ExtendedOk == exterr' = exterr /\ Buffered /\ waits' = FALSE

Skip ==
    /\ pc = "loop" /\ exterr
    /\ waits' = FALSE
    /\ UNCHANGED <<pc, t, copy, exterr, prepared, unsent, owed, swallowed>>

Parse(k) ==
    /\ pc = "loop" /\ ~exterr
    /\ IF k = "bad" THEN ExtendedFails /\ stmt' = stmt ELSE ExtendedOk /\ stmt' = k
    /\ UNCHANGED <<pc, t, copy, portal, owed, swallowed>>

\* bind_params_into_stmt: parameters change no statement's kind.
Bound(s) == s

\* The portal is a copy of the statement with its parameters, which may not fit.
Bind ==
    /\ pc = "loop" /\ ~exterr
    /\ \/ stmt # None /\ portal' = Bound(stmt) /\ ExtendedOk
       \/ portal' = portal /\ ExtendedFails
    /\ UNCHANGED <<pc, t, copy, stmt, owed, swallowed>>

\* Describe analyses the portal's statement, which may fail.
Describe ==
    /\ pc = "loop" /\ ~exterr
    /\ ExtendedOk \/ (portal # None /\ ExtendedFails)
    /\ UNCHANGED <<pc, t, copy, prepared, owed, swallowed>>

Execute ==
    /\ pc = "loop" /\ ~exterr /\ portal # "copy"
    /\ \/ portal = None /\ t' = t /\ ExtendedFails
       \/ /\ portal # None
          /\ \E r \in Results(portal, t, TRUE) :
                t' = r.t /\ (IF r.ok THEN ExtendedOk ELSE ExtendedFails)
    /\ UNCHANGED <<pc, copy, prepared, owed, swallowed>>

Close ==
    /\ pc = "loop"
    /\ \/ stmt' = None /\ portal' = portal
       \/ portal' = None /\ stmt' = stmt
    /\ Buffered /\ waits' = FALSE
    /\ UNCHANGED <<pc, t, copy, exterr, owed, swallowed>>

Sync ==
    /\ pc = "loop"
    /\ exterr' = FALSE
    /\ Ready(1) /\ waits' = TRUE
    /\ UNCHANGED <<pc, t, copy, prepared, swallowed>>

Flush ==
    /\ pc = "loop"
    /\ Shipped /\ waits' = TRUE
    /\ UNCHANGED <<pc, t, copy, exterr, prepared, owed, swallowed>>

(***************************************************************************)
(* COPY FROM STDIN, from a Query or from Execute.                          *)
(***************************************************************************)
CopyStart(ext) ==
    /\ pc = "loop"
    /\ IF ext THEN ~exterr /\ portal = "copy" /\ owed' = owed ELSE owed' = owed + 1
    /\ pc' = "copy"
    /\ copy' = [ext |-> ext, auto |-> ~t.active, work |-> 0]
    /\ Shipped /\ waits' = TRUE
    /\ UNCHANGED <<t, exterr, prepared, swallowed>>

\* copy_apply_line wrote another row; all rows of a COPY are one piece of work.
WithLine == IF copy.work = 0 /\ t.next <= MaxWork THEN Begun(t) ELSE t

CopyLine ==
    /\ pc = "copy" /\ (copy.work = 0 => t.next <= MaxWork)
    /\ t' = WithLine
    /\ copy' = [copy EXCEPT !.work = IF @ = 0 THEN t.next ELSE @]
    /\ waits' = FALSE
    /\ UNCHANGED <<pc, exterr, prepared, unsent, owed, swallowed>>

\* run_copy_in returns: its own bracket, then the caller's part.
CopyBracket(x, ok) == IF copy.auto THEN Ended(x, IF ok THEN "committed" ELSE "aborted") ELSE x

CopyReturns(ok, asked) ==
    LET x == IF ok \/ copy.work = 0 THEN t ELSE Noted(t, copy.work, copy.ext)
        y == CopyBracket(x, ok)
    IN /\ pc' = "loop" /\ copy' = NoCopy
       /\ IF copy.ext
          THEN /\ t' = y /\ Buffered /\ owed' = owed + asked
               /\ exterr' = (exterr \/ ~ok)
          ELSE /\ t' = (IF ok THEN y ELSE AutoRollback(y))
               /\ Ready(asked) /\ exterr' = exterr

CopyDone ==
    /\ pc = "copy"
    /\ \E ok \in BOOLEAN : CopyReturns(ok, 0)
    /\ waits' = FALSE
    /\ UNCHANGED <<prepared, swallowed>>

\* A line that cannot be read or inserted, CopyFail, the end of the stream, or a message of the
\* extended protocol other than Sync.
CopyFails ==
    /\ pc = "copy"
    /\ CopyReturns(FALSE, 0)
    /\ waits' = FALSE
    /\ UNCHANGED <<prepared, swallowed>>

\* A Sync, a Query or an unknown message during COPY is read and dropped; its client waits.
CopySwallows ==
    /\ pc = "copy" /\ swallowed < MaxSwallowed
    /\ CopyReturns(FALSE, 1)
    /\ swallowed' = swallowed + 1 /\ waits' = TRUE
    /\ UNCHANGED prepared

\* CopyData, CopyDone or CopyFail with no COPY running: dropped.
Stray ==
    /\ pc = "loop"
    /\ waits' = FALSE
    /\ UNCHANGED <<pc, t, copy, exterr, prepared, unsent, owed, swallowed>>

(***************************************************************************)
(* The connection ends: Terminate, end of stream, or an I/O error, which   *)
(* may also come after a statement ran and before its reply was sent.      *)
(***************************************************************************)
Teardown(x) == [AutoRollback(x) EXCEPT !.locks = FALSE]

Ends ==
    /\ pc = "loop"
    /\ \/ t' = Teardown(t)
       \/ \E k \in Statements \ {"copy"} :
             \E r \in Results(k, t, FALSE) : t' = Teardown(r.t)
    /\ pc' = "closed"
    /\ UNCHANGED <<copy, exterr, prepared, unsent, waits, owed, swallowed>>

Next ==
    \/ \E k \in Statements : Query(k) \/ Parse(k)
    \/ QueryEmpty \/ Skip \/ Bind \/ Describe \/ Execute \/ Close \/ Sync \/ Flush
    \/ \E ext \in BOOLEAN : CopyStart(ext)
    \/ CopyLine \/ CopyDone \/ CopyFails \/ CopySwallows \/ Stray
    \/ Ends

Spec == Init /\ [][Next]_vars

-----------------------------------------------------------------------------
(***************************************************************************)
(* A statement answered with an error leaves nothing committed, however    *)
(* the block or the COPY around it goes on.  The exception is a statement  *)
(* that failed in Execute inside a block: the loop only sets               *)
(* extended_error, the block stays open with what the statement wrote, and *)
(* a COMMIT after the Sync commits it.                                     *)
(***************************************************************************)
FailedLeavesNothing ==
    \A w \in t.failed : t.status[w] = "committed" => w \in t.kept

(***************************************************************************)
(* Whenever the loop reads the next message every Query and every Sync has *)
(* had exactly one ReadyForQuery, and a client that waits for a reply has  *)
(* all of it and not a part that is still in out_buf; except the requests  *)
(* that run_copy_in read and answered only with an error.                  *)
(***************************************************************************)
AnsweredUnlessSwallowed ==
    pc = "loop" => owed = swallowed /\ (waits /\ swallowed = 0 => ~unsent)

(***************************************************************************)
(* A session outside a block and outside COPY, or gone, holds no row lock  *)
(* and has no undecided work: every path out of a block or of an           *)
(* auto-commit bracket releases and decides.                               *)
(***************************************************************************)
IdleIsClean ==
    ~t.active /\ pc # "copy" => ~t.locks /\ \A w \in Work : t.status[w] # "open"

=============================================================================
