------------------------------- MODULE Sqlite -------------------------------
(***************************************************************************)
(* Statements and a connection of src/sqlixx. SQLite itself is external: a *)
(* step of a statement gives a row, completes or fails, a step after the   *)
(* completion or a failure runs the statement anew, and sqlite3_finalize() *)
(* destroys the statement also when it returns the error of the last step. *)
(***************************************************************************)
EXTENDS Integers, FiniteSets

CONSTANTS
  Holder,   \* objects of the class Statement
  Datum,    \* what is bound
  Stmt,     \* statements of SQLite
  NoStmt    \* the null handle

VARIABLES
  handle_,            \* of each object
  last_step_result_,  \* of each object: "none" stands for -1
  stmts,              \* SQLite: the statements that exist: [state, bound]
  connection,         \* Connection::handle_: "open", "null" or "leaked"
  transaction,        \* SQLite: not in the autocommit mode
  executing,          \* the object whose execute() runs, or the null handle
  guarded,            \* with_rollback_on_error(): "no", "calls", "threw", "nested"
  asked,              \* history: the value given to the call that began a statement's run,
                      \* and the last step's result before it
  misused             \* history: why a handle was used that SQLite has destroyed

vars == <<handle_, last_step_result_, stmts, connection, transaction, executing, guarded, asked,
          misused>>

ASSUME StmtAssumption == NoStmt \notin Stmt \union Holder

Live == DOMAIN stmts
Fresh == {"ready", "done", "failed"}
NoValue == {}
NotAsked == [value |-> NoValue, after |-> "none"]

Init ==
  /\ handle_ = [o \in Holder |-> NoStmt] /\ last_step_result_ = [o \in Holder |-> "none"]
  /\ stmts = [h \in {} |-> [state |-> "ready", bound |-> NoValue]]
  /\ asked = [h \in Stmt |-> NotAsked]
  /\ connection = "open" /\ transaction = FALSE
  /\ executing = NoStmt /\ guarded = "no" /\ misused = {}

\* Nothing of the program is in the middle of a call, or of an exception. A call with a
\* handle that is dangling is a misuse.
Idle == executing = NoStmt /\ guarded \in {"no", "calls"}
Dangling(o) == handle_[o] # NoStmt /\ handle_[o] \notin Live
Misuse(o) == misused' = IF Dangling(o) THEN misused \union {"finalized"} ELSE misused

-----------------------------------------------------------------------------
(* Statement.                                                              *)

Statement(o) ==
  /\ Idle /\ connection = "open" /\ handle_[o] = NoStmt
  /\ \E h \in Stmt \ (Live \union {handle_[p] : p \in Holder}) :
       /\ handle_' = [handle_ EXCEPT ![o] = h]
       /\ stmts' = [x \in Live \union {h} |->
                      IF x = h THEN [state |-> "ready", bound |-> NoValue] ELSE stmts[x]]
       /\ asked' = [asked EXCEPT ![h] = NotAsked]
  /\ UNCHANGED <<last_step_result_, connection, transaction, executing, guarded, misused>>

\* swap(), of which the moves are made.
Swap(o, p) ==
  LET other == [x \in Holder |-> CASE x = o -> p [] x = p -> o [] OTHER -> x] IN
  /\ Idle /\ o # p
  /\ handle_' = [x \in Holder |-> handle_[other[x]]]
  /\ last_step_result_' = [x \in Holder |-> last_step_result_[other[x]]]
  /\ UNCHANGED <<stmts, connection, transaction, executing, guarded, asked, misused>>

Finalized(o) == stmts' = [h \in Live \ {handle_[o]} |-> stmts[h]]
Cleared(o) ==
  /\ handle_' = [handle_ EXCEPT ![o] = NoStmt]
  /\ last_step_result_' = [last_step_result_ EXCEPT ![o] = "none"]

\* close(): it throws if sqlite3_finalize() returns the error of the last step, and
\* keeps the handle.
Close(o) ==
  /\ Idle /\ Finalized(o) /\ Misuse(o)
  /\ IF handle_[o] \in Live /\ stmts[handle_[o]].state = "failed"
     THEN UNCHANGED <<handle_, last_step_result_>>
     ELSE Cleared(o)
  /\ UNCHANGED <<connection, transaction, executing, guarded, asked>>

\* The destructor swallows what close() throws; the object is one without a handle next.
Destroy(o) ==
  /\ Idle /\ Finalized(o) /\ Misuse(o) /\ Cleared(o)
  /\ UNCHANGED <<connection, transaction, executing, guarded, asked>>

Reset(o) ==
  /\ Idle /\ handle_[o] # NoStmt /\ Misuse(o)
  /\ last_step_result_' = [last_step_result_ EXCEPT ![o] = "none"]
  /\ stmts' = [h \in Live |-> IF h = handle_[o] THEN [stmts[h] EXCEPT !.state = "ready"] ELSE stmts[h]]
  /\ UNCHANGED <<handle_, connection, transaction, executing, guarded, asked>>

\* Mutant: the values are bound after a reset only.
Execute_bound_once(o, value) ==
  LET h == handle_[o] IN
  /\ Idle /\ h # NoStmt /\ Misuse(o)
  /\ executing' = o
  /\ last_step_result_' = [last_step_result_ EXCEPT ![o] = IF @ = "done" THEN "none" ELSE @]
  /\ stmts' = [x \in Live |->
       IF x # h THEN stmts[x]
       ELSE CASE last_step_result_[o] = "done" -> [stmts[x] EXCEPT !.state = "ready"]
              [] last_step_result_[o] = "none" -> [stmts[x] EXCEPT !.bound = {value}]
              [] OTHER -> stmts[x]]
  /\ asked' = IF h \in Live /\ stmts[h].state \in Fresh
              THEN [asked EXCEPT ![h] = [value |-> {value}, after |-> last_step_result_[o]]] ELSE asked
  /\ UNCHANGED <<handle_, connection, transaction, guarded>>

\* The beginning of execute(): the values are bound only if it has not been called
\* since a reset, or if the last run is complete.
Execute(o, value) ==
  LET h == handle_[o]
      binds == last_step_result_[o] \in {"none", "done"}
  IN
  /\ Idle /\ h # NoStmt /\ Misuse(o)
  /\ executing' = o
  /\ last_step_result_' = [last_step_result_ EXCEPT ![o] = IF @ = "done" THEN "none" ELSE @]
  /\ stmts' = [x \in Live |->
       IF x = h /\ binds THEN [state |-> IF last_step_result_[o] = "done" THEN "ready" ELSE stmts[x].state,
                               bound |-> {value}]
       ELSE stmts[x]]
  /\ asked' = IF h \in Live /\ stmts[h].state \in Fresh
              THEN [asked EXCEPT ![h] = [value |-> {value}, after |-> last_step_result_[o]]] ELSE asked
  /\ UNCHANGED <<handle_, connection, transaction, guarded>>

\* One iteration of the loop: sqlite3_step(), and the callback of a row, which goes on,
\* stops the execution or throws. Whatever ends it, the step's result is kept.
Step(o, result) ==
  /\ executing = o /\ handle_[o] \in Live
  /\ last_step_result_' = [last_step_result_ EXCEPT ![o] = result]
  /\ stmts' = [stmts EXCEPT ![handle_[o]].state = result]
  /\ UNCHANGED <<handle_, connection, asked, misused>>
Step_row(o) ==
  Step(o, "row") /\ executing' \in {o, NoStmt} /\ UNCHANGED <<transaction, guarded>>
Step_done(o) ==
  Step(o, "done") /\ executing' = NoStmt /\ transaction' \in BOOLEAN /\ UNCHANGED guarded
\* An error may roll the transaction back.
Step_fails(o) ==
  /\ Step(o, "failed") /\ executing' = NoStmt
  /\ transaction' \in {transaction, FALSE} /\ UNCHANGED guarded

Return_of_misused(o) ==
  /\ executing = o /\ handle_[o] \notin Live
  /\ executing' = NoStmt
  /\ UNCHANGED <<handle_, last_step_result_, stmts, connection, transaction, guarded, asked, misused>>

-----------------------------------------------------------------------------
(* Connection.                                                             *)

\* close(): sqlite3_close() refuses while statements exist.
Connection_close ==
  /\ Idle /\ connection = "open" /\ Live = {}
  /\ connection' = "null" /\ transaction' = FALSE
  /\ UNCHANGED <<handle_, last_step_result_, stmts, executing, guarded, asked, misused>>

\* The destructor swallows the refusal: the handle is lost.
Connection_destroy ==
  /\ Idle /\ connection = "open" /\ guarded # "calls"
  /\ connection' = IF Live = {} THEN "null" ELSE "leaked"
  /\ transaction' = (transaction /\ Live # {})
  /\ UNCHANGED <<handle_, last_step_result_, stmts, executing, guarded, asked, misused>>

With_rollback_on_error ==
  /\ Idle /\ connection = "open" /\ guarded # "calls" /\ guarded' = "calls"
  /\ UNCHANGED <<handle_, last_step_result_, stmts, connection, transaction, executing, asked, misused>>

\* The callback returns, or throws: the transaction is rolled back if there is one. The
\* rollback is a statement of its own, which may fail.
Callback_returns ==
  /\ Idle /\ guarded = "calls" /\ guarded' = "no"
  /\ UNCHANGED <<handle_, last_step_result_, stmts, connection, transaction, executing, asked, misused>>
Callback_throws ==
  /\ Idle /\ guarded = "calls" /\ connection = "open"
  /\ \/ guarded' = "threw" /\ transaction' = FALSE
     \/ transaction /\ guarded' = "nested" /\ UNCHANGED transaction
  /\ UNCHANGED <<handle_, last_step_result_, stmts, connection, executing, asked, misused>>
Handled ==
  /\ guarded \in {"threw", "nested"} /\ guarded' = "no"
  /\ UNCHANGED <<handle_, last_step_result_, stmts, connection, transaction, executing, asked, misused>>

Next ==
  \/ \E o \in Holder :
       \/ Statement(o) \/ Close(o) \/ Destroy(o) \/ Reset(o)
       \/ Step_row(o) \/ Step_done(o) \/ Step_fails(o) \/ Return_of_misused(o)
       \/ \E value \in Datum : Execute(o, value)
       \/ \E p \in Holder : Swap(o, p)
  \/ Connection_close \/ Connection_destroy
  \/ With_rollback_on_error \/ Callback_returns \/ Callback_throws \/ Handled

Spec == Init /\ [][Next]_vars

-----------------------------------------------------------------------------

\* An object and SQLite agree on the last step; a statement has one owner and is not
\* lost; a run has the values of the call that began it, unless the step before that call
\* failed; an exception that leaves with_rollback_on_error() as it was leaves no
\* transaction.
StatementsRun ==
  /\ \A o \in Holder : handle_[o] \in Live =>
       \/ last_step_result_[o] = stmts[handle_[o]].state
       \/ last_step_result_[o] = "none" /\ stmts[handle_[o]].state = "ready"
  /\ \A o, p \in Holder : o # p /\ handle_[o] # NoStmt => handle_[o] # handle_[p]
  /\ Live \subseteq {handle_[o] : o \in Holder}
  /\ \A h \in Live : stmts[h].state \in {"row", "done"} =>
       asked[h].value = stmts[h].bound \/ asked[h].after = "failed"
  /\ guarded = "threw" => ~transaction

\* A statement that has been closed is not used again, and not finalized again by the
\* destructor, whatever its last step was.
ClosedOnce == misused = {}
=============================================================================
