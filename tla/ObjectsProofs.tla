--------------------------- MODULE ObjectsProofs ---------------------------
(***************************************************************************)
(* Proofs about module Objects: the statements of SQLite, responses, large *)
(* objects, the bindings of SQLite's parameters and WebSocket clients, for *)
(* any number of statements, values, rows, transactions and descriptors.   *)
(***************************************************************************)
EXTENDS Objects, WellFoundedInduction, SequenceTheorems, TLAPS

-----------------------------------------------------------------------------
(* The statements of SQLite: what was asked for, what the last step gave   *)
(* and what is bound belong together.                                      *)

StepResult == {"none", "row", "done", "failed"}
StatementState == {"ready", "row", "done", "failed"}

StatementsTypes ==
  /\ handle_ \in [Holder -> Stmt \union {NoStmt}]
  /\ last_step_result_ \in [Holder -> StepResult]
  /\ Live \subseteq Stmt
  /\ stmts \in [Live -> [state : StatementState, bound : SUBSET Datum]]
  /\ asked \in [Stmt -> [value : SUBSET Datum, after : StepResult]]
  /\ executing \in Holder \union {NoStmt}

\* The values of the run are those of the call that began it.
Asked(h) == asked[h].value = stmts[h].bound \/ asked[h].after = "failed"

\* StatementsRun, what it says of a run also before its first step, and that an object
\* without a statement has no result of one.
StatementsInv ==
  /\ StatementsTypes
  /\ StatementsRun
  /\ executing # NoStmt => guarded \in {"no", "calls"}
  /\ executing # NoStmt /\ handle_[executing] \in Live => Asked(handle_[executing])
  /\ \A o \in Holder : handle_[o] = NoStmt => last_step_result_[o] = "none"

LEMMA NoStmtNotLive == StatementsTypes => NoStmt \notin Live /\ NoStmt \notin Holder
BY StmtAssumption DEF StatementsTypes, StmtAssumption

LEMMA StatementsStart == Init => StatementsInv
<1> SUFFICES ASSUME Init
             PROVE  StatementsInv
  OBVIOUS
<1>1. Live = {}
  BY DEF Init, Live
<1>2. asked \in [Stmt -> [value : SUBSET Datum, after : StepResult]]
  BY DEF Init, NotAsked, NoValue, StepResult
<1>3. stmts \in [Live -> [state : StatementState, bound : SUBSET Datum]]
  BY <1>1 DEF Init, Live
<1> QED
  BY <1>1, <1>2, <1>3 DEF Init, StatementsInv, StatementsTypes, StepResult, StatementsRun

LEMMA ConstructStatement ==
  ASSUME StatementsInv, NEW o \in Holder, Statement(o)
  PROVE  StatementsInv'
<1>1. PICK h \in Stmt \ (Live \union {handle_[p] : p \in Holder}) :
        /\ handle_' = [handle_ EXCEPT ![o] = h]
        /\ stmts' = [x \in Live \union {h} |->
                       IF x = h THEN [state |-> "ready", bound |-> NoValue] ELSE stmts[x]]
        /\ asked' = [asked EXCEPT ![h] = NotAsked]
  BY DEF Statement
<1>2. Live' = Live \union {h} /\ h \notin Live /\ h # NoStmt
  BY <1>1, StmtAssumption DEF Live, StmtAssumption
<1>3. /\ executing = NoStmt /\ handle_[o] = NoStmt /\ last_step_result_[o] = "none"
      /\ UNCHANGED <<last_step_result_, executing, guarded, transaction>>
  BY DEF Statement, Idle, StatementsInv
<1>4. StatementsTypes'
  BY <1>1, <1>2, <1>3 DEF StatementsInv, StatementsTypes, NotAsked, NoValue, StepResult, StatementState
<1>5. \A p \in Holder : handle_'[p] = (IF p = o THEN h ELSE handle_[p]) /\ handle_[p] # h
  BY <1>1 DEF StatementsInv, StatementsTypes
<1>6. stmts'[h].state = "ready" /\ \A x \in Live : stmts'[x] = stmts[x] /\ asked'[x] = asked[x]
  BY <1>1, <1>2 DEF StatementsInv, StatementsTypes
<1>7. StatementsRun'
  <2>1. \A p \in Holder : handle_'[p] \in Live' =>
          \/ last_step_result_'[p] = stmts'[handle_'[p]].state
          \/ last_step_result_'[p] = "none" /\ stmts'[handle_'[p]].state = "ready"
    BY <1>2, <1>3, <1>5, <1>6 DEF StatementsInv, StatementsRun
  <2>2. \A p, q \in Holder : p # q /\ handle_'[p] # NoStmt => handle_'[p] # handle_'[q]
    BY <1>2, <1>5 DEF StatementsInv, StatementsRun
  <2>3. Live' \subseteq {handle_'[p] : p \in Holder}
    BY <1>2, <1>3, <1>5, NoStmtNotLive DEF StatementsInv, StatementsRun
  <2>4. \A x \in Live' : stmts'[x].state \in {"row", "done"} =>
          asked'[x].value = stmts'[x].bound \/ asked'[x].after = "failed"
    BY <1>2, <1>6 DEF StatementsInv, StatementsRun
  <2> QED
    BY <1>3, <2>1, <2>2, <2>3, <2>4 DEF StatementsInv, StatementsRun
<1> QED
  BY <1>2, <1>3, <1>4, <1>5, <1>7 DEF StatementsInv

LEMMA SwapStep ==
  ASSUME StatementsInv, NEW o \in Holder, NEW p \in Holder, Swap(o, p)
  PROVE  StatementsInv'
<1> DEFINE other == [x \in Holder |-> CASE x = o -> p [] x = p -> o [] OTHER -> x]
<1>1. \A x \in Holder : other[x] \in Holder /\ other[other[x]] = x
  BY DEF Swap
<1>2. /\ handle_' = [x \in Holder |-> handle_[other[x]]]
      /\ last_step_result_' = [x \in Holder |-> last_step_result_[other[x]]]
      /\ executing = NoStmt
      /\ UNCHANGED <<stmts, transaction, executing, guarded, asked>>
  BY DEF Swap, Idle
<1> HIDE DEF other
<1>3. StatementsTypes'
  BY <1>1, <1>2 DEF StatementsInv, StatementsTypes, Live
<1>4. \A x \in Holder : handle_'[x] = handle_[other[x]] /\ last_step_result_'[x] = last_step_result_[other[x]]
  BY <1>2
<1>5. Live' = Live
  BY <1>2 DEF Live
<1>6. Live' \subseteq {handle_'[x] : x \in Holder}
  <2> SUFFICES ASSUME NEW h \in Live
               PROVE  \E x \in Holder : h = handle_'[x]
    BY <1>5
  <2>1. PICK x \in Holder : h = handle_[x]
    BY DEF StatementsInv, StatementsRun
  <2> QED
    BY <1>1, <1>4, <2>1
<1>7. \A x, y \in Holder : x # y /\ handle_'[x] # NoStmt => handle_'[x] # handle_'[y]
  <2>1. \A x, y \in Holder : x # y => other[x] # other[y]
    BY <1>1
  <2> QED
    BY <1>1, <1>4, <2>1 DEF StatementsInv, StatementsRun
<1>8. StatementsRun'
  BY <1>1, <1>2, <1>4, <1>5, <1>6, <1>7 DEF StatementsInv, StatementsRun
<1> QED
  BY <1>1, <1>2, <1>3, <1>4, <1>8 DEF StatementsInv

\* A statement that is finalized is lost to its object only.
LEMMA FinalizedStep ==
  ASSUME StatementsInv, NEW o \in Holder, executing = NoStmt, Finalized(o),
         Cleared(o) \/ (UNCHANGED <<handle_, last_step_result_>>),
         UNCHANGED <<transaction, executing, guarded, asked>>
  PROVE  StatementsInv'
<1>1. Live' = Live \ {handle_[o]} /\ \A h \in Live' : stmts'[h] = stmts[h]
  BY DEF Finalized, Live
<1>2. \A p \in Holder :
        \/ handle_'[p] = handle_[p] /\ last_step_result_'[p] = last_step_result_[p]
        \/ p = o /\ handle_'[p] = NoStmt /\ last_step_result_'[p] = "none"
  BY DEF Cleared, StatementsInv, StatementsTypes
<1>3. StatementsTypes'
  <2>1. handle_' \in [Holder -> Stmt \union {NoStmt}] /\ last_step_result_' \in [Holder -> StepResult]
    BY DEF Cleared, StatementsInv, StatementsTypes, StepResult
  <2>2. stmts' \in [Live' -> [state : StatementState, bound : SUBSET Datum]]
    BY <1>1 DEF Finalized, StatementsInv, StatementsTypes, Live
  <2> QED
    BY <1>1, <2>1, <2>2 DEF StatementsInv, StatementsTypes
<1>4. NoStmt \notin Live
  BY NoStmtNotLive DEF StatementsInv
<1>5. Live' \subseteq {handle_'[p] : p \in Holder}
  <2> SUFFICES ASSUME NEW h \in Live'
               PROVE  \E p \in Holder : h = handle_'[p]
    OBVIOUS
  <2>1. PICK p \in Holder : h = handle_[p]
    BY <1>1 DEF StatementsInv, StatementsRun
  <2>2. p # o
    BY <1>1, <2>1
  <2> QED
    BY <1>2, <2>1, <2>2
<1>6. StatementsRun'
  BY <1>1, <1>2, <1>4, <1>5 DEF StatementsInv, StatementsRun
<1> QED
  BY <1>2, <1>3, <1>6 DEF StatementsInv

LEMMA ResetStep ==
  ASSUME StatementsInv, NEW o \in Holder, Reset(o)
  PROVE  StatementsInv'
<1>1. Live' = Live
  BY DEF Reset, Live
<1>2. \A h \in Live :
        /\ stmts'[h].bound = stmts[h].bound
        /\ stmts'[h].state = IF h = handle_[o] THEN "ready" ELSE stmts[h].state
  BY DEF Reset, StatementsInv, StatementsTypes
<1>3. \A p \in Holder :
        last_step_result_'[p] = IF p = o THEN "none" ELSE last_step_result_[p]
  BY DEF Reset, StatementsInv, StatementsTypes
<1>4. executing = NoStmt /\ UNCHANGED <<handle_, executing, guarded, transaction, asked>>
  BY DEF Reset, Idle
<1>5. StatementsTypes'
  <2>1. stmts' \in [Live -> [state : StatementState, bound : SUBSET Datum]]
    BY DEF Reset, StatementsInv, StatementsTypes, StatementState
  <2>2. last_step_result_' \in [Holder -> StepResult]
    BY DEF Reset, StatementsInv, StatementsTypes, StepResult
  <2> QED
    BY <1>1, <1>4, <2>1, <2>2 DEF StatementsInv, StatementsTypes
<1>6. StatementsRun'
  BY <1>1, <1>2, <1>3, <1>4, NoStmtNotLive DEF StatementsInv, StatementsRun
<1> QED
  BY <1>3, <1>4, <1>5, <1>6 DEF StatementsInv

LEMMA ExecuteCall ==
  ASSUME StatementsInv, NEW o \in Holder, NEW value \in Datum, Execute(o, value)
  PROVE  StatementsInv'
<1> DEFINE h == handle_[o]
<1> DEFINE binds == last_step_result_[o] \in {"none", "done"}
<1>1. Live' = Live
  BY DEF Execute, Live
<1>2. /\ guarded \in {"no", "calls"} /\ executing' = o /\ h # NoStmt
      /\ UNCHANGED <<handle_, guarded, transaction>>
  BY DEF Execute, Idle
<1>3. \A p \in Holder :
        last_step_result_'[p] =
          IF p = o /\ last_step_result_[p] = "done" THEN "none" ELSE last_step_result_[p]
  BY DEF Execute, StatementsInv, StatementsTypes
<1>4. \A x \in Live :
        /\ x # h \/ ~binds => stmts'[x] = stmts[x]
        /\ x = h /\ binds =>
             /\ stmts'[x].bound = {value}
             /\ stmts'[x].state = IF last_step_result_[o] = "done" THEN "ready" ELSE stmts[x].state
  BY DEF Execute
<1>5. \A x \in Live :
        /\ x # h \/ stmts[x].state \notin Fresh => asked'[x] = asked[x]
        /\ x = h /\ stmts[x].state \in Fresh =>
             asked'[x] = [value |-> {value}, after |-> last_step_result_[o]]
  BY DEF Execute, StatementsInv, StatementsTypes
<1>6. StatementsTypes'
  <2>1. last_step_result_' \in [Holder -> StepResult]
    BY DEF Execute, StatementsInv, StatementsTypes, StepResult
  <2>2. stmts' \in [Live -> [state : StatementState, bound : SUBSET Datum]]
    BY DEF Execute, StatementsInv, StatementsTypes, StatementState
  <2>3. asked' \in [Stmt -> [value : SUBSET Datum, after : StepResult]]
    <3>1. [value |-> {value}, after |-> last_step_result_[o]] \in [value : SUBSET Datum, after : StepResult]
      BY DEF StatementsInv, StatementsTypes
    <3> QED
      BY <3>1 DEF Execute, StatementsInv, StatementsTypes
  <2> QED
    BY <1>1, <1>2, <2>1, <2>2, <2>3 DEF StatementsInv, StatementsTypes
<1>7. h \in Live => Asked(h)'
  <2> SUFFICES ASSUME h \in Live
               PROVE  asked'[h].value = stmts'[h].bound \/ asked'[h].after = "failed"
    BY <1>2 DEF Asked
  <2>1. \/ last_step_result_[o] = stmts[h].state
        \/ last_step_result_[o] = "none" /\ stmts[h].state = "ready"
    BY DEF StatementsInv, StatementsRun
  <2>2. stmts[h].state \in {"ready", "row", "done", "failed"}
    BY DEF StatementsInv, StatementsTypes, StatementState
  <2>3. CASE stmts[h].state = "row"
    BY <1>4, <1>5, <2>1, <2>3 DEF StatementsInv, StatementsRun, Fresh
  <2>4. CASE stmts[h].state \in {"ready", "done"}
    <3>1. CASE binds
      <4>1. stmts'[h].bound = {value}
        BY <1>4, <3>1
      <4>2. asked'[h].value = {value}
        BY <1>5, <2>4 DEF Fresh
      <4> QED
        BY <4>1, <4>2
    <3>2. CASE ~binds
      BY <2>1, <2>4, <3>2 DEF StatementsInv, StatementsTypes, StepResult
    <3> QED
      BY <3>1, <3>2
  <2>5. CASE stmts[h].state = "failed"
    BY <1>5, <2>1, <2>5 DEF Fresh
  <2> QED
    BY <2>2, <2>3, <2>4, <2>5
<1>8. StatementsRun'
  <2>1. \A p \in Holder : handle_[p] \in Live =>
          \/ last_step_result_'[p] = stmts'[handle_[p]].state
          \/ last_step_result_'[p] = "none" /\ stmts'[handle_[p]].state = "ready"
    BY <1>2, <1>3, <1>4 DEF StatementsInv, StatementsRun
  <2>2. \A x \in Live : stmts'[x].state \in {"row", "done"} =>
          asked'[x].value = stmts'[x].bound \/ asked'[x].after = "failed"
    BY <1>2, <1>4, <1>5, <1>7 DEF StatementsInv, StatementsRun, Asked
  <2> QED
    BY <1>1, <1>2, <2>1, <2>2 DEF StatementsInv, StatementsRun
<1> QED
  BY <1>1, <1>2, <1>3, <1>6, <1>7, <1>8 DEF StatementsInv

\* One step of SQLite.
LEMMA StepCall ==
  ASSUME StatementsInv, NEW o \in Holder, NEW result \in {"row", "done", "failed"}, Step(o, result),
         executing' \in {o, NoStmt}, UNCHANGED guarded
  PROVE  StatementsInv'
<1>1. /\ executing = o /\ executing # NoStmt /\ handle_[o] \in Live /\ Asked(handle_[o])
      /\ guarded \in {"no", "calls"} /\ UNCHANGED <<handle_, asked>>
  BY NoStmtNotLive DEF Step, StatementsInv
<1>2. Live' = Live
  BY DEF Step, Live, StatementsInv, StatementsTypes
<1>3. \A h \in Live :
        /\ stmts'[h].bound = stmts[h].bound
        /\ stmts'[h].state = IF h = handle_[o] THEN result ELSE stmts[h].state
  BY DEF Step, StatementsInv, StatementsTypes
<1>4. \A p \in Holder : last_step_result_'[p] = IF p = o THEN result ELSE last_step_result_[p]
  BY DEF Step, StatementsInv, StatementsTypes
<1>5. StatementsTypes'
  <2>1. stmts' \in [Live -> [state : StatementState, bound : SUBSET Datum]]
    BY DEF Step, StatementsInv, StatementsTypes, StatementState
  <2>2. last_step_result_' \in [Holder -> StepResult]
    BY DEF Step, StatementsInv, StatementsTypes, StepResult
  <2> QED
    BY <1>1, <1>2, <2>1, <2>2 DEF StatementsInv, StatementsTypes
<1>6. StatementsRun'
  <2>1. \A p \in Holder : handle_[p] \in Live =>
          \/ last_step_result_'[p] = stmts'[handle_[p]].state
          \/ last_step_result_'[p] = "none" /\ stmts'[handle_[p]].state = "ready"
    BY <1>1, <1>3, <1>4, NoStmtNotLive DEF StatementsInv, StatementsRun
  <2>2. \A h \in Live : stmts'[h].state \in {"row", "done"} =>
          asked'[h].value = stmts'[h].bound \/ asked'[h].after = "failed"
    BY <1>1, <1>3 DEF StatementsInv, StatementsRun, Asked
  <2> QED
    BY <1>1, <1>2, <2>1, <2>2 DEF StatementsInv, StatementsRun
<1>7. Asked(handle_[o])'
  BY <1>1, <1>3 DEF Asked
<1>8. \A p \in Holder : handle_'[p] = NoStmt => last_step_result_'[p] = "none"
  BY <1>1, <1>4, NoStmtNotLive DEF StatementsInv
<1> QED
  BY <1>1, <1>5, <1>6, <1>7, <1>8 DEF StatementsInv

\* The connection, and what does not run.
LEMMA DatabaseStep ==
  ASSUME StatementsInv,
         UNCHANGED <<handle_, last_step_result_, stmts, asked>>,
         executing' \in {executing, NoStmt},
         guarded' = guarded \/ executing = NoStmt,
         guarded' = "threw" => ~transaction'
  PROVE  StatementsInv'
<1>1. Live' = Live
  BY DEF Live
<1>2. StatementsTypes' /\ StatementsRun'
  BY <1>1 DEF StatementsInv, StatementsTypes, StatementsRun
<1> QED
  BY <1>1, <1>2 DEF StatementsInv, Asked

LEMMA StatementsStep ==
  ASSUME StatementsInv, [Next]_vars
  PROVE  StatementsInv'
<1>1. ASSUME NEW o \in Holder,
             \/ Statement(o) \/ Close(o) \/ Destroy(o) \/ Reset(o)
             \/ Step_row(o) \/ Step_done(o) \/ Step_fails(o) \/ Return_of_misused(o)
             \/ \E value \in Datum : Execute(o, value)
             \/ \E p \in Holder : Swap(o, p)
      PROVE  StatementsInv'
  <2>1. CASE Close(o) \/ Destroy(o)
    BY <2>1, FinalizedStep DEF Close, Destroy, Idle
  <2>2. CASE Step_row(o)
    BY <2>2, StepCall DEF Step_row
  <2>3. CASE Step_done(o)
    BY <2>3, StepCall DEF Step_done
  <2>4. CASE Step_fails(o)
    BY <2>4, StepCall DEF Step_fails
  <2>5. CASE Return_of_misused(o)
    <3>1. guarded' = "threw" => ~transaction'
      BY <2>5 DEF Return_of_misused, StatementsInv, StatementsRun
    <3> QED
      BY <2>5, <3>1, DatabaseStep DEF Return_of_misused
  <2> QED
    BY <1>1, <2>1, <2>2, <2>3, <2>4, <2>5, ConstructStatement, SwapStep, ResetStep, ExecuteCall
<1>2. CASE \/ Connection_close \/ Connection_destroy
           \/ With_rollback_on_error \/ Callback_returns \/ Callback_throws \/ Handled
  <2>1. executing = NoStmt \/ guarded \in {"threw", "nested"}
    BY <1>2
       DEF Connection_close, Connection_destroy, With_rollback_on_error, Callback_returns,
           Callback_throws, Handled, Idle
  <2>2. executing = NoStmt /\ executing' = NoStmt
    BY <1>2, <2>1
       DEF Connection_close, Connection_destroy, With_rollback_on_error, Callback_returns,
           Callback_throws, Handled, StatementsInv
  <2>3. guarded' = "threw" => ~transaction'
    BY <1>2
       DEF Connection_close, Connection_destroy, With_rollback_on_error, Callback_returns,
           Callback_throws, Handled, StatementsInv, StatementsRun
  <2>4. UNCHANGED <<handle_, last_step_result_, stmts, asked>>
    BY <1>2
       DEF Connection_close, Connection_destroy, With_rollback_on_error, Callback_returns,
           Callback_throws, Handled
  <2> QED
    BY <2>2, <2>3, <2>4, DatabaseStep
<1>3. CASE UNCHANGED vars
  <2>1. guarded' = "threw" => ~transaction'
    BY <1>3 DEF vars, StatementsInv, StatementsRun
  <2> QED
    BY <1>3, <2>1, DatabaseStep DEF vars
<1> QED
  BY <1>1, <1>2, <1>3 DEF Next

LEMMA StatementsHold == StatementsInv => StatementsRun
BY DEF StatementsInv

-----------------------------------------------------------------------------
(* Responses: what a response has come to when the caller has been given  *)
(* some of its rows.                                                       *)

ResultType == {R!Completion, R!Error} \union {R!Row(k) : k \in Nat}
OutcomeType ==
  [how : {"none", "returned", "callback", "server", "handler"}, valid : BOOLEAN, nested : BOOLEAN]
ReportType == {{}, {"exception"}, {"handler", "exception"}, {"handler"}, {"callback"}}

ResponsesTypes ==
  /\ calling \in R!Callers
  /\ coming \in Seq(ResultType)
  /\ requests_ \in {0, 1}
  /\ running \in {"none", "main", "ignore_row", "collect_error"}
  /\ outcome \in OutcomeType
  /\ given \in Seq(Nat)
  /\ answer \in {"none", "completion", "error"}
  /\ reported \in ReportType

\* What is to come ends as the server has decided, and is rows before; the next ones, unless
\* they are dismissed.
ComingInv ==
  /\ requests_ = 0 <=> coming = <<>>
  /\ coming # <<>> => coming[Len(coming)] = IF answer = "completion" THEN R!Completion ELSE R!Error
  /\ coming # <<>> => answer # "none"
  /\ \A i \in 1..(Len(coming) - 1) : coming[i].what = "row"
  /\ running \in {"none", "main"} =>
       \A i \in 1..(Len(coming) - 1) : coming[i] = R!Row(Len(given) + i)

GivenInv == \A k \in 1..Len(given) : given[k] = k

CallInv ==
  /\ running # "none" => outcome = R!NoOutcome
  /\ running \in {"ignore_row", "collect_error"} => coming # <<>> /\ given # <<>>
  /\ running = "none" /\ requests_ = 1 =>
       outcome = R!Returned(FALSE) \/ (outcome = R!Thrown("callback", FALSE) /\ calling.on_exception = "suspend")
  /\ outcome.valid => answer = "completion"
  /\ outcome.nested => given # <<>>
  /\ outcome.how = "server" => "exception" \in reported

ReportInv ==
  /\ requests_ = 1 => reported = {}
  /\ requests_ = 0 => (answer = "error" <=> reported # {})

ResponsesInv == ResponsesTypes /\ ComingInv /\ GivenInv /\ CallInv /\ ReportInv

LEMMA OutcomeTypes ==
  {R!NoOutcome, R!Returned(TRUE), R!Returned(FALSE), R!Thrown("callback", FALSE), R!Thrown("handler", FALSE),
   R!Thrown("server", FALSE), R!Thrown("server", TRUE)} \subseteq OutcomeType
BY DEF R!NoOutcome, R!Returned, R!Thrown, OutcomeType

LEMMA ResponsesStart == R!Init => ResponsesInv
BY
DEF R!Init, ResponsesInv, ResponsesTypes, ComingInv, GivenInv, CallInv, ReportInv, R!NoOutcome,
    OutcomeType, ReportType

\* What follows when a result has been taken.
LEMMA ResultTaken ==
  ASSUME ResponsesInv, NEW what, R!Wait_response(what)
  PROVE  /\ requests_ = 1 /\ coming' \in Seq(ResultType)
         /\ Len(coming') = Len(coming) - 1 /\ Head(coming) = coming[1] /\ Head(coming) \in ResultType
         /\ \A i \in 1..Len(coming') : coming'[i] = coming[i + 1]
         /\ what = "row" <=> Len(coming) > 1
         /\ what = "row" <=> requests_' = 1
         /\ what # "row" => /\ coming' = <<>> /\ requests_' = 0
                            /\ what = "completion" <=> answer = "completion"
                            /\ what \in {"completion", "error"}
         /\ what = "row" => coming' # <<>> /\ coming'[Len(coming')] = coming[Len(coming)]
<1> USE DEF ResponsesInv, ResponsesTypes, ComingInv, R!Wait_response
<1>1. coming # <<>> /\ requests_ = 1 /\ Len(coming) \in Nat \ {0} /\ Head(coming) = coming[1]
  OBVIOUS
<1>2. coming' = Tail(coming) /\ coming' \in Seq(ResultType) /\ Len(coming') = Len(coming) - 1
      /\ \A i \in 1..Len(coming') : coming'[i] = coming[i + 1]
  BY <1>1
<1>3. Len(coming) > 1 => what = "row"
  BY <1>1
<1>4. Len(coming) = 1 => Head(coming) = IF answer = "completion" THEN R!Completion ELSE R!Error
  BY <1>1
<1>5. Len(coming) = 1 => what # "row" /\ (what = "completion" <=> answer = "completion")
                         /\ what \in {"completion", "error"}
  BY <1>1, <1>4 DEF R!Completion, R!Error
<1>6. Head(coming) \in ResultType
  BY <1>1
<1>7. Len(coming) > 1 => coming' # <<>> /\ coming'[Len(coming')] = coming[Len(coming)]
  <2> SUFFICES ASSUME Len(coming) > 1
               PROVE  coming' # <<>> /\ coming'[Len(coming')] = coming[Len(coming)]
    OBVIOUS
  <2>1. Len(coming') \in 1..Len(coming') /\ Len(coming') + 1 = Len(coming)
    BY <1>1, <1>2
  <2>2. coming'[Len(coming')] = coming[Len(coming') + 1]
    BY <1>2, <2>1
  <2>3. coming' # <<>>
    <3> HIDE DEF ResponsesInv, ResponsesTypes, ComingInv, R!Wait_response
    <3>1. Len(coming') # 0
      BY <2>1
    <3> QED
      BY <3>1
  <2> QED
    BY <2>1, <2>2, <2>3
<1>8. Len(coming) = 1 => coming' = <<>>
  BY <1>2
<1> QED
  BY <1>1, <1>2, <1>3, <1>5, <1>6, <1>7, <1>8

LEMMA ExecuteStep ==
  ASSUME ResponsesInv, R!Execute
  PROVE  ResponsesInv'
<1> USE DEF R!Execute
<1>1. PICK n \in 0..MaxRows, last \in {R!Completion, R!Error} : coming' = R!Response(n, last)
  BY DEF R!Responses
<1> DEFINE rows == [k \in 1..n |-> R!Row(k)]
<1>0. coming' = rows \o <<last>>
  BY <1>1 DEF R!Response
<1>2. n \in Nat
  BY <1>1
<1>3. rows \in Seq(ResultType) /\ Len(rows) = n
  BY <1>2 DEF ResultType
<1>4. <<last>> \in Seq(ResultType) /\ Len(<<last>>) = 1
  BY DEF ResultType
<1>5. coming' \in Seq(ResultType) /\ Len(coming') = n + 1
  BY <1>0, <1>3, <1>4
<1>6. coming'[n + 1] = last
  BY <1>0, <1>2, <1>3, <1>4
<1>7. \A i \in 1..n : coming'[i] = R!Row(i)
  BY <1>0, <1>2, <1>3, <1>4
<1>8. answer' = last.what
  BY <1>5, <1>6
<1>9. answer' \in {"completion", "error"} /\ (answer' = "completion" <=> last = R!Completion)
  BY <1>8 DEF R!Completion, R!Error
<1>10. ResponsesTypes'
  BY <1>5, <1>9, OutcomeTypes DEF ResponsesInv, ResponsesTypes, ReportType
<1>11. ComingInv'
  <2>1. Len(coming') - 1 = n /\ coming' # <<>>
    BY <1>2, <1>5
  <2>2. \A i \in 1..n : coming'[i].what = "row" /\ coming'[i] = R!Row(Len(given') + i)
    <3> TAKE i \in 1..n
    <3>1. Len(given') + i = i
      BY <1>2
    <3>2. coming'[i] = R!Row(i) /\ R!Row(i).what = "row"
      BY <1>7 DEF R!Row
    <3> QED
      BY <3>1, <3>2
  <2>3. coming'[Len(coming')] = IF answer' = "completion" THEN R!Completion ELSE R!Error
    BY <1>5, <1>6, <1>9
  <2>4. requests_' = 1 /\ answer' # "none"
    BY <1>9
  <2> QED
    BY <2>1, <2>2, <2>3, <2>4 DEF ComingInv
<1>12. GivenInv' /\ CallInv'
  BY DEF GivenInv, CallInv, R!NoOutcome
<1>13. ReportInv'
  BY DEF ReportInv
<1> QED
  BY <1>10, <1>11, <1>12, <1>13 DEF ResponsesInv

LEMMA RowStep ==
  ASSUME ResponsesInv, running = "main", R!Wait_response("row"),
         given' = Append(given, Head(coming).number),
         UNCHANGED <<calling, answer, reported>>,
         \/ running' = "main" /\ UNCHANGED outcome
         \/ running' \in {"ignore_row", "collect_error"} /\ UNCHANGED outcome
         \/ R!Ends(R!Returned(FALSE))
         \/ R!Ends(R!Thrown("callback", FALSE)) /\ calling.on_exception = "suspend"
  PROVE  ResponsesInv'
<1>1. /\ requests_ = 1 /\ requests_' = 1 /\ coming' \in Seq(ResultType) /\ coming' # <<>>
      /\ Len(coming') = Len(coming) - 1 /\ Len(coming) > 1 /\ Head(coming) = coming[1]
      /\ \A i \in 1..Len(coming') : coming'[i] = coming[i + 1]
      /\ coming'[Len(coming')] = coming[Len(coming)]
  BY ResultTaken
<1> USE DEF ResponsesInv, ResponsesTypes
<1>2. Len(coming) \in Nat /\ Len(given) \in Nat
  OBVIOUS
<1>3. Head(coming) = R!Row(Len(given) + 1)
  BY <1>1, <1>2 DEF ComingInv
<1>4. Head(coming).number = Len(given) + 1
  BY <1>3 DEF R!Row
<1>5. /\ given' \in Seq(Nat) /\ Len(given') = Len(given) + 1 /\ given' # <<>>
      /\ given'[Len(given) + 1] = Len(given) + 1
      /\ \A k \in 1..Len(given) : given'[k] = given[k]
  BY <1>2, <1>4
<1>6. GivenInv'
  BY <1>2, <1>5 DEF GivenInv
<1>7. ResponsesTypes'
  BY <1>1, <1>5, OutcomeTypes DEF R!Ends
<1>8. ComingInv'
  <2>1. \A i \in 1..(Len(coming') - 1) : coming'[i] = coming[i + 1] /\ i + 1 \in 1..(Len(coming) - 1)
    <3> HIDE DEF ResponsesInv, ResponsesTypes
    <3>1. \A i \in 1..(Len(coming') - 1) : i \in 1..Len(coming') /\ i + 1 \in 1..(Len(coming) - 1)
      BY <1>1, <1>2
    <3> QED
      BY <1>1, <3>1
  <2>2. \A i \in 1..(Len(coming') - 1) : coming'[i] = R!Row(Len(given') + i)
    <3> TAKE i \in 1..(Len(coming') - 1)
    <3>1. coming'[i] = R!Row(Len(given) + (i + 1))
      BY <2>1 DEF ComingInv
    <3>2. Len(given) + (i + 1) = Len(given') + i
      BY <1>1, <1>2, <1>5
    <3> QED
      BY <3>1, <3>2
  <2>3. \A i \in 1..(Len(coming') - 1) : coming'[i].what = "row"
    BY <2>1 DEF ComingInv
  <2>4. coming'[Len(coming')] = IF answer' = "completion" THEN R!Completion ELSE R!Error
    BY <1>1 DEF ComingInv
  <2> QED
    BY <1>1, <2>2, <2>3, <2>4 DEF ComingInv
<1>9. CallInv'
  BY <1>1, <1>5 DEF CallInv, R!NoOutcome, R!Ends, R!Returned, R!Thrown
<1>10. ReportInv'
  BY <1>1 DEF ReportInv
<1> QED
  BY <1>6, <1>7, <1>8, <1>9, <1>10

LEMMA IgnoredStep ==
  ASSUME ResponsesInv, R!Row_ignored
  PROVE  ResponsesInv'
<1> USE DEF R!Row_ignored
<1>1. /\ requests_ = 1 /\ requests_' = 1 /\ coming' \in Seq(ResultType) /\ coming' # <<>>
      /\ Len(coming') = Len(coming) - 1 /\ Len(coming) > 1
      /\ \A i \in 1..Len(coming') : coming'[i] = coming[i + 1]
      /\ coming'[Len(coming')] = coming[Len(coming)]
  BY ResultTaken
<1>2. ResponsesTypes'
  BY <1>1 DEF ResponsesInv, ResponsesTypes
<1>3. ComingInv'
  <2>1. \A i \in 1..(Len(coming') - 1) : coming'[i].what = "row"
    BY <1>1 DEF ResponsesInv, ComingInv
  <2> QED
    BY <1>1, <2>1 DEF ResponsesInv, ComingInv
<1> QED
  BY <1>1, <1>2, <1>3 DEF ResponsesInv, GivenInv, CallInv, ReportInv

\* The end of a response.
LEMMA EndStep ==
  ASSUME ResponsesInv, running # "none",
         \/ R!Completes \/ R!Fails
  PROVE  ResponsesInv'
<1>1. PICK what \in {"completion", "error"} :
        R!Wait_response(what) /\ (IF what = "completion" THEN R!Completes ELSE R!Fails)
  BY DEF R!Completes, R!Fails
<1>2. /\ requests_ = 1 /\ coming' = <<>> /\ requests_' = 0 /\ coming' \in Seq(ResultType)
      /\ what = "completion" <=> answer = "completion"
  BY <1>1, ResultTaken
<1>3. answer = "error" <=> what = "error"
  BY <1>1, <1>2 DEF ResponsesInv, ResponsesTypes, ComingInv
<1>4. UNCHANGED <<calling, answer, given>> /\ running' = "none"
  BY <1>1 DEF R!Completes, R!Fails, R!Throw_if_error, R!Ends, ResponsesInv, ResponsesTypes, R!Callers
<1>5. reported = {}
  BY <1>2 DEF ResponsesInv, ReportInv
<1>6. ComingInv' /\ GivenInv'
  BY <1>2, <1>4 DEF ResponsesInv, ComingInv, GivenInv
<1>7. CASE what = "completion"
  <2>1. reported' = {} /\ outcome' \in {R!Thrown("callback", FALSE), R!Returned(TRUE)}
    BY <1>1, <1>5, <1>7 DEF R!Completes, R!Ends
  <2>2. ResponsesTypes'
    BY <1>2, <1>4, <2>1, OutcomeTypes DEF ResponsesInv, ResponsesTypes, ReportType
  <2> QED
    BY <1>2, <1>3, <1>4, <1>6, <1>7, <2>1, <2>2 DEF ResponsesInv, CallInv, ReportInv, R!Returned, R!Thrown
<1>8. CASE what = "error"
  <2>1. R!Fails
    BY <1>1, <1>8
  <2>2. /\ reported' \in ReportType \ {{}}
        /\ \/ outcome' \in {R!Returned(FALSE), R!Thrown("callback", FALSE), R!Thrown("handler", FALSE)}
           \/ outcome' = R!Thrown("server", FALSE) /\ "exception" \in reported'
           \/ outcome' = R!Thrown("server", TRUE) /\ "exception" \in reported' /\ running = "collect_error"
    <3>1. calling.error_handler \in {"none", "returns_false", "returns_true", "throws"}
      BY DEF ResponsesInv, ResponsesTypes, R!Callers
    <3>2. CASE running = "collect_error"
      BY <2>1, <3>2 DEF R!Fails, R!Ends, ReportType
    <3>3. CASE running = "main" /\ calling.has_error_parameter
      BY <2>1, <3>3 DEF R!Fails, R!Ends, ReportType
    <3>4. CASE running # "collect_error" /\ ~(running = "main" /\ calling.has_error_parameter)
      BY <2>1, <3>1, <3>4 DEF R!Fails, R!Throw_if_error, R!Ends, ReportType
    <3> QED
      BY <3>2, <3>3, <3>4
  <2>3. ResponsesTypes'
    BY <1>2, <1>4, <2>2, OutcomeTypes DEF ResponsesInv, ResponsesTypes
  <2>4. CallInv'
    BY <1>2, <1>4, <2>2 DEF ResponsesInv, CallInv, R!Returned, R!Thrown
  <2> QED
    BY <1>2, <1>3, <1>4, <1>6, <1>8, <2>2, <2>3, <2>4 DEF ResponsesInv, ReportInv
<1> QED
  BY <1>7, <1>8

LEMMA ResponsesStep ==
  ASSUME ResponsesInv, [R!Next]_responsesVars
  PROVE  ResponsesInv'
<1>1. CASE R!Execute
  BY <1>1, ExecuteStep
<1>2. CASE R!Process_responses
  <2>1. ResponsesTypes'
    BY <1>2, OutcomeTypes DEF R!Process_responses, ResponsesInv, ResponsesTypes
  <2>2. ComingInv' /\ GivenInv' /\ ReportInv'
    BY <1>2 DEF R!Process_responses, ResponsesInv, ComingInv, GivenInv, ReportInv
  <2>3. CallInv'
    BY <1>2 DEF R!Process_responses, CallInv, R!NoOutcome
  <2> QED
    BY <2>1, <2>2, <2>3 DEF ResponsesInv
<1>3. CASE R!Row_continues \/ R!Row_completes \/ R!Row_suspends \/ R!Row_throws
  BY <1>3, RowStep DEF R!Row_continues, R!Row_completes, R!Row_suspends, R!Row_throws
<1>4. CASE R!Row_ignored
  BY <1>4, IgnoredStep
<1>5. CASE R!Completes_nothing
  <2>1. ResponsesTypes'
    BY <1>5, OutcomeTypes DEF R!Completes_nothing, R!Ends, ResponsesInv, ResponsesTypes
  <2>2. ComingInv' /\ GivenInv' /\ ReportInv'
    BY <1>5 DEF R!Completes_nothing, R!Ends, ResponsesInv, ComingInv, GivenInv, ReportInv
  <2>3. CallInv'
    BY <1>5 DEF R!Completes_nothing, R!Ends, R!Returned, ResponsesInv, ResponsesTypes, ComingInv, CallInv
  <2> QED
    BY <2>1, <2>2, <2>3 DEF ResponsesInv
<1>6. CASE R!Completes \/ R!Fails
  BY <1>6, EndStep DEF R!Completes, R!Fails
<1>7. CASE UNCHANGED responsesVars
  BY <1>7 DEF responsesVars, ResponsesInv, ResponsesTypes, ComingInv, GivenInv, CallInv, ReportInv
<1> QED
  BY <1>1, <1>2, <1>3, <1>4, <1>5, <1>6, <1>7 DEF R!Next

LEMMA ResponsesHold == ResponsesInv => R!RowsKept /\ R!ErrorsReported
<1> SUFFICES ASSUME ResponsesInv
             PROVE  R!RowsKept /\ R!ErrorsReported
  OBVIOUS
<1> USE DEF ResponsesInv
<1>1. given = [k \in 1..Len(given) |-> k]
  BY DEF ResponsesTypes, GivenInv
<1>2. ASSUME running = "none", requests_ = 1
      PROVE  Head(coming) \in {R!Row(Len(given) + 1), R!Completion, R!Error}
  BY <1>2 DEF ResponsesTypes, ComingInv
<1>3. R!RowsKept
  BY <1>1, <1>2 DEF ResponsesTypes, ComingInv, CallInv, R!RowsKept
<1>4. R!ErrorsReported
  BY DEF ResponsesTypes, ComingInv, CallInv, ReportInv, R!ErrorsReported, ReportType
<1> QED
  BY <1>3, <1>4

-----------------------------------------------------------------------------
(* Large objects: which descriptors are open in the transactions that go   *)
(* on, and which objects have them.                                        *)

SessionType == [connected : BOOLEAN, transaction : Nat, aborted : BOOLEAN, open : SUBSET Nat]
HandleType == [conn : {0, 1, 2}, desc : {-1} \union Nat]

LargeObjectsTypes ==
  /\ sessions \in [L!Address -> SessionType]
  /\ objects \in [L!LargeObject -> HandleType]
  /\ origin \in [L!LargeObject -> Nat]
  /\ began \in Nat

\* A transaction is of one connection, and the transactions to come are of none.
OneTransaction ==
  /\ \A c \in L!Address : sessions[c].transaction <= began /\ MaxDescriptor \notin sessions[c].open
  /\ \A c, d \in L!Address :
       c # d /\ sessions[c].transaction # 0 => sessions[c].transaction # sessions[d].transaction

\* What has been opened in a transaction that goes on is open, whichever connection has it now.
OpenInOwn ==
  \A o \in L!LargeObject, c \in L!Address :
    L!Is_valid(objects[o]) /\ L!InTransaction(sessions[c]) /\ sessions[c].transaction = origin[o] =>
      objects[o].desc \in sessions[c].open

OwnedOnce ==
  \A o, p \in L!LargeObject :
    /\ o # p /\ L!Is_valid(objects[o]) /\ L!Is_valid(objects[p])
    /\ origin[o] = origin[p] /\ objects[o].desc = objects[p].desc
    => origin[o] \in copied

LargeObjectsInv ==
  /\ LargeObjectsTypes /\ OneTransaction /\ OpenInOwn /\ OwnedOnce
  /\ \A o \in L!LargeObject : origin[o] <= began

LEMMA LargeObjectsStart == L!LoInit => LargeObjectsInv
BY ObjectsAssumption
DEF L!LoInit, LargeObjectsInv, LargeObjectsTypes, OneTransaction, OpenInOwn, OwnedOnce, L!NoSession,
    L!Invalid, L!Is_valid,
    L!InTransaction, SessionType, HandleType, L!Address, L!LargeObject

\* The least descriptor that is free.
LEMMA LeastFree ==
  ASSUME NEW open \in SUBSET Nat, MaxDescriptor \notin open
  PROVE  /\ L!Min((0..MaxDescriptor) \ open) \in Nat
         /\ L!Min((0..MaxDescriptor) \ open) \notin open
<1> DEFINE free == (0..MaxDescriptor) \ open
<1>1. free \in SUBSET Nat /\ MaxDescriptor \in free
  BY ObjectsAssumption
<1> DEFINE less == OpToRel(<, Nat)
<1>2. PICK n \in free : \A m \in free : <<m, n>> \notin less
  <2> HIDE DEF free, less
  <2>1. IsWellFoundedOn(less, Nat)
    BY NatLessThanWellFounded DEF less
  <2> QED
    BY <1>1, <2>1, WFMin
<1>3. \A m \in free : n <= m
  <2>1. less = {ss \in Nat \X Nat : ss[1] < ss[2]}
    BY Zenon DEF OpToRel
  <2> HIDE DEF less
  <2> TAKE m \in free
  <2>2. m \in Nat /\ n \in Nat /\ <<m, n>> \notin less
    BY <1>1, <1>2
  <2>3. <<m, n>> \in Nat \X Nat /\ <<m, n>>[1] = m /\ <<m, n>>[2] = n
    BY <2>2
  <2>4. ~(<<m, n>>[1] < <<m, n>>[2])
    BY <2>1, <2>2, <2>3, Zenon
  <2> QED
    BY <2>2, <2>3, <2>4
<1>4. L!Min(free) \in free
  BY <1>3 DEF L!Min
<1> QED
  BY <1>1, <1>4

-----------------------------------------------------------------------------

\* What a call may do to sessions: a transaction may end or be aborted, and is otherwise left
\* with the descriptors that it had.
TransactionsKept(before, after) ==
  /\ after \in [L!Address -> SessionType]
  /\ \A c \in L!Address :
       /\ after[c].transaction \in {0, before[c].transaction}
       /\ MaxDescriptor \notin after[c].open
       /\ L!InTransaction(after[c]) => L!InTransaction(before[c]) /\ before[c].open \subseteq after[c].open

LEMMA FailedSession ==
  ASSUME NEW s \in SessionType
  PROVE  /\ L!Failed(s) \in SessionType /\ ~L!InTransaction(L!Failed(s))
         /\ L!Failed(s).transaction = s.transaction /\ L!Failed(s).open = s.open
BY DEF SessionType, L!Failed, L!InTransaction

LEMMA ClosedSession ==
  ASSUME NEW s \in SessionType, NEW desc \in Nat
  PROVE  /\ L!Lo_close(s, desc) \in SessionType
         /\ L!Lo_close(s, desc).transaction = s.transaction
         /\ L!Lo_close(s, desc).open \subseteq s.open
         /\ L!Closes(s, desc) => ~L!Closes(L!Lo_close(s, desc), desc)
         /\ ~L!Closes(s, desc) => ~L!InTransaction(L!Lo_close(s, desc))
<1>1. CASE L!Closes(s, desc)
  BY <1>1 DEF SessionType, L!Lo_close, L!Closes
<1>2. CASE ~L!Closes(s, desc)
  BY <1>2, FailedSession DEF L!Lo_close
<1> QED
  BY <1>1, <1>2

\* Each close() aborts the transaction: if it has closed the descriptor, by closing it again.
LEMMA ClosedTransactions ==
  ASSUME NEW cs \in [L!Address -> SessionType], NEW lo \in HandleType,
         \A c \in L!Address : MaxDescriptor \notin cs[c].open
  PROVE  /\ TransactionsKept(cs, L!Closed(cs, lo))
         /\ \A c \in L!Address : L!Closed(cs, lo)[c].transaction = cs[c].transaction
<1>1. CASE ~L!Is_valid(lo)
  BY <1>1 DEF L!Closed, TransactionsKept
<1>2. CASE L!Is_valid(lo)
  <2> DEFINE d == lo.conn
             s == L!Lo_close(cs[d], lo.desc)
             u == L!Lo_close(s, lo.desc)
             once == [cs EXCEPT ![d] = s]
             twice == [once EXCEPT ![d] = u]
  <2>1. d \in L!Address /\ lo.desc \in Nat /\ cs[d] \in SessionType
    BY <1>2 DEF L!Is_valid, HandleType, L!Address
  <2>2. /\ s \in SessionType /\ s.transaction = cs[d].transaction /\ s.open \subseteq cs[d].open
        /\ u \in SessionType /\ u.transaction = s.transaction /\ u.open \subseteq s.open
        /\ L!Closes(cs[d], lo.desc) => ~L!InTransaction(u)
        /\ ~L!Closes(cs[d], lo.desc) => ~L!InTransaction(s)
    BY <2>1, ClosedSession
  <2>3. L!Closed(cs, lo) = IF L!Closes(cs[d], lo.desc) THEN [once EXCEPT ![d] = L!Lo_close(@, lo.desc)] ELSE once
    BY <1>2 DEF L!Closed
  <2>4. once[d] = s /\ [once EXCEPT ![d] = L!Lo_close(@, lo.desc)] = twice
    BY <2>1
  <2> HIDE DEF s, u
  <2>5. CASE L!Closes(cs[d], lo.desc)
    <3>1. L!Closed(cs, lo) = twice
      BY <2>3, <2>4, <2>5
    <3>2. twice \in [L!Address -> SessionType] /\ twice[d] = u /\ \A c \in L!Address \ {d} : twice[c] = cs[c]
      BY <2>1, <2>2
    <3> HIDE DEF twice
    <3> QED
      BY <2>1, <2>2, <2>5, <3>1, <3>2 DEF TransactionsKept
  <2>6. CASE ~L!Closes(cs[d], lo.desc)
    <3>1. L!Closed(cs, lo) = once
      BY <2>3, <2>6
    <3>2. once \in [L!Address -> SessionType] /\ once[d] = s /\ \A c \in L!Address \ {d} : once[c] = cs[c]
      BY <2>1, <2>2
    <3> HIDE DEF once
    <3> QED
      BY <2>1, <2>2, <2>6, <3>1, <3>2 DEF TransactionsKept
  <2> QED
    BY <2>5, <2>6
<1> QED
  BY <1>1, <1>2

\* The invariant, but OwnedOnce, depends on sessions by this only.
LEMMA KeptStep ==
  ASSUME LargeObjectsInv, TransactionsKept(sessions, sessions'), began' = began,
         objects' \in [L!LargeObject -> HandleType], origin' \in [L!LargeObject -> Nat],
         \A o \in L!LargeObject : origin'[o] <= began,
         \A o \in L!LargeObject : L!Is_valid(objects'[o]) =>
           \E p \in L!LargeObject : /\ L!Is_valid(objects[p])
                                  /\ objects'[o].desc = objects[p].desc /\ origin'[o] = origin[p],
         OwnedOnce'
  PROVE  LargeObjectsInv'
<1>1. LargeObjectsTypes'
  BY DEF LargeObjectsInv, LargeObjectsTypes, TransactionsKept
<1>2. OneTransaction'
  <2>1. \A c \in L!Address : sessions'[c].transaction <= began'
    BY DEF LargeObjectsInv, LargeObjectsTypes, OneTransaction, TransactionsKept, SessionType
  <2> QED
    BY <2>1 DEF LargeObjectsInv, LargeObjectsTypes, OneTransaction, TransactionsKept
<1>3. OpenInOwn'
  <2> SUFFICES ASSUME NEW o \in L!LargeObject, NEW c \in L!Address, L!Is_valid(objects'[o]),
                      L!InTransaction(sessions'[c]), sessions'[c].transaction = origin'[o]
               PROVE  objects'[o].desc \in sessions'[c].open
    BY DEF OpenInOwn
  <2>1. PICK p \in L!LargeObject : /\ L!Is_valid(objects[p])
                                 /\ objects'[o].desc = objects[p].desc /\ origin'[o] = origin[p]
    OBVIOUS
  <2>2. /\ L!InTransaction(sessions[c]) /\ sessions[c].open \subseteq sessions'[c].open
        /\ sessions[c].transaction = sessions'[c].transaction
    BY DEF TransactionsKept, L!InTransaction
  <2> QED
    BY <2>1, <2>2 DEF LargeObjectsInv, OpenInOwn
<1> QED
  BY <1>1, <1>2, <1>3 DEF LargeObjectsInv

LEMMA SessionsStep ==
  ASSUME LargeObjectsInv, TransactionsKept(sessions, sessions'), UNCHANGED <<objects, origin, copied, began>>
  PROVE  LargeObjectsInv'
<1>1. OwnedOnce'
  BY DEF LargeObjectsInv, OwnedOnce
<1> QED
  BY <1>1, KeptStep DEF LargeObjectsInv, LargeObjectsTypes

LEMMA OneSessionStep ==
  ASSUME LargeObjectsInv, NEW c \in L!Address, NEW s \in SessionType, sessions' = [sessions EXCEPT ![c] = s],
         s.transaction \in {0, sessions[c].transaction}, MaxDescriptor \notin s.open, ~L!InTransaction(s),
         UNCHANGED <<objects, origin, copied, began>>
  PROVE  LargeObjectsInv'
<1>1. /\ sessions' \in [L!Address -> SessionType] /\ sessions'[c] = s
      /\ \A d \in L!Address \ {c} : sessions'[d] = sessions[d]
  BY DEF LargeObjectsInv, LargeObjectsTypes
<1>2. TransactionsKept(sessions, sessions')
  BY <1>1 DEF LargeObjectsInv, OneTransaction, TransactionsKept
<1> QED
  BY <1>2, SessionsStep

LEMMA SessionTypes ==
  /\ L!Idle \in SessionType /\ L!NoSession \in SessionType
  /\ ~L!InTransaction(L!Idle) /\ ~L!InTransaction(L!NoSession)
  /\ L!Idle.transaction = 0 /\ L!NoSession.transaction = 0 /\ L!Idle.open = {} /\ L!NoSession.open = {}
BY DEF L!Idle, L!NoSession, SessionType, L!InTransaction

LEMMA ConnectionActions ==
  ASSUME LargeObjectsInv, NEW c \in L!Address,
         L!Connect(c) \/ L!Disconnect(c) \/ L!End(c) \/ L!Large_object_function(c)
  PROVE  LargeObjectsInv'
<1>1. sessions[c] \in SessionType /\ MaxDescriptor \notin sessions[c].open
  BY DEF LargeObjectsInv, LargeObjectsTypes, OneTransaction
<1>2. CASE L!Large_object_function(c)
  BY <1>1, <1>2, FailedSession, OneSessionStep DEF L!Large_object_function
<1>3. CASE L!Connect(c) \/ L!Disconnect(c) \/ L!End(c)
  BY <1>1, <1>3, SessionTypes, OneSessionStep DEF L!Connect, L!Disconnect, L!End
<1> QED
  BY <1>2, <1>3

LEMMA UseStep ==
  ASSUME LargeObjectsInv, NEW o \in L!LargeObject, L!Use(o)
  PROVE  LargeObjectsInv'
<1> DEFINE c == objects[o].conn
<1>1. c \in L!Address /\ sessions[c] \in SessionType /\ MaxDescriptor \notin sessions[c].open
  BY DEF L!Use, LargeObjectsInv, LargeObjectsTypes, OneTransaction, L!Is_valid, HandleType, L!Address
<1>2. CASE UNCHANGED sessions
  BY <1>2 DEF L!Use, LargeObjectsInv, LargeObjectsTypes, OneTransaction, OpenInOwn, OwnedOnce
<1>3. CASE sessions' = [sessions EXCEPT ![c] = L!Failed(@)]
  BY <1>1, <1>3, FailedSession, OneSessionStep DEF L!Use
<1> QED
  BY <1>2, <1>3 DEF L!Use

LEMMA BeginStep ==
  ASSUME LargeObjectsInv, NEW c \in L!Address, L!Begin(c)
  PROVE  LargeObjectsInv'
<1> DEFINE s == [L!Idle EXCEPT !.transaction = began + 1]
<1>1. s \in SessionType /\ s.transaction = began + 1 /\ s.open = {}
  BY SessionTypes DEF LargeObjectsInv, LargeObjectsTypes, SessionType
<1>2. sessions' = [sessions EXCEPT ![c] = s]
  BY DEF L!Begin
<1> HIDE DEF s
<1>3. /\ sessions' \in [L!Address -> SessionType] /\ sessions'[c] = s
      /\ \A d \in L!Address \ {c} : sessions'[d] = sessions[d]
  BY <1>1, <1>2 DEF LargeObjectsInv, LargeObjectsTypes
<1>4. began' = began + 1 /\ began \in Nat /\ UNCHANGED <<objects, origin, copied>>
  BY DEF L!Begin, LargeObjectsInv, LargeObjectsTypes
<1>5. LargeObjectsTypes'
  BY <1>3, <1>4 DEF LargeObjectsInv, LargeObjectsTypes
<1>6. \A d \in L!Address : sessions[d].transaction \in Nat /\ sessions[d].transaction <= began
  BY DEF LargeObjectsInv, LargeObjectsTypes, OneTransaction, SessionType
<1>7. OneTransaction'
  BY <1>1, <1>3, <1>4, <1>6 DEF LargeObjectsInv, OneTransaction
<1>8. OpenInOwn'
  <2> SUFFICES ASSUME NEW o \in L!LargeObject, NEW d \in L!Address, L!Is_valid(objects'[o]),
                      L!InTransaction(sessions'[d]), sessions'[d].transaction = origin'[o]
               PROVE  objects'[o].desc \in sessions'[d].open
    BY DEF OpenInOwn
  <2>1. d # c
    BY <1>1, <1>3, <1>4 DEF LargeObjectsInv, LargeObjectsTypes
  <2> QED
    BY <1>3, <1>4, <2>1 DEF LargeObjectsInv, OpenInOwn
<1>9. OwnedOnce' /\ \A o \in L!LargeObject : origin'[o] <= began'
  BY <1>4 DEF LargeObjectsInv, LargeObjectsTypes, OwnedOnce
<1> QED
  BY <1>5, <1>7, <1>8, <1>9 DEF LargeObjectsInv

LEMMA SwapConnectionsStep ==
  ASSUME LargeObjectsInv, L!Swap_connections
  PROVE  LargeObjectsInv'
<1>1. \A c \in L!Address : 3 - c \in L!Address /\ 3 - (3 - c) = c
  BY DEF L!Address
<1>2. sessions' \in [L!Address -> SessionType] /\ \A c \in L!Address : sessions'[c] = sessions[3 - c]
  BY <1>1 DEF L!Swap_connections, LargeObjectsInv, LargeObjectsTypes
<1>3. UNCHANGED <<objects, origin, copied, began>>
  BY DEF L!Swap_connections
<1>4. OneTransaction'
  <2>1. \A c, d \in L!Address : c # d => 3 - c # 3 - d
    BY DEF L!Address
  <2> QED
    BY <1>1, <1>2, <1>3, <2>1 DEF LargeObjectsInv, OneTransaction
<1>5. OpenInOwn'
  BY <1>1, <1>2, <1>3 DEF LargeObjectsInv, OpenInOwn
<1> QED
  BY <1>2, <1>3, <1>4, <1>5 DEF LargeObjectsInv, LargeObjectsTypes, OwnedOnce

LEMMA ClosesTransactions ==
  ASSUME LargeObjectsInv, NEW o \in L!LargeObject
  PROVE  TransactionsKept(sessions, L!Closed(sessions, objects[o]))
BY ClosedTransactions DEF LargeObjectsInv, LargeObjectsTypes, OneTransaction

LEMMA InvalidHandle == L!Invalid \in HandleType /\ ~L!Is_valid(L!Invalid)
BY DEF L!Invalid, HandleType, L!Is_valid

LEMMA CloseStep ==
  ASSUME LargeObjectsInv, NEW o \in L!LargeObject, L!Close(o) \/ L!Destroy(o)
  PROVE  LargeObjectsInv'
<1>1. TransactionsKept(sessions, sessions') /\ UNCHANGED <<origin, copied, began>>
  BY ClosesTransactions DEF L!Close, L!Destroy
<1>2. objects' = [objects EXCEPT ![o] = L!Invalid] \/ objects' = [objects EXCEPT ![o] = objects[o]]
  BY DEF L!Close, L!Destroy
<1>3. /\ objects' \in [L!LargeObject -> HandleType]
      /\ \A p \in L!LargeObject : L!Is_valid(objects'[p]) => objects'[p] = objects[p]
  BY <1>2, InvalidHandle DEF LargeObjectsInv, LargeObjectsTypes
<1>4. OwnedOnce'
  BY <1>1, <1>3 DEF LargeObjectsInv, OwnedOnce
<1> QED
  BY <1>1, <1>3, <1>4, KeptStep DEF LargeObjectsInv, LargeObjectsTypes

LEMMA MoveStep ==
  ASSUME LargeObjectsInv, NEW o \in L!LargeObject, NEW p \in L!LargeObject, L!Move(o, p)
  PROVE  LargeObjectsInv'
<1>1. TransactionsKept(sessions, sessions') /\ UNCHANGED <<copied, began>> /\ o # p
  BY ClosesTransactions DEF L!Move
<1>2. /\ objects' \in [L!LargeObject -> HandleType] /\ origin' \in [L!LargeObject -> Nat]
      /\ objects'[o] = objects[p] /\ origin'[o] = origin[p] /\ objects'[p] = L!Invalid
      /\ \A q \in L!LargeObject : q # o => origin'[q] = origin[q]
      /\ \A q \in L!LargeObject \ {o, p} : objects'[q] = objects[q]
  BY <1>1, InvalidHandle DEF L!Move, LargeObjectsInv, LargeObjectsTypes
<1>3. OwnedOnce'
  <2>1. L!LargeObject = {o, p}
    BY <1>1 DEF L!LargeObject
  <2> QED
    BY <1>1, <1>2, <2>1, InvalidHandle DEF OwnedOnce
<1>4. \A q \in L!LargeObject : L!Is_valid(objects'[q]) =>
        \E r \in L!LargeObject : /\ L!Is_valid(objects[r])
                               /\ objects'[q].desc = objects[r].desc /\ origin'[q] = origin[r]
  BY <1>2, InvalidHandle
<1> QED
  BY <1>1, <1>2, <1>3, <1>4, KeptStep DEF LargeObjectsInv

LEMMA CopyStep ==
  ASSUME LargeObjectsInv, NEW o \in L!LargeObject, NEW p \in L!LargeObject, L!Copy(o, p)
  PROVE  LargeObjectsInv'
<1>1. TransactionsKept(sessions, sessions') /\ UNCHANGED <<sessions, began>> /\ o # p /\ L!Is_valid(objects[p])
  BY DEF L!Copy, LargeObjectsInv, LargeObjectsTypes, OneTransaction, TransactionsKept
<1>2. /\ objects' \in [L!LargeObject -> HandleType] /\ origin' \in [L!LargeObject -> Nat]
      /\ objects'[o] = objects[p] /\ origin'[o] = origin[p]
      /\ \A q \in L!LargeObject \ {o} : objects'[q] = objects[q] /\ origin'[q] = origin[q]
  BY <1>1 DEF L!Copy, LargeObjectsInv, LargeObjectsTypes
<1>3. OwnedOnce'
  <2>1. L!LargeObject = {o, p}
    BY <1>1 DEF L!LargeObject
  <2>2. copied' = copied \union {origin[p]}
    BY DEF L!Copy
  <2> QED
    BY <1>1, <1>2, <2>1, <2>2 DEF OwnedOnce
<1>4. \A q \in L!LargeObject : L!Is_valid(objects'[q]) =>
        \E r \in L!LargeObject : /\ L!Is_valid(objects[r])
                               /\ objects'[q].desc = objects[r].desc /\ origin'[q] = origin[r]
  BY <1>1, <1>2
<1> QED
  BY <1>1, <1>2, <1>3, <1>4, KeptStep DEF LargeObjectsInv

LEMMA SwapObjectsStep ==
  ASSUME LargeObjectsInv, NEW o \in L!LargeObject, NEW p \in L!LargeObject, L!Swap(o, p)
  PROVE  LargeObjectsInv'
<1>1. TransactionsKept(sessions, sessions') /\ UNCHANGED <<sessions, copied, began>> /\ o # p
  BY DEF L!Swap, LargeObjectsInv, LargeObjectsTypes, OneTransaction, TransactionsKept
<1>2. L!LargeObject = {o, p}
  BY <1>1 DEF L!LargeObject
<1>3. /\ objects' \in [L!LargeObject -> HandleType] /\ origin' \in [L!LargeObject -> Nat]
      /\ objects'[o] = objects[p] /\ origin'[o] = origin[p]
      /\ objects'[p] = objects[o] /\ origin'[p] = origin[o]
  BY <1>1, <1>2 DEF L!Swap, LargeObjectsInv, LargeObjectsTypes
<1>4. OwnedOnce'
  BY <1>1, <1>2, <1>3 DEF LargeObjectsInv, OwnedOnce
<1> QED
  BY <1>1, <1>2, <1>3, <1>4, KeptStep DEF LargeObjectsInv

\* The object that is assigned has a descriptor that no other object of the transaction has.
LEMMA OpenStep ==
  ASSUME LargeObjectsInv, NEW o \in L!LargeObject, NEW c \in L!Address, L!Open_large_object(o, c)
  PROVE  LargeObjectsInv'
<1> DEFINE s == sessions[c]
           desc == L!Min((0..MaxDescriptor) \ s.open)
           opened == [s EXCEPT !.open = @ \union {desc}]
           after == [sessions EXCEPT ![c] = opened]
           refused == [sessions EXCEPT ![c] = L!Failed(s)]
           lo == [conn |-> c, desc |-> desc]
           none == [conn |-> c, desc |-> -1]
<1>1. s \in SessionType /\ MaxDescriptor \notin s.open /\ s.transaction # 0 /\ s.transaction \in Nat
      /\ s.transaction <= began /\ UNCHANGED <<copied, began>>
  BY DEF L!Open_large_object, LargeObjectsInv, LargeObjectsTypes, OneTransaction, SessionType
<1>2. desc \in Nat /\ desc \notin s.open
  BY <1>1, LeastFree DEF SessionType
<1>3. \/ /\ L!InTransaction(s) /\ desc < MaxDescriptor
         /\ sessions' = L!Closed(after, objects[o]) /\ objects' = [objects EXCEPT ![o] = lo]
         /\ origin' = [origin EXCEPT ![o] = s.transaction]
      \/ /\ sessions' = L!Closed(refused, objects[o]) /\ objects' = [objects EXCEPT ![o] = none]
         /\ UNCHANGED origin
  BY DEF L!Open_large_object
<1> HIDE DEF desc
<1>4. objects[o] \in HandleType /\ none \in HandleType /\ ~L!Is_valid(none) /\ lo \in HandleType /\ L!Is_valid(lo)
      /\ lo.desc = desc
  BY <1>2 DEF LargeObjectsInv, LargeObjectsTypes, HandleType, L!Is_valid, L!Address
<1>5. CASE UNCHANGED origin /\ sessions' = L!Closed(refused, objects[o]) /\ objects' = [objects EXCEPT ![o] = none]
  <2>1. /\ refused \in [L!Address -> SessionType] /\ refused[c] = L!Failed(s)
        /\ \A d \in L!Address \ {c} : refused[d] = sessions[d]
    BY <1>1, FailedSession DEF LargeObjectsInv, LargeObjectsTypes
  <2>2. \A d \in L!Address : MaxDescriptor \notin refused[d].open
    BY <1>1, <2>1, FailedSession DEF LargeObjectsInv, OneTransaction
  <2>3. TransactionsKept(sessions, refused)
    BY <1>1, <2>1, <2>2, FailedSession DEF LargeObjectsInv, TransactionsKept
  <2> HIDE DEF refused
  <2>4. TransactionsKept(sessions, sessions')
    BY <1>4, <1>5, <2>1, <2>2, <2>3, ClosedTransactions DEF TransactionsKept
  <2> HIDE DEF none
  <2>5. /\ objects' \in [L!LargeObject -> HandleType]
        /\ \A p \in L!LargeObject : L!Is_valid(objects'[p]) => objects'[p] = objects[p]
    BY <1>4, <1>5 DEF LargeObjectsInv, LargeObjectsTypes
  <2>6. OwnedOnce'
    BY <1>1, <1>5, <2>5 DEF LargeObjectsInv, OwnedOnce
  <2> QED
    BY <1>1, <1>5, <2>4, <2>5, <2>6, KeptStep DEF LargeObjectsInv, LargeObjectsTypes
<1>6. CASE /\ L!InTransaction(s) /\ desc < MaxDescriptor
           /\ sessions' = L!Closed(after, objects[o]) /\ objects' = [objects EXCEPT ![o] = lo]
           /\ origin' = [origin EXCEPT ![o] = s.transaction]
  <2>1. /\ opened \in SessionType /\ opened.open = s.open \union {desc}
        /\ opened.transaction = s.transaction /\ L!InTransaction(opened)
    BY <1>1, <1>2, <1>6 DEF SessionType, L!InTransaction
  <2> HIDE DEF opened
  <2>2. /\ after \in [L!Address -> SessionType] /\ after[c] = opened
        /\ \A d \in L!Address \ {c} : after[d] = sessions[d]
    BY <2>1 DEF LargeObjectsInv, LargeObjectsTypes
  <2>3. \A d \in L!Address : MaxDescriptor \notin after[d].open
    BY <1>1, <1>2, <1>6, <2>1, <2>2, ObjectsAssumption
    DEF LargeObjectsInv, OneTransaction, ObjectsAssumption
  <2> HIDE DEF after
  <2>4. TransactionsKept(after, sessions') /\ \A d \in L!Address : sessions'[d].transaction = after[d].transaction
    BY <1>4, <1>6, <2>2, <2>3, ClosedTransactions
  <2> HIDE DEF lo
  <2>5. /\ objects' \in [L!LargeObject -> HandleType] /\ objects'[o] = lo /\ origin'[o] = s.transaction
        /\ origin' \in [L!LargeObject -> Nat]
        /\ \A p \in L!LargeObject \ {o} : objects'[p] = objects[p] /\ origin'[p] = origin[p]
    BY <1>1, <1>4, <1>6 DEF LargeObjectsInv, LargeObjectsTypes
  <2>6. LargeObjectsTypes'
    BY <1>1, <2>4, <2>5 DEF LargeObjectsInv, LargeObjectsTypes, TransactionsKept
  <2>7. \A d \in L!Address : sessions'[d].transaction = sessions[d].transaction
    BY <2>1, <2>2, <2>4
  <2>8. OneTransaction'
    BY <1>1, <2>4, <2>7 DEF LargeObjectsInv, OneTransaction, TransactionsKept
  <2>9. OpenInOwn'
    <3> SUFFICES ASSUME NEW p \in L!LargeObject, NEW d \in L!Address, L!Is_valid(objects'[p]),
                        L!InTransaction(sessions'[d]), sessions'[d].transaction = origin'[p]
                 PROVE  objects'[p].desc \in sessions'[d].open
      BY DEF OpenInOwn
    <3>1. L!InTransaction(after[d]) /\ after[d].open \subseteq sessions'[d].open
      BY <2>4 DEF TransactionsKept
    <3>2. CASE p = o
      <4>1. d = c
        BY <1>1, <2>5, <2>7, <3>2 DEF LargeObjectsInv, OneTransaction
      <4> QED
        BY <1>4, <2>1, <2>2, <2>5, <3>1, <3>2, <4>1
    <3>3. CASE p # o
      <4>1. objects'[p] = objects[p] /\ origin'[p] = origin[p]
        BY <2>5, <3>3
      <4>2. L!InTransaction(sessions[d]) /\ sessions[d].open \subseteq after[d].open
        BY <1>6, <2>1, <2>2, <3>1
      <4> QED
        BY <2>7, <3>1, <4>1, <4>2 DEF LargeObjectsInv, OpenInOwn
    <3> QED
      BY <3>2, <3>3
  <2>10. OwnedOnce'
    <3>1. ASSUME NEW p \in L!LargeObject \ {o}, L!Is_valid(objects[p]), origin[p] = s.transaction
          PROVE  objects[p].desc # desc
      BY <1>2, <1>6, <3>1 DEF LargeObjectsInv, OpenInOwn
    <3> QED
      BY <1>1, <1>4, <2>5, <3>1 DEF LargeObjectsInv, OwnedOnce
  <2>11. \A p \in L!LargeObject : origin'[p] <= began'
    BY <1>1, <2>5 DEF LargeObjectsInv
  <2> QED
    BY <2>6, <2>8, <2>9, <2>10, <2>11 DEF LargeObjectsInv
<1> QED
  BY <1>3, <1>5, <1>6

LEMMA LargeObjectsStep ==
  ASSUME LargeObjectsInv, [L!LoNext]_objectsVars
  PROVE  LargeObjectsInv'
<1>1. CASE UNCHANGED objectsVars
  BY <1>1 DEF objectsVars, LargeObjectsInv, LargeObjectsTypes, OneTransaction, OpenInOwn, OwnedOnce
<1>2. CASE L!LoNext
  BY <1>2, SwapConnectionsStep, ConnectionActions, BeginStep, OpenStep, CloseStep, UseStep, MoveStep,
      CopyStep,
     SwapObjectsStep DEF L!LoNext
<1> QED
  BY <1>1, <1>2

LEMMA LargeObjectsHold == LargeObjectsInv => L!DescriptorsOwned
<1> SUFFICES ASSUME LargeObjectsInv
             PROVE  L!DescriptorsOwned
  OBVIOUS
<1>1. ASSUME NEW o \in L!LargeObject, L!InOwn(o), ~sessions[objects[o].conn].aborted
      PROVE  objects[o].desc \in sessions[objects[o].conn].open
  <2>1. objects[o].conn \in L!Address
    BY <1>1 DEF L!InOwn, L!Is_valid, LargeObjectsInv, LargeObjectsTypes, HandleType, L!Address
  <2> QED
    BY <1>1, <2>1 DEF L!InOwn, L!InTransaction, LargeObjectsInv, OpenInOwn
<1>2. ASSUME NEW o \in L!LargeObject, NEW p \in L!LargeObject,
             o # p, L!InOwn(o), L!InOwn(p), objects[o] = objects[p]
      PROVE  origin[o] \in copied
  BY <1>2 DEF L!InOwn, LargeObjectsInv, OwnedOnce
<1> QED
  BY <1>1, <1>2 DEF L!DescriptorsOwned

-----------------------------------------------------------------------------
(* Bindings: what SQLite refers to is what has been asked for, and what an *)
(* object owns is allocated.                                               *)

BlockType == {"none", "freed"} \union I!Bytes
BoundType ==
  [how : {"null", "static", "transient"}, block : I!Block \union {I!NoBlock}, bytes : BlockType \union {"null"}]
AskedType == [bytes : BlockType \union {"null"}, constant : SUBSET I!Block, lost : BOOLEAN]

BindingsTypes ==
  /\ blocks \in [I!Block -> BlockType]
  /\ datas \in [I!DataObject -> [data : I!Block \union {I!NoBlock}, deleter : {"static", "free"}]]
  /\ bound \in [{1, 2} -> BoundType]
  /\ requested \in [{"a", "b"} -> AskedType]

\* Memory has one owner, which is the only object that refers to it.
MemoryInv ==
  /\ \A o \in I!DataObject : datas[o] # I!NoData => datas[o].data \in I!Block
  /\ \A o \in I!DataObject : I!Is_data_owner(datas[o]) => I!Allocated(datas[o].data)
  /\ datas[1].data = datas[2].data => datas[1].data = I!NoBlock

\* What a parameter is bound with is what has been asked for, memory being as it is.
Fits(what, ask, memory) ==
  /\ what.how = "static" =>
       what.block \in I!Block /\ ask.constant = {what.block} /\ ~ask.lost /\ memory[what.block] = ask.bytes
  /\ what.how # "static" => what.bytes = IF ask.lost THEN "null" ELSE ask.bytes

FitInv == Fits(bound[1], requested["a"], blocks) /\ Fits(bound[2], requested["b"], blocks)

BindingsInv == BindingsTypes /\ MemoryInv /\ FitInv /\ ~freed_again

LEMMA ParameterFacts ==
  /\ DOMAIN I!Parameter = {1, 2} /\ I!Parameter_count = 2
  /\ I!Parameter[1] = "a" /\ I!Parameter[2] = "b" /\ I!Names = {"a", "b"}
<1>1. DOMAIN I!Parameter = 1..2 /\ I!Parameter[1] = "a" /\ I!Parameter[2] = "b" /\ Len(I!Parameter) = 2
  BY DEF I!Parameter
<1>2. 1..2 = {1, 2}
  OBVIOUS
<1> HIDE DEF I!Parameter
<1>3. I!Names = {"a", "b"}
  BY <1>1, <1>2 DEF I!Names, I!ToSet
<1> QED
  BY <1>1, <1>2, <1>3 DEF I!Parameter_count

LEMMA ParameterIndices ==
  I!Parameter_index("a") = 0 /\ I!Parameter_index("b") = 1 /\ I!Parameter_index("c") = -1
<1> DEFINE Found(name) == {i \in {1, 2} : I!Parameter[i] = name}
<1>1. Found("a") = {1} /\ Found("b") = {2} /\ Found("c") = {}
  BY ParameterFacts
<1>2. \A i \in Int : I!Min({i}) = i
  BY DEF I!Min
<1>3. {1} # {} /\ {2} # {} /\ I!Min({1}) = 1 /\ I!Min({2}) = 2
  BY <1>2
<1> QED
  BY <1>1, <1>3, ParameterFacts DEF I!Parameter_index

LEMMA BindingsStart == I!BindingsInit => BindingsInv
<1> SUFFICES ASSUME I!BindingsInit
             PROVE  BindingsInv
  OBVIOUS
<1>1. BindingsTypes
  BY ParameterFacts
  DEF I!BindingsInit, BindingsTypes, BlockType, BoundType, AskedType, I!Null, I!NullAsked, I!NoData,
      I!NoBlock
<1>2. MemoryInv
  BY DEF I!BindingsInit, MemoryInv, I!NoData, I!Is_data_owner, I!DataObject
<1>3. FitInv /\ ~freed_again
  BY ParameterFacts DEF I!BindingsInit, FitInv, Fits, I!Null, I!NullAsked
<1> QED
  BY <1>1, <1>2, <1>3 DEF BindingsInv

\* Memory is changed that is not kept for a parameter.
LEMMA MemoryChanged ==
  ASSUME BindingsInv, NEW b \in I!Block, ~I!Constant(b), NEW x \in BlockType,
         blocks' = [blocks EXCEPT ![b] = x], UNCHANGED <<bound, requested>>
  PROVE  FitInv' /\ blocks' \in [I!Block -> BlockType]
<1>1. b \notin requested["a"].constant /\ b \notin requested["b"].constant
  BY ParameterFacts DEF I!Constant
<1> QED
  BY <1>1 DEF BindingsInv, BindingsTypes, FitInv, Fits

\* A parameter is bound with what is asked for, while memory may be changed that is not
\* kept for the other one.
LEMMA ParameterBound ==
  ASSUME BindingsInv, NEW index \in {0, 1}, NEW what \in BoundType, NEW ask \in AskedType,
         I!Bound(index, what, ask), Fits(what, ask, blocks'),
         UNCHANGED blocks
           \/ \E b \in I!Block, x \in BlockType : ~I!Constant(b) /\ blocks' = [blocks EXCEPT ![b] = x]
  PROVE  FitInv' /\ bound' \in [{1, 2} -> BoundType] /\ requested' \in [{"a", "b"} -> AskedType]
<1>1. /\ bound' = [bound EXCEPT ![index + 1] = what]
      /\ requested' = [requested EXCEPT ![IF index = 0 THEN "a" ELSE "b"] = ask]
  <2>1. CASE index = 0
    <3>1. I!Parameter[index + 1] = "a" /\ (IF index = 0 THEN "a" ELSE "b") = "a"
      BY <2>1, ParameterFacts
    <3> QED
      BY <3>1 DEF I!Bound
  <2>2. CASE index = 1
    <3>1. I!Parameter[index + 1] = "b" /\ (IF index = 0 THEN "a" ELSE "b") = "b"
      BY <2>2, ParameterFacts
    <3> QED
      BY <3>1 DEF I!Bound
  <2> QED
    BY <2>1, <2>2
<1>2. bound' \in [{1, 2} -> BoundType] /\ requested' \in [{"a", "b"} -> AskedType]
  <2>1. bound \in [{1, 2} -> BoundType] /\ requested \in [{"a", "b"} -> AskedType]
    BY DEF BindingsInv, BindingsTypes
  <2> HIDE DEF BoundType, AskedType
  <2>2. CASE index = 0
    BY <1>1, <2>1, <2>2
  <2>3. CASE index = 1
    BY <1>1, <2>1, <2>3
  <2> QED
    BY <2>2, <2>3
<1>3. ASSUME NEW i \in {1, 2}, NEW name \in {"a", "b"}, Fits(bound[i], requested[name], blocks)
      PROVE  Fits(bound[i], requested[name], blocks')
  <2>1. CASE UNCHANGED blocks
    BY <1>3, <2>1
  <2>2. ASSUME NEW b \in I!Block, NEW x \in BlockType, ~I!Constant(b), blocks' = [blocks EXCEPT ![b] = x]
        PROVE  Fits(bound[i], requested[name], blocks')
    <3>1. b \notin requested[name].constant
      BY <2>2, ParameterFacts DEF I!Constant
    <3> QED
      BY <1>3, <2>2, <3>1 DEF Fits, BindingsInv, BindingsTypes
  <2> QED
    BY <2>1, <2>2
<1>4. CASE index = 0
  BY <1>1, <1>2, <1>3, <1>4 DEF BindingsInv, BindingsTypes, FitInv
<1>5. CASE index = 1
  BY <1>1, <1>2, <1>3, <1>5 DEF BindingsInv, BindingsTypes, FitInv
<1> QED
  BY <1>2, <1>4, <1>5

\* The owner of memory is destroyed, of which nothing is kept for a parameter.
LEMMA OwnerDeleted ==
  ASSUME BindingsInv, NEW o \in I!DataObject, I!Deleted(datas[o]), ~I!Constant(datas[o].data)
  PROVE  /\ ~freed_again'
         /\ \/ UNCHANGED blocks
            \/ datas[o].data \in I!Block /\ blocks' = [blocks EXCEPT ![datas[o].data] = "freed"]
<1>1. I!Is_data_owner(datas[o]) => I!Allocated(datas[o].data)
  BY DEF BindingsInv, MemoryInv
<1>2. CASE I!Is_data_owner(datas[o])
  BY <1>1, <1>2 DEF I!Deleted, I!Allocated, BindingsInv
<1>3. CASE ~I!Is_data_owner(datas[o])
  BY <1>3 DEF I!Deleted, BindingsInv
<1> QED
  BY <1>2, <1>3

\* The memory that an object refers to is freed: that of another one is not.
LEMMA OthersAllocated ==
  ASSUME BindingsInv, NEW o \in I!DataObject, NEW p \in I!DataObject, o # p, I!Is_data_owner(datas[p]),
         \/ UNCHANGED blocks
         \/ datas[o].data \in I!Block /\ blocks' = [blocks EXCEPT ![datas[o].data] = "freed"]
  PROVE  datas[p].data \in I!Block /\ blocks'[datas[p].data] \in I!Bytes
<1>1. datas[p].data \in I!Block /\ blocks[datas[p].data] \in I!Bytes
  BY DEF BindingsInv, MemoryInv, I!Allocated
<1>2. datas[p].data # datas[o].data
  BY <1>1 DEF BindingsInv, MemoryInv, I!DataObject, I!Block, I!NoBlock
<1> QED
  BY <1>1, <1>2 DEF BindingsInv, BindingsTypes

\* A step in which memory is as it was, or some is changed of which nothing is kept.
LEMMA DataChanged ==
  ASSUME BindingsInv, UNCHANGED <<bound, requested>>, ~freed_again',
         UNCHANGED blocks
           \/ \E b \in I!Block, x \in BlockType : ~I!Constant(b) /\ blocks' = [blocks EXCEPT ![b] = x],
         datas' \in [I!DataObject -> [data : I!Block \union {I!NoBlock}, deleter : {"static", "free"}]], MemoryInv'
  PROVE  BindingsInv'
<1>1. FitInv' /\ blocks' \in [I!Block -> BlockType]
  <2>1. CASE UNCHANGED blocks
    BY <2>1 DEF BindingsInv, BindingsTypes, FitInv
  <2>2. CASE \E b \in I!Block, x \in BlockType : ~I!Constant(b) /\ blocks' = [blocks EXCEPT ![b] = x]
    BY <2>2, MemoryChanged
  <2> QED
    BY <2>1, <2>2
<1>2. BindingsTypes'
  BY <1>1 DEF BindingsInv, BindingsTypes
<1> QED
  BY <1>1, <1>2 DEF BindingsInv

\* A step in which no object is changed.
LEMMA ParametersChanged ==
  ASSUME BindingsInv, UNCHANGED <<datas, freed_again>>, FitInv',
         bound' \in [{1, 2} -> BoundType], requested' \in [{"a", "b"} -> AskedType],
         UNCHANGED blocks \/ \E b \in I!Block : ~I!Refers(b) /\ blocks' = [blocks EXCEPT ![b] = "freed"]
  PROVE  BindingsInv'
<1>1. BindingsTypes'
  BY DEF BindingsInv, BindingsTypes, BlockType
<1>2. MemoryInv'
  BY DEF BindingsInv, BindingsTypes, MemoryInv, I!Allocated, I!Is_data_owner, I!Refers, BlockType
<1> QED
  BY <1>1, <1>2 DEF BindingsInv

LEMMA DataSteps ==
  ASSUME BindingsInv, NEW o \in I!DataObject,
         \/ \E b \in I!Block, bytes \in I!Bytes : I!Write(b, bytes)
         \/ \E b \in I!Block, deleter \in {"static", "free"} : I!Data(o, b, deleter)
         \/ \E p \in I!DataObject : I!Move(o, p)
         \/ I!Release(o) \/ I!Destroy(o) \/ I!Swap
  PROVE  BindingsInv'
<1>1. ASSUME NEW b \in I!Block, NEW bytes \in I!Bytes, I!Write(b, bytes)
      PROVE  BindingsInv'
  <2>1. ~I!Constant(b) /\ blocks' = [blocks EXCEPT ![b] = bytes]
        /\ UNCHANGED <<datas, bound, requested, freed_again>>
    BY <1>1 DEF I!Write
  <2>2. MemoryInv'
    BY <2>1 DEF BindingsInv, BindingsTypes, MemoryInv, I!Allocated, I!Is_data_owner
  <2> QED
    BY <2>1, <2>2, DataChanged DEF BindingsInv, BindingsTypes, BlockType
<1>2. ASSUME NEW b \in I!Block, NEW deleter \in {"static", "free"}, I!Data(o, b, deleter)
      PROVE  BindingsInv'
  <2>1. /\ I!Allocated(b) /\ ~I!Refers(b) /\ datas' = [datas EXCEPT ![o] = [data |-> b, deleter |-> deleter]]
        /\ UNCHANGED <<blocks, bound, requested, freed_again>>
    BY <1>2 DEF I!Data
  <2>2. MemoryInv'
    BY <2>1
    DEF BindingsInv, BindingsTypes, MemoryInv, I!Allocated, I!Is_data_owner, I!Refers, I!DataObject,
        I!NoData
  <2> QED
    BY <2>1, <2>2, DataChanged DEF BindingsInv, BindingsTypes
<1>3. ASSUME NEW p \in I!DataObject, I!Move(o, p)
      PROVE  BindingsInv'
  <2>1. /\ o # p /\ ~I!Constant(datas[o].data) /\ datas' = [datas EXCEPT ![o] = datas[p], ![p] = I!NoData]
        /\ UNCHANGED <<bound, requested>>
    BY <1>3 DEF I!Move
  <2>2. /\ ~freed_again'
        /\ \/ UNCHANGED blocks
           \/ datas[o].data \in I!Block /\ blocks' = [blocks EXCEPT ![datas[o].data] = "freed"]
    BY <1>3, OwnerDeleted DEF I!Move
  <2>3. datas'[o] = datas[p] /\ datas'[p] = I!NoData /\ \A x \in I!DataObject : x = o \/ x = p
    BY <2>1 DEF BindingsInv, BindingsTypes, I!DataObject
  <2>4. MemoryInv'
    <3>1. ASSUME NEW x \in I!DataObject
          PROVE  /\ datas'[x] # I!NoData => datas'[x].data \in I!Block
                 /\ datas'[x].deleter = "free" => datas'[x].data \in I!Block /\ blocks'[datas'[x].data] \in I!Bytes
      <4>0. datas[p].deleter = "free" => datas[p].data \in I!Block /\ blocks'[datas[p].data] \in I!Bytes
        BY <2>1, <2>2, OthersAllocated DEF I!Is_data_owner
      <4>1. CASE x = o
        BY <2>1, <2>2, <2>3, <4>1, <4>0, OthersAllocated
        DEF BindingsInv, MemoryInv, I!Allocated, I!Is_data_owner
      <4>2. CASE x = p
        BY <2>1, <2>2, <2>3, <4>2 DEF I!NoData
      <4> QED
        BY <2>3, <4>1, <4>2
    <3>2. datas'[1].data = datas'[2].data => datas'[1].data = I!NoBlock
      <4>1. datas'[1] = I!NoData \/ datas'[2] = I!NoData
        BY <2>3 DEF I!DataObject
      <4> QED
        BY <4>1 DEF I!NoData
    <3> QED
      BY <3>1, <3>2 DEF MemoryInv, I!Is_data_owner, I!Allocated
  <2>5. datas' \in [I!DataObject -> [data : I!Block \union {I!NoBlock}, deleter : {"static", "free"}]]
    BY <2>1 DEF BindingsInv, BindingsTypes, I!NoData
  <2> QED
    BY <2>1, <2>2, <2>4, <2>5, DataChanged DEF BlockType
<1>4. CASE I!Release(o)
  <2>1. datas' = [datas EXCEPT ![o] = I!NoData] /\ UNCHANGED <<blocks, bound, requested, freed_again>>
    BY <1>4 DEF I!Release
  <2>2. MemoryInv'
    BY <2>1
    DEF BindingsInv, BindingsTypes, MemoryInv, I!Allocated, I!Is_data_owner, I!DataObject, I!NoData,
        I!NoBlock
  <2>3. datas' \in [I!DataObject -> [data : I!Block \union {I!NoBlock}, deleter : {"static", "free"}]]
    BY <2>1 DEF BindingsInv, BindingsTypes, I!NoData
  <2> QED
    BY <2>1, <2>2, <2>3, DataChanged DEF BindingsInv
<1>5. CASE I!Destroy(o)
  <2>1. ~I!Constant(datas[o].data) /\ datas' = [datas EXCEPT ![o] = I!NoData] /\ UNCHANGED <<bound, requested>>
    BY <1>5 DEF I!Destroy
  <2>2. /\ ~freed_again'
        /\ \/ UNCHANGED blocks
           \/ datas[o].data \in I!Block /\ blocks' = [blocks EXCEPT ![datas[o].data] = "freed"]
    BY <1>5, OwnerDeleted DEF I!Destroy
  <2>3. MemoryInv'
    <3>1. \A x \in I!DataObject : datas'[x] = IF x = o THEN I!NoData ELSE datas[x]
      BY <2>1 DEF BindingsInv, BindingsTypes
    <3>2. ASSUME NEW x \in I!DataObject
          PROVE  /\ datas'[x] # I!NoData => datas'[x].data \in I!Block
                 /\ datas'[x].deleter = "free" => datas'[x].data \in I!Block /\ blocks'[datas'[x].data] \in I!Bytes
      <4>1. CASE x = o
        BY <3>1, <4>1 DEF I!NoData
      <4>2. CASE x # o
        <5>1. datas[x].deleter = "free" => datas[x].data \in I!Block /\ blocks'[datas[x].data] \in I!Bytes
          BY <2>2, <3>1, <4>2, OthersAllocated DEF I!Is_data_owner
        <5> QED
          BY <3>1, <4>2, <5>1 DEF BindingsInv, MemoryInv
      <4> QED
        BY <4>1, <4>2
    <3>3. datas'[1].data = datas'[2].data => datas'[1].data = I!NoBlock
      BY <3>1 DEF BindingsInv, MemoryInv, I!DataObject, I!NoData
    <3> QED
      BY <3>2, <3>3 DEF MemoryInv, I!Is_data_owner, I!Allocated
  <2>4. datas' \in [I!DataObject -> [data : I!Block \union {I!NoBlock}, deleter : {"static", "free"}]]
    BY <2>1 DEF BindingsInv, BindingsTypes, I!NoData
  <2> QED
    BY <2>1, <2>2, <2>3, <2>4, DataChanged DEF BlockType
<1>6. CASE I!Swap
  <2>1. datas' = [x \in I!DataObject |-> datas[3 - x]] /\ UNCHANGED <<blocks, bound, requested, freed_again>>
    BY <1>6 DEF I!Swap
  <2>2. \A x \in I!DataObject : 3 - x \in I!DataObject
    BY DEF I!DataObject
  <2>3. MemoryInv'
    BY <2>1, <2>2 DEF BindingsInv, MemoryInv, I!DataObject, I!Allocated
  <2>4. datas' \in [I!DataObject -> [data : I!Block \union {I!NoBlock}, deleter : {"static", "free"}]]
    BY <2>1, <2>2 DEF BindingsInv, BindingsTypes
  <2> QED
    BY <2>1, <2>3, <2>4, DataChanged DEF BindingsInv
<1> QED
  BY <1>1, <1>2, <1>3, <1>4, <1>5, <1>6

LEMMA BindSteps ==
  ASSUME BindingsInv, NEW b \in I!Block, NEW index \in {0, 1},
         I!Bind_null(index) \/ I!Bind_lvalue(index, b) \/ I!Bind_rvalue(index, b)
  PROVE  BindingsInv'
<1>1. CASE I!Bind_null(index)
  <2>1. I!Bound(index, I!Null, I!NullAsked) /\ UNCHANGED <<blocks, datas, freed_again>>
    BY <1>1 DEF I!Bind_null
  <2>2. I!Null \in BoundType /\ I!NullAsked \in AskedType /\ Fits(I!Null, I!NullAsked, blocks')
    BY DEF I!Null, I!NullAsked, BoundType, AskedType, Fits
  <2> QED
    BY <2>1, <2>2, ParameterBound, ParametersChanged
<1>2. CASE I!Bind_lvalue(index, b)
  <2>1. I!Allocated(b) /\ I!Bound(index, I!Static(b), I!Kept(b)) /\ UNCHANGED <<blocks, datas, freed_again>>
    BY <1>2 DEF I!Bind_lvalue
  <2>2. I!Static(b) \in BoundType /\ I!Kept(b) \in AskedType /\ Fits(I!Static(b), I!Kept(b), blocks')
    BY <2>1 DEF I!Static, I!Kept, BoundType, AskedType, Fits, I!Block, I!NoBlock, BlockType, I!Allocated
  <2> QED
    BY <2>1, <2>2, ParameterBound, ParametersChanged
<1>3. CASE I!Bind_rvalue(index, b)
  <2>1. /\ I!Allocated(b) /\ ~I!Refers(b) /\ ~I!Constant(b) /\ I!Bound(index, I!Transient(b), I!GivenAway(b, FALSE))
        /\ blocks' = [blocks EXCEPT ![b] = "freed"] /\ UNCHANGED <<datas, freed_again>>
    BY <1>3 DEF I!Bind_rvalue
  <2>2. I!Transient(b) \in BoundType /\ I!GivenAway(b, FALSE) \in AskedType
        /\ Fits(I!Transient(b), I!GivenAway(b, FALSE), blocks')
    BY <2>1 DEF I!Transient, I!GivenAway, BoundType, AskedType, Fits, I!NoBlock, BlockType, I!Allocated
  <2>3. "freed" \in BlockType
    BY DEF BlockType
  <2> QED
    BY <2>1, <2>2, <2>3, ParameterBound, ParametersChanged
<1> QED
  BY <1>1, <1>2, <1>3

LEMMA BindDataStep ==
  ASSUME BindingsInv, NEW o \in I!DataObject, NEW index \in {0, 1}, I!Bind_data(index, o)
  PROVE  BindingsInv'
<1> DEFINE d == datas[o]
<1>1. d # I!NoData /\ d.data \in I!Block
  BY DEF I!Bind_data, BindingsInv, MemoryInv
<1>2. CASE ~I!Is_data_owner(d)
  <2>1. I!Bound(index, I!Static(d.data), I!Kept(d.data)) /\ UNCHANGED <<blocks, datas, freed_again>>
    BY <1>2 DEF I!Bind_data
  <2>2. I!Static(d.data) \in BoundType /\ I!Kept(d.data) \in AskedType
        /\ Fits(I!Static(d.data), I!Kept(d.data), blocks')
    BY <1>1, <2>1
    DEF I!Static, I!Kept, BoundType, AskedType, Fits, I!Block, I!NoBlock, BlockType, BindingsInv,
        BindingsTypes
  <2> QED
    BY <2>1, <2>2, ParameterBound, ParametersChanged
<1>3. CASE I!Is_data_owner(d)
  <2>1. /\ ~I!Constant(d.data) /\ I!Deleted(d) /\ datas' = [datas EXCEPT ![o] = I!NoData]
        /\ I!Bound(index, I!Static(datas'[o].data), I!GivenAway(d.data, TRUE))
    BY <1>3 DEF I!Bind_data
  <2>2. ~freed_again' /\ blocks' = [blocks EXCEPT ![d.data] = "freed"]
    BY <1>3, <2>1, OwnerDeleted DEF I!Deleted
  <2>3. I!Static(datas'[o].data) = I!Null
    BY <2>1 DEF I!Static, I!NoData, I!NoBlock, BindingsInv, BindingsTypes
  <2>4. I!Null \in BoundType /\ I!GivenAway(d.data, TRUE) \in AskedType
        /\ Fits(I!Null, I!GivenAway(d.data, TRUE), blocks')
    BY <1>1 DEF I!Null, I!GivenAway, BoundType, AskedType, Fits, BindingsInv, BindingsTypes
  <2>5. "freed" \in BlockType
    BY DEF BlockType
  <2>6. FitInv' /\ bound' \in [{1, 2} -> BoundType] /\ requested' \in [{"a", "b"} -> AskedType]
    BY <1>1, <2>1, <2>2, <2>3, <2>4, <2>5, ParameterBound
  <2>7. MemoryInv'
    <3>1. \A x \in I!DataObject : datas'[x] = IF x = o THEN I!NoData ELSE datas[x]
      BY <2>1 DEF BindingsInv, BindingsTypes
    <3>2. ASSUME NEW x \in I!DataObject
          PROVE  /\ datas'[x] # I!NoData => datas'[x].data \in I!Block
                 /\ datas'[x].deleter = "free" => datas'[x].data \in I!Block /\ blocks'[datas'[x].data] \in I!Bytes
      <4>1. CASE x = o
        BY <3>1, <4>1 DEF I!NoData
      <4>2. CASE x # o
        <5>1. datas[x].deleter = "free" => datas[x].data \in I!Block /\ blocks'[datas[x].data] \in I!Bytes
          BY <1>1, <2>2, <3>1, <4>2, OthersAllocated DEF I!Is_data_owner
        <5> QED
          BY <3>1, <4>2, <5>1 DEF BindingsInv, MemoryInv
      <4> QED
        BY <4>1, <4>2
    <3>3. datas'[1].data = datas'[2].data => datas'[1].data = I!NoBlock
      BY <3>1 DEF BindingsInv, MemoryInv, I!DataObject, I!NoData
    <3> QED
      BY <3>2, <3>3 DEF MemoryInv, I!Is_data_owner, I!Allocated
  <2>8. BindingsTypes'
    BY <1>1, <2>1, <2>2, <2>5, <2>6 DEF BindingsInv, BindingsTypes, I!NoData
  <2> QED
    BY <2>2, <2>6, <2>7, <2>8 DEF BindingsInv
<1> QED
  BY <1>2, <1>3

LEMMA BindAllSteps ==
  ASSUME BindingsInv, I!Bind_null_all \/ \E b, c \in I!Block : I!Bind_many(<<b, c>>)
  PROVE  BindingsInv'
<1>1. CASE I!Bind_null_all
  <2>1. /\ bound' = [i \in {1, 2} |-> I!Null] /\ requested' = [name \in {"a", "b"} |-> I!NullAsked]
        /\ UNCHANGED <<blocks, datas, freed_again>>
    BY <1>1, ParameterFacts DEF I!Bind_null_all
  <2>2. I!Null \in BoundType /\ I!NullAsked \in AskedType /\ Fits(I!Null, I!NullAsked, blocks')
    BY DEF I!Null, I!NullAsked, BoundType, AskedType, Fits
  <2>3. FitInv' /\ bound' \in [{1, 2} -> BoundType] /\ requested' \in [{"a", "b"} -> AskedType]
    BY <2>1, <2>2 DEF FitInv
  <2> QED
    BY <2>1, <2>3, ParametersChanged
<1>2. ASSUME NEW b \in I!Block, NEW c \in I!Block, I!Bind_many(<<b, c>>)
      PROVE  BindingsInv'
  <2>1. /\ bound' = [i \in {1, 2} |-> I!Static(<<b, c>>[i])]
        /\ requested' = [name \in {"a", "b"} |-> I!Kept(<<b, c>>[I!Parameter_index(name) + 1])]
        /\ UNCHANGED <<blocks, datas, freed_again>>
    BY <1>2, ParameterFacts DEF I!Bind_many
  <2>2. I!Allocated(b) /\ I!Allocated(c)
    BY <1>2 DEF I!Bind_many
  <2>3. /\ bound'[1] = I!Static(b) /\ bound'[2] = I!Static(c)
        /\ requested'["a"] = I!Kept(b) /\ requested'["b"] = I!Kept(c)
    BY <2>1, ParameterIndices
  <2>4. ASSUME NEW x \in I!Block, I!Allocated(x)
        PROVE  I!Static(x) \in BoundType /\ I!Kept(x) \in AskedType /\ Fits(I!Static(x), I!Kept(x), blocks')
    BY <2>1, <2>4
    DEF I!Static, I!Kept, BoundType, AskedType, Fits, I!Block, I!NoBlock, BlockType, I!Allocated
  <2>5. FitInv'
    BY <2>2, <2>3, <2>4 DEF FitInv
  <2>6. bound' \in [{1, 2} -> BoundType] /\ requested' \in [{"a", "b"} -> AskedType]
    <3> HIDE DEF BoundType, AskedType
    <3> QED
      BY <2>1, <2>2, <2>3, <2>4
  <2> QED
    BY <2>1, <2>5, <2>6, ParametersChanged
<1> QED
  BY <1>1, <1>2

LEMMA BindingsStep ==
  ASSUME BindingsInv, [I!BindingsNext]_bindingsVars
  PROVE  BindingsInv'
<1>1. CASE UNCHANGED bindingsVars
  BY <1>1 DEF bindingsVars, BindingsInv, BindingsTypes, MemoryInv, FitInv, I!Allocated
<1>2. ASSUME NEW o \in I!DataObject,
             \/ \E b \in I!Block, bytes \in I!Bytes : I!Write(b, bytes)
             \/ \E b \in I!Block, deleter \in {"static", "free"} : I!Data(o, b, deleter)
             \/ \E p \in I!DataObject : I!Move(o, p)
             \/ I!Release(o) \/ I!Destroy(o) \/ I!Swap
      PROVE  BindingsInv'
  BY <1>2, DataSteps
<1>3. ASSUME NEW b \in I!Block, NEW name \in {"a", "b", "c"}, I!Bind_named(name, b)
      PROVE  BindingsInv'
  <2>1. I!Parameter_index(name) \in {0, 1} /\ I!Bind_lvalue(I!Parameter_index(name), b)
    BY <1>3, ParameterIndices DEF I!Bind_named
  <2> QED
    BY <2>1, BindSteps
<1>4. 1 \in I!DataObject /\ 1 \in I!Block
  BY DEF I!DataObject, I!Block
<1> QED
  BY <1>1, <1>2, <1>3, <1>4, ParameterFacts, BindSteps, BindDataStep, BindAllSteps DEF I!BindingsNext

LEMMA BindingsHold == BindingsInv => I!BindingsKept
<1> SUFFICES ASSUME BindingsInv
             PROVE  I!BindingsKept
  OBVIOUS
<1>1. ASSUME NEW i \in {1, 2}
      PROVE  LET ask == requested[I!Parameter[i]] IN I!Read(i) = IF ask.lost THEN "null" ELSE ask.bytes
  BY ParameterFacts DEF BindingsInv, FitInv, Fits, I!Read
<1> QED
  BY <1>1, ParameterFacts DEF BindingsInv, MemoryInv, I!BindingsKept

-----------------------------------------------------------------------------
(* WebSocket clients: the calls of the handlers in each phase, and the     *)
(* connection that a socket belongs to.                                    *)

PhaseType == {"handshake", "frames", "closing", "freed"}
HandlerType == {"open", "message", "error", "close"}
EndType == {"error", "close"}

CallsTypes ==
  /\ alive \in [W!Client -> BOOLEAN] /\ is_open_ \in [W!Client -> BOOLEAN]
  /\ phase \in [W!Client -> PhaseType]
  /\ calls \in [W!Client -> Seq(HandlerType)]

Opened(s) == s # <<>> /\ s[1] = "open" /\ s[Len(s)] \notin EndType

Ordered(s) ==
  \A i \in DOMAIN s :
    /\ s[i] = "open" => i = 1
    /\ s[i] = "message" => s[1] = "open"
    /\ s[i] \in EndType => i = Len(s)

\* What has been called of a connection in each of its phases.
CalledInv(c) ==
  /\ phase[c] # "freed" \/ calls[c] # <<>> => alive[c]
  /\ phase[c] = "handshake" => calls[c] = <<>>
  /\ phase[c] = "frames" => Opened(calls[c])
  /\ Ordered(calls[c])
  /\ is_open_[c] <=> Opened(calls[c])

CallsInv == CallsTypes /\ \A c \in W!Client : CalledInv(c)

LEMMA CallsStart == W!ClientsInit => CallsInv
BY DEF W!ClientsInit, CallsInv, CallsTypes, CalledInv, Opened, Ordered, PhaseType

\* A handler is called in its turn.
LEMMA CalledInTurn ==
  ASSUME NEW s \in Seq(HandlerType), NEW what \in HandlerType, Ordered(s),
         s = <<>> \/ Opened(s),
         what = "open" => s = <<>>, what = "message" => Opened(s)
  PROVE  /\ Append(s, what) \in Seq(HandlerType) /\ Ordered(Append(s, what))
         /\ Opened(Append(s, what)) <=> what \notin EndType
<1> DEFINE t == Append(s, what)
<1>1. /\ Len(s) \in Nat /\ t \in Seq(HandlerType) /\ Len(t) = Len(s) + 1 /\ t # <<>>
      /\ t[Len(s) + 1] = what /\ \A i \in 1..Len(s) : t[i] = s[i]
  BY AppendProperties
<1>2. DOMAIN s = 1..Len(s) /\ DOMAIN t = 1..(Len(s) + 1)
  BY <1>1
<1>3. s # <<>> => Len(s) \in 1..Len(s) /\ 1 \in 1..Len(s)
  OBVIOUS
<1>4. s = <<>> => Len(s) = 0
  OBVIOUS
<1> HIDE DEF t
<1>5. \A i \in 1..Len(s) : s[i] \notin EndType
  <2> TAKE i \in 1..Len(s)
  <2>1. Opened(s)
    BY <1>4
  <2>2. s[i] \in EndType => i = Len(s)
    BY <1>2 DEF Ordered
  <2> QED
    BY <2>1, <2>2 DEF Opened
<1>6. Ordered(t)
  <2> SUFFICES ASSUME NEW i \in 1..(Len(s) + 1)
               PROVE  /\ t[i] = "open" => i = 1
                      /\ t[i] = "message" => t[1] = "open"
                      /\ t[i] \in EndType => i = Len(t)
    BY <1>2 DEF Ordered
  <2>1. CASE i = Len(s) + 1
    BY <1>1, <1>3, <1>4, <2>1 DEF Opened
  <2>2. CASE i \in 1..Len(s)
    BY <1>1, <1>2, <1>3, <1>5, <2>2 DEF Ordered
  <2> QED
    BY <1>1, <2>1, <2>2
<1>7. Opened(t) <=> what \notin EndType
  <2>1. CASE s = <<>>
    BY <1>1, <1>4, <2>1 DEF Opened, EndType, HandlerType
  <2>2. CASE s # <<>>
    BY <1>1, <1>3, <2>2 DEF Opened
  <2> QED
    BY <2>1, <2>2
<1> QED
  BY <1>1, <1>6, <1>7 DEF t

\* A step in which a handler of c is called.
LEMMA HandlerCalled ==
  ASSUME CallsInv, NEW c \in W!Client, NEW what \in HandlerType, NEW open \in BOOLEAN,
         W!Called(c, what, open), UNCHANGED alive, NEW next \in PhaseType, phase' = [phase EXCEPT ![c] = next],
         phase[c] \in {"handshake", "frames"},
         what = "open" => phase[c] = "handshake", what = "message" => phase[c] = "frames",
         open <=> what \notin EndType,
         next # "handshake", next = "frames" => what \notin EndType
  PROVE  CallsInv'
<1>1. calls[c] \in Seq(HandlerType) /\ Ordered(calls[c]) /\ alive[c]
      /\ (phase[c] = "handshake" => calls[c] = <<>>) /\ (phase[c] = "frames" => Opened(calls[c]))
  BY DEF CallsInv, CallsTypes, CalledInv
<1> DEFINE t == Append(calls[c], what)
<1>2. t \in Seq(HandlerType) /\ Ordered(t) /\ (Opened(t) <=> what \notin EndType)
  BY <1>1, CalledInTurn
<1>3. calls' = [calls EXCEPT ![c] = t] /\ is_open_' = [is_open_ EXCEPT ![c] = open]
  BY DEF W!Called
<1>4. t # <<>>
  BY <1>1, AppendProperties
<1> HIDE DEF t
<1>5. CallsTypes'
  BY <1>2, <1>3 DEF CallsInv, CallsTypes
<1>6. CalledInv(c)'
  <2>1. calls'[c] = t /\ is_open_'[c] = open /\ phase'[c] = next /\ alive'[c]
    BY <1>1, <1>3 DEF CallsInv, CallsTypes
  <2> QED
    BY <1>2, <1>4, <2>1 DEF CalledInv
<1>7. ASSUME NEW d \in W!Client, d # c
      PROVE  CalledInv(d)'
  BY <1>3, <1>7 DEF CallsInv, CallsTypes, CalledInv
<1> QED
  BY <1>5, <1>6, <1>7 DEF CallsInv

LEMMA ConstructCalls ==
  ASSUME CallsInv, NEW c \in W!Client, W!Construct(c)
  PROVE  CallsInv'
<1>1. /\ alive' = [alive EXCEPT ![c] = TRUE] /\ phase' = [phase EXCEPT ![c] = "handshake"]
      /\ calls' = [calls EXCEPT ![c] = <<>>] /\ is_open_' = is_open_ /\ ~alive[c]
  BY DEF W!Construct
<1>2. ~is_open_[c]
  BY <1>1 DEF CallsInv, CallsTypes, CalledInv, Opened
<1>3. CallsTypes'
  BY <1>1 DEF CallsInv, CallsTypes, PhaseType
<1>4. CalledInv(c)'
  BY <1>1, <1>2 DEF CallsInv, CallsTypes, CalledInv, Opened, Ordered
<1>5. ASSUME NEW d \in W!Client, d # c
      PROVE  CalledInv(d)'
  BY <1>1, <1>5 DEF CallsInv, CallsTypes, CalledInv
<1> QED
  BY <1>3, <1>4, <1>5 DEF CallsInv

LEMMA DestroyCalls ==
  ASSUME CallsInv, NEW c \in W!Client, W!Destroy(c)
  PROVE  CallsInv'
<1>1. /\ alive' = [alive EXCEPT ![c] = FALSE] /\ phase' = [phase EXCEPT ![c] = "freed"]
      /\ calls' = [calls EXCEPT ![c] = <<>>] /\ is_open_' = [is_open_ EXCEPT ![c] = FALSE]
  BY DEF W!Destroy, W!Freed
<1>3. CallsTypes'
  BY <1>1 DEF CallsInv, CallsTypes, PhaseType
<1>4. CalledInv(c)'
  BY <1>1 DEF CallsInv, CallsTypes, CalledInv, Opened, Ordered
<1>5. ASSUME NEW d \in W!Client, d # c
      PROVE  CalledInv(d)'
  BY <1>1, <1>5 DEF CallsInv, CallsTypes, CalledInv
<1> QED
  BY <1>3, <1>4, <1>5 DEF CallsInv

LEMMA NothingCalled ==
  ASSUME CallsInv, UNCHANGED <<alive, is_open_, calls>>,
         UNCHANGED phase \/ \E c \in W!Client : phase' = [phase EXCEPT ![c] = "freed"]
  PROVE  CallsInv'
<1>1. phase' \in [W!Client -> PhaseType] /\ \A c \in W!Client : phase'[c] \in {phase[c], "freed"}
  BY DEF CallsInv, CallsTypes, PhaseType
<1> QED
  BY <1>1 DEF CallsInv, CallsTypes, CalledInv, PhaseType

LEMMA CallsStep ==
  ASSUME CallsInv, [W!ClientsNext]_clientsVars
  PROVE  CallsInv'
<1>1. CASE UNCHANGED clientsVars
  BY <1>1, NothingCalled DEF clientsVars
<1>2. ASSUME NEW c \in W!Client, W!Construct(c) \/ W!Destroy(c)
      PROVE  CallsInv'
  BY <1>2, ConstructCalls, DestroyCalls
<1>3. ASSUME NEW c \in W!Client, W!Send(c) \/ W!Write(c) \/ W!Receive(c)
      PROVE  CallsInv'
  BY <1>3, NothingCalled DEF W!Send, W!Write, W!Receive
<1>4. ASSUME NEW c \in W!Client, W!Error(c), phase[c] \in {"handshake", "frames"}
      PROVE  CallsInv'
  BY <1>4, HandlerCalled DEF W!Error, W!Freed, HandlerType, EndType, PhaseType
<1>5. ASSUME NEW c \in W!Client, W!Fail(c) \/ W!Eof(c)
      PROVE  CallsInv'
  <2>1. phase[c] \in {"handshake", "frames"}
    BY <1>5 DEF W!Fail, W!Eof, W!Running
  <2>2. CASE W!Fail(c)
    BY <1>4, <2>1, <2>2 DEF W!Fail
  <2>3. CASE W!Eof(c)
    BY <2>1, <2>3, HandlerCalled DEF W!Eof, W!Freed, HandlerType, EndType, PhaseType
  <2> QED
    BY <1>5, <2>2, <2>3
<1>6. ASSUME NEW c \in W!Client, W!Parse(c)
      PROVE  CallsInv'
  <2>1. CASE W!Unwind(c)
    BY <2>1, NothingCalled DEF W!Unwind
  <2>2. CASE W!ParseAnswer(c)
    <3>1. CASE Head(rb[c]) = "accepted"
      BY <2>2, <3>1, HandlerCalled DEF W!ParseAnswer, W!Parsed, HandlerType, EndType, PhaseType
    <3>2. CASE Head(rb[c]) # "accepted"
      BY <1>4, <2>2, <3>2 DEF W!ParseAnswer
    <3> QED
      BY <3>1, <3>2
  <2>3. CASE W!ParseMessage(c)
    <3>1. phase[c] = "frames" /\ is_open_[c] = TRUE
      BY <2>3 DEF W!ParseMessage, CallsInv, CallsTypes, CalledInv
    <3>2. phase' = [phase EXCEPT ![c] = "frames"]
      BY <2>3, <3>1 DEF W!ParseMessage, CallsInv, CallsTypes
    <3>3. W!Called(c, "message", TRUE) /\ UNCHANGED alive
      BY <2>3, <3>1 DEF W!ParseMessage, W!Parsed
    <3> QED
      BY <3>1, <3>2, <3>3, HandlerCalled DEF HandlerType, EndType, PhaseType
  <2>4. CASE W!ParsePing(c)
    BY <2>4, NothingCalled DEF W!ParsePing, W!Parsed
  <2>5. CASE W!ParseClose(c)
    BY <2>5, HandlerCalled DEF W!ParseClose, W!Parsed, HandlerType, EndType, PhaseType
  <2>6. CASE W!ParseFragment(c)
    BY <1>4, <2>6 DEF W!ParseFragment
  <2>7. CASE UNCHANGED <<alive, is_open_, phase, calls>>
    BY <2>7, NothingCalled
  <2> QED
    BY <1>6, <2>1, <2>2, <2>3, <2>4, <2>5, <2>6, <2>7 DEF W!Parse
<1> QED
  BY <1>1, <1>2, <1>3, <1>5, <1>6 DEF W!ClientsNext

LEMMA CallsHold == CallsInv => W!HandlersInOrder
BY DEF CallsInv, CallsTypes, CalledInv, Opened, Ordered, EndType, W!HandlersInOrder, W!Last

-----------------------------------------------------------------------------

SocketsTypes ==
  /\ alive \in [W!Client -> BOOLEAN] /\ phase \in [W!Client -> PhaseType]
  /\ sock \in [W!Client -> W!Descriptor \union {0}]
  /\ owner \in [W!Descriptor -> W!Client \union {W!Nobody}]
  /\ reading \in W!Client \union {W!Nobody}

\* A descriptor is that of the connection it has been opened for.
OwnedInv ==
  \A d \in W!Descriptor : owner[d] # W!Nobody =>
    sock[owner[d]] = d /\ (d \in unwinding \/ (alive[owner[d]] /\ phase[owner[d]] # "freed"))

\* A connection that has not ended has its descriptor; that of one that has is not
\* another's as long as it exists.
HoldingInv(c) ==
  /\ phase[c] # "freed" => alive[c] /\ sock[c] \in W!Descriptor /\ owner[sock[c]] = c
  /\ alive[c] /\ sock[c] # 0 => owner[sock[c]] \in {W!Nobody, c}
  /\ phase[c] = "closing" => unwinding = {sock[c]} /\ reading = c

\* The socket that is to be closed when onclose has returned is not another's.
UnwindingInv ==
  unwinding # {} =>
    /\ reading \in W!Client /\ sock[reading] \in W!Descriptor /\ unwinding = {sock[reading]}
    /\ phase[reading] \in {"closing", "freed"} /\ owner[sock[reading]] \in {W!Nobody, reading}

SocketsInv == SocketsTypes /\ ill = {} /\ OwnedInv /\ (\A c \in W!Client : HoldingInv(c)) /\ UnwindingInv

LEMMA SocketsStart == W!ClientsInit => SocketsInv
BY
DEF W!ClientsInit, SocketsInv, SocketsTypes, OwnedInv, HoldingInv, UnwindingInv, W!Client, W!Descriptor,
    W!Nobody, PhaseType

LEMMA LeastDescriptor ==
  ASSUME NEW free \in SUBSET W!Descriptor, free # {}
  PROVE  W!Min(free) \in free
<1>1. \E x \in free : \A y \in free : x <= y
  <2>1. CASE 1 \in free
    BY <2>1 DEF W!Descriptor
  <2>2. CASE 1 \notin free
    <3>1. free = {2}
      BY <2>2 DEF W!Descriptor
    <3> QED
      BY <3>1
  <2> QED
    BY <2>1, <2>2
<1> QED
  BY <1>1 DEF W!Min

LEMMA OnlyDescriptor ==
  ASSUME NEW d \in W!Descriptor
  PROVE  W!Max({d}) = d
BY DEF W!Max, W!Descriptor

\* c ends, and closes its socket.
LEMMA SocketClosed ==
  ASSUME SocketsInv, NEW c \in W!Client, phase' = [phase EXCEPT ![c] = "freed"], W!Closed(sock[c], c),
         UNCHANGED <<sock, reading, unwinding>>,
         alive[c], UNCHANGED alive \/ alive' = [alive EXCEPT ![c] = FALSE]
  PROVE  SocketsInv'
<1>1. SocketsTypes'
  <2>1. owner' \in [W!Descriptor -> W!Client \union {W!Nobody}]
    BY DEF SocketsInv, SocketsTypes, W!Closed
  <2>2. phase' \in [W!Client -> PhaseType] /\ alive' \in [W!Client -> BOOLEAN]
    BY DEF SocketsInv, SocketsTypes, PhaseType
  <2> QED
    BY <2>1, <2>2 DEF SocketsInv, SocketsTypes
<1>2. sock[c] # 0 => sock[c] \in W!Descriptor /\ owner[sock[c]] \in {W!Nobody, c}
  BY DEF SocketsInv, SocketsTypes, HoldingInv
<1>3. ill' = {}
  BY <1>2 DEF SocketsInv, W!Closed
<1>4. \A d \in W!Descriptor : owner'[d] = IF d = sock[c] THEN W!Nobody ELSE owner[d]
  <2>1. owner \in [W!Descriptor -> W!Client \union {W!Nobody}] /\ \A d \in W!Descriptor : d # 0
    BY DEF SocketsInv, SocketsTypes, W!Descriptor
  <2>2. CASE sock[c] = 0
    BY <2>1, <2>2 DEF W!Closed
  <2>3. CASE sock[c] # 0
    BY <2>1, <2>3 DEF W!Closed
  <2> QED
    BY <2>2, <2>3
<1>5. OwnedInv'
  BY <1>4 DEF SocketsInv, SocketsTypes, OwnedInv, W!Client, W!Descriptor, W!Nobody
<1>6. ASSUME NEW d \in W!Client
      PROVE  HoldingInv(d)'
  <2>1. phase[d] # "freed" /\ d # c => sock[d] # sock[c]
    BY <1>2, <1>6 DEF SocketsInv, HoldingInv, W!Client, W!Descriptor, W!Nobody
  <2> QED
    BY <1>2, <1>4, <2>1 DEF SocketsInv, SocketsTypes, HoldingInv, W!Client, W!Descriptor, W!Nobody
<1>7. UnwindingInv'
  BY <1>4 DEF SocketsInv, SocketsTypes, UnwindingInv, W!Client, W!Descriptor, W!Nobody
<1> QED
  BY <1>1, <1>3, <1>5, <1>6, <1>7 DEF SocketsInv

LEMMA ConstructSockets ==
  ASSUME SocketsInv, ~ReplacedLate, NEW c \in W!Client, W!Construct(c)
  PROVE  SocketsInv'
<1> DEFINE free == {d \in W!Descriptor : owner[d] = W!Nobody}
<1>1. PICK d \in W!Descriptor : d = W!Min(free) /\ owner[d] = W!Nobody
  BY LeastDescriptor DEF W!Construct
<1>2. /\ sock' = [sock EXCEPT ![c] = d] /\ owner' = [owner EXCEPT ![d] = c]
      /\ alive' = [alive EXCEPT ![c] = TRUE] /\ phase' = [phase EXCEPT ![c] = "handshake"]
      /\ UNCHANGED <<reading, unwinding, ill>>
      /\ ~alive[c] /\ unwinding = {} /\ \A e \in W!Client : alive[e] => phase[e] # "freed"
  BY <1>1 DEF W!Construct
<1>3. SocketsTypes'
  BY <1>2 DEF SocketsInv, SocketsTypes, PhaseType
<1>4. \A e \in W!Descriptor : owner[e] # c
  BY <1>2 DEF SocketsInv, OwnedInv, W!Client, W!Nobody
<1>5. OwnedInv'
  BY <1>1, <1>2, <1>4 DEF SocketsInv, SocketsTypes, OwnedInv, W!Client, W!Nobody
<1>6. ASSUME NEW e \in W!Client
      PROVE  HoldingInv(e)'
  <2>1. CASE e = c
    BY <1>2, <2>1 DEF SocketsInv, SocketsTypes, HoldingInv
  <2>2. CASE e # c
    BY <1>1, <1>2, <2>2 DEF SocketsInv, SocketsTypes, HoldingInv, W!Client, W!Nobody
  <2> QED
    BY <2>1, <2>2
<1>7. UnwindingInv'
  BY <1>2 DEF UnwindingInv
<1> QED
  BY <1>2, <1>3, <1>5, <1>6, <1>7 DEF SocketsInv

LEMMA UnwindSockets ==
  ASSUME SocketsInv, NEW c \in W!Client, reading = c, W!Unwind(c)
  PROVE  SocketsInv'
<1>1. /\ sock[c] \in W!Descriptor /\ unwinding = {sock[c]} /\ owner[sock[c]] \in {W!Nobody, c}
      /\ UNCHANGED <<alive, sock, reading>> /\ unwinding' = {} /\ phase' = [phase EXCEPT ![c] = "freed"]
  BY DEF W!Unwind, SocketsInv, UnwindingInv
<1>2. sock[c] # 0 /\ W!Max(unwinding) = sock[c]
  BY <1>1, OnlyDescriptor DEF W!Descriptor
<1>3. owner' = [owner EXCEPT ![sock[c]] = W!Nobody] /\ ill' = {}
  BY <1>1, <1>2 DEF W!Unwind, W!Closed, SocketsInv
<1>4. SocketsTypes'
  BY <1>1, <1>3 DEF SocketsInv, SocketsTypes, PhaseType
<1>5. OwnedInv'
  BY <1>1, <1>3 DEF SocketsInv, SocketsTypes, OwnedInv, W!Client, W!Nobody
<1>6. ASSUME NEW d \in W!Client
      PROVE  HoldingInv(d)'
  BY <1>1, <1>3 DEF SocketsInv, SocketsTypes, HoldingInv, W!Client, W!Nobody
<1>7. UnwindingInv'
  BY <1>1 DEF UnwindingInv
<1> QED
  BY <1>3, <1>4, <1>5, <1>6, <1>7 DEF SocketsInv

\* A step in which no socket is opened or closed.
LEMMA SocketsUntouched ==
  ASSUME SocketsInv, UNCHANGED <<alive, sock, owner, ill, unwinding>>,
         UNCHANGED phase \/ \E c \in W!Client : phase[c] = "handshake" /\ phase' = [phase EXCEPT ![c] = "frames"],
         UNCHANGED reading \/ (unwinding = {} /\ reading' \in W!Client \union {W!Nobody})
  PROVE  SocketsInv'
<1>1. /\ phase' \in [W!Client -> PhaseType]
      /\ \A c \in W!Client : phase'[c] = phase[c] \/ (phase[c] = "handshake" /\ phase'[c] = "frames")
  BY DEF SocketsInv, SocketsTypes, PhaseType
<1>2. SocketsTypes'
  BY <1>1 DEF SocketsInv, SocketsTypes
<1>3. OwnedInv'
  BY <1>1 DEF SocketsInv, SocketsTypes, OwnedInv, W!Client, W!Nobody
<1>4. ASSUME NEW c \in W!Client
      PROVE  HoldingInv(c)'
  BY <1>1 DEF SocketsInv, SocketsTypes, HoldingInv
<1>5. UnwindingInv'
  BY <1>1 DEF SocketsInv, SocketsTypes, UnwindingInv
<1> QED
  BY <1>2, <1>3, <1>4, <1>5 DEF SocketsInv

LEMMA CloseSockets ==
  ASSUME SocketsInv, NEW c \in W!Client, reading = c, unwinding = {}, W!ParseClose(c)
  PROVE  SocketsInv'
<1>1. /\ phase[c] = "frames" /\ phase' = [phase EXCEPT ![c] = "closing"] /\ unwinding' = {sock[c]}
      /\ UNCHANGED <<alive, sock, reading, owner, ill>>
  BY DEF W!ParseClose, W!Parsed
<1>2. sock[c] \in W!Descriptor /\ owner[sock[c]] = c
  BY <1>1 DEF SocketsInv, HoldingInv
<1>3. SocketsTypes'
  BY <1>1 DEF SocketsInv, SocketsTypes, PhaseType
<1>4. OwnedInv'
  BY <1>1 DEF SocketsInv, SocketsTypes, OwnedInv, W!Client, W!Nobody
<1>5. ASSUME NEW d \in W!Client
      PROVE  HoldingInv(d)'
  BY <1>1, <1>2 DEF SocketsInv, SocketsTypes, HoldingInv
<1>6. UnwindingInv'
  BY <1>1, <1>2 DEF SocketsInv, SocketsTypes, UnwindingInv
<1> QED
  BY <1>1, <1>3, <1>4, <1>5, <1>6 DEF SocketsInv

LEMMA SocketsStep ==
  ASSUME SocketsInv, ~ReplacedLate, [W!ClientsNext]_clientsVars
  PROVE  SocketsInv'
<1>1. CASE UNCHANGED clientsVars
  BY <1>1, SocketsUntouched DEF clientsVars
<1>2. ASSUME NEW c \in W!Client, W!Construct(c)
      PROVE  SocketsInv'
  BY <1>2, ConstructSockets
<1>3. ASSUME NEW c \in W!Client, W!Destroy(c)
      PROVE  SocketsInv'
  BY <1>3, SocketClosed DEF W!Destroy, W!Freed
<1>4. ASSUME NEW c \in W!Client, W!Send(c) \/ W!Write(c) \/ W!Receive(c)
      PROVE  SocketsInv'
  BY <1>4, SocketsUntouched DEF W!Send, W!Write, W!Receive, W!Running, W!Idle
<1>5. ASSUME NEW c \in W!Client, W!Freed(c), phase[c] # "freed", UNCHANGED <<alive, sock, reading, unwinding>>
      PROVE  SocketsInv'
  <2>1. alive[c]
    BY <1>5 DEF SocketsInv, HoldingInv
  <2> QED
    BY <1>5, <2>1, SocketClosed DEF W!Freed
<1>6. ASSUME NEW c \in W!Client, W!Fail(c) \/ W!Eof(c)
      PROVE  SocketsInv'
  BY <1>5, <1>6 DEF W!Fail, W!Eof, W!Error, W!Running
<1>7. ASSUME NEW c \in W!Client, reading = c, W!Parse(c)
      PROVE  SocketsInv'
  <2>1. CASE W!Unwind(c)
    BY <1>7, <2>1, UnwindSockets
  <2>2. CASE unwinding = {} /\ W!ParseAnswer(c)
    <3>1. CASE Head(rb[c]) = "accepted"
      BY <2>2, <3>1, SocketsUntouched DEF W!ParseAnswer, W!Parsed
    <3>2. CASE Head(rb[c]) # "accepted"
      BY <1>5, <2>2, <3>2 DEF W!ParseAnswer, W!Error
    <3> QED
      BY <3>1, <3>2
  <2>3. CASE unwinding = {} /\ (W!ParseMessage(c) \/ W!ParsePing(c))
    BY <2>3, SocketsUntouched DEF W!ParseMessage, W!ParsePing, W!Parsed
  <2>4. CASE unwinding = {} /\ W!ParseClose(c)
    BY <1>7, <2>4, CloseSockets
  <2>5. CASE unwinding = {} /\ W!ParseFragment(c)
    BY <1>5, <2>5 DEF W!ParseFragment, W!Error
  <2>6. CASE unwinding = {} /\ reading' = W!Nobody /\ UNCHANGED <<alive, phase, sock, unwinding, owner, ill>>
    BY <2>6, SocketsUntouched
  <2> QED
    BY <1>7, <2>1, <2>2, <2>3, <2>4, <2>5, <2>6 DEF W!Parse
<1> QED
  BY <1>1, <1>2, <1>3, <1>4, <1>6, <1>7 DEF W!ClientsNext

LEMMA SocketsHold == SocketsInv => W!SocketsOwned
BY DEF SocketsInv, SocketsTypes, OwnedInv, W!SocketsOwned

=============================================================================
