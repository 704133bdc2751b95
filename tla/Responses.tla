----------------------------- MODULE Responses ------------------------------
(***************************************************************************)
(* Connection::process_responses() of src/pgfe, by which execute(),        *)
(* invoke() and call() give the rows of a response to a callback: what the *)
(* callback returns or throws decides about the rest of the response. The  *)
(* calls wait without a timeout here; what a timeout does is in Session.   *)
(***************************************************************************)
EXTENDS Integers, Sequences

CONSTANT MaxRows  \* bound: rows of a response

VARIABLES
  calling,   \* who calls: [has_error_parameter, on_exception, error_handler]
  coming,    \* the server: the results that have not been taken
  requests_, \* the requests that have not been completed
  running,   \* process_responses() that runs: of the callback, "main", or one of those
             \* that it calls to complete, "ignore_row" and "collect_error"; or "none"
  outcome,   \* of the last call of process_responses()
  given,     \* history: the rows given to the callback
  answer,    \* history: how the server ends the response
  reported   \* history: how the error of the response got to the caller

vars == <<calling, coming, requests_, running, outcome, given, answer, reported>>

Callers ==
  [has_error_parameter : BOOLEAN, on_exception : {"complete", "suspend"},
   error_handler : {"none", "returns_false", "returns_true", "throws"}]

Row(k) == [what |-> "row", number |-> k]
Completion == [what |-> "completion", number |-> 0]
Error == [what |-> "error", number |-> 0]
Response(n, last) == [k \in 1..n |-> Row(k)] \o <<last>>
Responses == {Response(n, last) : n \in 0..MaxRows, last \in {Completion, Error}}

\* What a call does: it returns a completion, valid or not, or throws. The exception of the
\* callback may be nested in another one.
NoOutcome == [how |-> "none", valid |-> FALSE, nested |-> FALSE]
Returned(valid) == [how |-> "returned", valid |-> valid, nested |-> FALSE]
Thrown(what, nested) == [how |-> what, valid |-> FALSE, nested |-> nested]

Init ==
  /\ calling \in Callers
  /\ coming = <<>> /\ requests_ = 0
  /\ running = "none" /\ outcome = NoOutcome
  /\ given = <<>> /\ answer = "none" /\ reported = {}

-----------------------------------------------------------------------------

\* wait_response(): it takes a result, and the last one completes the request.
Wait_response(what) ==
  /\ coming # <<>> /\ Head(coming).what = what
  /\ coming' = Tail(coming)
  /\ requests_' = IF what = "row" THEN requests_ ELSE requests_ - 1

Ends(result) == running' = "none" /\ outcome' = result

\* execute() on a connection that is ready for a request, and process_responses() again
\* for what has been suspended.
Execute ==
  /\ running = "none" /\ requests_ = 0
  /\ coming' \in Responses /\ requests_' = 1
  /\ answer' = coming'[Len(coming')].what
  /\ running' = "main" /\ outcome' = NoOutcome
  /\ given' = <<>> /\ reported' = {}
  /\ UNCHANGED calling

Process_responses ==
  /\ running = "none"
  /\ running' = "main" /\ outcome' = NoOutcome
  /\ UNCHANGED <<calling, answer, coming, requests_, given, reported>>

\* A row is given to the callback.
Row_continues ==
  /\ running = "main" /\ Wait_response("row")
  /\ given' = Append(given, Head(coming).number)
  /\ UNCHANGED <<calling, answer, running, outcome, reported>>

Row_completes ==
  /\ running = "main" /\ Wait_response("row")
  /\ given' = Append(given, Head(coming).number)
  /\ running' = "ignore_row"
  /\ UNCHANGED <<calling, answer, outcome, reported>>

Row_suspends ==
  /\ running = "main" /\ Wait_response("row")
  /\ given' = Append(given, Head(coming).number)
  /\ Ends(Returned(FALSE))
  /\ UNCHANGED <<calling, answer, reported>>

Row_throws ==
  /\ running = "main" /\ Wait_response("row")
  /\ given' = Append(given, Head(coming).number)
  /\ IF calling.on_exception = "suspend" THEN Ends(Thrown("callback", FALSE))
     ELSE running' = "collect_error" /\ UNCHANGED outcome
  /\ UNCHANGED <<calling, answer, reported>>

\* The rows after the one that completed are taken and dismissed.
Row_ignored ==
  /\ running \in {"ignore_row", "collect_error"} /\ Wait_response("row")
  /\ UNCHANGED <<calling, answer, running, outcome, given, reported>>

\* The completion is returned, or is the end of what the exception has left to complete.
Completes ==
  /\ running # "none" /\ Wait_response("completion")
  /\ Ends(IF running = "collect_error" THEN Thrown("callback", FALSE) ELSE Returned(TRUE))
  /\ UNCHANGED <<calling, answer, given, reported>>

\* Nothing to wait for: wait_response() returns false.
Completes_nothing ==
  /\ running = "main" /\ coming = <<>>
  /\ Ends(Returned(FALSE))
  /\ UNCHANGED <<calling, answer, coming, requests_, given, reported>>

\* throw_if_error(): the error goes to the handler first, which may throw an exception of
\* its own. If it says that the error is handled, the completion is not valid.
Throw_if_error ==
  CASE calling.error_handler = "none" ->
         reported' = {"exception"} /\ Ends(Thrown("server", FALSE))
    [] calling.error_handler = "returns_false" ->
         reported' = {"handler", "exception"} /\ Ends(Thrown("server", FALSE))
    [] calling.error_handler = "returns_true" -> reported' = {"handler"} /\ Ends(Returned(FALSE))
    [] calling.error_handler = "throws" -> reported' = {"handler"} /\ Ends(Thrown("handler", FALSE))

\* The callback with a parameter for errors gets it, unless it has asked to complete:
\* ignore_row() has no such parameter.
Fails ==
  /\ running # "none" /\ Wait_response("error")
  /\ CASE running = "collect_error" ->
            reported' = {"exception"} /\ Ends(Thrown("server", TRUE))
       [] running = "main" /\ calling.has_error_parameter ->
            \/ reported' = {"callback"} /\ Ends(Returned(FALSE))
            \/ reported' = {"callback"} /\ Ends(Thrown("callback", FALSE))
       [] OTHER -> Throw_if_error
  /\ UNCHANGED <<calling, answer, given>>

Next ==
  \/ Execute \/ Process_responses
  \/ Row_continues \/ Row_completes \/ Row_suspends \/ Row_throws \/ Row_ignored
  \/ Completes \/ Completes_nothing \/ Fails

Spec == Init /\ [][Next]_vars

-----------------------------------------------------------------------------

\* The rows are given once each and in their order; until the callback has returned the
\* end of the response is reached but by process_responses(), and the connection is left
\* with a request that is not completed only if the callback wants so: it suspends, or
\* throws where exceptions suspend. Then no row that was not given is lost.
RowsKept ==
  /\ given = [k \in 1..Len(given) |-> k]
  /\ requests_ \in {0, 1} /\ (requests_ = 0 <=> coming = <<>>)
  /\ running = "none" /\ requests_ = 1 =>
       /\ outcome = Returned(FALSE) \/ (outcome = Thrown("callback", FALSE) /\ calling.on_exception = "suspend")
       /\ Head(coming) \in {Row(Len(given) + 1), Completion, Error}

\* Once the response is at its end the caller knows how: a completion that is valid means
\* that the server has done what was asked, and an error of the server has reached the
\* callback, the handler or an exception, which has that of the callback nested in it if
\* the callback has thrown. The callback is not told what is thrown as well.
ErrorsReported ==
  /\ outcome.valid => answer = "completion"
  /\ outcome.nested => given # <<>>
  /\ running = "none" /\ requests_ = 0 /\ answer # "none" =>
       (answer = "error" <=> reported # {})
  /\ reported # {} => running = "none" \/ coming = <<>>
  /\ ~({"callback", "exception"} \subseteq reported)
  /\ outcome.how = "server" => "exception" \in reported
=============================================================================
