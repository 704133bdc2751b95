------------------------------ MODULE Session -------------------------------
(***************************************************************************)
(* The requests and the responses of a pgfe::Connection, and its whole     *)
(* behaviour: the actions of module Connection together with those of this *)
(* module.                                                                 *)
(***************************************************************************)
EXTENDS Connection

-----------------------------------------------------------------------------
(* Sending a request.  That the connection is ready for it is a documented *)
(* requirement; a caller that releases every response first has nothing    *)
(* left in response_ (completion() never takes an empty query's, nor one    *)
(* that was not understood) and no prepared statement to fetch.            *)

Released ==
  \/ "no_pop" \in Usage
  \/ /\ response_.status \in {"none", "empty_query", "bad_response"}
     /\ last_prepared_statement_ = None

Send(id, name) ==
  /\ Running /\ call = "none"
  /\ Is_ready_for_nio_request
  /\ Released
  /\ seq < MaxRequest
  /\ seq' = seq + 1
  /\ command' = [id |-> id, name |-> name, phase |-> "sent"]
  /\ UNCHANGED <<state, answer, registry, shared_field_names_, server,
                 timeout>>

(* Prepared_statement::execute_nio__(), also used by execute_nio().        *)
Execute_nio ==
  /\ Send("execute", None)
  /\ requests_' = Append(requests_, "execute")
  /\ UNCHANGED <<pending, call, failed>>

(* prepare_nio__(), on its own or within prepare().                        *)
Prepare_nio(name, c) ==
  /\ Send("prepare", name)
  /\ Asserted(request_prepared_statement_ = None, "cpp:619")
  /\ requests_' = Append(requests_, "prepare")
  /\ request_prepared_statement_' = name
  /\ call' = c
  /\ UNCHANGED request_prepared_statement_name_

(* describe_nio(), on its own or within describe().                        *)
Describe_nio(name, c) ==
  /\ Send("describe", name)
  /\ Is_described(name) => "redescribe" \in Usage
  /\ Asserted(request_prepared_statement_name_ = None, "cpp:448")
  /\ requests_' = Append(requests_, "describe")
  /\ request_prepared_statement_name_' = name
  /\ call' = c
  /\ UNCHANGED request_prepared_statement_

(* unprepare_nio(): an execute request whose entry is then overwritten.    *)
Unprepare_nio(name) ==
  /\ Send("unprepare", name)
  /\ Asserted(request_prepared_statement_name_ = None, "cpp:468")
  /\ requests_' = [Append(requests_, "execute") EXCEPT ![1] = "unprepare"]
  /\ request_prepared_statement_name_' = name
  /\ UNCHANGED <<request_prepared_statement_, call>>

-----------------------------------------------------------------------------
(* External: the final result of the command in progress, and what the     *)
(* server has done by then.  A broken link is a fatal error too; what was  *)
(* done of a command whose answer is not understood is not known.          *)

Command_ok(name) ==
  \/ /\ command.id = "prepare" /\ name \notin server
     /\ server' = server \cup ({name} \ {Unnamed})
  \/ /\ command.id = "describe" /\ name \in server \cup {Unnamed}
     /\ server' = server
  \/ /\ command.id = "unprepare" /\ name \in server
     /\ server' = server \ {name}
  \/ /\ command.id = "execute" /\ command.phase = "sent"
     /\ server' \in {server} \cup {{} : f \in Faults \cap {"discard"}}

Final_result(status) ==
  /\ command # None /\ command.phase # "final"
  /\ \/ /\ status = "fatal_error"
        /\ server' = server
        /\ \/ conn_' = "ok"
           \/ "lost" \in Faults /\ conn_' = "bad"
     \/ /\ status = "command_ok" /\ Command_ok(command.name)
        /\ UNCHANGED conn_
     \/ /\ status = "bad_response" /\ "bad_response" \in Faults
        /\ server' = server \/ Command_ok(command.name)
        /\ UNCHANGED conn_
     \/ /\ status \in {"tuples_ok", "empty_query"}
        /\ command.id = "execute"
        /\ status = "empty_query" => command.phase = "sent"
        /\ UNCHANGED <<server, conn_>>

-----------------------------------------------------------------------------
(* handle_input().  The caller waits for the input or polls for it.        *)

May_wait == call = "sync" \/ (call = "none" /\ "wait" \in Usage)
May_poll == call = "timed" \/ (call = "none" /\ "poll" \in Usage)

(* Mutant of Return: prepare() waits again after an error.                 *)
Return_unless_error(status) ==
  call' = IF call = "sync" /\ status = "ready"
             /\ response_'.status # "fatal_error"
          THEN "sync_done" ELSE call

(* What becomes of the calling function when handle_input() returns.       *)
Return(status) ==
  call' = CASE call = "sync"  -> "sync_done"
            [] call = "timed" -> IF status = "unready" THEN "timed_wait"
                                                       ELSE "none"
            [] OTHER -> call

(* dismiss_request(), and the request it makes the last processed one.     *)
Dismissed == IF requests_ = <<>> THEN last_processed_request_id_
                                 ELSE Head(requests_)

(* Mutants of Dismiss_request: the request is popped without being         *)
(* remembered, or remembered without being popped.                         *)
Dismiss_unremembered ==
  /\ UNCHANGED last_processed_request_id_
  /\ requests_' = IF requests_ = <<>> THEN <<>> ELSE Tail(requests_)

Dismiss_unpopped ==
  /\ last_processed_request_id_' = Dismissed
  /\ UNCHANGED requests_

Dismiss_request ==
  /\ last_processed_request_id_' = Dismissed
  /\ requests_' = IF requests_ = <<>> THEN <<>> ELSE Tail(requests_)

(* Mutant of Unregister_ps: the list is left alone.                        *)
Unregister_nothing(name) == UNCHANGED named_prepared_statements_

Unregister_ps(name) ==
  named_prepared_statements_' =
    {e \in named_prepared_statements_ : e.name # name}

(* The address of a statement is the number of the request that registered *)
(* it, 0 for the unnamed one.                                              *)
Register_ps(name, id, described) ==
  IF name = Unnamed
  THEN /\ unnamed_prepared_statement_' = IF described THEN "described"
                                                      ELSE "prepared"
       /\ last_prepared_statement_' = 0
       /\ UNCHANGED named_prepared_statements_
  ELSE /\ named_prepared_statements_' = named_prepared_statements_ \cup
            {[name |-> name, id |-> id, described |-> described]}
       /\ last_prepared_statement_' = id
       /\ UNCHANGED unnamed_prepared_statement_

(* set_description() of a statement that is registered already.            *)
Set_description(name) ==
  IF name = Unnamed
  THEN /\ unnamed_prepared_statement_' = "described"
       /\ last_prepared_statement_' = 0
       /\ UNCHANGED named_prepared_statements_
  ELSE LET p == Ps(name)
       IN /\ named_prepared_statements_' =
               (named_prepared_statements_ \ {p})
                  \cup {[p EXCEPT !.described = TRUE]}
          /\ last_prepared_statement_' = p.id
          /\ UNCHANGED unnamed_prepared_statement_

Is_known(name) == IF name = Unnamed THEN unnamed_prepared_statement_ # None
                                    ELSE Is_registered(name)

(* The preprocessing of the response r to the request id.                  *)
Preprocess_none(r) ==
  /\ r.status \in {"none", "empty_query", "bad_response"}
  /\ response_' = r
  /\ UNCHANGED <<registry, shared_field_names_, pending>>
  /\ Ends

Preprocess_tuples(r, id) ==
  /\ r.status = "tuples_ok"
  /\ response_' = r
  /\ shared_field_names_' = FALSE
  /\ UNCHANGED <<registry, pending>>
  /\ EndsIf(id = "execute", "cpp:324")

(* Mutant of Preprocess_error: the pending name is kept.                   *)
Preprocess_error_but_name(r) ==
  /\ r.status = "fatal_error"
  /\ response_' = r
  /\ shared_field_names_' = FALSE
  /\ request_prepared_statement_' = None
  /\ UNCHANGED <<registry, request_prepared_statement_name_>>
  /\ Ends

(* Mutant of Preprocess_error: the field names are kept.                   *)
Preprocess_error_but_names(r) ==
  /\ r.status = "fatal_error"
  /\ response_' = r
  /\ request_prepared_statement_' = None
  /\ request_prepared_statement_name_' = None
  /\ UNCHANGED <<registry, shared_field_names_>>
  /\ Ends

Preprocess_error(r) ==
  /\ r.status = "fatal_error"
  /\ response_' = r
  /\ shared_field_names_' = FALSE
  /\ request_prepared_statement_' = None
  /\ request_prepared_statement_name_' = None
  /\ UNCHANGED registry
  /\ Ends

Preprocess_prepared(r) ==
  /\ response_' = r
  /\ IF request_prepared_statement_ = None THEN UNCHANGED registry
     ELSE Register_ps(request_prepared_statement_, r.of, FALSE)
  /\ request_prepared_statement_' = None
  /\ UNCHANGED <<shared_field_names_, request_prepared_statement_name_>>
  /\ EndsIf(request_prepared_statement_ # None, "cpp:331")

Preprocess_described(r) ==
  LET name == request_prepared_statement_name_
  IN /\ IF name = None
        THEN UNCHANGED <<registry, response_>>
        ELSE /\ IF Is_known(name) THEN Set_description(name)
                                  ELSE Register_ps(name, r.of, TRUE)
             /\ response_' = NoResult
     /\ request_prepared_statement_name_' = None
     /\ UNCHANGED <<shared_field_names_, request_prepared_statement_>>
     /\ IF name = None THEN failed' = "cpp:332"
                       ELSE EndsIf(~Is_described(name), "hpp:714")

Preprocess_unprepared(r) ==
  LET name == request_prepared_statement_name_
  IN /\ response_' = r
     /\ Unregister_ps(name)
     /\ request_prepared_statement_name_' = None
     /\ UNCHANGED <<last_prepared_statement_, unnamed_prepared_statement_,
                    shared_field_names_, request_prepared_statement_>>
     /\ EndsIf(name # None, "cpp:333")

Preprocess_executed(r) ==
  /\ response_' = r
  /\ UNCHANGED <<registry, shared_field_names_, pending>>
  /\ Ends

Preprocess(r, id) ==
  \/ Preprocess_none(r)
  \/ Preprocess_tuples(r, id)
  \/ Preprocess_error(r)
  \/ /\ r.status = "command_ok"
     /\ \/ id = "prepare"   /\ Preprocess_prepared(r)
        \/ id = "describe"  /\ Preprocess_described(r)
        \/ id = "unprepare" /\ Preprocess_unprepared(r)
        \/ id = "execute"   /\ Preprocess_executed(r)

-----------------------------------------------------------------------------
(* The cases of handle_input(), by what PQgetResult() returns.  Each ends  *)
(* with the assertion of the invariant, evaluated on the state it leaves.  *)

Handle_input == Running /\ Is_connected /\ (May_wait \/ May_poll)

(* The result PQgetResult() returns for the command in progress.           *)
Result(status) == [status |-> status, of |-> seq, id |-> command.id]

(* A row.                                                                  *)
Handle_row ==
  /\ Handle_input /\ response_status_ # "unready"
  /\ command # None /\ command.id = "execute" /\ command.phase # "final"
  /\ command' = [command EXCEPT !.phase = "rows"]
  /\ response_' = Result("single_tuple")
  /\ response_status_' = "ready"
  /\ shared_field_names_' = TRUE
  /\ Return("ready")
  /\ UNCHANGED <<state, last_processed_request_id_, registry, requests_,
                 pending, server, timeout, seq>>
  /\ EndsIf(requests_ # <<>> /\ Head(requests_) = "execute", "cpp:235")

(* A final result, and the null result after it.                           *)
Handle_completion ==
  /\ Handle_input /\ response_status_ # "unready"
  /\ command' = None
  /\ response_status_' = "ready"
  /\ Dismiss_request
  /\ UNCHANGED <<polling_status_, session_start_time_, timeout, seq>>
  /\ \E status \in FinalStatus :
       /\ Final_result(status)
       /\ Preprocess(Result(status), Dismissed)
  /\ Return("ready")

(* A final result when PQisBusy() says that the null has not arrived.      *)
Handle_incomplete ==
  /\ Handle_input /\ May_poll /\ response_status_ # "unready"
  /\ \E status \in FinalStatus :
       /\ Final_result(status)
       /\ response_' = Result(status)
  /\ command' = [command EXCEPT !.phase = "final"]
  /\ response_status_' = "unready"
  /\ Return("unready")
  /\ UNCHANGED <<polling_status_, session_start_time_, registry, pending,
                 last_processed_request_id_, shared_field_names_, requests_,
                 timeout, seq>>
  /\ Ends

(* The null result after a final result taken before.                      *)
Handle_null ==
  /\ Handle_input /\ response_status_ = "unready"
  /\ command' = None
  /\ response_status_' = "ready"
  /\ Dismiss_request
  /\ UNCHANGED <<state, server, timeout, seq>>
  /\ Preprocess(response_, Dismissed)
  /\ Return("ready")

(* Nothing is in progress: the result is null.                             *)
Handle_nothing ==
  /\ Handle_input /\ response_status_ # "unready"
  /\ command = None
  /\ response_' = NoResult
  /\ response_status_' = "empty"
  /\ Dismiss_request
  /\ Return("empty")
  /\ UNCHANGED <<state, registry, shared_field_names_, pending, remote,
                 timeout, seq>>
  /\ Ends

(* PQisBusy(): response_status_ stays what the last request made of it.    *)
Handle_busy ==
  /\ Handle_input /\ May_poll
  /\ call = "timed" \/ "poll_busy" \in Usage \/ response_status_ = "unready"
  /\ command # None
  /\ UNCHANGED <<state, remote, timeout, seq>>
  /\ Return(response_status_)
  /\ \/ /\ response_status_ = "unready"
        /\ UNCHANGED session
        /\ Ends
     \/ /\ response_status_ = "empty"
        /\ Dismiss_request
        /\ UNCHANGED <<response_, response_status_, registry,
                       shared_field_names_, pending>>
        /\ Ends
     \/ /\ response_status_ = "ready"
        /\ UNCHANGED <<response_status_, last_processed_request_id_,
                       requests_>>
        /\ \/ Preprocess(response_, last_processed_request_id_)
           \/ /\ response_.status = "single_tuple"
              /\ UNCHANGED <<response_, registry, shared_field_names_,
                             pending>>
              /\ failed' = "cpp:322"

-----------------------------------------------------------------------------
(* wait_response(timeout): handle_input(false) in a loop, and a wait for   *)
(* the socket while the response is unready.  What is left of the timeout  *)
(* after the socket became ready may be negative.                          *)
Wait_response ==
  /\ Running /\ call = "none" /\ "timed" \in Usage
  /\ Is_connected /\ requests_ # <<>>
  /\ call' = "timed"
  /\ timeout' \in 0..MaxTimeout
  /\ UNCHANGED <<state, session, remote, seq, failed>>

Wait_readable ==
  /\ Running /\ call = "timed_wait"
  /\ Asserted(timeout >= -1, "cpp:191")
  /\ \E elapsed \in 0..2 : timeout' = timeout - elapsed
  /\ call' = "timed"
  /\ UNCHANGED <<state, session, remote, seq>>

Wait_timed_out ==
  /\ Running /\ call = "timed_wait"
  /\ timeout >= 0
  /\ call' = "none"
  /\ UNCHANGED <<state, session, remote, timeout, seq, failed>>

-----------------------------------------------------------------------------
(* Releasing the response to the caller.                                   *)

May_release ==
  /\ Running /\ call = "none"
  /\ response_status_ = "unready" => "early_pop" \in Usage

(* error() and row() move the response out if it is theirs.                *)
Release_error_or_row ==
  /\ May_release
  /\ response_.status \in {"fatal_error", "single_tuple"}
  /\ response_' = NoResult
  /\ UNCHANGED <<state, response_status_, last_processed_request_id_,
                 registry, shared_field_names_, requests_, pending, remote,
                 caller, failed>>

(* completion() decides by the request processed last.                     *)
Release_completion ==
  /\ May_release
  /\ response_.status \in {"tuples_ok", "command_ok"}
  /\ Asserted(\/ response_.status = "tuples_ok"
            \/ last_processed_request_id_ # None, "cpp:433")
  /\ response_' = IF \/ response_.status = "tuples_ok"
                     \/ last_processed_request_id_ \in
                          {"execute", "unprepare"}
                  THEN NoResult ELSE response_
  /\ UNCHANGED <<state, response_status_, last_processed_request_id_,
                 registry, shared_field_names_, requests_, pending, remote,
                 caller>>

(* prepared_statement().                                                   *)
Release_prepared_statement ==
  /\ May_release
  /\ last_prepared_statement_ # None
  /\ last_prepared_statement_' = None
  /\ response_' = NoResult
  /\ UNCHANGED <<state, response_status_, last_processed_request_id_,
                 named_prepared_statements_, unnamed_prepared_statement_,
                 shared_field_names_, requests_, pending, remote, caller,
                 failed>>

(* The end of prepare() and describe(): wait_prepared_statement__().  An   *)
(* error is thrown unless the error handler says it is handled.            *)
Sync_done ==
  /\ Running /\ call = "sync_done"
  /\ response_' = NoResult
  /\ call' = "none"
  /\ \/ /\ response_.status = "fatal_error" /\ "handler" \notin Usage
        /\ UNCHANGED <<last_prepared_statement_, failed>>
     \/ /\ response_.status # "fatal_error" \/ "handler" \in Usage
        /\ last_prepared_statement_' = None
        /\ Asserted(last_prepared_statement_ # None, "hpp:1290")
  /\ UNCHANGED <<state, response_status_, last_processed_request_id_,
                 named_prepared_statements_, unnamed_prepared_statement_,
                 shared_field_names_, requests_, pending, remote, timeout,
                 seq>>

-----------------------------------------------------------------------------
Establishment ==
  Connect_start \/ Connect_poll \/ Connect \/ Connect_wait \/ Disconnect
    \/ Read_input_fails

Request ==
  \/ Execute_nio
  \/ \E name \in AnyName, c \in {"none"} \cup (Usage \cap {"sync"}) :
       Prepare_nio(name, c) \/ Describe_nio(name, c)
  \/ \E name \in Name : Unprepare_nio(name)

Input ==
  Handle_row \/ Handle_completion \/ Handle_incomplete \/ Handle_null
    \/ Handle_nothing \/ Handle_busy

Wait == Wait_response \/ Wait_readable \/ Wait_timed_out

Release ==
  Release_error_or_row \/ Release_completion \/ Release_prepared_statement
    \/ Sync_done

Next == Establishment \/ Request \/ Input \/ Wait \/ Release

Spec == Init /\ [][Next]_vars

(* The server answers a request, the network delivers the answer to a      *)
(* thread blocked in prepare() or describe(), and that thread goes on.     *)
Fairness == WF_vars(call = "sync" /\ Input) /\ WF_vars(Sync_done)

FairSpec == Spec /\ Fairness

-----------------------------------------------------------------------------
(* Properties.                                                             *)

(* No assert() of the modelled functions fails, whatever the server        *)
(* answers and in whichever order the caller sends, waits and releases     *)
(* (connection.cpp:171-468, 619, connection.hpp:242, 1290), but one: that  *)
(* at the end of handle_input() (connection.cpp:366) fails in the call     *)
(* that finds the link lost, for the session's start time is still there   *)
(* (533), and in no other.                                                 *)
AssertionsHold ==
  [][failed' # failed =>
       failed' = "cpp:366" /\ Is_connected /\ Status' = "failure"]_vars

(* One request is in flight at most, requests_ has it exactly as long as   *)
(* the server works on it, and "unready" is the time between its final     *)
(* result and its end (connection.cpp:240-314, 531).                       *)
RequestInFlight ==
  Is_connected =>
    /\ IF command = None THEN requests_ = <<>>
                         ELSE requests_ = <<command.id>>
    /\ response_status_ = "unready" <=>
         command # None /\ command.phase = "final"

(* The field names of one query are never used for the rows of another:    *)
(* they exist only between a query's first row and its end                 *)
(* (connection.cpp:236, 325, 327).                                         *)
FieldNamesFresh ==
  Is_connected /\ shared_field_names_ =>
    command # None /\ command.id = "execute" /\ command.phase # "sent"

(* A response is released as what it is: completion() decides by the       *)
(* request processed last, which is the one of that response, although     *)
(* further requests may have been sent (connection.cpp:408-443).           *)
ResponseOfProcessedRequest ==
  Is_connected /\ Has_response /\ response_.status # "single_tuple" =>
    last_processed_request_id_ = response_.id

(* "The pointer to a last prepared statement if the last operation was     *)
(* prepare" (connection.hpp:609): never one to a statement that            *)
(* unregister_ps() has destroyed (connection.cpp:662).                     *)
NoDanglingStatement ==
  \/ last_prepared_statement_ \in {None, 0}
  \/ \E e \in named_prepared_statements_ : e.id = last_prepared_statement_

(* The registered statements are those of the server's session, but for    *)
(* the request in flight whose end has not been handled yet, and none is   *)
(* registered twice (connection.cpp:334-347, 653).                         *)
RegistryMatchesServer ==
  Is_connected =>
    /\ \A e, f \in named_prepared_statements_ : e.name = f.name => e = f
    /\ \A name \in Name :
         \/ Is_registered(name) <=> name \in server
         \/ /\ command # None /\ command.phase = "final"
            /\ command.name = name

(* Nothing of a session outlives it, however the caller used it and        *)
(* wherever it was interrupted: without a connection there is no response, *)
(* request, statement or field name (connection.cpp:534-544, 575).         *)
NoSessionNoData ==
  Status \in {"disconnected", "establishment"} =>
    /\ ~session_start_time_ /\ ~shared_field_names_
    /\ response_ = NoResult /\ response_status_ = "empty"
    /\ last_prepared_statement_ = None
    /\ named_prepared_statements_ = {} /\ unnamed_prepared_statement_ = None
    /\ requests_ = <<>>
    /\ request_prepared_statement_ = None
    /\ request_prepared_statement_name_ = None

(* is_invariant_ok() (connection.cpp:524), which every function asserts,   *)
(* holds at every step of a session and of its establishment; only a link  *)
(* that breaks makes it false (see AssertionsHold).                        *)
InvariantOk == Status # "failure" => Is_invariant_ok

(* prepare() and describe() return once the server has answered            *)
(* (connection.hpp:1286).                                                  *)
SyncReturns == call \in {"sync", "sync_done"} ~> call = "none"

-----------------------------------------------------------------------------
(* Statements of the documentation and assertions which do not hold when   *)
(* the caller does what Usage names after each; README.md has the          *)
(* behaviours.  The assertions which fail then are named by "failed".      *)

(* has_uncompleted_request(): "true if there is uncompleted request"       *)
(* (connection.hpp:384; "poll_busy", "timed").                             *)
UncompletedRequestIsKnown ==
  Is_connected /\ command # None => requests_ # <<>>

(* wait_response(timeout) throws unless has_response() becomes true within *)
(* the timeout (connection.hpp:407; "timed"): it returns with the          *)
(* response.                                                               *)
TimedWaitHasResponse ==
  [][call = "timed" /\ call' = "none" => command' = None \/ Has_response']_vars

(* and it never waits for the socket without a limit (connection.hpp:407;  *)
(* "timed").                                                               *)
TimedWaitIsBounded == call = "timed_wait" => timeout >= 0

(* wait_response() "@returns has_response()" (connection.hpp:399) for      *)
(* every request, when it returns true (any use).                          *)
ReadyMeansResponse ==
  [][requests_ # <<>> /\ requests_' = <<>> /\ response_status_' = "ready"
       => Has_response']_vars
=============================================================================
