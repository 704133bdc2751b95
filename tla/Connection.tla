----------------------------- MODULE Connection -----------------------------
(***************************************************************************)
(* dmitigr::pgfe::Connection (pgfe/connection.{hpp,cpp}): one connection   *)
(* to a PostgreSQL server over libpq.  The module has the establishment of *)
(* the connection, the four requests (execute, prepare, describe,          *)
(* unprepare), the handling of the server's input and the functions which  *)
(* release a response to the caller.                                       *)
(*                                                                         *)
(* libpq and the server are external.  A command sent is answered by zero  *)
(* or more rows (execute only), one final result and the null result that  *)
(* says the command is done.  Whether the next of these has arrived when   *)
(* PQisBusy() asks is the network's choice.                                *)
(*                                                                         *)
(* An assert() that fails ends the program: its name is kept in "failed".  *)
(* Only that at the end of handle_input() (connection.cpp:366), which a    *)
(* lost link makes fail, is recorded and passed: a build without           *)
(* assertions goes on from there, to the session's end or its resumption.  *)
(***************************************************************************)
EXTENDS Integers, Sequences

CONSTANTS
  None,       \* an empty optional or a null pointer
  Unnamed,    \* the empty statement name
  Name,       \* the other statement names
  Usage,      \* what the caller does, see UsageKind
  Faults,     \* what the environment does, see FaultKind
  MaxRequest, \* bound: requests sent in a behaviour
  MaxTimeout  \* bound: the ticks of a timeout

AnyName == Name \cup {Unnamed}

UsageKind ==
  {"wait",       \* handle_input(true), wait_response() without a timeout
   "poll",       \* handle_input(false) when a result has arrived
   "poll_busy",  \* handle_input(false) at any time
   "timed",      \* wait_response(timeout)
   "sync",       \* prepare() and describe(), which wait themselves
   "connect",    \* connect(timeout)
   "handler",    \* an error handler that returns true is set
   "redescribe", \* a described statement is described again
   "no_pop",     \* a request is sent before the last response is released
   "early_pop",  \* error(), completion() while the response is unready
   "give_up"}    \* disconnect() during the establishment

FaultKind ==
  {"lost",          \* the link to the server breaks
   "discard",       \* an executed SQL command is DISCARD ALL
   "bad_response"}  \* libpq does not understand an answer

VARIABLES
  conn_,               \* PQstatus() of the PGconn: "null" if there is none
  polling_status_,
  session_start_time_, \* TRUE iff it has a value
  response_,           \* the status of the PGresult, and whose it is
  response_status_,
  last_processed_request_id_,
  last_prepared_statement_,    \* the id of a registered statement
  shared_field_names_, \* TRUE iff not null
  named_prepared_statements_,
  unnamed_prepared_statement_,
  requests_,
  request_prepared_statement_,
  request_prepared_statement_name_,
  command,             \* libpq: the command in progress
  server,              \* external: the named statements of the session
  call,                \* the function of the caller that is in progress
  timeout,             \* its remaining time
  seq,                 \* history: the number of requests sent
  failed               \* the assertion that failed

state == <<conn_, polling_status_, session_start_time_>>
answer == <<response_, response_status_, last_processed_request_id_>>
registry == <<last_prepared_statement_, named_prepared_statements_,
              unnamed_prepared_statement_>>
pending == <<request_prepared_statement_, request_prepared_statement_name_>>
session == <<answer, registry, shared_field_names_, requests_, pending>>
remote == <<command, server>>
caller == <<call, timeout, seq>>
vars == <<state, session, remote, caller, failed>>

RequestId == {"execute", "prepare", "describe", "unprepare"}
FinalStatus ==
  {"tuples_ok", "command_ok", "empty_query", "fatal_error", "bad_response"}
ResultStatus == FinalStatus \cup {"none", "single_tuple"}
AnyResult == [status : ResultStatus, of : Nat, id : RequestId \cup {None}]
NoResult == [status |-> "none", of |-> 0, id |-> None]
Statement == [name : Name, id : Nat, described : BOOLEAN]
Phase == {"sent", "rows", "final"}
Command == [id : {"execute"}, name : {None}, phase : Phase]
             \cup [id : RequestId \ {"execute"}, name : AnyName, phase : Phase]
Assertion == {"hpp:242", "cpp:171", "cpp:191", "cpp:235", "cpp:322",
              "cpp:324", "cpp:331", "cpp:332", "cpp:333", "cpp:366", "cpp:433",
              "cpp:448", "cpp:468", "cpp:619", "hpp:714", "hpp:1290"}

ASSUME ConnectionAssumption ==
  /\ None \notin Nat \cup AnyName
  /\ None \notin RequestId \cup Assertion \cup Command
  /\ None \notin {"reading", "writing", "prepared", "described"}
  /\ Unnamed \notin Name
  /\ Usage \subseteq UsageKind
  /\ Faults \subseteq FaultKind
  /\ MaxRequest \in Nat /\ MaxTimeout \in Nat

TypeOK ==
  /\ conn_ \in {"null", "starting", "ok", "bad"}
  /\ polling_status_ \in {None, "reading", "writing"}
  /\ session_start_time_ \in BOOLEAN
  /\ response_ \in AnyResult
  /\ response_status_ \in {"empty", "ready", "unready"}
  /\ last_processed_request_id_ \in RequestId \cup {None}
  /\ last_prepared_statement_ \in Nat \cup {None}
  /\ shared_field_names_ \in BOOLEAN
  /\ named_prepared_statements_ \subseteq Statement
  /\ unnamed_prepared_statement_ \in {None, "prepared", "described"}
  /\ requests_ \in {<<>>} \cup {<<id>> : id \in RequestId}
  /\ request_prepared_statement_ \in AnyName \cup {None}
  /\ request_prepared_statement_name_ \in AnyName \cup {None}
  /\ command \in Command \cup {None}
  /\ server \subseteq Name
  /\ call \in {"none", "connect", "connect_wait", "sync", "sync_done",
               "timed", "timed_wait"}
  /\ timeout \in Int
  /\ seq \in Nat
  /\ failed \in Assertion \cup {None}

Init ==
  /\ conn_ = "null" /\ polling_status_ = None /\ session_start_time_ = FALSE
  /\ response_ = NoResult /\ response_status_ = "empty"
  /\ last_processed_request_id_ = None
  /\ last_prepared_statement_ = None
  /\ shared_field_names_ = FALSE
  /\ named_prepared_statements_ = {} /\ unnamed_prepared_statement_ = None
  /\ requests_ = <<>>
  /\ request_prepared_statement_ = None
  /\ request_prepared_statement_name_ = None
  /\ command = None /\ server = {}
  /\ call = "none" /\ timeout = 0 /\ seq = 0 /\ failed = None

-----------------------------------------------------------------------------
(* Observers.                                                              *)

Running == failed \in {None, "cpp:366"}
Asserted(holds, name) == failed' = IF holds THEN failed ELSE name

Status ==
  CASE polling_status_ # None -> "establishment"
    [] polling_status_ = None /\ conn_ = "ok" -> "connected"
    [] polling_status_ = None /\ conn_ = "null" -> "disconnected"
    [] OTHER -> "failure"

Is_connected == Status = "connected"
Is_ready_for_nio_request == Is_connected /\ command = None
Has_response == response_.status # "none" /\ response_status_ = "ready"

(* ps(): the newest registered statement of this name.                     *)
Ps(name) ==
  CHOOSE e \in named_prepared_statements_ :
    /\ e.name = name
    /\ \A f \in named_prepared_statements_ : f.name = name => f.id <= e.id
Is_registered(name) == \E e \in named_prepared_statements_ : e.name = name

Is_described(name) ==
  IF name = Unnamed THEN unnamed_prepared_statement_ = "described"
                    ELSE Is_registered(name) /\ Ps(name).described

Is_invariant_ok ==
  /\ conn_ # "null" \/ polling_status_ = None
  /\ ~Is_connected \/ Is_ready_for_nio_request \/ requests_ # <<>>
  /\ response_.status = "single_tuple" => shared_field_names_
  /\ Is_connected <=> session_start_time_
  /\ \/ /\ ~session_start_time_ /\ response_ = NoResult
        /\ response_status_ = "empty" /\ ~shared_field_names_
        /\ named_prepared_statements_ = {}
        /\ unnamed_prepared_statement_ = None
        /\ requests_ = <<>>
        /\ request_prepared_statement_ = None
        /\ request_prepared_statement_name_ = None
     \/ Status \in {"failure", "connected"}

(* The end of handle_input(): assert(is_invariant_ok()).                   *)
Ends == failed' = IF Is_invariant_ok' THEN failed ELSE "cpp:366"
EndsIf(holds, name) == IF holds THEN Ends ELSE failed' = name

-----------------------------------------------------------------------------
(* The establishment of the connection.                                    *)

(* Mutants of Reset_session: the queue of requests, or the pointer to the  *)
(* last prepared statement, is kept.                                       *)
Reset_session_but_requests ==
  /\ session_start_time_' = FALSE
  /\ response_' = NoResult /\ response_status_' = "empty"
  /\ last_prepared_statement_' = None
  /\ shared_field_names_' = FALSE
  /\ named_prepared_statements_' = {} /\ unnamed_prepared_statement_' = None
  /\ request_prepared_statement_' = None
  /\ request_prepared_statement_name_' = None
  /\ UNCHANGED <<last_processed_request_id_, requests_>>

Reset_session_but_pointer ==
  /\ session_start_time_' = FALSE
  /\ response_' = NoResult /\ response_status_' = "empty"
  /\ shared_field_names_' = FALSE
  /\ named_prepared_statements_' = {} /\ unnamed_prepared_statement_' = None
  /\ requests_' = <<>>
  /\ request_prepared_statement_' = None
  /\ request_prepared_statement_name_' = None
  /\ UNCHANGED <<last_processed_request_id_, last_prepared_statement_>>

Reset_session ==
  /\ session_start_time_' = FALSE
  /\ response_' = NoResult /\ response_status_' = "empty"
  /\ last_prepared_statement_' = None
  /\ shared_field_names_' = FALSE
  /\ named_prepared_statements_' = {} /\ unnamed_prepared_statement_' = None
  /\ requests_' = <<>>
  /\ request_prepared_statement_' = None
  /\ request_prepared_statement_name_' = None
  /\ UNCHANGED last_processed_request_id_

(* What connect() does after connect_nio(): it returns when connected,     *)
(* throws on failure, and otherwise waits for the socket.                  *)
AfterConnectNio ==
  call' = IF call = "connect" /\ polling_status_' # None
          THEN "connect_wait" ELSE "none"

(* connect_nio() of a connection that is disconnected or has failed.       *)
Connect_start ==
  /\ Running /\ call \in {"none", "connect"}
  /\ \/ Status = "failure" /\ Reset_session
     \/ Status = "disconnected" /\ UNCHANGED <<session_start_time_, session>>
  /\ \/ conn_' = "starting" /\ polling_status_' = "writing"
     \/ conn_' \in {"null", "bad"} /\ polling_status_' = None
  /\ command' = None /\ server' = {}
  /\ AfterConnectNio
  /\ UNCHANGED <<timeout, seq, failed>>

(* connect_nio() of a connection being established: PQconnectPoll().       *)
Connect_poll ==
  /\ Running /\ call \in {"none", "connect"}
  /\ Status = "establishment"
  /\ \/ /\ polling_status_' \in {"reading", "writing"}
        /\ UNCHANGED <<conn_, session_start_time_>>
     \/ /\ polling_status_' = None /\ conn_' = "bad"
        /\ UNCHANGED session_start_time_
     \/ /\ polling_status_' = None /\ conn_' = "ok"
        /\ session_start_time_' = TRUE
  /\ AfterConnectNio
  /\ UNCHANGED <<session, remote, timeout, seq, failed>>

(* connect(timeout), and its two ways to run out of time: after the first  *)
(* connect_nio() and after waiting for the socket, where it asserts that   *)
(* the socket is still unready.                                            *)
Connect ==
  /\ Running /\ call = "none" /\ "connect" \in Usage
  /\ ~Is_connected
  /\ call' = "connect"
  /\ timeout' \in 1..MaxTimeout
  /\ UNCHANGED <<state, session, remote, seq, failed>>

Connect_wait ==
  /\ Running /\ call = "connect_wait"
  /\ \E elapsed \in 0..(timeout + 1), ready \in BOOLEAN :
       /\ ready \/ elapsed >= timeout
       /\ timeout' = timeout - elapsed
       /\ call' = IF timeout' <= 0 THEN "none" ELSE "connect"
       /\ Asserted(timeout' <= 0 => ~ready, "cpp:171")
  /\ UNCHANGED <<state, session, remote, seq>>

(* disconnect() asserts that status() is "disconnected", which the value   *)
(* of polling_status_, not reset, prevents during the establishment.       *)
Disconnect ==
  /\ Running /\ call = "none"
  /\ Status = "establishment" => "give_up" \in Usage
  /\ Reset_session
  /\ conn_' = "null"
  /\ command' = None /\ server' = {}
  /\ Asserted(polling_status_ = None, "hpp:242")
  /\ UNCHANGED <<polling_status_, caller>>

(* read_input() finds that the link is broken.                             *)
Read_input_fails ==
  /\ Running /\ Is_connected /\ "lost" \in Faults
  /\ call \in {"none", "timed_wait"}
  /\ conn_' = "bad"
  /\ call' = "none"
  /\ UNCHANGED <<polling_status_, session_start_time_, session, remote,
                 timeout, seq, failed>>
=============================================================================
