--------------------------- MODULE SessionProofs ----------------------------
(***************************************************************************)
(* Proofs about module Session, for any set of statement names and any     *)
(* number of requests.  The invariants come in layers, each resting on     *)
(* those before it and needing a caller who leaves out one more of the     *)
(* uses that UsageKind lists.                                              *)
(***************************************************************************)
EXTENDS Session, TLAPS

-----------------------------------------------------------------------------
(* The status, by the two variables it is made of.                         *)

LEMMA Strings ==
  /\ None # "reading" /\ None # "writing" /\ None # "prepared"
  /\ None # "described" /\ \A id \in RequestId : None # id
BY ConnectionAssumption DEF ConnectionAssumption

LEMMA StatusCases ==
  /\ Is_connected <=> polling_status_ = None /\ conn_ = "ok"
  /\ Status = "failure" <=>
       polling_status_ = None /\ conn_ # "ok" /\ conn_ # "null"
  /\ Status = "establishment" <=> polling_status_ # None
  /\ Status = "disconnected" <=> polling_status_ = None /\ conn_ = "null"
BY DEF Is_connected, Status

LEMMA StatusCasesNext ==
  /\ Is_connected' <=> polling_status_' = None /\ conn_' = "ok"
  /\ Status' = "failure" <=>
       polling_status_' = None /\ conn_' # "ok" /\ conn_' # "null"
  /\ Status' = "establishment" <=> polling_status_' # None
  /\ Status' = "disconnected" <=> polling_status_' = None /\ conn_' = "null"
BY DEF Is_connected, Status

(* requests_ holds one request at most.                                    *)
LEMMA OneRequest ==
  ASSUME NEW id
  PROVE  /\ Head(<<id>>) = id /\ Tail(<<id>>) = <<>> /\ <<id>> # <<>>
         /\ Append(<<>>, id) = <<id>>
         /\ [Append(<<>>, id) EXCEPT ![1] = "unprepare"] = <<"unprepare">>
OBVIOUS

(* The values of response_ and of command.                                 *)
LEMMA NoResultType == NoResult \in AnyResult /\ NoResult.status = "none"
BY DEF NoResult, ResultStatus, AnyResult

LEMMA CommandParts ==
  ASSUME NEW c \in Command
  PROVE  /\ c # None /\ c.id \in RequestId /\ c.phase \in Phase
         /\ c.id = "execute" => c.name = None
         /\ c.id # "execute" => c.name \in AnyName
         /\ \A phase \in Phase :
              LET d == [c EXCEPT !.phase = phase]
              IN  /\ d \in Command /\ d # None
                  /\ d.id = c.id /\ d.name = c.name /\ d.phase = phase
<1>0. c # None
  BY ConnectionAssumption DEF ConnectionAssumption
<1>1. CASE c \in [id : {"execute"}, name : {None}, phase : Phase]
  <2>1. \A phase \in Phase : [c EXCEPT !.phase = phase] \in Command
    BY <1>1 DEF Command
  <2> QED
    BY <1>0, <1>1, <2>1, ConnectionAssumption
    DEF ConnectionAssumption, RequestId
<1>2. CASE c \in [id : RequestId \ {"execute"}, name : AnyName, phase : Phase]
  <2>1. \A phase \in Phase : [c EXCEPT !.phase = phase] \in Command
    BY <1>2 DEF Command
  <2> QED
    BY <1>0, <1>2, <2>1, ConnectionAssumption
    DEF ConnectionAssumption, RequestId
<1> QED
  BY <1>1, <1>2 DEF Command

LEMMA NewCommand ==
  ASSUME NEW id \in RequestId, NEW name,
         IF id = "execute" THEN name = None ELSE name \in AnyName
  PROVE  [id |-> id, name |-> name, phase |-> "sent"] \in Command
BY DEF Command, Phase

-----------------------------------------------------------------------------
(* For any use: the types, and what a connection without a session has.    *)

IdleHasNoRequest == Is_connected /\ command = None => requests_ = <<>>

NoSessionNoCommand ==
  Status \in {"disconnected", "establishment"} =>
    command = None /\ server = {}

RowHasNames == response_.status = "single_tuple" => shared_field_names_

SessionStarted == Is_connected => session_start_time_

(* ps() finds the newest statement of a registered name.                   *)
HasNewest(list) ==
  \A e \in list :
    \E p \in list :
      p.name = e.name /\ \A f \in list : f.name = e.name => f.id <= p.id

SessionInv ==
  TypeOK /\ NoSessionNoData /\ NoSessionNoCommand /\ IdleHasNoRequest
    /\ RowHasNames /\ SessionStarted /\ HasNewest(named_prepared_statements_)

LEMMA PsRegistered ==
  ASSUME HasNewest(named_prepared_statements_),
         NEW name, Is_registered(name)
  PROVE  /\ Ps(name) \in named_prepared_statements_
         /\ Ps(name).name = name
         /\ \A f \in named_prepared_statements_ :
              f.name = name => f.id <= Ps(name).id
<1>1. \E p \in named_prepared_statements_ :
        /\ p.name = name
        /\ \A f \in named_prepared_statements_ : f.name = name => f.id <= p.id
  BY DEF HasNewest, Is_registered
<1> QED
  BY <1>1 DEF Ps


LEMMA InitBase == Init => SessionInv
<1> SUFFICES ASSUME Init
             PROVE  SessionInv
  OBVIOUS
<1>1. response_ \in AnyResult
  BY NoResultType DEF Init
<1>2. TypeOK
  <2>1. requests_ \in {<<>>} \cup {<<id>> : id \in RequestId}
    BY DEF Init
  <2>2. /\ named_prepared_statements_ \subseteq Statement
        /\ server \subseteq Name /\ failed \in Assertion \cup {None}
        /\ timeout \in Int /\ seq \in Nat
    BY DEF Init
  <2>3. /\ conn_ \in {"null", "starting", "ok", "bad"}
        /\ polling_status_ \in {None, "reading", "writing"}
        /\ session_start_time_ \in BOOLEAN /\ shared_field_names_ \in BOOLEAN
        /\ response_status_ \in {"empty", "ready", "unready"}
        /\ call = "none"
    BY DEF Init
  <2>4. /\ last_prepared_statement_ \in Nat \cup {None}
        /\ unnamed_prepared_statement_ \in {None, "prepared", "described"}
        /\ request_prepared_statement_ \in AnyName \cup {None}
        /\ request_prepared_statement_name_ \in AnyName \cup {None}
        /\ command \in Command \cup {None}
    BY DEF Init
  <2>5. last_processed_request_id_ \in RequestId \cup {None}
    BY DEF Init
  <2> QED
    BY <1>1, <2>1, <2>2, <2>3, <2>4, <2>5 DEF TypeOK
<1>3. ~Is_connected
  BY StatusCases DEF Init
<1>4. NoSessionNoData /\ NoSessionNoCommand /\ HasNewest(named_prepared_statements_)
  BY DEF Init, NoSessionNoData, NoSessionNoCommand, HasNewest
<1> QED
  BY <1>2, <1>3, <1>4
  DEF Init, SessionInv, IdleHasNoRequest, RowHasNames, SessionStarted, NoResult

LEMMA StutterBase ==
  ASSUME SessionInv, UNCHANGED vars
  PROVE  SessionInv'
BY StatusCases, StatusCasesNext
   DEF vars, state, session, answer, registry, pending, remote, caller,
       SessionInv, TypeOK, NoSessionNoData, NoSessionNoCommand, IdleHasNoRequest, RowHasNames,
       SessionStarted, HasNewest

LEMMA EstablishmentBase ==
  ASSUME SessionInv, Establishment
  PROVE  SessionInv'
<1> USE DEF state, session, answer, registry, pending, remote, caller
<1>1. CASE Connect_start
  <2>1. /\ conn_' \in {"starting", "null", "bad"}
        /\ polling_status_' \in {"writing", None}
        /\ conn_' = "starting" => polling_status_' # None
        /\ command' = None /\ server' = {} /\ call' \in {"connect_wait", "none"}
        /\ UNCHANGED <<timeout, seq, failed, last_processed_request_id_>>
    BY <1>1, Strings DEF Connect_start, AfterConnectNio, Reset_session
  <2>2. /\ ~session_start_time_' /\ ~shared_field_names_'
        /\ response_' = NoResult /\ response_status_' = "empty"
        /\ last_prepared_statement_' = None
        /\ named_prepared_statements_' = {}
        /\ unnamed_prepared_statement_' = None /\ requests_' = <<>>
        /\ request_prepared_statement_' = None
        /\ request_prepared_statement_name_' = None
        /\ session_start_time_' \in BOOLEAN /\ shared_field_names_' \in BOOLEAN
    <3>1. CASE Reset_session
      BY <3>1 DEF Reset_session
    <3>2. CASE Status = "disconnected" /\ UNCHANGED <<session_start_time_, session>>
      BY <3>2 DEF SessionInv, NoSessionNoData, NoSessionNoCommand, TypeOK
    <3> QED
      BY <1>1, <3>1, <3>2 DEF Connect_start
  <2>3. TypeOK'
    BY <2>1, <2>2, NoResultType DEF SessionInv, TypeOK
  <2>4. ~Is_connected'
    BY <2>1, StatusCasesNext
  <2>5. NoSessionNoData' /\ NoSessionNoCommand' /\ RowHasNames'
    BY <2>1, <2>2 DEF NoSessionNoData, NoSessionNoCommand, RowHasNames, NoResult
  <2>6. HasNewest(named_prepared_statements_)'
    BY <2>2 DEF HasNewest
  <2> QED
    BY <2>2, <2>3, <2>4, <2>5, <2>6
    DEF SessionInv, IdleHasNoRequest, SessionStarted
<1>2. CASE Connect_poll
  <2>1. UNCHANGED <<session, remote, timeout, seq, failed>>
    BY <1>2 DEF Connect_poll
  <2>2. /\ polling_status_' \in {"reading", "writing", None}
        /\ call' \in {"connect_wait", "none"}
        /\ \/ polling_status_' # None
              /\ UNCHANGED <<conn_, session_start_time_>>
           \/ polling_status_' = None /\ conn_' = "bad"
              /\ UNCHANGED session_start_time_
           \/ polling_status_' = None /\ conn_' = "ok"
              /\ session_start_time_' = TRUE
    BY <1>2, Strings DEF Connect_poll, AfterConnectNio
  <2>3. TypeOK'
    <3>1. conn_' \in {"null", "starting", "ok", "bad"}
          /\ session_start_time_' \in BOOLEAN
      BY <2>2 DEF SessionInv, TypeOK
    <3> QED
      BY <2>1, <2>2, <3>1 DEF SessionInv, TypeOK
  <2>4. NoSessionNoData /\ NoSessionNoCommand /\ Status = "establishment"
    BY <1>2 DEF Connect_poll, SessionInv
  <2>5. NoSessionNoData' /\ NoSessionNoCommand' /\ RowHasNames' /\ IdleHasNoRequest'
        /\ SessionStarted' /\ HasNewest(named_prepared_statements_)'
    BY <2>1, <2>2, <2>4, StatusCasesNext
    DEF NoSessionNoData, NoSessionNoCommand, RowHasNames, IdleHasNoRequest, SessionStarted,
        HasNewest, NoResult
  <2> QED
    BY <2>3, <2>5 DEF SessionInv
<1>3. CASE Connect
  BY <1>3, ConnectionAssumption, StatusCases, StatusCasesNext
  DEF ConnectionAssumption, Connect, SessionInv, TypeOK, NoSessionNoData, NoSessionNoCommand,
      IdleHasNoRequest, RowHasNames, SessionStarted, HasNewest
<1>4. CASE Connect_wait
  <2>1. timeout' \in Int /\ call' \in {"none", "connect"}
        /\ failed' \in {failed, "cpp:171"}
    BY <1>4 DEF Connect_wait, SessionInv, TypeOK, Asserted
  <2>2. UNCHANGED <<state, session, remote, seq>>
    BY <1>4 DEF Connect_wait
  <2> QED
    BY <2>1, <2>2, StatusCases, StatusCasesNext
    DEF SessionInv, TypeOK, NoSessionNoData, NoSessionNoCommand, IdleHasNoRequest, RowHasNames,
        SessionStarted, HasNewest, Assertion
<1>5. CASE Disconnect
  <2>1. conn_' = "null" /\ failed' \in {failed, "hpp:242"}
    BY <1>5 DEF Disconnect, Asserted
  <2>2. ~Is_connected'
    BY <2>1, StatusCasesNext
  <2>3. TypeOK'
    BY <1>5, <2>1, NoResultType
    DEF Disconnect, Reset_session, SessionInv, TypeOK, Assertion
  <2> QED
    BY <1>5, <2>2, <2>3, StatusCasesNext
    DEF Disconnect, Reset_session, SessionInv, NoSessionNoData, NoSessionNoCommand,
        IdleHasNoRequest, RowHasNames, SessionStarted, HasNewest, NoResult
<1>6. CASE Read_input_fails
  <2>1. ~Is_connected' /\ Status' = "failure"
    BY <1>6, StatusCases, StatusCasesNext DEF Read_input_fails
  <2> QED
    BY <1>6, <2>1
    DEF Read_input_fails, SessionInv, TypeOK, NoSessionNoData, NoSessionNoCommand,
        IdleHasNoRequest, RowHasNames, SessionStarted, HasNewest
<1> QED
  BY <1>1, <1>2, <1>3, <1>4, <1>5, <1>6 DEF Establishment

LEMMA RequestBase ==
  ASSUME SessionInv, Request
  PROVE  SessionInv'
<1> USE Strings, ConnectionAssumption
    DEF ConnectionAssumption, state, answer, registry, pending, AnyName
<1> DEFINE Sends(id, name) ==
      /\ Send(id, name) /\ requests_' = <<id>>
      /\ IF id = "execute" THEN name = None ELSE name \in AnyName
      /\ request_prepared_statement_' \in AnyName \cup {None}
      /\ request_prepared_statement_name_' \in AnyName \cup {None}
      /\ call' \in {"none", "sync"} /\ failed' \in Assertion \cup {None}
<1>1. ASSUME NEW id \in RequestId, NEW name \in AnyName \cup {None},
             Sends(id, name)
      PROVE  SessionInv'
  <2>1. /\ UNCHANGED <<state, answer, registry, shared_field_names_, server,
                       timeout>>
        /\ seq' = seq + 1 /\ command' \in Command
    BY <1>1, NewCommand DEF Send
  <2>2. TypeOK'
    <3>1. requests_' \in {<<>>} \cup {<<i>> : i \in RequestId}
      BY <1>1
    <3>2. seq' \in Nat
      BY <2>1 DEF SessionInv, TypeOK
    <3>3. last_processed_request_id_' \in RequestId \cup {None}
          /\ response_' \in AnyResult
          /\ command' \in Command \cup {None}
      BY <2>1 DEF SessionInv, TypeOK
    <3> QED
      BY <1>1, <2>1, <3>1, <3>2, <3>3 DEF SessionInv, TypeOK
  <2>3. Status = "connected" /\ Is_connected
    BY <1>1 DEF Send, Is_ready_for_nio_request, Is_connected
  <2>4. NoSessionNoData' /\ NoSessionNoCommand'
    BY <2>1, <2>3, StatusCases, StatusCasesNext DEF NoSessionNoData, NoSessionNoCommand
  <2>5. IdleHasNoRequest'
    BY <2>1 DEF IdleHasNoRequest
  <2>6. RowHasNames' /\ SessionStarted' /\ HasNewest(named_prepared_statements_)'
    BY <2>1, <2>3, StatusCases, StatusCasesNext
    DEF SessionInv, RowHasNames, SessionStarted, HasNewest
  <2> QED
    BY <2>2, <2>4, <2>5, <2>6 DEF SessionInv
<1>2. /\ \A id, name : Send(id, name) => requests_ = <<>>
      /\ \A c \in {"none"} \cup (Usage \cap {"sync"}) : c \in {"none", "sync"}
  BY DEF Send, Is_ready_for_nio_request, SessionInv, IdleHasNoRequest
<1>3. CASE Execute_nio
  <2>1. Sends("execute", None)
    BY <1>2, <1>3, OneRequest DEF Execute_nio, SessionInv, TypeOK, Send
  <2> QED
    BY <1>1, <2>1 DEF RequestId
<1>4. ASSUME NEW name \in AnyName, NEW c \in {"none"} \cup (Usage \cap {"sync"}),
             Prepare_nio(name, c)
      PROVE  SessionInv'
  <2>1. Sends("prepare", name)
    BY <1>2, <1>4, OneRequest
    DEF Prepare_nio, SessionInv, TypeOK, Asserted, Assertion
  <2> QED
    BY <1>1, <2>1 DEF RequestId
<1>5. ASSUME NEW name \in AnyName, NEW c \in {"none"} \cup (Usage \cap {"sync"}),
             Describe_nio(name, c)
      PROVE  SessionInv'
  <2>1. Sends("describe", name)
    BY <1>2, <1>5, OneRequest
    DEF Describe_nio, SessionInv, TypeOK, Asserted, Assertion
  <2> QED
    BY <1>1, <2>1 DEF RequestId
<1>6. ASSUME NEW name \in Name, Unprepare_nio(name)
      PROVE  SessionInv'
  <2>1. Sends("unprepare", name)
    BY <1>2, <1>6, OneRequest
    DEF Unprepare_nio, SessionInv, TypeOK, Asserted, Assertion, Send
  <2> QED
    BY <1>1, <2>1 DEF RequestId
<1> QED
  BY <1>3, <1>4, <1>5, <1>6 DEF Request

LEMMA WaitBase ==
  ASSUME SessionInv, Wait
  PROVE  SessionInv'
<1>1. UNCHANGED <<state, session, remote, seq>>
  BY DEF Wait, Wait_response, Wait_readable, Wait_timed_out
<1>2. /\ timeout' \in Int /\ call' \in {"none", "timed", "timed_wait"}
      /\ failed' \in Assertion \cup {None}
  <2>1. CASE Wait_response
    BY <2>1, ConnectionAssumption
    DEF ConnectionAssumption, Wait_response, SessionInv, TypeOK
  <2>2. CASE Wait_readable
    BY <2>2 DEF Wait_readable, SessionInv, TypeOK, Asserted, Assertion
  <2>3. CASE Wait_timed_out
    BY <2>3 DEF Wait_timed_out, SessionInv, TypeOK
  <2> QED
    BY <2>1, <2>2, <2>3 DEF Wait
<1> QED
  BY <1>1, <1>2, StatusCases, StatusCasesNext
  DEF state, session, answer, registry, pending, remote, SessionInv, TypeOK,
      NoSessionNoData, NoSessionNoCommand, IdleHasNoRequest, RowHasNames, SessionStarted, HasNewest

LEMMA ReleaseBase ==
  ASSUME SessionInv, Release
  PROVE  SessionInv'
<1> USE DEF state, answer, registry, pending, remote, caller
<1>1. /\ response_' \in {response_, NoResult}
      /\ last_prepared_statement_' \in {last_prepared_statement_, None}
      /\ call' \in {call, "none"} /\ failed' \in Assertion \cup {None}
      /\ UNCHANGED <<state, response_status_, last_processed_request_id_,
                     named_prepared_statements_, unnamed_prepared_statement_,
                     shared_field_names_, requests_, pending, remote, timeout,
                     seq>>
  <2>1. CASE Release_error_or_row
    BY <2>1 DEF Release_error_or_row, SessionInv, TypeOK
  <2>2. CASE Release_completion
    BY <2>2 DEF Release_completion, SessionInv, TypeOK, Asserted, Assertion
  <2>3. CASE Release_prepared_statement
    BY <2>3 DEF Release_prepared_statement, SessionInv, TypeOK
  <2>4. CASE Sync_done
    BY <2>4 DEF Sync_done, SessionInv, TypeOK, Asserted, Assertion
  <2> QED
    BY <2>1, <2>2, <2>3, <2>4 DEF Release
<1>2. TypeOK'
  BY <1>1, NoResultType DEF SessionInv, TypeOK
<1> QED
  BY <1>1, <1>2, StatusCases, StatusCasesNext
  DEF SessionInv, NoSessionNoData, NoSessionNoCommand, IdleHasNoRequest, RowHasNames,
      SessionStarted, HasNewest, NoResult

(* The list of statements stays well formed.                               *)
LEMMA RegisterBase ==
  ASSUME SessionInv, NEW name \in AnyName, NEW id \in Nat,
         NEW described \in BOOLEAN, Register_ps(name, id, described)
  PROVE  /\ named_prepared_statements_' \subseteq Statement
         /\ HasNewest(named_prepared_statements_)'
         /\ unnamed_prepared_statement_' \in {None, "prepared", "described"}
         /\ last_prepared_statement_' \in Nat
<1>1. CASE name = Unnamed
  BY <1>1 DEF Register_ps, SessionInv, TypeOK, HasNewest
<1>2. CASE name # Unnamed
  <2> DEFINE e == [name |-> name, id |-> id, described |-> described]
             list == named_prepared_statements_
  <2>1. /\ list' = list \cup {e} /\ last_prepared_statement_' = id
        /\ unnamed_prepared_statement_' = unnamed_prepared_statement_
    BY <1>2 DEF Register_ps
  <2>2. e \in Statement /\ e.name = name /\ e.id = id
    BY <1>2 DEF Statement, AnyName
  <2> HIDE DEF e
  <2>3. list \subseteq Statement /\ HasNewest(list)
    BY DEF SessionInv, TypeOK
  <2>4. \A f \in list : f.id \in Nat
    BY <2>3 DEF Statement
  <2>5. ASSUME NEW f \in list \cup {e}
        PROVE  \E p \in list \cup {e} :
                 /\ p.name = f.name
                 /\ \A g \in list \cup {e} : g.name = f.name => g.id <= p.id
    <3>1. CASE f \in list
      <4>1. PICK p \in list :
              p.name = f.name /\ \A g \in list : g.name = f.name => g.id <= p.id
        BY <2>3, <3>1 DEF HasNewest
      <4>2. CASE f.name = name /\ p.id <= id
        <5>1. e.name = f.name
              /\ \A g \in list \cup {e} : g.name = f.name => g.id <= e.id
          BY <2>2, <2>4, <4>1, <4>2
        <5> QED
          BY <5>1
      <4>3. CASE ~(f.name = name /\ p.id <= id)
        <5>1. \A g \in list \cup {e} : g.name = f.name => g.id <= p.id
          BY <2>2, <2>4, <4>1, <4>3
        <5> QED
          BY <4>1, <5>1
      <4> QED
        BY <4>2, <4>3
    <3>2. CASE f = e /\ ~\E g \in list : g.name = name
      <4>1. \A g \in list \cup {e} : g.name = f.name => g.id <= e.id
        BY <2>2, <3>2
      <4> QED
        BY <3>2, <4>1
    <3>3. CASE f = e /\ \E g \in list : g.name = name
      <4>1. PICK p \in list :
              p.name = name /\ \A g \in list : g.name = name => g.id <= p.id
        BY <2>3, <3>3 DEF HasNewest
      <4>2. CASE p.id <= id
        <5>1. \A g \in list \cup {e} : g.name = f.name => g.id <= e.id
          BY <2>2, <2>4, <3>3, <4>1, <4>2
        <5> QED
          BY <3>3, <5>1
      <4>3. CASE ~(p.id <= id)
        <5>1. \A g \in list \cup {e} : g.name = f.name => g.id <= p.id
          BY <2>2, <2>4, <3>3, <4>1, <4>3
        <5> QED
          BY <2>2, <3>3, <4>1, <5>1
      <4> QED
        BY <4>2, <4>3
    <3> QED
      BY <3>1, <3>2, <3>3
  <2>6. HasNewest(list)'
    BY <2>1, <2>5 DEF HasNewest
  <2> QED
    BY <2>1, <2>2, <2>3, <2>6 DEF SessionInv, TypeOK
<1> QED
  BY <1>1, <1>2

LEMMA DescribeBase ==
  ASSUME SessionInv, NEW name \in AnyName, Is_known(name),
         Set_description(name)
  PROVE  /\ named_prepared_statements_' \subseteq Statement
         /\ HasNewest(named_prepared_statements_)'
         /\ unnamed_prepared_statement_' \in {None, "prepared", "described"}
         /\ last_prepared_statement_' \in Nat
<1>1. CASE name = Unnamed
  BY <1>1 DEF Set_description, SessionInv, TypeOK, HasNewest
<1>2. CASE name # Unnamed
  <2> DEFINE list == named_prepared_statements_
             p == Ps(name)
             d == [p EXCEPT !.described = TRUE]
  <2>1. list \subseteq Statement /\ HasNewest(list)
    BY DEF SessionInv, TypeOK
  <2>2. p \in list
    BY <1>2, <2>1, PsRegistered DEF Is_known
  <2>3. d \in Statement /\ d.name = p.name /\ d.id = p.id
    BY <2>1, <2>2 DEF Statement
  <2>4. /\ list' = (list \ {p}) \cup {d} /\ last_prepared_statement_' = p.id
        /\ unnamed_prepared_statement_' = unnamed_prepared_statement_
    BY <1>2 DEF Set_description
  <2> HIDE DEF p, d
  <2>5. ASSUME NEW f \in (list \ {p}) \cup {d}
        PROVE  \E q \in (list \ {p}) \cup {d} :
                 /\ q.name = f.name
                 /\ \A g \in (list \ {p}) \cup {d} :
                      g.name = f.name => g.id <= q.id
    <3>1. PICK q \in list :
            q.name = f.name /\ \A g \in list : g.name = f.name => g.id <= q.id
      BY <2>1, <2>2, <2>3 DEF HasNewest
    <3>2. \A g \in (list \ {p}) \cup {d} : g.name = f.name => g.id <= q.id
      BY <2>2, <2>3, <3>1
    <3>3. CASE q = p
      BY <2>3, <3>1, <3>2, <3>3
    <3>4. CASE q # p
      BY <3>1, <3>2, <3>4
    <3> QED
      BY <3>3, <3>4
  <2>6. HasNewest(list)'
    BY <2>4, <2>5 DEF HasNewest
  <2>7. p.id \in Nat
    BY <2>1, <2>2 DEF Statement
  <2> QED
    BY <2>1, <2>3, <2>4, <2>6, <2>7 DEF SessionInv, TypeOK
<1> QED
  BY <1>1, <1>2

LEMMA PreprocessBase ==
  ASSUME SessionInv, NEW id,
         NEW r \in AnyResult,
         Preprocess(r, id)
  PROVE  /\ response_' \in {r, NoResult, response_}
         /\ response_' = r => r.status # "single_tuple"
         /\ response_' # r => UNCHANGED shared_field_names_
         /\ named_prepared_statements_' \subseteq Statement
         /\ HasNewest(named_prepared_statements_)'
         /\ unnamed_prepared_statement_' \in {None, "prepared", "described"}
         /\ last_prepared_statement_' \in Nat \cup {None}
         /\ request_prepared_statement_' \in AnyName \cup {None}
         /\ request_prepared_statement_name_' \in AnyName \cup {None}
         /\ shared_field_names_' \in BOOLEAN
         /\ failed' \in Assertion \cup {None}
<1> USE DEF registry, pending, EndsIf, Ends, Assertion
<1>0. /\ named_prepared_statements_ \subseteq Statement
      /\ HasNewest(named_prepared_statements_)
      /\ unnamed_prepared_statement_ \in {None, "prepared", "described"}
      /\ last_prepared_statement_ \in Nat \cup {None}
      /\ request_prepared_statement_ \in AnyName \cup {None}
      /\ request_prepared_statement_name_ \in AnyName \cup {None}
      /\ shared_field_names_ \in BOOLEAN /\ failed \in Assertion \cup {None}
      /\ r.of \in Nat
  BY DEF SessionInv, TypeOK, AnyResult
<1>1. CASE Preprocess_none(r)
  BY <1>0, <1>1 DEF Preprocess_none, HasNewest
<1>2. CASE Preprocess_tuples(r, id)
  BY <1>0, <1>2 DEF Preprocess_tuples, HasNewest
<1>3. CASE Preprocess_error(r)
  BY <1>0, <1>3 DEF Preprocess_error, HasNewest
<1>4. CASE r.status = "command_ok" /\ Preprocess_prepared(r)
  <2>1. failed' \in Assertion \cup {None}
    BY <1>0, <1>4 DEF Preprocess_prepared
  <2>2. CASE request_prepared_statement_ = None
    BY <1>0, <1>4, <2>1, <2>2 DEF Preprocess_prepared, HasNewest
  <2>3. CASE request_prepared_statement_ # None
    <3>1. Register_ps(request_prepared_statement_, r.of, FALSE)
          /\ request_prepared_statement_ \in AnyName
      BY <1>0, <1>4, <2>3 DEF Preprocess_prepared
    <3> QED
      BY <1>0, <1>4, <2>1, <3>1, RegisterBase DEF Preprocess_prepared
  <2> QED
    BY <2>2, <2>3
<1>5. CASE r.status = "command_ok" /\ Preprocess_described(r)
  <2> DEFINE name == request_prepared_statement_name_
  <2>1. failed' \in Assertion \cup {None}
    BY <1>0, <1>5 DEF Preprocess_described
  <2>2. CASE name = None
    BY <1>0, <1>5, <2>1, <2>2 DEF Preprocess_described, HasNewest
  <2>3. CASE name # None /\ Is_known(name)
    <3>1. Set_description(name) /\ name \in AnyName
      BY <1>0, <1>5, <2>3 DEF Preprocess_described
    <3> QED
      BY <1>0, <1>5, <2>1, <2>3, <3>1, DescribeBase DEF Preprocess_described
  <2>4. CASE name # None /\ ~Is_known(name)
    <3>1. Register_ps(name, r.of, TRUE) /\ name \in AnyName
      BY <1>0, <1>5, <2>4 DEF Preprocess_described
    <3> QED
      BY <1>0, <1>5, <2>1, <2>4, <3>1, RegisterBase DEF Preprocess_described
  <2> QED
    BY <2>2, <2>3, <2>4
<1>6. CASE r.status = "command_ok" /\ Preprocess_unprepared(r)
  BY <1>0, <1>6
  DEF Preprocess_unprepared, Unregister_ps, HasNewest
<1>7. CASE r.status = "command_ok" /\ Preprocess_executed(r)
  BY <1>0, <1>7 DEF Preprocess_executed, HasNewest
<1> QED
  BY <1>1, <1>2, <1>3, <1>4, <1>5, <1>6, <1>7 DEF Preprocess

LEMMA ResultType ==
  ASSUME SessionInv, command # None, NEW status \in FinalStatus \cup {"single_tuple"}
  PROVE  Result(status) \in AnyResult
<1>1. command.id \in RequestId /\ seq \in Nat
  BY CommandParts DEF SessionInv, TypeOK
<1> QED
  BY <1>1 DEF Result, ResultStatus, AnyResult

LEMMA DismissType ==
  ASSUME TypeOK, Dismiss_request
  PROVE  /\ requests_' = <<>>
         /\ last_processed_request_id_' \in RequestId \cup {None}
<1>1. CASE requests_ = <<>>
  BY <1>1 DEF TypeOK, Dismiss_request, Dismissed
<1>2. CASE requests_ # <<>>
  <2>1. PICK id \in RequestId : requests_ = <<id>>
    BY <1>2 DEF TypeOK
  <2> QED
    BY <2>1, OneRequest DEF Dismiss_request, Dismissed
<1> QED
  BY <1>1, <1>2

LEMMA InputBase ==
  ASSUME SessionInv, Input
  PROVE  SessionInv'
<1> USE Strings DEF state, answer, registry, pending, remote
<1>0. /\ Is_connected /\ Running
      /\ UNCHANGED <<polling_status_, session_start_time_, timeout, seq>>
  BY DEF Input, Handle_input, Handle_row, Handle_completion, Handle_incomplete,
         Handle_null, Handle_nothing, Handle_busy
<1>1. /\ conn_' \in {"ok", "bad"} /\ server' \subseteq Name
      /\ command' \in Command \cup {None}
      /\ response_status_' \in {"empty", "ready", "unready"}
  <2>0. server \subseteq Name /\ command \in Command \cup {None}
        /\ response_status_ \in {"empty", "ready", "unready"} /\ conn_ = "ok"
    BY <1>0, StatusCases DEF SessionInv, TypeOK
  <2>1. CASE Handle_row
    BY <2>0, <2>1, CommandParts DEF Handle_row, Phase
  <2>2. ASSUME NEW status \in FinalStatus, Final_result(status)
        PROVE  conn_' \in {"ok", "bad"} /\ server' \subseteq Name
    <3>1. CASE UNCHANGED conn_ /\ Command_ok(command.name)
      <4>1. command.id = "prepare" => command.name \in AnyName
        BY <2>0, <2>2, CommandParts DEF Final_result
      <4>2. server' \subseteq server \cup ({command.name} \ {Unnamed})
            /\ (command.id # "prepare" => server' \subseteq server)
        BY <3>1 DEF Command_ok
      <4> QED
        BY <2>0, <3>1, <4>1, <4>2 DEF AnyName
    <3> QED
      BY <2>0, <2>2, <3>1 DEF Final_result
  <2>3. CASE Handle_completion
    BY <2>2, <2>3 DEF Handle_completion
  <2>4. CASE Handle_incomplete
    BY <2>0, <2>2, <2>4, CommandParts DEF Handle_incomplete, Final_result, Phase
  <2>5. CASE Handle_null
    BY <2>0, <2>5 DEF Handle_null
  <2>6. CASE Handle_nothing
    BY <2>0, <2>6 DEF Handle_nothing
  <2>7. CASE Handle_busy
    BY <2>0, <2>7 DEF Handle_busy, session
  <2> QED
    BY <2>1, <2>3, <2>4, <2>5, <2>6, <2>7 DEF Input
<1>2. call' \in {"none", "connect", "connect_wait", "sync", "sync_done",
                 "timed", "timed_wait"}
  BY DEF Input, Handle_row, Handle_completion, Handle_incomplete, Handle_null,
         Handle_nothing, Handle_busy, Return, SessionInv, TypeOK
<1> DEFINE Effect ==
      /\ response_' \in AnyResult
      /\ response_'.status = "single_tuple" => shared_field_names_'
      /\ named_prepared_statements_' \subseteq Statement
      /\ HasNewest(named_prepared_statements_)'
      /\ unnamed_prepared_statement_' \in {None, "prepared", "described"}
      /\ last_prepared_statement_' \in Nat \cup {None}
      /\ request_prepared_statement_' \in AnyName \cup {None}
      /\ request_prepared_statement_name_' \in AnyName \cup {None}
      /\ shared_field_names_' \in BOOLEAN
      /\ failed' \in Assertion \cup {None}
      /\ requests_' \in {<<>>, requests_}
      /\ last_processed_request_id_' \in RequestId \cup {None}
      /\ command' = None => requests_' = <<>>
<1>3. Effect
  <2>0. /\ response_ \in AnyResult
        /\ response_.status = "single_tuple" => shared_field_names_
        /\ named_prepared_statements_ \subseteq Statement
        /\ HasNewest(named_prepared_statements_)
        /\ unnamed_prepared_statement_ \in {None, "prepared", "described"}
        /\ last_prepared_statement_ \in Nat \cup {None}
        /\ request_prepared_statement_ \in AnyName \cup {None}
        /\ request_prepared_statement_name_ \in AnyName \cup {None}
        /\ shared_field_names_ \in BOOLEAN
        /\ failed \in Assertion \cup {None}
        /\ last_processed_request_id_ \in RequestId \cup {None}
        /\ command = None => requests_ = <<>>
        /\ TypeOK
    BY <1>0 DEF SessionInv, TypeOK, RowHasNames, IdleHasNoRequest
  <2>1. ASSUME NEW id,
               NEW r \in AnyResult,
               Preprocess(r, id), requests_' \in {<<>>, requests_},
               last_processed_request_id_' \in RequestId \cup {None},
               command' = None => requests_' = <<>>
        PROVE  Effect
    <3>1. /\ response_' \in {r, NoResult, response_}
          /\ NoResult.status = "none"
          /\ response_' = r => r.status # "single_tuple"
          /\ response_' # r => UNCHANGED shared_field_names_
      BY <2>1, PreprocessBase DEF NoResult
    <3>2. /\ response_' \in AnyResult
          /\ response_'.status = "single_tuple" => shared_field_names_'
      <4>1. CASE response_' = r
        BY <2>1, <3>1, <4>1
      <4>2. CASE response_' = NoResult
        BY <3>1, <4>2, NoResultType
      <4>3. CASE response_' = response_ /\ response_' # r
        BY <2>0, <3>1, <4>3
      <4> QED
        BY <3>1, <4>1, <4>2, <4>3
    <3> QED
      BY <2>1, <3>2, PreprocessBase
  <2>2. CASE Handle_row
    <3>1. /\ response_' = Result("single_tuple") /\ shared_field_names_' = TRUE
          /\ command # None /\ command' = [command EXCEPT !.phase = "rows"]
          /\ failed' \in Assertion \cup {None}
          /\ UNCHANGED <<last_processed_request_id_, registry, requests_,
                         pending>>
      BY <2>0, <2>2 DEF Handle_row, EndsIf, Ends, Assertion
    <3>2. command' # None
      BY <3>1, CommandParts DEF SessionInv, TypeOK, Phase
    <3> QED
      BY <2>0, <3>1, <3>2, ResultType DEF HasNewest
  <2>3. CASE Handle_completion
    <3>1. PICK status \in FinalStatus :
            Final_result(status) /\ Preprocess(Result(status), Dismissed)
      BY <2>3 DEF Handle_completion
    <3>2. requests_' = <<>> /\ last_processed_request_id_' \in RequestId \cup {None}
      BY <2>0, <2>3, DismissType DEF Handle_completion
    <3> QED
      BY <2>1, <3>1, <3>2, ResultType DEF Final_result
  <2>4. CASE Handle_incomplete
    <3>1. PICK status \in FinalStatus :
            Final_result(status) /\ response_' = Result(status)
      BY <2>4 DEF Handle_incomplete
    <3>2. /\ command # None /\ command' = [command EXCEPT !.phase = "final"]
          /\ UNCHANGED <<registry, pending, last_processed_request_id_,
                         shared_field_names_, requests_>>
          /\ failed' \in Assertion \cup {None}
      BY <2>0, <2>4, <3>1
      DEF Handle_incomplete, Final_result, Ends, Assertion
    <3>3. command' # None
      BY <3>2, CommandParts DEF SessionInv, TypeOK, Phase
    <3>4. response_'.status # "single_tuple"
      BY <3>1 DEF Result, FinalStatus
    <3> QED
      BY <2>0, <3>1, <3>2, <3>3, <3>4, ResultType DEF HasNewest
  <2>5. CASE Handle_null
    <3>1. requests_' = <<>> /\ last_processed_request_id_' \in RequestId \cup {None}
      BY <2>0, <2>5, DismissType DEF Handle_null
    <3> QED
      BY <2>0, <2>1, <2>5, <3>1 DEF Handle_null
  <2>6. CASE Handle_nothing
    <3>1. requests_' = <<>> /\ last_processed_request_id_' \in RequestId \cup {None}
      BY <2>0, <2>6, DismissType DEF Handle_nothing
    <3>2. /\ response_' = NoResult /\ NoResult.status = "none"
          /\ UNCHANGED <<registry, shared_field_names_, pending>>
          /\ failed' \in Assertion \cup {None}
      BY <2>0, <2>6 DEF Handle_nothing, NoResult, Ends, Assertion
    <3> QED
      BY <2>0, <3>1, <3>2, NoResultType DEF HasNewest
  <2>7. CASE Handle_busy
    <3>1. command' = command /\ command # None
      BY <2>7 DEF Handle_busy
    <3>2. CASE UNCHANGED session /\ Ends
      BY <2>0, <3>1, <3>2 DEF session, HasNewest, Ends, Assertion
    <3>3. CASE /\ Dismiss_request /\ Ends
               /\ UNCHANGED <<response_, response_status_, registry,
                              shared_field_names_, pending>>
      BY <2>0, <3>1, <3>3, DismissType DEF HasNewest, Ends, Assertion
    <3>4. CASE /\ Preprocess(response_, last_processed_request_id_)
               /\ UNCHANGED <<last_processed_request_id_, requests_>>
      BY <2>0, <2>1, <3>1, <3>4
    <3>5. CASE /\ failed' = "cpp:322"
               /\ UNCHANGED <<response_, registry, shared_field_names_, pending,
                              last_processed_request_id_, requests_>>
      BY <2>0, <3>1, <3>5 DEF Assertion, HasNewest
    <3> QED
      BY <2>7, <3>2, <3>3, <3>4, <3>5 DEF Handle_busy
  <2> QED
    BY <2>2, <2>3, <2>4, <2>5, <2>6, <2>7 DEF Input
<1> HIDE DEF Effect
<1>4. TypeOK'
  <2>1. requests_' \in {<<>>} \cup {<<id>> : id \in RequestId}
    BY <1>3 DEF Effect, SessionInv, TypeOK
  <2> QED
    BY <1>0, <1>1, <1>2, <1>3, <2>1 DEF Effect, SessionInv, TypeOK
<1>5. NoSessionNoData' /\ NoSessionNoCommand'
  BY <1>0, <1>1, StatusCases, StatusCasesNext DEF NoSessionNoData, NoSessionNoCommand
<1>6. SessionStarted' /\ IdleHasNoRequest' /\ RowHasNames'
  BY <1>0, <1>3 DEF Effect, SessionInv, SessionStarted, IdleHasNoRequest, RowHasNames
<1> QED
  BY <1>3, <1>4, <1>5, <1>6 DEF Effect, SessionInv

(* Every reachable state is well typed and nothing of a session outlives   *)
(* it, whatever the caller does.                                           *)
LEMMA BaseInvariant == Spec => []SessionInv
<1>1. SessionInv /\ [Next]_vars => SessionInv'
  BY StutterBase, EstablishmentBase, RequestBase, InputBase, WaitBase,
     ReleaseBase DEF Next
<1> QED
  BY InitBase, <1>1, PTL DEF Spec

(* Types: whatever the caller does and whatever the server answers, every  *)
(* reachable state is well typed; in particular the queue of requests has  *)
(* one request at most (connection.cpp:531).                               *)
THEOREM TypeCorrect == Spec => []TypeOK
<1>1. SessionInv => TypeOK
  BY DEF SessionInv
<1> QED
  BY <1>1, BaseInvariant, PTL

(* Nothing of a session outlives it, however the caller used it and        *)
(* wherever it was interrupted (connection.cpp:534-544, 575).              *)
THEOREM NoDataWithoutSession == Spec => []NoSessionNoData
<1>1. SessionInv => NoSessionNoData
  BY DEF SessionInv
<1> QED
  BY <1>1, BaseInvariant, PTL

-----------------------------------------------------------------------------
(* For a caller who never handles the input while the result is still on   *)
(* its way (no "poll_busy", no "timed"): the request in flight, the names  *)
(* it waits for and the response to it.                                    *)

NeverBusy == "poll_busy" \notin Usage /\ "timed" \notin Usage

NeverTimed == call \notin {"timed", "timed_wait"}

PendingName ==
  Is_connected /\ command # None =>
    /\ command.id = "prepare" => request_prepared_statement_ = command.name
    /\ command.id \in {"describe", "unprepare"} =>
         request_prepared_statement_name_ = command.name

UnreadyResponse ==
  response_status_ = "unready" =>
    \/ response_ = NoResult
    \/ response_.id = command.id /\ response_.status # "single_tuple"

ReadyResponse ==
  response_status_ = "ready"
    /\ response_.status \notin {"none", "single_tuple"} =>
      last_processed_request_id_ = response_.id

FlightInv ==
  NeverTimed /\ RequestInFlight /\ PendingName /\ UnreadyResponse
    /\ ReadyResponse

LEMMA InitFlight == Init => FlightInv
BY StatusCases
   DEF Init, FlightInv, NeverTimed, RequestInFlight, PendingName,
       UnreadyResponse, ReadyResponse, NoResult

LEMMA StutterFlight ==
  ASSUME FlightInv, UNCHANGED vars
  PROVE  FlightInv'
BY StatusCases, StatusCasesNext
   DEF vars, state, session, answer, registry, pending, remote, caller,
       FlightInv, NeverTimed, RequestInFlight, PendingName, UnreadyResponse,
       ReadyResponse

LEMMA EstablishmentFlight ==
  ASSUME SessionInv, FlightInv, Establishment
  PROVE  FlightInv'
<1> USE NoResultType
    DEF state, session, answer, registry, pending, remote, caller
<1>1. CASE Connect_start
  <2>1. /\ ~Is_connected' /\ call' \in {"connect_wait", "none"}
    BY <1>1, Strings, StatusCasesNext DEF Connect_start, AfterConnectNio
  <2>2. response_' = NoResult /\ response_status_' = "empty"
    BY <1>1 DEF Connect_start, Reset_session, SessionInv, NoSessionNoData
  <2> QED
    BY <2>1, <2>2
    DEF FlightInv, NeverTimed, RequestInFlight, PendingName, UnreadyResponse,
        ReadyResponse
<1>2. CASE Connect_poll
  <2>1. /\ response_ = NoResult /\ response_status_ = "empty"
        /\ requests_ = <<>> /\ command = None
    BY <1>2, StatusCases
    DEF Connect_poll, SessionInv, NoSessionNoData, NoSessionNoCommand
  <2>2. UNCHANGED <<session, remote>> /\ call' \in {"connect_wait", "none"}
    BY <1>2 DEF Connect_poll, AfterConnectNio
  <2> QED
    BY <2>1, <2>2
    DEF FlightInv, NeverTimed, RequestInFlight, PendingName, UnreadyResponse,
        ReadyResponse
<1>3. CASE Connect \/ Connect_wait
  BY <1>3, StatusCases, StatusCasesNext
  DEF Connect, Connect_wait, FlightInv, NeverTimed, RequestInFlight,
      PendingName, UnreadyResponse, ReadyResponse
<1>4. CASE Disconnect \/ Read_input_fails
  BY <1>4, StatusCases, StatusCasesNext
  DEF Disconnect, Read_input_fails, Reset_session, FlightInv, NeverTimed,
      RequestInFlight, PendingName, UnreadyResponse, ReadyResponse
<1> QED
  BY <1>1, <1>2, <1>3, <1>4 DEF Establishment

(* What dismiss_request() makes of the request in flight.                  *)
LEMMA DismissInFlight ==
  ASSUME RequestInFlight, Is_connected, command # None
  PROVE  /\ Dismissed = command.id
         /\ Dismiss_request =>
              requests_' = <<>> /\ last_processed_request_id_' = command.id
BY OneRequest DEF RequestInFlight, Dismissed, Dismiss_request

LEMMA DismissNothing ==
  ASSUME RequestInFlight, Is_connected, command = None, Dismiss_request
  PROVE  requests_' = <<>> /\ UNCHANGED last_processed_request_id_
BY DEF RequestInFlight, Dismissed, Dismiss_request

(* The response to a request is what the server sent, or nothing.          *)
LEMMA PreprocessResponse ==
  ASSUME NEW r, NEW id, Preprocess(r, id),
         id = "describe" => request_prepared_statement_name_ # None
  PROVE  response_' \in {r, NoResult}
BY DEF Preprocess, Preprocess_none, Preprocess_tuples, Preprocess_error,
       Preprocess_prepared, Preprocess_described, Preprocess_unprepared,
       Preprocess_executed

(* A handler that neither waits nor polls early never finds it busy.       *)
LEMMA BusyIsUnready ==
  ASSUME NeverBusy, NeverTimed, Handle_busy
  PROVE  /\ response_status_ = "unready" /\ call' = call
         /\ UNCHANGED <<state, session, remote, timeout, seq>> /\ Ends
BY DEF NeverBusy, NeverTimed, Handle_busy, Return, Handle_input, May_poll

LEMMA RequestFlight ==
  ASSUME SessionInv, FlightInv, Request
  PROVE  FlightInv'
<1> USE Strings DEF state, answer
<1>1. ASSUME NEW id \in RequestId, NEW name, Send(id, name),
             IF id = "execute" THEN name = None ELSE name \in AnyName,
             requests_' = <<id>>, call' \in {"none", "sync"},
             id = "prepare" => request_prepared_statement_' = name,
             id \in {"describe", "unprepare"} =>
               request_prepared_statement_name_' = name
      PROVE  FlightInv'
  <2>1. /\ command' = [id |-> id, name |-> name, phase |-> "sent"]
        /\ UNCHANGED <<conn_, polling_status_, response_, response_status_,
                       last_processed_request_id_>>
        /\ Is_connected /\ command = None /\ command' # None
    BY <1>1, NewCommand, CommandParts DEF Send, Is_ready_for_nio_request
  <2>2. response_status_ # "unready"
    BY <2>1 DEF FlightInv, RequestInFlight
  <2>3. command'.id = id /\ command'.name = name /\ command'.phase = "sent"
    BY <2>1
  <2> QED
    BY <1>1, <2>1, <2>2, <2>3
    DEF FlightInv, NeverTimed, RequestInFlight, PendingName, UnreadyResponse,
        ReadyResponse
<1>2. ASSUME NEW id, NEW name, Send(id, name)
      PROVE  requests_ = <<>> /\ call = "none"
  BY <1>2 DEF Send, Is_ready_for_nio_request, SessionInv, IdleHasNoRequest
<1>3. \A c \in {"none"} \cup (Usage \cap {"sync"}) : c \in {"none", "sync"}
  OBVIOUS
<1>4. CASE Execute_nio
  <2>1. requests_' = <<"execute">> /\ call' = "none" /\ Send("execute", None)
    BY <1>2, <1>4, OneRequest DEF Execute_nio
  <2> QED
    BY <1>1, <2>1 DEF RequestId
<1>5. ASSUME NEW name \in AnyName, NEW c \in {"none"} \cup (Usage \cap {"sync"}),
             Prepare_nio(name, c)
      PROVE  FlightInv'
  <2>1. /\ requests_' = <<"prepare">> /\ call' = c /\ Send("prepare", name)
        /\ request_prepared_statement_' = name
    BY <1>2, <1>5, OneRequest DEF Prepare_nio
  <2> QED
    BY <1>1, <1>3, <2>1 DEF RequestId
<1>6. ASSUME NEW name \in AnyName, NEW c \in {"none"} \cup (Usage \cap {"sync"}),
             Describe_nio(name, c)
      PROVE  FlightInv'
  <2>1. /\ requests_' = <<"describe">> /\ call' = c /\ Send("describe", name)
        /\ request_prepared_statement_name_' = name
    BY <1>2, <1>6, OneRequest DEF Describe_nio
  <2> QED
    BY <1>1, <1>3, <2>1 DEF RequestId
<1>7. ASSUME NEW name \in Name, Unprepare_nio(name)
      PROVE  FlightInv'
  <2>1. /\ requests_' = <<"unprepare">> /\ call' = "none"
        /\ Send("unprepare", name)
        /\ request_prepared_statement_name_' = name
    BY <1>2, <1>7, OneRequest DEF Unprepare_nio
  <2> QED
    BY <1>1, <2>1 DEF RequestId, AnyName
<1> QED
  BY <1>4, <1>5, <1>6, <1>7 DEF Request

LEMMA InputFlight ==
  ASSUME NeverBusy, SessionInv, FlightInv, Input
  PROVE  FlightInv'
<1> USE NoResultType DEF state, answer, registry, pending, remote
<1>0. /\ Is_connected /\ UNCHANGED polling_status_
      /\ command # None => command \in Command
  BY DEF Input, Handle_input, Handle_row, Handle_completion, Handle_incomplete,
         Handle_null, Handle_nothing, Handle_busy, SessionInv, TypeOK
<1>1. NeverTimed'
  BY DEF FlightInv, NeverTimed, Input, Handle_row, Handle_completion,
         Handle_incomplete, Handle_null, Handle_nothing, Handle_busy, Return,
         Handle_input, May_wait, May_poll
<1>3. /\ command # None /\ command.id = "describe" =>
           request_prepared_statement_name_ # None
      /\ command # None => Dismissed = command.id
      /\ command # None /\ Dismiss_request =>
           requests_' = <<>> /\ last_processed_request_id_' = command.id
  <2>1. command # None /\ command.id = "describe" => command.name # None
    BY <1>0, CommandParts, ConnectionAssumption DEF ConnectionAssumption
  <2> QED
    BY <1>0, <2>1, DismissInFlight DEF FlightInv, PendingName
<1>4. CASE Handle_row
  <2>1. /\ command # None /\ command' = [command EXCEPT !.phase = "rows"]
        /\ response_' = Result("single_tuple") /\ response_status_' = "ready"
        /\ UNCHANGED <<conn_, requests_, pending>>
        /\ response_status_ # "unready"
    BY <1>4 DEF Handle_row
  <2>2. command' # None /\ command'.id = command.id
        /\ command'.name = command.name /\ command'.phase = "rows"
    BY <1>0, <2>1, CommandParts DEF Phase
  <2>3. response_'.status = "single_tuple"
    BY <2>1 DEF Result
  <2>4. requests_' = <<command'.id>> /\ PendingName'
    BY <1>0, <2>1, <2>2, StatusCasesNext
    DEF FlightInv, RequestInFlight, PendingName
  <2> QED
    BY <1>1, <2>1, <2>2, <2>3, <2>4
    DEF FlightInv, RequestInFlight, UnreadyResponse, ReadyResponse
<1>5. CASE Handle_completion
  <2>1. PICK status \in FinalStatus :
          Final_result(status) /\ Preprocess(Result(status), Dismissed)
    BY <1>5 DEF Handle_completion
  <2>2. /\ command # None /\ command' = None /\ response_status_' = "ready"
        /\ requests_' = <<>> /\ last_processed_request_id_' = command.id
        /\ Dismissed = command.id
    BY <1>3, <1>5, <2>1 DEF Handle_completion, Final_result
  <2>3. response_' \in {Result(status), NoResult}
    BY <1>3, <2>1, <2>2, PreprocessResponse
  <2>4. Result(status).id = command.id
    BY DEF Result
  <2> QED
    BY <1>1, <2>2, <2>3, <2>4
    DEF FlightInv, RequestInFlight, PendingName, UnreadyResponse, ReadyResponse
<1>6. CASE Handle_incomplete
  <2>1. PICK status \in FinalStatus :
          Final_result(status) /\ response_' = Result(status)
    BY <1>6 DEF Handle_incomplete
  <2>2. /\ command # None /\ command' = [command EXCEPT !.phase = "final"]
        /\ response_status_' = "unready" /\ UNCHANGED <<requests_, pending>>
    BY <1>6, <2>1 DEF Handle_incomplete, Final_result
  <2>3. command' # None /\ command'.id = command.id
        /\ command'.name = command.name /\ command'.phase = "final"
    BY <1>0, <2>2, CommandParts DEF Phase
  <2>4. response_'.id = command.id /\ response_'.status # "single_tuple"
    BY <2>1 DEF Result, FinalStatus
  <2>5. RequestInFlight' /\ PendingName'
    BY <1>0, <2>2, <2>3 DEF FlightInv, RequestInFlight, PendingName
  <2> QED
    BY <1>1, <2>2, <2>3, <2>4, <2>5
    DEF FlightInv, UnreadyResponse, ReadyResponse
<1>7. CASE Handle_null
  <2>1. command # None
    BY <1>0, <1>7 DEF Handle_null, FlightInv, RequestInFlight
  <2>2. /\ command' = None /\ response_status_' = "ready"
        /\ requests_' = <<>> /\ last_processed_request_id_' = command.id
        /\ Preprocess(response_, command.id)
    BY <1>3, <1>7, <2>1 DEF Handle_null
  <2>3. response_' \in {response_, NoResult}
    BY <1>3, <2>1, <2>2, PreprocessResponse
  <2>4. response_ = NoResult \/ response_.id = command.id
    BY <1>7 DEF Handle_null, FlightInv, UnreadyResponse
  <2> QED
    BY <1>1, <2>2, <2>3, <2>4
    DEF FlightInv, RequestInFlight, PendingName, UnreadyResponse, ReadyResponse
<1>8. CASE Handle_nothing
  <2>1. /\ command = None /\ command' = None /\ response_status_' = "empty"
        /\ requests_' = <<>>
    BY <1>0, <1>8, DismissNothing DEF Handle_nothing, FlightInv
  <2> QED
    BY <1>1, <2>1
    DEF FlightInv, RequestInFlight, PendingName, UnreadyResponse, ReadyResponse
<1>9. CASE Handle_busy
  <2>1. UNCHANGED <<state, session, remote>>
    BY <1>9, BusyIsUnready DEF FlightInv
  <2> QED
    BY <1>1, <2>1, StatusCases, StatusCasesNext
    DEF session, FlightInv, RequestInFlight, PendingName, UnreadyResponse,
        ReadyResponse
<1> QED
  BY <1>4, <1>5, <1>6, <1>7, <1>8, <1>9 DEF Input

LEMMA RestFlight ==
  ASSUME NeverBusy, FlightInv, Wait \/ Release
  PROVE  FlightInv'
<1> USE DEF state, answer, registry, pending, remote, caller
<1>1. ~Wait
  BY DEF Wait, Wait_response, Wait_readable, Wait_timed_out, NeverBusy,
         FlightInv, NeverTimed
<1>2. /\ response_' \in {response_, NoResult} /\ call' \in {call, "none"}
      /\ UNCHANGED <<state, response_status_, last_processed_request_id_,
                     requests_, pending, remote>>
  BY <1>1 DEF Release, Release_error_or_row, Release_completion,
              Release_prepared_statement, Sync_done
<1> QED
  BY <1>2, NoResultType, StatusCases, StatusCasesNext
  DEF FlightInv, NeverTimed, RequestInFlight, PendingName, UnreadyResponse,
      ReadyResponse

LEMMA FlightInvariant == NeverBusy => (Spec => []FlightInv)
<1> SUFFICES ASSUME NeverBusy
             PROVE  Spec => []FlightInv
  OBVIOUS
<1>1. SessionInv /\ FlightInv /\ [Next]_vars => FlightInv'
  BY StutterFlight, EstablishmentFlight, RequestFlight, InputFlight,
     RestFlight DEF Next
<1> QED
  BY InitFlight, BaseInvariant, <1>1, PTL DEF Spec

(* One request is in flight at most, and requests_ has it exactly as long  *)
(* as the server works on it, for a caller who handles the input when it   *)
(* has arrived (connection.cpp:240-314, 531).                              *)
THEOREM RequestInFlightCorrect == NeverBusy => (Spec => []RequestInFlight)
<1>1. FlightInv => RequestInFlight
  BY DEF FlightInv
<1> QED
  BY <1>1, FlightInvariant, PTL

(* completion() knows which request the response belongs to                *)
(* (connection.cpp:408-443), also when it is called too early or too late. *)
THEOREM ResponseOfProcessedRequestCorrect ==
  NeverBusy => (Spec => []ResponseOfProcessedRequest)
<1>1. FlightInv => ResponseOfProcessedRequest
  BY DEF FlightInv, ReadyResponse, ResponseOfProcessedRequest, Has_response
<1> QED
  BY <1>1, FlightInvariant, PTL

-----------------------------------------------------------------------------
(* For a caller who also waits for the end of an establishment before      *)
(* disconnect() (no "give_up"): is_invariant_ok().                         *)

NeverGivesUp == "give_up" \notin Usage

Establishing == polling_status_ # None => conn_ # "null"

LEMMA EstablishingStep ==
  ASSUME NeverGivesUp, TypeOK, Establishing, [Next]_vars
  PROVE  Establishing'
<1> USE DEF state, caller, remote
<1>1. CASE Connect_start
  BY <1>1, Strings DEF Connect_start, Establishing
<1>2. CASE Connect_poll
  BY <1>2, StatusCases DEF Connect_poll, Establishing
<1>3. CASE Connect \/ Connect_wait \/ Read_input_fails
  BY <1>3 DEF Connect, Connect_wait, Read_input_fails, Establishing
<1>4. CASE Disconnect
  BY <1>4, StatusCases DEF Disconnect, NeverGivesUp, Establishing
<1>5. CASE Request
  BY <1>5 DEF Request, Execute_nio, Prepare_nio, Describe_nio, Unprepare_nio,
              Send, Establishing
<1>6. CASE Input
  <2>1. polling_status_ = None /\ UNCHANGED polling_status_
    BY <1>6, StatusCases
    DEF Input, Handle_row, Handle_completion, Handle_incomplete, Handle_null,
        Handle_nothing, Handle_busy, Handle_input
  <2> QED
    BY <2>1 DEF Establishing
<1>7. CASE Wait
  BY <1>7 DEF Wait, Wait_response, Wait_readable, Wait_timed_out, Establishing
<1>8. CASE Release
  BY <1>8 DEF Release, Release_error_or_row, Release_completion,
              Release_prepared_statement, Sync_done, Establishing
<1>9. CASE UNCHANGED vars
  BY <1>9 DEF vars, Establishing
<1> QED
  BY <1>1, <1>2, <1>3, <1>4, <1>5, <1>6, <1>7, <1>8, <1>9
  DEF Next, Establishment

(* is_invariant_ok(), which every function asserts on entry and on exit,   *)
(* holds at every step but after the loss of the link                      *)
(* (connection.cpp:524).                                                   *)
THEOREM InvariantOkCorrect ==
  NeverBusy /\ NeverGivesUp => (Spec => []InvariantOk)
<1> SUFFICES ASSUME NeverBusy, NeverGivesUp
             PROVE  Spec => []InvariantOk
  OBVIOUS
<1>1. Init => Establishing
  BY DEF Init, Establishing
<1>2. SessionInv /\ Establishing /\ [Next]_vars => Establishing'
  BY EstablishingStep DEF SessionInv
<1>3. SessionInv /\ FlightInv /\ Establishing => InvariantOk
  <2> SUFFICES ASSUME SessionInv, FlightInv, Establishing, Status # "failure"
               PROVE  Is_invariant_ok
    BY DEF InvariantOk
  <2>1. conn_ # "null" \/ polling_status_ = None
    BY DEF Establishing
  <2>2. ~Is_connected \/ Is_ready_for_nio_request \/ requests_ # <<>>
    BY OneRequest
    DEF FlightInv, RequestInFlight, Is_ready_for_nio_request
  <2>3. response_.status = "single_tuple" => shared_field_names_
    BY DEF SessionInv, RowHasNames
  <2>4. CASE Is_connected
    <3>1. session_start_time_ /\ Status = "connected"
      BY <2>4 DEF SessionInv, SessionStarted, Is_connected
    <3> QED
      BY <2>1, <2>2, <2>3, <2>4, <3>1 DEF Is_invariant_ok
  <2>5. CASE ~Is_connected
    <3>1. Status \in {"disconnected", "establishment"}
      BY <2>5, StatusCases
    <3> QED
      BY <2>1, <2>2, <2>3, <2>5, <3>1
      DEF Is_invariant_ok, SessionInv, NoSessionNoData
  <2> QED
    BY <2>4, <2>5
<1> QED
  BY <1>1, <1>2, <1>3, BaseInvariant, FlightInvariant, PTL DEF Spec

-----------------------------------------------------------------------------
(* For a caller who also leaves an unready response alone (no "early_pop") *)
(* and a server whose answers libpq understands (no "bad_response"): the   *)
(* names of the fields and of the statements.                              *)

NeverEarly ==
  NeverBusy /\ "early_pop" \notin Usage /\ "bad_response" \notin Faults

SyncReady == call \in {"sync", "sync_done"} => response_status_ # "unready"

(* What the server may answer to a request.                                *)
AnswerTo(status, id) ==
  /\ status \in FinalStatus \ {"bad_response"}
  /\ status \in {"tuples_ok", "empty_query"} => id = "execute"

UnreadyResult ==
  response_status_ = "unready" =>
    /\ AnswerTo(response_.status, command.id)
    /\ response_.id = command.id
    /\ response_.status \in {"empty_query", "command_ok"} =>
         ~shared_field_names_

PendingCleared ==
  Is_connected =>
    /\ request_prepared_statement_ # None =>
         command # None /\ command.id = "prepare"
    /\ request_prepared_statement_name_ # None =>
         command # None /\ command.id \in {"describe", "unprepare"}

ResultInv == SyncReady /\ UnreadyResult /\ PendingCleared /\ FieldNamesFresh

LEMMA InitResult == Init => ResultInv
BY DEF Init, ResultInv, SyncReady, UnreadyResult, PendingCleared,
       FieldNamesFresh

LEMMA StutterResult ==
  ASSUME ResultInv, UNCHANGED vars
  PROVE  ResultInv'
BY StatusCases, StatusCasesNext
   DEF vars, state, session, answer, registry, pending, remote, caller,
       ResultInv, SyncReady, UnreadyResult, PendingCleared, FieldNamesFresh

LEMMA EstablishmentResult ==
  ASSUME SessionInv, ResultInv, Establishment
  PROVE  ResultInv'
<1> USE DEF state, session, answer, registry, pending, remote, caller
<1>1. CASE Connect_start
  <2>1. ~Is_connected'
    BY <1>1, Strings, StatusCasesNext DEF Connect_start
  <2>2. response_status_' = "empty"
    BY <1>1 DEF Connect_start, Reset_session, SessionInv, NoSessionNoData
  <2> QED
    BY <2>1, <2>2
    DEF ResultInv, SyncReady, UnreadyResult, PendingCleared, FieldNamesFresh
<1>2. CASE Connect_poll
  <2>1. /\ response_status_ = "empty" /\ ~shared_field_names_
        /\ request_prepared_statement_ = None
        /\ request_prepared_statement_name_ = None
    BY <1>2 DEF Connect_poll, SessionInv, NoSessionNoData
  <2>2. UNCHANGED <<session, remote>>
    BY <1>2 DEF Connect_poll
  <2> QED
    BY <2>1, <2>2
    DEF ResultInv, SyncReady, UnreadyResult, PendingCleared, FieldNamesFresh
<1>3. CASE Connect \/ Connect_wait
  BY <1>3, StatusCases, StatusCasesNext
  DEF Connect, Connect_wait, ResultInv, SyncReady, UnreadyResult,
      PendingCleared, FieldNamesFresh
<1>4. CASE Disconnect \/ Read_input_fails
  BY <1>4, StatusCases, StatusCasesNext
  DEF Disconnect, Read_input_fails, Reset_session, ResultInv, SyncReady,
      UnreadyResult, PendingCleared, FieldNamesFresh
<1> QED
  BY <1>1, <1>2, <1>3, <1>4 DEF Establishment

LEMMA RequestResult ==
  ASSUME SessionInv, FlightInv, ResultInv, Request
  PROVE  ResultInv'
<1> USE DEF state, answer
<1>1. ASSUME NEW id \in RequestId, NEW name, Send(id, name),
             IF id = "execute" THEN name = None ELSE name \in AnyName,
             request_prepared_statement_' # None =>
               \/ id = "prepare"
               \/ request_prepared_statement_' = request_prepared_statement_,
             request_prepared_statement_name_' # None =>
               \/ id \in {"describe", "unprepare"}
               \/ request_prepared_statement_name_'
                    = request_prepared_statement_name_
      PROVE  ResultInv'
  <2>1. /\ command' = [id |-> id, name |-> name, phase |-> "sent"]
        /\ UNCHANGED <<response_, response_status_, shared_field_names_>>
        /\ Is_connected /\ command = None /\ command' # None
    BY <1>1, NewCommand, CommandParts DEF Send, Is_ready_for_nio_request
  <2>2. response_status_ # "unready"
    BY <2>1 DEF FlightInv, RequestInFlight
  <2>3. ~shared_field_names_ /\ request_prepared_statement_ = None
        /\ request_prepared_statement_name_ = None
    BY <2>1 DEF ResultInv, FieldNamesFresh, PendingCleared
  <2>4. command'.id = id
    BY <2>1
  <2> QED
    BY <1>1, <2>1, <2>2, <2>3, <2>4
    DEF ResultInv, SyncReady, UnreadyResult, PendingCleared, FieldNamesFresh
<1>2. CASE Execute_nio
  BY <1>1, <1>2 DEF Execute_nio, RequestId, pending
<1>3. ASSUME NEW name \in AnyName, NEW c, Prepare_nio(name, c)
      PROVE  ResultInv'
  BY <1>1, <1>3 DEF Prepare_nio, RequestId
<1>4. ASSUME NEW name \in AnyName, NEW c, Describe_nio(name, c)
      PROVE  ResultInv'
  BY <1>1, <1>4 DEF Describe_nio, RequestId
<1>5. ASSUME NEW name \in Name, Unprepare_nio(name)
      PROVE  ResultInv'
  BY <1>1, <1>5 DEF Unprepare_nio, RequestId, AnyName
<1> QED
  BY <1>2, <1>3, <1>4, <1>5 DEF Request

(* A final result that has been preprocessed leaves no name behind.        *)
LEMMA PreprocessNames ==
  ASSUME NEW r, NEW id \in RequestId, Preprocess(r, id),
         AnswerTo(r.status, id),
         r.status \in {"empty_query", "command_ok"} => ~shared_field_names_,
         request_prepared_statement_ # None => id = "prepare",
         request_prepared_statement_name_ # None =>
           id \in {"describe", "unprepare"}
  PROVE  /\ request_prepared_statement_' = None
         /\ request_prepared_statement_name_' = None
         /\ ~shared_field_names_'
<1> USE DEF pending, AnswerTo, FinalStatus
<1>1. CASE Preprocess_none(r)
  BY <1>1 DEF Preprocess_none
<1>2. CASE Preprocess_tuples(r, id)
  BY <1>2 DEF Preprocess_tuples
<1>3. CASE Preprocess_error(r)
  BY <1>3 DEF Preprocess_error
<1>4. CASE id = "prepare" /\ Preprocess_prepared(r) /\ r.status = "command_ok"
  BY <1>4 DEF Preprocess_prepared
<1>5. CASE id = "describe" /\ Preprocess_described(r) /\ r.status = "command_ok"
  BY <1>5 DEF Preprocess_described
<1>6. CASE id = "unprepare" /\ Preprocess_unprepared(r)
             /\ r.status = "command_ok"
  BY <1>6 DEF Preprocess_unprepared
<1>7. CASE id = "execute" /\ Preprocess_executed(r) /\ r.status = "command_ok"
  BY <1>7 DEF Preprocess_executed
<1> QED
  BY <1>1, <1>2, <1>3, <1>4, <1>5, <1>6, <1>7 DEF Preprocess

(* The answers of the server.                                              *)
LEMMA FinalAnswer ==
  ASSUME NeverEarly, SessionInv, NEW status \in FinalStatus,
         Final_result(status)
  PROVE  /\ command \in Command /\ command.phase # "final"
         /\ command.id \in RequestId
         /\ AnswerTo(status, command.id)
         /\ status \in {"empty_query", "command_ok"} =>
              command.id # "execute" \/ command.phase = "sent"
<1>1. command \in Command
  BY DEF SessionInv, TypeOK, Final_result
<1> QED
  BY <1>1, CommandParts
  DEF Final_result, Command_ok, AnswerTo, FinalStatus, NeverEarly

LEMMA InputResult ==
  ASSUME NeverEarly, SessionInv, FlightInv, ResultInv, Input
  PROVE  ResultInv'
<1> USE DEF answer, registry, pending, remote
<1>0. /\ Is_connected
      /\ command # None => command \in Command /\ command.id \in RequestId
  BY CommandParts
  DEF Input, Handle_input, Handle_row, Handle_completion, Handle_incomplete,
      Handle_null, Handle_nothing, Handle_busy, SessionInv, TypeOK
<1>1. CASE Handle_row
  <2>1. /\ command # None /\ command' = [command EXCEPT !.phase = "rows"]
        /\ command.id = "execute" /\ response_status_' = "ready"
        /\ UNCHANGED pending
    BY <1>1 DEF Handle_row
  <2>2. command' # None /\ command'.id = "execute" /\ command'.phase = "rows"
    BY <1>0, <2>1, CommandParts DEF Phase
  <2> QED
    BY <1>0, <2>1, <2>2
    DEF ResultInv, SyncReady, UnreadyResult, PendingCleared, FieldNamesFresh
<1>2. CASE Handle_completion
  <2>1. PICK status \in FinalStatus :
          Final_result(status) /\ Preprocess(Result(status), Dismissed)
    BY <1>2 DEF Handle_completion
  <2>2. /\ command # None /\ command' = None /\ response_status_' = "ready"
        /\ Dismissed = command.id
    BY <1>0, <1>2, <2>1, DismissInFlight
    DEF Handle_completion, Final_result, FlightInv
  <2>3. /\ AnswerTo(status, command.id) /\ Result(status).status = status
        /\ status \in {"empty_query", "command_ok"} => ~shared_field_names_
    BY <1>0, <2>1, FinalAnswer DEF Result, ResultInv, FieldNamesFresh
  <2>4. /\ request_prepared_statement_' = None
        /\ request_prepared_statement_name_' = None
        /\ ~shared_field_names_'
    BY <1>0, <2>1, <2>2, <2>3, PreprocessNames DEF ResultInv, PendingCleared
  <2> QED
    BY <2>2, <2>4
    DEF ResultInv, SyncReady, UnreadyResult, PendingCleared, FieldNamesFresh
<1>3. CASE Handle_incomplete
  <2>1. PICK status \in FinalStatus :
          Final_result(status) /\ response_' = Result(status)
    BY <1>3 DEF Handle_incomplete
  <2>2. /\ command # None /\ command' = [command EXCEPT !.phase = "final"]
        /\ UNCHANGED <<shared_field_names_, pending>>
        /\ call = "none" /\ call' = "none"
    BY <1>3, <2>1
    DEF Handle_incomplete, Final_result, May_poll, Return, FlightInv, NeverTimed
  <2>3. /\ command' # None /\ command'.id = command.id
        /\ command'.phase = "final"
    BY <1>0, <2>2, CommandParts DEF Phase
  <2>4. /\ AnswerTo(status, command.id) /\ response_'.status = status
        /\ response_'.id = command.id
        /\ status \in {"empty_query", "command_ok"} => ~shared_field_names_
    BY <1>0, <2>1, FinalAnswer DEF Result, ResultInv, FieldNamesFresh
  <2> QED
    BY <1>0, <2>2, <2>3, <2>4
    DEF ResultInv, SyncReady, UnreadyResult, PendingCleared, FieldNamesFresh
<1>4. CASE Handle_null
  <2>1. /\ command # None /\ command' = None /\ response_status_' = "ready"
        /\ response_status_ = "unready" /\ Preprocess(response_, Dismissed)
    BY <1>0, <1>4 DEF Handle_null, FlightInv, RequestInFlight
  <2>2. Dismissed = command.id
    BY <1>0, <2>1, DismissInFlight DEF FlightInv
  <2>3. /\ request_prepared_statement_' = None
        /\ request_prepared_statement_name_' = None
        /\ ~shared_field_names_'
    BY <1>0, <2>1, <2>2, PreprocessNames
    DEF ResultInv, PendingCleared, UnreadyResult
  <2> QED
    BY <2>1, <2>3
    DEF ResultInv, SyncReady, UnreadyResult, PendingCleared, FieldNamesFresh
<1>5. CASE Handle_nothing
  BY <1>0, <1>5
  DEF Handle_nothing, ResultInv, SyncReady, UnreadyResult, PendingCleared,
      FieldNamesFresh
<1>6. CASE Handle_busy
  BY <1>6, BusyIsUnready, StatusCases, StatusCasesNext
  DEF NeverEarly, state, session, FlightInv, ResultInv, SyncReady, UnreadyResult,
      PendingCleared, FieldNamesFresh
<1> QED
  BY <1>1, <1>2, <1>3, <1>4, <1>5, <1>6 DEF Input

LEMMA RestResult ==
  ASSUME NeverEarly, FlightInv, ResultInv, Wait \/ Release
  PROVE  ResultInv'
<1> USE DEF state, answer, registry, pending, remote, caller, NeverEarly
<1>1. ~Wait
  BY DEF Wait, Wait_response, Wait_readable, Wait_timed_out, NeverBusy,
         FlightInv, NeverTimed
<1>2. /\ response_status_ # "unready" /\ call' \in {call, "none"}
      /\ UNCHANGED <<state, response_status_, shared_field_names_, pending,
                     remote>>
  BY <1>1
  DEF Release, Release_error_or_row, Release_completion, May_release,
      Release_prepared_statement, Sync_done, ResultInv, SyncReady
<1> QED
  BY <1>2, StatusCases, StatusCasesNext
  DEF ResultInv, SyncReady, UnreadyResult, PendingCleared, FieldNamesFresh

LEMMA ResultInvariant == NeverEarly => (Spec => []ResultInv)
<1> SUFFICES ASSUME NeverEarly
             PROVE  Spec => []ResultInv
  OBVIOUS
<1>1. SessionInv /\ FlightInv /\ ResultInv /\ [Next]_vars => ResultInv'
  BY StutterResult, EstablishmentResult, RequestResult, InputResult,
     RestResult DEF Next, NeverEarly
<1>2. Spec => []FlightInv
  BY FlightInvariant DEF NeverEarly
<1> QED
  BY InitResult, BaseInvariant, <1>1, <1>2, PTL DEF Spec

(* The rows of a query never get the field names of another: they exist    *)
(* only between a query's first row and its end (connection.cpp:236, 325,  *)
(* 327).                                                                   *)
THEOREM FieldNamesFreshCorrect == NeverEarly => (Spec => []FieldNamesFresh)
<1>1. ResultInv => FieldNamesFresh
  BY DEF ResultInv
<1> QED
  BY <1>1, ResultInvariant, PTL

-----------------------------------------------------------------------------
(* When no SQL command takes the statements away behind the connection's   *)
(* back (no "discard"): the registered statements are the server's.        *)

ServerKept == NeverEarly /\ "discard" \notin Faults

RegisteredOnce ==
  \A e, f \in named_prepared_statements_ : e.name = f.name => e = f

(* What the end of a request does to the registered names.                 *)
RegisteredBy(name, status, id, n) ==
  CASE status = "command_ok" /\ id \in {"prepare", "describe"} ->
         Is_registered(name) \/ name = n
    [] status = "command_ok" /\ id = "unprepare" ->
         Is_registered(name) /\ name # n
    [] OTHER -> Is_registered(name)

(* The registered names are those of the server but for the command        *)
(* between its final result and its end; and its end will make them so.    *)
RegistryFollows ==
  Is_connected =>
    IF command # None /\ command.phase = "final"
    THEN \A name \in Name :
           name \in server <=> RegisteredBy(name, response_.status,
                                            command.id, command.name)
    ELSE \A name \in Name : name \in server <=> Is_registered(name)

(* A statement is prepared only under a name that is not registered.       *)
PreparedIsNew ==
  Is_connected /\ response_status_ = "unready"
      /\ response_.status = "command_ok" /\ command.id = "prepare" =>
    ~Is_registered(command.name)

RegistryInv == RegisteredOnce /\ RegistryFollows /\ PreparedIsNew

LEMMA InitRegistry == Init => RegistryInv
BY StatusCases
   DEF Init, RegistryInv, RegisteredOnce, RegistryFollows, PreparedIsNew

LEMMA StutterRegistry ==
  ASSUME RegistryInv, UNCHANGED vars
  PROVE  RegistryInv'
BY StatusCases, StatusCasesNext
   DEF vars, state, session, answer, registry, pending, remote, caller,
       RegistryInv, RegisteredOnce, RegistryFollows, PreparedIsNew,
       Is_registered, RegisteredBy

LEMMA EstablishmentRegistry ==
  ASSUME SessionInv, RegistryInv, Establishment
  PROVE  RegistryInv'
<1> USE DEF state, session, answer, registry, pending, remote, caller,
            Is_registered, RegisteredBy
<1>1. CASE Connect_start
  <2>1. ~Is_connected'
    BY <1>1, Strings, StatusCasesNext DEF Connect_start
  <2>2. named_prepared_statements_' = {}
    BY <1>1 DEF Connect_start, Reset_session, SessionInv, NoSessionNoData
  <2> QED
    BY <2>1, <2>2
    DEF RegistryInv, RegisteredOnce, RegistryFollows, PreparedIsNew
<1>2. CASE Connect_poll
  <2>1. /\ response_status_ = "empty" /\ named_prepared_statements_ = {}
        /\ command = None /\ server = {}
    BY <1>2 DEF Connect_poll, SessionInv, NoSessionNoData, NoSessionNoCommand
  <2>2. UNCHANGED <<session, remote>>
    BY <1>2 DEF Connect_poll
  <2> QED
    BY <2>1, <2>2
    DEF RegistryInv, RegisteredOnce, RegistryFollows, PreparedIsNew
<1>3. CASE Connect \/ Connect_wait
  BY <1>3, StatusCases, StatusCasesNext
  DEF Connect, Connect_wait, RegistryInv, RegisteredOnce, RegistryFollows,
      PreparedIsNew
<1>4. CASE Disconnect
  <2>1. ~Is_connected' /\ named_prepared_statements_' = {}
    BY <1>4, StatusCasesNext DEF Disconnect, Reset_session
  <2> QED
    BY <2>1 DEF RegistryInv, RegisteredOnce, RegistryFollows, PreparedIsNew
<1>5. CASE Read_input_fails
  <2>1. ~Is_connected' /\ UNCHANGED named_prepared_statements_
    BY <1>5, StatusCasesNext DEF Read_input_fails
  <2> QED
    BY <2>1 DEF RegistryInv, RegisteredOnce, RegistryFollows, PreparedIsNew
<1> QED
  BY <1>1, <1>2, <1>3, <1>4, <1>5 DEF Establishment

(* The registry after the end of a request.                                *)
LEMMA RegistryEffect ==
  ASSUME SessionInv, RegisteredOnce, NEW r, NEW id \in RequestId, NEW n,
         Preprocess(r, id), AnswerTo(r.status, id),
         id # "execute" => n \in AnyName,
         id = "prepare" => request_prepared_statement_ = n,
         id \in {"describe", "unprepare"} =>
           request_prepared_statement_name_ = n,
         r.status = "command_ok" /\ id = "prepare" => ~Is_registered(n)
  PROVE  /\ RegisteredOnce'
         /\ \A name \in Name :
              Is_registered(name)' <=> RegisteredBy(name, r.status, id, n)
<1> USE ConnectionAssumption
    DEF ConnectionAssumption, registry, pending, AnswerTo, FinalStatus
<1> DEFINE list == named_prepared_statements_
<1>0. /\ n \in AnyName => n # None
      /\ list \subseteq Statement /\ HasNewest(list)
  BY DEF SessionInv, TypeOK
<1>1. CASE r.status # "command_ok"
  <2>1. UNCHANGED list
    BY <1>1 DEF Preprocess, Preprocess_none, Preprocess_tuples, Preprocess_error
  <2> QED
    BY <1>1, <2>1 DEF RegisteredOnce, Is_registered, RegisteredBy
<1>2. CASE r.status = "command_ok" /\ id = "execute"
  <2>1. UNCHANGED list
    BY <1>2
    DEF Preprocess, Preprocess_none, Preprocess_tuples, Preprocess_error,
        Preprocess_executed
  <2> QED
    BY <1>2, <2>1 DEF RegisteredOnce, Is_registered, RegisteredBy
<1>3. ASSUME NEW s, NEW described, Register_ps(n, s, described),
             ~Is_registered(n), n \in AnyName,
             r.status = "command_ok", id \in {"prepare", "describe"}
      PROVE  /\ RegisteredOnce'
             /\ \A name \in Name :
                  Is_registered(name)' <=> RegisteredBy(name, r.status, id, n)
  <2>1. CASE n = Unnamed
    <3>1. UNCHANGED list
      BY <1>3, <2>1 DEF Register_ps
    <3> QED
      BY <1>3, <2>1, <3>1 DEF RegisteredOnce, Is_registered, RegisteredBy
  <2>2. CASE n # Unnamed
    <3> DEFINE e == [name |-> n, id |-> s, described |-> described]
    <3>1. list' = list \cup {e} /\ e.name = n
      BY <1>3, <2>2 DEF Register_ps
    <3> HIDE DEF e
    <3> QED
      BY <1>3, <3>1 DEF RegisteredOnce, Is_registered, RegisteredBy
  <2> QED
    BY <2>1, <2>2
<1>4. CASE r.status = "command_ok" /\ id = "prepare"
  <2>1. Register_ps(n, r.of, FALSE)
    BY <1>0, <1>4
    DEF Preprocess, Preprocess_none, Preprocess_tuples, Preprocess_error,
        Preprocess_prepared
  <2> QED
    BY <1>3, <1>4, <2>1
<1>5. CASE r.status = "command_ok" /\ id = "describe" /\ ~Is_registered(n)
  <2>1. CASE n = Unnamed /\ Is_known(n)
    <3>1. Set_description(n)
      BY <1>0, <1>5, <2>1
      DEF Preprocess, Preprocess_none, Preprocess_tuples, Preprocess_error,
          Preprocess_described
    <3>2. UNCHANGED list
      BY <2>1, <3>1 DEF Set_description
    <3> QED
      BY <1>5, <2>1, <3>2 DEF RegisteredOnce, Is_registered, RegisteredBy
  <2>2. CASE ~(n = Unnamed /\ Is_known(n))
    <3>1. Register_ps(n, r.of, TRUE)
      BY <1>0, <1>5, <2>2
      DEF Preprocess, Preprocess_none, Preprocess_tuples, Preprocess_error,
          Preprocess_described, Is_known
    <3> QED
      BY <1>3, <1>5, <3>1
  <2> QED
    BY <2>1, <2>2
<1>6. CASE r.status = "command_ok" /\ id = "describe" /\ Is_registered(n)
  <2> DEFINE p == Ps(n)
             d == [p EXCEPT !.described = TRUE]
  <2>1. n # Unnamed
    BY <1>0, <1>6 DEF Is_registered, Statement
  <2>2. Set_description(n)
    BY <1>0, <1>6, <2>1
    DEF Preprocess, Preprocess_none, Preprocess_tuples, Preprocess_error,
        Preprocess_described, Is_known
  <2>3. p \in list /\ p.name = n
    BY <1>0, <1>6, PsRegistered
  <2>4. d.name = n
    BY <1>0, <2>3 DEF Statement
  <2>5. list' = (list \ {p}) \cup {d}
    BY <2>1, <2>2 DEF Set_description
  <2> HIDE DEF p, d
  <2> QED
    BY <1>6, <2>3, <2>4, <2>5 DEF RegisteredOnce, Is_registered, RegisteredBy
<1>7. CASE r.status = "command_ok" /\ id = "unprepare"
  <2>1. Unregister_ps(n)
    BY <1>0, <1>7
    DEF Preprocess, Preprocess_none, Preprocess_tuples, Preprocess_error,
        Preprocess_unprepared
  <2> QED
    BY <1>7, <2>1
    DEF Unregister_ps, RegisteredOnce, Is_registered, RegisteredBy
<1> QED
  BY <1>1, <1>2, <1>4, <1>5, <1>6, <1>7 DEF RequestId

(* The server's statements after its final result.                         *)
LEMMA ServerEffect ==
  ASSUME ServerKept, SessionInv, RegistryInv, Is_connected,
         NEW status \in FinalStatus, Final_result(status)
  PROVE  /\ \A name \in Name :
              name \in server' <=>
                RegisteredBy(name, status, command.id, command.name)
         /\ status = "command_ok" /\ command.id = "prepare" =>
              ~Is_registered(command.name)
<1> USE ConnectionAssumption DEF ConnectionAssumption
<1>1. command # None /\ command.phase # "final" /\ command \in Command
  BY FinalAnswer DEF Final_result, ServerKept
<1>2. \A name \in Name : name \in server <=> Is_registered(name)
  BY <1>1 DEF RegistryInv, RegistryFollows
<1>3. ~Is_registered(Unnamed)
  BY DEF SessionInv, TypeOK, Is_registered, Statement
<1>4. CASE status # "command_ok"
  <2>1. UNCHANGED server
    BY <1>4 DEF Final_result, ServerKept, NeverEarly
  <2> QED
    BY <1>2, <1>4, <2>1 DEF RegisteredBy
<1>5. CASE status = "command_ok"
  <2>1. Command_ok(command.name)
    BY <1>5 DEF Final_result
  <2>2. CASE command.id = "execute"
    <3>1. server' = server
      BY <2>1, <2>2 DEF Command_ok, ServerKept
    <3> QED
      BY <1>2, <1>5, <2>2, <3>1 DEF RegisteredBy
  <2>3. CASE command.id = "prepare"
    <3>1. /\ command.name \in AnyName /\ command.name \notin server
          /\ server' = server \cup ({command.name} \ {Unnamed})
      BY <1>1, <2>1, <2>3, CommandParts DEF Command_ok
    <3> QED
      BY <1>2, <1>3, <1>5, <2>3, <3>1 DEF RegisteredBy, AnyName
  <2>4. CASE command.id = "describe"
    <3>1. command.name \in server \cup {Unnamed} /\ server' = server
      BY <2>1, <2>4 DEF Command_ok
    <3> QED
      BY <1>2, <1>5, <2>4, <3>1 DEF RegisteredBy
  <2>5. CASE command.id = "unprepare"
    <3>1. server' = server \ {command.name}
      BY <2>1, <2>5 DEF Command_ok
    <3> QED
      BY <1>2, <1>5, <2>5, <3>1 DEF RegisteredBy
  <2> QED
    BY <1>1, <2>2, <2>3, <2>4, <2>5, CommandParts DEF RequestId
<1> QED
  BY <1>4, <1>5

LEMMA InputRegistry ==
  ASSUME ServerKept, SessionInv, FlightInv, ResultInv, RegistryInv, Input
  PROVE  RegistryInv'
<1> USE DEF answer, registry, pending, remote
<1>0. /\ Is_connected
      /\ command # None =>
           /\ command \in Command /\ command.id \in RequestId
           /\ command.id # "execute" => command.name \in AnyName
           /\ command.id = "prepare" =>
                request_prepared_statement_ = command.name
           /\ command.id \in {"describe", "unprepare"} =>
                request_prepared_statement_name_ = command.name
           /\ Dismissed = command.id
      /\ command # None <=> requests_ # <<>>
      /\ response_status_ = "unready" <=>
           command # None /\ command.phase = "final"
  <2>1. Is_connected
    BY DEF Input, Handle_input, Handle_row, Handle_completion,
           Handle_incomplete, Handle_null, Handle_nothing, Handle_busy
  <2>2. command # None => command \in Command /\ Dismissed = command.id
    BY <2>1, DismissInFlight DEF SessionInv, TypeOK, FlightInv
  <2> QED
    BY <2>1, <2>2, CommandParts, OneRequest
    DEF FlightInv, RequestInFlight, PendingName
<1>1. CASE Handle_row
  <2>1. /\ command # None /\ command' = [command EXCEPT !.phase = "rows"]
        /\ response_status_' = "ready" /\ response_status_ # "unready"
        /\ UNCHANGED <<server, named_prepared_statements_>>
    BY <1>1 DEF Handle_row
  <2>2. command' # None /\ command'.phase = "rows"
    BY <1>0, <2>1, CommandParts DEF Phase
  <2> QED
    BY <1>0, <2>1, <2>2
    DEF RegistryInv, RegisteredOnce, RegistryFollows, PreparedIsNew,
        Is_registered
<1>2. CASE Handle_completion
  <2>1. PICK status \in FinalStatus :
          Final_result(status) /\ Preprocess(Result(status), Dismissed)
    BY <1>2 DEF Handle_completion
  <2>2. /\ command # None /\ command' = None /\ response_status_' = "ready"
    BY <1>2, <2>1 DEF Handle_completion, Final_result
  <2>3. Result(status).status = status /\ AnswerTo(status, command.id)
    BY <2>1, FinalAnswer DEF Result, ServerKept
  <2>4. /\ RegisteredOnce'
        /\ \A name \in Name : Is_registered(name)' <=>
             RegisteredBy(name, status, command.id, command.name)
    BY <1>0, <2>1, <2>2, <2>3, ServerEffect, RegistryEffect DEF RegistryInv
  <2>5. \A name \in Name :
          name \in server' <=> RegisteredBy(name, status, command.id, command.name)
    BY <1>0, <2>1, ServerEffect
  <2> QED
    BY <2>2, <2>4, <2>5 DEF RegistryInv, RegistryFollows, PreparedIsNew
<1>3. CASE Handle_incomplete
  <2>1. PICK status \in FinalStatus :
          Final_result(status) /\ response_' = Result(status)
    BY <1>3 DEF Handle_incomplete
  <2>2. /\ command # None /\ command' = [command EXCEPT !.phase = "final"]
        /\ UNCHANGED named_prepared_statements_
    BY <1>3, <2>1 DEF Handle_incomplete, Final_result
  <2>3. /\ command' # None /\ command'.id = command.id
        /\ command'.name = command.name /\ command'.phase = "final"
        /\ response_'.status = status
    BY <1>0, <2>1, <2>2, CommandParts DEF Phase, Result
  <2>4. /\ \A name \in Name : name \in server' <=>
             RegisteredBy(name, status, command.id, command.name)
        /\ status = "command_ok" /\ command.id = "prepare" =>
             ~Is_registered(command.name)
    BY <1>0, <2>1, ServerEffect
  <2> QED
    BY <2>2, <2>3, <2>4
    DEF RegistryInv, RegisteredOnce, RegistryFollows, PreparedIsNew,
        Is_registered, RegisteredBy
<1>4. CASE Handle_null
  <2>1. /\ command # None /\ command.phase = "final" /\ command' = None
        /\ response_status_ = "unready" /\ response_status_' = "ready"
        /\ Preprocess(response_, Dismissed) /\ UNCHANGED server
    BY <1>0, <1>4 DEF Handle_null
  <2>2. AnswerTo(response_.status, command.id)
    BY <2>1 DEF ResultInv, UnreadyResult
  <2>3. response_.status = "command_ok" /\ command.id = "prepare" =>
          ~Is_registered(command.name)
    BY <1>0, <2>1 DEF RegistryInv, PreparedIsNew
  <2>4. /\ RegisteredOnce'
        /\ \A name \in Name : Is_registered(name)' <=>
             RegisteredBy(name, response_.status, command.id, command.name)
    BY <1>0, <2>1, <2>2, <2>3, RegistryEffect DEF RegistryInv
  <2>5. \A name \in Name : name \in server <=>
          RegisteredBy(name, response_.status, command.id, command.name)
    BY <1>0, <2>1 DEF RegistryInv, RegistryFollows
  <2> QED
    BY <2>1, <2>4, <2>5 DEF RegistryInv, RegistryFollows, PreparedIsNew
<1>5. CASE Handle_nothing
  BY <1>0, <1>5
  DEF Handle_nothing, RegistryInv, RegisteredOnce, RegistryFollows,
      PreparedIsNew, Is_registered
<1>6. CASE Handle_busy
  <2>1. UNCHANGED <<state, session, remote>>
    BY <1>6, BusyIsUnready DEF FlightInv, ServerKept, NeverEarly
  <2> QED
    BY <2>1, StatusCases, StatusCasesNext
    DEF state, session, RegistryInv, RegisteredOnce, RegistryFollows,
        PreparedIsNew, Is_registered, RegisteredBy
<1> QED
  BY <1>1, <1>2, <1>3, <1>4, <1>5, <1>6 DEF Input

LEMMA RestRegistry ==
  ASSUME ServerKept, FlightInv, ResultInv, RegistryInv,
         Request \/ Wait \/ Release
  PROVE  RegistryInv'
<1> USE DEF state, answer, registry, pending, remote, caller, Is_registered,
            RegisteredBy
<1>1. CASE Request
  <2>1. PICK id, name : Send(id, name)
    BY <1>1
    DEF Request, Execute_nio, Prepare_nio, Describe_nio, Unprepare_nio
  <2>2. /\ UNCHANGED <<conn_, polling_status_, server, response_status_,
                       named_prepared_statements_>>
        /\ command = None /\ command'.phase = "sent" /\ Is_connected
    BY <2>1 DEF Send, Is_ready_for_nio_request
  <2>3. response_status_ # "unready"
    BY <2>2 DEF FlightInv, RequestInFlight
  <2> QED
    BY <2>2, <2>3, StatusCases, StatusCasesNext
    DEF RegistryInv, RegisteredOnce, RegistryFollows, PreparedIsNew
<1>2. ~Wait
  BY DEF Wait, Wait_response, Wait_readable, Wait_timed_out, NeverBusy,
         FlightInv, NeverTimed, ServerKept, NeverEarly
<1>3. CASE Release
  <2>1. /\ response_status_ # "unready"
        /\ UNCHANGED <<state, response_status_, named_prepared_statements_,
                       remote>>
    BY <1>3
    DEF Release, Release_error_or_row, Release_completion, May_release,
        Release_prepared_statement, Sync_done, ResultInv, SyncReady,
        ServerKept, NeverEarly
  <2>2. Is_connected => ~(command # None /\ command.phase = "final")
    BY <2>1 DEF FlightInv, RequestInFlight
  <2> QED
    BY <2>1, <2>2, StatusCases, StatusCasesNext
    DEF RegistryInv, RegisteredOnce, RegistryFollows, PreparedIsNew
<1> QED
  BY <1>1, <1>2, <1>3

LEMMA RegistryInvariant == ServerKept => (Spec => []RegistryInv)
<1> SUFFICES ASSUME ServerKept
             PROVE  Spec => []RegistryInv
  OBVIOUS
<1>1. SessionInv /\ FlightInv /\ ResultInv /\ RegistryInv /\ [Next]_vars
        => RegistryInv'
  BY StutterRegistry, EstablishmentRegistry, InputRegistry, RestRegistry
  DEF Next
<1>2. Spec => [](FlightInv /\ ResultInv)
  BY FlightInvariant, ResultInvariant, PTL DEF ServerKept, NeverEarly
<1> QED
  BY InitRegistry, BaseInvariant, <1>1, <1>2, PTL DEF Spec

(* The registered statements are those of the server's session, but for    *)
(* the request whose end has not been handled, and none is registered      *)
(* twice (connection.cpp:334-347, 653).                                    *)
THEOREM RegistryMatchesServerCorrect ==
  ServerKept => (Spec => []RegistryMatchesServer)
<1>1. SessionInv /\ RegistryInv => RegistryMatchesServer
  <2> SUFFICES ASSUME RegistryInv, Is_connected, NEW name \in Name
               PROVE  \/ Is_registered(name) <=> name \in server
                      \/ /\ command # None /\ command.phase = "final"
                         /\ command.name = name
    BY DEF RegistryMatchesServer, RegistryInv, RegisteredOnce
  <2>1. CASE command # None /\ command.phase = "final" /\ command.name # name
    BY <2>1 DEF RegistryInv, RegistryFollows, RegisteredBy
  <2> QED
    BY <2>1 DEF RegistryInv, RegistryFollows
<1> QED
  BY <1>1, BaseInvariant, RegistryInvariant, PTL

-----------------------------------------------------------------------------
(* For a caller who releases every response before the next request (no    *)
(* "no_pop"): the pointer to the last prepared statement.                  *)

AlwaysPops == NeverBusy /\ "no_pop" \notin Usage

(* While a request is in flight there is no pointer that its end could     *)
(* leave dangling.                                                         *)
NoPointerInFlight ==
  Is_connected /\ command # None => last_prepared_statement_ = None

PointerInv == NoPointerInFlight /\ NoDanglingStatement

LEMMA PointerEffect ==
  ASSUME SessionInv, NEW r \in AnyResult, NEW id, Preprocess(r, id),
         last_prepared_statement_ = None
  PROVE  NoDanglingStatement'
<1> USE DEF registry, pending
<1>1. CASE UNCHANGED last_prepared_statement_
  BY <1>1 DEF NoDanglingStatement
<1>2. ASSUME NEW name, NEW s, NEW described, Register_ps(name, s, described)
      PROVE  NoDanglingStatement'
  <2> DEFINE e == [name |-> name, id |-> s, described |-> described]
  <2>1. CASE name = Unnamed
    BY <1>2, <2>1 DEF Register_ps, NoDanglingStatement
  <2>2. CASE name # Unnamed
    <3>1. e \in named_prepared_statements_' /\ e.id = last_prepared_statement_'
      BY <1>2, <2>2 DEF Register_ps
    <3> QED
      BY <3>1 DEF NoDanglingStatement
  <2> QED
    BY <2>1, <2>2
<1>3. ASSUME NEW name, Is_known(name), Set_description(name)
      PROVE  NoDanglingStatement'
  <2>1. CASE name = Unnamed
    BY <1>3, <2>1 DEF Set_description, NoDanglingStatement
  <2>2. CASE name # Unnamed
    <3> DEFINE p == Ps(name)
               d == [p EXCEPT !.described = TRUE]
    <3>1. p \in Statement
      BY <1>3, <2>2, PsRegistered DEF Is_known, SessionInv, TypeOK
    <3>2. d \in named_prepared_statements_' /\ last_prepared_statement_' = p.id
      BY <1>3, <2>2 DEF Set_description
    <3>3. d.id = p.id
      BY <3>1 DEF Statement
    <3> QED
      BY <3>2, <3>3 DEF NoDanglingStatement
  <2> QED
    BY <2>1, <2>2
<1>4. CASE r.status = "command_ok" /\ Preprocess_prepared(r)
  BY <1>1, <1>2, <1>4 DEF Preprocess_prepared
<1>5. CASE r.status = "command_ok" /\ Preprocess_described(r)
  BY <1>1, <1>2, <1>3, <1>5 DEF Preprocess_described
<1> QED
  BY <1>1, <1>4, <1>5
  DEF Preprocess, Preprocess_none, Preprocess_tuples, Preprocess_error,
      Preprocess_unprepared, Preprocess_executed

LEMMA PointerStep ==
  ASSUME AlwaysPops, SessionInv, FlightInv, PointerInv, [Next]_vars
  PROVE  PointerInv'
<1> USE DEF state, answer, registry, pending, remote, caller
<1>1. CASE Connect_start
  <2>1. last_prepared_statement_' = None
    BY <1>1
    DEF Connect_start, Reset_session, session, SessionInv, NoSessionNoData
  <2> QED
    BY <2>1 DEF PointerInv, NoPointerInFlight, NoDanglingStatement
<1>2. CASE Connect_poll
  <2>1. last_prepared_statement_' = None
    BY <1>2 DEF Connect_poll, session, SessionInv, NoSessionNoData
  <2> QED
    BY <2>1 DEF PointerInv, NoPointerInFlight, NoDanglingStatement
<1>3. CASE Disconnect
  BY <1>3
  DEF Disconnect, Reset_session, PointerInv, NoPointerInFlight,
      NoDanglingStatement
<1>4. CASE Connect \/ Connect_wait
  BY <1>4, StatusCases, StatusCasesNext
  DEF Connect, Connect_wait, session, PointerInv, NoPointerInFlight,
      NoDanglingStatement
<1>5. CASE Read_input_fails
  BY <1>5, StatusCases, StatusCasesNext
  DEF Read_input_fails, session, PointerInv, NoPointerInFlight,
      NoDanglingStatement
<1>6. CASE Request
  <2>1. PICK id, name : Send(id, name)
    BY <1>6
    DEF Request, Execute_nio, Prepare_nio, Describe_nio, Unprepare_nio
  <2>2. last_prepared_statement_ = None /\ UNCHANGED registry
    BY <2>1 DEF Send, Released, AlwaysPops
  <2> QED
    BY <2>2 DEF PointerInv, NoPointerInFlight, NoDanglingStatement
<1>7. CASE Input
  <2>0. Is_connected /\ response_ \in AnyResult
    BY <1>7
    DEF Input, Handle_input, Handle_row, Handle_completion, Handle_incomplete,
        Handle_null, Handle_nothing, Handle_busy, SessionInv, TypeOK
  <2>1. CASE Handle_row \/ Handle_incomplete
    <3>1. command # None /\ UNCHANGED registry
      BY <2>1 DEF Handle_row, Handle_incomplete, Final_result
    <3> QED
      BY <2>0, <3>1 DEF PointerInv, NoPointerInFlight, NoDanglingStatement
  <2>2. CASE Handle_completion
    <3>1. PICK status \in FinalStatus :
            Final_result(status) /\ Preprocess(Result(status), Dismissed)
      BY <2>2 DEF Handle_completion
    <3>2. command # None /\ command' = None
      BY <2>2, <3>1 DEF Handle_completion, Final_result
    <3>3. last_prepared_statement_ = None
      BY <2>0, <3>2 DEF PointerInv, NoPointerInFlight
    <3>4. NoDanglingStatement'
      BY <3>1, <3>2, <3>3, PointerEffect, ResultType
    <3> QED
      BY <3>2, <3>4 DEF PointerInv, NoPointerInFlight
  <2>3. CASE Handle_null
    <3>1. /\ command # None /\ command' = None
          /\ Preprocess(response_, Dismissed)
      BY <2>0, <2>3 DEF Handle_null, FlightInv, RequestInFlight
    <3>2. last_prepared_statement_ = None
      BY <2>0, <3>1 DEF PointerInv, NoPointerInFlight
    <3>3. NoDanglingStatement'
      BY <2>0, <3>1, <3>2, PointerEffect
    <3> QED
      BY <3>1, <3>3 DEF PointerInv, NoPointerInFlight
  <2>4. CASE Handle_nothing
    BY <2>4 DEF Handle_nothing, PointerInv, NoPointerInFlight,
                NoDanglingStatement
  <2>5. CASE Handle_busy
    BY <2>5, BusyIsUnready, StatusCases, StatusCasesNext
    DEF session, AlwaysPops, FlightInv, PointerInv, NoPointerInFlight,
        NoDanglingStatement
  <2> QED
    BY <1>7, <2>1, <2>2, <2>3, <2>4, <2>5 DEF Input
<1>8. ~Wait
  BY DEF Wait, Wait_response, Wait_readable, Wait_timed_out, NeverBusy,
         FlightInv, NeverTimed, AlwaysPops
<1>9. CASE Release
  <2>1. /\ UNCHANGED <<state, remote, named_prepared_statements_>>
        /\ last_prepared_statement_' \in {last_prepared_statement_, None}
    BY <1>9
    DEF Release, Release_error_or_row, Release_completion,
        Release_prepared_statement, Sync_done
  <2> QED
    BY <2>1, StatusCases, StatusCasesNext
    DEF PointerInv, NoPointerInFlight, NoDanglingStatement
<1>10. CASE UNCHANGED vars
  BY <1>10, StatusCases, StatusCasesNext
  DEF vars, session, PointerInv, NoPointerInFlight, NoDanglingStatement
<1> QED
  BY <1>1, <1>2, <1>3, <1>4, <1>5, <1>6, <1>7, <1>8, <1>9, <1>10
  DEF Next, Establishment

(* "The pointer to a last prepared statement if the last operation was     *)
(* prepare" (connection.hpp:609) is never one to a statement that          *)
(* unregister_ps() has destroyed (connection.cpp:662).                     *)
THEOREM NoDanglingStatementCorrect ==
  AlwaysPops => (Spec => []NoDanglingStatement)
<1> SUFFICES ASSUME AlwaysPops
             PROVE  Spec => []NoDanglingStatement
  OBVIOUS
<1>1. Init => PointerInv
  BY DEF Init, PointerInv, NoPointerInFlight, NoDanglingStatement
<1>2. SessionInv /\ FlightInv /\ PointerInv /\ [Next]_vars => PointerInv'
  BY PointerStep
<1>3. PointerInv => NoDanglingStatement
  BY DEF PointerInv
<1>4. Spec => []FlightInv
  BY FlightInvariant DEF AlwaysPops
<1> QED
  BY <1>1, <1>2, <1>3, <1>4, BaseInvariant, PTL DEF Spec

-----------------------------------------------------------------------------
(* For a caller who does none of what the documentation leaves open:       *)
(* no assertion fails.                                                     *)

AsDocumented ==
  NeverEarly /\ Usage \cap {"connect", "handler", "redescribe", "give_up"} = {}

NotDescribedYet ==
  Is_connected /\ command # None /\ command.id = "describe" =>
    ~Is_described(command.name)

SyncCommand ==
  call = "sync" => command # None /\ command.id \in {"prepare", "describe"}

SyncOutcome ==
  call = "sync_done" =>
    response_.status = "fatal_error" \/ last_prepared_statement_ # None

ResponseOwner ==
  /\ response_status_ = "empty" => response_ = NoResult
  /\ response_.status # "none" => response_.id # None

AssertionInv ==
  call \notin {"connect", "connect_wait"} /\ NotDescribedYet /\ SyncCommand
    /\ SyncOutcome /\ ResponseOwner

LEMMA InitAssertion == Init => AssertionInv
BY StatusCases
   DEF Init, AssertionInv, NotDescribedYet, SyncCommand,
       SyncOutcome, ResponseOwner, NoResult

LEMMA EstablishmentAssertion ==
  ASSUME AsDocumented, SessionInv, AssertionInv, Establishment
  PROVE  AssertionInv' /\ failed' = failed
<1> USE DEF state, answer, registry, remote, caller, AsDocumented
<1>1. CASE Connect_start
  <2>1. /\ ~Is_connected' /\ call' = "none" /\ failed' = failed
        /\ response_' = NoResult
    BY <1>1, Strings, StatusCasesNext
    DEF Connect_start, AfterConnectNio, AssertionInv, Reset_session, session,
        SessionInv, NoSessionNoData
  <2> QED
    BY <2>1
    DEF AssertionInv, NotDescribedYet, SyncCommand,
        SyncOutcome, ResponseOwner, NoResult
<1>2. CASE Connect_poll
  <2>1. /\ call' = "none" /\ failed' = failed /\ command' = None
        /\ response_' = NoResult
    BY <1>2
    DEF Connect_poll, AfterConnectNio, AssertionInv, session, SessionInv,
        NoSessionNoData, NoSessionNoCommand
  <2> QED
    BY <2>1
    DEF AssertionInv, NotDescribedYet, SyncCommand,
        SyncOutcome, ResponseOwner, NoResult
<1>3. ~Connect /\ ~Connect_wait
  BY DEF Connect, Connect_wait, AssertionInv
<1>4. CASE Disconnect
  <2>1. /\ call' = "none" /\ failed' = failed /\ command' = None
        /\ response_' = NoResult
    BY <1>4, StatusCases DEF Disconnect, Reset_session, Asserted
  <2> QED
    BY <2>1
    DEF AssertionInv, NotDescribedYet, SyncCommand,
        SyncOutcome, ResponseOwner, NoResult
<1>5. CASE Read_input_fails
  BY <1>5, StatusCases, StatusCasesNext
  DEF Read_input_fails, session, AssertionInv,
      NotDescribedYet, SyncCommand, SyncOutcome, ResponseOwner
<1> QED
  BY <1>1, <1>2, <1>3, <1>4, <1>5 DEF Establishment

LEMMA RequestAssertion ==
  ASSUME AsDocumented, SessionInv, ResultInv, AssertionInv, Request
  PROVE  AssertionInv' /\ failed' = failed
<1> USE DEF state, answer, registry, Asserted
<1>1. ASSUME NEW id \in RequestId, NEW name, Send(id, name),
             id = "describe" => ~Is_described(name),
             call' \in {"none", "sync"},
             call' = "sync" => id \in {"prepare", "describe"},
             \/ failed' = failed
             \/ request_prepared_statement_ # None
             \/ request_prepared_statement_name_ # None,
             IF id = "execute" THEN name = None ELSE name \in AnyName
      PROVE  AssertionInv' /\ failed' = failed
  <2>1. /\ command' = [id |-> id, name |-> name, phase |-> "sent"]
        /\ UNCHANGED <<state, answer, registry>>
        /\ Is_connected /\ command = None /\ command' # None
    BY <1>1, NewCommand, CommandParts DEF Send, Is_ready_for_nio_request
  <2>2. failed' = failed
    BY <1>1, <2>1
    DEF ResultInv, PendingCleared, AssertionInv
  <2>3. command'.id = id /\ command'.name = name
    BY <2>1
  <2>4. NotDescribedYet'
    BY <1>1, <2>1, <2>3
    DEF NotDescribedYet, Is_described, Is_registered, Ps
  <2> QED
    BY <1>1, <2>1, <2>2, <2>3, <2>4
    DEF AssertionInv, SyncCommand, SyncOutcome, ResponseOwner
<1>2. CASE Execute_nio
  BY <1>1, <1>2 DEF Execute_nio, Send, RequestId
<1>3. ASSUME NEW name \in AnyName, NEW c \in {"none"} \cup (Usage \cap {"sync"}),
             Prepare_nio(name, c)
      PROVE  AssertionInv' /\ failed' = failed
  <2>1. c \in {"none", "sync"}
    OBVIOUS
  <2> QED
    BY <1>1, <1>3, <2>1 DEF Prepare_nio, RequestId
<1>4. ASSUME NEW name \in AnyName, NEW c \in {"none"} \cup (Usage \cap {"sync"}),
             Describe_nio(name, c)
      PROVE  AssertionInv' /\ failed' = failed
  <2>1. c \in {"none", "sync"} /\ ~Is_described(name)
    BY <1>4 DEF Describe_nio, AsDocumented
  <2> QED
    BY <1>1, <1>4, <2>1 DEF Describe_nio, RequestId
<1>5. ASSUME NEW name \in Name, Unprepare_nio(name)
      PROVE  AssertionInv' /\ failed' = failed
  BY <1>1, <1>5 DEF Unprepare_nio, Send, RequestId, AnyName
<1> QED
  BY <1>2, <1>3, <1>4, <1>5 DEF Request

(* The assertions of the preprocessing of a final result, and what         *)
(* prepare() and describe() find after it.                                 *)
LEMMA PreprocessAsserts ==
  ASSUME SessionInv, NEW r \in AnyResult, NEW id \in RequestId,
         NEW n \in AnyName \cup {None}, Preprocess(r, id),
         AnswerTo(r.status, id), id # "execute" => n # None,
         id = "prepare" => request_prepared_statement_ = n,
         id \in {"describe", "unprepare"} =>
           request_prepared_statement_name_ = n,
         id = "describe" => ~Is_described(n)
  PROVE  /\ Ends /\ response_' \in {r, NoResult}
         /\ id \in {"prepare", "describe"} =>
              response_'.status = "fatal_error"
                \/ last_prepared_statement_' # None
<1> USE DEF EndsIf, AnswerTo, FinalStatus
<1>1. CASE Preprocess_none(r)
  BY <1>1 DEF Preprocess_none
<1>2. CASE Preprocess_tuples(r, id)
  BY <1>2 DEF Preprocess_tuples
<1>3. CASE Preprocess_error(r)
  BY <1>3 DEF Preprocess_error
<1>4. CASE id = "prepare" /\ Preprocess_prepared(r) /\ r.status = "command_ok"
  <2>1. Register_ps(n, r.of, FALSE) /\ Ends /\ response_' = r
    BY <1>4 DEF Preprocess_prepared
  <2>2. r.of \in Nat /\ n \in AnyName
    BY <1>4 DEF AnyResult
  <2>3. last_prepared_statement_' \in Nat
    BY <2>1, <2>2, RegisterBase
  <2> QED
    BY <1>4, <2>1, <2>3, ConnectionAssumption DEF ConnectionAssumption
<1>5. CASE id = "describe" /\ Preprocess_described(r) /\ r.status = "command_ok"
  <2>1. /\ Ends /\ response_' = NoResult /\ n \in AnyName
        /\ \/ Is_known(n) /\ Set_description(n)
           \/ Register_ps(n, r.of, TRUE)
    BY <1>5 DEF Preprocess_described
  <2>2. r.of \in Nat
    BY DEF AnyResult
  <2>3. last_prepared_statement_' \in Nat
    BY <2>1, <2>2, RegisterBase, DescribeBase
  <2> QED
    BY <1>5, <2>1, <2>3, ConnectionAssumption DEF ConnectionAssumption
<1>6. CASE id = "unprepare" /\ Preprocess_unprepared(r)
  BY <1>6 DEF Preprocess_unprepared
<1>7. CASE id = "execute" /\ Preprocess_executed(r)
  BY <1>7 DEF Preprocess_executed
<1> QED
  BY <1>1, <1>2, <1>3, <1>4, <1>5, <1>6, <1>7 DEF Preprocess

LEMMA InputAssertion ==
  ASSUME AsDocumented, SessionInv, FlightInv, ResultInv, AssertionInv, Input
  PROVE  AssertionInv' /\ Ends
<1> USE NoResultType DEF answer, registry, pending, remote, AsDocumented
<1>0. /\ Is_connected /\ call \in {"none", "sync"}
      /\ command # None =>
           /\ command \in Command /\ command.id \in RequestId
           /\ command.name \in AnyName \cup {None}
           /\ command.id # "execute" => command.name # None
           /\ command.id = "prepare" =>
                request_prepared_statement_ = command.name
           /\ command.id \in {"describe", "unprepare"} =>
                request_prepared_statement_name_ = command.name
           /\ Dismissed = command.id /\ requests_ = <<command.id>>
      /\ response_status_ = "unready" <=>
           command # None /\ command.phase = "final"
  <2>1. Is_connected /\ call \in {"none", "sync"}
    BY DEF Input, Handle_input, Handle_row, Handle_completion,
           Handle_incomplete, Handle_null, Handle_nothing, Handle_busy,
           May_wait, May_poll, FlightInv, NeverTimed
  <2>2. command # None => command \in Command /\ Dismissed = command.id
    BY <2>1, DismissInFlight DEF SessionInv, TypeOK, FlightInv
  <2> QED
    BY <2>1, <2>2, CommandParts, ConnectionAssumption
    DEF ConnectionAssumption, FlightInv, RequestInFlight, PendingName
<1>2. CASE Handle_row
  <2>1. /\ command # None /\ command' = [command EXCEPT !.phase = "rows"]
        /\ command.id = "execute" /\ response_' = Result("single_tuple")
        /\ response_status_' = "ready"
    BY <1>2 DEF Handle_row
  <2>2. command' # None /\ command'.id = "execute"
    BY <1>0, <2>1, CommandParts DEF Phase
  <2>3. call = "none" /\ call' = "none"
    BY <1>0, <1>2, <2>1 DEF Handle_row, Return, AssertionInv, SyncCommand
  <2>4. Ends
    BY <1>0, <1>2, <2>1, OneRequest DEF Handle_row, EndsIf
  <2>5. response_'.id # None
    BY <1>0, <2>1, Strings DEF Result
  <2> QED
    BY <2>1, <2>2, <2>3, <2>4, <2>5
    DEF AssertionInv, NotDescribedYet, SyncCommand,
        SyncOutcome, ResponseOwner
<1>3. CASE Handle_completion
  <2>1. PICK status \in FinalStatus :
          Final_result(status) /\ Preprocess(Result(status), Dismissed)
    BY <1>3 DEF Handle_completion
  <2>2. /\ command # None /\ command' = None /\ response_status_' = "ready"
        /\ call' = IF call = "sync" THEN "sync_done" ELSE "none"
    BY <1>0, <1>3, <2>1 DEF Handle_completion, Final_result, Return
  <2>3. /\ AnswerTo(Result(status).status, command.id)
        /\ Result(status) \in AnyResult /\ Result(status).id # None
    BY <1>0, <2>1, <2>2, FinalAnswer, ResultType, Strings DEF Result
  <2>4. /\ Ends /\ response_' \in {Result(status), NoResult}
        /\ command.id \in {"prepare", "describe"} =>
             response_'.status = "fatal_error"
               \/ last_prepared_statement_' # None
    BY <1>0, <2>1, <2>2, <2>3, PreprocessAsserts
    DEF AssertionInv, NotDescribedYet
  <2> QED
    BY <2>2, <2>3, <2>4
    DEF AssertionInv, NotDescribedYet, SyncCommand, SyncOutcome, ResponseOwner
<1>4. CASE Handle_incomplete
  <2>1. PICK status \in FinalStatus :
          Final_result(status) /\ response_' = Result(status)
    BY <1>4 DEF Handle_incomplete
  <2>2. /\ command # None /\ command' = [command EXCEPT !.phase = "final"]
        /\ call' = "none" /\ response_status_' = "unready"
        /\ Ends /\ UNCHANGED registry
    BY <1>0, <1>4, <2>1
    DEF Handle_incomplete, Final_result, May_poll, Return
  <2>3. command' # None /\ command'.id = command.id
        /\ command'.name = command.name
    BY <1>0, <2>2, CommandParts DEF Phase
  <2>4. response_'.id # None
    BY <1>0, <2>1, <2>2, Strings DEF Result
  <2>5. NotDescribedYet'
    BY <1>0, <2>2, <2>3
    DEF AssertionInv, NotDescribedYet, Is_described, Is_registered, Ps
  <2> QED
    BY <2>2, <2>4, <2>5
    DEF AssertionInv, SyncCommand, SyncOutcome, ResponseOwner
<1>5. CASE Handle_null
  <2>1. /\ command # None /\ command' = None /\ response_status_' = "ready"
        /\ response_status_ = "unready" /\ Preprocess(response_, Dismissed)
        /\ call = "none" /\ call' = "none"
    BY <1>0, <1>5 DEF Handle_null, Return, ResultInv, SyncReady
  <2>2. AnswerTo(response_.status, command.id) /\ response_ \in AnyResult
    BY <2>1 DEF ResultInv, UnreadyResult, SessionInv, TypeOK
  <2>3. Ends /\ response_' \in {response_, NoResult}
    BY <1>0, <2>1, <2>2, PreprocessAsserts DEF AssertionInv, NotDescribedYet
  <2> QED
    BY <2>1, <2>3
    DEF AssertionInv, NotDescribedYet, SyncCommand, SyncOutcome, ResponseOwner
<1>6. CASE Handle_nothing
  <2>1. /\ command = None /\ command' = None /\ response_' = NoResult
        /\ Ends
    BY <1>6 DEF Handle_nothing
  <2>2. call = "none" /\ call' = "none"
    BY <1>0, <1>6, <2>1 DEF Handle_nothing, Return, AssertionInv, SyncCommand
  <2> QED
    BY <2>1, <2>2
    DEF AssertionInv, NotDescribedYet, SyncCommand,
        SyncOutcome, ResponseOwner
<1>7. CASE Handle_busy
  <2>1. UNCHANGED <<state, session, remote, call>> /\ Ends
    BY <1>7, BusyIsUnready DEF FlightInv, NeverEarly
  <2> QED
    BY <2>1, StatusCases, StatusCasesNext
    DEF state, session, AssertionInv, NotDescribedYet,
        SyncCommand, SyncOutcome, ResponseOwner, Is_described, Is_registered,
        Ps
<1> QED
  BY <1>2, <1>3, <1>4, <1>5, <1>6, <1>7 DEF Input

LEMMA ReleaseAssertion ==
  ASSUME AsDocumented, SessionInv, FlightInv, ResultInv, AssertionInv, Release
  PROVE  AssertionInv' /\ failed' = failed
<1> USE NoResultType DEF state, answer, registry, pending, remote, caller
<1>1. /\ UNCHANGED <<state, remote, response_status_,
                     named_prepared_statements_, unnamed_prepared_statement_>>
      /\ response_' \in {response_, NoResult} /\ call' = "none"
  BY DEF Release, Release_error_or_row, Release_completion,
         Release_prepared_statement, Sync_done, May_release
<1>2. failed' = failed
  <2>1. CASE Release_error_or_row \/ Release_prepared_statement
    BY <2>1 DEF Release_error_or_row, Release_prepared_statement
  <2>2. CASE Release_completion
    <3>1. /\ response_status_ \in {"empty", "ready"}
          /\ response_.status \in {"tuples_ok", "command_ok"}
      BY <2>2
      DEF Release_completion, May_release, AsDocumented, NeverEarly,
          SessionInv, TypeOK
    <3>2. response_status_ = "ready" /\ response_.id # None
      BY <3>1 DEF AssertionInv, ResponseOwner
    <3>3. last_processed_request_id_ # None
      BY <3>1, <3>2 DEF FlightInv, ReadyResponse
    <3> QED
      BY <2>2, <3>3 DEF Release_completion, Asserted
  <2>3. CASE Sync_done
    BY <2>3
    DEF Sync_done, AsDocumented, AssertionInv, SyncOutcome, Asserted
  <2> QED
    BY <2>1, <2>2, <2>3 DEF Release
<1>3. NotDescribedYet'
  BY <1>1, StatusCases, StatusCasesNext
  DEF AssertionInv, NotDescribedYet, Is_described, Is_registered, Ps
<1> QED
  BY <1>1, <1>2, <1>3
  DEF AssertionInv, SyncCommand, SyncOutcome, ResponseOwner

LEMMA AssertionStep ==
  ASSUME AsDocumented, SessionInv, FlightInv, ResultInv, AssertionInv,
         [Next]_vars
  PROVE  AssertionInv' /\ (failed' # failed => Input /\ Ends)
<1>1. CASE Wait
  BY <1>1 DEF Wait, Wait_response, Wait_readable, Wait_timed_out, NeverBusy,
              FlightInv, NeverTimed, AsDocumented, NeverEarly
<1>2. CASE UNCHANGED vars
  BY <1>2, StatusCases, StatusCasesNext
  DEF vars, state, session, answer, registry, pending, remote, caller,
      AssertionInv, NotDescribedYet, SyncCommand, SyncOutcome,
      ResponseOwner, Is_described, Is_registered, Ps
<1> QED
  BY <1>1, <1>2, EstablishmentAssertion, RequestAssertion, InputAssertion,
     ReleaseAssertion DEF Next

(* No assert() of the modelled functions fails, whatever the server        *)
(* answers (connection.cpp:171-468, 619, connection.hpp:242, 1290), for a  *)
(* caller who releases responses late or never ("no_pop") and whose SQL is *)
(* any ("discard"), but that at the end of handle_input() (366), which     *)
(* fails exactly in the call that finds the link lost.                     *)
THEOREM AssertionsHoldCorrect == AsDocumented => (Spec => AssertionsHold)
<1> SUFFICES ASSUME AsDocumented
             PROVE  Spec => AssertionsHold
  OBVIOUS
<1>1. SessionInv /\ FlightInv /\ ResultInv /\ AssertionInv /\ [Next]_vars
        => AssertionInv'
  BY AssertionStep
<1>2. Spec => [](FlightInv /\ ResultInv)
  BY FlightInvariant, ResultInvariant, PTL DEF AsDocumented, NeverEarly
<1>3. Spec => []InvariantOk
  BY InvariantOkCorrect DEF AsDocumented, NeverEarly, NeverGivesUp
<1>4. SessionInv /\ FlightInv /\ ResultInv /\ AssertionInv /\ InvariantOk'
        /\ [Next]_vars
        => [failed' # failed =>
              failed' = "cpp:366" /\ Is_connected /\ Status' = "failure"]_vars
  <2> SUFFICES ASSUME SessionInv, FlightInv, ResultInv, AssertionInv,
                      InvariantOk', [Next]_vars, failed' # failed
               PROVE  failed' = "cpp:366" /\ Is_connected /\ Status' = "failure"
    OBVIOUS
  <2>1. Input /\ Ends
    BY AssertionStep
  <2>2. Is_connected
    BY <2>1 DEF Input, Handle_input, Handle_row, Handle_completion,
                Handle_incomplete, Handle_null, Handle_nothing, Handle_busy
  <2>3. failed' = "cpp:366" /\ ~Is_invariant_ok'
    BY <2>1 DEF Ends
  <2> QED
    BY <2>2, <2>3 DEF InvariantOk
<1> QED
  BY <1>1, <1>2, <1>3, <1>4, InitAssertion, BaseInvariant, PTL
  DEF Spec, AssertionsHold
=============================================================================
