-------------------------------- MODULE Jrpc --------------------------------
(***************************************************************************)
(* JSON-RPC of src/jrpc: a client assembles a request, the server reads    *)
(* its text and answers with a result or an error, the client reads that.  *)
(* A document is the sequence of the members of its object, a value that is*)
(* not structured is its kind.                                             *)
(***************************************************************************)
EXTENDS Integers, SequencesExt

CONSTANTS
  ParamName,  \* names of parameters
  MaxParams   \* bound: positional parameters

VARIABLES
  request,   \* the document of the client's request
  said       \* history: what the client has set, by position or by name

vars == <<request, said>>

Member(name, value) == [name |-> name, value |-> value]
Value(type) == [type |-> type, items |-> <<>>]
Array(items) == [type |-> "array", items |-> items]
Object(members) == [type |-> "object", items |-> members]
Null == Value("null")

\* FindMember(), 0 for MemberEnd().
Find(document, name) ==
  LET found == {i \in DOMAIN document : document[i].name = name} IN
  IF found = {} THEN 0 ELSE Min(found)
Has(document, name) == Find(document, name) # 0
Of(document, name) == document[Find(document, name)].value

Structured == {"array", "object"}
Numbers == {"int", "float"}
Version == Value("2.0")
Strings == {"string", "2.0", "rpc."}

-----------------------------------------------------------------------------
(* Requests.                                                               *)

Is_id(value) == value.type \in {"int", "null"} \union Strings
Is_invariant_ok(document) ==
  /\ Has(document, "jsonrpc") /\ Has(document, "method") /\ Of(document, "jsonrpc") = Version
  /\ Has(document, "params") => Of(document, "params").type \in Structured
  /\ Has(document, "id") => Is_id(Of(document, "id"))

\* init_request__(), init_notification__()
Notification(method) == <<Member("jsonrpc", Version), Member("method", method)>>
Request(id, method) == <<Member("jsonrpc", Version), Member("method", method), Member("id", id)>>

Id(document) == IF Has(document, "id") THEN Of(document, "id") ELSE Null
Outcome(what, id) == [what |-> what, id |-> id]

\* The checks of from_json(): of the id, of any number, and of the other members.
Is_id_accepted(document) ==
  Has(document, "id") => Of(document, "id").type \in Numbers \union Strings \union {"null"}
Is_request(document) ==
  /\ Has(document, "jsonrpc") /\ Of(document, "jsonrpc") = Version
  /\ Has(document, "method") /\ Of(document, "method").type \in Strings \ {"rpc."}
  /\ Has(document, "params") => Of(document, "params").type \in Structured
  /\ Len(document) = 2 + Cardinality({n \in {"id", "params"} : Has(document, n)})

\* from_json(). The invariants of a Request and of an Error, asserted when one has been
\* made, are of an id that is no float.
From_json(document) ==
  IF ~Is_id_accepted(document) THEN Outcome("invalid_request", Null)
  ELSE Outcome(
    CASE ~Is_request(document) /\ Is_id(Id(document)) -> "invalid_request"
      [] Is_request(document) /\ Is_invariant_ok(document) -> "parsed"
      [] OTHER -> "terminated", Id(document))

\* params() of a request, or NULL.
Params(document) == IF Has(document, "params") THEN Of(document, "params") ELSE Null
With_params(document, params) ==
  IF Has(document, "params")
  THEN [document EXCEPT ![Find(document, "params")].value = params]
  ELSE Append(document, Member("params", params))

Init ==
  /\ said = {}
  /\ \E method \in {Value("string")} :
       request \in {Notification(method)} \union {Request(Value(id), method) : id \in {"int", "string", "null"}}

\* Mutant: the places before a new one are filled with its value.
Set_position_filled(position, value) ==
  LET items == Params(request).items IN
  /\ Params(request).type \in {"null", "array"}
  /\ request' = With_params(request, Array(
       IF position > Len(items) THEN items \o [i \in 1..(position - Len(items)) |-> value]
       ELSE [items EXCEPT ![position] = value]))
  /\ said' = {s \in said : s.at # position} \union {[at |-> position, value |-> value]}

\* set_parameter(position, value): those before it that are not set yet are null.
Set_position(position, value) ==
  LET items == Params(request).items
      size == Len(items)
  IN
  /\ Params(request).type \in {"null", "array"}
  /\ request' = With_params(request, Array(
       IF position > size
       THEN items \o [i \in 1..(position - size) |-> IF i = position - size THEN value ELSE Null]
       ELSE [items EXCEPT ![position] = value]))
  /\ said' = {s \in said : s.at # position} \union {[at |-> position, value |-> value]}

\* set_parameter(name, value)
Set_named(name, value) ==
  LET members == Params(request).items
      i == Find(members, name)
  IN
  /\ Params(request).type \in {"null", "object"}
  /\ request' = With_params(request, Object(
       IF i = 0 THEN Append(members, Member(name, value)) ELSE [members EXCEPT ![i].value = value]))
  /\ said' = {s \in said : s.at # name} \union {[at |-> name, value |-> value]}

Reset_parameters(notation) ==
  request' = With_params(request, [type |-> notation, items |-> <<>>]) /\ said' = {}

\* RemoveMember() puts the last member into the place of the one that it removes.
Omit_parameters ==
  LET i == Find(request, "params") IN
  /\ request' = IF i = 0 THEN request ELSE Front([request EXCEPT ![i] = Last(request)])
  /\ said' = {}

Values == {Value("int"), Null}

Next ==
  \/ \E value \in Values :
       \/ \E position \in 1..MaxParams : Set_position(position, value)
       \/ \E name \in ParamName : Set_named(name, value)
  \/ \E notation \in Structured : Reset_parameters(notation)
  \/ Omit_parameters

Spec == Init /\ [][Next]_vars

\* parameter(): the value of a reference, {} if it is invalid.
Positional(document, position) ==
  IF Params(document).type = "array" THEN {Params(document).items[position]} ELSE {}
Named(document, name) ==
  IF Params(document).type = "object" /\ Has(Params(document).items, name)
  THEN {Of(Params(document).items, name)} ELSE {}

\* Paramref::optional<T>() and not_null<T>(): the value or nothing, or an error.
Optional(ref, type) ==
  IF ref \subseteq {Null} THEN [what |-> "done", value |-> {}]
  ELSE [what |-> IF \A v \in ref : v.type = type THEN "done" ELSE "invalid_params", value |-> ref]
\* With a predicate, which may be that a value is one of a set or in an interval.
Optional_among(ref, type, valid_set) ==
  LET optional == Optional(ref, type) IN
  IF optional.value \subseteq valid_set THEN optional ELSE [optional EXCEPT !.what = "invalid_params"]

Not_null(ref, type) ==
  LET optional == Optional(ref, type) IN
  IF optional.value = {} THEN [optional EXCEPT !.what = "invalid_params"] ELSE optional

\* parameter_mandatory() and parameter_not_null()
Parameter_mandatory(ref) == IF ref = {} THEN "invalid_params" ELSE "done"
Parameter_not_null(ref) == IF ref \subseteq {Null} THEN "invalid_params" ELSE "done"

\* parameters(), parameters_mandatory() and parameters_not_null(), which ask that each
\* parameter is present, the last one too.
Parameters(document, names) == [i \in DOMAIN names |-> Named(document, names[i])]
Is_all_present(refs) == \A i \in DOMAIN refs : refs[i] # {}
Parameters_mandatory(document, names) ==
  IF Is_all_present(Parameters(document, names)) THEN "done" ELSE "invalid_params"
Parameters_not_null(document, names) == Parameters_mandatory(document, names)

Parameter_count(document) == Len(Params(document).items)

-----------------------------------------------------------------------------
(* Responses.                                                              *)

Result(id, data) == <<Member("jsonrpc", Version), Member("result", data), Member("id", id)>>
Error(id, object) == <<Member("jsonrpc", Version), Member("id", id), Member("error", object)>>
Error_object(data) ==
  Object(<<Member("code", Value("int")), Member("message", Value("string"))>>
           \o (IF data = Null THEN <<>> ELSE <<Member("data", data)>>))

\* make_result() and make_error(), and set_data().
Make_result(document, data) == Result(Id(document), data)
Make_error(document, data) == Error(Id(document), Error_object(data))

Is_error_object(value) ==
  LET members == value.items IN
  /\ value.type = "object"
  /\ Has(members, "code") /\ Of(members, "code").type = "int"
  /\ Has(members, "message") /\ Of(members, "message").type \in Strings
  /\ Len(members) = IF Has(members, "data") THEN 3 ELSE 2

\* Response::make(). The invariant of a result is asserted, that of an error is not.
Response(document) ==
  LET Has_only(name, other) == Has(document, name) /\ ~Has(document, other) IN
  IF \/ Len(document) # 3
     \/ ~Has(document, "jsonrpc") \/ ~Has(document, "id")
     \/ Of(document, "jsonrpc") # Version
     \/ Of(document, "id").type \notin Numbers \union Strings \union {"null"}
  THEN "thrown"
  ELSE IF Has_only("result", "error") THEN IF Is_id(Of(document, "id")) THEN "result" ELSE "terminated"
  ELSE IF Has_only("error", "result") /\ Is_error_object(Of(document, "error")) THEN "error"
  ELSE "thrown"

-----------------------------------------------------------------------------

\* What the server gets of a parameter: one that is not there is refused where it is
\* mandatory, alone or with others, one that is null where it must not be, and a value that
\* is not valid wherever there is one.
Fetched ==
  LET IsArray == Params(request).type = "array"
      Ref(at) == IF IsArray THEN Positional(request, at) ELSE Named(request, at)
      Is_said(at) == \E s \in said : s.at = at
  IN
  /\ \A s \in said :
       /\ Parameter_mandatory(Ref(s.at)) = "done"
       /\ Parameter_not_null(Ref(s.at)) = "done" <=> s.value # Null
       /\ Optional_among(Ref(s.at), "int", {}).what = "done" <=> s.value = Null
       /\ Optional_among(Ref(s.at), "int", {s.value}) = Optional(Ref(s.at), "int")
  /\ ~IsArray => \A a, b \in ParamName :
       /\ Parameters_mandatory(request, <<a, b>>) = "done" <=> Is_said(a) /\ Is_said(b)
       /\ Is_said(a) /\ Is_said(b) => Parameters_not_null(request, <<a, b>>) = "done"
       /\ ~Is_said(a) => Parameter_mandatory(Named(request, a)) = "invalid_params"
  /\ IsArray => \A name \in ParamName : Parameters_mandatory(request, <<name>>) = "invalid_params"
  /\ ~IsArray => Parameter_count(request) = Cardinality(said)
  /\ IsArray => Parameter_count(request) = Max({s.at : s \in said} \union {0})

\* Whatever the client has set, the server accepts the request, sees at each place
\* what was set there last (null where nothing was), and its answer is read with the
\* id of the request.
Understood ==
  LET params == Params(request) IN
  /\ From_json(request) = Outcome("parsed", Id(request))
  /\ Cardinality({s.at : s \in said}) = Cardinality(said)
  /\ params.type = "array" => \A i \in DOMAIN params.items :
       LET ref == Positional(request, i) IN
       ref = IF \E s \in said : s.at = i THEN {s.value : s \in {t \in said : t.at = i}} ELSE {Null}
  /\ params.type = "object" => \A name \in ParamName :
       Named(request, name) = {s.value : s \in {t \in said : t.at = name}}
  /\ \A s \in said :
       LET ref == IF params.type = "array" THEN Positional(request, s.at) ELSE Named(request, s.at) IN
       /\ Not_null(ref, "int").what = "done" <=> s.value # Null
       /\ Optional(ref, "int").what = "done" /\ Optional(ref, "string").what = "done" => s.value = Null
  /\ \A data \in Values :
       /\ Response(Make_result(request, data)) = "result"
       /\ Response(Make_error(request, data)) = "error"
       /\ Of(Make_result(request, data), "id") = Id(request)

\* A request is accepted exactly if its members are those of JSON-RPC 2.0, once each, and
\* its id is no float; a float for an id terminates the program, whatever else there is; a
\* refusal has the id there is.
RequestChecked(document) ==
  LET names == {m.name : m \in ToSet(document)}
      conforms ==
        /\ Len(document) = Cardinality(names)
        /\ {"jsonrpc", "method"} \subseteq names /\ names \subseteq {"jsonrpc", "method", "id", "params"}
        /\ \A m \in ToSet(document) :
             CASE m.name = "jsonrpc" -> m.value = Version
               [] m.name = "method" -> m.value.type \in Strings \ {"rpc."}
               [] m.name = "params" -> m.value.type \in Structured
               [] OTHER -> m.value.type \in Numbers \union Strings \union {"null"}
      read == From_json(document)
  IN
  /\ read.what = "parsed" <=> conforms /\ Is_id(Id(document))
  /\ read.what = "terminated" <=> Id(document).type = "float"
  /\ read.what = "invalid_request" /\ Id(document).type # "bool" => read.id = Id(document)

\* A response is read as a result or an error exactly if it is one of the two.
ResponseChecked(document) ==
  LET names == {m.name : m \in ToSet(document)}
      conforms(of) ==
        /\ Len(document) = 3 /\ names = {"jsonrpc", "id", of}
        /\ Of(document, "jsonrpc") = Version
        /\ Of(document, "id").type \in Numbers \union Strings \union {"null"}
        /\ of = "error" => Is_error_object(Of(document, of))
      read == Response(document)
  IN
  /\ conforms("result") <=> read \in {"result", "terminated"}
  /\ conforms("error") <=> read = "error"
  /\ read = "terminated" => Of(document, "id").type = "float"
=============================================================================
