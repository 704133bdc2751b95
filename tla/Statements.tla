----------------------------- MODULE Statements -----------------------------
(***************************************************************************)
(* A Prepared_statement of src/pgfe: its parameters, the values bound to   *)
(* them, and what execute_nio() sends; and invoke(), which writes a query  *)
(* of the arguments, preparses it and binds them.                          *)
(***************************************************************************)
EXTENDS SqlParser

CONSTANT MaxBound  \* bound: parameters of a statement

VARIABLES
  ps,       \* two objects: connection_ is set, preparsed_, description_ is, parameters_
  datum,    \* the data of the caller, of which a statement may have a view
  expected, \* the server: the parameters of the statement
  meant,    \* history: of each object, index |-> what the last call for it has bound
  sent      \* what the last execute_nio() sent, and what was meant

psVars == <<ps, datum, expected, meant, sent>>

Object == {1, 2}
ParameterNames == {<<"a">>, <<"b">>}

\* data of a Parameter: owned, a view of the caller's, or null; its name may be empty.
Null == [own |-> "null", value |-> 0]
Owned(value) == [own |-> "owned", value |-> value]
View == [own |-> "view", value |-> 0]
Parameter(name) == [data |-> Null, name |-> name]

NoPs == [valid |-> FALSE, preparsed |-> FALSE, described |-> FALSE, parameters |-> <<>>]

\* The signatures of preparsed strings: names come after positions.
Signatures ==
  {s \in UNION {[1..n -> ParameterNames \union {<<>>}] : n \in 0..MaxBound} :
     \A i, j \in DOMAIN s : i < j => (s[i] # <<>> => s[j] # <<>> /\ s[i] # s[j])}

PsInit ==
  /\ ps = [o \in Object |-> NoPs] /\ datum = 1 /\ expected = 0
  /\ meant = [o \in Object |-> <<>>]
  /\ sent = [values |-> <<>>, meant |-> <<>>]

-----------------------------------------------------------------------------

Positional_parameter_count(parameters) ==
  LET named == {i \in DOMAIN parameters : parameters[i].name # <<>>} IN
  IF named = {} THEN Len(parameters) ELSE Min(named) - 1

\* parameter_index(), counted from one; one more than there are if there is none.
Parameter_index(parameters, name) ==
  Min({i \in DOMAIN parameters : parameters[i].name = name} \union {Len(parameters) + 1})

\* The constructor when preparing.
Prepare(o, names) ==
  /\ ~ps[o].valid /\ \A p \in Object : ~ps[p].valid
  /\ ps' = [ps EXCEPT ![o] = [NoPs EXCEPT !.valid = TRUE, !.preparsed = TRUE,
                                         !.parameters = [i \in DOMAIN names |-> Parameter(names[i])]]]
  /\ expected' = Len(names)
  /\ meant' = [meant EXCEPT ![o] = [i \in DOMAIN names |-> Null]]
  /\ UNCHANGED <<datum, sent>>

Prepare_as_is(o, n) ==
  /\ \A p \in Object : ~ps[p].valid
  /\ ps' = [ps EXCEPT ![o] = [NoPs EXCEPT !.valid = TRUE]]
  /\ expected' = n
  /\ meant' = [meant EXCEPT ![o] = <<>>]
  /\ UNCHANGED <<datum, sent>>

Is_opaque(p) == ~p.preparsed /\ ~p.described

\* resize() of the parameters.
Resized(parameters, n) ==
  [i \in 1..n |-> IF i <= Len(parameters) THEN parameters[i] ELSE Parameter(<<>>)]

Bindable(p, i) == p.valid /\ i <= IF Is_opaque(p) THEN MaxBound ELSE Len(p.parameters)

\* bind(): an opaque statement gets the parameters up to the index.
Bound(p, i, data) ==
  [p EXCEPT !.parameters =
     [Resized(@, IF Is_opaque(p) THEN Max({i, Len(@)}) ELSE Len(@)) EXCEPT ![i].data = data]]

Meant(values, n, i, data) ==
  [j \in 1..Max({n, i}) |-> IF j = i THEN data ELSE IF j <= Len(values) THEN values[j] ELSE Null]

Bind(o, i, data) ==
  /\ Bindable(ps[o], i)
  /\ ps' = [ps EXCEPT ![o] = Bound(@, i, data)]
  /\ meant' = [meant EXCEPT ![o] = Meant(@, Len(@), i, data)]
  /\ UNCHANGED <<datum, expected, sent>>

Bind_named(o, name, data) ==
  LET i == Parameter_index(ps[o].parameters, name) IN
  i <= Len(ps[o].parameters) /\ Bind(o, i, data)

\* bind_many() of values and then of Named_arguments, each bound to its parameter.
Bind_many(o, arguments) ==
  LET p == ps[o]
      Index(i) == IF arguments[i].name = <<>> THEN i ELSE Parameter_index(p.parameters, arguments[i].name)
  IN
  /\ \A i \in DOMAIN arguments : Bindable(p, Index(i)) /\ (arguments[i].name # <<>> => Index(i) <= Len(p.parameters))
  /\ ps' = [ps EXCEPT ![o] = FoldLeft(LAMBDA q, i : Bound(q, Index(i), arguments[i].data), @,
                                      [i \in DOMAIN arguments |-> i])]
  /\ meant' = [meant EXCEPT ![o] = FoldLeft(LAMBDA m, i : Meant(m, Len(m), Index(i), arguments[i].data), @,
                                            [i \in DOMAIN arguments |-> i])]
  /\ UNCHANGED <<datum, expected, sent>>

\* set_description(): what the server knows of the parameters. Those of a preparsed string
\* are kept, and those of another one are as many as the server's.
Set_description(o) ==
  /\ ps[o].valid /\ ~ps[o].described
  /\ ps' = [ps EXCEPT ![o].described = TRUE,
                      ![o].parameters = IF ps[o].preparsed THEN @ ELSE Resized(@, expected)]
  /\ meant' = [meant EXCEPT ![o] = [i \in 1..expected |-> IF i <= Len(@) THEN @[i] ELSE Null]]
  /\ UNCHANGED <<datum, expected, sent>>

\* What a view shows is what the data is by now.
Seen(data) == IF data = View THEN Owned(datum) ELSE data

\* execute_nio(): the server refuses another number of parameters than it expects.
Execute_nio(o) ==
  /\ ps[o].valid
  /\ sent' = [values |-> [i \in DOMAIN ps[o].parameters |-> Seen(ps[o].parameters[i].data)],
              meant |-> [i \in DOMAIN meant[o] |-> Seen(meant[o][i])]]
  /\ UNCHANGED <<ps, datum, expected, meant>>

\* The move assignment is a move and a swap: what o was is destroyed.
Move(o, p) ==
  /\ o # p /\ ps[p].valid
  /\ ps' = [x \in Object |-> IF x = o THEN ps[p] ELSE [NoPs EXCEPT !.preparsed = ps[p].preparsed]]
  /\ meant' = [x \in Object |-> IF x = o THEN meant[p] ELSE <<>>]
  /\ UNCHANGED <<datum, expected, sent>>

\* The connection forgets the statement when it is unprepared.
Unregister(o) ==
  /\ ps[o].valid
  /\ ps' = [ps EXCEPT ![o] = NoPs] /\ meant' = [meant EXCEPT ![o] = <<>>]
  /\ UNCHANGED <<datum, expected, sent>>

Datum_changes == datum' = 3 - datum /\ UNCHANGED <<ps, expected, meant, sent>>

Argument(name, data) == [name |-> name, data |-> data]
ArgumentLists ==
  {<<Argument(<<>>, Owned(1))>>, <<Argument(<<"b">>, View), Argument(<<"a">>, Owned(1))>>,
   <<Argument(<<>>, View), Argument(<<"a">>, Owned(1))>>, <<Argument(<<>>, Null), Argument(<<>>, Owned(1))>>}

Preparing ==
  \E o \in Object :
    \/ \E names \in Signatures : Prepare(o, names)
    \/ \E n \in 0..MaxBound : Prepare_as_is(o, n)

Call(o) ==
  \/ Set_description(o) \/ Execute_nio(o) \/ Unregister(o)
  \/ \E p \in Object : Move(p, o)
  \/ \E arguments \in ArgumentLists : Bind_many(o, arguments)
  \/ \E data \in {Owned(1), View, Null} :
       \/ \E i \in 1..MaxBound : Bind(o, i, data)
       \/ \E name \in ParameterNames : Bind_named(o, name, data)

PsNext ==
  LET prepared == {o \in Object : ps[o].valid} IN
  \/ Datum_changes
  \/ prepared = {} /\ Preparing
  \/ \E o \in prepared : Call(o)

PsSpec == PsInit /\ [][PsNext]_psVars

-----------------------------------------------------------------------------

\* What is sent to the server is for each parameter what the last call for it has bound, or
\* what the data behind a view has become, whether it was bound before or after the server
\* described the statement, and wherever the statement has been moved to; a described
\* statement has the parameters that the server expects, and the names are those of it.
ParametersSent ==
  /\ sent.values = sent.meant
  /\ \A o \in Object : ps[o].valid =>
       /\ (ps[o].preparsed \/ ps[o].described) => Len(ps[o].parameters) = expected
       /\ ~ps[o].preparsed => Positional_parameter_count(ps[o].parameters) = Len(ps[o].parameters)
       /\ \A i \in DOMAIN ps[o].parameters :
            i > Positional_parameter_count(ps[o].parameters) =>
              Parameter_index(ps[o].parameters, ps[o].parameters[i].name) = i

-----------------------------------------------------------------------------
(* invoke().                                                               *)

\* An argument has a name, or none: the compiler refuses a name before a position.
Routine_arguments_ok(names) ==
  \A i \in 1..(Len(names) - 1) : names[i] # <<>> => names[i + 1] # <<>>

Digit(n) == <<"0", "1", "2">>[n + 1]

Routine_argument(name, i) ==
  IF name = <<>> THEN <<"$", Digit(i)>> ELSE name \o <<"=", ">", ":">> \o name

\* routine_query__()
Routine_query(names) ==
  LET written == [i \in DOMAIN names |-> Routine_argument(names[i], i)]
      arguments == FoldLeft(LAMBDA text, i : text \o (IF i = 1 THEN <<>> ELSE <<",">>) \o written[i],
                            <<>>, [i \in DOMAIN names |-> i])
  IN <<"a", " ", "b", "(">> \o arguments \o <<")">>

\* The number of a parameter in to_query_string(), of positions and names.
Number(f, positions, unique) ==
  IF f.type = "positional_parameter" THEN Position(f.str)
  ELSE positions + (CHOOSE i \in DOMAIN unique : unique[i] = f.str)

\* The parameters of the unnamed statement that is prepared.
Unnamed(positions, unique) ==
  [i \in 1..(positions + Len(unique)) |->
     Parameter(IF i <= positions THEN <<>> ELSE unique[i - positions])]

IsParameter(f) == f.type \in {"positional_parameter", "named_parameter"}

Agree(names, places, positions, unique) ==
  /\ Len(places) = Len(names)
  /\ \A i \in DOMAIN names :
       Number(places[i], positions, unique)
         = IF names[i] = <<>> THEN i ELSE Parameter_index(Unnamed(positions, unique), names[i])

Invoked(names, parsed) ==
  /\ parsed.status = "done"
  /\ Agree(names, SelectSeq(parsed.fragments, IsParameter), Len(parsed.positional),
           Unique_fragments(parsed.fragments, "named_parameter"))

\* The arguments of a routine are the ones that it is called with: of the query that is
\* written and preparsed, the parameter at each place, by its number or by its name, has
\* the index to which bind_many() binds the argument of that place.
InvokedAsGiven(names) == Routine_arguments_ok(names) => Invoked(names, Parse(Routine_query(names)))
=============================================================================
