------------------------------ MODULE Templates ------------------------------
(***************************************************************************)
(* Logic_less_template of src/ttpl: its parser by the character, where "a" *)
(* and "b" are the characters a name may have, and a template of which the *)
(* values are set and the parameters replaced by other templates.          *)
(***************************************************************************)
EXTENDS Integers, SequencesExt

CONSTANTS
  Names,         \* names of parameters, of one character
  MaxFragments   \* bound: fragments of the template

VARIABLES
  fragments_,   \* [type, str]
  parameters_,  \* [name, value], the value {} if it is not set
  terminated    \* an assertion has failed

vars == <<fragments_, parameters_, terminated>>

Text(str) == [type |-> "text", str |-> str]
Named(str) == [type |-> "parameter", str |-> str]
Parameter(name) == [name |-> name, value |-> {}]
Is_valid_parameter_name_character(c) == c \in {"a", "b"}

\* parameter_index(), 0 if there is none.
Parameter_index(parameters, name) ==
  LET found == {i \in DOMAIN parameters : parameters[i].name = name} IN
  IF found = {} THEN 0 ELSE Min(found)

-----------------------------------------------------------------------------
(* The constructor.                                                        *)

Start == [state |-> "text", text |-> <<>>, parameter |-> <<>>, fragments |-> <<>>, parameters |-> <<>>]

Restore(t, str, c) ==
  [t EXCEPT !.state = "text", !.text = @ \o str \o <<c>>, !.parameter = <<>>]
Go(t, state) == [t EXCEPT !.state = state]

Store_extracted_text(t) == [t EXCEPT !.fragments = Append(@, Text(t.text)), !.text = <<>>]
\* Mutant: a parameter is stored as often as it occurs.
Store_extracted_parameter_again(t) ==
  IF t.parameter = <<>> THEN t
  ELSE [t EXCEPT !.fragments = Append(@, Named(t.parameter)), !.parameter = <<>>,
                 !.parameters = Append(@, Parameter(t.parameter))]

\* An empty name is not stored.
Store_extracted_parameter(t) ==
  IF t.parameter = <<>> THEN t
  ELSE [t EXCEPT !.fragments = Append(@, Named(t.parameter)), !.parameter = <<>>,
                 !.parameters = IF Parameter_index(@, t.parameter) = 0
                                THEN Append(@, Parameter(t.parameter)) ELSE @]
Store(t) == Store_extracted_parameter(Store_extracted_text(t))

Opening == <<"{", "{", " ">>

Step(t, c) ==
  CASE t.state = "text" -> IF c = "{" THEN Go(t, "lbrace1") ELSE Restore(t, <<>>, c)
    [] t.state = "lbrace1" -> IF c = "{" THEN Go(t, "lbrace2") ELSE Restore(t, <<"{">>, c)
    [] t.state = "lbrace2" ->
         CASE c = " " -> Go(t, "parameter")
           [] c = "{" -> [t EXCEPT !.text = Append(@, c)]
           [] OTHER -> Restore(t, <<"{", "{">>, c)
    [] t.state = "parameter" ->
         CASE c = " " -> Go(t, "space_after_parameter")
           [] Is_valid_parameter_name_character(c) -> [t EXCEPT !.parameter = Append(@, c)]
           [] OTHER -> Restore(t, Opening \o t.parameter, c)
    [] t.state = "space_after_parameter" ->
         IF c = "}" THEN Go(t, "rbrace1") ELSE Restore(t, Opening \o t.parameter \o <<" ">>, c)
    [] t.state = "rbrace1" ->
         IF c = "}" THEN Go(t, "rbrace2") ELSE Restore(t, Opening \o t.parameter \o <<" ", "}">>, c)
    \* The character that follows a parameter is text, whatever it is.
    [] t.state = "rbrace2" -> Restore(Store(t), <<>>, c)

Finish(t) ==
  LET end == IF t.state = "rbrace2" THEN Store(t) ELSE [t EXCEPT !.text = @ \o t.parameter]
  IN IF end.text = <<>> THEN end ELSE Store_extracted_text(end)

Machine(input) ==
  LET read[i \in 0..Len(input)] == IF i = 0 THEN Start ELSE Step(read[i - 1], input[i])
  IN read[Len(input)]

Logic_less_template(input) == Finish(Machine(input))

To_string(fragments) ==
  FlattenSeq([i \in DOMAIN fragments |->
    IF fragments[i].type = "text" THEN fragments[i].str
    ELSE Opening \o fragments[i].str \o <<" ", "}", "}">>])

\* to_output(), which throws if a value is not set.
To_output(fragments, parameters) ==
  LET Value(name) == CHOOSE v \in parameters[Parameter_index(parameters, name)].value : TRUE IN
  FlattenSeq([i \in DOMAIN fragments |->
    IF fragments[i].type = "text" THEN fragments[i].str ELSE Value(fragments[i].str)])

-----------------------------------------------------------------------------
(* A template in use.                                                      *)

\* The texts of which templates are made.
Texts ==
  {<<"x">>} \union {To_string(<<Named(n)>>) : n \in Names}
    \union {To_string(<<Named(n), Text(<<"x">>), Named(m)>>) : n, m \in Names}

Init ==
  \E text \in Texts :
    LET t == Logic_less_template(text) IN
    fragments_ = t.fragments /\ parameters_ = t.parameters /\ terminated = FALSE

Set_value(name, value) ==
  LET i == Parameter_index(parameters_, name) IN
  /\ ~terminated /\ i # 0
  /\ parameters_' = [parameters_ EXCEPT ![i].value = value]
  /\ UNCHANGED <<fragments_, terminated>>

\* replace_parameter(): the fragments first, then the parameters of the replacement
\* which this template has already are removed, the replaced one may be among them.
Replace_parameter(name, replacement, value) ==
  LET kept == SelectSeq(parameters_, LAMBDA p : Parameter_index(replacement.parameters, p.name) = 0)
      idx == Parameter_index(kept, name)
      new == [i \in DOMAIN replacement.parameters |->
                [replacement.parameters[i] EXCEPT !.value = value]]
      fragments == FlattenSeq([i \in DOMAIN fragments_ |->
                     IF fragments_[i] = Named(name) THEN replacement.fragments ELSE <<fragments_[i]>>])
  IN
  /\ ~terminated /\ Parameter_index(parameters_, name) # 0
  /\ Len(fragments) <= MaxFragments
  /\ fragments_' = fragments
  /\ IF idx = 0 THEN parameters_' = kept /\ terminated' = TRUE
     ELSE /\ parameters_' = SubSeq(kept, 1, idx - 1) \o new \o SubSeq(kept, idx + 1, Len(kept))
          /\ UNCHANGED terminated

Values == {{}, {<<"x">>}}

Next ==
  \E name \in Names, value \in Values :
    \/ Set_value(name, value)
    \/ \E text \in Texts : Replace_parameter(name, Logic_less_template(text), value)

Spec == Init /\ [][Next]_vars

-----------------------------------------------------------------------------

\* The text of a parsed template is what was parsed, but for an opening without a
\* closing at the end and a parameter without a name, which are lost.
TextKept(input) ==
  LET end == Machine(input).state
      Unnamed(i) == SubSeq(input, i, i + 5) = <<"{", "{", " ", " ", "}", "}">>
  IN To_string(Logic_less_template(input).fragments) = input
       \/ end \notin {"text", "rbrace2"}
       \/ \E i \in 1..(Len(input) - 5) : Unnamed(i)

\* The parameters are those of the fragments, once each, after any replacement; what
\* is output when all are set is the text, each parameter replaced by its value; a
\* replacement that contains the parameter it is for terminates the program.
ParametersMatch ==
  LET names == {p.name : p \in ToSet(parameters_)}
      set == \A p \in ToSet(parameters_) : p.value # {}
      output == To_output(fragments_, parameters_)
      visible == SelectSeq(fragments_, LAMBDA f : f.str # <<>>)
      Parameters(fragments) == SelectSeq(fragments, LAMBDA f : f.type = "parameter")
      apart == \A i \in 1..(Len(visible) - 1) : "text" \in {visible[i].type, visible[i + 1].type}
  IN
  ~terminated =>
    /\ {f.str : f \in {g \in ToSet(fragments_) : g.type = "parameter"}} = names
    /\ Cardinality(names) = Len(parameters_)
    /\ set => output = [i \in DOMAIN visible |-> "x"]
    /\ apart => Parameters(Logic_less_template(To_string(fragments_)).fragments) = Parameters(visible)
=============================================================================
