------------------------------- MODULE Queries -------------------------------
(***************************************************************************)
(* The query string of src/url. A character is its code.                   *)
(***************************************************************************)
EXTENDS Integers, SequencesExt

Sep == 38  Eq == 61  Plus == 43  Percent == 37  Space == 32  Tilde == 126

\* Of the simple characters, digits and letters and the four others.
Is_simple(c) ==
  c \in {42, 45, 46, 95} \union 48..57 \union 65..90 \union 97..122
Digit(c) == CASE c \in 48..57 -> c - 48 [] c \in 65..70 -> c - 55 [] c \in 97..102 -> c - 87
Is_hex(c) == c \in 48..57 \union 65..70 \union 97..102
Hex_digit(n) == IF n < 10 THEN 48 + n ELSE 55 + n

NoValue == {}
Parameter(name, value) == [name |-> name, value |-> value]

-----------------------------------------------------------------------------
(* The constructor. value is the set of the value, if there is one.        *)

Start ==
  [state |-> "param", what |-> "reading", hex |-> <<>>, parameters |-> <<Parameter(<<>>, NoValue)>>]

Throw(m) == [m EXCEPT !.what = "thrown"]
Is_name(m) == m.state \in {"param", "param_hex"}

\* *extracted += c
Extract(m, c) ==
  LET n == Len(m.parameters) IN
  IF Is_name(m) THEN [m EXCEPT !.parameters[n].name = Append(@, c)]
  ELSE [m EXCEPT !.parameters[n].value = {Append(v, c) : v \in @}]

Octet(m, c) ==
  CASE ~Is_hex(c) -> Throw(m)
    [] Is_hex(c) /\ m.hex = <<>> -> [m EXCEPT !.hex = <<c>>]
    [] OTHER -> [Extract(m, 16 * Digit(m.hex[1]) + Digit(c)) EXCEPT
                   !.hex = <<>>, !.state = IF Is_name(m) THEN "param" ELSE "value"]

Step(m, c) ==
  LET last == Last(m.parameters) IN
  CASE m.what # "reading" -> m
    [] m.state \in {"param_hex", "value_hex"} -> Octet(m, c)
    [] m.state = "param" /\ c = Eq ->
         IF last.name = <<>> THEN Throw(m)
         ELSE [m EXCEPT !.state = "value", !.parameters[Len(m.parameters)].value = {<<>>}]
    [] c = Sep -> [m EXCEPT !.state = "param", !.parameters = Append(@, Parameter(<<>>, NoValue))]
    [] Is_simple(c) \/ c = Tilde -> Extract(m, c)
    [] c = Plus -> Extract(m, Space)
    [] c = Percent -> [m EXCEPT !.state = IF @ = "param" THEN "param_hex" ELSE "value_hex"]
    [] OTHER -> Throw(m)

\* is_invariant_ok() is asserted: a name that is empty and is not the last.
Finish(m) ==
  CASE m.what = "thrown" -> m
    [] m.what # "thrown" /\ Last(m.parameters).name = <<>> -> Throw(m)
    [] OTHER -> [m EXCEPT !.what = IF \E p \in ToSet(m.parameters) : p.name = <<>>
                                   THEN "terminated" ELSE "parsed"]

Machine(input) ==
  LET read[i \in 0..Len(input)] == IF i = 0 THEN Start ELSE Step(read[i - 1], input[i])
  IN read[Len(input)]

Query_string(input) ==
  IF input = <<>> THEN [Start EXCEPT !.what = "parsed", !.parameters = <<>>]
  ELSE Finish(Machine(input))

\* Mutant: the separator is written as itself.
Encoded_sep(string) ==
  FlattenSeq([i \in DOMAIN string |->
    LET c == string[i] IN
    IF Is_simple(c) \/ c \in {Tilde, Sep} THEN <<c>>
    ELSE <<Percent, Hex_digit(c \div 16), Hex_digit(c % 16)>>])

\* to_string(). The code of an octet is not padded.
Encoded(string) ==
  FlattenSeq([i \in DOMAIN string |->
    LET c == string[i] IN
    CASE Is_simple(c) \/ c = Tilde -> <<c>>
      [] ~(Is_simple(c) \/ c = Tilde) /\ c < 16 -> <<Percent, Hex_digit(c)>>
      [] OTHER -> <<Percent, Hex_digit(c \div 16), Hex_digit(c % 16)>>])

To_string(parameters) ==
  LET Of(p) == Encoded(p.name) \o (IF p.value = NoValue THEN <<>>
                                   ELSE <<Eq>> \o Encoded(CHOOSE v \in p.value : TRUE))
  IN FoldLeft(LAMBDA s, p : IF s = <<>> THEN Of(p) ELSE s \o <<Sep>> \o Of(p), <<>>, parameters)

-----------------------------------------------------------------------------
(* The parameters: looked up, appended and removed.                        *)

\* parameter_index(): the first of the name from the offset on, counted from zero.
Parameter_index(parameters, name, offset) ==
  LET found == {i \in (offset + 1)..Len(parameters) : parameters[i].name = name} IN
  IF found = {} THEN {} ELSE {Min(found) - 1}

Has_parameter(parameters, name, offset) == Parameter_index(parameters, name, offset) # {}

\* append_parameter(): the constructor of the parameter asserts that it has a name.
Append_parameter(parameters, name, value) ==
  IF name = <<>> THEN [what |-> "terminated", parameters |-> parameters]
  ELSE [what |-> "parsed", parameters |-> Append(parameters, Parameter(name, value))]

\* remove_parameter(): that at the index, or the first of the name from the offset on.
Remove_at(parameters, index) == RemoveAt(parameters, index + 1)
Remove_parameter(parameters, name, offset) ==
  FoldSet(LAMBDA index, ps : Remove_at(ps, index), parameters, Parameter_index(parameters, name, offset))

\* A parameter that is appended to those of a query is found behind the others, and if it
\* is removed there they are as they were. A call removes one parameter, the others stay in
\* their order: there is none of its name from the offset on afterwards, as the comment of
\* the function says, only if there was no second one; it takes a call for each of them.
ParametersFound(parameters) ==
  LET n == Len(parameters)
      Grown(p) == Append_parameter(parameters, p.name, p.value).parameters
      Others(ps, name) == SelectSeq(ps, LAMBDA q : q.name # name)
      Named(name, offset) == Cardinality({i \in (offset + 1)..n : parameters[i].name = name})
      Removed(name, offset, ps) ==
        /\ Has_parameter(ps, name, offset) <=> Named(name, offset) > 1
        /\ Others(ps, name) = Others(parameters, name)
      Without(name) ==
        FoldLeft(LAMBDA ps, i : Remove_parameter(ps, name, 0), parameters, [i \in 1..Named(name, 0) |-> i])
  IN
  \A p \in ToSet(parameters) :
    /\ Parameter_index(Grown(p), p.name, n) = {n}
    /\ Remove_parameter(Grown(p), p.name, n) = parameters
    /\ \A offset \in 0..n : Removed(p.name, offset, Remove_parameter(parameters, p.name, offset))
    /\ Without(p.name) = Others(parameters, p.name)

-----------------------------------------------------------------------------
(* The references.                                                         *)

\* The parts of a text between the separators.
Split(text, sep) ==
  LET cuts == {0} \union {i \in DOMAIN text : text[i] = sep} \union {Len(text) + 1}
      Next(cut) == Min({c \in cuts : c > cut})
      parts == {[at |-> c, text |-> SubSeq(text, c + 1, Next(c) - 1)] : c \in cuts \ {Len(text) + 1}}
  IN [n \in 1..Cardinality(parts) |->
        (CHOOSE p \in parts : Cardinality({q \in parts : q.at < p.at}) = n - 1).text]

\* What a part of a query denotes.
Decoded(text) ==
  LET octets == {i \in DOMAIN text : text[i] = Percent}
      Code(i) == CASE i \in octets -> 16 * Digit(text[i + 1]) + Digit(text[i + 2])
                   [] i \notin octets /\ text[i] = Plus -> Space
                   [] OTHER -> text[i]
      first == {i \in DOMAIN text : i - 1 \notin octets /\ i - 2 \notin octets}
  IN [n \in 1..Cardinality(first) |->
        Code(CHOOSE i \in first : Cardinality({j \in first : j < i}) = n - 1)]

\* A query as the comment of the constructor and RFC 3986 have it.
Valid_text(text) ==
  \A i \in DOMAIN text :
    /\ text[i] = Percent => i + 2 <= Len(text) /\ Is_hex(text[i + 1]) /\ Is_hex(text[i + 2])
    /\ Is_simple(text[i]) \/ text[i] \in {Tilde, Plus, Percent}
Valid_part(part) ==
  LET sides == Split(part, Eq) IN
  Len(sides) \in 1..2 /\ sides[1] # <<>> /\ \A n \in DOMAIN sides : Valid_text(sides[n])
Denoted_part(part) ==
  LET sides == Split(part, Eq) IN
  Parameter(Decoded(sides[1]), IF Len(sides) = 1 THEN NoValue ELSE {Decoded(sides[2])})

\* The parameters are found and removed by their names. A valid query is parsed to what it
\* denotes; another one is parsed only if an octet is cut by its end. The query that is
\* written of the parameters denotes the same, unless one has a code below 16.
Read(input) ==
  LET parts == Split(input, Sep)
      valid == input # <<>> /\ \A n \in DOMAIN parts : Valid_part(parts[n])
      query == Query_string(input)
      written == To_string(query.parameters)
      codes == UNION {ToSet(p.name) \union UNION {ToSet(v) : v \in p.value} :
                        p \in ToSet(query.parameters)}
  IN
  /\ query.what = "parsed" => ParametersFound(query.parameters)
  /\ valid => query.what = "parsed" /\ query.parameters = [n \in DOMAIN parts |-> Denoted_part(parts[n])]
  /\ query.what = "parsed" /\ input # <<>> /\ ~valid =>
       \E i \in {Len(input) - 1, Len(input)} \intersect DOMAIN input : input[i] = Percent
  /\ query.what = "parsed" /\ codes \intersect 0..15 = {} =>
       Query_string(written).parameters = query.parameters
=============================================================================
