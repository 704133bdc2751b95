------------------------------ MODULE Multipart ------------------------------
(***************************************************************************)
(* Form_data of src/mulf: the parser of multipart/form-data, and the data  *)
(* a client makes of a form. A word, and the boundary with its two dashes, *)
(* is one character.                                                       *)
(***************************************************************************)
EXTENDS Integers, SequencesExt

Crlf == <<"\r", "\n">>
Boundary == "--boundary"
Delimiter == Append(Crlf, Boundary)

Words == {"content-disposition", "content-type", "form-data", "name", "filename", "charset",
          "text", "a", "b", "-"}
Hws == {" ", "\t"}

NoEntry == [name |-> <<>>, filename |-> <<>>, content_type |-> <<>>, charset |-> <<>>,
            content |-> <<>>]

\* std::string::find(), 0 for npos.
Find(data, s, pos) ==
  LET found == {i \in pos..(Len(data) - Len(s) + 1) : SubSeq(data, i, i + Len(s) - 1) = s} IN
  IF found = {} THEN 0 ELSE Min(found)

Only(set) == CHOOSE v \in set : TRUE

-----------------------------------------------------------------------------
(* set_headers(), one operator per state. What is not said of the header   *)
(* stays as it is; empty are the parameters whose last value is "".        *)

Headers ==
  [state |-> "name", type |-> "", param |-> "", extracted |-> <<>>, form_data |-> FALSE,
   entry |-> NoEntry, empty |-> {}]

Go(h, state) == [h EXCEPT !.state = state]
Extract(h, state, c) == [h EXCEPT !.state = state, !.extracted = Append(@, c)]
Throw(h) == Go(h, "thrown")

Process_parameter_name(h) ==
  LET e == h.extracted
      done == [h EXCEPT !.extracted = <<>>]
  IN
  CASE h.type = "disposition" /\ e \in {<<"name">>, <<"filename">>} -> [done EXCEPT !.param = e[1]]
    [] h.type = "disposition" /\ e = <<"form-data">> /\ ~h.form_data ->
         [done EXCEPT !.form_data = TRUE]
    [] h.type = "type" /\ e = <<"charset">> -> [done EXCEPT !.param = "charset"]
    [] h.type = "type" /\ e # <<"charset">> /\ h.entry.content_type = <<>> ->
         [done EXCEPT !.entry.content_type = e]
    [] OTHER -> Throw(h)

Process_parameter_value(h) ==
  LET done == [h EXCEPT !.extracted = <<>>,
                        !.empty = IF h.extracted = <<>> THEN @ \union {h.param} ELSE @ \ {h.param}]
  IN
  CASE h.type = "disposition" /\ h.param = "name" -> [done EXCEPT !.entry.name = h.extracted]
    [] h.type = "disposition" /\ h.param = "filename" ->
         [done EXCEPT !.entry.filename = h.extracted]
    [] h.type = "type" /\ h.param = "charset" -> [done EXCEPT !.entry.charset = h.extracted]
    [] OTHER -> Throw(h)

Then(h, state) == IF h.state = "thrown" THEN h ELSE Go(h, state)

Name(h, c) ==
  CASE c = ":" /\ h.extracted \in {<<"content-disposition">>, <<"content-type">>} ->
         [h EXCEPT !.state = "before_parameter_name", !.extracted = <<>>,
                   !.type = IF h.extracted = <<"content-type">> THEN "type" ELSE "disposition"]
    [] c \in Words -> Extract(h, h.state, c)
    [] OTHER -> Throw(h)

Before_parameter_name(h, c) ==
  CASE c \in Hws -> h [] c \in Words -> Extract(h, "parameter_name", c) [] OTHER -> Throw(h)

Parameter_name(h, c) ==
  CASE c = ";" -> Then(Process_parameter_name(h), "before_parameter_name")
    [] c = "=" -> Then(Process_parameter_name(h), "before_parameter_value")
    [] c = "\r" -> Then(Process_parameter_name(h), "cr")
    [] c \in Words -> Extract(h, h.state, c)
    [] OTHER -> Throw(h)

Before_parameter_value(h, c) ==
  CASE c \in Hws -> h
    [] c = "\"" -> Go(h, "parameter_quoted_value")
    [] c \in Words -> Extract(h, "parameter_value", c)
    [] OTHER -> Throw(h)

\* A value ends by a space or the end of the line: a semicolon is an error.
Parameter_value(h, c) ==
  CASE c \in Hws -> Then(Process_parameter_value(h), "before_parameter_name")
    [] c = "\r" -> Then(Process_parameter_value(h), "cr")
    [] c \in Words -> Extract(h, h.state, c)
    [] OTHER -> Throw(h)

Parameter_quoted_value(h, c) ==
  CASE c = "\"" -> Go(h, "parameter_quoted_value_quote")
    [] c = "\\" -> Go(h, "parameter_quoted_value_bslash")
    [] c \in Words \union Hws -> Extract(h, h.state, c)
    [] OTHER -> Throw(h)

Parameter_quoted_value_quote(h, c) ==
  CASE c \in Hws -> Then(Process_parameter_value(h), "before_parameter_name")
    [] c = "\r" -> Then(Process_parameter_value(h), "cr")
    [] c \in Words ->
         LET p == Then(Process_parameter_value(h), "before_parameter_name") IN
         IF p.state = "thrown" THEN p ELSE Extract(p, p.state, c)
    [] OTHER -> Throw(h)

Step(h, c) ==
  CASE h.state = "name" -> Name(h, c)
    [] h.state = "before_parameter_name" -> Before_parameter_name(h, c)
    [] h.state = "parameter_name" -> Parameter_name(h, c)
    [] h.state = "before_parameter_value" -> Before_parameter_value(h, c)
    [] h.state = "parameter_value" -> Parameter_value(h, c)
    [] h.state = "parameter_quoted_value" -> Parameter_quoted_value(h, c)
    [] h.state = "parameter_quoted_value_quote" -> Parameter_quoted_value_quote(h, c)
    [] h.state = "parameter_quoted_value_bslash" /\ c = "\"" ->
         Extract(h, "parameter_quoted_value", c)
    [] h.state = "cr" /\ c = "\n" -> Go(h, "crlf")
    [] h.state = "crlf" -> IF c = "\r" THEN Go(h, "crlfcr") ELSE Extract(h, "name", c)
    [] h.state = "crlfcr" /\ c = "\n" -> Go(h, "crlfcrlf")
    [] OTHER -> Throw(h)

\* The entry and the position after its headers. An entry that has been given "" as its
\* filename or its charset does not keep its invariant, which is asserted.
Set_headers(data, pos) ==
  LET Read(h, end) ==
        [entry |-> h.entry, pos |-> end,
         what |-> CASE h.state # "crlfcrlf" \/ ~h.form_data \/ h.entry.name = <<>> -> "thrown"
                    [] OTHER -> IF h.empty = {} THEN "parsed" ELSE "terminated"]
      Next_char(r, c) == IF r.h.state \in {"crlfcrlf", "thrown"} THEN r
                         ELSE [h |-> Step(r.h, c), pos |-> r.pos + 1]
      read[i \in (pos - 1)..Len(data)] ==
        IF i = pos - 1 THEN [h |-> Headers, pos |-> pos] ELSE Next_char(read[i - 1], data[i])
      Of(r) == Read(r.h, r.pos)
  IN Of(read[Len(data)])

-----------------------------------------------------------------------------
(* The parts.                                                              *)

\* Mutant: no padding is skipped.
Skip_no_padding(data, pos) == pos

\* skip_transport_padding(): the position of the CRLF that ends the padding, which
\* is the last one before something else, or the one before a CR or an LF.
Skip_transport_padding(data, pos) ==
  LET blanks == {" ", "\t", "\r", "\n"}
      Crlf_at(i) == i > pos + 1 /\ data[i - 2] = "\r" /\ data[i - 1] = "\n"
      Stops(i) == i > Len(data) \/ data[i] \notin blanks
                    \/ (Crlf_at(i) /\ data[i] \in {"\r", "\n"})
      stop == Min({i \in pos..(Len(data) + 1) : Stops(i)})
  IN IF Crlf_at(stop) THEN stop - 2 ELSE stop

\* The result of the constructor from a position that follows a delimiter: "thrown",
\* "terminated" by a failed assertion, or "parsed" with the entries.
Result(what, entries) == [what |-> what, entries |-> entries]

\* skip_transport_padding() and skip_mandatory_crlf(), both of which assert that
\* there is something at the position.
After_delimiter(data, pos) ==
  LET crlf == IF pos > Len(data) THEN pos ELSE Skip_transport_padding(data, pos) IN
  CASE crlf > Len(data) -> [what |-> "terminated", pos |-> 0]
    [] crlf <= Len(data) /\ SubSeq(data, crlf, Min({crlf + 1, Len(data)})) = Crlf ->
         [what |-> "parsed", pos |-> crlf + 2]
    [] OTHER -> [what |-> "thrown", pos |-> 0]

\* What follows a delimiter, whose last position is before "after": the end, or the other
\* entries.
Behind(data, after, entry, Others(_)) ==
  LET Joined(rest) == IF rest.what # "parsed" THEN Result(rest.what, <<>>) ELSE Others(rest.pos)
      Added(others) == IF others.what = "parsed" THEN Result(others.what, <<entry>> \o others.entries)
                       ELSE Result(others.what, <<>>)
  IN
  CASE after >= Len(data) -> Result("thrown", <<>>)
    [] after < Len(data) /\ data[after] = "-" ->
         IF data[after + 1] = "-" THEN Result("parsed", <<entry>>) ELSE Result("thrown", <<>>)
    [] OTHER -> Added(Joined(After_delimiter(data, after)))

\* One iteration of the loop over the entries, and the following ones.
Entries(data, first) ==
  LET entries[pos \in 1..(Len(data) + 1)] ==
        LET Entry(headers, next) ==
              CASE next = 0 -> Result("thrown", <<>>)
                [] next # 0 /\ headers.what # "parsed" -> Result(headers.what, <<>>)
                [] next # 0 /\ headers.what = "parsed" /\ headers.pos > next ->
                     Result("terminated", <<>>)
                [] OTHER -> Behind(data, next + Len(Delimiter),
                                   [headers.entry EXCEPT !.content = SubSeq(data, headers.pos, next - 1)],
                                   LAMBDA p : entries[p])
        IN Entry(Set_headers(data, pos), Find(data, Delimiter, pos))
  IN entries[first]

Form_data(data) ==
  LET delimiter == Find(data, Delimiter, 1)
      first == After_delimiter(data, delimiter + Len(Delimiter))
  IN
  CASE delimiter = 0 -> Result("thrown", <<>>)
    [] delimiter # 0 /\ first.what # "parsed" -> Result(first.what, <<>>)
    [] OTHER -> Entries(data, first.pos)

-----------------------------------------------------------------------------
(* The entries: made by calls, and found by their name.                    *)

\* The constructor; <<>> is what the entry does not have.
Form_data_entry(name) == [NoEntry EXCEPT !.name = name]

\* set_name() and the others: what is given, the element of value, is not empty, or the
\* argument is refused and the entry stays as it is; the name is always given.
Set(entry, field, value) ==
  CASE <<>> \in value \/ (field = "name" /\ value = {}) -> entry
    [] value = {} /\ field # "name" -> [entry EXCEPT ![field] = <<>>]
    [] OTHER -> [entry EXCEPT ![field] = Only(value)]

\* An entry made as another one, after calls that are refused.
Made(entry) ==
  LET fields == <<"filename", "content_type", "charset", "content">>
      Given(e, field) == Set(Set(e, field, {entry[field]}), field, {<<>>})
  IN FoldLeft(Given, Set(Form_data_entry(entry.name), "name", {<<>>}), fields)

\* entry_index(): the first entry of the name from the offset on, counted from zero.
Entry_index(entries, name, offset) ==
  LET found == {i \in (offset + 1)..Len(entries) : entries[i].name = name} IN
  IF found = {} THEN {} ELSE {Min(found) - 1}

Has_entry(entries, name, offset) == Entry_index(entries, name, offset) # {}

\* The entries of a name, each looked up behind the one before, are all of that name.
EntriesFound(entries) ==
  \A name \in {e.name : e \in ToSet(entries)} :
    LET found[offset \in 0..Len(entries)] ==
          IF ~Has_entry(entries, name, offset) THEN <<>>
          ELSE LET i == Only(Entry_index(entries, name, offset)) IN <<entries[i + 1]>> \o found[i + 1]
    IN found[0] = SelectSeq(entries, LAMBDA e : e.name = name)

-----------------------------------------------------------------------------
(* What a client sends: parts, each with its entry and the way it is       *)
(* written, with a filename or a charset that is given as "" or with none. *)

Quoted(value, quoted) == IF quoted THEN <<"\"">> \o value \o <<"\"">> ELSE value

Nothing(before, param, empty) == IF param \in empty THEN <<before, param, "=", "\"", "\"">> ELSE <<>>

Disposition(e, quoted, empty) ==
  <<"content-disposition", ":", " ", "form-data", ";", " ", "name", "=">>
    \o Quoted(e.name, quoted)
    \o (IF e.filename = <<>> THEN <<>> ELSE <<" ", "filename", "=">> \o Quoted(e.filename, quoted))
    \o Nothing(" ", "filename", empty) \o Crlf

Type(e, empty) ==
  IF e.content_type = <<>> THEN <<>>
  ELSE <<"content-type", ":">> \o e.content_type
         \o (IF e.charset = <<>> THEN <<>> ELSE <<";", "charset", "=">> \o e.charset)
         \o Nothing(";", "charset", empty) \o Crlf

Part(p) ==
  LET d == Disposition(p.entry, p.quoted, p.empty)  t == Type(p.entry, p.empty) IN
  p.padding \o Crlf \o (IF p.typeFirst THEN t \o d ELSE d \o t) \o Crlf \o p.entry.content

Encode(parts, preamble, epilogue) ==
  preamble
    \o FlattenSeq([i \in DOMAIN parts |-> Delimiter \o Part(parts[i])])
    \o Delimiter \o <<"-", "-">> \o epilogue
=============================================================================
