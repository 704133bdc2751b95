------------------------------ MODULE SqlExtras ------------------------------
(***************************************************************************)
(* The extra data of an SQL string of src/pgfe, $tag$content$tag$ in the   *)
(* comments that stand directly above its text, and Sql_vector, the SQL    *)
(* strings of a text that is cut at its semicolons.                        *)
(***************************************************************************)
EXTENDS SqlParser

IsSpace(c) == c \in {" ", "\n", "\r"}
IsBlank(str) == \A i \in DOMAIN str : IsSpace(str[i])
IsComment(f) == f.type \in {"one_line_comment", "multi_line_comment"}
Lines(str) == Cardinality({i \in DOMAIN str : str[i] = "\n"})

-----------------------------------------------------------------------------
(* The comments that belong to the text.                                   *)

\* At most one newline is before the first character that is not a space.
IsNearby(str) == Lines(SubSeq(str, 1, RunEnd(str, 1, {" ", "\n", "\r"}))) <= 1

\* The fragments between the last text that is far from what is before it and the first
\* text, if that is not after a parameter. A fragment that is passed on the way up, the
\* last one included, is asserted to be a comment or blank.
First_related_comments(fragments) ==
  LET IsText(f) == f.type = "text" /\ IsNearby(f.str) /\ ~IsBlank(f.str)
      i == First({j \in DOMAIN fragments :
                    \/ IsText(fragments[j])
                    \/ fragments[j].type \in {"named_parameter", "positional_parameter"}})
      far == {j \in 1..(i - 1) : fragments[j].type = "text" /\ ~IsNearby(fragments[j].str)}
      Passes(f) == IsComment(f) \/ IsBlank(f.str)
  IN CASE i = 0 \/ (i # 0 /\ fragments[i].type # "text") -> [asserted |-> TRUE, comments |-> <<>>]
       [] OTHER -> [asserted |-> \A j \in Max(far \union {1})..(i - 1) : Passes(fragments[j]),
                    comments |-> SubSeq(fragments, Max(far \union {0}) + 1, i - 1)]

\* Comments of the same type with nothing between them become one. (Between two comments
\* there is always a text, if only an empty one.)
Joined_comments(fragments) ==
  LET Str(f) == f.str \o IF f.type = "one_line_comment" THEN <<"\n">> ELSE <<>>
      Joins(joined, i) ==
        i > 1 /\ joined # <<>> /\ fragments[i - 1].type = fragments[i].type
      Add(joined, i) ==
        CASE ~IsComment(fragments[i]) -> joined
          [] Joins(joined, i) -> [joined EXCEPT ![Len(joined)].str = @ \o Str(fragments[i])]
          [] OTHER -> Append(joined, [type |-> fragments[i].type, str |-> Str(fragments[i])])
  IN FoldLeft(Add, <<>>, [i \in DOMAIN fragments |-> i])

-----------------------------------------------------------------------------
(* The content of the data. An optional number is a set of at most one.    *)

Less(variable, count) == IF \A n \in variable : count < n THEN {count} ELSE variable

\* What the border of asterisks and the other text is indented by. The character after
\* the first one of a line is not looked at, not even for a newline.
AfterAsterisk(m, c) ==
  LET border == CHOOSE n \in m.border : TRUE IN
  CASE c # " " -> [m EXCEPT !.content = Less(@, m.count)]
    [] c = " " /\ m.border = {} -> [m EXCEPT !.border = {m.count}]
    [] c = " " /\ m.border # {} /\ m.count < border ->
         [m EXCEPT !.content = Less(@, border), !.border = {m.count}]
    [] c = " " /\ m.border # {} /\ m.count = border + 1 -> [m EXCEPT !.content = Less(@, m.count)]
    [] OTHER -> m

IndentStep(m, c) ==
  CASE m.state = "counting" ->
         [m EXCEPT !.count = IF c = "\n" THEN 0 ELSE IF IsSpace(c) THEN @ + 1 ELSE @,
                   !.state = IF c = "*" THEN "after_asterisk"
                             ELSE IF IsSpace(c) THEN @ ELSE "after_non_asterisk"]
    [] m.state = "after_asterisk" -> [AfterAsterisk(m, c) EXCEPT !.state = "skiping"]
    [] m.state = "after_non_asterisk" -> [m EXCEPT !.content = Less(@, m.count), !.state = "skiping"]
    [] m.state = "skiping" -> IF c = "\n" THEN [m EXCEPT !.count = 0, !.state = "counting"] ELSE m

Indent_size(content, type) ==
  LET Size(m) ==
        IF type = "one_line_comment" THEN IF m.content = {0} THEN 0 ELSE 1
        ELSE IF m.border = {} THEN 0
        ELSE LET border == CHOOSE n \in m.border : TRUE IN
             CASE \E n \in m.content : n <= border -> 0
               [] m.content = {border + 1} -> border + 1
               [] OTHER -> border + 2
      read[i \in 0..Len(content)] ==
        IF i = 0 THEN [state |-> "counting", count |-> 0, border |-> {}, content |-> {}]
        ELSE IndentStep(read[i - 1], content[i])
  IN Size(read[Len(content)])

\* After each newline the indentation is removed, whatever characters it is.
Unindented(content, size) ==
  LET Eat(m, c) ==
        IF m.skip > 0 THEN [m EXCEPT !.skip = @ - 1]
        ELSE [text |-> Append(m.text, c), skip |-> IF c = "\n" THEN size ELSE 0]
      eaten[i \in 0..Len(content)] ==
        IF i = 0 THEN [text |-> <<>>, skip |-> 0] ELSE Eat(eaten[i - 1], content[i])
  IN eaten[Len(content)].text

\* A newline at the beginning and one at the end are removed.
Trimmed(text) ==
  LET After(s, c) == IF s # <<>> /\ Head(s) = c THEN Tail(s) ELSE s
      Until(s, c) == IF s # <<>> /\ Last(s) = c THEN Front(s) ELSE s
  IN Until(Until(After(After(text, "\r"), "\n"), "\n"), "\r")

Cleaned_content(content, type) == Trimmed(Unindented(content, Indent_size(content, type)))

-----------------------------------------------------------------------------
(* The data.                                                               *)

IsTag(c) == c \in Letters \union Digits \union {"_", "-"}

ExtractStep(m, c, type) ==
  CASE m.state = "top" -> IF c = "$" THEN [m EXCEPT !.state = "dollar"] ELSE m
    [] m.state = "dollar" ->
         IF IsTag(c) THEN [m EXCEPT !.state = "dollar_quote_leading_tag", !.leading = <<c>>] ELSE m
    [] m.state = "dollar_quote_leading_tag" ->
         CASE c = "$" -> [m EXCEPT !.state = "dollar_quote"]
           [] IsTag(c) -> [m EXCEPT !.leading = Append(@, c)]
           [] OTHER -> [m EXCEPT !.state = "thrown"]
    [] m.state = "dollar_quote" ->
         IF c = "$" THEN [m EXCEPT !.state = "dollar_quote_dollar"] ELSE [m EXCEPT !.content = Append(@, c)]
    [] m.state = "dollar_quote_dollar" ->
         CASE c # "$" -> [m EXCEPT !.trailing = Append(@, c)]
           [] c = "$" /\ m.leading # m.trailing -> [m EXCEPT !.state = "dollar_quote", !.trailing = <<>>]
           [] c = "$" /\ m.leading = m.trailing ->
                [m EXCEPT !.state = "top", !.leading = <<>>, !.trailing = <<>>, !.content = <<>>,
                          !.data = Append(@, [name |-> m.leading,
                                              content |-> Cleaned_content(m.content, type)])]
    [] m.state = "thrown" -> m

\* The data of a comment, or an exception.
Extract_comment(comment) ==
  LET read[i \in 0..Len(comment.str)] ==
        IF i = 0 THEN [state |-> "top", data |-> <<>>, content |-> <<>>, leading |-> <<>>, trailing |-> <<>>]
        ELSE ExtractStep(read[i - 1], comment.str[i], comment.type)
  IN read[Len(comment.str)]

\* The data of an SQL string, an exception, or the end of the program by an assertion.
Extra(fragments) ==
  LET related == First_related_comments(fragments)
      comments == Joined_comments(related.comments)
      Add(extra, m) == IF m.state = "top" /\ extra.what = "read" THEN [extra EXCEPT !.data = @ \o m.data]
                       ELSE [what |-> "thrown", data |-> <<>>]
  IN IF ~related.asserted THEN [what |-> "terminated", data |-> <<>>]
     ELSE FoldLeft(Add, [what |-> "read", data |-> <<>>],
                   [i \in DOMAIN comments |-> Extract_comment(comments[i])])

-----------------------------------------------------------------------------
(* Sql_vector.                                                             *)

Is_query_empty(fragments) ==
  \A i \in DOMAIN fragments :
    IsComment(fragments[i]) \/ (fragments[i].type = "text" /\ IsBlank(fragments[i].str))

\* The strings of a text, up to one the preparser refuses.
Sql_vector(text) ==
  LET from[i \in 1..(Len(text) + 1)] ==
        LET Rest(m) == IF m.status = "error" THEN <<>> ELSE <<m.fragments>> \o from[i + m.consumed]
        IN IF i > Len(text) THEN <<>> ELSE Rest(Parse(SubSeq(text, i, Len(text))))
  IN from[1]

Vector_to_string(vector) ==
  FlattenSeq([k \in DOMAIN vector |->
    (IF k = 1 THEN <<>> ELSE <<";">>) \o To_string(vector[k])])

Non_empty_count(vector) == Cardinality({k \in DOMAIN vector : ~Is_query_empty(vector[k])})

\* The query without its comments, of a string without named parameters.
Query(fragments) == To_string(SelectSeq(fragments, LAMBDA f : ~IsComment(f)))

Query_absolute_position(vector, k) ==
  LET length == FoldLeft(LAMBDA n, f : n + Len(To_string(f)) + 1, 0, SubSeq(vector, 1, k - 1))
      size == Len(To_string(vector[k]))
  IN length + size - Len(Query(vector[k]))

\* The first string from the offset on (counted from zero) whose first datum of the name,
\* from the extra offset on, has the value; the size if there is none.
Index_of(vector, name, value, offset, extra_offset) ==
  LET Has(data) ==
        \E d \in (extra_offset + 1)..Len(data) :
          /\ data[d] = [name |-> name, content |-> value]
          /\ \A e \in (extra_offset + 1)..(d - 1) : data[e].name # name
      found == {k \in (offset + 1)..Len(vector) : Has(Extra(vector[k]).data)}
  IN IF found = {} THEN Len(vector) ELSE Min(found) - 1

\* find(): the string, or no pointer.
Vector_find(vector, name, value, offset, extra_offset) ==
  {vector[k + 1] : k \in {Index_of(vector, name, value, offset, extra_offset)} \ {Len(vector)}}

\* insert() is before a string that is there.
Vector_push_back(vector, string) == Append(vector, string)
Vector_insert(vector, index, string) == InsertAt(vector, index + 1, string)
Vector_erase(vector, index) == RemoveAt(vector, index + 1)

-----------------------------------------------------------------------------
(* What a writer of SQL puts into a text: comments with data in the usual  *)
(* styles, the space between them, and the text.                           *)

Joined(lines, before) == FlattenSeq([n \in DOMAIN lines |-> before \o lines[n] \o <<"\n">>])

Encoded(piece) ==
  LET tag == <<"$">> \o piece.name \o <<"$">>
      border == <<" ", "*", " ">>
  IN
  CASE piece.kind = "space" -> piece.name
    [] piece.kind = "text" -> piece.name
    [] piece.kind = "one_line" -> <<"-", "-", " ">> \o tag \o Head(piece.lines) \o tag \o <<"\n">>
    [] piece.kind = "inline" -> <<"/", "*">> \o tag \o Head(piece.lines) \o tag \o <<"*", "/">>
    [] piece.kind = "plain" ->
         <<"/", "*", " ">> \o tag \o <<"\n">> \o Joined(piece.lines, <<>>) \o tag \o <<" ", "*", "/">>
    [] piece.kind = "bordered" ->
         <<"/", "*", "\n">> \o border \o tag \o <<"\n">> \o Joined(piece.lines, border)
           \o border \o tag \o <<"\n", " ", "*", "/">>

IsData(piece) == piece.kind \notin {"space", "text"}

\* The data above the first text: those below the last empty line before it. A text that
\* is below an empty line itself has none, and ends the program if another text follows.
Expected(pieces) ==
  LET texts == {i \in DOMAIN pieces : pieces[i].kind = "text"}
      text == First(texts)
      far == {i \in 1..(text - 1) : pieces[i].kind = "space" /\ Lines(pieces[i].name) > 1}
      above == SelectSeq(SubSeq(pieces, Max(far \union {0}) + 1, text - 1), IsData)
      Content(lines) == FlattenSeq([n \in DOMAIN lines |->
                          (IF n = 1 THEN <<>> ELSE <<"\n">>) \o lines[n]])
      data == [i \in DOMAIN above |-> [name |-> above[i].name, content |-> Content(above[i].lines)]]
  IN CASE text = 0 \/ (text - 1 \in far /\ texts = {text}) -> [what |-> "read", data |-> <<>>]
       [] text # 0 /\ text - 1 \in far /\ texts # {text} -> [what |-> "terminated", data |-> <<>>]
       [] OTHER -> [what |-> "read", data |-> data]

\* A string is found by each of its data, the first of its name, wherever it stands in a
\* vector, and from there on the next one is.
Found(string, data, other) ==
  LET Vector(n) == [i \in 1..n |-> IF i = 1 THEN other ELSE string]
      cases == {[vector |-> Vector_push_back(Vector(2), string), offset |-> 0, index |-> 1],
                [vector |-> Vector_push_back(Vector(2), string), offset |-> 2, index |-> 2],
                [vector |-> Vector_insert(Vector(3), 1, other), offset |-> 0, index |-> 2],
                [vector |-> Vector_erase(Vector(3), 0), offset |-> 1, index |-> 1],
                [vector |-> Vector_erase(Vector(2), 1), offset |-> 0, index |-> 1]}
      Is_found(d, c) ==
        /\ Index_of(c.vector, d.name, d.content, c.offset, 0) = c.index
        /\ Vector_find(c.vector, d.name, d.content, c.offset, 0) =
             {c.vector[i] : i \in {c.index + 1} \intersect DOMAIN c.vector}
      First_of_name(n) == \A k \in 1..(n - 1) : data[k].name # data[n].name
  IN \A n \in DOMAIN data : First_of_name(n) => \A c \in cases : Is_found(data[n], c)

\* The data of the comments are what was written into them, whatever the style, and are
\* those of the comments that belong to the text, which is found by them; a text below an
\* empty line must be the only one, or the program ends.
ExtraRead(pieces) ==
  LET Read(fragments, extra) ==
        /\ extra = Expected(pieces)
        /\ Found(fragments, extra.data, <<Fragment("text", <<"a">>)>>)
      Reads(fragments) == Read(fragments, Extra(fragments))
  IN Reads(Parse(FlattenSeq([i \in DOMAIN pieces |-> Encoded(pieces[i])])).fragments)

\* A query without named parameters that is behind its comments is where Sql_vector says
\* it is.
PositionKept(vector) ==
  \A k \in DOMAIN vector :
    LET f == vector[k]
        query == Query(f)
        position == Query_absolute_position(vector, k)
        behind == \A i, j \in DOMAIN f :
                    /\ f[i].type # "named_parameter"
                    /\ IsComment(f[j]) /\ i < j => IsComment(f[i]) \/ f[i].str = <<>>
    IN behind => SubSeq(Vector_to_string(vector), position + 1, position + Len(query)) = query

\* Of a text with tokens that are apart the strings are its parts between the semicolons,
\* those that are written back; those with a token that is neither a comment nor a space
\* are not empty.
VectorRead(text) ==
  LET Segment(t, tokens) ==
        LET end == IF tokens = <<>> THEN 0 ELSE Last(tokens).to IN
        [text |-> t, tokens |-> tokens, length |-> end,
         written |-> SubSeq(t, 1, IF end # 0 /\ Last(tokens).type = "end" THEN end - 1 ELSE end)]
      segments[i \in 1..(Len(text) + 1)] ==
        LET From(s) == <<s>> \o IF s.length = 0 THEN <<>> ELSE segments[i + s.length]
            Of(t) == From(Segment(t, Tokens(t)))
        IN IF i > Len(text) THEN <<>> ELSE Of(SubSeq(text, i, Len(text)))
      Said(s) == \E k \in ToSet(s.tokens) :
                   /\ k.type \notin {"one_line_comment", "multi_line_comment", "end"}
                   /\ \E i \in k.from..k.to : ~IsSpace(s.text[i])
      Apart(s) == \A k \in ToSet(s.tokens) : SeparatedToken(s.text, k)
      Kept(vector, parts) ==
        /\ Len(vector) = Len(parts)
        /\ \A k \in DOMAIN vector : To_string(vector[k]) \in {parts[k].written, Append(parts[k].written, "\n")}
        /\ Non_empty_count(vector) = Cardinality({k \in DOMAIN parts : Said(parts[k])})
        /\ PositionKept(vector)
      Checked(parts) == (\A k \in DOMAIN parts : Apart(parts[k])) => Kept(Sql_vector(text), parts)
  IN Checked(segments[1])
=============================================================================
