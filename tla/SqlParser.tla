------------------------------ MODULE SqlParser ------------------------------
(***************************************************************************)
(* Sql_string::parse_sql_input() of src/pgfe: the SQL preparser, which cuts*)
(* a text into fragments, up to the first semicolon that is not quoted, one*)
(* operator per state of the code. A text is a sequence of characters.     *)
(***************************************************************************)
EXTENDS Integers, SequencesExt

CONSTANT MaxParameters  \* max_parameter_count()

Letters == {"a", "b"}
Digits == {"0", "1", "2"}
Quotes == {"'", "\""}
IsIdent(c) == c \in Letters \union Digits \union {"$"}

\* The value of a sequence of digits.
Position(digits) ==
  FoldLeft(LAMBDA n, d : 10 * n + (CHOOSE k \in 0..2 : <<"0", "1", "2">>[k + 1] = d), 0, digits)

Fragment(type, str) == [type |-> type, str |-> str]

\* The fragments of a type, of those with the same string the first.
Unique_fragments(fragments, type) ==
  FoldLeft(LAMBDA names, f : IF f.type # type \/ f.str \in ToSet(names) THEN names
                             ELSE Append(names, f.str), <<>>, fragments)

Start ==
  [status |-> "reading", state |-> "top", depth |-> 0, previous |-> "", current |-> "",
   quote |-> "", fragment |-> <<>>, leading |-> <<>>, trailing |-> <<>>,
   fragments |-> <<>>, positional |-> <<>>, consumed |-> 0]

-----------------------------------------------------------------------------
(* What the states have in common. fragment += chars, and the state may     *)
(* change; or the fragment is complete.                                    *)

Go(m, state) == [m EXCEPT !.state = state]
Keep(m, state, chars) == [m EXCEPT !.state = state, !.fragment = @ \o chars]
Fail(m) == [m EXCEPT !.status = "error"]

Push(m, type) ==
  [m EXCEPT !.fragments = Append(@, Fragment(type, m.fragment)), !.fragment = <<>>]

\* The presence flags with that of a position set.
Present(positional, n) ==
  [i \in 1..(IF n > Len(positional) THEN n ELSE Len(positional)) |->
     i = n \/ (i <= Len(positional) /\ positional[i])]

Push_positional_parameter(m) ==
  LET n == Position(m.fragment) IN
  IF n \notin 1..MaxParameters THEN Fail(m)
  ELSE [Push(m, "positional_parameter") EXCEPT !.positional = Present(@, n)]

Push_named_parameter(m) ==
  IF Len(m.positional) + Len(Unique_fragments(m.fragments, "named_parameter")) < MaxParameters
  THEN Push(m, "named_parameter") ELSE Fail(m)

\* finish: what the state means at the end of the text or at the semicolon. The
\* semicolon is consumed if the last character is one.
Finish(m) ==
  LET f == CASE m.state = "top" ->
                  IF m.fragment # <<>> THEN Push(m, "text") ELSE m
             [] m.state = "quote_quote" -> Push(Keep(m, "top", <<m.previous>>), "text")
             [] m.state = "one_line_comment" -> Push(m, "one_line_comment")
             [] m.state = "positional_parameter" -> Push_positional_parameter(m)
             [] m.state = "named_parameter" -> Push_named_parameter(m)
             [] OTHER -> Fail(m)
  IN [f EXCEPT !.status = IF @ = "error" THEN @ ELSE "done",
               !.consumed = IF m.state = "top" /\ m.current = ";" THEN @ + 1 ELSE @]

\* The character after a token is taken into the fragment as it is, whatever it
\* would begin; only a semicolon is noticed.
Plain(m, c) ==
  IF m.status = "error" THEN m ELSE IF c = ";" THEN Finish(m) ELSE Keep(m, m.state, <<c>>)

-----------------------------------------------------------------------------
(* The states.                                                             *)

Top(m, c) ==
  CASE c \in Quotes -> [Keep(m, "quote", <<c>>) EXCEPT !.quote = c]
    [] c = "[" -> [Keep(m, "bracket", <<c>>) EXCEPT !.depth = 1]
    [] c = "$" /\ ~IsIdent(m.previous) -> Go(m, "dollar")
    [] c = ":" /\ m.previous # ":" -> Go(m, "colon")
    [] c = "-" -> Go(m, "dash")
    [] c = "/" -> Go(m, "slash")
    [] c = ";" -> Finish(m)
    [] OTHER -> Keep(m, "top", <<c>>)

Bracket(m, c) ==
  LET depth == m.depth + (CASE c = "]" -> -1 [] c = "[" -> 1 [] OTHER -> 0) IN
  [Keep(m, IF depth = 0 THEN "top" ELSE "bracket", <<c>>) EXCEPT !.depth = depth]

Dollar(m, c) ==
  CASE c \in Digits -> Keep(Push(m, "text"), "positional_parameter", <<c>>)
    [] c = "$" -> Keep(m, "dollar_quote", <<"$", c>>)
    [] c \in Letters -> [Keep(m, "dollar_quote_leading_tag", <<"$", c>>) EXCEPT
                           !.leading = Append(@, c)]
    [] OTHER -> Keep(m, "top", <<"$", c>>)

Positional_parameter(m, c) ==
  IF c \in Digits THEN Keep(m, m.state, <<c>>)
  ELSE Plain(Go(Push_positional_parameter(m), "top"), c)

Dollar_quote_leading_tag(m, c) ==
  CASE c = "$" -> Keep(m, "dollar_quote", <<c>>)
    [] IsIdent(c) /\ c # "$" -> [Keep(m, m.state, <<c>>) EXCEPT !.leading = Append(@, c)]
    [] OTHER -> Fail(m)

Dollar_quote(m, c) == Keep(m, IF c = "$" THEN "dollar_quote_dollar" ELSE m.state, <<c>>)

\* The dollar that closes a tag that is not the leading one opens none.
Dollar_quote_dollar(m, c) ==
  IF c # "$" THEN [Keep(m, m.state, <<c>>) EXCEPT !.trailing = Append(@, c)]
  ELSE IF m.leading = m.trailing
       THEN [Keep(m, "top", <<c>>) EXCEPT !.leading = <<>>, !.trailing = <<>>]
       ELSE [Keep(m, "dollar_quote", <<c>>) EXCEPT !.trailing = <<>>]

Colon(m, c) ==
  IF IsIdent(c) THEN Plain(Go(Push(m, "text"), "named_parameter"), c)
  ELSE Plain(Keep(m, "top", <<":">>), c)

Named_parameter(m, c) ==
  IF IsIdent(c) THEN Keep(m, m.state, <<c>>)
  ELSE Plain(Go(Push_named_parameter(m), "top"), c)

Quote(m, c) == IF c = m.quote THEN Go(m, "quote_quote") ELSE Keep(m, m.state, <<c>>)

\* Of two adjacent quotes in a literal one is kept.
Quote_quote(m, c) ==
  IF c = m.quote THEN Keep(m, "quote", <<c>>) ELSE Plain(Keep(m, "top", <<m.quote>>), c)

Dash(m, c) ==
  IF c = "-" THEN Go(Push(m, "text"), "one_line_comment")
  ELSE Plain(Keep(m, "top", <<"-">>), c)

One_line_comment(m, c) ==
  IF c # "\n" THEN Keep(m, m.state, <<c>>)
  ELSE LET f == m.fragment
           chomped == IF f # <<>> /\ Last(f) = "\r" THEN Front(f) ELSE f
       IN Push([Go(m, "top") EXCEPT !.fragment = chomped], "one_line_comment")

\* The character after a slash is not looked at, not even for a semicolon.
Slash(m, c) ==
  CASE c = "*" /\ m.depth > 0 -> [Keep(m, "multi_line_comment", <<"/", c>>) EXCEPT !.depth = @ + 1]
    [] c = "*" /\ m.depth = 0 -> [Go(Push(m, "text"), "multi_line_comment") EXCEPT !.depth = 1]
    [] c # "*" -> Keep(m, IF m.depth = 0 THEN "top" ELSE "multi_line_comment", <<"/", c>>)

Multi_line_comment(m, c) ==
  CASE c = "/" -> Go(m, "slash")
    [] c = "*" -> Go(m, "multi_line_comment_star")
    [] OTHER -> Keep(m, m.state, <<c>>)

Multi_line_comment_star(m, c) ==
  CASE c # "/" -> Keep(m, "multi_line_comment", <<"*", c>>)
    [] c = "/" /\ m.depth = 1 -> [Push(Go(m, "top"), "multi_line_comment") EXCEPT !.depth = 0]
    [] c = "/" /\ m.depth > 1 -> [Keep(m, "multi_line_comment", <<"*", c>>) EXCEPT !.depth = @ - 1]

\* What the character does in the state.
Interpreted(m, c) ==
  CASE m.state = "top" -> Top(m, c)
    [] m.state = "bracket" -> Bracket(m, c)
    [] m.state = "dollar" -> Dollar(m, c)
    [] m.state = "positional_parameter" -> Positional_parameter(m, c)
    [] m.state = "dollar_quote_leading_tag" -> Dollar_quote_leading_tag(m, c)
    [] m.state = "dollar_quote" -> Dollar_quote(m, c)
    [] m.state = "dollar_quote_dollar" -> Dollar_quote_dollar(m, c)
    [] m.state = "colon" -> Colon(m, c)
    [] m.state = "named_parameter" -> Named_parameter(m, c)
    [] m.state = "quote" -> Quote(m, c)
    [] m.state = "quote_quote" -> Quote_quote(m, c)
    [] m.state = "dash" -> Dash(m, c)
    [] m.state = "one_line_comment" -> One_line_comment(m, c)
    [] m.state = "slash" -> Slash(m, c)
    [] m.state = "multi_line_comment" -> Multi_line_comment(m, c)
    [] m.state = "multi_line_comment_star" -> Multi_line_comment_star(m, c)

\* One iteration of the loop over the text.
Step(m, c) ==
  LET Advanced(after) ==
        IF after.status = "reading" THEN [after EXCEPT !.previous = c, !.consumed = @ + 1] ELSE after
  IN Advanced(Interpreted([m EXCEPT !.current = c], c))

Finished(m) == IF m.status = "reading" THEN Finish(m) ELSE m

Parse(text) ==
  Finished(FoldLeft(LAMBDA m, c : IF m.status = "reading" THEN Step(m, c) ELSE m, Start, text))

-----------------------------------------------------------------------------
(* Generation.                                                             *)

To_string(fragments) ==
  FlattenSeq([i \in DOMAIN fragments |->
    LET f == fragments[i] IN
    CASE f.type = "text" -> f.str
      [] f.type = "one_line_comment" -> <<"-", "-">> \o f.str \o <<"\n">>
      [] f.type = "multi_line_comment" -> <<"/", "*">> \o f.str \o <<"*", "/">>
      [] f.type = "named_parameter" -> <<":">> \o f.str
      [] f.type = "positional_parameter" -> <<"$">> \o f.str])

-----------------------------------------------------------------------------
(* The tokens of an SQL text, said by position and without a machine: what *)
(* the preparser has to agree with.                                        *)

\* The first of some positions, or 0.
First(positions) == IF positions = {} THEN 0 ELSE Min(positions)

At(t, i, chars) ==
  i \in 1..(Len(t) - Len(chars) + 1) /\ SubSeq(t, i, i + Len(chars) - 1) = chars

Before(t, i) == IF i = 1 THEN "" ELSE t[i - 1]

\* The end of the run of characters of a set that begins at i, or i - 1.
RunEnd(t, i, set) ==
  Min({j \in i..Len(t) : t[j] \notin set} \union {Len(t) + 1}) - 1

\* Comments nest, brackets too.
CommentEnd(t, i) ==
  LET close[j \in 1..(Len(t) + 2), d \in 0..Len(t)] ==
        CASE j >= Len(t) -> 0
          [] At(t, j, <<"/", "*">>) -> close[j + 2, d + 1]
          [] At(t, j, <<"*", "/">>) -> IF d = 1 THEN j + 1 ELSE close[j + 2, d - 1]
          [] OTHER -> close[j + 1, d]
  IN close[i, 0]

BracketEnd(t, i) ==
  LET Count(c, j) == Cardinality({k \in i..j : t[k] = c}) IN
  First({j \in i..Len(t) : Count("[", j) = Count("]", j)})

TokenType(t, i) ==
  LET tag == RunEnd(t, i + 1, Letters \union Digits)
      begins == ~IsIdent(Before(t, i))
  IN
  CASE t[i] \in Quotes -> "literal"
    [] At(t, i, <<"-", "-">>) -> "one_line_comment"
    [] At(t, i, <<"/", "*">>) -> "multi_line_comment"
    [] t[i] = "[" -> "bracket"
    [] t[i] = ";" -> "end"
    [] t[i] = ":" /\ Before(t, i) # ":" /\ RunEnd(t, i + 1, {"$"} \union Letters \union Digits) > i ->
         "named_parameter"
    [] t[i] = "$" /\ begins /\ RunEnd(t, i + 1, Digits) > i -> "positional_parameter"
    [] t[i] = "$" /\ begins /\ (tag > i \/ At(t, i + 1, <<"$">>)) -> "dollar_literal"
    [] OTHER -> "char"

\* The last position of a token of the type that begins at i, or 0 if it does not end.
TokenEnd(t, i, type) ==
  CASE type = "literal" -> First({j \in (i + 1)..Len(t) : t[j] = t[i]})
    [] type = "one_line_comment" -> Min({j \in i..Len(t) : t[j] = "\n" \/ j = Len(t)})
    [] type = "multi_line_comment" -> CommentEnd(t, i)
    [] type = "bracket" -> BracketEnd(t, i)
    [] type = "named_parameter" -> RunEnd(t, i + 1, {"$"} \union Letters \union Digits)
    [] type = "positional_parameter" -> RunEnd(t, i + 1, Digits)
    [] type = "dollar_literal" ->
         LET open == RunEnd(t, i + 1, Letters \union Digits) + 1
             tag == SubSeq(t, i, open)
             close == First({j \in (open + 1)..Len(t) : At(t, j, tag)})
         IN IF ~At(t, open, <<"$">>) \/ close = 0 THEN 0 ELSE close + Len(tag) - 1
    [] OTHER -> i

Token(t, i, type) == [type |-> type, from |-> i, to |-> TokenEnd(t, i, type)]

\* The tokens up to the end, or up to one that does not end.
Tokens(t) ==
  LET lex[i \in 1..(Len(t) + 1)] ==
        LET From(k) == <<k>> \o IF k.type = "end" \/ k.to = 0 THEN <<>> ELSE lex[k.to + 1]
        IN IF i > Len(t) THEN <<>> ELSE From(Token(t, i, TokenType(t, i)))
  IN lex[1]

Special == Quotes \union {"[", "$", ":", "-", "/"}

\* What may stand around a token is looked at by the code in the plain cases only:
\* nothing that begins a token follows a literal, a parameter, or a sign that could
\* have begun one; nothing in a comment or a dollar quoted literal looks like a part
\* of its end; positions are in their range.
SeparatedToken(t, k) ==
  /\ k.to # 0
  /\ \/ k.type \in {"literal", "named_parameter", "positional_parameter"}
     \/ k.type = "char" /\ t[k.from] \in Special
     => k.to = Len(t) \/ t[k.to + 1] \notin Special
  /\ k.type = "char" /\ t[k.from] \in {"/", "$"} => k.to < Len(t) /\ t[k.to + 1] # ";"
  /\ k.type = "char" /\ t[k.from] \in {"-", ":"} => k.to < Len(t)
  /\ k.type = "positional_parameter" =>
       Position(SubSeq(t, k.from + 1, k.to)) \in 1..MaxParameters
  /\ k.type = "multi_line_comment" => \A j \in (k.from + 2)..(k.to - 2) : t[j] \notin {"*", "/"}
  /\ k.type = "dollar_literal" => Cardinality({j \in k.from..k.to : t[j] = "$"}) = 4

Separated(t) == \A k \in ToSet(Tokens(t)) : SeparatedToken(t, k)

\* The parameters and the comments of a text in their order.
Kinds == {"named_parameter", "positional_parameter", "one_line_comment", "multi_line_comment"}

OfKinds(tokens) ==
  SelectSeq([n \in DOMAIN tokens |-> tokens[n].type], LAMBDA type : type \in Kinds)
Parts(t) == OfKinds(Tokens(t))
=============================================================================
