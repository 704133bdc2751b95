----------------------------- MODULE Utilities -----------------------------
(***************************************************************************)
(* The string helpers of src/str, and the configuration file of src/cfg    *)
(* that is read with them. Texts are sequences of characters, positions    *)
(* are counted from one; npos is the position past the end.                *)
(*                                                                         *)
(* src/progpar: the command line of a program, options, with or without a  *)
(* value, and then arguments. An argument of main() is a sequence of       *)
(* characters, a value that is not there is the empty set.                 *)
(*                                                                         *)
(* src/math: intervals, and sizes that are aligned, in an unsigned type    *)
(* that has Width values.                                                  *)
(***************************************************************************)
EXTENDS Integers, SequencesExt

Space == {" ", "\t", "\n", "\r"}
Digit == {"0", "1", "2", "3", "4", "5", "6", "7", "8", "9"}
Letter == {"a", "b", "c", "k"}

is_simple_identifier_character(c) == c \in Letter \union Digit \union {"_"}

\* The first position from pos on of a character with the property, or npos.
Find(str, pos, Test(_)) ==
  LET found == {i \in pos..Len(str) : Test(str[i])}
  IN IF found = {} THEN Len(str) + 1 ELSE Min(found)

position_of_non_space(str, pos) == Find(str, pos, LAMBDA c : c \notin Space)

trim(str) ==
  LET ink == {i \in DOMAIN str : str[i] \notin Space}
  IN IF ink = {} THEN <<>> ELSE SubSeq(str, Min(ink), Max(ink))

\* split(): a separator at the end is followed by an empty part, nothing is not.
split(input, separators) ==
  LET parts[offset \in 1..(Len(input) + 1)] ==
        LET end == Find(input, offset, LAMBDA c : c \in separators)
            part == SubSeq(input, offset, end - 1)
        IN IF end > Len(input) THEN <<part>>
           ELSE IF end = Len(input) THEN <<part, <<>>>> ELSE <<part>> \o parts[end + 1]
  IN IF input = <<>> THEN <<>> ELSE parts[1]

\* to_string() of a sequence: the separator behind the last element is taken back.
to_string(cont, sep) ==
  LET all == FlattenSeq([i \in DOMAIN cont |-> cont[i] \o sep])
  IN SubSeq(all, 1, Len(all) - (IF cont = <<>> THEN 0 ELSE Len(sep)))

sparsed_string(input, delimiter) ==
  FlattenSeq([i \in DOMAIN input |-> IF i < Len(input) THEN <<input[i]>> \o delimiter ELSE <<input[i]>>])

\* getline() until the end: what follows the last delimiter is a line if there is any.
to_strings(input, delimiter) ==
  LET lines == split(input, {delimiter})
  IN IF lines # <<>> /\ Last(lines) = <<>> THEN Front(lines) ELSE lines

line_number_by_position(str, pos) == Cardinality({i \in 1..(pos - 1) : str[i] = "\n"})

\* The line and the column of a position, counted from zero.
line_column_numbers_by_position(str, pos) ==
  FoldLeft(LAMBDA at, c : IF c = "\n" THEN <<at[1] + 1, 0>> ELSE <<at[1], at[2] + 1>>,
           <<0, 0>>, SubSeq(str, 1, pos - 1))

-----------------------------------------------------------------------------
(* Quoted texts.                                                           *)

Read(text, pos) == [what |-> "read", text |-> text, pos |-> pos]
Thrown == [what |-> "thrown", text |-> <<>>, pos |-> 0]

substring_if(str, pos, Test(_)) ==
  LET end == Find(str, pos, LAMBDA c : ~Test(c))
  IN Read(SubSeq(str, pos, end - 1), end)

substring_if_simple_identifier(str, pos) ==
  IF pos <= Len(str) /\ str[pos] \in Letter
  THEN substring_if(str, pos, is_simple_identifier_character) ELSE Read(<<>>, pos)

substring_if_no_spaces(str, pos) == substring_if(str, pos, LAMBDA c : c \notin Space)

\* One character of a quoted text; an escape that escapes no quote is kept.
Quoted_character(m, ch, quote) ==
  CASE m.state = "closed" -> m
    [] m.state = "normal" /\ ch = quote -> [m EXCEPT !.state = "closed", !.pos = @ + 1]
    [] m.state = "normal" /\ ch = "\\" -> [m EXCEPT !.state = "escape", !.pos = @ + 1]
    [] m.state = "normal" /\ ch \notin {quote, "\\"} ->
         [m EXCEPT !.text = Append(@, ch), !.pos = @ + 1]
    [] m.state = "escape" ->
         [state |-> "normal", pos |-> m.pos + 1,
          text |-> m.text \o IF ch = quote THEN <<ch>> ELSE <<"\\", ch>>]

\* Mutant: a quote behind an escape ends the text.
Quoted_part_unescaped(str, pos, quote) ==
  FoldLeft(LAMBDA m, ch : Quoted_character([m EXCEPT !.state = IF @ = "escape" /\ ch = quote THEN "normal" ELSE @], ch, quote),
           [state |-> "normal", text |-> <<>>, pos |-> pos], SubSeq(str, pos, Len(str)))

Quoted_part(str, pos, quote) ==
  FoldLeft(LAMBDA m, ch : Quoted_character(m, ch, quote),
           [state |-> "normal", text |-> <<>>, pos |-> pos], SubSeq(str, pos, Len(str)))

\* unquoted_substring(): a text without its closing quote is refused, but when its last
\* character is a quote; the position is then past the end.
unquoted_substring(str, pos) ==
  IF pos > Len(str) THEN Read(<<>>, pos)
  ELSE IF str[pos] # "'" THEN substring_if_no_spaces(str, pos)
  ELSE LET m == Quoted_part(str, pos + 1, "'") IN
       IF m.state = "closed" THEN Read(m.text, m.pos)
       ELSE IF Last(str) # "'" THEN Thrown ELSE Read(m.text, Len(str) + 2)

\* Simple_phrase: the stream is given back the space or the quote that ends a phrase. The
\* character read last, not the state, tells whether the closing quote was found.
Simple_phrase(input) ==
  LET pos == position_of_non_space(input, 1)
      m == Quoted_part(input, pos + 1, "\"")
      end == Find(input, pos + 1, LAMBDA c : c \in Space \union {"\""})
  IN
  IF pos > Len(input) THEN Read(<<>>, pos)
  ELSE IF input[pos] # "\"" THEN Read(SubSeq(input, pos, end - 1), end)
  ELSE IF m.state = "closed" \/ Last(input) = "\"" THEN Read(m.text, m.pos) ELSE Thrown

-----------------------------------------------------------------------------
(* The configuration file.                                                 *)

Entry(param, value) == [what |-> "read", param |-> param, value |-> value]
Refused(what) == [what |-> what, param |-> <<>>, value |-> <<>>]

\* The value of an entry, read at the position. An empty text in quotes fails the assertion.
Valued_entry(line, param, value) ==
  IF value.what = "thrown" THEN Refused("thrown")
  ELSE IF value.text = <<>> THEN Refused("terminated")
  ELSE IF position_of_non_space(line, value.pos) <= Len(line) THEN Refused("thrown")
  ELSE Entry(param, value.text)

\* What follows the name: the equals sign is at the position.
Assigned_entry(line, param, assign) ==
  LET pos == position_of_non_space(line, assign + 1) IN
  IF assign > Len(line) \/ line[assign] # "=" THEN Refused("thrown")
  ELSE IF pos > Len(line) THEN Entry(param, <<>>)
  ELSE Valued_entry(line, param, unquoted_substring(line, pos))

Named_entry(line, name) ==
  IF name.pos > Len(line) \/ name.text = <<>> \/ line[name.pos] \notin Space \union {"="} THEN Refused("thrown")
  ELSE Assigned_entry(line, name.text, position_of_non_space(line, name.pos))

\* parsed_config_entry() of a line that is neither blank nor a comment.
parsed_config_entry(line) ==
  Named_entry(line, substring_if_simple_identifier(line, position_of_non_space(line, 1)))

is_nor_empty_nor_commented(line) ==
  LET pos == position_of_non_space(line, 1) IN pos <= Len(line) /\ line[pos] # "#"

\* The first entry of a name counts, the first line that is refused ends the reading.
Insert(m, entry) ==
  IF m.what # "read" THEN m
  ELSE IF entry.what # "read" THEN [m EXCEPT !.what = entry.what]
  ELSE IF entry.param \in DOMAIN m.parameters THEN m
  ELSE [m EXCEPT !.parameters = (entry.param :> entry.value) @@ @]

parsed_config(input) ==
  LET lines == SelectSeq(to_strings(input, "\n"), is_nor_empty_nor_commented)
  IN FoldLeft(Insert, [what |-> "read", parameters |-> <<>>], [i \in DOMAIN lines |-> parsed_config_entry(lines[i])])

\* string_parameter(): what there is of the name.
string_parameter(parameters, name) == IF name \in DOMAIN parameters THEN {parameters[name]} ELSE {}

\* boolean_parameter(): a word that is neither true nor false throws.
Yes == {<<"y">>, <<"y", "e", "s">>, <<"t">>, <<"t", "r", "u", "e">>, <<"1">>}
No == {<<"n">>, <<"n", "o">>, <<"f">>, <<"f", "a", "l", "s", "e">>, <<"0">>}
boolean_parameter(parameters, name) ==
  LET value == string_parameter(parameters, name) IN
  CASE value = {} -> "none"
    [] value # {} /\ value \subseteq Yes -> "true"
    [] value # {} /\ value \subseteq No -> "false"
    [] OTHER -> "thrown"

-----------------------------------------------------------------------------
(* What a text says.                                                       *)

\* A quote at the position closes a quoted text that begins with the text: an even number
\* of escapes stands before it.
Closes(str, i, quote) ==
  /\ str[i] = quote
  /\ \E n \in 0..(i - 1) :
       n % 2 = 0 /\ (i = n + 1 \/ str[i - n - 1] # "\\") /\ \A j \in (i - n)..(i - 1) : str[j] = "\\"

\* The text that is written between quotes as the given one, which does not end within an
\* escape.
Meant(str, quote) ==
  LET Escaped(i) == str[i] = "\\" /\ i < Len(str) /\ str[i + 1] = quote /\ Closes(Append(SubSeq(str, 1, i - 1), quote), i, quote)
  IN FlattenSeq([i \in DOMAIN str |-> IF Escaped(i) THEN <<>> ELSE <<str[i]>>])

\* The text is one of the helpers' arguments: the parts joined are the text, the lines and
\* columns lead to the position, a trimmed text has no space around it.
HelpersAgree(text) ==
  LET parts == split(text, {" "})
      lines == to_strings(text, "\n")
      trimmed == trim(text)
  IN
  /\ to_string(parts, <<" ">>) = text /\ \A i \in DOMAIN parts : " " \notin ToSet(parts[i])
  /\ to_string(lines, <<"\n">>) \o (IF text # <<>> /\ Last(text) = "\n" THEN <<"\n">> ELSE <<>>) = text
  /\ \A pos \in DOMAIN text :
       LET at == line_column_numbers_by_position(text, pos) IN
       /\ at[1] = line_number_by_position(text, pos)
       /\ pos = FoldLeft(LAMBDA n, line : n + Len(line) + 1, 0, SubSeq(split(text, {"\n"}), 1, at[1])) + at[2] + 1
  /\ \E i \in 1..(Len(text) + 1), j \in 0..Len(text) : trimmed = SubSeq(text, i, j)
  /\ trimmed # <<>> => Head(trimmed) \notin Space /\ Last(trimmed) \notin Space
  /\ SelectSeq(trimmed, LAMBDA c : c \notin Space) = SelectSeq(text, LAMBDA c : c \notin Space)
  /\ text # <<>> => split(sparsed_string(text, <<",">>), {","}) = [i \in DOMAIN text |-> <<text[i]>>]

\* A text in quotes is read up to its closing quote, and its escaped quotes are quotes;
\* one without a closing quote is refused, unless it ends with a quote.
QuotesRead(text) ==
  LET Closed(quote) == {i \in 1..(Len(text) - 1) : Closes(Tail(text), i, quote)}
      Agrees(result, quote) ==
        IF Closed(quote) # {}
        THEN LET i == Min(Closed(quote)) IN
             result = Read(Meant(SubSeq(text, 2, i), quote), i + 2)
        ELSE Last(text) # quote => result = Thrown
  IN
  /\ text # <<>> /\ Head(text) = "'" => Agrees(unquoted_substring(text, 1), "'")
  /\ text # <<>> /\ Head(text) = "\"" => Agrees(Simple_phrase(text), "\"")

\* A line is an entry exactly if it is a name, an equals sign and a word, a text in quotes
\* or nothing, with spaces around them; but a quote left open before a quote at the end is
\* taken for closed, and an empty text in quotes terminates the program.
EntryRead(line) ==
  LET Blank(i, j) == ToSet(SubSeq(line, i, j)) \subseteq Space
      Name(i, j) == i <= j /\ line[i] \in Letter /\ \A k \in i..j : is_simple_identifier_character(line[k])
      Quotes(i, j) == i < j /\ line[i] = "'" /\ Closes(SubSeq(line, i + 1, j), j - i, "'")
                        /\ \A k \in (i + 1)..(j - 1) : ~Closes(SubSeq(line, i + 1, k), k - i, "'")
      Word(i, j) == i <= j /\ line[i] # "'" /\ ToSet(SubSeq(line, i, j)) \intersect Space = {}
      Value(i, j) == IF Quotes(i, j) THEN Meant(SubSeq(line, i + 1, j - 1), "'") ELSE SubSeq(line, i, j)
      names == {n \in (1..Len(line)) \X (1..Len(line)) : Blank(1, n[1] - 1) /\ Name(n[1], n[2])}
      Signs(n) == {k \in (n[2] + 1)..Len(line) : line[k] = "=" /\ Blank(n[2] + 1, k - 1)}
      Values(k) ==
        {v \in ((k + 1)..(Len(line) + 1)) \X (k..Len(line)) :
           /\ Blank(k + 1, v[1] - 1) /\ Blank(v[2] + 1, Len(line))
           /\ Quotes(v[1], v[2]) \/ Word(v[1], v[2]) \/ v[1] = Len(line) + 1}
      meanings ==
        UNION {UNION {{Entry(SubSeq(line, n[1], n[2]), Value(v[1], v[2])) : v \in Values(k)} :
                 k \in Signs(n)} : n \in names}
      result == parsed_config_entry(line)
  IN
  is_nor_empty_nor_commented(line) =>
    \/ result.what = "read" /\ meanings = {result}
    \/ result.what = "thrown" /\ meanings = {}
    \/ result.what = "terminated" /\ \E i \in 1..(Len(line) - 1) : line[i] = "'" /\ line[i + 1] = "'"
    \/ meanings = {} /\ Last(line) = "'"

\* A file is what its lines are, one after the other, and each name has the text and the
\* truth of the first line that names it.
ConfigRead(lines) ==
  LET Earlier(i, name) == \E j \in 1..(i - 1) : parsed_config_entry(lines[j]).param = name
      Kept(parameters, i, entry) ==
        /\ entry.param \in DOMAIN parameters
        /\ Earlier(i, entry.param) \/ string_parameter(parameters, entry.param) = {entry.value}
        /\ Earlier(i, entry.param) \/ (boolean_parameter(parameters, entry.param) = "true" <=> entry.value \in Yes)
      Result_read(result) ==
        result.what = "read" =>
          \A i \in {i \in DOMAIN lines : is_nor_empty_nor_commented(lines[i])} :
            Kept(result.parameters, i, parsed_config_entry(lines[i]))
  IN Result_read(parsed_config(to_string(lines, <<"\n">>)))

-----------------------------------------------------------------------------
(* The command line.                                                       *)

Option(arg) ==
  LET signs == {i \in 3..Len(arg) : arg[i] = "="} IN
  IF signs = {} THEN [name |-> SubSeq(arg, 3, Len(arg)), value |-> {}]
  ELSE [name |-> SubSeq(arg, 3, Min(signs) - 1), value |-> {SubSeq(arg, Min(signs) + 1, Len(arg))}]

\* opt() has a value for the arguments that begin with two dashes.
IsOption(arg) == IsPrefix(<<"-", "-">>, arg)

\* The last option of the name counts; an option without a name ends the options, and is
\* not an argument, as "--".
Collect(m, arg) ==
  IF m.collecting /\ IsOption(arg)
  THEN IF Option(arg).name = <<>> THEN [m EXCEPT !.collecting = FALSE]
       ELSE [m EXCEPT !.options = (Option(arg).name :> Option(arg).value) @@ @]
  ELSE [m EXCEPT !.collecting = FALSE, !.arguments = Append(@, arg)]

Program_parameters(args) ==
  FoldLeft(Collect, [collecting |-> TRUE, options |-> <<>>, arguments |-> <<>>], args)

\* option() of a name: the reference is valid if there is such an option.
Optref(parameters, name) ==
  IF name \in DOMAIN parameters.options
  THEN [valid |-> TRUE, value |-> parameters.options[name]] ELSE [valid |-> FALSE, value |-> {}]

\* What an accessor throws, or else "returned" with what.
Result(value) == [what |-> "returned", value |-> value]
throw_error(errc) == [what |-> errc, value |-> {}]

value(ref) == IF ref.valid THEN Result(ref.value) ELSE throw_error("option_not_specified")

not_null_value(ref) ==
  IF value(ref).what = "returned" /\ ref.value = {} THEN throw_error("option_without_value") ELSE value(ref)

not_empty_value(ref) ==
  IF not_null_value(ref).what = "returned" /\ ref.value = {<<>>}
  THEN throw_error("option_with_empty_value") ELSE not_null_value(ref)

check_no_value(ref) ==
  IF ref.valid /\ ref.value # {} THEN throw_error("option_with_value") ELSE Result({ref.valid})

check_value(ref) ==
  IF ref.valid /\ ref.value = {} THEN throw_error("option_without_value") ELSE Result({ref.valid})

-----------------------------------------------------------------------------

\* The command line is options and then arguments, or "--" between them. Nothing is lost
\* but what a later option of the name replaces, and a valueless name: each option is one
\* of the command line's, the last of its name, and stands before the arguments; and the
\* checks of an option agree with each other.
ParametersRead(args) ==
  LET parameters == Program_parameters(args)
      Ends(i) == IsOption(args[i]) => Option(args[i]).name = <<>>
      \* Where the options end.
      end == Min({i \in DOMAIN args : Ends(i)} \union {Len(args) + 1})
      begin == IF end <= Len(args) /\ IsOption(args[end]) THEN end + 1 ELSE end
  IN
  /\ parameters.arguments = SubSeq(args, begin, Len(args))
  /\ DOMAIN parameters.options = {Option(args[i]).name : i \in 1..(end - 1)}
  /\ \A i \in 1..(end - 1) :
       LET ref == Optref(parameters, Option(args[i]).name)
           Later == {j \in (i + 1)..(end - 1) : Option(args[j]).name = Option(args[i]).name}
           values == {check_no_value(ref), check_value(ref)}
       IN
       /\ Later = {} => ref.value = Option(args[i]).value
       /\ \E r \in values : r = Result({TRUE}) /\ values # {r}
       /\ check_value(ref).what = not_null_value(ref).what
       /\ not_empty_value(ref).what = "returned" =>
            <<"-", "-">> \o Option(args[i]).name \o <<"=">> \o (CHOOSE v \in ref.value : TRUE) \in ToSet(args)

-----------------------------------------------------------------------------
(* src/math.                                                               *)

Width == 16  \* stands for 2^32 and 2^64
Wrapped(n) == n % Width

\* The operator & of the language, on numbers of that width.
And(m, n) ==
  LET Bit(x, k) == (x \div 2 ^ k) % 2
  IN  MapThenSumSet(LAMBDA k : 2 ^ k * Bit(m, k) * Bit(n, k), 0..3)

IntervalType == {"closed", "open", "lopen", "ropen"}

\* Interval(type, min, max): {} if an argument is refused.
Interval(type, min, max) ==
  IF (type = "closed" /\ min <= max) \/ (type # "closed" /\ min < max)
  THEN {[type |-> type, min |-> min, max |-> max]} ELSE {}

Has(interval, v) ==
  CASE interval.type = "closed" -> interval.min <= v /\ v <= interval.max
    [] interval.type = "open" -> interval.min < v /\ v < interval.max
    [] interval.type = "lopen" -> interval.min < v /\ v <= interval.max
    [] OTHER -> interval.min <= v /\ v < interval.max

\* release(): the limits, and what is left.
Release(interval) == [limits |-> <<interval.min, interval.max>>, left |-> [type |-> "closed", min |-> 0, max |-> 0]]

Is_power_of_two(number) == And(number, Wrapped(number - 1)) = 0

\* padding() and aligned(): -1 if the alignment is refused.
Padding(size, alignment) ==
  IF Is_power_of_two(alignment) THEN And(Wrapped(0 - size), Wrapped(alignment - 1)) ELSE -1
Aligned(size, alignment) ==
  IF Is_power_of_two(alignment)
  THEN And(Wrapped(size + Wrapped(alignment - 1)), Wrapped(0 - alignment)) ELSE -1

\* An interval is made exactly if it may have a value; it has its limits, or not, as its
\* type says, and what is between them, and is made again of what is released.
IntervalKept(type, min, max) ==
  /\ Interval(type, min, max) = {} <=> (IF type = "closed" THEN max < min ELSE max <= min)
  /\ \A interval \in Interval(type, min, max) :
       /\ Interval(type, Release(interval).limits[1], Release(interval).limits[2]) = {interval}
       /\ {v \in (min - 1)..(max + 1) : Has(interval, v)} \union {min, max} = min..max
       /\ Has(interval, min) <=> type \in {"closed", "ropen"}
       /\ Has(interval, max) <=> type \in {"closed", "lopen"}

\* What is aligned is the next multiple of the alignment, and what the padding makes of the
\* size, unless the type cannot hold it: then it is zero. An alignment of zero is taken for
\* a power of two.
SizesAligned(size, alignment) ==
  LET powers == {2 ^ k : k \in 0..3}
      multiples == {n \in size..Width : n % alignment = 0}
      next == CHOOSE n \in multiples : \A m \in multiples : n <= m
  IN
  /\ Aligned(size, alignment) = -1 <=> alignment \notin powers \union {0}
  /\ Aligned(size, alignment) = -1 <=> Padding(size, alignment) = -1
  /\ alignment \in powers => /\ size + Padding(size, alignment) = next
                             /\ Aligned(size, alignment) = Wrapped(next)
=============================================================================
