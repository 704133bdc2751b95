----------------------------- MODULE Conversions -----------------------------
(***************************************************************************)
(* The conversions between the types of C++ and the data of a server, of   *)
(* src/pgfe, arrays included, and the values of JSON, of src/rajson. The   *)
(* integers are narrow: their bytes have ByteBase values, their sizes are  *)
(* of SizeOf.                                                              *)
(***************************************************************************)
EXTENDS Integers, SequencesExt

CONSTANT ByteBase  \* values of a byte

\* The order of the bytes in the memory of the host.
Endianness == {"little", "big"}

\* The types of each library have the same sizes: short is int8_t, and so on.
SizeOf == [short |-> 1, int |-> 2, long |-> 3, unsigned |-> 2]
NumericType == DOMAIN SizeOf
Width(type) == ByteBase ^ SizeOf[type]
MinOf(type) == IF type = "unsigned" THEN 0 ELSE -(Width(type) \div 2)
MaxOf(type) == MinOf(type) + Width(type) - 1
InRange(type, n) == MinOf(type) <= n /\ n <= MaxOf(type)
ValuesOf(type) == MinOf(type)..MaxOf(type)

\* What is returned, or thrown.
Value(v) == [what |-> "value", value |-> v]
Exception == [what |-> "exception", value |-> 0]

-----------------------------------------------------------------------------
(* Data in the binary format.                                              *)

\* Bytes in the network byte order.
BytesOf(n, size) == [i \in 1..size |-> (n \div (ByteBase ^ (size - i))) % ByteBase]

\* The number in the memory of the host.
NumberIn(endian, type, memory) ==
  LET size == Len(memory)
      Weight(i) == ByteBase ^ (IF endian = "little" THEN i - 1 ELSE size - i)
      n == FoldLeft(LAMBDA sum, i : sum + memory[i] * Weight(i), 0, [i \in 1..size |-> i])
  IN IF n > MaxOf(type) THEN n - Width(type) ELSE n

\* net::copy(): the first byte comes to the end that is the most significant on a host
\* that is little-endian.
Copy(endian, size, src) ==
  [i \in 1..size |->
     LET j == IF endian = "little" THEN size + 1 - i ELSE i - (size - Len(src)) IN
     IF j \in DOMAIN src THEN src[j] ELSE 0]

Conv(endian, type, bytes) ==
  IF Len(bytes) > SizeOf[type] THEN Exception
  ELSE Value(NumberIn(endian, type, Copy(endian, SizeOf[type], bytes)))

-----------------------------------------------------------------------------
(* Data in the text format.                                                *)

Digits == <<"0", "1", "2", "3", "4", "5", "6", "7", "8", "9">>
IsDigit(c) == c \in ToSet(Digits)
DigitOf(c) == (CHOOSE i \in DOMAIN Digits : Digits[i] = c) - 1
NumberOf(digits) == FoldLeft(LAMBDA n, c : 10 * n + DigitOf(c), 0, digits)

\* std::to_string() and operator<<, of what has two digits at most.
To_string(n) ==
  LET m == IF n < 0 THEN -n ELSE n IN
  (IF n < 0 THEN <<"-">> ELSE <<>>)
    \o (IF m < 10 THEN <<>> ELSE <<Digits[m \div 10 + 1]>>) \o <<Digits[(m % 10) + 1]>>

\* How far a property of the symbols goes from a position.
Behind(text, start, P(_)) == Min({i \in start..Len(text) : ~P(text[i])} \union {Len(text) + 1})

\* What std::stoi() and operator>> make of a text: spaces, a sign, digits, and the rest.
IsSpace(c) == c = " "
DigitsFrom(text, start) == SubSeq(text, start, Behind(text, start, IsDigit) - 1)
Number(text, start, digits, sign) ==
  [digits |-> digits, n |-> sign * NumberOf(digits), blank |-> \A i \in DOMAIN text : IsSpace(text[i]),
   all |-> start + Len(digits) > Len(text)]
ScannedFrom(text, start) ==
  IF start <= Len(text) /\ text[start] \in {"-", "+"}
  THEN Number(text, start + 1, DigitsFrom(text, start + 1), IF text[start] = "-" THEN -1 ELSE 1)
  ELSE Number(text, start, DigitsFrom(text, start), 1)
Scanned(text) == ScannedFrom(text, Behind(text, 1, IsSpace))

\* to_numeric__(): std::stoi() and the others throw if there is no number or the number is
\* out of the range.
To_numeric(type, s) ==
  IF s.digits = <<>> \/ ~InRange(type, s.n) \/ ~s.all THEN Exception ELSE Value(s.n)

\* That of short is that of int, of which only the maximum is compared.
Narrowed(type, n) == ((n - MinOf(type)) % Width(type)) + MinOf(type)
To_short(result) ==
  IF result = Exception \/ result.value > MaxOf("short") THEN Exception
  ELSE Value(Narrowed("short", result.value))

\* The generic conversion asks for the end of the text only: nothing has been written to
\* the result if the text is blank, it is zero if there are no digits, the nearest number
\* if the number is out of the range, and a negative one is negated in the type.
Generic_to_type(type, s) ==
  CASE s.blank -> {Value(n) : n \in ValuesOf(type)}
    [] ~s.blank /\ ~s.all -> {Exception}
    [] OTHER -> {Value(IF s.n \in -MaxOf(type)..MaxOf(type) THEN Narrowed(type, s.n) ELSE MaxOf(type))}

To_type(type, text) ==
  CASE type = "short" -> {To_short(To_numeric("int", Scanned(text)))}
    [] type = "unsigned" -> Generic_to_type(type, Scanned(text))
    [] OTHER -> {To_numeric(type, Scanned(text))}

\* The conversions of bool compare as many characters as the text has.
TrueWords == {<<"t">>, <<"t", "r", "u", "e">>, <<"T", "R", "U", "E">>, <<"y">>, <<"y", "e", "s">>, <<"o", "n">>, <<"1">>}
FalseWords == {<<"f">>, <<"f", "a", "l", "s", "e">>, <<"F", "A", "L", "S", "E">>, <<"n">>, <<"n", "o">>,
               <<"o", "f", "f">>, <<"0">>}
To_bool(text) ==
  CASE \E word \in TrueWords : IsPrefix(text, word) -> Value(TRUE)
    [] (\A word \in TrueWords : ~IsPrefix(text, word)) /\ \E word \in FalseWords : IsPrefix(text, word) -> Value(FALSE)
    [] OTHER -> [what |-> "exception", value |-> FALSE]
Bool_to_string(value) == IF value THEN <<"t">> ELSE <<"f">>

\* The conversions of std::optional; the data is null, or what it holds.
To_optional(type, data) == IF data = <<>> THEN {"nullopt"} ELSE To_type(type, Head(data))

-----------------------------------------------------------------------------
(* Values of JSON: a number is an integer, or "double" with a value that   *)
(* has a fraction, which is zero here, or one beyond what a float has.     *)

Json(kind, number, items) == [kind |-> kind, number |-> number, items |-> items]
JsonNull == Json("null", 0, <<>>)
JsonNumber(n) == Json("number", n, <<>>)
JsonArray(items) == Json("array", 0, items)

\* What is asked for: [of, signed, size, elements]. The sizes are those of uint8_t and
\* int8_t to uint64_t and int64_t.
JsonType(of) == [of |-> of, signed |-> FALSE, size |-> 0, elements |-> "none"]
JsonInteger == [of : {"integer"}, signed : BOOLEAN, size : 1..4, elements : {"none"}]
JsonVector(of, elements) == [of |-> of, signed |-> TRUE, size |-> 1, elements |-> elements]
JsonTypes ==
  JsonInteger \union {JsonType(of) : of \in {"bool", "string", "float", "double"}}
    \union {JsonVector(of, "integer") : of \in {"vector", "vector of optionals"}}

Fits(type, size, n) ==
  LET width == ByteBase ^ size IN
  IF type.signed THEN -(width \div 2) <= n /\ n < width \div 2 ELSE 0 <= n /\ n < width

\* A conversion to a floating point type that has so many bits of a mantissa.
Lossless(n, bits) ==
  LET m == IF n < 0 THEN -n ELSE n IN
  \E k \in 0..10 : m % (2 ^ k) = 0 /\ m \div (2 ^ k) < 2 ^ bits
FloatBits == 3
DoubleBits == 5
IsFloat(value) == \/ value.kind = "double" /\ value.number = 0
                  \/ value.kind = "number" /\ Lossless(value.number, FloatBits)
IsDouble(value) == \/ value.kind = "double"
                   \/ value.kind = "number" /\ Lossless(value.number, DoubleBits)

\* The integers of 32 bits and less are those which rapidjson says are of 32 bits, within
\* the limits of the type.
IsInteger(type, value) ==
  /\ value.kind = "number" /\ Fits(type, IF type.size = 4 THEN 4 ELSE 3, value.number)
  /\ Fits(type, type.size, value.number)

IsScalar(type, value) ==
  CASE type.of = "integer" -> IsInteger(type, value)
    [] type.of = "float" -> IsFloat(value)
    [] type.of = "double" -> IsDouble(value)
    [] OTHER -> value.kind = type.of

\* to(): a vector takes no null, unless it is one of optionals.
Json_to(type, value) ==
  LET Element(item) ==
        \/ type.of = "vector of optionals" /\ item = JsonNull
        \/ IsScalar([type EXCEPT !.of = type.elements], item)
      IsArray == value.kind = "array" /\ \A i \in DOMAIN value.items : Element(value.items[i])
  IN
  IF (IF type.elements = "none" THEN IsScalar(type, value) ELSE IsArray)
  THEN [what |-> "value", value |-> value]
  ELSE [what |-> "exception", value |-> JsonNull]

\* Value_view of an object, which is a sequence of members [name, value]: the first with
\* the name, but none if the name is empty.
Optional_iterator(members, name) ==
  LET found == {i \in DOMAIN members : members[i].name = name} IN
  IF name = <<>> \/ found = {} THEN Len(members) + 1 ELSE Min(found)

\* optional<R>() and mandatory<R>(), without and with an exception for a member that is
\* not there.
Optional(members, name, type) ==
  LET i == Optional_iterator(members, name) IN
  IF i \in DOMAIN members THEN Json_to(type, members[i].value) ELSE [what |-> "nullopt", value |-> JsonNull]
Mandatory(members, name, type) ==
  LET i == Optional_iterator(members, name) IN
  IF i \in DOMAIN members THEN Json_to(type, members[i].value) ELSE [what |-> "absent", value |-> JsonNull]

-----------------------------------------------------------------------------
(* Array literals. An optional is a set of at most one value, a container  *)
(* a sequence of optionals, of strings or of containers. "NULL" is one     *)
(* character.                                                              *)

Nullopt == {}
Opt(value) == {value}
Get(opt) == CHOOSE value \in opt : TRUE
Is_space(c) == c \in {" ", "\t", "\n"}

\* The character at a place, "" behind the last one.
At(literal, pos) == IF pos \in DOMAIN literal THEN literal[pos] ELSE ""
Next_non_space(literal, pos) ==
  Min({i \in pos..(Len(literal) + 1) : i > Len(literal) \/ ~Is_space(literal[i])} \union {Len(literal) + 1})

-----------------------------------------------------------------------------
(* parse_array_literal(): one step per character and state.                *)

Parser(pos, depth) ==
  [state |-> "in_beginning", what |-> "reading", pos |-> pos, dimension |-> 0, depth |-> depth,
   previous |-> "", nonspace |-> "", element |-> <<>>, result |-> <<>>]

Stop(p, what) == [p EXCEPT !.what = what]
Go(p, state) == [p EXCEPT !.state = state]
Dimension(p, by) == [p EXCEPT !.dimension = @ + by]

\* preparing_to_the_next_iteration
Consume(p, c) ==
  [p EXCEPT !.previous = c, !.pos = @ + 1, !.nonspace = IF Is_space(c) THEN @ ELSE c]

\* element_extracted, and Filler_of_deepest_container.
Element_extracted(p, opt) ==
  CASE p.element = <<>> -> Stop(p, "malformed")
    [] p.element # <<>> /\ p.depth > 1 -> Stop(p, "excessive")
    [] OTHER -> [p EXCEPT !.state = "in_dimension", !.element = <<>>, !.result = Append(@, opt)]

In_beginning(p, c) ==
  CASE c = "{" -> Consume(Dimension(Go(p, "in_dimension"), 1), c)
    [] Is_space(c) -> Consume(p, c)
    [] OTHER -> Stop(p, "malformed")

In_dimension(p, c) ==
  CASE Is_space(c) -> Consume(p, c)
    [] c = "," -> IF p.nonspace \in {",", "{"} THEN Stop(p, "malformed") ELSE Consume(p, c)
    [] c = "{" -> Consume(Dimension(p, 1), c)
    [] c = "}" -> IF p.nonspace = "," THEN Stop(p, "malformed")
                  ELSE IF p.dimension = 1 THEN Stop(Consume(p, c), "done")
                  ELSE Consume(Dimension(p, -1), c)
    [] c = "\"" -> Consume(Go(p, "in_quoted_element"), c)
    [] OTHER -> Go(p, "in_unquoted_element")

In_quoted_element(p, c) ==
  CASE c = "\\" /\ p.previous # "\\" -> Consume(p, c)
    [] c = "\"" /\ p.previous # "\\" ->
         LET extracted == Element_extracted(p, Opt(p.element)) IN
         IF extracted.what = "reading" THEN Consume(extracted, c) ELSE extracted
    [] OTHER -> Consume([p EXCEPT !.element = Append(@, c)], c)

\* The character that ends the element is read again.
In_unquoted_element(p, c) ==
  IF c \in {",", "{", "}"}
  THEN Element_extracted(p, IF p.element = <<"NULL">> THEN Nullopt ELSE Opt(p.element))
  ELSE Consume([p EXCEPT !.element = Append(@, c)], c)

Step(p, c) ==
  CASE p.state = "in_beginning" -> In_beginning(p, c)
    [] p.state = "in_dimension" -> In_dimension(p, c)
    [] p.state = "in_quoted_element" -> In_quoted_element(p, c)
    [] p.state = "in_unquoted_element" -> In_unquoted_element(p, c)

Parse_array_literal(literal, from, depth) ==
  LET Iterate(p) ==
        CASE p.what # "reading" -> p
          [] p.what = "reading" /\ p.pos > Len(literal) ->
               Stop(p, IF p.dimension = 0 THEN "done" ELSE "malformed")
          [] OTHER -> Step(p, literal[p.pos])
      \* A character is read twice at most.
      most == 2 * (Len(literal) - from) + 3
      parsed[n \in 0..most] == IF n = 0 THEN Parser(from, depth) ELSE Iterate(parsed[n - 1])
  IN parsed[most]

-----------------------------------------------------------------------------
(* Containers of a depth.                                                  *)

Filled(what, pos, result) == [what |-> what, pos |-> pos, result |-> result]

\* fill_container(): the overload for a container, whose loop over subcontainers is
\* the function Subs here, and the one for what is not a container (depth 0).
Fill_container(literal, depth0) ==
  LET fill[depth \in 0..depth0, from \in 1..(Len(literal) + 2), subs \in BOOLEAN] ==
        LET open == Next_non_space(literal, from)
            sub == Next_non_space(literal, open + 1)
            parsed == Parse_array_literal(literal, open, depth)
            \* One iteration for a subcontainer, and those after it.
            element == fill[depth - 1, from, FALSE]
            then == Next_non_space(literal, element.pos)
            comma == Next_non_space(literal, then + 1)
            rest == fill[depth, IF At(literal, then) = "," THEN comma ELSE then, TRUE]
        IN
        CASE subs /\ element.what # "done" -> element
          [] subs /\ element.what = "done" /\ At(literal, then) = "," /\ At(literal, comma) # "{" ->
               Filled("malformed", comma, <<>>)
          [] subs /\ element.what = "done" /\ At(literal, then) = "}" ->
               Filled("done", then + 1, <<Opt(element.result)>>)
          [] subs /\ element.what = "done" -> [rest EXCEPT !.result = <<Opt(element.result)>> \o @]
          [] ~subs /\ depth = 0 -> Filled("insufficient", from, <<>>)
          [] ~subs /\ depth > 0 /\ At(literal, open) # "{" -> Filled("malformed", open, <<>>)
          [] ~subs /\ depth > 0 /\ At(literal, open) = "{" /\ At(literal, sub) = "{" ->
               fill[depth, sub, TRUE]
          [] OTHER -> Filled(parsed.what, parsed.pos, parsed.result)
  IN fill[depth0, 1, FALSE]

To_container(literal, depth) == Fill_container(literal, depth)

Escaped(string) ==
  FlattenSeq([i \in DOMAIN string |->
                IF string[i] = "\"" THEN <<"\\", "\"">> ELSE <<string[i]>>])

\* The elements with the delimiter between them, in braces.
Braced(elements) ==
  <<"{">> \o FlattenSeq([i \in DOMAIN elements |->
                           elements[i] \o (IF i = Len(elements) THEN <<>> ELSE <<",">>)]) \o <<"}">>

\* What to_array_literal() writes of an element that is not a container.
Quoted(string) == <<"\"">> \o Escaped(string) \o <<"\"">>

\* Of a container of a container at most.
Literal(container, depth, Element(_)) ==
  LET Null_or(opt, Write(_)) == IF opt = Nullopt THEN <<"NULL">> ELSE Write(Get(opt))
      Deepest(c) == Braced([i \in DOMAIN c |-> Null_or(c[i], Element)])
  IN IF depth = 1 THEN Deepest(container)
     ELSE Braced([i \in DOMAIN container |-> Null_or(container[i], Deepest)])

To_array_literal(container, depth) == Literal(container, depth, Quoted)

\* to_container_of_values() and to_container_of_optionals().
To_values(container) ==
  IF Nullopt \in ToSet(container) THEN [what |-> "improper", result |-> <<>>]
  ELSE [what |-> "done", result |-> [i \in DOMAIN container |-> Get(container[i])]]
To_optionals(container) == [i \in DOMAIN container |-> Opt(container[i])]

-----------------------------------------------------------------------------

\* A number is read from what it is sent as, in either format; a text that is not a number
\* is refused, and one that is out of the range of the type as well, but a number below the
\* range of short; the generic conversion refuses only what has other symbols behind it.
NumberRead(text) ==
  LET IsNumber(digits) == digits # <<>> /\ text \in {digits, <<"-">> \o digits, <<"+">> \o digits}
      Wraps(type, n) == type = "short" /\ n < MinOf("short") /\ InRange("int", n)
      Read(type, result, digits, n) ==
        /\ IsNumber(digits) /\ InRange(type, n) => result = {Value(n)}
        /\ IsNumber(digits) /\ ~InRange(type, n) /\ type # "unsigned" /\ ~Wraps(type, n) => result = {Exception}
        /\ digits = <<>> /\ type # "unsigned" => result = {Exception}
        /\ digits # <<>> /\ ~IsDigit(Last(text)) => result = {Exception}
      ReadSigned(type, digits) ==
        Read(type, To_type(type, text), digits,
             IF text # <<>> /\ Head(text) = "-" THEN -NumberOf(digits) ELSE NumberOf(digits))
  IN
  \A type \in NumericType :
    ReadSigned(type, SelectSeq(text, IsDigit)) /\ To_optional(type, <<text>>) = To_type(type, text)

NumbersExchanged ==
  \A type \in NumericType : \A n \in ValuesOf(type) :
    /\ \A endian \in Endianness : Conv(endian, type, BytesOf(n % Width(type), SizeOf[type])) = Value(n)
    /\ To_type(type, To_string(n)) = {Value(n)}

\* A prefix of one of the words is read as what it means; "o", which may be either, and an
\* empty text are true.
BoolRead(text) ==
  LET Means(words) == \E word \in words : IsPrefix(text, word) IN
  /\ \A value \in BOOLEAN : To_bool(Bool_to_string(value)) = Value(value)
  /\ text \notin {<<>>, <<"o">>} =>
       /\ To_bool(text) = Value(TRUE) <=> Means(TrueWords)
       /\ To_bool(text) = Value(FALSE) <=> Means(FalseWords)

\* What is read of a member is the value of the first one with the name, in a type that
\* has that value, and nothing else: an integer is never cut to a type, the numbers that
\* a type has are all read, an array that has a null is read as one of optionals only, and
\* a member is found by optional() if and only if mandatory() finds it.
MemberRead(members, name, type) ==
  LET optional == Optional(members, name, type) IN
  /\ optional.what = "nullopt" <=> name = <<>> \/ \A i \in DOMAIN members : members[i].name # name
  /\ optional.what = "nullopt" <=> Mandatory(members, name, type).what = "absent"
  /\ \A i \in DOMAIN members :
       LET value == members[i].value IN
       members[i].name = name /\ (\A j \in 1..(i - 1) : members[j].name # name) =>
         /\ optional.what = "value" =>
              /\ optional.value = value
              /\ type.of = "integer" => Fits(type, type.size, value.number)
              /\ type.of = "vector" => JsonNull \notin ToSet(value.items)
              /\ type.elements = "integer" =>
                   \A item \in ToSet(value.items) \ {JsonNull} : Fits(type, 1, item.number)
         /\ optional.what = "exception" /\ value.kind = "number" =>
              \/ type.of = "integer" /\ ~Fits(type, type.size, value.number)
              \/ type.of \in {"float", "double"} /\ value.number \notin -(2 ^ FloatBits)..(2 ^ FloatBits)
              \/ type.of \notin {"integer", "float", "double"}

MembersRead(members) ==
  \A type \in JsonTypes : \A name \in {members[i].name : i \in DOMAIN members} \union {<<"b">>} :
    MemberRead(members, name, type)

\* The other way PostgreSQL writes an element, with a space before it.
Bare(string) ==
  IF string = <<"NULL">> \/ ToSet(string) \intersect {",", "{", "}", "\"", "\\", " "} # {}
  THEN Quoted(string) ELSE <<" ">> \o string

\* What is read of a literal of a container, in either way of writing it, is the
\* container, up to the end; a container of another depth cannot be read from it,
\* if it has an element.
ArrayRead(container, depth) ==
  /\ \A literal \in {To_array_literal(container, depth), Literal(container, depth, Bare)} :
       /\ To_container(literal, depth) = Filled("done", Len(literal) + 1, container)
       /\ ToSet(container) \ {Opt(<<>>)} # {} => To_container(literal, depth + 1).what = "excessive"
       /\ container # <<>> /\ depth > 1 => To_container(literal, depth - 1).what = "insufficient"
  /\ (To_values(container).what = "done") <=> Nullopt \notin ToSet(container)
  /\ Nullopt \notin ToSet(container) => To_optionals(To_values(container).result) = container
=============================================================================
