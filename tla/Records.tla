------------------------------ MODULE Records ------------------------------
(***************************************************************************)
(* The bytes of src/fcgi: what the numbers of a record's header and body   *)
(* are made of, the names and values of its parameters, and the answer to  *)
(* a get-values record. A byte is a number below ByteBase, which stands for*)
(* 256; a character of a name or a value is a byte.                        *)
(***************************************************************************)
EXTENDS Integers, SequencesExt

CONSTANT ByteBase  \* even

Byte == 0..(ByteBase - 1)
High == ByteBase \div 2        \* the bit 0x80
Number(bytes) == FoldLeft(LAMBDA n, b : n * ByteBase + b, 0, bytes)

\* A number as count bytes, the first of which is the highest: (number >> 8) & 0xff and
\* number & 0xff; that of a negative number is its complement.
Byte_at(number, place) == (number \div (ByteBase ^ place)) % ByteBase
Bytes(number, count) == [i \in 1..count |-> Byte_at(number, count - i)]

-----------------------------------------------------------------------------
(* The header and the bodies.                                              *)

Padding(length) == (8 - (length % 8)) % 8

Header(record_type, request_id, content_len) ==
  <<1, record_type>> \o Bytes(request_id, 2) \o Bytes(content_len, 2) \o <<Padding(content_len), 0>>

\* What the accessors make of a header.
request_id(header) == Number(SubSeq(header, 3, 4))
content_length(header) == Number(SubSeq(header, 5, 6))

\* A header whose version is not 1 is refused.
check_validity(header) == header[1] = 1

Begin_request_body(bytes) ==
  [role |-> Number(SubSeq(bytes, 1, 2)), is_keep_conn |-> bytes[3] % 2 = 1]

End_request_body(application_status, protocol_status) ==
  Bytes(application_status, 4) \o <<protocol_status, 0, 0, 0>>

End_request_record(id, application_status, protocol_status) ==
  Header(3, id, 8) \o End_request_body(application_status, protocol_status)

-----------------------------------------------------------------------------
(* Names_values. The reader is where the next byte is, with what it has    *)
(* read, and "reading" until it has come to the end or has thrown.         *)

Reader(bytes) == [bytes |-> bytes, pos |-> 1, pairs |-> <<>>, what |-> "reading"]

\* read_length(): a length and the position behind it; the length is -1 if nothing is
\* left, and -2 if the three bytes that follow the high bit are not there.
Read_length(bytes, pos) ==
  LET Long(first) ==
        IF pos + 3 > Len(bytes) THEN [length |-> -2, pos |-> pos]
        ELSE [length |-> Number(<<first - High>> \o SubSeq(bytes, pos + 1, pos + 3)), pos |-> pos + 4]
  IN
  CASE pos > Len(bytes) -> [length |-> -1, pos |-> pos]
    [] pos <= Len(bytes) /\ bytes[pos] >= High -> Long(bytes[pos])
    [] OTHER -> [length |-> bytes[pos], pos |-> pos + 1]

Pair(name, value) == [name |-> name, value |-> value]

\* One iteration: both lengths, and the name and the value at once.
Read_pair(r) ==
  LET Data(n, v) ==
        IF v.pos + n.length + v.length - 1 > Len(r.bytes) THEN [r EXCEPT !.what = "thrown"]
        ELSE [r EXCEPT !.pos = v.pos + n.length + v.length,
                       !.pairs = Append(@, Pair(SubSeq(r.bytes, v.pos, v.pos + n.length - 1),
                                                SubSeq(r.bytes, v.pos + n.length, v.pos + n.length + v.length - 1)))]
      Value(n, v) == IF v.length < 0 THEN [r EXCEPT !.what = "thrown"] ELSE Data(n, v)
      Name(n) ==
        CASE n.length = -1 -> [r EXCEPT !.what = "read"]
          [] n.length = -2 -> [r EXCEPT !.what = "thrown"]
          [] OTHER -> Value(n, Read_length(r.bytes, n.pos))
  IN Name(Read_length(r.bytes, r.pos))

Names_values(bytes) ==
  FoldLeft(LAMBDA r, i : IF r.what = "reading" THEN Read_pair(r) ELSE r,
           Reader(bytes), [i \in 1..(Len(bytes) + 1) |-> i])

\* pair_index(): the first pair of the name, counted from zero.
Pair_index(pairs, name) ==
  LET found == {i \in DOMAIN pairs : pairs[i].name = name} IN
  IF found = {} THEN {} ELSE {Min(found) - 1}

\* parameter() and has_parameter() of a connection.
Has_parameter(pairs, name) == Pair_index(pairs, name) # {}
Parameter(pairs, name) == pairs[(CHOOSE i \in Pair_index(pairs, name) : TRUE) + 1]

-----------------------------------------------------------------------------
(* The answer to a get-values record.                                      *)

\* The variables that are answered, with the size of the name and the value.
Variable ==
  [FCGI_MAX_CONNS |-> [size |-> 14, value |-> "1"],
   FCGI_MAX_REQS |-> [size |-> 13, value |-> "1"],
   FCGI_MPXS_CONNS |-> [size |-> 15, value |-> "0"]]

\* What is left of the record for the content: its size is that of the header and of three
\* of the longest variables, aligned by 8.
Capacity ==
  LET longest == 8 + 3 * (1 + 1 + 15 + 1) IN longest + Padding(longest) - 8

\* The content, or "terminated" by the assertion that the record has room for a variable.
Get_values_result(names) ==
  LET Room(content) ==
        Capacity - FoldLeft(LAMBDA size, pair : size + Variable[pair.name].size + 3, 0, content)
      Answer(r, name) ==
        CASE name \notin DOMAIN Variable \/ r.what # "answered" -> r
          [] Variable[name].size + 3 > Room(r.content) -> [r EXCEPT !.what = "terminated"]
          [] OTHER -> [r EXCEPT !.content = Append(@, Pair(name, Variable[name].value))]
  IN FoldLeft(Answer, [what |-> "answered", content |-> <<>>], names)

-----------------------------------------------------------------------------
(* The references and the properties.                                      *)

\* A length as FastCGI writes it, in one byte if it fits and four bytes are not preferred.
Length(length, long) ==
  IF length < High /\ ~long THEN <<length>>
  ELSE <<High + Byte_at(length, 3)>> \o Bytes(length, 3)

Written(p) ==
  Length(Len(p.pair.name), p.long) \o Length(Len(p.pair.value), p.long) \o p.pair.name \o p.pair.value
Encode(parts) == FlattenSeq([i \in DOMAIN parts |-> Written(parts[i])])

\* What a server sends as the parameters is read as the pairs it is made of, and found by
\* the first of its name; what is cut inside of a pair is refused.
NamesRead(parts) ==
  LET bytes == Encode(parts)
      pairs == [i \in DOMAIN parts |-> parts[i].pair]
      Complete(n) == \E k \in 0..Len(parts) : n = Len(Encode(SubSeq(parts, 1, k)))
      Cut(n) == Names_values(SubSeq(bytes, 1, n)).what
      result == Names_values(bytes)
  IN
  /\ result.what = "read" /\ result.pairs = pairs
  /\ \A n \in 0..Len(bytes) : Cut(n) = IF Complete(n) THEN "read" ELSE "thrown"
  /\ \A i \in DOMAIN pairs :
       /\ Has_parameter(result.pairs, pairs[i].name)
       /\ (\A k \in 1..(i - 1) : pairs[k].name # pairs[i].name) =>
            Parameter(result.pairs, pairs[i].name) = pairs[i]

\* The numbers of a record arrive as they are sent: the status with its sign, the request
\* and the length; the length of a record is a multiple of eight.
RecordRead(number) ==
  LET status == SubSeq(End_request_record(number % (ByteBase ^ 2), number, 0), 9, 12)
      header == Header(3, number % (ByteBase ^ 2), number % (ByteBase ^ 2))
      signed == Number(status) - (IF status[1] >= High THEN ByteBase ^ 4 ELSE 0)
      range == (ByteBase ^ 4) \div 2
  IN
  /\ number \in (-range)..(range - 1) => signed = number
  /\ check_validity(header)
  /\ request_id(header) = number % (ByteBase ^ 2) /\ content_length(header) = number % (ByteBase ^ 2)
  /\ (content_length(header) + header[7]) % 8 = 0
  /\ Len(End_request_record(1, number, 0)) % 8 = 0
  /\ Begin_request_body(Bytes(number % (ByteBase ^ 2), 2) \o <<number % 2, 0, 0, 0, 0, 0>>)
       = [role |-> number % (ByteBase ^ 2), is_keep_conn |-> number % 2 = 1]

\* A query of variables each of which is named once is answered with the known ones in
\* their order; only repeated names can be too many for the record.
ValuesAnswered(names) ==
  LET known == SelectSeq(names, LAMBDA name : name \in DOMAIN Variable)
      result == Get_values_result(names)
  IN
  /\ Cardinality(ToSet(known)) = Len(known) => result.what = "answered"
  /\ result.what = "answered" =>
       result.content = [i \in DOMAIN known |-> Pair(known[i], Variable[known[i]].value)]
=============================================================================
