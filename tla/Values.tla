------------------------------- MODULE Values -------------------------------
(***************************************************************************)
(* The data that src/pgfe exchanges with a server: Data and its views, the *)
(* fields of a Row, and Composite, whose fields own their data.            *)
(***************************************************************************)
EXTENDS Integers, SequencesExt

CONSTANTS
  FieldName,  \* names of fields
  MaxFields   \* bound: fields of a composite

VARIABLE composites  \* two objects: the datas_ of each

CompositeObject == {1, 2}

-----------------------------------------------------------------------------
(* Data: bytes in a format, in a storage of a kind. A storage that is      *)
(* terminated has a zero behind the bytes.                                 *)

Data(kind, bytes, format, terminated) ==
  [kind |-> kind, bytes |-> bytes, format |-> format, terminated |-> terminated]
InvalidView == Data("view", <<>>, "invalid", TRUE)

\* Data::make() of a std::string, of memory, which the caller may have terminated, and of
\* bytes, which are copied.
Make_string(bytes, format) == Data("string", bytes, format, TRUE)
Make_memory(bytes, format, terminated) == Data("memory", bytes, format, terminated)
Make(bytes, format) ==
  IF bytes = <<>> THEN Data("empty", bytes, format, TRUE) ELSE Make_memory(bytes, format, TRUE)

\* The constructor of a view: a text without a size ends at the first zero.
Data_view(bytes, size, format) ==
  LET zeros == {i \in DOMAIN bytes : bytes[i] = 0} IN
  Data("view",
       IF size = 0 /\ format = "text" THEN SubSeq(bytes, 1, IF zeros = {} THEN Len(bytes) ELSE Min(zeros) - 1)
       ELSE SubSeq(bytes, 1, size),
       format, FALSE)

\* make_no_copy()
Make_no_copy(bytes, format) ==
  IF bytes = <<>> THEN Data("empty", bytes, format, TRUE) ELSE Data_view(bytes, Len(bytes), format)

\* to_data(): what is copied of a view has no terminating zero, and that of memory has.
To_data(d) ==
  CASE d.kind = "view" -> Make_memory(d.bytes, d.format, FALSE)
    [] d.kind = "memory" -> Make(d.bytes, d.format)
    [] OTHER -> d

\* cmp(): by the sizes first, then by the bytes.
CmpData(d, e) ==
  LET m == Len(d.bytes) n == Len(e.bytes)
      different == {i \in 1..m : d.bytes[i] # e.bytes[i]}
  IN
  CASE m # n -> IF m < n THEN -1 ELSE 1
    [] m = n /\ different = {} -> 0
    [] OTHER -> IF d.bytes[Min(different)] < e.bytes[Min(different)] THEN -1 ELSE 1

\* The data made of the bytes, and the copies of it, are equal to each other and differ
\* from that of other bytes; a copy of what is not a view can be taken for a text that is
\* terminated, as to_bytea() requires; and the data are ordered.
DataKept(first, second, third) ==
  LET made == {Make_string(first, "binary"), Make(first, "binary"), Make_no_copy(first, "binary"),
               Make_memory(first, "binary", FALSE)}
      a == Make(first, "binary") b == Make(second, "binary") c == Make(third, "binary")
  IN
  /\ \A d, e \in made : CmpData(d, e) = 0 /\ CmpData(To_data(d), e) = 0
  /\ \A d \in made : d.kind # "view" => To_data(d).terminated
  /\ \A d \in made : CmpData(d, b) = 0 <=> first = second
  /\ CmpData(a, b) = -CmpData(b, a)
  /\ CmpData(a, b) <= 0 /\ CmpData(b, c) <= 0 => CmpData(a, c) <= 0

-----------------------------------------------------------------------------
(* Row and Row_info. A result of one row is a sequence of fields of libpq: *)
(* [name, null, value, format, attributes], the names being shared by the  *)
(* rows of a response.                                                     *)

Make_shared_field_names(result) == [i \in DOMAIN result |-> result[i].name]

\* index_of(), counted from one: the first with the name that is not before the offset, or
\* one more than there are.
Index_of(names, name, offset) ==
  Min({i \in DOMAIN names : i >= offset /\ names[i] = name} \union {Len(names) + 1})

\* table_oid() and the others, of an index and of a name.
Attribute(result, i) == result[i].attributes
Attribute_named(result, names, name, offset) == Attribute(result, Index_of(names, name, offset))

\* data(): libpq terminates a value with a zero, which is not in its size.
Row_data(result, i) ==
  IF result[i].null THEN InvalidView
  ELSE Data_view(result[i].value \o (IF result[i].value = <<>> THEN <<0>> ELSE <<>>),
                 Len(result[i].value), result[i].format)

\* What the iterators from begin() to end() show.
Iterated(result, names) == [i \in DOMAIN names |-> <<names[i], Row_data(result, i)>>]

\* A row shows the fields that the server has sent: an iteration gives them in their order,
\* a NULL is not valid, and what is not is the value, also an empty one; the names find
\* each of equally named fields if the search goes on behind the last.
RowRead(result) ==
  LET names == Make_shared_field_names(result)
      shown == Iterated(result, names)
      From(name, k) == Index_of(names, name, k)
  IN
  /\ Len(shown) = Len(result)
  /\ \A i \in DOMAIN result :
       /\ shown[i][1] = result[i].name
       /\ shown[i][2].format = "invalid" <=> result[i].null
       /\ ~result[i].null => shown[i][2].bytes = result[i].value
       /\ From(result[i].name, i) = i
       /\ Attribute_named(result, names, result[i].name, i) = result[i].attributes
       /\ Cardinality({j \in 1..i : result[j].name = result[i].name}) = 2 =>
            From(result[i].name, From(result[i].name, 1) + 1) = i

-----------------------------------------------------------------------------
(* Composite. The data of a field is null, or is owned by it: data that is *)
(* made has an identity of its own, which is named by the first field that *)
(* refers to it.                                                           *)

FieldBytes == {<<1>>, <<2>>}
NoId == 0
New == 100
NullData == [id |-> NoId, bytes |-> <<>>]
NewData == {NullData} \union {[id |-> New, bytes |-> bytes] : bytes \in FieldBytes}
NamedData == {[id |-> New, bytes |-> <<1>>]}  \* bound: of the calls by a name; those by an index try all
Field(name, data) == [name |-> name, data |-> data]

Ids(datas) == {datas[i].data.id : i \in DOMAIN datas} \ {NoId}
NamesOf(datas) == [i \in DOMAIN datas |-> datas[i].name]
IndexOf(datas, name, offset) == Index_of(NamesOf(datas), name, offset)

Place(o, i) == 10 * o + i
Become(cs) ==
  LET Places(o, id) == {Place(o, i) : i \in {i \in DOMAIN cs[o] : cs[o][i].data.id = id}}
      First(id) == Min(UNION {Places(o, id) : o \in CompositeObject})
  IN
  composites' = [o \in CompositeObject |-> [i \in DOMAIN cs[o] |->
    IF cs[o][i].data = NullData THEN cs[o][i] ELSE [cs[o][i] EXCEPT !.data.id = First(@)]]]

Set(o, datas) == Become([composites EXCEPT ![o] = datas])
HasRoom(n) == n <= MaxFields

Append_field(o, name, data) ==
  HasRoom(Len(composites[o]) + 1) /\ Set(o, Append(composites[o], Field(name, data)))

\* append() of another composite: its fields are there still, without names and data.
Append_composite(o, p) ==
  /\ o # p /\ HasRoom(Len(composites[o]) + Len(composites[p]))
  /\ Become([composites EXCEPT ![o] = @ \o composites[p],
                               ![p] = [i \in DOMAIN @ |-> Field("", NullData)]])

\* insert() before a field, by its index or by its name.
Insert(o, i, name, data) ==
  /\ i \in DOMAIN composites[o] /\ HasRoom(Len(composites[o]) + 1)
  /\ Set(o, InsertAt(composites[o], i, Field(name, data)))
Insert_before(o, before, name, data) == Insert(o, IndexOf(composites[o], before, 1), name, data)

Remove_field(o, i) == i \in DOMAIN composites[o] /\ Set(o, RemoveAt(composites[o], i))

\* remove() by the name: nothing if there is none.
Remove_named(o, name, offset) ==
  LET i == IndexOf(composites[o], name, offset) IN
  Set(o, IF i \in DOMAIN composites[o] THEN RemoveAt(composites[o], i) ELSE composites[o])

\* set_data() by the index or the name, which is there.
Set_data(o, i, data) ==
  i \in DOMAIN composites[o] /\ Set(o, [composites[o] EXCEPT ![i].data = data])
Set_data_named(o, name, data) == Set_data(o, IndexOf(composites[o], name, 1), data)

\* The copy, which is made of data that are not null, has data of its own.
Copy(o, p) ==
  /\ o # p /\ \A i \in DOMAIN composites[p] : composites[p][i].data # NullData
  /\ Set(o, [i \in DOMAIN composites[p] |->
               Field(composites[p][i].name, [composites[p][i].data EXCEPT !.id = New + i])])

Move(o, p) == o # p /\ Become([x \in CompositeObject |-> IF x = o THEN composites[p] ELSE <<>>])
Swap == Become([o \in CompositeObject |-> composites[3 - o]])

\* cmp() of composites: by the sizes, then by the first field of which the name or the data
\* is less than the other's.
CmpString(a, b) == IF a = b THEN 0 ELSE IF <<a, b>> \in {<<"", "a">>, <<"", "b">>, <<"a", "b">>} THEN -1 ELSE 1
CmpField(f, g) ==
  LET names == CmpString(f.name, g.name) datas == CmpData(f.data, g.data) IN
  CASE names < 0 \/ datas < 0 -> -1
    [] ~(names < 0 \/ datas < 0) /\ (names > 0 \/ datas > 0) -> 1
    [] OTHER -> 0
CmpComposite(l, r) ==
  LET different == {i \in DOMAIN l : CmpField(l[i], r[i]) # 0} IN
  CASE Len(l) # Len(r) -> IF Len(l) < Len(r) THEN -1 ELSE 1
    [] Len(l) = Len(r) /\ different = {} -> 0
    [] OTHER -> CmpField(l[Min(different)], r[Min(different)])

CompositesInit == composites = [o \in CompositeObject |-> <<>>]

CompositesNext ==
  \/ Swap
  \/ \E o \in CompositeObject :
       \/ \E p \in CompositeObject : Append_composite(o, p) \/ Copy(o, p) \/ Move(o, p)
       \/ \E i \in 1..MaxFields :
            \/ Remove_field(o, i)
            \/ \E name \in FieldName : Remove_named(o, name, i)
            \/ \E name \in FieldName, data \in NewData : Insert(o, i, name, data)
            \/ \E data \in NewData : Set_data(o, i, data)
       \/ \E name \in FieldName, data \in NewData : Append_field(o, name, data)
       \/ \E name \in FieldName, data \in NamedData :
            \/ Set_data_named(o, name, data)
            \/ \E before \in FieldName : Insert_before(o, before, name, data)

CompositesSpec == CompositesInit /\ [][CompositesNext]_composites

\* Data have one owner, whatever has been copied, moved and inserted, so that what is
\* removed of one composite is there in the other. Composites without nulls are equal if
\* cmp() says so, and of those with the same names in the same order one is less than the
\* other the other way round.
CompositesKept ==
  LET l == composites[1] r == composites[2]
      Full(datas) == \A i \in DOMAIN datas : datas[i].data # NullData
      Shown(datas) == [i \in DOMAIN datas |-> <<datas[i].name, datas[i].data.bytes>>]
  IN
  /\ Ids(l) \intersect Ids(r) = {}
  /\ \A o \in CompositeObject : \A i, j \in DOMAIN composites[o] :
       i # j /\ composites[o][i].data # NullData => composites[o][i].data.id # composites[o][j].data.id
  /\ Full(l) /\ Full(r) =>
       /\ CmpComposite(l, r) = 0 <=> Shown(l) = Shown(r)
       /\ NamesOf(l) = NamesOf(r) => CmpComposite(l, r) = -CmpComposite(r, l)
=============================================================================
