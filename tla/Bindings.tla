------------------------------ MODULE Bindings ------------------------------
(***************************************************************************)
(* What the parameters of a statement of src/sqlixx are bound with: the    *)
(* memory of a string or of a Data, which SQLite refers to or copies; and  *)
(* the columns by which a row is read. SQLite is external: it refers to    *)
(* the memory if the destructor is SQLITE_STATIC, copies it if it is       *)
(* SQLITE_TRANSIENT, and binds NULL if the pointer is null.                *)
(***************************************************************************)
EXTENDS Integers, SequencesExt

VARIABLES
  blocks,  \* memory: "none", "freed", or what is in it
  datas,   \* of each object Data: data_, which is a block or null, and deleter_
  bound,   \* SQLite: what each parameter is bound with
  requested,   \* history: what the caller has asked for, by the names of the parameters
  freed_again  \* history: memory has been freed twice

bindingsVars == <<blocks, datas, bound, requested, freed_again>>

Block == {1, 2}
NoBlock == 0
Bytes == {"x", "y"}
DataObject == {1, 2}
Parameter == <<"a", "b">>  \* the names, by what SQLite counts from one

NoData == [data |-> NoBlock, deleter |-> "static"]
Is_data_owner(d) == d.deleter = "free"

\* A parameter is bound with NULL, with the memory, or with a copy of what is in it.
Null == [how |-> "null", block |-> NoBlock, bytes |-> "null"]
Static(b) == IF b = NoBlock THEN Null ELSE [how |-> "static", block |-> b, bytes |-> "null"]
Transient(b) == [how |-> "transient", block |-> NoBlock, bytes |-> blocks[b]]

\* What the caller has requested for: the memory of what is not a temporary is not changed
\* until something else is bound, as bind() documents; a Data that owns its memory and is
\* given away is lost.
Kept(b) == [bytes |-> blocks[b], constant |-> {b}, lost |-> FALSE]
GivenAway(b, lost) == [bytes |-> blocks[b], constant |-> {}, lost |-> lost]
NullAsked == [bytes |-> "null", constant |-> {}, lost |-> FALSE]
Names == ToSet(Parameter)
Constant(b) == \E name \in Names : b \in requested[name].constant

Allocated(b) == b \in Block /\ blocks[b] \in Bytes
Refers(b) == \E o \in DataObject : datas[o].data = b

BindingsInit ==
  /\ blocks = [b \in Block |-> "none"] /\ datas = [o \in DataObject |-> NoData]
  /\ bound = [i \in DOMAIN Parameter |-> Null] /\ requested = [name \in Names |-> NullAsked]
  /\ freed_again = FALSE

-----------------------------------------------------------------------------
(* Memory, and the objects that refer to it.                               *)

Write(b, bytes) ==
  /\ ~Constant(b) /\ blocks[b] # bytes /\ (blocks[b] = "freed" => ~Refers(b))
  /\ blocks' = [blocks EXCEPT ![b] = bytes] /\ UNCHANGED <<datas, bound, requested, freed_again>>

\* The destructor of a Data that has been d.
Deleted(d) ==
  IF Is_data_owner(d)
  THEN blocks' = [blocks EXCEPT ![d.data] = "freed"] /\ freed_again' = (freed_again \/ ~Allocated(d.data))
  ELSE UNCHANGED <<blocks, freed_again>>

Data(o, b, deleter) ==
  /\ datas[o] = NoData /\ Allocated(b) /\ ~Refers(b) /\ ~Constant(b)
  /\ datas' = [datas EXCEPT ![o] = [data |-> b, deleter |-> deleter]]
  /\ UNCHANGED <<blocks, bound, requested, freed_again>>

\* The move assignment: what has been there is destroyed with the temporary.
Move(o, p) ==
  /\ o # p /\ ~Constant(datas[o].data) /\ Deleted(datas[o])
  /\ datas' = [datas EXCEPT ![o] = datas[p], ![p] = NoData] /\ UNCHANGED <<bound, requested>>

Swap == datas' = [o \in DataObject |-> datas[3 - o]] /\ UNCHANGED <<blocks, bound, requested, freed_again>>

\* The caller has the memory then.
Release(o) ==
  /\ datas[o] # NoData /\ datas' = [datas EXCEPT ![o] = NoData]
  /\ UNCHANGED <<blocks, bound, requested, freed_again>>

Destroy(o) ==
  /\ datas[o] # NoData /\ ~Constant(datas[o].data) /\ Deleted(datas[o])
  /\ datas' = [datas EXCEPT ![o] = NoData] /\ UNCHANGED <<bound, requested>>

-----------------------------------------------------------------------------
(* Statement. The parameters are counted from zero here.                   *)

\* sqlite3_bind_parameter_index(), which is zero if there is no such parameter, less one.
Parameter_index(name) ==
  LET found == {i \in DOMAIN Parameter : Parameter[i] = name} IN
  (IF found = {} THEN 0 ELSE Min(found)) - 1
Parameter_count == Len(Parameter)

Bound(index, what, request) ==
  /\ index < Parameter_count
  /\ bound' = [bound EXCEPT ![index + 1] = what]
  /\ requested' = [requested EXCEPT ![Parameter[index + 1]] = request]

Bind_null_all ==
  /\ bound' = [i \in DOMAIN Parameter |-> Null] /\ requested' = [name \in Names |-> NullAsked]
  /\ UNCHANGED <<blocks, datas, freed_again>>
Bind_null(index) == Bound(index, Null, NullAsked) /\ UNCHANGED <<blocks, datas, freed_again>>

\* A string, or a literal, that is there after the call.
Bind_lvalue(index, b) ==
  /\ Allocated(b) /\ Bound(index, Static(b), Kept(b)) /\ UNCHANGED <<blocks, datas, freed_again>>

\* A string that is destroyed after the call.
Bind_rvalue(index, b) ==
  /\ Allocated(b) /\ ~Refers(b) /\ ~Constant(b)
  /\ Bound(index, Transient(b), GivenAway(b, FALSE))
  /\ blocks' = [blocks EXCEPT ![b] = "freed"] /\ UNCHANGED <<datas, freed_again>>

\* A Data that is moved: the memory it owns is freed before the address of it is taken,
\* what it does not own is there.
Bind_data(index, o) ==
  LET d == datas[o] IN
  /\ d # NoData
  /\ IF Is_data_owner(d)
     THEN /\ ~Constant(d.data) /\ Deleted(d) /\ datas' = [datas EXCEPT ![o] = NoData]
          /\ Bound(index, Static(datas'[o].data), GivenAway(d.data, TRUE))
     ELSE Bound(index, Static(d.data), Kept(d.data)) /\ UNCHANGED <<blocks, datas, freed_again>>

\* By the name: it throws if there is none.
Bind_named(name, b) == Parameter_index(name) >= 0 /\ Bind_lvalue(Parameter_index(name), b)

\* bind_many(), of what is there after the call.
Bind_many(values) ==
  /\ \A i \in DOMAIN values : Allocated(values[i])
  /\ bound' = [i \in DOMAIN Parameter |-> Static(values[i])]
  /\ requested' = [name \in Names |-> Kept(values[Parameter_index(name) + 1])]
  /\ UNCHANGED <<blocks, datas, freed_again>>

BindingsNext ==
  \/ Swap \/ Bind_null_all
  \/ \E b \in Block :
       \/ \E bytes \in Bytes : Write(b, bytes)
       \/ \E name \in Names \union {"c"} : Bind_named(name, b)
       \/ \E index \in {0, 1} : Bind_lvalue(index, b) \/ Bind_rvalue(index, b)
       \/ \E c \in Block : Bind_many(<<b, c>>)
  \/ \E o \in DataObject :
       \/ \E b \in Block, deleter \in {"static", "free"} : Data(o, b, deleter)
       \/ \E p \in DataObject : Move(o, p)
       \/ Release(o) \/ Destroy(o)
       \/ \E index \in {0, 1} : Bind_data(index, o)
  \/ \E index \in {0, 1} : Bind_null(index)

\* What SQLite reads of a parameter when the statement is executed.
Read(i) == IF bound[i].how = "static" THEN blocks[bound[i].block] ELSE bound[i].bytes

\* A statement is executed with what has been bound last to each of its parameters, by its
\* index or its name, though a temporary has been destroyed since and the memory of it has
\* other contents; and memory is freed once, by the last object that it has been moved to.
\* It is not what is requested for if a Data that owns its memory is given away: that is NULL.
BindingsKept ==
  /\ ~freed_again
  /\ \A o \in DataObject : Is_data_owner(datas[o]) => Allocated(datas[o].data)
  /\ \A i \in DOMAIN Parameter :
       LET request == requested[Parameter[i]] IN Read(i) = IF request.lost THEN "null" ELSE request.bytes

-----------------------------------------------------------------------------
(* A row is a sequence of columns [name, value], the value null or not.    *)

Column_index(row, name) ==
  Min({i \in DOMAIN row : row[i].name = name} \union {Len(row) + 1})

\* result(), of a type and of std::optional of it: numbers are zero and texts are empty
\* for a NULL that is not requested for as one.
Result(row, index) == IF row[index].value = <<>> THEN "zero" ELSE Head(row[index].value)
Result_optional(row, index) == IF row[index].value = <<>> THEN "nullopt" ELSE Result(row, index)
Result_named(row, name) ==
  IF Column_index(row, name) \in DOMAIN row THEN Result_optional(row, Column_index(row, name)) ELSE "exception"

\* A column is read by its name as by its index, if it is the first with the name.
ColumnsRead(row) ==
  /\ \A i \in DOMAIN row :
       (\A j \in 1..(i - 1) : row[j].name # row[i].name) => Result_named(row, row[i].name) = Result_optional(row, i)
  /\ \A i \in DOMAIN row : Result_optional(row, i) = "nullopt" <=> row[i].value = <<>>
  /\ Result_named(row, "c") = "exception" <=> \A i \in DOMAIN row : row[i].name # "c"
=============================================================================
