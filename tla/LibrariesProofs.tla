-------------------------- MODULE LibrariesProofs --------------------------
(***************************************************************************)
(* Proofs about module Libraries. A step of it is one of the object that   *)
(* runs and leaves the others as they are, so what ObjectsProofs and       *)
(* DataProofs say of each object holds of the libraries.                   *)
(***************************************************************************)
EXTENDS Libraries, ObjectsProofs, DataProofs, TLAPS

LEMMA ObjectsBegin ==
  LibrariesInit => /\ StatementsInv /\ ResponsesInv /\ LargeObjectsInv /\ BindingsInv
                   /\ CallsInv /\ SocketsInv
<1> SUFFICES ASSUME LibrariesInit
             PROVE  /\ StatementsInv /\ ResponsesInv /\ LargeObjectsInv /\ BindingsInv
                    /\ CallsInv /\ SocketsInv
  OBVIOUS
<1>1. Init /\ R!Init /\ L!LoInit /\ I!BindingsInit /\ W!ClientsInit
  BY DEF LibrariesInit
<1> QED
  BY <1>1, StatementsStart, ResponsesStart, LargeObjectsStart, BindingsStart, CallsStart, SocketsStart

\* An object is left as it is, or one of its steps is taken.
LEMMA ObjectsMove ==
  ASSUME [LibrariesNext]_librariesVars
  PROVE  /\ [Next]_vars /\ [R!Next]_responsesVars /\ [L!LoNext]_objectsVars
         /\ [I!BindingsNext]_bindingsVars /\ [W!ClientsNext]_clientsVars
<1>1. CASE LibrariesNext
  <2>1. [Next]_vars
    BY <1>1 DEF LibrariesNext
  <2>2. [R!Next]_responsesVars
    BY <1>1 DEF LibrariesNext
  <2>3. [L!LoNext]_objectsVars
    BY <1>1 DEF LibrariesNext
  <2>4. [I!BindingsNext]_bindingsVars
    BY <1>1 DEF LibrariesNext
  <2>5. [W!ClientsNext]_clientsVars
    BY <1>1 DEF LibrariesNext
  <2> QED
    BY <2>1, <2>2, <2>3, <2>4, <2>5
<1>2. CASE UNCHANGED librariesVars
  BY <1>2 DEF librariesVars
<1> QED
  BY <1>1, <1>2

-----------------------------------------------------------------------------

\* Statement and Connection of src/sqlixx, whatever is executed, moved, closed and destroyed in
\* whatever order: the object agrees with SQLite about the last step, a statement has one owner, and
\* a run has the values of the call that began it, unless the last step before that call failed.
THEOREM StatementsAlwaysRun == LibrariesSpec => []StatementsRun
<1>1. LibrariesInit => StatementsInv
  BY ObjectsBegin
<1>2. StatementsInv /\ [LibrariesNext]_librariesVars => StatementsInv'
  BY ObjectsMove, StatementsStep
<1>3. StatementsInv => StatementsRun
  BY StatementsHold
<1> QED
  BY <1>1, <1>2, <1>3, PTL DEF LibrariesSpec

\* Connection::process_responses() of src/pgfe, for any number of rows and whatever the callback
\* and the error handler return or throw: the rows reach the callback once each and in their
\* order, the response is at its end unless the callback suspends it, and an error of the
\* server is reported once the response has ended, and none is if it has completed.
THEOREM ResponsesAlwaysKept == LibrariesSpec => [](R!RowsKept /\ R!ErrorsReported)
<1>1. LibrariesInit => ResponsesInv
  BY ObjectsBegin
<1>2. ResponsesInv /\ [LibrariesNext]_librariesVars => ResponsesInv'
  BY ObjectsMove, ResponsesStep
<1>3. ResponsesInv => R!RowsKept /\ R!ErrorsReported
  BY ResponsesHold
<1> QED
  BY <1>1, <1>2, <1>3, PTL DEF LibrariesSpec

\* Large_object of src/pgfe, for any number of transactions and of descriptors of one: however
\* objects are moved, swapped, closed and destroyed while transactions end and connections are
\* made anew, the descriptor of an object is open as long as the transaction goes on in which it
\* was opened, and no other object has it but the copies of this one.
THEOREM LargeObjectsAlwaysOwned == LibrariesSpec => []L!DescriptorsOwned
<1>1. LibrariesInit => LargeObjectsInv
  BY ObjectsBegin
<1>2. LargeObjectsInv /\ [LibrariesNext]_librariesVars => LargeObjectsInv'
  BY ObjectsMove, LargeObjectsStep
<1>3. LargeObjectsInv => L!DescriptorsOwned
  BY LargeObjectsHold
<1> QED
  BY <1>1, <1>2, <1>3, PTL DEF LibrariesSpec

\* Statement::bind() and Data of src/sqlixx: SQLite is given what the caller has asked for, from
\* memory that is there when the statement is executed and that is freed once; or NULL, if what
\* is given away owns its memory.
THEOREM BindingsAlwaysKept == LibrariesSpec => []I!BindingsKept
<1>1. LibrariesInit => BindingsInv
  BY ObjectsBegin
<1>2. BindingsInv /\ [LibrariesNext]_librariesVars => BindingsInv'
  BY ObjectsMove, BindingsStep
<1>3. BindingsInv => I!BindingsKept
  BY BindingsHold
<1> QED
  BY <1>1, <1>2, <1>3, PTL DEF LibrariesSpec

\* The connections of src/wscl, whenever they are closed, destroyed or replaced, also by a
\* handler: handle_open() is the first call of each, handle_error() or handle_close() the last,
\* and is_open() is true between them.
THEOREM HandlersAlwaysInOrder == LibrariesSpec => []W!HandlersInOrder
<1>1. LibrariesInit => CallsInv
  BY ObjectsBegin
<1>2. CallsInv /\ [LibrariesNext]_librariesVars => CallsInv'
  BY ObjectsMove, CallsStep
<1>3. CallsInv => W!HandlersInOrder
  BY CallsHold
<1> QED
  BY <1>1, <1>2, <1>3, PTL DEF LibrariesSpec

\* The objects of pgfe, sqlixx and wscl together, unless a connection of wscl is made while one
\* that has ended is not destroyed: then also a socket is closed by the connection that has
\* opened it only.
THEOREM ObjectsAlwaysKept ==
  ASSUME ~ReplacedLate
  PROVE  LibrariesSpec => []ObjectsKept
<1> DEFINE ObjectsInv == ResponsesInv /\ LargeObjectsInv /\ BindingsInv /\ CallsInv /\ SocketsInv
<1>1. LibrariesInit => ObjectsInv
  BY ObjectsBegin
<1>2. ObjectsInv /\ [LibrariesNext]_librariesVars => ObjectsInv'
  BY ObjectsMove, ResponsesStep, LargeObjectsStep, BindingsStep, CallsStep, SocketsStep
<1>3. ObjectsInv => ObjectsKept
  BY ResponsesHold, LargeObjectsHold, BindingsHold, CallsHold, SocketsHold DEF ObjectsKept
<1> QED
  BY <1>1, <1>2, <1>3, PTL DEF LibrariesSpec

-----------------------------------------------------------------------------

LEMMA OptionsMove ==
  ASSUME [LibrariesNext]_librariesVars
  PROVE  [O!SetConnection \/ O!SetListener]_optionsVars
<1>1. CASE LibrariesNext
  BY <1>1 DEF LibrariesNext
<1>2. CASE UNCHANGED librariesVars
  BY <1>2 DEF librariesVars
<1> QED
  BY <1>1, <1>2

\* Connection_options of src/pgfe and Listener_options of src/ws: whatever is set in whatever
\* order, refused values among it, nothing but the removal of the certificate authority while
\* host names are verified breaks the invariant of the options, and libpq and uWebSockets are
\* told what they say, the keywords of the transport and of SSL and the timeout in its whole
\* seconds.
THEOREM OptionsAlwaysKept == LibrariesSpec => OptionsKept
<1>1. LibrariesInit => OptionsInv /\ ListenerInv
  BY OptionsStart DEF LibrariesInit
<1>2. OptionsInv /\ ListenerInv /\ [LibrariesNext]_librariesVars => (OptionsInv /\ ListenerInv)'
  BY OptionsMove, OptionsStep
<1>3. OptionsInv /\ ListenerInv =>
        /\ unit = "options" => O!InvariantKept /\ O!LibpqTold
        /\ unit = "listener_options" => O!IdleTimeoutTold
  BY OptionsHold, ListenerHolds
<1>4. OptionsInv /\ OptionsInv' /\ ListenerInv /\ [LibrariesNext]_librariesVars =>
        [unit = "options" => O!OnlyAuthorityLost]_optionsVars
  BY OptionsMove, OptionsMoveOnly
<1> QED
  BY <1>1, <1>2, <1>3, <1>4, PTL DEF LibrariesSpec, OptionsKept

-----------------------------------------------------------------------------

LEMMA JrpcMove ==
  ASSUME [LibrariesNext]_librariesVars
  PROVE  [J!Next]_jrpcVars
<1>1. CASE LibrariesNext
  BY <1>1 DEF LibrariesNext
<1>2. CASE UNCHANGED librariesVars
  BY <1>2 DEF librariesVars
<1> QED
  BY <1>1, <1>2

\* The texts of requests, responses and objects of JSON consist of their symbols.
JsonTexts ==
  /\ unit = "request" => input \in Seq(RequestMembers)
  /\ unit = "response" => input \in Seq(ResponseMembers)
  /\ unit = "members" => input \in Seq(Members)

LEMMA JsonTextsGrow ==
  ASSUME JsonTexts, [LibrariesNext]_librariesVars
  PROVE  JsonTexts'
<1>1. \/ UNCHANGED <<unit, input>>
      \/ unit' = unit /\ \E symbol \in Following : input' = Append(input, symbol)
  <2>1. CASE LibrariesNext
    <3>1. unit' = unit /\ (Grow \/ UNCHANGED input)
      BY <2>1 DEF LibrariesNext, textVars
    <3> QED
      BY <3>1 DEF Grow
  <2>2. CASE UNCHANGED librariesVars
    BY <2>2 DEF librariesVars, textVars
  <2> QED
    BY <2>1, <2>2
<1>2. CASE UNCHANGED <<unit, input>>
  BY <1>2 DEF JsonTexts
<1>3. ASSUME unit' = unit, NEW symbol \in Following, input' = Append(input, symbol)
      PROVE  JsonTexts'
  <2>1. unit = "request" => symbol \in RequestMembers
    BY <1>3 DEF Following
  <2>2. unit = "response" => symbol \in ResponseMembers
    BY <1>3 DEF Following
  <2>3. unit = "members" => symbol \in Members
    BY <1>3 DEF Following
  <2>4. \A set : input \in Seq(set) /\ symbol \in set => Append(input, symbol) \in Seq(set)
    OBVIOUS
  <2> QED
    BY <1>3, <2>1, <2>2, <2>3, <2>4 DEF JsonTexts
<1> QED
  BY <1>1, <1>2, <1>3

\* The ids of the texts have types that the value of a member may have.
LEMMA IdsOf ==
  ASSUME NEW document \in Seq(RequestMembers), J!Has(document, "id")
  PROVE  J!Of(document, "id").type \in J!Numbers \union J!Strings \union {"null", "bool"}
<1>0. /\ \A name, value : J!Member(name, value) = [name |-> name, value |-> value]
      /\ \A type : J!Value(type).type = type
  BY DEF J!Member, J!Value
<1>1. DOMAIN document = 1..Len(document) /\ Len(document) \in Nat
  OBVIOUS
<1>2. PICK i \in 1..Len(document) : document[i].name = "id" /\ J!Of(document, "id") = document[i].value
  BY <1>1, FindPlace
<1>3. document[i] \in RequestMembers
  BY <1>1
<1>4. \A m \in RequestMembers : m.name = "id" => m \in Ids
  BY <1>0 DEF RequestMembers, Common
<1>5. \A m \in Ids : m.value.type \in {"int", "float", "string", "bool"}
  BY <1>0 DEF Ids
<1> QED
  BY <1>2, <1>3, <1>4, <1>5 DEF J!Numbers, J!Strings

LEMMA NumbersOf ==
  ASSUME NEW members \in Seq(Members), NEW i \in DOMAIN members
  PROVE  members[i].value.number \in Int
<1>1. \A value \in JsonValues : value.number \in Int
  BY DEF JsonValues, JsonIntegers, N!JsonNull, N!JsonNumber, N!JsonArray, N!Json
<1>2. members[i] \in Members
  OBVIOUS
<1> QED
  BY <1>1, <1>2 DEF Members

\* jrpc and rajson, in an environment whose bytes have 2, 4, 16 or 256 values (256 in the code):
\* whatever a client sets of the parameters of a request, by position and by name, the server
\* accepts the request and gets what was set last, and the answers to it are read with its id;
\* of any members the server takes exactly those of a request of JSON-RPC 2.0, the client those
\* of a response, and a member of an object is read in the types that have its value.
THEOREM JrpcAlwaysUnderstood ==
  ASSUME ByteBase \in Bases
  PROVE  LibrariesSpec => []JrpcUnderstood
<1>1. LibrariesInit => JrpcInv /\ JsonTexts
  <2> SUFFICES ASSUME LibrariesInit PROVE JrpcInv /\ JsonTexts
    OBVIOUS
  <2>1. J!Init /\ input = <<>>
    BY DEF LibrariesInit
  <2>2. JsonTexts
    BY <2>1 DEF JsonTexts
  <2> QED
    BY <2>1, <2>2, JrpcStart
<1>2. JrpcInv /\ JsonTexts /\ [LibrariesNext]_librariesVars => (JrpcInv /\ JsonTexts)'
  <2> SUFFICES ASSUME JrpcInv, JsonTexts, [LibrariesNext]_librariesVars PROVE JrpcInv' /\ JsonTexts'
    OBVIOUS
  <2>1. JrpcInv'
    BY DataAssumption, JrpcMove, JrpcStep
  <2> QED
    BY <2>1, JsonTextsGrow
<1>3. JrpcInv /\ JsonTexts => JrpcUnderstood
  <2> SUFFICES ASSUME JrpcInv, JsonTexts PROVE JrpcUnderstood
    OBVIOUS
  <2>1. J!Understood /\ J!Fetched
    BY JrpcUnderstandable, JrpcFetched
  <2>2. ASSUME unit = "request" PROVE J!RequestChecked(input)
    <3>1. input \in Seq(RequestMembers)
      BY <2>2 DEF JsonTexts
    <3> QED
      BY <3>1, IdsOf, RequestRead
  <2>3. ASSUME unit = "response" PROVE J!ResponseChecked(input)
    <3>1. input \in Seq(ResponseMembers)
      BY <2>3 DEF JsonTexts
    <3> QED
      BY <3>1, ResponseRead
  <2>4. ASSUME unit = "members" PROVE N!MembersRead(input)
    <3>1. input \in Seq(Members)
      BY <2>4 DEF JsonTexts
    <3>2. \A i \in DOMAIN input : input[i].value.number \in Int
      BY <3>1, NumbersOf
    <3> QED
      BY <3>1, <3>2, MembersAllRead
  <2> QED
    BY <2>1, <2>2, <2>3, <2>4 DEF JrpcUnderstood
<1> QED
  BY <1>1, <1>2, <1>3, PTL DEF LibrariesSpec
=============================================================================
