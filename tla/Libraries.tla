----------------------------- MODULE Libraries -----------------------------
(***************************************************************************)
(* The libraries of the repository that keep to themselves: the texts they *)
(* read, each of which grows by a symbol as long as the reader would take  *)
(* it, and the objects they offer, each of which takes any sequence of     *)
(* calls. One of them runs in each behaviour.                              *)
(***************************************************************************)
EXTENDS Objects, Data, SequencesExt

CONSTANTS
  MaxParameters, MaxFragments,   \* SQL
  MaxEntries,                    \* cookies
  MaxTemplate,                   \* templates
  FirstYears, MaxDays,           \* dates
  MaxPushed,                     \* queues
  MaxBound,                      \* statements
  FieldName, MaxFields           \* composites

VARIABLES
  unit,     \* what runs
  input,    \* the text so far
  machine,  \* the SQL preparser after the text
  fragments_, positional_parameters_, named_parameters_, thrown,  \* an SQL string
  entries_, set_cookie, failed,                                   \* cookies
  template, parameters_, terminated,                              \* a template
  today,                                                          \* a calendar
  arrays, strings, wanted,                                        \* queues
  ps, datum, expected, meant, sent,                               \* a prepared statement
  composites                                                      \* composites

P == INSTANCE SqlExtras
S == INSTANCE SqlStrings WITH ParameterName <- ParamName, MaxParameters <- 3
B == INSTANCE Statements
V == INSTANCE Values
H == INSTANCE Addresses
U == INSTANCE Records
F == INSTANCE Multipart
Q == INSTANCE Queries

CookieName == {<<"a">>, <<"__Host-">>, <<"__Secure-", "a">>}
CookieValue == {<<>>, <<"a">>, <<"(">>}
C == INSTANCE Cookies WITH Name <- CookieName, Value <- CookieValue

TemplateName == {<<"a">>, <<"b">>}
T == INSTANCE Templates WITH Names <- TemplateName, MaxFragments <- MaxTemplate, fragments_ <- template

G == INSTANCE Utilities
D == INSTANCE Dates
K == INSTANCE Queues WITH Value <- {1, 2}, Capacity <- 2, PopEmpty <- FALSE

sqlVars == <<fragments_, positional_parameters_, named_parameters_, thrown>>
cookiesVars == <<entries_, set_cookie, failed>>
templateVars == <<template, parameters_, terminated>>
queuesVars == <<arrays, strings, wanted>>
statementVars == <<ps, datum, expected, meant, sent>>
textVars == <<input, machine>>

librariesVars == <<unit, textVars, sqlVars, cookiesVars, templateVars, jrpcVars, optionsVars,
  today, queuesVars, responsesVars, statementVars, objectsVars, composites, bindingsVars, clientsVars, vars>>

-----------------------------------------------------------------------------
(* The symbols of the texts.                                               *)

Parts(names, filenames, types, contents, quoted, padding) ==
  {p \in [entry : [name : names, filename : filenames, content_type : types,
                   charset : {<<>>, <<"text">>}, content : contents],
          quoted : quoted, padding : padding, typeFirst : BOOLEAN,
          empty : SUBSET {"filename", "charset"}] :
     /\ p.entry.content_type = <<>> => p.entry.charset = <<>> /\ ~p.typeFirst /\ "charset" \notin p.empty
     /\ \A param \in p.empty : p.entry[param] = <<>>}

FirstParts ==
  {p \in Parts({<<"a", "b">>}, {<<>>, <<"b">>}, {<<>>, <<"text">>},
               {<<>>, <<"a", "\r", "\n">>, <<"-", "-">>, <<"\n", "--boundary">>}, BOOLEAN, {<<>>, <<" ">>}) :
     (p.quoted \/ p.padding = <<>>) /\ (p.empty # {} => p.entry.content = <<>> /\ ~p.quoted)}
SecondParts ==
  {p \in Parts({<<"b">>}, {<<>>}, {<<>>, <<"text">>}, {<<>>, <<"a", "--boundary">>}, {TRUE}, {<<>>}) :
     p.entry.charset = <<>> /\ ~p.typeFirst}

Strings3 == UNION {[1..n -> {"a", "\"", "{", "}", ",", " ", "NULL"}] : n \in 1..3}
Row == {<<>>, <<{}>>, <<{<<"a">>}, {<<"{">>}>>}

CookieParts(n) ==
  IF n = 1 THEN
    {name \o <<"=">> \o value :
       name \in {<<"a">>, <<>>, <<"__Host-">>, <<"__Secure-", "a">>},
       value \in {<<>>, <<"a">>, <<"a", "(">>, <<"(">>, <<"\"", "\"">>, <<"\"", "(", "\"">>, <<"\"", "(">>}}
  ELSE
    {<<";", " ">> \o attribute :
       attribute \in {<<"Secure">>, <<"HttpOnly">>, <<"Secure", "=", "a">>, <<"Domain", "=", ".", "example">>,
                      <<"Domain", "=", "example">>, <<"Path", "=", "/">>, <<"Path", "=", "/", "a">>,
                      <<"Path", "=">>, <<"Max-Age", "=", "60">>, <<"Max-Age", "=", "a">>,
                      <<"Expires", "=", "date">>, <<"SameSite", "=", "Lax">>, <<"SameSite", "=", "Strict">>,
                      <<"a">>}}

Ids == {J!Member("id", J!Value(type)) : type \in {"int", "float", "string", "bool"}}
Common == {J!Member("jsonrpc", J!Version), J!Member("jsonrpc", J!Value("string")), J!Member("x", J!Null)} \union Ids
RequestMembers ==
  Common \union {J!Member("method", J!Value(type)) : type \in {"string", "rpc.", "int"}}
    \union {J!Member("params", J!Value("int")), J!Member("params", J!Array(<<>>))}
ErrorObjects ==
  {J!Error_object(J!Null), J!Error_object(J!Value("int")), J!Value("int"),
   J!Object(<<J!Member("code", J!Value("string")), J!Member("message", J!Value("string"))>>),
   J!Object(<<J!Member("code", J!Value("int")), J!Member("message", J!Value("string")), J!Member("x", J!Null)>>)}
ResponseMembers ==
  Common \union {J!Member("result", J!Null)} \union {J!Member("error", object) : object \in ErrorObjects}

\* Comments with data, above, below and after a text.
DataComments ==
  [kind : {"one_line", "inline"}, name : {<<"a">>, <<"b", "1">>}, lines : {<<<<"a">>>>}]
    \union [kind : {"one_line"}, name : {<<"a">>}, lines : {<<<<" ", "b">>>>}]
    \union [kind : {"plain", "bordered"}, name : {<<"a">>}, lines : {<<<<"a">>>>, <<<<"a">>, <<" ", "b">>>>}]
    \union [kind : {"bordered"}, name : {<<"a">>}, lines : {<<<<"a">>, <<"*">>>>}]
Spaces == [kind : {"space"}, name : {<<" ">>, <<"\n">>, <<"\n", "\n">>}, lines : {<<>>}]
Text == [kind |-> "text", name |-> <<"a">>, lines |-> <<>>]

ExtraParts ==
  CASE input = <<>> -> DataComments \union {Text}
    [] input # <<>> /\ Last(input).kind = "space" ->
         {Text} \union {p \in DataComments : p.kind \in {"one_line", "bordered"} /\ p.lines = <<<<"a">>>>}
    [] Text \in ToSet(input) /\ P!IsData(Last(input)) -> {Text}
    [] Len(input) = 3 /\ Last(input) = Text /\ input[2].name = <<"\n", "\n">> ->
         {p \in DataComments : p.kind = "inline"}
    [] Len(input) \in 1..3 /\ P!IsData(Last(input)) ->
         {Text} \union Spaces
           \union {p \in DataComments : Len(input) = 1 /\ p.kind \in {"one_line", "bordered"} /\ p.lines = <<<<"a">>>>}
    [] OTHER -> {}

\* Timestamps whose numbers are not written as those of a timestamp.
Timestamps ==
  [weekday : {"Sat", "Sun", "Mon"}, day : {<<" ", "1">>, <<"0", "1">>, <<"+", "2">>, <<"3", "1">>, <<>>},
   month : {"Jan", "Feb", "Apr", "Mai"}, year : {<<"1", "5", "8", "3">>, <<"1", "5", "8", "4">>, <<"1", "5", "8", "2">>},
   hour : {<<"2", "3">>, <<"2", "4">>, <<"-", "1">>}, minute : {<<"5", "9">>}, second : {<<" ", "0">>, <<"6", "0">>},
   zone : {"GMT", "UTC"}]

\* Fields of a row, and columns of SQLite.
Fields ==
  {f \in [name : {"a", "b"}, null : BOOLEAN, value : {<<>>, <<1>>, <<0, 1>>}, format : {"text", "binary"},
          attributes : {1, 2}] :
     (f.null => f.value = <<>>) /\ (f.format = "text" => f.value # <<0, 1>>)}
Columns == [name : {"a", "b", "c"}, value : {<<>>, <<"x">>}]

\* Members of objects of JSON.
JsonIntegers == {-33, -9, -8, -3, -2, -1, 0, 1, 2, 3, 4, 7, 8, 15, 16, 31, 32, 63, 64, 127, 128, 255, 256}
JsonNumbers == [i \in 1..2 |-> N!JsonNumber(IF i = 1 THEN 1 ELSE -3)]
JsonValues ==
  {N!JsonNull, N!Json("bool", 1, <<>>), N!Json("string", 1, <<>>), N!Json("double", 0, <<>>), N!Json("double", 1, <<>>)}
    \union {N!JsonNumber(n) : n \in JsonIntegers}
    \union {N!JsonArray(items) : items \in {<<>>, <<N!JsonNull>>, <<JsonNumbers[1], N!JsonNull>>, <<JsonNumbers[1], JsonNumbers[1]>>, JsonNumbers}}
Members == [name : {<<>>, <<"a">>}, value : JsonValues]

\* Names and values of the parameters of FastCGI.
RecordTexts == {<<>>, <<1>>, <<1, 0, 3>>, <<3, 1, 0, 1, 2>>}

\* Endpoints of a listener and of a client.
IpAddress(family, number) == [family |-> family, number |-> number]
Endpoints ==
  [mode : {"net"}, path : {<<>>}, port : {-1, 0, 1, 3, 5},
   address : {IpAddress("ipv4", 1), IpAddress("ipv4", 2), IpAddress("ipv6", 1), IpAddress("bad", 0), IpAddress("empty", 0)}]
    \union [mode : {"uds"}, path : {<<>>, <<"a">>, <<"b">>, <<"a", "b">>, <<"a", "b", "a">>}, port : {0},
            address : {IpAddress("empty", 0)}]

Symbols ==
  [sql_quotes |-> {"'", "\"", ":", "a", ";"},
   sql_comments |-> {"-", "/", "*", "\n", ":", "a"},
   sql_dollars |-> {"$", "a", "1", ";", "'"},
   sql_brackets |-> {"[", "]", ":", "b", "'", " "},
   sql_vector |-> {"a", ";", "-", "\n", ":", "'"},
   query |-> {97, 61, 38, 37, 43, 50, 54},
   cookie |-> {"a", "=", ";", " ", "("},
   template |-> {"{", "}", " ", "a"},
   text |-> {"a", " ", "\n"},
   quoted |-> {"'", "\\", "a", " "},
   phrase |-> {"\"", "\\", "a", " "},
   entry |-> {"a", "=", "'", " ", "\\", "1"},
   config |-> {<<"a", "=", "1">>, <<"a", "=", "b">>, <<" ", "#", "a">>, <<>>, <<"b", "=", "'", "1", "'">>, <<"a">>,
               <<"a", "=", "'", "'">>},
   arguments |-> {<<"-", "-">>, <<"-", "-", "a">>, <<"-", "-", "a", "=">>, <<"-", "-", "a", "=", "b">>,
                  <<"-", "-", "b", "=", "=", "a">>, <<"-", "-", "=", "b">>, <<"a">>, <<"-">>, <<>>},
   timestamp |-> Timestamps,
   data |-> {<<>>, <<0>>, <<1>>, <<0, 1>>, <<1, 0>>, <<1, 1>>},
   row |-> Fields,
   columns |-> Columns,
   number |-> {" ", "-", "+", "1", "8", "9", "a"},
   word |-> {"t", "r", "u", "e", "o", "n", "f", "0"},
   endpoints |-> Endpoints,
   timeout |-> -4..8,
   pings |-> BOOLEAN,
   intervals |-> [type : G!IntervalType, min : 0..3, max : 0..3],
   sizes |-> 0..(G!Width - 1),
   pairs |-> [pair : [name : RecordTexts, value : RecordTexts], long : BOOLEAN],
   statuses |-> -140..140,
   variables |-> DOMAIN U!Variable \union {"x"},
   routine |-> {<<>>, <<"a">>, <<"b">>, <<"a", "b">>}]

\* Bound: the symbols of each text.
MaxText ==
  [sql_quotes |-> 6, sql_comments |-> 6, sql_dollars |-> 6, sql_brackets |-> 5, sql_vector |-> 5, extra |-> 5,
   query |-> 5, cookie |-> 6, template |-> 7, set_cookie |-> 3, form |-> 2, array |-> 3, matrix |-> 2,
   request |-> 4, response |-> 4, text |-> 6, quoted |-> 6, phrase |-> 6, entry |-> 5, config |-> 3,
   arguments |-> 4, timestamp |-> 1, routine |-> 2, data |-> 3, row |-> 2, columns |-> 3, number |-> 4, word |-> 4,
   members |-> 2, endpoints |-> 2, timeout |-> 1, pings |-> 9,
   intervals |-> 1, sizes |-> 2, pairs |-> 2, statuses |-> 1, variables |-> 5]

SqlTexts == {"sql_quotes", "sql_comments", "sql_dollars", "sql_brackets"}
Texts == DOMAIN MaxText

\* What may follow the text.
Following ==
  LET n == Len(input) + 1 IN
  CASE unit = "set_cookie" -> CookieParts(n)
    [] unit = "extra" -> ExtraParts
    [] unit = "form" -> IF n = 1 THEN FirstParts ELSE SecondParts
    [] unit = "array" -> {{}} \union {{s} : s \in IF n = 1 THEN Strings3 ELSE {<<"a">>, <<"}", "\"">>}}
    [] unit = "matrix" -> {{row} : row \in Row}
    [] unit = "request" -> RequestMembers
    [] unit = "response" -> ResponseMembers
    [] unit = "members" -> Members
    [] OTHER -> Symbols[unit]

\* The reader of the text has not refused it yet, nor come to its end.
Reading ==
  CASE unit \in SqlTexts -> machine.status = "reading"
    [] unit = "query" -> Q!Machine(input).what = "reading"
    [] OTHER -> TRUE

Grow ==
  /\ unit \in Texts /\ Len(input) < MaxText[unit] /\ Reading
  /\ \E symbol \in Following :
       /\ input' = Append(input, symbol)
       /\ machine' = IF unit \in SqlTexts THEN P!Step(machine, symbol) ELSE machine

Objects == {"sql_string", "cookies", "set_cookies", "templates", "requests", "statements", "options", "listener_options",
            "calendar", "arrays", "strings", "responses", "statement", "objects", "composites", "bindings",
            "clients"}

LibrariesInit ==
  /\ unit \in Texts \union Objects
  /\ input = <<>> /\ machine = P!Start
  /\ Init /\ S!Init /\ B!PsInit /\ L!LoInit /\ V!CompositesInit /\ I!BindingsInit /\ W!ClientsInit
  /\ C!Init /\ (unit # "set_cookies" => set_cookie.name = <<"a">> /\ set_cookie.value = <<>>)
  /\ J!Init /\ (unit # "requests" => ~J!Has(request, "id"))
  /\ O!Init /\ (unit # "options" => options_.communication_mode = "uds")
  /\ D!Init /\ (unit # "calendar" => today.ts.year = 1583)
  /\ K!Init /\ arrays[1].data = [i \in 1..2 |-> 1]
  /\ R!Init
  /\ unit # "responses" =>
       calling = [has_error_parameter |-> FALSE, on_exception |-> "complete", error_handler |-> "none"]
  /\ T!Init /\ (unit # "templates" => template = <<T!Text(<<"x">>)>>)

LibrariesNext ==
  /\ UNCHANGED unit
  /\ IF unit = "cookies" THEN C!Cookie_call
     ELSE IF unit = "set_cookies" THEN C!SetCookie_call ELSE UNCHANGED cookiesVars
  /\ IF unit = "templates" THEN T!Next ELSE UNCHANGED templateVars
  /\ IF unit = "requests" THEN J!Next ELSE UNCHANGED jrpcVars
  /\ IF unit = "calendar" THEN D!Next ELSE UNCHANGED today
  /\ IF unit = "arrays" THEN K!Array_call ELSE IF unit = "strings" THEN K!String_call ELSE UNCHANGED queuesVars
  /\ IF unit = "responses" THEN R!Next ELSE UNCHANGED responsesVars
  /\ IF unit = "sql_string" THEN S!Next ELSE UNCHANGED sqlVars
  /\ IF unit = "options" THEN O!SetConnection
     ELSE IF unit = "listener_options" THEN O!SetListener ELSE UNCHANGED optionsVars
  /\ IF unit = "bindings" THEN I!BindingsNext ELSE UNCHANGED bindingsVars
  /\ IF unit = "clients" THEN W!ClientsNext ELSE UNCHANGED clientsVars
  /\ IF unit = "composites" THEN V!CompositesNext ELSE UNCHANGED composites
  /\ IF unit \in Texts THEN Grow ELSE UNCHANGED textVars
  /\ IF unit = "statement" THEN B!PsNext ELSE UNCHANGED statementVars
  /\ IF unit = "objects" THEN L!LoNext ELSE UNCHANGED objectsVars
  /\ IF unit = "statements" THEN Next ELSE UNCHANGED vars

LibrariesSpec == LibrariesInit /\ [][LibrariesNext]_librariesVars

\* What a state is told by: the variables of the other units do not change, and those of
\* the unit are these. The preparser's machine is what the text makes of it.
LibrariesView ==
  <<unit,
    CASE unit \in Texts -> input
      [] unit = "sql_string" -> sqlVars
      [] unit \in {"cookies", "set_cookies"} -> cookiesVars
      [] unit = "templates" -> templateVars
      [] unit = "requests" -> jrpcVars
      [] unit \in {"options", "listener_options"} -> optionsVars
      [] unit = "calendar" -> today
      [] unit \in {"arrays", "strings"} -> queuesVars
      [] unit = "responses" -> responsesVars
      [] unit = "statement" -> statementVars
      [] unit = "objects" -> objectsVars
      [] unit = "composites" -> composites
      [] unit = "bindings" -> bindingsVars
      [] unit = "clients" -> clientsVars
      [] unit = "statements" -> vars>>

-----------------------------------------------------------------------------
(* The properties of the instances (those of Sqlite are used as they are). *)

\* What the preparser makes of the text.
SqlEnd == IF machine.status = "reading" THEN P!Finish(machine) ELSE machine

\* A character is not followed by itself, or by another one, in the text.
Apart(c, d) == \A i \in 1..(Len(input) - 1) : ~(input[i] = c /\ input[i + 1] = d)

\* SQL: the fragments are the text up to the semicolon. Two quotes that are the
\* escape of one are made one, and a comment's CR LF an LF: those are left out.
SqlKept ==
  LET written == P!To_string(SqlEnd.fragments)
      text == IF machine.status = "done" THEN Front(input) ELSE input
  IN
  SqlEnd.status = "done" /\ Apart("'", "'") /\ Apart("\"", "\"") =>
    written \in {text, Append(text, "\n")}

\* SQL, as the comment above parse_sql_input() says how a quote is included in a string
\* constant, by two adjacent ones: what is written of a text has as many quotes as it.
DoubledQuotesKept ==
  LET Quotes(text) == {i \in DOMAIN text : text[i] = "'"} IN
  unit = "sql_quotes" /\ SqlEnd.status = "done" =>
    Cardinality(Quotes(P!To_string(SqlEnd.fragments))) = Cardinality(Quotes(input))

\* SQL: a text whose tokens are apart has the parameters and the comments of PostgreSQL's
\* lexical rules, in their order, and is read to its end.
SqlParts ==
  P!Separated(input) =>
    /\ SqlEnd.status = "done" /\ SqlEnd.consumed = Len(input)
    /\ P!Parts(input) = P!OfKinds(SqlEnd.fragments)

\* Those of pgfe that are about a text.
PgfeTextsRead ==
  /\ unit \in SqlTexts => SqlKept /\ SqlParts
  /\ unit = "extra" => P!ExtraRead(input)
  /\ unit = "sql_vector" => P!VectorRead(input)
  /\ unit = "array" => N!ArrayRead(input, 1)
  /\ unit = "matrix" => N!ArrayRead(input, 2)
  /\ unit = "row" => V!RowRead(input)
  /\ unit = "number" => N!NumberRead(input) /\ (input = <<>> => N!NumbersExchanged)
  /\ unit = "word" => N!BoolRead(input)
  /\ unit = "routine" => B!InvokedAsGiven(input)
  /\ unit = "data" /\ Len(input) = 3 => V!DataKept(input[1], input[2], input[3])

\* pgfe: what is written of an SQL text, and read of an array literal, of the data in the
\* comments, of the fields of a row or of a number or a word in either format, is what it
\* says; the parameters of a composed SQL string are numbered, each with what has been
\* bound to it is sent, and data have one owner and are what they are made of.
PgfeDataKept ==
  /\ unit \in Texts => PgfeTextsRead
  /\ unit = "sql_string" => S!QueryNumbered
  /\ unit = "statement" => B!ParametersSent
  /\ unit = "composites" => V!CompositesKept

\* pgfe, sqlixx and wscl: the rows and the error of a response reach the caller, a large
\* object keeps its descriptor, memory that a parameter is bound with is there when the
\* statement is executed and is freed once, the handlers of a WebSocket client are called
\* in their order, and a socket is closed by the client it has been opened for.
ObjectsKept ==
  /\ unit = "responses" => R!RowsKept /\ R!ErrorsReported
  /\ unit = "objects" => L!DescriptorsOwned
  /\ unit = "bindings" => I!BindingsKept
  /\ unit = "clients" => W!HandlersInOrder /\ W!SocketsOwned

\* pgfe and ws: in whatever order they are called, no call but the one that removes the
\* authority of a verification in use breaks the invariant of the options, and libpq and
\* uWebSockets are told what the options say.
OptionsKept ==
  /\ [](/\ unit = "options" => O!InvariantKept /\ O!LibpqTold
        /\ unit = "listener_options" => O!IdleTimeoutTold)
  /\ [][unit = "options" => O!OnlyAuthorityLost]_optionsVars

\* mulf: of what a client sends of a form every entry is read, whatever is before and
\* after the parts, but a filename or a charset given as "" terminates the program; what
\* is cut is refused, but terminates the program if the cut is behind the delimiter before
\* a part, or in the padding there. Every entry is found by its name.
FormsRead ==
  LET Empty == \E i \in DOMAIN input : input[i].empty # {}
      Read(data) ==
        F!Form_data(data) = IF Empty THEN F!Result("terminated", <<>>)
                            ELSE F!Result("parsed", [i \in DOMAIN input |-> F!Made(input[i].entry)])
      Padding(data) ==
        \E n \in 1..Len(data) :
          /\ IsSuffix(F!Delimiter \o SubSeq(data, n + 1, Len(data)), data)
          /\ ToSet(SubSeq(data, n + 1, Len(data))) \subseteq F!Hws \union {"\r"}
      Refused(what, data) == what = "thrown" \/ (what = "terminated" /\ Padding(data))
      CutRefused(data) ==
        \A n \in 1..(Len(data) - 1) : Refused(F!Form_data(SubSeq(data, 1, n)).what, SubSeq(data, 1, n))
      ReadCut(data) == Read(data) /\ (Len(input) = 1 /\ ~Empty => CutRefused(data))
  IN
  unit = "form" /\ input # <<>> =>
    /\ F!EntriesFound([i \in DOMAIN input |-> input[i].entry] \o <<F!Made(input[1].entry)>>)
    /\ Read(F!Encode(input, <<"a", "\r", "\n">>, <<"\r", "\n", "a">>))
    /\ ReadCut(F!Encode(input, <<>>, <<>>))

\* url, http and fcgi: the query of a target, the cookies of a head, and the parameters
\* and the numbers of records are read as they are written, a cookie that is made by calls
\* is written as it is read, and the values that are asked for are answered.
HeadTextsRead ==
  /\ unit \in {"cookies", "set_cookies"} => C!Kept
  /\ unit \in Texts =>
       /\ unit = "query" => Q!Read(input)
       /\ unit = "cookie" => C!CookieRead(input)
       /\ unit = "set_cookie" /\ input # <<>> => C!SetCookieRead(input)
       /\ unit = "pairs" => U!NamesRead(input)
       /\ unit = "statuses" /\ input # <<>> => U!RecordRead(Last(input))
       /\ unit = "variables" => U!ValuesAnswered(input)

\* ttpl: a template keeps its text and its parameters.
TemplatesKept ==
  /\ unit = "template" => T!TextKept(input)
  /\ unit = "templates" => T!ParametersMatch

\* jrpc and rajson: requests and responses are those of JSON-RPC 2.0, and members are read
\* in the types that have their values.
JrpcUnderstood ==
  /\ unit = "requests" => J!Understood /\ J!Fetched
  /\ unit = "request" => J!RequestChecked(input)
  /\ unit = "response" => J!ResponseChecked(input)
  /\ unit = "members" => N!MembersRead(input)

\* Those of the other libraries that are about a text.
UtilityTextsRead ==
  /\ unit = "text" => G!HelpersAgree(input)
  /\ unit \in {"quoted", "phrase"} => G!QuotesRead(input)
  /\ unit = "entry" => G!EntryRead(input)
  /\ unit = "config" => G!ConfigRead(input)
  /\ unit = "arguments" => G!ParametersRead(input)
  /\ unit = "timestamp" /\ input # <<>> => D!TimestampRead(Last(input))
  /\ unit = "columns" => I!ColumnsRead(input)
  /\ unit = "endpoints" /\ Len(input) = 2 => H!EndpointsReached(input[1], input[2])
  /\ unit = "timeout" /\ input # <<>> => H!TimeoutsTold(Last(input))
  /\ unit = "pings" => \A interval \in 0..4 : W!SilenceNoticed(interval, input)
  /\ unit = "intervals" /\ input # <<>> => G!IntervalKept(Last(input).type, Last(input).min, Last(input).max)
  /\ unit = "sizes" /\ Len(input) = 2 => G!SizesAligned(input[1], input[2])

\* str, cfg, progpar, dt, math and que: the helpers agree with each other, quoted texts,
\* configuration files, command lines and timestamps are read as what they say, days are
\* counted as the calendar does, and the containers are queues. sqlixx: a column is read by
\* its name as by its index. net: a client reaches the listener of its endpoint. wscl: a
\* silent server is noticed.
UtilitiesKept ==
  /\ unit \in Texts => UtilityTextsRead
  /\ unit = "calendar" => D!CalendarKept
  /\ unit \in {"arrays", "strings"} => K!QueuesAgree
=============================================================================
