------------------------------ MODULE FastCGI ------------------------------
(***************************************************************************)
(* A FastCGI server connection (src/fcgi): the request accepted by the     *)
(* listener, the input stream that takes the content of the records of the *)
(* request out of the buffer, and the two output streams.                  *)
(*                                                                         *)
(* A byte of the connection is a cell, and what is on the wire is chosen   *)
(* when the reader gets to it: the record whose header has been completed. *)
(* Fill reads any number of cells, so that content, padding and headers    *)
(* fall on every side of the buffer's end.                                 *)
(***************************************************************************)
EXTENDS Integers, Sequences, FiniteSetsExt

CONSTANTS
  HeaderSize,  \* cells of a record header (8 bytes in the code)
  BufferSize,  \* cells of the buffer of the input stream (16384 bytes)
  MaxContent,  \* the longest content of a record
  MaxPadding,  \* the longest padding of a record
  PutSize,     \* cells of the put area of an output stream
  MaxRecords,  \* bound: records the client sends after the begin-request
  MaxWrites    \* bound: cells the application writes

VARIABLES
  stage,     \* what the server does with the connection
  role,      \* role_ of the request
  type,      \* type_ of the input streambuf
  get,       \* cells in the get area: [gptr(), egptr())
  ahead,     \* cells of the buffer after the get area: [egptr(), buffer_end_)
  unread,    \* unread_content_length_
  padding,   \* unread_padding_length_
  discard,   \* is_content_must_be_discarded_
  eos,       \* is_end_of_stream_ of the input streambuf
  call,      \* underflow(): "idle", at the "top" of its loop or in its "body";
             \* "values" when the get-values record in process has been read
  read,      \* read_header_length of the underflow() in progress
  header,    \* the last header processed
  nested,    \* headers of the get-values records in process, each of which reads
             \* its variables by an underflow() within underflow()
  put,       \* output stream |-> cells in its put area
  consumed,  \* output stream |-> is_put_area_at_least_once_consumed_
  closed,    \* output stream |-> is_closed() (is_end_of_stream_ is set with it)
  io,        \* "ok", or "broken" when the client has gone
  reply,     \* records written for the request, each run of a kind kept once
  owed,      \* history: content of the request's streams sent but not delivered
  astray,    \* history: something else than its content went to a reader
  provoked,  \* history: the kinds of unusual records the client has sent, or
             \* that were read across the records it has sent
  records,   \* records read so far
  writes     \* cells written so far

ASSUME FastCGIAssumption ==
  /\ HeaderSize \in Nat \ {0} /\ BufferSize \in Nat \ {0}
  /\ MaxContent \in Nat \ {0} /\ MaxPadding \in Nat /\ PutSize \in Nat

reader == <<type, get, ahead, unread, padding, discard, eos, call, read, header, nested>>
writers == <<put, consumed, closed>>
history == <<owed, astray, provoked>>
bounds == <<records, writes>>
vars == <<stage, role, reader, writers, io, reply, history, bounds>>

Roles == {"responder", "authorizer", "filter"}
Outputs == {"err", "out"}
StreamTypes == {"params", "in", "data"}

\* What the header of a record says. The record is of this request ("own"), of
\* another one ("other"), or a management record ("null").
Record ==
  [id : {"own", "other"}, type : StreamTypes, length : 0..MaxContent, padding : 0..MaxPadding]
    \union [id : {"own", "other"}, type : {"begin"}, length : {1}, padding : {0}]
    \union [id : {"null"}, type : {"get_values", "unknown"}, length : 0..1, padding : {0}]

NoHeader == [id |-> "none", type |-> "none", length |-> 0, padding |-> 0]

\* What is unusual about a record in a stream of the given type: it is not what
\* a client with one request on the connection has to send there.
Unusual(r, t) ==
  CASE r.id = "null" -> {"management"}
    [] r.id = "other" -> {"foreign"}
    [] r.id = "own" /\ r.type # t -> {"violation"}
    [] r.id = "own" /\ r.type = t /\ r.length = 0 /\ r.padding > 0 -> {"padded_end"}
    [] OTHER -> {}

\* Records of the reply: of a stream, its end, the end of the request, and the answers
\* that refuse it.
Kind == Outputs \union {"err_end", "out_end", "end_request", "reject", "unknown_role", "cant_mpx_conn"}

\* The reply with one more record.
Sent(log, kind) == IF log # <<>> /\ log[Len(log)] = kind THEN log ELSE Append(log, kind)

Init ==
  /\ stage = "listening" /\ role = "responder"
  /\ type = "params" /\ get = 0 /\ ahead = 0 /\ unread = 0 /\ padding = 0
  /\ discard = FALSE /\ eos = FALSE
  /\ call = "idle" /\ read = 0 /\ header = NoHeader /\ nested = <<>>
  /\ put = [s \in Outputs |-> 0]
  /\ consumed = [s \in Outputs |-> FALSE]
  /\ closed = [s \in Outputs |-> FALSE]
  /\ io = "ok" /\ reply = <<>>
  /\ owed = 0 /\ astray = FALSE /\ provoked = {}
  /\ records = 0 /\ writes = 0

-----------------------------------------------------------------------------
(* The listener and the client.                                            *)

\* accept() of a begin-request record: a known role makes a connection, whose
\* input stream is constructed by reading the parameters; an unknown role, or
\* any other record, is answered by an end-request record and an exception. A
\* header that arrives in two parts is refused without an answer. The padding of
\* the begin-request stays in the descriptor: the input stream takes its first
\* cells for those of a header.
Accept ==
  /\ stage = "listening"
  /\ \/ /\ \E r \in Roles : role' = r
        /\ stage' = "params"
        /\ \/ UNCHANGED <<astray, provoked>>
           \/ /\ MaxPadding > 0
              /\ astray' = TRUE /\ provoked' = provoked \union {"padded_begin"}
        /\ UNCHANGED reply
     \/ /\ stage' = "refused"
        /\ reply' \in {<<"unknown_role">>, <<"cant_mpx_conn">>, reply}
        /\ UNCHANGED <<role, astray, provoked>>
  /\ UNCHANGED <<reader, writers, io, owed, bounds>>

\* The client goes away: reads return nothing, writes throw.
Vanish ==
  /\ stage \in {"params", "serving", "bad"} /\ io = "ok"
  /\ io' = "broken"
  /\ UNCHANGED <<stage, role, reader, writers, reply, history, bounds>>

-----------------------------------------------------------------------------
(* underflow() of the input streambuf, one action per part of its loop.    *)

\* The loop is at its top again: it reads only when the buffer is exhausted.
Top(cells) == IF cells = 0 THEN "top" ELSE "body"

\* A character is wanted of the empty get area: by the constructor of
\* Names_values for the parameters, or by the application.
Underflow ==
  /\ call = "idle" /\ get = 0 /\ ~eos
  /\ stage \in {"params", "serving"}
  /\ call' = Top(ahead) /\ read' = 0
  /\ UNCHANGED <<stage, role, type, get, ahead, unread, padding, discard, eos, header, nested,
                 writers, io, reply, history, bounds>>

\* The content goes to the one who called underflow(); the variables of a
\* get-values record call it again.
Consume ==
  /\ call = "idle" /\ get > 0
  /\ stage \in {"params", "serving"}
  /\ get' = get - 1
  /\ UNCHANGED <<stage, role, type, ahead, unread, padding, discard, eos, call, read, header,
                 nested, writers, io, reply, history, bounds>>

\* An exception thrown by underflow() is caught by the std::istream that called
\* it, which sets badbit: for the variables of a get-values record this is the
\* end of input, the constructor of the input stream throws, and the
\* application sees a bad stream.
Raise ==
  /\ call' = IF nested = <<>> THEN "idle" ELSE "values"
  /\ stage' = CASE nested # <<>> -> stage
               [] nested = <<>> /\ stage = "params" -> "refused"
               [] OTHER -> "bad"

Fill ==
  /\ call = "top"
  /\ \/ /\ io = "ok"
        /\ \E n \in 1..BufferSize : ahead' = n
        /\ call' = "body"
        /\ UNCHANGED stage
     \/ /\ io = "broken"
        /\ Raise /\ UNCHANGED ahead
  /\ UNCHANGED <<role, type, get, unread, padding, discard, eos, read, header, nested, writers,
                 io, reply, history, bounds>>

\* Mutant: the content ends with the buffer.
TakeContent_whole ==
  /\ call = "body" /\ unread > 0 /\ ~discard
  /\ LET n == Min({unread, ahead})
         proper == IF nested = <<>> THEN header.id = "own" ELSE header.type = "get_values"
     IN
     /\ unread' = 0 /\ ahead' = ahead - n
     /\ get' = IF nested = <<>> THEN n ELSE 0
     /\ call' = IF nested = <<>> THEN "idle" ELSE Top(ahead - n)
     /\ read' = 0
     /\ astray' = (astray \/ ~proper)
     /\ owed' = IF nested = <<>> /\ proper /\ ~astray THEN owed - n ELSE owed
  /\ UNCHANGED <<stage, role, type, padding, discard, eos, header, nested, writers, io, reply,
                 provoked, bounds>>

\* The available content becomes the get area and underflow() returns. Within a
\* get-values record it is read at once and underflow() is called again.
TakeContent ==
  /\ call = "body" /\ unread > 0 /\ ~discard
  /\ LET n == Min({unread, ahead})
         proper == IF nested = <<>> THEN header.id = "own" ELSE header.type = "get_values"
     IN
     /\ unread' = unread - n /\ ahead' = ahead - n
     /\ get' = IF nested = <<>> THEN n ELSE 0
     /\ call' = IF nested = <<>> THEN "idle" ELSE Top(ahead - n)
     /\ read' = 0
     /\ astray' = (astray \/ ~proper)
     /\ owed' = IF nested = <<>> /\ proper /\ ~astray THEN owed - n ELSE owed
  /\ UNCHANGED <<stage, role, type, padding, discard, eos, header, nested, writers, io, reply,
                 provoked, bounds>>

DiscardContent ==
  /\ call = "body" /\ unread > 0 /\ discard
  /\ LET n == Min({unread, ahead}) IN
     /\ unread' = unread - n /\ ahead' = ahead - n
     /\ discard' = (n < unread)
     /\ call' = IF n < unread THEN "top" ELSE "body"
  /\ UNCHANGED <<stage, role, type, get, padding, eos, read, header, nested, writers, io, reply,
                 history, bounds>>

SkipPadding ==
  /\ call = "body" /\ unread = 0 /\ padding > 0
  /\ LET n == Min({padding, ahead}) IN
     /\ padding' = padding - n /\ ahead' = ahead - n
     /\ call' = IF n < padding THEN "top" ELSE "body"
  /\ UNCHANGED <<stage, role, type, get, unread, discard, eos, read, header, nested, writers, io,
                 reply, history, bounds>>

\* Only a part of the header is in the buffer.
AccumulateHeader ==
  /\ call = "body" /\ unread = 0 /\ padding = 0
  /\ HeaderSize - read > ahead
  /\ read' = read + ahead /\ ahead' = 0 /\ call' = "top"
  /\ UNCHANGED <<stage, role, type, get, unread, padding, discard, eos, header, nested, writers,
                 io, reply, history, bounds>>

\* The header of record r is complete. Nothing resets read_header_length, so
\* that a second pass through the loop processes the same header again. After
\* a padded begin-request it is any, read across the records. (Bound: one unusual
\* record, and the first header after a padded begin-request.)
Completes(r) ==
  LET need == HeaderSize - read
      again == need = 0
      isOurs == r.id = "own" /\ r.type = type
  IN
  /\ call = "body" /\ unread = 0 /\ padding = 0 /\ need <= ahead
  /\ IF again THEN r = header /\ UNCHANGED records
              ELSE /\ records < MaxRecords /\ records' = records + 1
                   /\ \/ Unusual(r, type) = {} \/ provoked = {}
                      \/ provoked = {"padded_begin"} /\ records = 0
  /\ ahead' = ahead - need /\ header' = r
  /\ provoked' = IF again THEN provoked ELSE provoked \union Unusual(r, type)
  /\ owed' = IF isOurs /\ ~again /\ ~astray THEN owed + r.length ELSE owed
  /\ UNCHANGED <<role, get, writers, io, writes>>

\* process_header() asserts that the content is not longer than the buffer.
Fits(r) == r.length <= BufferSize

\* What the loop goes on with when process_header() has returned.
Continues(r) ==
  /\ unread' = r.length /\ padding' = r.padding /\ read' = HeaderSize
  /\ call' = IF Fits(r) THEN Top(ahead') ELSE "idle"
  /\ stage' = IF Fits(r) THEN stage ELSE "terminated"
  /\ astray' = (astray \/ read = HeaderSize)

\* A record of another request, or a begin-request: its content is discarded.
\* A begin-request is answered; the answer to one of the own identifier is a
\* record of this request.
Discarded(r) ==
  /\ Completes(r)
  /\ r.type = "begin" \/ r.id = "other"
  /\ r.type = "begin" => io = "ok"
  /\ reply' = IF r.type = "begin" /\ r.id = "own" THEN Sent(reply, "reject") ELSE reply
  /\ Continues(r)
  /\ discard' = Fits(r)
  /\ UNCHANGED <<type, eos, nested>>

\* A management record other than get-values is answered by an unknown-type record.
UnknownType(r) ==
  /\ Completes(r)
  /\ r.id = "null" /\ r.type = "unknown" /\ io = "ok"
  /\ Continues(r)
  /\ UNCHANGED <<type, discard, eos, nested, reply>>

\* Names_values of a get-values record starts to read the same streambuf.
GetValues(r) ==
  /\ Completes(r)
  /\ r.id = "null" /\ r.type = "get_values"
  /\ unread' = r.length /\ padding' = r.padding
  /\ nested' = Append(nested, r)
  /\ call' = IF eos THEN "values" ELSE Top(ahead')
  /\ read' = 0
  /\ astray' = (astray \/ read = HeaderSize)
  /\ UNCHANGED <<stage, type, discard, eos, reply>>

\* A record of the stream, with content.
Content(r) ==
  /\ Completes(r)
  /\ r.id = "own" /\ r.type = type /\ r.length > 0
  /\ Continues(r)
  /\ UNCHANGED <<type, discard, eos, nested, reply>>

\* The last record of the stream: underflow() returns eof. A Filter's reader is
\* reset from the standard input to the data. The constructor of the input
\* stream, which reads the parameters, resets the reader to the standard input,
\* unless the request is of an authorizer; malformed parameters make it throw.
EndOfStream(r) ==
  /\ Completes(r)
  /\ r.id = "own" /\ r.type = type /\ r.length = 0
  /\ \E wellFormed \in BOOLEAN :
       LET toData == role = "filter" /\ type = "in"
           toIn == nested = <<>> /\ stage = "params" /\ wellFormed /\ role # "authorizer"
           reset == toData \/ toIn
       IN
       /\ wellFormed \/ (nested = <<>> /\ stage = "params")
       /\ type' = CASE toData -> "data" [] toIn -> "in" [] OTHER -> type
       /\ eos' = ~reset
       /\ discard' = (discard /\ ~reset)
       /\ unread' = 0
       /\ padding' = IF reset THEN 0 ELSE r.padding
       /\ read' = 0
       /\ astray' = (astray \/ read = HeaderSize \/ (reset /\ r.padding > 0))
       /\ call' = IF nested = <<>> THEN "idle" ELSE "values"
       /\ stage' = CASE nested = <<>> /\ stage = "params" /\ wellFormed -> "serving"
                    [] nested = <<>> /\ stage = "params" /\ ~wellFormed -> "refused"
                    [] OTHER -> stage
  /\ UNCHANGED <<nested, reply>>

\* An exception of process_header(): a record of another stream of the request,
\* which is answered by an end-request record of the request; an answer that
\* cannot be written; or a header that is none.
BadHeader(r) ==
  /\ Completes(r)
  /\ \/ r.id = "own" /\ r.type # type /\ r.type # "begin"
     \/ io = "broken" /\ (r.type = "begin" \/ r.type = "unknown")
     \/ astray
  /\ reply' = IF io = "ok" /\ r.id = "own" /\ r.type \notin {type, "begin"}
              THEN Sent(reply, "reject") ELSE reply
  /\ unread' = r.length /\ padding' = r.padding /\ read' = 0
  /\ Raise
  /\ UNCHANGED <<type, discard, eos, nested, astray>>

ProcessHeader ==
  \E r \in Record :
    \/ Discarded(r) \/ UnknownType(r) \/ GetValues(r)
    \/ Content(r) \/ EndOfStream(r) \/ BadHeader(r)

\* The variables of the get-values record have been read up to an eof. They are
\* answered and the underflow() that met the record goes on, or it throws.
Values ==
  /\ call = "values"
  /\ LET h == nested[Len(nested)]
         rest == SubSeq(nested, 1, Len(nested) - 1)
     IN
     /\ nested' = rest
     /\ \/ /\ unread = 0 /\ io = "ok"
           /\ call' = Top(ahead) /\ read' = HeaderSize /\ header' = h
           /\ UNCHANGED stage
        \/ /\ call' = IF rest = <<>> THEN "idle" ELSE "values"
           /\ stage' = CASE rest # <<>> -> stage
                        [] rest = <<>> /\ stage = "params" -> "refused"
                        [] OTHER -> "bad"
           /\ UNCHANGED <<read, header>>
  /\ UNCHANGED <<role, type, get, ahead, unread, padding, discard, eos, writers, io, reply,
                 history, bounds>>

-----------------------------------------------------------------------------
(* The output streams.                                                     *)

\* The application may use the connection: no underflow() is in progress.
Using == stage \in {"serving", "bad"} /\ call = "idle"

\* A character goes into the put area. When that is full, overflow() sends the
\* area and the character as one record.
Write(s) ==
  /\ Using /\ writes < MaxWrites
  /\ writes' = writes + 1
  /\ \/ /\ put[s] < PutSize
        /\ put' = [put EXCEPT ![s] = @ + 1]
        /\ UNCHANGED <<consumed, reply>>
     \/ /\ put[s] = PutSize /\ io = "ok"
        /\ put' = [put EXCEPT ![s] = 0]
        /\ consumed' = [consumed EXCEPT ![s] = TRUE]
        /\ reply' = Sent(reply, s)
  /\ ~closed[s]
  /\ UNCHANGED <<stage, role, reader, closed, io, history, records>>

\* sync(): what is in the put area is sent.
Flush(s) ==
  /\ Using /\ io = "ok" /\ put[s] > 0 /\ ~closed[s]
  /\ put' = [put EXCEPT ![s] = 0]
  /\ consumed' = [consumed EXCEPT ![s] = TRUE]
  /\ reply' = Sent(reply, s)
  /\ UNCHANGED <<stage, role, reader, closed, io, history, bounds>>

\* A Filter's output streams refuse to close while unread standard input remains.
MayClose == role # "filter" \/ type = "data" \/ unread = 0

\* The records close() of stream s adds to the reply: the put area, the end of
\* the stream (none for standard error on which nothing was written) and, after
\* the standard output, the end of the request.
Flushed(log, s) == IF put[s] > 0 THEN Sent(log, s) ELSE log

Ended(log, s) ==
  CASE closed[s] -> log
    [] ~closed[s] /\ s = "err" ->
         IF put[s] > 0 \/ consumed[s] THEN Append(Flushed(log, s), "err_end") ELSE log
    [] OTHER -> Append(Append(Flushed(log, s), "out_end"), "end_request")

\* Mutant: the standard output is closed first.
CloseStreams_out_first ==
  \/ /\ MayClose /\ io = "ok"
     /\ reply' = Ended(Ended(reply, "out"), "err")
     /\ closed' = [s \in Outputs |-> TRUE]
  \/ /\ ~(MayClose /\ io = "ok")
     /\ closed' = [closed EXCEPT !["err"] = @ \/ (MayClose /\ put["err"] = 0 /\ ~consumed["err"])]
     /\ UNCHANGED reply

\* close() of the connection: err, out and in, in this order. When the client
\* has gone, only a standard error on which nothing was written can be closed.
CloseStreams ==
  \/ /\ MayClose /\ io = "ok"
     /\ reply' = Ended(Ended(reply, "err"), "out")
     /\ closed' = [s \in Outputs |-> TRUE]
  \/ /\ ~(MayClose /\ io = "ok")
     /\ closed' = [closed EXCEPT !["err"] = @ \/ (MayClose /\ put["err"] = 0 /\ ~consumed["err"])]
     /\ UNCHANGED reply

Close ==
  /\ Using
  /\ CloseStreams
  /\ stage' = IF closed'["out"] THEN "closed" ELSE stage
  /\ UNCHANGED <<role, reader, put, consumed, io, history, bounds>>

\* Mutant: the destructor closes the standard error only.
Destroy_err ==
  /\ Using \/ stage = "closed"
  /\ stage' = "destroyed"
  /\ closed' = [closed EXCEPT !["err"] = TRUE]
  /\ reply' = Ended(reply, "err")
  /\ UNCHANGED <<role, reader, put, consumed, io, history, bounds>>

\* The destructor closes the connection and only reports an exception of that.
Destroy ==
  /\ \/ Using /\ CloseStreams
     \/ stage = "closed" /\ UNCHANGED <<reply, closed>>
  /\ stage' = "destroyed"
  /\ UNCHANGED <<role, reader, put, consumed, io, history, bounds>>

-----------------------------------------------------------------------------

Next ==
  \/ Accept \/ Vanish
  \/ Underflow \/ Consume \/ Fill \/ TakeContent \/ DiscardContent \/ SkipPadding
  \/ AccumulateHeader \/ ProcessHeader \/ Values
  \/ \E s \in Outputs : Write(s) \/ Flush(s)
  \/ Close \/ Destroy

Spec == Init /\ [][Next]_vars

TypeOK ==
  /\ stage \in {"listening", "params", "serving", "bad", "closed", "destroyed", "refused",
                "terminated"}
  /\ role \in Roles /\ type \in StreamTypes
  /\ get \in 0..BufferSize /\ ahead \in 0..BufferSize
  /\ unread \in 0..MaxContent /\ padding \in 0..MaxPadding
  /\ discard \in BOOLEAN /\ eos \in BOOLEAN
  /\ call \in {"idle", "top", "body", "values"}
  /\ read \in 0..HeaderSize
  /\ header \in Record \union {NoHeader} /\ nested \in Seq(Record)
  /\ put \in [Outputs -> 0..PutSize]
  /\ consumed \in [Outputs -> BOOLEAN] /\ closed \in [Outputs -> BOOLEAN]
  /\ io \in {"ok", "broken"} /\ reply \in Seq(Kind)
  /\ owed \in Int /\ astray \in BOOLEAN

\* Wherever the end of the buffer falls in contents, paddings and headers, each
\* byte of the content of the request's streams reaches the reader of its stream
\* once, nothing else does, and eof is reported after the last one; as long as the
\* client sends the records of this request only, unpadded at its begin and at a
\* stream's end.
ContentDelivered ==
  provoked = {} => ~astray /\ owed = unread /\ (eos => owed = 0) /\ nested = <<>>

\* The reply is a well formed sequence of records: nothing of a stream follows its
\* end, the end of the standard output is followed by the end of the request, and
\* the request ends once, unless the client breaks the protocol.
ReplyWellFormed ==
  \A i, j \in DOMAIN reply :
    /\ i < j => reply[i] # "end_request"
    /\ i < j /\ reply[i] = "err_end" => reply[j] \notin {"err", "err_end"}
    /\ i < j /\ reply[i] = "out_end" => reply[j] = "end_request"
    /\ reply[i] = "reject" => "violation" \in provoked

\* A connection is not destroyed before the end of the request has been sent, but
\* when the client has gone, or a Filter has not read its standard input.
RequestAnswered ==
  stage = "destroyed" =>
    \/ reply # <<>> /\ reply[Len(reply)] = "end_request"
    \/ io = "broken"
    \/ role = "filter" /\ type = "in" /\ unread > 0
=============================================================================
