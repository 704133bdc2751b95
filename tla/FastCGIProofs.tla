--------------------------- MODULE FastCGIProofs ---------------------------
(***************************************************************************)
(* Proofs about module FastCGI, for every size of the buffer, of a header, *)
(* of the contents and of the paddings, and every number of records.       *)
(***************************************************************************)
EXTENDS FastCGI, TLAPS

-----------------------------------------------------------------------------
(* Types.                                                                  *)

LEMMA MinOfTwo ==
  ASSUME NEW a \in Nat, NEW b \in Nat
  PROVE  Min({a, b}) \in Nat /\ Min({a, b}) <= a /\ Min({a, b}) <= b
<1>1. CASE a <= b
  <2>1. \A x \in {a, b} : a <= x
    BY <1>1
  <2> QED
    BY <1>1, <2>1 DEF Min
<1>2. CASE b <= a
  <2>1. \A x \in {a, b} : b <= x
    BY <1>2
  <2> QED
    BY <1>2, <2>1 DEF Min
<1> QED
  BY <1>1, <1>2

LEMMA RecordFields ==
  ASSUME NEW r \in Record
  PROVE  r.length \in 0..MaxContent /\ r.padding \in 0..MaxPadding
BY FastCGIAssumption DEF Record, FastCGIAssumption

LEMMA SentType ==
  ASSUME NEW log \in Seq(Kind), NEW kind \in Kind
  PROVE  Sent(log, kind) \in Seq(Kind)
<1>1. Append(log, kind) \in Seq(Kind)
  OBVIOUS
<1> QED
  BY <1>1 DEF Sent

LEMMA RejectType == TypeOK => Sent(reply, "reject") \in Seq(Kind)
BY SentType DEF TypeOK, Kind

LEMMA TopType ==
  ASSUME NEW cells
  PROVE  Top(cells) \in {"top", "body"}
BY DEF Top

LEMMA InitType == Init => TypeOK
<1> SUFFICES ASSUME Init
             PROVE  TypeOK
  OBVIOUS
<1>1. put \in [Outputs -> 0..PutSize]
  BY FastCGIAssumption DEF Init, FastCGIAssumption
<1>2. consumed \in [Outputs -> BOOLEAN] /\ closed \in [Outputs -> BOOLEAN]
  BY DEF Init
<1>3. nested \in Seq(Record) /\ reply \in Seq(Kind)
  BY DEF Init
<1>4. 0 \in 0..BufferSize /\ 0 \in 0..MaxContent /\ 0 \in 0..MaxPadding /\ 0 \in 0..HeaderSize
  BY FastCGIAssumption DEF FastCGIAssumption
<1>5. header \in Record \union {NoHeader}
  BY DEF Init
<1>6. /\ stage \in {"listening"} /\ role \in Roles /\ type \in StreamTypes
      /\ call \in {"idle"} /\ io \in {"ok"}
  BY DEF Init, Roles, StreamTypes
<1>7. get = 0 /\ ahead = 0 /\ unread = 0 /\ padding = 0 /\ read = 0 /\ owed = 0
  BY DEF Init
<1>8. discard \in BOOLEAN /\ eos \in BOOLEAN /\ astray \in BOOLEAN
  BY DEF Init
<1> QED
  BY <1>1, <1>2, <1>3, <1>4, <1>5, <1>6, <1>7, <1>8 DEF TypeOK

LEMMA RaiseType ==
  ASSUME TypeOK, Raise
  PROVE  /\ call' \in {"idle", "values"}
         /\ stage' \in {stage, "refused", "bad"}
BY DEF Raise

\* Reading out of the buffer.
LEMMA ReadType ==
  ASSUME TypeOK,
         Underflow \/ Consume \/ Fill \/ TakeContent \/ DiscardContent \/ SkipPadding \/ AccumulateHeader
  PROVE  TypeOK'
<1> USE FastCGIAssumption DEF FastCGIAssumption
<1>1. CASE Underflow
  BY <1>1, TopType DEF Underflow, TypeOK, writers, history, bounds
<1>2. CASE Consume
  BY <1>2 DEF Consume, TypeOK, writers, history, bounds
<1>3. CASE Fill
  <2>1. ahead' \in 0..BufferSize
    BY <1>3 DEF Fill, TypeOK
  <2>2. call' \in {"idle", "body", "values"} /\ stage' \in {stage, "refused", "bad"}
    BY <1>3, RaiseType DEF Fill
  <2> QED
    BY <1>3, <2>1, <2>2 DEF Fill, TypeOK, writers, history, bounds
<1>4. CASE TakeContent
  <2> DEFINE n == Min({unread, ahead})
  <2>0. unread \in Nat /\ ahead \in Nat
    BY DEF TypeOK
  <2>1. n \in Nat /\ n <= unread /\ n <= ahead
    BY <2>0, MinOfTwo
  <2> HIDE DEF n
  <2>2. unread' = unread - n /\ ahead' = ahead - n /\ get' \in {0, n}
    BY <1>4 DEF TakeContent, n
  <2>3. call' \in {"idle", "top", "body"}
    BY <1>4, TopType DEF TakeContent
  <2>4. owed' \in Int
    BY <1>4, <2>1 DEF TakeContent, TypeOK, n
  <2>5. read' = 0 /\ astray' \in BOOLEAN
    BY <1>4 DEF TakeContent, TypeOK
  <2>6. unread' \in 0..MaxContent /\ ahead' \in 0..BufferSize /\ get' \in 0..BufferSize
    BY <2>1, <2>2 DEF TypeOK
  <2> QED
    BY <1>4, <2>3, <2>4, <2>5, <2>6 DEF TakeContent, TypeOK, writers, bounds
<1>5. CASE DiscardContent
  <2> DEFINE n == Min({unread, ahead})
  <2>0. unread \in Nat /\ ahead \in Nat
    BY DEF TypeOK
  <2>1. n \in Nat /\ n <= unread /\ n <= ahead
    BY <2>0, MinOfTwo
  <2> HIDE DEF n
  <2>2. unread' = unread - n /\ ahead' = ahead - n /\ discard' \in BOOLEAN /\ call' \in {"top", "body"}
    BY <1>5 DEF DiscardContent, n
  <2>3. unread' \in 0..MaxContent /\ ahead' \in 0..BufferSize
    BY <2>1, <2>2 DEF TypeOK
  <2> QED
    BY <1>5, <2>2, <2>3 DEF DiscardContent, TypeOK, writers, history, bounds
<1>6. CASE SkipPadding
  <2> DEFINE n == Min({padding, ahead})
  <2>0. padding \in Nat /\ ahead \in Nat
    BY DEF TypeOK
  <2>1. n \in Nat /\ n <= padding /\ n <= ahead
    BY <2>0, MinOfTwo
  <2> HIDE DEF n
  <2>2. padding' = padding - n /\ ahead' = ahead - n /\ call' \in {"top", "body"}
    BY <1>6 DEF SkipPadding, n
  <2>3. padding' \in 0..MaxPadding /\ ahead' \in 0..BufferSize
    BY <2>1, <2>2 DEF TypeOK
  <2> QED
    BY <1>6, <2>2, <2>3 DEF SkipPadding, TypeOK, writers, history, bounds
<1>7. CASE AccumulateHeader
  BY <1>7 DEF AccumulateHeader, TypeOK, writers, history, bounds
<1> QED
  BY <1>1, <1>2, <1>3, <1>4, <1>5, <1>6, <1>7

\* What every header that is complete leaves.
LEMMA CompletesType ==
  ASSUME TypeOK, NEW r \in Record, Completes(r)
  PROVE  /\ ahead' \in 0..BufferSize /\ header' = r /\ owed' \in Int
         /\ UNCHANGED <<role, get, put, consumed, closed, io>>
<1>1. HeaderSize - read \in 0..ahead
  BY FastCGIAssumption DEF FastCGIAssumption, Completes, TypeOK
<1>2. ahead' = ahead - (HeaderSize - read) /\ header' = r
  BY DEF Completes
<1>3. owed' \in {owed, owed + r.length}
  BY DEF Completes
<1> QED
  BY <1>1, <1>2, <1>3, RecordFields, FastCGIAssumption DEF FastCGIAssumption, Completes, TypeOK, writers

LEMMA ContinuesType ==
  ASSUME TypeOK, NEW r \in Record, Continues(r)
  PROVE  /\ unread' \in 0..MaxContent /\ padding' \in 0..MaxPadding /\ read' \in 0..HeaderSize
         /\ call' \in {"idle", "top", "body"} /\ stage' \in {stage, "terminated"}
         /\ astray' \in BOOLEAN
BY RecordFields, TopType, FastCGIAssumption DEF FastCGIAssumption, Continues, TypeOK

LEMMA HeaderType ==
  ASSUME TypeOK, NEW r \in Record,
         \/ Discarded(r) \/ UnknownType(r) \/ GetValues(r)
         \/ Content(r) \/ EndOfStream(r) \/ BadHeader(r)
  PROVE  TypeOK'
<1>1. Completes(r)
  BY DEF Discarded, UnknownType, GetValues, Content, EndOfStream, BadHeader
<1>2. CASE Discarded(r)
  <2>1. discard' \in BOOLEAN /\ reply' \in Seq(Kind)
    BY <1>2, RejectType DEF Discarded, Fits, TypeOK
  <2>2. Continues(r) /\ UNCHANGED <<type, eos, nested>>
    BY <1>2 DEF Discarded
  <2> QED
    BY <1>1, <2>1, <2>2, CompletesType, ContinuesType DEF TypeOK
<1>3. CASE UnknownType(r) \/ Content(r)
  <2>1. Continues(r) /\ UNCHANGED <<type, discard, eos, nested, reply>>
    BY <1>3 DEF UnknownType, Content
  <2> QED
    BY <1>1, <2>1, CompletesType, ContinuesType DEF TypeOK
<1>4. CASE GetValues(r)
  <2>1. nested' \in Seq(Record)
    BY <1>4 DEF GetValues, TypeOK
  <2>2. call' \in {"values", "top", "body"} /\ astray' \in BOOLEAN /\ read' = 0
    BY <1>4, TopType DEF GetValues, TypeOK
  <2>3. unread' \in 0..MaxContent /\ padding' \in 0..MaxPadding
    BY <1>4, RecordFields DEF GetValues
  <2>4. UNCHANGED <<stage, type, discard, eos, reply>>
    BY <1>4 DEF GetValues
  <2> QED
    BY <1>1, <2>1, <2>2, <2>3, <2>4, CompletesType, FastCGIAssumption DEF FastCGIAssumption, TypeOK
<1>5. CASE EndOfStream(r)
  <2>1. type' \in StreamTypes
    BY <1>5 DEF EndOfStream, TypeOK, StreamTypes
  <2>2. eos' \in BOOLEAN /\ discard' \in BOOLEAN /\ astray' \in BOOLEAN
    BY <1>5 DEF EndOfStream, TypeOK
  <2>3. unread' = 0 /\ padding' \in 0..MaxPadding /\ read' = 0
    BY <1>5, RecordFields, FastCGIAssumption DEF FastCGIAssumption, EndOfStream
  <2>4. call' \in {"idle", "values"} /\ stage' \in {"serving", "refused", stage}
    BY <1>5 DEF EndOfStream
  <2>5. UNCHANGED <<nested, reply>>
    BY <1>5 DEF EndOfStream
  <2> QED
    BY <1>1, <2>1, <2>2, <2>3, <2>4, <2>5, CompletesType, FastCGIAssumption
       DEF FastCGIAssumption, TypeOK
<1>6. CASE BadHeader(r)
  <2>1. reply' \in Seq(Kind)
    BY <1>6, RejectType DEF BadHeader, TypeOK
  <2>2. call' \in {"idle", "values"} /\ stage' \in {stage, "refused", "bad"}
    BY <1>6, RaiseType DEF BadHeader
  <2>3. unread' \in 0..MaxContent /\ padding' \in 0..MaxPadding /\ read' = 0
    BY <1>6, RecordFields DEF BadHeader
  <2>4. UNCHANGED <<type, discard, eos, nested, astray>>
    BY <1>6 DEF BadHeader
  <2> QED
    BY <1>1, <2>1, <2>2, <2>3, <2>4, CompletesType, FastCGIAssumption
       DEF FastCGIAssumption, TypeOK
<1> QED
  BY <1>2, <1>3, <1>4, <1>5, <1>6

LEMMA ValuesType ==
  ASSUME TypeOK, Values, nested # <<>>
  PROVE  TypeOK'
<1>1. Len(nested) \in DOMAIN nested /\ nested[Len(nested)] \in Record
  BY DEF TypeOK
<1>2. nested' \in Seq(Record)
  BY DEF Values, TypeOK
<1>3. call' \in {"idle", "top", "body", "values"} /\ stage' \in {stage, "refused", "bad"}
  BY TopType DEF Values
<1>4. read' \in {read, HeaderSize} /\ header' \in {header, nested[Len(nested)]}
  BY DEF Values
<1> QED
  BY <1>1, <1>2, <1>3, <1>4, FastCGIAssumption
     DEF FastCGIAssumption, Values, TypeOK, writers, history, bounds

\* What close() writes of a stream.
LEMMA EndedType ==
  ASSUME TypeOK, NEW log \in Seq(Kind), NEW s \in Outputs
  PROVE  Ended(log, s) \in Seq(Kind)
<1>1. Flushed(log, s) \in Seq(Kind)
  BY SentType DEF Flushed, Kind
<1>2. \A more \in Seq(Kind), kind \in {"err_end", "out_end", "end_request"} :
        Append(more, kind) \in Seq(Kind)
  BY DEF Kind
<1> QED
  BY <1>1, <1>2 DEF Ended

LEMMA CloseType ==
  ASSUME TypeOK, CloseStreams
  PROVE  reply' \in Seq(Kind) /\ closed' \in [Outputs -> BOOLEAN]
<1>1. Ended(Ended(reply, "err"), "out") \in Seq(Kind)
  BY EndedType DEF TypeOK, Outputs
<1>2. closed' \in [Outputs -> BOOLEAN]
  <2>1. CASE closed' = [s \in Outputs |-> TRUE]
    BY <2>1
  <2>2. CASE closed' = [closed EXCEPT !["err"] =
                          @ \/ (MayClose /\ put["err"] = 0 /\ ~consumed["err"])]
    <3>1. PICK b \in BOOLEAN : closed' = [closed EXCEPT !["err"] = b]
      BY <2>2 DEF TypeOK, Outputs
    <3> QED
      BY <3>1 DEF TypeOK
  <2> QED
    BY <2>1, <2>2 DEF CloseStreams
<1> QED
  BY <1>1, <1>2 DEF CloseStreams, TypeOK

\* The application's calls.
LEMMA WriterType ==
  ASSUME TypeOK,
         Accept \/ Vanish \/ (\E s \in Outputs : Write(s) \/ Flush(s)) \/ Close \/ Destroy
  PROVE  TypeOK'
<1>1. CASE Accept
  <2>1. reply' \in Seq(Kind)
    <3>1. \A answer \in {"unknown_role", "cant_mpx_conn"} : <<answer>> \in Seq(Kind)
      BY DEF Kind
    <3> QED
      BY <1>1, <3>1 DEF Accept, TypeOK
  <2>2. astray' \in BOOLEAN
    BY <1>1 DEF Accept, TypeOK
  <2> QED
    BY <1>1, <2>1, <2>2 DEF Accept, TypeOK, reader, writers, bounds
<1>2. CASE Vanish
  BY <1>2 DEF Vanish, TypeOK, reader, writers, history, bounds
<1>3. ASSUME NEW s \in Outputs, Write(s) \/ Flush(s)
      PROVE  TypeOK'
  <2>1. put' \in [Outputs -> 0..PutSize] /\ consumed' \in [Outputs -> BOOLEAN]
    <3>1. put[s] \in 0..PutSize
      BY DEF TypeOK
    <3>2. PICK n \in 0..PutSize : put' = [put EXCEPT ![s] = n]
      <4>1. 0 \in 0..PutSize /\ (put[s] < PutSize => put[s] + 1 \in 0..PutSize)
        BY <3>1, FastCGIAssumption DEF FastCGIAssumption
      <4>2. \/ put[s] < PutSize /\ put' = [put EXCEPT ![s] = put[s] + 1]
            \/ put' = [put EXCEPT ![s] = 0]
        BY <1>3 DEF Write, Flush
      <4> QED
        BY <4>1, <4>2
    <3>3. consumed' \in {consumed, [consumed EXCEPT ![s] = TRUE]}
      BY <1>3 DEF Write, Flush
    <3> QED
      BY <3>2, <3>3 DEF TypeOK
  <2>2. reply' \in Seq(Kind)
    BY <1>3, SentType DEF Write, Flush, TypeOK, Kind
  <2> QED
    BY <1>3, <2>1, <2>2 DEF Write, Flush, TypeOK, reader, history, bounds
<1>4. CASE Close \/ Destroy
  <2>1. reply' \in Seq(Kind) /\ closed' \in [Outputs -> BOOLEAN]
    BY <1>4, CloseType DEF Close, Destroy, TypeOK
  <2>2. stage' \in {stage, "closed", "destroyed"}
    BY <1>4 DEF Close, Destroy
  <2> QED
    BY <1>4, <2>1, <2>2 DEF Close, Destroy, TypeOK, reader, history, bounds
<1> QED
  BY <1>1, <1>2, <1>3, <1>4

\* The variables of a get-values record are in process while one is.
Inv == TypeOK /\ (call = "values" => nested # <<>>)

LEMMA InvInit == Init => Inv
BY InitType DEF Init, Inv

LEMMA InvNext ==
  ASSUME Inv, [Next]_vars
  PROVE  Inv'
<1>1. CASE Accept \/ Vanish \/ (\E s \in Outputs : Write(s) \/ Flush(s)) \/ Close \/ Destroy
  <2>1. UNCHANGED <<call, nested>>
    BY <1>1 DEF Accept, Vanish, Write, Flush, Close, Destroy, reader
  <2> QED
    BY <1>1, <2>1, WriterType DEF Inv
<1>2. CASE Underflow \/ Consume \/ Fill \/ TakeContent \/ DiscardContent \/ SkipPadding
             \/ AccumulateHeader
  <2>1. UNCHANGED nested /\ (call' = "values" => nested # <<>>)
    BY <1>2, TopType
       DEF Underflow, Consume, Fill, TakeContent, DiscardContent, SkipPadding, AccumulateHeader,
           Raise, Inv
  <2> QED
    BY <1>2, <2>1, ReadType DEF Inv
<1>3. CASE ProcessHeader
  <2>1. PICK r \in Record : \/ Discarded(r) \/ UnknownType(r) \/ GetValues(r)
                            \/ Content(r) \/ EndOfStream(r) \/ BadHeader(r)
    BY <1>3 DEF ProcessHeader
  <2>2. TypeOK'
    BY <2>1, HeaderType DEF Inv
  <2>3. call' = "values" => nested' # <<>>
    <3>1. CASE GetValues(r)
      <4>1. nested \in Seq(Record) /\ nested' = Append(nested, r)
        BY <3>1 DEF GetValues, Inv, TypeOK
      <4> QED
        BY <4>1
    <3>2. CASE Discarded(r) \/ UnknownType(r) \/ Content(r)
      <4>1. Continues(r)
        BY <3>2 DEF Discarded, UnknownType, Content
      <4> QED
        BY <4>1, TopType DEF Continues
    <3>3. CASE EndOfStream(r)
      BY <3>3 DEF EndOfStream
    <3>4. CASE BadHeader(r)
      BY <3>4 DEF BadHeader, Raise
    <3> QED
      BY <2>1, <3>1, <3>2, <3>3, <3>4
  <2> QED
    BY <2>2, <2>3 DEF Inv
<1>4. CASE Values
  <2>1. nested # <<>>
    BY <1>4 DEF Values, Inv
  <2>2. call' = "values" => nested' # <<>>
    BY <1>4, TopType DEF Values
  <2> QED
    BY <1>4, <2>1, <2>2, ValuesType DEF Inv
<1>5. CASE UNCHANGED vars
  BY <1>5 DEF vars, reader, writers, history, bounds, Inv, TypeOK
<1> QED
  BY <1>1, <1>2, <1>3, <1>4, <1>5 DEF Next

\* The state of the connection is of its types for every size.
THEOREM TypeCorrect == Spec => []TypeOK
<1>1. Inv => TypeOK
  BY DEF Inv
<1> QED
  BY <1>1, InvInit, InvNext, PTL DEF Spec

-----------------------------------------------------------------------------
(* The content of the streams.                                             *)

\* As long as the client sends its own records only, what is unread is of a record of the
\* request, nothing is discarded, and a header that has been processed is not met again:
\* its content is unread, and taking that ends underflow().
ContentInv ==
  provoked = {} =>
    /\ ~astray /\ owed = unread /\ nested = <<>> /\ call # "values" /\ ~discard
    /\ eos => unread = 0 /\ call = "idle"
    /\ unread > 0 => header.id = "own"
    /\ call # "idle" /\ read = HeaderSize => unread > 0

LEMMA ContentInit == Init => ContentInv
BY DEF Init, ContentInv

LEMMA NotUnusual ==
  ASSUME Inv, ContentInv, NEW r \in Record, Completes(r), provoked' = {}
  PROVE  /\ provoked = {} /\ read # HeaderSize /\ unread = 0 /\ owed = 0
         /\ r.id = "own" /\ r.type = type /\ (r.length = 0 => r.padding = 0)
         /\ owed' = r.length /\ header' = r
<1>1. provoked = {} /\ unread = 0 /\ call = "body" /\ header' = r
  BY DEF Completes
<1>2. read # HeaderSize /\ owed = 0 /\ ~astray
  BY <1>1 DEF ContentInv
<1>3. HeaderSize - read # 0
  BY <1>2, FastCGIAssumption DEF FastCGIAssumption, Inv, TypeOK
<1>4. Unusual(r, type) = {}
  BY <1>1, <1>3 DEF Completes
<1>5. r.id = "own" /\ r.type = type
  BY <1>4 DEF Unusual, Record
<1>6. r.length = 0 => r.padding = 0
  BY <1>4, <1>5, RecordFields DEF Unusual
<1>7. owed' = r.length
  BY <1>2, <1>3, <1>5, RecordFields DEF Completes
<1> QED
  BY <1>1, <1>2, <1>5, <1>6, <1>7

LEMMA ContentHeader ==
  ASSUME Inv, ContentInv, NEW r \in Record,
         \/ Discarded(r) \/ UnknownType(r) \/ GetValues(r)
         \/ Content(r) \/ EndOfStream(r) \/ BadHeader(r)
  PROVE  ContentInv'
<1> SUFFICES ASSUME provoked' = {}
             PROVE  ContentInv'
  BY DEF ContentInv
<1>1. Completes(r)
  BY DEF Discarded, UnknownType, GetValues, Content, EndOfStream, BadHeader
<1>2. /\ provoked = {} /\ read # HeaderSize /\ unread = 0 /\ owed = 0
      /\ r.id = "own" /\ r.type = type /\ (r.length = 0 => r.padding = 0)
      /\ owed' = r.length /\ header' = r
  BY <1>1, NotUnusual
<1>3. ~astray /\ nested = <<>> /\ ~discard /\ call # "idle" /\ call # "values"
  BY <1>1, <1>2 DEF ContentInv, Completes
<1>4. ~eos /\ type \in StreamTypes
  BY <1>2, <1>3 DEF ContentInv, Inv, TypeOK
<1>5. r.length \in Nat
  BY RecordFields
<1>6. CASE Content(r)
  <2>1. r.length > 0 /\ unread' = r.length /\ ~astray' /\ call' # "values"
    BY <1>2, <1>3, <1>6, TopType DEF Content, Continues
  <2>2. UNCHANGED <<discard, eos, nested>>
    BY <1>6 DEF Content
  <2> QED
    BY <1>2, <1>3, <1>4, <2>1, <2>2 DEF ContentInv
<1>7. CASE EndOfStream(r)
  <2>1. r.length = 0 /\ unread' = 0 /\ call' = "idle" /\ nested' = <<>>
    BY <1>2, <1>3, <1>7 DEF EndOfStream
  <2>2. ~(r.padding > 0)
    BY <1>2, <2>1
  <2>3. ~discard' /\ ~astray'
    BY <1>2, <1>3, <1>7, <2>2, Zenon DEF EndOfStream
  <2> QED
    BY <1>2, <2>1, <2>3 DEF ContentInv
<1>8. ~Discarded(r) /\ ~UnknownType(r) /\ ~GetValues(r) /\ ~BadHeader(r)
  BY <1>2, <1>3, <1>4 DEF Discarded, UnknownType, GetValues, BadHeader, StreamTypes
<1> QED
  BY <1>6, <1>7, <1>8

LEMMA ContentNext ==
  ASSUME Inv, ContentInv, [Next]_vars
  PROVE  ContentInv'
<1> USE FastCGIAssumption DEF FastCGIAssumption
<1>0. CASE Accept
  <2>1. UNCHANGED <<reader, owed>> /\ (provoked' = {} => provoked = {} /\ (~astray => ~astray'))
    <3>1. UNCHANGED <<reader, owed>>
      BY <1>0 DEF Accept
    <3>2. \/ "padded_begin" \in provoked'
          \/ UNCHANGED <<astray, provoked>>
      BY <1>0 DEF Accept
    <3> QED
      BY <3>1, <3>2
  <2> QED
    BY <2>1 DEF reader, ContentInv
<1>1. CASE Vanish \/ (\E s \in Outputs : Write(s) \/ Flush(s)) \/ Close \/ Destroy
  <2>1. UNCHANGED <<reader, history>>
    BY <1>1 DEF Vanish, Write, Flush, Close, Destroy
  <2> QED
    BY <2>1 DEF reader, history, ContentInv
<1>2. CASE Underflow
  <2>1. read' = 0 /\ call' \in {"top", "body"} /\ ~eos
    BY <1>2, TopType DEF Underflow
  <2>2. UNCHANGED <<unread, discard, eos, header, nested, owed, astray, provoked>>
    BY <1>2 DEF Underflow, history
  <2> QED
    BY <2>1, <2>2 DEF ContentInv
<1>3. CASE Consume
  BY <1>3 DEF Consume, history, ContentInv
<1>4. CASE Fill
  <2>1. UNCHANGED <<unread, discard, eos, read, header, nested, owed, astray, provoked>>
    BY <1>4 DEF Fill, history
  <2>2. call = "top" /\ (nested = <<>> => call' \in {"body", "idle"})
    BY <1>4 DEF Fill, Raise
  <2> QED
    BY <2>1, <2>2 DEF ContentInv
<1>5. CASE TakeContent
  <2> DEFINE n == Min({unread, ahead})
  <2>0. unread \in Nat /\ ahead \in Nat
    BY DEF Inv, TypeOK
  <2>1. n \in Nat /\ n <= unread
    BY <2>0, MinOfTwo
  <2>2. SUFFICES ASSUME provoked = {}
                 PROVE  ContentInv'
    BY <1>5 DEF TakeContent, ContentInv
  <2>3. /\ ~astray /\ owed = unread /\ nested = <<>> /\ ~discard /\ ~eos
        /\ header.id = "own"
    BY <1>5, <2>2 DEF ContentInv, TakeContent
  <2>4. owed' = owed - n /\ unread' = unread - n
    BY <1>5, <2>3 DEF TakeContent
  <2>5. ~astray' /\ call' = "idle"
    BY <1>5, <2>3 DEF TakeContent
  <2>6. UNCHANGED <<discard, eos, header, nested>>
    BY <1>5 DEF TakeContent
  <2> QED
    BY <2>1, <2>3, <2>4, <2>5, <2>6 DEF ContentInv
<1>6. CASE DiscardContent
  BY <1>6 DEF DiscardContent, history, ContentInv
<1>7. CASE SkipPadding
  <2>1. UNCHANGED <<unread, discard, eos, read, header, nested, owed, astray, provoked>>
    BY <1>7 DEF SkipPadding, history
  <2>2. call = "body" /\ call' \in {"top", "body"}
    BY <1>7 DEF SkipPadding
  <2> QED
    BY <2>1, <2>2 DEF ContentInv
<1>8. CASE AccumulateHeader
  <2>1. UNCHANGED <<unread, discard, eos, header, nested, owed, astray, provoked>>
    BY <1>8 DEF AccumulateHeader, history
  <2>2. call = "body" /\ call' = "top" /\ read' # HeaderSize
    BY <1>8 DEF AccumulateHeader, Inv, TypeOK
  <2> QED
    BY <2>1, <2>2 DEF ContentInv
<1>9. CASE ProcessHeader
  BY <1>9, ContentHeader DEF ProcessHeader
<1>10. CASE Values
  BY <1>10 DEF Values, history, ContentInv
<1>11. CASE UNCHANGED vars
  BY <1>11 DEF vars, reader, history, ContentInv
<1> QED
  BY <1>0, <1>1, <1>2, <1>3, <1>4, <1>5, <1>6, <1>7, <1>8, <1>9, <1>10, <1>11 DEF Next

\* server_Streambuf::underflow(): wherever a read ends in contents, paddings and headers,
\* each byte of the content of the request's streams reaches the reader of its stream, and
\* nothing else does, as long as the client sends the records of this request only.
THEOREM ContentReachesReader == Spec => []ContentDelivered
<1>1. Init => Inv /\ ContentInv
  BY InvInit, ContentInit
<1>2. Inv /\ ContentInv /\ [Next]_vars => (Inv /\ ContentInv)'
  BY InvNext, ContentNext
<1>3. Inv /\ ContentInv => ContentDelivered
  BY DEF ContentInv, ContentDelivered
<1> QED
  BY <1>1, <1>2, <1>3, PTL DEF Spec

-----------------------------------------------------------------------------
(* The reply.                                                              *)

Has(log, kind) == \E i \in DOMAIN log : log[i] = kind

\* The order of the records of a reply (the first three conjuncts of ReplyWellFormed).
Ordered(log) ==
  \A i, j \in DOMAIN log :
    i < j =>
      /\ log[i] # "end_request"
      /\ log[i] = "err_end" => log[j] \notin {"err", "err_end"}
      /\ log[i] = "out_end" => log[j] = "end_request"

LEMMA AppendHas ==
  ASSUME NEW log \in Seq(Kind), NEW kind \in Kind
  PROVE  \A k : Has(Append(log, kind), k) <=> (Has(log, k) \/ k = kind)
<1>1. /\ DOMAIN Append(log, kind) = 1..(Len(log) + 1) /\ DOMAIN log = 1..Len(log)
      /\ Append(log, kind)[Len(log) + 1] = kind
      /\ \A i \in 1..Len(log) : Append(log, kind)[i] = log[i]
  OBVIOUS
<1>2. Len(log) + 1 \in 1..(Len(log) + 1) /\ 1..Len(log) \subseteq 1..(Len(log) + 1)
  OBVIOUS
<1>3. \A i \in 1..(Len(log) + 1) : i \in 1..Len(log) \/ i = Len(log) + 1
  OBVIOUS
<1> QED
  BY <1>1, <1>2, <1>3 DEF Has

LEMMA AppendOrdered ==
  ASSUME NEW log \in Seq(Kind), NEW kind \in Kind, Ordered(log), ~Has(log, "end_request"),
         kind \in {"err", "err_end"} => ~Has(log, "err_end"),
         kind # "end_request" => ~Has(log, "out_end")
  PROVE  Ordered(Append(log, kind))
<1> DEFINE n == Len(log)
<1>1. /\ DOMAIN Append(log, kind) = 1..(n + 1) /\ DOMAIN log = 1..n /\ n \in Nat
      /\ Append(log, kind)[n + 1] = kind
      /\ \A i \in 1..n : Append(log, kind)[i] = log[i]
  OBVIOUS
<1> SUFFICES ASSUME NEW i \in 1..(n + 1), NEW j \in 1..(n + 1), i < j
             PROVE  LET a == Append(log, kind) IN
                    /\ a[i] # "end_request"
                    /\ a[i] = "err_end" => a[j] \notin {"err", "err_end"}
                    /\ a[i] = "out_end" => a[j] = "end_request"
  BY <1>1 DEF Ordered
<1>2. i \in 1..n /\ Append(log, kind)[i] = log[i]
  BY <1>1
<1>3. CASE j \in 1..n
  BY <1>1, <1>2, <1>3 DEF Ordered
<1>4. CASE j = n + 1
  <2>1. Append(log, kind)[j] = kind
    BY <1>1, <1>4
  <2> QED
    BY <1>1, <1>2, <2>1 DEF Has
<1> QED
  BY <1>1, <1>3, <1>4

LEMMA SentOrdered ==
  ASSUME NEW log \in Seq(Kind), NEW kind \in Kind, Ordered(log), ~Has(log, "end_request"),
         kind \in {"err", "err_end"} => ~Has(log, "err_end"),
         kind # "end_request" => ~Has(log, "out_end")
  PROVE  /\ Ordered(Sent(log, kind))
         /\ \A k : Has(Sent(log, kind), k) => Has(log, k) \/ k = kind
BY AppendOrdered, AppendHas DEF Sent

\* What the reply, the flags of the output streams and the stage have to do with each other;
\* a second pass over a header that is none of the stream's has been provoked.
ReplyInv ==
  /\ Ordered(reply)
  /\ Has(reply, "err_end") => closed["err"]
  /\ Has(reply, "out_end") \/ Has(reply, "end_request") => closed["out"]
  /\ Has(reply, "reject") => "violation" \in provoked
  /\ closed["out"] => stage \in {"closed", "destroyed"}
  /\ call # "idle" => stage \in {"params", "serving"}
  /\ \A i \in DOMAIN nested : nested[i].id = "null"
  /\ read = HeaderSize /\ header.id = "own" /\ header.type # type => "violation" \in provoked
  /\ stage \in {"serving", "bad"} /\ role # "authorizer" => type # "params"
  /\ stage = "closed" => reply # <<>> /\ reply[Len(reply)] = "end_request"
  /\ RequestAnswered

LEMMA ReplyInit == Init => ReplyInv
BY FastCGIAssumption DEF FastCGIAssumption, Init, ReplyInv, Ordered, Has, RequestAnswered, Outputs

\* The records of the client.
LEMMA Violation ==
  ASSUME Inv, ReplyInv, NEW r \in Record, Completes(r)
  PROVE  /\ provoked \subseteq provoked'
         /\ r.id = "own" /\ r.type # type => "violation" \in provoked'
<1>1. CASE HeaderSize - read = 0
  <2>1. read = HeaderSize
    BY <1>1, FastCGIAssumption DEF FastCGIAssumption, Inv, TypeOK
  <2>2. r = header /\ provoked' = provoked
    BY <1>1 DEF Completes
  <2> QED
    BY <2>1, <2>2 DEF ReplyInv
<1>2. CASE HeaderSize - read # 0
  <2>1. provoked' = provoked \union Unusual(r, type)
    BY <1>2 DEF Completes
  <2> QED
    BY <2>1 DEF Unusual
<1> QED
  BY <1>1, <1>2

LEMMA Rejected ==
  ASSUME Inv, ReplyInv, ~closed["out"]
  PROVE  /\ Ordered(Sent(reply, "reject"))
         /\ \A k : Has(Sent(reply, "reject"), k) => Has(reply, k) \/ k = "reject"
BY SentOrdered DEF ReplyInv, Inv, TypeOK, Kind

LEMMA ReplyHeader ==
  ASSUME Inv, ReplyInv, NEW r \in Record,
         \/ Discarded(r) \/ UnknownType(r) \/ GetValues(r)
         \/ Content(r) \/ EndOfStream(r) \/ BadHeader(r)
  PROVE  ReplyInv'
<1> USE FastCGIAssumption DEF FastCGIAssumption
<1>1. Completes(r)
  BY DEF Discarded, UnknownType, GetValues, Content, EndOfStream, BadHeader
<1>2. /\ stage \in {"params", "serving"} /\ ~closed["out"]
      /\ header' = r /\ UNCHANGED <<role, closed, io>>
  BY <1>1 DEF Completes, ReplyInv, writers
<1>3. stage' \in {stage, "terminated", "refused", "serving", "bad"}
  BY DEF Discarded, UnknownType, GetValues, Content, EndOfStream, BadHeader, Continues, Raise
<1>4. call' # "idle" => stage' \in {"params", "serving"}
  <2>1. CASE Discarded(r) \/ UnknownType(r) \/ Content(r)
    BY <1>2, <2>1 DEF Discarded, UnknownType, Content, Continues
  <2>2. CASE GetValues(r)
    BY <1>2, <2>2 DEF GetValues
  <2>3. CASE EndOfStream(r)
    BY <1>2, <2>3 DEF EndOfStream
  <2>4. CASE BadHeader(r)
    BY <1>2, <2>4 DEF BadHeader, Raise
  <2> QED
    BY <2>1, <2>2, <2>3, <2>4
<1>5. \A i \in DOMAIN nested' : nested'[i].id = "null"
  <2>1. CASE GetValues(r)
    <3>1. nested \in Seq(Record) /\ nested' = Append(nested, r) /\ r.id = "null"
      BY <2>1 DEF GetValues, Inv, TypeOK
    <3> QED
      BY <3>1 DEF ReplyInv
  <2>2. CASE UNCHANGED nested
    BY <2>2 DEF ReplyInv
  <2> QED
    BY <2>1, <2>2 DEF Discarded, UnknownType, Content, EndOfStream, BadHeader
<1>6. \/ reply' = reply
      \/ reply' = Sent(reply, "reject") /\ r.id = "own" /\ r.type # type
  BY DEF Discarded, UnknownType, GetValues, Content, EndOfStream, BadHeader, Inv, TypeOK, StreamTypes
<1>7. /\ Ordered(reply')
      /\ \A k : Has(reply', k) => Has(reply, k) \/ (k = "reject" /\ "violation" \in provoked')
  BY <1>1, <1>2, <1>6, Violation, Rejected DEF ReplyInv
<1>8. read' = HeaderSize /\ header'.id = "own" /\ header'.type # type' => "violation" \in provoked'
  <2>1. read' = 0 \/ type' = type
    BY DEF Discarded, UnknownType, GetValues, Content, EndOfStream, BadHeader
  <2> QED
    BY <1>1, <1>2, <2>1, Violation
<1>9. stage' \in {"serving", "bad"} /\ role # "authorizer" => type' # "params"
  <2>1. CASE EndOfStream(r)
    BY <1>2, <2>1 DEF EndOfStream, ReplyInv
  <2>2. CASE BadHeader(r)
    BY <1>2, <2>2 DEF BadHeader, Raise, ReplyInv
  <2>3. CASE Discarded(r) \/ UnknownType(r) \/ Content(r) \/ GetValues(r)
    BY <1>2, <2>3 DEF Discarded, UnknownType, Content, GetValues, Continues, ReplyInv
  <2> QED
    BY <2>1, <2>2, <2>3
<1>10. stage' # "closed" /\ stage' # "destroyed"
  BY <1>2, <1>3
<1> QED
  BY <1>1, <1>2, <1>4, <1>5, <1>7, <1>8, <1>9, <1>10, Violation DEF ReplyInv, RequestAnswered

LEMMA ReplyReader ==
  ASSUME Inv, ReplyInv,
         Underflow \/ Consume \/ Fill \/ TakeContent \/ DiscardContent \/ SkipPadding
           \/ AccumulateHeader \/ Values
  PROVE  ReplyInv'
<1> USE FastCGIAssumption DEF FastCGIAssumption
<1>1. UNCHANGED <<role, type, closed, io, reply, provoked>>
  BY DEF Underflow, Consume, Fill, TakeContent, DiscardContent, SkipPadding, AccumulateHeader, Values,
         writers, history
<1>2. stage \in {"params", "serving"}
  BY DEF Underflow, Consume, Fill, TakeContent, DiscardContent, SkipPadding, AccumulateHeader, Values,
         ReplyInv
<1>3. /\ stage' \in {stage, "refused"} \/ (stage = "serving" /\ stage' = "bad")
      /\ call' # "idle" => stage' = stage
  BY <1>2 DEF Underflow, Consume, Fill, TakeContent, DiscardContent, SkipPadding, AccumulateHeader,
              Values, Raise
<1>4. \A i \in DOMAIN nested' : nested'[i].id = "null"
  <2>1. CASE Values
    <3>1. nested \in Seq(Record) /\ nested # <<>> /\ nested' = SubSeq(nested, 1, Len(nested) - 1)
      BY <2>1 DEF Values, Inv, TypeOK
    <3> QED
      BY <3>1 DEF ReplyInv
  <2>2. CASE UNCHANGED nested
    BY <2>2 DEF ReplyInv
  <2> QED
    BY <2>1, <2>2
       DEF Underflow, Consume, Fill, TakeContent, DiscardContent, SkipPadding, AccumulateHeader
<1>5. read' = HeaderSize /\ header'.id = "own" /\ header'.type # type' => "violation" \in provoked'
  <2>1. CASE Values
    <3>1. nested \in Seq(Record) /\ nested # <<>>
      BY <2>1 DEF Values, Inv, TypeOK
    <3>2. nested[Len(nested)].id = "null"
      BY <3>1 DEF ReplyInv
    <3>3. header' = nested[Len(nested)] \/ (header' = header /\ read' = read)
      BY <2>1 DEF Values
    <3> QED
      BY <1>1, <3>2, <3>3 DEF ReplyInv
  <2>2. CASE AccumulateHeader
    BY <2>2 DEF AccumulateHeader, Inv, TypeOK
  <2>3. CASE read' = 0 \/ UNCHANGED <<read, header>>
    BY <1>1, <2>3 DEF ReplyInv
  <2> QED
    BY <2>1, <2>2, <2>3 DEF Underflow, Consume, Fill, TakeContent, DiscardContent, SkipPadding
<1> QED
  BY <1>1, <1>2, <1>3, <1>4, <1>5 DEF ReplyInv, RequestAnswered

\* What close() makes of a reply that is open.
LEMMA EndedErr ==
  ASSUME Inv, ReplyInv, ~closed["out"]
  PROVE  LET log == Ended(reply, "err") IN
         /\ log \in Seq(Kind) /\ Ordered(log)
         /\ \A k : Has(log, k) => Has(reply, k) \/ k \in {"err", "err_end"}
<1> USE DEF Outputs
<1>1. reply \in Seq(Kind) /\ Ordered(reply) /\ ~Has(reply, "out_end") /\ ~Has(reply, "end_request")
  BY DEF Inv, TypeOK, ReplyInv
<1>2. CASE closed["err"]
  BY <1>1, <1>2 DEF Ended
<1>3. CASE ~closed["err"]
  <2> DEFINE log == Flushed(reply, "err")
  <2>1. ~Has(reply, "err_end")
    BY <1>3 DEF ReplyInv
  <2>2. log \in Seq(Kind) /\ Ordered(log) /\ \A k : Has(log, k) => Has(reply, k) \/ k = "err"
    BY <1>1, <2>1, SentType, SentOrdered DEF Flushed, Kind
  <2> HIDE DEF log
  <2>3. /\ Append(log, "err_end") \in Seq(Kind) /\ Ordered(Append(log, "err_end"))
        /\ \A k : Has(Append(log, "err_end"), k) => Has(log, k) \/ k = "err_end"
    <3>1. "err_end" \in Kind
      BY DEF Kind
    <3>2. ~Has(log, "err_end") /\ ~Has(log, "out_end") /\ ~Has(log, "end_request")
      BY <1>1, <2>1, <2>2
    <3>3. Append(log, "err_end") \in Seq(Kind)
      BY <2>2, <3>1
    <3> QED
      BY <2>2, <3>1, <3>2, <3>3, AppendOrdered, AppendHas
  <2>4. Ended(reply, "err") \in {Append(log, "err_end"), reply}
    BY <1>3 DEF Ended, log
  <2> QED
    BY <1>1, <2>2, <2>3, <2>4
<1> QED
  BY <1>2, <1>3

LEMMA EndedOut ==
  ASSUME Inv, ~closed["out"], NEW log \in Seq(Kind), Ordered(log),
         ~Has(log, "out_end"), ~Has(log, "end_request")
  PROVE  LET ended == Ended(log, "out") IN
         /\ ended \in Seq(Kind) /\ Ordered(ended)
         /\ \A k : Has(ended, k) => Has(log, k) \/ k \in {"out", "out_end", "end_request"}
         /\ ended # <<>> /\ ended[Len(ended)] = "end_request"
<1> USE DEF Outputs
<1> DEFINE a == Flushed(log, "out")
<1> DEFINE b == Append(a, "out_end")
<1>1. {"out", "out_end", "end_request"} \subseteq Kind
  BY DEF Kind
<1>2. a \in Seq(Kind) /\ Ordered(a) /\ \A k : Has(a, k) => Has(log, k) \/ k = "out"
  BY <1>1, SentType, SentOrdered DEF Flushed
<1> HIDE DEF a
<1>3. b \in Seq(Kind)
  BY <1>1, <1>2
<1>4. Ordered(b) /\ \A k : Has(b, k) => Has(a, k) \/ k = "out_end"
  BY <1>1, <1>2, AppendOrdered, AppendHas
<1> HIDE DEF b
<1>5. /\ Append(b, "end_request") \in Seq(Kind) /\ Append(b, "end_request") # <<>>
      /\ Append(b, "end_request")[Len(Append(b, "end_request"))] = "end_request"
  BY <1>1, <1>3
<1>6. /\ Ordered(Append(b, "end_request"))
      /\ \A k : Has(Append(b, "end_request"), k) => Has(b, k) \/ k = "end_request"
  BY <1>1, <1>2, <1>3, <1>4, AppendOrdered, AppendHas
<1>7. Ended(log, "out") = Append(b, "end_request")
  BY DEF Ended, a, b
<1> QED
  BY <1>2, <1>4, <1>5, <1>6, <1>7

\* close(): all of it is written, or what it leaves is not closed.
LEMMA ReplyClosed ==
  ASSUME Inv, ReplyInv, Using, CloseStreams
  PROVE  /\ Ordered(reply') /\ (Has(reply', "err_end") => closed'["err"])
         /\ Has(reply', "out_end") \/ Has(reply', "end_request") => closed'["out"]
         /\ Has(reply', "reject") => Has(reply, "reject")
         /\ closed'["out"] => reply' # <<>> /\ reply'[Len(reply')] = "end_request"
         /\ ~closed'["out"] => io = "broken" \/ (role = "filter" /\ type = "in" /\ unread > 0)
<1>1. ~closed["out"] /\ reply \in Seq(Kind) /\ stage \in {"serving", "bad"} /\ unread \in Nat
  BY DEF Using, ReplyInv, Inv, TypeOK
<1>2. CASE /\ MayClose /\ io = "ok" /\ reply' = Ended(Ended(reply, "err"), "out")
           /\ closed' = [s \in Outputs |-> TRUE]
  <2> DEFINE log == Ended(reply, "err")
  <2>1. /\ log \in Seq(Kind) /\ Ordered(log)
        /\ \A k : Has(log, k) => Has(reply, k) \/ k \in {"err", "err_end"}
    BY <1>1, EndedErr
  <2>2. ~Has(log, "out_end") /\ ~Has(log, "end_request")
    BY <1>1, <2>1 DEF ReplyInv
  <2> HIDE DEF log
  <2>3. /\ Ordered(Ended(log, "out"))
        /\ \A k : Has(Ended(log, "out"), k) => Has(log, k) \/ k \in {"out", "out_end", "end_request"}
        /\ Ended(log, "out") # <<>> /\ Ended(log, "out")[Len(Ended(log, "out"))] = "end_request"
    BY <1>1, <2>1, <2>2, EndedOut
  <2>4. reply' = Ended(log, "out") /\ closed'["err"] /\ closed'["out"]
    BY <1>2 DEF log, Outputs
  <2> QED
    BY <2>1, <2>3, <2>4
<1>3. CASE /\ ~(MayClose /\ io = "ok") /\ UNCHANGED reply
           /\ closed' = [closed EXCEPT !["err"] = @ \/ (MayClose /\ put["err"] = 0 /\ ~consumed["err"])]
  <2>1. closed'["out"] = closed["out"] /\ (closed["err"] => closed'["err"])
    BY <1>3 DEF Inv, TypeOK, Outputs
  <2>2. io = "broken" \/ (role = "filter" /\ type = "in" /\ unread > 0)
    BY <1>1, <1>3 DEF MayClose, Inv, TypeOK, ReplyInv, StreamTypes
  <2> QED
    BY <1>1, <1>3, <2>1, <2>2 DEF ReplyInv
<1> QED
  BY <1>2, <1>3 DEF CloseStreams

LEMMA ReplyWriter ==
  ASSUME Inv, ReplyInv,
         Accept \/ Vanish \/ (\E s \in Outputs : Write(s) \/ Flush(s)) \/ Close \/ Destroy
  PROVE  ReplyInv'
<1>1. UNCHANGED <<type, call, read, header, nested, unread>> /\ provoked \subseteq provoked'
  BY DEF Accept, Vanish, Write, Flush, Close, Destroy, reader, history
<1>2. CASE Accept
  <2>1. stage = "listening" /\ stage' \in {"params", "refused"} /\ closed' = closed
    BY <1>2 DEF Accept, writers
  <2>2. ~closed["out"] /\ call = "idle"
    BY <2>1 DEF ReplyInv
  <2>3. reply' \in {reply, <<"unknown_role">>, <<"cant_mpx_conn">>}
    BY <1>2 DEF Accept
  <2>4. Ordered(reply') /\ \A k : Has(reply', k) => Has(reply, k) \/ k \in {"unknown_role", "cant_mpx_conn"}
    <3>1. CASE reply' = reply
      BY <3>1 DEF ReplyInv
    <3>2. CASE reply' # reply
      BY <2>3, <3>2 DEF Ordered, Has
    <3> QED
      BY <3>1, <3>2
  <2> QED
    BY <1>1, <2>1, <2>2, <2>4 DEF ReplyInv, RequestAnswered
<1>3. CASE Vanish
  <2>1. UNCHANGED <<stage, role, closed, reply>> /\ stage # "destroyed"
    BY <1>3 DEF Vanish, writers
  <2> QED
    BY <1>1, <2>1 DEF ReplyInv, RequestAnswered
<1>4. ASSUME NEW s \in Outputs, Write(s) \/ Flush(s)
      PROVE  ReplyInv'
  <2>1. stage \in {"serving", "bad"} /\ ~closed[s] /\ UNCHANGED <<stage, role, closed, io>>
    BY <1>4 DEF Write, Flush, Using
  <2>2. ~closed["out"] /\ ~Has(reply, "out_end") /\ ~Has(reply, "end_request")
    BY <2>1 DEF ReplyInv
  <2>3. s = "err" => ~Has(reply, "err_end")
    BY <2>1 DEF ReplyInv
  <2>4. reply' \in {reply, Sent(reply, s)}
    BY <1>4 DEF Write, Flush
  <2>5. reply \in Seq(Kind) /\ s \in Kind /\ s \in {"err", "out"}
    BY DEF Inv, TypeOK, Kind, Outputs
  <2>6. Ordered(reply') /\ \A k : Has(reply', k) => Has(reply, k) \/ k = s
    BY <2>2, <2>3, <2>4, <2>5, SentOrdered DEF ReplyInv
  <2> QED
    BY <1>1, <2>1, <2>2, <2>5, <2>6 DEF ReplyInv, RequestAnswered
<1>5. CASE Close \/ (Destroy /\ Using)
  <2>1. CASE stage = "closed"
    BY <1>5, <2>1 DEF Using, Close
  <2>2. CASE stage # "closed"
    <3>1. Using /\ CloseStreams /\ UNCHANGED <<role, io>>
      BY <1>5, <2>2 DEF Close, Destroy
    <3>2. stage' \in {stage, "closed", "destroyed"} /\ (closed'["out"] => stage' \in {"closed", "destroyed"})
      BY <1>5 DEF Close, Destroy
    <3>3. stage' = "closed" => closed'["out"]
      BY <1>5, <2>2 DEF Close, Destroy
    <3>4. call = "idle" /\ stage \in {"serving", "bad"}
      BY <3>1 DEF Using
    <3> QED
      BY <1>1, <3>1, <3>2, <3>3, <3>4, ReplyClosed DEF ReplyInv, RequestAnswered
  <2> QED
    BY <2>1, <2>2
<1>6. CASE Destroy /\ ~Using
  <2>1. stage = "closed" /\ stage' = "destroyed" /\ UNCHANGED <<role, io, reply, closed>>
    BY <1>6 DEF Destroy
  <2>2. call = "idle"
    BY <2>1 DEF ReplyInv
  <2> QED
    BY <1>1, <2>1, <2>2 DEF ReplyInv, RequestAnswered
<1> QED
  BY <1>2, <1>3, <1>4, <1>5, <1>6

LEMMA ReplyNext ==
  ASSUME Inv, ReplyInv, [Next]_vars
  PROVE  ReplyInv'
<1>1. CASE ProcessHeader
  BY <1>1, ReplyHeader DEF ProcessHeader
<1>2. CASE UNCHANGED vars
  BY <1>2 DEF vars, reader, writers, history, ReplyInv, RequestAnswered
<1> QED
  BY <1>1, <1>2, ReplyReader, ReplyWriter DEF Next

LEMMA ReplyAlways == Spec => [](Inv /\ ReplyInv)
<1>1. Init => Inv /\ ReplyInv
  BY InvInit, ReplyInit
<1>2. Inv /\ ReplyInv /\ [Next]_vars => (Inv /\ ReplyInv)'
  BY InvNext, ReplyNext
<1> QED
  BY <1>1, <1>2, PTL DEF Spec

\* server_Streambuf::close(), sync(), overflow() and process_header(): in the reply nothing of a
\* stream follows its end, and the request ends once and last, unless the client breaks the protocol.
THEOREM ReplyIsWellFormed == Spec => []ReplyWellFormed
<1>1. Inv /\ ReplyInv => ReplyWellFormed
  BY DEF Inv, ReplyInv, Ordered, Has, ReplyWellFormed
<1> QED
  BY <1>1, ReplyAlways, PTL

\* The destructor of a connection leaves no request without its end, but when the client has gone
\* or a Filter has not read its standard input.
THEOREM RequestIsAnswered == Spec => []RequestAnswered
<1>1. ReplyInv => RequestAnswered
  BY DEF ReplyInv
<1> QED
  BY <1>1, ReplyAlways, PTL
=============================================================================
