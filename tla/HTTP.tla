-------------------------------- MODULE HTTP --------------------------------
(***************************************************************************)
(* A client and a server connection of src/http, which share the class     *)
(* Connection: one request and one response. A connection is used by one   *)
(* thread, which may make any call its preconditions admit; a call that    *)
(* reads blocks until the peer has sent something or has gone.             *)
(*                                                                         *)
(* A message is a start line, headers and content. Its bytes are cells: the*)
(* start line is four of them, which separate the ways a read may end      *)
(* inside it, the headers are one or two, and a cell of content is a byte. *)
(* Between the ends any number of cells may arrive at once.                *)
(***************************************************************************)
EXTENDS Integers, FiniteSetsExt

CONSTANTS
  MaxHead,     \* cells of head_ (8192 bytes)
  MaxLength    \* bound: the value of Content-Length

VARIABLES
  pc,            \* side |-> "idle", the call it is blocked in, or how it ended
  startSent,     \* side |-> is_start_sent_
  headersSent,   \* side |-> is_headers_sent_
  unsent,        \* side |-> unsent_content_length_
  headReceived,  \* side |-> is_head_received_
  headSize,      \* side |-> head_size_
  contentOffset, \* side |-> head_content_offset_
  unreceived,    \* side |-> unreceived_content_length_
  size,          \* side |-> the size given to the receive_content() in progress
  head,          \* side |-> cells of the head it sends
  announced,     \* side |-> the Content-Length it has sent
  flight,        \* side |-> cells it has sent that its peer has not read
  delivered,     \* history: side |-> cells of content its application got
  splits,        \* history: side |-> its reads ended inside the start line
  sparing        \* history: side |-> its application asked for less than head_ held

sending == <<startSent, headersSent, unsent, head, announced>>
receiving == <<headReceived, headSize, contentOffset, unreceived, size>>
history == <<delivered, splits, sparing>>
vars == <<pc, sending, receiving, flight, history>>

Sides == {"client", "server"}
Other(s) == IF s = "client" THEN "server" ELSE "client"

\* The cells of a start line: fewer than min_head_size bytes; more of them; up to
\* its carriage return; its line feed.
Short == 1
StartLine == 4

\* How a side may have ended: destroyed, or with std::terminate() in a call.
Ended == {"destroyed", "close", "dismiss"}

Init ==
  /\ pc = [s \in Sides |-> "idle"]
  /\ startSent = [s \in Sides |-> FALSE]
  /\ headersSent = [s \in Sides |-> FALSE]
  /\ unsent = [s \in Sides |-> 0]
  /\ headReceived = [s \in Sides |-> FALSE]
  /\ headSize = [s \in Sides |-> 0]
  /\ contentOffset = [s \in Sides |-> 0]
  /\ unreceived = [s \in Sides |-> 0]
  /\ size = [s \in Sides |-> 0]
  /\ head = [s \in Sides |-> 0]
  /\ announced = [s \in Sides |-> 0]
  /\ flight = [s \in Sides |-> 0]
  /\ delivered = [s \in Sides |-> 0]
  /\ splits = [s \in Sides |-> FALSE]
  /\ sparing = [s \in Sides |-> FALSE]

-----------------------------------------------------------------------------
(* Sending.                                                                *)

\* send__() writes all of the cells, or throws because the peer has gone.
Writes(s, cells) ==
  /\ pc[Other(s)] \notin Ended
  /\ flight' = [flight EXCEPT ![s] = @ + cells]

\* send_start() of both classes; skip_headers adds the empty line and is noted
\* before the write.
SendStart(s) ==
  /\ pc[s] = "idle" /\ ~startSent[s]
  /\ s = "client" => ~headReceived[s]
  /\ \E skipHeaders \in BOOLEAN :
       /\ Writes(s, StartLine + IF skipHeaders THEN 1 ELSE 0)
       /\ head' = [head EXCEPT ![s] = StartLine + IF skipHeaders THEN 1 ELSE 0]
       /\ headersSent' = [headersSent EXCEPT ![s] = skipHeaders]
  /\ startSent' = [startSent EXCEPT ![s] = TRUE]
  /\ UNCHANGED <<pc, unsent, announced, receiving, history>>

\* send_header(): Content-Length sets the content to be sent; any header may be
\* the last one. (Bounds: two headers, one Content-Length.)
SendHeader(s) ==
  /\ pc[s] = "idle" /\ startSent[s] /\ ~headersSent[s]
  /\ \E isLast \in BOOLEAN :
       /\ head[s] = StartLine \/ isLast
       /\ headersSent' = [headersSent EXCEPT ![s] = isLast]
  /\ \/ UNCHANGED <<unsent, announced>>
     \/ \E n \in 1..MaxLength :
          /\ announced[s] = 0
          /\ unsent' = [unsent EXCEPT ![s] = n]
          /\ announced' = [announced EXCEPT ![s] = n]
  /\ Writes(s, 1)
  /\ head' = [head EXCEPT ![s] = @ + 1]
  /\ UNCHANGED <<pc, startSent, receiving, history>>

SendContent(s) ==
  /\ pc[s] = "idle" /\ headersSent[s]
  /\ \E n \in 1..unsent[s] :
       Writes(s, n) /\ unsent' = [unsent EXCEPT ![s] = @ - n]
  /\ UNCHANGED <<pc, startSent, headersSent, head, announced, receiving, history>>

-----------------------------------------------------------------------------
(* Receiving the head. Nothing of receive_head() is kept from call to call *)
(* but the cells in head_, which the next call parses from the beginning.  *)

\* A read of at most room cells: some that have arrived, or none at the end of
\* the stream (and when there is no room).
Reads(s, room, n) ==
  IF n = 0
  THEN (room = 0 \/ (flight[Other(s)] = 0 /\ pc[Other(s)] \in Ended)) /\ UNCHANGED flight
  ELSE /\ n <= room /\ n <= flight[Other(s)]
       /\ flight' = [flight EXCEPT ![Other(s)] = @ - n]

Arrivals(s) == 0..flight[Other(s)]

\* receive_head() reads only if head_ is empty: what the last call has left
\* counts as received.
ReceiveHead(s) ==
  /\ pc[s] = "idle" /\ ~headReceived[s]
  /\ IF s = "server" THEN ~startSent[s] ELSE headersSent[s] /\ unsent[s] = 0
  /\ pc' = [pc EXCEPT ![s] = IF headSize[s] = 0 THEN "read_start" ELSE "parse_start"]
  /\ UNCHANGED <<sending, receiving, flight, history>>

\* recv_head() in parse_start_line() and in parse_headers(). A start line read in
\* parts is parsed from its middle, what fails: the call returns.
ReadHead(s) ==
  /\ pc[s] \in {"read_start", "read_rest", "read_headers"}
  /\ \E n \in Arrivals(s) :
       LET total == headSize[s] + n IN
       /\ Reads(s, MaxHead - headSize[s], n)
       /\ headSize' = [headSize EXCEPT ![s] = total]
       /\ contentOffset' = [contentOffset EXCEPT ![s] = IF n > 0 THEN total ELSE @]
       /\ splits' = [splits EXCEPT ![s] = @ \/ total < StartLine]
       /\ pc' = [pc EXCEPT ![s] =
            CASE pc[s] = "read_start" -> IF n > 0 THEN "parse_start" ELSE "idle"
              [] pc[s] = "read_rest" -> "idle"
              [] pc[s] = "read_headers" ->
                   IF n > 0 \/ headSize[s] = StartLine THEN "parse_headers" ELSE "idle"]
  /\ UNCHANGED <<sending, headReceived, unreceived, size, delivered, sparing>>

\* parse_start_line(): too short a line fails; so does one whose last byte is
\* the carriage return; a partial line makes the loop read the rest.
ParseStartLine(s) ==
  /\ pc[s] = "parse_start"
  /\ pc' = [pc EXCEPT ![s] =
       CASE headSize[s] <= Short \/ headSize[s] = StartLine - 1 -> "idle"
         [] headSize[s] \in (Short + 1)..(StartLine - 2) -> "read_rest"
         [] headSize[s] = StartLine -> "read_headers"
         [] headSize[s] > StartLine -> "parse_headers"]
  /\ UNCHANGED <<sending, receiving, flight, history>>

\* Mutant: the content that has come with the head is not remembered.
ParseHeaders_at_end(s) ==
  LET complete == headSize[s] >= head[Other(s)] /\ headersSent[Other(s)]
      none == headSize[s] = StartLine
  IN
  /\ pc[s] = "parse_headers"
  /\ IF complete \/ none
     THEN /\ headReceived' = [headReceived EXCEPT ![s] = TRUE]
          /\ unreceived' = [unreceived EXCEPT ![s] = IF complete THEN announced[Other(s)] ELSE 0]
          /\ pc' = [pc EXCEPT ![s] = "idle"]
     ELSE /\ pc' = [pc EXCEPT ![s] = "read_headers"]
          /\ UNCHANGED <<headReceived, unreceived>>
  /\ UNCHANGED <<sending, contentOffset, headSize, size, flight, history>>

\* Mutant: the headers are complete only if something follows them.
ParseHeaders_beyond(s) ==
  LET complete == headSize[s] > head[Other(s)] /\ headersSent[Other(s)]
      none == headSize[s] = StartLine
  IN
  /\ pc[s] = "parse_headers"
  /\ IF complete \/ none
     THEN /\ headReceived' = [headReceived EXCEPT ![s] = TRUE]
          /\ contentOffset' = [contentOffset EXCEPT ![s] = IF complete THEN head[Other(s)] ELSE @]
          /\ unreceived' = [unreceived EXCEPT ![s] = IF complete THEN announced[Other(s)] ELSE 0]
          /\ pc' = [pc EXCEPT ![s] = "idle"]
     ELSE /\ pc' = [pc EXCEPT ![s] = "read_headers"]
          /\ UNCHANGED <<headReceived, contentOffset, unreceived>>
  /\ UNCHANGED <<sending, headSize, size, flight, history>>

\* parse_headers() and the end of receive_head(): the headers are complete, or
\* there are none before the end of the stream.
ParseHeaders(s) ==
  LET complete == headSize[s] >= head[Other(s)] /\ headersSent[Other(s)]
      none == headSize[s] = StartLine
  IN
  /\ pc[s] = "parse_headers"
  /\ IF complete \/ none
     THEN /\ headReceived' = [headReceived EXCEPT ![s] = TRUE]
          /\ contentOffset' = [contentOffset EXCEPT ![s] =
               IF complete /\ headSize[s] > head[Other(s)] THEN head[Other(s)] ELSE @]
          /\ unreceived' = [unreceived EXCEPT ![s] = IF complete THEN announced[Other(s)] ELSE 0]
          /\ pc' = [pc EXCEPT ![s] = "idle"]
     ELSE /\ pc' = [pc EXCEPT ![s] = "read_headers"]
          /\ UNCHANGED <<headReceived, contentOffset, unreceived>>
  /\ UNCHANGED <<sending, headSize, size, flight, history>>

-----------------------------------------------------------------------------
(* Receiving the content.                                                  *)

\* receive_content(): first what head_ holds. That is counted only if all of it
\* is taken and head_ is not full; in the latter case the call goes on reading.
FromHead(s, n, next) ==
  LET held == headSize[s] - contentOffset[s] IN
  /\ delivered' = [delivered EXCEPT ![s] = @ + Min({n, held})]
  /\ contentOffset' = [contentOffset EXCEPT ![s] = @ + Min({n, held})]
  /\ IF held = 0 \/ (n >= held /\ headSize[s] = MaxHead)
     THEN /\ size' = [size EXCEPT ![s] = n - held]
          /\ pc' = [pc EXCEPT ![s] = next]
          /\ UNCHANGED unreceived
     ELSE /\ unreceived' = [unreceived EXCEPT ![s] = IF n < held THEN @ ELSE @ - held]
          /\ pc' = [pc EXCEPT ![s] =
               IF next = "dismiss_read" /\ unreceived'[s] # 0 THEN "dismiss" ELSE "idle"]
          /\ UNCHANGED size

ReceiveContent(s) ==
  /\ pc[s] = "idle" /\ headReceived[s] /\ unreceived[s] > 0
  /\ \E n \in 1..MaxLength :
       /\ FromHead(s, n, "read_content")
       /\ sparing' = [sparing EXCEPT ![s] = @ \/ n < headSize[s] - contentOffset[s]]
  /\ UNCHANGED <<sending, headReceived, headSize, flight, splits>>

\* dismiss_content() makes one receive_content() with a buffer that is longer
\* than the content, and asserts that nothing is left.
DismissContent(s) ==
  /\ pc[s] = "idle" /\ headReceived[s] /\ unreceived[s] > 0
  /\ FromHead(s, MaxHead + MaxLength, "dismiss_read")
  /\ UNCHANGED <<sending, headReceived, headSize, flight, splits, sparing>>

ReadContent(s) ==
  /\ pc[s] \in {"read_content", "dismiss_read"}
  /\ \E n \in Arrivals(s) :
       /\ Reads(s, Min({size[s], unreceived[s]}), n)
       /\ unreceived' = [unreceived EXCEPT ![s] = @ - n]
       /\ delivered' = [delivered EXCEPT ![s] = @ + n]
  /\ pc' = [pc EXCEPT ![s] =
       IF pc[s] = "dismiss_read" /\ unreceived'[s] # 0 THEN "dismiss" ELSE "idle"]
  /\ UNCHANGED <<sending, headReceived, headSize, contentOffset, size, splits, sparing>>

-----------------------------------------------------------------------------

\* close() asserts the invariant of a connection that has a descriptor just after
\* it has reset it: the process terminates.
Close(s) ==
  /\ pc[s] = "idle"
  /\ pc' = [pc EXCEPT ![s] = "close"]
  /\ UNCHANGED <<sending, receiving, flight, history>>

\* The destructor closes the descriptor.
Destroy(s) ==
  /\ pc[s] = "idle"
  /\ pc' = [pc EXCEPT ![s] = "destroyed"]
  /\ UNCHANGED <<sending, receiving, flight, history>>

Next ==
  \E s \in Sides :
    \/ SendStart(s) \/ SendHeader(s) \/ SendContent(s)
    \/ ReceiveHead(s) \/ ReadHead(s) \/ ParseStartLine(s) \/ ParseHeaders(s)
    \/ ReceiveContent(s) \/ DismissContent(s) \/ ReadContent(s)
    \/ Close(s) \/ Destroy(s)

Spec == Init /\ [][Next]_vars

\* A head that has arrived whole and was not accepted has a start line that came
\* in parts: wherever else the reads end, receive_head() returns with the head.
\* The content is found where the head ends.
HeadReceived ==
  \A s \in Sides :
    /\ pc[s] = "idle" /\ headSize[s] >= head[Other(s)] /\ head[Other(s)] > StartLine
         /\ headersSent[Other(s)] /\ ~splits[s] => headReceived[s]
    /\ headReceived[s] /\ headSize[s] > StartLine => contentOffset[s] >= head[Other(s)]

\* What the application has got and what it may still receive make the announced
\* content, unless it asked for less than head_ held, or head_ was filled by the
\* head and content; no call waits for content that was delivered before, and
\* dismiss_content() terminates the process only if content was still on its way.
ContentAccounted ==
  \A s \in Sides :
    headReceived[s] /\ headSize[s] > StartLine /\ ~sparing[s] /\ headSize[s] < MaxHead =>
      /\ delivered[s] + unreceived[s] = announced[Other(s)]
      /\ pc[s] \in {"read_content", "dismiss_read", "dismiss"} =>
           flight[Other(s)] + unsent[Other(s)] > 0 \/ pc[Other(s)] \in Ended
=============================================================================
