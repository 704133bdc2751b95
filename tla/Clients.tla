------------------------------ MODULE Clients ------------------------------
(***************************************************************************)
(* The WebSocket client of src/wscl: connections on an event loop, each of *)
(* which has a uwsc_client of src/3rdparty/uwsc. The handlers run on the   *)
(* thread of the loop and may call any function, the destructor included:  *)
(* calls of the application happen between any two steps of the loop.      *)
(***************************************************************************)
EXTENDS Integers, FiniteSets, SequencesExt

CONSTANT ReplacedLate  \* a connection is made while one that has ended is not destroyed

VARIABLES
  alive,    \* connection |-> the Connection exists
  is_open_, \* connection |-> as it is called in the code
  phase,    \* connection |-> its uwsc_client: "handshake", "frames", "closing" (it is in
            \* onclose of a close frame) or "freed"
  sock,     \* connection |-> the number of its socket, zero if there has been none
  rb, wb,   \* connection |-> what has been read of frames, what is to be written of them
  reading,  \* the connection whose frames are being parsed, or zero
  unwinding, \* sockets that uwsc_free() will close when onclose has returned
  owner,    \* number of a descriptor |-> the connection it has been opened for, or zero
  calls,    \* history: connection |-> the calls of its handlers
  ill       \* history: what must not happen

clientsVars == <<alive, is_open_, phase, sock, rb, wb, reading, unwinding, owner, calls, ill>>

Client == {1, 2}
Descriptor == {1, 2}
Nobody == 0
MaxWritten == 2  \* bound: frames in a buffer

ClientsInit ==
  /\ alive = [c \in Client |-> FALSE] /\ is_open_ = alive
  /\ phase = [c \in Client |-> "freed"]
  /\ sock = [c \in Client |-> 0]
  /\ rb = [c \in Client |-> <<>>] /\ wb = rb /\ calls = rb
  /\ reading = Nobody /\ unwinding = {}
  /\ owner = [d \in Descriptor |-> Nobody]
  /\ ill = {}

\* close() of the kernel; what closes the socket of another connection is ill.
Closed(s, by) ==
  /\ owner' = IF s = 0 THEN owner ELSE [owner EXCEPT ![s] = Nobody]
  /\ ill' = ill \union IF s # 0 /\ owner[s] \notin {Nobody, by} THEN {"closes what is not its own"} ELSE {}

\* uwsc_free() closes the socket each time, and forgets what has not been written.
Freed(c) ==
  /\ phase' = [phase EXCEPT ![c] = "freed"]
  /\ rb' = [rb EXCEPT ![c] = <<>>] /\ wb' = [wb EXCEPT ![c] = <<>>]
  /\ Closed(sock[c], c)

\* A handler is called; an end of the connection is told after is_open_ has been reset.
Called(c, what, open) ==
  /\ is_open_' = [is_open_ EXCEPT ![c] = open]
  /\ calls' = [calls EXCEPT ![c] = Append(@, what)]

\* uwsc_error()
Error(c) == Freed(c) /\ Called(c, "error", FALSE) /\ UNCHANGED <<alive, sock, reading, unwinding>>

\* The event loop is not within a read.
Idle == reading = Nobody /\ unwinding = {}
Running(c) == Idle /\ phase[c] \in {"handshake", "frames"}

-----------------------------------------------------------------------------
(* The application.                                                        *)

\* Connection(loop, options): the least number of a descriptor that is free is taken; if
\* there is none, or the host is not resolved, nothing is left.
Construct(c) ==
  LET free == {d \in Descriptor : owner[d] = Nobody} IN
  /\ ~alive[c] /\ free # {} /\ (ReplacedLate \/ (unwinding = {} /\ \A d \in Client : alive[d] => phase[d] # "freed"))
  /\ sock' = [sock EXCEPT ![c] = Min(free)] /\ owner' = [owner EXCEPT ![Min(free)] = c]
  /\ alive' = [alive EXCEPT ![c] = TRUE]
  /\ phase' = [phase EXCEPT ![c] = "handshake"]
  /\ rb' = [rb EXCEPT ![c] = <<>>] /\ wb' = [wb EXCEPT ![c] = <<"handshake">>]
  /\ calls' = [calls EXCEPT ![c] = <<>>]
  /\ UNCHANGED <<is_open_, reading, unwinding, ill>>

\* send(), send_text(), send_binary(), ping(), and close(), which sends a frame as they do.
Send(c) ==
  /\ alive[c] /\ is_open_[c] /\ Len(wb[c]) < MaxWritten
  /\ wb' = [wb EXCEPT ![c] = Append(@, "frame")]
  /\ UNCHANGED <<alive, is_open_, phase, sock, rb, reading, unwinding, owner, calls, ill>>

\* Mutant: uwsc_free() is not called if the connection has never been open.
Destroy_if_open(c) ==
  /\ alive[c]
  /\ alive' = [alive EXCEPT ![c] = FALSE] /\ is_open_' = [is_open_ EXCEPT ![c] = FALSE]
  /\ calls' = [calls EXCEPT ![c] = <<>>]
  /\ IF is_open_[c] THEN Freed(c) ELSE UNCHANGED <<phase, rb, wb, owner, ill>>
  /\ UNCHANGED <<sock, reading, unwinding>>

\* The destructor: the frame that close() puts into the buffer is forgotten with it.
Destroy(c) ==
  /\ alive[c]
  /\ alive' = [alive EXCEPT ![c] = FALSE] /\ is_open_' = [is_open_ EXCEPT ![c] = FALSE]
  /\ calls' = [calls EXCEPT ![c] = <<>>]
  /\ Freed(c)
  /\ UNCHANGED <<sock, reading, unwinding>>

-----------------------------------------------------------------------------
(* The event loop.                                                         *)

\* The socket takes a frame, or there is an error of it, or a timeout of the connection
\* attempt or of the pings.
Write(c) ==
  /\ Running(c) /\ wb[c] # <<>>
  /\ wb' = [wb EXCEPT ![c] = Tail(@)]
  /\ UNCHANGED <<alive, is_open_, phase, sock, rb, reading, unwinding, owner, calls, ill>>

Fail(c) == Running(c) /\ Error(c)

\* What the server sends: the answer to the handshake, then frames, one or two at a time.
Received == {"accepted", "message", "ping", "pong", "close", "fragment"}
Receive(c) ==
  /\ Running(c) /\ rb[c] = <<>>
  /\ \E frames \in {<<f>> : f \in Received} \union {<<f, g>> : f, g \in Received} :
       rb' = [rb EXCEPT ![c] = frames]
  /\ reading' = c
  /\ UNCHANGED <<alive, is_open_, phase, sock, wb, unwinding, owner, calls, ill>>

\* The end of the stream: onclose is called after uwsc_free().
Eof(c) ==
  /\ Running(c) /\ Freed(c) /\ Called(c, "close", FALSE)
  /\ UNCHANGED <<alive, sock, reading, unwinding>>

Parsed(c) == rb' = [rb EXCEPT ![c] = Tail(@)] /\ UNCHANGED <<alive, sock, reading>>

\* The answer to the handshake; another one is an error.
ParseAnswer(c) ==
  /\ phase[c] = "handshake"
  /\ IF Head(rb[c]) = "accepted"
     THEN /\ Called(c, "open", TRUE) /\ Parsed(c)
          /\ phase' = [phase EXCEPT ![c] = "frames"]
          /\ UNCHANGED <<wb, unwinding, owner, ill>>
     ELSE Error(c)

ParseMessage(c) ==
  /\ phase[c] = "frames" /\ Head(rb[c]) = "message" /\ Len(calls[c]) < MaxWritten
  /\ Called(c, "message", is_open_[c]) /\ Parsed(c)
  /\ UNCHANGED <<phase, wb, unwinding, owner, ill>>

ParsePing(c) ==
  /\ phase[c] = "frames" /\ Head(rb[c]) \in {"ping", "pong"} /\ Len(wb[c]) < MaxWritten
  /\ wb' = IF Head(rb[c]) = "ping" THEN [wb EXCEPT ![c] = Append(@, "frame")] ELSE wb
  /\ Parsed(c) /\ UNCHANGED <<is_open_, phase, calls, unwinding, owner, ill>>

\* onclose is called before uwsc_free().
ParseClose(c) ==
  /\ phase[c] = "frames" /\ Head(rb[c]) = "close"
  /\ Called(c, "close", FALSE) /\ Parsed(c)
  /\ phase' = [phase EXCEPT ![c] = "closing"]
  /\ unwinding' = {sock[c]}
  /\ UNCHANGED <<wb, owner, ill>>

\* A fragment is not supported.
ParseFragment(c) == phase[c] = "frames" /\ Head(rb[c]) \in {"fragment", "accepted"} /\ Error(c)

Unwind(c) ==
  /\ unwinding # {}
  /\ Closed(Max(unwinding), c) /\ unwinding' = {}
  /\ rb' = [rb EXCEPT ![c] = <<>>] /\ wb' = [wb EXCEPT ![c] = <<>>]
  /\ phase' = [phase EXCEPT ![c] = "freed"]
  /\ UNCHANGED <<alive, is_open_, sock, reading, calls>>

\* Within a read.
Parse(c) ==
  \/ Unwind(c)
  \/ /\ unwinding = {} /\ rb[c] # <<>>
     /\ ParseAnswer(c) \/ ParseMessage(c) \/ ParsePing(c) \/ ParseClose(c) \/ ParseFragment(c)
  \/ /\ unwinding = {} /\ (rb[c] = <<>> \/ Len(calls[c]) = MaxWritten \/ Len(wb[c]) = MaxWritten)
     /\ reading' = Nobody /\ rb' = [rb EXCEPT ![c] = <<>>]
     /\ UNCHANGED <<alive, is_open_, phase, sock, wb, unwinding, owner, calls, ill>>

ClientsNext ==
  \E c \in Client :
    \/ Construct(c) \/ Send(c) \/ Destroy(c)
    \/ Write(c) \/ Fail(c) \/ Receive(c) \/ Eof(c)
    \/ reading = c /\ Parse(c)

-----------------------------------------------------------------------------

\* wscl: whatever the handlers do, handle_open() is the first call, handle_error() or
\* handle_close() the last, and is_open() is true between them; a connection that has been
\* destroyed is not called.
HandlersInOrder ==
  \A c \in Client :
    LET End == {"error", "close"} IN
    /\ calls[c] # <<>> => alive[c]
    /\ \A i \in DOMAIN calls[c] :
         /\ calls[c][i] = "open" => i = 1
         /\ calls[c][i] = "message" => calls[c][1] = "open"
         /\ calls[c][i] \in End => i = Len(calls[c])
    /\ is_open_[c] <=> calls[c] # <<>> /\ calls[c][1] = "open" /\ Last(calls[c]) \notin End

\* wscl: no socket is left without a connection to close it; if a connection that has
\* ended is destroyed before another one is made, nothing is closed that is another's.
SocketsOwned ==
  /\ ill = {}
  /\ \A d \in Descriptor :
       owner[d] # Nobody => d \in unwinding \/ (alive[owner[d]] /\ sock[owner[d]] = d /\ phase[owner[d]] # "freed")

-----------------------------------------------------------------------------
(* The pings of a client, a tick a second.                                 *)

Patience == 2  \* ticks, stands for five
Pinging == [wait |-> FALSE, since |-> 99, timeouts |-> 0, failed |-> FALSE]

\* uwsc_timer_cb()
Tick(interval, s) ==
  LET late == s.wait /\ s.since >= Patience
      timeouts == CASE late -> s.timeouts + 1
                    [] ~late /\ s.wait -> s.timeouts
                    [] OTHER -> 0
  IN
  CASE interval < 1 \/ (s.wait /\ ~late) -> s
    [] interval >= 1 /\ late /\ timeouts > 2 -> [s EXCEPT !.failed = TRUE]
    [] OTHER -> IF s.since < interval THEN [s EXCEPT !.wait = FALSE, !.timeouts = timeouts]
                ELSE [s EXCEPT !.wait = TRUE, !.since = 0, !.timeouts = timeouts]

\* answers says of each tick whether a pong has come before it.
Ticked(interval, answers) ==
  FoldLeft(LAMBDA s, answer :
             IF s.failed THEN s
             ELSE Tick(interval, [s EXCEPT !.since = @ + 1, !.wait = @ /\ ~answer]),
           Pinging, answers)

\* A server is given up only for three pings in turn without an answer. One that does not
\* answer any more is, if the interval of the pings is not longer than the patience: with
\* a longer one the timeouts are forgotten before they are three.
SilenceNoticed(interval, answers) ==
  LET Failed == Ticked(interval, answers).failed
      Silent(last, n) == n <= last /\ \A i \in (last - n + 1)..last : ~answers[i]
  IN
  /\ Failed => interval \in 1..Patience /\ \E last \in DOMAIN answers : Silent(last, 3 * Patience)
  /\ interval \in 1..Patience /\ Silent(Len(answers), 3 * Patience + interval) => Failed
=============================================================================
