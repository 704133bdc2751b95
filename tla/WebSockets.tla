----------------------------- MODULE WebSockets -----------------------------
(***************************************************************************)
(* The WebSocket server of src/ws: a listener runs an event loop on its    *)
(* thread, which calls the handlers of handshakes, of HTTP requests and of *)
(* connections; any thread may ask it to call something soon.              *)
(*                                                                         *)
(* A handler that closes other connections does so within the call of the  *)
(* handler, on the same thread: the connections closed by it are chosen as *)
(* a set. What uWebSockets does is modelled from how it is used.           *)
(***************************************************************************)
EXTENDS Integers, FiniteSets, SequencesExt

CONSTANTS
  Peer,       \* clients, each of which connects once
  Usage,      \* what the application does beside the plain use
  MaxDeferred \* bound: calls waiting for the event loop

\* Uses with which the properties do not hold: handle_close(), called by
\* close_connections(), closes another connection, or its own one again; the
\* callback of for_each() closes one; an Http_io is used, as it is valid, after an
\* immediate handshake or when send_data() has told that all has been sent; a
\* response handler sends less than what remains, and returns true.
UsageKind == {"close_in_close", "close_again", "close_in_for_each", "stale_io", "chunk"}

VARIABLES
  listens,      \* listening_socket_ is set
  exchange,     \* peer |-> "absent", "new", "pending" (kept by the application),
                \* "sent" (by send_data(), with a response handler set), "ended",
                \* or its connection is "open" or "closed"
  rep,          \* io |-> rep_ of the Http_io of the peer is set
  abortHandler, \* is_abort_handler_set_
  responder,    \* is_response_handler_set_
  holder,       \* peer |-> what holds its Connection: "none", "io" or "socket"
  conn,         \* peer |-> rep_ of its Connection is set
  connections_, \* the connections the listener closes or visits
  sweep,        \* "none", or the deferred iteration over connections_ in progress
  position,     \* of that iteration
  deferred,     \* calls deferred to the event loop
  caller,       \* peer |-> another thread in event_loop_call_soon() of its connection
  closings,     \* history: peer |-> calls of handle_close()
  ill           \* history: undefined behaviour, an exception or a failed assertion:
                \* the loop goes on after the "written" of Conn::close() only

http == <<exchange, rep, abortHandler, responder, holder>>
loop == <<listens, connections_, sweep, position, deferred>>
vars == <<http, conn, loop, caller, closings, ill>>

Init ==
  /\ listens = TRUE
  /\ exchange = [p \in Peer |-> "absent"]
  /\ rep = [p \in Peer |-> FALSE]
  /\ abortHandler = [p \in Peer |-> FALSE]
  /\ responder = [p \in Peer |-> FALSE]
  /\ holder = [p \in Peer |-> "none"]
  /\ conn = [p \in Peer |-> FALSE]
  /\ connections_ = <<>> /\ sweep = "none" /\ position = 1 /\ deferred = <<>>
  /\ caller = [p \in Peer |-> "out"]
  /\ closings = [p \in Peer |-> 0]
  /\ ill = {}

\* The end of close() and abort() of a Connection and of its Conn: they write to
\* the Conn that the close handler has destroyed, and read the Connection it has
\* released. The loop goes on when nothing has taken that memory yet.
Written == ill \union {"written"}

Runs == ill \subseteq {"written"}

\* The event loop takes up something new.
Idle == sweep = "none" /\ Runs

Open == {p \in Peer : exchange[p] = "open"}

-----------------------------------------------------------------------------
(* Handshakes and requests.                                                *)

\* .open: the connection gets its representation and its place in connections_.
Opened(p) ==
  /\ exchange' = [exchange EXCEPT ![p] = "open"]
  /\ holder' = [holder EXCEPT ![p] = "socket"]
  /\ conn' = [conn EXCEPT ![p] = TRUE]
  /\ connections_' = Append(connections_, p)

\* A client is accepted.
Connect(p) ==
  /\ Idle /\ listens /\ exchange[p] = "absent"
  /\ exchange' = [exchange EXCEPT ![p] = "new"]
  /\ UNCHANGED <<rep, abortHandler, responder, holder, conn, loop, caller, closings, ill>>

\* .upgrade: handle_handshake() has returned a connection or none, and has left
\* its Http_io valid or not, with handlers or without. The handshake is completed,
\* deferred until the application ends it, or rejected. A response ended by the
\* application, or awaited of it, leaves nothing to do; a connection returned with
\* an ended or awaited response is an error that leaves listen().
Upgrade(p) ==
  /\ Idle /\ exchange[p] = "new"
  /\ \E made, valid, aborts, responds \in BOOLEAN :
       /\ abortHandler' = [abortHandler EXCEPT ![p] = aborts]
       /\ responder' = [responder EXCEPT ![p] = responds]
       /\ rep' = [rep EXCEPT ![p] = valid /\ (made \/ aborts)]
       /\ IF made /\ ~(valid /\ (aborts \/ ~responds))
          THEN /\ ill' = ill \union {"thrown"}
               /\ UNCHANGED <<exchange, holder, conn, connections_>>
          ELSE /\ IF made /\ ~aborts
                  THEN Opened(p)
                  ELSE /\ exchange' = [exchange EXCEPT ![p] =
                            IF valid /\ aborts THEN "pending" ELSE "ended"]
                       /\ holder' = [holder EXCEPT ![p] = IF made THEN "io" ELSE "none"]
                       /\ UNCHANGED <<conn, connections_>>
               /\ UNCHANGED ill
  /\ UNCHANGED <<listens, sweep, position, deferred, caller, closings>>

\* A request that is no handshake: handle_request() has ended it, or set an abort
\* handler and keeps it; else it is aborted.
Request(p) ==
  /\ Idle /\ exchange[p] = "new"
  /\ \E keeps, responds \in BOOLEAN :
       /\ abortHandler' = [abortHandler EXCEPT ![p] = keeps]
       /\ responder' = [responder EXCEPT ![p] = responds]
       /\ rep' = [rep EXCEPT ![p] = keeps]
       /\ exchange' = [exchange EXCEPT ![p] = IF keeps THEN "pending" ELSE "ended"]
  /\ UNCHANGED <<holder, conn, loop, caller, closings, ill>>

\* The application calls a function of an Http_io that is valid.
Usable(p) ==
  Idle /\ rep[p] /\ (exchange[p] \notin {"sent", "open", "closed"} \/ "stale_io" \in Usage)

\* end_handshake() of a deferred handshake.
End_handshake(p) ==
  /\ Usable(p) /\ holder[p] = "io"
  /\ rep' = [rep EXCEPT ![p] = FALSE]
  /\ IF exchange[p] = "pending" THEN Opened(p) /\ UNCHANGED ill
     ELSE ill' = ill \union {"upgrade"} /\ UNCHANGED <<exchange, holder, conn, connections_>>
  /\ UNCHANGED <<abortHandler, responder, listens, sweep, position, deferred, caller, closings>>

\* end(), or send_data() without a response handler.
End(p) ==
  /\ Usable(p)
  /\ rep' = [rep EXCEPT ![p] = FALSE]
  /\ exchange' = [exchange EXCEPT ![p] = "ended"]
  /\ ill' = IF exchange[p] = "pending" THEN ill ELSE ill \union {"end"}
  /\ UNCHANGED <<abortHandler, responder, holder, conn, loop, caller, closings>>

\* send_data() with a response handler completes the response (when it does not,
\* nothing changes): uWebSockets forgets the handlers, and rep_ stays.
Send_data(p) ==
  /\ Usable(p) /\ responder[p]
  /\ exchange' = [exchange EXCEPT ![p] = "sent"]
  /\ ill' = IF exchange[p] = "pending" THEN ill ELSE ill \union {"end"}
  /\ UNCHANGED <<rep, abortHandler, responder, holder, conn, loop, caller, closings>>

\* The client takes more: the response handler sends by send_data(), which
\* completes the response or not; if the handler returns true rep_ is cleared.
Respond(p) ==
  /\ Idle /\ exchange[p] = "pending" /\ responder[p]
  /\ \E done, ok \in BOOLEAN :
       /\ ok => done \/ "chunk" \in Usage
       /\ rep' = [rep EXCEPT ![p] = @ /\ ~ok]
       /\ exchange' = [exchange EXCEPT ![p] =
            IF done THEN IF ok THEN "ended" ELSE "sent" ELSE "pending"]
  /\ ill' = IF rep[p] THEN ill ELSE ill \union {"assertion"}
  /\ UNCHANGED <<abortHandler, responder, holder, conn, loop, caller, closings>>

\* Mutant: the abort handler's wrapper does not forget the response.
Abort_kept(p) ==
  /\ Idle /\ exchange[p] = "pending"
  /\ exchange' = [exchange EXCEPT ![p] = "ended"]
  /\ UNCHANGED <<rep, abortHandler, responder, holder, conn, loop, caller, closings, ill>>

\* The client goes away, or abort() is called: the abort handler is called and the
\* Http_io is invalid from then on.
Abort(p) ==
  /\ Idle /\ exchange[p] = "pending"
  /\ exchange' = [exchange EXCEPT ![p] = "ended"]
  /\ rep' = [rep EXCEPT ![p] = FALSE]
  /\ UNCHANGED <<abortHandler, responder, holder, conn, loop, caller, closings, ill>>

-----------------------------------------------------------------------------
(* Connections.                                                            *)

\* What is left of s, in its order, when the elements of a set are erased.
Without(s, set) ==
  LET kept == {i \in DOMAIN s : s[i] \notin set}
      orders == {f \in [1..Cardinality(kept) -> kept] : \A i, j \in DOMAIN f : i < j => f[i] < f[j]}
  IN {[i \in DOMAIN f |-> s[f[i]]] : f \in orders}

\* .close of the connections of a set, in whatever order: handle_close() is called,
\* the connection leaves connections_ unless close_connections() iterates over
\* them, and its representation is destroyed under the mutex of the connection.
Closed(set) ==
  /\ \A p \in set : caller[p] # "checked"
  /\ exchange' = [p \in Peer |-> IF p \in set THEN "closed" ELSE exchange[p]]
  /\ holder' = [p \in Peer |-> IF p \in set THEN "none" ELSE holder[p]]
  /\ conn' = [p \in Peer |-> conn[p] /\ p \notin set]
  /\ closings' = [p \in Peer |-> closings[p] + IF p \in set THEN 1 ELSE 0]
  /\ connections_' \in IF sweep = "close" THEN {connections_} ELSE Without(connections_, set)

\* The client closes the connection or goes away, or the application calls close()
\* or abort(); handle_close() closes other connections. If it closes its own one
\* again, which close() has not disconnected yet, an assertion fails.
Close(p) ==
  /\ Idle /\ p \in Open
  /\ \E others \in SUBSET (Open \ {p}), called \in BOOLEAN :
       /\ Closed({p} \union others)
       /\ \/ ill' = IF called \/ others # {} THEN Written ELSE ill
          \/ "close_again" \in Usage /\ ill' = ill \union {"assertion"}
  /\ UNCHANGED <<rep, abortHandler, responder, listens, sweep, position, deferred, caller>>

-----------------------------------------------------------------------------
(* Calls deferred to the event loop, which may be made by any thread.      *)

\* Listener::close(), close_connections() and for_each().
Ask(what) ==
  /\ Runs /\ Len(deferred) < MaxDeferred
  /\ deferred' = Append(deferred, what)
  /\ UNCHANGED <<http, conn, listens, connections_, sweep, position, caller, closings, ill>>

\* Connection::event_loop_call_soon() on another thread: under the mutex it finds
\* the connection represented, and defers the callback by that representation.
Call_soon_check(p) ==
  /\ Runs /\ caller[p] = "out" /\ conn[p] /\ Len(deferred) < MaxDeferred
  /\ caller' = [caller EXCEPT ![p] = "checked"]
  /\ UNCHANGED <<http, conn, loop, closings, ill>>

Call_soon_defer(p) ==
  /\ caller[p] = "checked"
  /\ caller' = [caller EXCEPT ![p] = "out"]
  /\ ill' = IF conn[p] THEN ill ELSE ill \union {"freed"}
  /\ deferred' = IF Len(deferred) < MaxDeferred THEN Append(deferred, "callback") ELSE deferred
  /\ UNCHANGED <<http, conn, listens, connections_, sweep, position, closings>>

\* The event loop makes the next deferred call. close_connections() has no effect
\* once the listening socket is closed.
Run_deferred ==
  /\ Idle /\ deferred # <<>>
  /\ deferred' = Tail(deferred)
  /\ listens' = (listens /\ Head(deferred) # "close")
  /\ sweep' = CASE Head(deferred) = "close_connections" /\ listens -> "close"
               [] Head(deferred) = "for_each" -> "visit"
               [] OTHER -> "none"
  /\ position' = 1
  /\ UNCHANGED <<http, conn, connections_, caller, closings, ill>>

\* One connection of the iteration of close_connections(). A connection that has
\* been closed by the handler of an earlier one is there still.
Close_next ==
  /\ sweep = "close" /\ Runs /\ position <= Len(connections_)
  /\ LET p == connections_[position] IN
     IF conn[p]
     THEN /\ \E others \in SUBSET (Open \ {p}) :
               /\ others # {} => "close_in_close" \in Usage
               /\ Closed({p} \union others)
          /\ ill' = Written
     ELSE ill' = ill \union {"dangling"} /\ UNCHANGED <<exchange, holder, conn, closings, connections_>>
  /\ position' = position + 1
  /\ UNCHANGED <<rep, abortHandler, responder, listens, sweep, deferred, caller>>

\* One connection of for_each(). Closing any of them invalidates the iterator.
Visit_next ==
  /\ sweep = "visit" /\ Runs /\ position <= Len(connections_)
  /\ \/ UNCHANGED ill
     \/ "close_in_for_each" \in Usage /\ ill' = ill \union {"iterator"}
  /\ position' = position + 1
  /\ UNCHANGED <<http, conn, listens, connections_, sweep, deferred, caller, closings>>

\* Mutant: close_connections() does not clear the vector.
Sweep_end_uncleared ==
  /\ sweep # "none" /\ Runs /\ position > Len(connections_)
  /\ sweep' = "none" /\ position' = 1
  /\ UNCHANGED <<http, conn, connections_, listens, deferred, caller, closings, ill>>

\* The iteration is over; close_connections() clears the vector.
Sweep_end ==
  /\ sweep # "none" /\ Runs /\ position > Len(connections_)
  /\ sweep' = "none" /\ position' = 1
  /\ connections_' = IF sweep = "close" THEN <<>> ELSE connections_
  /\ UNCHANGED <<http, conn, listens, deferred, caller, closings, ill>>

-----------------------------------------------------------------------------

Next ==
  \/ \E p \in Peer :
       \/ Connect(p) \/ Upgrade(p) \/ Request(p) \/ End_handshake(p) \/ End(p) \/ Send_data(p)
       \/ Respond(p) \/ Abort(p) \/ Close(p) \/ Call_soon_check(p) \/ Call_soon_defer(p)
  \/ \E what \in {"close", "close_connections", "for_each"} : Ask(what)
  \/ Run_deferred \/ Close_next \/ Visit_next \/ Sweep_end

Spec == Init /\ [][Next]_vars

\* Between the calls of the loop connections_ has each open connection once and
\* nothing else, whatever handlers close; while close_connections() goes through
\* them it has those that are left, and when it is through, none is open.
\* handle_close() is called once for a connection that is closed, and not before.
ConnectionsLive ==
  Runs =>
    /\ sweep # "close" => ToSet(connections_) = Open /\ Len(connections_) = Cardinality(Open)
    /\ sweep = "close" =>
         Open = {connections_[i] : i \in position..Len(connections_)}
    /\ \A p \in Peer :
         /\ conn[p] <=> p \in Open
         /\ closings[p] = IF exchange[p] = "closed" THEN 1 ELSE 0

\* No call reaches a response or a connection that is gone, but for the accesses
\* with which close() and abort() of a connection end: an Http_io is valid only
\* while its exchange is pending, whoever ends it, but after the cases in which the
\* one who ends it is told so instead; a thread that has found a connection
\* represented defers its callback by it before it is destroyed.
NothingDangling ==
  /\ ill \subseteq {"thrown", "written"}
  /\ Runs => \A p \in Peer :
       /\ rep[p] => \/ exchange[p] \in {"pending", "sent"}
                    \/ exchange[p] \in {"open", "closed"} /\ ~abortHandler[p]
       /\ exchange[p] = "pending" => rep[p] /\ abortHandler[p]
=============================================================================
