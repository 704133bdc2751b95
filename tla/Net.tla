-------------------------------- MODULE Net --------------------------------
(***************************************************************************)
(* src/net: a listener on a socket, and the descriptor of one connection   *)
(* it accepts, which the servers of src/fcgi and src/http read and write.  *)
(* Closing a descriptor shuts the sending side down and drains what the    *)
(* client still sends, so that the kernel does not answer it by a reset,   *)
(* by which the client would lose what it has not read yet.                *)
(***************************************************************************)
EXTENDS Naturals

CONSTANTS
  MaxSent,     \* bound: segments the client sends
  MaxAttempts   \* bound: calls of listen()

VARIABLES
  family,     \* communication mode of the endpoint: "net" or "uds"
  socket,     \* socket_ of the listener: "none", "open", "bound" or "listening"
  path,       \* the path of the endpoint exists (a Unix domain socket)
  alive,      \* the listener has not been destroyed
  descriptor, \* "none", "open", "draining", "quiet" (drained), "closed"
  destroying, \* the close in progress is the destructor's
  received,   \* segments in the receive buffer of the kernel
  client,     \* "absent", "sending", "finished" (it has shut down its side) or "gone"
  sent,       \* segments the client has sent
  reset,      \* the kernel has answered the client by a reset
  late,       \* history: the client has sent something after its silence
  attempts     \* calls of listen()

listener == <<family, socket, path, alive, attempts>>
connection == <<descriptor, destroying, received, client, sent, reset, late>>
vars == <<listener, connection>>

Init ==
  /\ family \in {"net", "uds"}
  /\ socket = "none" /\ path = FALSE /\ alive = TRUE
  /\ descriptor = "none" /\ destroying = FALSE
  /\ received = 0 /\ client = "absent" /\ sent = 0 /\ reset = FALSE /\ late = FALSE
  /\ attempts = 0

-----------------------------------------------------------------------------

Is_listening == socket # "none"

\* listen(): make, bind and listen, each of which may throw; the socket made so
\* far is kept. The path of a Unix domain socket must not exist. (On Linux making
\* one fails: it is asked for with the protocol of TCP.)
Listen ==
  /\ alive /\ ~Is_listening /\ attempts < MaxAttempts
  /\ attempts' = attempts + 1
  /\ socket' \in {"none", "open", "bound", "listening"}
  /\ socket' \in {"bound", "listening"} => ~path
  /\ path' = (path \/ (family = "uds" /\ socket' \in {"bound", "listening"}))
  /\ UNCHANGED <<family, alive, connection>>

\* close() of the listener; the path stays.
Close_listener ==
  /\ alive
  /\ socket' = "none"
  /\ UNCHANGED <<family, path, alive, attempts, connection>>

\* The destructor closes the socket and unlinks the path, who ever made it.
Destroy_listener ==
  /\ alive
  /\ alive' = FALSE /\ socket' = "none" /\ path' = FALSE
  /\ UNCHANGED <<family, attempts, connection>>

\* accept() of a client whose connection is in the backlog.
Accept ==
  /\ alive /\ socket = "listening" /\ descriptor = "none"
  /\ descriptor' = "open" /\ client' = "sending"
  /\ UNCHANGED <<listener, destroying, received, sent, reset, late>>

-----------------------------------------------------------------------------
(* The client, and the kernel in between.                                  *)

\* A segment that arrives after the close is answered by a reset.
Client_sends ==
  /\ client = "sending" /\ sent < MaxSent
  /\ sent' = sent + 1
  /\ IF descriptor = "closed" THEN reset' = TRUE /\ UNCHANGED received
                              ELSE received' = received + 1 /\ UNCHANGED reset
  /\ late' = (late \/ descriptor \in {"quiet", "closed"})
  /\ UNCHANGED <<listener, descriptor, destroying, client>>

Client_finishes ==
  /\ client = "sending"
  /\ client' = "finished"
  /\ UNCHANGED <<listener, descriptor, destroying, received, sent, reset, late>>

\* It resets the connection or vanishes: reads and writes fail.
Client_goes ==
  /\ client \in {"sending", "finished"}
  /\ client' = "gone" /\ received' = 0
  /\ UNCHANGED <<listener, descriptor, destroying, sent, reset, late>>

-----------------------------------------------------------------------------
(* The descriptor.                                                         *)

\* read() takes what there is of it.
Read ==
  /\ descriptor = "open" /\ received > 0
  /\ \E n \in 1..received : received' = received - n
  /\ UNCHANGED <<listener, descriptor, destroying, client, sent, reset, late>>

\* close(), or the destructor: shutdown() of the sending side. If the peer is gone
\* this reports ENOTCONN, and there is nothing to drain; or another error, which
\* close() throws and the destructor reports. (close(2) itself does not fail, so
\* that a second close(), which is_shutted_down_ is for, has nothing to do.)
Shutdown ==
  /\ descriptor = "open"
  /\ destroying' \in BOOLEAN
  /\ \/ client # "gone" /\ descriptor' = "draining"
     \/ client = "gone" /\ descriptor' = "quiet"
     \/ client = "gone" /\ destroying' /\ descriptor' = "closed"
  /\ UNCHANGED <<listener, received, client, sent, reset, late>>

\* Mutant: one recv() is taken for all of it.
Drain_once ==
  /\ descriptor = "draining"
  /\ \E n \in 0..received : received' = received - n
  /\ descriptor' = "quiet"
  /\ UNCHANGED <<listener, destroying, client, sent, reset, late>>

\* One iteration of graceful_shutdown(): it receives what there is; the end of the
\* stream or a second without anything ends the loop. An error of recv() is thrown
\* by close(), reported by the destructor, which closes the socket anyway.
Drain ==
  /\ descriptor = "draining"
  /\ \/ /\ received > 0 /\ \E n \in 1..received : received' = received - n
        /\ UNCHANGED descriptor
     \/ /\ received = 0 /\ client \in {"sending", "finished"}
        /\ descriptor' = "quiet"
        /\ UNCHANGED received
     \/ /\ client = "gone"
        /\ descriptor' = IF destroying THEN "closed" ELSE "open"
        /\ UNCHANGED received
  /\ UNCHANGED <<listener, destroying, client, sent, reset, late>>

\* Closing the socket with something unread makes the kernel reset the connection.
Close_socket ==
  /\ descriptor = "quiet"
  /\ descriptor' = "closed"
  /\ reset' = (reset \/ received > 0) /\ received' = 0
  /\ UNCHANGED <<listener, destroying, client, sent, late>>

Next ==
  \/ Listen \/ Close_listener \/ Destroy_listener \/ Accept
  \/ Client_sends \/ Client_finishes \/ Client_goes
  \/ Read \/ Shutdown \/ Drain \/ Close_socket

Spec == Init /\ [][Next]_vars

\* A client that sends nothing more once it has been silent for a second, or that
\* has shut down its side, is not reset, whatever the server has left unread: it
\* reads the whole of the response.
NotReset == reset => late
=============================================================================
