------------------------------ MODULE Servers ------------------------------
(***************************************************************************)
(* The servers of the repository side by side: a FastCGI connection, a pair*)
(* of HTTP connections, the socket either is built on, the WebSocket server*)
(* with its timers, and the process a server runs in. They share nothing   *)
(* but the contract of the descriptor (a read returns some of what has     *)
(* come, or nothing at the end; a write takes all or throws), so one of    *)
(* them runs in each behaviour.                                            *)
(***************************************************************************)
EXTENDS FastCGI

CONSTANTS
  MaxHead, MaxLength,                    \* HTTP
  MaxSent, MaxAttempts,                  \* Net
  Peer, Usage, MaxDeferred,              \* WebSockets
  TimerName, StartMoved,                 \* Timers
  Process, NoProcess, Rivals             \* Processes

ASSUME ServersAssumption ==
  /\ MaxHead \in Nat /\ MaxLength \in Nat
  /\ NoProcess \notin Process

VARIABLES
  unit,  \* what runs
  pc, startSent, headersSent, unsent, headReceived, headSize, contentOffset, unreceived,
  size, head, announced, flight, delivered, splits, sparing,
  family, socket, path, alive, descriptor, destroying, received, client, sent, reset, late,
  attempts,
  listens, exchange, rep, abortHandler, responder, holder, conn, connections_, sweep,
  position, deferred, caller, closings, ill,
  timers_, capacity, ext, shifted, terminated,
  todo, phase, detached, relative, pid_file, moved, handled, is_running, stuck, files

H == INSTANCE HTTP
N == INSTANCE Net
W == INSTANCE WebSockets
T == INSTANCE Timers
P == INSTANCE Processes

httpVars == <<pc, startSent, headersSent, unsent, headReceived, headSize, contentOffset,
              unreceived, size, head, announced, flight, delivered, splits, sparing>>
netVars == <<family, socket, path, alive, descriptor, destroying, received, client, sent,
             reset, late, attempts>>
webSocketsVars == <<listens, exchange, rep, abortHandler, responder, holder, conn,
                    connections_, sweep, position, deferred, caller, closings, ill>>
timersVars == <<timers_, capacity, ext, shifted, terminated>>
processesVars == <<todo, phase, detached, relative, pid_file, moved, handled, is_running, stuck, files>>

serversVars == <<unit, vars, httpVars, netVars, webSocketsVars, timersVars, processesVars>>

ServersInit ==
  /\ unit \in {"fastcgi", "http", "net", "websockets", "timers", "processes"}
  /\ Init /\ H!Init /\ N!Init /\ W!Init /\ T!Init /\ P!Init
  /\ unit # "net" => family = "net"
  /\ unit # "processes" => detached /\ relative

ServersNext ==
  /\ UNCHANGED unit
  /\ IF unit = "fastcgi" THEN Next ELSE UNCHANGED vars
  /\ IF unit = "http" THEN H!Next ELSE UNCHANGED httpVars
  /\ IF unit = "net" THEN N!Next ELSE UNCHANGED netVars
  /\ IF unit = "websockets" THEN W!Next ELSE UNCHANGED webSocketsVars
  /\ IF unit = "timers" THEN T!Next ELSE UNCHANGED timersVars
  /\ IF unit = "processes" THEN P!Next ELSE UNCHANGED processesVars

ServersSpec == ServersInit /\ [][ServersNext]_serversVars

-----------------------------------------------------------------------------
(* The properties of the instances (those of FastCGI are used as they are).*)

\* HTTP: a head is found wherever the reads end in it, but in its start line.
HeadReceived == H!HeadReceived

\* HTTP: the content delivered and to be delivered is what was announced.
ContentAccounted == H!ContentAccounted

\* Net: a closed descriptor does not cost the client the response.
NotReset == N!NotReset

\* WebSockets: connections_ has the open connections.
ConnectionsLive == W!ConnectionsLive

\* WebSockets: no call reaches a response or a connection that is gone.
NothingDangling == W!NothingDangling

\* WebSockets: a timer calls its own handler.
TimerCallsItself == T!TimerCallsItself

\* os: the PID file is that of the process that works, and goes with it.
PidFileKept == P!PidFileKept
=============================================================================
