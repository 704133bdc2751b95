------------------------------ MODULE Objects -------------------------------
(***************************************************************************)
(* The objects of the libraries that have resources of another program or  *)
(* library: the statements of SQLite and the memory that their parameters  *)
(* refer to, the responses and the large objects of PostgreSQL, and the    *)
(* sockets of WebSocket clients.                                           *)
(***************************************************************************)
EXTENDS Sqlite

CONSTANTS
  MaxRows,                       \* responses
  MaxDescriptor, MaxTransaction, \* large objects
  ReplacedLate                   \* WebSocket clients

ASSUME ObjectsAssumption == MaxDescriptor \in Nat

VARIABLES
  calling, coming, requests_, running, outcome, given, answer, reported,  \* responses
  sessions, objects, origin, copied, began,                       \* large objects
  blocks, datas, bound, requested, freed_again,                   \* SQLite's parameters
  alive, is_open_, phase, sock, rb, wb, reading, unwinding, owner, calls, ill  \* WebSocket clients

R == INSTANCE Responses
L == INSTANCE LargeObjects
I == INSTANCE Bindings
W == INSTANCE Clients

responsesVars == <<calling, coming, requests_, running, outcome, given, answer, reported>>
objectsVars == <<sessions, objects, origin, copied, began>>
bindingsVars == <<blocks, datas, bound, requested, freed_again>>
clientsVars == <<alive, is_open_, phase, sock, rb, wb, reading, unwinding, owner, calls, ill>>
=============================================================================
