---------------------------- MODULE LargeObjects ----------------------------
(***************************************************************************)
(* Large_objects of src/pgfe and the connections that they point to, which *)
(* may be swapped and moved. The server is external: descriptors live in a *)
(* transaction, where the lowest free number is given; what is asked of a  *)
(* descriptor that is not open is an error, which aborts the transaction.  *)
(***************************************************************************)
EXTENDS Integers, FiniteSetsExt

CONSTANTS
  MaxDescriptor,  \* bound: descriptors of a transaction
  MaxTransaction  \* bound: transactions

VARIABLES
  sessions,  \* of each Connection: that of conn_
  objects,   \* Large_objects: conn_ and desc_
  origin,    \* history: the transaction in which each object was opened
  copied,    \* history: the transactions with descriptors of more than one object
  began      \* the number of transactions

loVars == <<sessions, objects, origin, copied, began>>

Address == {1, 2}
LargeObject == {1, 2}

NoSession == [connected |-> FALSE, transaction |-> 0, aborted |-> FALSE, open |-> {}]
Idle == [NoSession EXCEPT !.connected = TRUE]
Invalid == [conn |-> 0, desc |-> -1]
Is_valid(lo) == lo.conn # 0 /\ lo.desc >= 0

LoInit ==
  /\ sessions = [c \in Address |-> NoSession]
  /\ objects = [o \in LargeObject |-> Invalid] /\ origin = [o \in LargeObject |-> 0]
  /\ copied = {} /\ began = 0

InTransaction(s) == s.transaction # 0 /\ ~s.aborted

-----------------------------------------------------------------------------
(* What libpq and the server do.                                           *)

\* A request that fails aborts the transaction, if there is one.
Failed(s) == [s EXCEPT !.aborted = (s.transaction # 0)]

\* lo_close() is done for a descriptor that is open.
Closes(s, desc) == InTransaction(s) /\ desc \in s.open
Lo_close(s, desc) == IF Closes(s, desc) THEN [s EXCEPT !.open = @ \ {desc}] ELSE Failed(s)

-----------------------------------------------------------------------------
(* Large_object.                                                           *)

\* close(), of an object of connections cs. What closes is reset by the assignment of a
\* new object, whose temporary gets conn_ and desc_ and closes them again.
Closed(cs, lo) ==
  IF ~Is_valid(lo) THEN cs
  ELSE LET once == [cs EXCEPT ![lo.conn] = Lo_close(@, lo.desc)] IN
       IF Closes(cs[lo.conn], lo.desc) THEN [once EXCEPT ![lo.conn] = Lo_close(@, lo.desc)] ELSE once

Close(o) ==
  LET lo == objects[o] IN
  /\ Is_valid(lo)
  /\ sessions' = Closed(sessions, lo)
  /\ objects' = [objects EXCEPT ![o] = IF Closes(sessions[lo.conn], lo.desc) THEN Invalid ELSE @]
  /\ UNCHANGED <<origin, copied, began>>

\* The destructor closes; the object is another one next.
Destroy(o) ==
  /\ Is_valid(objects[o])
  /\ sessions' = Closed(sessions, objects[o])
  /\ objects' = [objects EXCEPT ![o] = Invalid]
  /\ UNCHANGED <<origin, copied, began>>

\* The move assignment: what the object was is closed by the temporary.
Move(o, p) ==
  /\ o # p /\ Is_valid(objects[p])
  /\ sessions' = Closed(sessions, objects[o])
  /\ objects' = [objects EXCEPT ![o] = objects[p], ![p] = Invalid]
  /\ origin' = [origin EXCEPT ![o] = origin[p]]
  /\ UNCHANGED <<copied, began>>

\* The copy assignment is the default one: nothing is closed, and both have the descriptor.
Copy(o, p) ==
  /\ o # p /\ Is_valid(objects[p])
  /\ objects' = [objects EXCEPT ![o] = objects[p]]
  /\ origin' = [origin EXCEPT ![o] = origin[p]]
  /\ copied' = copied \union {origin[p]}
  /\ UNCHANGED <<sessions, began>>

Swap(o, p) ==
  /\ o # p
  /\ objects' = [x \in LargeObject |-> objects[CASE x = o -> p [] x = p -> o [] OTHER -> x]]
  /\ origin' = [x \in LargeObject |-> origin[CASE x = o -> p [] x = p -> o [] OTHER -> x]]
  /\ UNCHANGED <<sessions, copied, began>>

\* seek(), tell(), truncate(), read() and write() of an object with a connection.
Use(o) ==
  LET lo == objects[o] IN
  /\ Is_valid(lo) /\ sessions[lo.conn].connected
  /\ \/ Closes(sessions[lo.conn], lo.desc) /\ UNCHANGED sessions
     \/ sessions' = [sessions EXCEPT ![lo.conn] = Failed(@)]
  /\ UNCHANGED <<objects, origin, copied, began>>

-----------------------------------------------------------------------------
(* Connection.                                                             *)

\* open_large_object() in a transaction, assigned to an object. What fails gives one that
\* is not valid.
Open_large_object(o, c) ==
  LET s == sessions[c]
      desc == Min((0..MaxDescriptor) \ s.open)
      Assigned(cs, lo) == /\ sessions' = Closed(cs, objects[o])
                          /\ objects' = [objects EXCEPT ![o] = lo]
  IN
  /\ s.transaction # 0
  /\ \/ /\ InTransaction(s) /\ desc < MaxDescriptor
        /\ Assigned([sessions EXCEPT ![c].open = @ \union {desc}], [conn |-> c, desc |-> desc])
        /\ origin' = [origin EXCEPT ![o] = s.transaction]
     \/ /\ Assigned([sessions EXCEPT ![c] = Failed(@)], [conn |-> c, desc |-> -1])
        /\ UNCHANGED origin
  /\ UNCHANGED <<copied, began>>

\* create_large_object(), remove_large_object(), import_large_object() and
\* export_large_object() open and close what they use, or fail.
Large_object_function(c) ==
  /\ InTransaction(sessions[c])
  /\ sessions' = [sessions EXCEPT ![c] = Failed(@)]
  /\ UNCHANGED <<objects, origin, copied, began>>

Connect(c) ==
  /\ ~sessions[c].connected
  /\ sessions' = [sessions EXCEPT ![c] = Idle]
  /\ UNCHANGED <<objects, origin, copied, began>>

Disconnect(c) ==
  /\ sessions[c].connected
  /\ sessions' = [sessions EXCEPT ![c] = NoSession]
  /\ UNCHANGED <<objects, origin, copied, began>>

Begin(c) ==
  /\ sessions[c] = Idle /\ began < MaxTransaction
  /\ began' = began + 1
  /\ sessions' = [sessions EXCEPT ![c].transaction = began + 1]
  /\ UNCHANGED <<objects, origin, copied>>

\* commit, or rollback.
End(c) ==
  /\ sessions[c].transaction # 0
  /\ sessions' = [sessions EXCEPT ![c] = Idle]
  /\ UNCHANGED <<objects, origin, copied, began>>

\* swap(): conn_ is exchanged, and the objects point to the same Connections. The move is
\* made of it.
Swap_connections ==
  /\ sessions' = [c \in Address |-> sessions[3 - c]]
  /\ UNCHANGED <<objects, origin, copied, began>>

LoNext ==
  \/ Swap_connections
  \/ \E c \in Address :
       \/ Connect(c) \/ Disconnect(c) \/ Begin(c) \/ End(c) \/ Large_object_function(c)
       \/ \E o \in LargeObject : Open_large_object(o, c)
  \/ \E o \in LargeObject :
       \/ Close(o) \/ Destroy(o) \/ Use(o)
       \/ \E p \in LargeObject : Move(o, p) \/ Copy(o, p) \/ Swap(o, p)

LoSpec == LoInit /\ [][LoNext]_loVars

-----------------------------------------------------------------------------

\* The object's connection is in the transaction in which the object was opened.
InOwn(o) ==
  LET lo == objects[o] IN
  Is_valid(lo) /\ sessions[lo.conn].transaction = origin[o] /\ origin[o] # 0

\* While the transaction in which an object was opened goes on, its descriptor is open,
\* whatever is done by other objects, also by those that are left of another transaction
\* or connection and have the same number; and it has no other owner but its copies: that
\* nothing is closed under an object, but with the transaction. (The second close that ends
\* each successful close(), see CloseKeepsTransaction, aborts the transaction, of which
\* nothing is said from then on.)
DescriptorsOwned ==
  /\ \A o \in LargeObject :
       LET s == sessions[objects[o].conn] IN InOwn(o) /\ ~s.aborted => objects[o].desc \in s.open
  /\ \A o, p \in LargeObject :
       o # p /\ InOwn(o) /\ InOwn(p) /\ objects[o] = objects[p] => origin[o] \in copied

\* As large_object.hpp says of close(), it closes the descriptor and invalidates the object:
\* the transaction goes on.
CloseKeepsTransaction ==
  [][\A o \in LargeObject :
       Close(o) /\ InOwn(o) /\ Closes(sessions[objects[o].conn], objects[o].desc) =>
         ~sessions'[objects[o].conn].aborted]_loVars
=============================================================================
