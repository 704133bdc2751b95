--------------------------- MODULE ConnectionPool ---------------------------
(***************************************************************************)
(* dmitigr::pgfe::Connection_pool and its Handle                           *)
(* (pgfe/connection_pool.{hpp,cpp}): N connections lent to threads.        *)
(*                                                                         *)
(* A slot of connections_ is a unique_ptr and a flag.  The connection of a *)
(* slot is moved into a Handle when it is lent and moved back when it is   *)
(* released, so it keeps the number of its slot here.  Every function of   *)
(* the pool holds mutex_ throughout; connect() is several steps, as the    *)
(* holders of connections go on using them meanwhile.                      *)
(***************************************************************************)
EXTENDS Integers

CONSTANTS
  N,      \* the number of connections
  Thread, \* the threads which use the pool
  Usage,  \* what they do beyond the ordinary, see UsageKind
  Faults  \* what may go wrong, see FaultKind

Slot == 1..N
NoSlot == 0
NoThread == 0

UsageKind ==
  {"assign",       \* a handle is assigned to one that is still valid
   "bare",         \* the release handler is removed
   "connect_lent"} \* connect() while handles of the pool are valid

FaultKind ==
  {"connect", \* Connection::connect() throws
   "handler", \* the connect handler throws
   "lost",    \* the link of a connection in use breaks
   "timeout"} \* the wait for a response in the release handler runs out

ASSUME PoolAssumption ==
  /\ N \in Nat \ {0}
  /\ NoThread \notin Thread
  /\ Usage \subseteq UsageKind
  /\ Faults \subseteq FaultKind

VARIABLES
  is_connected_,
  present,    \* the slots whose unique_ptr is not null
  busy,       \* the slots whose flag is set
  held,       \* the connections in the valid handles of each thread
  link,       \* the status() of each connection
  session,    \* what its server session was left in
  configured, \* the connect handler was called on this session
  undiscarded,\* history: the slots whose connection came back last with an
              \* exception of the release handler
  mutex,      \* the thread which is in connect()
  index,      \* the slot it has come to
  crashed     \* a null unique_ptr was dereferenced

slots == <<present, busy, held>>
connections == <<link, session, configured>>
vars ==
  <<is_connected_, slots, connections, undiscarded, mutex, index, crashed>>

SessionState == {"clean", "dirty", "transaction", "active"}

TypeOK ==
  /\ is_connected_ \in BOOLEAN
  /\ present \subseteq Slot /\ busy \subseteq Slot
  /\ held \in [Thread -> SUBSET Slot]
  /\ link \in [Slot -> {"closed", "open", "broken", "destroyed"}]
  /\ session \in [Slot -> SessionState]
  /\ configured \in [Slot -> BOOLEAN]
  /\ undiscarded \subseteq Slot
  /\ mutex \in Thread \cup {NoThread}
  /\ index \in 1..(N + 1)
  /\ crashed \in BOOLEAN

Init ==
  /\ is_connected_ = FALSE
  /\ present = Slot /\ busy = {}
  /\ held = [t \in Thread |-> {}]
  /\ link = [i \in Slot |-> "closed"]
  /\ session = [i \in Slot |-> "clean"]
  /\ configured = [i \in Slot |-> FALSE] /\ undiscarded = {}
  /\ mutex = NoThread /\ index = 1 /\ crashed = FALSE

-----------------------------------------------------------------------------
Lent == UNION {held[t] : t \in Thread}
Unlocked == mutex = NoThread /\ ~crashed

(* Connection::connect() that succeeds: nothing to do, or a new session.   *)
Open(i, called) ==
  /\ link' = [link EXCEPT ![i] = "open"]
  /\ session' = IF link[i] = "open" THEN session
                ELSE [session EXCEPT ![i] = "clean"]
  /\ configured' =
       [configured EXCEPT ![i] = called \/ (link[i] = "open" /\ @)]

(* The connections of the handles in H are destroyed with them.            *)
Destroy(l, H) == [i \in Slot |-> IF i \in H THEN "destroyed" ELSE l[i]]

-----------------------------------------------------------------------------
(* connect(): each connection in turn, without regard to its flag.         *)

Connect(t) ==
  /\ Unlocked /\ ~is_connected_
  /\ present = Slot \/ "connect_lent" \in Usage
  /\ mutex' = t /\ index' = 1
  /\ UNCHANGED <<is_connected_, slots, connections, undiscarded, crashed>>

Connect_slot(t) ==
  /\ mutex = t /\ ~crashed
  /\ index \in present
  /\ Open(index, TRUE)
  /\ index' = index + 1
  /\ UNCHANGED <<is_connected_, slots, undiscarded, mutex, crashed>>

(* The connection is moved out of the slot, or destroyed with its handle.  *)
Connect_null(t) ==
  /\ mutex = t /\ ~crashed
  /\ index \in Slot \ present
  /\ crashed' = TRUE
  /\ UNCHANGED <<is_connected_, slots, connections, undiscarded, mutex, index>>

(* An exception leaves the slots before this one open.                     *)
Connect_throws(t) ==
  /\ mutex = t /\ ~crashed
  /\ index \in present
  /\ \/ "connect" \in Faults /\ link[index] # "open" /\ UNCHANGED connections
     \/ "handler" \in Faults /\ Open(index, FALSE)
  /\ mutex' = NoThread
  /\ UNCHANGED <<is_connected_, slots, undiscarded, index, crashed>>

Connect_end(t) ==
  /\ mutex = t /\ ~crashed
  /\ index > N
  /\ is_connected_' = TRUE
  /\ mutex' = NoThread
  /\ UNCHANGED <<slots, connections, undiscarded, index, crashed>>

(* disconnect(): the connections which are not lent.                       *)
Disconnect ==
  /\ Unlocked /\ is_connected_
  /\ link' = [i \in Slot |-> IF i \in busy THEN link[i] ELSE "closed"]
  /\ is_connected_' = FALSE
  /\ UNCHANGED <<slots, session, configured, undiscarded, mutex, index,
                 crashed>>

-----------------------------------------------------------------------------
(* connection(): the first slot that is not busy is flagged, then its      *)
(* connection is connected if it is not, and lent if it is ready for a     *)
(* request.  The result is assigned to a valid handle of the caller, over, *)
(* or to none.                                                             *)

First_free(i) == i \in Slot \ busy /\ \A j \in Slot \ busy : i <= j

Assigned(t, over, result) ==
  held' = [held EXCEPT ![t] = (@ \ {over}) \cup result]

May_assign(t, over) ==
  over = NoSlot \/ (over \in held[t] /\ "assign" \in Usage)

Acquire_none(t, over) ==
  /\ Unlocked /\ May_assign(t, over)
  /\ ~is_connected_ \/ busy = Slot
  /\ Assigned(t, over, {})
  /\ link' = Destroy(link, {over})
  /\ UNCHANGED <<is_connected_, present, busy, session, configured,
                 undiscarded, mutex, index, crashed>>

(* Mutant of Acquire: the slot is not flagged.                             *)
Acquire_unflagged(t, over, i) ==
  /\ Unlocked /\ May_assign(t, over)
  /\ is_connected_ /\ First_free(i)
  /\ link' = Destroy([link EXCEPT ![i] = "open"], {over})
  /\ session' = IF link[i] = "open" THEN session
                ELSE [session EXCEPT ![i] = "clean"]
  /\ configured' = [configured EXCEPT ![i] = link[i] = "open" /\ @]
  /\ session'[i] # "active"
  /\ present' = present \ {i}
  /\ Assigned(t, over, {i})
  /\ undiscarded' = undiscarded \ {i}
  /\ UNCHANGED <<is_connected_, busy, mutex, index, crashed>>

(* A free slot is found.                                                   *)
Acquire(t, over, i) ==
  /\ Unlocked /\ May_assign(t, over)
  /\ is_connected_ /\ First_free(i)
  /\ busy' = busy \cup {i}
  /\ link' = Destroy([link EXCEPT ![i] = "open"], {over})
  /\ session' = IF link[i] = "open" THEN session
                ELSE [session EXCEPT ![i] = "clean"]
  /\ configured' = [configured EXCEPT ![i] = link[i] = "open" /\ @]
  /\ session'[i] # "active"
  /\ present' = present \ {i}
  /\ Assigned(t, over, {i})
  /\ undiscarded' = undiscarded \ {i}
  /\ UNCHANGED <<is_connected_, mutex, index, crashed>>

(* connect() throws, or the connection is not ready: the flag stays.       *)
Acquire_throws(t, i) ==
  /\ Unlocked
  /\ is_connected_ /\ First_free(i)
  /\ \/ "connect" \in Faults /\ link[i] # "open"
     \/ link[i] = "open" /\ session[i] = "active"
  /\ busy' = busy \cup {i}
  /\ UNCHANGED <<is_connected_, present, held, connections, undiscarded,
                 mutex, index, crashed>>

-----------------------------------------------------------------------------
(* External: a thread uses a connection it holds.                          *)
Use(t, i) ==
  /\ ~crashed /\ i \in held[t] /\ link[i] = "open"
  /\ \/ /\ \E s \in SessionState : session' = [session EXCEPT ![i] = s]
        /\ UNCHANGED link
     \/ /\ "lost" \in Faults
        /\ link' = [link EXCEPT ![i] = "broken"]
        /\ UNCHANGED session
  /\ UNCHANGED <<is_connected_, slots, configured, undiscarded, mutex, index,
                 crashed>>

(* Mutant of Release_handler: DISCARD ALL is not executed.                 *)
Release_handler_undiscarded(i, l, s, threw) ==
  /\ l = link[i]
  /\ s = IF session[i] = "active" THEN "dirty" ELSE session[i]
  /\ ~threw

(* The release handler, and whether it throws, which is caught.  The       *)
(* default one processes the pending request, whose outcome may be a       *)
(* transaction block, and executes DISCARD ALL.  It throws before that if  *)
(* the request ends in an error, or an error is there which the holder has *)
(* not released; and at it in a transaction block, or if the link is lost. *)
(* A wait that runs out leaves the connection with a request.              *)
Release_handler(i, l, s, threw) ==
  \/ "bare" \in Usage /\ ~threw /\ l = link[i] /\ s = session[i]
  \/ link[i] # "open" /\ threw /\ l = link[i] /\ s = session[i]
  \/ /\ link[i] = "open" /\ l = "open"
     /\ \/ ~threw /\ session[i] # "transaction" /\ s = "clean"
        \/ threw /\ session[i] # "active" /\ s = session[i]
        \/ threw /\ session[i] = "active" /\ s \in {"dirty", "transaction"}
        \/ threw /\ "timeout" \in Faults /\ s = "active"
  \/ /\ link[i] = "open" /\ l = "broken"
     /\ threw /\ "lost" \in Faults /\ s = session[i]

(* Mutants of Release: the connection is not moved back; the flag is not   *)
(* reset.                                                                  *)
Release_unreturned(t, i) ==
  /\ Unlocked /\ i \in held[t]
  /\ busy' = busy \ {i}
  /\ held' = [held EXCEPT ![t] = @ \ {i}]
  /\ UNCHANGED <<is_connected_, present, connections, undiscarded, mutex,
                 index, crashed>>

Release_still_busy(t, i) ==
  /\ Unlocked /\ i \in held[t]
  /\ present' = present \cup {i}
  /\ held' = [held EXCEPT ![t] = @ \ {i}]
  /\ UNCHANGED <<is_connected_, busy, connections, undiscarded, mutex, index,
                 crashed>>

(* Mutant of Release: the connection of a disconnected pool is kept open.  *)
Release_open(t, i) ==
  /\ Unlocked /\ i \in held[t]
  /\ \E l \in {"closed", "open", "broken"}, s \in SessionState,
        threw \in BOOLEAN :
       /\ Release_handler(i, l, s, threw)
       /\ session' = [session EXCEPT ![i] = s]
       /\ link' = [link EXCEPT ![i] = l]
       /\ undiscarded' = undiscarded \cup {k \in {i} : threw}
  /\ present' = present \cup {i}
  /\ busy' = busy \ {i}
  /\ held' = [held EXCEPT ![t] = @ \ {i}]
  /\ UNCHANGED <<is_connected_, configured, mutex, index, crashed>>

(* release(), also from the destructor of Handle: the handler, and the     *)
(* connection goes back to its slot, closed if the pool is disconnected.   *)
Release(t, i) ==
  /\ Unlocked /\ i \in held[t]
  /\ \E l \in {"closed", "open", "broken"}, s \in SessionState,
        threw \in BOOLEAN :
       /\ Release_handler(i, l, s, threw)
       /\ session' = [session EXCEPT ![i] = s]
       /\ link' = [link EXCEPT ![i] = IF is_connected_ THEN l ELSE "closed"]
       /\ undiscarded' = undiscarded \cup {k \in {i} : threw}
  /\ present' = present \cup {i}
  /\ busy' = busy \ {i}
  /\ held' = [held EXCEPT ![t] = @ \ {i}]
  /\ UNCHANGED <<is_connected_, configured, mutex, index, crashed>>

-----------------------------------------------------------------------------
Next ==
  \/ Disconnect
  \/ \E t \in Thread :
       \/ Connect(t) \/ Connect_slot(t) \/ Connect_null(t)
       \/ Connect_throws(t) \/ Connect_end(t)
       \/ \E over \in held[t] \cup {NoSlot} :
            \/ Acquire_none(t, over)
            \/ \E i \in Slot : Acquire(t, over, i)
       \/ \E i \in Slot : Acquire_throws(t, i) \/ Use(t, i) \/ Release(t, i)

Spec == Init /\ [][Next]_vars

-----------------------------------------------------------------------------
(* Properties.                                                             *)

(* A connection has one owner: its slot or one handle of one thread, never *)
(* two (connection_pool.cpp:114-120, 152).                                 *)
OneOwner ==
  /\ \A t, u \in Thread : t # u => held[t] \cap held[u] = {}
  /\ Lent \cap present = {}

(* A slot that connection() may choose and disconnect() will use has its   *)
(* connection, and a handle never loses its own to a second lending        *)
(* (connection_pool.cpp:95, 117).                                          *)
FreeSlotHasConnection == Slot \ busy \subseteq present

(* connection() returns a connection that is open and can take a request   *)
(* at once.  With the release handler in place its session has nothing of  *)
(* an earlier holder, except when the handler threw on the connection's    *)
(* last return (connection_pool.cpp:47-51, 118-120, 139-147).              *)
LentReady ==
  [][\A i \in Slot : i \in Lent' \ Lent =>
       /\ link'[i] = "open" /\ session'[i] # "active"
       /\ \/ session'[i] = "clean"
          \/ "bare" \in Usage
          \/ i \in undiscarded]_vars

(* After disconnect() the connections which come back are closed, so the   *)
(* pool keeps none open (connection_pool.cpp:93-96, 149).                  *)
DisconnectedMeansClosed ==
  ~is_connected_ /\ mutex = NoThread => \A i \in present : link[i] # "open"

(* "If [...] there is no free connections in the pool" (hpp:202) is the    *)
(* only reason for an invalid handle: a pool from which nothing is lent    *)
(* has a free connection.                                                  *)
NothingLentMeansFree ==
  is_connected_ /\ Unlocked /\ Lent = {} => busy # Slot

(* connect() after a disconnect() that did not affect the connections      *)
(* which are busy (hpp:194) does not dereference their null pointers.      *)
NoNullDereference == ~crashed

(* The connect handler is "called just after connecting to the PostgreSQL  *)
(* server" (hpp:148): a lent connection has had it called.                 *)
LentIsConfigured ==
  \A i \in Lent : link[i] = "open" => configured[i]
=============================================================================
