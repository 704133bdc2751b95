------------------------ MODULE ConnectionPoolProofs ------------------------
(***************************************************************************)
(* Proofs about module ConnectionPool, for every number of connections and *)
(* every set of threads:                                                   *)
(*   - type correctness, and that a connection has one owner, whatever the *)
(*     threads do and whatever goes wrong;                                 *)
(*   - with the release handler in place, that a connection is lent ready, *)
(*     and without the traces of its last holder unless the handler threw; *)
(*   - if besides connect() does not throw and no wait of the handler runs *)
(*     out, that a disconnected pool keeps no connection open, and if      *)
(*     handles are not assigned over, that no slot is lost.                *)
(***************************************************************************)
EXTENDS ConnectionPool, TLAPS

-----------------------------------------------------------------------------
(* Type correctness and ownership.                                         *)

OwnerInv == TypeOK /\ OneOwner /\ FreeSlotHasConnection

LEMMA OwnerInit == Init => OwnerInv
<1> SUFFICES ASSUME Init
             PROVE  OwnerInv
  OBVIOUS
<1>1. N \in Nat /\ N >= 1
  BY PoolAssumption DEF PoolAssumption
<1>2. index \in 1..(N + 1)
  BY <1>1 DEF Init
<1>3. TypeOK
  BY <1>2 DEF Init, TypeOK, SessionState
<1>4. OneOwner
  BY DEF Init, OneOwner, Lent
<1>5. FreeSlotHasConnection
  BY DEF Init, FreeSlotHasConnection
<1> QED
  BY <1>3, <1>4, <1>5 DEF OwnerInv

LEMMA OpenType ==
  ASSUME TypeOK, NEW i \in Slot, NEW called \in BOOLEAN, Open(i, called)
  PROVE  /\ link' \in [Slot -> {"closed", "open", "broken", "destroyed"}]
         /\ session' \in [Slot -> SessionState]
         /\ configured' \in [Slot -> BOOLEAN]
<1>1. link' = [link EXCEPT ![i] = "open"]
  BY DEF Open
<1>2. \/ session' = session
      \/ session' = [session EXCEPT ![i] = "clean"]
  BY DEF Open
<1>3. PICK b \in BOOLEAN : configured' = [configured EXCEPT ![i] = b]
  BY DEF Open, TypeOK
<1> QED
  BY <1>1, <1>2, <1>3 DEF TypeOK, SessionState

(* connect() and disconnect() move no connection.                          *)
LEMMA OwnerKept ==
  ASSUME OwnerInv, TypeOK', UNCHANGED slots
  PROVE  OwnerInv'
BY DEF OwnerInv, OneOwner, Lent, FreeSlotHasConnection, slots

LEMMA ConnectType ==
  ASSUME TypeOK, NEW t \in Thread,
         \/ Connect(t) \/ Connect_slot(t) \/ Connect_null(t)
         \/ Connect_throws(t) \/ Connect_end(t)
  PROVE  TypeOK'
<1> USE DEF slots, connections
<1>1. CASE Connect(t) \/ Connect_null(t) \/ Connect_end(t)
  <2>1. index' \in 1..(N + 1)
    BY <1>1, PoolAssumption
       DEF PoolAssumption, Connect, Connect_null, Connect_end, TypeOK
  <2>2. mutex' \in Thread \cup {NoThread}
    BY <1>1 DEF Connect, Connect_null, Connect_end, TypeOK
  <2> QED
    BY <1>1, <2>1, <2>2 DEF Connect, Connect_null, Connect_end, TypeOK
<1>2. CASE Connect_slot(t)
  <2>1. index \in Slot /\ Open(index, TRUE) /\ index' = index + 1
    BY <1>2 DEF Connect_slot, TypeOK
  <2>2. index' \in 1..(N + 1)
    BY <2>1, PoolAssumption DEF PoolAssumption, Slot
  <2> QED
    BY <1>2, <2>1, <2>2, OpenType DEF Connect_slot, TypeOK
<1>3. CASE Connect_throws(t)
  <2>1. index \in Slot
    BY <1>3 DEF Connect_throws, TypeOK
  <2>2. \/ UNCHANGED connections
        \/ Open(index, FALSE)
    BY <1>3 DEF Connect_throws
  <2> QED
    BY <1>3, <2>1, <2>2, OpenType DEF Connect_throws, TypeOK
<1> QED
  BY <1>1, <1>2, <1>3

LEMMA AcquireOwner ==
  ASSUME OwnerInv, NEW t \in Thread, NEW over \in held[t] \cup {NoSlot},
         NEW i \in Slot, Acquire(t, over, i)
  PROVE  OwnerInv'
<1>1. /\ TypeOK /\ OneOwner /\ FreeSlotHasConnection
      /\ i \in Slot \ busy /\ i \in present
  BY DEF OwnerInv, Acquire, First_free, FreeSlotHasConnection
<1>2. held' = [held EXCEPT ![t] = (@ \ {over}) \cup {i}]
  BY DEF Acquire, Assigned
<1>3. \A u \in Thread : held'[u] \subseteq held[u] \cup {i}
  BY <1>1, <1>2 DEF TypeOK
<1>4. \A u \in Thread : u # t => held'[u] = held[u] /\ i \notin held[u]
  BY <1>1, <1>2 DEF TypeOK, OneOwner, Lent
<1>5. TypeOK'
  <2>1. link' \in [Slot -> {"closed", "open", "broken", "destroyed"}]
    BY <1>1 DEF Acquire, Destroy, TypeOK
  <2>2. session' \in [Slot -> SessionState]
    <3>1. session' = session \/ session' = [session EXCEPT ![i] = "clean"]
      BY DEF Acquire
    <3> QED
      BY <1>1, <3>1 DEF TypeOK, SessionState
  <2>3. configured' \in [Slot -> BOOLEAN]
    <3>1. PICK b \in BOOLEAN : configured' = [configured EXCEPT ![i] = b]
      BY <1>1 DEF Acquire, TypeOK
    <3> QED
      BY <1>1, <3>1 DEF TypeOK
  <2>4. held' \in [Thread -> SUBSET Slot]
    BY <1>1, <1>2 DEF TypeOK
  <2> QED
    BY <1>1, <2>1, <2>2, <2>3, <2>4 DEF Acquire, TypeOK
<1>6. OneOwner'
  <2>1. Lent' \cap present' = {}
    BY <1>1, <1>3 DEF Acquire, OneOwner, Lent
  <2>2. \A u, v \in Thread : u # v => held'[u] \cap held'[v] = {}
    <3> SUFFICES ASSUME NEW u \in Thread, NEW v \in Thread, u # v
                 PROVE  held'[u] \cap held'[v] = {}
      OBVIOUS
    <3>1. held[u] \cap held[v] = {}
      BY <1>1 DEF OneOwner
    <3> QED
      BY <1>3, <1>4, <3>1
  <2> QED
    BY <2>1, <2>2 DEF OneOwner
<1>7. FreeSlotHasConnection'
  BY <1>1 DEF Acquire, FreeSlotHasConnection
<1> QED
  BY <1>5, <1>6, <1>7 DEF OwnerInv

LEMMA ReleaseOwner ==
  ASSUME OwnerInv, NEW t \in Thread, NEW i \in Slot, Release(t, i)
  PROVE  OwnerInv'
<1>1. /\ TypeOK /\ OneOwner /\ FreeSlotHasConnection
      /\ i \in held[t]
  BY DEF OwnerInv, Release
<1>2. PICK l \in {"closed", "open", "broken"}, s \in SessionState,
           threw \in BOOLEAN :
        /\ session' = [session EXCEPT ![i] = s]
        /\ link' = [link EXCEPT ![i] = IF is_connected_ THEN l ELSE "closed"]
        /\ undiscarded' = undiscarded \cup {k \in {i} : threw}
  BY DEF Release
<1>3. held' = [held EXCEPT ![t] = @ \ {i}] /\ present' = present \cup {i}
        /\ busy' = busy \ {i}
  BY DEF Release
<1>4. TypeOK'
  BY <1>1, <1>2, <1>3 DEF Release, TypeOK
<1>5. \A u \in Thread : held'[u] \subseteq held[u] /\ i \notin held'[u]
  BY <1>1, <1>3 DEF TypeOK, OneOwner
<1>6. OneOwner'
  BY <1>1, <1>3, <1>5 DEF OneOwner, Lent
<1>7. FreeSlotHasConnection'
  BY <1>1, <1>3 DEF FreeSlotHasConnection
<1> QED
  BY <1>4, <1>6, <1>7 DEF OwnerInv

LEMMA OwnerStep == OwnerInv /\ [Next]_vars => OwnerInv'
<1> SUFFICES ASSUME OwnerInv, [Next]_vars
             PROVE  OwnerInv'
  OBVIOUS
<1> USE DEF slots, connections
<1>1. ASSUME NEW t \in Thread,
             \/ Connect(t) \/ Connect_slot(t) \/ Connect_null(t)
             \/ Connect_throws(t) \/ Connect_end(t)
      PROVE  OwnerInv'
  <2>1. UNCHANGED slots
    BY <1>1 DEF Connect, Connect_slot, Connect_null, Connect_throws,
                Connect_end
  <2> QED
    BY <1>1, <2>1, ConnectType, OwnerKept DEF OwnerInv
<1>2. CASE Disconnect
  <2>1. TypeOK'
    BY <1>2 DEF OwnerInv, Disconnect, TypeOK
  <2> QED
    BY <1>2, <2>1, OwnerKept DEF Disconnect
<1>3. ASSUME NEW t \in Thread, NEW over \in held[t] \cup {NoSlot},
             Acquire_none(t, over)
      PROVE  OwnerInv'
  <2>1. /\ held' = [held EXCEPT ![t] = (@ \ {over}) \cup {}]
        /\ link' = Destroy(link, {over})
        /\ UNCHANGED <<is_connected_, present, busy, session, configured,
                       undiscarded, mutex, index, crashed>>
    BY <1>3 DEF Acquire_none, Assigned
  <2>2. \A u \in Thread : held'[u] \subseteq held[u]
    BY <2>1 DEF OwnerInv, TypeOK
  <2>3. TypeOK'
    BY <2>1 DEF OwnerInv, TypeOK, Destroy
  <2> QED
    BY <2>1, <2>2, <2>3 DEF OwnerInv, OneOwner, Lent, FreeSlotHasConnection
<1>4. ASSUME NEW t \in Thread, NEW i \in Slot, Acquire_throws(t, i)
      PROVE  OwnerInv'
  BY <1>4 DEF Acquire_throws, OwnerInv, TypeOK, OneOwner, Lent,
              FreeSlotHasConnection
<1>5. ASSUME NEW t \in Thread, NEW i \in Slot, Use(t, i)
      PROVE  OwnerInv'
  <2>1. TypeOK'
    BY <1>5 DEF Use, OwnerInv, TypeOK
  <2> QED
    BY <1>5, <2>1, OwnerKept DEF Use
<1>6. CASE UNCHANGED vars
  BY <1>6 DEF vars, OwnerInv, TypeOK, OneOwner, Lent, FreeSlotHasConnection
<1> QED
  BY <1>1, <1>2, <1>3, <1>4, <1>5, <1>6, AcquireOwner, ReleaseOwner DEF Next

LEMMA OwnerInvCorrect == Spec => []OwnerInv
<1> QED
  BY OwnerInit, OwnerStep, PTL DEF Spec

(* Every reachable state of the pool is well typed.                        *)
THEOREM TypeCorrect == Spec => []TypeOK
<1>1. OwnerInv => TypeOK
  BY DEF OwnerInv
<1> QED
  BY <1>1, OwnerInvCorrect, PTL

(* A connection is never in two handles, nor in a handle and its slot,     *)
(* whatever the threads do and whichever call of the pool throws           *)
(* (connection_pool.cpp:114-120, 152).                                     *)
THEOREM OwnerCorrect == Spec => []OneOwner
<1>1. OwnerInv => OneOwner
  BY DEF OwnerInv
<1> QED
  BY <1>1, OwnerInvCorrect, PTL

(* A slot which connection() may choose and disconnect() closes has its    *)
(* connection (connection_pool.cpp:95, 117).                               *)
THEOREM FreeSlotCorrect == Spec => []FreeSlotHasConnection
<1>1. OwnerInv => FreeSlotHasConnection
  BY DEF OwnerInv
<1> QED
  BY <1>1, OwnerInvCorrect, PTL

-----------------------------------------------------------------------------
(* What the pool lends.                                                    *)

(* A connection in its slot that is open has been through the release      *)
(* handler, which leaves nothing unless it throws, and a request only if a *)
(* wait of it runs out.                                                    *)
SlotsDiscarded ==
  "bare" \notin Usage =>
    \A i \in present : link[i] = "open" =>
      /\ session[i] = "clean" \/ i \in undiscarded
      /\ session[i] # "active" \/ "timeout" \in Faults

ReadyInv == OwnerInv /\ SlotsDiscarded

LEMMA ReadyInit == Init => ReadyInv
BY OwnerInit DEF Init, ReadyInv, SlotsDiscarded

LEMMA OpenDiscarded ==
  ASSUME TypeOK, SlotsDiscarded, NEW i \in Slot, i \in present,
         NEW called \in BOOLEAN, Open(i, called),
         UNCHANGED <<present, undiscarded>>
  PROVE  SlotsDiscarded'
BY DEF Open, TypeOK, SlotsDiscarded

LEMMA ReadyStep == ReadyInv /\ [Next]_vars => ReadyInv'
<1> SUFFICES ASSUME ReadyInv, [Next]_vars
             PROVE  SlotsDiscarded'
  BY OwnerStep DEF ReadyInv
<1>0. TypeOK /\ OneOwner /\ FreeSlotHasConnection /\ SlotsDiscarded
  BY DEF ReadyInv, OwnerInv
<1> USE DEF slots, connections
<1>1. ASSUME NEW t \in Thread, Connect_slot(t) \/ Connect_throws(t)
      PROVE  SlotsDiscarded'
  <2>1. /\ index \in present /\ index \in Slot
        /\ UNCHANGED <<present, undiscarded>>
        /\ UNCHANGED connections \/ Open(index, TRUE) \/ Open(index, FALSE)
    BY <1>0, <1>1 DEF Connect_slot, Connect_throws, TypeOK
  <2>2. CASE UNCHANGED connections
    BY <1>0, <2>1, <2>2 DEF SlotsDiscarded
  <2> QED
    BY <1>0, <2>1, <2>2, OpenDiscarded
<1>2. ASSUME NEW t \in Thread, Connect(t) \/ Connect_null(t) \/ Connect_end(t)
      PROVE  SlotsDiscarded'
  BY <1>0, <1>2 DEF Connect, Connect_null, Connect_end, SlotsDiscarded
<1>3. CASE Disconnect
  BY <1>0, <1>3 DEF Disconnect, TypeOK, SlotsDiscarded
<1>4. ASSUME NEW t \in Thread, NEW over \in held[t] \cup {NoSlot},
             Acquire_none(t, over)
      PROVE  SlotsDiscarded'
  BY <1>0, <1>4 DEF Acquire_none, Destroy, TypeOK, SlotsDiscarded
<1>5. ASSUME NEW t \in Thread, NEW over \in held[t] \cup {NoSlot},
             NEW i \in Slot, Acquire(t, over, i)
      PROVE  SlotsDiscarded'
  <2>1. \A j \in present' : j # i /\ j \in present /\ j \in Slot
    BY <1>0, <1>5 DEF Acquire, TypeOK
  <2>2. \A j \in present' : link'[j] = "open" => link[j] = "open"
    BY <1>0, <1>5, <2>1 DEF Acquire, Destroy, TypeOK
  <2>3. \A j \in present' :
          /\ session'[j] = session[j]
          /\ j \in undiscarded => j \in undiscarded'
    BY <1>0, <1>5, <2>1 DEF Acquire, TypeOK
  <2> QED
    BY <1>0, <2>1, <2>2, <2>3 DEF SlotsDiscarded
<1>6. ASSUME NEW t \in Thread, NEW i \in Slot, Acquire_throws(t, i)
      PROVE  SlotsDiscarded'
  BY <1>0, <1>6 DEF Acquire_throws, SlotsDiscarded
<1>7. ASSUME NEW t \in Thread, NEW i \in Slot, Use(t, i)
      PROVE  SlotsDiscarded'
  <2>1. i \notin present
    BY <1>0, <1>7 DEF Use, OneOwner, Lent
  <2> QED
    BY <1>0, <1>7, <2>1 DEF Use, TypeOK, SlotsDiscarded
<1>8. ASSUME NEW t \in Thread, NEW i \in Slot, Release(t, i)
      PROVE  SlotsDiscarded'
  <2>1. PICK l \in {"closed", "open", "broken"}, s \in SessionState,
             threw \in BOOLEAN :
          /\ Release_handler(i, l, s, threw)
          /\ session' = [session EXCEPT ![i] = s]
          /\ link' = [link EXCEPT ![i] = IF is_connected_ THEN l ELSE "closed"]
          /\ undiscarded' = undiscarded \cup {k \in {i} : threw}
    BY <1>8 DEF Release
  <2>2. present' = present \cup {i}
    BY <1>8 DEF Release
  <2>3. "bare" \notin Usage /\ link'[i] = "open" =>
          /\ session'[i] = "clean" \/ i \in undiscarded'
          /\ session'[i] # "active" \/ "timeout" \in Faults
    BY <1>0, <2>1 DEF Release_handler, TypeOK
  <2> QED
    BY <1>0, <2>1, <2>2, <2>3 DEF TypeOK, SlotsDiscarded
<1>9. CASE UNCHANGED vars
  BY <1>0, <1>9 DEF vars, SlotsDiscarded
<1> QED
  BY <1>1, <1>2, <1>3, <1>4, <1>5, <1>6, <1>7, <1>8, <1>9 DEF Next

LEMMA ReadyInvCorrect == Spec => []ReadyInv
<1> QED
  BY ReadyInit, ReadyStep, PTL DEF Spec

(* Only a call of connection() that finds a free slot lends anything.      *)
LEMMA OnlyAcquireLends ==
  ASSUME OwnerInv, Next, NEW i \in Slot, i \in Lent' \ Lent
  PROVE  \E t \in Thread : \E over \in held[t] \cup {NoSlot} : Acquire(t, over, i)
<1> USE DEF slots, connections
<1>0. TypeOK
  BY DEF OwnerInv
<1>1. CASE UNCHANGED held
  BY <1>1 DEF Lent
<1>2. ASSUME NEW t \in Thread, NEW over \in held[t] \cup {NoSlot},
             Acquire_none(t, over)
      PROVE  FALSE
  BY <1>0, <1>2 DEF Acquire_none, Assigned, Lent, TypeOK
<1>3. ASSUME NEW t \in Thread, NEW j \in Slot, Release(t, j)
      PROVE  FALSE
  BY <1>0, <1>3 DEF Release, Lent, TypeOK
<1>4. ASSUME NEW t \in Thread, NEW over \in held[t] \cup {NoSlot},
             NEW j \in Slot, Acquire(t, over, j)
      PROVE  i = j
  BY <1>0, <1>4 DEF Acquire, Assigned, Lent, TypeOK
<1>5. \/ UNCHANGED held
      \/ \E t \in Thread :
           \/ \E over \in held[t] \cup {NoSlot} :
                \/ Acquire_none(t, over)
                \/ \E j \in Slot : Acquire(t, over, j)
           \/ \E j \in Slot : Release(t, j)
  BY DEF Next, Disconnect, Connect, Connect_slot, Connect_null,
         Connect_throws, Connect_end, Acquire_throws, Use
<1> QED
  BY <1>1, <1>2, <1>3, <1>4, <1>5

LEMMA LentReadyStep ==
  ReadyInv /\ [Next]_vars =>
    [\A i \in Slot : i \in Lent' \ Lent =>
       /\ link'[i] = "open" /\ session'[i] # "active"
       /\ \/ session'[i] = "clean"
          \/ "bare" \in Usage
          \/ i \in undiscarded]_vars
<1> SUFFICES ASSUME ReadyInv, Next, NEW i \in Slot, i \in Lent' \ Lent
             PROVE  /\ link'[i] = "open" /\ session'[i] # "active"
                    /\ \/ session'[i] = "clean"
                       \/ "bare" \in Usage
                       \/ i \in undiscarded
  OBVIOUS
<1>1. TypeOK /\ OneOwner /\ FreeSlotHasConnection /\ SlotsDiscarded
  BY DEF ReadyInv, OwnerInv
<1>0. PICK t \in Thread : \E over \in held[t] \cup {NoSlot} : Acquire(t, over, i)
  BY OnlyAcquireLends DEF ReadyInv
<1>2. PICK over \in held[t] \cup {NoSlot} : Acquire(t, over, i)
  BY <1>0
<1>3. i \in present
  BY <1>1, <1>2 DEF Acquire, First_free, FreeSlotHasConnection
<1>4. over # i
  BY <1>1, <1>3 DEF OneOwner, Lent, NoSlot, Slot
<1>5. link'[i] = "open"
  BY <1>1, <1>2, <1>4 DEF Acquire, Destroy, TypeOK
<1>6. session'[i] = "clean" \/ "bare" \in Usage \/ i \in undiscarded
  BY <1>1, <1>2, <1>3 DEF Acquire, TypeOK, SlotsDiscarded
<1> QED
  BY <1>2, <1>5, <1>6 DEF Acquire

(* connection() lends a connection that is open and idle and, with the     *)
(* release handler in place, without the traces of an earlier holder       *)
(* unless the handler threw on its last return (connection_pool.cpp:47-51, *)
(* 118-120, 139-147).                                                      *)
THEOREM LentReadyCorrect == Spec => LentReady
<1> QED
  BY ReadyInvCorrect, LentReadyStep, PTL DEF Spec, LentReady

-----------------------------------------------------------------------------
(* What the pool keeps, if connection() never throws: connect() succeeds   *)
(* and no request is left in a connection that comes back.                 *)

ConnectionReturns ==
  "bare" \notin Usage /\ Faults \cap {"connect", "timeout"} = {}

(* The flag of a slot is set exactly while its connection is away.         *)
FlagsTrue == ConnectionReturns => present = Slot \ busy

FlagsInv == ReadyInv /\ FlagsTrue

LEMMA NeverThrows ==
  ASSUME ReadyInv, ConnectionReturns, NEW t \in Thread, NEW i \in Slot,
         Acquire_throws(t, i)
  PROVE  FALSE
<1>1. i \in present
  BY DEF Acquire_throws, First_free, ReadyInv, OwnerInv, FreeSlotHasConnection
<1> QED
  BY <1>1 DEF Acquire_throws, ConnectionReturns, ReadyInv, SlotsDiscarded

LEMMA FlagsStep == FlagsInv /\ [Next]_vars => FlagsInv'
<1> SUFFICES ASSUME FlagsInv, [Next]_vars, ConnectionReturns
             PROVE  (present = Slot \ busy)'
  BY ReadyStep DEF FlagsInv, FlagsTrue
<1> USE DEF slots, connections
<1>0. present = Slot \ busy /\ TypeOK /\ ReadyInv
  BY DEF FlagsInv, FlagsTrue, ReadyInv, OwnerInv
<1>1. ASSUME NEW t \in Thread, NEW i \in Slot, Acquire_throws(t, i)
      PROVE  FALSE
  BY <1>0, <1>1, NeverThrows
<1>2. ASSUME NEW t \in Thread, NEW over \in held[t] \cup {NoSlot},
             NEW i \in Slot, Acquire(t, over, i)
      PROVE  (present = Slot \ busy)'
  BY <1>0, <1>2 DEF Acquire
<1>3. ASSUME NEW t \in Thread, NEW i \in Slot, Release(t, i)
      PROVE  (present = Slot \ busy)'
  BY <1>0, <1>3 DEF Release
<1>4. \/ UNCHANGED <<present, busy>>
      \/ \E t \in Thread, i \in Slot :
           \/ Acquire_throws(t, i) \/ Release(t, i)
           \/ \E over \in held[t] \cup {NoSlot} : Acquire(t, over, i)
  BY DEF Next, vars, Disconnect, Connect, Connect_slot, Connect_null,
         Connect_throws, Connect_end, Acquire_none, Use
<1> QED
  BY <1>0, <1>1, <1>2, <1>3, <1>4

LEMMA FlagsInvCorrect == Spec => []FlagsInv
<1>1. Init => FlagsInv
  BY ReadyInit DEF Init, FlagsInv, FlagsTrue
<1> QED
  BY <1>1, FlagsStep, PTL DEF Spec

(* A disconnected pool stays without open connections until connect().     *)
ClosedInv ==
  /\ FlagsInv
  /\ ConnectionReturns /\ "handler" \notin Faults => DisconnectedMeansClosed

LEMMA ClosedStep == ClosedInv /\ [Next]_vars => ClosedInv'
<1> SUFFICES ASSUME ClosedInv, [Next]_vars, ConnectionReturns,
                    "handler" \notin Faults
             PROVE  DisconnectedMeansClosed'
  BY FlagsStep DEF ClosedInv
<1> USE DEF slots, connections
<1>0. /\ DisconnectedMeansClosed /\ present = Slot \ busy
      /\ TypeOK /\ OneOwner
  BY DEF ClosedInv, FlagsInv, FlagsTrue, ReadyInv, OwnerInv
<1>1. ASSUME NEW t \in Thread,
             \/ Connect(t) \/ Connect_slot(t) \/ Connect_null(t)
             \/ Connect_throws(t) \/ Connect_end(t)
      PROVE  DisconnectedMeansClosed'
  <2>1. CASE Connect(t) \/ Connect_slot(t) \/ Connect_null(t)
    <3>1. mutex' = t /\ t # NoThread
      BY <2>1, PoolAssumption
         DEF Connect, Connect_slot, Connect_null, PoolAssumption
    <3> QED
      BY <3>1 DEF DisconnectedMeansClosed
  <2>2. CASE Connect_throws(t)
    BY <2>2 DEF Connect_throws, ConnectionReturns
  <2>3. CASE Connect_end(t)
    BY <2>3 DEF Connect_end, DisconnectedMeansClosed
  <2> QED
    BY <1>1, <2>1, <2>2, <2>3
<1>2. CASE Disconnect
  BY <1>0, <1>2 DEF Disconnect, DisconnectedMeansClosed
<1>3. ASSUME NEW t \in Thread, NEW over \in held[t] \cup {NoSlot},
             Acquire_none(t, over)
      PROVE  DisconnectedMeansClosed'
  BY <1>0, <1>3
     DEF Acquire_none, Destroy, DisconnectedMeansClosed, TypeOK
<1>4. ASSUME NEW t \in Thread, NEW over \in held[t] \cup {NoSlot},
             NEW i \in Slot, Acquire(t, over, i)
      PROVE  DisconnectedMeansClosed'
  BY <1>4 DEF Acquire, DisconnectedMeansClosed
<1>5. ASSUME NEW t \in Thread, NEW i \in Slot, Acquire_throws(t, i)
      PROVE  DisconnectedMeansClosed'
  BY <1>5, NeverThrows DEF ClosedInv, FlagsInv
<1>6. ASSUME NEW t \in Thread, NEW i \in Slot, Use(t, i)
      PROVE  DisconnectedMeansClosed'
  <2>1. i \notin present
    BY <1>0, <1>6 DEF Use, OneOwner, Lent
  <2> QED
    BY <1>0, <1>6, <2>1 DEF Use, DisconnectedMeansClosed, TypeOK
<1>7. ASSUME NEW t \in Thread, NEW i \in Slot, Release(t, i)
      PROVE  DisconnectedMeansClosed'
  <2>1. ~is_connected_ => link' = [link EXCEPT ![i] = "closed"]
    BY <1>7 DEF Release
  <2>2. /\ present' = present \cup {i} /\ mutex = NoThread
        /\ UNCHANGED <<is_connected_, mutex>>
    BY <1>7 DEF Release, Unlocked
  <2> QED
    BY <1>0, <2>1, <2>2 DEF DisconnectedMeansClosed, TypeOK
<1>8. CASE UNCHANGED vars
  BY <1>0, <1>8 DEF vars, DisconnectedMeansClosed
<1> QED
  BY <1>1, <1>2, <1>3, <1>4, <1>5, <1>6, <1>7, <1>8 DEF Next

(* If neither connection() nor connect() throws, a disconnected pool keeps *)
(* no connection open, also one that was lent when disconnect() was called *)
(* (connection_pool.cpp:93-96, 149).                                       *)
THEOREM DisconnectCorrect ==
  ConnectionReturns /\ "handler" \notin Faults
    => (Spec => []DisconnectedMeansClosed)
<1>1. Init => ClosedInv
  <2>1. Init => FlagsInv
    BY ReadyInit DEF Init, FlagsInv, FlagsTrue
  <2> QED
    BY <2>1 DEF Init, ClosedInv, DisconnectedMeansClosed
<1>2. ConnectionReturns /\ "handler" \notin Faults /\ ClosedInv
        => DisconnectedMeansClosed
  BY DEF ClosedInv
<1> SUFFICES ASSUME ConnectionReturns /\ "handler" \notin Faults
             PROVE  Spec => []DisconnectedMeansClosed
  OBVIOUS
<1>3. ClosedInv => DisconnectedMeansClosed
  BY <1>2
<1> QED
  BY <1>1, <1>3, ClosedStep, PTL DEF Spec

-----------------------------------------------------------------------------
(* That no slot is lost, if besides no valid handle is assigned over.      *)

(* The flag of a slot is set exactly while a handle has its connection.    *)
BusyMeansLent ==
  ConnectionReturns /\ "assign" \notin Usage => busy \subseteq Lent

LentInv == FlagsInv /\ BusyMeansLent

LEMMA LentStep == LentInv /\ [Next]_vars => LentInv'
<1> SUFFICES ASSUME LentInv, [Next]_vars, ConnectionReturns,
                    "assign" \notin Usage
             PROVE  (busy \subseteq Lent)'
  BY FlagsStep DEF LentInv, BusyMeansLent
<1> USE DEF slots, connections
<1>0. busy \subseteq Lent /\ TypeOK /\ OneOwner
  BY DEF LentInv, BusyMeansLent, FlagsInv, ReadyInv, OwnerInv
<1>1. ASSUME NEW t \in Thread, NEW i \in Slot, Acquire_throws(t, i)
      PROVE  FALSE
  BY <1>1, NeverThrows DEF LentInv, FlagsInv
<1>2. ASSUME NEW t \in Thread, NEW over \in held[t] \cup {NoSlot},
             May_assign(t, over)
      PROVE  held[t] \ {over} = held[t]
  BY <1>0, <1>2 DEF May_assign, TypeOK, NoSlot, Slot
<1>3. ASSUME NEW t \in Thread, NEW over \in held[t] \cup {NoSlot},
             Acquire_none(t, over)
      PROVE  (busy \subseteq Lent)'
  BY <1>0, <1>2, <1>3 DEF Acquire_none, Assigned, Lent, TypeOK
<1>4. ASSUME NEW t \in Thread, NEW over \in held[t] \cup {NoSlot},
             NEW i \in Slot, Acquire(t, over, i)
      PROVE  (busy \subseteq Lent)'
  <2>1. held' = [held EXCEPT ![t] = @ \cup {i}] /\ busy' = busy \cup {i}
    BY <1>0, <1>2, <1>4 DEF Acquire, Assigned, TypeOK
  <2> QED
    BY <1>0, <2>1 DEF Lent, TypeOK
<1>5. ASSUME NEW t \in Thread, NEW i \in Slot, Release(t, i)
      PROVE  (busy \subseteq Lent)'
  BY <1>0, <1>5 DEF Release, Lent, TypeOK
<1>6. \/ UNCHANGED <<held, busy>>
      \/ \E t \in Thread :
           \/ \E over \in held[t] \cup {NoSlot} :
                \/ Acquire_none(t, over)
                \/ \E i \in Slot : Acquire(t, over, i)
           \/ \E i \in Slot : Acquire_throws(t, i) \/ Release(t, i)
  BY DEF Next, vars, Disconnect, Connect, Connect_slot, Connect_null,
         Connect_throws, Connect_end, Use
<1>7. CASE UNCHANGED <<held, busy>>
  BY <1>0, <1>7 DEF Lent
<1> QED
  BY <1>1, <1>3, <1>4, <1>5, <1>6, <1>7

(* If connection() never throws and no valid handle is assigned over, a    *)
(* pool from which nothing is lent has a free connection                   *)
(* (connection_pool.cpp:112-117, 152-153).                                 *)
THEOREM NothingLostCorrect ==
  ConnectionReturns /\ "assign" \notin Usage
    => (Spec => []NothingLentMeansFree)
<1> SUFFICES ASSUME ConnectionReturns /\ "assign" \notin Usage
             PROVE  Spec => []NothingLentMeansFree
  OBVIOUS
<1>1. Init => LentInv
  BY ReadyInit DEF Init, LentInv, FlagsInv, FlagsTrue, BusyMeansLent
<1>2. LentInv => NothingLentMeansFree
  <2>1. 1 \in Slot
    BY PoolAssumption DEF PoolAssumption, Slot
  <2> QED
    BY <2>1 DEF LentInv, BusyMeansLent, NothingLentMeansFree
<1> QED
  BY <1>1, <1>2, LentStep, PTL DEF Spec
=============================================================================
