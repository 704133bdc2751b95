--------------------------- MODULE ServersProofs ---------------------------
(***************************************************************************)
(* Proofs about the instances of module Servers, for every bound: the      *)
(* descriptor of Net does not cost its client the response; a timer of     *)
(* Timers calls its own handler; the PID file of Processes is that of the  *)
(* process that works; the connections of WebSockets are those that are    *)
(* open, and no call reaches one that is gone; HTTP finds every head and   *)
(* loses no content.                                                       *)
(*                                                                         *)
(* A step of the servers is one of the instance, or leaves it as it is:    *)
(* each section has an invariant of its instance, and shows that its steps *)
(* keep it.                                                                *)
(***************************************************************************)
EXTENDS Servers, SequenceTheorems, FiniteSetTheorems, TLAPS

-----------------------------------------------------------------------------
(* Net.                                                                    *)

\* What is closed has been read to its end: something that is unread when the drain
\* is over has been sent after the silence.
NetInv ==
  /\ received \in Nat
  /\ client = "gone" => received = 0
  /\ descriptor = "quiet" /\ received > 0 => late
  /\ N!NotReset

LEMMA NetInit == N!Init => NetInv
BY DEF N!Init, NetInv, N!NotReset

LEMMA NetNext ==
  ASSUME NetInv, [N!Next]_(N!vars)
  PROVE  NetInv'
<1> USE DEF NetInv, N!NotReset
<1>1. CASE N!Listen \/ N!Close_listener \/ N!Destroy_listener
  BY <1>1 DEF N!Listen, N!Close_listener, N!Destroy_listener, N!connection
<1>2. CASE N!Accept
  BY <1>2 DEF N!Accept
<1>3. CASE N!Client_sends
  <2>1. late \/ descriptor \in {"quiet", "closed"} => late'
    BY <1>3 DEF N!Client_sends
  <2>2. UNCHANGED <<client, descriptor>> /\ client # "gone"
    BY <1>3 DEF N!Client_sends
  <2>3. received' \in Nat /\ (descriptor # "closed" => (reset' <=> reset))
    BY <1>3 DEF N!Client_sends
  <2> QED
    BY <2>1, <2>2, <2>3
<1>4. CASE N!Client_finishes \/ N!Client_goes
  BY <1>4 DEF N!Client_finishes, N!Client_goes
<1>5. CASE N!Read
  <2>1. PICK n \in 1..received : received' = received - n
    BY <1>5 DEF N!Read
  <2> QED
    BY <1>5, <2>1 DEF N!Read
<1>6. CASE N!Shutdown
  BY <1>6 DEF N!Shutdown
<1>7. CASE N!Drain
  <2>1. CASE received > 0 /\ (\E n \in 1..received : received' = received - n)
             /\ UNCHANGED descriptor
    <3>1. PICK n \in 1..received : received' = received - n
      BY <2>1
    <3> QED
      BY <1>7, <2>1, <3>1 DEF N!Drain
  <2>2. CASE UNCHANGED received
    BY <1>7, <2>2 DEF N!Drain
  <2> QED
    BY <1>7, <2>1, <2>2 DEF N!Drain
<1>8. CASE N!Close_socket
  BY <1>8 DEF N!Close_socket
<1>9. CASE UNCHANGED N!vars
  BY <1>9 DEF N!vars, N!connection
<1> QED
  BY <1>1, <1>2, <1>3, <1>4, <1>5, <1>6, <1>7, <1>8, <1>9 DEF N!Next

LEMMA NetStep == [ServersNext]_serversVars => [N!Next]_(N!vars)
BY DEF ServersNext, serversVars, netVars, N!vars, N!listener, N!connection

\* A client that sends nothing more once it has been silent for a second, or that has shut
\* down its side, is not reset by the close of the descriptor (net::Descriptor).
THEOREM ResponseNotReset == ServersSpec => []NotReset
<1>1. ServersInit => NetInv
  BY NetInit DEF ServersInit
<1>2. NetInv /\ [ServersNext]_serversVars => NetInv'
  BY NetNext, NetStep
<1>3. NetInv => NotReset
  BY DEF NetInv, NotReset
<1> QED
  BY <1>1, <1>2, <1>3, PTL DEF ServersSpec

-----------------------------------------------------------------------------
(* Timers.                                                                 *)

TimersInv ==
  /\ timers_ \in Seq(TimerName)
  /\ \A i, j \in DOMAIN timers_ : i # j => timers_[i] # timers_[j]
  /\ T!TimerCallsItself

LEMMA TimersInit == T!Init => TimersInv
BY DEF T!Init, TimersInv, T!TimerCallsItself

LEMMA PlaceOf ==
  ASSUME TimersInv, NEW i \in DOMAIN timers_
  PROVE  T!Place(timers_[i]) = i
BY DEF TimersInv, T!Place

LEMMA TimerAdded ==
  ASSUME TimersInv, NEW t \in TimerName, T!Add_timer(t)
  PROVE  TimersInv'
<1> DEFINE n == Len(timers_)
<1>1. timers_ \in Seq(TimerName) /\ n \in Nat /\ DOMAIN timers_ = 1..n
  BY DEF TimersInv
<1>2. timers_' = Append(timers_, t) /\ ~terminated /\ ~terminated'
  BY DEF T!Add_timer
<1>3. timers_' \in Seq(TimerName) /\ DOMAIN timers_' = 1..(n + 1) /\ Len(timers_') = n + 1
  BY <1>1, <1>2
<1>4. timers_'[n + 1] = t /\ \A i \in 1..n : timers_'[i] = timers_[i]
  BY <1>1, <1>2
<1>5. \A i \in 1..n : timers_[i] # t
  BY <1>1 DEF T!Add_timer, T!ToSet
<1>6. \A i, j \in DOMAIN timers_' : i # j => timers_'[i] # timers_'[j]
  BY <1>1, <1>3, <1>4, <1>5 DEF TimersInv
<1>7. ASSUME NEW i \in DOMAIN timers_', timers_'[i] \notin shifted'
      PROVE  ext'[timers_'[i]] = i
  <2>1. timers_'[i] \in T!ToSet(timers_')
    BY DEF T!ToSet
  <2>2. CASE i = n + 1
    BY <2>1, <2>2, <1>3, <1>4 DEF T!Add_timer
  <2>3. CASE i # n + 1
    <3>1. i \in 1..n /\ timers_'[i] = timers_[i] /\ timers_[i] # t
      BY <2>3, <1>1, <1>3, <1>4, <1>5
    <3>2. CASE Len(timers_) < capacity
      <4>1. ext'[timers_'[i]] = ext[timers_[i]] /\ shifted' = shifted
        BY <2>1, <3>1, <3>2 DEF T!Add_timer
      <4> QED
        BY <1>1, <1>7, <3>1, <4>1 DEF TimersInv, T!TimerCallsItself
    <3>3. CASE ~(Len(timers_) < capacity)
      <4>1. ext'[timers_'[i]] = T!Place(timers_[i])
        BY <2>1, <3>1, <3>3 DEF T!Add_timer
      <4> QED
        BY <1>1, <3>1, <4>1, PlaceOf
    <3> QED
      BY <3>2, <3>3
  <2> QED
    BY <2>2, <2>3
<1> QED
  BY <1>2, <1>3, <1>6, <1>7 DEF TimersInv, T!TimerCallsItself

LEMMA Removal ==
  ASSUME NEW S, NEW s \in Seq(S), NEW k \in 1..Len(s)
  PROVE  /\ T!RemoveAt(s, k) \in Seq(S)
         /\ DOMAIN T!RemoveAt(s, k) = 1..(Len(s) - 1)
         /\ \A i \in 1..(Len(s) - 1) : T!RemoveAt(s, k)[i] = s[IF i < k THEN i ELSE i + 1]
<1> DEFINE n == Len(s)
<1> DEFINE a == SubSeq(s, 1, k - 1)
<1> DEFINE b == SubSeq(s, k + 1, n)
<1>1. a \in Seq(S) /\ Len(a) = k - 1 /\ \A i \in 1..(k - 1) : a[i] = s[i]
  OBVIOUS
<1>2. b \in Seq(S) /\ Len(b) = n - k /\ \A i \in 1..(n - k) : b[i] = s[i + k]
  OBVIOUS
<1>3. T!RemoveAt(s, k) = a \o b
  BY DEF T!RemoveAt
<1> HIDE DEF a, b
<1>4. a \o b \in Seq(S) /\ Len(a \o b) = n - 1
  <2>1. a \o b \in Seq(S)
    BY <1>1, <1>2, ConcatProperties
  <2>2. Len(a \o b) = Len(a) + Len(b)
    BY <1>1, <1>2, ConcatProperties
  <2>3. (k - 1) + (n - k) = n - 1
    OBVIOUS
  <2> QED
    BY <1>1, <1>2, <2>1, <2>2, <2>3
<1>5. ASSUME NEW i \in 1..(n - 1)
      PROVE  (a \o b)[i] = s[IF i < k THEN i ELSE i + 1]
  <2>1. CASE i < k
    BY <1>1, <1>2, <2>1
  <2>2. CASE ~(i < k)
    <3>1. (a \o b)[i] = b[i - (k - 1)]
      BY <1>1, <1>2, <2>2
    <3>2. i - (k - 1) \in 1..(n - k) /\ i - (k - 1) + k = i + 1
      BY <2>2
    <3> QED
      BY <1>2, <2>2, <3>1, <3>2
  <2> QED
    BY <2>1, <2>2
<1>6. DOMAIN (a \o b) = 1..(n - 1)
  BY <1>4
<1> QED
  BY <1>3, <1>4, <1>5, <1>6, Zenon

LEMMA TimerRemoved ==
  ASSUME TimersInv, NEW t \in TimerName, T!Remove_timer(t)
  PROVE  TimersInv'
<1> DEFINE n == Len(timers_)
<1> DEFINE k == T!Place(t)
<1>1. timers_ \in Seq(TimerName) /\ n \in Nat /\ DOMAIN timers_ = 1..n
  BY DEF TimersInv
<1>2. PICK p \in 1..n : timers_[p] = t
  BY <1>1 DEF T!Remove_timer, T!ToSet
<1>3. k \in 1..n
  BY <1>1, <1>2, PlaceOf
<1>4. timers_' = T!RemoveAt(timers_, k)
  BY DEF T!Remove_timer
<1> HIDE DEF k
<1>5. /\ timers_' \in Seq(TimerName)
      /\ DOMAIN timers_' = 1..(n - 1)
      /\ \A i \in 1..(n - 1) : timers_'[i] = timers_[IF i < k THEN i ELSE i + 1]
  BY <1>1, <1>3, <1>4, Removal
<1>6. \A i, j \in DOMAIN timers_' : i # j => timers_'[i] # timers_'[j]
  BY <1>1, <1>3, <1>5 DEF TimersInv
<1>7. ASSUME NEW i \in DOMAIN timers_', timers_'[i] \notin shifted'
      PROVE  ext'[timers_'[i]] = i
  <2>1. /\ timers_'[i] \in T!ToSet(timers_')
        /\ timers_'[i] \notin shifted
        /\ ~(T!Place(timers_'[i]) > k)
    BY <1>7 DEF T!ToSet, T!Remove_timer, k
  <2>2. i < k
    <3> SUFFICES ASSUME ~(i < k)
                 PROVE  FALSE
      OBVIOUS
    <3>1. i + 1 \in DOMAIN timers_ /\ timers_'[i] = timers_[i + 1] /\ i + 1 > k
      BY <1>1, <1>3, <1>5
    <3> QED
      BY <2>1, <3>1, PlaceOf
  <2>3. i \in DOMAIN timers_ /\ timers_'[i] = timers_[i]
    BY <1>1, <1>3, <1>5, <2>2
  <2>4. ext'[timers_'[i]] = ext[timers_[i]]
    BY <2>1, <2>3 DEF T!Remove_timer
  <2> QED
    BY <2>1, <2>3, <2>4 DEF TimersInv, T!TimerCallsItself
<1>8. ~terminated'
  BY DEF T!Remove_timer
<1> QED
  BY <1>5, <1>6, <1>7, <1>8 DEF TimersInv, T!TimerCallsItself

LEMMA TimerStarted ==
  ASSUME TimersInv, ~StartMoved, NEW t \in TimerName, T!Start_timer(t)
  PROVE  TimersInv'
<1>1. PICK i \in DOMAIN timers_ : timers_[i] = t
  BY DEF T!Start_timer, T!ToSet
<1>2. t \notin shifted /\ T!Place(t) = i /\ ext[t] = i
  BY <1>1, PlaceOf DEF T!Start_timer, TimersInv, T!TimerCallsItself
<1> QED
  BY <1>2 DEF T!Start_timer, TimersInv, T!TimerCallsItself

LEMMA TimersNext ==
  ASSUME TimersInv, ~StartMoved, [T!Next]_(T!vars)
  PROVE  TimersInv'
<1>1. CASE T!Next
  BY <1>1, TimerAdded, TimerRemoved, TimerStarted DEF T!Next
<1>2. CASE UNCHANGED T!vars
  BY <1>2 DEF T!vars, TimersInv, T!TimerCallsItself
<1> QED
  BY <1>1, <1>2

LEMMA TimersStep == [ServersNext]_serversVars => [T!Next]_(T!vars)
BY DEF ServersNext, serversVars, timersVars, T!vars

\* The timer of the event loop calls the handler of its own timer however often the vector
\* of timers grows or loses one, but after a removal that has moved it and before the next
\* reallocation (the move assignment of ws::detail::iTimer), when it must not be started.
THEOREM TimersCallThemselves ==
  ASSUME ~StartMoved
  PROVE  ServersSpec => []TimerCallsItself
<1>1. ServersInit => TimersInv
  BY TimersInit DEF ServersInit
<1>2. TimersInv /\ [ServersNext]_serversVars => TimersInv'
  BY TimersNext, TimersStep
<1>3. TimersInv => TimerCallsItself
  BY DEF TimersInv, TimerCallsItself
<1> QED
  BY <1>1, <1>2, <1>3, PTL DEF ServersSpec

-----------------------------------------------------------------------------
(* Processes.                                                              *)

PidPlaces == {"absolute", "before", "after"}
Inactive == {"new", "exited", "killed"}
Phases == Inactive \union {"starting", "working", "spinning", "exiting", "cleaning", "clearing"}

Named(p) == \E l \in PidPlaces : files[l] = p

\* The path of the PID file may lead elsewhere at the end than at the start.
Misled == relative /\ detached

ProcessesTypes ==
  /\ detached \in BOOLEAN /\ relative \in BOOLEAN
  /\ phase \in [Process -> Phases] /\ DOMAIN todo = Process
  /\ pid_file \in [Process -> BOOLEAN] /\ moved \in [Process -> BOOLEAN]
  /\ handled \in [Process -> BOOLEAN] /\ stuck \in [Process -> BOOLEAN]
  /\ files \in [PidPlaces -> Process \union {NoProcess}]

\* What is left of start() when detach() has still to write the file, and has written it.
ToDump ==
  {<<"fork", "redirect", "setsid", "fork", "dump", "chdir", "close", "run">>,
   <<"redirect", "setsid", "fork", "dump", "chdir", "close", "run">>,
   <<"setsid", "fork", "dump", "chdir", "close", "run">>,
   <<"fork", "dump", "chdir", "close", "run">>,
   <<"dump", "chdir", "close", "run">>}
Dumped == {<<"chdir", "close", "run">>, <<"close", "run">>, <<"run">>}

\* What start() has done when this is left of it.
Started(p) ==
  \/ detached /\ todo[p] \in ToDump /\ pid_file[p] /\ ~Named(p)
  \/ detached /\ todo[p] \in Dumped /\ pid_file[p] /\ Named(p)
  \/ ~detached /\ todo[p] = <<"chdir", "dump", "redirect", "run">> /\ pid_file[p] /\ ~Named(p)
  \/ ~detached /\ todo[p] = <<"dump", "redirect", "run">> /\ pid_file[p] /\ ~Named(p) /\ moved[p]
  \/ ~detached /\ todo[p] = <<"chdir", "redirect", "run">> /\ ~pid_file[p] /\ ~Named(p)
  \/ ~detached /\ todo[p] \in {<<"redirect", "run">>, <<"run">>} /\ (pid_file[p] <=> Named(p))

\* The file of a process is where it will look for it.
OwnPlace(p) ==
  /\ \A l \in PidPlaces : files[l] = p => l = P!Place(p) /\ (relative => moved[p])
  /\ Named(p) => pid_file[p]

OneActive == \A p, q \in Process : p = q \/ phase[p] \in Inactive \/ phase[q] \in Inactive

ProcessInv(p) ==
  /\ phase[p] = "new" => ~Named(p) /\ ~handled[p]
  /\ phase[p] = "starting" => Started(p) /\ ~handled[p]
  /\ phase[p] \in {"working", "spinning"} /\ pid_file[p] => Named(p)
  /\ phase[p] = "clearing" => ~Named(p) \/ Misled
  /\ phase[p] = "exited" /\ handled[p] => ~Named(p) \/ stuck[p] \/ Misled
  /\ Misled \/ OwnPlace(p)

ProcessesInv == ProcessesTypes /\ OneActive /\ \A p \in Process : ProcessInv(p)

LEMMA ProcessesInit == P!Init => ProcessesInv
<1> SUFFICES ASSUME P!Init
             PROVE  ProcessesInv
  OBVIOUS
<1> USE DEF P!Init
<1>1. ProcessesTypes
  BY DEF ProcessesTypes, Phases, Inactive, PidPlaces
<1>2. OneActive
  BY DEF OneActive, Inactive
<1>3. ASSUME NEW p \in Process
      PROVE  ProcessInv(p)
  <2>1. ~Named(p)
    BY ServersAssumption DEF ServersAssumption, Named, PidPlaces
  <2> QED
    BY <2>1 DEF ProcessInv, OwnPlace, Named
<1> QED
  BY <1>1, <1>2, <1>3 DEF ProcessesInv

\* A step of another process leaves the invariant of an inactive one.
LEMMA OtherProcess ==
  ASSUME ProcessesInv, NEW q \in Process, phase[q] \in Inactive,
         UNCHANGED <<detached, relative>>,
         phase'[q] = phase[q], pid_file'[q] = pid_file[q], moved'[q] = moved[q],
         handled'[q] = handled[q], stuck'[q] = stuck[q],
         \A l \in PidPlaces : files'[l] = q => files[l] = q
  PROVE  ProcessInv(q)'
<1>2. Named(q)' => Named(q)
  BY DEF Named
<1>3. P!Place(q)' = P!Place(q) /\ (Misled' <=> Misled)
  BY DEF P!Place, Misled
<1>4. Misled' \/ OwnPlace(q)'
  BY <1>2, <1>3 DEF ProcessesInv, ProcessInv, OwnPlace
<1> QED
  BY <1>2, <1>3, <1>4 DEF ProcessesInv, ProcessInv, Inactive

\* A step that leaves the files and what is done by start() alone.
MovesOn(p, next) ==
  /\ UNCHANGED <<todo, detached, relative, pid_file, moved, handled, stuck, files>>
  /\ phase' = [phase EXCEPT ![p] = next]

LEMMA FilesKept ==
  ASSUME ProcessesInv, NEW p \in Process, phase[p] \notin Inactive,
         NEW next \in {"spinning", "exiting", "cleaning", "exited", "killed"}, MovesOn(p, next),
         next = "spinning" => phase[p] = "working",
         next = "exited" => ~handled[p]
  PROVE  ProcessesInv'
<1> USE DEF MovesOn
<1>1. ProcessesTypes' /\ OneActive'
  BY DEF ProcessesInv, ProcessesTypes, OneActive, Phases, Inactive
<1>2. ASSUME NEW q \in Process
      PROVE  ProcessInv(q)'
  <2>1. Named(q)' = Named(q) /\ P!Place(q)' = P!Place(q) /\ Misled' = Misled
    BY DEF Named, P!Place, Misled
  <2>2. OwnPlace(q)' = OwnPlace(q)
    BY <2>1 DEF OwnPlace
  <2>3. CASE q = p
    BY <2>1, <2>2, <2>3 DEF ProcessesInv, ProcessInv, ProcessesTypes
  <2>4. CASE q # p
    BY <2>4, OtherProcess DEF ProcessesInv, ProcessesTypes, OneActive
  <2> QED
    BY <2>3, <2>4
<1> QED
  BY <1>1, <1>2 DEF ProcessesInv

LEMMA ProcessStarted ==
  ASSUME ProcessesInv, ~Rivals, NEW p \in Process, P!Start(p)
  PROVE  ProcessesInv'
<1>1. /\ UNCHANGED <<detached, relative, moved, handled, is_running, stuck, files>>
      /\ phase[p] = "new" /\ \A q \in Process : phase[q] \in Inactive
      /\ phase' = [phase EXCEPT ![p] = "starting"]
  BY DEF P!Start, P!Gone, Inactive
<1>2. PICK named \in BOOLEAN :
        /\ detached => named
        /\ pid_file' = [pid_file EXCEPT ![p] = named]
        /\ todo' = [todo EXCEPT ![p] =
             IF detached
             THEN <<"fork", "redirect", "setsid", "fork", "dump", "chdir", "close", "run">>
             ELSE IF named
             THEN <<"chdir", "dump", "redirect", "run">>
             ELSE <<"chdir", "redirect", "run">>]
  BY DEF P!Start
<1>3. ProcessesTypes' /\ OneActive'
  BY <1>1, <1>2 DEF ProcessesInv, ProcessesTypes, OneActive, Phases, Inactive
<1>4. ASSUME NEW q \in Process
      PROVE  ProcessInv(q)'
  <2>1. CASE q = p
    <3>1. ~Named(p)' /\ ~handled'[p] /\ phase'[p] = "starting"
      BY <1>1 DEF ProcessesInv, ProcessesTypes, ProcessInv, Named
    <3>2. OwnPlace(p)'
      BY <3>1 DEF OwnPlace, Named
    <3>3. Started(p)'
      BY <1>1, <1>2, <3>1 DEF ProcessesInv, ProcessesTypes, Started, ToDump
    <3> QED
      BY <2>1, <3>1, <3>2, <3>3 DEF ProcessInv
  <2>2. CASE q # p
    BY <1>1, <1>2, <2>2, OtherProcess DEF ProcessesInv, ProcessesTypes
  <2> QED
    BY <2>1, <2>2
<1> QED
  BY <1>3, <1>4 DEF ProcessesInv

\* What is left when a step of start() is done, and what the step was.
LEMMA Remaining ==
  /\ \A t \in ToDump :
       IF Head(t) = "dump" THEN Tail(t) \in Dumped
       ELSE Tail(t) \in ToDump /\ Head(t) \notin {"chdir", "run"}
  /\ \A t \in Dumped : IF Head(t) = "run" THEN TRUE ELSE Tail(t) \in Dumped /\ Head(t) # "dump"
  /\ Head(<<"chdir", "dump", "redirect", "run">>) = "chdir"
  /\ Tail(<<"chdir", "dump", "redirect", "run">>) = <<"dump", "redirect", "run">>
  /\ Head(<<"dump", "redirect", "run">>) = "dump"
  /\ Tail(<<"dump", "redirect", "run">>) = <<"redirect", "run">>
  /\ Head(<<"chdir", "redirect", "run">>) = "chdir"
  /\ Tail(<<"chdir", "redirect", "run">>) = <<"redirect", "run">>
  /\ Head(<<"redirect", "run">>) = "redirect"
  /\ Tail(<<"redirect", "run">>) = <<"run">>
  /\ Head(<<"run">>) = "run"
BY DEF ToDump, Dumped

LEMMA ProcessStep ==
  ASSUME ProcessesInv, NEW p \in Process, P!Step(p)
  PROVE  ProcessesInv'
<1> DEFINE step == Head(todo[p])
<1>1. /\ UNCHANGED <<detached, relative, pid_file, stuck>> /\ phase[p] = "starting"
      /\ todo' = [todo EXCEPT ![p] = Tail(todo[p])]
      /\ moved' = [moved EXCEPT ![p] = moved[p] \/ step = "chdir"]
      /\ files' = IF step = "dump" THEN [files EXCEPT ![P!Place(p)] = p] ELSE files
      /\ handled' = [handled EXCEPT ![p] = step = "run"]
      /\ phase' = IF step = "run" THEN [phase EXCEPT ![p] = "working"] ELSE phase
  BY DEF P!Step
<1>2. P!Place(p) \in PidPlaces
  BY DEF P!Place, PidPlaces
<1> HIDE DEF step
<1>3. ProcessesTypes'
  BY <1>1, <1>2 DEF ProcessesInv, ProcessesTypes, Phases, Inactive
<1>4. OneActive' /\ \A q \in Process : q # p => phase[q] \in Inactive
  BY <1>1 DEF ProcessesInv, ProcessesTypes, OneActive, Inactive
<1>5. ASSUME NEW q \in Process, q # p
      PROVE  ProcessInv(q)'
  BY <1>1, <1>2, <1>4, <1>5, OtherProcess DEF ProcessesInv, ProcessesTypes
<1>6. Started(p) /\ ~handled[p] /\ (Misled \/ OwnPlace(p)) /\ (Misled' <=> Misled)
  BY <1>1 DEF ProcessesInv, ProcessInv, Misled
<1>7. step = "dump" => Named(p)'
  BY <1>1, <1>2, <1>3 DEF ProcessesInv, ProcessesTypes, Named
<1>8. step # "dump" => Named(p)' = Named(p)
  BY <1>1 DEF Named
<1>9. IF step = "run" THEN pid_file'[p] => Named(p)' ELSE Started(p)'
  BY <1>1, <1>6, <1>7, <1>8, Remaining DEF ProcessesInv, ProcessesTypes, Started, step
<1>10. Misled' \/ OwnPlace(p)'
  <2> SUFFICES ASSUME ~Misled
               PROVE  OwnPlace(p)'
    BY <1>6
  <2>1. Named(p)' => pid_file'[p]
    BY <1>1, <1>6, <1>8, Remaining DEF Started, OwnPlace, step
  <2>2. ASSUME NEW l \in PidPlaces, files'[l] = p
        PROVE  l = P!Place(p)' /\ (relative' => moved'[p])
    <3>1. CASE step = "dump"
      <4>1. ~relative \/ moved[p]
        BY <1>6, <3>1, Remaining DEF Started, step, Misled, ToDump, Dumped
      <4> QED
        BY <1>1, <1>2, <1>6, <2>2, <3>1, <4>1
        DEF ProcessesInv, ProcessesTypes, P!Place, OwnPlace
    <3>2. CASE step # "dump"
      BY <1>1, <1>6, <2>2, <3>2 DEF ProcessesInv, ProcessesTypes, P!Place, OwnPlace
    <3> QED
      BY <3>1, <3>2
  <2> QED
    BY <2>1, <2>2 DEF OwnPlace
<1>11. ProcessInv(p)'
  BY <1>1, <1>3, <1>6, <1>9, <1>10 DEF ProcessesInv, ProcessesTypes, ProcessInv
<1> QED
  BY <1>3, <1>4, <1>5, <1>11 DEF ProcessesInv

LEMMA FileRemoved ==
  ASSUME ProcessesInv, NEW p \in Process, P!Remove(p)
  PROVE  ProcessesInv'
<1>1. UNCHANGED <<todo, detached, relative, moved, handled, pid_file>> /\ phase[p] = "cleaning"
  BY DEF P!Remove
<1>2. PICK next \in {"clearing", "exited"} :
        /\ phase' = [phase EXCEPT ![p] = next]
        /\ \/ /\ next = "clearing" /\ UNCHANGED stuck
              /\ files' = [files EXCEPT ![P!Place(p)] = NoProcess]
           \/ next = "exited" /\ stuck' = [stuck EXCEPT ![p] = TRUE] /\ UNCHANGED files
           \/ next = "exited" /\ ~pid_file[p] /\ UNCHANGED <<files, stuck>>
  BY DEF P!Remove
<1>3. P!Place(p) \in PidPlaces /\ NoProcess \notin Process
  BY ServersAssumption DEF ServersAssumption, P!Place, PidPlaces
<1>4. ProcessesTypes'
  BY <1>1, <1>2, <1>3 DEF ProcessesInv, ProcessesTypes, Phases, Inactive
<1>5. OneActive' /\ \A q \in Process : q # p => phase[q] \in Inactive
  BY <1>1, <1>2 DEF ProcessesInv, ProcessesTypes, OneActive, Inactive
<1>6. ASSUME NEW q \in Process, q # p
      PROVE  ProcessInv(q)'
  BY <1>1, <1>2, <1>3, <1>5, <1>6, OtherProcess DEF ProcessesInv, ProcessesTypes
<1>7. Misled \/ OwnPlace(p)
  BY DEF ProcessesInv, ProcessInv
<1>8. (Misled' <=> Misled) /\ P!Place(p)' = P!Place(p) /\ (Named(p)' => Named(p))
  BY <1>1, <1>2, <1>3 DEF ProcessesInv, ProcessesTypes, Misled, P!Place, Named
<1>9. Misled' \/ OwnPlace(p)'
  BY <1>1, <1>2, <1>3, <1>7, <1>8 DEF ProcessesInv, ProcessesTypes, OwnPlace
<1>10. Misled \/ (next = "clearing" => ~Named(p)') \/ pid_file[p] = FALSE
  BY <1>2, <1>3, <1>7 DEF ProcessesInv, ProcessesTypes, OwnPlace, Named
<1>11. ProcessInv(p)'
  BY <1>1, <1>2, <1>4, <1>7, <1>8, <1>9, <1>10
  DEF ProcessesInv, ProcessesTypes, ProcessInv, OwnPlace
<1> QED
  BY <1>4, <1>5, <1>6, <1>11 DEF ProcessesInv

LEMMA FileForgotten ==
  ASSUME ProcessesInv, NEW p \in Process, P!Clear(p)
  PROVE  ProcessesInv'
<1>1. /\ UNCHANGED <<detached, relative, moved, handled, stuck, files>>
      /\ phase[p] = "clearing" /\ phase' = [phase EXCEPT ![p] = "exited"]
      /\ pid_file' = [pid_file EXCEPT ![p] = FALSE] /\ UNCHANGED todo
  BY DEF P!Clear
<1>2. ProcessesTypes' /\ OneActive' /\ \A q \in Process : q # p => phase[q] \in Inactive
  BY <1>1 DEF ProcessesInv, ProcessesTypes, OneActive, Phases, Inactive
<1>3. ASSUME NEW q \in Process, q # p
      PROVE  ProcessInv(q)'
  BY <1>1, <1>2, <1>3, OtherProcess DEF ProcessesInv, ProcessesTypes
<1>4. /\ Misled' <=> Misled
      /\ Named(p)' <=> Named(p)
      /\ P!Place(p)' = P!Place(p)
      /\ ~Named(p) \/ Misled
  BY <1>1 DEF ProcessesInv, ProcessInv, Misled, Named, P!Place
<1>5. ProcessInv(p)'
  BY <1>1, <1>2, <1>4 DEF ProcessesInv, ProcessesTypes, ProcessInv, OwnPlace
<1> QED
  BY <1>2, <1>3, <1>5 DEF ProcessesInv

LEMMA ProcessesUntouched ==
  ASSUME ProcessesInv,
         UNCHANGED <<todo, phase, detached, relative, pid_file, moved, handled, stuck, files>>
  PROVE  ProcessesInv'
BY DEF ProcessesInv, ProcessesTypes, OneActive, ProcessInv, Started, OwnPlace, Named, Misled,
       P!Place

LEMMA ProcessesNext ==
  ASSUME ProcessesInv, ~Rivals, [P!Next]_(P!vars)
  PROVE  ProcessesInv'
<1> SUFFICES ASSUME NEW p \in Process,
                    \/ P!Start(p) \/ P!Step(p) \/ P!Step_fails(p) \/ P!Callback_throws(p)
                    \/ P!Startup_ends(p) \/ P!Exit(p) \/ P!Remove(p) \/ P!Clear(p)
                    \/ P!Terminated(p) \/ P!Interrupted(p) \/ P!Faults(p) \/ P!Killed(p)
             PROVE  ProcessesInv'
  BY ProcessesUntouched DEF P!Next, P!vars
<1> USE DEF Inactive, MovesOn
<1>1. CASE P!Step_fails(p) \/ P!Startup_ends(p)
  <2>1. MovesOn(p, "exiting") /\ phase[p] \notin Inactive
    BY <1>1 DEF P!Step_fails, P!Startup_ends
  <2> QED
    BY <2>1, FilesKept
<1>2. CASE P!Exit(p)
  <2>1. MovesOn(p, IF handled[p] THEN "cleaning" ELSE "exited") /\ phase[p] \notin Inactive
    BY <1>2 DEF P!Exit
  <2> QED
    BY <2>1, FilesKept
<1>3. CASE P!Terminated(p)
  <2>1. MovesOn(p, IF handled[p] THEN "cleaning" ELSE "killed") /\ phase[p] \notin Inactive
    BY <1>3 DEF P!Terminated
  <2> QED
    BY <2>1, FilesKept
<1>4. CASE P!Interrupted(p) /\ ~handled[p]
  <2>1. MovesOn(p, "killed") /\ phase[p] \notin Inactive
    BY <1>4 DEF P!Interrupted
  <2> QED
    BY <2>1, FilesKept
<1>5. CASE P!Interrupted(p) /\ handled[p]
  BY <1>5, ProcessesUntouched DEF P!Interrupted
<1>6. CASE P!Faults(p)
  <2>1. MovesOn(p, "spinning") /\ phase[p] = "working"
    BY <1>6 DEF P!Faults
  <2> QED
    BY <2>1, FilesKept
<1>7. CASE P!Killed(p)
  <2>1. MovesOn(p, "killed") /\ phase[p] \notin Inactive
    BY <1>7 DEF P!Killed
  <2> QED
    BY <2>1, FilesKept
<1>8. CASE P!Callback_throws(p)
  BY <1>8, ProcessesUntouched DEF P!Callback_throws
<1> QED
  BY <1>1, <1>2, <1>3, <1>4, <1>5, <1>6, <1>7, <1>8,
     ProcessStarted, ProcessStep, FileRemoved, FileForgotten

LEMMA ProcessesStep == [ServersNext]_serversVars => [P!Next]_(P!vars)
BY DEF ServersNext, serversVars, processesVars, P!vars

\* The PID file is that of the process that works, and a process that has exited with its
\* handlers set has left none, whatever signals it got (os::proc), if the program is not
\* started while it runs.
THEOREM PidFileAlwaysKept ==
  ASSUME ~Rivals
  PROVE  ServersSpec => []PidFileKept
<1>1. ServersInit => ProcessesInv
  BY ProcessesInit DEF ServersInit
<1>2. ProcessesInv /\ [ServersNext]_serversVars => ProcessesInv'
  BY ProcessesNext, ProcessesStep
<1>3. ProcessesInv => PidFileKept
  <2> SUFFICES ASSUME ProcessesInv
               PROVE  PidFileKept
    OBVIOUS
  <2>1. DOMAIN files = PidPlaces
    BY DEF ProcessesInv, ProcessesTypes
  <2> QED
    BY <2>1 DEF ProcessesInv, ProcessInv, Named, Misled, PidFileKept, P!PidFileKept
<1> QED
  BY <1>1, <1>2, <1>3, PTL DEF ServersSpec

-----------------------------------------------------------------------------
(* WebSockets.                                                             *)

\* None of the uses that UsageKind lists.
PlainUse == Usage \cap W!UsageKind = {}

Distinct(s) == \A i, j \in DOMAIN s : s[i] = s[j] => i = j

WebSocketsTypes ==
  /\ exchange \in [Peer -> {"absent", "new", "pending", "sent", "ended", "open", "closed"}]
  /\ rep \in [Peer -> BOOLEAN] /\ abortHandler \in [Peer -> BOOLEAN]
  /\ conn \in [Peer -> BOOLEAN] /\ caller \in [Peer -> {"out", "checked"}]
  /\ closings \in [Peer -> Nat]
  /\ connections_ \in Seq(Peer) /\ position \in Nat \ {0}
  /\ sweep \in {"none", "close", "visit"}

\* A connection is represented while it is open, and closed once.
Represented ==
  \A p \in Peer :
    /\ conn[p] <=> exchange[p] = "open"
    /\ closings[p] = IF exchange[p] = "closed" THEN 1 ELSE 0
    /\ caller[p] = "checked" => conn[p]

\* An Http_io is valid while its exchange is pending, or its end has been told otherwise.
ValidPending ==
  \A p \in Peer :
    /\ rep[p] => \/ exchange[p] \in {"pending", "sent"}
                 \/ exchange[p] \in {"open", "closed"} /\ ~abortHandler[p]
    /\ exchange[p] = "pending" => rep[p] /\ abortHandler[p]

\* What is left of connections_ for the iteration that closes them.
Left == {connections_[i] : i \in position..Len(connections_)}

OpenListed ==
  /\ Distinct(connections_)
  /\ W!Open = IF sweep = "close" THEN Left ELSE W!ToSet(connections_)

WebSocketsInv ==
  /\ WebSocketsTypes
  /\ ill \in SUBSET {"thrown", "written"}
  /\ Represented
  /\ W!Runs => ValidPending
  /\ OpenListed

LEMMA WebSocketsInit == W!Init => WebSocketsInv
BY DEF W!Init, WebSocketsInv, WebSocketsTypes, Represented, ValidPending, OpenListed, Left,
       Distinct, W!Open, W!ToSet, W!Runs

\* The instance's Cardinality is that of FiniteSets.
LEMMA SameCardinality ==
  ASSUME NEW S
  PROVE  W!Cardinality(S) = Cardinality(S)
BY DEF W!Cardinality, Cardinality

\* Erasing elements of a sequence of distinct ones.
LEMMA Erased ==
  ASSUME NEW S, NEW s \in Seq(S), Distinct(s), NEW set, NEW t \in W!Without(s, set)
  PROVE  /\ t \in Seq(S) /\ Distinct(t)
         /\ W!ToSet(t) = W!ToSet(s) \ set
<1> DEFINE kept == {i \in DOMAIN s : s[i] \notin set}
<1> DEFINE n == Cardinality(kept)
<1>1. DOMAIN s = 1..Len(s) /\ Len(s) \in Nat /\ IsFiniteSet(1..Len(s))
  BY FS_Interval
<1>2. IsFiniteSet(kept)
  BY <1>1, FS_Subset
<1>3. n \in Nat
  BY <1>2, FS_CardinalityType
<1>4. PICK f \in [1..n -> kept] :
        /\ \A i, j \in DOMAIN f : i < j => f[i] < f[j]
        /\ t = [i \in DOMAIN f |-> s[f[i]]]
  <2> DEFINE orders == {f \in [1..n -> kept] : \A i, j \in DOMAIN f : i < j => f[i] < f[j]}
  <2>1. W!Without(s, set) = {[i \in DOMAIN f |-> s[f[i]]] : f \in orders}
    BY SameCardinality DEF W!Without
  <2>2. PICK f \in orders : t = [i \in DOMAIN f |-> s[f[i]]]
    BY <2>1
  <2> QED
    BY <2>2
<1>5. kept \subseteq Int
  BY <1>1
<1>6. ASSUME NEW i \in 1..n, NEW j \in 1..n, f[i] = f[j]
      PROVE  i = j
  <2>1. f[i] \in Int /\ f[j] \in Int
    BY <1>4, <1>5
  <2>2. (i < j => f[i] < f[j]) /\ (j < i => f[j] < f[i])
    BY <1>4
  <2> QED
    BY <1>3, <1>6, <2>1, <2>2
<1>7. f \in Injection(1..n, kept)
  BY <1>4, <1>6 DEF Injection, IsInjective
<1>8. Cardinality(1..n) = n
  BY <1>3, FS_Interval
<1>9. \A k \in kept : \E i \in 1..n : f[i] = k
  <2>1. f \in Surjection(1..n, kept)
    BY <1>2, <1>7, <1>8, FS_Injection
  <2> QED
    BY <2>1 DEF Surjection
<1> HIDE DEF n
<1>10. DOMAIN t = 1..n /\ \A i \in 1..n : t[i] = s[f[i]] /\ f[i] \in DOMAIN s /\ t[i] \notin set
  BY <1>4
<1>11. t \in Seq(S)
  <2>1. t \in [1..n -> S]
    BY <1>1, <1>4, <1>10
  <2> QED
    BY <1>3, <2>1
<1>12. Distinct(t)
  BY <1>6, <1>10 DEF Distinct
<1>13. W!ToSet(t) = W!ToSet(s) \ set
  BY <1>9, <1>10 DEF W!ToSet
<1> QED
  BY <1>11, <1>12, <1>13

\* A step of an exchange that opens or closes no connection.
LEMMA ExchangeMoves ==
  ASSUME WebSocketsInv, NEW p \in Peer, exchange[p] \notin {"open", "closed"},
         NEW next \in {"absent", "new", "pending", "sent", "ended"},
         exchange' = [exchange EXCEPT ![p] = next],
         UNCHANGED <<conn, connections_, sweep, position, caller, closings>>
  PROVE  Represented' /\ OpenListed'
<1>1. W!Open' = W!Open
  BY DEF W!Open, WebSocketsInv, WebSocketsTypes
<1>2. Represented'
  BY DEF WebSocketsInv, WebSocketsTypes, Represented
<1> QED
  BY <1>1, <1>2 DEF WebSocketsInv, OpenListed, Left

\* The connection of a peer is opened.
LEMMA ExchangeOpens ==
  ASSUME WebSocketsInv, NEW p \in Peer, exchange[p] \in {"new", "pending"}, sweep = "none",
         W!Opened(p), UNCHANGED <<sweep, position, caller, closings>>
  PROVE  Represented' /\ OpenListed' /\ connections_' \in Seq(Peer) /\ conn' \in [Peer -> BOOLEAN]
<1> DEFINE n == Len(connections_)
<1>1. /\ exchange' = [exchange EXCEPT ![p] = "open"]
      /\ conn' = [conn EXCEPT ![p] = TRUE]
      /\ connections_' = Append(connections_, p)
  BY DEF W!Opened
<1>2. connections_ \in Seq(Peer) /\ n \in Nat /\ DOMAIN connections_ = 1..n
  BY DEF WebSocketsInv, WebSocketsTypes
<1>3. /\ connections_' \in Seq(Peer) /\ DOMAIN connections_' = 1..(n + 1)
      /\ connections_'[n + 1] = p
      /\ \A i \in 1..n : connections_'[i] = connections_[i]
  BY <1>1, <1>2
<1>4. W!Open' = W!Open \union {p} /\ p \notin W!Open
  BY <1>1 DEF W!Open, WebSocketsInv, WebSocketsTypes
<1>5. W!Open = W!ToSet(connections_)
  BY DEF WebSocketsInv, OpenListed
<1>6. \A i \in 1..n : connections_[i] # p
  BY <1>2, <1>4, <1>5 DEF W!ToSet
<1>7. Distinct(connections_')
  BY <1>2, <1>3, <1>6 DEF WebSocketsInv, OpenListed, Distinct
<1>8. W!ToSet(connections_') = W!ToSet(connections_) \union {p}
  BY <1>2, <1>3 DEF W!ToSet
<1>9. OpenListed'
  BY <1>4, <1>5, <1>7, <1>8 DEF OpenListed
<1>10. Represented' /\ conn' \in [Peer -> BOOLEAN]
  BY <1>1 DEF WebSocketsInv, WebSocketsTypes, Represented
<1> QED
  BY <1>3, <1>9, <1>10

LEMMA PeerConnects ==
  ASSUME WebSocketsInv, NEW p \in Peer, W!Connect(p)
  PROVE  WebSocketsInv'
<1>1. Represented' /\ OpenListed'
  BY ExchangeMoves DEF W!Connect, W!loop
<1> QED
  BY <1>1 DEF W!Connect, W!Idle, W!loop, WebSocketsInv, WebSocketsTypes, ValidPending

LEMMA PeerUpgrades ==
  ASSUME WebSocketsInv, NEW p \in Peer, W!Upgrade(p)
  PROVE  WebSocketsInv'
<1>1. PICK made \in BOOLEAN, valid \in BOOLEAN, aborts \in BOOLEAN, responds \in BOOLEAN :
       /\ abortHandler' = [abortHandler EXCEPT ![p] = aborts]
       /\ rep' = [rep EXCEPT ![p] = valid /\ (made \/ aborts)]
       /\ IF made /\ ~(valid /\ (aborts \/ ~responds))
          THEN /\ ill' = ill \union {"thrown"}
               /\ UNCHANGED <<exchange, holder, conn, connections_>>
          ELSE /\ IF made /\ ~aborts
                  THEN W!Opened(p)
                  ELSE /\ exchange' = [exchange EXCEPT ![p] =
                            IF valid /\ aborts THEN "pending" ELSE "ended"]
                       /\ UNCHANGED <<conn, connections_>>
               /\ UNCHANGED ill
  BY DEF W!Upgrade
<1>2. /\ exchange[p] = "new" /\ W!Runs /\ sweep = "none"
      /\ UNCHANGED <<listens, sweep, position, deferred, caller, closings>>
  BY DEF W!Upgrade, W!Idle
<1>3. rep' \in [Peer -> BOOLEAN] /\ abortHandler' \in [Peer -> BOOLEAN]
  BY <1>1 DEF WebSocketsInv, WebSocketsTypes
<1>4. CASE made /\ ~(valid /\ (aborts \/ ~responds))
  <2>1. ill' = ill \union {"thrown"} /\ UNCHANGED <<exchange, conn, connections_>>
    BY <1>1, <1>4
  <2>2. WebSocketsTypes' /\ Represented'
    BY <1>2, <1>3, <2>1 DEF WebSocketsInv, WebSocketsTypes, Represented
  <2>3. OpenListed'
    BY <1>2, <2>1 DEF WebSocketsInv, OpenListed, Left, W!Open
  <2>4. ill' \in SUBSET {"thrown", "written"} /\ ~W!Runs'
    BY <2>1 DEF WebSocketsInv, W!Runs
  <2> QED
    BY <2>2, <2>3, <2>4 DEF WebSocketsInv
<1>5. CASE ~(made /\ ~(valid /\ (aborts \/ ~responds))) /\ made /\ ~aborts
  <2>1. W!Opened(p) /\ UNCHANGED ill
    BY <1>1, <1>5
  <2>2. Represented' /\ OpenListed' /\ connections_' \in Seq(Peer) /\ conn' \in [Peer -> BOOLEAN]
    BY <1>2, <2>1, ExchangeOpens
  <2>3. exchange' = [exchange EXCEPT ![p] = "open"]
    BY <2>1 DEF W!Opened
  <2>4. WebSocketsTypes'
    BY <1>2, <1>3, <2>2, <2>3 DEF WebSocketsInv, WebSocketsTypes
  <2>5. ValidPending'
    BY <1>1, <1>2, <1>5, <2>3 DEF WebSocketsInv, WebSocketsTypes, ValidPending
  <2> QED
    BY <1>2, <2>1, <2>2, <2>4, <2>5 DEF WebSocketsInv
<1>6. CASE ~(made /\ ~(valid /\ (aborts \/ ~responds))) /\ ~(made /\ ~aborts)
  <2>1. /\ exchange' = [exchange EXCEPT ![p] = IF valid /\ aborts THEN "pending" ELSE "ended"]
        /\ UNCHANGED <<conn, connections_, ill>>
    BY <1>1, <1>6
  <2>2. Represented' /\ OpenListed'
    BY <1>2, <2>1, ExchangeMoves
  <2>3. WebSocketsTypes'
    BY <1>2, <1>3, <2>1 DEF WebSocketsInv, WebSocketsTypes
  <2>4. ValidPending'
    BY <1>1, <1>2, <1>6, <2>1 DEF WebSocketsInv, WebSocketsTypes, ValidPending
  <2> QED
    BY <1>2, <2>1, <2>2, <2>3, <2>4 DEF WebSocketsInv
<1> QED
  BY <1>4, <1>5, <1>6

LEMMA PeerRequests ==
  ASSUME WebSocketsInv, NEW p \in Peer, W!Request(p)
  PROVE  WebSocketsInv'
<1>1. PICK keeps \in BOOLEAN :
        /\ abortHandler' = [abortHandler EXCEPT ![p] = keeps]
        /\ rep' = [rep EXCEPT ![p] = keeps]
        /\ exchange' = [exchange EXCEPT ![p] = IF keeps THEN "pending" ELSE "ended"]
  BY DEF W!Request
<1>2. exchange[p] = "new" /\ W!Runs /\ UNCHANGED <<conn, W!loop, caller, closings, ill>>
  BY DEF W!Request, W!Idle
<1>3. Represented' /\ OpenListed'
  BY <1>1, <1>2, ExchangeMoves DEF W!loop
<1> QED
  BY <1>1, <1>2, <1>3 DEF W!loop, WebSocketsInv, WebSocketsTypes, ValidPending

\* A valid Http_io is one of a pending exchange.
LEMMA UsablePending ==
  ASSUME WebSocketsInv, PlainUse, NEW p \in Peer, W!Usable(p)
  PROVE  exchange[p] = "pending" /\ sweep = "none" /\ W!Runs
BY DEF W!Usable, W!Idle, WebSocketsInv, ValidPending, PlainUse, W!UsageKind

LEMMA HandshakeEnds ==
  ASSUME WebSocketsInv, PlainUse, NEW p \in Peer, W!End_handshake(p)
  PROVE  WebSocketsInv'
<1>1. exchange[p] = "pending" /\ sweep = "none" /\ W!Runs
  BY UsablePending DEF W!End_handshake
<1>2. /\ rep' = [rep EXCEPT ![p] = FALSE] /\ W!Opened(p) /\ UNCHANGED ill
      /\ UNCHANGED <<abortHandler, sweep, position, caller, closings>>
  BY <1>1 DEF W!End_handshake
<1>3. Represented' /\ OpenListed' /\ connections_' \in Seq(Peer) /\ conn' \in [Peer -> BOOLEAN]
  BY <1>1, <1>2, ExchangeOpens
<1>4. exchange' = [exchange EXCEPT ![p] = "open"]
  BY <1>2 DEF W!Opened
<1>5. WebSocketsTypes'
  BY <1>2, <1>3, <1>4 DEF WebSocketsInv, WebSocketsTypes
<1>6. ValidPending'
  BY <1>1, <1>2, <1>4 DEF WebSocketsInv, WebSocketsTypes, ValidPending
<1> QED
  BY <1>1, <1>2, <1>3, <1>5, <1>6 DEF WebSocketsInv

\* A response goes on, is sent or has ended.
LEMMA ResponseMoves ==
  ASSUME WebSocketsInv, NEW p \in Peer, exchange[p] = "pending", W!Runs,
         NEW next \in {"pending", "sent", "ended"}, NEW valid \in BOOLEAN,
         next = "pending" => valid, valid => next # "ended",
         rep' = [rep EXCEPT ![p] = valid], exchange' = [exchange EXCEPT ![p] = next],
         UNCHANGED <<abortHandler, conn, connections_, sweep, position, caller, closings, ill>>
  PROVE  WebSocketsInv'
<1>1. Represented' /\ OpenListed'
  BY ExchangeMoves
<1>2. WebSocketsTypes'
  BY DEF WebSocketsInv, WebSocketsTypes
<1>3. ValidPending'
  <2> SUFFICES ASSUME NEW q \in Peer
               PROVE  /\ rep'[q] => \/ exchange'[q] \in {"pending", "sent"}
                                    \/ exchange'[q] \in {"open", "closed"} /\ ~abortHandler'[q]
                      /\ exchange'[q] = "pending" => rep'[q] /\ abortHandler'[q]
    BY DEF ValidPending
  <2>0. /\ rep[q] => \/ exchange[q] \in {"pending", "sent"}
                     \/ exchange[q] \in {"open", "closed"} /\ ~abortHandler[q]
        /\ exchange[q] = "pending" => rep[q] /\ abortHandler[q]
    BY DEF WebSocketsInv, ValidPending
  <2>1. CASE q # p
    <3>1. rep'[q] = rep[q] /\ exchange'[q] = exchange[q] /\ abortHandler'[q] = abortHandler[q]
      BY <2>1 DEF WebSocketsInv, WebSocketsTypes
    <3> QED
      BY <2>0, <3>1
  <2>2. CASE q = p
    <3>1. (rep'[p] <=> valid) /\ exchange'[p] = next /\ abortHandler'[p] = abortHandler[p]
      BY DEF WebSocketsInv, WebSocketsTypes
    <3>2. CASE next = "pending"
      BY <2>0, <2>2, <3>1, <3>2
    <3>3. CASE next # "pending"
      BY <2>2, <3>1, <3>3
    <3> QED
      BY <3>2, <3>3
  <2> QED
    BY <2>1, <2>2
<1> QED
  BY <1>1, <1>2, <1>3 DEF WebSocketsInv

LEMMA ResponseEnds ==
  ASSUME WebSocketsInv, PlainUse, NEW p \in Peer,
         W!End(p) \/ W!Send_data(p) \/ W!Respond(p) \/ W!Abort(p)
  PROVE  WebSocketsInv'
<1>1. exchange[p] = "pending" /\ W!Runs
  BY UsablePending DEF W!End, W!Send_data, W!Respond, W!Abort, W!Idle
<1>2. rep[p] /\ rep \in [Peer -> BOOLEAN]
  BY <1>1 DEF WebSocketsInv, WebSocketsTypes, ValidPending
<1>3. UNCHANGED <<abortHandler, conn, connections_, sweep, position, caller, closings, ill>>
  BY <1>1, <1>2 DEF W!End, W!Send_data, W!Respond, W!Abort, W!loop
<1>4. CASE W!End(p) \/ W!Abort(p)
  <2>1. rep' = [rep EXCEPT ![p] = FALSE] /\ exchange' = [exchange EXCEPT ![p] = "ended"]
    BY <1>4 DEF W!End, W!Abort
  <2> QED
    BY <1>1, <1>3, <2>1, ResponseMoves
<1>5. CASE W!Send_data(p)
  <2>1. rep' = [rep EXCEPT ![p] = TRUE] /\ exchange' = [exchange EXCEPT ![p] = "sent"]
    BY <1>2, <1>5 DEF W!Send_data
  <2> QED
    BY <1>1, <1>3, <2>1, ResponseMoves
<1>6. CASE W!Respond(p)
  <2>1. PICK done \in BOOLEAN, ok \in BOOLEAN :
          /\ ok => done
          /\ rep' = [rep EXCEPT ![p] = rep[p] /\ ~ok]
          /\ exchange' = [exchange EXCEPT ![p] =
               IF done THEN IF ok THEN "ended" ELSE "sent" ELSE "pending"]
    BY <1>6 DEF W!Respond, PlainUse, W!UsageKind
  <2>2. rep' = [rep EXCEPT ![p] = ~ok]
    BY <1>2, <2>1
  <2> QED
    BY <1>1, <1>3, <2>1, <2>2, ResponseMoves
<1> QED
  BY <1>4, <1>5, <1>6

\* Connections are closed, whatever becomes of connections_.
LEMMA RepresentationsFreed ==
  ASSUME WebSocketsInv, W!Runs, NEW set \in SUBSET W!Open, W!Closed(set),
         UNCHANGED <<rep, abortHandler, caller>>
  PROVE  /\ exchange' \in [Peer -> {"absent", "new", "pending", "sent", "ended", "open", "closed"}]
         /\ conn' \in [Peer -> BOOLEAN] /\ closings' \in [Peer -> Nat]
         /\ Represented' /\ ValidPending' /\ W!Open' = W!Open \ set
<1>1. \A p \in set : exchange[p] = "open" /\ p \in Peer /\ caller[p] # "checked"
  BY DEF W!Open, W!Closed
<1>2. /\ exchange' = [p \in Peer |-> IF p \in set THEN "closed" ELSE exchange[p]]
      /\ conn' = [p \in Peer |-> conn[p] /\ p \notin set]
      /\ closings' = [p \in Peer |-> closings[p] + IF p \in set THEN 1 ELSE 0]
  BY DEF W!Closed
<1>3. closings' \in [Peer -> Nat]
  BY <1>2 DEF WebSocketsInv, WebSocketsTypes
<1>4. exchange' \in [Peer -> {"absent", "new", "pending", "sent", "ended", "open", "closed"}]
  BY <1>2 DEF WebSocketsInv, WebSocketsTypes
<1>5. Represented'
  <2> SUFFICES ASSUME NEW p \in Peer
               PROVE  /\ conn'[p] <=> exchange'[p] = "open"
                      /\ closings'[p] = IF exchange'[p] = "closed" THEN 1 ELSE 0
                      /\ caller'[p] = "checked" => conn'[p]
    BY DEF Represented
  <2>1. /\ conn[p] <=> exchange[p] = "open"
        /\ closings[p] = IF exchange[p] = "closed" THEN 1 ELSE 0
        /\ caller[p] = "checked" => conn[p]
    BY DEF WebSocketsInv, Represented
  <2>2. /\ exchange'[p] = IF p \in set THEN "closed" ELSE exchange[p]
        /\ conn'[p] = (conn[p] /\ p \notin set)
        /\ closings'[p] = closings[p] + IF p \in set THEN 1 ELSE 0
        /\ caller'[p] = caller[p] /\ closings[p] \in Nat
    BY <1>2 DEF WebSocketsInv, WebSocketsTypes
  <2>3. p \in set => exchange[p] = "open" /\ caller[p] # "checked"
    BY <1>1
  <2>4. closings'[p] = IF exchange'[p] = "closed" THEN 1 ELSE 0
    BY <2>1, <2>2, <2>3
  <2>5. conn'[p] <=> exchange'[p] = "open"
    BY <2>1, <2>2, <2>3
  <2>6. caller'[p] = "checked" => conn'[p]
    BY <2>1, <2>2, <2>3
  <2> QED
    BY <2>4, <2>5, <2>6
<1>6. ValidPending'
  BY <1>1, <1>2 DEF WebSocketsInv, WebSocketsTypes, ValidPending
<1>7. W!Open' = W!Open \ set
  BY <1>2 DEF W!Open
<1> QED
  BY <1>2, <1>3, <1>4, <1>5, <1>6, <1>7

LEMMA ConnectionCloses ==
  ASSUME WebSocketsInv, PlainUse, NEW p \in Peer, W!Close(p)
  PROVE  WebSocketsInv'
<1>1. PICK others \in SUBSET (W!Open \ {p}) : W!Closed({p} \union others)
  BY DEF W!Close
<1> DEFINE set == {p} \union others
<1>2. /\ W!Runs /\ ill' \in {ill, W!Written} /\ sweep = "none" /\ set \in SUBSET W!Open
      /\ UNCHANGED <<rep, abortHandler, sweep, position, caller>>
  BY DEF W!Close, W!Idle, PlainUse, W!UsageKind
<1> HIDE DEF set
<1>3. W!Closed(set)
  BY <1>1 DEF set
<1>4. /\ exchange' \in [Peer -> {"absent", "new", "pending", "sent", "ended", "open", "closed"}]
      /\ conn' \in [Peer -> BOOLEAN] /\ closings' \in [Peer -> Nat]
      /\ Represented' /\ ValidPending' /\ W!Open' = W!Open \ set
  BY <1>2, <1>3, RepresentationsFreed
<1>5. connections_' \in W!Without(connections_, set)
  BY <1>2, <1>3 DEF W!Closed
<1>6. /\ connections_' \in Seq(Peer) /\ Distinct(connections_')
      /\ W!ToSet(connections_') = W!ToSet(connections_) \ set
  BY <1>5, Erased DEF WebSocketsInv, WebSocketsTypes, OpenListed
<1>7. OpenListed'
  BY <1>2, <1>4, <1>6 DEF WebSocketsInv, OpenListed
<1>8. WebSocketsTypes'
  BY <1>2, <1>4, <1>6 DEF WebSocketsInv, WebSocketsTypes
<1>9. ill' \in SUBSET {"thrown", "written"}
  BY <1>2 DEF WebSocketsInv, W!Written
<1> QED
  BY <1>4, <1>7, <1>8, <1>9 DEF WebSocketsInv

\* The iteration of close_connections() closes the connection at its position.
LEMMA IterationCloses ==
  ASSUME WebSocketsInv, PlainUse, W!Close_next
  PROVE  WebSocketsInv'
<1> DEFINE n == Len(connections_)
<1> DEFINE p == connections_[position]
<1>1. /\ sweep = "close" /\ W!Runs /\ position \in 1..n /\ DOMAIN connections_ = 1..n /\ n \in Nat
      /\ connections_ \in Seq(Peer)
      /\ position' = position + 1 /\ UNCHANGED <<rep, abortHandler, sweep, caller>>
  BY DEF W!Close_next, WebSocketsInv, WebSocketsTypes
<1>2. p \in W!Open /\ p \in Peer /\ conn[p]
  <2>1. p \in Left
    BY <1>1 DEF Left
  <2> QED
    BY <1>1, <2>1 DEF WebSocketsInv, OpenListed, W!Open, Represented
<1>3. W!Closed({p}) /\ ill' = W!Written
  <2>1. PICK others \in SUBSET (W!Open \ {p}) :
          /\ others # {} => "close_in_close" \in Usage
          /\ W!Closed({p} \union others)
    BY <1>2 DEF W!Close_next
  <2>2. {p} \union others = {p}
    BY <2>1 DEF PlainUse, W!UsageKind
  <2> QED
    BY <1>1, <1>2, <2>1, <2>2 DEF W!Close_next
<1>4. /\ exchange' \in [Peer -> {"absent", "new", "pending", "sent", "ended", "open", "closed"}]
      /\ conn' \in [Peer -> BOOLEAN] /\ closings' \in [Peer -> Nat]
      /\ Represented' /\ ValidPending' /\ W!Open' = W!Open \ {p}
  BY <1>1, <1>2, <1>3, RepresentationsFreed
<1>5. connections_' = connections_
  BY <1>1, <1>3 DEF W!Closed
<1>6. Left' = Left \ {p}
  <2>1. Left' = {connections_[i] : i \in (position + 1)..n}
    BY <1>1, <1>5 DEF Left
  <2>2. \A i \in position..n : i \in DOMAIN connections_ /\ (connections_[i] = p => i = position)
    BY <1>1 DEF WebSocketsInv, OpenListed, Distinct
  <2>3. \A i \in position..n : i = position \/ i \in (position + 1)..n
    BY <1>1
  <2>4. \A i \in (position + 1)..n : i \in position..n /\ i # position
    BY <1>1
  <2> QED
    BY <2>1, <2>2, <2>3, <2>4 DEF Left
<1>7. OpenListed'
  BY <1>1, <1>4, <1>5, <1>6 DEF WebSocketsInv, OpenListed
<1>8. WebSocketsTypes'
  BY <1>1, <1>4, <1>5 DEF WebSocketsInv, WebSocketsTypes
<1>9. ill' \in SUBSET {"thrown", "written"}
  BY <1>3 DEF WebSocketsInv, W!Written
<1> QED
  BY <1>4, <1>7, <1>8, <1>9 DEF WebSocketsInv

LEMMA CallDeferred ==
  ASSUME WebSocketsInv, NEW p \in Peer, W!Call_soon_check(p) \/ W!Call_soon_defer(p)
  PROVE  WebSocketsInv'
<1>1. /\ UNCHANGED <<exchange, rep, abortHandler, conn, connections_, sweep, position, closings,
                     ill>>
      /\ \E to \in {"out", "checked"} :
           caller' = [caller EXCEPT ![p] = to] /\ (to = "checked" => conn[p])
  BY DEF W!Call_soon_check, W!Call_soon_defer, W!http, W!loop, WebSocketsInv, Represented
<1>2. WebSocketsTypes'
  BY <1>1 DEF WebSocketsInv, WebSocketsTypes
<1>3. Represented'
  BY <1>1 DEF WebSocketsInv, WebSocketsTypes, Represented
<1>4. (ValidPending' <=> ValidPending) /\ (OpenListed' <=> OpenListed) /\ (W!Runs' <=> W!Runs)
  BY <1>1 DEF ValidPending, OpenListed, Left, W!Open, W!Runs
<1> QED
  BY <1>1, <1>2, <1>3, <1>4 DEF WebSocketsInv

\* The iteration over connections_ begins, visits the next one, or ends.
LEMMA IterationMoves ==
  ASSUME WebSocketsInv, PlainUse, W!Run_deferred \/ W!Visit_next \/ W!Sweep_end
  PROVE  WebSocketsInv'
<1> DEFINE n == Len(connections_)
<1>1. /\ UNCHANGED <<exchange, rep, abortHandler, conn, caller, closings, ill>> /\ W!Runs
      /\ position' \in Nat \ {0} /\ sweep' \in {"none", "close", "visit"}
  BY DEF W!Run_deferred, W!Visit_next, W!Sweep_end, W!Idle, W!http, PlainUse, W!UsageKind,
         WebSocketsInv, WebSocketsTypes
<1>2. connections_ \in Seq(Peer) /\ n \in Nat /\ DOMAIN connections_ = 1..n
  BY DEF WebSocketsInv, WebSocketsTypes
<1>3. W!Open' = W!Open
  BY <1>1 DEF W!Open
<1>4. CASE W!Run_deferred
  <2>1. UNCHANGED connections_ /\ position' = 1 /\ sweep = "none"
    BY <1>4 DEF W!Run_deferred, W!Idle
  <2>2. Left' = W!ToSet(connections_)
    BY <1>2, <2>1 DEF Left, W!ToSet
  <2> QED
    BY <1>1, <1>3, <2>1, <2>2
    DEF WebSocketsInv, WebSocketsTypes, Represented, ValidPending, OpenListed
<1>5. CASE W!Visit_next
  <2>1. UNCHANGED <<connections_, sweep>> /\ sweep = "visit"
    BY <1>5 DEF W!Visit_next
  <2> QED
    BY <1>1, <1>3, <2>1
    DEF WebSocketsInv, WebSocketsTypes, Represented, ValidPending, OpenListed
<1>6. CASE W!Sweep_end /\ sweep = "close"
  <2>1. connections_' = <<>> /\ sweep' = "none" /\ position > n
    BY <1>6 DEF W!Sweep_end
  <2>2. Left = {}
    BY <1>2, <2>1 DEF Left, WebSocketsInv, WebSocketsTypes
  <2>3. W!ToSet(connections_)' = {} /\ Distinct(connections_)' /\ connections_' \in Seq(Peer)
    BY <2>1 DEF W!ToSet, Distinct
  <2> QED
    BY <1>1, <1>3, <1>6, <2>1, <2>2, <2>3
    DEF WebSocketsInv, WebSocketsTypes, Represented, ValidPending, OpenListed
<1>7. CASE W!Sweep_end /\ sweep # "close"
  <2>1. UNCHANGED connections_ /\ sweep' = "none"
    BY <1>7 DEF W!Sweep_end
  <2> QED
    BY <1>1, <1>3, <1>7, <2>1
    DEF WebSocketsInv, WebSocketsTypes, Represented, ValidPending, OpenListed
<1> QED
  BY <1>4, <1>5, <1>6, <1>7

LEMMA WebSocketsUntouched ==
  ASSUME WebSocketsInv,
         UNCHANGED <<exchange, rep, abortHandler, conn, connections_, sweep, position, caller,
                     closings, ill>>
  PROVE  WebSocketsInv'
BY DEF WebSocketsInv, WebSocketsTypes, Represented, ValidPending, OpenListed, Left, W!Open, W!Runs

LEMMA WebSocketsNext ==
  ASSUME WebSocketsInv, PlainUse, [W!Next]_(W!vars)
  PROVE  WebSocketsInv'
<1>1. CASE \E what \in {"close", "close_connections", "for_each"} : W!Ask(what)
  BY <1>1, WebSocketsUntouched DEF W!Ask, W!http
<1>2. CASE UNCHANGED W!vars
  BY <1>2, WebSocketsUntouched DEF W!vars, W!http, W!loop
<1>3. CASE \E p \in Peer :
        \/ W!Connect(p) \/ W!Upgrade(p) \/ W!Request(p) \/ W!End_handshake(p) \/ W!End(p)
        \/ W!Send_data(p) \/ W!Respond(p) \/ W!Abort(p) \/ W!Close(p) \/ W!Call_soon_check(p) \/ W!Call_soon_defer(p)
  BY <1>3, PeerConnects, PeerUpgrades, PeerRequests, HandshakeEnds, ResponseEnds,
     ConnectionCloses, CallDeferred
<1>4. CASE W!Run_deferred \/ W!Close_next \/ W!Visit_next \/ W!Sweep_end
  BY <1>4, IterationMoves, IterationCloses
<1> QED
  BY <1>1, <1>2, <1>3, <1>4 DEF W!Next

LEMMA WebSocketsStep == [ServersNext]_serversVars => [W!Next]_(W!vars)
BY DEF ServersNext, serversVars, webSocketsVars, W!vars, W!http, W!loop

LEMMA WebSocketsInvariant ==
  ASSUME PlainUse
  PROVE  ServersSpec => []WebSocketsInv
<1>1. ServersInit => WebSocketsInv
  BY WebSocketsInit DEF ServersInit
<1>2. WebSocketsInv /\ [ServersNext]_serversVars => WebSocketsInv'
  BY WebSocketsNext, WebSocketsStep
<1> QED
  BY <1>1, <1>2, PTL DEF ServersSpec

\* connections_ has the open connections, each once, whatever handlers close and wherever
\* the iteration of close_connections() is, and handle_close() is called once for each that
\* is closed (listener.cpp:201-229, 305-322).
THEOREM ConnectionsAlwaysLive ==
  ASSUME PlainUse
  PROVE  ServersSpec => []ConnectionsLive
<1>1. WebSocketsInv => ConnectionsLive
  <2> SUFFICES ASSUME WebSocketsInv
               PROVE  ConnectionsLive
    OBVIOUS
  <2> DEFINE n == Len(connections_)
  <2>1. n \in Nat /\ DOMAIN connections_ = 1..n
    BY DEF WebSocketsInv, WebSocketsTypes
  <2>2. ASSUME sweep # "close"
        PROVE  n = W!Cardinality(W!Open)
    <3>1. connections_ \in Bijection(1..n, W!Open)
      <4>1. connections_ \in [1..n -> W!Open]
        BY <2>1, <2>2 DEF WebSocketsInv, WebSocketsTypes, OpenListed, W!ToSet
      <4>2. \A p \in W!Open : \E i \in 1..n : connections_[i] = p
        BY <2>1, <2>2 DEF WebSocketsInv, OpenListed, W!ToSet
      <4>3. \A i, j \in 1..n : connections_[i] = connections_[j] => i = j
        BY <2>1 DEF WebSocketsInv, OpenListed, Distinct
      <4> QED
        BY <4>1, <4>2, <4>3 DEF Bijection, Injection, IsInjective, Surjection
    <3> QED
      BY <2>1, <3>1, FS_CountingElements, SameCardinality DEF ExistsBijection
  <2>3. \A p \in Peer : conn[p] <=> p \in W!Open
    BY DEF WebSocketsInv, Represented, W!Open
  <2> QED
    BY <2>2, <2>3
    DEF WebSocketsInv, Represented, OpenListed, Left, ConnectionsLive, W!ConnectionsLive
<1> QED
  BY <1>1, WebSocketsInvariant, PTL

\* No call reaches a response or a connection that is gone, but the end of close() and abort()
\* of a connection (connection.cpp:80-92): an Http_io is valid only while its exchange is
\* pending, whoever ends it, or its end has been told otherwise (http_io.cpp:64-127), and
\* another thread finds a connection under its mutex (connection.cpp:126-134).
THEOREM NothingEverDangling ==
  ASSUME PlainUse
  PROVE  ServersSpec => []NothingDangling
<1>1. WebSocketsInv => NothingDangling
  BY DEF WebSocketsInv, ValidPending, NothingDangling, W!NothingDangling
<1> QED
  BY <1>1, WebSocketsInvariant, PTL

-----------------------------------------------------------------------------
(* HTTP: one side's data are received by the other; the cells that were    *)
(* written and have not been taken from the descriptor are in flight.      *)

Sides == H!Sides
Calls == {"read_start", "parse_start", "read_rest", "read_headers", "parse_headers"}
Waits == {"read_content", "dismiss_read"}
Pcs == {"idle"} \union Calls \union Waits \union H!Ended

HTTPTypes ==
  /\ pc \in [Sides -> Pcs]
  /\ startSent \in [Sides -> BOOLEAN] /\ headersSent \in [Sides -> BOOLEAN]
  /\ unsent \in [Sides -> Nat] /\ announced \in [Sides -> Nat] /\ head \in [Sides -> Nat]
  /\ flight \in [Sides -> Nat]
  /\ headReceived \in [Sides -> BOOLEAN]
  /\ headSize \in [Sides -> Nat] /\ contentOffset \in [Sides -> Nat]
  /\ unreceived \in [Sides -> Nat] /\ size \in [Sides -> Nat] /\ delivered \in [Sides -> Nat]
  /\ splits \in [Sides -> BOOLEAN] /\ sparing \in [Sides -> BOOLEAN]

Written(o) == head[o] + announced[o] - unsent[o]

\* What a side has sent.
SentInv(o) ==
  /\ ~startSent[o] => head[o] = 0 /\ announced[o] = 0 /\ ~headersSent[o]
  /\ startSent[o] => head[o] >= 4
  /\ headersSent[o] => head[o] > 4
  /\ unsent[o] <= announced[o]
  /\ ~headersSent[o] => unsent[o] = announced[o]

\* The whole head of o is in head_ of s.
Whole(s, o) == headersSent[o] /\ headSize[s] >= head[o]

\* Before receive_head() has returned with the head.
HeadInv(s, o) ==
  /\ contentOffset[s] = headSize[s] /\ delivered[s] = 0 /\ unreceived[s] = 0
  /\ flight[o] + headSize[s] = Written(o)
  /\ pc[s] \notin Waits /\ pc[s] # "dismiss"
  /\ pc[s] = "read_start" => headSize[s] = 0
  /\ pc[s] = "read_rest" => splits[s]
  /\ pc[s] = "read_headers" => headSize[s] >= 4 /\ ~Whole(s, o)
  /\ pc[s] = "parse_headers" => headSize[s] >= 4
  /\ pc[s] = "idle" => ~Whole(s, o) \/ splits[s]
  /\ 0 < headSize[s] /\ headSize[s] < 4 => splits[s]

\* After it, when there were headers.
CountedInv(s, o) ==
  /\ headersSent[o]
  /\ head[o] <= contentOffset[s] /\ contentOffset[s] <= headSize[s]
  /\ flight[o] + unsent[o] + delivered[s] + (headSize[s] - contentOffset[s]) = announced[o]
  /\ headSize[s] - contentOffset[s] <= unreceived[s]
  /\ pc[s] \in Waits => contentOffset[s] = headSize[s]
  /\ ~sparing[s] /\ headSize[s] < MaxHead =>
       /\ delivered[s] + unreceived[s] = announced[o]
       /\ pc[s] \in Waits \union {"dismiss"} => unreceived[s] > 0 /\ contentOffset[s] = headSize[s]

ReceivedInv(s, o) ==
  /\ headSize[s] <= MaxHead
  /\ ~headReceived[s] => HeadInv(s, o)
  /\ headReceived[s] =>
       /\ pc[s] \notin Calls
       /\ headSize[s] <= 4 => unreceived[s] = 0 /\ pc[s] \notin Waits /\ pc[s] # "dismiss"
       /\ headSize[s] > 4 => CountedInv(s, o)

HTTPInv ==
  /\ HTTPTypes
  /\ \A s \in Sides : SentInv(s) /\ ReceivedInv(s, H!Other(s))

\* The side a side talks to.
LEMMA OtherSide ==
  ASSUME NEW s \in Sides
  PROVE  H!Other(s) \in Sides /\ H!Other(s) # s /\ H!Other(H!Other(s)) = s
         /\ \A q \in Sides : q = s \/ q = H!Other(s)
BY DEF Sides, H!Sides, H!Other

LEMMA HTTPInit == H!Init => HTTPInv
BY ServersAssumption, OtherSide
DEF ServersAssumption, H!Init, HTTPInv, HTTPTypes, SentInv, ReceivedInv, HeadInv, Written, Whole,
    Sides, Pcs, Calls, Waits

LEMMA LeastOfTwo ==
  ASSUME NEW a \in Nat, NEW b \in Nat
  PROVE  H!Min({a, b}) = IF a <= b THEN a ELSE b
<1>1. \A m \in {a, b} : (\A x \in {a, b} : m <= x) => m = IF a <= b THEN a ELSE b
  OBVIOUS
<1>2. \E m \in {a, b} : \A x \in {a, b} : m <= x
  OBVIOUS
<1> QED
  BY <1>1, <1>2 DEF H!Min

\* A step of one side leaves what the other has sent and what it receives by itself.
LEMMA SentFrame ==
  ASSUME NEW o, SentInv(o), startSent'[o] = startSent[o], headersSent'[o] = headersSent[o],
         unsent'[o] = unsent[o], announced'[o] = announced[o], head'[o] = head[o]
  PROVE  SentInv(o)'
BY DEF SentInv

LEMMA ReceivedFrame ==
  ASSUME NEW s, NEW o, ReceivedInv(s, o),
         headersSent'[o] = headersSent[o], unsent'[o] = unsent[o], announced'[o] = announced[o],
         head'[o] = head[o], flight'[o] = flight[o],
         pc'[s] = pc[s], headReceived'[s] = headReceived[s], headSize'[s] = headSize[s],
         contentOffset'[s] = contentOffset[s], unreceived'[s] = unreceived[s],
         delivered'[s] = delivered[s], splits'[s] = splits[s], sparing'[s] = sparing[s]
  PROVE  ReceivedInv(s, o)'
BY DEF ReceivedInv, HeadInv, CountedInv, Written, Whole

-----------------------------------------------------------------------------
(* HTTP: sending.                                                          *)

\* A write of o, by what it does to the cells: the head grows, and is complete with the
\* last header, or some of the content is written.
LEMMA CellsWritten ==
  ASSUME HTTPInv, NEW o \in Sides, NEW s \in Sides, s = H!Other(o),
         UNCHANGED <<pc, headReceived, headSize, contentOffset, unreceived, size, delivered,
                     splits, sparing>>,
         NEW cells \in Nat,
         flight' = [flight EXCEPT ![o] = flight[o] + cells],
         Written(o)' = Written(o) + cells,
         announced'[o] - unsent'[o] <= announced'[o],
         headersSent[o] => /\ headersSent'[o] /\ head'[o] = head[o] /\ announced'[o] = announced[o]
                           /\ unsent'[o] + cells = unsent[o],
         ~headersSent[o] => head'[o] > head[o],
         HTTPTypes', SentInv(o)',
         startSent'[s] = startSent[s], headersSent'[s] = headersSent[s],
         unsent'[s] = unsent[s], announced'[s] = announced[s], head'[s] = head[s]
  PROVE  HTTPInv'
<1>1. SentInv(s)'
  BY SentFrame DEF HTTPInv
<1>2. ReceivedInv(o, s)'
  <2>1. ReceivedInv(o, s) /\ flight'[s] = flight[s]
    BY OtherSide DEF HTTPInv, HTTPTypes
  <2> QED
    BY <2>1, ReceivedFrame
<1>3. ReceivedInv(s, o)'
  <2>1. ReceivedInv(s, o) /\ SentInv(o) /\ flight'[o] = flight[o] + cells
    BY OtherSide DEF HTTPInv, HTTPTypes
  <2>2. CASE headReceived[s]
    BY <2>1, <2>2 DEF ReceivedInv, CountedInv, HTTPInv, HTTPTypes
  <2>3. CASE ~headReceived[s]
    <3>1. Whole(s, o)' => Whole(s, o)
      BY <2>1, <2>3 DEF ReceivedInv, HeadInv, Whole, Written, SentInv, HTTPInv, HTTPTypes
    <3> QED
      BY <2>1, <2>3, <3>1 DEF ReceivedInv, HeadInv, HTTPInv, HTTPTypes, Written
  <2> QED
    BY <2>2, <2>3
<1> QED
  BY <1>1, <1>2, <1>3, OtherSide DEF HTTPInv

LEMMA StartSent ==
  ASSUME HTTPInv, NEW o \in Sides, H!SendStart(o)
  PROVE  HTTPInv'
<1> DEFINE s == H!Other(o)
<1>1. PICK skipHeaders \in BOOLEAN :
        /\ H!Writes(o, 4 + IF skipHeaders THEN 1 ELSE 0)
        /\ head' = [head EXCEPT ![o] = 4 + IF skipHeaders THEN 1 ELSE 0]
        /\ headersSent' = [headersSent EXCEPT ![o] = skipHeaders]
  BY DEF H!SendStart, H!StartLine
<1> DEFINE cells == 4 + IF skipHeaders THEN 1 ELSE 0
<1>2. cells \in Nat /\ cells >= 4
  OBVIOUS
<1>3. /\ flight' = [flight EXCEPT ![o] = flight[o] + cells]
      /\ ~startSent[o] /\ startSent' = [startSent EXCEPT ![o] = TRUE]
      /\ UNCHANGED <<pc, headReceived, headSize, contentOffset, unreceived, size, delivered,
                     splits, sparing, unsent, announced>>
  BY <1>1 DEF H!SendStart, H!Writes, H!receiving, H!history
<1>4. HTTPTypes /\ SentInv(o) /\ s \in Sides /\ s # o
  BY OtherSide DEF HTTPInv
<1>5. HTTPTypes'
  BY <1>1, <1>3, <1>4 DEF HTTPTypes
<1>6. SentInv(o)'
  BY <1>1, <1>3, <1>4 DEF HTTPTypes, SentInv
<1>7. /\ Written(o)' = Written(o) + cells /\ announced'[o] - unsent'[o] <= announced'[o]
      /\ ~headersSent[o] /\ head'[o] > head[o]
  BY <1>1, <1>3, <1>4 DEF HTTPTypes, SentInv, Written
<1>8. /\ startSent'[s] = startSent[s] /\ headersSent'[s] = headersSent[s]
      /\ unsent'[s] = unsent[s] /\ announced'[s] = announced[s] /\ head'[s] = head[s]
  BY <1>1, <1>3, <1>4 DEF HTTPTypes
<1> HIDE DEF cells, s
<1> QED
  BY <1>2, <1>3, <1>4, <1>5, <1>6, <1>7, <1>8, CellsWritten DEF s

LEMMA HeaderSent ==
  ASSUME HTTPInv, NEW o \in Sides, H!SendHeader(o)
  PROVE  HTTPInv'
<1> DEFINE s == H!Other(o)
<1>1. /\ startSent[o] /\ ~headersSent[o] /\ UNCHANGED startSent
      /\ flight' = [flight EXCEPT ![o] = flight[o] + 1]
      /\ head' = [head EXCEPT ![o] = head[o] + 1]
      /\ UNCHANGED <<pc, headReceived, headSize, contentOffset, unreceived, size, delivered,
                     splits, sparing>>
  BY DEF H!SendHeader, H!Writes, H!receiving, H!history
<1>2. PICK isLast \in BOOLEAN : headersSent' = [headersSent EXCEPT ![o] = isLast]
  BY DEF H!SendHeader
<1>3. PICK n \in Nat : /\ unsent' = [unsent EXCEPT ![o] = n]
                       /\ announced' = [announced EXCEPT ![o] = n]
  <2>1. CASE UNCHANGED <<unsent, announced>>
    <3>1. unsent[o] = announced[o] /\ unsent[o] \in Nat
      BY <1>1 DEF HTTPInv, HTTPTypes, SentInv
    <3> QED
      BY <2>1, <3>1 DEF HTTPInv, HTTPTypes
  <2>2. CASE \E n \in 1..MaxLength : /\ unsent' = [unsent EXCEPT ![o] = n]
                                     /\ announced' = [announced EXCEPT ![o] = n]
    <3>1. \A n \in 1..MaxLength : n \in Nat
      OBVIOUS
    <3> QED
      BY <2>2, <3>1
  <2> QED
    BY <2>1, <2>2 DEF H!SendHeader
<1>4. HTTPTypes /\ SentInv(o) /\ s \in Sides /\ s # o
  BY OtherSide DEF HTTPInv
<1>5. HTTPTypes'
  BY <1>1, <1>2, <1>3, <1>4 DEF HTTPTypes
<1>6. SentInv(o)'
  BY <1>1, <1>2, <1>3, <1>4 DEF HTTPTypes, SentInv
<1>7. /\ Written(o)' = Written(o) + 1 /\ announced'[o] - unsent'[o] <= announced'[o]
      /\ head'[o] > head[o]
  BY <1>1, <1>3, <1>4 DEF HTTPTypes, SentInv, Written
<1>8. /\ startSent'[s] = startSent[s] /\ headersSent'[s] = headersSent[s]
      /\ unsent'[s] = unsent[s] /\ announced'[s] = announced[s] /\ head'[s] = head[s]
  BY <1>1, <1>2, <1>3, <1>4 DEF HTTPTypes
<1> HIDE DEF s
<1> QED
  BY <1>1, <1>4, <1>5, <1>6, <1>7, <1>8, CellsWritten DEF s

LEMMA ContentSent ==
  ASSUME HTTPInv, NEW o \in Sides, H!SendContent(o)
  PROVE  HTTPInv'
<1> DEFINE s == H!Other(o)
<1>1. PICK n \in 1..unsent[o] :
        /\ flight' = [flight EXCEPT ![o] = flight[o] + n]
        /\ unsent' = [unsent EXCEPT ![o] = unsent[o] - n]
  BY DEF H!SendContent, H!Writes
<1>2. /\ headersSent[o] /\ UNCHANGED <<startSent, headersSent, head, announced>>
      /\ UNCHANGED <<pc, headReceived, headSize, contentOffset, unreceived, size, delivered,
                     splits, sparing>>
  BY DEF H!SendContent, H!receiving, H!history
<1>3. HTTPTypes /\ SentInv(o) /\ s \in Sides /\ s # o
  BY OtherSide DEF HTTPInv
<1>4. n \in Nat /\ unsent[o] \in Nat /\ unsent[o] - n \in Nat
  BY <1>1, <1>3 DEF HTTPTypes
<1>5. HTTPTypes'
  BY <1>1, <1>2, <1>3, <1>4 DEF HTTPTypes
<1>6. SentInv(o)'
  BY <1>1, <1>2, <1>3, <1>4 DEF HTTPTypes, SentInv
<1>7. /\ Written(o)' = Written(o) + n /\ announced'[o] - unsent'[o] <= announced'[o]
      /\ headersSent'[o] /\ head'[o] = head[o] /\ announced'[o] = announced[o]
      /\ unsent'[o] + n = unsent[o]
  BY <1>1, <1>2, <1>3, <1>4 DEF HTTPTypes, SentInv, Written
<1>8. /\ startSent'[s] = startSent[s] /\ headersSent'[s] = headersSent[s]
      /\ unsent'[s] = unsent[s] /\ announced'[s] = announced[s] /\ head'[s] = head[s]
  BY <1>1, <1>2, <1>3 DEF HTTPTypes
<1> HIDE DEF s
<1> QED
  BY <1>1, <1>2, <1>3, <1>4, <1>5, <1>6, <1>7, <1>8, CellsWritten DEF s

-----------------------------------------------------------------------------
(* HTTP: receiving.                                                        *)

LEMMA CellsTaken ==
  ASSUME HTTPInv, NEW s \in Sides, NEW o \in Sides, o = H!Other(s),
         UNCHANGED H!sending, HTTPTypes', ReceivedInv(s, o)',
         pc'[o] = pc[o], headReceived'[o] = headReceived[o], headSize'[o] = headSize[o],
         contentOffset'[o] = contentOffset[o], unreceived'[o] = unreceived[o],
         delivered'[o] = delivered[o], splits'[o] = splits[o], sparing'[o] = sparing[o],
         flight'[s] = flight[s]
  PROVE  HTTPInv'
<1>1. SentInv(s)' /\ SentInv(o)'
  BY SentFrame DEF HTTPInv, H!sending
<1>2. ReceivedInv(o, s)'
  <2>1. ReceivedInv(o, s)
    BY OtherSide DEF HTTPInv
  <2> QED
    BY <2>1, ReceivedFrame DEF H!sending
<1> QED
  BY <1>1, <1>2, OtherSide DEF HTTPInv

\* A step that changes nothing but the call s is in.
PcOnly(s, next) ==
  /\ pc' = [pc EXCEPT ![s] = next]
  /\ UNCHANGED <<H!sending, H!receiving, flight, H!history>>

LEMMA CallMoves ==
  ASSUME HTTPInv, NEW s \in Sides, NEW next \in Pcs, PcOnly(s, next),
         pc[s] \notin Waits, next \notin Waits, next # "dismiss",
         next \in Calls => ~headReceived[s],
         next = "read_start" => headSize[s] = 0,
         next = "read_rest" => splits[s],
         next = "read_headers" => headSize[s] >= 4 /\ ~Whole(s, H!Other(s)),
         next = "parse_headers" => headSize[s] >= 4,
         next = "idle" => headReceived[s] \/ ~Whole(s, H!Other(s)) \/ splits[s]
  PROVE  HTTPInv'
<1> DEFINE o == H!Other(s)
<1>1. o \in Sides /\ o # s /\ HTTPTypes /\ ReceivedInv(s, o)
  BY OtherSide DEF HTTPInv
<1>2. /\ pc' = [pc EXCEPT ![s] = next] /\ UNCHANGED H!sending
      /\ UNCHANGED <<headReceived, headSize, contentOffset, unreceived, size, flight, delivered,
                     splits, sparing, headersSent, unsent, announced, head, startSent>>
  BY DEF PcOnly, H!sending, H!receiving, H!history
<1>3. HTTPTypes' /\ pc'[s] = next /\ pc'[o] = pc[o]
  BY <1>1, <1>2 DEF HTTPTypes
<1> HIDE DEF o
<1>4. (Whole(s, o)' <=> Whole(s, o)) /\ Written(o)' = Written(o)
  BY <1>2 DEF Whole, Written
<1>5. ReceivedInv(s, o)'
  <2>1. CASE headReceived[s]
    BY <1>1, <1>2, <1>3, <2>1 DEF ReceivedInv, CountedInv
  <2>2. CASE ~headReceived[s]
    BY <1>1, <1>2, <1>3, <1>4, <2>2 DEF ReceivedInv, HeadInv, o
  <2> QED
    BY <2>1, <2>2
<1> QED
  BY <1>1, <1>2, <1>3, <1>5, CellsTaken DEF o

LEMMA HeadCalled ==
  ASSUME HTTPInv, NEW s \in Sides, H!ReceiveHead(s)
  PROVE  HTTPInv'
<1>1. PcOnly(s, IF headSize[s] = 0 THEN "read_start" ELSE "parse_start")
  BY DEF PcOnly, H!ReceiveHead
<1>2. pc[s] = "idle" /\ ~headReceived[s]
  BY DEF H!ReceiveHead
<1> QED
  BY <1>1, <1>2, CallMoves DEF Pcs, Calls, Waits

LEMMA StartLineParsed ==
  ASSUME HTTPInv, NEW s \in Sides, H!ParseStartLine(s)
  PROVE  HTTPInv'
<1> DEFINE o == H!Other(s)
<1>1. /\ pc[s] = "parse_start" /\ headSize[s] \in Nat /\ ~headReceived[s]
      /\ head[o] \in Nat /\ (headersSent[o] => head[o] > 4)
      /\ 0 < headSize[s] /\ headSize[s] < 4 => splits[s]
  BY OtherSide DEF H!ParseStartLine, HTTPInv, HTTPTypes, ReceivedInv, HeadInv, SentInv, Calls
<1>2. /\ headSize[s] <= 4 => ~Whole(s, o)
      /\ headSize[s] = 2 => splits[s]
  BY <1>1 DEF Whole
<1>3. CASE headSize[s] <= 1 \/ headSize[s] = 3
  <2>1. /\ headSize[s] <= H!Short \/ headSize[s] = H!StartLine - 1
        /\ headSize[s] \notin (H!Short + 1)..(H!StartLine - 2)
        /\ headSize[s] # H!StartLine /\ ~(headSize[s] > H!StartLine)
    BY <1>1, <1>3 DEF H!Short, H!StartLine
  <2>2. PcOnly(s, "idle")
    BY <2>1 DEF PcOnly, H!ParseStartLine
  <2> QED
    BY <1>1, <1>2, <1>3, <2>2, CallMoves DEF Pcs, Calls, Waits
<1>4. CASE headSize[s] = 2
  <2>1. PcOnly(s, "read_rest")
    BY <1>4 DEF PcOnly, H!ParseStartLine, H!Short, H!StartLine
  <2> QED
    BY <1>1, <1>2, <1>4, <2>1, CallMoves DEF Pcs, Calls, Waits
<1>5. CASE headSize[s] = 4
  <2>1. PcOnly(s, "read_headers")
    BY <1>5 DEF PcOnly, H!ParseStartLine, H!Short, H!StartLine
  <2> QED
    BY <1>1, <1>2, <1>5, <2>1, CallMoves DEF Pcs, Calls, Waits
<1>6. CASE headSize[s] > 4
  <2>1. /\ ~(headSize[s] <= H!Short \/ headSize[s] = H!StartLine - 1)
        /\ headSize[s] \notin (H!Short + 1)..(H!StartLine - 2)
        /\ headSize[s] # H!StartLine /\ headSize[s] > H!StartLine
    BY <1>1, <1>6 DEF H!Short, H!StartLine
  <2>2. PcOnly(s, "parse_headers")
    BY <2>1 DEF PcOnly, H!ParseStartLine
  <2> QED
    BY <1>1, <1>6, <2>2, CallMoves DEF Pcs, Calls, Waits
<1> QED
  BY <1>1, <1>3, <1>4, <1>5, <1>6

LEMMA SideEnds ==
  ASSUME HTTPInv, NEW s \in Sides, H!Close(s) \/ H!Destroy(s)
  PROVE  HTTPInv'
<1>1. PcOnly(s, "close") \/ PcOnly(s, "destroyed")
  BY DEF PcOnly, H!Close, H!Destroy
<1>2. pc[s] = "idle"
  BY DEF H!Close, H!Destroy
<1> QED
  BY <1>1, <1>2, CallMoves DEF Pcs, Calls, Waits, H!Ended

\* A read, of some of what is in flight or of nothing.
LEMMA ReadTakes ==
  ASSUME HTTPTypes, NEW s \in Sides, NEW n \in H!Arrivals(s), NEW room \in Nat, H!Reads(s, room, n)
  PROVE  /\ n \in Nat /\ n <= room /\ n <= flight[H!Other(s)]
         /\ flight' = [flight EXCEPT ![H!Other(s)] = flight[H!Other(s)] - n]
<1>1. flight[H!Other(s)] \in Nat
  BY OtherSide DEF HTTPTypes
<1>2. n \in Nat /\ n <= flight[H!Other(s)]
  BY <1>1 DEF H!Arrivals
<1>3. CASE n = 0
  BY <1>1, <1>3 DEF H!Reads, HTTPTypes
<1>4. CASE n # 0
  BY <1>2, <1>4 DEF H!Reads
<1> QED
  BY <1>2, <1>3, <1>4

LEMMA HeadRead ==
  ASSUME HTTPInv, NEW s \in Sides, H!ReadHead(s)
  PROVE  HTTPInv'
<1> DEFINE o == H!Other(s)
<1>1. o \in Sides /\ o # s /\ HTTPTypes /\ ReceivedInv(s, o) /\ SentInv(o)
  BY OtherSide DEF HTTPInv
<1>2. pc[s] \in {"read_start", "read_rest", "read_headers"} /\ ~headReceived[s] /\ HeadInv(s, o)
  BY <1>1 DEF H!ReadHead, ReceivedInv, Calls
<1> DEFINE next(n) ==
      CASE pc[s] = "read_start" -> IF n > 0 THEN "parse_start" ELSE "idle"
        [] pc[s] = "read_rest" -> "idle"
        [] pc[s] = "read_headers" -> IF n > 0 \/ headSize[s] = 4 THEN "parse_headers" ELSE "idle"
<1>3. MaxHead - headSize[s] \in Nat
  BY <1>1, ServersAssumption DEF ServersAssumption, HTTPTypes, ReceivedInv
<1>4. PICK n \in H!Arrivals(s) :
        /\ H!Reads(s, MaxHead - headSize[s], n)
        /\ headSize' = [headSize EXCEPT ![s] = headSize[s] + n]
        /\ contentOffset' = [contentOffset EXCEPT ![s] =
             IF n > 0 THEN headSize[s] + n ELSE contentOffset[s]]
        /\ splits' = [splits EXCEPT ![s] = splits[s] \/ headSize[s] + n < 4]
        /\ pc' = [pc EXCEPT ![s] = next(n)]
  BY DEF H!ReadHead, H!StartLine
<1>5. /\ n \in Nat /\ n <= MaxHead - headSize[s] /\ n <= flight[o]
      /\ flight' = [flight EXCEPT ![o] = flight[o] - n]
  BY <1>1, <1>3, <1>4, ReadTakes
<1>6. UNCHANGED <<startSent, headersSent, unsent, head, announced, headReceived, unreceived, size,
                  delivered, sparing>>
  BY DEF H!ReadHead, H!sending
<1> HIDE DEF o
<1>7. /\ headSize[s] \in Nat /\ contentOffset[s] = headSize[s] /\ flight[o] \in Nat
      /\ headSize[s] + n \in Nat /\ flight[o] - n \in Nat
  BY <1>1, <1>2, <1>5 DEF HTTPTypes, HeadInv
<1>8. /\ headSize'[s] = headSize[s] + n /\ contentOffset'[s] = headSize[s] + n
      /\ flight'[o] = flight[o] - n
      /\ splits[s] => splits'[s]
      /\ headSize[s] + n < 4 => splits'[s]
  <2>1. splits'[s] = (splits[s] \/ headSize[s] + n < 4)
    BY <1>1, <1>4, Zenon DEF HTTPTypes
  <2>2. (splits[s] => splits'[s]) /\ (headSize[s] + n < 4 => splits'[s])
    BY <2>1, Zenon
  <2> QED
    BY <1>1, <1>4, <1>5, <1>7, <2>2 DEF HTTPTypes
<1>9. /\ pc'[s] = next(n)
      /\ pc[s] = "read_start" => pc'[s] = IF n > 0 THEN "parse_start" ELSE "idle"
      /\ pc[s] = "read_rest" => pc'[s] = "idle"
      /\ pc[s] = "read_headers" =>
           pc'[s] = IF n > 0 \/ headSize[s] = 4 THEN "parse_headers" ELSE "idle"
  BY <1>1, <1>4 DEF HTTPTypes
<1> HIDE DEF next
<1>10. HTTPTypes'
  <2>1. next(n) \in Pcs
    BY <1>2, <1>9 DEF Pcs, Calls
  <2>2. pc' \in [Sides -> Pcs]
    BY <1>1, <1>4, <2>1 DEF HTTPTypes
  <2>3. contentOffset' \in [Sides -> Nat]
    BY <1>1, <1>4, <1>7 DEF HTTPTypes
  <2> QED
    BY <1>1, <1>4, <1>5, <1>6, <1>7, <2>2, <2>3 DEF HTTPTypes
<1>11. Written(o)' = Written(o) /\ Written(o) \in Int
  BY <1>1, <1>6 DEF Written, HTTPTypes
<1>12. HeadInv(s, o)'
  <2>1. /\ contentOffset'[s] = headSize'[s] /\ delivered'[s] = 0 /\ unreceived'[s] = 0
        /\ flight'[o] + headSize'[s] = Written(o)'
    <3>1. flight[o] + headSize[s] = Written(o) /\ delivered[s] = 0 /\ unreceived[s] = 0
      BY <1>2 DEF HeadInv
    <3>2. (flight[o] - n) + (headSize[s] + n) = flight[o] + headSize[s]
      BY <1>5, <1>7
    <3> QED
      BY <1>6, <1>8, <1>11, <3>1, <3>2
  <2>2. pc'[s] \in {"parse_start", "parse_headers", "idle"}
    BY <1>2, <1>9
  <2>3. pc'[s] = "parse_headers" => headSize'[s] >= 4
    BY <1>2, <1>5, <1>7, <1>8, <1>9 DEF HeadInv
  <2>4. ASSUME pc'[s] = "idle"
        PROVE  ~Whole(s, o)' \/ splits'[s]
    <3>1. CASE pc[s] = "read_start"
      <4>1. n = 0 /\ headSize[s] = 0
        BY <1>2, <1>5, <1>9, <2>4, <3>1 DEF HeadInv
      <4> QED
        BY <1>8, <4>1
    <3>2. CASE pc[s] = "read_rest"
      BY <1>2, <1>8, <1>9, <3>2 DEF HeadInv
    <3>3. CASE pc[s] = "read_headers"
      <4>1. n = 0 /\ ~Whole(s, o)
        BY <1>2, <1>5, <1>9, <2>4, <3>3 DEF HeadInv
      <4> QED
        BY <1>6, <1>7, <1>8, <4>1 DEF Whole
    <3> QED
      BY <1>2, <3>1, <3>2, <3>3
  <2> QED
    BY <1>8, <2>1, <2>2, <2>3, <2>4 DEF HeadInv, Waits
<1>13. headSize'[s] <= MaxHead
  BY <1>5, <1>7, <1>8, ServersAssumption DEF ServersAssumption
<1>14. ReceivedInv(s, o)'
  BY <1>2, <1>6, <1>12, <1>13 DEF ReceivedInv
<1> QED
  BY <1>1, <1>4, <1>5, <1>6, <1>10, <1>14, CellsTaken DEF HTTPTypes, H!sending, o

\* The three ways in which the data of s are as they must be once it has the head.
LEMMA ReceivedWhole ==
  ASSUME NEW s, NEW o, headReceived'[s], headSize'[s] \in Nat, headSize'[s] <= MaxHead,
         pc'[s] \notin Calls,
         \/ headSize'[s] > 4 /\ CountedInv(s, o)'
         \/ headSize'[s] <= 4 /\ unreceived'[s] = 0 /\ pc'[s] = "idle"
  PROVE  ReceivedInv(s, o)'
<1>1. CASE headSize'[s] > 4 /\ CountedInv(s, o)'
  <2>1. ~(headSize'[s] <= 4)
    BY <1>1
  <2> HIDE DEF CountedInv
  <2> QED
    BY <1>1, <2>1 DEF ReceivedInv
<1>2. CASE headSize'[s] <= 4 /\ unreceived'[s] = 0 /\ pc'[s] = "idle"
  <2>1. ~(headSize'[s] > 4) /\ pc'[s] \notin Waits /\ pc'[s] # "dismiss"
    BY <1>2 DEF Waits
  <2> QED
    BY <1>2, <2>1 DEF ReceivedInv
<1> QED
  BY <1>1, <1>2

LEMMA HeadersParsed ==
  ASSUME HTTPInv, NEW s \in Sides, H!ParseHeaders(s)
  PROVE  HTTPInv'
<1> DEFINE o == H!Other(s)
<1>1. o \in Sides /\ o # s /\ HTTPTypes /\ ReceivedInv(s, o) /\ SentInv(o)
  BY OtherSide DEF HTTPInv
<1>2. pc[s] = "parse_headers" /\ ~headReceived[s] /\ HeadInv(s, o) /\ headSize[s] <= MaxHead
  BY <1>1 DEF H!ParseHeaders, ReceivedInv, Calls
<1>3. /\ contentOffset[s] = headSize[s] /\ delivered[s] = 0 /\ headSize[s] >= 4
      /\ flight[o] + headSize[s] = Written(o)
  BY <1>2 DEF HeadInv
<1> HIDE DEF o
<1>4. CASE ~Whole(s, o) /\ headSize[s] # 4
  <2>1. PcOnly(s, "read_headers")
    BY <1>4 DEF H!ParseHeaders, PcOnly, Whole, o, H!StartLine, H!receiving, H!history
  <2> QED
    BY <1>2, <1>3, <1>4, <2>1, CallMoves DEF Pcs, Calls, Waits, o
<1>5. CASE Whole(s, o) \/ headSize[s] = 4
  <2>1. /\ headReceived' = [headReceived EXCEPT ![s] = TRUE]
        /\ contentOffset' = [contentOffset EXCEPT ![s] =
             IF Whole(s, o) /\ headSize[s] > head[o] THEN head[o] ELSE contentOffset[s]]
        /\ unreceived' = [unreceived EXCEPT ![s] = IF Whole(s, o) THEN announced[o] ELSE 0]
        /\ pc' = [pc EXCEPT ![s] = "idle"]
        /\ UNCHANGED <<startSent, headersSent, unsent, head, announced, headSize, size, flight,
                       delivered, splits, sparing>>
    BY <1>5 DEF H!ParseHeaders, Whole, o, H!StartLine, H!sending, H!history
  <2>2. HTTPTypes'
    BY <1>1, <2>1 DEF HTTPTypes, Pcs
  <2>3. /\ headReceived'[s] /\ pc'[s] = "idle" /\ headSize'[s] = headSize[s]
        /\ unreceived'[s] = IF Whole(s, o) THEN announced[o] ELSE 0
        /\ contentOffset'[s] = IF Whole(s, o) /\ headSize[s] > head[o] THEN head[o] ELSE headSize[s]
    BY <1>1, <1>3, <2>1 DEF HTTPTypes
  <2>4. ASSUME Whole(s, o)
        PROVE  ReceivedInv(s, o)'
    <3>1. /\ headersSent[o] /\ headSize[s] >= head[o] /\ head[o] > 4
          /\ contentOffset'[s] = head[o] /\ unreceived'[s] = announced[o]
      BY <1>1, <2>3, <2>4 DEF Whole, SentInv, HTTPTypes
    <3>2. flight[o] + unsent[o] + (headSize[s] - head[o]) = announced[o]
      BY <1>1, <1>3 DEF Written, HTTPTypes
    <3>3. CountedInv(s, o)'
      BY <1>1, <1>3, <2>1, <2>3, <3>1, <3>2 DEF CountedInv, HTTPTypes, Waits
    <3>4. headSize'[s] > 4 /\ headSize'[s] <= MaxHead /\ headSize'[s] \in Nat
      BY <1>1, <1>2, <2>3, <3>1 DEF HTTPTypes
    <3> QED
      BY <2>3, <3>3, <3>4, ReceivedWhole DEF Calls
  <2>5. ASSUME ~Whole(s, o)
        PROVE  ReceivedInv(s, o)'
    <3>1. headSize'[s] <= 4 /\ headSize'[s] <= MaxHead /\ headSize'[s] \in Nat
      BY <1>1, <1>2, <1>3, <1>5, <2>3, <2>5 DEF HTTPTypes
    <3> QED
      BY <2>3, <2>5, <3>1, ReceivedWhole DEF Calls
  <2>6. ReceivedInv(s, o)'
    BY <2>4, <2>5
  <2> QED
    BY <1>1, <2>1, <2>2, <2>6, CellsTaken DEF HTTPTypes, H!sending, o
<1> QED
  BY <1>4, <1>5

\* What receive_content() and dismiss_content() take from head_ is counted, but for a part
\* of it, or when head_ is full.
LEMMA ContentTakenFromHead ==
  ASSUME HTTPInv, NEW s \in Sides, NEW n \in Nat, NEW next \in Waits, H!FromHead(s, n, next),
         pc[s] = "idle", headReceived[s], unreceived[s] > 0,
         UNCHANGED <<H!sending, headReceived, headSize, flight, splits>>,
         sparing' \in [Sides -> BOOLEAN], sparing[s] => sparing'[s],
         sparing'[s] \/ n >= headSize[s] - contentOffset[s],
         sparing'[H!Other(s)] = sparing[H!Other(s)]
  PROVE  HTTPInv'
<1> DEFINE o == H!Other(s)
<1> DEFINE held == headSize[s] - contentOffset[s]
<1> DEFINE taken == IF n <= held THEN n ELSE held
<1>1. o \in Sides /\ o # s /\ HTTPTypes /\ ReceivedInv(s, o)
  BY OtherSide DEF HTTPInv
<1>2. headSize[s] > 4 /\ CountedInv(s, o) /\ headSize[s] <= MaxHead
  BY <1>1 DEF ReceivedInv, HTTPTypes
<1>3. /\ headSize[s] \in Nat /\ contentOffset[s] \in Nat /\ unreceived[s] \in Nat
      /\ delivered[s] \in Nat /\ flight[o] \in Nat /\ unsent[o] \in Nat /\ announced[o] \in Nat
      /\ MaxHead \in Nat /\ head[o] \in Nat
  BY <1>1, ServersAssumption DEF HTTPTypes, ServersAssumption
<1>4. held \in Nat /\ held <= unreceived[s] /\ taken \in Nat /\ taken <= held
  BY <1>2, <1>3 DEF CountedInv
<1>5. H!Min({n, held}) = taken
  BY <1>4, LeastOfTwo
<1>6. /\ delivered' = [delivered EXCEPT ![s] = delivered[s] + taken]
      /\ contentOffset' = [contentOffset EXCEPT ![s] = contentOffset[s] + taken]
      /\ IF held = 0 \/ (n >= held /\ headSize[s] = MaxHead)
         THEN /\ size' = [size EXCEPT ![s] = n - held]
              /\ pc' = [pc EXCEPT ![s] = next]
              /\ UNCHANGED unreceived
         ELSE /\ unreceived' = [unreceived EXCEPT ![s] =
                   IF n < held THEN unreceived[s] ELSE unreceived[s] - held]
              /\ pc' = [pc EXCEPT ![s] =
                   IF next = "dismiss_read" /\ unreceived'[s] # 0 THEN "dismiss" ELSE "idle"]
              /\ UNCHANGED size
  BY <1>5 DEF H!FromHead
<1> HIDE DEF o, held, taken
<1>7. /\ delivered'[s] = delivered[s] + taken /\ contentOffset'[s] = contentOffset[s] + taken
      /\ headSize[s] = contentOffset[s] + held
  BY <1>1, <1>3, <1>6 DEF HTTPTypes, held
<1>8. /\ headersSent'[o] /\ head'[o] = head[o] /\ announced'[o] = announced[o]
      /\ unsent'[o] = unsent[o]
      /\ flight'[o] = flight[o] /\ headSize'[s] = headSize[s] /\ headReceived'[s] /\ headersSent[o]
      /\ head[o] <= contentOffset[s]
      /\ flight[o] + unsent[o] + delivered[s] + held = announced[o]
      /\ ~sparing[s] /\ headSize[s] < MaxHead => delivered[s] + unreceived[s] = announced[o]
  BY <1>2 DEF CountedInv, H!sending, held
<1>9. flight[o] + unsent[o] + (delivered[s] + taken) + (held - taken) = announced[o]
  BY <1>3, <1>4, <1>8
<1>10. CASE held = 0 \/ (n >= held /\ headSize[s] = MaxHead)
  <2>1. taken = held /\ n - held \in Nat
    BY <1>4, <1>10 DEF taken
  <2>2. pc'[s] = next /\ unreceived'[s] = unreceived[s]
    BY <1>1, <1>6, <1>10 DEF HTTPTypes
  <2>3. HTTPTypes'
    BY <1>1, <1>3, <1>4, <1>6, <1>10, <2>1 DEF HTTPTypes, Pcs, Waits, H!sending
  <2>4. contentOffset'[s] = headSize[s]
    BY <1>3, <1>4, <1>7, <2>1
  <2>5. headSize[s] < MaxHead => taken = 0
    BY <1>3, <1>10, <2>1
  <2>6. CountedInv(s, o)'
    BY <1>3, <1>4, <1>7, <1>8, <1>9, <2>1, <2>2, <2>4, <2>5 DEF CountedInv, Waits
  <2>7. ReceivedInv(s, o)'
    BY <1>2, <1>3, <1>8, <2>2, <2>6, ReceivedWhole DEF Calls, Waits
  <2> QED
    BY <1>1, <1>6, <1>10, <2>3, <2>7, CellsTaken DEF HTTPTypes, o
<1>11. CASE ~(held = 0 \/ (n >= held /\ headSize[s] = MaxHead))
  <2>1. unreceived'[s] = IF n < held THEN unreceived[s] ELSE unreceived[s] - held
    BY <1>1, <1>6, <1>11 DEF HTTPTypes
  <2>2. unreceived'[s] \in Nat /\ held - taken <= unreceived'[s]
    BY <1>3, <1>4, <2>1 DEF taken
  <2>3. pc'[s] = IF next = "dismiss_read" /\ unreceived'[s] # 0 THEN "dismiss" ELSE "idle"
    BY <1>1, <1>6, <1>11 DEF HTTPTypes
  <2>4. HTTPTypes'
    <3>1. pc' \in [Sides -> Pcs]
      BY <1>1, <1>6, <1>11 DEF HTTPTypes, Pcs, H!Ended
    <3>2. unreceived' \in [Sides -> Nat]
      BY <1>1, <1>3, <1>4, <1>6, <1>11 DEF HTTPTypes
    <3> QED
      BY <1>1, <1>3, <1>4, <1>6, <1>11, <3>1, <3>2 DEF HTTPTypes, H!sending
  <2>5. ASSUME ~sparing'[s], headSize'[s] < MaxHead
        PROVE  /\ delivered'[s] + unreceived'[s] = announced[o]
               /\ contentOffset'[s] = headSize[s]
    <3>1. ~sparing[s] /\ n >= held
      BY <2>5 DEF held
    <3>2. taken = held /\ unreceived'[s] = unreceived[s] - held
      BY <1>4, <2>1, <3>1 DEF taken
    <3> QED
      BY <1>3, <1>4, <1>7, <1>8, <2>5, <3>1, <3>2
  <2>6. CountedInv(s, o)'
    <3>1. pc'[s] \notin Waits /\ (pc'[s] = "dismiss" => unreceived'[s] > 0)
      BY <2>2, <2>3 DEF Waits
    <3>2. headSize'[s] - contentOffset'[s] = held - taken /\ contentOffset'[s] <= headSize'[s]
      BY <1>3, <1>4, <1>7, <1>8
    <3>3. head[o] <= contentOffset'[s]
      BY <1>3, <1>4, <1>7, <1>8
    <3> QED
      BY <1>7, <1>8, <1>9, <2>2, <2>5, <3>1, <3>2, <3>3 DEF CountedInv
  <2>7. ReceivedInv(s, o)'
    BY <1>2, <1>3, <1>8, <2>3, <2>6, ReceivedWhole DEF Calls
  <2> QED
    BY <1>1, <1>6, <1>11, <2>4, <2>7, CellsTaken DEF HTTPTypes, o
<1> QED
  BY <1>10, <1>11

LEMMA ContentReceived ==
  ASSUME HTTPInv, NEW s \in Sides, H!ReceiveContent(s)
  PROVE  HTTPInv'
<1>1. PICK n \in 1..MaxLength :
        /\ H!FromHead(s, n, "read_content")
        /\ sparing' = [sparing EXCEPT ![s] = sparing[s] \/ n < headSize[s] - contentOffset[s]]
  BY DEF H!ReceiveContent
<1>2. /\ pc[s] = "idle" /\ headReceived[s] /\ unreceived[s] > 0
      /\ UNCHANGED <<H!sending, headReceived, headSize, flight, splits>>
  BY DEF H!ReceiveContent
<1>3. n \in Nat /\ headSize[s] \in Nat /\ contentOffset[s] \in Nat /\ HTTPTypes
  BY ServersAssumption DEF ServersAssumption, HTTPInv, HTTPTypes
<1>4. sparing' \in [Sides -> BOOLEAN] /\ sparing'[H!Other(s)] = sparing[H!Other(s)]
  BY <1>1, <1>3, OtherSide DEF HTTPTypes
<1>5. sparing'[s] = (sparing[s] \/ n < headSize[s] - contentOffset[s])
  BY <1>1, <1>3, Zenon DEF HTTPTypes
<1>6. sparing[s] => sparing'[s]
  BY <1>5, Zenon
<1>7. n < headSize[s] - contentOffset[s] => sparing'[s]
  BY <1>5, Zenon
<1>8. n < headSize[s] - contentOffset[s] \/ n >= headSize[s] - contentOffset[s]
  BY <1>3
<1> QED
  BY <1>1, <1>2, <1>3, <1>4, <1>6, <1>7, <1>8, ContentTakenFromHead DEF Waits

LEMMA ContentDismissed ==
  ASSUME HTTPInv, NEW s \in Sides, H!DismissContent(s)
  PROVE  HTTPInv'
<1> DEFINE n == MaxHead + MaxLength
<1>1. H!FromHead(s, n, "dismiss_read")
  BY DEF H!DismissContent
<1>2. /\ pc[s] = "idle" /\ headReceived[s] /\ unreceived[s] > 0
      /\ UNCHANGED <<H!sending, headReceived, headSize, flight, splits, sparing>>
  BY DEF H!DismissContent
<1>3. HTTPTypes /\ headSize[s] <= MaxHead
  BY DEF HTTPInv, ReceivedInv
<1>4. n \in Nat /\ n >= headSize[s] - contentOffset[s]
  BY <1>3, ServersAssumption DEF ServersAssumption, HTTPTypes
<1>5. sparing' \in [Sides -> BOOLEAN] /\ sparing' = sparing
  BY <1>2, <1>3 DEF HTTPTypes
<1> HIDE DEF n
<1> QED
  BY <1>1, <1>2, <1>4, <1>5, ContentTakenFromHead DEF Waits

LEMMA ContentRead ==
  ASSUME HTTPInv, NEW s \in Sides, H!ReadContent(s)
  PROVE  HTTPInv'
<1> DEFINE o == H!Other(s)
<1>1. o \in Sides /\ o # s /\ HTTPTypes /\ ReceivedInv(s, o)
  BY OtherSide DEF HTTPInv
<1>2. pc[s] \in Waits
  BY DEF H!ReadContent, Waits
<1>3. headReceived[s] /\ headSize[s] > 4 /\ CountedInv(s, o) /\ headSize[s] <= MaxHead
  BY <1>1, <1>2 DEF ReceivedInv, HeadInv, HTTPTypes
<1>4. /\ size[s] \in Nat /\ unreceived[s] \in Nat /\ delivered[s] \in Nat
      /\ headSize[s] \in Nat /\ contentOffset[s] \in Nat /\ flight[o] \in Nat
      /\ unsent[o] \in Nat /\ announced[o] \in Nat /\ head[o] \in Nat
  BY <1>1 DEF HTTPTypes
<1> DEFINE room == IF size[s] <= unreceived[s] THEN size[s] ELSE unreceived[s]
<1>5. H!Min({size[s], unreceived[s]}) = room /\ room \in Nat /\ room <= unreceived[s]
  BY <1>4, LeastOfTwo
<1>6. PICK n \in H!Arrivals(s) :
        /\ H!Reads(s, room, n)
        /\ unreceived' = [unreceived EXCEPT ![s] = unreceived[s] - n]
        /\ delivered' = [delivered EXCEPT ![s] = delivered[s] + n]
  BY <1>5 DEF H!ReadContent
<1>7. /\ pc' = [pc EXCEPT ![s] =
           IF pc[s] = "dismiss_read" /\ unreceived'[s] # 0 THEN "dismiss" ELSE "idle"]
      /\ UNCHANGED <<H!sending, headReceived, headSize, contentOffset, size, splits, sparing>>
  BY DEF H!ReadContent
<1> HIDE DEF room
<1>8. /\ n \in Nat /\ n <= room /\ n <= flight[o]
      /\ flight' = [flight EXCEPT ![o] = flight[o] - n]
  BY <1>1, <1>5, <1>6, ReadTakes
<1> HIDE DEF o
<1>9. /\ unreceived'[s] = unreceived[s] - n /\ delivered'[s] = delivered[s] + n
      /\ flight'[o] = flight[o] - n
      /\ unreceived[s] - n \in Nat /\ delivered[s] + n \in Nat /\ flight[o] - n \in Nat
  BY <1>1, <1>4, <1>5, <1>6, <1>8 DEF HTTPTypes
<1>10. pc'[s] \in {"idle", "dismiss"} /\ (pc'[s] = "dismiss" => unreceived'[s] > 0)
  BY <1>1, <1>7, <1>9 DEF HTTPTypes
<1>11. HTTPTypes'
  <2>1. pc' \in [Sides -> Pcs]
    BY <1>1, <1>7 DEF HTTPTypes, Pcs, H!Ended
  <2> QED
    BY <1>1, <1>6, <1>7, <1>8, <1>9, <2>1 DEF HTTPTypes, H!sending
<1>12. CountedInv(s, o)'
  <2>1. /\ headersSent'[o] /\ head'[o] <= contentOffset'[s] /\ contentOffset'[s] = headSize'[s]
        /\ head'[o] = head[o] /\ announced'[o] = announced[o] /\ unsent'[o] = unsent[o]
        /\ contentOffset[s] = headSize[s]
        /\ flight[o] + unsent[o] + delivered[s] + (headSize[s] - contentOffset[s]) = announced[o]
    BY <1>2, <1>3, <1>7 DEF CountedInv, H!sending
  <2>2. flight'[o] + unsent'[o] + delivered'[s] + (headSize'[s] - contentOffset'[s]) = announced'[o]
    BY <1>4, <1>7, <1>8, <1>9, <2>1
  <2>3. ~sparing'[s] /\ headSize'[s] < MaxHead => delivered'[s] + unreceived'[s] = announced'[o]
    <3>1. ~sparing[s] /\ headSize[s] < MaxHead => delivered[s] + unreceived[s] = announced[o]
      BY <1>3 DEF CountedInv
    <3> QED
      BY <1>4, <1>7, <1>8, <1>9, <2>1, <3>1
  <2>4. pc'[s] \notin Waits
    BY <1>10 DEF Waits
  <2> QED
    BY <1>4, <1>7, <1>9, <1>10, <2>1, <2>2, <2>3, <2>4 DEF CountedInv
<1>13. ReceivedInv(s, o)'
  BY <1>3, <1>4, <1>7, <1>10, <1>12, ReceivedWhole DEF Calls
<1> QED
  BY <1>1, <1>6, <1>7, <1>8, <1>11, <1>13, CellsTaken DEF HTTPTypes, o

-----------------------------------------------------------------------------

LEMMA HTTPUntouched ==
  ASSUME HTTPInv, UNCHANGED H!vars
  PROVE  HTTPInv'
BY DEF H!vars, H!sending, H!receiving, H!history, HTTPInv, HTTPTypes, SentInv, ReceivedInv,
       HeadInv, CountedInv, Written, Whole

LEMMA HTTPNext == HTTPInv /\ [H!Next]_(H!vars) => HTTPInv'
<1> SUFFICES ASSUME HTTPInv, [H!Next]_(H!vars)
             PROVE  HTTPInv'
  OBVIOUS
<1>1. CASE UNCHANGED H!vars
  BY <1>1, HTTPUntouched
<1>2. ASSUME NEW s \in Sides,
             \/ H!SendStart(s) \/ H!SendHeader(s) \/ H!SendContent(s)
             \/ H!ReceiveHead(s) \/ H!ReadHead(s) \/ H!ParseStartLine(s) \/ H!ParseHeaders(s)
             \/ H!ReceiveContent(s) \/ H!DismissContent(s) \/ H!ReadContent(s)
             \/ H!Close(s) \/ H!Destroy(s)
      PROVE  HTTPInv'
  BY <1>2, StartSent, HeaderSent, ContentSent, HeadCalled, HeadRead, StartLineParsed,
     HeadersParsed, ContentReceived, ContentDismissed, ContentRead, SideEnds
<1> QED
  BY <1>1, <1>2 DEF H!Next, Sides

LEMMA HTTPStep == [ServersNext]_serversVars => [H!Next]_(H!vars)
BY DEF ServersNext, serversVars, httpVars, H!vars, H!sending, H!receiving, H!history

LEMMA HTTPAlways == ServersSpec => []HTTPInv
<1>1. ServersInit => HTTPInv
  BY HTTPInit DEF ServersInit
<1>2. HTTPInv /\ [ServersNext]_serversVars => HTTPInv'
  BY HTTPStep, HTTPNext
<1> QED
  BY <1>1, <1>2, PTL DEF ServersSpec

\* A head that has arrived whole and was not accepted had a start line that came in parts,
\* and the content is found where the head ends: whatever head_ holds and wherever the reads
\* end (receive_head()).
THEOREM HeadAlwaysReceived == ServersSpec => []HeadReceived
<1>1. HTTPInv => HeadReceived
  <2> SUFFICES ASSUME HTTPInv, NEW s \in Sides
               PROVE  /\ pc[s] = "idle" /\ headSize[s] >= head[H!Other(s)]
                           /\ head[H!Other(s)] > 4 /\ headersSent[H!Other(s)] /\ ~splits[s]
                           => headReceived[s]
                      /\ headReceived[s] /\ headSize[s] > 4
                           => contentOffset[s] >= head[H!Other(s)]
    BY DEF HeadReceived, H!HeadReceived, H!StartLine, Sides
  <2>1. HTTPTypes /\ ReceivedInv(s, H!Other(s)) /\ H!Other(s) \in Sides
    BY OtherSide DEF HTTPInv
  <2> QED
    BY <2>1 DEF ReceivedInv, HeadInv, CountedInv, Whole, HTTPTypes
<1> QED
  BY <1>1, HTTPAlways, PTL

\* No byte of content is lost or waited for twice, for every size of head_ and every length
\* of content: receive_content() and dismiss_content() keep the count, but for the two
\* exceptions that the property names.
THEOREM ContentAlwaysAccounted == ServersSpec => []ContentAccounted
<1>1. HTTPInv => ContentAccounted
  <2> SUFFICES ASSUME HTTPInv, NEW s \in Sides,
                      headReceived[s], headSize[s] > 4, ~sparing[s], headSize[s] < MaxHead
               PROVE  /\ delivered[s] + unreceived[s] = announced[H!Other(s)]
                      /\ pc[s] \in {"read_content", "dismiss_read", "dismiss"}
                           => flight[H!Other(s)] + unsent[H!Other(s)] > 0
    BY DEF ContentAccounted, H!ContentAccounted, H!StartLine, Sides
  <2>1. HTTPTypes /\ CountedInv(s, H!Other(s)) /\ H!Other(s) \in Sides
    BY OtherSide DEF HTTPInv, ReceivedInv
  <2> QED
    BY <2>1 DEF CountedInv, HTTPTypes, Waits
<1> QED
  BY <1>1, HTTPAlways, PTL
=============================================================================
