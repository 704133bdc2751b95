------------------------------- MODULE Timers -------------------------------
(***************************************************************************)
(* The timers of a listener of src/ws. They are kept in a vector, and the  *)
(* timer of the event loop has an extension area that points back to its   *)
(* place in the vector, by which it finds the handler to call.             *)
(***************************************************************************)
EXTENDS Integers, SequencesExt

CONSTANTS
  TimerName,  \* names of timers
  StartMoved  \* whether the application starts a timer that a removal has moved

VARIABLES
  timers_,    \* names of the timers, in their order
  capacity,   \* places the vector has
  ext,        \* timer |-> the place its extension area points to
  shifted,    \* history: timers moved by a removal since the last reallocation
  terminated  \* an assertion has failed

vars == <<timers_, capacity, ext, shifted, terminated>>

Init == timers_ = <<>> /\ capacity = 0 /\ ext = <<>> /\ shifted = {} /\ terminated = FALSE

Place(t) == CHOOSE i \in DOMAIN timers_ : timers_[i] = t

\* Mutant: the move constructor leaves the extension area as it is.
Add_timer_unmoved(t) ==
  /\ ~terminated /\ t \notin ToSet(timers_)
  /\ timers_' = Append(timers_, t)
  /\ ext' = [u \in ToSet(timers_') |-> IF u = t THEN Len(timers_') ELSE ext[u]]
  /\ IF Len(timers_) < capacity THEN UNCHANGED <<capacity, shifted>>
     ELSE capacity' = Max({1, 2 * capacity}) /\ shifted' = {}
  /\ UNCHANGED terminated

\* add_timer(): a vector that is full is moved to a larger one, and the move
\* constructor puts the new place into the extension area of each timer.
Add_timer(t) ==
  /\ ~terminated /\ t \notin ToSet(timers_)
  /\ timers_' = Append(timers_, t)
  /\ IF Len(timers_) < capacity
     THEN /\ ext' = [u \in ToSet(timers_') |-> IF u = t THEN Len(timers_') ELSE ext[u]]
          /\ UNCHANGED <<capacity, shifted>>
     ELSE /\ ext' = [u \in ToSet(timers_') |-> IF u = t THEN Len(timers_') ELSE Place(u)]
          /\ capacity' = Max({1, 2 * capacity}) /\ shifted' = {}
  /\ UNCHANGED terminated

\* remove_timer(): the later timers are moved one place down by the move
\* assignment, which leaves their extension areas as they are.
Remove_timer(t) ==
  /\ ~terminated /\ t \in ToSet(timers_)
  /\ timers_' = RemoveAt(timers_, Place(t))
  /\ ext' = [u \in ToSet(timers_') |-> ext[u]]
  /\ shifted' = {u \in ToSet(timers_') : u \in shifted \/ Place(u) > Place(t)}
  /\ UNCHANGED <<capacity, terminated>>

\* start() asserts that the extension area points to this timer.
Start_timer(t) ==
  /\ ~terminated /\ t \in ToSet(timers_)
  /\ t \in shifted => StartMoved
  /\ terminated' = (ext[t] # Place(t))
  /\ UNCHANGED <<timers_, capacity, ext, shifted>>

Next == \E t \in TimerName : Add_timer(t) \/ Remove_timer(t) \/ Start_timer(t)

Spec == Init /\ [][Next]_vars

\* A timer of the loop calls the handler of its own timer, unless a removal has
\* moved that since the vector was last reallocated; and it can be started.
TimerCallsItself ==
  ~terminated /\ \A i \in DOMAIN timers_ : timers_[i] \notin shifted => ext[timers_[i]] = i
=============================================================================
