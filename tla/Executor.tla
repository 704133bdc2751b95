------------------------------ MODULE Executor ------------------------------
(***************************************************************************)
(* What a thread pool promises, without its threads, mutexes and           *)
(* notifications: works wait in a queue and begin in its order, on places  *)
(* which run one work each; works begin only while the executor is open,   *)
(* and it is closed only when every work begun has finished.               *)
(* ThreadPool implements this specification (ImplementsExecutor).          *)
(***************************************************************************)
EXTENDS Integers, Sequences

CONSTANT Place \* where works run

VARIABLES
  phase,   \* "closed", "open" or "closing"
  waiting, \* the works not begun yet
  begun,   \* the works begun, in order
  issued,  \* the number of works so far
  occupied \* the places where a work runs

vars == <<phase, waiting, begun, issued, occupied>>

Init ==
  /\ phase = "closed"
  /\ waiting = <<>> /\ begun = <<>> /\ issued = 0
  /\ occupied = {}

Issue ==
  /\ issued' = issued + 1
  /\ waiting' = Append(waiting, issued + 1)
  /\ UNCHANGED <<phase, begun, occupied>>

Drop ==
  /\ waiting' = <<>>
  /\ UNCHANGED <<phase, begun, issued, occupied>>

Begin(p) ==
  /\ phase = "open"
  /\ p \notin occupied
  /\ waiting # <<>>
  /\ begun' = Append(begun, Head(waiting))
  /\ waiting' = Tail(waiting)
  /\ occupied' = occupied \cup {p}
  /\ UNCHANGED <<phase, issued>>

Finish(p) ==
  /\ p \in occupied
  /\ occupied' = occupied \ {p}
  /\ UNCHANGED <<phase, waiting, begun, issued>>

Open ==
  /\ phase = "closed"
  /\ occupied = {}
  /\ phase' = "open"
  /\ UNCHANGED <<waiting, begun, issued, occupied>>

Close ==
  /\ phase = "open"
  /\ phase' = "closing"
  /\ UNCHANGED <<waiting, begun, issued, occupied>>

Closed ==
  /\ phase = "closing"
  /\ occupied = {}
  /\ phase' = "closed"
  /\ UNCHANGED <<waiting, begun, issued, occupied>>

Next ==
  \/ Issue \/ Drop
  \/ \E p \in Place : Begin(p) \/ Finish(p)
  \/ Open \/ Close \/ Closed

Spec == Init /\ [][Next]_vars
=============================================================================
