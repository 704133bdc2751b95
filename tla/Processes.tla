----------------------------- MODULE Processes -----------------------------
(***************************************************************************)
(* The start, the signals and the end of a process as src/os arranges them *)
(* (POSIX), with its default handlers, and the PID file it keeps while it  *)
(* runs. A process is one execution of the program; it may be killed and   *)
(* started again.                                                          *)
(***************************************************************************)
EXTENDS Integers, Sequences

CONSTANTS
  Process,  \* executions of the program
  NoProcess,
  Rivals    \* whether the program is started while it runs

VARIABLES
  todo,        \* process |-> what is left to be done by start(); <<>> when startup() runs
  phase,       \* process |-> "new", "starting", "working", "spinning", "exiting",
               \* "cleaning", "clearing", "exited" or "killed"
  detached,    \* the argument of start()
  relative,    \* the PID file's path is relative
  pid_file,    \* process |-> whether proc::pid_file is not empty
  moved,       \* process |-> the working directory has been changed
  handled,     \* process |-> the cleanup and the signal handlers have been set
  is_running,  \* process |-> the flag
  stuck,       \* process |-> the PID file could not be removed
  files        \* place |-> the process whose ID is in the PID file there

vars == <<todo, phase, detached, relative, pid_file, moved, handled, is_running, stuck, files>>

\* A relative path leads to another place when the directory has been changed.
Place(p) == IF ~relative THEN "absolute" ELSE IF moved[p] THEN "after" ELSE "before"

Init ==
  /\ detached \in BOOLEAN /\ relative \in BOOLEAN
  /\ phase = [p \in Process |-> "new"] /\ todo = [p \in Process |-> <<>>]
  /\ pid_file = [p \in Process |-> FALSE] /\ moved = [p \in Process |-> FALSE]
  /\ handled = [p \in Process |-> FALSE] /\ is_running = [p \in Process |-> FALSE]
  /\ stuck = [p \in Process |-> FALSE]
  /\ files = [l \in {"absolute", "before", "after"} |-> NoProcess]

Gone(p) == phase[p] \in {"exited", "killed"}

\* start(): a process that detaches has a PID file, by default beside the program.
Start(p) ==
  /\ phase[p] = "new" /\ \A q \in Process : phase[q] = "new" \/ Gone(q) \/ Rivals
  /\ phase' = [phase EXCEPT ![p] = "starting"]
  /\ \E named \in BOOLEAN :
       /\ detached => named
       /\ pid_file' = [pid_file EXCEPT ![p] = named]
       /\ todo' = [todo EXCEPT ![p] =
            IF detached THEN <<"fork", "redirect", "setsid", "fork", "dump", "chdir", "close", "run">>
            ELSE IF named THEN <<"chdir", "dump", "redirect", "run">> ELSE <<"chdir", "redirect", "run">>]
  /\ UNCHANGED <<detached, relative, moved, handled, is_running, stuck, files>>

\* A step of start() that is done: dump_pid() truncates what is there, run() sets the
\* handlers and calls startup().
Step(p) ==
  LET step == Head(todo[p]) IN
  /\ phase[p] = "starting"
  /\ todo' = [todo EXCEPT ![p] = Tail(@)]
  /\ moved' = [moved EXCEPT ![p] = @ \/ step = "chdir"]
  /\ files' = IF step = "dump" THEN [files EXCEPT ![Place(p)] = p] ELSE files
  /\ handled' = [handled EXCEPT ![p] = step = "run"]
  /\ is_running' = [is_running EXCEPT ![p] = step = "run"]
  /\ phase' = IF step = "run" THEN [phase EXCEPT ![p] = "working"] ELSE phase
  /\ UNCHANGED <<detached, relative, pid_file, stuck>>

\* A step that fails: detach() calls exit(), or else an exception ends main(); what the
\* steps before it have done is left.
Step_fails(p) ==
  /\ phase[p] = "starting" /\ Head(todo[p]) # "run"
  /\ phase' = [phase EXCEPT ![p] = "exiting"]
  /\ UNCHANGED <<todo, detached, relative, pid_file, moved, handled, is_running, stuck, files>>

\* with_shutdown_on_error(): an exception of a callback asks for the end.
Callback_throws(p) ==
  /\ phase[p] = "working"
  /\ is_running' = [is_running EXCEPT ![p] = FALSE]
  /\ UNCHANGED <<todo, phase, detached, relative, pid_file, moved, handled, stuck, files>>

\* startup() returns, when the flag says so or for a reason of its own, or throws, or
\* another thread does and the terminate handler is called.
Startup_ends(p) ==
  /\ phase[p] = "working"
  /\ phase' = [phase EXCEPT ![p] = "exiting"]
  /\ UNCHANGED <<todo, detached, relative, pid_file, moved, handled, is_running, stuck, files>>

-----------------------------------------------------------------------------
(* The end.                                                                *)

Exit(p) ==
  /\ phase[p] = "exiting"
  /\ phase' = [phase EXCEPT ![p] = IF handled[p] THEN "cleaning" ELSE "exited"]
  /\ UNCHANGED <<todo, detached, relative, pid_file, moved, handled, is_running, stuck, files>>

\* default_cleanup() removes the file, if there is any at the path; it may be forbidden.
Remove(p) ==
  /\ phase[p] = "cleaning"
  /\ IF pid_file[p]
     THEN \/ /\ files' = [files EXCEPT ![Place(p)] = NoProcess]
             /\ phase' = [phase EXCEPT ![p] = "clearing"]
             /\ UNCHANGED stuck
          \/ /\ stuck' = [stuck EXCEPT ![p] = TRUE]
             /\ phase' = [phase EXCEPT ![p] = "exited"]
             /\ UNCHANGED files
     ELSE phase' = [phase EXCEPT ![p] = "exited"] /\ UNCHANGED <<files, stuck>>
  /\ UNCHANGED <<todo, detached, relative, pid_file, moved, handled, is_running>>

Clear(p) ==
  /\ phase[p] = "clearing"
  /\ pid_file' = [pid_file EXCEPT ![p] = FALSE]
  /\ phase' = [phase EXCEPT ![p] = "exited"]
  /\ UNCHANGED <<todo, detached, relative, moved, handled, is_running, stuck, files>>

\* Mutant: the cleanup is not called by quick_exit().
Terminated_uncleaned(p) ==
  /\ phase[p] \notin {"new", "exited", "killed"}
  /\ phase' = [phase EXCEPT ![p] = IF handled[p] THEN "exited" ELSE "killed"]
  /\ UNCHANGED <<todo, detached, relative, pid_file, moved, handled, is_running, stuck, files>>

\* SIGTERM: quick_exit() runs the cleanup, also in the middle of the cleanup at exit().
\* Before the handlers are set it kills.
Terminated(p) ==
  /\ phase[p] \notin {"new", "exited", "killed"}
  /\ phase' = [phase EXCEPT ![p] = IF handled[p] THEN "cleaning" ELSE "killed"]
  /\ UNCHANGED <<todo, detached, relative, pid_file, moved, handled, is_running, stuck, files>>

\* SIGINT asks for a normal end.
Interrupted(p) ==
  /\ phase[p] \notin {"new", "exited", "killed"}
  /\ IF handled[p] THEN is_running' = [is_running EXCEPT ![p] = FALSE] /\ UNCHANGED phase
     ELSE phase' = [phase EXCEPT ![p] = "killed"] /\ UNCHANGED is_running
  /\ UNCHANGED <<todo, detached, relative, pid_file, moved, handled, stuck, files>>

\* SIGSEGV, SIGFPE and SIGILL: the handler returns to the instruction that failed, which
\* fails again.
Faults(p) ==
  /\ phase[p] = "working"
  /\ phase' = [phase EXCEPT ![p] = "spinning"]
  /\ UNCHANGED <<todo, detached, relative, pid_file, moved, handled, is_running, stuck, files>>

\* SIGKILL, or abort(), which the handler of SIGABRT does not prevent.
Killed(p) ==
  /\ phase[p] \notin {"new", "exited", "killed"}
  /\ phase' = [phase EXCEPT ![p] = "killed"]
  /\ UNCHANGED <<todo, detached, relative, pid_file, moved, handled, is_running, stuck, files>>

Next ==
  \E p \in Process :
    \/ Start(p) \/ Step(p) \/ Step_fails(p) \/ Callback_throws(p) \/ Startup_ends(p)
    \/ Exit(p) \/ Remove(p) \/ Clear(p) \/ Terminated(p) \/ Interrupted(p) \/ Faults(p) \/ Killed(p)

Spec == Init /\ [][Next]_vars

-----------------------------------------------------------------------------

\* The PID file is the one of the program that works, also if the one before was killed;
\* and a process that has exited with its handlers set has removed its own, whatever
\* signal came during the cleanup. But a relative path of a process that detaches leads
\* elsewhere by then, and a file that could not be removed stays.
PidFileKept ==
  \A p \in Process :
    LET Named == \E l \in DOMAIN files : files[l] = p IN
    /\ phase[p] \in {"working", "spinning"} /\ pid_file[p] => Named
    /\ phase[p] = "exited" /\ handled[p] => ~Named \/ stuck[p] \/ (relative /\ detached)
=============================================================================
