----------------------------- MODULE ThreadPool -----------------------------
(***************************************************************************)
(* dmitigr::concur::Simple_thread_pool (concur/concur.hpp): a queue of     *)
(* functions, N worker threads, two mutexes and one condition variable.    *)
(*                                                                         *)
(* queue_mutex_ protects the queue, work_mutex_ serialises start(), stop() *)
(* and the observers.  is_running_ is written under work_mutex_ only and   *)
(* read by the workers under queue_mutex_ only, so a worker can be between *)
(* the evaluation of its wait predicate and the wait itself when stop()    *)
(* changes the flag: these are separate steps here.  (The race on the flag *)
(* itself makes a reader see the old or the new value; the order of the    *)
(* two steps covers both.)                                                 *)
(*                                                                         *)
(* A function is named by the number of its submission.  While it runs it  *)
(* may make one of the calls in TaskCalls on its own pool.                 *)
(***************************************************************************)
EXTENDS Integers, Sequences

CONSTANTS
  N,          \* the size of the pool; workers are numbered in vector order
  Client,     \* the threads outside of the pool which use it
  TaskCalls,  \* what a running function may call: "submit", "query", "stop"
  SpawnFails, \* TRUE iff std::thread's constructor may throw in start()
  MaxTasks,   \* bound: submissions in a behaviour
  MaxStarts   \* bound: calls of start() that find the pool stopped

Worker == 1..N
Thread == Worker \cup Client
NoThread == 0

ASSUME PoolAssumption ==
  /\ N \in Nat \ {0}
  /\ Client \cap (Nat \cup {NoThread}) = {}
  /\ TaskCalls \subseteq {"submit", "query", "stop"}
  /\ SpawnFails \in BOOLEAN
  /\ MaxTasks \in Nat /\ MaxStarts \in Nat

VARIABLES
  queue_,      \* the submissions not started yet
  is_running_,
  queueOwner,  \* the worker which holds queue_mutex_ across steps
  workOwner,   \* the thread whose stop() holds work_mutex_
  joinable,    \* the workers_ whose std::thread object is joinable
  pc,          \* where each worker is in wait_and_run()
  call,        \* the pool function each thread is in, "none" outside
  joinIndex,   \* stop(): the index of the next worker to join
  terminated,  \* std::terminate() has been called
  submitted,   \* history: the number of submissions
  taken,       \* history: the submissions taken off the queue, in order
  starts       \* history: the number of effective start() calls

work == <<queue_, submitted, taken>>
locks == <<queueOwner, workOwner>>
threads == <<joinable, terminated, starts>>
vars == <<work, is_running_, locks, threads, pc, call, joinIndex>>

WorkerState == {"off", "lock", "predicate", "block", "waiting", "decide",
                "task", "task_end"}
CallState == {"none", "query", "stop", "notify", "join"}

TypeOK ==
  /\ queue_ \in Seq(Nat)
  /\ is_running_ \in BOOLEAN
  /\ queueOwner \in Worker \cup {NoThread}
  /\ workOwner \in Thread \cup {NoThread}
  /\ joinable \subseteq Worker
  /\ pc \in [Worker -> WorkerState]
  /\ call \in [Thread -> CallState]
  /\ joinIndex \in 1..(N + 1)
  /\ terminated \in BOOLEAN
  /\ submitted \in Nat
  /\ taken \in Seq(Nat)
  /\ starts \in Nat

Init ==
  /\ queue_ = <<>>
  /\ is_running_ = FALSE
  /\ queueOwner = NoThread
  /\ workOwner = NoThread
  /\ joinable = {}
  /\ pc = [w \in Worker |-> "off"]
  /\ call = [t \in Thread |-> "none"]
  /\ joinIndex = 1
  /\ terminated = FALSE
  /\ submitted = 0
  /\ taken = <<>>
  /\ starts = 0

-----------------------------------------------------------------------------
(* The threads which may call a pool function, and what becomes of a       *)
(* worker when its function has made its call.                             *)

MayCall(t, f) ==
  /\ ~terminated
  /\ call[t] = "none"
  /\ \/ t \in Client
     \/ t \in Worker /\ f \in TaskCalls /\ pc[t] = "task"

AfterCall(t) ==
  pc' = IF t \in Worker THEN [pc EXCEPT ![t] = "task_end"] ELSE pc

(* notify_one() wakes one of the blocked workers if there is any.          *)
NotifyOne(p) ==
  \/ \E w \in Worker : p[w] = "waiting" /\ pc' = [p EXCEPT ![w] = "lock"]
  \/ (\A w \in Worker : p[w] # "waiting") /\ pc' = p

NotifyAll(p) ==
  pc' = [w \in Worker |-> IF p[w] = "waiting" THEN "lock" ELSE p[w]]

(* Mutant of Submit: the notification is forgotten.                        *)
SubmitSilently(t) ==
  /\ MayCall(t, "submit")
  /\ queueOwner = NoThread
  /\ submitted < MaxTasks
  /\ queue_' = Append(queue_, submitted + 1)
  /\ submitted' = submitted + 1
  /\ AfterCall(t)
  /\ UNCHANGED <<is_running_, locks, threads, call, joinIndex, taken>>

(* submit(): push and notify_one under queue_mutex_.                       *)
Submit(t) ==
  /\ MayCall(t, "submit")
  /\ queueOwner = NoThread
  /\ submitted < MaxTasks
  /\ queue_' = Append(queue_, submitted + 1)
  /\ submitted' = submitted + 1
  /\ NotifyOne(IF t \in Worker THEN [pc EXCEPT ![t] = "task_end"] ELSE pc)
  /\ UNCHANGED <<is_running_, locks, threads, call, joinIndex, taken>>

(* Mutant of Clear: queue_mutex_ is not locked.                            *)
ClearUnlocked(t) ==
  /\ t \in Client /\ ~terminated /\ call[t] = "none"
  /\ queue_ # <<>>
  /\ queue_' = <<>>
  /\ UNCHANGED <<is_running_, locks, threads, pc, call, joinIndex,
                 submitted, taken>>

(* clear(): the works not started are dropped.                             *)
Clear(t) ==
  /\ t \in Client /\ ~terminated /\ call[t] = "none"
  /\ queueOwner = NoThread
  /\ queue_ # <<>>
  /\ queue_' = <<>>
  /\ UNCHANGED <<is_running_, locks, threads, pc, call, joinIndex,
                 submitted, taken>>

(* Mutant of Start: a running pool is started again.                       *)
StartAlways(t) ==
  /\ t \in Client /\ ~terminated /\ call[t] = "none"
  /\ workOwner = NoThread
  /\ starts < MaxStarts
  /\ starts' = starts + 1
  /\ is_running_' = TRUE
  /\ terminated' = (joinable # {})
  /\ joinable' = Worker
  /\ pc' = [w \in Worker |-> "lock"]
  /\ UNCHANGED <<work, locks, call, joinIndex>>

(* start(): holds work_mutex_ throughout.  A std::thread object assigned   *)
(* while it is joinable terminates the program; a constructor that throws  *)
(* leaves is_running_ set, the threads before it started, and nobody       *)
(* notified.                                                               *)
Start(t) ==
  /\ t \in Client /\ ~terminated /\ call[t] = "none"
  /\ workOwner = NoThread
  /\ ~is_running_
  /\ starts < MaxStarts
  /\ starts' = starts + 1
  /\ is_running_' = TRUE
  /\ \/ /\ joinable # {}
        /\ terminated' = TRUE
        /\ UNCHANGED <<joinable, pc>>
     \/ /\ joinable = {}
        /\ terminated' = FALSE
        /\ \E k \in IF SpawnFails THEN 0..N ELSE {N} :
             /\ joinable' = 1..k
             /\ pc' = [w \in Worker |-> IF w <= k THEN "lock" ELSE pc[w]]
  /\ UNCHANGED <<work, locks, call, joinIndex>>

(* size() and is_running(): a thread that calls one of them needs          *)
(* work_mutex_ to return.                                                  *)
QueryBegin(t) ==
  /\ MayCall(t, "query")
  /\ call' = [call EXCEPT ![t] = "query"]
  /\ UNCHANGED <<work, is_running_, locks, threads, pc, joinIndex>>

QueryEnd(t) ==
  /\ ~terminated
  /\ call[t] = "query"
  /\ workOwner = NoThread
  /\ call' = [call EXCEPT ![t] = "none"]
  /\ AfterCall(t)
  /\ UNCHANGED <<work, is_running_, locks, threads, joinIndex>>

-----------------------------------------------------------------------------
(* stop(): lock work_mutex_; return if not running; clear the flag;        *)
(* notify_all; join the workers one by one; unlock.                        *)

StopBegin(t) ==
  /\ MayCall(t, "stop")
  /\ call' = [call EXCEPT ![t] = "stop"]
  /\ UNCHANGED <<work, is_running_, locks, threads, pc, joinIndex>>

StopIdle(t) ==
  /\ ~terminated /\ call[t] = "stop"
  /\ workOwner = NoThread
  /\ ~is_running_
  /\ call' = [call EXCEPT ![t] = "none"]
  /\ AfterCall(t)
  /\ UNCHANGED <<work, is_running_, locks, threads, joinIndex>>

StopClearFlag(t) ==
  /\ ~terminated /\ call[t] = "stop"
  /\ workOwner = NoThread
  /\ is_running_
  /\ workOwner' = t
  /\ is_running_' = FALSE
  /\ call' = [call EXCEPT ![t] = "notify"]
  /\ UNCHANGED <<work, queueOwner, threads, pc, joinIndex>>

StopNotify(t) ==
  /\ ~terminated /\ call[t] = "notify"
  /\ NotifyAll(pc)
  /\ joinIndex' = 1
  /\ call' = [call EXCEPT ![t] = "join"]
  /\ UNCHANGED <<work, is_running_, locks, threads>>

(* Mutant of StopJoin: the thread is detached, not waited for.             *)
StopDetach(t) ==
  /\ ~terminated /\ call[t] = "join"
  /\ joinIndex <= N
  /\ joinIndex # t
  /\ joinable' = joinable \ {joinIndex}
  /\ joinIndex' = joinIndex + 1
  /\ UNCHANGED <<work, is_running_, locks, pc, call, terminated, starts>>

(* worker.join() returns when the worker's thread has ended.               *)
StopJoin(t) ==
  /\ ~terminated /\ call[t] = "join"
  /\ joinIndex <= N
  /\ joinIndex # t
  /\ joinIndex \in joinable => pc[joinIndex] = "off"
  /\ joinable' = joinable \ {joinIndex}
  /\ joinIndex' = joinIndex + 1
  /\ UNCHANGED <<work, is_running_, locks, pc, call, terminated, starts>>

(* A worker which stops its own pool cannot join itself: join() throws     *)
(* std::system_error, the guard unlocks work_mutex_, and the threads from  *)
(* this one on stay joinable.                                              *)
StopJoinSelf(t) ==
  /\ ~terminated /\ call[t] = "join"
  /\ joinIndex = t
  /\ workOwner' = NoThread
  /\ call' = [call EXCEPT ![t] = "none"]
  /\ AfterCall(t)
  /\ UNCHANGED <<work, is_running_, queueOwner, threads, joinIndex>>

StopEnd(t) ==
  /\ ~terminated /\ call[t] = "join"
  /\ joinIndex > N
  /\ workOwner' = NoThread
  /\ call' = [call EXCEPT ![t] = "none"]
  /\ AfterCall(t)
  /\ UNCHANGED <<work, is_running_, queueOwner, threads, joinIndex>>

-----------------------------------------------------------------------------
(* wait_and_run(), one iteration of a worker.                              *)

Lock(w) ==
  /\ ~terminated /\ pc[w] = "lock"
  /\ queueOwner = NoThread
  /\ queueOwner' = w
  /\ pc' = [pc EXCEPT ![w] = "predicate"]
  /\ UNCHANGED <<work, is_running_, workOwner, threads, call, joinIndex>>

(* The predicate of state_changed_.wait(), evaluated with the lock held.   *)
Predicate(w) ==
  /\ ~terminated /\ pc[w] = "predicate"
  /\ pc' = [pc EXCEPT ![w] = IF queue_ # <<>> \/ ~is_running_
                             THEN "decide" ELSE "block"]
  /\ UNCHANGED <<work, is_running_, locks, threads, call, joinIndex>>

(* The wait itself: unlock and block in one step.                          *)
Block(w) ==
  /\ ~terminated /\ pc[w] = "block"
  /\ queueOwner' = NoThread
  /\ pc' = [pc EXCEPT ![w] = "waiting"]
  /\ UNCHANGED <<work, is_running_, workOwner, threads, call, joinIndex>>

SpuriousWakeup(w) ==
  /\ ~terminated /\ pc[w] = "waiting"
  /\ pc' = [pc EXCEPT ![w] = "lock"]
  /\ UNCHANGED <<work, is_running_, locks, threads, call, joinIndex>>

(* Mutant of Take: the function is moved from the front without a pop.     *)
TakeWithoutPop(w) ==
  /\ ~terminated /\ pc[w] = "decide"
  /\ is_running_ /\ queue_ # <<>>
  /\ Len(taken) < 2 * MaxTasks
  /\ taken' = Append(taken, Head(queue_))
  /\ queueOwner' = NoThread
  /\ pc' = [pc EXCEPT ![w] = "task"]
  /\ UNCHANGED <<queue_, is_running_, workOwner, threads, call,
                 joinIndex, submitted>>

(* Mutant of Take: is_running_ is not read again.                          *)
TakeWhileStopping(w) ==
  /\ ~terminated /\ pc[w] = "decide"
  /\ queue_ # <<>>
  /\ taken' = Append(taken, Head(queue_))
  /\ queue_' = Tail(queue_)
  /\ queueOwner' = NoThread
  /\ pc' = [pc EXCEPT ![w] = "task"]
  /\ UNCHANGED <<is_running_, workOwner, threads, call, joinIndex,
                 submitted>>

(* is_running_ is read again: take the front of the queue, asserted not to *)
(* be empty (see AssertionHolds), or leave the thread.                     *)
Take(w) ==
  /\ ~terminated /\ pc[w] = "decide"
  /\ is_running_ /\ queue_ # <<>>
  /\ taken' = Append(taken, Head(queue_))
  /\ queue_' = Tail(queue_)
  /\ queueOwner' = NoThread
  /\ pc' = [pc EXCEPT ![w] = "task"]
  /\ UNCHANGED <<is_running_, workOwner, threads, call, joinIndex,
                 submitted>>

Leave(w) ==
  /\ ~terminated /\ pc[w] = "decide"
  /\ ~is_running_
  /\ queueOwner' = NoThread
  /\ pc' = [pc EXCEPT ![w] = "off"]
  /\ UNCHANGED <<work, is_running_, workOwner, threads, call, joinIndex>>

(* func() returns or throws: an exception is caught and logged.            *)
TaskEnd(w) ==
  /\ ~terminated /\ pc[w] \in {"task", "task_end"}
  /\ call[w] = "none"
  /\ pc' = [pc EXCEPT ![w] = "lock"]
  /\ UNCHANGED <<work, is_running_, locks, threads, call, joinIndex>>

-----------------------------------------------------------------------------
WorkerStep(w) ==
  Lock(w) \/ Predicate(w) \/ Block(w) \/ Take(w) \/ Leave(w) \/ TaskEnd(w)

StopStep(t) ==
  StopIdle(t) \/ StopClearFlag(t) \/ StopNotify(t) \/ StopJoin(t)
    \/ StopJoinSelf(t) \/ StopEnd(t)

Next ==
  \/ \E t \in Thread : Submit(t) \/ QueryBegin(t) \/ QueryEnd(t)
                         \/ StopBegin(t) \/ StopStep(t)
  \/ \E t \in Client : Clear(t) \/ Start(t)
  \/ \E w \in Worker : WorkerStep(w) \/ SpuriousWakeup(w)

Spec == Init /\ [][Next]_vars

(* A thread that can run does run, and a mutex that is released again and  *)
(* again is eventually granted.  Nothing forces a client to make a call, a *)
(* function to make its call, or a spurious wakeup to happen.              *)
Fairness ==
  /\ \A w \in Worker : WF_vars(Predicate(w) \/ Block(w) \/ Take(w)
                                 \/ Leave(w) \/ TaskEnd(w))
  /\ \A w \in Worker : SF_vars(Lock(w))
  /\ \A t \in Thread : SF_vars(QueryEnd(t)) /\ SF_vars(StopStep(t))

FairSpec == Spec /\ Fairness

-----------------------------------------------------------------------------
(* Properties.                                                             *)

(* wait_and_run() asserts (concur.hpp:183) that the queue is not empty     *)
(* when it takes its front, although its wait ended for another reason     *)
(* than a work: no start() sets the flag again under such a worker, and    *)
(* no clear() empties the queue under it.                                  *)
AssertionHolds ==
  ~terminated =>
    \A w \in Worker : pc[w] = "decide" /\ is_running_ => queue_ # <<>>

(* The program never terminates in the pool: start() never assigns a       *)
(* joinable std::thread (concur.hpp:134).                                  *)
NeverTerminates == ~terminated

(* Once stop() has returned and until the next start() no worker thread is *)
(* left, so no function runs (concur.hpp:152-155).                         *)
StoppedMeansQuiet ==
  ~is_running_ /\ workOwner = NoThread =>
    joinable = {} /\ \A w \in Worker : pc[w] = "off"

(* Works start in the order of submission and none starts twice, whichever *)
(* workers compete for the queue: started works and then waiting works are *)
(* numbered in increasing order (concur.hpp:92, 184-186).                  *)
InOrder ==
  LET all == taken \o queue_
  IN \A i, j \in 1..Len(all) : i < j => all[i] < all[j]

(* A work cannot be forgotten by sleeping workers: while the pool runs     *)
(* with at least one thread, the front of the queue is eventually taken or *)
(* dropped, whatever the functions call (concur.hpp:93, 181).              *)
WorkIsTaken ==
  \A n \in 1..MaxTasks :
    (is_running_ /\ joinable # {} /\ queue_ # <<>> /\ queue_[1] = n)
      ~> (~is_running_ \/ terminated \/ queue_ = <<>> \/ queue_[1] # n)

(* The pool implements the executor: a function is started only by a       *)
(* running pool, in order, on a worker that runs no other, and the pool is *)
(* stopped only when every function has finished (concur.hpp:143-197).     *)
Phase ==
  IF is_running_ THEN "open"
  ELSE IF workOwner # NoThread THEN "closing" ELSE "closed"
Occupied == {w \in Worker : pc[w] \in {"task", "task_end"}}

Promise == INSTANCE Executor WITH
  Place <- Worker, phase <- Phase, waiting <- queue_, begun <- taken,
  issued <- submitted, occupied <- Occupied

ImplementsExecutor == Promise!Spec

(* "Stops the thread pool" (concur.hpp:139): a call of stop() returns.     *)
StopReturns ==
  \A t \in Thread : call[t] \in {"stop", "notify", "join"} ~> call[t] = "none"
=============================================================================
