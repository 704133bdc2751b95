-------------------------- MODULE ThreadPoolProofs --------------------------
(***************************************************************************)
(* Proofs about module ThreadPool, for every number of workers and clients *)
(* and for any length of behaviour:                                        *)
(*   - type correctness and the assertion of wait_and_run(), whatever the  *)
(*     running functions call;                                             *)
(*   - that stop() leaves nothing running and that start() never           *)
(*     terminates the program, if the functions do not call stop();        *)
(*   - that works start in the order of their submission;                  *)
(*   - that the pool implements module Executor.                           *)
(***************************************************************************)
EXTENDS ThreadPool, SequenceTheorems, TLAPS

-----------------------------------------------------------------------------
(* The constants.                                                          *)

LEMMA ThreadFacts ==
  /\ NoThread \notin Thread
  /\ \A t \in Client : t \notin Nat
  /\ Worker \subseteq Nat /\ Worker \subseteq Thread
  /\ \A t \in Thread : t \in Worker \/ t \in Client
BY PoolAssumption DEF PoolAssumption, NoThread, Thread, Worker

-----------------------------------------------------------------------------
(* Type correctness.                                                       *)

LEMMA InitType == Init => TypeOK
<1> SUFFICES ASSUME Init
             PROVE  TypeOK
  OBVIOUS
<1>1. queue_ \in Seq(Nat) /\ taken \in Seq(Nat) /\ joinIndex \in 1..(N + 1)
  BY PoolAssumption DEF PoolAssumption, Init
<1>2. pc \in [Worker -> WorkerState] /\ call \in [Thread -> CallState]
  BY DEF Init, WorkerState, CallState
<1> QED
  BY <1>1, <1>2 DEF Init, TypeOK

(* A wakeup leaves every worker in a state.                                *)
LEMMA NotifyOneType ==
  ASSUME NEW p \in [Worker -> WorkerState], NotifyOne(p)
  PROVE  pc' \in [Worker -> WorkerState]
BY DEF NotifyOne, WorkerState

LEMMA AfterCallType ==
  ASSUME TypeOK, NEW t \in Thread, AfterCall(t)
  PROVE  pc' \in [Worker -> WorkerState]
BY DEF AfterCall, TypeOK, WorkerState

LEMMA NextType == TypeOK /\ [Next]_vars => TypeOK'
<1> SUFFICES ASSUME TypeOK, [Next]_vars
             PROVE  TypeOK'
  OBVIOUS
<1> USE DEF work, locks, threads
<1>1. ASSUME NEW t \in Thread, Submit(t)
      PROVE  TypeOK'
  <2>1. [pc EXCEPT ![t] = "task_end"] \in [Worker -> WorkerState]
    BY DEF TypeOK, WorkerState
  <2>2. pc' \in [Worker -> WorkerState]
    BY <1>1, <2>1, NotifyOneType DEF Submit, TypeOK
  <2>3. queue_' \in Seq(Nat) /\ submitted' \in Nat
    BY <1>1 DEF Submit, TypeOK
  <2> QED
    BY <1>1, <2>2, <2>3 DEF Submit, TypeOK
<1>2. ASSUME NEW t \in Thread, QueryBegin(t) \/ StopBegin(t)
      PROVE  TypeOK'
  BY <1>2 DEF QueryBegin, StopBegin, TypeOK, CallState
<1>3. ASSUME NEW t \in Thread, QueryEnd(t) \/ StopIdle(t)
      PROVE  TypeOK'
  BY <1>3, AfterCallType DEF QueryEnd, StopIdle, TypeOK, CallState
<1>4. ASSUME NEW t \in Thread, StopClearFlag(t)
      PROVE  TypeOK'
  BY <1>4 DEF StopClearFlag, TypeOK, CallState
<1>5. ASSUME NEW t \in Thread, StopNotify(t)
      PROVE  TypeOK'
  <2>1. pc' \in [Worker -> WorkerState]
    BY <1>5 DEF StopNotify, NotifyAll, TypeOK, WorkerState
  <2> QED
    BY <1>5, <2>1, PoolAssumption DEF PoolAssumption, StopNotify, TypeOK, CallState
<1>6. ASSUME NEW t \in Thread, StopJoin(t)
      PROVE  TypeOK'
  BY <1>6, PoolAssumption DEF PoolAssumption, StopJoin, TypeOK
<1>7. ASSUME NEW t \in Thread, StopJoinSelf(t) \/ StopEnd(t)
      PROVE  TypeOK'
  BY <1>7, AfterCallType DEF StopJoinSelf, StopEnd, TypeOK, CallState
<1>8. ASSUME NEW t \in Client, Clear(t)
      PROVE  TypeOK'
  BY <1>8 DEF Clear, TypeOK
<1>9. ASSUME NEW t \in Client, Start(t)
      PROVE  TypeOK'
  <2>0. /\ UNCHANGED <<work, locks, call, joinIndex>>
        /\ is_running_' \in BOOLEAN /\ terminated' \in BOOLEAN
        /\ starts' = starts + 1
    BY <1>9 DEF Start
  <2>1. CASE joinable # {}
    <3>1. UNCHANGED <<joinable, pc>>
      BY <1>9, <2>1 DEF Start
    <3> QED
      BY <2>0, <3>1 DEF TypeOK
  <2>2. CASE joinable = {}
    <3>1. PICK k \in 0..N :
            /\ joinable' = 1..k
            /\ pc' = [w \in Worker |-> IF w <= k THEN "lock" ELSE pc[w]]
      BY <1>9, <2>2, PoolAssumption DEF PoolAssumption, Start
    <3>2. joinable' \subseteq Worker
      BY <3>1, PoolAssumption DEF PoolAssumption, Worker
    <3>3. pc' \in [Worker -> WorkerState]
      BY <3>1 DEF TypeOK, WorkerState
    <3> QED
      BY <2>0, <3>2, <3>3 DEF TypeOK
  <2> QED
    BY <2>1, <2>2
<1>10. ASSUME NEW w \in Worker, Take(w)
       PROVE  TypeOK'
  <2>1. queue_' \in Seq(Nat) /\ taken' \in Seq(Nat)
    BY <1>10, HeadTailProperties DEF Take, TypeOK
  <2> QED
    BY <1>10, <2>1 DEF Take, TypeOK, WorkerState
<1>11. ASSUME NEW w \in Worker,
              Lock(w) \/ Predicate(w) \/ Block(w) \/ Leave(w) \/ TaskEnd(w)
                \/ SpuriousWakeup(w)
       PROVE  TypeOK'
  BY <1>11 DEF Lock, Predicate, Block, Leave, TaskEnd, SpuriousWakeup,
               TypeOK, WorkerState
<1>12. CASE UNCHANGED vars
  BY <1>12 DEF vars, TypeOK
<1> QED
  BY <1>1, <1>2, <1>3, <1>4, <1>5, <1>6, <1>7, <1>8, <1>9, <1>10, <1>11,
     <1>12 DEF Next, StopStep, WorkerStep

(* Every reachable state is well typed.                                    *)
THEOREM TypeCorrect == Spec => []TypeOK
<1> QED
  BY InitType, NextType, PTL DEF Spec

-----------------------------------------------------------------------------
(* The assertion of wait_and_run().                                        *)

(* A worker keeps queue_mutex_ from the predicate to the decision.         *)
QueueLocked ==
  \A w \in Worker : pc[w] \in {"predicate", "block", "decide"}
                      => queueOwner = w

(* A thread that runs has not been joined.                                 *)
AliveIsJoinable == \A w \in Worker : pc[w] # "off" => w \in joinable

(* A worker which is in a function of the pool was called by its work.     *)
CallerInTask == \A w \in Worker : call[w] # "none" => pc[w] = "task"

WorkersOrdered == QueueLocked /\ AliveIsJoinable /\ CallerInTask

AssertionInv == TypeOK /\ WorkersOrdered /\ AssertionHolds

(* What a wakeup does to a worker, and what the end of a call does.        *)
LEMMA NotifyOneSafe ==
  ASSUME NEW p \in [Worker -> WorkerState], NotifyOne(p), NEW w \in Worker
  PROVE  \/ pc'[w] = p[w]
         \/ p[w] = "waiting" /\ pc'[w] = "lock"
BY DEF NotifyOne

LEMMA AfterCallSafe ==
  ASSUME TypeOK, CallerInTask, NEW t \in Thread, call[t] # "none",
         AfterCall(t), NEW w \in Worker
  PROVE  \/ w # t /\ pc'[w] = pc[w]
         \/ w = t /\ pc[w] = "task" /\ pc'[w] = "task_end"
BY DEF AfterCall, TypeOK, CallerInTask

(* The calls of other functions than start() do not touch a worker in its  *)
(* critical section, and a worker's own steps are under queue_mutex_.      *)
LEMMA AssertionStep == AssertionInv /\ [Next]_vars => AssertionInv'
<1> SUFFICES ASSUME AssertionInv, [Next]_vars
             PROVE  (WorkersOrdered /\ AssertionHolds)'
  BY NextType DEF AssertionInv
<1> USE DEF work, locks, threads
<1>0. TypeOK /\ TypeOK' /\ WorkersOrdered /\ AssertionHolds
  BY NextType DEF AssertionInv
<1>1. ASSUME NEW t \in Thread, Submit(t)
      PROVE  (WorkersOrdered /\ AssertionHolds)'
  <2> DEFINE p == IF t \in Worker THEN [pc EXCEPT ![t] = "task_end"] ELSE pc
  <2>1. p \in [Worker -> WorkerState] /\ NotifyOne(p)
    BY <1>0, <1>1 DEF Submit, TypeOK, WorkerState
  <2>2. ASSUME NEW w \in Worker
        PROVE  \/ w # t /\ pc'[w] = pc[w]
               \/ w # t /\ pc[w] = "waiting" /\ pc'[w] = "lock"
               \/ w = t /\ pc[w] = "task" /\ pc'[w] = "task_end"
    <3>1. \/ pc'[w] = p[w]
          \/ p[w] = "waiting" /\ pc'[w] = "lock"
      BY <2>1, NotifyOneSafe
    <3>2. CASE w # t
      BY <1>0, <3>1, <3>2 DEF TypeOK
    <3>3. CASE w = t
      <4>1. pc[w] = "task" /\ p[w] = "task_end"
        BY <1>0, <1>1, <3>3, ThreadFacts DEF Submit, MayCall, TypeOK, Worker
      <4> QED
        BY <3>1, <3>3, <4>1
    <3> QED
      BY <3>2, <3>3
  <2>3. queue_' # <<>>
    BY <1>0, <1>1, AppendProperties, EmptySeq DEF Submit, TypeOK
  <2>4. call[t] = "none"
    BY <1>1 DEF Submit, MayCall
  <2> QED
    BY <1>0, <1>1, <2>2, <2>3, <2>4
       DEF Submit, WorkersOrdered, QueueLocked, AliveIsJoinable, CallerInTask,
           AssertionHolds
<1>2. ASSUME NEW t \in Thread, QueryBegin(t) \/ StopBegin(t)
      PROVE  (WorkersOrdered /\ AssertionHolds)'
  <2>1. ASSUME NEW w \in Worker
        PROVE  call'[w] = call[w] \/ pc[w] = "task"
    BY <1>0, <1>2, ThreadFacts
       DEF QueryBegin, StopBegin, MayCall, TypeOK, Worker
  <2> QED
    BY <1>0, <1>2, <2>1
       DEF QueryBegin, StopBegin, WorkersOrdered, QueueLocked,
           AliveIsJoinable, CallerInTask, AssertionHolds
<1>3. ASSUME NEW t \in Thread,
             QueryEnd(t) \/ StopIdle(t) \/ StopJoinSelf(t) \/ StopEnd(t)
      PROVE  (WorkersOrdered /\ AssertionHolds)'
  <2>1. ASSUME NEW w \in Worker
        PROVE  \/ w # t /\ pc'[w] = pc[w]
               \/ w = t /\ pc[w] = "task" /\ pc'[w] = "task_end"
    BY <1>0, <1>3, AfterCallSafe
       DEF QueryEnd, StopIdle, StopJoinSelf, StopEnd, WorkersOrdered
  <2>2. /\ call' = [call EXCEPT ![t] = "none"]
        /\ UNCHANGED <<queue_, is_running_, queueOwner, joinable, terminated>>
    BY <1>3 DEF QueryEnd, StopIdle, StopJoinSelf, StopEnd
  <2> QED
    BY <1>0, <2>1, <2>2
       DEF TypeOK, WorkersOrdered, QueueLocked, AliveIsJoinable,
           CallerInTask, AssertionHolds
<1>4. ASSUME NEW t \in Thread, StopClearFlag(t) \/ StopNotify(t)
      PROVE  (WorkersOrdered /\ AssertionHolds)'
  <2>1. ASSUME NEW w \in Worker
        PROVE  \/ pc'[w] = pc[w]
               \/ pc[w] = "waiting" /\ pc'[w] = "lock"
    BY <1>0, <1>4 DEF StopClearFlag, StopNotify, NotifyAll, TypeOK
  <2>2. ASSUME NEW w \in Worker, call'[w] # "none"
        PROVE  call[w] # "none"
    BY <1>0, <1>4, <2>2, ThreadFacts DEF StopClearFlag, StopNotify, TypeOK
  <2>3. /\ UNCHANGED <<queue_, queueOwner, joinable, terminated>>
        /\ is_running_' => is_running_
    BY <1>4 DEF StopClearFlag, StopNotify
  <2> QED
    BY <1>0, <2>1, <2>2, <2>3
       DEF WorkersOrdered, QueueLocked, AliveIsJoinable, CallerInTask,
           AssertionHolds
<1>5. ASSUME NEW t \in Thread, StopJoin(t)
      PROVE  (WorkersOrdered /\ AssertionHolds)'
  BY <1>0, <1>5
     DEF StopJoin, WorkersOrdered, QueueLocked, AliveIsJoinable,
         CallerInTask, AssertionHolds
<1>6. ASSUME NEW t \in Client, Clear(t)
      PROVE  (WorkersOrdered /\ AssertionHolds)'
  BY <1>0, <1>6, ThreadFacts
     DEF Clear, WorkersOrdered, QueueLocked, AliveIsJoinable, CallerInTask,
         AssertionHolds, Worker, NoThread
<1>7. ASSUME NEW t \in Client, Start(t)
      PROVE  (WorkersOrdered /\ AssertionHolds)'
  <2>0. UNCHANGED <<queueOwner, call>>
    BY <1>7 DEF Start
  <2>1. CASE joinable # {}
    <3>1. terminated' /\ UNCHANGED <<joinable, pc>>
      BY <1>7, <2>1 DEF Start
    <3> QED
      BY <1>0, <2>0, <3>1
         DEF WorkersOrdered, QueueLocked, AliveIsJoinable, CallerInTask,
             AssertionHolds
  <2>2. CASE joinable = {}
    <3>1. PICK k \in 0..N :
            /\ joinable' = 1..k
            /\ pc' = [w \in Worker |-> IF w <= k THEN "lock" ELSE pc[w]]
      BY <1>7, <2>2, PoolAssumption DEF PoolAssumption, Start
    <3>2. ASSUME NEW w \in Worker
          PROVE  /\ pc[w] = "off" /\ call[w] = "none"
                 /\ \/ pc'[w] = "lock" /\ w \in joinable'
                    \/ pc'[w] = "off"
      BY <1>0, <2>2, <3>1, PoolAssumption
         DEF PoolAssumption, WorkersOrdered, AliveIsJoinable, CallerInTask,
             Worker
    <3> QED
      BY <2>0, <3>2
         DEF WorkersOrdered, QueueLocked, AliveIsJoinable, CallerInTask,
             AssertionHolds
  <2> QED
    BY <2>1, <2>2
<1>8. ASSUME NEW w \in Worker, WorkerStep(w) \/ SpuriousWakeup(w)
      PROVE  (WorkersOrdered /\ AssertionHolds)'
  <2>1. QueueLocked'
    <3>1. CASE Lock(w) \/ Predicate(w) \/ TaskEnd(w) \/ SpuriousWakeup(w)
      BY <1>0, <3>1, ThreadFacts
         DEF Lock, Predicate, TaskEnd, SpuriousWakeup, TypeOK, Worker,
             WorkersOrdered, QueueLocked, NoThread
    <3>2. CASE Block(w) \/ Take(w) \/ Leave(w)
      BY <1>0, <3>2
         DEF Block, Take, Leave, TypeOK, WorkersOrdered, QueueLocked
    <3> QED
      BY <1>8, <3>1, <3>2 DEF WorkerStep
  <2>2. AliveIsJoinable' /\ CallerInTask'
    BY <1>0, <1>8
       DEF WorkerStep, Lock, Predicate, Block, Take, Leave, TaskEnd,
           SpuriousWakeup, TypeOK, WorkersOrdered, AliveIsJoinable,
           CallerInTask
  <2>3. AssertionHolds'
    <3>1. CASE Take(w)
      BY <1>0, <3>1
         DEF Take, TypeOK, WorkersOrdered, QueueLocked, AssertionHolds
    <3>2. CASE ~Take(w)
      BY <1>0, <1>8, <3>2
         DEF WorkerStep, Lock, Predicate, Block, Leave, TaskEnd,
             SpuriousWakeup, TypeOK, AssertionHolds
    <3> QED
      BY <3>1, <3>2
  <2> QED
    BY <2>1, <2>2, <2>3 DEF WorkersOrdered
<1>9. CASE UNCHANGED vars
  BY <1>0, <1>9
     DEF vars, WorkersOrdered, QueueLocked, AliveIsJoinable, CallerInTask,
         AssertionHolds
<1> QED
  BY <1>1, <1>2, <1>3, <1>4, <1>5, <1>6, <1>7, <1>8, <1>9
     DEF Next, StopStep

LEMMA AssertionInit == Init => AssertionInv
<1> SUFFICES ASSUME Init
             PROVE  WorkersOrdered /\ AssertionHolds
  BY InitType DEF AssertionInv
<1>1. \A w \in Worker : pc[w] = "off" /\ call[w] = "none"
  BY ThreadFacts DEF Init
<1> QED
  BY <1>1 DEF WorkersOrdered, QueueLocked, AliveIsJoinable, CallerInTask,
              AssertionHolds

(* wait_and_run() never takes the front of an empty queue, whatever the    *)
(* running functions call and whichever thread clears the queue, stops or  *)
(* starts the pool meanwhile (concur.hpp:183).                             *)
THEOREM AssertionCorrect == Spec => []AssertionHolds
<1>1. AssertionInv => AssertionHolds
  BY DEF AssertionInv
<1> QED
  BY <1>1, AssertionInit, AssertionStep, PTL DEF Spec

-----------------------------------------------------------------------------
(* What stop() guarantees if the running functions do not call it.         *)

Stopping(t) == call[t] \in {"notify", "join"}

WorkersDoNotStop == \A w \in Worker : call[w] \in {"none", "query"}

(* The stop() in progress, if any, is the one which holds work_mutex_, and *)
(* the pool is not running meanwhile.                                      *)
OneStop ==
  /\ \A t \in Thread : Stopping(t) <=> workOwner = t
  /\ workOwner # NoThread => ~is_running_

(* The workers before joinIndex are joined, and all of them after stop().  *)
Joined ==
  /\ \A t \in Thread : call[t] = "join" => \A w \in joinable : w >= joinIndex
  /\ ~is_running_ /\ workOwner = NoThread => joinable = {}

StopInv ==
  AssertionInv /\ WorkersDoNotStop /\ OneStop /\ Joined /\ NeverTerminates

LEMMA StopInit == Init => StopInv
<1> SUFFICES ASSUME Init
             PROVE  WorkersDoNotStop /\ OneStop /\ Joined /\ NeverTerminates
  BY AssertionInit DEF StopInv
<1>1. \A t \in Thread : call[t] = "none"
  BY DEF Init
<1> QED
  BY <1>1, ThreadFacts
     DEF Init, WorkersDoNotStop, OneStop, Joined, NeverTerminates, Stopping

LEMMA StopInvStep ==
  ASSUME "stop" \notin TaskCalls
  PROVE  StopInv /\ [Next]_vars => StopInv'
<1> SUFFICES ASSUME StopInv, [Next]_vars
             PROVE  (WorkersDoNotStop /\ OneStop /\ Joined /\ NeverTerminates)'
  BY AssertionStep DEF StopInv
<1> USE DEF work, locks, threads
<1>0. TypeOK /\ WorkersOrdered /\ WorkersDoNotStop /\ OneStop /\ Joined
        /\ NeverTerminates
  BY DEF StopInv, AssertionInv
<1>1. ASSUME UNCHANGED <<is_running_, workOwner, joinable, terminated, call,
                         joinIndex>>
      PROVE  (WorkersDoNotStop /\ OneStop /\ Joined /\ NeverTerminates)'
  BY <1>0, <1>1
     DEF WorkersDoNotStop, OneStop, Joined, NeverTerminates, Stopping
(* Entering and leaving a function without work_mutex_.                    *)
<1>2. ASSUME NEW t \in Thread,
             QueryBegin(t) \/ QueryEnd(t) \/ StopBegin(t) \/ StopIdle(t)
      PROVE  (WorkersDoNotStop /\ OneStop /\ Joined /\ NeverTerminates)'
  <2>1. \/ call' = [call EXCEPT ![t] = "none"]
        \/ call' = [call EXCEPT ![t] = "query"]
        \/ call' = [call EXCEPT ![t] = "stop"] /\ t \notin Worker
    BY <1>2, ThreadFacts
       DEF QueryBegin, QueryEnd, StopBegin, StopIdle, MayCall
  <2>2. call[t] \in {"none", "query", "stop"}
    BY <1>2 DEF QueryBegin, QueryEnd, StopBegin, StopIdle, MayCall
  <2>3. UNCHANGED <<is_running_, workOwner, joinable, terminated, joinIndex>>
    BY <1>2 DEF QueryBegin, QueryEnd, StopBegin, StopIdle
  <2> QED
    BY <1>0, <2>1, <2>2, <2>3, ThreadFacts
       DEF TypeOK, WorkersDoNotStop, OneStop, Joined, NeverTerminates, Stopping
(* stop() itself.                                                          *)
<1>3. ASSUME NEW t \in Thread, StopClearFlag(t)
      PROVE  (WorkersDoNotStop /\ OneStop /\ Joined /\ NeverTerminates)'
  <2>1. /\ call[t] = "stop" /\ t \notin Worker /\ workOwner = NoThread
        /\ workOwner' = t /\ ~is_running_' /\ call' = [call EXCEPT ![t] = "notify"]
        /\ UNCHANGED <<joinable, terminated, joinIndex>>
    BY <1>0, <1>3 DEF StopClearFlag, WorkersDoNotStop
  <2> QED
    BY <1>0, <2>1, ThreadFacts
       DEF TypeOK, WorkersDoNotStop, OneStop, Joined, NeverTerminates, Stopping
<1>4. ASSUME NEW t \in Thread, StopNotify(t)
      PROVE  (WorkersDoNotStop /\ OneStop /\ Joined /\ NeverTerminates)'
  <2>1. /\ workOwner = t /\ t \notin Worker /\ joinIndex' = 1
        /\ call' = [call EXCEPT ![t] = "join"]
        /\ UNCHANGED <<is_running_, workOwner, joinable, terminated>>
    BY <1>0, <1>4 DEF StopNotify, WorkersDoNotStop, OneStop, Stopping
  <2>2. \A w \in joinable : w >= 1
    BY <1>0, PoolAssumption DEF TypeOK, Worker, PoolAssumption
  <2> QED
    BY <1>0, <1>4, <2>1, <2>2, ThreadFacts
       DEF StopNotify, TypeOK, WorkersDoNotStop, OneStop, Joined,
           NeverTerminates, Stopping
<1>5. ASSUME NEW t \in Thread, StopJoin(t)
      PROVE  (WorkersDoNotStop /\ OneStop /\ Joined /\ NeverTerminates)'
  <2>1. /\ workOwner = t /\ call[t] = "join"
        /\ joinable' = joinable \ {joinIndex} /\ joinIndex' = joinIndex + 1
        /\ UNCHANGED <<is_running_, workOwner, call, terminated>>
    BY <1>0, <1>5 DEF StopJoin, OneStop, Stopping
  <2>2. \A w \in joinable' : w >= joinIndex'
    BY <1>0, <2>1, PoolAssumption
       DEF TypeOK, Joined, Worker, PoolAssumption
  <2> QED
    BY <1>0, <2>1, <2>2, ThreadFacts
       DEF WorkersDoNotStop, OneStop, Joined, NeverTerminates, Stopping
(* A client is not a worker, so it is never the thread it joins.           *)
<1>6. ASSUME NEW t \in Thread, StopJoinSelf(t)
      PROVE  FALSE
  <2>1. t \notin Worker /\ t \in Nat
    BY <1>0, <1>6, PoolAssumption
       DEF StopJoinSelf, TypeOK, WorkersDoNotStop, PoolAssumption
  <2> QED
    BY <2>1, ThreadFacts
<1>7. ASSUME NEW t \in Thread, StopEnd(t)
      PROVE  (WorkersDoNotStop /\ OneStop /\ Joined /\ NeverTerminates)'
  <2>1. /\ workOwner = t /\ call[t] = "join" /\ joinIndex > N
        /\ workOwner' = NoThread /\ call' = [call EXCEPT ![t] = "none"]
        /\ UNCHANGED <<is_running_, joinable, terminated, joinIndex>>
    BY <1>0, <1>7 DEF StopEnd, OneStop, Stopping
  <2>2. joinable = {}
    BY <1>0, <2>1, PoolAssumption DEF TypeOK, Joined, Worker, PoolAssumption
  <2>3. \A u \in Thread : ~Stopping(u)'
    BY <1>0, <2>1 DEF TypeOK, OneStop, Stopping
  <2> QED
    BY <1>0, <2>1, <2>2, <2>3, ThreadFacts
       DEF TypeOK, WorkersDoNotStop, OneStop, Joined, NeverTerminates, Stopping
<1>8. ASSUME NEW t \in Client, Start(t)
      PROVE  (WorkersDoNotStop /\ OneStop /\ Joined /\ NeverTerminates)'
  <2>1. workOwner = NoThread /\ ~is_running_ /\ joinable = {}
    BY <1>0, <1>8 DEF Start, Joined
  <2>2. /\ UNCHANGED <<workOwner, call, joinIndex>>
        /\ is_running_' = TRUE /\ terminated' = FALSE
    BY <1>8, <2>1 DEF Start
  <2> QED
    BY <1>0, <2>1, <2>2, ThreadFacts
       DEF WorkersDoNotStop, OneStop, Joined, NeverTerminates, Stopping
<1>9. ASSUME \/ \E t \in Thread : Submit(t)
             \/ \E t \in Client : Clear(t)
             \/ \E w \in Worker : WorkerStep(w) \/ SpuriousWakeup(w)
             \/ UNCHANGED vars
      PROVE  UNCHANGED <<is_running_, workOwner, joinable, terminated, call,
                         joinIndex>>
  BY <1>9 DEF Submit, Clear, WorkerStep, Lock, Predicate, Block, Take, Leave,
              TaskEnd, SpuriousWakeup, vars
<1> QED
  BY <1>1, <1>2, <1>3, <1>4, <1>5, <1>6, <1>7, <1>8, <1>9 DEF Next, StopStep

LEMMA StopInvCorrect == "stop" \notin TaskCalls => (Spec => []StopInv)
<1> SUFFICES ASSUME "stop" \notin TaskCalls
             PROVE  Spec => []StopInv
  OBVIOUS
<1>1. StopInv /\ [Next]_vars => StopInv'
  BY StopInvStep
<1> QED
  BY <1>1, StopInit, PTL DEF Spec

(* start() never assigns a joinable thread, and so never terminates the    *)
(* program, if no running function stops its own pool (concur.hpp:134).    *)
THEOREM TerminationCorrect ==
  "stop" \notin TaskCalls => (Spec => []NeverTerminates)
<1>1. StopInv => NeverTerminates
  BY DEF StopInv
<1> QED
  BY <1>1, StopInvCorrect, PTL

(* Between a stop() that has returned and the next start() no worker       *)
(* thread exists, so no work runs, if no running function stops its own    *)
(* pool (concur.hpp:152-155).                                              *)
THEOREM QuietCorrect ==
  "stop" \notin TaskCalls => (Spec => []StoppedMeansQuiet)
<1>1. StopInv => StoppedMeansQuiet
  BY DEF StopInv, AssertionInv, WorkersOrdered, AliveIsJoinable, Joined,
         StoppedMeansQuiet
<1> QED
  BY <1>1, StopInvCorrect, PTL

-----------------------------------------------------------------------------
(* The order of the works.                                                 *)

Increasing(s) == \A i, j \in 1..Len(s) : i < j => s[i] < s[j]
UpTo(s, n) == \A i \in 1..Len(s) : s[i] <= n

OrderInv ==
  TypeOK /\ Increasing(taken \o queue_) /\ UpTo(taken \o queue_, submitted)

(* The three things that happen to the works: one more is submitted, the   *)
(* front is taken, those which wait are dropped.                           *)
LEMMA AppendOrder ==
  ASSUME NEW a \in Seq(Nat), NEW n \in Nat, Increasing(a), UpTo(a, n)
  PROVE  Increasing(Append(a, n + 1)) /\ UpTo(Append(a, n + 1), n + 1)
<1> DEFINE b == Append(a, n + 1)
<1>1. /\ Len(a) \in Nat /\ Len(b) = Len(a) + 1
      /\ \A i \in 1..Len(a) : b[i] = a[i]
      /\ b[Len(a) + 1] = n + 1
  BY AppendProperties, LenProperties
<1>2. \A i \in 1..Len(a) : a[i] \in Nat /\ a[i] <= n
  BY ElementOfSeq DEF UpTo
<1> HIDE DEF b
<1>3. ASSUME NEW i \in 1..Len(b), NEW j \in 1..Len(b), i < j
      PROVE  b[i] < b[j]
  <2>1. i \in 1..Len(a) /\ b[i] = a[i]
    BY <1>1, <1>3
  <2>2. CASE j \in 1..Len(a)
    BY <1>1, <1>3, <2>1, <2>2 DEF Increasing
  <2>3. CASE j = Len(a) + 1
    BY <1>1, <1>2, <2>1, <2>3
  <2> QED
    BY <1>1, <2>2, <2>3
<1>4. ASSUME NEW i \in 1..Len(b)
      PROVE  b[i] <= n + 1
  <2>1. CASE i \in 1..Len(a)
    BY <1>1, <1>2, <2>1
  <2>2. CASE i = Len(a) + 1
    BY <1>1, <2>2
  <2> QED
    BY <1>1, <2>1, <2>2
<1> QED
  BY <1>3, <1>4 DEF Increasing, UpTo, b

LEMMA Associative ==
  ASSUME NEW a \in Seq(Nat), NEW b \in Seq(Nat), NEW c \in Seq(Nat)
  PROVE  (a \o b) \o c = a \o (b \o c)
BY ConcatAssociative

LEMMA SubmitOrder ==
  ASSUME NEW s \in Seq(Nat), NEW q \in Seq(Nat), NEW e \in Nat
  PROVE  s \o Append(q, e) = Append(s \o q, e)
<1>1. <<e>> \in Seq(Nat) /\ s \o q \in Seq(Nat)
  BY ConcatProperties
<1>2. Append(q, e) = q \o <<e>> /\ Append(s \o q, e) = (s \o q) \o <<e>>
  BY <1>1, AppendIsConcat
<1> QED
  BY <1>1, <1>2, ConcatAssociative

LEMMA TakeOrder ==
  ASSUME NEW s \in Seq(Nat), NEW q \in Seq(Nat), q # <<>>
  PROVE  Append(s, Head(q)) \o Tail(q) = s \o q
<1> DEFINE h == <<Head(q)>>
           r == Tail(q)
           p == h \o r
<1>1. /\ Head(q) \in Nat /\ r \in Seq(Nat) /\ Len(r) = Len(q) - 1
      /\ Head(q) = q[1] /\ Len(q) \in Nat \ {0}
      /\ \A i \in 1..Len(r) : r[i] = q[i + 1]
  BY HeadTailProperties, EmptySeq
<1>2. h \in Seq(Nat) /\ Len(h) = 1 /\ h[1] = q[1]
  BY <1>1
<1>3. Append(s, Head(q)) = s \o h
  BY <1>1, AppendIsConcat
<1> HIDE DEF h, r
<1>4. /\ p \in Seq(Nat) /\ Len(p) = 1 + Len(r)
      /\ \A i \in 1..(1 + Len(r)) :
           p[i] = IF i <= 1 THEN h[i] ELSE r[i - 1]
  <2>1. h \in Seq(Nat) /\ r \in Seq(Nat)
    BY <1>1, <1>2
  <2>2. /\ p \in Seq(Nat) /\ Len(p) = Len(h) + Len(r)
        /\ \A i \in 1..(Len(h) + Len(r)) :
             p[i] = IF i <= Len(h) THEN h[i] ELSE r[i - Len(h)]
    BY <2>1, ConcatProperties, Zenon
  <2> QED
    BY <1>2, <2>2
<1> HIDE DEF p, r
<1>5. ASSUME NEW i \in 1..Len(p)
      PROVE  p[i] = q[i]
  <2>1. CASE i = 1
    BY <1>1, <1>2, <1>4, <2>1
  <2>2. CASE i > 1
    <3>1. i - 1 \in 1..Len(r) /\ (i - 1) + 1 = i
      BY <1>1, <1>4, <2>2
    <3>2. r[i - 1] = q[i]
      BY <1>1, <3>1
    <3> QED
      BY <1>1, <1>4, <2>2, <3>2
  <2> QED
    BY <1>1, <1>4, <2>1, <2>2
<1>6. p = q
  <2>1. p \in Seq(Nat) /\ q \in Seq(Nat) /\ Len(p) = Len(q)
    BY <1>1, <1>4
  <2> QED
    BY <1>5, <2>1, SeqEqual, Zenon
<1>7. (s \o h) \o r = s \o (h \o r)
  <2>1. h \in Seq(Nat) /\ r \in Seq(Nat)
    BY <1>1, <1>2
  <2> QED
    BY <2>1, Associative
<1> QED
  BY <1>3, <1>6, <1>7 DEF p, r

LEMMA ClearOrder ==
  ASSUME NEW s \in Seq(Nat), NEW q \in Seq(Nat), NEW n \in Nat,
         Increasing(s \o q), UpTo(s \o q, n)
  PROVE  Increasing(s) /\ UpTo(s, n)
<1> DEFINE a == s \o q
<1>1. /\ Len(s) \in Nat /\ Len(q) \in Nat /\ Len(a) = Len(s) + Len(q)
      /\ \A i \in 1..(Len(s) + Len(q)) :
           a[i] = IF i <= Len(s) THEN s[i] ELSE q[i - Len(s)]
  BY ConcatProperties, LenProperties
<1>2. Increasing(a) /\ UpTo(a, n)
  OBVIOUS
<1> HIDE DEF a
<1>3. \A i \in 1..Len(s) : i \in 1..Len(a) /\ a[i] = s[i]
  BY <1>1
<1> QED
  BY <1>2, <1>3 DEF Increasing, UpTo

LEMMA OrderInit == Init => OrderInv
<1> SUFFICES ASSUME Init
             PROVE  OrderInv
  OBVIOUS
<1>1. Len(taken \o queue_) = 0
  BY ConcatEmptySeq, EmptySeq DEF Init
<1> QED
  BY <1>1, InitType DEF OrderInv, Increasing, UpTo

LEMMA OrderStep == OrderInv /\ [Next]_vars => OrderInv'
<1> SUFFICES ASSUME OrderInv, [Next]_vars
             PROVE  (Increasing(taken \o queue_)
                       /\ UpTo(taken \o queue_, submitted))'
  BY NextType DEF OrderInv
<1> USE DEF work, locks, threads
<1>0. queue_ \in Seq(Nat) /\ taken \in Seq(Nat) /\ submitted \in Nat
  BY DEF OrderInv, TypeOK
<1>1. ASSUME NEW t \in Thread, Submit(t)
      PROVE  (Increasing(taken \o queue_) /\ UpTo(taken \o queue_, submitted))'
  <2>1. /\ queue_' = Append(queue_, submitted + 1)
        /\ submitted' = submitted + 1 /\ taken' = taken
    BY <1>1 DEF Submit
  <2>2. taken' \o queue_' = Append(taken \o queue_, submitted + 1)
    BY <1>0, <2>1, SubmitOrder
  <2>3. taken \o queue_ \in Seq(Nat)
    BY <1>0, ConcatProperties
  <2> QED
    BY <1>0, <2>1, <2>2, <2>3, AppendOrder DEF OrderInv
<1>2. ASSUME NEW t \in Client, Clear(t)
      PROVE  (Increasing(taken \o queue_) /\ UpTo(taken \o queue_, submitted))'
  <2>1. queue_' = <<>> /\ submitted' = submitted /\ taken' = taken
    BY <1>2 DEF Clear
  <2>2. taken' \o queue_' = taken
    BY <1>0, <2>1, ConcatEmptySeq
  <2> QED
    BY <1>0, <2>1, <2>2, ClearOrder DEF OrderInv
<1>3. ASSUME NEW w \in Worker, Take(w)
      PROVE  (Increasing(taken \o queue_) /\ UpTo(taken \o queue_, submitted))'
  <2>1. /\ queue_ # <<>> /\ queue_' = Tail(queue_)
        /\ taken' = Append(taken, Head(queue_)) /\ submitted' = submitted
    BY <1>3 DEF Take
  <2>2. taken' \o queue_' = taken \o queue_
    BY <1>0, <2>1, TakeOrder
  <2> QED
    BY <2>1, <2>2 DEF OrderInv, Increasing, UpTo
<1>4. ASSUME UNCHANGED work
      PROVE  (Increasing(taken \o queue_) /\ UpTo(taken \o queue_, submitted))'
  BY <1>4 DEF OrderInv, Increasing, UpTo
<1>5. ASSUME \/ \E t \in Thread : \/ QueryBegin(t) \/ QueryEnd(t)
                                  \/ StopBegin(t) \/ StopStep(t)
             \/ \E t \in Client : Start(t)
             \/ \E w \in Worker : \/ Lock(w) \/ Predicate(w) \/ Block(w)
                                  \/ Leave(w) \/ TaskEnd(w)
                                  \/ SpuriousWakeup(w)
             \/ UNCHANGED vars
      PROVE  UNCHANGED work
  BY <1>5 DEF QueryBegin, QueryEnd, StopBegin, StopStep, StopIdle,
              StopClearFlag, StopNotify, StopJoin, StopJoinSelf, StopEnd,
              Start, Lock, Predicate, Block, Leave, TaskEnd, SpuriousWakeup,
              vars
<1> QED
  BY <1>1, <1>2, <1>3, <1>4, <1>5 DEF Next, WorkerStep

(* Works start in the order of their submission and none starts twice, for *)
(* any number of workers which compete for the queue and of threads which  *)
(* submit and clear (concur.hpp:92, 184-186).                              *)
THEOREM OrderCorrect == Spec => []InOrder
<1>1. OrderInv => InOrder
  BY DEF OrderInv, Increasing, InOrder
<1> QED
  BY <1>1, OrderInit, OrderStep, PTL DEF Spec

-----------------------------------------------------------------------------
(* The refinement of module Executor.                                      *)

(* The places are occupied by the workers in a function: a step that moves *)
(* no worker into or out of "task" and "task_end" leaves them alone.       *)
AtWork(w) == pc[w] \in {"task", "task_end"}

LEMMA SameOccupied ==
  ASSUME \A w \in Worker : AtWork(w)' <=> AtWork(w)
  PROVE  Occupied' = Occupied
BY DEF Occupied, AtWork

LEMMA RefinementInit == Init => Promise!Init
<1> SUFFICES ASSUME Init
             PROVE  Promise!Init
  OBVIOUS
<1>1. Phase = "closed"
  BY DEF Init, Phase
<1>2. Occupied = {}
  BY DEF Init, Occupied
<1> QED
  BY <1>1, <1>2 DEF Init, Promise!Init

LEMMA RefinementStep ==
  ASSUME "stop" \notin TaskCalls, StopInv, StopInv', [Next]_vars
  PROVE  [Promise!Next]_Promise!vars
<1> USE DEF work, locks, threads
<1>0. TypeOK /\ WorkersOrdered /\ WorkersDoNotStop /\ OneStop /\ Joined
        /\ NeverTerminates
  BY DEF StopInv, AssertionInv
<1>1. ASSUME NEW t \in Thread, Submit(t)
      PROVE  Promise!Issue
  <2> DEFINE p == IF t \in Worker THEN [pc EXCEPT ![t] = "task_end"] ELSE pc
  <2>1. p \in [Worker -> WorkerState] /\ NotifyOne(p)
    BY <1>0, <1>1 DEF Submit, TypeOK, WorkerState
  <2>2. \A w \in Worker : p[w] = pc[w] \/ (AtWork(w) /\ p[w] = "task_end")
    BY <1>0, <1>1, ThreadFacts
       DEF Submit, MayCall, TypeOK, Worker, AtWork
  <2>3. \A w \in Worker : pc'[w] = p[w] \/ (p[w] = "waiting" /\ pc'[w] = "lock")
    BY <2>1, NotifyOneSafe
  <2>4. Occupied' = Occupied
    BY <2>2, <2>3, SameOccupied DEF AtWork
  <2>5. Phase' = Phase
    BY <1>1 DEF Submit, Phase
  <2> QED
    BY <1>1, <2>4, <2>5 DEF Submit, Promise!Issue
<1>2. ASSUME NEW t \in Client, Clear(t)
      PROVE  Promise!Drop
  BY <1>2 DEF Clear, Promise!Drop, Phase, Occupied
<1>3. ASSUME NEW w \in Worker, Take(w)
      PROVE  Promise!Begin(w)
  <2>1. pc' = [pc EXCEPT ![w] = "task"] /\ pc[w] = "decide"
    BY <1>3 DEF Take
  <2>2. Occupied' = Occupied \cup {w} /\ w \notin Occupied
    BY <1>0, <2>1 DEF TypeOK, Occupied
  <2>3. Phase = "open" /\ Phase' = "open"
    BY <1>3 DEF Take, Phase
  <2> QED
    BY <1>3, <2>2, <2>3 DEF Take, Promise!Begin
<1>4. ASSUME NEW w \in Worker, TaskEnd(w)
      PROVE  Promise!Finish(w)
  <2>1. pc' = [pc EXCEPT ![w] = "lock"] /\ pc[w] \in {"task", "task_end"}
    BY <1>4 DEF TaskEnd
  <2>2. Occupied' = Occupied \ {w} /\ w \in Occupied
    BY <1>0, <2>1 DEF TypeOK, Occupied
  <2>3. Phase' = Phase
    BY <1>4 DEF TaskEnd, Phase
  <2> QED
    BY <1>4, <2>2, <2>3 DEF TaskEnd, Promise!Finish
<1>5. ASSUME NEW t \in Client, Start(t)
      PROVE  Promise!Open
  <2>1. ~is_running_ /\ workOwner = NoThread /\ joinable = {}
    BY <1>0, <1>5 DEF Start, Joined
  <2>2. \A w \in Worker : pc[w] = "off"
    BY <1>0, <2>1 DEF WorkersOrdered, AliveIsJoinable
  <2>3. PICK k \in 0..N :
          pc' = [w \in Worker |-> IF w <= k THEN "lock" ELSE pc[w]]
    BY <1>5, <2>1, PoolAssumption DEF PoolAssumption, Start
  <2>4. Occupied = {} /\ Occupied' = {}
    BY <2>2, <2>3 DEF Occupied
  <2>5. Phase = "closed" /\ Phase' = "open"
    BY <1>5, <2>1 DEF Start, Phase
  <2> QED
    BY <1>5, <2>4, <2>5 DEF Start, Promise!Open
<1>6. ASSUME NEW t \in Thread, StopClearFlag(t)
      PROVE  Promise!Close
  <2>1. Phase = "open" /\ Phase' = "closing"
    BY <1>6, ThreadFacts DEF StopClearFlag, Phase
  <2> QED
    BY <1>6, <2>1 DEF StopClearFlag, Promise!Close, Occupied
<1>7. ASSUME NEW t \in Thread, StopEnd(t)
      PROVE  Promise!Closed
  <2>1. workOwner = t /\ ~is_running_ /\ workOwner' = NoThread
    BY <1>0, <1>7, ThreadFacts DEF StopEnd, OneStop, Stopping
  <2>2. joinable = {}
    BY <1>0, <1>7, PoolAssumption
       DEF StopEnd, TypeOK, Joined, Worker, PoolAssumption
  <2>3. \A w \in Worker : pc[w] = "off"
    BY <1>0, <2>2 DEF WorkersOrdered, AliveIsJoinable
  <2>4. pc' = pc
    BY <1>0, <1>7, <2>3
       DEF StopEnd, AfterCall, WorkersOrdered, CallerInTask
  <2>5. Occupied = {} /\ Occupied' = {}
    BY <2>3, <2>4 DEF Occupied
  <2>6. Phase = "closing" /\ Phase' = "closed"
    BY <1>7, <2>1, ThreadFacts DEF StopEnd, Phase
  <2> QED
    BY <1>7, <2>5, <2>6 DEF StopEnd, Promise!Closed
(* The other steps are not visible.                                        *)
<1>8. ASSUME NEW t \in Thread, QueryEnd(t) \/ StopIdle(t)
      PROVE  UNCHANGED Promise!vars
  <2>1. \A w \in Worker : AtWork(w)' <=> AtWork(w)
    BY <1>0, <1>8, AfterCallSafe
       DEF QueryEnd, StopIdle, WorkersOrdered, AtWork
  <2> QED
    BY <1>8, <2>1, SameOccupied DEF QueryEnd, StopIdle, Promise!vars, Phase
<1>9. ASSUME NEW t \in Thread, StopNotify(t)
      PROVE  UNCHANGED Promise!vars
  <2>1. \A w \in Worker : AtWork(w)' <=> AtWork(w)
    BY <1>9 DEF StopNotify, NotifyAll, AtWork
  <2> QED
    BY <1>9, <2>1, SameOccupied DEF StopNotify, Promise!vars, Phase
<1>10. ASSUME NEW t \in Thread, StopJoinSelf(t)
       PROVE  FALSE
  <2>1. t \notin Worker /\ t \in Nat
    BY <1>0, <1>10, PoolAssumption
       DEF StopJoinSelf, TypeOK, WorkersDoNotStop, PoolAssumption
  <2> QED
    BY <2>1, ThreadFacts
<1>11. ASSUME NEW w \in Worker,
              Lock(w) \/ Predicate(w) \/ Block(w) \/ Leave(w)
                \/ SpuriousWakeup(w)
       PROVE  UNCHANGED Promise!vars
  <2>1. \A v \in Worker : AtWork(v)' <=> AtWork(v)
    BY <1>0, <1>11
       DEF Lock, Predicate, Block, Leave, SpuriousWakeup, TypeOK, AtWork
  <2>2. UNCHANGED <<is_running_, workOwner, work>>
    BY <1>11 DEF Lock, Predicate, Block, Leave, SpuriousWakeup
  <2> QED
    BY <2>1, <2>2, SameOccupied DEF Promise!vars, Phase
<1>12. ASSUME \/ \E t \in Thread : QueryBegin(t) \/ StopBegin(t) \/ StopJoin(t)
              \/ UNCHANGED vars
       PROVE  UNCHANGED Promise!vars
  BY <1>12 DEF QueryBegin, StopBegin, StopJoin, vars, Promise!vars, Phase,
               Occupied
<1> QED
  BY <1>1, <1>2, <1>3, <1>4, <1>5, <1>6, <1>7, <1>8, <1>9, <1>10, <1>11,
     <1>12 DEF Next, StopStep, WorkerStep, Promise!Next

(* If no running function stops its own pool, the pool implements the      *)
(* executor, whatever the numbers of workers, clients and works: functions *)
(* start in order and only while it runs, and it is stopped only when all  *)
(* have finished (concur.hpp:143-197).                                     *)
THEOREM ExecutorImplemented ==
  "stop" \notin TaskCalls => (Spec => ImplementsExecutor)
<1> SUFFICES ASSUME "stop" \notin TaskCalls
             PROVE  Spec => ImplementsExecutor
  OBVIOUS
<1>1. StopInv /\ StopInv' /\ [Next]_vars => [Promise!Next]_Promise!vars
  BY RefinementStep
<1>2. Spec => []StopInv
  BY StopInvCorrect
<1> QED
  BY <1>1, <1>2, RefinementInit, PTL DEF Spec, ImplementsExecutor, Promise!Spec
=============================================================================
