------------------------- MODULE ClientTask_proofs -------------------------
(***************************************************************************)
(* For any number of tasks, callbacks and timers: the lock's assertions    *)
(* hold; and when every callback is pended either only under client_lock   *)
(* or only by one task, ASSERT(ac->pending) holds and, if the queue has    *)
(* room for every callback, no callback is lost and the client task never  *)
(* sleeps past a timer.                                                    *)
(***************************************************************************)
EXTENDS ClientTask, TLAPS, SequenceTheorems, FiniteSetTheorems

\* Who has the lock, at every point of client_lock() and client_unlock().
LockInv ==
    /\ LockAsserts
    /\ \A t \in Task : pc[t] \in {"stamp", "give"} => mutex = t /\ owner = NoTask
    /\ \A t \in Task : mutex = t /\ pc[t] \notin {"stamp", "give"} => owner = t

\* Where the client task can be inside those calls in each part of its loop.
IdleInv ==
    /\ ac # NoCb => at = "got"
    /\ at = "wait" => pc[Client] \in {"run", "give"} /\ owner # Client
    /\ at = "got" => pc[Client] \in {"run", "stamp"}

\* Who can be enqueueing a callback.
ArgInv == \A t \in Task : pc[t] \in {"set", "send"} <=> arg[t] # NoCb
Typed == TypeOK /\ ArgInv

SendInv ==
    /\ \A t \in Task : arg[t] # NoCb =>
          IF arg[t] \in LockedPend THEN owner = t ELSE t \in FreePenders[arg[t]]
    /\ \A t \in Task : pc[t] = "set" => ~pending[arg[t]]

\* A callback on its way has its flag set and is in one place only.
FlagInv ==
    /\ \A i \in 1..Len(queue) : pending[queue[i]]
    /\ \A i, j \in 1..Len(queue) : queue[i] = queue[j] => i = j
    /\ \A i \in 1..Len(queue) : queue[i] # ac
    /\ ac # NoCb => pending[ac]
    /\ \A t \in Task : pc[t] = "send" =>
          /\ pending[arg[t]]
          /\ arg[t] # ac
          /\ \A i \in 1..Len(queue) : queue[i] # arg[t]

IInv == Typed /\ LockInv /\ IdleInv /\ SendInv /\ FlagInv
-----------------------------------------------------------------------------
\* The types, and that a task has a callback in hand only while it enqueues.
LEMMA TypedInvariant == Spec => []Typed
<1> USE TaskAssumption, CallbackAssumption, QueueAssumption, TimerAssumption
<1>1. Init => Typed
  <2> SUFFICES ASSUME Init PROVE Typed
    OBVIOUS
  <2>1. queue \in Seq(Callback) /\ Len(queue) <= QueueLen
    BY EmptySeq DEF Init
  <2>2. QED BY <2>1 DEF Init, Typed, ArgInv, TypeOK, Pc, At
<1>2. Typed /\ [Next]_vars => Typed'
  <2> SUFFICES ASSUME Typed, [Next]_vars PROVE Typed'
    OBVIOUS
  <2> USE DEF Typed, ArgInv, TypeOK, Pc, At
  <2>1. ASSUME NEW t \in Task, TaskStep(t) PROVE Typed'
    <3>1. CASE LockTake(t)
      BY <3>1 DEF LockTake
    <3>2. CASE LockStamp(t)
      BY <3>2 DEF LockStamp
    <3>3. CASE Unlock(t)
      BY <3>3 DEF Unlock, ClearStamp, InCode
    <3>4. CASE UnlockGive(t)
      BY <3>4 DEF UnlockGive
    <3>5. CASE EnqueueSet(t)
      BY <3>5 DEF EnqueueSet, lockVars
    <3>6. CASE EnqueueSend(t)
      <4>1. arg[t] \in Callback
        BY <3>6 DEF EnqueueSend
      <4>2. queue' \in Seq(Callback)
        BY <3>6, <4>1 DEF EnqueueSend, Send
      <4>3. Len(queue') <= QueueLen
        BY <3>6, <4>1 DEF EnqueueSend, Send
      <4>4. QED BY <3>6, <4>2, <4>3 DEF EnqueueSend, lockVars
    <3>7. QED BY <2>1, <3>1, <3>2, <3>3, <3>4, <3>5, <3>6 DEF TaskStep
  <2>2. ASSUME NEW t \in Task, NEW c \in Callback, Pend(t, c) PROVE Typed'
    BY <2>2 DEF Pend, EnqueueTest, lockVars
  <2>3. ASSUME NEW t \in Task, NEW tm \in Timer, NEW d \in Deadline, TimerSet(t, tm, d)
        PROVE  Typed'
    BY <2>3 DEF TimerSet, EnqueueTest, lockVars
  <2>4. ASSUME NEW t \in Task, NEW tm \in Timer, TimerCancel(t, tm) PROVE Typed'
    BY <2>4 DEF TimerCancel, lockVars
  <2>5. ASSUME NEW tm \in Timer, TimerRun(tm) PROVE Typed'
    BY <2>5 DEF TimerRun, lockVars
  <2>6. CASE Idle
    BY <2>6 DEF Idle, ClearStamp, Active, InCode
  <2>7. CASE Dequeue
    BY <2>7, HeadTailProperties DEF Dequeue, lockVars
  <2>8. CASE Timeout
    BY <2>8 DEF Timeout, lockVars
  <2>9. CASE Dispatch
    BY <2>9 DEF Dispatch, lockVars
  <2>10. CASE UNCHANGED vars
    BY <2>10 DEF vars, lockVars
  <2>11. QED
    BY <2>1, <2>2, <2>3, <2>4, <2>5, <2>6, <2>7, <2>8, <2>9, <2>10 DEF Next
<1>3. QED BY <1>1, <1>2, PTL DEF Spec

\* Every variable of the client task's model keeps its type.
THEOREM TypeCorrect == Spec => []TypeOK
<1>1. Typed => TypeOK
  BY DEF Typed
<1>2. QED BY <1>1, TypedInvariant, PTL

-----------------------------------------------------------------------------
\* client_lock() and client_unlock() keep the stamps right for any number of
\* tasks, whatever the other operations do.
LEMMA LockInvariant == Spec => []LockInv
<1> USE TaskAssumption
<1>1. Init => LockInv
  BY DEF Init, LockInv, LockAsserts
<1>2. Typed /\ LockInv /\ [Next]_vars => LockInv'
  <2> SUFFICES ASSUME Typed, LockInv, [Next]_vars PROVE LockInv'
    OBVIOUS
  <2> USE DEF LockInv, LockAsserts, Typed, TypeOK, Pc
  <2>1. ASSUME NEW t \in Task, LockTake(t) PROVE LockInv'
    BY <2>1 DEF LockTake
  <2>2. ASSUME NEW t \in Task, LockStamp(t) PROVE LockInv'
    BY <2>2 DEF LockStamp
  <2>3. ASSUME NEW t \in Task, ClearStamp(t) PROVE LockInv'
    BY <2>3 DEF ClearStamp
  <2>4. ASSUME NEW t \in Task, UnlockGive(t) PROVE LockInv'
    BY <2>4 DEF UnlockGive
  <2>5. ASSUME NEW t \in Task, pc' = [pc EXCEPT ![t] = "set"], pc[t] = "run",
               UNCHANGED lockVars
        PROVE  LockInv'
    BY <2>5 DEF lockVars
  <2>6. ASSUME NEW t \in Task, EnqueueSet(t) \/ EnqueueSend(t) PROVE LockInv'
    BY <2>6 DEF EnqueueSet, EnqueueSend, lockVars
  <2>7. ASSUME UNCHANGED <<lockVars, pc>> PROVE LockInv'
    BY <2>7 DEF lockVars
  <2>8. ASSUME NEW t \in Task, TaskStep(t) PROVE LockInv'
    BY <2>1, <2>2, <2>3, <2>4, <2>6, <2>8 DEF TaskStep, Unlock
  <2>9. ASSUME NEW t \in Task, NEW c \in Callback, Pend(t, c) PROVE LockInv'
    BY <2>5, <2>7, <2>9 DEF Pend, EnqueueTest, InCode
  <2>10. ASSUME NEW t \in Task, NEW tm \in Timer, NEW d \in Deadline, TimerSet(t, tm, d)
         PROVE  LockInv'
    BY <2>5, <2>7, <2>10 DEF TimerSet, EnqueueTest, InCode
  <2>11. ASSUME NEW t \in Task, NEW tm \in Timer, TimerCancel(t, tm) PROVE LockInv'
    BY <2>7, <2>11 DEF TimerCancel
  <2>12. ASSUME NEW tm \in Timer, TimerRun(tm) PROVE LockInv'
    BY <2>7, <2>12 DEF TimerRun
  <2>13. CASE Idle
    BY <2>3, <2>13 DEF Idle
  <2>14. CASE Dequeue \/ Timeout \/ Dispatch
    BY <2>7, <2>14 DEF Dequeue, Timeout, Dispatch
  <2>15. CASE UNCHANGED vars
    BY <2>7, <2>15 DEF vars
  <2>16. QED
    BY <2>8, <2>9, <2>10, <2>11, <2>12, <2>13, <2>14, <2>15 DEF Next
<1>3. QED BY <1>1, <1>2, TypedInvariant, PTL DEF Spec

\* The assertions in client_lock_int() and client_unlock_int() never fail.
THEOREM LockAssertsHold == Spec => []LockAsserts
<1>1. LockInv => LockAsserts
  BY DEF LockInv
<1>2. QED BY <1>1, LockInvariant, PTL
-----------------------------------------------------------------------------
\* The client task is in none of the calls while it waits on its queue.
LEMMA IdleInvariant == Spec => []IdleInv
<1> USE TaskAssumption
<1>1. Init => IdleInv
  BY DEF Init, IdleInv
<1>2. Typed /\ LockInv /\ IdleInv /\ [Next]_vars => IdleInv'
  <2> SUFFICES ASSUME Typed, LockInv, IdleInv, [Next]_vars PROVE IdleInv'
    OBVIOUS
  <2> USE DEF IdleInv, LockInv, LockAsserts, Typed, TypeOK, Pc, At
  <2>1. ASSUME NEW t \in Task, TaskStep(t) PROVE IdleInv'
    BY <2>1 DEF TaskStep, LockTake, LockStamp, Unlock, ClearStamp, UnlockGive,
                EnqueueSet, EnqueueSend, InCode, lockVars
  <2>2. ASSUME NEW t \in Task, NEW c \in Callback, Pend(t, c) PROVE IdleInv'
    BY <2>2 DEF Pend, EnqueueTest, InCode, lockVars
  <2>3. ASSUME NEW t \in Task, NEW tm \in Timer, NEW d \in Deadline, TimerSet(t, tm, d)
        PROVE  IdleInv'
    BY <2>3 DEF TimerSet, EnqueueTest, InCode, lockVars
  <2>4. ASSUME NEW t \in Task, NEW tm \in Timer, TimerCancel(t, tm) \/ TimerRun(tm)
        PROVE  IdleInv'
    BY <2>4 DEF TimerCancel, TimerRun, InCode, lockVars
  <2>5. CASE Idle
    BY <2>5 DEF Idle, ClearStamp, InCode
  <2>6. CASE Dequeue \/ Timeout \/ Dispatch
    BY <2>6 DEF Dequeue, Timeout, Dispatch, lockVars
  <2>7. CASE UNCHANGED vars
    BY <2>7 DEF vars, lockVars
  <2>8. QED
    BY <2>1, <2>2, <2>3, <2>4, <2>5, <2>6, <2>7 DEF Next
<1>3. QED BY <1>1, <1>2, TypedInvariant, LockInvariant, PTL DEF Spec

-----------------------------------------------------------------------------
\* Two tasks never enqueue one callback at the same time.
LEMMA OneSender ==
    ASSUME AllDisciplined, Typed, LockInv, SendInv,
           NEW t \in Task, NEW u \in Task, arg[t] # NoCb, arg[t] = arg[u]
    PROVE  t = u
<1>1. arg[t] \in Callback
  BY DEF Typed, TypeOK
<1>2. Disciplined(arg[t])
  BY <1>1 DEF AllDisciplined
<1>3. CASE arg[t] \in LockedPend
  BY <1>3 DEF SendInv
<1>4. CASE arg[t] \notin LockedPend
  BY <1>2, <1>4 DEF SendInv, Disciplined
<1>5. QED BY <1>3, <1>4

\* A task about to enqueue an idle callback is its only sender.
LEMMA NoOtherSender ==
    ASSUME AllDisciplined, Typed, LockInv, SendInv,
           NEW t \in Task, pc[t] = "run", NEW c \in Callback, MayPend(t, c),
           NEW u \in Task
    PROVE  arg[u] # c
<1> USE CallbackAssumption
<1>1. SUFFICES ASSUME arg[u] = c PROVE FALSE
  OBVIOUS
<1>2. t # u
  BY <1>1 DEF Typed, TypeOK, ArgInv
<1>3. Disciplined(c)
  BY DEF AllDisciplined
<1>4. CASE c \in LockedPend
  BY <1>1, <1>2, <1>3, <1>4 DEF SendInv, Disciplined, MayPend, Holds, LockInv
<1>5. CASE c \notin LockedPend
  BY <1>1, <1>2, <1>3, <1>5 DEF SendInv, Disciplined, MayPend
<1>6. QED BY <1>4, <1>5

\* A task that calls client_timer_set() may pend client_timer_callback.
LEMMA TimerCbLocked ==
    \A t \in Task : Holds(t) => MayPend(t, TimerCb)
BY CallbackAssumption DEF MayPend

\* net_callback_enqueue()'s first step keeps SendInv.
LEMMA EnqueueTestSend ==
    ASSUME AllDisciplined, Typed, LockInv, SendInv,
           NEW t \in Task, pc[t] = "run", NEW c \in Callback, MayPend(t, c),
           EnqueueTest(t, c), UNCHANGED <<pending, lockVars>>
    PROVE  SendInv'
<1> USE CallbackAssumption DEF Typed, TypeOK
<1>1. CASE pending[c]
  BY <1>1 DEF EnqueueTest, SendInv, lockVars
<1>2. CASE ~pending[c]
  <2>1. arg' = [arg EXCEPT ![t] = c] /\ pc' = [pc EXCEPT ![t] = "set"]
    BY <1>2 DEF EnqueueTest
  <2>2. IF c \in LockedPend THEN owner = t ELSE t \in FreePenders[c]
    BY DEF MayPend, Holds, LockInv, AllDisciplined, Disciplined
  <2>3. QED BY <1>2, <2>1, <2>2 DEF SendInv, lockVars
<1>3. QED BY <1>1, <1>2

\* With disciplined callers a callback is being enqueued by one task at most,
\* and one that has read the flag as clear still finds it clear.
LEMMA CallbackInvariant ==
    ASSUME AllDisciplined PROVE Spec => [](SendInv /\ FlagInv)
<1> USE TaskAssumption, CallbackAssumption
<1>1. Init => SendInv /\ FlagInv
  BY DEF Init, SendInv, FlagInv
<1>2. Typed /\ LockInv /\ SendInv /\ FlagInv /\ [Next]_vars => SendInv'
  <2> SUFFICES ASSUME Typed, LockInv, SendInv, FlagInv, [Next]_vars PROVE SendInv'
    OBVIOUS
  <2> USE DEF Typed, TypeOK, ArgInv
  <2>1. ASSUME NEW t \in Task, LockTake(t) \/ LockStamp(t) PROVE SendInv'
    BY <2>1 DEF LockTake, LockStamp, SendInv, LockInv
  <2>2. ASSUME NEW t \in Task, pc[t] = "run", ClearStamp(t), UNCHANGED <<pending, arg>>
        PROVE  SendInv'
    BY <2>2 DEF ClearStamp, SendInv
  <2>3. ASSUME NEW t \in Task, UnlockGive(t) PROVE SendInv'
    BY <2>3 DEF UnlockGive, SendInv
  <2>4. ASSUME NEW t \in Task, EnqueueSet(t) PROVE SendInv'
    <3>1. \A u \in Task : u # t => arg[u] # arg[t]
      BY <2>4, OneSender DEF EnqueueSet
    <3>2. \A u \in Task : pc'[u] = "set" => u # t /\ pc[u] = "set"
      BY <2>4 DEF EnqueueSet
    <3>3. QED BY <2>4, <3>1, <3>2 DEF EnqueueSet, SendInv, lockVars
  <2>5. ASSUME NEW t \in Task, EnqueueSend(t) PROVE SendInv'
    BY <2>5 DEF EnqueueSend, SendInv, lockVars
  <2>6. ASSUME NEW t \in Task, TaskStep(t) PROVE SendInv'
    BY <2>1, <2>2, <2>3, <2>4, <2>5, <2>6 DEF TaskStep, Unlock, InCode
  <2>7. ASSUME NEW t \in Task, NEW c \in Callback, Pend(t, c) PROVE SendInv'
    BY <2>7, EnqueueTestSend DEF Pend, InCode
  <2>8. ASSUME NEW t \in Task, NEW tm \in Timer, NEW d \in Deadline, TimerSet(t, tm, d)
        PROVE  SendInv'
    BY <2>8, EnqueueTestSend, TimerCbLocked DEF TimerSet, InCode
  <2>9. ASSUME UNCHANGED <<pending, lockVars, pc, arg>> PROVE SendInv'
    BY <2>9 DEF SendInv, lockVars
  <2>10. ASSUME NEW t \in Task, NEW tm \in Timer, TimerCancel(t, tm) \/ TimerRun(tm)
         PROVE  SendInv'
    BY <2>9, <2>10 DEF TimerCancel, TimerRun
  <2>11. CASE Idle
    BY <2>2, <2>11 DEF Idle, InCode
  <2>12. CASE Dequeue \/ Timeout
    BY <2>9, <2>12 DEF Dequeue, Timeout
  <2>13. CASE Dispatch
    BY <2>13 DEF Dispatch, SendInv, lockVars
  <2>14. CASE UNCHANGED vars
    BY <2>9, <2>14 DEF vars
  <2>15. QED
    BY <2>6, <2>7, <2>8, <2>10, <2>11, <2>12, <2>13, <2>14 DEF Next
<1>3. Typed /\ LockInv /\ IdleInv /\ SendInv /\ FlagInv /\ [Next]_vars => FlagInv'
  <2> SUFFICES ASSUME Typed, LockInv, IdleInv, SendInv, FlagInv, [Next]_vars
               PROVE  FlagInv'
    OBVIOUS
  <2> USE DEF Typed, TypeOK, ArgInv
  <2>1. ASSUME UNCHANGED <<pending, queue, ac, arg>>,
               \A u \in Task : pc'[u] = "send" => pc[u] = "send"
        PROVE  FlagInv'
    BY <2>1 DEF FlagInv
  <2>2. ASSUME NEW t \in Task, EnqueueSet(t) PROVE FlagInv'
    <3>1. arg[t] # NoCb /\ ~pending[arg[t]] /\ arg[t] \in Callback
      BY <2>2 DEF EnqueueSet, SendInv
    <3>2. arg[t] # ac /\ \A i \in 1..Len(queue) : queue[i] # arg[t]
      BY <3>1 DEF FlagInv
    <3>3. \A u \in Task : pc'[u] = "send" => u = t \/ pc[u] = "send"
      BY <2>2 DEF EnqueueSet
    <3>4. \A i \in 1..Len(queue) : queue[i] \in Callback
      OBVIOUS
    <3>5. \A c \in Callback : pending[c] => pending'[c]
      BY <2>2, <3>1 DEF EnqueueSet
    <3>6. pending'[arg[t]]
      BY <2>2, <3>1 DEF EnqueueSet
    <3>7. \A u \in Task : pc[u] = "send" => arg[u] \in Callback
      OBVIOUS
    <3>8. UNCHANGED <<queue, arg, ac>>
      BY <2>2 DEF EnqueueSet
    <3>9. QED BY <3>2, <3>3, <3>4, <3>5, <3>6, <3>7, <3>8 DEF FlagInv
  <2>3. ASSUME NEW t \in Task, EnqueueSend(t) PROVE FlagInv'
    <3>1. arg[t] \in Callback /\ pending[arg[t]] /\ arg[t] # ac
          /\ \A i \in 1..Len(queue) : queue[i] # arg[t]
      BY <2>3 DEF EnqueueSend, FlagInv
    <3>2. \A u \in Task : pc'[u] = "send" =>
              pc[u] = "send" /\ arg'[u] = arg[u] /\ arg[u] # arg[t]
      BY <2>3, OneSender DEF EnqueueSend
    <3>3. UNCHANGED <<pending, ac>>
      BY <2>3 DEF EnqueueSend
    <3>4. CASE queue' = queue
      BY <3>2, <3>3, <3>4 DEF FlagInv
    <3>5. CASE queue' = Append(queue, arg[t])
      <4>1. Len(queue') = Len(queue) + 1
            /\ \A i \in 1..Len(queue') :
                   queue'[i] = IF i = Len(queue) + 1 THEN arg[t] ELSE queue[i]
        BY <3>1, <3>5
      <4>2. Len(queue) \in Nat
        OBVIOUS
      <4>3. \A i \in 1..Len(queue') : pending'[queue'[i]] /\ queue'[i] # ac'
        BY <3>1, <3>3, <4>1, <4>2 DEF FlagInv
      <4>4. ASSUME NEW i \in 1..Len(queue'), NEW j \in 1..Len(queue'),
                   queue'[i] = queue'[j]
            PROVE  i = j
        <5>1. CASE i = Len(queue) + 1 \/ j = Len(queue) + 1
          BY <3>1, <4>1, <4>2, <4>4, <5>1
        <5>2. CASE i \in 1..Len(queue) /\ j \in 1..Len(queue)
          BY <4>1, <4>2, <4>4, <5>2 DEF FlagInv
        <5>3. QED BY <4>1, <4>2, <5>1, <5>2
      <4>5. \A u \in Task : pc'[u] = "send" =>
                /\ pending'[arg'[u]] /\ arg'[u] # ac'
                /\ \A i \in 1..Len(queue') : queue'[i] # arg'[u]
        BY <3>2, <3>3, <4>1, <4>2 DEF FlagInv
      <4>6. QED BY <3>3, <4>3, <4>4, <4>5 DEF FlagInv
    <3>6. QED BY <2>3, <3>4, <3>5 DEF EnqueueSend, Send
  <2>4. ASSUME NEW t \in Task, TaskStep(t) PROVE FlagInv'
    <3>1. CASE LockTake(t) \/ LockStamp(t) \/ Unlock(t) \/ UnlockGive(t)
      BY <2>1, <3>1 DEF LockTake, LockStamp, Unlock, ClearStamp, UnlockGive
    <3>2. QED BY <2>2, <2>3, <2>4, <3>1 DEF TaskStep
  <2>5. ASSUME NEW t \in Task, pc[t] = "run", NEW c \in Callback, EnqueueTest(t, c),
               UNCHANGED <<pending, queue, ac>>
        PROVE  FlagInv'
    <3>1. \A u \in Task : pc'[u] = "send" =>
              pc[u] = "send" /\ arg'[u] = arg[u]
      BY <2>5 DEF EnqueueTest
    <3>2. QED BY <2>5, <3>1 DEF FlagInv
  <2>6. ASSUME NEW t \in Task, NEW c \in Callback, Pend(t, c) PROVE FlagInv'
    BY <2>5, <2>6 DEF Pend, InCode
  <2>7. ASSUME NEW t \in Task, NEW tm \in Timer, NEW d \in Deadline, TimerSet(t, tm, d)
        PROVE  FlagInv'
    BY <2>5, <2>7 DEF TimerSet, InCode
  <2>8. ASSUME NEW t \in Task, NEW tm \in Timer, TimerCancel(t, tm) \/ TimerRun(tm)
        PROVE  FlagInv'
    BY <2>1, <2>8 DEF TimerCancel, TimerRun
  <2>9. CASE Idle
    BY <2>1, <2>9 DEF Idle, ClearStamp, InCode
  <2>10. CASE Dequeue
    <3>1. queue # <<>> /\ Len(queue) \in Nat /\ Len(queue) >= 1
      BY <2>10, EmptySeq DEF Dequeue
    <3>2. ac' = queue[1] /\ Len(queue') = Len(queue) - 1
          /\ \A i \in 1..Len(queue') : queue'[i] = queue[i + 1]
      BY <2>10, <3>1, HeadTailProperties DEF Dequeue
    <3>3. \A i \in 1..Len(queue') : i + 1 \in 1..Len(queue)
      BY <3>1, <3>2
    <3>4. 1 \in 1..Len(queue) /\ \A i \in 1..Len(queue') : i + 1 # 1
      BY <3>1, <3>2
    <3>5. UNCHANGED <<pending, pc, arg>>
      BY <2>10 DEF Dequeue
    <3>6. \A i \in 1..Len(queue') : pending'[queue'[i]] /\ queue'[i] # ac'
      BY <3>2, <3>3, <3>4, <3>5 DEF FlagInv
    <3>7. \A i, j \in 1..Len(queue') : queue'[i] = queue'[j] => i = j
      <4> SUFFICES ASSUME NEW i \in 1..Len(queue'), NEW j \in 1..Len(queue'),
                          queue'[i] = queue'[j]
                   PROVE  i = j
        OBVIOUS
      <4>1. i + 1 = j + 1
        BY <3>2, <3>3 DEF FlagInv
      <4>2. QED BY <4>1, <3>1, <3>2
    <3>8. pending'[ac']
      BY <3>2, <3>4, <3>5 DEF FlagInv
    <3>9. \A u \in Task : pc'[u] = "send" =>
              /\ pending'[arg'[u]] /\ arg'[u] # ac'
              /\ \A i \in 1..Len(queue') : queue'[i] # arg'[u]
      BY <3>2, <3>3, <3>4, <3>5 DEF FlagInv
    <3>10. QED BY <3>6, <3>7, <3>8, <3>9 DEF FlagInv
  <2>11. CASE Timeout
    <3>1. queue' = <<>> /\ ac' = NoCb /\ UNCHANGED <<pending, pc, arg>>
      BY <2>11 DEF Timeout
    <3>2. QED BY <3>1 DEF FlagInv
  <2>12. CASE Dispatch
    <3>1. ac' = NoCb /\ UNCHANGED <<queue, pc, arg>>
      BY <2>12 DEF Dispatch
    <3>2. \A c \in Callback : c # ac /\ pending[c] => pending'[c]
      BY <2>12 DEF Dispatch
    <3>3. \A i \in 1..Len(queue) : queue[i] \in Callback
      OBVIOUS
    <3>4. \A u \in Task : pc[u] = "send" => arg[u] \in Callback
      OBVIOUS
    <3>5. QED BY <3>1, <3>2, <3>3, <3>4 DEF FlagInv
  <2>13. CASE UNCHANGED vars
    BY <2>1, <2>13 DEF vars
  <2>14. QED
    BY <2>4, <2>6, <2>7, <2>8, <2>9, <2>10, <2>11, <2>12, <2>13 DEF Next
<1>4. QED
  BY <1>1, <1>2, <1>3, TypedInvariant, LockInvariant, IdleInvariant, PTL DEF Spec

\* ASSERT(ac->pending) in client_idle() never fails when every callback is
\* pended only under client_lock or only by one task.
THEOREM DispatchAssertHolds == ASSUME AllDisciplined PROVE Spec => []DispatchAssert
<1>1. FlagInv => DispatchAssert
  BY DEF FlagInv, DispatchAssert
<1>2. QED BY <1>1, CallbackInvariant, PTL

-----------------------------------------------------------------------------
\* A sequence without duplicates that misses a member of a finite set is
\* shorter than the set.
LEMMA MissingMember ==
    ASSUME NEW S, IsFiniteSet(S), NEW q \in Seq(S), NEW x \in S,
           \A i, j \in 1..Len(q) : q[i] = q[j] => i = j,
           \A i \in 1..Len(q) : q[i] # x
    PROVE  Len(q) < Cardinality(S)
<1>1. IsFiniteSet(S \ {x}) /\ Cardinality(S \ {x}) = Cardinality(S) - 1
  BY FS_RemoveElement
<1>2. q \in [1..Len(q) -> S \ {x}]
  <2>1. q \in [1..Len(q) -> S]
    BY LenProperties
  <2>2. QED BY <2>1
<1>3. ~(Cardinality(S \ {x}) < Cardinality(1..Len(q)))
  <2>1. IsFiniteSet(1..Len(q))
    BY FS_Interval, LenProperties
  <2>2. QED BY <1>1, <1>2, <2>1, FS_PigeonHole
<1>4. Cardinality(1..Len(q)) = Len(q) /\ Len(q) \in Nat
  <2>1. Len(q) \in Nat /\ 1 \in Int /\ Len(q) \in Int
    BY LenProperties
  <2>2. Cardinality(1..Len(q)) = IF 1 > Len(q) THEN 0 ELSE Len(q) - 1 + 1
    BY <2>1, FS_Interval
  <2>3. QED BY <2>1, <2>2
<1>5. Cardinality(S) \in Nat
  BY FS_CardinalityType
<1>6. QED BY <1>1, <1>3, <1>4, <1>5

\* The queue has room for every callback that is about to be sent.
LEMMA SendHasRoom ==
    ASSUME RoomForAll, Typed, FlagInv, NEW t \in Task, pc[t] = "send"
    PROVE  arg[t] \in Callback /\ Len(queue) < QueueLen
<1>1. arg[t] \in Callback
  BY DEF Typed, TypeOK, ArgInv
<1>2. Len(queue) < Cardinality(Callback)
  BY <1>1, MissingMember, CallbackAssumption DEF Typed, TypeOK, FlagInv
<1>3. Cardinality(Callback) \in Nat
  BY FS_CardinalityType, CallbackAssumption
<1>4. QED
  BY <1>1, <1>2, <1>3, QueueAssumption, LenProperties DEF RoomForAll, Typed, TypeOK

\* With disciplined callers and room for every callback, a set pending flag
\* means that the callback is on its way to client_idle().
THEOREM NoCallbackIsLost ==
    ASSUME AllDisciplined, RoomForAll PROVE Spec => []NoCallbackLost
<1> USE TaskAssumption, CallbackAssumption
<1>1. Init => NoCallbackLost
  BY DEF Init, NoCallbackLost
<1>2. Typed /\ IdleInv /\ SendInv /\ FlagInv /\ NoCallbackLost /\ [Next]_vars
          => NoCallbackLost'
  <2> SUFFICES ASSUME Typed, IdleInv, SendInv, FlagInv, NoCallbackLost, [Next]_vars,
                      NEW c \in Callback, pending'[c]
               PROVE  Delivered(c)'
    BY DEF NoCallbackLost
  <2> USE DEF Typed, TypeOK, ArgInv
  <2>1. ASSUME pending[c], UNCHANGED <<queue, ac>>,
               \A t \in Task : Sending(t, c) => Sending(t, c)'
        PROVE  Delivered(c)'
    BY <2>1 DEF NoCallbackLost, Delivered, Queued
  <2>2. ASSUME NEW t \in Task, EnqueueSet(t) PROVE Delivered(c)'
    <3>1. CASE arg[t] = c
      BY <2>2, <3>1 DEF EnqueueSet, Delivered, Sending
    <3>2. CASE arg[t] # c
      BY <2>1, <2>2, <3>2 DEF EnqueueSet, Sending
    <3>3. QED BY <3>1, <3>2
  <2>3. ASSUME NEW t \in Task, EnqueueSend(t) PROVE Delivered(c)'
    <3>1. arg[t] \in Callback /\ Len(queue) < QueueLen
      BY <2>3, SendHasRoom DEF EnqueueSend
    <3>2. queue' = Append(queue, arg[t])
      BY <2>3, <3>1 DEF EnqueueSend, Send
    <3>3. DOMAIN queue = 1..Len(queue) /\ DOMAIN queue' = 1..(Len(queue) + 1)
          /\ Len(queue) \in Nat
      BY <3>1, <3>2, LenProperties
    <3>4. queue'[Len(queue) + 1] = arg[t]
          /\ \A i \in 1..Len(queue) : queue'[i] = queue[i]
      BY <3>1, <3>2
    <3>5. CASE arg[t] = c
      BY <3>3, <3>4, <3>5 DEF Delivered, Queued
    <3>6. CASE arg[t] # c
      <4>1. pending[c] /\ ac' = ac /\ \A u \in Task : Sending(u, c) => Sending(u, c)'
        BY <2>3, <3>6 DEF EnqueueSend, Sending
      <4>2. Queued(c) => Queued(c)'
        BY <3>3, <3>4 DEF Queued
      <4>3. QED BY <4>1, <4>2 DEF NoCallbackLost, Delivered
    <3>7. QED BY <3>5, <3>6
  <2>4. ASSUME NEW t \in Task, TaskStep(t) PROVE Delivered(c)'
    <3>1. CASE LockTake(t) \/ LockStamp(t) \/ Unlock(t) \/ UnlockGive(t)
      BY <2>1, <3>1 DEF LockTake, LockStamp, Unlock, ClearStamp, UnlockGive, InCode,
                        Sending
    <3>2. QED BY <2>2, <2>3, <2>4, <3>1 DEF TaskStep
  <2>5. ASSUME NEW t \in Task, pc[t] = "run", NEW d \in Callback, EnqueueTest(t, d),
               UNCHANGED <<pending, queue, ac>>
        PROVE  Delivered(c)'
    BY <2>1, <2>5 DEF EnqueueTest, Sending
  <2>6. ASSUME NEW t \in Task, NEW d \in Callback, Pend(t, d) PROVE Delivered(c)'
    BY <2>5, <2>6 DEF Pend, InCode
  <2>7. ASSUME NEW t \in Task, NEW tm \in Timer, NEW d \in Deadline, TimerSet(t, tm, d)
        PROVE  Delivered(c)'
    BY <2>5, <2>7 DEF TimerSet, InCode
  <2>8. ASSUME NEW t \in Task, NEW tm \in Timer, TimerCancel(t, tm) \/ TimerRun(tm)
        PROVE  Delivered(c)'
    BY <2>1, <2>8 DEF TimerCancel, TimerRun, Sending
  <2>9. CASE Idle
    BY <2>1, <2>9 DEF Idle, ClearStamp, InCode, Sending
  <2>10. CASE Dequeue
    <3>1. queue # <<>> /\ Len(queue) \in Nat /\ Len(queue) >= 1
          /\ DOMAIN queue = 1..Len(queue)
      BY <2>10, EmptySeq, LenProperties DEF Dequeue
    <3>2. ac' = queue[1] /\ queue' \in Seq(Callback) /\ Len(queue') = Len(queue) - 1
          /\ \A i \in 1..Len(queue') : queue'[i] = queue[i + 1]
      BY <2>10, <3>1, HeadTailProperties DEF Dequeue
    <3>3. pending[c] /\ ac # c /\ \A t \in Task : Sending(t, c) => Sending(t, c)'
      BY <2>10 DEF Dequeue, IdleInv, Sending
    <3>4. ASSUME NEW i \in 1..Len(queue), queue[i] = c PROVE Delivered(c)'
      <4>1. CASE i = 1
        BY <3>2, <3>4, <4>1 DEF Delivered
      <4>2. CASE i # 1
        <5>1. i - 1 \in 1..Len(queue') /\ (i - 1) + 1 = i
          BY <3>1, <3>2, <4>2
        <5>2. queue'[i - 1] = c
          BY <3>2, <3>4, <5>1
        <5>3. i - 1 \in DOMAIN queue'
          BY <3>2, <5>1, LenProperties
        <5>4. QED BY <5>2, <5>3 DEF Delivered, Queued
      <4>3. QED BY <4>1, <4>2
    <3>5. QED BY <3>1, <3>3, <3>4 DEF NoCallbackLost, Delivered, Queued
  <2>11. CASE Timeout
    BY <2>11 DEF Timeout, IdleInv, NoCallbackLost, Delivered, Queued, Sending
  <2>12. CASE Dispatch
    <3>1. pending[c] /\ c # ac /\ UNCHANGED <<queue, pc, arg>>
      BY <2>12 DEF Dispatch
    <3>2. QED BY <3>1 DEF NoCallbackLost, Delivered, Queued, Sending
  <2>13. CASE UNCHANGED vars
    BY <2>1, <2>13 DEF vars, Sending
  <2>14. QED
    BY <2>4, <2>6, <2>7, <2>8, <2>9, <2>10, <2>11, <2>12, <2>13 DEF Next
<1>3. QED
  BY <1>1, <1>2, TypedInvariant, IdleInvariant, CallbackInvariant, PTL DEF Spec

-----------------------------------------------------------------------------
\* With the same callers and room, client_timer_set() never leaves the client
\* task asleep past an active timer without a wakeup on its way.
THEOREM NeverOversleeps ==
    ASSUME AllDisciplined, RoomForAll PROVE Spec => []NoOversleep
<1> USE TaskAssumption, CallbackAssumption, TimerAssumption
<1>1. Init => NoOversleep
  BY DEF Init, NoOversleep
<1>2. /\ Typed /\ IdleInv /\ SendInv /\ FlagInv /\ NoCallbackLost /\ NoOversleep
      /\ [Next]_vars
      => NoOversleep'
  <2> DEFINE Coming == \/ Queued(TimerCb)
                       \/ \E t \in Task : pc[t] \in {"set", "send"} /\ arg[t] = TimerCb
  <2> SUFFICES ASSUME Typed, IdleInv, SendInv, FlagInv, NoCallbackLost, NoOversleep,
                      [Next]_vars, at' = "wait", NEW tm \in Active',
                      ~(max_wait' # 0 /\ max_wait' <= timers'[tm])
               PROVE  Coming'
    BY DEF NoOversleep
  <2> USE DEF Typed, TypeOK, ArgInv
  <2>1. TimerCb \in Callback
    OBVIOUS
  <2>2. ASSUME at = "wait", UNCHANGED <<timers, max_wait>> PROVE Coming
    BY <2>2 DEF NoOversleep, Active
  <2>3. ASSUME at = "wait", UNCHANGED <<timers, max_wait, queue>>,
               \A t \in Task : pc[t] \in {"set", "send"} =>
                   pc'[t] \in {"set", "send"} /\ arg'[t] = arg[t]
        PROVE  Coming'
    BY <2>2, <2>3 DEF Queued
  <2>4. ASSUME NEW t \in Task, EnqueueSend(t) PROVE Coming'
    <3>1. Coming
      BY <2>2, <2>4 DEF EnqueueSend
    <3>2. arg[t] \in Callback /\ Len(queue) < QueueLen
      BY <2>4, SendHasRoom DEF EnqueueSend
    <3>3. queue' = Append(queue, arg[t])
      BY <2>4, <3>2 DEF EnqueueSend, Send
    <3>4. DOMAIN queue = 1..Len(queue) /\ DOMAIN queue' = 1..(Len(queue) + 1)
          /\ Len(queue) \in Nat
      BY <3>2, <3>3, LenProperties
    <3>5. queue'[Len(queue) + 1] = arg[t]
          /\ \A i \in 1..Len(queue) : queue'[i] = queue[i]
      BY <3>2, <3>3
    <3>6. Queued(TimerCb) \/ arg[t] = TimerCb => Queued(TimerCb)'
      BY <3>4, <3>5 DEF Queued
    <3>7. \A u \in Task : u # t => pc'[u] = pc[u] /\ arg'[u] = arg[u]
      BY <2>4 DEF EnqueueSend
    <3>8. QED BY <3>1, <3>6, <3>7
  <2>5. ASSUME NEW t \in Task, TaskStep(t) PROVE Coming'
    <3>1. CASE LockTake(t) \/ LockStamp(t) \/ Unlock(t) \/ UnlockGive(t) \/ EnqueueSet(t)
      BY <2>3, <3>1 DEF LockTake, LockStamp, Unlock, ClearStamp, UnlockGive, InCode,
                        EnqueueSet
    <3>2. QED BY <2>4, <2>5, <3>1 DEF TaskStep
  <2>6. ASSUME NEW t \in Task, NEW c \in Callback, Pend(t, c) PROVE Coming'
    <3>1. \A u \in Task : pc[u] \in {"set", "send"} =>
              pc'[u] \in {"set", "send"} /\ arg'[u] = arg[u]
      BY <2>6 DEF Pend, InCode, EnqueueTest
    <3>2. QED BY <2>3, <2>6, <3>1 DEF Pend
  <2>7. ASSUME NEW t \in Task, NEW u \in Timer, NEW d \in Deadline, TimerSet(t, u, d)
        PROVE  Coming'
    <3>1. CASE pending[TimerCb]
      <4>1. ac # TimerCb
        BY <2>7 DEF TimerSet, IdleInv
      <4>2. Coming
        BY <3>1, <4>1, <2>1 DEF NoCallbackLost, Delivered, Sending
      <4>3. UNCHANGED <<pc, arg, queue>>
        BY <2>7, <3>1 DEF TimerSet, EnqueueTest
      <4>4. QED BY <4>2, <4>3 DEF Queued
    <3>2. CASE ~pending[TimerCb]
      <4>1. pc'[t] = "set" /\ arg'[t] = TimerCb
        BY <2>7, <3>2 DEF TimerSet, EnqueueTest
      <4>2. QED BY <4>1
    <3>3. QED BY <3>1, <3>2
  <2>8. ASSUME NEW t \in Task, NEW u \in Timer, TimerCancel(t, u) PROVE Coming'
    <3>1. at = "wait" /\ UNCHANGED <<max_wait, queue, pc, arg>>
      BY <2>8 DEF TimerCancel
    <3>2. tm \in Active /\ timers'[tm] = timers[tm]
      BY <2>8 DEF TimerCancel, Active
    <3>3. Coming
      BY <3>1, <3>2 DEF NoOversleep
    <3>4. QED BY <3>1, <3>3 DEF Queued
  <2>9. ASSUME NEW u \in Timer, TimerRun(u) PROVE Coming'
    BY <2>9 DEF TimerRun, InCode
  <2>10. CASE Idle
    <3>1. UNCHANGED timers /\ tm \in Active
      BY <2>10 DEF Idle, Active
    <3>2. PICK u \in Active : First(u) /\ max_wait' = timers[u]
      BY <2>10, <3>1 DEF Idle
    <3>3. max_wait' # 0 /\ max_wait' <= timers'[tm]
      BY <3>1, <3>2 DEF First, Active
    <3>4. QED BY <3>3
  <2>11. CASE Dequeue \/ Timeout \/ Dispatch
    BY <2>11 DEF Dequeue, Timeout, Dispatch
  <2>12. CASE UNCHANGED vars
    BY <2>3, <2>12 DEF vars
  <2>13. QED
    BY <2>5, <2>6, <2>7, <2>8, <2>9, <2>10, <2>11, <2>12 DEF Next
<1>3. QED
  BY <1>1, <1>2, TypedInvariant, IdleInvariant, CallbackInvariant, NoCallbackIsLost, PTL
  DEF Spec

-----------------------------------------------------------------------------
\* Every step of the tasks is a step of CallbackFifo or leaves its list alone:
\* callbacks are run in the order of their pends, each once for its pends.
THEOREM RefinesFifo ==
    ASSUME AllDisciplined, RoomForAll PROVE Spec => Fifo!Safety
<1> USE TaskAssumption, CallbackAssumption
<1>1. Init => Fifo!Init
  BY DEF Init, Fifo!Init, Todo
<1>2. Typed /\ IdleInv /\ SendInv /\ FlagInv /\ [Next]_vars => [Fifo!Next]_Todo
  <2> SUFFICES ASSUME Typed, IdleInv, SendInv, FlagInv, [Next]_vars
               PROVE  [Fifo!Next]_Todo
    OBVIOUS
  <2> USE DEF Typed, TypeOK, ArgInv
  <2>1. ASSUME UNCHANGED <<queue, ac>> PROVE [Fifo!Next]_Todo
    BY <2>1 DEF Todo
  <2>2. ASSUME NEW t \in Task, EnqueueSend(t) PROVE [Fifo!Next]_Todo
    <3> DEFINE c == arg[t]
    <3>1. c \in Callback /\ queue' = Append(queue, c) /\ ac' = ac
      BY <2>2, SendHasRoom DEF EnqueueSend, Send
    <3>2. c # ac /\ \A i \in 1..Len(queue) : queue[i] # c
      BY <2>2 DEF EnqueueSend, FlagInv
    <3>3. Todo \in Seq(Callback) /\ Todo' = Append(Todo, c)
      <4>1. CASE ac = NoCb
        BY <3>1, <4>1 DEF Todo
      <4>2. CASE ac # NoCb
        <5>1. ac \in Callback /\ <<ac>> \in Seq(Callback)
          BY <4>2
        <5>2. <<ac>> \o Append(queue, c) = Append(<<ac>> \o queue, c)
          BY <3>1, <5>1
        <5>3. QED BY <3>1, <4>2, <5>1, <5>2 DEF Todo
      <4>3. QED BY <4>1, <4>2
    <3>4. ASSUME NEW i \in DOMAIN Todo PROVE Todo[i] # c
      <4>1. CASE ac = NoCb
        BY <3>2, <4>1, LenProperties DEF Todo
      <4>2. CASE ac # NoCb
        <5>1. <<ac>> \in Seq(Callback) /\ Len(<<ac>>) = 1 /\ <<ac>>[1] = ac
          BY <4>2
        <5>2. i \in 1..(Len(queue) + 1) /\ Len(queue) \in Nat
          BY <4>2, <5>1, ConcatProperties, LenProperties DEF Todo
        <5>3. Todo[i] = IF i <= 1 THEN ac ELSE queue[i - 1]
          BY <4>2, <5>1, <5>2, ConcatProperties DEF Todo
        <5>4. QED BY <3>2, <5>2, <5>3
      <4>3. QED BY <4>1, <4>2
    <3>5. Fifo!Pend(c)
      BY <3>3, <3>4 DEF Fifo!Pend, Fifo!Listed
    <3>6. QED BY <3>1, <3>5 DEF Fifo!Next
  <2>3. ASSUME NEW t \in Task, TaskStep(t) PROVE [Fifo!Next]_Todo
    BY <2>1, <2>2, <2>3 DEF TaskStep, LockTake, LockStamp, Unlock, ClearStamp,
                            UnlockGive, EnqueueSet
  <2>4. ASSUME NEW t \in Task, NEW c \in Callback, Pend(t, c) PROVE [Fifo!Next]_Todo
    BY <2>1, <2>4 DEF Pend
  <2>5. ASSUME NEW t \in Task, NEW tm \in Timer, NEW d \in Deadline, TimerSet(t, tm, d)
        PROVE  [Fifo!Next]_Todo
    BY <2>1, <2>5 DEF TimerSet
  <2>6. ASSUME NEW t \in Task, NEW tm \in Timer, TimerCancel(t, tm) \/ TimerRun(tm)
        PROVE  [Fifo!Next]_Todo
    BY <2>1, <2>6 DEF TimerCancel, TimerRun
  <2>7. CASE Idle
    BY <2>1, <2>7 DEF Idle
  <2>8. CASE Dequeue
    <3>1. ac = NoCb /\ queue # <<>> /\ ac' = Head(queue) /\ queue' = Tail(queue)
      BY <2>8 DEF Dequeue, IdleInv
    <3>2. Head(queue) \in Callback /\ <<Head(queue)>> \o Tail(queue) = queue
      BY <3>1
    <3>3. QED BY <3>1, <3>2 DEF Todo
  <2>9. CASE Timeout
    BY <2>1, <2>9 DEF Timeout, IdleInv
  <2>10. CASE Dispatch
    <3>1. CASE ac = NoCb
      BY <2>1, <2>10, <3>1 DEF Dispatch
    <3>2. CASE ac # NoCb
      <4>1. Todo = <<ac>> \o queue /\ Todo' = queue
        BY <2>10, <3>2 DEF Dispatch, Todo
      <4>2. <<ac>> \o queue # <<>> /\ Tail(<<ac>> \o queue) = queue
        BY <3>2
      <4>3. QED BY <4>1, <4>2 DEF Fifo!Next, Fifo!Run
    <3>3. QED BY <3>1, <3>2
  <2>11. CASE UNCHANGED vars
    BY <2>1, <2>11 DEF vars
  <2>12. QED
    BY <2>3, <2>4, <2>5, <2>6, <2>7, <2>8, <2>9, <2>10, <2>11 DEF Next
<1>3. QED
  BY <1>1, <1>2, TypedInvariant, IdleInvariant, CallbackInvariant, PTL DEF Spec, Fifo!Safety
=============================================================================
