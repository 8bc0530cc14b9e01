----------------------------- MODULE ClientTask -----------------------------
(***************************************************************************)
(* The client task of libada on FreeRTOS (al/ameba/client_task.c): the     *)
(* client lock with its debug stamps, the queue of net_callback pointers   *)
(* (net_realtek.c) that every task of the plug uses to get work done on    *)
(* the client task, and the timers that the client task runs under the     *)
(* lock.  Each shared access of client_lock(), client_unlock() and         *)
(* net_callback_enqueue() is a step of its own, so tasks interleave where  *)
(* the scheduler can switch them.                                          *)
(*                                                                         *)
(* What handlers do with the state they protect is left out: a handler is  *)
(* any finite sequence of lock, unlock, pend and timer calls.              *)
(***************************************************************************)
EXTENDS Naturals, Sequences, FiniteSets

CONSTANTS
    Task,           \* FreeRTOS tasks, the client task included
    Client,         \* the task that runs client_idle()
    Callback,       \* callbacks initialised for client_task_queue
    TimerCb,        \* client_timer_callback
    LockedPend,     \* callbacks that are pended with client_lock held
    FreePenders,    \* callback -> tasks that pend it without the lock
    Timer,          \* timers set with client_timer_set()
    Deadline,       \* expiry times, abstracted to a few ordered values
    QueueLen,       \* CLIENT_Q_LEN
    NoTask, NoCb

ASSUME TaskAssumption ==
    /\ Client \in Task
    /\ NoTask \notin Task
ASSUME CallbackAssumption ==
    /\ IsFiniteSet(Callback)
    /\ TimerCb \in LockedPend
    /\ LockedPend \subseteq Callback
    /\ FreePenders \in [Callback -> SUBSET Task]
    /\ NoCb \notin Callback
ASSUME QueueAssumption == QueueLen \in Nat \ {0}
ASSUME TimerAssumption == Deadline \subseteq Nat \ {0}

VARIABLES
    pending,        \* cb->pending
    queue,          \* client_task_queue: pointers, oldest first
    mutex,          \* holder of the semaphore client_mutex
    owner,          \* client_mutex_owner
    locked,         \* client_locked
    pc,             \* where a task is inside lock, unlock or enqueue
    arg,            \* the callback a task is enqueueing
    at,             \* where the client task is in client_idle()
    ac,             \* the callback client_idle() took off the queue
    timers,         \* expiry of each timer, 0 when inactive
    max_wait        \* expiry the client task sleeps until, 0 for ever

lockVars == <<mutex, owner, locked>>
vars == <<pending, queue, lockVars, pc, arg, at, ac, timers, max_wait>>

Pc == {"run", "stamp", "give", "set", "send"}
At == {"run", "wait", "got"}

TypeOK ==
    /\ pending \in [Callback -> BOOLEAN]
    /\ queue \in Seq(Callback) /\ Len(queue) <= QueueLen
    /\ mutex \in Task \cup {NoTask}
    /\ owner \in Task \cup {NoTask}
    /\ locked \in BOOLEAN
    /\ pc \in [Task -> Pc]
    /\ arg \in [Task -> Callback \cup {NoCb}]
    /\ at \in At
    /\ ac \in Callback \cup {NoCb}
    /\ timers \in [Timer -> Deadline \cup {0}]
    /\ max_wait \in Deadline \cup {0}

\* ada_init() starts the client task, which takes the lock first.
Init ==
    /\ pending = [c \in Callback |-> FALSE]
    /\ queue = <<>>
    /\ mutex = NoTask
    /\ owner = NoTask
    /\ locked = FALSE
    /\ pc = [t \in Task |-> "run"]
    /\ arg = [t \in Task |-> NoCb]
    /\ at = "got"
    /\ ac = NoCb
    /\ timers = [tm \in Timer |-> 0]
    /\ max_wait = 0

-----------------------------------------------------------------------------
\* A task runs its own code: it is not inside one of the calls below, and the
\* client task is in a handler rather than in its idle loop.
InCode(t) == pc[t] = "run" /\ (t = Client => at = "run")

\* The task is between client_lock() and client_unlock().
Holds(t) == mutex = t /\ pc[t] \in {"run", "set", "send"}

(* client_lock(): take the mutex, then stamp it. *)
LockTake(t) ==
    /\ pc[t] = "run"
    /\ t = Client => at \in {"run", "got"}
    /\ owner # t                                \* ASSERT(owner != thread)
    /\ mutex = NoTask
    /\ mutex' = t
    /\ pc' = [pc EXCEPT ![t] = "stamp"]
    /\ UNCHANGED <<pending, queue, owner, locked, arg, at, ac, timers, max_wait>>

LockStamp(t) ==
    /\ pc[t] = "stamp"
    /\ ~locked                                  \* ASSERT(!client_locked)
    /\ owner' = t
    /\ locked' = TRUE
    /\ pc' = [pc EXCEPT ![t] = "run"]
    /\ UNCHANGED <<pending, queue, mutex, arg, at, ac, timers, max_wait>>

\* The bug of giving the mutex before the stamps are cleared.
ClearStamp_GiveFirst(t) ==
    /\ owner = t
    /\ mutex' = NoTask
    /\ pc' = [pc EXCEPT ![t] = "give"]
    /\ UNCHANGED <<owner, locked>>

(* client_unlock(): clear the stamps, then give the mutex. *)
ClearStamp(t) ==
    /\ owner = t                                \* ASSERT(owner == thread)
    /\ owner' = NoTask
    /\ locked' = FALSE
    /\ pc' = [pc EXCEPT ![t] = "give"]
    /\ UNCHANGED mutex

Unlock(t) ==
    /\ InCode(t) /\ Holds(t)
    /\ ClearStamp(t)
    /\ UNCHANGED <<pending, queue, arg, at, ac, timers, max_wait>>

UnlockGive(t) ==
    /\ pc[t] = "give"
    /\ mutex' = NoTask
    /\ pc' = [pc EXCEPT ![t] = "run"]
    /\ UNCHANGED <<pending, queue, owner, locked, arg, at, ac, timers, max_wait>>
-----------------------------------------------------------------------------
(* net_callback_enqueue(): read the flag, set it, then send the pointer. *)
\* The bug of enqueueing a callback whatever its flag says.
EnqueueTest_NoCheck(t, c) ==
    /\ pc' = [pc EXCEPT ![t] = "set"]
    /\ arg' = [arg EXCEPT ![t] = c]

EnqueueTest(t, c) ==
    IF pending[c] THEN UNCHANGED <<pc, arg>>
                  ELSE /\ pc' = [pc EXCEPT ![t] = "set"]
                       /\ arg' = [arg EXCEPT ![t] = c]

\* The bug of a caller that pends a lock-protected callback without the lock.
MayPend_NoLock(t, c) == TRUE

\* Callers that document "called with lock held" hold it; the others may.
MayPend(t, c) == (c \in LockedPend /\ Holds(t)) \/ t \in FreePenders[c]

Pend(t, c) ==
    /\ InCode(t)
    /\ MayPend(t, c)
    /\ EnqueueTest(t, c)
    /\ UNCHANGED <<pending, queue, lockVars, at, ac, timers, max_wait>>

EnqueueSet(t) ==
    /\ pc[t] = "set"
    /\ pending' = [pending EXCEPT ![arg[t]] = TRUE]
    /\ pc' = [pc EXCEPT ![t] = "send"]
    /\ UNCHANGED <<queue, lockVars, arg, at, ac, timers, max_wait>>

\* The bug of a queue that holds one entry less than the callbacks need.
Send_Short(c) == queue' = IF Len(queue) < QueueLen - 1
                          THEN Append(queue, c) ELSE queue

\* xQueueSendFromISR() does not block: a full queue drops the pointer, and
\* the result is not looked at.
Send(c) == queue' = IF Len(queue) < QueueLen THEN Append(queue, c) ELSE queue

EnqueueSend(t) ==
    /\ pc[t] = "send"
    /\ Send(arg[t])
    /\ pc' = [pc EXCEPT ![t] = "run"]
    /\ arg' = [arg EXCEPT ![t] = NoCb]
    /\ UNCHANGED <<pending, lockVars, at, ac, timers, max_wait>>

-----------------------------------------------------------------------------
\* The bug of net_timer_set(): nothing reaches the queue the task waits on.
TimerSet_NoWakeup(t, tm, d) ==
    /\ InCode(t) /\ Holds(t)
    /\ timers' = [timers EXCEPT ![tm] = d]
    /\ UNCHANGED <<pending, queue, lockVars, pc, arg, at, ac, max_wait>>

(* client_timer_set() and client_timer_cancel(), ASSERT(client_locked). *)
TimerSet(t, tm, d) ==
    /\ InCode(t) /\ Holds(t)
    /\ timers' = [timers EXCEPT ![tm] = d]
    /\ EnqueueTest(t, TimerCb)                  \* wakeup client task
    /\ UNCHANGED <<pending, queue, lockVars, at, ac, max_wait>>

TimerCancel(t, tm) ==
    /\ InCode(t) /\ Holds(t)
    /\ timers' = [timers EXCEPT ![tm] = 0]
    /\ UNCHANGED <<pending, queue, lockVars, pc, arg, at, ac, max_wait>>

Active == {tm \in Timer : timers[tm] # 0}
First(tm) == tm \in Active /\ \A u \in Active : timers[tm] <= timers[u]

(* timer_advance(): run the first timer if it has expired ... *)
TimerRun(tm) ==
    /\ InCode(Client) /\ Holds(Client)
    /\ First(tm)
    /\ timers' = [timers EXCEPT ![tm] = 0]
    /\ UNCHANGED <<pending, queue, lockVars, pc, arg, at, ac, max_wait>>

\* The bug of a wait that ends before the timer it is for.
Idle_Early ==
    /\ InCode(Client) /\ Holds(Client)
    /\ IF Active = {} THEN max_wait' = 0
       ELSE \E tm \in Active : First(tm) /\ max_wait' = timers[tm] - 1
    /\ ClearStamp(Client)
    /\ at' = "wait"
    /\ UNCHANGED <<pending, queue, arg, ac, timers>>

(* ... or return how long to wait for it, and drop the lock to wait. *)
Idle ==
    /\ InCode(Client) /\ Holds(Client)
    /\ IF Active = {} THEN max_wait' = 0
                      ELSE \E tm \in Active : First(tm) /\ max_wait' = timers[tm]
    /\ ClearStamp(Client)
    /\ at' = "wait"
    /\ UNCHANGED <<pending, queue, arg, ac, timers>>

(* net_callback_wait(): the head of the queue, or NULL after max_wait. *)
Dequeue ==
    /\ at = "wait" /\ pc[Client] = "run"
    /\ queue # <<>>
    /\ ac' = Head(queue)
    /\ queue' = Tail(queue)
    /\ at' = "got"
    /\ UNCHANGED <<pending, lockVars, pc, arg, timers, max_wait>>

Timeout ==
    /\ at = "wait" /\ pc[Client] = "run"
    /\ queue = <<>> /\ max_wait # 0
    /\ ac' = NoCb
    /\ at' = "got"
    /\ UNCHANGED <<pending, queue, lockVars, pc, arg, timers, max_wait>>

\* The lock is back: clear the flag and run the handler, if there is one.
Dispatch ==
    /\ at = "got" /\ pc[Client] = "run" /\ mutex = Client
    /\ ac # NoCb => pending[ac]                 \* ASSERT(ac->pending)
    /\ pending' = IF ac = NoCb THEN pending ELSE [pending EXCEPT ![ac] = FALSE]
    /\ ac' = NoCb
    /\ at' = "run"
    /\ UNCHANGED <<queue, lockVars, pc, arg, timers, max_wait>>
-----------------------------------------------------------------------------
TaskStep(t) == \/ LockTake(t) \/ LockStamp(t) \/ Unlock(t) \/ UnlockGive(t)
               \/ EnqueueSet(t) \/ EnqueueSend(t)

Next ==
    \/ \E t \in Task : TaskStep(t)
    \/ \E t \in Task, c \in Callback : Pend(t, c)
    \/ \E t \in Task, tm \in Timer, d \in Deadline : TimerSet(t, tm, d)
    \/ \E t \in Task, tm \in Timer : TimerCancel(t, tm)
    \/ \E tm \in Timer : TimerRun(tm)
    \/ Idle \/ Dequeue \/ Timeout \/ Dispatch

Spec == Init /\ [][Next]_vars

\* A task that is inside one of the calls leaves it, a handler ends, and the
\* mutex is not taken for ever from under the client task (tasks of one
\* priority queue for it in order, and each holder gives it back).
Fairness ==
    /\ \A t \in Task : /\ WF_vars(LockStamp(t)) /\ WF_vars(UnlockGive(t))
                       /\ WF_vars(EnqueueSet(t)) /\ WF_vars(EnqueueSend(t))
    /\ \A t \in Task \ {Client} : SF_vars(Unlock(t))
    /\ SF_vars(LockTake(Client))
    /\ SF_vars(Idle) /\ WF_vars(Dequeue) /\ WF_vars(Dispatch)

FairSpec == Spec /\ Fairness
-----------------------------------------------------------------------------
(* Properties *)

\* The assertions of client_lock_int() and client_unlock_int(): whoever has
\* just taken the mutex finds it unstamped, and a stamp names its holder, so
\* the client_locked that callees assert is never another task's.
LockAsserts ==
    /\ \A t \in Task : pc[t] = "stamp" => ~locked
    /\ \A t \in Task : owner = t => mutex = t
    /\ locked <=> owner # NoTask

\* ASSERT(ac->pending) in client_idle(): the flag of a callback that came off
\* the queue is still set when the client task has the lock back.
DispatchAssert == ac # NoCb => pending[ac]

\* A callback is delivered if it is queued, in the hands of client_idle(), or
\* about to be sent by the task that set its flag.
Queued(c) == \E i \in DOMAIN queue : queue[i] = c
Sending(t, c) == pc[t] = "send" /\ arg[t] = c
Delivered(c) == Queued(c) \/ ac = c \/ \E t \in Task : Sending(t, c)

\* net_callback_enqueue() does nothing when the flag is set: that is right
\* only if a set flag means that the callback is on its way.
NoCallbackLost == \A c \in Callback : pending[c] => Delivered(c)

\* client_timer_set() pends a callback that does nothing, to make the client
\* task compute its wait again: it never sleeps past an active timer with
\* nothing on its way to wake it.
NoOversleep ==
    at = "wait" =>
        \A tm \in Active : \/ max_wait # 0 /\ max_wait <= timers[tm]
                           \/ Queued(TimerCb)
                           \/ \E t \in Task : /\ pc[t] \in {"set", "send"}
                                              /\ arg[t] = TimerCb

\* A pended callback is run.
EventuallyRun == \A c \in Callback : pending[c] ~> ~pending[c]

\* The pended callbacks in the order client_idle() will run them.
Todo == IF ac = NoCb THEN queue ELSE <<ac>> \o queue
Fifo == INSTANCE CallbackFifo WITH todo <- Todo

\* Every pend puts its callback on the list once and every dispatch runs the
\* oldest: the queue and the flags implement CallbackFifo.
ImplementsFifo == Fifo!Spec

\* How a callback may be pended from several tasks: only with the lock, or
\* only by one task.
Disciplined(c) ==
    IF c \in LockedPend THEN FreePenders[c] = {}
                        ELSE \A t, u \in FreePenders[c] : t = u

AllDisciplined == \A c \in Callback : Disciplined(c)
RoomForAll == Cardinality(Callback) <= QueueLen
=============================================================================
