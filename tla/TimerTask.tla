------------------------------ MODULE TimerTask -----------------------------
(***************************************************************************)
(* The two tasks that run timers.  client_idle() (client_task.c) calls     *)
(* timer_advance() with client_lock, which whoever sets a client timer     *)
(* holds; a set wakes the task.  net_timer_wait() (net_realtek.c) runs the *)
(* timers of the Wi-Fi subsystem: it protects the list by net_timer_lock,  *)
(* but drops it before timer_run(), which still writes to the timer, and   *)
(* before it sleeps, and a set does not wake it.                           *)
(*                                                                         *)
(* Shared are the Wi-Fi timers that other tasks set and cancel: the web    *)
(* server, the console and the Wi-Fi driver call adw_wmi_timer_set() with  *)
(* the lock of the Wi-Fi subsystem, which the net task does not hold while *)
(* it takes a timer off the list.                                          *)
(***************************************************************************)
EXTENDS TimerList

CONSTANTS Shared, NoTimer

ASSUME NetTimerAssumption == Shared \subseteq Timer /\ NoTimer \notin Timer

VARIABLES
    loop,           \* which of the two tasks: "client" or "net"
    at,             \* where the task is
    taken,          \* the timer it runs
    sleep           \* what is left of the delay it waits for, -1 for ever

taskVars == <<vars, loop, at, taken, sleep>>

At == {"check", "next", "time", "handler", "wait"}

\* The types of the variables.
TaskTypeOK ==
    /\ TypeOK
    /\ loop \in {"client", "net"}
    /\ at \in At
    /\ taken \in Timer \cup {NoTimer}
    /\ sleep \in -1 .. DelayMax

TaskInit ==
    /\ Init
    /\ loop \in {"client", "net"}
    /\ at = "check" /\ taken = NoTimer /\ sleep = -1

-----------------------------------------------------------------------------
(* One turn of the loop: run a timer that has expired, or wait for the     *)
(* first one or for a callback.                                            *)
\* net_timer_wait(), with net_timer_lock.
Take ==
    /\ loop = "net" /\ at = "check" /\ Delta = 0
    /\ taken' = Head(list)
    /\ Dequeue
    /\ at' = "next"
    /\ UNCHANGED <<loop, sleep>>

\* timer_advance(), with client_lock: nothing comes before the handler.
Advance ==
    /\ loop = "client" /\ at = "check" /\ Delta = 0
    /\ taken' = Head(list)
    /\ Dequeue
    /\ at' = "handler"
    /\ UNCHANGED <<loop, sleep>>

Sleep ==
    /\ at = "check" /\ Delta # 0
    /\ sleep' = Delta
    /\ at' = "wait"
    /\ UNCHANGED <<vars, loop, taken>>

Timeout ==
    /\ at = "wait" /\ sleep = 0
    /\ at' = "check"
    /\ UNCHANGED <<vars, loop, taken, sleep>>

\* A callback was pended: its handler runs on the task.
Callback ==
    /\ at = "wait"
    /\ at' = "handler"
    /\ UNCHANGED <<vars, loop, taken, sleep>>

(* timer_run(), without the lock: timer->next = NULL, timer->time_ms = 0.  *)
UpTo(l, t) == SubSeq(l, 1, Index(l, t))

RunNext ==
    /\ at = "next"
    /\ list' = IF taken \in Elems(list) THEN UpTo(list, taken) ELSE list
    /\ at' = "time"
    /\ UNCHANGED <<now, time, due, loop, taken, sleep>>

RunTime ==
    /\ at = "time"
    /\ time' = [time EXCEPT ![taken] = 0]
    /\ at' = "handler"
    /\ UNCHANGED <<now, list, due, loop, taken, sleep>>

\* The bug of clearing the timer once its handler, which may have set it
\* again, has returned.
HandlerReturns_Clear ==
    time' = IF taken = NoTimer THEN time ELSE [time EXCEPT ![taken] = 0]

HandlerReturns == UNCHANGED time

HandlerEnd ==
    /\ at = "handler"
    /\ HandlerReturns
    /\ taken' = NoTimer
    /\ at' = "check"
    /\ UNCHANGED <<now, list, due, loop, sleep>>

\* Who sets or cancels t: a handler, or another task when it can get the
\* lock, which the client task drops only to wait.
May(t) == \/ at = "handler"
          \/ IF loop = "client" THEN at = "wait" ELSE t \in Shared

\* The bug of a set that does not make the client task wait anew.
AfterSet_Asleep == at

\* client_timer_set() pends a callback, so that a wait ends.
AfterSet == IF loop = "client" /\ at = "wait" THEN "check" ELSE at

TaskTimerSet(t, ms) ==
    /\ May(t)
    /\ TimerSet(t, ms)
    /\ at' = AfterSet
    /\ UNCHANGED <<loop, taken, sleep>>

TaskTimerCancel(t) ==
    /\ May(t)
    /\ TimerCancel(t)
    /\ UNCHANGED <<loop, at, taken, sleep>>

TaskTick ==
    /\ Tick
    /\ at = "wait" => sleep # 0
    /\ sleep' = IF at = "wait" /\ sleep > 0 THEN sleep - 1 ELSE sleep
    /\ UNCHANGED <<loop, at, taken>>

TaskNext ==
    \/ Take \/ Advance \/ Sleep \/ Timeout \/ Callback
    \/ RunNext \/ RunTime \/ HandlerEnd
    \/ \E t \in Timer, ms \in Delay : TaskTimerSet(t, ms)
    \/ \E t \in Timer : TaskTimerCancel(t)
    \/ TaskTick

TaskSpec == TaskInit /\ [][TaskNext]_taskVars
-----------------------------------------------------------------------------
(* Properties *)

\* timer_delta_get() returns -1 only if nothing is scheduled: the task does
\* not sleep for ever while a timer is on the list.
IdleMeansEmpty == Delta = -1 => list = <<>>

\* The delay until the next timer fires is not longer than that of any timer
\* on the list: the task does not sleep past one.
NoOversleep ==
    at = "wait" => \A t \in Elems(list) : sleep # -1 /\ sleep <= due[t]

\* Timers fire in the order they are due, and none before it is: skipping
\* zero costs at most a millisecond.
FiresInOrder ==
    [][Take \/ Advance => LET t == Head(list)
                         IN  /\ due[t] <= 1
                             /\ \A u \in Elems(list) : due[t] <= due[u] + 1]_taskVars
=============================================================================
