----------------------------- MODULE TimerList -----------------------------
(***************************************************************************)
(* The timers of libayla (timer.c): a list of timers in the order they     *)
(* expire, on a millisecond clock that wraps around.  timer_set() finds    *)
(* the place of a timer with clock_gt(), which compares two times of the   *)
(* clock by the sign of their difference.  These are the operations on a   *)
(* list; TimerTask has the tasks that run them.                            *)
(*                                                                         *)
(* due is not in the code: how far ahead of now the expiry that the caller *)
(* asked for is, with no wrap-around.                                      *)
(***************************************************************************)
EXTENDS Integers, Sequences, FiniteSets

CONSTANTS
    Timer,          \* the timers of one timer_head
    Wrap,           \* the clock counts modulo Wrap: 2^32 in the code
    Delay,          \* delays that callers ask for
    MaxLate         \* bound: how late the task may come to run a timer

ASSUME TimerListAssumption ==
    /\ IsFiniteSet(Timer)
    /\ Wrap \in Nat /\ Wrap >= 4 /\ Wrap % 2 = 0
    /\ Delay \subseteq Nat /\ MaxLate \in Nat

VARIABLES
    now,            \* time_now()
    list,           \* the timers from head->first on
    time,           \* time_ms, 0 when inactive
    due             \* ghost: requested expiry - now

vars == <<now, list, time, due>>

\* TIMER_DELAY_MAX, 0x7fffffff.
DelayMax == Wrap \div 2 - 1

Elems(l) == {l[i] : i \in DOMAIN l}

TypeOK ==
    /\ now \in 0 .. Wrap - 1
    /\ list \in Seq(Timer)
    /\ time \in [Timer -> 0 .. Wrap - 1]
    /\ due \in [Timer -> Int]

Init ==
    /\ now \in 0 .. Wrap - 1
    /\ list = <<>>
    /\ time = [t \in Timer |-> 0]
    /\ due = [t \in Timer |-> 0]
-----------------------------------------------------------------------------
\* (int)(a - b) > 0
ClockGt(a, b) == (a - b) % Wrap \in 1 .. DelayMax

Clamped(ms) == IF ms > DelayMax THEN DelayMax ELSE ms

\* The time of a timer set now; zero means inactive, so it is skipped.
Expiry(ms) ==
    LET e == (now + Clamped(ms)) % Wrap
    IN  IF e = 0 THEN Wrap - 1 ELSE e

\* The first place of a timer that is on the list.
Index(l, t) ==
    CHOOSE i \in DOMAIN l : l[i] = t /\ \A j \in 1 .. i - 1 : l[j] # t

\* The loop of timer_cancel(): *prev = node->next.
Without(l, t) ==
    IF t \in Elems(l)
    THEN LET i == Index(l, t)
         IN  SubSeq(l, 1, i - 1) \o SubSeq(l, i + 1, Len(l))
    ELSE l

\* The bug of a list in the order timers were set.
Place_Last(l, e) == Len(l) + 1

\* Before the first timer that is later, or at the end.
Place(l, e) ==
    CHOOSE i \in 1 .. Len(l) + 1 :
        /\ i <= Len(l) => ClockGt(time[l[i]], e)
        /\ \A j \in 1 .. i - 1 : ~ClockGt(time[l[j]], e)

Insert(l, t, e) ==
    LET i == Place(l, e)
    IN  SubSeq(l, 1, i - 1) \o <<t>> \o SubSeq(l, i, Len(l))

\* The list a timer is put into: a timer that is active is taken off first.
CancelList(t) == IF time[t] # 0 THEN Without(list, t) ELSE list

(* timer_set() *)
TimerSet(t, ms) ==
    LET e == Expiry(ms)
    IN  /\ list' = Insert(CancelList(t), t, e)
        /\ time' = [time EXCEPT ![t] = e]
        /\ due' = [due EXCEPT ![t] = Clamped(ms)]
        /\ UNCHANGED now

(* timer_cancel(): a timer that is not on the list is left alone. *)
TimerCancel(t) ==
    /\ t \in Elems(list)
    /\ list' = Without(list, t)
    /\ time' = [time EXCEPT ![t] = 0]
    /\ UNCHANGED <<now, due>>

\* Not in the future.
Expired(t) == ~ClockGt(time[t], now)

\* timer_delta_get(), and what timer_advance() returns: -1 if nothing is
\* scheduled, or the delay until the first timer.
Delta == IF list = <<>> \/ time[Head(list)] = 0 THEN -1
         ELSE IF Expired(Head(list)) THEN 0
              ELSE (time[Head(list)] - now) % Wrap

\* timer_first_dequeue(): head->first = timer->next, timer->time_ms = 0.
Dequeue ==
    /\ list' = Tail(list)
    /\ time' = [time EXCEPT ![Head(list)] = 0]
    /\ UNCHANGED <<now, due>>

\* A millisecond passes; no timer on the list is later than MaxLate.
Tick ==
    /\ \A t \in Elems(list) : due[t] > -MaxLate
    /\ now' = (now + 1) % Wrap
    /\ due' = [t \in Timer |-> IF t \in Elems(list) THEN due[t] - 1 ELSE due[t]]
    /\ UNCHANGED <<list, time>>
-----------------------------------------------------------------------------
(* Properties *)

\* A timer is on the list once if it is active, and not at all otherwise.
ListedOnce ==
    /\ \A t \in Timer : (time[t] # 0) <=> t \in Elems(list)
    /\ Len(list) = Cardinality(Elems(list))
=============================================================================
