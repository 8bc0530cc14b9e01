------------------------------- MODULE Sched --------------------------------
(***************************************************************************)
(* The schedules of the device (sched.c): they come from the service, are  *)
(* evaluated up to the present whenever one of them or the clock is set    *)
(* and whenever the timer for the next event expires, and their actions    *)
(* are then run.                                                           *)
(*                                                                         *)
(* The handlers run in the client task, each as one step, but for          *)
(* sched_run_all(): its loop has a step for each schedule that it looks    *)
(* at, and between them only a restart can come, as the client task has    *)
(* client_lock.  A run takes no time.                                      *)
(***************************************************************************)
EXTENDS SchedEval, Picks

CONSTANTS
    N,              \* nsched
    Values,         \* Values[i]: what the service may set schedule i to
    ClockTimes,     \* what the clock may be set to
    MaxTime,        \* bound on the time
    TimerWrap       \* the range of the timer's delay: 2^32 ms

Slot == 0 .. N - 1
NoSched == [days |-> {}, start |-> 0, duration |-> 0, interval |-> 0, acts |-> <<>>]
Off == -1

ASSUME SchedAssumption ==
    /\ N \in Nat \ {0} /\ TimerWrap \in Nat \ {0} /\ MaxTime \in Nat
    /\ DayLen <= MaxTime
    /\ \A i \in Slot : Values[i] \subseteq Schedule
    /\ ClockTimes \subseteq DayLen .. MaxTime

VARIABLES
    utc,            \* clock_utc()
    clock_set,      \* clock_source() > CS_DEF
    enabled,
    val,            \* mod_scheds, NoSched where there is none
    stored,         \* ... as it was persisted
    save_needed,
    bb_run_time,    \* adap_sched_run_time_read(); zero after a restart
    next_fire,      \* next_fire_sched
    timer,          \* time left until sched_timeout(), or Off
    \* sched_run_all()
    phase,          \* "idle", "look" at the schedules, or "looked" at them all
    run_time,       \* the time at which they are evaluated
    start, cur,     \* the first one and the next one to be looked at
    earliest,       \* earliest_event, Off for MAX_U32
    actions,        \* those that are pending, with the time they were due
    \* history
    since,          \* when each schedule was last run, or the second before
                    \* it was set
    cause           \* why the timer expires: an "event", a schedule was "set",
                    \* or a "poke" for any other reason

confVars == <<clock_set, enabled, val, stored, save_needed>>
loopVars == <<phase, run_time, start, cur, earliest, actions>>
vars == <<utc, confVars, bb_run_time, next_fire, timer, loopVars, since, cause>>

\* The schedules there may be, and the actions in them.
AllValues == {NoSched} \cup UNION {Values[s] : s \in Slot}
Act == {<<s, j>> : s \in Slot, j \in 1 .. 2}
Pended == [act : Act, at : Nat]

\* The types of the variables; in particular the timer is never set further
\* ahead than timer_set() can tell from a time that has passed.
SchedTypeOK ==
    /\ utc \in DayLen .. MaxTime
    /\ clock_set \in BOOLEAN /\ enabled \in BOOLEAN /\ save_needed \in BOOLEAN
    /\ val \in [Slot -> AllValues] /\ stored \in [Slot -> AllValues]
    /\ bb_run_time \in 0 .. MaxTime + 1 /\ next_fire \in Slot
    /\ timer \in {Off} \cup 0 .. TimerWrap \div 2
    /\ phase \in {"idle", "look", "looked"}
    /\ run_time \in 0 .. MaxTime + 1 /\ start \in Slot /\ cur \in Slot
    /\ earliest \in {Off} \cup Nat /\ actions \in Seq(Pended)
    /\ since \in [Slot -> 0 .. MaxTime]
    /\ cause \in {"event", "set", "poke"}

Init ==
    /\ utc = DayLen /\ clock_set = FALSE /\ enabled = FALSE
    /\ val = [s \in Slot |-> NoSched] /\ stored = val /\ save_needed = FALSE
    /\ bb_run_time = 0 /\ next_fire = 0 /\ timer = Off
    /\ phase = "idle" /\ run_time = 0 /\ start = 0 /\ cur = 0
    /\ earliest = Off /\ actions = <<>>
    /\ since = [s \in Slot |-> 0] /\ cause = "event"

-----------------------------------------------------------------------------
(* sched_timeout(), and what sched_run_all() does before its loop.         *)

MayRun == enabled /\ clock_set

\* A saved time that is in the future "can't be trusted".
Trusted == bb_run_time # 0 /\ bb_run_time <= utc

\* Where a run starts.
From == IF Trusted THEN bb_run_time ELSE utc

StartRun ==
    /\ phase' = "look" /\ run_time' = From
    /\ next_fire' = IF Trusted THEN next_fire ELSE 0
    /\ start' = next_fire' /\ cur' = next_fire'

\* Mutant: schedules are persisted only by a timeout that runs them.
SaveLess ==
    /\ stored' = IF save_needed /\ MayRun THEN val ELSE stored
    /\ save_needed' = FALSE

\* adap_sched_conf_persist(), if there are changes.
Save ==
    /\ stored' = IF save_needed THEN val ELSE stored
    /\ save_needed' = FALSE

Timeout ==
    /\ phase = "idle" /\ timer = 0
    /\ Save
    /\ timer' = Off
    /\ IF MayRun THEN StartRun
                 ELSE UNCHANGED <<phase, run_time, start, cur, next_fire>>
    /\ UNCHANGED <<utc, clock_set, enabled, val, bb_run_time, earliest, actions,
                   since, cause>>

-----------------------------------------------------------------------------
(* The loop of sched_run_all().                                            *)

\* sched_evaluate() of every schedule there may be, at every time: the list of
\* the actions that are due, and the time of the next event.
DueActs == [s \in Slot |-> [v \in AllValues |-> [t \in 0 .. MaxTime |->
               Picked([j \in 1 .. Len(v.acts) |-> [act |-> <<s, j>>, at |-> t]],
                      Due(v, t))]]]
NextTime == [v \in AllValues |-> [t \in 0 .. MaxTime |-> NextEvent(v, t)]]

\* The places in p of actions that are not in q.
Without(p, q) ==
    {k \in 1 .. Len(p) : \A j \in 1 .. Len(q) : p[k].act # q[j].act}

\* Mutant: an action that is pending keeps its place.
PendOnce(pend, acts) == {pend \o new : new \in Picked(acts, Without(acts, pend))}

\* sched_action_pend(): "If already pending, move it to the end".
Pend(pend, acts) == {kept \o acts : kept \in Picked(pend, Without(pend, acts))}

\* A schedule is looked at: what is due is pended, and its next event may be
\* the earliest.
Look ==
    /\ phase = "look"
    /\ \E acts \in DueActs[cur][val[cur]][run_time] : actions' \in Pend(actions, acts)
    /\ LET next == NextTime[val[cur]][run_time]
       IN IF next # 0 /\ (earliest = Off \/ next < earliest)
          THEN earliest' = next /\ next_fire' = cur
          ELSE UNCHANGED <<earliest, next_fire>>
    /\ cur' = IF cur + 1 = N THEN 0 ELSE cur + 1
    /\ phase' = IF cur' = start THEN "looked" ELSE "look"
    /\ UNCHANGED <<utc, confVars, bb_run_time, timer, run_time, start, since, cause>>

\* The earliest event is not in the future: run_schedules.
Again ==
    /\ phase = "looked" /\ earliest # Off /\ earliest <= utc
    /\ phase' = "look" /\ run_time' = earliest /\ earliest' = Off
    /\ start' = next_fire /\ cur' = next_fire
    /\ UNCHANGED <<utc, confVars, bb_run_time, next_fire, timer, actions, since,
                   cause>>

\* Mutant: the delay is multiplied without overflow.
DelayWide(seconds) == seconds

\* client_timer_set() of a delay that is multiplied in 32 bits.
Delay(seconds) ==
    IF seconds % TimerWrap < TimerWrap \div 2 THEN seconds % TimerWrap
                                              ELSE TimerWrap \div 2

\* Mutant: the events of the present second are run again.
ResumeNow == utc

\* Where the next run goes on.
Resume == utc + 1

EndRun ==
    phase' = "idle" /\ start' = 0 /\ cur' = 0 /\ earliest' = Off /\ actions' = <<>>

\* The timer is set for what is in the future, and the actions are run.
Finish ==
    /\ phase = "looked" /\ (earliest # Off => earliest > utc)
    /\ timer' = IF earliest = Off THEN Off ELSE Delay(earliest - utc)
    /\ run_time' = IF earliest = Off THEN run_time ELSE Resume
    /\ bb_run_time' = run_time'
    /\ EndRun
    /\ since' = [s \in Slot |-> utc]
    /\ cause' = IF timer' = 0 THEN "poke" ELSE "event"
    /\ UNCHANGED <<utc, confVars, next_fire>>

-----------------------------------------------------------------------------
(* Other events.                                                           *)

\* sched_time_update()
TimeUpdate(why) == timer' = 0 /\ cause' = IF cause = "set" THEN cause ELSE why

\* ada_sched_enable(), when the configuration is committed.
Enable ==
    /\ phase = "idle" /\ ~enabled /\ enabled' = TRUE
    /\ TimeUpdate("poke")
    /\ since' = [s \in Slot |-> utc - 1]
    /\ UNCHANGED <<utc, clock_set, val, stored, save_needed, bb_run_time,
                   next_fire, loopVars>>

\* sched_prop_recv()
Recv == \E s \in Slot : \E v \in Values[s] :
    /\ phase = "idle" /\ enabled /\ val[s] # v
    /\ val' = [val EXCEPT ![s] = v] /\ save_needed' = TRUE
    /\ since' = [since EXCEPT ![s] = IF @ < utc THEN utc - 1 ELSE @]
    /\ TimeUpdate("set")
    /\ UNCHANGED <<utc, clock_set, enabled, stored, bb_run_time, next_fire,
                   loopVars>>

\* client_clock_set(), with PME_TIME for schedules that are enabled.
ClockSet == \E t \in ClockTimes :
    /\ phase = "idle" /\ t # utc
    /\ utc' = t /\ clock_set' = TRUE
    /\ since' = IF clock_set THEN since ELSE [s \in Slot |-> t - 1]
    /\ IF enabled THEN TimeUpdate("poke") ELSE UNCHANGED <<timer, cause>>
    /\ UNCHANGED <<enabled, val, stored, save_needed, bb_run_time, next_fire,
                   loopVars>>

Tick ==
    /\ phase = "idle" /\ utc < MaxTime /\ utc' = utc + 1
    /\ timer' = IF timer > 0 THEN timer - 1 ELSE timer
    /\ UNCHANGED <<confVars, bb_run_time, next_fire, loopVars, since, cause>>

\* The saved run time is not kept (demo_sched_saved_run_time).
Restart ==
    /\ enabled
    /\ clock_set' = FALSE /\ enabled' = FALSE /\ val' = stored
    /\ save_needed' = FALSE /\ bb_run_time' = 0 /\ next_fire' = 0
    /\ timer' = Off /\ EndRun /\ run_time' = 0
    /\ since' = [s \in Slot |-> utc - 1] /\ cause' = "event"
    /\ UNCHANGED <<utc, stored>>

Next == \/ Timeout \/ Look \/ Again \/ Finish
        \/ Enable \/ Recv \/ ClockSet \/ Tick \/ Restart

Spec == Init /\ [][Next]_vars
-----------------------------------------------------------------------------
\* sched_evaluate() is right about the schedules there may be.
Evaluated ==
    \A v \in AllValues : \A t \in DayLen .. MaxTime : EvaluatedRightly(v, t)

EventsOf == [v \in AllValues |-> Events(v)]

(* While nothing is to be run at once, the timer expires no later than the *)
(* next event of any schedule, also when the delay does not fit 32 bits.   *)
Armed ==
    MayRun /\ phase = "idle" /\ timer # 0 =>
        \A s \in Slot : \A e \in EventsOf[val[s]] :
            e[2] > utc => timer # Off /\ utc + timer <= e[2]

(* A schedule that was received is in flash, or is about to be saved.      *)
Kept == stored = val \/ (save_needed /\ timer = 0)

(* "Fire events as time progresses to current utc time": no event of a     *)
(* schedule is passed over, whatever is set in between and however late    *)
(* the timer is, from the first run on, unless the clock is set back.      *)
NoEventMissed ==
    [][Finish /\ Trusted =>
         \A s \in Slot : \A e \in EventsOf[val[s]] :
             since[s] < e[2] /\ e[2] <= utc =>
                 \E k \in 1 .. Len(actions) :
                     actions[k].act = <<s, e[1]>> /\ actions[k].at >= e[2]]_vars

(* "so the actions are chronological": of the actions at the start and the *)
(* end of ranges, the one that is run last had the last event.             *)
Starts(act) == val[act[1]].acts[act[2]] # "within"
LastEvent(act) ==
    Max({e[2] : e \in {f \in EventsOf[val[act[1]]] : f[1] = act[2] /\ f[2] <= utc}})
Chronological ==
    [][Finish => \A j, k \in 1 .. Len(actions) :
           j < k /\ Starts(actions[j].act) /\ Starts(actions[k].act) =>
               LastEvent(actions[j].act) <= LastEvent(actions[k].act)]_vars

(* What the timer runs by itself has not been run before.                  *)
OnlyNewActs ==
    \A k \in 1 .. Len(actions) :
        Starts(actions[k].act) => actions[k].at > since[actions[k].act[1]]
OnlyNew == [][Finish /\ cause = "event" => OnlyNewActs]_vars

(* "Fire events as time progresses": a run because the clock was set, with *)
(* no other schedule since, does not run again what the last one ran.      *)
NotAgain == [][Finish /\ Trusted /\ cause # "set" => OnlyNewActs]_vars
=============================================================================
