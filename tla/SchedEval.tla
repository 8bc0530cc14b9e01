----------------------------- MODULE SchedEval ------------------------------
(***************************************************************************)
(* When a schedule has its next event, and which of its actions are due:   *)
(* sched_evaluate() of schedeval.c.                                        *)
(*                                                                         *)
(* A schedule is in UTC and applies on some days, a set that stands for    *)
(* its dates, months and days of the week or month.  On them it has ranges *)
(* of time: from start_time_each_day, for duration, or every interval.     *)
(* Its actions are due at the start, at the end or within a range.         *)
(* end_time_each_day and local time are left out.                          *)
(***************************************************************************)
EXTENDS Integers, Sequences, FiniteSetsExt

CONSTANTS DayLen, LastDay   \* the length of a day, and the days there are

ASSUME DayAssumption == DayLen \in Nat \ {0} /\ LastDay \in Nat

Schedule ==
    [days: SUBSET (1 .. LastDay), start: 0 .. DayLen - 1,
     duration: 0 .. DayLen - 1, interval: 0 .. 2 * DayLen,
     acts: UNION {[1 .. n -> {"start", "end", "within"}] : n \in 0 .. 2}]

NoRange == <<0, 0>>

Day(t) == t \div DayLen
DayStart(d) == d * DayLen

\* sched_day_find_range(): the days around d on which s applies, and the
\* beginning of the day after them.
FirstDay(s, d) == Min({e \in 1 .. d : e .. d \subseteq s.days})
LastEnd(s, d) == DayStart(Max({e \in d .. LastDay : d .. e \subseteq s.days}) + 1)

\* "i.e. do something for 15 mins every 5 mins"
Interval(s) ==
    IF s.interval # 0 /\ s.interval <= s.duration
    THEN s.interval + s.duration ELSE s.interval

DurationNoInterval(s) == s.duration # 0 /\ s.interval = 0

-----------------------------------------------------------------------------
(* sched_determine_big_range(): the range around t or after it, without    *)
(* intervals, and whether t is in it.                                      *)

\* The first range on day d or later that t is not beyond.
NextBig(s, d, t) ==
    LET start(e) == DayStart(e) + s.start
        days == {e \in s.days : e >= d /\
                     (DurationNoInterval(s) => t <= start(e) + s.duration)}
        first == Min(days)
    IN IF days = {} THEN NoRange
       ELSE <<start(first), IF DurationNoInterval(s)
                            THEN start(first) + s.duration
                            ELSE LastEnd(s, first)>>

\* The range of the day of t, on which s applies.
DayRange(s, t) ==
    LET day == IF DurationNoInterval(s) THEN Day(t) ELSE FirstDay(s, Day(t))
        start == DayStart(day) + s.start
    IN <<start, IF DurationNoInterval(s) THEN start + s.duration
                ELSE LastEnd(s, Day(t))>>

In(range, t) == [in |-> range[1] <= t, range |-> range]
Later(range) == [in |-> FALSE, range |-> range]

BigInner(s, t) ==
    IF Day(t) \notin s.days THEN Later(NoRange)
    ELSE IF t <= DayRange(s, t)[2] THEN In(DayRange(s, t), t)
    ELSE Later(NextBig(s, Day(t) + 1, t))

\* The intervals of the range that t is not beyond, from the last one that
\* starts at t or before.
Littles(s, range, t) ==
    {l \in range[1] .. range[2] :
        /\ (l - range[1]) % Interval(s) = 0
        /\ l > t - Interval(s) /\ t <= l + s.duration
        /\ ~(l = range[2] /\ s.duration # 0)}

Little(s, range, t) ==
    LET l == Min(Littles(s, range, t)) IN <<l, l + s.duration>>

\* The interval of big that t is in or before, if big has any.
Narrow(s, big, t, otherwise) ==
    IF big.range = NoRange \/ ~big.in \/ s.interval = 0 THEN big.range
    ELSE IF Littles(s, big.range, t) = {} THEN otherwise
    ELSE Little(s, big.range, t)

\* sched_determine_range() with toplevel 0.
InnerRange(s, t) == Narrow(s, BigInner(s, t), t, NoRange)

\* Mutant: a range that began on the day before is over at midnight.
CarryoverNot(s, t) == NextBig(s, Day(t) + 1, t)

\* check_carryover: a range that began the day before may last.
Carryover(s, t) ==
    LET before == t - s.duration
    IN IF /\ s.duration # 0
          /\ before < DayStart(Day(t)) /\ Day(before) \in s.days
          /\ t <= InnerRange(s, before)[2]
       THEN InnerRange(s, before)
       ELSE NextBig(s, Day(t) + 1, t)

Big(s, t) ==
    IF Day(t) \in s.days /\ t <= DayRange(s, t)[2] THEN In(DayRange(s, t), t)
    ELSE Later(Carryover(s, t))

\* sched_determine_range() with toplevel 1.
DetermineRange(s, t) ==
    LET big == Big(s, t)
    IN IF t = 0 THEN NoRange
       ELSE Narrow(s, big, t, Big(s, big.range[2] + 1).range)

-----------------------------------------------------------------------------
(* sched_evaluate()                                                        *)

DueIn(s, range, t) ==
    {i \in 1 .. Len(s.acts) :
        \/ s.acts[i] = "start" /\ t = range[1]
        \/ s.acts[i] = "end" /\ t = range[2]
        \/ s.acts[i] = "within" /\ range[1] <= t /\ t < range[2]}

\* The actions, by their place in the schedule, that are due at t.
Due(s, t) == DueIn(s, DetermineRange(s, t), t)

EndNeeded(s) == \E i \in 1 .. Len(s.acts) : s.acts[i] = "end"

\* determine_next_event, or zero on "sched_eval err".
NotBefore(t, start) == IF start < t THEN 0 ELSE start
StartFrom(s, t) == NotBefore(t, DetermineRange(s, t)[1])

\* The next event at t, which is in range, before or beyond it.
EventAround(s, range, t) ==
    CASE range = NoRange -> 0
      [] t < range[1] -> range[1]
      [] t >= range[1] /\ EndNeeded(s) /\ t < range[2] -> range[2]
      [] t >= range[1] /\ EndNeeded(s) /\ t > range[2] -> 0
      [] OTHER -> StartFrom(s, range[2] + 1)

\* Mutant: the end of a range is an event only if nothing else is asked for.
NextEventNoEnd(s, t) ==
    EventAround([s EXCEPT !.acts = <<>>], DetermineRange(s, t), t)

\* The time of the next event, or zero.
NextEvent(s, t) == EventAround(s, DetermineRange(s, t), t)

-----------------------------------------------------------------------------
(* What a schedule means, from the comments on struct schedule and         *)
(* sched_determine_range(): the ranges, and the events on them.            *)
Ranges(s) ==
    IF s.interval = 0 /\ s.duration # 0
    THEN {<<DayStart(d) + s.start, DayStart(d) + s.start + s.duration>> :
             d \in s.days}
    ELSE UNION {LET first == DayStart(FirstDay(s, d)) + s.start
                    last == LastEnd(s, d)
                IN IF s.interval = 0 THEN {<<first, last>>}
                   ELSE {<<l, l + s.duration>> : l \in
                            {k \in first .. last :
                                /\ (k - first) % Interval(s) = 0
                                /\ k # last}} :
                d \in s.days}

\* An action by its place, and the time it is due.
Events(s) ==
    UNION {{<<i, IF s.acts[i] = "end" THEN range[2] ELSE range[1]>> :
               i \in {j \in 1 .. Len(s.acts) :
                         s.acts[j] = "within" => range[1] < range[2]}} :
           range \in Ranges(s)}

\* sched_evaluate() at t is right about s: the next event is in the future, no
\* event comes before it, and what is due are the events of that time.
EvaluatedRightly(s, t) ==
    /\ NextEvent(s, t) # 0 => NextEvent(s, t) > t
    /\ \A e \in Events(s) : e[2] > t => NextEvent(s, t) \in 1 .. e[2]
    /\ \A e \in Events(s) : e[2] = t => e[1] \in Due(s, t)
    /\ \A j \in Due(s, t) : s.acts[j] # "within" => <<j, t>> \in Events(s)

\* A schedule that is on for a while on each of its days, also past midnight
\* if the next day is not one of them.
OnOffSchedule(s) ==
    /\ s.interval = 0 /\ s.duration # 0
    /\ (\E d \in s.days : d + 1 \in s.days) => s.start + s.duration < DayLen
=============================================================================
