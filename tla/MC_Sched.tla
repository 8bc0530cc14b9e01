------------------------------ MODULE MC_Sched ------------------------------
(* Sched for TLC: two schedules, and what they may be set to.              *)
EXTENDS Sched

OnOff == [days |-> {1, 3}, start |-> 4, duration |-> 4, interval |-> 0,
          acts |-> <<"start", "end">>]
Repeats == [days |-> {1, 3}, start |-> 0, duration |-> 1, interval |-> 2,
            acts |-> <<"within", "end">>]
Once == [days |-> {2}, start |-> 3, duration |-> 0, interval |-> 6,
         acts |-> <<"start">>]

MCValues == <<{OnOff}, {Repeats, Once}>>
ByDay == [i \in 0 .. 1 |-> MCValues[i + 1]]
=============================================================================
