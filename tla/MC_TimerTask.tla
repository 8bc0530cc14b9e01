---------------------------- MODULE MC_TimerTask ----------------------------
(* Instances of TimerTask: two timers on a clock of sixteen milliseconds. *)
EXTENDS TimerTask
CONSTANTS ta, tb
=============================================================================
