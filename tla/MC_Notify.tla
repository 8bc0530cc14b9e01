------------------------------ MODULE MC_Notify ------------------------------
(* Instances of Notify: the values of the constants are in the cfg files.    *)
EXTENDS Notify
=============================================================================
