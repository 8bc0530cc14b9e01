---------------------------- MODULE MC_PropSend ----------------------------
(* Instances of PropSend: a plug with one property, switch, that is echoed. *)
EXTENDS PropSend
CONSTANTS client, app, wifi, switch, p1, p2, ads, lan
=============================================================================
