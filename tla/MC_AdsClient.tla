---------------------------- MODULE MC_AdsClient ----------------------------
(* AdsClient for TLC: its constants are given values in the configurations. *)
EXTENDS AdsClient
=============================================================================
