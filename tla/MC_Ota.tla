------------------------------- MODULE MC_Ota -------------------------------
(* Ota for TLC: a header of one byte and two images of four, the first of  *)
(* which begins in the bytes taken for the header and the other after      *)
(* them, as in a file for both partitions.                                 *)
EXTENDS Ota
At == <<1, 5>>
=============================================================================
