---------------------------- MODULE MC_ConfStore ----------------------------
(* Instances of ConfStore: two names and two values. *)
EXTENDS ConfStore
CONSTANTS a, b, v1, v2

Normal(n, V) == [name : {n}, fact : {FALSE}, val : V]
Factory(n, V) == [name : {n}, fact : {TRUE}, val : V]

\* One variable is changed and deleted, the other is set as a factory item
\* and then changed.
MixedPuts == Normal(a, {v1, v2, None}) \cup Factory(b, {v1, v2}) \cup Normal(b, {v1})

\* A variable is set as a factory item and then changed.
OverriddenPuts == Factory(a, {v1}) \cup Normal(a, {v2})
=============================================================================
