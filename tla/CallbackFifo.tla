---------------------------- MODULE CallbackFifo ----------------------------
(***************************************************************************)
(* What a task that calls client_callback_pend() relies on: a pended       *)
(* callback is on the list of things to do exactly once, however often it  *)
(* is pended before it runs, the list is served in the order of the pends, *)
(* and everything on the list is eventually run.                           *)
(***************************************************************************)
EXTENDS Sequences, Naturals

CONSTANT Callback           \* the struct net_callback objects of one queue

VARIABLE todo               \* callbacks pended and not yet run, oldest first

Listed == {todo[i] : i \in DOMAIN todo}

Init == todo = <<>>

Pend(c) == /\ c \notin Listed
           /\ todo' = Append(todo, c)

Run == /\ todo # <<>>
       /\ todo' = Tail(todo)

Next == Run \/ \E c \in Callback : Pend(c)

Safety == Init /\ [][Next]_todo
Spec == Safety /\ WF_todo(Run)
=============================================================================
