----------------------------- MODULE NotifySpec -----------------------------
(***************************************************************************)
(* What the notification client (notify.c) promises to the client of the   *)
(* service, without sockets, messages, sequence numbers and the search for *)
(* a keep-alive period: its state, the event it posts, and whether it will *)
(* act by itself because its timer is set or a DNS lookup is pending.      *)
(* Notify implements it; AdsClient uses it.                                *)
(***************************************************************************)
VARIABLES
    state,          \* client_state of the notifier
    event,          \* it has posted an event: the client's callback is pended
    timer,          \* its timer is set
    lookup          \* a DNS lookup is pending

npVars == <<state, event, timer, lookup>>

NpState == {"DOWN", "DNS_PASS", "REGISTER", "UP", "CHANGE_WAIT", "DOWN_RETRY"}

\* The types of the variables.
NpTypeOK ==
    /\ state \in NpState
    /\ event \in BOOLEAN /\ timer \in BOOLEAN /\ lookup \in BOOLEAN

NpInit == state = "DOWN" /\ event = FALSE /\ timer = FALSE /\ lookup = FALSE

\* The states a step may end in, with what goes with them.
Enter(s, t, e) == state' = s /\ timer' = t /\ event' = e

GoDown == Enter("DOWN", FALSE, TRUE)
GoDownRetry == Enter("DOWN_RETRY", FALSE, TRUE)

-----------------------------------------------------------------------------
(* Calls of the client.                                                    *)

\* np_stop() does not cancel a lookup.
Stop == Enter("DOWN", FALSE, event) /\ UNCHANGED lookup

\* np_set_server(), np_retry_server()
SetServer ==
    \/ /\ lookup' = TRUE /\ UNCHANGED <<state, timer, event>>
    \/ /\ ~lookup /\ state # "DOWN_RETRY"
       /\ GoDown /\ UNCHANGED lookup
    \/ /\ ~lookup /\ state = "DOWN_RETRY"
       /\ Enter(state, TRUE, event) /\ UNCHANGED lookup

\* ... right after np_stop().
StopSetServer ==
    \/ /\ lookup' = TRUE /\ Enter("DOWN", FALSE, event)
    \/ /\ ~lookup /\ GoDown /\ UNCHANGED lookup

\* np_start() on the event of DNS_PASS.
Start ==
    /\ Enter("REGISTER", TRUE, FALSE) \/ GoDown
    /\ UNCHANGED lookup

\* np_event_get() in any other case.
EventGet ==
    /\ Enter(state, timer \/ state = "DOWN_RETRY", FALSE)
    /\ UNCHANGED lookup

-----------------------------------------------------------------------------
(* What the notifier does by itself.                                       *)

\* np_dns_cb()
Resolved ==
    /\ lookup /\ lookup' = FALSE
    /\ \/ state \in {"REGISTER", "UP"} /\ UNCHANGED <<state, timer, event>>
       \/ state = "DOWN_RETRY" /\ Enter(state, TRUE, event)
       \/ /\ state \in {"DOWN", "DNS_PASS", "CHANGE_WAIT"}
          /\ Enter("DNS_PASS", timer, TRUE) \/ UNCHANGED <<state, timer, event>>

\* np_bring_up(), whose first keep-alive may fail.
BringUp ==
    /\ state \in {"REGISTER", "DOWN_RETRY"}
    /\ Enter("UP", TRUE, TRUE) \/ GoDownRetry
    /\ UNCHANGED lookup

\* Registration fails, or is tried again: by the timer, or by ANS.
Registering ==
    /\ state \in {"REGISTER", "UP"}
    /\ Enter("REGISTER", TRUE, event) \/ GoDown
    /\ UNCHANGED lookup

\* Keep-alives and reach checks while UP; the timer is always set again.
KeepAlive ==
    /\ state = "UP"
    /\ Enter("UP", TRUE, event) \/ GoDownRetry
    /\ UNCHANGED lookup

\* ANS cannot be reached: checks go on, first of all of its name.
Retrying ==
    /\ state = "DOWN_RETRY"
    /\ \/ GoDownRetry /\ UNCHANGED lookup
       \/ GoDown /\ UNCHANGED lookup
       \/ Enter(state, TRUE, event) /\ UNCHANGED lookup
       \/ timer /\ Enter(state, FALSE, event) /\ lookup' = TRUE

\* The search for a period goes on, or loses ANS, in a state that is not UP.
Searching ==
    /\ state \in {"REGISTER", "CHANGE_WAIT", "DNS_PASS"}
    /\ Enter(state, TRUE, event) \/ GoDownRetry
    /\ UNCHANGED lookup

\* ANS says, or too many errors mean, that this is not the server.
Change == Enter("CHANGE_WAIT", TRUE, event) /\ UNCHANGED lookup

ChangeAsked ==
    /\ state = "CHANGE_WAIT" /\ timer
    /\ Enter(state, FALSE, TRUE) /\ UNCHANGED lookup

\* A timer left over from an earlier state.
Leftover ==
    /\ state \in {"DOWN", "DNS_PASS"} /\ timer
    /\ Enter(state, FALSE, event) /\ UNCHANGED lookup

\* ANS tells that there is something to fetch.
Notified ==
    /\ state # "DOWN"
    /\ Enter(state, timer, TRUE) /\ UNCHANGED lookup

Own ==
    \/ Resolved \/ BringUp \/ Registering \/ KeepAlive \/ Retrying
    \/ Searching \/ Change \/ ChangeAsked \/ Leftover \/ Notified

NpNext == Stop \/ SetServer \/ StopSetServer \/ Start \/ EventGet \/ Own

NpSpec == NpInit /\ [][NpNext]_npVars
=============================================================================
