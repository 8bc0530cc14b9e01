------------------------------- MODULE Notify -------------------------------
(***************************************************************************)
(* The notification client (notify.c): it registers with the notification  *)
(* server (ANS) over UDP, keeps the registration and the NAT mapping alive *)
(* and tells the client of the service when there is something to fetch.   *)
(* Every handler runs with client_lock, so it is one step; a handler is an *)
(* operator on the record of the notifier's state, because one calls       *)
(* another and goes on after it returns.                                   *)
(*                                                                         *)
(* ANS is what the messages to the device say: "wire" holds the answers    *)
(* and the probes that sent requests may bring and that the device would   *)
(* not drop.  A sequence number only tells a current one from a stale one, *)
(* so they leave wire when the number they must carry changes, and when    *)
(* their socket is closed.  What stays there for ever is lost, and a timer *)
(* that is set may expire before any of it arrives.                        *)
(***************************************************************************)
EXTENDS Naturals

CONSTANTS
    Server, NoServer,       \* names of notification servers, and none
    NatTimeout,             \* how long a NAT on the way keeps a mapping
    MinProbe, InitProbe, MaxProbe,      \* NP_MIN_PROBE ... in seconds
    InitProbes,             \* NP_INIT_PROBES
    MaxTry,                 \* NP_MAX_TRY
    ErrLimit,               \* NP_ERR_LIMIT
    PollEvery,              \* keep-alives between two checks of reachability
    Faults                  \* what may go wrong beside delay and loss

ASSUME NotifyAssumption ==
    /\ NoServer \notin Server
    /\ NatTimeout \in Nat
    /\ MinProbe \in Nat /\ InitProbe \in Nat /\ MaxProbe \in Nat
    /\ InitProbes \in Nat \ {0} /\ MaxTry \in Nat /\ ErrLimit \in Nat
    /\ PollEvery \in Nat
    /\ Faults \subseteq {"alloc", "send", "open", "forget", "garbage"}

VARIABLES
    np,             \* what a handler works on: the notifier
    np_started,     \* the client's flags of the same names
    np_up,
    fetch,          \* the GET of the DSN: "no", "sent", or "named" the server
    ads_valid       \* NODES_ADS in valid_dest_mask

vars == <<np, np_started, np_up, fetch, ads_valid>>

ClientState == {"DOWN", "DNS_PASS", "REGISTER", "UP", "CHANGE_WAIT",
                "DOWN_RETRY"}
ProbeState == {"DOWN", "SEND", "WAIT", "IDLE"}

\* Messages by the number they must carry, and by their socket.
BySequence == {"REG_RESP", "KA_RESP"}
ByProbeSeq == {"REQ_RESP", "NAT_PROBE", "REG_PROBE"}
ByProbeSequence == {"PROBE_RESP"}
ProbePort == {"REQ_RESP", "NAT_PROBE"}
Messages == BySequence \cup ByProbeSeq \cup ByProbeSequence

\* What memory, the network stack and the clock do to a handler.
Env == [alloc: IF "alloc" \in Faults THEN BOOLEAN ELSE {TRUE},
        sent: IF "send" \in Faults THEN BOOLEAN ELSE {TRUE},
        open: IF "open" \in Faults THEN BOOLEAN ELSE {TRUE},
        due: 0 .. PollEvery]

\* struct notify_state with its timers and its DNS request, the messages that
\* may still come from ANS (wire), and whether the client's callback is pended
\* (notify_cb); crash and disturbed are for the properties only.
Notifier ==
    [client_state: ClientState, probe_state: ProbeState,
     name: Server \cup {NoServer}, addr: Server \cup {NoServer},
     dns: Server \cup {NoServer},
     pcb: BOOLEAN, probe_pcb: BOOLEAN, timer: BOOLEAN, probe_timer: BOOLEAN,
     keep_alive: Nat, probe: Nat, min_probe: Nat, max_probe: Nat,
     probes_needed: 0 .. InitProbes,
     retries_left: 0 .. MaxTry + 1, probe_retries_left: 0 .. MaxTry,
     err_count: 0 .. ErrLimit + 2, probe_send: BOOLEAN,
     restart_probing: BOOLEAN, moved: BOOLEAN, due: 0 .. PollEvery,
     wire: SUBSET Messages, notify_cb: BOOLEAN,
     crash: BOOLEAN, disturbed: BOOLEAN]

\* The types of the variables.
TypeOK ==
    /\ np \in Notifier
    /\ np_started \in BOOLEAN /\ np_up \in BOOLEAN
    /\ fetch \in {"no", "sent", "named"} /\ ads_valid \in BOOLEAN

\* np_init(): everything is zero.
Init ==
    /\ np = [client_state |-> "DOWN", probe_state |-> "DOWN",
             name |-> NoServer, addr |-> NoServer, dns |-> NoServer,
             pcb |-> FALSE, probe_pcb |-> FALSE,
             timer |-> FALSE, probe_timer |-> FALSE,
             keep_alive |-> 0, probe |-> 0, min_probe |-> 0, max_probe |-> 0,
             probes_needed |-> 0,
             retries_left |-> 0, probe_retries_left |-> 0,
             err_count |-> 0, probe_send |-> FALSE,
             restart_probing |-> FALSE, moved |-> FALSE, due |-> 0,
             wire |-> {}, notify_cb |-> FALSE,
             crash |-> FALSE, disturbed |-> FALSE]
    /\ np_started = FALSE /\ np_up = FALSE
    /\ fetch = "no" /\ ads_valid = FALSE

-----------------------------------------------------------------------------
(* The parts of handlers.  s is the notifier's record; e is in Env.        *)
Post(s) == [s EXCEPT !.notify_cb = TRUE]

ProbeDown(s) ==
    [s EXCEPT !.probe_pcb = FALSE, !.probe_state = "DOWN",
              !.probe_timer = FALSE, !.wire = @ \ ProbePort]

\* Mutant: the search is not stopped with its timer.
DownKeepsSearch(s) ==
    [s EXCEPT !.pcb = FALSE, !.probe_pcb = FALSE,
              !.client_state = "DOWN", !.probe_send = FALSE,
              !.timer = FALSE, !.probe_timer = FALSE,
              !.wire = {}]

Down(s) ==
    [s EXCEPT !.pcb = FALSE, !.probe_pcb = FALSE,
              !.client_state = "DOWN", !.probe_state = "DOWN",
              !.probe_send = FALSE,
              !.timer = FALSE, !.probe_timer = FALSE,
              !.wire = {}]

\* Mutant: the client is not told.
DownUntold(s) ==
    [Down(s) EXCEPT !.addr = NoServer, !.restart_probing = TRUE]

DownEvent(s) ==
    Post([Down(s) EXCEPT !.addr = NoServer, !.restart_probing = TRUE])

\* Mutant: the client is not told.
DownRetryUntold(s) ==
    ProbeDown([s EXCEPT !.restart_probing =
                            IF s.client_state = "UP"
                            THEN s.probe_state # "IDLE" ELSE @,
                        !.probe_send = FALSE, !.timer = FALSE,
                        !.client_state = "DOWN_RETRY"])

\* Mutant: a search that is cut short is not started again.
DownRetryGivesUp(s) ==
    Post(ProbeDown([s EXCEPT !.restart_probing = FALSE,
                             !.probe_send = FALSE, !.timer = FALSE,
                             !.client_state = "DOWN_RETRY"]))

DownRetryEvent(s) ==
    Post(ProbeDown([s EXCEPT !.restart_probing =
                                IF s.client_state = "UP"
                                THEN s.probe_state # "IDLE" ELSE @,
                             !.probe_send = FALSE, !.timer = FALSE,
                             !.client_state = "DOWN_RETRY"]))

\* np_send() on a socket, through whose pointer the code reads, and what the
\* message may bring.
SendOn(s, open, answers, e) ==
    [s EXCEPT !.crash = @ \/ ~open,
              !.wire = IF open /\ e.sent THEN @ \cup answers ELSE @]

\* ANS sends a probe after the delay it was asked for, and the NAT lets it
\* through only if it still has the mapping.
Probed(m, s) == {x \in {m} : s.probe <= NatTimeout}

\* state->sequence++: what was sent under the old number is void.
NextSequence(s) ==
    [s EXCEPT !.moved = TRUE, !.wire = @ \ BySequence]

\* ... and state->probe_seq with it.
NextProbeSeq(s) ==
    [NextSequence(s) EXCEPT !.wire = @ \ ByProbeSeq]

ProbeInit(s) ==
    [s EXCEPT !.probe = InitProbe, !.min_probe = MinProbe,
              !.max_probe = MaxProbe, !.retries_left = MaxTry,
              !.probes_needed = InitProbes,
              !.probe_retries_left = MaxTry]

ProbeWait(s) ==
    [s EXCEPT !.probe_timer = TRUE, !.probe_state = "WAIT"]

\* np_setup_probe_send(): check that ANS can be reached.
SetupProbeSend(s) ==
    [s EXCEPT !.probe_send = TRUE,
              !.retries_left =
                IF s.client_state = "UP" THEN MaxTry ELSE 1,
              !.wire = IF s.moved THEN @ \ ByProbeSequence ELSE @,
              !.moved = FALSE, !.timer = TRUE]

\* Mutant: once a check has begun, the timer is not set for its retries.
SetNextTimeoutOnce(s) ==
    CASE s.probe_send -> s
      [] ~s.probe_send /\ s.due = 0 -> SetupProbeSend(s)
      [] OTHER -> [s EXCEPT !.timer = TRUE]

SetNextTimeout(s) ==
    IF ~s.probe_send /\ s.due = 0
    THEN SetupProbeSend(s)
    ELSE [s EXCEPT !.timer = TRUE]

SendKeepAlive(s, e) ==
    LET probe == [SendOn(s, s.pcb, {"PROBE_RESP"}, e)
                    EXCEPT !.retries_left = @ - 1]
        ka == [SendOn(NextSequence(s), s.pcb, {"KA_RESP"}, e)
                    EXCEPT !.due = IF @ = 0 THEN 0 ELSE @ - 1]
        gone == s.probe_send /\ s.retries_left = 0
        t == IF s.probe_send THEN probe ELSE ka
    IN CASE ~e.alloc -> s
         [] e.alloc /\ gone -> DownRetryEvent(s)
         [] e.alloc /\ ~gone /\ ~e.sent -> DownRetryEvent(t)
         [] OTHER -> SetNextTimeout(t)

ResetKeepAlive(s, e) ==
    SendKeepAlive([s EXCEPT !.timer = FALSE, !.due = e.due], e)

\* np_bring_up(): a registration or a probe has succeeded.
BringUp(s, e) ==
    Post(ResetKeepAlive([s EXCEPT !.err_count = 0,
                                  !.client_state = "UP",
                                  !.keep_alive = s.probe], e))

ReqProbe(s, e) ==
    LET n == NextProbeSeq([s EXCEPT !.probe_retries_left = @ - 1])
        sent == SendOn(n, n.probe_pcb,
                       {"REQ_RESP"} \cup Probed("NAT_PROBE", n), e)
        t == IF e.alloc THEN sent ELSE n
    IN CASE s.probe_retries_left = 0 -> ProbeDown(s)
         [] s.probe_retries_left # 0 /\ e.alloc /\ ~e.sent ->
                DownRetryEvent(t)
         [] OTHER -> [t EXCEPT !.probe_timer = TRUE,
                               !.probe_state = "SEND"]

\* np_req_probe_new(): the search for the longest delay that a probe of ANS
\* comes through.
ReqProbeNew(s, e) ==
    LET min == s.min_probe
        max == s.max_probe
        middle == (min + max) \div 2
        next == IF middle > 2 * s.probe THEN 2 * s.probe ELSE middle
        t == [s EXCEPT !.probe = next]
        raised == IF t.keep_alive < min
                  THEN ResetKeepAlive([t EXCEPT !.keep_alive = min], e)
                  ELSE t
    IN IF min + min \div 8 >= max
       THEN ResetKeepAlive([s EXCEPT !.probe = min, !.keep_alive = min,
                                     !.probe_state = "IDLE"], e)
       ELSE ReqProbe([raised EXCEPT !.probes_needed = InitProbes,
                                    !.probe_retries_left = MaxTry], e)

\* np_register(): reg_key is forgotten.
Register(s, e) ==
    LET n == NextProbeSeq(s)
        sent == SendOn(n, n.pcb,
                       {"REG_RESP"} \cup Probed("REG_PROBE", n), e)
        t == IF e.alloc THEN sent ELSE n
    IN IF e.alloc /\ ~e.sent
       THEN DownEvent(t)
       ELSE [t EXCEPT !.timer = TRUE, !.client_state = "REGISTER"]

Change(s) ==
    [s EXCEPT !.client_state = "CHANGE_WAIT", !.addr = NoServer,
              !.probe_send = FALSE, !.timer = TRUE,
              !.disturbed = TRUE]

\* np_error(): err_count++ > NP_ERR_LIMIT
Error(s) ==
    LET t == [s EXCEPT !.err_count = IF @ > ErrLimit THEN @ ELSE @ + 1]
    IN IF s.err_count > ErrLimit THEN Change(t) ELSE t

-----------------------------------------------------------------------------
(* np_set_server(), np_start() and np_stop(), which the client calls.      *)

\* net_dns_lookup() takes a copy of the name; the request's pointer to
\* notify_host only says that it is pending.
SetServer(s, name, e) ==
    LET t == [s EXCEPT !.name = name]
    IN CASE s.dns # NoServer -> t
         [] s.dns = NoServer /\ name = NoServer -> DownEvent(t)
         [] s.dns = NoServer /\ name # NoServer /\ e.alloc ->
                [t EXCEPT !.dns = name]
         [] OTHER -> IF s.client_state = "DOWN_RETRY"
                     THEN [t EXCEPT !.timer = TRUE]
                     ELSE DownEvent(t)

OpenPcbs(s, e) == [s EXCEPT !.pcb = e.open, !.probe_pcb = e.open]

Start(s, e) ==
    CASE s.name = NoServer \/ s.addr = NoServer -> s
      [] s.name # NoServer /\ s.addr # NoServer /\ ~e.open -> DownEvent(s)
      [] OTHER -> Register(ProbeInit([OpenPcbs(Down(s), e)
                                        EXCEPT !.disturbed = FALSE]), e)

-----------------------------------------------------------------------------
(* Steps.                                                                  *)
\* A handler of the notifier, which leaves the client's flags alone.
Handle(t) == np' = t /\ UNCHANGED <<np_started, np_up, fetch, ads_valid>>

Received(m) == m \in np.wire /\ ~np.crash

Without(m) == [np EXCEPT !.wire = @ \ {m}]

\* np_recv_reg_resp().  The period in the response is overwritten by
\* np_bring_up(), and np_probe_wait() follows even when that failed.
RecvRegResp == \E error \in BOOLEAN, e \in Env :
    /\ Received("REG_RESP")
    /\ LET s == Without("REG_RESP")
           t == [s EXCEPT !.timer = FALSE]
       IN Handle(CASE np.client_state # "REGISTER" -> s
                   [] np.client_state = "REGISTER" /\ error -> DownEvent(t)
                   [] OTHER -> ProbeWait(BringUp(t, e)))

\* np_recv_reg_err(): ANS answers that it does not know the device.
RecvRegErr == Received("REG_RESP") /\ Handle(Change(Without("REG_RESP")))

\* np_recv_req_probe_resp()
RecvReqProbeResp == \E error \in BOOLEAN :
    /\ Received("REQ_RESP")
    /\ LET s == Without("REQ_RESP")
       IN Handle(CASE np.probe_state # "SEND" -> s
                   [] np.probe_state = "SEND" /\ error -> DownRetryEvent(s)
                   [] OTHER -> ProbeWait([s EXCEPT !.err_count = 0]))

\* np_recv_probe(): a probe of ANS came through the NAT.
RecvProbe == \E m \in {"NAT_PROBE", "REG_PROBE"}, e \in Env :
    /\ Received(m)
    /\ LET s == Without(m)
       IN Handle(CASE np.probe_state # "WAIT" -> s
                   [] np.probe_state = "WAIT" /\ np.probes_needed > 1 ->
                        ReqProbe([s EXCEPT !.probes_needed = @ - 1,
                                           !.probe_retries_left = MaxTry], e)
                   [] OTHER -> ReqProbeNew([s EXCEPT !.min_probe = np.probe], e))

\* np_recv_keep_alive_resp(): a server that has restarted does not know the
\* registration.
RecvKeepAliveResp == \E error \in {"none"} \cup ({"forget"} \cap Faults), e \in Env :
    /\ Received("KA_RESP")
    /\ LET s == Without("KA_RESP")
       IN Handle(CASE np.client_state # "UP" -> s
                   [] np.client_state = "UP" /\ error = "forget" ->
                        Register(ProbeInit([s EXCEPT !.disturbed = TRUE]), e)
                   [] OTHER -> [s EXCEPT !.err_count = 0])

\* np_recv_probe_resp(): ANS can be reached.
RecvProbeResp == \E e \in Env :
    /\ Received("PROBE_RESP")
    /\ LET s == Without("PROBE_RESP")
           t == [s EXCEPT !.probe_send = FALSE, !.due = e.due]
           restart == ProbeWait(ProbeInit([t EXCEPT !.probe_pcb = TRUE]))
       IN Handle(CASE ~np.probe_send -> s
                   [] np.probe_send /\ np.client_state # "DOWN_RETRY" ->
                        SetNextTimeout([t EXCEPT !.timer = FALSE])
                   [] np.probe_send /\ np.client_state = "DOWN_RETRY"
                        /\ ~np.restart_probing ->
                        BringUp([t EXCEPT !.probe_state = "IDLE"], e)
                   [] OTHER -> IF ~np.probe_pcb /\ ~e.open
                               THEN DownEvent(t)
                               ELSE BringUp(restart, e))

\* np_recv_event(): a command for the device waits at the service.
RecvEvent == np.pcb /\ ~np.crash /\ Handle(Post(np))

\* np_recv(): a packet that does not decrypt, or an error in clear.
RecvGarbage ==
    /\ "garbage" \in Faults /\ ~np.crash /\ (np.pcb \/ np.probe_pcb)
    /\ \/ Handle(Change(np))
       \/ Handle(Error(np))

\* np_timeout(); timer_run() has taken the timer off the list.
Timeout == \E e \in Env :
    /\ np.timer /\ ~np.crash
    /\ LET s == [np EXCEPT !.timer = FALSE]
       IN Handle(CASE np.client_state = "REGISTER" ->
                        IF np.retries_left = 0 THEN DownEvent(s)
                        ELSE Register([s EXCEPT !.retries_left = @ - 1], e)
                   [] np.client_state = "CHANGE_WAIT" -> Post(s)
                   [] np.client_state = "UP" -> SendKeepAlive(s, e)
                   [] np.client_state = "DOWN_RETRY" ->
                        IF np.probe_send THEN SendKeepAlive(s, e)
                        ELSE SetServer(s, np.name, e)
                   [] OTHER -> s)

\* np_probe_timeout()
ProbeTimeout == \E e \in Env :
    /\ np.probe_timer /\ ~np.crash
    /\ LET s == [np EXCEPT !.probe_timer = FALSE]
       IN Handle(CASE np.probe_state = "SEND" -> ReqProbe(s, e)
                   [] np.probe_state = "WAIT" ->
                        ReqProbeNew([s EXCEPT !.max_probe = np.probe], e)
                   [] OTHER -> s)

\* np_dns_cb().  The name it compares notify_host with is notify_host, so no
\* result is dropped as an old server's.
DnsCb == \E e \in Env, found \in BOOLEAN :
    /\ np.dns # NoServer /\ ~np.crash
    /\ LET s == [np EXCEPT !.dns = NoServer]
           t == [s EXCEPT !.addr = np.dns]
           moved == [OpenPcbs(Down(t), e) EXCEPT !.client_state = "DOWN_RETRY"]
           retry == np.client_state = "DOWN_RETRY"
       IN Handle(CASE np.client_state \in {"REGISTER", "UP"} -> s
                   [] retry /\ ~found -> [s EXCEPT !.timer = TRUE]
                   [] retry /\ found ->
                        SetupProbeSend(IF np.addr # np.dns THEN moved ELSE t)
                   [] OTHER -> IF found
                               THEN Post([t EXCEPT !.client_state = "DNS_PASS"])
                               ELSE s)

-----------------------------------------------------------------------------
(* The client's side: client_notify_cb() and the calls it makes.           *)

\* client_notify_cb() with np_event_get().
ClientNotifyCb == \E e \in Env :
    /\ np.notify_cb /\ ~np.crash
    /\ LET s == [np EXCEPT !.notify_cb = FALSE]
       IN CASE np.client_state \in {"DOWN", "DOWN_RETRY", "CHANGE_WAIT"} ->
                 /\ np' = [s EXCEPT !.timer =
                                @ \/ np.client_state = "DOWN_RETRY"]
                 /\ np_up' = FALSE /\ np_started' = FALSE
            [] np.client_state = "DNS_PASS" ->
                 /\ np' = IF np_started THEN s ELSE Start(s, e)
                 /\ np_started' = TRUE /\ UNCHANGED np_up
            [] OTHER ->
                 /\ np' = s
                 /\ np_up' = TRUE /\ UNCHANGED np_started
    /\ UNCHANGED <<fetch, ads_valid>>

\* client_notify_stop()
Stopped == Down(np)

ClientStop(t) == np' = t /\ np_started' = FALSE /\ np_up' = FALSE

\* client_get_dev_id(): after a change event, at start-up, or when the
\* service asks for it.
ClientGetDevId ==
    /\ ~np.crash /\ fetch = "no"
    /\ ClientStop(Stopped)
    /\ fetch' = "sent" /\ UNCHANGED ads_valid

\* client_ans_server(): the response, of which more is to come.
ClientAnsServer == \E name \in Server, e \in Env :
    /\ ~np.crash /\ fetch = "sent"
    /\ np' = SetServer(np, name, e)
    /\ fetch' = "named"
    /\ UNCHANGED <<np_started, np_up, ads_valid>>

\* client_server_conn_up(), at the end of that response or of a ping.
ClientServerUp == \E e \in Env :
    /\ ~np.crash /\ fetch \in {"named", "no"}
    /\ np' = IF ads_valid THEN np ELSE SetServer(np, np.name, e)
    /\ fetch' = "no" /\ ads_valid' = TRUE
    /\ UNCHANGED <<np_started, np_up>>

\* client_err_cb(): the service is lost, or only this request.
ClientLost ==
    /\ ~np.crash
    /\ IF ads_valid THEN ClientStop(Stopped)
       ELSE UNCHANGED <<np, np_started, np_up>>
    /\ ads_valid' = FALSE /\ fetch' = "no"

\* client_poll(): the timer runs only while np_up is not set.
ClientPoll == \E e \in Env :
    /\ ~np.crash /\ ~np_up /\ fetch = "no"
    /\ ClientStop(SetServer(Stopped, np.name, e))
    /\ UNCHANGED <<fetch, ads_valid>>

-----------------------------------------------------------------------------
Receive ==
    \/ RecvRegResp \/ RecvRegErr \/ RecvReqProbeResp \/ RecvProbe
    \/ RecvKeepAliveResp \/ RecvProbeResp \/ RecvEvent \/ RecvGarbage

Client ==
    \/ ClientNotifyCb \/ ClientGetDevId \/ ClientAnsServer \/ ClientServerUp
    \/ ClientLost \/ ClientPoll

Next == Receive \/ Timeout \/ ProbeTimeout \/ DnsCb \/ Client

Spec == Init /\ [][Next]_vars

\* The timers of the client task expire, and its callbacks run.
FairSpec ==
    /\ Spec
    /\ WF_vars(Timeout) /\ WF_vars(ProbeTimeout)
    /\ WF_vars(ClientNotifyCb) /\ WF_vars(DnsCb)

-----------------------------------------------------------------------------
(* A client that has no callback pending and counts on being told (np_up,  *)
(* so it does not poll) has a notifier that is registered, registering or  *)
(* about to ask for another server, and that will act by itself: or one    *)
(* that waits to be started (DNS_PASS), because client_notify_cb() drops   *)
(* that event if np_started is still set.                                  *)
CountsOnLive ==
    np_up /\ ~np.notify_cb =>
        \/ np.timer /\ np.client_state \in {"REGISTER", "UP", "CHANGE_WAIT"}
        \/ np.client_state = "DNS_PASS"

(* When the search is over, the keep-alives are frequent enough for the    *)
(* NAT, whatever was lost or came late on the way: unless, since the       *)
(* notifier was started, ANS asked it to register again or it saw an error *)
(* (disturbed), because a search that ends while it is not UP is not       *)
(* started again.                                                          *)
KeepAliveFits ==
    ~np.disturbed /\ np.client_state = "UP" /\ np.probe_state = "IDLE" =>
        np.keep_alive <= NatTimeout \/ np.keep_alive <= MinProbe

(* A search that waits for an answer or a probe has its timer running.     *)
SearchGoesOn == np.probe_state \in {"SEND", "WAIT"} => np.probe_timer

(* If from some time on nothing is heard of ANS, the client does not go on *)
(* counting on it: it is told, and polls (or is stuck in DNS_PASS, or has  *)
(* sent through a socket that could not be opened).                        *)
OutageNoticed ==
    <>[][~Receive]_vars =>
        []<>(~np_up \/ np.client_state = "DNS_PASS" \/ np.crash)

(* The client sees nothing but this: every change it must know of is an    *)
(* event, and in a state in which it counts on the notifier the timer is   *)
(* set.                                                                    *)
Abstract == INSTANCE NotifySpec WITH
    state <- np.client_state, event <- np.notify_cb, timer <- np.timer,
    lookup <- np.dns # NoServer

Promise == Abstract!NpSpec

=============================================================================
