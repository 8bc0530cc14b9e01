----------------------------- MODULE AdsClient ------------------------------
(***************************************************************************)
(* How the client (client.c) comes to know of the commands that wait for   *)
(* the device at the service (ADS): it identifies itself (GET of the DSN), *)
(* is told by the notification server, of whose client only the promise    *)
(* NotifySpec is used, or polls; it fetches the commands, and starts again *)
(* after errors.  Every handler runs in the client task with client_lock,  *)
(* so it is one step, an operator on the record of the client's state.     *)
(*                                                                         *)
(* One request at a time is made of the HTTP client, which ends each with  *)
(* a response or, its own timers being set, with an error.  Here they are  *)
(* the GETs of the DSN and of commands, and the ping; PropSend has the     *)
(* property updates.                                                       *)
(***************************************************************************)
EXTENDS NotifySpec, Naturals, Sequences

CONSTANTS
    Errors,         \* how a request may fail
    Commits,        \* whether a configuration that is committed is enabled
    Downs,          \* whether Wi-Fi goes down
    PollInterval,   \* poll_interval; zero is no polling
    MaxAuth         \* CLIENT_AUTH_FAILS

ASSUME AdsAssumption ==
    /\ Errors \subseteq {"closed", "timeout", "unauth", "auth", "status", "xml",
                         "connect", "conn"}
    /\ Commits \subseteq BOOLEAN /\ Downs \in BOOLEAN
    /\ PollInterval \in Nat /\ MaxAuth \in Nat \ {0}

VARIABLES
    c,              \* struct client_state
    cmd             \* a command that waits at the service: "no", "new", or
                    \* "told" by the notification server

vars == <<c, cmd, npVars>>

InRequest == {"ID", "GET", "PING"}
Callback == {"dev_id", "conn"}

\* callback_queue: a callback is on it once.
Queue == {q \in UNION {[1 .. n -> Callback] : n \in 0 .. 2} :
             \A i, j \in 1 .. Len(q) : i # j => q[i] # q[j]}

Pended(q, cb) == \E i \in 1 .. Len(q) : q[i] = cb

ClientState ==
    [conn_state: InRequest \cup {"DOWN", "DISABLED", "EVENT", "RETRY", "ERR"},
     current_request: {"none", "dev_id"},
     callback_queue: Queue,
     next_step: BOOLEAN,
     req_timer: BOOLEAN, poll_timer: BOOLEAN, cmd_timer: BOOLEAN,
     np_event: BOOLEAN, np_up: BOOLEAN, np_started: BOOLEAN,
     poll_ads: BOOLEAN, serv_conn: BOOLEAN, ping_time: BOOLEAN,
     clock_set: BOOLEAN, client_key: BOOLEAN, tgt: {"ads", "http"},
     ads_valid: BOOLEAN, ads_listen: BOOLEAN,
     get_echo_inprog: BOOLEAN, get_cmds_fail: BOOLEAN,
     auth_fails: 0 .. MaxAuth, asserted: BOOLEAN]

\* The types of the variables.
TypeOK ==
    /\ NpTypeOK
    /\ c \in ClientState
    /\ cmd \in {"no", "new", "told"}

Init ==
    /\ NpInit
    /\ c = [conn_state |-> "DOWN", current_request |-> "none",
            callback_queue |-> <<>>, next_step |-> FALSE,
            req_timer |-> FALSE, poll_timer |-> FALSE, cmd_timer |-> FALSE,
            np_event |-> FALSE, np_up |-> FALSE, np_started |-> FALSE,
            poll_ads |-> FALSE, serv_conn |-> FALSE, ping_time |-> FALSE,
            clock_set |-> FALSE, client_key |-> FALSE, tgt |-> "ads",
            ads_valid |-> FALSE, ads_listen |-> FALSE,
            get_echo_inprog |-> FALSE, get_cmds_fail |-> FALSE,
            auth_fails |-> 0, asserted |-> FALSE]
    /\ cmd = "no"

-----------------------------------------------------------------------------
(* The parts of handlers.  s is the client's state.                        *)

Wakeup(s) == [s EXCEPT !.next_step = TRUE]

\* net_callback_enqueue(): once, until it is taken off.
Enqueue(s, cb) ==
    IF Pended(s.callback_queue, cb) THEN s
    ELSE [s EXCEPT !.callback_queue = Append(@, cb)]

\* client_notify_stop(), beside np_stop().
NotifyStop(s) == [s EXCEPT !.np_up = FALSE, !.np_started = FALSE]

\* client_req_new(), which closes the connection to another target.
ReqNew(s, tgt, request) ==
    [s EXCEPT !.conn_state = request, !.tgt = tgt,
              !.req_timer = @ /\ s.tgt = tgt]

TcpRecvDone(s) ==
    Wakeup([s EXCEPT !.auth_fails = 0, !.current_request = "none",
                     !.conn_state = "EVENT"])

\* client_server_conn_up(), beside np_retry_server().
ServerConnUp(s) ==
    LET up == [s EXCEPT !.serv_conn = TRUE, !.ads_valid = TRUE]
    IN IF s.ads_valid THEN up ELSE Enqueue(up, "conn")

\* Mutant: CS_WAIT_RETRY without its timer.
RetryUntimed(s) == [s EXCEPT !.conn_state = "RETRY"]

Retry(s) == [s EXCEPT !.conn_state = "RETRY", !.req_timer = TRUE]

NextRequest(s) == Wakeup([s EXCEPT !.conn_state = "EVENT"])

\* client_err_cb() from "retry" on, beside np_stop().
LoseAds(s, error) ==
    LET valid == [s EXCEPT !.ads_valid = FALSE]
        lost == IF s.ads_valid THEN NotifyStop(Enqueue(valid, "conn")) ELSE s
        failed == [lost EXCEPT !.ads_listen = FALSE, !.serv_conn = FALSE]
        t == IF s.get_echo_inprog /\ s.conn_state # "GET"
             THEN Wakeup([failed EXCEPT !.get_echo_inprog = FALSE])
             ELSE failed
    IN CASE error = "connect" /\ s.tgt = "ads" /\ ~s.clock_set ->
                NextRequest([t EXCEPT !.current_request = "none",
                                      !.ping_time = TRUE])
         [] OTHER -> IF s.conn_state = "ERR" THEN t ELSE Retry(t)

\* The errors after which ADS counts as lost; np_stop() is called if it was
\* valid.
Loses(s, error) ==
    /\ ~(s.conn_state = "GET" /\ s.get_cmds_fail)
    /\ error \in {"auth", "xml", "connect", "conn", "status"}

\* auth_error: what is done before "retry".
AuthError(s) ==
    LET t == TcpRecvDone(IF s.conn_state = "ID" THEN Enqueue(s, "dev_id") ELSE s)
    IN [t EXCEPT !.auth_fails = IF s.auth_fails < MaxAuth THEN s.auth_fails + 1
                                ELSE s.auth_fails,
                 !.conn_state = IF s.auth_fails + 1 >= MaxAuth THEN "ERR" ELSE @]

\* client_err_cb() with req_timer cancelled; a GET of commands that failed
\* leaves np_event set, and the second in a row waits for cmd_timer.
ErrCb(s, error) ==
    LET off == [s EXCEPT !.req_timer = FALSE]
        get == [off EXCEPT !.get_echo_inprog = FALSE, !.np_event = TRUE,
                           !.get_cmds_fail = TRUE]
        t == IF s.conn_state = "GET" THEN get ELSE off
    IN CASE s.conn_state = "GET" /\ s.get_cmds_fail ->
                NextRequest([get EXCEPT !.cmd_timer = TRUE, !.np_event = FALSE])
         [] Loses(s, error) ->
                LoseAds(CASE error = "auth" -> AuthError(t)
                          [] error = "xml" -> [off EXCEPT !.conn_state = "ERR"]
                          [] error = "status" /\ s.conn_state = "ID" ->
                                Enqueue(t, "dev_id")
                          [] OTHER -> t, error)
         [] OTHER -> NextRequest(t)

\* client_reset(), beside np_stop().
Reset(s) ==
    NotifyStop([s EXCEPT !.req_timer = FALSE, !.cmd_timer = FALSE,
                         !.poll_timer = FALSE, !.client_key = FALSE,
                         !.np_event = TRUE, !.ads_listen = FALSE,
                         !.auth_fails = 0, !.tgt = "ads"])

\* Mutant: get_echo_inprog is not reset when the network goes down.
DownKeepsEcho(s) ==
    NotifyStop(Enqueue(
        [s EXCEPT !.conn_state = "DOWN", !.current_request = "none",
                  !.req_timer = FALSE, !.ads_valid = FALSE], "conn"))

\* client_down_locked(), beside np_stop().
DownLocked(s) ==
    NotifyStop(Enqueue(
        [s EXCEPT !.conn_state = "DOWN", !.current_request = "none",
                  !.req_timer = FALSE, !.ads_valid = FALSE,
                  !.get_echo_inprog = FALSE], "conn"))

-----------------------------------------------------------------------------
(* The next step: client_next_step().                                      *)
Running == ~c.asserted

\* The GET of the DSN, which is dropped after an error or for a ping.
GetDevId(s) ==
    IF s.conn_state = "ERR" \/ s.ping_time
    THEN c' = [s EXCEPT !.current_request = "none"] /\ UNCHANGED npVars
    ELSE /\ c' = ReqNew(NotifyStop([s EXCEPT !.client_key = FALSE]), "ads", "ID")
         /\ Stop

\* From here on the step may do something for ADS.
Stepping ==
    Running /\ c.next_step /\ c.conn_state \in {"EVENT", "ERR", "DOWN"}

\* Otherwise it does nothing, or serves LAN clients.
StepOther ==
    /\ Running /\ c.next_step /\ c.conn_state \notin {"EVENT", "ERR", "DOWN"}
    /\ c' = [c EXCEPT !.next_step = FALSE]
    /\ UNCHANGED <<cmd, npVars>>

StepCurrent ==
    /\ Stepping /\ c.current_request = "dev_id"
    /\ GetDevId([c EXCEPT !.next_step = FALSE])
    /\ UNCHANGED cmd

\* After a callback the step is repeated.
StepCallback ==
    /\ Stepping /\ c.current_request = "none" /\ c.callback_queue # <<>>
    /\ LET s == [c EXCEPT !.callback_queue = Tail(@)]
       IN IF Head(c.callback_queue) = "conn" THEN c' = s /\ UNCHANGED npVars
          ELSE GetDevId([s EXCEPT !.current_request = "dev_id"])
    /\ UNCHANGED cmd

NoCallback ==
    Stepping /\ c.current_request = "none" /\ c.callback_queue = <<>>

\* client_req_next(): what may be asked of ADS.
Identified == c.client_key /\ c.conn_state = "EVENT"

WantPing ==
    /\ ~c.serv_conn /\ (c.client_key \/ c.ping_time)
    /\ c.conn_state # "DOWN"

\* client_can_get(), client_cmd_step()
WantGet ==
    /\ Identified
    /\ ~c.get_echo_inprog /\ c.ads_listen /\ c.np_event

StepRequest ==
    /\ NoCallback
    /\ LET s == [c EXCEPT !.next_step = FALSE]
       IN \/ WantPing /\ c' = ReqNew(s, "http", "PING")
          \/ /\ ~WantPing /\ WantGet
             /\ c' = ReqNew([s EXCEPT !.get_echo_inprog = TRUE,
                                      !.np_event = FALSE], "ads", "GET")
    /\ UNCHANGED <<cmd, npVars>>

\* Mutant: a client that polls already does not set its timer again.
PollOnce(s) ==
    [s EXCEPT !.poll_ads = ~s.np_up /\ s.conn_state = "EVENT",
              !.poll_timer = ~s.np_up /\ s.conn_state = "EVENT"
                             /\ (@ \/ (PollInterval # 0 /\ ~s.poll_ads))]

\* The end of client_next_step(), with client_start_polling().
Poll(s) ==
    [s EXCEPT !.poll_ads = ~s.np_up /\ s.conn_state = "EVENT",
              !.poll_timer = ~s.np_up /\ s.conn_state = "EVENT"
                             /\ (@ \/ PollInterval # 0)]

StepIdle ==
    /\ NoCallback /\ ~WantPing /\ ~WantGet
    /\ c' = Poll([c EXCEPT !.next_step = FALSE])
    /\ UNCHANGED <<cmd, npVars>>

NextStep == StepOther \/ StepCurrent \/ StepCallback \/ StepRequest \/ StepIdle

-----------------------------------------------------------------------------
(* Responses.                                                              *)

\* client_recv_xml() with a part of the response: of the DSN, it holds the
\* device's key, the time and the name of the notification server.
RecvXml ==
    /\ Running /\ c.conn_state \in {"ID", "GET"}
    /\ LET s == [c EXCEPT !.req_timer = TRUE, !.auth_fails = 0]
       IN \/ /\ c.conn_state = "ID" /\ ~c.client_key
             /\ c' = [s EXCEPT !.client_key = TRUE, !.clock_set = TRUE]
             /\ SetServer
          \/ /\ c.conn_state = "GET"
             /\ c' = s /\ UNCHANGED npVars
    /\ UNCHANGED cmd

\* Mutant: a response without the key counts as an answer.
IndexUnread ==
    /\ Running /\ c.conn_state = "ID"
    /\ c' = TcpRecvDone(IF c.client_key THEN ServerConnUp(c) ELSE c)
    /\ IF c.client_key /\ ~c.ads_valid THEN SetServer ELSE UNCHANGED npVars
    /\ UNCHANGED cmd

\* client_recv_index()
RecvIndex ==
    /\ Running /\ c.conn_state = "ID"
    /\ c' = TcpRecvDone(IF c.client_key THEN ServerConnUp(c)
                        ELSE Enqueue(c, "dev_id"))
    /\ IF c.client_key /\ ~c.ads_valid THEN SetServer ELSE UNCHANGED npVars
    /\ UNCHANGED cmd

\* client_recv_ping()
RecvPing ==
    /\ Running /\ c.conn_state = "PING"
    /\ LET s == [c EXCEPT !.ping_time = FALSE]
       IN c' = TcpRecvDone(IF c.client_key THEN ServerConnUp(s)
                           ELSE Enqueue(s, "dev_id"))
    /\ IF c.client_key /\ ~c.ads_valid THEN SetServer ELSE UNCHANGED npVars
    /\ UNCHANGED cmd

\* client_recv_cmds(): all commands are in the response.
RecvCmds ==
    /\ Running /\ c.conn_state = "GET"
    /\ c' = TcpRecvDone([c EXCEPT !.cmd_timer = FALSE, !.get_cmds_fail = FALSE,
                                  !.get_echo_inprog = FALSE])
    /\ cmd' = "no" /\ UNCHANGED npVars

\* client_err_cb()
Fail == \E error \in Errors :
    /\ Running /\ c.conn_state \in InRequest
    /\ error = "xml" => c.conn_state \in {"ID", "GET"}
    /\ c' = ErrCb(c, error)
    /\ IF Loses(c, error) /\ c.ads_valid THEN Stop ELSE UNCHANGED npVars
    /\ UNCHANGED cmd

-----------------------------------------------------------------------------
(* Timers and the notifier's callback.                                     *)

\* client_timeout()
ReqTimeout ==
    /\ Running /\ c.req_timer
    /\ LET s == [c EXCEPT !.req_timer = FALSE]
       IN CASE c.conn_state \in {"DOWN", "DISABLED"} ->
                    c' = DownLocked(s) /\ Stop
            [] c.conn_state \in InRequest ->
                    c' = ErrCb(s, "timeout") /\ UNCHANGED npVars
            [] OTHER -> c' = NextRequest(s) /\ UNCHANGED npVars
    /\ UNCHANGED cmd

\* client_poll()
PollTimeout ==
    /\ Running /\ c.poll_timer
    /\ c' = Wakeup(NotifyStop([c EXCEPT !.poll_timer = FALSE, !.np_event = TRUE]))
    /\ StopSetServer
    /\ UNCHANGED cmd

\* client_cmd_timeout()
CmdTimeout ==
    /\ Running /\ c.cmd_timer
    /\ c' = Wakeup([c EXCEPT !.cmd_timer = FALSE, !.np_event = TRUE])
    /\ UNCHANGED <<cmd, npVars>>

\* NS_EV_CHANGE
Changed(s) == NotifyStop(Enqueue(s, "dev_id"))

\* Mutant: the client goes on to count on the notifier.
AnsDownTrusted(s) == [s EXCEPT !.serv_conn = @ /\ s.poll_ads]

\* NS_EV_DOWN and NS_EV_DOWN_RETRY: unless it polls, see whether ADS is there.
AnsDown(s) ==
    NotifyStop([s EXCEPT !.serv_conn = @ /\ s.poll_ads])

\* client_notify_cb()
NotifyCb ==
    /\ Running /\ event
    /\ CASE state = "CHANGE_WAIT" -> c' = Wakeup(Changed(c)) /\ EventGet
         [] state \in {"DOWN", "DOWN_RETRY"} -> c' = Wakeup(AnsDown(c)) /\ EventGet
         [] state = "DNS_PASS" ->
                /\ c' = Wakeup([c EXCEPT !.np_started = TRUE])
                /\ IF c.np_started THEN EventGet ELSE Start
         [] OTHER ->
                /\ c' = Wakeup([c EXCEPT !.np_up = TRUE, !.np_event = TRUE,
                                         !.poll_ads = FALSE,
                                         !.poll_timer = FALSE])
                /\ EventGet
    /\ UNCHANGED cmd

-----------------------------------------------------------------------------
(* The device: Wi-Fi, configuration, the property manager.                 *)

\* ada_client_up()
Up ==
    /\ Running /\ c.conn_state \in {"DOWN", "DISABLED"}
    /\ c' = Wakeup([Enqueue(Reset(c), "dev_id") EXCEPT !.conn_state = "EVENT"])
    /\ Stop /\ UNCHANGED cmd

\* ada_client_down()
Down ==
    /\ Downs /\ Running /\ c.conn_state # "DOWN"
    /\ c' = DownLocked(c)
    /\ Stop /\ UNCHANGED cmd

\* client_commit(): client_reset() takes away the callback without which
\* http_client_start() must not be called.
Commit == \E enabled \in Commits :
    /\ Running
    /\ c' = CASE c.conn_state = "DOWN" -> Reset(c)
              [] c.conn_state # "DOWN" /\ enabled -> [Reset(c) EXCEPT !.asserted = TRUE]
              [] OTHER -> [Reset(c) EXCEPT !.conn_state = "DISABLED",
                                           !.ads_valid = FALSE]
    /\ Stop /\ UNCHANGED cmd

\* client_enable_ads_listen(), when the echoes of the properties are done.
EnableListen ==
    /\ Running /\ c.ads_valid /\ ~c.ads_listen
    /\ c' = Wakeup([c EXCEPT !.cmd_timer = FALSE, !.ads_listen = TRUE])
    /\ UNCHANGED <<cmd, npVars>>

-----------------------------------------------------------------------------
(* The service, and the notifier by itself.                                *)
Command == cmd = "no" /\ cmd' = "new" /\ UNCHANGED <<c, npVars>>

\* A registered device is told.
Tell ==
    /\ Running /\ cmd = "new"
    /\ Notified /\ cmd' = "told"
    /\ UNCHANGED c

NotifierStep == Running /\ Own /\ UNCHANGED <<c, cmd>>

Next ==
    \/ NextStep
    \/ RecvXml \/ RecvIndex \/ RecvPing \/ RecvCmds \/ Fail
    \/ ReqTimeout \/ PollTimeout \/ CmdTimeout \/ NotifyCb
    \/ Up \/ Down \/ Commit \/ EnableListen
    \/ Command \/ Tell \/ NotifierStep

Spec == Init /\ [][Next]_vars

\* What Notify shows of the notifier: registering and waiting for another
\* server end, and who is registered hears of a command or that ANS is lost.
Registered ==
    /\ Running /\ state = "REGISTER"
    /\ \/ BringUp
       \/ GoDown /\ UNCHANGED lookup
Asked == Running /\ ChangeAsked
Unreachable == Running /\ cmd = "new" /\ state = "UP" /\ GoDownRetry /\ UNCHANGED lookup

\* Callbacks run, timers expire, requests end, and a request that is made
\* again and again is answered.
FairSpec ==
    /\ Spec
    /\ WF_vars(NextStep) /\ WF_vars(NotifyCb)
    /\ WF_vars(ReqTimeout) /\ WF_vars(PollTimeout) /\ WF_vars(CmdTimeout)
    /\ SF_vars(RecvXml /\ c.conn_state = "ID") /\ WF_vars(RecvPing)
    /\ SF_vars(RecvIndex /\ c.client_key) /\ SF_vars(RecvCmds)
    /\ WF_vars(EnableListen)
    /\ WF_vars(Registered /\ UNCHANGED <<c, cmd>>)
    /\ WF_vars(Asked /\ UNCHANGED <<c, cmd>>)
    /\ WF_vars(Tell \/ (Unreachable /\ UNCHANGED <<c, cmd>>))

-----------------------------------------------------------------------------
(* A client that waits has somebody to wake it: it counts on the notifier, *)
(* or polls.                                                               *)
ToldOrPolls ==
    Running /\ c.conn_state = "EVENT" /\ ~c.next_step /\ ~event /\ PollInterval # 0 =>
        c.np_up \/ c.poll_timer

(* A client that the service has not identified is about to ask it to, or  *)
(* to ping it first: unless it was taken down, or has given up (CS_ERR).   *)
AsksWho ==
    Running /\ c.conn_state \in {"EVENT", "RETRY", "ID", "PING"} /\ ~c.client_key =>
        \/ c.current_request = "dev_id" \/ c.ping_time
        \/ Pended(c.callback_queue, "dev_id")

(* "Otherwise, retry forever": a request that is to be made again has its  *)
(* step pended or its timer set, unless the client has given up.           *)
RetriesForever ==
    /\ Running
    /\ \/ c.conn_state = "RETRY"
       \/ c.conn_state = "EVENT" /\ c.current_request # "none"
    =>
        c.next_step \/ c.req_timer

(* What blocks the GET of commands is the GET that is being made; only a   *)
(* commit can leave it blocked with none.                                  *)
Blocked == c.get_echo_inprog /\ c.conn_state # "GET"
OnlyCommitBlocks == [][Blocked' => Blocked \/ Commit]_vars

(* A command is fetched once requests succeed and ANS no longer sends the  *)
(* device away, whatever failed before: unless the client is taken down,   *)
(* has given up, is blocked, or counts on a notifier that waits to be      *)
(* started, its event of DNS_PASS having been dropped (see Notify).        *)
Trouble ==
    \/ Fail
    \/ NotifierStep /\ (Change \/ (event' /\ state' \notin {"UP", "DNS_PASS"}))
CommandFetched ==
    <>[][~Trouble]_vars =>
        (cmd = "new" ~>
            \/ cmd = "no" \/ c.asserted \/ Blocked
            \/ c.conn_state \in {"DOWN", "DISABLED", "ERR"}
            \/ (c.np_up /\ state = "DNS_PASS"))
=============================================================================
