------------------------------ MODULE PropSend ------------------------------
(***************************************************************************)
(* How a property update reaches its destinations: the property manager    *)
(* queue (prop_mgr.c), the simple property manager with its echoes         *)
(* (sprop.c), and the part of the client that sends one update at a time   *)
(* and follows connectivity (client.c, client_prop.c).                     *)
(*                                                                         *)
(* Tasks run the same code concurrently: the client task, application      *)
(* tasks that send properties, and the Wi-Fi task that takes the client    *)
(* down and up.  A step of a task ends where it gives or waits for         *)
(* client_lock, or between two accesses of state that is shared without    *)
(* it.  HTTP, the LAN protocol and the service are left out but for how    *)
(* a request ends.                                                         *)
(***************************************************************************)
EXTENDS Naturals, Sequences, FiniteSets, Picks

CONSTANTS
    Task,           \* tasks
    Client,         \* the client task
    App,            \* tasks that call ada_sprop_send()
    Wifi,           \* tasks that call ada_client_down() and ada_client_up()
    Name,           \* simple properties
    Echo,           \* those with a set handler: their sends are echoes
    Prop,           \* struct prop the heap has room for
    Dest,           \* destinations, Ads and LAN sessions
    Ads,            \* NODES_ADS
    Outcome,        \* how requests may end in this instance
    MaxEchos,       \* bound on ada_sprop_echos_pending
    NoTask, NoProp, NoName

ASSUME PropTaskAssumption ==
    /\ Client \in Task /\ App \subseteq Task
    /\ Wifi \subseteq Task \ {Client}
    /\ NoTask \notin Task
ASSUME PropDataAssumption ==
    /\ IsFiniteSet(Prop) /\ NoProp \notin Prop
    /\ Echo \subseteq Name /\ NoName \notin Name
    /\ Ads \in Dest
    /\ MaxEchos \in Nat
    /\ Outcome \subseteq {"closed", "timeout", "s4xx", "s5xx", "conn",
                          "down", "lan", "lan_clear"}

VARIABLES
    \* client_state
    valid,          \* valid_dest_mask
    cb,             \* prop_send_cb is set
    dest,           \* dest_mask
    failed,         \* failed_dest_mask
    overflow,       \* mcu_overflow
    conn,           \* conn_state
    current,        \* current_request is set
    conn_update,    \* client_cb[CCB_CONN_UPDATE] is pending
    ads_listen,
    wake,           \* next_step_cb is pending
    \* prop_mgr.c
    send_q,         \* prop_mgr_send_queue
    sending,        \* prop_mgr_sending
    lost_q,         \* props that prop_mgr_send_queue_check() took off
    mgr_dest,       \* prop_mgr_dest_mask
    enabled,        \* PROP_MGR_ENABLED of ada_sprop_mgr
    send_pend,      \* prop_mgr_send_callback is pending
    \* sprop.c
    sprop_dest,     \* ada_sprop_dest_mask
    send_req,       \* send_req of each property
    echos_pending,  \* ada_sprop_echos_pending
    ready_pend,     \* ada_sprop_ready_callback is pending
    prop,           \* the heap: each struct prop
    \* tasks
    lock,           \* holder of client_lock
    pc, job,        \* where each task is, and its local variables
    sts             \* arguments of the running prop_mgr_connect_sts()

clientVars == <<valid, cb, dest, failed, overflow, conn, current,
                conn_update, ads_listen, wake>>
mgrVars == <<send_q, sending, lost_q, mgr_dest, enabled, send_pend>>
spropVars == <<sprop_dest, send_req, echos_pending, ready_pend>>
taskVars == <<lock, pc, job, sts>>
vars == <<clientVars, mgrVars, spropVars, prop, taskVars>>

Conn == {"down", "event", "post", "req", "retry"}
Status == {"done", "overflow", "ads_err", "conn_err"}
Caller == {"app", "sts", "http", "loop", "lost", "down"}
Pc == {"idle", "opt", "enq", "load", "store", "done", "dec", "echo", "echoed",
       "free", "loop", "set", "next", "sts", "listen", "stsend", "lost"}

Free == [name |-> NoName, dest |-> {}]
NoJob == [from |-> "app", name |-> NoName, dest |-> {}, new |-> NoProp,
          done |-> NoProp, status |-> "done", fail |-> {}, reg |-> 0]
NoSts == [on |-> FALSE, mask |-> {}, lost |-> {}]

PropRec == [name : Name \cup {NoName}, dest : SUBSET Dest]
Job == [from : Caller, name : Name \cup {NoName}, dest : SUBSET Dest,
        new : Prop \cup {NoProp}, done : Prop \cup {NoProp},
        status : Status, fail : SUBSET Dest, reg : Nat]
StsArgs == [on : BOOLEAN, mask : SUBSET Dest, lost : SUBSET Dest]

\* The types of the variables.
TypeOK ==
    /\ valid \in SUBSET Dest /\ dest \in SUBSET Dest /\ failed \in SUBSET Dest
    /\ {cb, overflow, current, conn_update, ads_listen, wake} \subseteq BOOLEAN
    /\ conn \in Conn
    /\ send_q \in Seq(Prop) /\ lost_q \in Seq(Prop)
    /\ sending \in Prop \cup {NoProp}
    /\ mgr_dest \in SUBSET Dest /\ sprop_dest \in SUBSET Dest
    /\ {enabled, send_pend, ready_pend} \subseteq BOOLEAN
    /\ send_req \in [Name -> BOOLEAN]
    /\ echos_pending \in Nat
    /\ prop \in [Prop -> PropRec]
    /\ lock \in Task \cup {NoTask}
    /\ pc \in [Task -> Pc] /\ job \in [Task -> Job]
    /\ sts \in StsArgs

\* The client has been initialised and ada_client_up() was not called yet.
Init ==
    /\ valid = {} /\ cb = FALSE /\ dest = {} /\ failed = {}
    /\ overflow = FALSE /\ conn = "down" /\ current = FALSE
    /\ conn_update = FALSE /\ ads_listen = FALSE /\ wake = FALSE
    /\ send_q = <<>> /\ sending = NoProp /\ lost_q = <<>> /\ mgr_dest = {}
    /\ enabled = FALSE /\ send_pend = FALSE
    /\ sprop_dest = {} /\ send_req = [n \in Name |-> FALSE]
    /\ echos_pending = 0 /\ ready_pend = FALSE
    /\ prop = [p \in Prop |-> Free]
    /\ lock = NoTask /\ pc = [t \in Task |-> "idle"]
    /\ job = [t \in Task |-> NoJob] /\ sts = NoSts

Goto(t, l) == pc' = [pc EXCEPT ![t] = l]
IsEcho(p) == prop[p].name \in Echo
\* The client task waits in client_idle() and nobody has client_lock.
ClientIdle == pc[Client] = "idle" /\ lock = NoTask
-----------------------------------------------------------------------------
(* sprop_send_opt(), from an application or from ada_sprop_send_echo(). *)
AfterSend(t) ==
    /\ Goto(t, IF job[t].from = "app" THEN "idle" ELSE "echoed")
    /\ lock' = IF job[t].from = "app" /\ lock = t THEN NoTask ELSE lock

\* The client task sends from a set handler or a schedule, with the lock.
Send(t, n) ==
    /\ pc[t] = "idle"
    /\ IF t = Client THEN lock = NoTask /\ lock' = t ELSE UNCHANGED lock
    /\ job' = [job EXCEPT ![t] = [NoJob EXCEPT !.name = n, !.dest = sprop_dest]]
    /\ Goto(t, "opt")
    /\ UNCHANGED <<clientVars, mgrVars, spropVars, prop, sts>>

Alloc(t, n, d) ==
    \E p \in {q \in Prop : prop[q] = Free} :
        /\ prop' = [prop EXCEPT ![p] = [name |-> n, dest |-> d]]
        /\ job' = [job EXCEPT ![t].new = p]

\* An echo that ADS cannot take now is left for ada_sprop_send_echo().
Opt(t) ==
    /\ pc[t] = "opt"
    /\ LET n == job[t].name
           defer == n \in Echo /\ Ads \notin job[t].dest
           full == Free \notin {prop[p] : p \in Prop}
           retry == full /\ job[t].from # "app"
       IN  /\ send_req' = [send_req EXCEPT ![n] = @ \/ defer \/ retry]
           /\ IF full \/ (defer /\ job[t].dest = {})
              THEN AfterSend(t) /\ UNCHANGED <<prop, job>>
              ELSE /\ Alloc(t, n, job[t].dest \cup {Ads})
                   /\ Goto(t, "enq") /\ UNCHANGED lock
    /\ UNCHANGED <<clientVars, mgrVars, sprop_dest, echos_pending, ready_pend,
                   sts>>

\* The bug of an echo that is not counted.
AfterEnq_NoCount(t) == AfterSend(t)

\* Echoes are counted once they are queued.
AfterEnq(t) == IF IsEcho(job[t].new) THEN Goto(t, "load") /\ UNCHANGED lock
                                     ELSE AfterSend(t)

\* ada_prop_mgr_enqueue(): from here on the client task may send it.
Enq(t) ==
    /\ pc[t] = "enq"
    /\ send_q' = Append(send_q, job[t].new)
    /\ send_pend' = TRUE
    /\ job' = [job EXCEPT ![t].new = NoProp]
    /\ AfterEnq(t)
    /\ UNCHANGED <<clientVars, sending, lost_q, mgr_dest, enabled, spropVars,
                   prop, sts>>

\* ada_sprop_echos_pending++ is a load and a store.
Load(t) ==
    /\ pc[t] = "load" /\ echos_pending < MaxEchos
    /\ job' = [job EXCEPT ![t].reg = echos_pending]
    /\ Goto(t, "store")
    /\ UNCHANGED <<clientVars, mgrVars, spropVars, prop, lock, sts>>

Store(t) ==
    /\ pc[t] = "store"
    /\ echos_pending' = job[t].reg + 1
    /\ AfterSend(t)
    /\ UNCHANGED <<clientVars, mgrVars, sprop_dest, send_req, ready_pend, prop,
                   job, sts>>

SendOpt(t) == Opt(t) \/ Enq(t) \/ Load(t) \/ Store(t)
-----------------------------------------------------------------------------
(* ada_sprop_mgr_send_done() and the end of prop_mgr_send_cb(). *)
\* Which failed echoes are sent again when ADS is back.
Repend(p, j) == IsEcho(p) /\ Ads \in j.fail /\ j.status = "conn_err"

\* The end of p is counted.
Counted(p) == IsEcho(p) /\ echos_pending > 0

Done(t) ==
    /\ pc[t] = "done"
    /\ LET j == job[t]
           p == j.done
           again == Repend(p, j)
       IN  /\ send_req' = [send_req EXCEPT ![prop[p].name] = @ \/ again]
           /\ IF Counted(p)
              THEN /\ job' = [job EXCEPT ![t].reg = echos_pending - 1,
                                         ![t].dest = IF again THEN sprop_dest \ j.fail
                                                              ELSE sprop_dest]
                   /\ Goto(t, "dec")
              ELSE Goto(t, "free") /\ UNCHANGED job
    /\ UNCHANGED <<clientVars, mgrVars, sprop_dest, echos_pending, ready_pend,
                   prop, lock, sts>>

Dec(t) ==
    /\ pc[t] = "dec"
    /\ echos_pending' = job[t].reg
    /\ Goto(t, IF Ads \in job[t].dest THEN "echo" ELSE "free")
    /\ UNCHANGED <<clientVars, mgrVars, sprop_dest, send_req, ready_pend, prop,
                   lock, job, sts>>

\* ada_sprop_send_echo(): send one echo that was left, if there is one.
SendEcho(t) ==
    /\ pc[t] = "echo"
    /\ IF \E n \in Name : send_req[n]
       THEN \E n \in Name :
               /\ send_req[n]
               /\ send_req' = [send_req EXCEPT ![n] = FALSE]
               /\ job' = [job EXCEPT ![t].name = n, ![t].dest = sprop_dest]
               /\ Goto(t, "opt")
       ELSE Goto(t, "echoed") /\ UNCHANGED <<send_req, job>>
    /\ UNCHANGED <<clientVars, mgrVars, sprop_dest, echos_pending, ready_pend,
                   prop, lock, sts>>

\* The bug of never declaring sprop ready after an echo.
ReadyAfterEcho_Never == ready_pend

ReadyAfterEcho == ready_pend \/ echos_pending = 0

\* With no echo left, declare sprop ready: now, or in a callback.
Echoed(t) ==
    /\ pc[t] = "echoed"
    /\ IF job[t].from = "sts"
       THEN /\ enabled' = (enabled \/ echos_pending = 0)
            /\ Goto(t, "listen") /\ UNCHANGED ready_pend
       ELSE /\ ready_pend' = ReadyAfterEcho
            /\ Goto(t, "free") /\ UNCHANGED enabled
    /\ UNCHANGED <<clientVars, send_q, sending, lost_q, mgr_dest, send_pend,
                   sprop_dest, send_req, echos_pending, prop, lock, job, sts>>

FreeProp(t) ==
    /\ pc[t] = "free"
    /\ prop' = [prop EXCEPT ![job[t].done] = Free]
    /\ send_pend' = (send_pend \/ job[t].from # "lost")
    /\ Goto(t, IF job[t].from \in {"loop", "lost"} THEN job[t].from ELSE "idle")
    /\ lock' = IF lock = t THEN NoTask ELSE lock
    /\ job' = [job EXCEPT ![t] = NoJob]
    /\ UNCHANGED <<clientVars, send_q, sending, lost_q, mgr_dest, enabled,
                   spropVars, sts>>

Completion(t) == Done(t) \/ Dec(t) \/ SendEcho(t) \/ Echoed(t) \/ FreeProp(t)
-----------------------------------------------------------------------------
(* client_prop_send_done(): destinations ds are finished with. *)
NotWaitedFor(ds) == dest # {} /\ dest \cap ds = {}

DestAfter(ds) == IF NotWaitedFor(ds) THEN dest ELSE dest \ ds
FailedAfter(ds, ok) ==
    IF ok \/ ~cb \/ NotWaitedFor(ds) THEN failed ELSE failed \cup ds

\* The status of a send whose last destination has finished.
DoneStatus(fail, err) ==
    IF overflow' THEN "overflow" ELSE IF fail # {} THEN err ELSE "done"

\* t calls prop_mgr_send_cb() with the end of the send of p.
Complete(t, p, from, status, fail) ==
    /\ job' = [job EXCEPT ![t] = [NoJob EXCEPT !.from = from, !.done = p,
                                  !.status = status, !.fail = fail]]
    /\ Goto(t, "done")

SendDone(t, from, ds, ok, err) ==
    IF cb /\ ~NotWaitedFor(ds) /\ dest \subseteq ds
    THEN LET fail == FailedAfter(ds, ok)
         IN  /\ cb' = FALSE /\ sending' = NoProp /\ lock' = t
             /\ Complete(t, sending, from, DoneStatus(fail, err), fail)
    ELSE UNCHANGED <<cb, sending, pc, job, lock>>

-----------------------------------------------------------------------------
(* prop_mgr_send_next(): one update at a time, first come first served. *)
SendNextCb ==
    /\ ClientIdle /\ send_pend
    /\ send_pend' = FALSE
    /\ lock' = Client
    /\ Goto(Client, "loop")
    /\ UNCHANGED <<clientVars, send_q, sending, lost_q, mgr_dest, enabled,
                   spropVars, prop, job, sts>>

\* The bug of starting a send while another one is in progress.
CanSendNext_Busy == mgr_dest # {} /\ send_q # <<>>

CanSendNext == mgr_dest # {} /\ sending = NoProp /\ send_q # <<>>

Loop ==
    /\ pc[Client] = "loop" /\ lock \in {NoTask, Client}
    /\ lock' = NoTask
    /\ IF CanSendNext
       THEN /\ sending' = Head(send_q)
            /\ send_q' = Tail(send_q)
            /\ Goto(Client, "set")
       ELSE /\ Goto(Client, IF sts.on THEN "lost" ELSE "idle")
            /\ UNCHANGED <<send_q, sending>>
    /\ UNCHANGED <<clientVars, lost_q, mgr_dest, enabled, send_pend, spropVars,
                   prop, job, sts>>

\* The bug of waiting for destinations that are not connected.
Reachable_All(p) == prop[p].dest

Reachable(p) == valid \cap prop[p].dest

\* client_send_callback_set(), entered without the lock.
CallbackSet ==
    /\ pc[Client] = "set" /\ lock = NoTask
    /\ overflow' = FALSE
    /\ LET d == prop[sending].dest
           left == Reachable(sending)
       IN  /\ dest' = left
           /\ failed' = d \ valid
           /\ IF left = {}
              THEN /\ conn_update' = TRUE
                   /\ cb' = FALSE /\ sending' = NoProp /\ lock' = Client
                   /\ Complete(Client, sending, "loop", "conn_err", d \ valid)
                   /\ UNCHANGED <<conn, wake>>
              ELSE /\ cb' = TRUE
                   /\ conn' = IF Ads \in left /\ conn = "retry" THEN "event" ELSE conn
                   /\ wake' = TRUE
                   /\ Goto(Client, "loop")
                   /\ UNCHANGED <<conn_update, sending, lock, job>>
    /\ UNCHANGED <<valid, current, ads_listen, send_q, lost_q, mgr_dest,
                   enabled, send_pend, spropVars, prop, sts>>
-----------------------------------------------------------------------------
(* client_next_step(): what the client does next, holding the lock. *)
NextCb ==
    /\ ClientIdle /\ wake
    /\ wake' = FALSE
    /\ lock' = Client
    /\ Goto(Client, "next")
    /\ UNCHANGED <<valid, cb, dest, failed, overflow, conn, current,
                   conn_update, ads_listen, mgrVars, spropVars, prop, job, sts>>

NextReady == pc[Client] = "next" /\ conn \in {"event", "down"} /\ ~current
PostReady == cb /\ Ads \in dest /\ conn = "event"

\* CQP_HIGH: client_connectivity_update_cb() drops the lock.
NextUpdate ==
    /\ NextReady /\ conn_update
    /\ conn_update' = FALSE
    /\ sts' = [on |-> TRUE, mask |-> valid, lost |-> {}]
    /\ lock' = NoTask
    /\ Goto(Client, "sts")
    /\ UNCHANGED <<valid, cb, dest, failed, overflow, conn, current, ads_listen,
                   wake, mgrVars, spropVars, prop, job>>

\* Any other request: the one in progress again, a queued one (keep), or
\* one of the client's steps.
NextReq(keep) ==
    /\ pc[Client] = "next" /\ conn = "event"
    /\ current \/ keep \/ ~conn_update
    /\ conn' = "req"
    /\ current' = (current \/ keep)
    /\ lock' = NoTask /\ Goto(Client, "idle")
    /\ UNCHANGED <<valid, cb, dest, failed, overflow, conn_update, ads_listen,
                   wake, mgrVars, spropVars, prop, job, sts>>

\* client_cmd_step(): POST the update to ADS.
NextPost ==
    /\ NextReady /\ ~conn_update /\ PostReady
    /\ conn' = "post"
    /\ lock' = NoTask /\ Goto(Client, "idle")
    /\ UNCHANGED <<valid, cb, dest, failed, overflow, current, conn_update,
                   ads_listen, wake, mgrVars, spropVars, prop, job, sts>>

NextNothing ==
    /\ pc[Client] = "next"
    /\ \/ conn \notin {"event", "down"}
       \/ NextReady /\ ~conn_update /\ ~PostReady
    /\ lock' = NoTask /\ Goto(Client, "idle")
    /\ UNCHANGED <<clientVars, mgrVars, spropVars, prop, job, sts>>

NextStep == NextUpdate \/ (\E keep \in BOOLEAN : NextReq(keep)) \/ NextPost
            \/ NextNothing
-----------------------------------------------------------------------------
(* prop_mgr_connect_sts(), on the client task without the lock. *)
\* The bug of not sending on connection the echoes that were left.
AfterSts_Skip == "echoed"

\* Echoes that were left are sent first.
AfterSts == "echo"

Sts ==
    /\ pc[Client] = "sts"
    /\ enabled' = (enabled /\ Ads \in sts.mask)
    /\ sprop_dest' = sts.mask
    /\ IF Ads \in sts.mask
       THEN /\ job' = [job EXCEPT ![Client] = [NoJob EXCEPT !.from = "sts"]]
            /\ Goto(Client, AfterSts)
       ELSE Goto(Client, "stsend") /\ UNCHANGED job
    /\ UNCHANGED <<clientVars, send_q, sending, lost_q, mgr_dest, send_pend,
                   send_req, echos_pending, ready_pend, prop, lock, sts>>

\* prop_mgr_listen_check() and client_enable_ads_listen().
Listen ==
    /\ pc[Client] = "listen"
    /\ IF enabled
       THEN /\ lock = NoTask
            /\ ads_listen' = (ads_listen \/ Ads \in valid)
            /\ wake' = (wake \/ (~ads_listen /\ Ads \in valid))
       ELSE UNCHANGED <<ads_listen, wake>>
    /\ Goto(Client, IF sts.on THEN "stsend" ELSE "idle")
    /\ job' = [job EXCEPT ![Client] = NoJob]
    /\ UNCHANGED <<valid, cb, dest, failed, overflow, conn, current,
                   conn_update, mgrVars, spropVars, prop, lock, sts>>

StsSend ==
    /\ pc[Client] = "stsend"
    /\ mgr_dest' = sts.mask
    /\ sts' = [sts EXCEPT !.lost = mgr_dest \ sts.mask]
    /\ Goto(Client, IF sts.mask \subseteq mgr_dest THEN "lost" ELSE "loop")
    /\ UNCHANGED <<clientVars, send_q, sending, lost_q, enabled, send_pend,
                   spropVars, prop, lock, job>>

\* prop_mgr_send_queue_check(): fail what can no longer be sent.
LostCheck ==
    /\ pc[Client] = "lost" /\ sts.lost # {}
    /\ LET lost == {i \in 1 .. Len(send_q) : prop[send_q[i]].dest \cap sts.mask = {}}
       IN  /\ lost_q' \in Picked(send_q, lost)
           /\ send_q' \in Picked(send_q, (1 .. Len(send_q)) \ lost)
    /\ sts' = [sts EXCEPT !.lost = {}]
    /\ UNCHANGED <<clientVars, sending, mgr_dest, enabled, send_pend, spropVars,
                   prop, lock, pc, job>>

LostFail ==
    /\ pc[Client] = "lost" /\ sts.lost = {} /\ lost_q # <<>>
    /\ lost_q' = Tail(lost_q)
    /\ Complete(Client, Head(lost_q), "lost", "conn_err", prop[Head(lost_q)].dest)
    /\ UNCHANGED <<clientVars, send_q, sending, mgr_dest, enabled, send_pend,
                   spropVars, prop, lock, sts>>

\* Back in client_next_step(), which starts again.
StsEnd ==
    /\ pc[Client] = "lost" /\ sts.lost = {} /\ lost_q = <<>> /\ lock = NoTask
    /\ sts' = NoSts
    /\ lock' = Client /\ Goto(Client, "next")
    /\ UNCHANGED <<clientVars, mgrVars, spropVars, prop, job>>

ConnectSts == Sts \/ Listen \/ StsSend \/ LostCheck \/ LostFail \/ StsEnd

\* ada_sprop_ready_cb() and ada_prop_mgr_ready().
ReadyCb ==
    /\ ClientIdle /\ ready_pend
    /\ ready_pend' = FALSE
    /\ IF echos_pending = 0 /\ Ads \in sprop_dest /\ ~enabled
       THEN enabled' = TRUE /\ Goto(Client, "listen")
       ELSE UNCHANGED <<enabled, pc>>
    /\ UNCHANGED <<clientVars, send_q, sending, lost_q, mgr_dest, send_pend,
                   sprop_dest, send_req, echos_pending, prop, lock, job, sts>>
-----------------------------------------------------------------------------
(* How requests end: callbacks of the HTTP client on the client task. *)
\* The bug of not waking the client when a request is over.
ToEvent_NoWake ==
    /\ conn' = "event"
    /\ UNCHANGED <<valid, conn_update, ads_listen, wake>>

\* The request is over and the client looks for the next one.
ToEvent ==
    /\ conn' = "event"
    /\ wake' = TRUE
    /\ UNCHANGED <<valid, conn_update, ads_listen>>

PostOk ==
    /\ ClientIdle /\ conn = "post"
    /\ current' = FALSE /\ overflow' = overflow
    /\ dest' = DestAfter({Ads}) /\ failed' = FailedAfter({Ads}, TRUE)
    /\ SendDone(Client, "http", {Ads}, TRUE, "conn_err")
    /\ ToEvent
    /\ UNCHANGED <<send_q, lost_q, mgr_dest, enabled, send_pend, spropVars,
                   prop, sts>>

\* client_server_conn_up().
ReqOk ==
    /\ ClientIdle /\ conn = "req"
    /\ current' = FALSE
    /\ valid' = valid \cup {Ads}
    /\ conn_update' = (conn_update \/ Ads \notin valid)
    /\ conn' = "event" /\ wake' = TRUE
    /\ UNCHANGED <<cb, dest, failed, overflow, ads_listen, mgrVars, spropVars,
                   prop, taskVars>>

\* client_err_cb(): the server closed the connection, or a GET of commands
\* (a step of the client, never current_request) timed out, so ask again.
Again(o) ==
    /\ o \in Outcome
    /\ ClientIdle
    /\ IF o = "closed" THEN conn \in {"post", "req"} ELSE conn = "req" /\ ~current
    /\ overflow' \in {overflow, overflow \/ o = "timeout"}
    /\ ToEvent
    /\ UNCHANGED <<cb, dest, failed, current, mgrVars, spropVars, prop, taskVars>>

\* client_err_cb(): fail the update and go on; err is what the service said.
ReqError(o) ==
    /\ o \in Outcome
    /\ ClientIdle /\ conn \in {"post", "req"}
    /\ overflow' = (overflow \/ o = "timeout")
    /\ dest' = DestAfter({Ads}) /\ failed' = FailedAfter({Ads}, FALSE)
    /\ SendDone(Client, "http", {Ads}, FALSE,
                IF o = "s4xx" THEN "ads_err" ELSE "conn_err")
    /\ ToEvent
    /\ UNCHANGED <<current, send_q, lost_q, mgr_dest, enabled, send_pend,
                   spropVars, prop, sts>>

\* client_err_cb(), retry: ADS is no longer a destination.
AdsLost(err) ==
    /\ ClientIdle
    /\ \/ "conn" \in Outcome /\ err = "conn_err" /\ conn \in {"post", "req"}
       \/ "s4xx" \in Outcome /\ err = "ads_err" /\ conn = "req"
    /\ ads_listen' = FALSE
    /\ valid' = valid \ {Ads}
    /\ conn_update' = (conn_update \/ Ads \in valid)
    /\ overflow' = overflow
    /\ dest' = DestAfter({Ads}) /\ failed' = FailedAfter({Ads}, FALSE)
    /\ SendDone(Client, "http", {Ads}, FALSE, err)
    /\ conn' = "retry"
    /\ UNCHANGED <<current, wake, send_q, lost_q, mgr_dest, enabled, send_pend,
                   spropVars, prop, sts>>

RetryTimeout ==
    /\ ClientIdle /\ conn = "retry"
    /\ ToEvent
    /\ UNCHANGED <<cb, dest, failed, overflow, current, mgrVars, spropVars,
                   prop, taskVars>>
-----------------------------------------------------------------------------
(* LAN sessions (lan.c), each a destination of its own. *)
Lan == Dest \ {Ads}

LanUp(d) ==
    /\ "lan" \in Outcome /\ ClientIdle /\ conn # "down" /\ d \notin valid
    /\ valid' = valid \cup {d}
    /\ conn_update' = TRUE /\ wake' = TRUE
    /\ UNCHANGED <<cb, dest, failed, overflow, conn, current, ads_listen,
                   mgrVars, spropVars, prop, taskVars>>

\* client_lan_recv_post(), and a 404 of the session.
LanPostOk(d) ==
    /\ ClientIdle /\ cb /\ d \in dest \cap valid
    /\ overflow' = overflow /\ wake' = TRUE
    /\ dest' = DestAfter({d}) /\ failed' = FailedAfter({d}, TRUE)
    /\ SendDone(Client, "http", {d}, TRUE, "conn_err")
    /\ UNCHANGED <<valid, conn, current, conn_update, ads_listen, send_q,
                   lost_q, mgr_dest, enabled, send_pend, spropVars, prop, sts>>

\* client_lan_clearout().
LanClearout(d) ==
    /\ d \in valid
    /\ valid' = valid \ {d}
    /\ conn_update' = TRUE
    /\ wake' \in {wake, TRUE}

\* client_lan_remove() finishes it.
LanDown(d) ==
    /\ "lan" \in Outcome /\ ClientIdle
    /\ LanClearout(d)
    /\ overflow' = overflow
    /\ dest' = DestAfter({d}) /\ failed' = FailedAfter({d}, FALSE)
    /\ SendDone(Client, "http", {d}, FALSE, "conn_err")
    /\ UNCHANGED <<conn, current, ads_listen, send_q, lost_q, mgr_dest, enabled,
                   send_pend, spropVars, prop, sts>>

\* client_parse_lan_cmd() on DELETE, and the other callers that do not.
LanClear(d) ==
    /\ "lan_clear" \in Outcome /\ ClientIdle
    /\ LanClearout(d)
    /\ UNCHANGED <<cb, dest, failed, overflow, conn, current, ads_listen,
                   mgrVars, spropVars, prop, taskVars>>

\* ada_sprop_mgr_set() by a LAN client while ADS is down.
LanSet(n) ==
    /\ ClientIdle /\ valid \cap Lan # {} /\ Ads \notin sprop_dest
    /\ n \in Echo
    /\ send_req' = [send_req EXCEPT ![n] = TRUE]
    /\ UNCHANGED <<clientVars, mgrVars, sprop_dest, echos_pending, ready_pend,
                   prop, taskVars>>
-----------------------------------------------------------------------------
(* ada_client_down() and ada_client_up(), on the Wi-Fi task. *)
Down(t) ==
    /\ "down" \in Outcome
    /\ pc[t] = "idle" /\ lock = NoTask /\ conn # "down"
    /\ conn' = "down" /\ current' = FALSE /\ overflow' = overflow
    /\ valid' = {} /\ failed' = {} /\ conn_update' = TRUE
    /\ dest' = DestAfter(valid) \cap {Ads}          \* client_lan_reset()
    /\ SendDone(t, "down", valid, FALSE, "conn_err")
    /\ UNCHANGED <<ads_listen, wake, send_q, lost_q, mgr_dest, enabled,
                   send_pend, spropVars, prop, sts>>

Up(t) ==
    /\ pc[t] = "idle" /\ lock = NoTask /\ conn = "down"
    /\ conn' = "event" /\ ads_listen' = FALSE /\ wake' = TRUE
    /\ UNCHANGED <<valid, cb, dest, failed, overflow, current, conn_update,
                   mgrVars, spropVars, prop, taskVars>>
-----------------------------------------------------------------------------
HttpEnd == PostOk \/ ReqOk
           \/ (\E o \in {"closed", "timeout"} : Again(o))
           \/ (\E o \in {"timeout", "s4xx", "s5xx"} : ReqError(o))
           \/ (\E err \in {"conn_err", "ads_err"} : AdsLost(err))
LanEnd == \E d \in Lan : LanPostOk(d) \/ LanDown(d)

Environment ==
    \/ HttpEnd \/ RetryTimeout
    \/ LanEnd \/ (\E d \in Lan : LanUp(d) \/ LanClear(d))
    \/ \E n \in Name : LanSet(n)
    \/ \E t \in Wifi : Down(t) \/ Up(t)

Next ==
    \/ \E t \in App, n \in Name : Send(t, n)
    \/ \E t \in Task : SendOpt(t) \/ Completion(t)
    \/ SendNextCb \/ Loop \/ CallbackSet
    \/ NextCb \/ NextStep \/ ConnectSts \/ ReadyCb
    \/ Environment

Spec == Init /\ [][Next]_vars

\* A task that runs goes on, a pended callback is run, a request ends (the
\* HTTP client times it out) and a LAN session answers or times out.  The
\* steps that share the client task with others get their turn: callbacks
\* are queued in order, and a POST alternates with a GET (prefer_get).
Fairness ==
    /\ \A t \in Task : WF_vars(SendOpt(t)) /\ WF_vars(Completion(t))
    /\ WF_vars(Loop) /\ WF_vars(CallbackSet) /\ WF_vars(NextStep)
    /\ WF_vars(ConnectSts)
    /\ SF_vars(SendNextCb) /\ SF_vars(NextCb)
    /\ SF_vars(NextUpdate) /\ SF_vars(NextPost)
    /\ SF_vars(HttpEnd) /\ SF_vars(LanEnd) /\ SF_vars(RetryTimeout)

FairSpec == Spec /\ Fairness
-----------------------------------------------------------------------------
(* Properties *)

Elems(q) == {q[i] : i \in DOMAIN q}
Times(q, p) == Cardinality({i \in DOMAIN q : q[i] = p})
Holders(p) == Cardinality({t \in Task : job[t].new = p})
              + Cardinality({t \in Task : job[t].done = p})

\* send_done is called and the prop freed exactly once: a prop that is not
\* free is on one list once, or the one being sent, or in one task's hands.
OneOwner ==
    \A p \in Prop :
        Times(send_q, p) + Times(lost_q, p) + Holders(p)
            + (IF sending = p THEN 1 ELSE 0) = (IF prop[p] = Free THEN 0 ELSE 1)

\* The update being sent is known to the client, which still waits for a
\* destination; with no update it waits for none.
SendMatched ==
    /\ IF cb THEN sending # NoProp ELSE dest = {}
    /\ sending # NoProp /\ pc[Client] # "set" => cb /\ dest # {}

\* The client waits only for destinations that can still finish the send:
\* client_prop_send_done() is called for whatever stops being valid.
SendCanEnd == cb => dest \subseteq valid

\* So the send and the client go on agreeing, whatever a step does, unless it
\* clears a LAN session without ending its send (the callers of
\* client_lan_clearout() that LanClear stands for).
SendKept ==
    [][SendMatched /\ SendCanEnd =>
        (SendMatched /\ SendCanEnd)' \/ \E d \in Lan : LanClear(d)]_vars

\* ada_sprop_echos_pending counts the echoes whose send has not ended.
Unfinished == {p \in Prop : \/ p \in Elems(send_q) \cup Elems(lost_q) \cup {sending}
                            \/ \E t \in Task : pc[t] = "done" /\ job[t].done = p}
Counting(t) == pc[t] \in {"load", "store", "dec"}
EchoCount ==
    (\A t \in Task : ~Counting(t))
        => echos_pending = Cardinality({p \in Unfinished : IsEcho(p)})

\* Nothing is left to do but wait for the service.
Quiet ==
    /\ \A t \in Task : pc[t] = "idle"
    /\ conn = "event" /\ ~wake /\ ~send_pend /\ ~ready_pend /\ ~conn_update
    /\ sending = NoProp /\ send_q = <<>>
Connected == Quiet /\ Ads \in valid

\* Once the echoes are done the client listens to ADS again.
ListenResumes == Connected => ads_listen

\* An echo left for later is sent when ADS is connected.
EchoResent == Connected => \A n \in Name : ~send_req[n]

\* The send in progress always ends, so the updates behind it get their turn.
SendEnds == \A p \in Prop : sending = p ~> sending # p
=============================================================================
