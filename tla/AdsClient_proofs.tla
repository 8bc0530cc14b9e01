------------------------- MODULE AdsClient_proofs -------------------------
(***************************************************************************)
(* Proofs about the client of the service (AdsClient), for every choice of *)
(* errors, commits, polling period and number of authentication failures,  *)
(* and for every notifier that keeps the promise of NotifySpec.            *)
(*                                                                         *)
(* As in Notify_proofs there is a lemma for each operator on the client's  *)
(* record (...Fact) and one for each action (...Step).                     *)
(***************************************************************************)
EXTENDS AdsClient, TLAPS

-----------------------------------------------------------------------------
(* The inductive invariant.                                                *)

\* The client knows its key, or is going to ask for it.
Asks(s) ==
    \/ s.client_key \/ s.current_request = "dev_id" \/ s.ping_time
    \/ Pended(s.callback_queue, "dev_id")

\* Which request goes with which state, and what makes the client go on.
Sound(s) ==
    ~s.asserted =>
        /\ s.conn_state \in {"EVENT", "RETRY", "ID", "PING", "GET"} => Asks(s)
        /\ s.conn_state = "GET" => s.client_key
        /\ s.conn_state = "ID" => s.current_request = "dev_id"
        /\ s.conn_state = "PING" => s.current_request = "none"
        /\ s.ping_time => s.current_request = "none"
        /\ s.conn_state = "ERR" => ~s.req_timer
        /\ s.conn_state = "RETRY" => s.req_timer
        /\ s.conn_state = "EVENT" /\ s.current_request # "none" => s.next_step

\* A client that is left waiting in EVENT is told by the notifier or polls.
Told(s, ev) ==
    ~s.asserted /\ s.conn_state = "EVENT" /\ ~s.next_step /\ ~ev
        /\ PollInterval # 0
        => s.np_up \/ s.poll_timer

\* The GET of commands that blocks the next one is being made.
BlockedIn(s) == s.get_echo_inprog /\ s.conn_state # "GET"

Inv == TypeOK /\ Sound(c) /\ Told(c, event)

\* What a step of the client, of the record s with the notifier's event ev,
\* has to show.
Good(s, t, ev) ==
    /\ t \in ClientState /\ Sound(t) /\ Told(t, ev)
    /\ BlockedIn(t) => BlockedIn(s)

-----------------------------------------------------------------------------
(* The queue of callbacks.                                                 *)

\* A short sequence of callbacks in which none is twice is a queue.
LEMMA QueueIs ==
    ASSUME NEW q \in Seq(Callback), Len(q) \in 0 .. 2,
           \A i, j \in 1 .. Len(q) : i # j => q[i] # q[j]
    PROVE  q \in Queue
<1>1. q \in [1 .. Len(q) -> Callback]
  OBVIOUS
<1>2. QED
  BY <1>1 DEF Queue

\* The two callbacks, each once, fit in the queue.
LEMMA AppendQueue ==
    ASSUME NEW q \in Queue, NEW cb \in Callback, ~Pended(q, cb)
    PROVE  Append(q, cb) \in Queue
<1>1. q \in Seq(Callback) /\ Len(q) \in 0 .. 2
  BY DEF Queue
<1>2. \A i, j \in 1 .. Len(q) : i # j => q[i] # q[j]
  BY DEF Queue
<1>3. \A i \in 1 .. Len(q) : q[i] \in Callback /\ q[i] # cb
  BY <1>1 DEF Pended
<1>4. Len(q) # 2
  <2>1. SUFFICES ASSUME Len(q) = 2 PROVE FALSE
    OBVIOUS
  <2>2. q[1] # q[2] /\ q[1] # cb /\ q[2] # cb
        /\ q[1] \in Callback /\ q[2] \in Callback
    BY <1>2, <1>3, <2>1
  <2>3. QED
    BY <2>2 DEF Callback
<1> DEFINE r == Append(q, cb)
<1>5. r \in Seq(Callback) /\ Len(r) \in 0 .. 2 /\ Len(r) = Len(q) + 1
  BY <1>1, <1>4, SMTT(30)
<1>6. \A i, j \in 1 .. Len(r) : i # j => r[i] # r[j]
  <2>1. r[Len(r)] = cb /\ \A i \in 1 .. Len(q) : r[i] = q[i]
    BY <1>1, <1>5
  <2>2. \A i \in 1 .. Len(r) : i = Len(r) \/ i \in 1 .. Len(q)
    BY <1>1, <1>5
  <2> HIDE DEF r
  <2>3. QED
    BY <1>2, <1>3, <2>1, <2>2
<1> HIDE DEF r
<1>7. r \in Queue
  BY <1>5, <1>6, QueueIs
<1>8. QED
  BY <1>7 DEF r

\* net_callback_enqueue(): the callback is on the queue, and what was there
\* stays.
LEMMA EnqueueFact ==
    ASSUME NEW s \in ClientState, NEW cb \in Callback
    PROVE  \E q \in Queue :
              /\ Enqueue(s, cb) = [s EXCEPT !.callback_queue = q]
              /\ Pended(q, cb)
              /\ \A b : Pended(s.callback_queue, b) => Pended(q, b)
<1> DEFINE old == s.callback_queue
<1>1. old \in Queue
  BY DEF ClientState
<1>2. CASE Pended(old, cb)
  <2>1. Enqueue(s, cb) = [s EXCEPT !.callback_queue = old]
    BY <1>2 DEF Enqueue, ClientState
  <2>2. QED
    BY <1>1, <1>2, <2>1
<1>3. CASE ~Pended(old, cb)
  <2> DEFINE q == Append(old, cb)
  <2>1. Enqueue(s, cb) = [s EXCEPT !.callback_queue = q]
    BY <1>3 DEF Enqueue
  <2>2. old \in Seq(Callback)
    BY <1>1, SMTT(30) DEF Queue
  <2>3. Pended(q, cb) /\ \A b : Pended(old, b) => Pended(q, b)
    BY <2>2 DEF Pended
  <2>4. q \in Queue
    BY <1>1, <1>3, AppendQueue
  <2>5. QED
    BY <2>1, <2>3, <2>4
<1>4. QED
  BY <1>2, <1>3

\* net_callback_dequeue() takes the first and leaves the others.
LEMMA DequeueFact ==
    ASSUME NEW q \in Queue, q # <<>>
    PROVE  /\ Tail(q) \in Queue /\ Head(q) \in Callback
           /\ \A b : Pended(q, b) => b = Head(q) \/ Pended(Tail(q), b)
<1>1. q \in Seq(Callback) /\ Len(q) \in 1 .. 2
  BY DEF Queue
<1>2. \A i, j \in 1 .. Len(q) : i # j => q[i] # q[j]
  BY DEF Queue
<1> DEFINE r == Tail(q)
<1>3. r \in Seq(Callback) /\ Len(r) \in 0 .. 2 /\ Len(r) = Len(q) - 1
      /\ \A i \in 1 .. Len(r) : r[i] = q[i + 1]
  BY <1>1
<1>4. Head(q) \in Callback /\ Head(q) = q[1]
  BY <1>1
<1> HIDE DEF r
<1>5. \A i, j \in 1 .. Len(r) : i # j => r[i] # r[j]
  <2>1. SUFFICES ASSUME NEW i \in 1 .. Len(r), NEW j \in 1 .. Len(r), i # j
                 PROVE  r[i] # r[j]
    OBVIOUS
  <2>2. i + 1 \in 1 .. Len(q) /\ j + 1 \in 1 .. Len(q) /\ i + 1 # j + 1
    BY <1>1, <1>3, <2>1
  <2>3. QED
    BY <1>2, <1>3, <2>2
<1>6. r \in Queue
  BY <1>3, <1>5, QueueIs
<1>7. ASSUME NEW b, Pended(q, b), b # Head(q)
      PROVE  Pended(r, b)
  <2>1. PICK i \in 1 .. Len(q) : q[i] = b
    BY <1>7 DEF Pended
  <2>2. i # 1
    BY <1>4, <1>7, <2>1
  <2>3. i - 1 \in 1 .. Len(r) /\ (i - 1) + 1 = i
    BY <1>1, <1>3, <2>1, <2>2
  <2>4. r[i - 1] = b
    BY <1>3, <2>1, <2>3
  <2>5. QED
    BY <2>3, <2>4 DEF Pended
<1>8. QED
  BY <1>4, <1>6, <1>7 DEF r

-----------------------------------------------------------------------------
(* What the parts of handlers do.                                          *)

\* auth_fails counts within its bound.
LEMMA MaxAuthFact == MaxAuth \in Nat \ {0} /\ 0 \in 0 .. MaxAuth
  BY AdsAssumption

\* client_next_request(): back to EVENT with the step pended.
LEMMA NextRequestFact ==
    ASSUME NEW s \in ClientState
    PROVE  /\ NextRequest(s) =
                [s EXCEPT !.conn_state = "EVENT", !.next_step = TRUE]
           /\ NextRequest(s) \in ClientState
  BY DEF NextRequest, Wakeup, ClientState

\* client_req_new(): the state is that of the request.
LEMMA ReqNewFact ==
    ASSUME NEW s \in ClientState, NEW tgt \in {"ads", "http"},
           NEW r \in InRequest
    PROVE  /\ ReqNew(s, tgt, r) \in ClientState
           /\ ReqNew(s, tgt, r).conn_state = r
           /\ ReqNew(s, tgt, r).client_key = s.client_key
           /\ ReqNew(s, tgt, r).ping_time = s.ping_time
           /\ ReqNew(s, tgt, r).current_request = s.current_request
           /\ ReqNew(s, tgt, r).get_echo_inprog = s.get_echo_inprog
<1> DEFINE kept == s.req_timer /\ s.tgt = tgt
           n == [s EXCEPT !.conn_state = r, !.tgt = tgt, !.req_timer = kept]
<1>1. kept \in BOOLEAN
  OBVIOUS
<1>2. ReqNew(s, tgt, r) = n
  BY DEF ReqNew
<1> HIDE DEF kept
<1>3. n \in ClientState
  BY <1>1 DEF ClientState
<1>4. /\ n.conn_state = r /\ n.client_key = s.client_key
      /\ n.ping_time = s.ping_time /\ n.current_request = s.current_request
      /\ n.get_echo_inprog = s.get_echo_inprog
  BY DEF ClientState
<1>5. QED
  BY <1>2, <1>3, <1>4

\* CS_WAIT_RETRY is entered with its timer.
LEMMA RetryFact ==
    ASSUME NEW s \in ClientState
    PROVE  /\ Retry(s) \in ClientState
           /\ Retry(s).conn_state = "RETRY" /\ Retry(s).req_timer
           /\ \A f \in DOMAIN s : f \notin {"conn_state", "req_timer"} =>
                    Retry(s)[f] = s[f]
  BY DEF Retry, ClientState

\* client_tcp_recv_done(): the request is over and the step is pended.
LEMMA TcpRecvDoneFact ==
    ASSUME NEW s \in ClientState
    PROVE  /\ TcpRecvDone(s) \in ClientState
           /\ TcpRecvDone(s) =
                [s EXCEPT !.auth_fails = 0, !.current_request = "none",
                          !.conn_state = "EVENT", !.next_step = TRUE]
<1>1. TcpRecvDone(s) =
        [s EXCEPT !.auth_fails = 0, !.current_request = "none",
                  !.conn_state = "EVENT", !.next_step = TRUE]
  BY DEF TcpRecvDone, Wakeup, ClientState
<1>2. QED
  BY <1>1, MaxAuthFact, ZenonT(60) DEF ClientState

\* client_server_conn_up() leaves what the client asks for as it is.
LEMMA ServerConnUpFact ==
    ASSUME NEW s \in ClientState
    PROVE  \E q \in Queue :
              /\ ServerConnUp(s) = [s EXCEPT !.serv_conn = TRUE,
                                    !.ads_valid = TRUE, !.callback_queue = q]
              /\ \A b : Pended(s.callback_queue, b) => Pended(q, b)
<1> DEFINE up == [s EXCEPT !.serv_conn = TRUE, !.ads_valid = TRUE]
<1>1. up \in ClientState /\ up.callback_queue = s.callback_queue
  BY DEF ClientState
<1>2. PICK q \in Queue :
        /\ Enqueue(up, "conn") = [up EXCEPT !.callback_queue = q]
        /\ \A b : Pended(up.callback_queue, b) => Pended(q, b)
  <2>1. "conn" \in Callback
    BY DEF Callback
  <2> HIDE DEF up
  <2>2. QED
    BY <1>1, <2>1, EnqueueFact
<1>3. CASE s.ads_valid
  <2>1. ServerConnUp(s) = [s EXCEPT !.serv_conn = TRUE, !.ads_valid = TRUE,
                                    !.callback_queue = s.callback_queue]
    BY <1>3 DEF ServerConnUp, ClientState
  <2>2. s.callback_queue \in Queue
    BY DEF ClientState
  <2>3. QED
    BY <2>1, <2>2
<1>4. CASE ~s.ads_valid
  <2>1. ServerConnUp(s) = Enqueue(up, "conn")
    BY <1>4 DEF ServerConnUp
  <2>2. ServerConnUp(s) = [s EXCEPT !.serv_conn = TRUE, !.ads_valid = TRUE,
                                    !.callback_queue = q]
    BY <1>2, <2>1 DEF ClientState
  <2>3. QED
    BY <1>1, <1>2, <2>2
<1>5. QED
  BY <1>3, <1>4 DEF ClientState

\* client_down_locked(): nothing goes on and nothing blocks.
LEMMA DownLockedFact ==
    ASSUME NEW s \in ClientState
    PROVE  /\ DownLocked(s) \in ClientState
           /\ DownLocked(s).conn_state = "DOWN"
           /\ DownLocked(s).current_request = "none"
           /\ ~DownLocked(s).get_echo_inprog
<1> DEFINE d == [s EXCEPT !.conn_state = "DOWN", !.current_request = "none",
                          !.req_timer = FALSE, !.ads_valid = FALSE,
                          !.get_echo_inprog = FALSE]
<1>1. d \in ClientState /\ d.conn_state = "DOWN"
      /\ d.current_request = "none" /\ ~d.get_echo_inprog
  BY DEF ClientState
<1>2. DownLocked(s) = NotifyStop(Enqueue(d, "conn"))
  BY DEF DownLocked
<1> HIDE DEF d
<1>3. PICK q \in Queue : Enqueue(d, "conn") = [d EXCEPT !.callback_queue = q]
  BY <1>1, EnqueueFact DEF Callback
<1> DEFINE e == [d EXCEPT !.callback_queue = q]
<1>4. e \in ClientState /\ e.conn_state = "DOWN"
      /\ e.current_request = "none" /\ ~e.get_echo_inprog
  BY <1>1 DEF ClientState
<1>5. DownLocked(s) = NotifyStop(e)
  BY <1>2, <1>3
<1> HIDE DEF e
<1>6. QED
  BY <1>4, <1>5, ZenonT(60) DEF NotifyStop, ClientState

\* client_reset() leaves the request, the queue and the step as they are.
LEMMA ResetFact ==
    ASSUME NEW s \in ClientState
    PROVE  /\ Reset(s) \in ClientState
           /\ Reset(s).conn_state = s.conn_state
           /\ Reset(s).current_request = s.current_request
           /\ Reset(s).ping_time = s.ping_time
           /\ Reset(s).callback_queue = s.callback_queue
           /\ Reset(s).get_echo_inprog = s.get_echo_inprog
           /\ Reset(s).asserted = s.asserted
           /\ ~Reset(s).req_timer
  BY MaxAuthFact, ZenonT(60) DEF Reset, NotifyStop, ClientState

-----------------------------------------------------------------------------
(* A request that fails: client_err_cb().                                  *)

\* A request that failed has been dealt with up to "retry".
Failed(s) ==
    /\ s \in ClientState /\ Asks(s) /\ ~s.req_timer
    /\ s.conn_state \in InRequest \cup {"EVENT", "ERR"}
    /\ s.ping_time => s.current_request = "none"
    /\ s.conn_state = "GET" => ~s.get_echo_inprog

\* The client goes on after an error, with nothing blocked.
GoesOn(t) ==
    /\ t \in ClientState /\ Sound(t) /\ ~t.get_echo_inprog
    /\ t.conn_state = "EVENT" => t.next_step

\* When ADS was valid, it no longer is, and the callback for that is pended.
LEMMA LostFact ==
    ASSUME NEW s, Failed(s)
    PROVE  LET valid == [s EXCEPT !.ads_valid = FALSE]
               lost == IF s.ads_valid THEN NotifyStop(Enqueue(valid, "conn"))
                                      ELSE s
           IN  /\ Failed(lost) /\ lost.conn_state = s.conn_state
               /\ lost.get_echo_inprog = s.get_echo_inprog
<1> DEFINE valid == [s EXCEPT !.ads_valid = FALSE]
<1>1. valid \in ClientState /\ valid.callback_queue = s.callback_queue
  BY DEF Failed, ClientState
<1>2. PICK q \in Queue :
        /\ Enqueue(valid, "conn") = [valid EXCEPT !.callback_queue = q]
        /\ \A b : Pended(s.callback_queue, b) => Pended(q, b)
  <2>1. "conn" \in Callback
    BY DEF Callback
  <2> HIDE DEF valid
  <2>2. QED
    BY <1>1, <2>1, EnqueueFact
<1> DEFINE l == NotifyStop(Enqueue(valid, "conn"))
<1>3. l = [s EXCEPT !.ads_valid = FALSE, !.callback_queue = q,
                    !.np_up = FALSE, !.np_started = FALSE]
  BY <1>2 DEF NotifyStop, Failed, ClientState
<1> HIDE DEF l
<1>4. l \in ClientState /\ l.conn_state = s.conn_state
      /\ l.get_echo_inprog = s.get_echo_inprog
  BY <1>3 DEF Failed, ClientState
<1>5. Failed(l)
  BY <1>2, <1>3, <1>4 DEF Failed, ClientState, Asks
<1>6. QED
  BY <1>4, <1>5 DEF l

\* client_err_cb() from "retry" on: the client retries by its timer, pings
\* for the time, or has given up.
LEMMA LoseAdsFact ==
    ASSUME NEW s, Failed(s), NEW error
    PROVE  GoesOn(LoseAds(s, error))
<1> DEFINE valid == [s EXCEPT !.ads_valid = FALSE]
           lost == IF s.ads_valid THEN NotifyStop(Enqueue(valid, "conn"))
                                  ELSE s
           failed == [lost EXCEPT !.ads_listen = FALSE, !.serv_conn = FALSE]
           t == IF s.get_echo_inprog /\ s.conn_state # "GET"
                THEN Wakeup([failed EXCEPT !.get_echo_inprog = FALSE])
                ELSE failed
           ping == [t EXCEPT !.current_request = "none", !.ping_time = TRUE]
<1>1. Failed(lost) /\ lost.conn_state = s.conn_state
      /\ lost.get_echo_inprog = s.get_echo_inprog
  BY LostFact
<1> HIDE DEF lost
<1>2. failed \in ClientState /\ failed.conn_state = s.conn_state
      /\ failed.get_echo_inprog = s.get_echo_inprog
  BY <1>1 DEF Failed, ClientState
<1>3. Failed(failed)
  BY <1>1, <1>2 DEF Failed, ClientState, Asks
<1> HIDE DEF failed
<1>4. t \in ClientState /\ t.conn_state = s.conn_state
  <2> DEFINE w == Wakeup([failed EXCEPT !.get_echo_inprog = FALSE])
  <2>1. w \in ClientState /\ w.conn_state = failed.conn_state
    BY <1>2 DEF Wakeup, ClientState
  <2>2. t = w \/ t = failed
    OBVIOUS
  <2> HIDE DEF w, t
  <2>3. QED
    BY <1>2, <2>1, <2>2
<1>5. Failed(t) /\ ~t.get_echo_inprog
  BY <1>2, <1>3, <1>4 DEF Failed, ClientState, Asks, Wakeup
<1> HIDE DEF t
<1>6. LoseAds(s, error) =
        CASE error = "connect" /\ s.tgt = "ads" /\ ~s.clock_set ->
                NextRequest(ping)
          [] OTHER -> IF s.conn_state = "ERR" THEN t ELSE Retry(t)
  BY DEF LoseAds, t, failed, lost
<1>7. GoesOn(NextRequest(ping))
  <2>1. ping \in ClientState /\ ping.ping_time
        /\ ping.current_request = "none" /\ ~ping.get_echo_inprog
    BY <1>4, <1>5 DEF ClientState
  <2> HIDE DEF ping
  <2>2. NextRequest(ping) \in ClientState
        /\ NextRequest(ping) =
              [ping EXCEPT !.conn_state = "EVENT", !.next_step = TRUE]
    BY <2>1, NextRequestFact
  <2>3. QED
    BY <2>1, <2>2 DEF GoesOn, Sound, Asks, ClientState
<1>8. s.conn_state = "ERR" => GoesOn(t)
  BY <1>4, <1>5 DEF GoesOn, Sound, Failed
<1>9. GoesOn(Retry(t))
  <2>1. Retry(t) = [t EXCEPT !.conn_state = "RETRY", !.req_timer = TRUE]
    BY DEF Retry
  <2>2. Retry(t) \in ClientState
    BY <1>4, RetryFact
  <2>3. QED
    BY <1>4, <1>5, <2>1, <2>2 DEF GoesOn, Sound, Failed, Asks, ClientState
<1>10. QED
  BY <1>6, <1>7, <1>8, <1>9

\* An authentication error ends the request; after too many of them the
\* client has given up.
LEMMA AuthErrorFact ==
    ASSUME NEW s \in ClientState, Asks(s), ~s.req_timer,
           s.conn_state \in InRequest,
           s.conn_state = "PING" => s.current_request = "none",
           s.conn_state = "GET" => s.client_key
    PROVE  Failed(AuthError(s)) /\ AuthError(s).conn_state \in {"EVENT", "ERR"}
<1> DEFINE e == IF s.conn_state = "ID" THEN Enqueue(s, "dev_id") ELSE s
           t == TcpRecvDone(e)
           n == IF s.auth_fails < MaxAuth THEN s.auth_fails + 1
                                          ELSE s.auth_fails
           i == IF s.auth_fails + 1 >= MaxAuth THEN "ERR" ELSE t.conn_state
<1>1. /\ e \in ClientState /\ ~e.req_timer
      /\ e.client_key = s.client_key /\ e.ping_time = s.ping_time
      /\ e.client_key \/ e.ping_time \/ Pended(e.callback_queue, "dev_id")
  <2>1. CASE s.conn_state = "ID"
    <3>1. "dev_id" \in Callback
      BY DEF Callback
    <3>2. PICK q \in Queue :
            /\ Enqueue(s, "dev_id") = [s EXCEPT !.callback_queue = q]
            /\ Pended(q, "dev_id")
      BY <3>1, EnqueueFact
    <3>3. e = [s EXCEPT !.callback_queue = q]
      BY <2>1, <3>2
    <3> HIDE DEF e
    <3>4. QED
      BY <3>2, <3>3 DEF ClientState
  <2>2. CASE s.conn_state # "ID"
    <3>1. e = s
      BY <2>2
    <3> HIDE DEF e
    <3>2. QED
      BY <2>2, <3>1 DEF Asks, InRequest
  <2>3. QED
    BY <2>1, <2>2
<1> HIDE DEF e
<1>2. t \in ClientState
      /\ t = [e EXCEPT !.auth_fails = 0, !.current_request = "none",
                       !.conn_state = "EVENT", !.next_step = TRUE]
  BY <1>1, TcpRecvDoneFact
<1> HIDE DEF t
<1>3. /\ t.conn_state = "EVENT" /\ ~t.req_timer
      /\ t.current_request = "none"
      /\ t.client_key \/ t.ping_time \/ Pended(t.callback_queue, "dev_id")
  BY <1>1, <1>2 DEF ClientState
<1>4. n \in 0 .. MaxAuth
  BY MaxAuthFact DEF ClientState
<1>5. i \in {"EVENT", "ERR"}
  BY <1>3
<1>6. AuthError(s) = [t EXCEPT !.auth_fails = n, !.conn_state = i]
  BY DEF AuthError, t, e
<1> HIDE DEF n, i
<1>7. AuthError(s) \in ClientState /\ AuthError(s).conn_state = i
  <2>1. [t EXCEPT !.auth_fails = n, !.conn_state = i] \in ClientState
    BY <1>2, <1>4, <1>5, ZenonT(60) DEF ClientState
  <2>2. [t EXCEPT !.auth_fails = n, !.conn_state = i].conn_state = i
    BY <1>2 DEF ClientState
  <2>3. QED
    BY <1>6, <2>1, <2>2
<1>8. Failed(AuthError(s))
  <2> DEFINE r == [t EXCEPT !.auth_fails = n, !.conn_state = i]
  <2>1. /\ r.client_key = t.client_key /\ r.ping_time = t.ping_time
        /\ r.callback_queue = t.callback_queue /\ r.req_timer = t.req_timer
        /\ r.current_request = t.current_request /\ r.conn_state = i
    BY <1>2 DEF ClientState
  <2>2. r \in ClientState
    BY <1>6, <1>7
  <2> HIDE DEF r
  <2>3. Failed(r)
    BY <1>3, <1>5, <2>1, <2>2 DEF Failed, Asks
  <2>4. QED
    BY <1>6, <2>3 DEF r
<1>9. QED
  BY <1>5, <1>7, <1>8

\* After any error the client retries, goes on, or has given up; and it does
\* not leave the GET of commands blocked.
LEMMA ErrCbFact ==
    ASSUME NEW s \in ClientState, Sound(s), ~s.asserted,
           s.conn_state \in InRequest, NEW error
    PROVE  \/ GoesOn(ErrCb(s, error))
           \/ /\ ErrCb(s, error) \in ClientState /\ Sound(ErrCb(s, error))
              /\ ErrCb(s, error).conn_state = "EVENT"
              /\ ErrCb(s, error).next_step
              /\ ErrCb(s, error).get_echo_inprog => BlockedIn(s)
<1> DEFINE off == [s EXCEPT !.req_timer = FALSE]
           get == [off EXCEPT !.get_echo_inprog = FALSE, !.np_event = TRUE,
                              !.get_cmds_fail = TRUE]
           t == IF s.conn_state = "GET" THEN get ELSE off
           cmds == [get EXCEPT !.cmd_timer = TRUE, !.np_event = FALSE]
           gone == [off EXCEPT !.conn_state = "ERR"]
<1>1. /\ s.conn_state \in {"ID", "PING", "GET"} => Asks(s)
      /\ s.conn_state = "GET" => s.client_key
      /\ s.conn_state = "PING" => s.current_request = "none"
      /\ s.ping_time => s.current_request = "none"
  BY DEF Sound
<1>2. Asks(s)
  BY <1>1 DEF InRequest
<1>3. off \in ClientState /\ get \in ClientState /\ cmds \in ClientState
  BY ZenonT(60) DEF ClientState
<1>4. t \in ClientState
  BY <1>3
<1>5. /\ ~t.req_timer /\ t.conn_state = s.conn_state
      /\ t.current_request = s.current_request
      /\ t.callback_queue = s.callback_queue
      /\ t.client_key = s.client_key /\ t.ping_time = s.ping_time
      /\ t.conn_state = "GET" => ~t.get_echo_inprog
      /\ t.conn_state # "GET" => t.get_echo_inprog = s.get_echo_inprog
  BY DEF ClientState
<1>6. ErrCb(s, error) =
        CASE s.conn_state = "GET" /\ s.get_cmds_fail -> NextRequest(cmds)
          [] Loses(s, error) ->
                LoseAds(CASE error = "auth" -> AuthError(t)
                          [] error = "xml" -> gone
                          [] error = "status" /\ s.conn_state = "ID" ->
                                Enqueue(t, "dev_id")
                          [] OTHER -> t, error)
          [] OTHER -> NextRequest(t)
  BY DEF ErrCb
<1>7. ASSUME s.conn_state = "GET"
      PROVE  GoesOn(NextRequest(cmds))
  <2>1. ~cmds.get_echo_inprog /\ cmds.client_key
        /\ cmds.ping_time = s.ping_time
        /\ cmds.current_request = s.current_request
    BY <1>1, <1>7 DEF ClientState
  <2> HIDE DEF cmds
  <2>2. /\ NextRequest(cmds) \in ClientState
        /\ NextRequest(cmds) =
              [cmds EXCEPT !.conn_state = "EVENT", !.next_step = TRUE]
    BY <1>3, NextRequestFact
  <2>3. QED
    BY <1>1, <1>3, <2>1, <2>2 DEF GoesOn, Sound, Asks, ClientState
<1> HIDE DEF t
<1>8. /\ NextRequest(t) \in ClientState /\ Sound(NextRequest(t))
      /\ NextRequest(t).conn_state = "EVENT" /\ NextRequest(t).next_step
      /\ NextRequest(t).get_echo_inprog => BlockedIn(s)
  <2>1. /\ NextRequest(t) \in ClientState
        /\ NextRequest(t) =
              [t EXCEPT !.conn_state = "EVENT", !.next_step = TRUE]
    BY <1>4, NextRequestFact
  <2>2. Sound(NextRequest(t))
    BY <1>1, <1>2, <1>4, <1>5, <2>1 DEF Sound, Asks, ClientState
  <2>3. QED
    BY <1>4, <1>5, <2>1, <2>2 DEF BlockedIn, ClientState
<1>9. Failed(t)
  BY <1>1, <1>2, <1>4, <1>5 DEF Failed, Asks
<1>10. Failed(AuthError(t))
  <2>1. Asks(t)
    BY <1>9 DEF Failed
  <2>2. QED
    BY <1>1, <1>4, <1>5, <2>1, AuthErrorFact
<1>11. Failed(gone)
  <2>1. gone \in ClientState
    BY DEF ClientState
  <2>2. /\ ~gone.req_timer /\ gone.conn_state = "ERR"
        /\ gone.current_request = s.current_request
        /\ gone.callback_queue = s.callback_queue
        /\ gone.client_key = s.client_key /\ gone.ping_time = s.ping_time
    BY DEF ClientState
  <2> HIDE DEF gone
  <2>3. QED
    BY <1>1, <1>2, <2>1, <2>2 DEF Failed, Asks
<1>12. Failed(Enqueue(t, "dev_id"))
  <2>1. "dev_id" \in Callback
    BY DEF Callback
  <2>2. PICK q \in Queue :
          /\ Enqueue(t, "dev_id") = [t EXCEPT !.callback_queue = q]
          /\ Pended(q, "dev_id")
    BY <1>4, <2>1, EnqueueFact
  <2> DEFINE r == [t EXCEPT !.callback_queue = q]
  <2>3. /\ r \in ClientState /\ r.callback_queue = q
        /\ r.conn_state = t.conn_state /\ r.req_timer = t.req_timer
        /\ r.ping_time = t.ping_time
        /\ r.current_request = t.current_request
        /\ r.get_echo_inprog = t.get_echo_inprog
    BY <1>4 DEF ClientState
  <2> HIDE DEF r
  <2>4. Failed(r)
    BY <1>9, <2>2, <2>3 DEF Failed, Asks
  <2>5. QED
    BY <2>2, <2>4 DEF r
<1> HIDE DEF gone, cmds
<1>13. GoesOn(LoseAds(CASE error = "auth" -> AuthError(t)
                        [] error = "xml" -> gone
                        [] error = "status" /\ s.conn_state = "ID" ->
                              Enqueue(t, "dev_id")
                        [] OTHER -> t, error))
  <2> DEFINE r == CASE error = "auth" -> AuthError(t)
                    [] error = "xml" -> gone
                    [] error = "status" /\ s.conn_state = "ID" ->
                          Enqueue(t, "dev_id")
                    [] OTHER -> t
  <2>1. Failed(r)
    BY <1>9, <1>10, <1>11, <1>12
  <2> HIDE DEF r
  <2>2. GoesOn(LoseAds(r, error))
    BY <2>1, LoseAdsFact
  <2>3. QED
    BY <2>2 DEF r
<1>14. QED
  BY <1>6, <1>7, <1>8, <1>13

-----------------------------------------------------------------------------
(* The notifier.                                                           *)

\* What the notifier does keeps its types.
LEMMA NpTypes ==
    ASSUME NpTypeOK, NpNext \/ UNCHANGED npVars
    PROVE  NpTypeOK'
<1> USE DEF NpTypeOK, NpState, Enter, GoDown, GoDownRetry
<1>1. CASE UNCHANGED npVars
  BY <1>1 DEF npVars
<1>2. CASE Stop
  BY <1>2 DEF Stop
<1>3. CASE SetServer
  BY <1>3 DEF SetServer
<1>4. CASE StopSetServer
  BY <1>4 DEF StopSetServer
<1>5. CASE Start
  BY <1>5 DEF Start
<1>6. CASE EventGet
  BY <1>6 DEF EventGet
<1>7. CASE Own
  <2>1. CASE Resolved
    BY <2>1 DEF Resolved
  <2>2. CASE BringUp
    BY <2>2 DEF BringUp
  <2>3. CASE Registering
    BY <2>3 DEF Registering
  <2>4. CASE KeepAlive
    BY <2>4 DEF KeepAlive
  <2>5. CASE Retrying
    BY <2>5 DEF Retrying
  <2>6. CASE Searching
    BY <2>6 DEF Searching
  <2>7. CASE Change \/ ChangeAsked \/ Leftover \/ Notified
    BY <2>7 DEF Change, ChangeAsked, Leftover, Notified
  <2>8. QED
    BY <1>7, <2>1, <2>2, <2>3, <2>4, <2>5, <2>6, <2>7 DEF Own
<1>8. QED
  BY <1>1, <1>2, <1>3, <1>4, <1>5, <1>6, <1>7 DEF NpNext

\* By itself the notifier takes back no event.
LEMMA OwnKeepsEvent ==
    ASSUME NpTypeOK, Own, event
    PROVE  event'
<1> USE DEF NpTypeOK, Enter, GoDown, GoDownRetry
<1>1. CASE Resolved \/ BringUp \/ Registering
  BY <1>1 DEF Resolved, BringUp, Registering
<1>2. CASE KeepAlive \/ Retrying \/ Searching
  BY <1>2 DEF KeepAlive, Retrying, Searching
<1>3. CASE Change \/ ChangeAsked \/ Leftover \/ Notified
  BY <1>3 DEF Change, ChangeAsked, Leftover, Notified
<1>4. QED
  BY <1>1, <1>2, <1>3 DEF Own

-----------------------------------------------------------------------------
(* The next step of the client.                                            *)

\* A handler that does not leave the client waiting.
Moves(s, t) ==
    /\ t \in ClientState /\ Sound(t)
    /\ t.conn_state = "EVENT" => t.next_step
    /\ BlockedIn(t) => BlockedIn(s)

\* The GET of the DSN is made, or dropped for a ping, or by a client that
\* has given up.
LEMMA GetDevIdFact ==
    ASSUME NEW s \in ClientState, GetDevId(s), NpTypeOK,
           s.conn_state \in {"EVENT", "ERR", "DOWN"},
           s.current_request = "dev_id", s.ping_time => s.next_step,
           s.conn_state = "ERR" => ~s.req_timer
    PROVE  Moves(s, c') /\ NpTypeOK'
<1>1. CASE s.conn_state = "ERR" \/ s.ping_time
  <2>1. c' = [s EXCEPT !.current_request = "none"] /\ UNCHANGED npVars
    BY <1>1 DEF GetDevId
  <2>2. c' \in ClientState
    BY <2>1 DEF ClientState
  <2>3. Moves(s, c')
    BY <1>1, <2>1, <2>2 DEF Moves, Sound, Asks, BlockedIn, ClientState
  <2>4. QED
    BY <2>1, <2>3, NpTypes
<1>2. CASE ~(s.conn_state = "ERR" \/ s.ping_time)
  <2> DEFINE n == NotifyStop([s EXCEPT !.client_key = FALSE])
  <2>1. c' = ReqNew(n, "ads", "ID") /\ Stop
    BY <1>2 DEF GetDevId
  <2>2. /\ n \in ClientState /\ n.current_request = "dev_id"
        /\ ~n.ping_time
    BY <1>2 DEF NotifyStop, ClientState
  <2> HIDE DEF n
  <2>3. n.get_echo_inprog = s.get_echo_inprog
    BY DEF n, NotifyStop, ClientState
  <2>4. c' \in ClientState /\ c'.conn_state = "ID"
        /\ c'.current_request = "dev_id" /\ ~c'.ping_time
        /\ c'.get_echo_inprog = s.get_echo_inprog
    BY <2>1, <2>2, <2>3, ReqNewFact DEF InRequest
  <2>5. Moves(s, c')
    BY <2>4 DEF Moves, Sound, Asks, BlockedIn
  <2>6. QED
    BY <2>1, <2>5, NpTypes DEF NpNext
<1>3. QED
  BY <1>1, <1>2

\* What a step has to show.
Steps == Inv' /\ (BlockedIn(c') => BlockedIn(c))

\* ... when the client moves.
LEMMA MovesStep ==
    ASSUME Moves(c, c'), NpTypeOK', Inv, cmd' = cmd \/ cmd' = "no"
    PROVE  Steps
  BY DEF Moves, Steps, Inv, TypeOK, Told

\* A client that is not waiting for anything else.
LEMMA StepOtherStep ==
    ASSUME Inv, StepOther
    PROVE  Steps
<1>1. c' = [c EXCEPT !.next_step = FALSE]
  BY DEF StepOther
<1>2. c \in ClientState /\ Sound(c) /\ NpTypeOK
  BY DEF Inv, TypeOK
<1>3. c' \in ClientState
  BY <1>1, <1>2 DEF ClientState
<1>4. Moves(c, c')
  BY <1>1, <1>2, <1>3
     DEF Moves, Sound, Asks, BlockedIn, ClientState, StepOther
<1>5. NpTypeOK'
  BY <1>2, NpTypes DEF StepOther
<1>6. QED
  BY <1>4, <1>5, MovesStep DEF StepOther

\* The request of the DSN goes on.
LEMMA StepCurrentStep ==
    ASSUME Inv, StepCurrent
    PROVE  Steps
<1> DEFINE s == [c EXCEPT !.next_step = FALSE]
<1>1. c \in ClientState /\ Sound(c) /\ NpTypeOK /\ ~c.asserted
  BY DEF Inv, TypeOK, StepCurrent, Stepping, Running
<1>2. s \in ClientState /\ GetDevId(s) /\ s.current_request = "dev_id"
      /\ s.conn_state \in {"EVENT", "ERR", "DOWN"}
  BY <1>1 DEF StepCurrent, Stepping, ClientState
<1>3. ~s.ping_time /\ (s.conn_state = "ERR" => ~s.req_timer)
  BY <1>1 DEF Sound, ClientState, StepCurrent
<1>4. BlockedIn(s) => BlockedIn(c)
  BY <1>1 DEF BlockedIn, ClientState
<1> HIDE DEF s
<1>5. Moves(s, c') /\ NpTypeOK'
  BY <1>1, <1>2, <1>3, GetDevIdFact
<1>6. Moves(c, c')
  BY <1>4, <1>5 DEF Moves
<1>7. QED
  BY <1>5, <1>6, MovesStep DEF StepCurrent

\* A callback is taken off the queue and run.
LEMMA StepCallbackStep ==
    ASSUME Inv, StepCallback
    PROVE  Steps
<1> DEFINE q == c.callback_queue
           s == [c EXCEPT !.callback_queue = Tail(@)]
           d == [s EXCEPT !.current_request = "dev_id"]
<1>1. c \in ClientState /\ Sound(c) /\ NpTypeOK /\ ~c.asserted
      /\ c.next_step /\ c.conn_state \in {"EVENT", "ERR", "DOWN"}
      /\ c.current_request = "none" /\ q # <<>>
  BY DEF Inv, TypeOK, StepCallback, Stepping, Running
<1>2. q \in Queue
  BY <1>1 DEF ClientState
<1>3. /\ Tail(q) \in Queue /\ Head(q) \in Callback
      /\ \A b : Pended(q, b) => b = Head(q) \/ Pended(Tail(q), b)
  BY <1>1, <1>2, DequeueFact
<1>4. s = [c EXCEPT !.callback_queue = Tail(q)]
  BY <1>1 DEF ClientState
<1>5. s \in ClientState /\ s.next_step /\ s.conn_state = c.conn_state
      /\ s.req_timer = c.req_timer /\ s.callback_queue = Tail(q)
      /\ s.get_echo_inprog = c.get_echo_inprog
      /\ s.current_request = c.current_request
      /\ s.client_key = c.client_key /\ s.ping_time = c.ping_time
  BY <1>1, <1>3, <1>4 DEF ClientState
<1>6. /\ Head(q) = "conn" => c' = s /\ UNCHANGED npVars
      /\ Head(q) # "conn" => GetDevId(d)
  BY DEF StepCallback
<1> HIDE DEF s
<1>7. CASE Head(q) = "conn"
  <2>1. Asks(c) => Asks(s)
    BY <1>3, <1>5, <1>7 DEF Asks
  <2>2. Moves(c, s)
    BY <1>1, <1>5, <2>1 DEF Moves, Sound, BlockedIn
  <2>3. NpTypeOK'
    BY <1>1, <1>6, <1>7, NpTypes
  <2>4. QED
    BY <1>6, <1>7, <2>2, <2>3, MovesStep DEF StepCallback
<1>8. CASE Head(q) # "conn"
  <2>1. d \in ClientState /\ d.conn_state = c.conn_state
        /\ d.current_request = "dev_id" /\ d.next_step
        /\ d.req_timer = c.req_timer
        /\ d.get_echo_inprog = c.get_echo_inprog
    BY <1>5 DEF ClientState
  <2>2. d.conn_state = "ERR" => ~d.req_timer
    BY <1>1, <2>1 DEF Sound
  <2> HIDE DEF d
  <2>3. Moves(d, c') /\ NpTypeOK'
    BY <1>1, <1>6, <1>8, <2>1, <2>2, GetDevIdFact
  <2>4. Moves(c, c')
    BY <2>1, <2>3 DEF Moves, BlockedIn
  <2>5. QED
    BY <2>3, <2>4, MovesStep DEF StepCallback
<1>9. QED
  BY <1>7, <1>8

\* The ping, or the GET of commands, is made.
LEMMA StepRequestStep ==
    ASSUME Inv, StepRequest
    PROVE  Steps
<1> DEFINE s == [c EXCEPT !.next_step = FALSE]
           g == [s EXCEPT !.get_echo_inprog = TRUE, !.np_event = FALSE]
<1>1. c \in ClientState /\ Sound(c) /\ NpTypeOK /\ ~c.asserted
      /\ c.current_request = "none"
  BY DEF Inv, TypeOK, StepRequest, NoCallback, Stepping, Running
<1>2. NpTypeOK'
  BY <1>1, NpTypes DEF StepRequest
<1>3. s \in ClientState /\ g \in ClientState
  BY <1>1 DEF ClientState
<1>4. CASE WantPing /\ c' = ReqNew(s, "http", "PING")
  <2>1. /\ s.client_key = c.client_key /\ s.ping_time = c.ping_time
        /\ s.current_request = c.current_request
        /\ s.get_echo_inprog = c.get_echo_inprog
    BY <1>1 DEF ClientState
  <2> HIDE DEF s
  <2>2. c' \in ClientState /\ c'.conn_state = "PING"
        /\ c'.client_key = s.client_key /\ c'.ping_time = s.ping_time
        /\ c'.current_request = s.current_request
        /\ c'.get_echo_inprog = s.get_echo_inprog
    BY <1>3, <1>4, ReqNewFact DEF InRequest
  <2>3. c.client_key \/ c.ping_time
    BY <1>4 DEF WantPing
  <2>4. BlockedIn(c') => BlockedIn(c)
    BY <1>4, <2>1, <2>2 DEF BlockedIn, StepRequest, NoCallback, Stepping
  <2>5. Moves(c, c')
    BY <1>1, <2>1, <2>2, <2>3, <2>4 DEF Moves, Sound, Asks
  <2>6. QED
    BY <1>2, <2>5, MovesStep DEF StepRequest
<1>5. CASE WantGet /\ c' = ReqNew(g, "ads", "GET")
  <2>1. g.client_key /\ g.ping_time = c.ping_time
        /\ g.current_request = c.current_request
    BY <1>1, <1>5 DEF ClientState, WantGet, Identified
  <2> HIDE DEF s, g
  <2>2. c' \in ClientState /\ c'.conn_state = "GET"
        /\ c'.client_key = g.client_key /\ c'.ping_time = g.ping_time
        /\ c'.current_request = g.current_request
    BY <1>3, <1>5, ReqNewFact DEF InRequest
  <2>3. Moves(c, c')
    BY <1>1, <2>1, <2>2 DEF Moves, Sound, Asks, BlockedIn
  <2>4. QED
    BY <1>2, <2>3, MovesStep DEF StepRequest
<1>6. QED
  BY <1>4, <1>5 DEF StepRequest

\* The client has nothing to do: it counts on the notifier, or polls.
LEMMA StepIdleStep ==
    ASSUME Inv, StepIdle
    PROVE  Steps
<1> DEFINE s == [c EXCEPT !.next_step = FALSE]
<1>1. c \in ClientState /\ Sound(c) /\ NpTypeOK /\ ~c.asserted
      /\ c.current_request = "none" /\ cmd \in {"no", "new", "told"}
  BY DEF Inv, TypeOK, StepIdle, NoCallback, Stepping, Running
<1>2. NpTypeOK'
  BY <1>1, NpTypes DEF StepIdle
<1>3. s \in ClientState
  BY <1>1 DEF ClientState
<1>4. /\ s.client_key = c.client_key /\ s.ping_time = c.ping_time
      /\ s.current_request = c.current_request
      /\ s.callback_queue = c.callback_queue
      /\ s.get_echo_inprog = c.get_echo_inprog
      /\ s.conn_state = c.conn_state /\ s.req_timer = c.req_timer
      /\ s.asserted = c.asserted
  BY <1>1 DEF ClientState
<1>5. c' = Poll(s)
  BY DEF StepIdle
<1> HIDE DEF s
<1>6. c' \in ClientState
  <2> DEFINE polls == ~s.np_up /\ s.conn_state = "EVENT"
             sets == ~s.np_up /\ s.conn_state = "EVENT"
                        /\ (s.poll_timer \/ PollInterval # 0)
  <2>1. polls \in BOOLEAN /\ sets \in BOOLEAN
    OBVIOUS
  <2>2. c' = [s EXCEPT !.poll_ads = polls, !.poll_timer = sets]
    BY <1>5 DEF Poll
  <2> HIDE DEF polls, sets
  <2>3. QED
    BY <1>3, <2>1, <2>2, ZenonT(60) DEF ClientState
<1>7. /\ c'.client_key = s.client_key /\ c'.ping_time = s.ping_time
      /\ c'.current_request = s.current_request
      /\ c'.callback_queue = s.callback_queue
      /\ c'.get_echo_inprog = s.get_echo_inprog
      /\ c'.conn_state = s.conn_state /\ c'.req_timer = s.req_timer
      /\ c'.asserted = s.asserted /\ c'.np_up = s.np_up
      /\ ~s.np_up /\ s.conn_state = "EVENT" /\ PollInterval # 0
            => c'.poll_timer
  BY <1>3, <1>5 DEF Poll, ClientState
<1>8. Sound(c')
  BY <1>1, <1>4, <1>7 DEF Sound, Asks
<1>9. Told(c', event')
  BY <1>7 DEF Told
<1>10. BlockedIn(c') => BlockedIn(c)
  BY <1>4, <1>7 DEF BlockedIn
<1>11. QED
  BY <1>1, <1>2, <1>6, <1>8, <1>9, <1>10 DEF Steps, Inv, TypeOK, StepIdle

-----------------------------------------------------------------------------
(* Responses.                                                              *)

\* The client in Inv, as the lemmas use it.
LEMMA InvFact ==
    ASSUME Inv
    PROVE  c \in ClientState /\ Sound(c) /\ NpTypeOK
  BY DEF Inv, TypeOK

\* A part of a response.
LEMMA RecvXmlStep ==
    ASSUME Inv, RecvXml
    PROVE  Steps
<1> DEFINE s == [c EXCEPT !.req_timer = TRUE, !.auth_fails = 0]
           k == [s EXCEPT !.client_key = TRUE, !.clock_set = TRUE]
<1>1. c \in ClientState /\ Sound(c) /\ NpTypeOK /\ ~c.asserted
      /\ c.conn_state \in {"ID", "GET"}
  BY InvFact DEF RecvXml, Running
<1>2. s \in ClientState /\ k \in ClientState
  BY <1>1, MaxAuthFact DEF ClientState
<1>3. NpTypeOK'
  BY <1>1, NpTypes DEF RecvXml, NpNext
<1>4. Moves(c, s)
  BY <1>1, <1>2 DEF Moves, Sound, Asks, BlockedIn, ClientState
<1>5. Moves(c, k)
  BY <1>1, <1>2 DEF Moves, Sound, Asks, BlockedIn, ClientState
<1>6. c' = s \/ c' = k
  BY DEF RecvXml
<1> HIDE DEF s, k
<1>7. QED
  BY <1>3, <1>4, <1>5, <1>6, MovesStep DEF RecvXml

\* A response ends: the client is identified, or asks again.
LEMMA AnsweredFact ==
    ASSUME NEW s \in ClientState,
           s.get_echo_inprog => c.get_echo_inprog, c.conn_state # "GET",
           ~s.ping_time
    PROVE  Moves(c, TcpRecvDone(IF s.client_key THEN ServerConnUp(s)
                                ELSE Enqueue(s, "dev_id")))
<1>1. ASSUME NEW t \in ClientState, ~t.ping_time,
             t.client_key \/ Pended(t.callback_queue, "dev_id"),
             t.get_echo_inprog = s.get_echo_inprog
      PROVE  Moves(c, TcpRecvDone(t))
  <2>1. /\ TcpRecvDone(t) \in ClientState
        /\ TcpRecvDone(t) =
              [t EXCEPT !.auth_fails = 0, !.current_request = "none",
                        !.conn_state = "EVENT", !.next_step = TRUE]
    BY TcpRecvDoneFact
  <2>2. QED
    BY <1>1, <2>1 DEF Moves, Sound, Asks, BlockedIn, ClientState
<1>2. CASE s.client_key
  <2>1. PICK q \in Queue :
            ServerConnUp(s) = [s EXCEPT !.serv_conn = TRUE,
                                        !.ads_valid = TRUE,
                                        !.callback_queue = q]
    BY ServerConnUpFact
  <2> DEFINE t == [s EXCEPT !.serv_conn = TRUE, !.ads_valid = TRUE,
                            !.callback_queue = q]
  <2>2. t \in ClientState /\ ~t.ping_time /\ t.client_key
        /\ t.get_echo_inprog = s.get_echo_inprog
    BY <1>2 DEF ClientState
  <2> HIDE DEF t
  <2>3. Moves(c, TcpRecvDone(t))
    BY <1>1, <2>2
  <2>4. QED
    BY <1>2, <2>1, <2>3 DEF t
<1>3. CASE ~s.client_key
  <2>1. PICK q \in Queue :
            /\ Enqueue(s, "dev_id") = [s EXCEPT !.callback_queue = q]
            /\ Pended(q, "dev_id")
    BY EnqueueFact DEF Callback
  <2> DEFINE t == [s EXCEPT !.callback_queue = q]
  <2>2. t \in ClientState /\ ~t.ping_time /\ t.callback_queue = q
        /\ t.get_echo_inprog = s.get_echo_inprog
    BY DEF ClientState
  <2> HIDE DEF t
  <2>3. Moves(c, TcpRecvDone(t))
    BY <1>1, <2>1, <2>2
  <2>4. QED
    BY <1>3, <2>1, <2>3 DEF t
<1>4. QED
  BY <1>2, <1>3

\* The response to the GET of the DSN ends.
LEMMA RecvIndexStep ==
    ASSUME Inv, RecvIndex
    PROVE  Steps
<1>1. c \in ClientState /\ Sound(c) /\ NpTypeOK /\ ~c.asserted
      /\ c.conn_state = "ID"
  BY InvFact DEF RecvIndex, Running
<1>2. NpTypeOK'
  BY <1>1, NpTypes DEF RecvIndex, NpNext
<1>3. ~c.ping_time
  BY <1>1 DEF Sound
<1>4. Moves(c, c')
  BY <1>1, <1>3, AnsweredFact DEF RecvIndex
<1>5. QED
  BY <1>2, <1>4, MovesStep DEF RecvIndex

\* The response to the ping.
LEMMA RecvPingStep ==
    ASSUME Inv, RecvPing
    PROVE  Steps
<1> DEFINE s == [c EXCEPT !.ping_time = FALSE]
<1>1. c \in ClientState /\ Sound(c) /\ NpTypeOK /\ c.conn_state = "PING"
  BY InvFact DEF RecvPing
<1>2. NpTypeOK'
  BY <1>1, NpTypes DEF RecvPing, NpNext
<1>3. s \in ClientState /\ ~s.ping_time /\ s.client_key = c.client_key
      /\ s.get_echo_inprog = c.get_echo_inprog
  BY <1>1 DEF ClientState
<1>4. c' = TcpRecvDone(IF s.client_key THEN ServerConnUp(s)
                       ELSE Enqueue(s, "dev_id"))
  BY <1>3 DEF RecvPing
<1> HIDE DEF s
<1>5. Moves(c, c')
  BY <1>1, <1>3, <1>4, AnsweredFact
<1>6. QED
  BY <1>2, <1>5, MovesStep DEF RecvPing

\* The response to the GET of commands ends.
LEMMA RecvCmdsStep ==
    ASSUME Inv, RecvCmds
    PROVE  Steps
<1> DEFINE s == [c EXCEPT !.cmd_timer = FALSE, !.get_cmds_fail = FALSE,
                          !.get_echo_inprog = FALSE]
<1>1. c \in ClientState /\ Sound(c) /\ NpTypeOK /\ ~c.asserted
      /\ c.conn_state = "GET"
  BY InvFact DEF RecvCmds, Running
<1>2. NpTypeOK'
  BY <1>1, NpTypes DEF RecvCmds
<1>3. s \in ClientState /\ s.client_key = c.client_key
      /\ ~s.get_echo_inprog
  BY <1>1 DEF ClientState
<1>4. c.client_key
  BY <1>1 DEF Sound
<1>5. c' = TcpRecvDone(s)
  BY DEF RecvCmds
<1> HIDE DEF s
<1>6. c' \in ClientState
      /\ c' = [s EXCEPT !.auth_fails = 0, !.current_request = "none",
                        !.conn_state = "EVENT", !.next_step = TRUE]
  BY <1>3, <1>5, TcpRecvDoneFact
<1>7. Moves(c, c')
  BY <1>3, <1>4, <1>6, ZenonT(60) DEF Moves, Sound, Asks, BlockedIn, ClientState
<1>8. QED
  BY <1>2, <1>7, MovesStep DEF RecvCmds

\* After an error the client moves.
LEMMA ErrCbMoves ==
    ASSUME NEW s \in ClientState, Sound(s), ~s.asserted,
           s.conn_state \in InRequest, NEW error
    PROVE  Moves(s, ErrCb(s, error))
  BY ErrCbFact DEF Moves, GoesOn, BlockedIn

\* A request fails.
LEMMA FailStep ==
    ASSUME Inv, Fail
    PROVE  Steps
<1>1. PICK error \in Errors :
        /\ Running /\ c.conn_state \in InRequest
        /\ c' = ErrCb(c, error)
        /\ IF Loses(c, error) /\ c.ads_valid THEN Stop ELSE UNCHANGED npVars
        /\ UNCHANGED cmd
  BY DEF Fail
<1>2. Moves(c, c')
  BY <1>1, InvFact, ErrCbMoves DEF Running
<1>3. NpTypeOK'
  BY <1>1, InvFact, NpTypes DEF NpNext
<1>4. QED
  BY <1>1, <1>2, <1>3, MovesStep

-----------------------------------------------------------------------------
(* Timers and the notifier's callback.                                     *)

\* A handler that wakes the client up and leaves its requests as they are.
Wakes(s, t) ==
    /\ t \in ClientState /\ t.next_step
    /\ t.conn_state = s.conn_state
    /\ t.current_request = s.current_request
    /\ t.client_key = s.client_key /\ t.ping_time = s.ping_time
    /\ t.req_timer = s.req_timer /\ t.asserted = s.asserted
    /\ t.get_echo_inprog = s.get_echo_inprog
    /\ \A b : Pended(s.callback_queue, b) => Pended(t.callback_queue, b)

\* Such a handler moves the client.
LEMMA WakesMoves ==
    ASSUME NEW s \in ClientState, Sound(s), NEW t, Wakes(s, t)
    PROVE  Moves(s, t)
  BY DEF Wakes, Moves, Sound, Asks, BlockedIn

\* client_wakeup() after a handler that did no more.
LEMMA WakeupFact ==
    ASSUME NEW s \in ClientState
    PROVE  Wakes(s, Wakeup(s))
<1>1. Wakeup(s) \in ClientState
  BY DEF Wakeup, ClientState
<1>2. QED
  BY <1>1 DEF Wakes, Wakeup, ClientState

\* The request timer: a request fails, or is made again.
LEMMA ReqTimeoutStep ==
    ASSUME Inv, ReqTimeout
    PROVE  Steps
<1> DEFINE s == [c EXCEPT !.req_timer = FALSE]
<1>1. c \in ClientState /\ Sound(c) /\ NpTypeOK /\ ~c.asserted
      /\ c.req_timer
  BY InvFact DEF ReqTimeout, Running
<1>2. NpTypeOK'
  <2>1. Stop \/ UNCHANGED npVars
    BY <1>1 DEF ReqTimeout, ClientState
  <2>2. QED
    BY <1>1, <2>1, NpTypes DEF NpNext
<1>3. /\ s \in ClientState /\ s.conn_state = c.conn_state
      /\ s.current_request = c.current_request
      /\ s.callback_queue = c.callback_queue
      /\ s.client_key = c.client_key /\ s.ping_time = c.ping_time
      /\ ~s.req_timer /\ ~s.asserted /\ s.next_step = c.next_step
      /\ s.get_echo_inprog = c.get_echo_inprog
  BY <1>1 DEF ClientState
<1>4. /\ c.conn_state \in {"DOWN", "DISABLED"} => c' = DownLocked(s)
      /\ c.conn_state \in InRequest => c' = ErrCb(s, "timeout")
      /\ c.conn_state \notin {"DOWN", "DISABLED"} \cup InRequest =>
            c' = NextRequest(s)
  BY DEF ReqTimeout, InRequest
<1> HIDE DEF s
<1>5. CASE c.conn_state \in {"DOWN", "DISABLED"}
  <2>1. /\ c' \in ClientState /\ c'.conn_state = "DOWN"
        /\ c'.current_request = "none" /\ ~c'.get_echo_inprog
    BY <1>3, <1>4, <1>5, DownLockedFact
  <2>2. Moves(c, c')
    BY <2>1 DEF Moves, Sound, BlockedIn
  <2>3. QED
    BY <1>2, <2>2, MovesStep DEF ReqTimeout
<1>6. CASE c.conn_state \in InRequest
  <2>1. Sound(s)
    BY <1>1, <1>3, <1>6 DEF Sound, Asks, InRequest
  <2>2. Moves(s, c')
    BY <1>3, <1>4, <1>6, <2>1, ErrCbMoves
  <2>3. Moves(c, c')
    BY <1>3, <2>2 DEF Moves, BlockedIn
  <2>4. QED
    BY <1>2, <2>3, MovesStep DEF ReqTimeout
<1>7. CASE c.conn_state \notin {"DOWN", "DISABLED"} \cup InRequest
  <2>1. c.conn_state \in {"EVENT", "RETRY"}
    BY <1>1, <1>7 DEF Sound, ClientState
  <2>2. Asks(s)
    BY <1>1, <1>3, <2>1 DEF Sound, Asks
  <2>3. /\ c' \in ClientState
        /\ c' = [s EXCEPT !.conn_state = "EVENT", !.next_step = TRUE]
    BY <1>3, <1>4, <1>7, NextRequestFact
  <2>4. /\ c'.conn_state = "EVENT" /\ c'.next_step
        /\ c'.current_request = s.current_request
        /\ c'.callback_queue = s.callback_queue
        /\ c'.client_key = s.client_key /\ c'.ping_time = s.ping_time
        /\ c'.get_echo_inprog = s.get_echo_inprog
    BY <1>3, <2>3 DEF ClientState
  <2>5. Moves(c, c')
    BY <1>1, <1>3, <2>1, <2>2, <2>3, <2>4
       DEF Moves, Sound, Asks, BlockedIn
  <2>6. QED
    BY <1>2, <2>5, MovesStep DEF ReqTimeout
<1>8. QED
  BY <1>5, <1>6, <1>7

\* The timer of polling.
LEMMA PollTimeoutStep ==
    ASSUME Inv, PollTimeout
    PROVE  Steps
<1> DEFINE s == NotifyStop([c EXCEPT !.poll_timer = FALSE, !.np_event = TRUE])
<1>1. c \in ClientState /\ Sound(c) /\ NpTypeOK
  BY InvFact
<1>2. NpTypeOK'
  BY <1>1, NpTypes DEF PollTimeout, NpNext
<1>3. c' = Wakeup(s)
  BY DEF PollTimeout
<1>4. /\ s \in ClientState /\ s.conn_state = c.conn_state
      /\ s.current_request = c.current_request
      /\ s.callback_queue = c.callback_queue
      /\ s.client_key = c.client_key /\ s.ping_time = c.ping_time
      /\ s.req_timer = c.req_timer /\ s.asserted = c.asserted
      /\ s.get_echo_inprog = c.get_echo_inprog
  BY <1>1 DEF NotifyStop, ClientState
<1> HIDE DEF s
<1>5. Wakes(s, c')
  BY <1>3, <1>4, WakeupFact
<1>6. Moves(c, c')
  BY <1>1, <1>4, <1>5, WakesMoves DEF Wakes
<1>7. QED
  BY <1>2, <1>6, MovesStep DEF PollTimeout

\* The timer after commands that could not be fetched.
LEMMA CmdTimeoutStep ==
    ASSUME Inv, CmdTimeout
    PROVE  Steps
<1> DEFINE s == [c EXCEPT !.cmd_timer = FALSE, !.np_event = TRUE]
<1>1. c \in ClientState /\ Sound(c) /\ NpTypeOK
  BY InvFact
<1>2. NpTypeOK'
  BY <1>1, NpTypes DEF CmdTimeout
<1>3. c' = Wakeup(s)
  BY DEF CmdTimeout
<1>4. /\ s \in ClientState /\ s.conn_state = c.conn_state
      /\ s.current_request = c.current_request
      /\ s.callback_queue = c.callback_queue
      /\ s.client_key = c.client_key /\ s.ping_time = c.ping_time
      /\ s.req_timer = c.req_timer /\ s.asserted = c.asserted
      /\ s.get_echo_inprog = c.get_echo_inprog
  BY <1>1 DEF ClientState
<1> HIDE DEF s
<1>5. Wakes(s, c')
  BY <1>3, <1>4, WakeupFact
<1>6. Moves(c, c')
  BY <1>1, <1>4, <1>5, WakesMoves DEF Wakes
<1>7. QED
  BY <1>2, <1>6, MovesStep DEF CmdTimeout

\* The client hears that ANS is up, lost, or to be changed.
LEMMA NotifyCbStep ==
    ASSUME Inv, NotifyCb
    PROVE  Steps
<1> DEFINE dns == [c EXCEPT !.np_started = TRUE]
           up == [c EXCEPT !.np_up = TRUE, !.np_event = TRUE,
                           !.poll_ads = FALSE, !.poll_timer = FALSE]
<1>1. c \in ClientState /\ Sound(c) /\ NpTypeOK
  BY InvFact
<1>2. NpTypeOK'
  <2>1. Start \/ EventGet
    BY <1>1 DEF NotifyCb, NpTypeOK, NpState
  <2>2. QED
    BY <1>1, <2>1, NpTypes DEF NpNext
<1>3. ASSUME NEW s \in ClientState, s.conn_state = c.conn_state,
             s.current_request = c.current_request,
             \A b : Pended(c.callback_queue, b) => Pended(s.callback_queue, b),
             s.client_key = c.client_key, s.ping_time = c.ping_time,
             s.req_timer = c.req_timer, s.asserted = c.asserted,
             s.get_echo_inprog = c.get_echo_inprog,
             c' = Wakeup(s)
      PROVE  Moves(c, c')
  <2>1. Wakes(s, c')
    BY <1>3, WakeupFact
  <2>2. Wakes(c, c')
    BY <1>3, <2>1 DEF Wakes
  <2>3. QED
    BY <1>1, <2>2, WakesMoves
<1>4. c' = Wakeup(Changed(c)) \/ c' = Wakeup(AnsDown(c))
      \/ c' = Wakeup(dns) \/ c' = Wakeup(up)
  BY <1>1 DEF NotifyCb, NpTypeOK, NpState
<1>5. CASE c' = Wakeup(Changed(c))
  <2>1. PICK q \in Queue :
          /\ Enqueue(c, "dev_id") = [c EXCEPT !.callback_queue = q]
          /\ \A b : Pended(c.callback_queue, b) => Pended(q, b)
    BY <1>1, EnqueueFact DEF Callback
  <2> DEFINE s == [c EXCEPT !.callback_queue = q, !.np_up = FALSE,
                            !.np_started = FALSE]
  <2>2. Changed(c) = s
    BY <1>1, <2>1 DEF Changed, NotifyStop, ClientState
  <2>3. /\ s \in ClientState /\ s.conn_state = c.conn_state
        /\ s.current_request = c.current_request /\ s.callback_queue = q
        /\ s.client_key = c.client_key /\ s.ping_time = c.ping_time
        /\ s.req_timer = c.req_timer /\ s.asserted = c.asserted
        /\ s.get_echo_inprog = c.get_echo_inprog
    BY <1>1 DEF ClientState
  <2> HIDE DEF s
  <2>4. Moves(c, c')
    BY <1>3, <1>5, <2>1, <2>2, <2>3
  <2>5. QED
    BY <1>2, <2>4, MovesStep DEF NotifyCb
<1>6. CASE c' = Wakeup(AnsDown(c))
  <2> DEFINE conn == c.serv_conn /\ c.poll_ads
             s == [c EXCEPT !.serv_conn = conn, !.np_up = FALSE,
                            !.np_started = FALSE]
  <2>1. conn \in BOOLEAN
    OBVIOUS
  <2>2. AnsDown(c) = s
    BY <1>1 DEF AnsDown, NotifyStop, ClientState
  <2> HIDE DEF conn
  <2>3. s \in ClientState
    BY <1>1, <2>1 DEF ClientState
  <2>4. /\ s.conn_state = c.conn_state
        /\ s.current_request = c.current_request
        /\ s.callback_queue = c.callback_queue
        /\ s.client_key = c.client_key /\ s.ping_time = c.ping_time
        /\ s.req_timer = c.req_timer /\ s.asserted = c.asserted
        /\ s.get_echo_inprog = c.get_echo_inprog
    BY <1>1 DEF ClientState
  <2> HIDE DEF s
  <2>5. Moves(c, c')
    BY <1>3, <1>6, <2>2, <2>3, <2>4
  <2>6. QED
    BY <1>2, <2>5, MovesStep DEF NotifyCb
<1>7. CASE c' = Wakeup(dns)
  <2>1. /\ dns \in ClientState /\ dns.conn_state = c.conn_state
        /\ dns.current_request = c.current_request
        /\ dns.callback_queue = c.callback_queue
        /\ dns.client_key = c.client_key /\ dns.ping_time = c.ping_time
        /\ dns.req_timer = c.req_timer /\ dns.asserted = c.asserted
        /\ dns.get_echo_inprog = c.get_echo_inprog
    BY <1>1 DEF ClientState
  <2> HIDE DEF dns
  <2>2. Moves(c, c')
    BY <1>3, <1>7, <2>1
  <2>3. QED
    BY <1>2, <2>2, MovesStep DEF NotifyCb
<1>8. CASE c' = Wakeup(up)
  <2>1. /\ up \in ClientState /\ up.conn_state = c.conn_state
        /\ up.current_request = c.current_request
        /\ up.callback_queue = c.callback_queue
        /\ up.client_key = c.client_key /\ up.ping_time = c.ping_time
        /\ up.req_timer = c.req_timer /\ up.asserted = c.asserted
        /\ up.get_echo_inprog = c.get_echo_inprog
    BY <1>1 DEF ClientState
  <2> HIDE DEF up
  <2>2. Moves(c, c')
    BY <1>3, <1>8, <2>1
  <2>3. QED
    BY <1>2, <2>2, MovesStep DEF NotifyCb
<1>9. QED
  BY <1>4, <1>5, <1>6, <1>7, <1>8

-----------------------------------------------------------------------------
(* The device, and what goes on beside the client.                         *)

\* Wi-Fi is up: the client starts with the request of the DSN.
LEMMA UpStep ==
    ASSUME Inv, Up
    PROVE  Steps
<1> DEFINE r == Reset(c)
<1>1. c \in ClientState /\ Sound(c) /\ NpTypeOK /\ ~c.asserted
  BY InvFact DEF Up, Running
<1>2. NpTypeOK'
  BY <1>1, NpTypes DEF Up, NpNext
<1>3. /\ r \in ClientState /\ r.ping_time = c.ping_time
      /\ r.current_request = c.current_request
      /\ r.get_echo_inprog = c.get_echo_inprog
  BY <1>1, ResetFact
<1> HIDE DEF r
<1>4. PICK q \in Queue :
        /\ Enqueue(r, "dev_id") = [r EXCEPT !.callback_queue = q]
        /\ Pended(q, "dev_id")
  BY <1>3, EnqueueFact DEF Callback
<1> DEFINE t == [r EXCEPT !.callback_queue = q, !.conn_state = "EVENT"]
<1>5. t \in ClientState /\ t.conn_state = "EVENT"
      /\ t.callback_queue = q /\ t.ping_time = r.ping_time
      /\ t.current_request = r.current_request
      /\ t.get_echo_inprog = r.get_echo_inprog
  BY <1>3 DEF ClientState
<1>6. c' = Wakeup(t)
  BY <1>3, <1>4 DEF Up, r
<1> HIDE DEF t
<1>7. Wakes(t, c')
  BY <1>5, <1>6, WakeupFact
<1>8. Moves(c, c')
  <2>1. Asks(c')
    BY <1>4, <1>5, <1>7 DEF Asks, Wakes
  <2>2. Sound(c')
    BY <1>1, <1>3, <1>5, <1>7, <2>1 DEF Sound, Wakes
  <2>3. BlockedIn(c') => BlockedIn(c)
    BY <1>3, <1>5, <1>7 DEF BlockedIn, Wakes, Up
  <2>4. QED
    BY <1>7, <2>2, <2>3 DEF Moves, Wakes
<1>9. QED
  BY <1>2, <1>8, MovesStep DEF Up

\* Wi-Fi is lost.
LEMMA DownStep ==
    ASSUME Inv, Down
    PROVE  Steps
<1>1. c \in ClientState /\ NpTypeOK
  BY InvFact
<1>2. NpTypeOK'
  BY <1>1, NpTypes DEF Down, NpNext
<1>3. /\ c' \in ClientState /\ c'.conn_state = "DOWN"
      /\ c'.current_request = "none" /\ ~c'.get_echo_inprog
  BY <1>1, DownLockedFact DEF Down
<1>4. Moves(c, c')
  BY <1>3 DEF Moves, Sound, BlockedIn
<1>5. QED
  BY <1>2, <1>4, MovesStep DEF Down

\* A configuration is committed: the client is not left in a state in which
\* it would have to go on.
LEMMA CommitStep ==
    ASSUME Inv, Commit
    PROVE  Inv'
<1> DEFINE r == Reset(c)
           a == [r EXCEPT !.asserted = TRUE]
           d == [r EXCEPT !.conn_state = "DISABLED", !.ads_valid = FALSE]
<1>1. c \in ClientState /\ Sound(c) /\ NpTypeOK /\ ~c.asserted
      /\ cmd \in {"no", "new", "told"}
  BY DEF Inv, TypeOK, Commit, Running
<1>2. NpTypeOK'
  BY <1>1, NpTypes DEF Commit, NpNext
<1>3. /\ r \in ClientState /\ r.conn_state = c.conn_state
      /\ r.ping_time = c.ping_time
      /\ r.current_request = c.current_request
      /\ r.asserted = c.asserted
  BY <1>1, ResetFact
<1>4. (c.conn_state = "DOWN" /\ c' = r) \/ c' = a \/ c' = d
  BY <1>1 DEF Commit
<1> HIDE DEF r
<1>5. a \in ClientState /\ a.asserted
  BY <1>3 DEF ClientState
<1>6. /\ d \in ClientState /\ d.conn_state = "DISABLED"
      /\ d.ping_time = r.ping_time /\ d.current_request = r.current_request
  BY <1>3 DEF ClientState
<1> HIDE DEF a, d
<1>7. c' \in ClientState /\ Sound(c') /\ Told(c', event')
  BY <1>1, <1>3, <1>4, <1>5, <1>6 DEF Sound, Told
<1>8. QED
  BY <1>1, <1>2, <1>7 DEF Inv, TypeOK, Commit

\* The property manager lets commands be fetched.
LEMMA EnableListenStep ==
    ASSUME Inv, EnableListen
    PROVE  Steps
<1> DEFINE s == [c EXCEPT !.cmd_timer = FALSE, !.ads_listen = TRUE]
<1>1. c \in ClientState /\ Sound(c) /\ NpTypeOK
  BY InvFact
<1>2. NpTypeOK'
  BY <1>1, NpTypes DEF EnableListen
<1>3. c' = Wakeup(s)
  BY DEF EnableListen
<1>4. /\ s \in ClientState /\ s.conn_state = c.conn_state
      /\ s.current_request = c.current_request
      /\ s.callback_queue = c.callback_queue
      /\ s.client_key = c.client_key /\ s.ping_time = c.ping_time
      /\ s.req_timer = c.req_timer /\ s.asserted = c.asserted
      /\ s.get_echo_inprog = c.get_echo_inprog
  BY <1>1 DEF ClientState
<1> HIDE DEF s
<1>5. Wakes(c, c')
  BY <1>3, <1>4, WakeupFact DEF Wakes
<1>6. Moves(c, c')
  BY <1>1, <1>5, WakesMoves
<1>7. QED
  BY <1>2, <1>6, MovesStep DEF EnableListen

\* The service and the notifier leave the client alone, and the event that
\* it has been sent.
LEMMA BesideStep ==
    ASSUME Inv, Command \/ Tell \/ NotifierStep \/ UNCHANGED vars
    PROVE  Steps
<1>1. NpTypeOK /\ c' = c /\ cmd' \in {"no", "new", "told"}
  BY DEF Inv, TypeOK, Command, Tell, NotifierStep, vars
<1>2. Own \/ UNCHANGED npVars
  BY DEF Command, Tell, NotifierStep, vars, Own
<1>3. NpTypeOK'
  BY <1>1, <1>2, NpTypes DEF NpNext
<1>4. event => event'
  BY <1>1, <1>2, OwnKeepsEvent DEF npVars
<1>5. Told(c', event')
  BY <1>1, <1>4 DEF Inv, Told
<1>6. QED
  BY <1>1, <1>3, <1>5 DEF Inv, TypeOK, Steps, BlockedIn

-----------------------------------------------------------------------------
(* The theorems.                                                           *)

\* The client starts in the invariant.
LEMMA InitInv ==
    ASSUME Init
    PROVE  Inv
<1>1. <<>> \in Queue
  <2> DEFINE q == <<>>
  <2>1. q \in Seq(Callback) /\ Len(q) = 0
    OBVIOUS
  <2> HIDE DEF q
  <2>2. Len(q) \in 0 .. 2 /\ \A i, j \in 1 .. Len(q) : i # j => q[i] # q[j]
    BY <2>1
  <2>3. q \in Queue
    BY <2>1, <2>2, QueueIs
  <2>4. QED
    BY <2>3 DEF q
<1>2. c \in ClientState
  BY <1>1, MaxAuthFact DEF Init, ClientState
<1>3. NpTypeOK
  BY DEF Init, NpInit, NpTypeOK, NpState
<1>4. c.conn_state = "DOWN" /\ c.current_request = "none"
  BY DEF Init
<1>5. Sound(c) /\ Told(c, event)
  BY <1>4 DEF Sound, Told
<1>6. QED
  BY <1>2, <1>3, <1>5 DEF Inv, TypeOK, Init

\* Every step but a commit keeps the invariant, and blocks nothing.
LEMMA NextSteps ==
    ASSUME Inv, [Next]_vars, ~Commit
    PROVE  Steps
<1>1. CASE NextStep
  BY <1>1, StepOtherStep, StepCurrentStep, StepCallbackStep,
     StepRequestStep, StepIdleStep DEF NextStep
<1>2. CASE RecvXml \/ RecvIndex \/ RecvPing \/ RecvCmds \/ Fail
  BY <1>2, RecvXmlStep, RecvIndexStep, RecvPingStep, RecvCmdsStep, FailStep
<1>3. CASE ReqTimeout \/ PollTimeout \/ CmdTimeout \/ NotifyCb
  BY <1>3, ReqTimeoutStep, PollTimeoutStep, CmdTimeoutStep, NotifyCbStep
<1>4. CASE Up \/ Down \/ EnableListen
  BY <1>4, UpStep, DownStep, EnableListenStep
<1>5. CASE Command \/ Tell \/ NotifierStep \/ UNCHANGED vars
  BY <1>5, BesideStep
<1>6. QED
  BY <1>1, <1>2, <1>3, <1>4, <1>5 DEF Next

\* Every step keeps it.
LEMMA NextInv ==
    ASSUME Inv, [Next]_vars
    PROVE  Inv'
  BY NextSteps, CommitStep DEF Steps

\* It is an invariant of the client.
LEMMA InvHolds == Spec => []Inv
<1>1. Init => Inv
  BY InitInv
<1>2. Inv /\ [Next]_vars => Inv'
  BY NextInv
<1>3. QED
  BY <1>1, <1>2, PTL DEF Spec

\* The variables keep their types, among them that of the queue of callbacks,
\* on which net_callback_enqueue() puts none twice.
THEOREM TypeCorrect == Spec => []TypeOK
<1>1. Inv => TypeOK
  BY DEF Inv
<1>2. QED
  BY <1>1, InvHolds, PTL

\* A client that waits in CS_WAIT_EVENT is told by the notifier or has its
\* polling timer set: client_next_step() ends with client_start_polling(),
\* and everything that stops the notifier wakes the client up.
THEOREM ToldOrPollsHolds == Spec => []ToldOrPolls
<1>1. Inv => ToldOrPolls
  BY DEF Inv, Told, ToldOrPolls, Running
<1>2. QED
  BY <1>1, InvHolds, PTL

\* A client that does not have its key is about to ask for it, whichever
\* request failed and however: the request of the DSN is being made or is
\* pended, or the ping comes first.
THEOREM AsksWhoHolds == Spec => []AsksWho
<1>1. Inv => AsksWho
  BY DEF Inv, Sound, Asks, AsksWho, Running
<1>2. QED
  BY <1>1, InvHolds, PTL

\* "Otherwise, retry forever": the client waits for a retry with the timer
\* set, and with a request to make again its next step is pended.
THEOREM RetriesForeverHolds == Spec => []RetriesForever
<1>1. Inv => RetriesForever
  BY DEF Inv, Sound, RetriesForever, Running
<1>2. QED
  BY <1>1, InvHolds, PTL

\* get_echo_inprog without a GET, which would block the next GET of commands
\* for good, comes from client_commit() only.
THEOREM OnlyCommitBlocksHolds == Spec => OnlyCommitBlocks
<1>1. Inv /\ [Next]_vars => [Blocked' => Blocked \/ Commit]_vars
  <2>1. SUFFICES ASSUME Inv, [Next]_vars, ~Commit
                 PROVE  Blocked' => Blocked
    OBVIOUS
  <2>2. BlockedIn(c') => BlockedIn(c)
    BY <2>1, NextSteps DEF Steps
  <2>3. QED
    BY <2>2 DEF Blocked, BlockedIn
<1>2. QED
  BY <1>1, InvHolds, PTL DEF Spec, OnlyCommitBlocks
=============================================================================
