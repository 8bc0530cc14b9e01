--------------------------- MODULE Notify_proofs ---------------------------
(***************************************************************************)
(* Proofs about the notification client, for every NAT, every bound of the *)
(* search and any number of probes, retries and errors: the types, the     *)
(* three invariants of the search and of the client, and that Notify       *)
(* implements NotifySpec.                                                  *)
(*                                                                         *)
(* A handler is a composition of operators on the record np.  So there is  *)
(* a lemma for each operator, which says what it does to the fields the    *)
(* invariants are about (the ...Fact lemmas), and one for each step, which *)
(* follows the paths of the handler through those (the ...Step lemmas).    *)
(***************************************************************************)
EXTENDS Notify, TLAPS

-----------------------------------------------------------------------------
(* What the parts of handlers do to the record they work on: its type, and *)
(* the fields the invariants are about.                                    *)

\* A keep-alive leaves the search for a period alone, and whom the notifier
\* asks.
Kept(s, t) ==
    /\ t.probe_state = s.probe_state /\ t.probe_timer = s.probe_timer
    /\ t.probe_pcb = s.probe_pcb /\ t.restart_probing = s.restart_probing
    /\ t.keep_alive = s.keep_alive
    /\ t.probe = s.probe /\ t.min_probe = s.min_probe
    /\ t.max_probe = s.max_probe
    /\ t.dns = s.dns /\ t.disturbed = s.disturbed
    /\ \A m \in {"NAT_PROBE", "REG_PROBE"} : m \in t.wire <=> m \in s.wire

\* The notifier goes down, for the client to ask for its server.
Downed(s, t) ==
    /\ t.client_state = "DOWN" /\ t.probe_state = "DOWN"
    /\ ~t.timer /\ ~t.probe_send /\ ~t.pcb
    /\ t.wire = {}
    /\ t.dns = s.dns /\ t.disturbed = s.disturbed
    /\ t.min_probe = s.min_probe

\* While it is down, no message is for it and it searches for nothing.
Quiet(s) ==
    s.client_state = "DOWN" =>
        ~s.pcb /\ s.wire = {} /\ s.probe_state = "DOWN"

\* It goes down to try again by itself.
Retries(s, t) ==
    /\ t.client_state = "DOWN_RETRY" /\ ~t.timer /\ t.notify_cb
    /\ t.probe_state = "DOWN" /\ ~t.probe_pcb
    /\ s.client_state = "UP" =>
            (t.restart_probing <=> s.probe_state # "IDLE")
    /\ s.client_state # "UP" => t.restart_probing = s.restart_probing
    /\ t.probe = s.probe /\ t.min_probe = s.min_probe
    /\ t.dns = s.dns /\ t.disturbed = s.disturbed
    /\ "NAT_PROBE" \notin t.wire
    /\ "REG_PROBE" \in t.wire => "REG_PROBE" \in s.wire

\* A message is sent: it may bring the answers a.
Sends(s, t, open, a) ==
    \E c \in BOOLEAN, w \in SUBSET Messages :
        /\ t = [s EXCEPT !.crash = c, !.wire = w]
        /\ w \subseteq s.wire \cup a /\ s.wire \subseteq w
        /\ ~open => w = s.wire

\* What the environment may do to a handler.
LEMMA EnvType ==
    ASSUME NEW e \in Env
    PROVE  /\ e.alloc \in BOOLEAN /\ e.sent \in BOOLEAN /\ e.open \in BOOLEAN
           /\ e.due \in 0 .. PollEvery
           /\ "alloc" \notin Faults => e.alloc
  BY DEF Env

\* The answers that np_send() is given are messages.
LEMMA MessageTypes ==
    /\ {"PROBE_RESP"} \in SUBSET Messages /\ {"KA_RESP"} \in SUBSET Messages
    /\ \A s : /\ {"REG_RESP"} \cup Probed("REG_PROBE", s) \in SUBSET Messages
              /\ {"REQ_RESP"} \cup Probed("NAT_PROBE", s) \in SUBSET Messages
  BY DEF Messages, BySequence, ByProbeSeq, ByProbeSequence, Probed

\* np_post_event() keeps the types.
LEMMA PostFact ==
    ASSUME NEW s \in Notifier
    PROVE  Post(s) \in Notifier
  BY DEF Post, Notifier

\* np_probe_down() keeps the types.
LEMMA ProbeDownFact ==
    ASSUME NEW s \in Notifier
    PROVE  ProbeDown(s) \in Notifier
  BY DEF ProbeDown, Notifier, ProbeState

\* np_down() closes both sockets and stops the search with its timer.
LEMMA DownFact ==
    ASSUME NEW s \in Notifier
    PROVE  /\ Down(s) \in Notifier /\ Downed(s, Down(s))
           /\ Down(s).notify_cb = s.notify_cb
           /\ Down(s).probe = s.probe
           /\ Down(s).restart_probing = s.restart_probing
<1>1. Down(s) \in Notifier
  BY DEF Down, Notifier, ProbeState, ClientState
<1>2. QED
  BY <1>1 DEF Down, Downed, Notifier

\* np_down_event(): np_down(), and the client is told.
LEMMA DownEventFact ==
    ASSUME NEW s \in Notifier
    PROVE  /\ DownEvent(s) \in Notifier /\ Downed(s, DownEvent(s))
           /\ DownEvent(s).notify_cb
<1>1. DownEvent(s) \in Notifier
  BY ZenonT(60) DEF DownEvent, Post, Down, Notifier, ProbeState, ClientState
<1>2. QED
  BY <1>1 DEF DownEvent, Post, Down, Downed, Notifier

\* np_down_retry_event() tells the client and remembers whether a search
\* was cut short.
LEMMA DownRetryEventFact ==
    ASSUME NEW s \in Notifier
    PROVE  DownRetryEvent(s) \in Notifier /\ Retries(s, DownRetryEvent(s))
<1> DEFINE r == IF s.client_state = "UP"
                THEN s.probe_state # "IDLE" ELSE s.restart_probing
           t == [s EXCEPT !.restart_probing = r, !.probe_send = FALSE,
                          !.timer = FALSE, !.client_state = "DOWN_RETRY"]
<1>1. r \in BOOLEAN
  BY DEF Notifier
<1>2. t \in Notifier
  <2> HIDE DEF r
  <2> QED BY <1>1 DEF Notifier, ClientState
<1>3. /\ t.client_state = "DOWN_RETRY" /\ ~t.timer /\ t.restart_probing = r
      /\ t.probe = s.probe /\ t.min_probe = s.min_probe
      /\ t.dns = s.dns /\ t.disturbed = s.disturbed /\ t.wire = s.wire
  BY DEF Notifier
<1>4. DownRetryEvent(s) = Post(ProbeDown(t))
  BY DEF DownRetryEvent
<1> HIDE DEF r, t
<1>5. DownRetryEvent(s) \in Notifier
  BY <1>2, <1>4, ProbeDownFact, PostFact
<1>6. Retries(s, Post(ProbeDown(t)))
  BY <1>2, <1>3 DEF Retries, Post, ProbeDown, ProbePort, Notifier, r
<1>7. QED
  BY <1>4, <1>5, <1>6

\* np_send() adds answers, and none on a closed socket.
LEMMA SendOnFact ==
    ASSUME NEW s \in Notifier, NEW e \in Env, NEW open \in BOOLEAN,
           NEW a \in SUBSET Messages
    PROVE  /\ SendOn(s, open, a, e) \in Notifier
           /\ Sends(s, SendOn(s, open, a, e), open, a)
<1> DEFINE c == s.crash \/ ~open
           w == IF open /\ e.sent THEN s.wire \cup a ELSE s.wire
<1>1. c \in BOOLEAN
  BY DEF Notifier
<1>2. w \in SUBSET Messages
  BY DEF Notifier
<1>3. SendOn(s, open, a, e) = [s EXCEPT !.crash = c, !.wire = w]
  BY DEF SendOn
<1>4. w \subseteq s.wire \cup a /\ s.wire \subseteq w /\ (~open => w = s.wire)
  OBVIOUS
<1> HIDE DEF c, w
<1>5. [s EXCEPT !.crash = c, !.wire = w] \in Notifier
  BY <1>1, <1>2 DEF Notifier
<1>6. QED
  BY <1>1, <1>2, <1>3, <1>4, <1>5 DEF Sends

\* A new sequence number voids the answers to the old one.
LEMMA NextSequenceFact ==
    ASSUME NEW s \in Notifier
    PROVE  /\ NextSequence(s) \in Notifier
           /\ NextSequence(s) = [s EXCEPT !.moved = TRUE,
                                          !.wire = s.wire \ BySequence]
  BY DEF NextSequence, Notifier

\* A new probe number voids the probes that are still on their way.
LEMMA NextProbeSeqFact ==
    ASSUME NEW s \in Notifier
    PROVE  /\ NextProbeSeq(s) \in Notifier
           /\ NextProbeSeq(s) =
                [s EXCEPT !.moved = TRUE,
                          !.wire = s.wire \ (BySequence \cup ByProbeSeq)]
<1>1. NextProbeSeq(s) = [s EXCEPT !.moved = TRUE,
                          !.wire = s.wire \ (BySequence \cup ByProbeSeq)]
  BY DEF NextProbeSeq, NextSequence, Notifier
<1>2. QED
  BY <1>1, ZenonT(60) DEF Notifier

\* np_probe_init() keeps the types: every counter starts within its range.
LEMMA ProbeInitFact ==
    ASSUME NEW s \in Notifier
    PROVE  ProbeInit(s) \in Notifier
<1>1. /\ InitProbe \in Nat /\ MinProbe \in Nat /\ MaxProbe \in Nat
      /\ MaxTry \in 0 .. MaxTry + 1 /\ MaxTry \in 0 .. MaxTry
      /\ InitProbes \in 0 .. InitProbes
  BY NotifyAssumption
<1>2. QED
  BY <1>1 DEF ProbeInit, Notifier

\* np_probe_wait() keeps the types.
LEMMA ProbeWaitFact ==
    ASSUME NEW s \in Notifier
    PROVE  ProbeWait(s) \in Notifier
  BY DEF ProbeWait, Notifier, ProbeState

\* np_setup_probe_send() sets the timer and leaves the search alone.
LEMMA SetupProbeSendFact ==
    ASSUME NEW s \in Notifier
    PROVE  LET t == SetupProbeSend(s)
           IN /\ t \in Notifier /\ Kept(s, t) /\ t.timer
              /\ t.client_state = s.client_state /\ t.notify_cb = s.notify_cb
<1> DEFINE c == IF s.client_state = "UP" THEN MaxTry ELSE 1
           w == IF s.moved THEN s.wire \ ByProbeSequence ELSE s.wire
           t == [s EXCEPT !.probe_send = TRUE, !.retries_left = c,
                          !.wire = w, !.moved = FALSE, !.timer = TRUE]
<1>1. c \in 0 .. MaxTry + 1
  BY NotifyAssumption
<1>2. w \in SUBSET Messages
  BY DEF Notifier
<1>3. \A m \in {"NAT_PROBE", "REG_PROBE"} : m \in w <=> m \in s.wire
  BY DEF ByProbeSequence
<1>4. SetupProbeSend(s) = t
  BY DEF SetupProbeSend
<1> HIDE DEF c, w
<1>5. t \in Notifier
  BY <1>1, <1>2 DEF Notifier
<1>6. Kept(s, t) /\ t.timer /\ t.client_state = s.client_state
      /\ t.notify_cb = s.notify_cb
  BY <1>3 DEF Kept, Notifier
<1> HIDE DEF t
<1>7. QED
  BY <1>4, <1>5, <1>6

\* np_set_next_np_timeout() sets the timer and leaves the search alone.
LEMMA SetNextTimeoutFact ==
    ASSUME NEW s \in Notifier
    PROVE  LET t == SetNextTimeout(s)
           IN /\ t \in Notifier /\ Kept(s, t) /\ t.timer
              /\ t.client_state = s.client_state /\ t.notify_cb = s.notify_cb
<1>1. CASE ~s.probe_send /\ s.due = 0
  BY <1>1, SetupProbeSendFact DEF SetNextTimeout
<1>2. CASE ~(~s.probe_send /\ s.due = 0)
  <2>1. SetNextTimeout(s) = [s EXCEPT !.timer = TRUE]
    BY <1>2 DEF SetNextTimeout
  <2>2. QED
    BY <2>1 DEF Notifier, Kept
<1>3. QED
  BY <1>1, <1>2

\* np_send_keep_alive(): the timer is set again, or the notifier goes down to
\* try again; without memory for the message nothing happens.
LEMMA SendKeepAliveFact ==
    ASSUME NEW s \in Notifier, NEW e \in Env
    PROVE  LET t == SendKeepAlive(s, e)
           IN /\ t \in Notifier
              /\ \/ /\ Kept(s, t)
                    /\ t.client_state = s.client_state
                    /\ t.notify_cb = s.notify_cb
                    /\ IF e.alloc THEN t.timer ELSE t.timer = s.timer
                 \/ Retries(s, t)
<1> DEFINE on == SendOn(s, s.pcb, {"PROBE_RESP"}, e)
           probe == [on EXCEPT !.retries_left = @ - 1]
           kn == SendOn(NextSequence(s), s.pcb, {"KA_RESP"}, e)
           ka == [kn EXCEPT !.due = IF @ = 0 THEN 0 ELSE @ - 1]
           gone == s.probe_send /\ s.retries_left = 0
           t == IF s.probe_send THEN probe ELSE ka
<1>1. s.pcb \in BOOLEAN
  BY DEF Notifier
<1>2. ASSUME ~gone
      PROVE  /\ t \in Notifier /\ Kept(s, t)
             /\ t.client_state = s.client_state
             /\ t.notify_cb = s.notify_cb
  <2>1. CASE s.probe_send
    <3>1. on \in Notifier /\ Sends(s, on, s.pcb, {"PROBE_RESP"})
      BY <1>1, SendOnFact, MessageTypes
    <3>2. PICK c \in BOOLEAN, w \in SUBSET Messages :
            /\ on = [s EXCEPT !.crash = c, !.wire = w]
            /\ w \subseteq s.wire \cup {"PROBE_RESP"} /\ s.wire \subseteq w
      BY <3>1 DEF Sends
    <3>3. on.retries_left = s.retries_left /\ s.retries_left # 0
      BY <2>1, <1>2, <3>2 DEF Notifier
    <3> HIDE DEF on
    <3>4. probe \in Notifier
      <4>1. on.retries_left - 1 \in 0 .. MaxTry + 1
        BY <3>1, <3>3, NotifyAssumption DEF Notifier
      <4>2. QED
        BY <3>1, <4>1 DEF Notifier
    <3>5. /\ Kept(s, probe) /\ probe.client_state = s.client_state
          /\ probe.notify_cb = s.notify_cb
      BY <3>2 DEF Kept, Notifier
    <3>6. QED
      BY <2>1, <3>4, <3>5
  <2>2. CASE ~s.probe_send
    <3> DEFINE n == NextSequence(s)
    <3>1. n \in Notifier
          /\ n = [s EXCEPT !.moved = TRUE, !.wire = s.wire \ BySequence]
      BY NextSequenceFact
    <3> HIDE DEF n
    <3>2. kn = SendOn(n, s.pcb, {"KA_RESP"}, e)
      BY DEF n
    <3>3. kn \in Notifier /\ Sends(n, kn, s.pcb, {"KA_RESP"})
      BY <1>1, <3>1, <3>2, SendOnFact, MessageTypes
    <3>4. PICK c \in BOOLEAN, w \in SUBSET Messages :
            /\ kn = [n EXCEPT !.crash = c, !.wire = w]
            /\ w \subseteq n.wire \cup {"KA_RESP"} /\ n.wire \subseteq w
      BY <3>3 DEF Sends
    <3>5. n.wire = s.wire \ BySequence
      BY <3>1 DEF Notifier
    <3>6. kn.due \in 0 .. PollEvery
      BY <3>3 DEF Notifier
    <3>7. \A m \in {"NAT_PROBE", "REG_PROBE"} : m \in w <=> m \in s.wire
      BY <3>4, <3>5 DEF BySequence
    <3> HIDE DEF kn
    <3>8. ka \in Notifier
      <4> DEFINE d == IF kn.due = 0 THEN 0 ELSE kn.due - 1
      <4>1. d \in 0 .. PollEvery
        BY <3>6, NotifyAssumption
      <4>2. ka = [kn EXCEPT !.due = d]
        OBVIOUS
      <4> HIDE DEF d, ka
      <4>3. QED
        BY <3>3, <4>1, <4>2 DEF Notifier
    <3>9. /\ Kept(s, ka) /\ ka.client_state = s.client_state
          /\ ka.notify_cb = s.notify_cb
      BY <3>1, <3>4, <3>7 DEF Kept, Notifier
    <3>10. QED
      BY <2>2, <3>8, <3>9
  <2>3. QED
    BY <2>1, <2>2
<1>3. SendKeepAlive(s, e) =
        CASE ~e.alloc -> s
          [] e.alloc /\ gone -> DownRetryEvent(s)
          [] e.alloc /\ ~gone /\ ~e.sent -> DownRetryEvent(t)
          [] OTHER -> SetNextTimeout(t)
  BY DEF SendKeepAlive
<1>4. CASE ~e.alloc
  BY <1>3, <1>4 DEF Kept
<1>5. CASE e.alloc /\ gone
  BY <1>3, <1>5, DownRetryEventFact
<1> HIDE DEF t, gone
<1>6. CASE e.alloc /\ ~gone /\ ~e.sent
  <2>1. SendKeepAlive(s, e) = DownRetryEvent(t)
    BY <1>3, <1>6
  <2>2. DownRetryEvent(t) \in Notifier /\ Retries(t, DownRetryEvent(t))
    BY <1>2, <1>6, DownRetryEventFact
  <2>3. QED
    BY <1>2, <1>6, <2>1, <2>2 DEF Retries, Kept
<1>7. CASE e.alloc /\ ~gone /\ e.sent
  <2>1. SendKeepAlive(s, e) = SetNextTimeout(t)
    BY <1>3, <1>7
  <2>2. QED
    BY <1>2, <1>7, <2>1, SetNextTimeoutFact DEF Kept
<1>8. QED
  BY <1>4, <1>5, <1>6, <1>7, EnvType

\* np_reset_keep_alive() is a keep-alive with a timer that was cleared.
LEMMA ResetKeepAliveFact ==
    ASSUME NEW s \in Notifier, NEW e \in Env
    PROVE  LET t == ResetKeepAlive(s, e)
           IN /\ t \in Notifier
              /\ \/ /\ Kept(s, t)
                    /\ t.client_state = s.client_state
                    /\ t.notify_cb = s.notify_cb
                    /\ e.alloc => t.timer
                 \/ Retries(s, t)
<1> DEFINE u == [s EXCEPT !.timer = FALSE, !.due = e.due]
<1>1. u \in Notifier
  BY EnvType DEF Notifier
<1>2. /\ Kept(s, u) /\ u.client_state = s.client_state
      /\ u.notify_cb = s.notify_cb
  BY DEF Kept, Notifier
<1>3. ResetKeepAlive(s, e) = SendKeepAlive(u, e)
  BY DEF ResetKeepAlive
<1> HIDE DEF u
<1> QED
  BY <1>1, <1>2, <1>3, SendKeepAliveFact DEF Kept, Retries

\* np_bring_up(): UP with the period that is tried now, unless the first
\* keep-alive fails.
LEMMA BringUpFact ==
    ASSUME NEW s \in Notifier, NEW e \in Env
    PROVE  LET u == [s EXCEPT !.client_state = "UP", !.keep_alive = s.probe]
               t == BringUp(s, e)
           IN /\ t \in Notifier /\ t.notify_cb
              /\ \/ t.client_state = "UP" /\ Kept(u, t) /\ (e.alloc => t.timer)
                 \/ Retries(u, t)
<1> DEFINE u == [s EXCEPT !.client_state = "UP", !.keep_alive = s.probe]
           v == [s EXCEPT !.err_count = 0, !.client_state = "UP",
                          !.keep_alive = s.probe]
           r == ResetKeepAlive(v, e)
<1>1. 0 \in 0 .. ErrLimit + 2
  BY NotifyAssumption
<1>2. v \in Notifier
  BY <1>1 DEF Notifier, ClientState
<1>3. Kept(u, v) /\ v.client_state = "UP" /\ u.client_state = "UP"
  BY DEF Kept, Notifier
<1>4. BringUp(s, e) = Post(r)
  BY DEF BringUp
<1> HIDE DEF u, v
<1>5. /\ r \in Notifier
      /\ \/ Kept(v, r) /\ r.client_state = "UP" /\ (e.alloc => r.timer)
         \/ Retries(v, r)
  BY <1>2, <1>3, ResetKeepAliveFact
<1>6. /\ r \in Notifier
      /\ \/ Kept(u, r) /\ r.client_state = "UP" /\ (e.alloc => r.timer)
         \/ Retries(u, r)
  BY <1>3, <1>5 DEF Kept, Retries
<1> HIDE DEF r
<1>7. /\ Post(r) \in Notifier /\ Post(r).notify_cb
      /\ Post(r).client_state = r.client_state /\ Post(r).timer = r.timer
      /\ Kept(r, Post(r))
  BY <1>6, PostFact DEF Post, Kept, Notifier
<1>8. \/ Post(r).client_state = "UP" /\ Kept(u, Post(r))
         /\ (e.alloc => Post(r).timer)
      \/ Retries(u, Post(r))
  BY <1>6, <1>7 DEF Kept, Retries
<1> QED
  BY <1>4, <1>7, <1>8 DEF u

\* A step of the search: a probe is asked for, or the search is given up.
Probes(s, t) ==
    /\ t.client_state = s.client_state /\ t.timer = s.timer
    /\ t.notify_cb = s.notify_cb
    /\ t.dns = s.dns /\ t.disturbed = s.disturbed
    /\ t.restart_probing = s.restart_probing
    /\ t.keep_alive = s.keep_alive
    /\ t.probe = s.probe /\ t.min_probe = s.min_probe
    /\ \/ /\ t.probe_state = "DOWN"
          /\ "NAT_PROBE" \notin t.wire
          /\ "REG_PROBE" \in t.wire => "REG_PROBE" \in s.wire
       \/ /\ t.probe_state = "SEND" /\ t.probe_timer
          /\ t.probe_pcb = s.probe_pcb
          /\ "REG_PROBE" \notin t.wire
          /\ "NAT_PROBE" \in t.wire => s.probe_pcb /\ s.probe <= NatTimeout

\* np_req_probe(): a probe that is asked for comes only if the NAT keeps its
\* mapping for the period, and the ones asked for earlier are void.
LEMMA ReqProbeFact ==
    ASSUME NEW s \in Notifier, NEW e \in Env
    PROVE  LET t == ReqProbe(s, e)
           IN t \in Notifier /\ (Probes(s, t) \/ Retries(s, t))
<1>1. CASE s.probe_retries_left = 0
  <2>1. ReqProbe(s, e) = ProbeDown(s)
    BY <1>1 DEF ReqProbe
  <2>2. Probes(s, ProbeDown(s))
    BY DEF Probes, ProbeDown, ProbePort, Notifier
  <2>3. QED
    BY <2>1, <2>2, ProbeDownFact
<1>2. CASE s.probe_retries_left # 0
  <2> DEFINE d == s.probe_retries_left - 1
             q == [s EXCEPT !.probe_retries_left = d]
             n == NextProbeSeq(q)
             a == {"REQ_RESP"} \cup Probed("NAT_PROBE", n)
             on == SendOn(n, n.probe_pcb, a, e)
             t == IF e.alloc THEN on ELSE n
  <2>1. d \in 0 .. MaxTry
    BY <1>2, NotifyAssumption DEF Notifier
  <2>2. ReqProbe(s, e) =
            IF e.alloc /\ ~e.sent THEN DownRetryEvent(t)
            ELSE [t EXCEPT !.probe_timer = TRUE, !.probe_state = "SEND"]
    BY <1>2, EnvType DEF ReqProbe
  <2> HIDE DEF d
  <2>3. q \in Notifier
    BY <2>1 DEF Notifier
  <2>4. /\ n \in Notifier
        /\ n = [q EXCEPT !.moved = TRUE,
                         !.wire = q.wire \ (BySequence \cup ByProbeSeq)]
    BY <2>3, NextProbeSeqFact
  <2> HIDE DEF q
  <2>5. a \in SUBSET Messages /\ ("NAT_PROBE" \in a => n.probe <= NatTimeout)
        /\ "REG_PROBE" \notin a
    BY MessageTypes DEF Probed
  <2>6. n.probe_pcb \in BOOLEAN
    BY <2>4 DEF Notifier
  <2> HIDE DEF n, a
  <2>7. on \in Notifier /\ Sends(n, on, n.probe_pcb, a)
    BY <2>4, <2>5, <2>6, SendOnFact
  <2> HIDE DEF on
  <2>8. t \in Notifier
    BY <2>4, <2>7
  <2>9. \E c \in BOOLEAN, w \in SUBSET Messages :
            /\ t = [n EXCEPT !.crash = c, !.wire = w]
            /\ w \subseteq n.wire \cup a
            /\ ~n.probe_pcb => w = n.wire
    <3>1. CASE e.alloc
      BY <2>7, <3>1 DEF Sends
    <3>2. CASE ~e.alloc
      <4>1. /\ n.crash \in BOOLEAN /\ n.wire \in SUBSET Messages
            /\ n = [n EXCEPT !.crash = n.crash, !.wire = n.wire]
        BY <2>4 DEF Notifier
      <4>2. QED
        BY <3>2, <4>1, <2>4
    <3>3. QED
      BY <3>1, <3>2
  <2> HIDE DEF t
  <2>10. PICK c \in BOOLEAN, w \in SUBSET Messages :
            /\ t = [n EXCEPT !.crash = c, !.wire = w]
            /\ w \subseteq n.wire \cup a
            /\ ~n.probe_pcb => w = n.wire
    BY <2>9
  <2>11. "REG_PROBE" \notin w
         /\ ("NAT_PROBE" \in w => n.probe_pcb /\ n.probe <= NatTimeout)
    <3>1. "REG_PROBE" \notin n.wire /\ "NAT_PROBE" \notin n.wire
      BY <2>3, <2>4 DEF Notifier, ByProbeSeq
    <3>2. QED
      BY <2>5, <2>6, <2>10, <3>1
  <2>12. /\ n.client_state = s.client_state /\ n.timer = s.timer
         /\ n.notify_cb = s.notify_cb
         /\ n.dns = s.dns /\ n.disturbed = s.disturbed
         /\ n.restart_probing = s.restart_probing
         /\ n.keep_alive = s.keep_alive
         /\ n.probe = s.probe /\ n.min_probe = s.min_probe
         /\ n.probe_state = s.probe_state /\ n.probe_pcb = s.probe_pcb
    BY <2>4 DEF Notifier, q
  <2>13. n \in Notifier
    BY <2>4
  <2>14. /\ t.client_state = s.client_state /\ t.timer = s.timer
         /\ t.notify_cb = s.notify_cb
         /\ t.dns = s.dns /\ t.disturbed = s.disturbed
         /\ t.restart_probing = s.restart_probing
         /\ t.keep_alive = s.keep_alive
         /\ t.probe = s.probe /\ t.min_probe = s.min_probe
         /\ t.probe_state = s.probe_state /\ t.probe_pcb = s.probe_pcb
         /\ t.wire = w
    BY <2>12, <2>10, <2>13 DEF Notifier
  <2>15. CASE e.alloc /\ ~e.sent
    <3>1. DownRetryEvent(t) \in Notifier /\ Retries(t, DownRetryEvent(t))
      BY <2>8, DownRetryEventFact
    <3>2. Retries(s, DownRetryEvent(t))
      BY <3>1, <2>11, <2>14 DEF Retries
    <3>3. QED
      BY <2>2, <2>15, <3>1, <3>2
  <2>16. CASE ~(e.alloc /\ ~e.sent)
    <3> DEFINE u == [t EXCEPT !.probe_timer = TRUE, !.probe_state = "SEND"]
    <3>1. u \in Notifier
      BY <2>8 DEF Notifier, ProbeState
    <3>2. Probes(s, u)
      BY <2>8, <2>11, <2>12, <2>14 DEF Probes, Notifier
    <3>3. QED
      BY <2>2, <2>16, <3>1, <3>2
  <2>17. QED
    BY <2>15, <2>16
<1>3. QED
  BY <1>1, <1>2

-----------------------------------------------------------------------------
(* The search for a period.                                                *)

\* A period the NAT allows, or the shortest there is.
Fits(period) == period <= NatTimeout \/ period <= MinProbe

\* The inductive invariant of the search: a probe that may still arrive was
\* asked for after the period that is tried now, and the NAT lets it through.
Tuned(s) == ~s.disturbed =>
    /\ Fits(s.min_probe)
    /\ s.client_state # "CHANGE_WAIT"
    /\ s.client_state \in {"DOWN", "DNS_PASS", "REGISTER"} =>
            s.probe_state = "DOWN"
    /\ s.client_state = "REGISTER" =>
            s.probe = InitProbe /\ "NAT_PROBE" \notin s.wire
    /\ "REG_PROBE" \in s.wire => InitProbe <= NatTimeout
    /\ s.probe_state \in {"SEND", "WAIT"} =>
            \A m \in {"NAT_PROBE", "REG_PROBE"} :
                m \in s.wire => s.probe <= NatTimeout
    /\ s.client_state = "DOWN_RETRY" =>
            /\ "NAT_PROBE" \notin s.wire
            /\ s.probe_state \in {"SEND", "WAIT"} =>
                    ~s.probe_pcb /\ s.restart_probing
            /\ ~s.restart_probing => Fits(s.probe)
    /\ s.probe_state = "IDLE" =>
            Fits(s.probe) /\ (s.client_state = "UP" => Fits(s.keep_alive))

\* The notifier may try another period.
Ready(s) == ~s.disturbed =>
    /\ Fits(s.min_probe)
    /\ s.client_state \in {"UP", "DOWN_RETRY"}
    /\ s.probe_state # "IDLE"
    /\ "REG_PROBE" \in s.wire => InitProbe <= NatTimeout
    /\ s.client_state = "DOWN_RETRY" =>
            "NAT_PROBE" \notin s.wire /\ ~s.probe_pcb /\ s.restart_probing

Searches(s) == s.probe_state \in {"SEND", "WAIT"} => s.probe_timer

\* Keep-alives leave the search as it is.
LEMMA TunedKept ==
    ASSUME NEW s \in Notifier, NEW t \in Notifier,
           Kept(s, t), t.client_state = s.client_state
    PROVE  (Tuned(s) => Tuned(t)) /\ (Ready(s) => Ready(t))
  BY DEF Kept, Tuned, Ready

\* A notifier that is down searches for nothing.
LEMMA TunedDowned ==
    ASSUME NEW s \in Notifier, NEW t \in Notifier, Downed(s, t), Tuned(s)
    PROVE  Tuned(t)
  BY DEF Downed, Tuned

\* A search that is cut short is started again, one that is over is not.
LEMMA TunedRetries ==
    ASSUME NEW s \in Notifier, NEW t \in Notifier, Retries(s, t)
    PROVE  /\ Tuned(s) /\ s.client_state \in {"UP", "DOWN_RETRY"} => Tuned(t)
           /\ Ready(s) => Tuned(t) /\ Ready(t)
  BY DEF Retries, Tuned, Ready

\* A probe that may arrive was asked for after the period tried now.
LEMMA TunedProbes ==
    ASSUME NEW s \in Notifier, NEW t \in Notifier, Probes(s, t), Ready(s)
    PROVE  Tuned(t)
  BY DEF Probes, Tuned, Ready, Notifier

\* np_req_probe_new(): whether the search ends or tries another period, and
\* whether or not raising the keep-alive period fails on the way.
LEMMA ReqProbeNewFact ==
    ASSUME NEW s \in Notifier, NEW e \in Env
    PROVE  LET t == ReqProbeNew(s, e)
           IN /\ t \in Notifier
              /\ t.dns = s.dns
              /\ \/ /\ t.client_state = s.client_state
                    /\ t.notify_cb = s.notify_cb
                    /\ e.alloc => t.timer \/ t.timer = s.timer
                 \/ t.client_state = "DOWN_RETRY" /\ ~t.timer /\ t.notify_cb
              /\ Searches(t)
              /\ Ready(s) => Tuned(t)
<1> DEFINE min == s.min_probe
           middle == (min + s.max_probe) \div 2
           next == IF middle > 2 * s.probe THEN 2 * s.probe ELSE middle
           t == [s EXCEPT !.probe = next]
           k == [t EXCEPT !.keep_alive = min]
           raised == IF t.keep_alive < min THEN ResetKeepAlive(k, e) ELSE t
           last == [s EXCEPT !.probe = min, !.keep_alive = min,
                             !.probe_state = "IDLE"]
           r == [raised EXCEPT !.probes_needed = InitProbes,
                               !.probe_retries_left = MaxTry]
<1>1. min \in Nat /\ next \in Nat
  BY DEF Notifier
<1>2. ReqProbeNew(s, e) = IF min + min \div 8 >= s.max_probe
                          THEN ResetKeepAlive(last, e) ELSE ReqProbe(r, e)
  BY DEF ReqProbeNew
<1> HIDE DEF min, next
<1>3. CASE min + min \div 8 >= s.max_probe
  <2>1. last \in Notifier
    BY <1>1 DEF Notifier, ProbeState
  <2>2. /\ last.dns = s.dns /\ last.client_state = s.client_state
        /\ last.notify_cb = s.notify_cb /\ last.probe_state = "IDLE"
        /\ last.probe = min /\ last.keep_alive = min /\ last.min_probe = min
        /\ last.disturbed = s.disturbed /\ last.wire = s.wire
        /\ last.restart_probing = s.restart_probing
    BY DEF Notifier, min
  <2>3. Ready(s) => Tuned(last) /\ (~s.disturbed =>
                        last.client_state \in {"UP", "DOWN_RETRY"})
    BY <2>2 DEF Ready, Tuned, min
  <2> HIDE DEF last
  <2> DEFINE u == ResetKeepAlive(last, e)
  <2>4. /\ u \in Notifier
        /\ \/ /\ Kept(last, u)
              /\ u.client_state = last.client_state
              /\ u.notify_cb = last.notify_cb
              /\ e.alloc => u.timer
           \/ Retries(last, u)
    BY <2>1, ResetKeepAliveFact
  <2> HIDE DEF u
  <2>5. ReqProbeNew(s, e) = u
    BY <1>2, <1>3 DEF u
  <2>6. Searches(u) /\ u.dns = s.dns /\ u.disturbed = s.disturbed
    BY <2>2, <2>4 DEF Kept, Retries, Searches
  <2>7. Ready(s) => Tuned(u)
    <3>1. CASE s.disturbed
      BY <2>6, <3>1 DEF Tuned
    <3>2. CASE ~s.disturbed
      BY <2>1, <2>3, <2>4, <3>2, TunedKept, TunedRetries
    <3>3. QED
      BY <3>1, <3>2
  <2>8. QED
    BY <2>2, <2>4, <2>5, <2>6, <2>7 DEF Retries
<1>4. CASE ~(min + min \div 8 >= s.max_probe)
  <2>1. t \in Notifier /\ k \in Notifier
    BY <1>1 DEF Notifier
  <2>2. \A x \in {t, k} :
            /\ x.dns = s.dns /\ x.client_state = s.client_state
            /\ x.notify_cb = s.notify_cb /\ x.timer = s.timer
            /\ Ready(s) => Ready(x)
    BY ZenonT(60) DEF Notifier, Ready
  <2> HIDE DEF t, k
  <2>3. /\ raised \in Notifier
        /\ raised.dns = s.dns
        /\ \/ /\ raised.client_state = s.client_state
              /\ raised.notify_cb = s.notify_cb
              /\ e.alloc => raised.timer \/ raised.timer = s.timer
           \/ /\ raised.client_state = "DOWN_RETRY"
              /\ ~raised.timer /\ raised.notify_cb
        /\ Ready(s) => Ready(raised)
    <3>1. CASE t.keep_alive < min
      <4> DEFINE u == ResetKeepAlive(k, e)
      <4>1. /\ u \in Notifier
            /\ \/ /\ Kept(k, u)
                  /\ u.client_state = k.client_state
                  /\ u.notify_cb = k.notify_cb
                  /\ e.alloc => u.timer
               \/ Retries(k, u)
        BY <2>1, ResetKeepAliveFact
      <4>2. raised = u
        BY <3>1
      <4> HIDE DEF u, raised
      <4>3. Ready(k) => Ready(u)
        BY <2>1, <4>1, TunedKept, TunedRetries
      <4>4. QED
        BY <2>2, <4>1, <4>2, <4>3 DEF Kept, Retries
    <3>2. CASE ~(t.keep_alive < min)
      BY <2>1, <2>2, <3>2
    <3>3. QED
      BY <3>1, <3>2
  <2> HIDE DEF raised
  <2>4. /\ r \in Notifier
        /\ r.dns = raised.dns /\ r.client_state = raised.client_state
        /\ r.notify_cb = raised.notify_cb /\ r.timer = raised.timer
        /\ Ready(raised) => Ready(r)
    <3>1. InitProbes \in 0 .. InitProbes /\ MaxTry \in 0 .. MaxTry
      BY NotifyAssumption
    <3>2. r \in Notifier
      BY <2>3, <3>1 DEF Notifier
    <3>3. QED
      BY <2>3, <3>2 DEF Notifier, Ready
  <2> HIDE DEF r
  <2> DEFINE u == ReqProbe(r, e)
  <2>5. u \in Notifier /\ (Probes(r, u) \/ Retries(r, u))
    BY <2>4, ReqProbeFact
  <2>6. ReqProbeNew(s, e) = u
    BY <1>2, <1>4
  <2> HIDE DEF u
  <2>7. Ready(s) => Tuned(u)
    BY <2>3, <2>4, <2>5, TunedProbes, TunedRetries
  <2>8. Searches(u)
    BY <2>5 DEF Searches, Probes, Retries
  <2>9. QED
    BY <2>3, <2>4, <2>5, <2>6, <2>7, <2>8 DEF Probes, Retries
<1>5. QED
  BY <1>3, <1>4

\* A registration may be asked for.
Fresh(s) == ~s.disturbed =>
    Fits(s.min_probe) /\ s.probe_state = "DOWN" /\ s.probe = InitProbe

\* np_register() on a search that has not begun.
LEMMA RegisterFact ==
    ASSUME NEW s \in Notifier, NEW e \in Env
    PROVE  LET t == Register(s, e)
           IN /\ t \in Notifier /\ t.dns = s.dns
              /\ \/ Downed(s, t) /\ t.notify_cb
                 \/ /\ t.client_state = "REGISTER" /\ t.timer
                    /\ t.notify_cb = s.notify_cb
              /\ Searches(s) => Searches(t)
              /\ Fresh(s) => Tuned(t)
<1> DEFINE n == NextProbeSeq(s)
           a == {"REG_RESP"} \cup Probed("REG_PROBE", n)
           on == SendOn(n, n.pcb, a, e)
           t == IF e.alloc THEN on ELSE n
<1>1. /\ n \in Notifier
      /\ n = [s EXCEPT !.moved = TRUE,
                       !.wire = s.wire \ (BySequence \cup ByProbeSeq)]
  BY NextProbeSeqFact
<1>2. Register(s, e) =
        IF e.alloc /\ ~e.sent THEN DownEvent(t)
        ELSE [t EXCEPT !.timer = TRUE, !.client_state = "REGISTER"]
  BY DEF Register
<1> HIDE DEF n
<1>3. a \in SUBSET Messages /\ ("REG_PROBE" \in a => n.probe <= NatTimeout)
      /\ "NAT_PROBE" \notin a
  BY MessageTypes DEF Probed
<1>4. n.pcb \in BOOLEAN
  BY <1>1 DEF Notifier
<1> HIDE DEF a
<1>5. on \in Notifier /\ Sends(n, on, n.pcb, a)
  BY <1>1, <1>3, <1>4, SendOnFact
<1>6. n \in Notifier
  BY <1>1
<1>7. /\ n.client_state = s.client_state /\ n.notify_cb = s.notify_cb
      /\ n.dns = s.dns /\ n.disturbed = s.disturbed
      /\ n.probe = s.probe /\ n.min_probe = s.min_probe
      /\ n.probe_state = s.probe_state /\ n.probe_timer = s.probe_timer
      /\ "REG_PROBE" \notin n.wire /\ "NAT_PROBE" \notin n.wire
  BY <1>1 DEF Notifier, ByProbeSeq
<1> HIDE DEF on
<1>8. /\ t \in Notifier
      /\ t.notify_cb = s.notify_cb
      /\ t.dns = s.dns /\ t.disturbed = s.disturbed
      /\ t.probe = s.probe /\ t.min_probe = s.min_probe
      /\ t.probe_state = s.probe_state /\ t.probe_timer = s.probe_timer
      /\ "NAT_PROBE" \notin t.wire
      /\ "REG_PROBE" \in t.wire => s.probe <= NatTimeout
  <2>1. CASE e.alloc
    <3>1. t = on
      BY <2>1
    <3>2. PICK c \in BOOLEAN, w \in SUBSET Messages :
            on = [n EXCEPT !.crash = c, !.wire = w] /\ w \subseteq n.wire \cup a
      BY <1>5 DEF Sends
    <3>3. on.wire = w /\ on.notify_cb = n.notify_cb
          /\ on.dns = n.dns /\ on.disturbed = n.disturbed
          /\ on.probe = n.probe /\ on.min_probe = n.min_probe
          /\ on.probe_state = n.probe_state /\ on.probe_timer = n.probe_timer
      BY <1>6, <3>2 DEF Notifier
    <3>4. /\ "NAT_PROBE" \notin w
          /\ "REG_PROBE" \in w => n.probe <= NatTimeout
      BY <1>3, <1>7, <3>2
    <3> HIDE DEF t
    <3>5. QED
      BY <1>5, <1>7, <3>1, <3>3, <3>4
  <2>2. CASE ~e.alloc
    BY <1>6, <1>7, <2>2
  <2>3. QED
    BY <2>1, <2>2
<1> HIDE DEF t
<1>9. CASE e.alloc /\ ~e.sent
  <2>1. /\ DownEvent(t) \in Notifier /\ Downed(t, DownEvent(t))
        /\ DownEvent(t).notify_cb
    BY <1>8, DownEventFact
  <2> DEFINE d == DownEvent(t)
  <2>2. Register(s, e) = d
    BY <1>2, <1>9
  <2> HIDE DEF d
  <2>3. d \in Notifier /\ Downed(s, d) /\ d.notify_cb /\ d.dns = s.dns
    BY <1>8, <2>1 DEF d, Downed
  <2>4. Searches(d)
    BY <2>3 DEF Searches, Downed
  <2>5. Fresh(s) => Tuned(d)
    BY <2>3 DEF Fresh, Tuned, Downed
  <2>6. QED
    BY <2>2, <2>3, <2>4, <2>5
<1>10. CASE ~(e.alloc /\ ~e.sent)
  <2> DEFINE d == [t EXCEPT !.timer = TRUE, !.client_state = "REGISTER"]
  <2>1. Register(s, e) = d
    BY <1>2, <1>10
  <2>2. d \in Notifier
    BY <1>8 DEF Notifier, ClientState
  <2>3. /\ d.client_state = "REGISTER" /\ d.timer
        /\ d.notify_cb = t.notify_cb
        /\ d.dns = t.dns /\ d.disturbed = t.disturbed
        /\ d.probe = t.probe /\ d.min_probe = t.min_probe
        /\ d.probe_state = t.probe_state /\ d.probe_timer = t.probe_timer
        /\ d.wire = t.wire
    BY <1>8 DEF Notifier
  <2> HIDE DEF d
  <2>4. Fresh(s) => Tuned(d)
    BY <1>8, <2>3 DEF Fresh, Tuned
  <2>5. QED
    BY <1>8, <2>1, <2>2, <2>3, <2>4 DEF Searches
<1>11. QED
  BY <1>9, <1>10

\* np_change() voids the promise about the period until the next start.
LEMMA ChangeFact ==
    ASSUME NEW s \in Notifier
    PROVE  LET t == Change(s)
           IN /\ t \in Notifier /\ t.dns = s.dns
              /\ t.client_state = "CHANGE_WAIT" /\ t.timer
              /\ t.notify_cb = s.notify_cb
              /\ Searches(s) => Searches(t)
              /\ Tuned(t)
<1>1. Change(s) \in Notifier
  BY DEF Change, Notifier, ClientState
<1>2. QED
  BY <1>1 DEF Change, Notifier, Searches, Tuned

\* np_error() counts, and asks for another server past the limit.
LEMMA ErrorFact ==
    ASSUME NEW s \in Notifier
    PROVE  LET t == Error(s)
           IN /\ t \in Notifier /\ t.dns = s.dns
              /\ t.notify_cb = s.notify_cb
              /\ \/ t.client_state = s.client_state /\ t.timer = s.timer
                    /\ t.pcb = s.pcb /\ t.wire = s.wire
                    /\ t.probe_state = s.probe_state
                 \/ t.client_state = "CHANGE_WAIT" /\ t.timer
              /\ Searches(s) => Searches(t)
              /\ Tuned(s) => Tuned(t)
<1> DEFINE c == IF s.err_count > ErrLimit THEN s.err_count
                ELSE s.err_count + 1
           t == [s EXCEPT !.err_count = c]
<1>1. c \in 0 .. ErrLimit + 2
  BY NotifyAssumption DEF Notifier
<1>2. Error(s) = IF s.err_count > ErrLimit THEN Change(t) ELSE t
  BY DEF Error
<1> HIDE DEF c
<1>3. t \in Notifier
  BY <1>1 DEF Notifier
<1>4. /\ t.dns = s.dns /\ t.notify_cb = s.notify_cb
      /\ t.client_state = s.client_state /\ t.timer = s.timer
      /\ t.pcb = s.pcb /\ t.wire = s.wire /\ t.probe_state = s.probe_state
      /\ Searches(s) => Searches(t)
      /\ Tuned(s) => Tuned(t)
  BY DEF Notifier, Searches, Tuned
<1> HIDE DEF t
<1> QED
  BY <1>2, <1>3, <1>4, ChangeFact

\* np_set_server(): a lookup goes on, or begins, or the notifier goes down or
\* tries again.
LEMMA SetServerFact ==
    ASSUME NEW s \in Notifier, NEW name \in Server \cup {NoServer},
           NEW e \in Env
    PROVE  LET t == SetServer(s, name, e)
           IN /\ t \in Notifier
              /\ \/ /\ t.dns # NoServer
                    /\ t.client_state = s.client_state /\ t.timer = s.timer
                    /\ t.notify_cb = s.notify_cb
                    /\ t.pcb = s.pcb /\ t.wire = s.wire
                    /\ t.probe_state = s.probe_state
                 \/ /\ s.dns = NoServer /\ t.dns = NoServer
                    /\ Downed(s, t) /\ t.notify_cb
                 \/ /\ s.dns = NoServer /\ t.dns = NoServer
                    /\ s.client_state = "DOWN_RETRY"
                    /\ t.client_state = "DOWN_RETRY" /\ t.timer
                    /\ t.notify_cb = s.notify_cb
              /\ Searches(s) => Searches(t)
              /\ Tuned(s) => Tuned(t)
<1> DEFINE t == [s EXCEPT !.name = name]
           u == [t EXCEPT !.dns = name]
           v == [t EXCEPT !.timer = TRUE]
<1>1. t \in Notifier /\ u \in Notifier /\ v \in Notifier
  BY DEF Notifier
<1>2. \A x \in {t, u, v} :
        /\ x.client_state = s.client_state /\ x.notify_cb = s.notify_cb
        /\ x.probe_state = s.probe_state /\ x.pcb = s.pcb /\ x.wire = s.wire
        /\ x.min_probe = s.min_probe /\ x.disturbed = s.disturbed
        /\ Searches(s) => Searches(x)
        /\ Tuned(s) => Tuned(x)
  <2>1. \A x \in {t, u, v} :
          /\ x.client_state = s.client_state /\ x.notify_cb = s.notify_cb
          /\ x.probe_state = s.probe_state /\ x.probe_timer = s.probe_timer
          /\ x.pcb = s.pcb /\ x.probe_pcb = s.probe_pcb /\ x.wire = s.wire
          /\ x.probe = s.probe /\ x.min_probe = s.min_probe
          /\ x.keep_alive = s.keep_alive /\ x.disturbed = s.disturbed
          /\ x.restart_probing = s.restart_probing
    BY ZenonT(60) DEF Notifier
  <2> HIDE DEF t, u, v
  <2>2. QED
    BY <2>1 DEF Searches, Tuned
<1>3. /\ t.dns = s.dns /\ t.timer = s.timer
      /\ u.dns = name /\ u.timer = s.timer
      /\ v.dns = s.dns /\ v.timer
  BY DEF Notifier
<1>4. SetServer(s, name, e) =
        CASE s.dns # NoServer -> t
          [] s.dns = NoServer /\ name = NoServer -> DownEvent(t)
          [] s.dns = NoServer /\ name # NoServer /\ e.alloc -> u
          [] OTHER -> IF s.client_state = "DOWN_RETRY" THEN v ELSE DownEvent(t)
  BY DEF SetServer
<1> HIDE DEF t, u, v
<1> DEFINE d == DownEvent(t)
<1>5. /\ d \in Notifier /\ Downed(s, d) /\ d.notify_cb
      /\ d.dns = s.dns /\ Searches(d)
      /\ Tuned(s) => Tuned(d)
  <2>1. d \in Notifier /\ Downed(t, d) /\ d.notify_cb
    BY <1>1, DownEventFact
  <2> HIDE DEF d
  <2>2. QED
    BY <1>1, <1>2, <1>3, <2>1, TunedDowned DEF Downed, Searches
<1> HIDE DEF d
<1>6. CASE s.dns # NoServer
  BY <1>1, <1>2, <1>3, <1>4, <1>6
<1>7. CASE s.dns = NoServer /\ name = NoServer
  <2>1. SetServer(s, name, e) = d
    BY <1>4, <1>7 DEF d
  <2>2. QED
    BY <1>5, <1>7, <2>1
<1>8. CASE s.dns = NoServer /\ name # NoServer /\ e.alloc
  <2>1. SetServer(s, name, e) = u
    BY <1>4, <1>8
  <2>2. QED
    BY <1>1, <1>2, <1>3, <1>8, <2>1
<1>9. CASE s.dns = NoServer /\ name # NoServer /\ ~e.alloc
  <2>1. SetServer(s, name, e) = IF s.client_state = "DOWN_RETRY" THEN v ELSE d
    BY <1>4, <1>9 DEF d
  <2>2. QED
    BY <1>1, <1>2, <1>3, <1>5, <1>9, <2>1
<1>10. QED
  BY <1>6, <1>7, <1>8, <1>9, EnvType

\* np_start(): a registration is asked for, unless there is no server or no
\* socket.
LEMMA StartFact ==
    ASSUME NEW s \in Notifier, NEW e \in Env
    PROVE  LET t == Start(s, e)
           IN /\ t \in Notifier /\ t.dns = s.dns
              /\ \/ t = s
                 \/ t.client_state = "DOWN" /\ ~t.timer /\ t.notify_cb
                    /\ Quiet(t)
                 \/ /\ t.client_state = "REGISTER" /\ t.timer
                    /\ t.notify_cb = s.notify_cb
              /\ Searches(s) => Searches(t)
              /\ Tuned(s) => Tuned(t)
<1>1. CASE s.name = NoServer \/ s.addr = NoServer
  BY <1>1 DEF Start
<1>2. CASE ~(s.name = NoServer \/ s.addr = NoServer) /\ ~e.open
  <2>1. Start(s, e) = DownEvent(s)
    BY <1>2 DEF Start
  <2>2. QED
    BY <2>1, DownEventFact, TunedDowned DEF Downed, Searches, Quiet
<1>3. CASE ~(s.name = NoServer \/ s.addr = NoServer) /\ e.open
  <2> DEFINE d == Down(s)
             o == [d EXCEPT !.pcb = e.open, !.probe_pcb = e.open,
                            !.disturbed = FALSE]
             i == ProbeInit(o)
             r == Register(i, e)
  <2>1. Start(s, e) = r
    BY <1>3 DEF Start, OpenPcbs
  <2>2. d \in Notifier /\ Downed(s, d) /\ d.notify_cb = s.notify_cb
    BY DownFact
  <2> HIDE DEF d
  <2>3. /\ o \in Notifier
        /\ o.dns = s.dns /\ o.notify_cb = s.notify_cb
        /\ o.probe_state = "DOWN"
    BY <2>2, EnvType DEF Notifier, Downed
  <2> HIDE DEF o
  <2>4. i \in Notifier
    BY <2>3, ProbeInitFact
  <2>5. /\ i.dns = s.dns /\ i.notify_cb = s.notify_cb
        /\ i.probe_state = "DOWN" /\ i.probe = InitProbe
        /\ i.min_probe = MinProbe
    BY <2>3 DEF Notifier, ProbeInit
  <2>6. Fresh(i) /\ Searches(i)
    BY <2>5, NotifyAssumption DEF Fresh, Fits, Searches
  <2> HIDE DEF i
  <2>7. /\ r \in Notifier /\ r.dns = i.dns
        /\ \/ Downed(i, r) /\ r.notify_cb
           \/ /\ r.client_state = "REGISTER" /\ r.timer
              /\ r.notify_cb = i.notify_cb
        /\ Searches(r) /\ Tuned(r)
    BY <2>4, <2>6, RegisterFact
  <2> HIDE DEF r
  <2>8. QED
    BY <2>1, <2>5, <2>7 DEF Downed, Quiet
<1>4. QED
  BY <1>1, <1>2, <1>3, EnvType

-----------------------------------------------------------------------------
(* The steps.                                                              *)

Inv == TypeOK /\ Quiet(np) /\ Searches(np) /\ Tuned(np)

\* With memory for its messages, the notifier never is registered, nor waits
\* for that, without its timer.
Timed == np.client_state \in {"REGISTER", "UP"} => np.timer

\* What is left to show when the next notifier is known.
LEMMA InvNext ==
    ASSUME TypeOK, np' \in Notifier, Quiet(np'), Searches(np'), Tuned(np'),
           np_started' \in BOOLEAN, np_up' \in BOOLEAN,
           fetch' \in {"no", "sent", "named"}, ads_valid' \in BOOLEAN
    PROVE  Inv'
  BY DEF Inv, TypeOK

\* The same for a handler, which leaves the flags of the client alone.
LEMMA InvHandle ==
    ASSUME Inv, NEW t \in Notifier, Quiet(t), Searches(t), Tuned(t), Handle(t)
    PROVE  Inv' /\ np' = t
  BY InvNext DEF Inv, TypeOK, Handle

\* The states the abstract steps end in.
LEMMA Enters ==
    ASSUME np' \in Notifier, NEW c, np'.client_state = c
    PROVE  /\ np'.timer /\ np'.notify_cb => Abstract!Enter(c, TRUE, TRUE)
           /\ ~np'.timer /\ np'.notify_cb => Abstract!Enter(c, FALSE, TRUE)
           /\ np'.notify_cb = np.notify_cb =>
                Abstract!Enter(c, np'.timer, np.notify_cb)
           /\ np'.timer /\ np'.notify_cb = np.notify_cb =>
                Abstract!Enter(c, TRUE, np.notify_cb)
           /\ ~np'.timer /\ np'.notify_cb = np.notify_cb =>
                Abstract!Enter(c, FALSE, np.notify_cb)
           /\ ~np'.notify_cb => Abstract!Enter(c, np'.timer, FALSE)
           /\ np'.notify_cb => Abstract!Enter(c, np'.timer, TRUE)
<1>1. /\ np'.timer => np'.timer = TRUE
      /\ ~np'.timer => np'.timer = FALSE
      /\ np'.notify_cb => np'.notify_cb = TRUE
      /\ ~np'.notify_cb => np'.notify_cb = FALSE
  BY DEF Notifier
<1>2. QED
  BY <1>1 DEF Abstract!Enter

\* What the properties are about, but for the messages.
Alike(s, t) ==
    /\ t.client_state = s.client_state /\ t.timer = s.timer
    /\ t.notify_cb = s.notify_cb /\ t.dns = s.dns /\ t.pcb = s.pcb
    /\ t.probe_state = s.probe_state /\ t.probe_timer = s.probe_timer
    /\ t.probe_pcb = s.probe_pcb /\ t.restart_probing = s.restart_probing
    /\ t.keep_alive = s.keep_alive
    /\ t.probe = s.probe /\ t.min_probe = s.min_probe
    /\ t.disturbed = s.disturbed

\* A message that is received is gone.
LEMMA WithoutFact ==
    ASSUME Inv, NEW m \in Messages
    PROVE  LET s == Without(m)
           IN /\ s \in Notifier /\ Alike(np, s) /\ s.wire = np.wire \ {m}
              /\ Quiet(s) /\ Searches(s) /\ Tuned(s)
<1>1. Without(m) \in Notifier
  BY DEF Without, Inv, TypeOK, Notifier
<1>2. Alike(np, Without(m)) /\ Without(m).wire = np.wire \ {m}
  BY DEF Without, Inv, TypeOK, Notifier, Alike
<1> QED
  BY <1>1, <1>2 DEF Alike, Quiet, Searches, Tuned, Inv

\* np_recv_reg_resp().
LEMMA RecvRegRespStep ==
    ASSUME Inv, RecvRegResp
    PROVE  /\ Inv'
           /\ "alloc" \notin Faults =>
                \/ Abstract!Registering \/ Abstract!BringUp
                \/ UNCHANGED Abstract!npVars
<1> DEFINE s == Without("REG_RESP")
           t == [s EXCEPT !.timer = FALSE]
<1>1. PICK error \in BOOLEAN, e \in Env :
        /\ Received("REG_RESP")
        /\ Handle(CASE np.client_state # "REGISTER" -> s
                    [] np.client_state = "REGISTER" /\ error -> DownEvent(t)
                    [] OTHER -> ProbeWait(BringUp(t, e)))
  BY DEF RecvRegResp
<1>2. /\ s \in Notifier /\ Alike(np, s)
      /\ Quiet(s) /\ Searches(s) /\ Tuned(s)
      /\ s.wire = np.wire \ {"REG_RESP"}
  BY WithoutFact DEF Messages, BySequence
<1> HIDE DEF s
<1>3. CASE np.client_state # "REGISTER"
  <2>1. Inv' /\ np' = s
    BY <1>1, <1>2, <1>3, InvHandle
  <2>2. UNCHANGED Abstract!npVars
    BY <1>2, <2>1 DEF Alike, Abstract!npVars
  <2>3. QED
    BY <2>1, <2>2
<1>4. /\ t \in Notifier /\ t.client_state = s.client_state /\ ~t.timer
      /\ t.notify_cb = s.notify_cb /\ t.dns = s.dns
      /\ t.probe_state = s.probe_state /\ t.probe = s.probe
      /\ t.keep_alive = s.keep_alive
      /\ t.wire = s.wire /\ t.disturbed = s.disturbed
      /\ t.min_probe = s.min_probe
      /\ t.restart_probing = s.restart_probing
      /\ t.probe_pcb = s.probe_pcb
  BY <1>2 DEF Notifier
<1> HIDE DEF t
<1>5. Tuned(t)
  BY <1>2, <1>4 DEF Tuned
<1>6. CASE np.client_state = "REGISTER" /\ error
  <2>1. /\ DownEvent(t) \in Notifier /\ Downed(t, DownEvent(t))
        /\ DownEvent(t).notify_cb
    BY <1>4, DownEventFact
  <2> DEFINE d == DownEvent(t)
  <2>2. Quiet(d) /\ Searches(d) /\ Tuned(d)
    BY <1>4, <1>5, <2>1, TunedDowned DEF Downed, Quiet, Searches
  <2>3. Handle(d)
    BY <1>1, <1>6
  <2> HIDE DEF d
  <2>4. Inv' /\ np' = d
    BY <2>1, <2>2, <2>3, InvHandle DEF d
  <2>5. Abstract!Registering
    BY <1>2, <1>4, <1>6, <2>1, <2>4, Enters
    DEF d, Downed, Alike, Abstract!Registering, Abstract!GoDown
  <2>6. QED
    BY <2>4, <2>5
<1>7. CASE np.client_state = "REGISTER" /\ ~error
  <2> DEFINE b == BringUp(t, e)
             u == [t EXCEPT !.client_state = "UP", !.keep_alive = t.probe]
             w == ProbeWait(b)
  <2>1. /\ b \in Notifier /\ b.notify_cb
        /\ \/ b.client_state = "UP" /\ Kept(u, b) /\ (e.alloc => b.timer)
           \/ Retries(u, b)
    BY <1>4, BringUpFact
  <2>2. Handle(w)
    BY <1>1, <1>7
  <2> HIDE DEF b
  <2>3. /\ u.client_state = "UP" /\ u.keep_alive = t.probe
        /\ u.probe_state = t.probe_state /\ u.probe = t.probe
        /\ u.min_probe = t.min_probe /\ u.wire = t.wire
        /\ u.dns = t.dns /\ u.disturbed = t.disturbed
        /\ u.restart_probing = t.restart_probing
    BY <1>4 DEF Notifier
  <2> HIDE DEF u
  <2>4. /\ w \in Notifier
        /\ w.probe_state = "WAIT" /\ w.probe_timer
        /\ w.client_state = b.client_state /\ w.timer = b.timer
        /\ w.notify_cb = b.notify_cb /\ w.dns = b.dns
        /\ w.probe_pcb = b.probe_pcb
        /\ w.restart_probing = b.restart_probing
        /\ w.keep_alive = b.keep_alive
        /\ w.probe = b.probe /\ w.min_probe = b.min_probe
        /\ w.disturbed = b.disturbed /\ w.wire = b.wire
    BY <2>1, ProbeWaitFact DEF ProbeWait, Notifier
  <2> HIDE DEF w
  <2>5. Quiet(w) /\ Searches(w)
    BY <2>1, <2>4 DEF Retries, Quiet, Searches
  <2>6. Tuned(w)
    <3>1. s.client_state = "REGISTER"
      BY <1>2, <1>7 DEF Alike
    <3>2. CASE Kept(u, b) /\ b.client_state = "UP"
      BY <1>4, <1>5, <2>3, <2>4, <3>1, <3>2 DEF Kept, Tuned
    <3>3. CASE Retries(u, b)
      BY <1>4, <1>5, <2>3, <2>4, <3>1, <3>3 DEF Retries, Tuned
    <3>4. QED
      BY <2>1, <3>2, <3>3
  <2>7. Inv' /\ np' = w
    BY <2>2, <2>4, <2>5, <2>6, InvHandle
  <2>8. np'.dns = np.dns
    BY <1>2, <1>4, <2>1, <2>3, <2>4, <2>7 DEF Kept, Retries, Alike
  <2>9. "alloc" \notin Faults => Abstract!BringUp
    BY <1>7, <2>1, <2>4, <2>7, <2>8, EnvType, Enters
    DEF Retries, Abstract!BringUp, Abstract!GoDownRetry
  <2>10. QED
    BY <2>7, <2>9
<1>8. QED
  BY <1>3, <1>6, <1>7

\* np_recv_reg_err().
LEMMA RecvRegErrStep ==
    ASSUME Inv, RecvRegErr
    PROVE  Inv' /\ Abstract!Change
<1> DEFINE s == Without("REG_RESP")
           t == Change(s)
<1>1. s \in Notifier /\ Alike(np, s) /\ Searches(s)
  BY WithoutFact DEF Messages, BySequence
<1>2. Handle(t)
  BY DEF RecvRegErr
<1> HIDE DEF s
<1>3. /\ t \in Notifier /\ t.dns = s.dns
      /\ t.client_state = "CHANGE_WAIT" /\ t.timer
      /\ t.notify_cb = s.notify_cb
      /\ Searches(t) /\ Tuned(t)
  BY <1>1, ChangeFact
<1> HIDE DEF t
<1>4. Inv' /\ np' = t
  BY <1>2, <1>3, InvHandle DEF Quiet
<1>5. Abstract!Change
  BY <1>1, <1>3, <1>4, Enters DEF Alike, Abstract!Change
<1> QED
  BY <1>4, <1>5

\* What a notifier that is not down does by itself, as the client sees it.
Working == Abstract!KeepAlive \/ Abstract!Searching \/ Abstract!Retrying

\* A handler that sets the timer, or goes down to try again.
LEMMA Works ==
    ASSUME np \in Notifier, np' \in Notifier, np.client_state # "DOWN",
           np'.dns = np.dns,
           \/ /\ np'.client_state = np.client_state
              /\ np'.notify_cb = np.notify_cb
              /\ np'.timer \/ np'.timer = np.timer
           \/ np'.client_state = "DOWN_RETRY" /\ ~np'.timer /\ np'.notify_cb
    PROVE  Working \/ UNCHANGED Abstract!npVars
<1>1. np.client_state \in {"UP", "DOWN_RETRY", "REGISTER", "CHANGE_WAIT",
                           "DNS_PASS"}
  BY DEF Notifier, ClientState
<1>2. CASE /\ np'.client_state = np.client_state
           /\ np'.notify_cb = np.notify_cb
           /\ np'.timer = np.timer
  BY <1>2 DEF Abstract!npVars
<1>3. CASE /\ np'.client_state = np.client_state
           /\ np'.notify_cb = np.notify_cb
           /\ np'.timer
  <2>1. Abstract!Enter(np.client_state, TRUE, np.notify_cb)
    BY <1>3, Enters
  <2>2. QED
    BY <1>1, <2>1
    DEF Working, Abstract!KeepAlive, Abstract!Searching, Abstract!Retrying
<1>4. CASE np'.client_state = "DOWN_RETRY" /\ ~np'.timer /\ np'.notify_cb
  <2>1. Abstract!GoDownRetry
    BY <1>4, Enters DEF Abstract!GoDownRetry
  <2>2. QED
    BY <1>1, <2>1
    DEF Working, Abstract!KeepAlive, Abstract!Searching, Abstract!Retrying
<1>5. QED
  BY <1>2, <1>3, <1>4

\* A notifier that searches may try another period.
LEMMA SearchingReady ==
    ASSUME NEW s \in Notifier, Tuned(s), s.probe_state \in {"SEND", "WAIT"}
    PROVE  Ready(s)
  BY DEF Tuned, Ready, Notifier, ClientState

\* np_recv_req_probe_resp().
LEMMA RecvReqProbeRespStep ==
    ASSUME Inv, RecvReqProbeResp
    PROVE  Inv' /\ (Working \/ UNCHANGED Abstract!npVars)
<1> DEFINE s == Without("REQ_RESP")
           u == [s EXCEPT !.err_count = 0]
           w == ProbeWait(u)
           d == DownRetryEvent(s)
<1>1. PICK error \in BOOLEAN :
        Handle(CASE np.probe_state # "SEND" -> s
                 [] np.probe_state = "SEND" /\ error -> d
                 [] OTHER -> w)
  BY DEF RecvReqProbeResp
<1>2. /\ s \in Notifier /\ Alike(np, s)
      /\ Quiet(s) /\ Searches(s) /\ Tuned(s)
  BY WithoutFact DEF Messages, ByProbeSeq
<1> HIDE DEF s
<1>3. CASE np.probe_state # "SEND"
  <2>1. Inv' /\ np' = s
    BY <1>1, <1>2, <1>3, InvHandle
  <2>2. QED
    BY <1>2, <2>1 DEF Alike, Abstract!npVars
<1>4. ASSUME np.probe_state = "SEND"
      PROVE  np.client_state # "DOWN"
  BY <1>4 DEF Inv, Quiet
<1>5. CASE np.probe_state = "SEND" /\ error
  <2>1. d \in Notifier /\ Retries(s, d)
    BY <1>2, DownRetryEventFact
  <2>2. Handle(d)
    BY <1>1, <1>5
  <2> HIDE DEF d
  <2>3. Tuned(d)
    BY <1>2, <1>5, <2>1, SearchingReady, TunedRetries DEF Alike
  <2>4. Inv' /\ np' = d
    BY <2>1, <2>2, <2>3, InvHandle DEF Retries, Quiet, Searches
  <2>5. QED
    BY <1>2, <1>4, <1>5, <2>1, <2>4, Works
    DEF Inv, TypeOK, Retries, Alike
<1>6. CASE np.probe_state = "SEND" /\ ~error
  <2>1. 0 \in 0 .. ErrLimit + 2
    BY NotifyAssumption
  <2>2. u \in Notifier
    BY <1>2, <2>1 DEF Notifier
  <2>3. w \in Notifier
    BY <2>2, ProbeWaitFact
  <2>4. /\ w.client_state = s.client_state /\ w.timer = s.timer
        /\ w.notify_cb = s.notify_cb /\ w.dns = s.dns
        /\ w.probe_state = "WAIT" /\ w.probe_timer
        /\ w.probe_pcb = s.probe_pcb /\ w.wire = s.wire
        /\ w.restart_probing = s.restart_probing
        /\ w.probe = s.probe /\ w.min_probe = s.min_probe
        /\ w.disturbed = s.disturbed
    BY <1>2 DEF ProbeWait, Notifier
  <2>5. Handle(w)
    BY <1>1, <1>6
  <2> HIDE DEF w
  <2>6. Quiet(w) /\ Searches(w) /\ Tuned(w)
    BY <1>2, <1>4, <1>6, <2>4 DEF Alike, Quiet, Searches, Tuned
  <2>7. Inv' /\ np' = w
    BY <2>3, <2>5, <2>6, InvHandle
  <2>8. QED
    BY <1>2, <2>4, <2>7 DEF Alike, Abstract!npVars
<1>7. QED
  BY <1>3, <1>5, <1>6

\* np_recv_probe(): the period a probe has come through becomes the lower bound.
LEMMA RecvProbeStep ==
    ASSUME Inv, RecvProbe
    PROVE  /\ Inv'
           /\ "alloc" \notin Faults =>
                Working \/ UNCHANGED Abstract!npVars
<1>1. PICK m \in {"NAT_PROBE", "REG_PROBE"}, e \in Env :
        /\ Received(m)
        /\ LET s == Without(m)
           IN Handle(CASE np.probe_state # "WAIT" -> s
                       [] np.probe_state = "WAIT" /\ np.probes_needed > 1 ->
                            ReqProbe([s EXCEPT !.probes_needed = @ - 1,
                                               !.probe_retries_left = MaxTry], e)
                       [] OTHER -> ReqProbeNew([s EXCEPT !.min_probe = np.probe], e))
  BY DEF RecvProbe
<1> DEFINE s == Without(m)
           c == s.probes_needed - 1
           n == [s EXCEPT !.probes_needed = c, !.probe_retries_left = MaxTry]
           q == [s EXCEPT !.min_probe = np.probe]
<1>2. /\ s \in Notifier /\ Alike(np, s)
      /\ Quiet(s) /\ Searches(s) /\ Tuned(s)
      /\ s.wire = np.wire \ {m} /\ s.probes_needed = np.probes_needed
  <2>1. m \in Messages
    BY DEF Messages, ByProbeSeq
  <2>2. s.probes_needed = np.probes_needed
    BY DEF Without, Inv, TypeOK, Notifier
  <2>3. QED
    BY <2>1, <2>2, WithoutFact
<1>3. Handle(CASE np.probe_state # "WAIT" -> s
               [] np.probe_state = "WAIT" /\ np.probes_needed > 1 ->
                    ReqProbe(n, e)
               [] OTHER -> ReqProbeNew(q, e))
  BY <1>1
<1> HIDE DEF s
<1>4. CASE np.probe_state # "WAIT"
  <2>1. Inv' /\ np' = s
    BY <1>2, <1>3, <1>4, InvHandle
  <2>2. QED
    BY <1>2, <2>1 DEF Alike, Abstract!npVars
<1>5. ASSUME np.probe_state = "WAIT"
      PROVE  np.client_state # "DOWN" /\ Ready(s)
             /\ (~np.disturbed => np.probe <= NatTimeout)
  <2>1. np.client_state # "DOWN"
    BY <1>5 DEF Inv, Quiet
  <2>2. Ready(s)
    BY <1>2, <1>5, SearchingReady DEF Alike
  <2>3. ~np.disturbed => np.probe <= NatTimeout
    BY <1>1, <1>5 DEF Received, Inv, Tuned
  <2>4. QED
    BY <2>1, <2>2, <2>3
<1>6. CASE np.probe_state = "WAIT" /\ np.probes_needed > 1
  <2>1. c \in 0 .. InitProbes /\ MaxTry \in 0 .. MaxTry
    BY <1>2, <1>6, NotifyAssumption DEF Notifier
  <2> HIDE DEF c
  <2>2. n \in Notifier
    BY <1>2, <2>1 DEF Notifier
  <2>3. Alike(s, n) /\ n.wire = s.wire
    BY <1>2 DEF Notifier, Alike
  <2> DEFINE t == ReqProbe(n, e)
  <2>4. t \in Notifier /\ (Probes(n, t) \/ Retries(n, t))
    BY <2>2, ReqProbeFact
  <2>5. Handle(t)
    BY <1>3, <1>6
  <2> HIDE DEF n, t
  <2>6. Ready(n)
    BY <1>5, <1>6, <2>3 DEF Ready, Alike
  <2>7. Tuned(t)
    BY <2>2, <2>4, <2>6, TunedProbes, TunedRetries
  <2>8. Quiet(t) /\ Searches(t)
    BY <1>2, <1>5, <1>6, <2>3, <2>4
    DEF Quiet, Searches, Probes, Retries, Alike
  <2>9. Inv' /\ np' = t
    BY <2>4, <2>5, <2>7, <2>8, InvHandle
  <2>10. Working \/ UNCHANGED Abstract!npVars
    BY <1>2, <1>5, <1>6, <2>3, <2>4, <2>9, Works
    DEF Inv, TypeOK, Probes, Retries, Alike
  <2>11. QED
    BY <2>9, <2>10
<1>7. CASE np.probe_state = "WAIT" /\ ~(np.probes_needed > 1)
  <2>1. q \in Notifier
    BY <1>2 DEF Notifier, Inv, TypeOK
  <2>2. /\ q.client_state = s.client_state /\ q.timer = s.timer
        /\ q.notify_cb = s.notify_cb /\ q.dns = s.dns
        /\ q.probe_state = s.probe_state /\ q.probe_pcb = s.probe_pcb
        /\ q.restart_probing = s.restart_probing /\ q.wire = s.wire
        /\ q.disturbed = s.disturbed /\ q.min_probe = np.probe
    BY <1>2 DEF Notifier
  <2>3. Ready(q)
    BY <1>2, <1>5, <1>7, <2>2 DEF Ready, Alike, Fits
  <2> DEFINE t == ReqProbeNew(q, e)
  <2>4. /\ t \in Notifier
        /\ t.dns = q.dns
        /\ \/ /\ t.client_state = q.client_state
              /\ t.notify_cb = q.notify_cb
              /\ e.alloc => t.timer \/ t.timer = q.timer
           \/ t.client_state = "DOWN_RETRY" /\ ~t.timer /\ t.notify_cb
        /\ Searches(t) /\ Tuned(t)
    BY <2>1, <2>3, ReqProbeNewFact
  <2>5. Handle(t)
    BY <1>3, <1>7
  <2> HIDE DEF q, t
  <2>6. Inv' /\ np' = t
    BY <1>2, <1>5, <1>7, <2>2, <2>4, <2>5, InvHandle DEF Quiet, Alike
  <2>7. "alloc" \notin Faults => Working \/ UNCHANGED Abstract!npVars
    BY <1>2, <1>5, <1>7, <2>2, <2>4, <2>6, EnvType, Works
    DEF Inv, TypeOK, Alike
  <2>8. QED
    BY <2>6, <2>7
<1>8. QED
  BY <1>4, <1>6, <1>7

\* np_recv_keep_alive_resp().
LEMMA RecvKeepAliveRespStep ==
    ASSUME Inv, RecvKeepAliveResp
    PROVE  Inv' /\ (Abstract!Registering \/ UNCHANGED Abstract!npVars)
<1> DEFINE s == Without("KA_RESP")
           u == [s EXCEPT !.disturbed = TRUE]
           i == ProbeInit(u)
           c == [s EXCEPT !.err_count = 0]
<1>1. PICK error \in {"none"} \cup ({"forget"} \cap Faults), e \in Env :
        Handle(CASE np.client_state # "UP" -> s
                 [] np.client_state = "UP" /\ error = "forget" -> Register(i, e)
                 [] OTHER -> c)
  BY DEF RecvKeepAliveResp
<1>2. /\ s \in Notifier /\ Alike(np, s)
      /\ Quiet(s) /\ Searches(s) /\ Tuned(s)
  BY WithoutFact DEF Messages, BySequence
<1> HIDE DEF s
<1>3. CASE np.client_state # "UP"
  <2>1. Inv' /\ np' = s
    BY <1>1, <1>2, <1>3, InvHandle
  <2>2. QED
    BY <1>2, <2>1 DEF Alike, Abstract!npVars
<1>4. CASE np.client_state = "UP" /\ error = "forget"
  <2>1. u \in Notifier
    BY <1>2 DEF Notifier
  <2>2. i \in Notifier
    BY <2>1, ProbeInitFact
  <2>3. /\ i.dns = s.dns /\ i.notify_cb = s.notify_cb
        /\ i.probe_state = s.probe_state /\ i.probe_timer = s.probe_timer
        /\ i.disturbed
    BY <1>2 DEF ProbeInit, Notifier
  <2> HIDE DEF i
  <2> DEFINE r == Register(i, e)
  <2>4. Searches(i) /\ Fresh(i)
    BY <1>2, <2>3 DEF Searches, Fresh
  <2>5. /\ r \in Notifier /\ r.dns = i.dns
        /\ \/ Downed(i, r) /\ r.notify_cb
           \/ /\ r.client_state = "REGISTER" /\ r.timer
              /\ r.notify_cb = i.notify_cb
        /\ Searches(r) /\ Tuned(r)
    BY <2>2, <2>4, RegisterFact
  <2>6. Handle(r)
    BY <1>1, <1>4
  <2> HIDE DEF r
  <2>7. Quiet(r)
    BY <2>5 DEF Quiet, Downed
  <2>8. Inv' /\ np' = r
    BY <2>5, <2>6, <2>7, InvHandle
  <2>9. Abstract!Registering
    BY <1>2, <1>4, <2>3, <2>5, <2>8, Enters
    DEF Alike, Downed, Abstract!Registering, Abstract!GoDown
  <2>10. QED
    BY <2>8, <2>9
<1>5. CASE np.client_state = "UP" /\ error # "forget"
  <2>1. 0 \in 0 .. ErrLimit + 2
    BY NotifyAssumption
  <2>2. c \in Notifier
    BY <1>2, <2>1 DEF Notifier
  <2>3. Alike(s, c) /\ c.wire = s.wire
    BY <1>2 DEF Notifier, Alike
  <2>4. Handle(c)
    BY <1>1, <1>5
  <2> HIDE DEF c
  <2>5. Quiet(c) /\ Searches(c) /\ Tuned(c)
    BY <1>2, <2>3 DEF Alike, Quiet, Searches, Tuned
  <2>6. Inv' /\ np' = c
    BY <2>2, <2>4, <2>5, InvHandle
  <2>7. QED
    BY <1>2, <2>3, <2>6 DEF Alike, Abstract!npVars
<1>6. QED
  BY <1>3, <1>4, <1>5

\* np_recv_probe_resp(), with what it does when ANS is reached again.
LEMMA RecvProbeRespStep ==
    ASSUME Inv, RecvProbeResp
    PROVE  /\ Inv'
           /\ "alloc" \notin Faults =>
                \/ Working \/ Abstract!BringUp
                \/ UNCHANGED Abstract!npVars
<1> DEFINE s == Without("PROBE_RESP")
<1>1. PICK e \in Env :
        /\ Received("PROBE_RESP")
        /\ LET t == [s EXCEPT !.probe_send = FALSE, !.due = e.due]
               restart == ProbeWait(ProbeInit([t EXCEPT !.probe_pcb = TRUE]))
           IN Handle(CASE ~np.probe_send -> s
                       [] np.probe_send /\ np.client_state # "DOWN_RETRY" ->
                            SetNextTimeout([t EXCEPT !.timer = FALSE])
                       [] np.probe_send /\ np.client_state = "DOWN_RETRY"
                            /\ ~np.restart_probing ->
                            BringUp([t EXCEPT !.probe_state = "IDLE"], e)
                       [] OTHER -> IF ~np.probe_pcb /\ ~e.open
                                   THEN DownEvent(t)
                                   ELSE BringUp(restart, e))
  BY DEF RecvProbeResp
<1> DEFINE t == [s EXCEPT !.probe_send = FALSE, !.due = e.due]
           f == [t EXCEPT !.timer = FALSE]
           idle == [t EXCEPT !.probe_state = "IDLE"]
           open == [t EXCEPT !.probe_pcb = TRUE]
           i == ProbeInit(open)
           restart == ProbeWait(i)
<1>2. /\ s \in Notifier /\ Alike(np, s)
      /\ Quiet(s) /\ Searches(s) /\ Tuned(s)
  BY WithoutFact DEF Messages, ByProbeSequence
<1>3. np.client_state # "DOWN"
  BY <1>1 DEF Received, Inv, Quiet
<1>4. Handle(CASE ~np.probe_send -> s
               [] np.probe_send /\ np.client_state # "DOWN_RETRY" ->
                    SetNextTimeout(f)
               [] np.probe_send /\ np.client_state = "DOWN_RETRY"
                    /\ ~np.restart_probing -> BringUp(idle, e)
               [] OTHER -> IF ~np.probe_pcb /\ ~e.open
                           THEN DownEvent(t) ELSE BringUp(restart, e))
  BY <1>1
<1> HIDE DEF s
<1>5. t \in Notifier /\ Alike(s, t) /\ t.wire = s.wire
  <2>1. t \in Notifier
    BY <1>2, EnvType DEF Notifier
  <2>2. QED
    BY <1>2, <2>1 DEF Notifier, Alike
<1> HIDE DEF t
<1>6. Quiet(t) /\ Searches(t) /\ Tuned(t)
  BY <1>2, <1>5 DEF Alike, Quiet, Searches, Tuned
<1>7. CASE ~np.probe_send
  <2>1. Inv' /\ np' = s
    BY <1>2, <1>4, <1>7, InvHandle
  <2>2. QED
    BY <1>2, <2>1 DEF Alike, Abstract!npVars
<1>8. CASE np.probe_send /\ np.client_state # "DOWN_RETRY"
  <2>1. f \in Notifier
    BY <1>5 DEF Notifier
  <2>2. /\ Kept(t, f) /\ f.client_state = t.client_state
        /\ f.notify_cb = t.notify_cb
    BY <1>5 DEF Notifier, Kept
  <2> DEFINE r == SetNextTimeout(f)
  <2>3. /\ r \in Notifier /\ Kept(f, r) /\ r.timer
        /\ r.client_state = f.client_state /\ r.notify_cb = f.notify_cb
    BY <2>1, SetNextTimeoutFact
  <2>4. Handle(r)
    BY <1>4, <1>8
  <2> HIDE DEF f, r
  <2>5. Tuned(r)
    BY <1>5, <1>6, <2>1, <2>2, <2>3, TunedKept
  <2>6. Quiet(r) /\ Searches(r)
    BY <1>2, <1>3, <1>5, <1>6, <2>2, <2>3 DEF Alike, Kept, Quiet, Searches
  <2>7. Inv' /\ np' = r
    BY <2>3, <2>4, <2>5, <2>6, InvHandle
  <2>8. Working \/ UNCHANGED Abstract!npVars
    BY <1>2, <1>3, <1>5, <2>2, <2>3, <2>7, Works
    DEF Inv, TypeOK, Kept, Alike
  <2>9. QED
    BY <2>7, <2>8
<1>9. ASSUME NEW v \in Notifier, Handle(BringUp(v, e)),
             np.client_state = "DOWN_RETRY",
             v.dns = np.dns, v.notify_cb = np.notify_cb,
             v.disturbed = np.disturbed,
             Searches(v),
             ~v.disturbed => /\ Fits(v.min_probe)
                             /\ v.probe_state \in {"IDLE", "WAIT"}
                             /\ v.probe_state = "IDLE" => Fits(v.probe)
                             /\ "REG_PROBE" \in v.wire => InitProbe <= NatTimeout
                             /\ "NAT_PROBE" \notin v.wire
                             /\ v.probe_state = "WAIT" => v.probe = InitProbe
      PROVE  Inv' /\ ("alloc" \notin Faults => Abstract!BringUp)
  <2> DEFINE u == [v EXCEPT !.client_state = "UP", !.keep_alive = v.probe]
             b == BringUp(v, e)
  <2>1. /\ b \in Notifier /\ b.notify_cb
        /\ \/ b.client_state = "UP" /\ Kept(u, b) /\ (e.alloc => b.timer)
           \/ Retries(u, b)
    BY <1>9, BringUpFact
  <2>2. Handle(b)
    BY <1>9
  <2> HIDE DEF b
  <2>3. u \in Notifier
    BY <1>9 DEF Notifier, ClientState
  <2>4. /\ u.client_state = "UP" /\ u.keep_alive = v.probe
        /\ u.probe_state = v.probe_state /\ u.probe_timer = v.probe_timer
        /\ u.probe = v.probe
        /\ u.min_probe = v.min_probe /\ u.wire = v.wire
        /\ u.dns = v.dns /\ u.disturbed = v.disturbed
    BY <1>9 DEF Notifier
  <2> HIDE DEF u
  <2>5. Tuned(u)
    BY <1>9, <2>4 DEF Tuned
  <2>6. Tuned(b)
    BY <2>1, <2>3, <2>4, <2>5, TunedKept, TunedRetries
  <2>7. Quiet(b) /\ Searches(b)
    BY <1>9, <2>1, <2>4 DEF Kept, Retries, Quiet, Searches
  <2>8. Inv' /\ np' = b
    BY <2>1, <2>2, <2>6, <2>7, InvHandle
  <2>9. np'.dns = np.dns
    BY <1>9, <2>1, <2>4, <2>8 DEF Kept, Retries
  <2>10. "alloc" \notin Faults => Abstract!BringUp
    BY <1>9, <2>1, <2>8, <2>9, EnvType, Enters
    DEF Retries, Abstract!BringUp, Abstract!GoDownRetry
  <2>11. QED
    BY <2>8, <2>10
<1>10. CASE np.probe_send /\ np.client_state = "DOWN_RETRY"
            /\ ~np.restart_probing
  <2>1. idle \in Notifier
    BY <1>5 DEF Notifier, ProbeState
  <2>2. /\ idle.dns = t.dns /\ idle.notify_cb = t.notify_cb
        /\ idle.disturbed = t.disturbed /\ idle.probe_state = "IDLE"
        /\ idle.min_probe = t.min_probe /\ idle.probe = t.probe
        /\ idle.wire = t.wire
    BY <1>5 DEF Notifier
  <2>3. Handle(BringUp(idle, e))
    BY <1>4, <1>10
  <2> HIDE DEF idle
  <2>4. Searches(idle)
    BY <2>2 DEF Searches
  <2>5. ~idle.disturbed =>
            /\ Fits(idle.min_probe) /\ Fits(idle.probe)
            /\ "REG_PROBE" \in idle.wire => InitProbe <= NatTimeout
            /\ "NAT_PROBE" \notin idle.wire
    BY <1>2, <1>5, <1>6, <1>10, <2>2 DEF Alike, Tuned
  <2>6. QED
    BY <1>2, <1>5, <1>9, <1>10, <2>1, <2>2, <2>3, <2>4, <2>5 DEF Alike
<1>11. CASE np.probe_send /\ np.client_state = "DOWN_RETRY"
            /\ np.restart_probing /\ ~np.probe_pcb /\ ~e.open
  <2> DEFINE d == DownEvent(t)
  <2>1. d \in Notifier /\ Downed(t, d) /\ d.notify_cb
    BY <1>5, DownEventFact
  <2>2. Handle(d)
    BY <1>4, <1>11
  <2> HIDE DEF d
  <2>3. Quiet(d) /\ Searches(d) /\ Tuned(d)
    BY <1>5, <1>6, <2>1, TunedDowned DEF Downed, Quiet, Searches
  <2>4. Inv' /\ np' = d
    BY <2>1, <2>2, <2>3, InvHandle
  <2>5. Abstract!Retrying
    BY <1>2, <1>5, <1>11, <2>1, <2>4, Enters
    DEF Alike, Downed, Abstract!Retrying, Abstract!GoDown
  <2>6. QED
    BY <2>4, <2>5 DEF Working
<1>12. CASE np.probe_send /\ np.client_state = "DOWN_RETRY"
            /\ np.restart_probing /\ ~(~np.probe_pcb /\ ~e.open)
  <2>1. open \in Notifier
    BY <1>5 DEF Notifier
  <2>2. i \in Notifier
    BY <2>1, ProbeInitFact
  <2>3. restart \in Notifier
    BY <2>2, ProbeWaitFact
  <2>4. /\ restart.dns = t.dns /\ restart.notify_cb = t.notify_cb
        /\ restart.disturbed = t.disturbed /\ restart.probe_state = "WAIT"
        /\ restart.probe_timer
        /\ restart.min_probe = MinProbe /\ restart.probe = InitProbe
        /\ restart.wire = t.wire
    BY <1>5 DEF ProbeWait, ProbeInit, Notifier
  <2>5. Handle(BringUp(restart, e))
    BY <1>4, <1>12
  <2> HIDE DEF restart
  <2>6. Searches(restart)
    BY <2>4 DEF Searches
  <2>7. ~restart.disturbed =>
            /\ Fits(restart.min_probe)
            /\ "REG_PROBE" \in restart.wire => InitProbe <= NatTimeout
            /\ "NAT_PROBE" \notin restart.wire
    BY <1>2, <1>5, <1>6, <1>12, <2>4, NotifyAssumption
    DEF Alike, Tuned, Fits
  <2>8. QED
    BY <1>2, <1>5, <1>9, <1>12, <2>3, <2>4, <2>5, <2>6, <2>7 DEF Alike
<1>13. np.restart_probing \in BOOLEAN
  BY DEF Inv, TypeOK, Notifier
<1>14. QED
  BY <1>7, <1>8, <1>10, <1>11, <1>12, <1>13

\* np_recv_event().
LEMMA RecvEventStep ==
    ASSUME Inv, RecvEvent
    PROVE  Inv' /\ Abstract!Notified
<1> DEFINE t == Post(np)
<1>1. np \in Notifier /\ np.pcb /\ np.client_state # "DOWN" /\ Handle(t)
  BY DEF RecvEvent, Inv, TypeOK, Quiet
<1>2. t \in Notifier
  BY <1>1, PostFact
<1>3. /\ t.client_state = np.client_state /\ t.timer = np.timer
      /\ t.notify_cb /\ t.dns = np.dns
      /\ Searches(t) /\ Tuned(t) /\ Quiet(t)
  <2>1. /\ t.client_state = np.client_state /\ t.timer = np.timer
        /\ t.notify_cb /\ t.dns = np.dns
        /\ t.probe_state = np.probe_state /\ t.probe_timer = np.probe_timer
        /\ t.probe_pcb = np.probe_pcb /\ t.wire = np.wire
        /\ t.restart_probing = np.restart_probing
        /\ t.keep_alive = np.keep_alive
        /\ t.probe = np.probe /\ t.min_probe = np.min_probe
        /\ t.disturbed = np.disturbed /\ t.pcb = np.pcb
    BY <1>1 DEF Post, Notifier
  <2> HIDE DEF t
  <2>2. QED
    BY <2>1 DEF Inv, Searches, Tuned, Quiet
<1> HIDE DEF t
<1>4. Inv' /\ np' = t
  BY <1>1, <1>2, <1>3, InvHandle
<1>5. QED
  BY <1>1, <1>2, <1>3, <1>4, Enters DEF Abstract!Notified

\* np_recv() of what does not decrypt, or of an error.
LEMMA RecvGarbageStep ==
    ASSUME Inv, RecvGarbage
    PROVE  Inv' /\ (Abstract!Change \/ UNCHANGED Abstract!npVars)
<1>1. np \in Notifier /\ Quiet(np) /\ Searches(np) /\ Tuned(np)
  BY DEF Inv, TypeOK
<1>2. CASE Handle(Change(np))
  <2> DEFINE t == Change(np)
  <2>1. /\ t \in Notifier /\ t.dns = np.dns
        /\ t.client_state = "CHANGE_WAIT" /\ t.timer
        /\ t.notify_cb = np.notify_cb
        /\ Searches(t) /\ Tuned(t)
    BY <1>1, ChangeFact
  <2> HIDE DEF t
  <2>2. Inv' /\ np' = t
    BY <1>2, <2>1, InvHandle DEF Quiet, t
  <2>3. QED
    BY <2>1, <2>2, Enters DEF Abstract!Change
<1>3. CASE Handle(Error(np))
  <2> DEFINE t == Error(np)
  <2>1. /\ t \in Notifier /\ t.dns = np.dns
        /\ t.notify_cb = np.notify_cb
        /\ \/ t.client_state = np.client_state /\ t.timer = np.timer
              /\ t.pcb = np.pcb /\ t.wire = np.wire
              /\ t.probe_state = np.probe_state
           \/ t.client_state = "CHANGE_WAIT" /\ t.timer
        /\ Searches(t) /\ Tuned(t)
    BY <1>1, ErrorFact
  <2> HIDE DEF t
  <2>2. Quiet(t)
    BY <1>1, <2>1 DEF Quiet
  <2>3. Inv' /\ np' = t
    BY <1>3, <2>1, <2>2, InvHandle DEF t
  <2>4. QED
    BY <2>1, <2>3, Enters DEF Abstract!Change, Abstract!npVars
<1>4. QED
  BY <1>2, <1>3 DEF RecvGarbage

\* np_probe_timeout().
LEMMA ProbeTimeoutStep ==
    ASSUME Inv, ProbeTimeout
    PROVE  /\ Inv'
           /\ "alloc" \notin Faults =>
                Working \/ UNCHANGED Abstract!npVars
<1> DEFINE s == [np EXCEPT !.probe_timer = FALSE]
           q == [s EXCEPT !.max_probe = np.probe]
<1>1. PICK e \in Env :
        Handle(CASE np.probe_state = "SEND" -> ReqProbe(s, e)
                 [] np.probe_state = "WAIT" -> ReqProbeNew(q, e)
                 [] OTHER -> s)
  BY DEF ProbeTimeout
<1>2. np \in Notifier /\ Quiet(np) /\ Tuned(np)
  BY DEF Inv, TypeOK
<1>3. s \in Notifier /\ q \in Notifier
  BY <1>2 DEF Notifier
<1>4. \A x \in {s, q} :
        /\ x.client_state = np.client_state /\ x.timer = np.timer
        /\ x.notify_cb = np.notify_cb /\ x.dns = np.dns /\ x.pcb = np.pcb
        /\ x.probe_state = np.probe_state /\ x.probe_pcb = np.probe_pcb
        /\ x.restart_probing = np.restart_probing
        /\ x.keep_alive = np.keep_alive /\ x.wire = np.wire
        /\ x.probe = np.probe /\ x.min_probe = np.min_probe
        /\ x.disturbed = np.disturbed
  BY <1>2, ZenonT(60) DEF Notifier
<1> HIDE DEF s, q
<1>5. Quiet(s) /\ Tuned(s)
  BY <1>2, <1>4 DEF Quiet, Tuned
<1>6. ASSUME np.probe_state \in {"SEND", "WAIT"}
      PROVE  Ready(s) /\ Ready(q) /\ np.client_state # "DOWN"
  <2>1. Ready(s)
    BY <1>3, <1>4, <1>5, <1>6, SearchingReady
  <2>2. Ready(q)
    BY <1>4, <2>1 DEF Ready
  <2>3. QED
    BY <1>2, <1>6, <2>1, <2>2 DEF Quiet
<1>7. CASE np.probe_state = "SEND"
  <2> DEFINE t == ReqProbe(s, e)
  <2>1. t \in Notifier /\ (Probes(s, t) \/ Retries(s, t))
    BY <1>3, ReqProbeFact
  <2>2. Handle(t)
    BY <1>1, <1>7
  <2> HIDE DEF t
  <2>3. Tuned(t)
    BY <1>3, <1>6, <1>7, <2>1, TunedProbes, TunedRetries
  <2>4. Quiet(t) /\ Searches(t)
    BY <1>4, <1>6, <1>7, <2>1 DEF Quiet, Searches, Probes, Retries
  <2>5. Inv' /\ np' = t
    BY <2>1, <2>2, <2>3, <2>4, InvHandle
  <2>6. QED
    BY <1>2, <1>4, <1>6, <1>7, <2>1, <2>5, Works DEF Probes, Retries
<1>8. CASE np.probe_state = "WAIT"
  <2> DEFINE t == ReqProbeNew(q, e)
  <2>1. /\ t \in Notifier
        /\ t.dns = q.dns
        /\ \/ /\ t.client_state = q.client_state
              /\ t.notify_cb = q.notify_cb
              /\ e.alloc => t.timer \/ t.timer = q.timer
           \/ t.client_state = "DOWN_RETRY" /\ ~t.timer /\ t.notify_cb
        /\ Searches(t) /\ Tuned(t)
    BY <1>3, <1>6, <1>8, ReqProbeNewFact
  <2>2. Handle(t)
    BY <1>1, <1>8
  <2> HIDE DEF t
  <2>3. Inv' /\ np' = t
    BY <1>4, <1>6, <1>8, <2>1, <2>2, InvHandle DEF Quiet
  <2>4. "alloc" \notin Faults => Working \/ UNCHANGED Abstract!npVars
    BY <1>2, <1>4, <1>6, <1>8, <2>1, <2>3, EnvType, Works
  <2>5. QED
    BY <2>3, <2>4
<1>9. CASE np.probe_state \notin {"SEND", "WAIT"}
  <2>1. Searches(s)
    BY <1>4, <1>9 DEF Searches
  <2>2. Inv' /\ np' = s
    BY <1>1, <1>3, <1>5, <1>9, <2>1, InvHandle
  <2>3. QED
    BY <1>4, <2>2 DEF Abstract!npVars
<1>10. QED
  BY <1>7, <1>8, <1>9

\* np_timeout().
LEMMA TimeoutStep ==
    ASSUME Inv, Timeout
    PROVE  /\ Inv'
           /\ "alloc" \notin Faults =>
                \/ Working \/ Abstract!Registering \/ Abstract!ChangeAsked
                \/ Abstract!Leftover
<1> DEFINE s == [np EXCEPT !.timer = FALSE]
           l == s.retries_left - 1
           g == [s EXCEPT !.retries_left = l]
<1>1. PICK e \in Env :
        /\ np.timer
        /\ Handle(CASE np.client_state = "REGISTER" ->
                            IF np.retries_left = 0 THEN DownEvent(s)
                            ELSE Register(g, e)
                    [] np.client_state = "CHANGE_WAIT" -> Post(s)
                    [] np.client_state = "UP" -> SendKeepAlive(s, e)
                    [] np.client_state = "DOWN_RETRY" ->
                            IF np.probe_send THEN SendKeepAlive(s, e)
                            ELSE SetServer(s, np.name, e)
                    [] OTHER -> s)
  BY DEF Timeout
<1>2. np \in Notifier /\ Quiet(np) /\ Searches(np) /\ Tuned(np)
  BY DEF Inv, TypeOK
<1>3. s \in Notifier
  BY <1>2 DEF Notifier
<1>4. /\ s.client_state = np.client_state /\ ~s.timer
      /\ s.notify_cb = np.notify_cb /\ s.dns = np.dns /\ s.pcb = np.pcb
      /\ s.probe_state = np.probe_state /\ s.probe_timer = np.probe_timer
      /\ s.probe_pcb = np.probe_pcb
      /\ s.restart_probing = np.restart_probing
      /\ s.keep_alive = np.keep_alive /\ s.wire = np.wire
      /\ s.probe = np.probe /\ s.min_probe = np.min_probe
      /\ s.disturbed = np.disturbed /\ s.retries_left = np.retries_left
  BY <1>2 DEF Notifier
<1> HIDE DEF s
<1>5. Quiet(s) /\ Searches(s) /\ Tuned(s)
  BY <1>2, <1>4 DEF Quiet, Searches, Tuned
<1>6. CASE np.client_state = "REGISTER" /\ np.retries_left = 0
  <2> DEFINE d == DownEvent(s)
  <2>1. d \in Notifier /\ Downed(s, d) /\ d.notify_cb
    BY <1>3, DownEventFact
  <2>2. Handle(d)
    BY <1>1, <1>6
  <2> HIDE DEF d
  <2>3. Quiet(d) /\ Searches(d) /\ Tuned(d)
    BY <1>3, <1>5, <2>1, TunedDowned DEF Downed, Quiet, Searches
  <2>4. Inv' /\ np' = d
    BY <2>1, <2>2, <2>3, InvHandle
  <2>5. Abstract!Registering
    BY <1>4, <1>6, <2>1, <2>4, Enters
    DEF Downed, Abstract!Registering, Abstract!GoDown
  <2>6. QED
    BY <2>4, <2>5
<1>7. CASE np.client_state = "REGISTER" /\ np.retries_left # 0
  <2>1. l \in 0 .. MaxTry + 1
    BY <1>3, <1>4, <1>7, NotifyAssumption DEF Notifier
  <2> HIDE DEF l
  <2>2. g \in Notifier
    BY <1>3, <2>1 DEF Notifier
  <2>3. Alike(s, g) /\ g.wire = s.wire
    BY <1>3 DEF Notifier, Alike
  <2> DEFINE r == Register(g, e)
  <2>4. Handle(r)
    BY <1>1, <1>7
  <2> HIDE DEF g
  <2>5. Fresh(g) /\ Searches(g)
    BY <1>4, <1>5, <1>7, <2>3 DEF Alike, Fresh, Tuned, Searches
  <2>6. /\ r \in Notifier /\ r.dns = g.dns
        /\ \/ Downed(g, r) /\ r.notify_cb
           \/ /\ r.client_state = "REGISTER" /\ r.timer
              /\ r.notify_cb = g.notify_cb
        /\ Searches(r) /\ Tuned(r)
    BY <2>2, <2>5, RegisterFact
  <2> HIDE DEF r
  <2>7. Inv' /\ np' = r
    BY <2>4, <2>6, InvHandle DEF Quiet, Downed
  <2>8. Abstract!Registering
    BY <1>4, <1>7, <2>3, <2>6, <2>7, Enters
    DEF Downed, Alike, Abstract!Registering, Abstract!GoDown
  <2>9. QED
    BY <2>7, <2>8
<1>8. CASE np.client_state = "CHANGE_WAIT"
  <2> DEFINE t == Post(s)
  <2>1. t \in Notifier
    BY <1>3, PostFact
  <2>2. /\ t.wire = s.wire /\ t.min_probe = s.min_probe
        /\ t.client_state = s.client_state /\ t.timer = s.timer
        /\ t.dns = s.dns /\ t.notify_cb
        /\ t.disturbed = s.disturbed
        /\ t.probe_state = s.probe_state /\ t.probe_timer = s.probe_timer
    BY <1>3 DEF Post, Notifier
  <2>3. Handle(t)
    BY <1>1, <1>8
  <2> HIDE DEF t
  <2>4. Quiet(t) /\ Searches(t) /\ Tuned(t)
    BY <1>4, <1>5, <1>8, <2>2 DEF Quiet, Searches, Tuned
  <2>5. Inv' /\ np' = t
    BY <2>1, <2>3, <2>4, InvHandle
  <2>6. Abstract!ChangeAsked
    BY <1>1, <1>4, <1>8, <2>1, <2>2, <2>5, Enters DEF Abstract!ChangeAsked
  <2>7. QED
    BY <2>5, <2>6
<1>9. CASE \/ np.client_state = "UP"
           \/ np.client_state = "DOWN_RETRY" /\ np.probe_send
  <2> DEFINE t == SendKeepAlive(s, e)
  <2>1. /\ t \in Notifier
        /\ \/ /\ Kept(s, t)
              /\ t.client_state = s.client_state
              /\ t.notify_cb = s.notify_cb
              /\ IF e.alloc THEN t.timer ELSE t.timer = s.timer
           \/ Retries(s, t)
    BY <1>3, SendKeepAliveFact
  <2>2. Handle(t)
    BY <1>1, <1>9
  <2> HIDE DEF t
  <2>3. Tuned(t)
    BY <1>3, <1>4, <1>5, <1>9, <2>1, TunedKept, TunedRetries
  <2>4. Quiet(t) /\ Searches(t)
    BY <1>4, <1>5, <1>9, <2>1 DEF Quiet, Searches, Kept, Retries
  <2>5. Inv' /\ np' = t
    BY <2>1, <2>2, <2>3, <2>4, InvHandle
  <2>6. ASSUME "alloc" \notin Faults
        PROVE  Abstract!KeepAlive \/ Abstract!Retrying
    <3>1. np'.dns = np.dns
      BY <1>4, <2>1, <2>5 DEF Kept, Retries
    <3>2. \/ Abstract!Enter(np.client_state, TRUE, np.notify_cb)
          \/ Abstract!GoDownRetry
      BY <1>4, <2>1, <2>5, <2>6, EnvType, Enters
      DEF Retries, Abstract!GoDownRetry
    <3>3. QED
      BY <1>9, <3>1, <3>2 DEF Abstract!KeepAlive, Abstract!Retrying
  <2>7. QED
    BY <2>5, <2>6 DEF Working
<1>10. CASE np.client_state = "DOWN_RETRY" /\ ~np.probe_send
  <2> DEFINE t == SetServer(s, np.name, e)
  <2>1. np.name \in Server \cup {NoServer}
    BY <1>2 DEF Notifier
  <2>2. /\ t \in Notifier
        /\ \/ /\ t.dns # NoServer
              /\ t.client_state = s.client_state /\ t.timer = s.timer
              /\ t.notify_cb = s.notify_cb
              /\ t.pcb = s.pcb /\ t.wire = s.wire
              /\ t.probe_state = s.probe_state
           \/ /\ s.dns = NoServer /\ t.dns = NoServer
              /\ Downed(s, t) /\ t.notify_cb
           \/ /\ s.dns = NoServer /\ t.dns = NoServer
              /\ s.client_state = "DOWN_RETRY"
              /\ t.client_state = "DOWN_RETRY" /\ t.timer
              /\ t.notify_cb = s.notify_cb
        /\ Searches(t) /\ Tuned(t)
    BY <1>3, <1>5, <2>1, SetServerFact
  <2>3. Handle(t)
    BY <1>1, <1>10
  <2> HIDE DEF t
  <2>4. Inv' /\ np' = t
    BY <1>4, <1>10, <2>2, <2>3, InvHandle DEF Quiet, Downed
  <2>5. Abstract!Retrying
    BY <1>1, <1>4, <1>10, <2>2, <2>4, Enters
    DEF Downed, Abstract!Retrying, Abstract!GoDown
  <2>6. QED
    BY <2>4, <2>5 DEF Working
<1>11. CASE np.client_state \in {"DOWN", "DNS_PASS"}
  <2>1. Inv' /\ np' = s
    BY <1>1, <1>3, <1>5, <1>11, InvHandle
  <2>2. Abstract!Leftover
    BY <1>1, <1>3, <1>4, <1>11, <2>1, Enters DEF Abstract!Leftover
  <2>3. QED
    BY <2>1, <2>2
<1>12. np.client_state \in ClientState /\ np.probe_send \in BOOLEAN
  BY <1>2 DEF Notifier
<1>13. QED
  BY <1>6, <1>7, <1>8, <1>9, <1>10, <1>11, <1>12 DEF ClientState

\* The search and the sockets are left as they are.
Searched(s, t) ==
    /\ t.notify_cb = s.notify_cb /\ t.pcb = s.pcb
    /\ t.probe_state = s.probe_state /\ t.probe_timer = s.probe_timer
    /\ t.probe_pcb = s.probe_pcb /\ t.restart_probing = s.restart_probing
    /\ t.keep_alive = s.keep_alive /\ t.wire = s.wire
    /\ t.probe = s.probe /\ t.min_probe = s.min_probe
    /\ t.disturbed = s.disturbed

\* The invariants of the search are about these fields.
LEMMA SearchedKept ==
    ASSUME NEW s, NEW t, Searched(s, t), t.client_state = s.client_state
    PROVE  /\ Quiet(s) => Quiet(t)
           /\ Searches(s) => Searches(t)
           /\ Tuned(s) => Tuned(t)
  BY DEF Searched, Quiet, Searches, Tuned

\* np_dns_cb().
LEMMA DnsCbStep ==
    ASSUME Inv, DnsCb
    PROVE  Inv' /\ Abstract!Resolved
<1> DEFINE s == [np EXCEPT !.dns = NoServer]
           t == [s EXCEPT !.addr = np.dns]
           dt == Down(t)
           v == [s EXCEPT !.timer = TRUE]
           w == [t EXCEPT !.client_state = "DNS_PASS"]
           retry == np.client_state = "DOWN_RETRY"
<1>1. PICK e \in Env, found \in BOOLEAN :
        /\ np.dns # NoServer
        /\ Handle(CASE np.client_state \in {"REGISTER", "UP"} -> s
                    [] retry /\ ~found -> v
                    [] retry /\ found ->
                        SetupProbeSend(IF np.addr # np.dns
                            THEN [dt EXCEPT !.pcb = e.open,
                                            !.probe_pcb = e.open,
                                            !.client_state = "DOWN_RETRY"]
                            ELSE t)
                    [] OTHER -> IF found THEN Post(w) ELSE s)
  BY DEF DnsCb, OpenPcbs
<1> DEFINE moved == [dt EXCEPT !.pcb = e.open, !.probe_pcb = e.open,
                               !.client_state = "DOWN_RETRY"]
<1>2. np \in Notifier /\ Quiet(np) /\ Searches(np) /\ Tuned(np)
  BY DEF Inv, TypeOK
<1>3. s \in Notifier /\ t \in Notifier /\ v \in Notifier /\ w \in Notifier
  BY <1>2 DEF Notifier, ClientState
<1>4. /\ Searched(np, s) /\ Searched(np, t) /\ Searched(np, v)
      /\ Searched(np, w)
      /\ s.dns = NoServer /\ t.dns = NoServer /\ v.dns = NoServer
      /\ w.dns = NoServer
  BY <1>2 DEF Notifier, Searched
<1>5. /\ s.client_state = np.client_state /\ s.timer = np.timer
      /\ t.client_state = np.client_state /\ t.timer = np.timer
      /\ v.client_state = np.client_state /\ v.timer
      /\ w.client_state = "DNS_PASS" /\ w.timer = np.timer
  BY <1>2 DEF Notifier
<1>6. /\ dt \in Notifier /\ Downed(t, dt) /\ dt.notify_cb = t.notify_cb
      /\ dt.probe = t.probe /\ dt.restart_probing = t.restart_probing
  BY <1>3, DownFact
<1> HIDE DEF s, t, v, w, dt
<1>7. /\ Quiet(s) /\ Searches(s) /\ Tuned(s)
      /\ Quiet(t) /\ Searches(t) /\ Tuned(t)
      /\ Quiet(v) /\ Searches(v) /\ Tuned(v)
  BY <1>2, <1>4, <1>5, SearchedKept
<1>9. CASE np.client_state \in {"REGISTER", "UP"}
  <2>1. Inv' /\ np' = s
    BY <1>1, <1>3, <1>7, <1>9, InvHandle
  <2>2. QED
    BY <1>1, <1>4, <1>5, <1>9, <2>1 DEF Searched, Abstract!Resolved
<1>10. CASE retry /\ ~found
  <2>1. Inv' /\ np' = v
    BY <1>1, <1>3, <1>7, <1>10, InvHandle
  <2>2. Abstract!Enter(np.client_state, TRUE, np.notify_cb)
    BY <1>3, <1>4, <1>5, <2>1, Enters DEF Searched
  <2>3. QED
    BY <1>1, <1>4, <1>10, <2>1, <2>2 DEF Abstract!Resolved
<1>11. CASE retry /\ found
  <2> DEFINE x == IF np.addr # np.dns THEN moved ELSE t
             p == SetupProbeSend(x)
  <2>1. /\ moved \in Notifier
        /\ moved.client_state = "DOWN_RETRY" /\ moved.dns = dt.dns
        /\ moved.notify_cb = dt.notify_cb
        /\ moved.probe_state = dt.probe_state
        /\ moved.restart_probing = dt.restart_probing
        /\ moved.probe = dt.probe /\ moved.min_probe = dt.min_probe
        /\ moved.wire = dt.wire /\ moved.disturbed = dt.disturbed
    <3>1. moved \in Notifier
      BY <1>6, EnvType DEF Notifier, ClientState
    <3>2. QED
      BY <1>6, <3>1 DEF Notifier
  <2> HIDE DEF moved
  <2>2. Quiet(moved) /\ Searches(moved) /\ Tuned(moved)
    BY <1>2, <1>4, <1>6, <1>11, <2>1
    DEF Quiet, Searches, Tuned, Downed, Searched
  <2>3. /\ x \in Notifier
        /\ x.client_state = np.client_state /\ x.dns = NoServer
        /\ x.notify_cb = np.notify_cb
        /\ Searches(x) /\ Tuned(x)
    BY <1>3, <1>4, <1>5, <1>6, <1>7, <1>11, <2>1, <2>2
    DEF Downed, Searched
  <2>4. Handle(p)
    BY <1>1, <1>11 DEF moved
  <2> HIDE DEF x
  <2>5. /\ p \in Notifier /\ Kept(x, p) /\ p.timer
        /\ p.client_state = x.client_state /\ p.notify_cb = x.notify_cb
    BY <2>3, SetupProbeSendFact
  <2> HIDE DEF p
  <2>6. Tuned(p)
    BY <2>3, <2>5, TunedKept
  <2>7. Quiet(p) /\ Searches(p)
    BY <1>11, <2>3, <2>5 DEF Kept, Quiet, Searches
  <2>8. Inv' /\ np' = p
    BY <2>4, <2>5, <2>6, <2>7, InvHandle
  <2>9. Abstract!Enter(np.client_state, TRUE, np.notify_cb)
    BY <2>3, <2>5, <2>8, Enters
  <2>10. QED
    BY <1>1, <1>11, <2>3, <2>5, <2>8, <2>9 DEF Kept, Abstract!Resolved
<1>12. CASE np.client_state \in {"DOWN", "DNS_PASS", "CHANGE_WAIT"} /\ ~found
  <2>1. Inv' /\ np' = s
    BY <1>1, <1>3, <1>7, <1>12, InvHandle
  <2>2. QED
    BY <1>1, <1>4, <1>5, <1>12, <2>1 DEF Searched, Abstract!Resolved
<1>13. CASE np.client_state \in {"DOWN", "DNS_PASS", "CHANGE_WAIT"} /\ found
  <2> DEFINE p == Post(w)
  <2>1. p \in Notifier
    BY <1>3, PostFact
  <2>2. /\ p.client_state = w.client_state /\ p.timer = w.timer
        /\ p.notify_cb /\ p.dns = w.dns
        /\ p.probe_state = w.probe_state /\ p.probe_timer = w.probe_timer
        /\ p.probe = w.probe /\ p.min_probe = w.min_probe
        /\ p.wire = w.wire /\ p.disturbed = w.disturbed
    BY <1>3 DEF Post, Notifier
  <2>3. Handle(p)
    BY <1>1, <1>13
  <2> HIDE DEF p
  <2>4. Quiet(p) /\ Searches(p) /\ Tuned(p)
    BY <1>2, <1>4, <1>5, <1>13, <2>2
    DEF Quiet, Searches, Tuned, Searched
  <2>5. Inv' /\ np' = p
    BY <2>1, <2>3, <2>4, InvHandle
  <2>6. Abstract!Enter("DNS_PASS", np.timer, TRUE)
    BY <1>5, <2>1, <2>2, <2>5, Enters
  <2>7. QED
    BY <1>1, <1>4, <1>13, <2>2, <2>5, <2>6 DEF Abstract!Resolved
<1>14. np.client_state \in ClientState
  BY <1>2 DEF Notifier
<1>15. QED
  BY <1>9, <1>10, <1>11, <1>12, <1>13, <1>14 DEF ClientState

\* client_notify_cb(): what it leaves np_up on is alive.
LEMMA ClientNotifyCbStep ==
    ASSUME Inv, ClientNotifyCb
    PROVE  /\ Inv' /\ (Abstract!EventGet \/ Abstract!Start)
           /\ Timed => Timed' /\ CountsOnLive'
<1> DEFINE s == [np EXCEPT !.notify_cb = FALSE]
           c == np.timer \/ np.client_state = "DOWN_RETRY"
           r == [s EXCEPT !.timer = c]
<1>1. np \in Notifier /\ Quiet(np) /\ Searches(np) /\ Tuned(np) /\ TypeOK
  BY DEF Inv, TypeOK
<1>2. c \in BOOLEAN /\ (~c => ~np.timer)
  BY <1>1 DEF Notifier
<1>3. s.timer = np.timer /\ s \in Notifier
  BY <1>1 DEF Notifier
<1> HIDE DEF c
<1>4. r \in Notifier
  BY <1>2, <1>3 DEF Notifier
<1>5. /\ s.client_state = np.client_state /\ ~s.notify_cb
      /\ s.dns = np.dns
      /\ r.client_state = np.client_state /\ r.timer = c /\ ~r.notify_cb
      /\ r.dns = np.dns
  BY <1>1 DEF Notifier
<1>6. /\ s.pcb = np.pcb /\ s.wire = np.wire
      /\ s.probe_state = np.probe_state /\ s.probe_timer = np.probe_timer
      /\ s.probe_pcb = np.probe_pcb
      /\ s.restart_probing = np.restart_probing
      /\ s.keep_alive = np.keep_alive
      /\ s.probe = np.probe /\ s.min_probe = np.min_probe
      /\ s.disturbed = np.disturbed
      /\ Searched(s, r)
  BY <1>1 DEF Notifier, Searched
<1>7. PICK e \in Env :
        /\ CASE np.client_state \in {"DOWN", "DOWN_RETRY", "CHANGE_WAIT"} ->
                  /\ np' = r
                  /\ np_up' = FALSE /\ np_started' = FALSE
             [] np.client_state = "DNS_PASS" ->
                  /\ np' = IF np_started THEN s ELSE Start(s, e)
                  /\ np_started' = TRUE /\ UNCHANGED np_up
             [] OTHER ->
                  /\ np' = s
                  /\ np_up' = TRUE /\ UNCHANGED np_started
        /\ UNCHANGED <<fetch, ads_valid>>
  BY <1>3 DEF ClientNotifyCb, c
<1> HIDE DEF r, s
<1>8. /\ Quiet(s) /\ Searches(s) /\ Tuned(s)
      /\ Quiet(r) /\ Searches(r) /\ Tuned(r)
  <2>1. Quiet(s) /\ Searches(s) /\ Tuned(s)
    BY <1>1, <1>5, <1>6 DEF Quiet, Searches, Tuned
  <2>2. QED
    BY <1>5, <1>6, <2>1, SearchedKept
<1>9. CASE np.client_state \in {"DOWN", "DOWN_RETRY", "CHANGE_WAIT"}
  <2>1. np' = r /\ np_up' = FALSE /\ np_started' = FALSE
        /\ UNCHANGED <<fetch, ads_valid>>
    BY <1>7, <1>9
  <2>2. Inv'
    BY <1>1, <1>4, <1>8, <2>1, InvNext DEF TypeOK
  <2>3. Abstract!EventGet
    BY <1>4, <1>5, <2>1 DEF Abstract!EventGet, Abstract!Enter, Notifier, c
  <2>4. Timed' /\ CountsOnLive'
    BY <1>5, <1>9, <2>1 DEF Timed, CountsOnLive
  <2>5. QED
    BY <2>2, <2>3, <2>4
<1>10. CASE np.client_state = "DNS_PASS" /\ np_started
  <2>1. np' = s /\ np_up' = np_up /\ np_started' = TRUE
        /\ UNCHANGED <<fetch, ads_valid>>
    BY <1>7, <1>10
  <2>2. Inv'
    BY <1>1, <1>3, <1>8, <2>1, InvNext DEF TypeOK
  <2>3. Abstract!EventGet
    BY <1>1, <1>3, <1>5, <1>10, <2>1
    DEF Abstract!EventGet, Abstract!Enter, Notifier
  <2>4. Timed' /\ CountsOnLive'
    BY <1>5, <1>10, <2>1 DEF Timed, CountsOnLive
  <2>5. QED
    BY <2>2, <2>3, <2>4
<1>11. CASE np.client_state = "DNS_PASS" /\ ~np_started
  <2> DEFINE t == Start(s, e)
  <2>1. np' = t /\ np_up' = np_up /\ np_started' = TRUE
        /\ UNCHANGED <<fetch, ads_valid>>
    BY <1>7, <1>11
  <2>2. /\ t \in Notifier /\ t.dns = s.dns
        /\ \/ t = s
           \/ t.client_state = "DOWN" /\ ~t.timer /\ t.notify_cb /\ Quiet(t)
           \/ /\ t.client_state = "REGISTER" /\ t.timer
              /\ t.notify_cb = s.notify_cb
        /\ Searches(t) /\ Tuned(t)
    BY <1>3, <1>8, StartFact
  <2> HIDE DEF t
  <2>3. Quiet(t)
    BY <1>8, <2>2 DEF Quiet
  <2>4. Inv'
    BY <1>1, <2>1, <2>2, <2>3, InvNext DEF TypeOK
  <2>5. Abstract!EventGet \/ Abstract!Start
    <3>1. CASE t = s
      BY <1>1, <1>3, <1>5, <1>11, <2>1, <3>1
      DEF Abstract!EventGet, Abstract!Enter, Notifier
    <3>2. CASE t.client_state = "DOWN" /\ ~t.timer /\ t.notify_cb
      BY <1>5, <2>1, <2>2, <3>2, Enters
      DEF Abstract!Start, Abstract!GoDown
    <3>3. CASE t.client_state = "REGISTER" /\ t.timer
               /\ t.notify_cb = s.notify_cb
      <4>1. t.timer = TRUE /\ t.notify_cb = FALSE
        BY <1>5, <2>2, <3>3 DEF Notifier
      <4>2. QED
        BY <1>5, <2>1, <2>2, <3>3, <4>1 DEF Abstract!Start, Abstract!Enter
    <3>4. QED
      BY <2>2, <3>1, <3>2, <3>3
  <2>6. Timed' /\ CountsOnLive'
    BY <1>5, <1>11, <2>1, <2>2 DEF Timed, CountsOnLive
  <2>7. QED
    BY <2>4, <2>5, <2>6
<1>12. CASE np.client_state \in {"REGISTER", "UP"}
  <2>1. np' = s /\ np_up' = TRUE /\ np_started' = np_started
        /\ UNCHANGED <<fetch, ads_valid>>
    BY <1>7, <1>12
  <2>2. Inv'
    BY <1>1, <1>3, <1>8, <2>1, InvNext DEF TypeOK
  <2>3. Abstract!EventGet
    BY <1>1, <1>3, <1>5, <1>12, <2>1
    DEF Abstract!EventGet, Abstract!Enter, Notifier
  <2>4. Timed => Timed' /\ CountsOnLive'
    BY <1>3, <1>5, <1>12, <2>1 DEF Timed, CountsOnLive
  <2>5. QED
    BY <2>2, <2>3, <2>4
<1>13. np.client_state \in ClientState /\ np_started \in BOOLEAN
  BY <1>1 DEF Notifier, TypeOK
<1>14. QED
  BY <1>9, <1>10, <1>11, <1>12, <1>13 DEF ClientState

\* np_stop().
LEMMA StoppedFact ==
    ASSUME Inv
    PROVE  /\ Stopped \in Notifier
           /\ Stopped.client_state = "DOWN" /\ ~Stopped.timer
           /\ Stopped.notify_cb = np.notify_cb /\ Stopped.dns = np.dns
           /\ Quiet(Stopped) /\ Searches(Stopped) /\ Tuned(Stopped)
<1>1. np \in Notifier /\ Tuned(np)
  BY DEF Inv, TypeOK
<1>2. /\ Stopped \in Notifier /\ Downed(np, Stopped)
      /\ Stopped.notify_cb = np.notify_cb
  BY <1>1, DownFact DEF Stopped
<1>3. QED
  BY <1>1, <1>2, TunedDowned DEF Downed, Quiet, Searches

\* client_notify_stop(), which nothing that counts on the notifier outlives.
LEMMA StopStep ==
    ASSUME Inv, ClientStop(Stopped),
           fetch' \in {"no", "sent", "named"}, ads_valid' \in BOOLEAN
    PROVE  Inv' /\ Abstract!Stop /\ Timed' /\ CountsOnLive'
<1> DEFINE t == Stopped
<1>1. /\ t \in Notifier
      /\ t.client_state = "DOWN" /\ ~t.timer
      /\ t.notify_cb = np.notify_cb /\ t.dns = np.dns
      /\ Quiet(t) /\ Searches(t) /\ Tuned(t)
  BY StoppedFact
<1> HIDE DEF t
<1>2. np' = t /\ np_started' = FALSE /\ np_up' = FALSE
  BY DEF ClientStop, t
<1>3. Inv'
  BY <1>1, <1>2, InvNext DEF Inv
<1>4. Abstract!Stop
  BY <1>1, <1>2, Enters DEF Abstract!Stop
<1>5. QED
  BY <1>1, <1>2, <1>3, <1>4 DEF Timed, CountsOnLive

\* np_set_server(), called by the client.
LEMMA SetServerStep ==
    ASSUME Inv, NEW name \in Server \cup {NoServer}, NEW e \in Env,
           np' = SetServer(np, name, e),
           np_started' \in BOOLEAN, np_up' \in BOOLEAN,
           fetch' \in {"no", "sent", "named"}, ads_valid' \in BOOLEAN
    PROVE  Inv' /\ (Abstract!SetServer \/ Abstract!Retrying)
<1> DEFINE t == SetServer(np, name, e)
<1>1. np \in Notifier /\ Quiet(np) /\ Searches(np) /\ Tuned(np)
  BY DEF Inv, TypeOK
<1>2. /\ t \in Notifier
      /\ \/ /\ t.dns # NoServer
            /\ t.client_state = np.client_state /\ t.timer = np.timer
            /\ t.notify_cb = np.notify_cb
            /\ t.pcb = np.pcb /\ t.wire = np.wire
            /\ t.probe_state = np.probe_state
         \/ /\ np.dns = NoServer /\ t.dns = NoServer
            /\ Downed(np, t) /\ t.notify_cb
         \/ /\ np.dns = NoServer /\ t.dns = NoServer
            /\ np.client_state = "DOWN_RETRY"
            /\ t.client_state = "DOWN_RETRY" /\ t.timer
            /\ t.notify_cb = np.notify_cb
      /\ Searches(t) /\ Tuned(t)
  BY <1>1, SetServerFact
<1> HIDE DEF t
<1>3. np' = t
  BY DEF t
<1>4. Inv'
  BY <1>1, <1>2, <1>3, InvNext DEF Inv, Quiet, Downed
<1>5. CASE /\ t.dns # NoServer
           /\ t.client_state = np.client_state /\ t.timer = np.timer
           /\ t.notify_cb = np.notify_cb
  BY <1>3, <1>4, <1>5 DEF Abstract!SetServer
<1>6. CASE /\ np.dns = NoServer /\ t.dns = NoServer
           /\ Downed(np, t) /\ t.notify_cb
  <2>1. Abstract!GoDown
    BY <1>2, <1>3, <1>6, Enters DEF Downed, Abstract!GoDown
  <2>2. QED
    BY <1>3, <1>4, <1>6, <2>1 DEF Abstract!SetServer, Abstract!Retrying
<1>7. CASE /\ np.dns = NoServer /\ t.dns = NoServer
           /\ np.client_state = "DOWN_RETRY"
           /\ t.client_state = "DOWN_RETRY" /\ t.timer
           /\ t.notify_cb = np.notify_cb
  <2>1. Abstract!Enter(np.client_state, TRUE, np.notify_cb)
    BY <1>2, <1>3, <1>7, Enters
  <2>2. QED
    BY <1>3, <1>4, <1>7, <2>1 DEF Abstract!SetServer
<1>8. QED
  BY <1>2, <1>5, <1>6, <1>7

\* client_poll(): np_stop() and np_set_server() together.
LEMMA ClientPollStep ==
    ASSUME Inv, ClientPoll
    PROVE  Inv' /\ Abstract!StopSetServer /\ Timed' /\ CountsOnLive'
<1> DEFINE s == Stopped
<1>1. /\ s \in Notifier
      /\ s.client_state = "DOWN" /\ ~s.timer
      /\ s.notify_cb = np.notify_cb /\ s.dns = np.dns
      /\ Quiet(s) /\ Searches(s) /\ Tuned(s)
  BY StoppedFact
<1>2. PICK e \in Env : np' = SetServer(s, np.name, e)
  BY DEF ClientPoll, ClientStop
<1>3. np_started' = FALSE /\ np_up' = FALSE /\ UNCHANGED <<fetch, ads_valid>>
  BY DEF ClientPoll, ClientStop
<1>4. np.name \in Server \cup {NoServer}
  BY DEF Inv, TypeOK, Notifier
<1> DEFINE t == SetServer(s, np.name, e)
<1> HIDE DEF s
<1>5. /\ t \in Notifier
      /\ \/ /\ t.dns # NoServer
            /\ t.client_state = s.client_state /\ t.timer = s.timer
            /\ t.notify_cb = s.notify_cb
            /\ t.pcb = s.pcb /\ t.wire = s.wire
            /\ t.probe_state = s.probe_state
         \/ /\ s.dns = NoServer /\ t.dns = NoServer
            /\ Downed(s, t) /\ t.notify_cb
         \/ /\ s.dns = NoServer /\ t.dns = NoServer
            /\ s.client_state = "DOWN_RETRY"
            /\ t.client_state = "DOWN_RETRY" /\ t.timer
            /\ t.notify_cb = s.notify_cb
      /\ Searches(t) /\ Tuned(t)
  BY <1>1, <1>4, SetServerFact
<1>6. np' = t
  BY <1>2
<1> HIDE DEF t
<1>7. t.client_state = "DOWN" /\ Quiet(t)
  BY <1>1, <1>5 DEF Downed, Quiet
<1>8. Inv'
  BY <1>3, <1>5, <1>6, <1>7, InvNext DEF Inv, TypeOK
<1>9. Abstract!StopSetServer
  <2>1. CASE t.dns # NoServer /\ t.timer = s.timer /\ t.notify_cb = s.notify_cb
    BY <1>1, <1>5, <1>6, <1>7, <2>1, Enters DEF Abstract!StopSetServer
  <2>2. CASE /\ s.dns = NoServer /\ t.dns = NoServer
             /\ Downed(s, t) /\ t.notify_cb
    BY <1>1, <1>5, <1>6, <1>7, <2>2, Enters
    DEF Downed, Abstract!StopSetServer, Abstract!GoDown
  <2>3. QED
    BY <1>1, <1>5, <2>1, <2>2
<1>10. QED
  BY <1>3, <1>6, <1>7, <1>8, <1>9 DEF Timed, CountsOnLive

-----------------------------------------------------------------------------
(* Every step together.                                                    *)

\* What the notifier does by itself, and a new server, leave a client that
\* counts on it with a timer or an event.
LEMMA LiveStep ==
    ASSUME Inv, Inv', Timed, CountsOnLive, np_up' = np_up,
           \/ Abstract!Own \/ Abstract!SetServer
           \/ UNCHANGED Abstract!npVars
    PROVE  Timed' /\ CountsOnLive'
<1>1. /\ np.notify_cb \in BOOLEAN /\ np.timer \in BOOLEAN
      /\ np'.notify_cb \in BOOLEAN /\ np'.timer \in BOOLEAN
      /\ np_up \in BOOLEAN
  BY DEF Inv, TypeOK, Notifier
<1> USE DEF Timed, CountsOnLive, Abstract!Enter, Abstract!GoDown,
            Abstract!GoDownRetry
<1>2. CASE Abstract!SetServer
  BY <1>1, <1>2 DEF Abstract!SetServer
<1>3. CASE UNCHANGED Abstract!npVars
  BY <1>1, <1>3 DEF Abstract!npVars
<1>4. CASE Abstract!Resolved
  BY <1>1, <1>4 DEF Abstract!Resolved
<1>5. CASE Abstract!BringUp \/ Abstract!Registering
  BY <1>1, <1>5 DEF Abstract!BringUp, Abstract!Registering
<1>6. CASE Working
  BY <1>1, <1>6
  DEF Working, Abstract!KeepAlive, Abstract!Searching, Abstract!Retrying
<1>7. CASE Abstract!Change \/ Abstract!ChangeAsked
  BY <1>1, <1>7 DEF Abstract!Change, Abstract!ChangeAsked
<1>8. CASE Abstract!Leftover \/ Abstract!Notified
  BY <1>1, <1>8 DEF Abstract!Leftover, Abstract!Notified
<1>9. QED
  BY <1>2, <1>3, <1>4, <1>5, <1>6, <1>7, <1>8 DEF Abstract!Own, Working

\* Every step keeps the invariant, is a step of the promise, and leaves no
\* client waiting for nothing.
LEMMA NextStep ==
    ASSUME Inv, [Next]_vars
    PROVE  /\ Inv'
           /\ "alloc" \notin Faults =>
                /\ Abstract!NpNext \/ UNCHANGED Abstract!npVars
                /\ Timed /\ CountsOnLive => Timed' /\ CountsOnLive'
<1>1. ASSUME Inv', np_up' = np_up,
             "alloc" \notin Faults =>
                \/ Abstract!Own \/ Abstract!SetServer
                \/ UNCHANGED Abstract!npVars
      PROVE  "alloc" \notin Faults =>
                /\ Abstract!NpNext \/ UNCHANGED Abstract!npVars
                /\ Timed /\ CountsOnLive => Timed' /\ CountsOnLive'
  BY <1>1, LiveStep DEF Abstract!NpNext
<1>2. ASSUME Receive \/ Timeout \/ ProbeTimeout \/ DnsCb
      PROVE  np_up' = np_up
  BY <1>2 DEF Receive, RecvRegResp, RecvRegErr, RecvReqProbeResp, RecvProbe,
       RecvKeepAliveResp, RecvProbeResp, RecvEvent, RecvGarbage, Timeout,
       ProbeTimeout, DnsCb, Handle
<1>3. CASE Receive
  <2>1. /\ Inv'
        /\ "alloc" \notin Faults =>
            \/ Abstract!Registering \/ Abstract!BringUp \/ Abstract!Change
            \/ Working \/ Abstract!Notified \/ UNCHANGED Abstract!npVars
    BY <1>3, RecvRegRespStep, RecvRegErrStep, RecvReqProbeRespStep,
       RecvProbeStep, RecvKeepAliveRespStep, RecvProbeRespStep,
       RecvEventStep, RecvGarbageStep DEF Receive
  <2>2. QED
    BY <1>1, <1>2, <1>3, <2>1 DEF Abstract!Own, Working
<1>4. CASE Timeout
  BY <1>1, <1>2, <1>4, TimeoutStep DEF Abstract!Own, Working
<1>5. CASE ProbeTimeout
  BY <1>1, <1>2, <1>5, ProbeTimeoutStep DEF Abstract!Own, Working
<1>6. CASE DnsCb
  BY <1>1, <1>2, <1>6, DnsCbStep DEF Abstract!Own
<1>7. CASE ClientNotifyCb
  BY <1>7, ClientNotifyCbStep DEF Abstract!NpNext
<1>8. TypeOK
  BY DEF Inv
<1>9. CASE ClientGetDevId
  <2>1. ClientStop(Stopped) /\ fetch' = "sent" /\ ads_valid' = ads_valid
    BY <1>9 DEF ClientGetDevId
  <2>2. QED
    BY <1>8, <2>1, StopStep DEF TypeOK, Abstract!NpNext
<1>10. CASE ClientAnsServer
  <2>1. PICK name \in Server, e \in Env :
          /\ np' = SetServer(np, name, e) /\ fetch' = "named"
          /\ UNCHANGED <<np_started, np_up, ads_valid>>
    BY <1>10 DEF ClientAnsServer
  <2>2. Inv' /\ (Abstract!SetServer \/ Abstract!Retrying)
    BY <1>8, <2>1, SetServerStep DEF TypeOK
  <2>3. QED
    BY <1>1, <2>1, <2>2 DEF Abstract!Own
<1>11. CASE ClientServerUp
  <2>1. PICK e \in Env :
          /\ np' = IF ads_valid THEN np ELSE SetServer(np, np.name, e)
          /\ fetch' = "no" /\ ads_valid' = TRUE
          /\ UNCHANGED <<np_started, np_up>>
    BY <1>11 DEF ClientServerUp
  <2>2. CASE ads_valid
    <3>1. np' = np
      BY <2>1, <2>2
    <3>2. Inv'
      BY <1>8, <2>1, <3>1 DEF Inv, TypeOK
    <3>3. UNCHANGED Abstract!npVars
      BY <3>1 DEF Abstract!npVars
    <3>4. QED
      BY <1>1, <2>1, <3>2, <3>3
  <2>3. CASE ~ads_valid
    <3>1. np.name \in Server \cup {NoServer}
      BY <1>8 DEF TypeOK, Notifier
    <3>2. np' = SetServer(np, np.name, e)
      BY <2>1, <2>3
    <3>3. Inv' /\ (Abstract!SetServer \/ Abstract!Retrying)
      BY <1>8, <2>1, <3>1, <3>2, SetServerStep DEF TypeOK
    <3>4. QED
      BY <1>1, <2>1, <3>3 DEF Abstract!Own
  <2>4. QED
    BY <2>2, <2>3
<1>12. CASE ClientLost
  <2>1. CASE ads_valid
    <3>1. ClientStop(Stopped) /\ fetch' = "no" /\ ads_valid' = FALSE
      BY <1>12, <2>1 DEF ClientLost
    <3>2. QED
      BY <3>1, StopStep DEF Abstract!NpNext
  <2>2. CASE ~ads_valid
    <3>1. UNCHANGED <<np, np_started, np_up>> /\ fetch' = "no"
          /\ ads_valid' = FALSE
      BY <1>12, <2>2 DEF ClientLost
    <3>2. Inv'
      BY <1>8, <3>1 DEF Inv, TypeOK
    <3>3. UNCHANGED Abstract!npVars
      BY <3>1 DEF Abstract!npVars
    <3>4. QED
      BY <1>1, <3>1, <3>2, <3>3
  <2>3. QED
    BY <2>1, <2>2
<1>13. CASE ClientPoll
  BY <1>13, ClientPollStep DEF Abstract!NpNext
<1>14. CASE UNCHANGED vars
  <2>1. Inv'
    BY <1>8, <1>14 DEF vars, Inv, TypeOK
  <2>2. UNCHANGED Abstract!npVars /\ np_up' = np_up
    BY <1>14 DEF vars, Abstract!npVars
  <2>3. QED
    BY <1>1, <2>1, <2>2
<1>15. QED
  BY <1>3, <1>4, <1>5, <1>6, <1>7, <1>9, <1>10, <1>11, <1>12, <1>13, <1>14
  DEF Next, Client

\* The initial state.
LEMMA InitStep ==
    ASSUME Init
    PROVE  Inv /\ Timed /\ CountsOnLive /\ Abstract!NpInit
<1>1. np \in Notifier
  BY NotifyAssumption DEF Init, Notifier, ClientState, ProbeState
<1>2. TypeOK
  BY <1>1 DEF Init, TypeOK
<1>3. Quiet(np) /\ Searches(np) /\ Tuned(np)
  BY NotifyAssumption DEF Init, Quiet, Searches, Tuned, Fits
<1>4. Timed /\ CountsOnLive /\ Abstract!NpInit
  BY DEF Init, Timed, CountsOnLive, Abstract!NpInit
<1>5. QED
  BY <1>2, <1>3, <1>4 DEF Inv

\* The inductive invariant: the types, and what the properties of the search
\* rest on.
LEMMA InvHolds == Spec => []Inv
<1>1. Init => Inv
  BY InitStep
<1>2. Inv /\ [Next]_vars => Inv'
  BY NextStep
<1>3. QED
  BY <1>1, <1>2, PTL DEF Spec

\* The variables keep their types: no counter of notify.c leaves its range.
THEOREM TypeCorrect == Spec => []TypeOK
<1>1. Inv => TypeOK
  BY DEF Inv
<1>2. QED
  BY <1>1, InvHolds, PTL

\* A search for a period that waits for an answer or a probe has its timer
\* running, whatever message, timer or call of the client comes in between.
THEOREM SearchGoesOnHolds == Spec => []SearchGoesOn
<1>1. Inv => SearchGoesOn
  BY DEF Inv, Searches, SearchGoesOn
<1>2. QED
  BY <1>1, InvHolds, PTL

\* The search never ends with a period the NAT does not allow, for every NAT
\* and every number of probes and retries, with every fault.
THEOREM KeepAliveFitsHolds == Spec => []KeepAliveFits
<1>1. Inv => KeepAliveFits
  BY DEF Inv, Tuned, Fits, KeepAliveFits
<1>2. QED
  BY <1>1, InvHolds, PTL

\* With memory for its messages, the notifier never leaves a client that
\* counts on it with neither an event nor a timer.
THEOREM CountsOnLiveHolds ==
    ASSUME "alloc" \notin Faults
    PROVE  Spec => []CountsOnLive
<1> DEFINE Live == Inv /\ Timed /\ CountsOnLive
<1>1. Init => Live
  BY InitStep
<1>2. Live /\ [Next]_vars => Live'
  BY NextStep
<1>3. Live => CountsOnLive
  OBVIOUS
<1>4. QED
  BY <1>1, <1>2, <1>3, PTL DEF Spec

\* With memory for its messages, notify.c implements what NotifySpec promises
\* the client: every handler is a step of the promise, or changes nothing the
\* client sees.
THEOREM PromiseHolds ==
    ASSUME "alloc" \notin Faults
    PROVE  Spec => Promise
<1>1. Init => Inv /\ Abstract!NpInit
  BY InitStep
<1>2. Inv /\ [Next]_vars => Inv' /\ [Abstract!NpNext]_(Abstract!npVars)
  BY NextStep
<1>3. QED
  BY <1>1, <1>2, PTL DEF Spec, Promise, Abstract!NpSpec
============================================================================
