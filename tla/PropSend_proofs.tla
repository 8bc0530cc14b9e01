--------------------------- MODULE PropSend_proofs ---------------------------
(***************************************************************************)
(* Proofs about property updates, for any tasks, properties, heap,         *)
(* destinations and ends of requests: every update is owned once, and the  *)
(* property manager and the client agree on the one being sent.  Where one *)
(* task does all that changes it, the count of echoes is right, and when   *)
(* the client is at rest with ADS there, it listens and no echo is left.   *)
(***************************************************************************)
EXTENDS PropSend, FiniteSetTheorems, SequenceTheorems, TLAPS

-----------------------------------------------------------------------------
(* The inductive invariant.                                                *)

\* Where a task must have a prop whose end it reports, and where it may not.
Ending == {"done", "dec", "free"}
Sending == {"opt", "enq", "load", "store", "echo", "echoed"}

\* A task has a new prop until it has queued it.  One that reports the end of
\* a send has its prop, also while it sends an echo from there.
JobAt(j, l) ==
    /\ j.new # NoProp <=> l = "enq"
    /\ l \in Ending => j.done # NoProp
    /\ l \in Sending => (j.done = NoProp <=> j.from \in {"app", "sts"})
    /\ l \notin Ending \cup Sending => j.done = NoProp
    /\ l \in {"echo", "echoed"} => j.from # "app"
    /\ l \in {"done", "dec"} => j.from \notin {"app", "sts"}

JobsAgree == \A t \in Task : JobAt(job[t], pc[t])

\* Between the choice of an update and client_send_callback_set() only the
\* property manager knows it; otherwise the client does too.
SendAgrees ==
    /\ cb => sending # NoProp /\ pc[Client] # "set"
    /\ ~cb => dest = {}
    /\ sending # NoProp => cb \/ pc[Client] = "set"
    /\ pc[Client] = "set" => sending # NoProp

\* The client task is in prop_mgr_send_queue_check().
Checking(j, l) == l = "lost" \/ (l \in Ending \cup Sending /\ j.from = "lost")

\* It leaves when all it took off the queue were failed.
LostAgrees ==
    lost_q # <<>> => sts.lost = {} /\ Checking(job[Client], pc[Client])

\* The places a prop can be at.
Heap == <<"heap", NoTask>>
InSend == <<"send", NoTask>>
InLost == <<"lost", NoTask>>
BeingSent == <<"sending", NoTask>>
NewOf(t) == <<"new", t>>
DoneOf(t) == <<"done", t>>
Place == {Heap, InSend, InLost, BeingSent} \cup {NewOf(t) : t \in Task}
         \cup {DoneOf(t) : t \in Task}

\* No prop is on the list twice.
Distinct(q) == \A i, j \in 1 .. Len(q) : q[i] = q[j] => i = j

\* The props of list q are the ones that place has at x.
Listed(q, place, x) ==
    /\ Distinct(q)
    /\ \A p \in Prop : place[p] = x <=> \E i \in 1 .. Len(q) : q[i] = p

\* place says of each prop where it is.
At(place) ==
    /\ Listed(send_q, place, InSend)
    /\ Listed(lost_q, place, InLost)
    /\ \A p \in Prop : place[p] = BeingSent <=> sending = p
    /\ \A t \in Task, p \in Prop : place[p] = NewOf(t) <=> job[t].new = p
    /\ \A t \in Task, p \in Prop : place[p] = DoneOf(t) <=> job[t].done = p
    /\ \A p \in Prop : place[p] = Heap <=> prop[p] = Free

Inv ==
    /\ TypeOK
    /\ JobsAgree
    /\ SendAgrees
    /\ LostAgrees
    /\ \E place \in [Prop -> Place] : At(place)

-----------------------------------------------------------------------------
(* Lists.                                                                  *)

\* What picking the places I of a list gives.
LEMMA PickedFact ==
    ASSUME NEW q \in Seq(Prop), NEW I \in SUBSET (1 .. Len(q)),
           NEW r \in Picked(q, I)
    PROVE  /\ r \in Seq(Prop)
           /\ \A i \in 1 .. Len(r) : \E k \in I : r[i] = q[k]
           /\ \A k \in I : \E i \in 1 .. Len(r) : r[i] = q[k]
           /\ Distinct(q) => Distinct(r)
<1>1. Len(q) \in Nat /\ \A i \in 1 .. Len(q) : q[i] \in Prop
  OBVIOUS
<1>2. IsFiniteSet(1 .. Len(q))
  BY <1>1, FS_Interval
<1>3. Cardinality(I) \in Nat
  BY <1>2, FS_Subset, FS_CardinalityType
<1> DEFINE n == Cardinality(I)
<1>4. PICK f \in [1 .. n -> I] :
        /\ r = [i \in 1 .. n |-> q[f[i]]]
        /\ \A i, j \in 1 .. n : i < j => f[i] < f[j]
        /\ \A k \in I : \E i \in 1 .. n : f[i] = k
  BY DEF Picked
<1> HIDE DEF n
<1>5. n \in Nat /\ \A i \in 1 .. n : f[i] \in I /\ f[i] \in 1 .. Len(q)
  BY <1>3, <1>4 DEF n
<1>6. \A i \in 1 .. n : q[f[i]] \in Prop
  BY <1>1, <1>5
<1>7. r \in Seq(Prop) /\ Len(r) = n /\ \A i \in 1 .. n : r[i] = q[f[i]]
  BY <1>4, <1>5, <1>6
<1>8. \A i \in 1 .. Len(r) : \E k \in I : r[i] = q[k]
  BY <1>5, <1>7
<1>9. \A k \in I : \E i \in 1 .. Len(r) : r[i] = q[k]
  BY <1>4, <1>5, <1>7
<1>10. ASSUME Distinct(q), NEW i \in 1 .. n, NEW j \in 1 .. n, r[i] = r[j]
       PROVE  i = j
  <2>1. q[f[i]] = q[f[j]]
    BY <1>7, <1>10
  <2>2. f[i] \in 1 .. Len(q) /\ f[j] \in 1 .. Len(q)
    BY <1>5
  <2>3. f[i] = f[j]
    BY <1>10, <2>1, <2>2 DEF Distinct
  <2>4. f[i] \in Nat /\ f[j] \in Nat
    BY <1>1, <2>2
  <2>5. QED
    BY <1>4, <1>5, <2>3, <2>4
<1>11. QED
  BY <1>7, <1>8, <1>9, <1>10 DEF Distinct

\* A prop at the end of a list that did not have it.
LEMMA AppendFact ==
    ASSUME NEW q \in Seq(Prop), NEW p \in Prop, Distinct(q),
           \A i \in 1 .. Len(q) : q[i] # p
    PROVE  /\ Append(q, p) \in Seq(Prop) /\ Distinct(Append(q, p))
           /\ \A x \in Prop : (\E i \in 1 .. Len(Append(q, p)) : Append(q, p)[i] = x)
                                <=> x = p \/ \E i \in 1 .. Len(q) : q[i] = x
<1> DEFINE r == Append(q, p)
<1>1. /\ r \in Seq(Prop) /\ Len(r) = Len(q) + 1 /\ Len(q) \in Nat
      /\ r[Len(q) + 1] = p /\ \A i \in 1 .. Len(q) : r[i] = q[i]
  OBVIOUS
<1> HIDE DEF r
<1>2. Distinct(r)
  BY <1>1 DEF Distinct
<1>3. \A i \in 1 .. Len(r) : i \in 1 .. Len(q) \/ i = Len(q) + 1
  BY <1>1
<1>4. Len(q) + 1 \in 1 .. Len(r) /\ \A i \in 1 .. Len(q) : i \in 1 .. Len(r)
  BY <1>1
<1>5. \A x : (\E i \in 1 .. Len(r) : r[i] = x)
               <=> x = p \/ \E i \in 1 .. Len(q) : q[i] = x
  BY <1>1, <1>3, <1>4
<1>6. QED
  BY <1>1, <1>2, <1>5 DEF r

\* The head of a list without duplicates leaves it.
LEMMA TailFact ==
    ASSUME NEW q \in Seq(Prop), q # <<>>, Distinct(q)
    PROVE  /\ Head(q) \in Prop /\ Tail(q) \in Seq(Prop) /\ Distinct(Tail(q))
           /\ \A x \in Prop : (\E i \in 1 .. Len(Tail(q)) : Tail(q)[i] = x)
                                <=> x # Head(q) /\ \E i \in 1 .. Len(q) : q[i] = x
           /\ \E i \in 1 .. Len(q) : q[i] = Head(q)
<1> DEFINE r == Tail(q)
<1>1. /\ r \in Seq(Prop) /\ Len(r) = Len(q) - 1 /\ Len(q) \in Nat \ {0}
      /\ Head(q) = q[1] /\ q[1] \in Prop
      /\ \A i \in 1 .. Len(r) : r[i] = q[i + 1]
  BY HeadTailProperties
<1> HIDE DEF r
<1>2. Distinct(r)
  BY <1>1 DEF Distinct
<1>3. \A i \in 1 .. Len(q) : i = 1 \/ (i - 1 \in 1 .. Len(r) /\ r[i - 1] = q[i])
  BY <1>1
<1>4. \A i \in 1 .. Len(r) : i + 1 \in 1 .. Len(q) /\ i + 1 # 1
  BY <1>1
<1>5. 1 \in 1 .. Len(q)
  BY <1>1
<1>6. \A i \in 1 .. Len(r) : r[i] # q[1]
  BY <1>1, <1>4, <1>5 DEF Distinct
<1>7. \A x : (\E i \in 1 .. Len(r) : r[i] = x)
               <=> x # Head(q) /\ \E i \in 1 .. Len(q) : q[i] = x
  <2>1. ASSUME NEW i \in 1 .. Len(r)
        PROVE  r[i] # Head(q) /\ \E k \in 1 .. Len(q) : q[k] = r[i]
    BY <1>1, <1>4, <1>6
  <2>2. ASSUME NEW i \in 1 .. Len(q), q[i] # Head(q)
        PROVE  \E k \in 1 .. Len(r) : r[k] = q[i]
    BY <1>1, <1>3, <2>2
  <2>3. QED
    BY <2>1, <2>2
<1>8. QED
  BY <1>1, <1>2, <1>5, <1>7 DEF r

-----------------------------------------------------------------------------
(* What the parts of the invariant need of a step.                         *)

LEMMA JobTypes ==
    /\ NoJob \in Job /\ Free \in PropRec /\ NoSts \in StsArgs
    /\ \A j \in Job : /\ j.new \in Prop \cup {NoProp} /\ j.done \in Prop \cup {NoProp}
                      /\ j.dest \in SUBSET Dest /\ j.name \in Name \cup {NoName}
                      /\ j.fail \in SUBSET Dest /\ j.reg \in Nat
    /\ NoJob.new = NoProp /\ NoJob.done = NoProp /\ NoJob.from = "app"
  BY DEF NoJob, Job, Free, PropRec, NoSts, StsArgs, Caller, Status

\* The step of one task.
LEMMA JobsStep ==
    ASSUME JobsAgree, NEW t, JobAt(job'[t], pc'[t]),
           \A u \in Task \ {t} : job'[u] = job[u] /\ pc'[u] = pc[u]
    PROVE  JobsAgree'
<1>1. ASSUME NEW u \in Task PROVE JobAt(job'[u], pc'[u])
  <2>1. JobAt(job[u], pc[u])
    BY DEF JobsAgree
  <2>2. CASE u = t
    BY <2>2
  <2>3. CASE u # t
    BY <2>1, <2>3
  <2>4. QED
    BY <2>2, <2>3
<1>2. QED
  BY <1>1 DEF JobsAgree

\* The client and the property manager go on with the update they have.
LEMMA SendStays ==
    ASSUME SendAgrees, UNCHANGED <<cb, dest, sending>>,
           pc'[Client] = "set" <=> pc[Client] = "set"
    PROVE  SendAgrees'
  BY DEF SendAgrees

\* The client task goes on with the check, if it is in one.
LEMMA LostStays ==
    ASSUME LostAgrees, UNCHANGED lost_q, sts'.lost = sts.lost,
           Checking(job[Client], pc[Client]) => Checking(job'[Client], pc'[Client])
    PROVE  LostAgrees'
  BY DEF LostAgrees

\* A step of a task that is not in the check, or stays in it.
LEMMA LostGoesOn ==
    ASSUME Inv, NEW t \in Task, UNCHANGED <<lost_q, sts>>,
           \A u \in Task \ {t} : job'[u] = job[u] /\ pc'[u] = pc[u],
           Checking(job[t], pc[t]) => Checking(job'[t], pc'[t])
    PROVE  LostAgrees'
  BY LostStays, PropTaskAssumption DEF Inv

\* No prop moves.
LEMMA AtStays ==
    ASSUME UNCHANGED <<send_q, lost_q, sending, prop>>,
           \A t \in Task : job'[t].new = job[t].new /\ job'[t].done = job[t].done,
           \E place \in [Prop -> Place] : At(place)
    PROVE  \E place \in [Prop -> Place] : At(place)'
<1>1. PICK place \in [Prop -> Place] : At(place)
  OBVIOUS
<1>2. At(place)'
  BY <1>1 DEF At, Listed
<1>3. QED
  BY <1>2

\* Places differ.
LEMMA PlacesDiffer ==
    /\ \A t \in Task : NewOf(t) \in Place /\ DoneOf(t) \in Place
    /\ {Heap, InSend, InLost, BeingSent} \subseteq Place
    /\ Heap # InSend /\ Heap # InLost /\ Heap # BeingSent
    /\ InSend # InLost /\ InSend # BeingSent /\ InLost # BeingSent
    /\ \A t \in Task : /\ NewOf(t) \notin {Heap, InSend, InLost, BeingSent}
                       /\ DoneOf(t) \notin {Heap, InSend, InLost, BeingSent}
    /\ \A t, u \in Task : /\ NewOf(t) # DoneOf(u)
                          /\ NewOf(t) = NewOf(u) => t = u
                          /\ DoneOf(t) = DoneOf(u) => t = u
  BY DEF Place, Heap, InSend, InLost, BeingSent, NewOf, DoneOf

\* A prop is allocated.
LEMMA ToNew ==
    ASSUME NEW t \in Task, NEW p \in Prop, NEW x, x # Free,
           prop \in [Prop -> PropRec], job \in [Task -> Job],
           prop[p] = Free, prop' = [prop EXCEPT ![p] = x],
           job[t].new = NoProp, job'[t].new = p, job'[t].done = job[t].done,
           \A u \in Task \ {t} : job'[u] = job[u],
           UNCHANGED <<send_q, lost_q, sending>>,
           \E place \in [Prop -> Place] : At(place)
    PROVE  \E place \in [Prop -> Place] : At(place)'
<1>1. PICK place \in [Prop -> Place] : At(place)
  OBVIOUS
<1> DEFINE to == [place EXCEPT ![p] = NewOf(t)]
<1>2. to \in [Prop -> Place] /\ to[p] = NewOf(t) /\ \A q \in Prop \ {p} : to[q] = place[q]
  BY <1>1, PlacesDiffer
<1>3. place[p] = Heap
  BY <1>1 DEF At
<1> HIDE DEF to
<1>4. Listed(send_q, to, InSend)' /\ Listed(lost_q, to, InLost)'
  BY <1>1, <1>2, <1>3, PlacesDiffer DEF At, Listed
<1>5. \A q \in Prop : to[q] = BeingSent <=> sending' = q
  BY <1>1, <1>2, <1>3, PlacesDiffer DEF At
<1>6. \A u \in Task, q \in Prop : to[q] = NewOf(u) <=> job'[u].new = q
  BY <1>1, <1>2, <1>3, PlacesDiffer, PropDataAssumption DEF At
<1>7. \A u \in Task, q \in Prop : to[q] = DoneOf(u) <=> job'[u].done = q
  BY <1>1, <1>2, <1>3, PlacesDiffer DEF At
<1>8. \A q \in Prop : to[q] = Heap <=> prop'[q] = Free
  BY <1>1, <1>2, <1>3, PlacesDiffer DEF At
<1>9. QED
  BY <1>2, <1>4, <1>5, <1>6, <1>7, <1>8 DEF At

\* A step of one task that moves no prop and leaves the send as it is.
LEMMA QuietStep ==
    ASSUME Inv, TypeOK', NEW t \in Task,
           UNCHANGED <<cb, dest, sending, send_q, lost_q, prop, sts>>,
           \A u \in Task \ {t} : job'[u] = job[u] /\ pc'[u] = pc[u],
           job'[t].new = job[t].new, job'[t].done = job[t].done,
           JobAt(job'[t], pc'[t]), pc'[t] = "set" <=> pc[t] = "set",
           Checking(job[t], pc[t]) => Checking(job'[t], pc'[t])
    PROVE  Inv'
<1>1. JobsAgree'
  BY JobsStep DEF Inv
<1>2. SendAgrees'
  BY SendStays, PropTaskAssumption DEF Inv
<1>3. LostAgrees'
  BY LostGoesOn
<1>4. \E place \in [Prop -> Place] : At(place)'
  BY AtStays DEF Inv
<1>5. QED
  BY <1>1, <1>2, <1>3, <1>4 DEF Inv

\* What a task's place in the code says of its job.
LEMMA Here ==
    ASSUME Inv, NEW t \in Task
    PROVE  /\ JobAt(job[t], pc[t]) /\ job[t] \in Job /\ pc[t] \in Pc
           /\ pc \in [Task -> Pc] /\ job \in [Task -> Job]
           /\ prop \in [Prop -> PropRec] /\ lock \in Task \cup {NoTask}
  BY DEF Inv, JobsAgree, TypeOK

-----------------------------------------------------------------------------
(* sprop_send_opt().                                                       *)

LEMMA SendStep ==
    ASSUME Inv, NEW t \in Task, NEW n \in Name, Send(t, n)
    PROVE  Inv'
<1> DEFINE j == [NoJob EXCEPT !.name = n, !.dest = sprop_dest]
<1>1. /\ pc' = [pc EXCEPT ![t] = "opt"] /\ job' = [job EXCEPT ![t] = j]
      /\ pc[t] = "idle"
  BY DEF Send, Goto
<1>2. j \in Job /\ j.new = NoProp /\ j.done = NoProp /\ j.from = "app"
  <2>1. sprop_dest \in SUBSET Dest
    BY DEF Inv, TypeOK
  <2>2. QED
    BY <2>1, JobTypes DEF NoJob, Job, Caller, Status
<1> HIDE DEF j
<1>3. TypeOK'
  <2>1. job' \in [Task -> Job] /\ pc' \in [Task -> Pc]
    BY <1>1, <1>2, Here DEF Pc
  <2>2. lock' \in Task \cup {NoTask}
    BY DEF Inv, TypeOK, Send
  <2>3. QED
    BY <2>1, <2>2 DEF Inv, TypeOK, Send, clientVars, mgrVars, spropVars
<1>4. job[t].new = NoProp /\ job[t].done = NoProp
  BY <1>1, Here DEF JobAt, Ending, Sending
<1>5. JobAt(job'[t], pc'[t]) /\ job'[t] = j /\ pc'[t] = "opt"
  BY <1>1, <1>2, Here DEF JobAt, Ending, Sending
<1>6. UNCHANGED <<cb, dest, sending, send_q, lost_q, prop, sts>>
  BY DEF Send, clientVars, mgrVars
<1>7. ~Checking(job[t], pc[t])
  BY <1>1 DEF Checking, Ending, Sending
<1>8. QED
  BY <1>1, <1>2, <1>3, <1>4, <1>5, <1>6, <1>7, QuietStep, Here

\* Going back to the caller.
LEMMA AfterSendFact ==
    ASSUME TypeOK, NEW t \in Task, AfterSend(t)
    PROVE  /\ pc' = [pc EXCEPT ![t] = IF job[t].from = "app" THEN "idle" ELSE "echoed"]
           /\ pc' \in [Task -> Pc] /\ lock' \in Task \cup {NoTask}
  BY DEF TypeOK, AfterSend, Goto, Pc

LEMMA OptStep ==
    ASSUME Inv, NEW t \in Task, Opt(t)
    PROVE  Inv'
<1> DEFINE n == job[t].name
           defer == n \in Echo /\ Ads \notin job[t].dest
           full == Free \notin {prop[p] : p \in Prop}
           retry == full /\ job[t].from # "app"
<1>1. /\ pc[t] = "opt" /\ pc \in [Task -> Pc] /\ job \in [Task -> Job]
      /\ prop \in [Prop -> PropRec] /\ job[t] \in Job
      /\ lock \in Task \cup {NoTask} /\ send_req \in [Name -> BOOLEAN]
  BY DEF Inv, TypeOK, Opt
<1>2. JobAt(job[t], "opt")
  BY <1>1 DEF Inv, JobsAgree
<1>3. send_req' \in [Name -> BOOLEAN]
  <2>1. send_req' = [send_req EXCEPT ![n] = send_req[n] \/ defer \/ retry]
    BY DEF Opt
  <2> HIDE DEF defer, retry
  <2>2. QED
    BY <1>1, <2>1
<1>4. SendAgrees'
  <2>1. pc'[Client] = "set" <=> pc[Client] = "set"
    BY <1>1, PropTaskAssumption DEF Opt, AfterSend, Goto
  <2>2. QED
    BY <2>1, SendStays DEF Inv, Opt, clientVars, mgrVars
<1>5. CASE full \/ (defer /\ job[t].dest = {})
  <2>1. AfterSend(t) /\ UNCHANGED <<prop, job>>
    BY <1>5 DEF Opt
  <2>2. TypeOK'
    BY <1>3, <2>1, AfterSendFact DEF Inv, Opt, TypeOK, clientVars, mgrVars
  <2>3. pc' = [pc EXCEPT ![t] = IF job[t].from = "app" THEN "idle" ELSE "echoed"]
    BY <2>1, AfterSendFact DEF Inv
  <2>4. JobAt(job[t], pc'[t])
    BY <1>1, <1>2, <2>3 DEF JobAt, Ending, Sending
  <2>5. Checking(job[t], pc[t]) => Checking(job[t], pc'[t])
    BY <1>1, <2>3 DEF Checking, Ending, Sending
  <2>6. UNCHANGED <<cb, dest, sending, send_q, lost_q, prop, sts>>
    BY <2>1 DEF Opt, clientVars, mgrVars
  <2>7. pc'[t] # "set" /\ pc[t] # "set"
    BY <1>1, <2>3
  <2>8. QED
    BY <1>1, <2>1, <2>2, <2>3, <2>4, <2>5, <2>6, <2>7, QuietStep
<1>6. CASE ~(full \/ (defer /\ job[t].dest = {}))
  <2> DEFINE d == job[t].dest \cup {Ads}
             x == [name |-> n, dest |-> d]
  <2>1. Alloc(t, n, d) /\ pc' = [pc EXCEPT ![t] = "enq"] /\ UNCHANGED lock
    BY <1>6 DEF Opt, Goto
  <2>2. PICK p \in Prop :
          /\ prop[p] = Free /\ prop' = [prop EXCEPT ![p] = x]
          /\ job' = [job EXCEPT ![t].new = p]
    BY <2>1 DEF Alloc
  <2>3. x \in PropRec /\ x # Free
    <3>1. d \in SUBSET Dest /\ d # {} /\ n \in Name \cup {NoName}
      BY <1>1, JobTypes, PropDataAssumption
    <3> HIDE DEF d, n
    <3>2. QED
      BY <3>1 DEF PropRec, Free
  <2> DEFINE j == [job[t] EXCEPT !.new = p]
  <2>4. /\ job' = [job EXCEPT ![t] = j] /\ j \in Job
        /\ j.new = p /\ j.done = job[t].done /\ j.from = job[t].from
    BY <1>1, <2>2 DEF Job
  <2> HIDE DEF x, j, d, n, defer, full
  <2>5. TypeOK'
    <3>1. job' \in [Task -> Job] /\ pc' \in [Task -> Pc] /\ prop' \in [Prop -> PropRec]
      BY <1>1, <2>1, <2>2, <2>3, <2>4 DEF Pc
    <3>2. QED
      BY <1>3, <2>1, <3>1 DEF Inv, Opt, TypeOK, clientVars, mgrVars
  <2>6. JobsAgree'
    <3>1. JobAt(job'[t], pc'[t])
      BY <1>1, <1>2, <2>1, <2>4, PropDataAssumption DEF JobAt, Ending, Sending
    <3>2. QED
      BY <1>1, <2>1, <2>4, <3>1, JobsStep DEF Inv
  <2>7. \E place \in [Prop -> Place] : At(place)'
    <3>1. job[t].new = NoProp
      BY <1>2 DEF JobAt
    <3>2. UNCHANGED <<send_q, lost_q, sending>>
      BY DEF Opt, mgrVars
    <3>3. QED
      BY <1>1, <2>2, <2>3, <2>4, <3>1, <3>2, ToNew DEF Inv
  <2>8. LostAgrees'
    <3>1. UNCHANGED <<lost_q, sts>>
      BY DEF Opt, mgrVars
    <3>2. Checking(job[t], pc[t]) => Checking(job'[t], pc'[t])
      BY <1>1, <2>1, <2>4 DEF Checking, Ending, Sending
    <3>3. QED
      BY <1>1, <2>1, <2>4, <3>1, <3>2, LostGoesOn
  <2>9. QED
    BY <1>4, <2>5, <2>6, <2>7, <2>8 DEF Inv
<1>7. QED
  BY <1>5, <1>6

\* A new prop is queued.
LEMMA ToSend ==
    ASSUME NEW t \in Task, NEW p \in Prop, send_q \in Seq(Prop),
           job[t].new = p, job'[t].new = NoProp, job'[t].done = job[t].done,
           \A u \in Task \ {t} : job'[u] = job[u],
           send_q' = Append(send_q, p), UNCHANGED <<prop, lost_q, sending>>,
           \E place \in [Prop -> Place] : At(place)
    PROVE  \E place \in [Prop -> Place] : At(place)'
<1>1. PICK place \in [Prop -> Place] : At(place)
  OBVIOUS
<1> DEFINE to == [place EXCEPT ![p] = InSend]
<1>2. to \in [Prop -> Place] /\ to[p] = InSend /\ \A q \in Prop \ {p} : to[q] = place[q]
  BY <1>1, PlacesDiffer
<1>3. place[p] = NewOf(t)
  BY <1>1 DEF At
<1> HIDE DEF to
<1>4. Listed(send_q', to, InSend)
  <2>1. Distinct(send_q) /\ \A i \in 1 .. Len(send_q) : send_q[i] # p
    BY <1>1, <1>3, PlacesDiffer DEF At, Listed
  <2>2. /\ Distinct(send_q')
        /\ \A x \in Prop : (\E i \in 1 .. Len(send_q') : send_q'[i] = x)
                              <=> x = p \/ \E i \in 1 .. Len(send_q) : send_q[i] = x
    BY <2>1, AppendFact
  <2>3. \A x \in Prop : place[x] = InSend <=> \E i \in 1 .. Len(send_q) : send_q[i] = x
    BY <1>1 DEF At, Listed
  <2>4. QED
    BY <1>2, <2>2, <2>3 DEF Listed
<1>5. Listed(lost_q, to, InLost)'
  BY <1>1, <1>2, <1>3, PlacesDiffer DEF At, Listed
<1>6. \A q \in Prop : to[q] = BeingSent <=> sending' = q
  BY <1>1, <1>2, <1>3, PlacesDiffer DEF At
<1>7. \A u \in Task, q \in Prop : to[q] = NewOf(u) <=> job'[u].new = q
  BY <1>1, <1>2, <1>3, PlacesDiffer, PropDataAssumption DEF At
<1>8. \A u \in Task, q \in Prop : to[q] = DoneOf(u) <=> job'[u].done = q
  BY <1>1, <1>2, <1>3, PlacesDiffer DEF At
<1>9. \A q \in Prop : to[q] = Heap <=> prop'[q] = Free
  BY <1>1, <1>2, <1>3, PlacesDiffer DEF At
<1>10. QED
  BY <1>2, <1>4, <1>5, <1>6, <1>7, <1>8, <1>9 DEF At

LEMMA EnqStep ==
    ASSUME Inv, NEW t \in Task, Enq(t)
    PROVE  Inv'
<1> DEFINE p == job[t].new
           j == [job[t] EXCEPT !.new = NoProp]
<1>1. /\ pc[t] = "enq" /\ job' = [job EXCEPT ![t] = j]
      /\ send_q' = Append(send_q, p)
      /\ UNCHANGED <<cb, dest, sending, lost_q, prop, sts>>
  BY Here DEF Enq, clientVars
<1>2. p \in Prop
  BY <1>1, Here, JobTypes DEF JobAt
<1>3. /\ j \in Job /\ j.new = NoProp /\ j.done = job[t].done /\ j.from = job[t].from
  BY Here DEF Job
<1> HIDE DEF j, p
<1>4. /\ pc' \in [Task -> Pc] /\ lock' \in Task \cup {NoTask}
      /\ pc'[t] \in {"load", "idle", "echoed"}
      /\ job[t].from = "app" => pc'[t] \in {"load", "idle"}
      /\ job[t].from # "app" => pc'[t] \in {"load", "echoed"}
      /\ \A u \in Task \ {t} : job'[u] = job[u] /\ pc'[u] = pc[u]
  <2>1. CASE IsEcho(job[t].new)
    <3>1. pc' = [pc EXCEPT ![t] = "load"] /\ lock' = lock
      BY <2>1 DEF Enq, AfterEnq, Goto
    <3>2. QED
      BY <1>1, <3>1, Here DEF Pc
  <2>2. CASE ~IsEcho(job[t].new)
    <3>1. AfterSend(t)
      BY <2>2 DEF Enq, AfterEnq
    <3>2. QED
      BY <1>1, <3>1, Here, AfterSendFact DEF Inv
  <2>3. QED
    BY <2>1, <2>2
<1>5. TypeOK'
  <2>1. job' \in [Task -> Job] /\ send_q' \in Seq(Prop)
    BY <1>1, <1>2, <1>3, Here DEF Inv, TypeOK
  <2>2. QED
    BY <1>4, <2>1 DEF Inv, TypeOK, Enq, clientVars, spropVars
<1>6. job'[t] = j
  BY <1>1, Here
<1>7. JobAt(job'[t], pc'[t])
  BY <1>1, <1>3, <1>4, <1>6, Here DEF JobAt, Ending, Sending
<1>8. JobsAgree'
  BY <1>4, <1>7, JobsStep DEF Inv
<1>9. SendAgrees'
  <2>1. pc'[Client] = "set" <=> pc[Client] = "set"
    BY <1>1, <1>4, PropTaskAssumption
  <2>2. QED
    BY <1>1, <2>1, SendStays DEF Inv
<1>10. LostAgrees'
  <2>1. Checking(job[t], pc[t]) => Checking(job'[t], pc'[t])
    BY <1>1, <1>3, <1>4, <1>6 DEF Checking, Ending, Sending
  <2>2. QED
    BY <1>1, <1>4, <2>1, LostGoesOn
<1>11. \E place \in [Prop -> Place] : At(place)'
  BY <1>1, <1>2, <1>3, <1>4, <1>6, ToSend DEF Inv, TypeOK, p
<1>12. QED
  BY <1>5, <1>8, <1>9, <1>10, <1>11 DEF Inv

LEMMA LoadStep ==
    ASSUME Inv, NEW t \in Task, Load(t)
    PROVE  Inv'
<1> DEFINE j == [job[t] EXCEPT !.reg = echos_pending]
<1>1. /\ pc[t] = "load" /\ pc' = [pc EXCEPT ![t] = "store"]
      /\ job' = [job EXCEPT ![t] = j]
      /\ UNCHANGED <<cb, dest, sending, send_q, lost_q, prop, sts>>
  BY Here DEF Load, Goto, clientVars, mgrVars
<1>2. j \in Job /\ j.new = job[t].new /\ j.done = job[t].done /\ j.from = job[t].from
  BY Here DEF Job, Inv, TypeOK
<1> HIDE DEF j
<1>3. TypeOK'
  <2>1. job' \in [Task -> Job] /\ pc' \in [Task -> Pc]
    BY <1>1, <1>2, Here DEF Pc
  <2>2. QED
    BY <2>1 DEF Inv, TypeOK, Load, clientVars, mgrVars, spropVars
<1>4. job'[t] = j /\ pc'[t] = "store"
  BY <1>1, Here
<1>5. Checking(job[t], pc[t]) => Checking(job'[t], pc'[t])
  BY <1>1, <1>2, <1>4 DEF Checking, Ending, Sending
<1>6. JobAt(job'[t], pc'[t])
  BY <1>1, <1>2, <1>4, Here DEF JobAt, Ending, Sending
<1>7. QED
  BY <1>1, <1>2, <1>3, <1>4, <1>5, <1>6, QuietStep, Here

LEMMA StoreStep ==
    ASSUME Inv, NEW t \in Task, Store(t)
    PROVE  Inv'
<1>1. /\ pc[t] = "store" /\ AfterSend(t)
      /\ UNCHANGED <<cb, dest, sending, send_q, lost_q, prop, sts, job>>
  BY DEF Store, clientVars, mgrVars
<1>2. pc' = [pc EXCEPT ![t] = IF job[t].from = "app" THEN "idle" ELSE "echoed"]
  BY <1>1, AfterSendFact DEF Inv
<1>3. TypeOK'
  <2>1. echos_pending' \in Nat
    BY Here, JobTypes DEF Store
  <2>2. QED
    BY <1>1, <2>1, AfterSendFact DEF Inv, TypeOK, Store, clientVars, mgrVars
<1>4. pc'[t] = IF job[t].from = "app" THEN "idle" ELSE "echoed"
  BY <1>2, Here
<1>5. JobAt(job[t], pc'[t])
  BY <1>1, <1>4, Here DEF JobAt, Ending, Sending
<1>6. Checking(job[t], pc[t]) => Checking(job[t], pc'[t])
  BY <1>1, <1>4 DEF Checking, Ending, Sending
<1>7. QED
  BY <1>1, <1>2, <1>3, <1>4, <1>5, <1>6, QuietStep

-----------------------------------------------------------------------------
(* ada_sprop_mgr_send_done().                                              *)

LEMMA DoneStep ==
    ASSUME Inv, NEW t \in Task, Done(t)
    PROVE  Inv'
<1> DEFINE p == job[t].done
           again == Repend(p, job[t])
           j == [job[t] EXCEPT !.reg = echos_pending - 1,
                               !.dest = IF again THEN sprop_dest \ job[t].fail
                                                 ELSE sprop_dest]
<1>1. /\ pc[t] = "done"
      /\ UNCHANGED <<cb, dest, sending, send_q, lost_q, prop, sts, lock>>
  BY DEF Done, clientVars, mgrVars
<1>2. send_req' \in [Name -> BOOLEAN]
  <2>1. send_req' = [send_req EXCEPT ![prop[p].name] = send_req[prop[p].name] \/ again]
    BY DEF Done
  <2> HIDE DEF again
  <2>2. QED
    BY <2>1 DEF Inv, TypeOK
<1>3. CASE Counted(p)
  <2>1. /\ pc' = [pc EXCEPT ![t] = "dec"] /\ job' = [job EXCEPT ![t] = j]
    BY <1>3, Here DEF Done, Goto
  <2>2. j \in Job /\ j.new = job[t].new /\ j.done = job[t].done /\ j.from = job[t].from
    <3>1. echos_pending - 1 \in Nat
      BY <1>3 DEF Counted, Inv, TypeOK
    <3>2. (IF again THEN sprop_dest \ job[t].fail ELSE sprop_dest) \in SUBSET Dest
      BY DEF Inv, TypeOK
    <3>3. QED
      BY <3>1, <3>2, Here DEF Job
  <2> HIDE DEF j
  <2>3. job'[t] = j /\ pc'[t] = "dec"
    BY <2>1, Here
  <2>4. TypeOK'
    <3>1. job' \in [Task -> Job] /\ pc' \in [Task -> Pc]
      BY <2>1, <2>2, Here DEF Pc
    <3>2. QED
      BY <1>1, <1>2, <3>1 DEF Inv, TypeOK, Done, clientVars, mgrVars
  <2>5. JobAt(job'[t], pc'[t])
    BY <1>1, <2>2, <2>3, Here DEF JobAt, Ending, Sending
  <2>6. Checking(job[t], pc[t]) => Checking(job'[t], pc'[t])
    BY <1>1, <2>2, <2>3 DEF Checking, Ending, Sending
  <2>7. QED
    BY <1>1, <2>1, <2>2, <2>3, <2>4, <2>5, <2>6, QuietStep, Here
<1>4. CASE ~Counted(p)
  <2>1. /\ pc' = [pc EXCEPT ![t] = "free"] /\ job' = job
    BY <1>4 DEF Done, Goto
  <2>2. pc'[t] = "free" /\ pc' \in [Task -> Pc]
    BY <2>1, Here DEF Pc
  <2>3. TypeOK'
    BY <1>1, <1>2, <2>1, <2>2 DEF Inv, TypeOK, Done, clientVars, mgrVars
  <2>4. JobAt(job'[t], pc'[t])
    BY <1>1, <2>1, <2>2, Here DEF JobAt, Ending, Sending
  <2>5. Checking(job[t], pc[t]) => Checking(job'[t], pc'[t])
    BY <1>1, <2>1, <2>2 DEF Checking, Ending, Sending
  <2>6. QED
    BY <1>1, <2>1, <2>2, <2>3, <2>4, <2>5, QuietStep
<1>5. QED
  BY <1>3, <1>4

LEMMA DecStep ==
    ASSUME Inv, NEW t \in Task, Dec(t)
    PROVE  Inv'
<1>1. /\ pc[t] = "dec" /\ job' = job
      /\ pc' = [pc EXCEPT ![t] = IF Ads \in job[t].dest THEN "echo" ELSE "free"]
      /\ UNCHANGED <<cb, dest, sending, send_q, lost_q, prop, sts>>
  BY DEF Dec, Goto, clientVars, mgrVars
<1>2. pc'[t] \in {"echo", "free"} /\ pc' \in [Task -> Pc]
  BY <1>1, Here DEF Pc
<1>3. TypeOK'
  <2>1. echos_pending' \in Nat
    BY Here, JobTypes DEF Dec
  <2>2. QED
    BY <1>1, <1>2, <2>1 DEF Inv, TypeOK, Dec, clientVars, mgrVars
<1>4. JobAt(job'[t], pc'[t])
  BY <1>1, <1>2, Here DEF JobAt, Ending, Sending
<1>5. Checking(job[t], pc[t]) => Checking(job'[t], pc'[t])
  BY <1>1, <1>2 DEF Checking, Ending, Sending
<1>6. QED
  BY <1>1, <1>2, <1>3, <1>4, <1>5, QuietStep

LEMMA SendEchoStep ==
    ASSUME Inv, NEW t \in Task, SendEcho(t)
    PROVE  Inv'
<1>1. /\ pc[t] = "echo"
      /\ UNCHANGED <<cb, dest, sending, send_q, lost_q, prop, sts>>
  BY DEF SendEcho, clientVars, mgrVars
<1>2. CASE \E n \in Name : send_req[n]
  <2>1. PICK n \in Name :
          /\ send_req' = [send_req EXCEPT ![n] = FALSE]
          /\ job' = [job EXCEPT ![t].name = n, ![t].dest = sprop_dest]
          /\ pc' = [pc EXCEPT ![t] = "opt"]
    BY <1>2 DEF SendEcho, Goto
  <2> DEFINE j == [job[t] EXCEPT !.name = n, !.dest = sprop_dest]
  <2>2. job' = [job EXCEPT ![t] = j]
    BY <2>1, Here
  <2>3. j \in Job /\ j.new = job[t].new /\ j.done = job[t].done /\ j.from = job[t].from
    <3>1. sprop_dest \in SUBSET Dest
      BY DEF Inv, TypeOK
    <3>2. QED
      BY <3>1, Here DEF Job
  <2> HIDE DEF j
  <2>4. job'[t] = j /\ pc'[t] = "opt"
    BY <2>1, <2>2, Here
  <2>5. TypeOK'
    <3>1. job' \in [Task -> Job] /\ pc' \in [Task -> Pc] /\ send_req' \in [Name -> BOOLEAN]
      BY <2>1, <2>2, <2>3, Here DEF Pc, Inv, TypeOK
    <3>2. QED
      BY <1>1, <3>1 DEF Inv, TypeOK, SendEcho, clientVars, mgrVars
  <2>6. JobAt(job'[t], pc'[t])
    BY <1>1, <2>3, <2>4, Here DEF JobAt, Ending, Sending
  <2>7. Checking(job[t], pc[t]) => Checking(job'[t], pc'[t])
    BY <1>1, <2>3, <2>4 DEF Checking, Ending, Sending
  <2>8. QED
    BY <1>1, <2>1, <2>2, <2>3, <2>4, <2>5, <2>6, <2>7, QuietStep, Here
<1>3. CASE ~\E n \in Name : send_req[n]
  <2>1. /\ pc' = [pc EXCEPT ![t] = "echoed"] /\ job' = job /\ send_req' = send_req
    BY <1>3 DEF SendEcho, Goto
  <2>2. pc'[t] = "echoed" /\ pc' \in [Task -> Pc]
    BY <2>1, Here DEF Pc
  <2>3. TypeOK'
    BY <1>1, <2>1, <2>2 DEF Inv, TypeOK, SendEcho, clientVars, mgrVars
  <2>4. JobAt(job'[t], pc'[t])
    BY <1>1, <2>1, <2>2, Here DEF JobAt, Ending, Sending
  <2>5. Checking(job[t], pc[t]) => Checking(job'[t], pc'[t])
    BY <1>1, <2>1, <2>2 DEF Checking, Ending, Sending
  <2>6. QED
    BY <1>1, <2>1, <2>2, <2>3, <2>4, <2>5, QuietStep
<1>4. QED
  BY <1>2, <1>3

LEMMA EchoedStep ==
    ASSUME Inv, NEW t \in Task, Echoed(t)
    PROVE  Inv'
<1>1. /\ pc[t] = "echoed" /\ job' = job
      /\ pc' = [pc EXCEPT ![t] = IF job[t].from = "sts" THEN "listen" ELSE "free"]
      /\ UNCHANGED <<cb, dest, sending, send_q, lost_q, prop, sts>>
  BY DEF Echoed, Goto, clientVars
<1>2. /\ pc'[t] = (IF job[t].from = "sts" THEN "listen" ELSE "free")
      /\ pc' \in [Task -> Pc]
  BY <1>1, Here DEF Pc
<1>3. TypeOK'
  <2>1. enabled' \in BOOLEAN /\ ready_pend' \in BOOLEAN
    BY DEF Echoed, ReadyAfterEcho, Inv, TypeOK
  <2>2. QED
    BY <1>1, <1>2, <2>1 DEF Inv, TypeOK, Echoed, clientVars
<1>4. JobAt(job'[t], pc'[t])
  BY <1>1, <1>2, Here DEF JobAt, Ending, Sending
<1>5. Checking(job[t], pc[t]) => Checking(job'[t], pc'[t])
  BY <1>1, <1>2 DEF Checking, Ending, Sending
<1>6. QED
  BY <1>1, <1>2, <1>3, <1>4, <1>5, QuietStep

\* A prop whose end was reported is freed.
LEMMA ToHeap ==
    ASSUME NEW t \in Task, NEW p \in Prop, prop \in [Prop -> PropRec],
           job[t].new = NoProp, job[t].done = p,
           job'[t].new = NoProp, job'[t].done = NoProp,
           \A u \in Task \ {t} : job'[u] = job[u],
           prop' = [prop EXCEPT ![p] = Free], UNCHANGED <<send_q, lost_q, sending>>,
           \E place \in [Prop -> Place] : At(place)
    PROVE  \E place \in [Prop -> Place] : At(place)'
<1>1. PICK place \in [Prop -> Place] : At(place)
  OBVIOUS
<1> DEFINE to == [place EXCEPT ![p] = Heap]
<1>2. to \in [Prop -> Place] /\ to[p] = Heap /\ \A q \in Prop \ {p} : to[q] = place[q]
  BY <1>1, PlacesDiffer
<1>3. place[p] = DoneOf(t)
  BY <1>1 DEF At
<1> HIDE DEF to
<1>4. Listed(send_q, to, InSend)' /\ Listed(lost_q, to, InLost)'
  BY <1>1, <1>2, <1>3, PlacesDiffer DEF At, Listed
<1>5. \A q \in Prop : to[q] = BeingSent <=> sending' = q
  BY <1>1, <1>2, <1>3, PlacesDiffer DEF At
<1>6. \A u \in Task, q \in Prop : to[q] = NewOf(u) <=> job'[u].new = q
  BY <1>1, <1>2, <1>3, PlacesDiffer, PropDataAssumption DEF At
<1>7. \A u \in Task, q \in Prop : to[q] = DoneOf(u) <=> job'[u].done = q
  BY <1>1, <1>2, <1>3, PlacesDiffer, PropDataAssumption DEF At
<1>8. \A q \in Prop : to[q] = Heap <=> prop'[q] = Free
  BY <1>1, <1>2, <1>3, PlacesDiffer DEF At
<1>9. QED
  BY <1>2, <1>4, <1>5, <1>6, <1>7, <1>8 DEF At

LEMMA FreePropStep ==
    ASSUME Inv, NEW t \in Task, FreeProp(t)
    PROVE  Inv'
<1> DEFINE p == job[t].done
           l == IF job[t].from \in {"loop", "lost"} THEN job[t].from ELSE "idle"
<1>1. /\ pc[t] = "free" /\ job' = [job EXCEPT ![t] = NoJob]
      /\ pc' = [pc EXCEPT ![t] = l] /\ prop' = [prop EXCEPT ![p] = Free]
      /\ UNCHANGED <<cb, dest, sending, send_q, lost_q, sts>>
  BY DEF FreeProp, Goto, clientVars
<1>2. p \in Prop /\ job[t].new = NoProp
  BY <1>1, Here, JobTypes DEF JobAt, Ending
<1>3. l \in {"loop", "lost", "idle"} /\ (job[t].from = "lost" => l = "lost")
  OBVIOUS
<1> HIDE DEF l, p
<1>4. job'[t] = NoJob /\ pc'[t] = l /\ \A u \in Task \ {t} : job'[u] = job[u] /\ pc'[u] = pc[u]
  BY <1>1, Here
<1>5. TypeOK'
  <2>1. /\ job' \in [Task -> Job] /\ pc' \in [Task -> Pc] /\ prop' \in [Prop -> PropRec]
    BY <1>1, <1>3, Here, JobTypes DEF Pc
  <2>2. lock' \in Task \cup {NoTask} /\ send_pend' \in BOOLEAN
    BY DEF FreeProp, Inv, TypeOK
  <2>3. QED
    BY <1>1, <2>1, <2>2 DEF Inv, TypeOK, FreeProp, clientVars, spropVars
<1>6. JobsAgree'
  <2>1. JobAt(job'[t], pc'[t])
    BY <1>3, <1>4, JobTypes DEF JobAt, Ending, Sending
  <2>2. QED
    BY <1>4, <2>1, JobsStep DEF Inv
<1>7. SendAgrees'
  <2>1. pc'[Client] = "set" <=> pc[Client] = "set"
    BY <1>1, <1>3, <1>4, PropTaskAssumption
  <2>2. QED
    BY <1>1, <2>1, SendStays DEF Inv
<1>8. LostAgrees'
  <2>1. Checking(job[t], pc[t]) => Checking(job'[t], pc'[t])
    BY <1>1, <1>3, <1>4 DEF Checking, Ending, Sending
  <2>2. QED
    BY <1>1, <1>4, <2>1, LostGoesOn
<1>9. \E place \in [Prop -> Place] : At(place)'
  BY <1>1, <1>2, <1>4, Here, JobTypes, ToHeap DEF Inv, p
<1>10. QED
  BY <1>5, <1>6, <1>7, <1>8, <1>9 DEF Inv

-----------------------------------------------------------------------------
(* client_prop_send_done().                                                *)

\* The prop that was sent goes to the task that reports the end.
LEMMA SentToDone ==
    ASSUME NEW t \in Task, NEW p \in Prop,
           sending = p, sending' = NoProp,
           job[t].new = NoProp, job[t].done = NoProp,
           job'[t].new = NoProp, job'[t].done = p,
           \A u \in Task \ {t} : job'[u] = job[u],
           UNCHANGED <<send_q, lost_q, prop>>,
           \E place \in [Prop -> Place] : At(place)
    PROVE  \E place \in [Prop -> Place] : At(place)'
<1>1. PICK place \in [Prop -> Place] : At(place)
  OBVIOUS
<1> DEFINE to == [place EXCEPT ![p] = DoneOf(t)]
<1>2. to \in [Prop -> Place] /\ to[p] = DoneOf(t) /\ \A q \in Prop \ {p} : to[q] = place[q]
  BY <1>1, PlacesDiffer
<1>3. place[p] = BeingSent
  BY <1>1 DEF At
<1> HIDE DEF to
<1>4. Listed(send_q, to, InSend)' /\ Listed(lost_q, to, InLost)'
  BY <1>1, <1>2, <1>3, PlacesDiffer DEF At, Listed
<1>5. \A q \in Prop : to[q] = BeingSent <=> sending' = q
  BY <1>1, <1>2, <1>3, PlacesDiffer, PropDataAssumption DEF At
<1>6. \A u \in Task, q \in Prop : to[q] = NewOf(u) <=> job'[u].new = q
  BY <1>1, <1>2, <1>3, PlacesDiffer, PropDataAssumption DEF At
<1>7. \A u \in Task, q \in Prop : to[q] = DoneOf(u) <=> job'[u].done = q
  BY <1>1, <1>2, <1>3, PlacesDiffer, PropDataAssumption DEF At
<1>8. \A q \in Prop : to[q] = Heap <=> prop'[q] = Free
  BY <1>1, <1>2, <1>3, PlacesDiffer DEF At
<1>9. QED
  BY <1>2, <1>4, <1>5, <1>6, <1>7, <1>8 DEF At

\* prop_mgr_send_cb() with the end of the send of p.
LEMMA CompleteFact ==
    ASSUME NEW t \in Task, NEW p \in Prop, NEW from \in Caller,
           NEW status \in Status, NEW fail \in SUBSET Dest,
           job \in [Task -> Job], pc \in [Task -> Pc],
           from \notin {"app", "sts"}, Complete(t, p, from, status, fail)
    PROVE  /\ job' \in [Task -> Job] /\ pc' \in [Task -> Pc]
           /\ pc'[t] = "done" /\ JobAt(job'[t], pc'[t])
           /\ job'[t].new = NoProp /\ job'[t].done = p /\ job'[t].from = from
           /\ \A u \in Task \ {t} : job'[u] = job[u] /\ pc'[u] = pc[u]
<1> DEFINE j == [NoJob EXCEPT !.from = from, !.done = p,
                              !.status = status, !.fail = fail]
<1>1. job' = [job EXCEPT ![t] = j] /\ pc' = [pc EXCEPT ![t] = "done"]
  BY DEF Complete, Goto
<1>2. j \in Job /\ j.new = NoProp /\ j.done = p /\ j.from = from
  BY JobTypes DEF NoJob, Job
<1> HIDE DEF j
<1>3. job'[t] = j /\ pc'[t] = "done"
  BY <1>1
<1>4. JobAt(j, "done")
  BY <1>2, PropDataAssumption DEF JobAt, Ending, Sending
<1>5. QED
  BY <1>1, <1>2, <1>3, <1>4 DEF Pc

\* What the end of a destination does, but for the types of dest and failed.
LEMMA SendDoneFact ==
    ASSUME Inv, NEW t \in Task, pc[t] = "idle", NEW from \in {"http", "down"},
           NEW ds \in SUBSET Dest, NEW ok \in BOOLEAN, NEW err \in Status,
           dest' \subseteq DestAfter(ds), UNCHANGED <<send_q, lost_q, prop, sts>>,
           SendDone(t, from, ds, ok, err)
    PROVE  /\ cb' \in BOOLEAN /\ sending' \in Prop \cup {NoProp}
           /\ job' \in [Task -> Job] /\ pc' \in [Task -> Pc]
           /\ lock' \in Task \cup {NoTask}
           /\ dest' \in SUBSET Dest /\ FailedAfter(ds, ok) \in SUBSET Dest
           /\ JobsAgree' /\ SendAgrees' /\ LostAgrees'
           /\ \E place \in [Prop -> Place] : At(place)'
<1>1. /\ cb \in BOOLEAN /\ sending \in Prop \cup {NoProp} /\ dest \in SUBSET Dest
      /\ failed \in SUBSET Dest /\ SendAgrees
      /\ \E place \in [Prop -> Place] : At(place)
  BY DEF Inv, TypeOK
<1>2. DestAfter(ds) \in SUBSET Dest /\ FailedAfter(ds, ok) \in SUBSET Dest
  BY <1>1 DEF DestAfter, FailedAfter
<1>3. job[t].new = NoProp /\ job[t].done = NoProp /\ ~Checking(job[t], pc[t])
  BY Here DEF JobAt, Checking, Ending, Sending
<1>4. CASE cb /\ ~NotWaitedFor(ds) /\ dest \subseteq ds
  <2> DEFINE fail == FailedAfter(ds, ok)
             status == DoneStatus(fail, err)
  <2>1. /\ cb' = FALSE /\ sending' = NoProp /\ lock' = t
        /\ Complete(t, sending, from, status, fail)
    BY <1>4 DEF SendDone
  <2>2. sending \in Prop /\ (t = Client \/ pc[Client] # "set")
    BY <1>1, <1>4 DEF SendAgrees
  <2>3. status \in Status /\ fail \in SUBSET Dest
    BY <1>2 DEF DoneStatus, Status
  <2> HIDE DEF status, fail
  <2>4. /\ job' \in [Task -> Job] /\ pc' \in [Task -> Pc]
        /\ pc'[t] = "done" /\ JobAt(job'[t], pc'[t])
        /\ job'[t].new = NoProp /\ job'[t].done = sending
        /\ \A u \in Task \ {t} : job'[u] = job[u] /\ pc'[u] = pc[u]
    BY <2>1, <2>2, <2>3, Here, CompleteFact DEF Caller
  <2>5. dest' = {}
    BY <1>4 DEF DestAfter
  <2>6. pc'[Client] # "set"
    BY <2>2, <2>4, PropTaskAssumption
  <2>7. SendAgrees'
    BY <2>1, <2>5, <2>6 DEF SendAgrees
  <2>8. JobsAgree'
    BY <2>4, JobsStep DEF Inv
  <2>9. LostAgrees'
    BY <1>3, <2>4, LostGoesOn
  <2>10. \E place \in [Prop -> Place] : At(place)'
    BY <1>1, <1>3, <2>1, <2>2, <2>4, SentToDone
  <2>11. QED
    BY <1>2, <2>1, <2>4, <2>5, <2>7, <2>8, <2>9, <2>10
<1>5. CASE ~(cb /\ ~NotWaitedFor(ds) /\ dest \subseteq ds)
  <2>1. UNCHANGED <<cb, sending, pc, job, lock>>
    BY <1>5 DEF SendDone
  <2>2. SendAgrees'
    <3>1. ~cb => dest' = {}
      BY <1>1 DEF SendAgrees, DestAfter
    <3>2. QED
      BY <1>1, <2>1, <3>1 DEF SendAgrees
  <2>3. JobsAgree'
    BY <2>1 DEF Inv, JobsAgree
  <2>4. LostAgrees'
    BY <1>3, <2>1, LostGoesOn
  <2>5. \E place \in [Prop -> Place] : At(place)'
    BY <1>1, <2>1, AtStays
  <2>6. QED
    BY <1>1, <1>2, <2>1, <2>2, <2>3, <2>4, <2>5, Here
<1>6. QED
  BY <1>4, <1>5

-----------------------------------------------------------------------------
(* prop_mgr_send_next() and client_send_callback_set().                    *)

\* The client task is a task, and a step of it leaves the others alone.
LEMMA ClientIsTask == Client \in Task
  BY PropTaskAssumption

\* Elsewhere nothing is on the list of what it took off the queue.
LEMMA NotChecking ==
    ASSUME Inv, pc[Client] \notin {"lost"} \cup Ending \cup Sending
    PROVE  lost_q = <<>>
  BY DEF Inv, LostAgrees, Checking

\* A step of the client task with no job, to another place without one.
LEMMA ClientMoves ==
    ASSUME Inv, TypeOK', NEW l, pc' = [pc EXCEPT ![Client] = l],
           UNCHANGED <<cb, dest, sending, send_q, lost_q, prop, job>>, lost_q = <<>>,
           pc[Client] \notin {"set"} \cup Ending \cup Sending,
           l \notin {"set"} \cup Ending \cup Sending
    PROVE  Inv'
<1>1. pc'[Client] = l /\ \A u \in Task \ {Client} : pc'[u] = pc[u]
  BY Here, ClientIsTask
<1>2. JobsAgree'
  <2>1. JobAt(job'[Client], pc'[Client])
    BY <1>1, Here, ClientIsTask DEF JobAt, Ending, Sending
  <2>2. QED
    BY <1>1, <2>1, JobsStep DEF Inv
<1>3. SendAgrees'
  BY <1>1, SendStays DEF Inv
<1>4. LostAgrees'
  BY DEF LostAgrees
<1>5. \E place \in [Prop -> Place] : At(place)'
  BY AtStays DEF Inv
<1>6. QED
  BY <1>2, <1>3, <1>4, <1>5 DEF Inv

LEMMA SendNextCbStep ==
    ASSUME Inv, SendNextCb
    PROVE  Inv'
<1>1. /\ pc[Client] = "idle" /\ pc' = [pc EXCEPT ![Client] = "loop"]
      /\ UNCHANGED <<cb, dest, sending, send_q, lost_q, prop, sts, job>>
  BY DEF SendNextCb, ClientIdle, Goto, clientVars
<1>2. TypeOK'
  <2>1. pc' \in [Task -> Pc]
    BY <1>1, Here, ClientIsTask DEF Pc
  <2>2. QED
    BY <1>1, <2>1, ClientIsTask DEF Inv, TypeOK, SendNextCb, clientVars, spropVars
<1>3. QED
  BY <1>1, <1>2, ClientMoves, NotChecking DEF Ending, Sending

\* The next prop is taken off the queue.
LEMMA ToSending ==
    ASSUME send_q \in Seq(Prop), send_q # <<>>, sending = NoProp,
           sending' = Head(send_q), send_q' = Tail(send_q),
           UNCHANGED <<lost_q, prop, job>>,
           \E place \in [Prop -> Place] : At(place)
    PROVE  \E place \in [Prop -> Place] : At(place)'
<1>1. PICK place \in [Prop -> Place] : At(place)
  OBVIOUS
<1> DEFINE p == Head(send_q)
           to == [place EXCEPT ![p] = BeingSent]
<1>2. Distinct(send_q) /\ \A x \in Prop : place[x] = InSend <=>
                              \E i \in 1 .. Len(send_q) : send_q[i] = x
  BY <1>1 DEF At, Listed
<1>3. /\ p \in Prop /\ Distinct(send_q')
      /\ \A x \in Prop : (\E i \in 1 .. Len(send_q') : send_q'[i] = x)
                            <=> x # p /\ \E i \in 1 .. Len(send_q) : send_q[i] = x
      /\ \E i \in 1 .. Len(send_q) : send_q[i] = p
  BY <1>2, TailFact
<1>4. to \in [Prop -> Place] /\ to[p] = BeingSent /\ \A q \in Prop \ {p} : to[q] = place[q]
  BY <1>1, <1>3, PlacesDiffer
<1>5. place[p] = InSend
  BY <1>2, <1>3
<1>6. sending' = p /\ p \in Prop
  BY <1>3
<1> HIDE DEF to, p
<1>7. Listed(send_q', to, InSend)
  BY <1>2, <1>3, <1>4, PlacesDiffer DEF Listed
<1>8. Listed(lost_q', to, InLost)
  <2>1. Listed(lost_q, place, InLost)
    BY <1>1 DEF At
  <2>2. QED
    BY <1>4, <1>5, <1>6, <2>1, PlacesDiffer DEF Listed
<1>9. \A q \in Prop : to[q] = BeingSent <=> sending' = q
  BY <1>1, <1>4, <1>5, <1>6, PlacesDiffer, PropDataAssumption DEF At
<1>10. \A u \in Task, q \in Prop : to[q] = NewOf(u) <=> job'[u].new = q
  BY <1>1, <1>4, <1>5, <1>6, PlacesDiffer DEF At
<1>11. \A u \in Task, q \in Prop : to[q] = DoneOf(u) <=> job'[u].done = q
  BY <1>1, <1>4, <1>5, <1>6, PlacesDiffer DEF At
<1>12. \A q \in Prop : to[q] = Heap <=> prop'[q] = Free
  BY <1>1, <1>4, <1>5, <1>6, PlacesDiffer DEF At
<1>13. QED
  BY <1>4, <1>7, <1>8, <1>9, <1>10, <1>11, <1>12 DEF At

LEMMA LoopStep ==
    ASSUME Inv, Loop
    PROVE  Inv'
<1>1. pc[Client] = "loop" /\ UNCHANGED <<cb, dest, lost_q, prop, sts, job>>
  BY DEF Loop, clientVars
<1>2. ~Checking(job[Client], pc[Client])
  BY <1>1 DEF Checking, Ending, Sending
<1>3. CASE CanSendNext
  <2>1. /\ pc' = [pc EXCEPT ![Client] = "set"] /\ lock' = NoTask
        /\ sending = NoProp /\ send_q # <<>>
        /\ sending' = Head(send_q) /\ send_q' = Tail(send_q)
    BY <1>3 DEF Loop, Goto, CanSendNext
  <2>2. pc'[Client] = "set" /\ \A u \in Task \ {Client} : pc'[u] = pc[u]
    BY <2>1, Here, ClientIsTask
  <2>3. sending' \in Prop /\ send_q' \in Seq(Prop)
    BY <2>1, HeadTailProperties DEF Inv, TypeOK
  <2>4. TypeOK'
    <3>1. pc' \in [Task -> Pc]
      BY <2>1, Here, ClientIsTask DEF Pc
    <3>2. QED
      BY <1>1, <2>1, <2>3, <3>1 DEF Inv, TypeOK, Loop, clientVars, spropVars
  <2>5. JobsAgree'
    <3>1. JobAt(job'[Client], pc'[Client])
      BY <1>1, <2>2, Here, ClientIsTask DEF JobAt, Ending, Sending
    <3>2. QED
      BY <1>1, <2>2, <3>1, JobsStep DEF Inv
  <2>6. SendAgrees'
    BY <1>1, <2>1, <2>2, <2>3, PropDataAssumption DEF Inv, SendAgrees
  <2>7. LostAgrees'
    BY <1>1, <1>2, <2>2, LostGoesOn, ClientIsTask
  <2>8. \E place \in [Prop -> Place] : At(place)'
    BY <1>1, <2>1, ToSending DEF Inv, TypeOK
  <2>9. QED
    BY <2>4, <2>5, <2>6, <2>7, <2>8 DEF Inv
<1>4. CASE ~CanSendNext
  <2> DEFINE l == IF sts.on THEN "lost" ELSE "idle"
  <2>1. pc' = [pc EXCEPT ![Client] = l] /\ lock' = NoTask /\ UNCHANGED <<send_q, sending>>
    BY <1>4 DEF Loop, Goto
  <2>2. l \in {"lost", "idle"}
    OBVIOUS
  <2> HIDE DEF l
  <2>3. pc'[Client] = l /\ \A u \in Task \ {Client} : pc'[u] = pc[u]
    BY <2>1, Here, ClientIsTask
  <2>4. TypeOK'
    <3>1. pc' \in [Task -> Pc]
      BY <2>1, <2>2, Here, ClientIsTask DEF Pc
    <3>2. QED
      BY <1>1, <2>1, <3>1 DEF Inv, TypeOK, Loop, clientVars, spropVars
  <2>5. JobAt(job'[Client], pc'[Client])
    BY <1>1, <2>2, <2>3, Here, ClientIsTask DEF JobAt, Ending, Sending
  <2>6. QED
    BY <1>1, <1>2, <2>1, <2>2, <2>3, <2>4, <2>5, QuietStep, ClientIsTask
<1>5. QED
  BY <1>3, <1>4

LEMMA CallbackSetStep ==
    ASSUME Inv, CallbackSet
    PROVE  Inv'
<1> DEFINE d == prop[sending].dest
           left == Reachable(sending)
<1>1. /\ pc[Client] = "set" /\ dest' = left /\ failed' = d \ valid /\ overflow' = FALSE
      /\ UNCHANGED <<send_q, lost_q, prop, sts>>
  BY DEF CallbackSet
<1>2. sending \in Prop /\ ~cb /\ valid \in SUBSET Dest
  BY <1>1 DEF Inv, SendAgrees, TypeOK
<1>3. prop[sending] \in PropRec /\ d \in SUBSET Dest /\ left \in SUBSET Dest
  BY <1>2, Here, ClientIsTask DEF PropRec, Reachable
<1>4. /\ job[Client].new = NoProp /\ job[Client].done = NoProp
      /\ ~Checking(job[Client], pc[Client])
  BY <1>1, Here, ClientIsTask DEF JobAt, Checking, Ending, Sending
<1>5. CASE left = {}
  <2>1. /\ conn_update' = TRUE /\ cb' = FALSE /\ sending' = NoProp /\ lock' = Client
        /\ Complete(Client, sending, "loop", "conn_err", d \ valid)
        /\ UNCHANGED <<conn, wake>>
    BY <1>5 DEF CallbackSet
  <2> HIDE DEF left, d
  <2>2. /\ job' \in [Task -> Job] /\ pc' \in [Task -> Pc]
        /\ pc'[Client] = "done" /\ JobAt(job'[Client], pc'[Client])
        /\ job'[Client].new = NoProp /\ job'[Client].done = sending
        /\ \A u \in Task \ {Client} : job'[u] = job[u] /\ pc'[u] = pc[u]
    <3>1. d \ valid \in SUBSET Dest
      BY <1>3
    <3>2. QED
      BY <1>2, <2>1, <3>1, Here, ClientIsTask, CompleteFact DEF Caller, Status
  <2>3. TypeOK'
    BY <1>1, <1>3, <2>1, <2>2, ClientIsTask DEF Inv, TypeOK, CallbackSet, spropVars
  <2>4. JobsAgree'
    BY <2>2, JobsStep DEF Inv
  <2>5. SendAgrees'
    BY <1>1, <1>5, <2>1, <2>2 DEF SendAgrees
  <2>6. LostAgrees'
    BY <1>1, <1>4, <2>2, LostGoesOn, ClientIsTask
  <2>7. \E place \in [Prop -> Place] : At(place)'
    BY <1>1, <1>2, <1>4, <2>1, <2>2, SentToDone, ClientIsTask DEF Inv
  <2>8. QED
    BY <2>3, <2>4, <2>5, <2>6, <2>7 DEF Inv
<1>6. CASE left # {}
  <2>1. /\ cb' = TRUE /\ wake' = TRUE /\ pc' = [pc EXCEPT ![Client] = "loop"]
        /\ conn' = (IF Ads \in left /\ conn = "retry" THEN "event" ELSE conn)
        /\ UNCHANGED <<conn_update, sending, lock, job>>
    BY <1>6 DEF CallbackSet, Goto
  <2> HIDE DEF left, d
  <2>2. pc'[Client] = "loop" /\ \A u \in Task \ {Client} : pc'[u] = pc[u]
    BY <2>1, Here, ClientIsTask
  <2>3. TypeOK'
    <3>1. pc' \in [Task -> Pc] /\ conn' \in Conn
      BY <2>1, Here, ClientIsTask DEF Pc, Conn, Inv, TypeOK
    <3>2. QED
      BY <1>1, <1>3, <2>1, <3>1 DEF Inv, TypeOK, CallbackSet, spropVars
  <2>4. JobsAgree'
    <3>1. JobAt(job'[Client], pc'[Client])
      BY <1>1, <2>1, <2>2, Here, ClientIsTask DEF JobAt, Ending, Sending
    <3>2. QED
      BY <2>1, <2>2, <3>1, JobsStep DEF Inv
  <2>5. SendAgrees'
    BY <1>2, <2>1, <2>2, PropDataAssumption DEF SendAgrees
  <2>6. LostAgrees'
    BY <1>1, <1>4, <2>1, <2>2, LostGoesOn, ClientIsTask
  <2>7. \E place \in [Prop -> Place] : At(place)'
    BY <1>1, <2>1, AtStays DEF Inv
  <2>8. QED
    BY <2>3, <2>4, <2>5, <2>6, <2>7 DEF Inv
<1>7. QED
  BY <1>5, <1>6

-----------------------------------------------------------------------------
(* client_next_step().                                                     *)

LEMMA NextCbStep ==
    ASSUME Inv, NextCb
    PROVE  Inv'
<1>1. /\ pc[Client] = "idle" /\ pc' = [pc EXCEPT ![Client] = "next"]
      /\ UNCHANGED <<cb, dest, sending, send_q, lost_q, prop, job>>
  BY DEF NextCb, ClientIdle, Goto, mgrVars
<1>2. TypeOK'
  <2>1. pc' \in [Task -> Pc]
    BY <1>1, Here, ClientIsTask DEF Pc
  <2>2. QED
    BY <1>1, <2>1, ClientIsTask DEF Inv, TypeOK, NextCb, mgrVars, spropVars
<1>3. QED
  BY <1>1, <1>2, ClientMoves, NotChecking DEF Ending, Sending

LEMMA NextStepStep ==
    ASSUME Inv, NextStep
    PROVE  Inv'
<1>1. PICK l \in {"sts", "idle"} :
        /\ pc' = [pc EXCEPT ![Client] = l] /\ pc[Client] = "next" /\ lock' = NoTask
        /\ UNCHANGED <<cb, dest, sending, send_q, lost_q, prop, job>>
        /\ UNCHANGED <<valid, failed, overflow, ads_listen, wake, mgr_dest,
                       enabled, send_pend, spropVars>>
  BY DEF NextStep, NextUpdate, NextReq, NextPost, NextNothing, NextReady, Goto,
         clientVars, mgrVars
<1>2. conn' \in Conn /\ current' \in BOOLEAN /\ conn_update' \in BOOLEAN
  <2>1. CASE NextUpdate
    BY <2>1 DEF NextUpdate, Inv, TypeOK
  <2>2. ASSUME NEW keep \in BOOLEAN, NextReq(keep)
        PROVE  conn' \in Conn /\ current' \in BOOLEAN /\ conn_update' \in BOOLEAN
    BY <2>2 DEF NextReq, Inv, TypeOK, Conn
  <2>3. CASE NextPost
    BY <2>3 DEF NextPost, Inv, TypeOK, Conn
  <2>4. CASE NextNothing
    BY <2>4 DEF NextNothing, Inv, TypeOK, clientVars
  <2>5. QED
    BY <2>1, <2>2, <2>3, <2>4 DEF NextStep
<1>3. sts' \in StsArgs
  <2>1. CASE NextUpdate
    BY <2>1 DEF NextUpdate, Inv, TypeOK, StsArgs
  <2>2. CASE ~NextUpdate
    BY <2>2 DEF NextStep, NextReq, NextPost, NextNothing, Inv, TypeOK
  <2>3. QED
    BY <2>1, <2>2
<1>4. TypeOK'
  <2>1. pc' \in [Task -> Pc]
    BY <1>1, Here, ClientIsTask DEF Pc
  <2>2. QED
    BY <1>1, <1>2, <1>3, <2>1 DEF Inv, TypeOK, spropVars
<1>5. QED
  BY <1>1, <1>4, ClientMoves, NotChecking DEF Ending, Sending

-----------------------------------------------------------------------------
(* prop_mgr_connect_sts().                                                 *)

LEMMA StsStep ==
    ASSUME Inv, Sts
    PROVE  Inv'
<1>1. /\ pc[Client] = "sts" /\ sprop_dest' = sts.mask /\ enabled' \in BOOLEAN
      /\ UNCHANGED <<cb, dest, sending, send_q, lost_q, prop, sts>>
  BY DEF Sts, clientVars, Inv, TypeOK
<1>2. sprop_dest' \in SUBSET Dest
  BY <1>1 DEF Inv, TypeOK, StsArgs
<1>3. ~Checking(job[Client], pc[Client])
  BY <1>1 DEF Checking, Ending, Sending
<1>4. job[Client].new = NoProp /\ job[Client].done = NoProp
  BY <1>1, Here, ClientIsTask DEF JobAt, Ending, Sending
<1>5. CASE Ads \in sts.mask
  <2> DEFINE j == [NoJob EXCEPT !.from = "sts"]
  <2>1. job' = [job EXCEPT ![Client] = j] /\ pc' = [pc EXCEPT ![Client] = "echo"]
    BY <1>5 DEF Sts, Goto, AfterSts
  <2>2. j \in Job /\ j.new = NoProp /\ j.done = NoProp /\ j.from = "sts"
    BY JobTypes DEF NoJob, Job, Caller
  <2> HIDE DEF j
  <2>3. /\ job'[Client] = j /\ pc'[Client] = "echo"
        /\ \A u \in Task \ {Client} : job'[u] = job[u] /\ pc'[u] = pc[u]
    BY <2>1, Here, ClientIsTask
  <2>4. TypeOK'
    <3>1. pc' \in [Task -> Pc] /\ job' \in [Task -> Job]
      BY <2>1, <2>2, Here, ClientIsTask DEF Pc
    <3>2. QED
      BY <1>1, <1>2, <3>1 DEF Inv, TypeOK, Sts, clientVars
  <2>5. JobAt(job'[Client], pc'[Client])
    BY <2>2, <2>3 DEF JobAt, Ending, Sending
  <2>6. QED
    BY <1>1, <1>3, <1>4, <2>2, <2>3, <2>4, <2>5, QuietStep, ClientIsTask
<1>6. CASE Ads \notin sts.mask
  <2>1. pc' = [pc EXCEPT ![Client] = "stsend"] /\ job' = job
    BY <1>6 DEF Sts, Goto
  <2>2. TypeOK'
    <3>1. pc' \in [Task -> Pc]
      BY <2>1, Here, ClientIsTask DEF Pc
    <3>2. QED
      BY <1>1, <1>2, <2>1, <3>1 DEF Inv, TypeOK, Sts, clientVars
  <2>3. QED
    BY <1>1, <2>1, <2>2, ClientMoves, NotChecking DEF Ending, Sending
<1>7. QED
  BY <1>5, <1>6

LEMMA ListenStep ==
    ASSUME Inv, Listen
    PROVE  Inv'
<1> DEFINE l == IF sts.on THEN "stsend" ELSE "idle"
<1>1. /\ pc[Client] = "listen" /\ pc' = [pc EXCEPT ![Client] = l]
      /\ job' = [job EXCEPT ![Client] = NoJob]
      /\ UNCHANGED <<cb, dest, sending, send_q, lost_q, prop, sts>>
  BY DEF Listen, Goto, mgrVars
<1>2. l \in {"stsend", "idle"}
  OBVIOUS
<1> HIDE DEF l
<1>3. /\ job'[Client] = NoJob /\ pc'[Client] = l
      /\ \A u \in Task \ {Client} : job'[u] = job[u] /\ pc'[u] = pc[u]
  BY <1>1, Here, ClientIsTask
<1>4. job[Client].new = NoProp /\ job[Client].done = NoProp
  BY <1>1, Here, ClientIsTask DEF JobAt, Ending, Sending
<1>5. TypeOK'
  <2>1. pc' \in [Task -> Pc] /\ job' \in [Task -> Job]
    BY <1>1, <1>2, Here, ClientIsTask, JobTypes DEF Pc
  <2>2. ads_listen' \in BOOLEAN /\ wake' \in BOOLEAN
    BY DEF Listen, Inv, TypeOK
  <2>3. QED
    BY <1>1, <2>1, <2>2 DEF Inv, TypeOK, Listen, mgrVars, spropVars
<1>6. JobAt(job'[Client], pc'[Client])
  BY <1>2, <1>3, JobTypes DEF JobAt, Ending, Sending
<1>7. ~Checking(job[Client], pc[Client])
  BY <1>1 DEF Checking, Ending, Sending
<1>8. QED
  BY <1>1, <1>2, <1>3, <1>4, <1>5, <1>6, <1>7, QuietStep, ClientIsTask, JobTypes

LEMMA StsSendStep ==
    ASSUME Inv, StsSend
    PROVE  Inv'
<1> DEFINE l == IF sts.mask \subseteq mgr_dest THEN "lost" ELSE "loop"
<1>1. /\ pc[Client] = "stsend" /\ pc' = [pc EXCEPT ![Client] = l]
      /\ UNCHANGED <<cb, dest, sending, send_q, lost_q, prop, job>>
  BY DEF StsSend, Goto, clientVars
<1>2. l \in {"lost", "loop"}
  OBVIOUS
<1> HIDE DEF l
<1>3. TypeOK'
  <2>1. pc' \in [Task -> Pc]
    BY <1>1, <1>2, Here, ClientIsTask DEF Pc
  <2>2. mgr_dest' \in SUBSET Dest /\ sts' \in StsArgs
    BY DEF StsSend, Inv, TypeOK, StsArgs
  <2>3. QED
    BY <1>1, <2>1, <2>2 DEF Inv, TypeOK, StsSend, clientVars, spropVars
<1>4. QED
  BY <1>1, <1>2, <1>3, ClientMoves, NotChecking DEF Ending, Sending

LEMMA StsEndStep ==
    ASSUME Inv, StsEnd
    PROVE  Inv'
<1>1. /\ pc[Client] = "lost" /\ pc' = [pc EXCEPT ![Client] = "next"] /\ lost_q = <<>>
      /\ UNCHANGED <<cb, dest, sending, send_q, lost_q, prop, job>>
  BY DEF StsEnd, Goto, clientVars, mgrVars
<1>2. TypeOK'
  <2>1. pc' \in [Task -> Pc]
    BY <1>1, Here, ClientIsTask DEF Pc
  <2>2. QED
    BY <1>1, <2>1, ClientIsTask, JobTypes DEF Inv, TypeOK, StsEnd, clientVars, mgrVars,
       spropVars
<1>3. QED
  BY <1>1, <1>2, ClientMoves DEF Ending, Sending

LEMMA ReadyCbStep ==
    ASSUME Inv, ReadyCb
    PROVE  Inv'
<1>1. /\ pc[Client] = "idle" /\ enabled' \in BOOLEAN /\ ready_pend' = FALSE
      /\ pc' \in {pc, [pc EXCEPT ![Client] = "listen"]}
      /\ UNCHANGED <<cb, dest, sending, send_q, lost_q, prop, job>>
  BY DEF ReadyCb, ClientIdle, Goto, clientVars, Inv, TypeOK
<1>2. PICK l \in {"idle", "listen"} : pc' = [pc EXCEPT ![Client] = l]
  <2>1. CASE pc' = pc
    <3>1. pc = [pc EXCEPT ![Client] = pc[Client]]
      BY Here, ClientIsTask
    <3>2. QED
      BY <1>1, <2>1, <3>1
  <2>2. CASE pc' = [pc EXCEPT ![Client] = "listen"]
    BY <2>2
  <2>3. QED
    BY <1>1, <2>1, <2>2
<1>3. TypeOK'
  <2>1. pc' \in [Task -> Pc]
    BY <1>2, Here, ClientIsTask DEF Pc
  <2>2. QED
    BY <1>1, <2>1 DEF Inv, TypeOK, ReadyCb, clientVars
<1>4. QED
  BY <1>1, <1>2, <1>3, ClientMoves, NotChecking DEF Ending, Sending

\* What can no longer be sent goes to the list of what is failed.
LEMMA ToLost ==
    ASSUME TypeOK, lost_q = <<>>, NEW I \in SUBSET (1 .. Len(send_q)),
           lost_q' \in Picked(send_q, I),
           send_q' \in Picked(send_q, (1 .. Len(send_q)) \ I),
           UNCHANGED <<prop, sending, job>>,
           \E place \in [Prop -> Place] : At(place)
    PROVE  \E place \in [Prop -> Place] : At(place)'
<1>1. PICK place \in [Prop -> Place] : At(place)
  OBVIOUS
<1> DEFINE D == 1 .. Len(send_q)
           Lost(x) == \E k \in I : send_q[k] = x
           to == [x \in Prop |-> IF Lost(x) THEN InLost ELSE place[x]]
<1>2. send_q \in Seq(Prop) /\ lost_q \in Seq(Prop) /\ \A i \in D : send_q[i] \in Prop
  BY DEF TypeOK
<1>3. Distinct(send_q) /\ \A x \in Prop : place[x] = InSend <=>
                              \E i \in D : send_q[i] = x
  BY <1>1 DEF At, Listed
<1>4. /\ \A i \in 1 .. Len(lost_q') : \E k \in I : lost_q'[i] = send_q[k]
      /\ \A k \in I : \E i \in 1 .. Len(lost_q') : lost_q'[i] = send_q[k]
      /\ Distinct(lost_q')
  BY <1>2, <1>3, PickedFact
<1>5. /\ \A i \in 1 .. Len(send_q') : \E k \in D \ I : send_q'[i] = send_q[k]
      /\ \A k \in D \ I : \E i \in 1 .. Len(send_q') : send_q'[i] = send_q[k]
      /\ Distinct(send_q')
  <2> DEFINE K == D \ I
             r == send_q'
  <2>1. K \in SUBSET (1 .. Len(send_q)) /\ r \in Picked(send_q, K) /\ Distinct(send_q)
    BY <1>3
  <2> HIDE DEF K, r
  <2>2. /\ \A i \in 1 .. Len(r) : \E k \in K : r[i] = send_q[k]
        /\ \A k \in K : \E i \in 1 .. Len(r) : r[i] = send_q[k]
        /\ Distinct(r)
    BY <1>2, <2>1, PickedFact
  <2>3. QED
    BY <2>2 DEF K, r
<1>6. \A x \in Prop : place[x] # InLost
  <2>1. \A x \in Prop : place[x] = InLost <=> \E i \in 1 .. Len(lost_q) : lost_q[i] = x
    BY <1>1 DEF At, Listed
  <2>2. 1 .. Len(lost_q) = {}
    OBVIOUS
  <2>3. QED
    BY <2>1, <2>2
<1>7. /\ to \in [Prop -> Place]
      /\ \A x \in Prop : to[x] = IF Lost(x) THEN InLost ELSE place[x]
  BY <1>1, PlacesDiffer
<1>8. \A x \in Prop : Lost(x) => place[x] = InSend
  BY <1>3
<1>9. \A x \in Prop : to[x] = InLost <=> Lost(x)
  BY <1>6, <1>7
<1>10. \A x \in Prop : to[x] = InSend <=> \E k \in D \ I : send_q[k] = x
  <2>1. ASSUME NEW x \in Prop, NEW k \in D \ I, send_q[k] = x
        PROVE  ~Lost(x)
    BY <1>3, <2>1 DEF Distinct
  <2>2. ASSUME NEW x \in Prop, NEW k \in D, send_q[k] = x, ~Lost(x)
        PROVE  k \in D \ I
    BY <2>2
  <2> HIDE DEF Lost, D
  <2>3. ASSUME NEW x \in Prop, to[x] = InSend
        PROVE  \E k \in D \ I : send_q[k] = x
    <3>1. ~Lost(x) /\ place[x] = InSend
      BY <1>7, <2>3, PlacesDiffer
    <3>2. PICK k \in D : send_q[k] = x
      BY <1>3, <3>1
    <3>3. QED
      BY <2>2, <3>1, <3>2
  <2>4. ASSUME NEW x \in Prop, NEW k \in D \ I, send_q[k] = x
        PROVE  to[x] = InSend
    BY <1>3, <1>7, <2>1, <2>4
  <2>5. QED
    BY <2>3, <2>4
<1>11. \A x \in Prop, y \in Place \ {InSend, InLost} : to[x] = y <=> place[x] = y
  BY <1>6, <1>7, <1>8
<1>12. Listed(lost_q', to, InLost)
  BY <1>4, <1>9 DEF Listed
<1> HIDE DEF to, Lost, D
<1>13. Listed(send_q', to, InSend)
  BY <1>5, <1>10 DEF Listed
<1>14. \A q \in Prop : to[q] = BeingSent <=> sending' = q
  BY <1>1, <1>11, PlacesDiffer DEF At
<1>15. \A u \in Task, q \in Prop : to[q] = NewOf(u) <=> job'[u].new = q
  BY <1>1, <1>11, PlacesDiffer DEF At
<1>16. \A u \in Task, q \in Prop : to[q] = DoneOf(u) <=> job'[u].done = q
  BY <1>1, <1>11, PlacesDiffer DEF At
<1>17. \A q \in Prop : to[q] = Heap <=> prop'[q] = Free
  BY <1>1, <1>11, PlacesDiffer DEF At
<1>18. QED
  BY <1>7, <1>12, <1>13, <1>14, <1>15, <1>16, <1>17 DEF At

LEMMA LostCheckStep ==
    ASSUME Inv, LostCheck
    PROVE  Inv'
<1> DEFINE I == {i \in 1 .. Len(send_q) : prop[send_q[i]].dest \cap sts.mask = {}}
<1>1. /\ pc[Client] = "lost" /\ sts.lost # {} /\ sts' = [sts EXCEPT !.lost = {}]
      /\ lost_q' \in Picked(send_q, I)
      /\ send_q' \in Picked(send_q, (1 .. Len(send_q)) \ I)
      /\ UNCHANGED <<cb, dest, sending, prop, job, pc>>
  BY DEF LostCheck, clientVars
<1>2. I \in SUBSET (1 .. Len(send_q)) /\ (1 .. Len(send_q)) \ I \in SUBSET (1 .. Len(send_q))
  OBVIOUS
<1> HIDE DEF I
<1>3. send_q' \in Seq(Prop) /\ lost_q' \in Seq(Prop)
  BY <1>1, <1>2, PickedFact DEF Inv, TypeOK
<1>4. sts' \in StsArgs /\ sts'.lost = {}
  BY <1>1 DEF Inv, TypeOK, StsArgs
<1>5. TypeOK'
  BY <1>1, <1>3, <1>4 DEF Inv, TypeOK, LostCheck, clientVars, spropVars
<1>6. JobsAgree' /\ SendAgrees'
  BY <1>1 DEF Inv, JobsAgree, SendAgrees
<1>7. LostAgrees'
  BY <1>1, <1>4 DEF LostAgrees, Checking
<1>8. \E place \in [Prop -> Place] : At(place)'
  BY <1>1, <1>2, ToLost DEF Inv, LostAgrees
<1>9. QED
  BY <1>5, <1>6, <1>7, <1>8 DEF Inv

\* The client task fails the first of them.
LEMMA LostToDone ==
    ASSUME NEW p \in Prop, lost_q \in Seq(Prop), lost_q # <<>>, p = Head(lost_q),
           lost_q' = Tail(lost_q),
           job[Client].new = NoProp, job[Client].done = NoProp,
           job'[Client].new = NoProp, job'[Client].done = p,
           \A u \in Task \ {Client} : job'[u] = job[u],
           UNCHANGED <<send_q, prop, sending>>,
           \E place \in [Prop -> Place] : At(place)
    PROVE  \E place \in [Prop -> Place] : At(place)'
<1>1. PICK place \in [Prop -> Place] : At(place)
  OBVIOUS
<1> DEFINE to == [place EXCEPT ![p] = DoneOf(Client)]
<1>2. Distinct(lost_q) /\ \A x \in Prop : place[x] = InLost <=>
                              \E i \in 1 .. Len(lost_q) : lost_q[i] = x
  BY <1>1 DEF At, Listed
<1>3. /\ Distinct(lost_q')
      /\ \A x \in Prop : (\E i \in 1 .. Len(lost_q') : lost_q'[i] = x)
                            <=> x # p /\ \E i \in 1 .. Len(lost_q) : lost_q[i] = x
      /\ \E i \in 1 .. Len(lost_q) : lost_q[i] = p
  BY <1>2, TailFact
<1>4. /\ to \in [Prop -> Place] /\ to[p] = DoneOf(Client)
      /\ \A q \in Prop \ {p} : to[q] = place[q]
  BY <1>1, PlacesDiffer, ClientIsTask
<1>5. place[p] = InLost
  BY <1>2, <1>3
<1> HIDE DEF to
<1>6. Listed(lost_q', to, InLost)
  BY <1>2, <1>3, <1>4, PlacesDiffer, ClientIsTask DEF Listed
<1>7. Listed(send_q', to, InSend)
  <2>1. Listed(send_q, place, InSend)
    BY <1>1 DEF At
  <2>2. QED
    BY <1>4, <1>5, <2>1, PlacesDiffer, ClientIsTask DEF Listed
<1>8. \A q \in Prop : to[q] = BeingSent <=> sending' = q
  BY <1>1, <1>4, <1>5, PlacesDiffer, ClientIsTask DEF At
<1>9. \A u \in Task, q \in Prop : to[q] = NewOf(u) <=> job'[u].new = q
  BY <1>1, <1>4, <1>5, PlacesDiffer, ClientIsTask, PropDataAssumption DEF At
<1>10. \A u \in Task, q \in Prop : to[q] = DoneOf(u) <=> job'[u].done = q
  BY <1>1, <1>4, <1>5, PlacesDiffer, ClientIsTask, PropDataAssumption DEF At
<1>11. \A q \in Prop : to[q] = Heap <=> prop'[q] = Free
  BY <1>1, <1>4, <1>5, PlacesDiffer, ClientIsTask DEF At
<1>12. QED
  BY <1>4, <1>6, <1>7, <1>8, <1>9, <1>10, <1>11 DEF At

LEMMA LostFailStep ==
    ASSUME Inv, LostFail
    PROVE  Inv'
<1> DEFINE p == Head(lost_q)
<1>1. /\ pc[Client] = "lost" /\ sts.lost = {} /\ lost_q # <<>> /\ lost_q' = Tail(lost_q)
      /\ Complete(Client, p, "lost", "conn_err", prop[p].dest)
      /\ UNCHANGED <<cb, dest, sending, send_q, prop, sts>>
  BY DEF LostFail, clientVars
<1>2. p \in Prop /\ lost_q \in Seq(Prop) /\ lost_q' \in Seq(Prop)
  BY <1>1, HeadTailProperties DEF Inv, TypeOK
<1>3. p = Head(lost_q)
  OBVIOUS
<1> HIDE DEF p
<1>4. prop[p].dest \in SUBSET Dest
  BY <1>2, Here, ClientIsTask DEF PropRec
<1>5. /\ job' \in [Task -> Job] /\ pc' \in [Task -> Pc]
      /\ pc'[Client] = "done" /\ JobAt(job'[Client], pc'[Client])
      /\ job'[Client].new = NoProp /\ job'[Client].done = p /\ job'[Client].from = "lost"
      /\ \A u \in Task \ {Client} : job'[u] = job[u] /\ pc'[u] = pc[u]
  BY <1>1, <1>2, <1>4, Here, ClientIsTask, CompleteFact DEF Caller, Status
<1>6. job[Client].new = NoProp /\ job[Client].done = NoProp
  BY <1>1, Here, ClientIsTask DEF JobAt, Ending, Sending
<1>7. TypeOK'
  BY <1>1, <1>2, <1>5 DEF Inv, TypeOK, LostFail, clientVars, spropVars
<1>8. JobsAgree'
  BY <1>5, JobsStep DEF Inv
<1>9. SendAgrees'
  BY <1>1, <1>5, SendStays DEF Inv
<1>10. LostAgrees'
  BY <1>1, <1>5 DEF LostAgrees, Checking, Ending
<1>11. \E place \in [Prop -> Place] : At(place)'
  BY <1>1, <1>2, <1>3, <1>5, <1>6, LostToDone DEF Inv
<1>12. QED
  BY <1>7, <1>8, <1>9, <1>10, <1>11 DEF Inv

-----------------------------------------------------------------------------
(* How requests end, LAN sessions, and ada_client_down() and _up().        *)

\* A step that only changes what the client knows of its connections.
LEMMA ConnStays ==
    ASSUME Inv, UNCHANGED <<cb, dest, sending, send_q, lost_q, prop, taskVars>>,
           UNCHANGED <<failed, mgr_dest, enabled, send_pend, sprop_dest,
                       echos_pending, ready_pend>>,
           valid' \in SUBSET Dest, conn' \in Conn, send_req' \in [Name -> BOOLEAN],
           overflow' \in BOOLEAN, current' \in BOOLEAN, conn_update' \in BOOLEAN,
           ads_listen' \in BOOLEAN, wake' \in BOOLEAN
    PROVE  Inv'
<1>1. TypeOK'
  BY DEF Inv, TypeOK, taskVars
<1>2. JobsAgree' /\ SendAgrees' /\ LostAgrees'
  BY DEF Inv, JobsAgree, SendAgrees, LostAgrees, taskVars
<1>3. \E place \in [Prop -> Place] : At(place)'
  BY AtStays DEF Inv, taskVars
<1>4. QED
  BY <1>1, <1>2, <1>3 DEF Inv

LEMMA ConnStep ==
    ASSUME Inv,
           \/ ReqOk \/ (\E o \in {"closed", "timeout"} : Again(o)) \/ RetryTimeout
           \/ (\E d \in Lan : LanUp(d) \/ LanClear(d)) \/ (\E n \in Name : LanSet(n))
           \/ (\E t \in Wifi : Up(t))
    PROVE  Inv'
<1>1. CASE ReqOk
  BY <1>1, ConnStays, PropDataAssumption DEF ReqOk, Inv, TypeOK, Conn, mgrVars,
     spropVars
<1>2. ASSUME NEW o \in {"closed", "timeout"}, Again(o) PROVE Inv'
  BY <1>2, ConnStays DEF Again, ToEvent, Inv, TypeOK, Conn, mgrVars, spropVars
<1>3. CASE RetryTimeout
  BY <1>3, ConnStays DEF RetryTimeout, ToEvent, Inv, TypeOK, Conn, mgrVars, spropVars
<1>4. ASSUME NEW d \in Lan, LanUp(d) PROVE Inv'
  BY <1>4, ConnStays DEF LanUp, Lan, Inv, TypeOK, mgrVars, spropVars
<1>5. ASSUME NEW d \in Lan, LanClear(d) PROVE Inv'
  BY <1>5, ConnStays DEF LanClear, LanClearout, Inv, TypeOK, mgrVars, spropVars
<1>6. ASSUME NEW n \in Name, LanSet(n) PROVE Inv'
  BY <1>6, ConnStays DEF LanSet, Inv, TypeOK, clientVars, mgrVars
<1>7. ASSUME NEW t \in Wifi, Up(t) PROVE Inv'
  BY <1>7, ConnStays DEF Up, Inv, TypeOK, Conn, mgrVars, spropVars
<1>8. QED
  BY <1>1, <1>2, <1>3, <1>4, <1>5, <1>6, <1>7

\* A step that ends destinations ds of the send, and what is left to say of it.
LEMMA EndStep ==
    ASSUME Inv, NEW t \in Task, pc[t] = "idle", NEW from \in {"http", "down"},
           NEW ds \in SUBSET Dest, NEW ok \in BOOLEAN, NEW err \in Status,
           dest' \subseteq DestAfter(ds), failed' \in {FailedAfter(ds, ok), {}},
           SendDone(t, from, ds, ok, err),
           UNCHANGED <<send_q, lost_q, prop, sts, mgr_dest, enabled, send_pend,
                       spropVars>>,
           valid' \in SUBSET Dest, conn' \in Conn,
           overflow' \in BOOLEAN, current' \in BOOLEAN, conn_update' \in BOOLEAN,
           ads_listen' \in BOOLEAN, wake' \in BOOLEAN
    PROVE  Inv'
<1>1. /\ cb' \in BOOLEAN /\ sending' \in Prop \cup {NoProp}
      /\ job' \in [Task -> Job] /\ pc' \in [Task -> Pc]
      /\ lock' \in Task \cup {NoTask}
      /\ dest' \in SUBSET Dest /\ FailedAfter(ds, ok) \in SUBSET Dest
      /\ JobsAgree' /\ SendAgrees' /\ LostAgrees'
      /\ \E place \in [Prop -> Place] : At(place)'
  BY SendDoneFact
<1>2. failed' \in SUBSET Dest
  BY <1>1
<1>3. TypeOK'
  BY <1>1, <1>2 DEF Inv, TypeOK, spropVars
<1>4. QED
  BY <1>1, <1>3 DEF Inv

LEMMA HttpEndStep ==
    ASSUME Inv,
           \/ PostOk \/ (\E o \in {"timeout", "s4xx", "s5xx"} : ReqError(o))
           \/ (\E err \in {"conn_err", "ads_err"} : AdsLost(err))
    PROVE  Inv'
<1> USE ClientIsTask
<1>1. {Ads} \in SUBSET Dest /\ TRUE \in BOOLEAN /\ FALSE \in BOOLEAN
  BY PropDataAssumption
<1>2. CASE PostOk
  <2>1. /\ pc[Client] = "idle" /\ dest' = DestAfter({Ads})
        /\ failed' = FailedAfter({Ads}, TRUE)
        /\ SendDone(Client, "http", {Ads}, TRUE, "conn_err")
        /\ UNCHANGED <<send_q, lost_q, prop, sts, mgr_dest, enabled, send_pend,
                       spropVars>>
    BY <1>2 DEF PostOk, ClientIdle
  <2>2. /\ valid' \in SUBSET Dest /\ conn' \in Conn
        /\ overflow' \in BOOLEAN /\ current' \in BOOLEAN /\ conn_update' \in BOOLEAN
        /\ ads_listen' \in BOOLEAN /\ wake' \in BOOLEAN
    BY <1>2 DEF PostOk, ToEvent, Inv, TypeOK, Conn
  <2>3. QED
    BY <1>1, <2>1, <2>2, EndStep DEF Status
<1>3. ASSUME NEW o \in {"timeout", "s4xx", "s5xx"}, ReqError(o) PROVE Inv'
  <2> DEFINE err == IF o = "s4xx" THEN "ads_err" ELSE "conn_err"
  <2>1. /\ pc[Client] = "idle" /\ dest' = DestAfter({Ads})
        /\ failed' = FailedAfter({Ads}, FALSE)
        /\ SendDone(Client, "http", {Ads}, FALSE, err)
        /\ UNCHANGED <<send_q, lost_q, prop, sts, mgr_dest, enabled, send_pend,
                       spropVars>>
    BY <1>3 DEF ReqError, ClientIdle
  <2>2. /\ valid' \in SUBSET Dest /\ conn' \in Conn
        /\ overflow' \in BOOLEAN /\ current' \in BOOLEAN /\ conn_update' \in BOOLEAN
        /\ ads_listen' \in BOOLEAN /\ wake' \in BOOLEAN
    BY <1>3 DEF ReqError, ToEvent, Inv, TypeOK, Conn
  <2>3. err \in Status
    BY DEF Status
  <2> HIDE DEF err
  <2>4. QED
    BY <1>1, <2>1, <2>2, <2>3, EndStep
<1>4. ASSUME NEW err \in {"conn_err", "ads_err"}, AdsLost(err) PROVE Inv'
  <2>1. /\ pc[Client] = "idle" /\ dest' = DestAfter({Ads})
        /\ failed' = FailedAfter({Ads}, FALSE)
        /\ SendDone(Client, "http", {Ads}, FALSE, err)
        /\ UNCHANGED <<send_q, lost_q, prop, sts, mgr_dest, enabled, send_pend,
                       spropVars>>
    BY <1>4 DEF AdsLost, ClientIdle
  <2>2. /\ valid' \in SUBSET Dest /\ conn' \in Conn
        /\ overflow' \in BOOLEAN /\ current' \in BOOLEAN /\ conn_update' \in BOOLEAN
        /\ ads_listen' \in BOOLEAN /\ wake' \in BOOLEAN
    BY <1>4 DEF AdsLost, Inv, TypeOK, Conn
  <2>3. err \in Status
    BY DEF Status
  <2>4. QED
    BY <1>1, <2>1, <2>2, <2>3, EndStep
<1>5. QED
  BY <1>2, <1>3, <1>4

LEMMA LanEndStep ==
    ASSUME Inv, NEW d \in Lan, LanPostOk(d) \/ LanDown(d)
    PROVE  Inv'
<1> USE ClientIsTask
<1>1. {d} \in SUBSET Dest /\ TRUE \in BOOLEAN /\ FALSE \in BOOLEAN
  BY DEF Lan
<1>2. CASE LanPostOk(d)
  <2>1. /\ pc[Client] = "idle" /\ dest' = DestAfter({d})
        /\ failed' = FailedAfter({d}, TRUE)
        /\ SendDone(Client, "http", {d}, TRUE, "conn_err")
        /\ UNCHANGED <<send_q, lost_q, prop, sts, mgr_dest, enabled, send_pend,
                       spropVars>>
    BY <1>2 DEF LanPostOk, ClientIdle
  <2>2. /\ valid' \in SUBSET Dest /\ conn' \in Conn
        /\ overflow' \in BOOLEAN /\ current' \in BOOLEAN /\ conn_update' \in BOOLEAN
        /\ ads_listen' \in BOOLEAN /\ wake' \in BOOLEAN
    BY <1>2 DEF LanPostOk, Inv, TypeOK
  <2>3. QED
    BY <1>1, <2>1, <2>2, EndStep DEF Status
<1>3. CASE LanDown(d)
  <2>1. /\ pc[Client] = "idle" /\ dest' = DestAfter({d})
        /\ failed' = FailedAfter({d}, FALSE)
        /\ SendDone(Client, "http", {d}, FALSE, "conn_err")
        /\ UNCHANGED <<send_q, lost_q, prop, sts, mgr_dest, enabled, send_pend,
                       spropVars>>
    BY <1>3 DEF LanDown, ClientIdle
  <2>2. /\ valid' \in SUBSET Dest /\ conn' \in Conn
        /\ overflow' \in BOOLEAN /\ current' \in BOOLEAN /\ conn_update' \in BOOLEAN
        /\ ads_listen' \in BOOLEAN /\ wake' \in BOOLEAN
    BY <1>3 DEF LanDown, LanClearout, Inv, TypeOK
  <2>3. QED
    BY <1>1, <2>1, <2>2, EndStep DEF Status
<1>4. QED
  BY <1>2, <1>3

LEMMA DownStep ==
    ASSUME Inv, NEW t \in Wifi, Down(t)
    PROVE  Inv'
<1>1. t \in Task
  BY PropTaskAssumption
<1>2. valid \in SUBSET Dest /\ FALSE \in BOOLEAN
  BY DEF Inv, TypeOK
<1>3. /\ pc[t] = "idle" /\ dest' \subseteq DestAfter(valid)
      /\ failed' \in {FailedAfter(valid, FALSE), {}}
      /\ SendDone(t, "down", valid, FALSE, "conn_err")
      /\ UNCHANGED <<send_q, lost_q, prop, sts, mgr_dest, enabled, send_pend,
                     spropVars>>
  BY DEF Down
<1>4. /\ valid' \in SUBSET Dest /\ conn' \in Conn
      /\ overflow' \in BOOLEAN /\ current' \in BOOLEAN /\ conn_update' \in BOOLEAN
      /\ ads_listen' \in BOOLEAN /\ wake' \in BOOLEAN
  BY DEF Down, Inv, TypeOK, Conn
<1>5. QED
  BY <1>1, <1>2, <1>3, <1>4, EndStep DEF Status

-----------------------------------------------------------------------------
(* The invariant holds.                                                    *)

LEMMA InitInv == Init => Inv
<1> SUFFICES ASSUME Init PROVE Inv
  OBVIOUS
<1>1. /\ pc = [t \in Task |-> "idle"] /\ job = [t \in Task |-> NoJob]
      /\ prop = [p \in Prop |-> Free] /\ send_q = <<>> /\ lost_q = <<>>
      /\ sending = NoProp /\ cb = FALSE /\ dest = {}
  BY DEF Init
<1>2. TypeOK
  <2>1. pc \in [Task -> Pc] /\ job \in [Task -> Job] /\ prop \in [Prop -> PropRec]
    BY <1>1, JobTypes DEF Pc
  <2>2. send_q \in Seq(Prop) /\ lost_q \in Seq(Prop)
    BY <1>1
  <2>3. send_req \in [Name -> BOOLEAN] /\ conn \in Conn
    BY DEF Init, Conn
  <2>4. QED
    BY <2>1, <2>2, <2>3, JobTypes DEF Init, TypeOK
<1>3. JobsAgree
  BY <1>1, JobTypes DEF JobsAgree, JobAt, Ending, Sending
<1>4. SendAgrees
  BY <1>1, ClientIsTask DEF SendAgrees
<1>5. LostAgrees
  BY <1>1 DEF LostAgrees
<1>6. \E place \in [Prop -> Place] : At(place)
  <2> DEFINE place == [p \in Prop |-> Heap]
  <2>1. place \in [Prop -> Place] /\ \A p \in Prop : place[p] = Heap
    BY PlacesDiffer
  <2> HIDE DEF place
  <2>2. 1 .. Len(<<>>) = {}
    OBVIOUS
  <2>3. Listed(send_q, place, InSend) /\ Listed(lost_q, place, InLost)
    BY <1>1, <2>1, <2>2, PlacesDiffer DEF Listed, Distinct
  <2>4. At(place)
    BY <1>1, <2>1, <2>3, PlacesDiffer, JobTypes, PropDataAssumption DEF At
  <2>5. QED
    BY <2>1, <2>4
<1>7. QED
  BY <1>2, <1>3, <1>4, <1>5, <1>6 DEF Inv

LEMMA StutterStep ==
    ASSUME Inv, UNCHANGED vars
    PROVE  Inv'
<1>1. UNCHANGED <<cb, dest, sending, send_q, lost_q, prop, taskVars>>
  BY DEF vars, clientVars, mgrVars
<1>2. TypeOK'
  BY DEF Inv, TypeOK, vars, clientVars, mgrVars, spropVars, taskVars
<1>3. JobsAgree' /\ SendAgrees' /\ LostAgrees'
  BY <1>1 DEF Inv, JobsAgree, SendAgrees, LostAgrees, taskVars
<1>4. \E place \in [Prop -> Place] : At(place)'
  BY <1>1, AtStays DEF Inv, taskVars
<1>5. QED
  BY <1>2, <1>3, <1>4 DEF Inv

LEMMA NextInv == Inv /\ [Next]_vars => Inv'
<1> SUFFICES ASSUME Inv, [Next]_vars PROVE Inv'
  OBVIOUS
<1>1. ASSUME NEW t \in App, NEW n \in Name, Send(t, n) PROVE Inv'
  BY <1>1, SendStep, PropTaskAssumption
<1>2. ASSUME NEW t \in Task, SendOpt(t) PROVE Inv'
  BY <1>2, OptStep, EnqStep, LoadStep, StoreStep DEF SendOpt
<1>3. ASSUME NEW t \in Task, Completion(t) PROVE Inv'
  BY <1>3, DoneStep, DecStep, SendEchoStep, EchoedStep, FreePropStep DEF Completion
<1>4. CASE SendNextCb \/ Loop \/ CallbackSet
  BY <1>4, SendNextCbStep, LoopStep, CallbackSetStep
<1>5. CASE NextCb \/ NextStep \/ ReadyCb
  BY <1>5, NextCbStep, NextStepStep, ReadyCbStep
<1>6. CASE ConnectSts
  BY <1>6, StsStep, ListenStep, StsSendStep, LostCheckStep, LostFailStep, StsEndStep
     DEF ConnectSts
<1>7. CASE Environment
  BY <1>7, ConnStep, HttpEndStep, LanEndStep, DownStep DEF Environment, HttpEnd, LanEnd
<1>8. CASE UNCHANGED vars
  BY <1>8, StutterStep
<1>9. QED
  BY <1>1, <1>2, <1>3, <1>4, <1>5, <1>6, <1>7, <1>8 DEF Next

THEOREM InvHolds == Spec => []Inv
  BY InitInv, NextInv, PTL DEF Spec

-----------------------------------------------------------------------------
(* Ownership, counted.                                                     *)

\* How often a list has a prop.
LEMMA TimesFact ==
    ASSUME NEW q \in Seq(Prop), NEW place, NEW x, Listed(q, place, x), NEW p \in Prop
    PROVE  Times(q, p) = IF place[p] = x THEN 1 ELSE 0
<1> DEFINE I == {i \in DOMAIN q : q[i] = p}
<1>1. I = {i \in 1 .. Len(q) : q[i] = p}
  OBVIOUS
<1>2. CASE place[p] = x
  <2>1. PICK i \in 1 .. Len(q) : q[i] = p
    BY <1>2 DEF Listed
  <2>2. I = {i}
    BY <1>1, <2>1 DEF Listed, Distinct
  <2>3. QED
    BY <1>2, <2>2, FS_Singleton DEF Times
<1>3. CASE place[p] # x
  <2>1. I = {}
    BY <1>1, <1>3 DEF Listed
  <2>2. QED
    BY <1>3, <2>1, FS_EmptySet DEF Times
<1>4. QED
  BY <1>2, <1>3

\* How many tasks have it in their hands.
LEMMA HoldersFact ==
    ASSUME NEW place \in [Prop -> Place], At(place), NEW p \in Prop
    PROVE  Holders(p) = IF \E t \in Task : place[p] \in {NewOf(t), DoneOf(t)}
                        THEN 1 ELSE 0
<1> DEFINE N == {t \in Task : job[t].new = p}
           D == {t \in Task : job[t].done = p}
<1>1. /\ \A t \in Task : t \in N <=> place[p] = NewOf(t)
      /\ \A t \in Task : t \in D <=> place[p] = DoneOf(t)
  BY DEF At
<1>2. Holders(p) = Cardinality(N) + Cardinality(D)
  BY DEF Holders
<1>3. N \subseteq Task /\ D \subseteq Task
  OBVIOUS
<1> HIDE DEF N, D
<1>4. ASSUME NEW t \in Task, place[p] = NewOf(t) PROVE Holders(p) = 1
  <2>1. N = {t}
    BY <1>1, <1>3, <1>4, PlacesDiffer
  <2>2. D = {}
    BY <1>1, <1>3, <1>4, PlacesDiffer
  <2>3. Cardinality(N) = 1
    BY <2>1, FS_Singleton
  <2>4. Cardinality(D) = 0
    BY <2>2, FS_EmptySet
  <2>5. QED
    BY <1>2, <2>3, <2>4
<1>5. ASSUME NEW t \in Task, place[p] = DoneOf(t) PROVE Holders(p) = 1
  <2>1. D = {t}
    BY <1>1, <1>3, <1>5, PlacesDiffer
  <2>2. N = {}
    BY <1>1, <1>3, <1>5, PlacesDiffer
  <2>3. QED
    BY <1>2, <2>1, <2>2, FS_Singleton, FS_EmptySet
<1>6. ASSUME ~\E t \in Task : place[p] \in {NewOf(t), DoneOf(t)}
      PROVE  Holders(p) = 0
  <2>1. D = {} /\ N = {}
    BY <1>1, <1>3, <1>6
  <2>2. QED
    BY <1>2, <2>1, FS_EmptySet
<1>7. QED
  BY <1>4, <1>5, <1>6

LEMMA InvOneOwner == Inv => OneOwner
<1> SUFFICES ASSUME Inv, NEW p \in Prop
             PROVE  Times(send_q, p) + Times(lost_q, p) + Holders(p)
                      + (IF sending = p THEN 1 ELSE 0)
                        = (IF prop[p] = Free THEN 0 ELSE 1)
  BY DEF OneOwner
<1>1. PICK place \in [Prop -> Place] : At(place)
  BY DEF Inv
<1> DEFINE x == place[p]
           held == \E t \in Task : x \in {NewOf(t), DoneOf(t)}
<1>2. /\ Times(send_q, p) = IF x = InSend THEN 1 ELSE 0
      /\ Times(lost_q, p) = IF x = InLost THEN 1 ELSE 0
  BY <1>1, TimesFact DEF At, Inv, TypeOK
<1>3. Holders(p) = IF held THEN 1 ELSE 0
  BY <1>1, HoldersFact
<1>4. (sending = p <=> x = BeingSent) /\ (prop[p] = Free <=> x = Heap)
  BY <1>1 DEF At
<1>5. x \in {Heap, InSend, InLost, BeingSent} \/ held
  <2>1. x \in Place
    BY <1>1
  <2>2. QED
    BY <2>1 DEF Place
<1>6. held => x \notin {Heap, InSend, InLost, BeingSent}
  BY PlacesDiffer
<1> HIDE DEF x, held
<1>7. QED
  BY <1>2, <1>3, <1>4, <1>5, <1>6, PlacesDiffer

-----------------------------------------------------------------------------
(* The send that can end.                                                  *)

\* The client waits for a destination, and only for those it has.
Waits == cb => dest # {} /\ dest \subseteq valid

\* With the invariant that is all there is to it.
LEMMA WaitsFact ==
    ASSUME Inv
    PROVE  SendMatched /\ SendCanEnd <=> Waits
  BY DEF Inv, SendAgrees, SendMatched, SendCanEnd, Waits

\* The end of the destinations ds, which may stop being valid.
LEMMA EndWaits ==
    ASSUME Waits, NEW t, NEW from, NEW ds, NEW ok, NEW err,
           SendDone(t, from, ds, ok, err), dest' = DestAfter(ds), valid \ ds \subseteq valid'
    PROVE  Waits'
<1>1. CASE cb /\ ~NotWaitedFor(ds) /\ dest \subseteq ds
  BY <1>1 DEF SendDone, Waits
<1>2. CASE ~(cb /\ ~NotWaitedFor(ds) /\ dest \subseteq ds)
  <2>1. cb' = cb
    BY <1>2 DEF SendDone
  <2>2. CASE NotWaitedFor(ds)
    BY <2>1, <2>2 DEF Waits, DestAfter, NotWaitedFor
  <2>3. CASE ~NotWaitedFor(ds)
    BY <1>2, <2>1, <2>3 DEF Waits, DestAfter
  <2>4. QED
    BY <2>2, <2>3
<1>3. QED
  BY <1>1, <1>2

LEMMA EnvironmentWaits ==
    ASSUME Waits, Environment
    PROVE  Waits' \/ \E d \in Lan : LanClear(d)
<1>1. CASE PostOk
  BY <1>1, EndWaits DEF PostOk, ToEvent
<1>2. CASE ReqOk
  BY <1>2 DEF ReqOk, Waits
<1>3. ASSUME NEW o, Again(o) PROVE Waits'
  BY <1>3 DEF Again, ToEvent, Waits
<1>4. ASSUME NEW o, ReqError(o) PROVE Waits'
  BY <1>4, EndWaits DEF ReqError, ToEvent
<1>5. ASSUME NEW err, AdsLost(err) PROVE Waits'
  BY <1>5, EndWaits DEF AdsLost
<1>6. CASE RetryTimeout
  BY <1>6 DEF RetryTimeout, ToEvent, Waits
<1>7. ASSUME NEW d, LanPostOk(d) PROVE Waits'
  BY <1>7, EndWaits DEF LanPostOk
<1>8. ASSUME NEW d, LanDown(d) PROVE Waits'
  BY <1>8, EndWaits DEF LanDown, LanClearout
<1>9. ASSUME NEW d, LanUp(d) PROVE Waits'
  BY <1>9 DEF LanUp, Waits
<1>10. ASSUME NEW n, LanSet(n) PROVE Waits'
  BY <1>10 DEF LanSet, Waits, clientVars
<1>11. ASSUME NEW t, Down(t) PROVE Waits'
  <2>1. SendDone(t, "down", valid, FALSE, "conn_err")
    BY <1>11 DEF Down
  <2>2. cb => ~NotWaitedFor(valid) /\ dest \subseteq valid
    BY DEF Waits, NotWaitedFor
  <2>3. cb' => FALSE
    BY <2>1, <2>2 DEF SendDone
  <2>4. QED
    BY <2>3 DEF Waits
<1>12. ASSUME NEW t, Up(t) PROVE Waits'
  BY <1>12 DEF Up, Waits
<1>13. QED
  BY <1>1, <1>2, <1>3, <1>4, <1>5, <1>6, <1>7, <1>8, <1>9, <1>10, <1>11, <1>12
     DEF Environment, HttpEnd, LanEnd

LEMMA NextWaits ==
    ASSUME Waits, [Next]_vars
    PROVE  Waits' \/ \E d \in Lan : LanClear(d)
<1>1. CASE UNCHANGED <<cb, dest, valid>>
  BY <1>1 DEF Waits
<1>2. CASE CallbackSet
  <2>1. dest' = Reachable(sending) /\ valid' = valid /\ (dest' = {} => cb' = FALSE)
    BY <1>2 DEF CallbackSet
  <2>2. QED
    BY <2>1 DEF Reachable, Waits
<1>3. CASE Environment
  BY <1>3, EnvironmentWaits
<1>4. CASE Next /\ ~CallbackSet /\ ~Environment
  <2>1. ASSUME NEW t, NEW n, Send(t, n) PROVE UNCHANGED <<cb, dest, valid>>
    BY <2>1 DEF Send, clientVars
  <2>2. ASSUME NEW t, SendOpt(t) PROVE UNCHANGED <<cb, dest, valid>>
    BY <2>2 DEF SendOpt, Opt, Enq, Load, Store, clientVars
  <2>3. ASSUME NEW t, Completion(t) PROVE UNCHANGED <<cb, dest, valid>>
    BY <2>3 DEF Completion, Done, Dec, SendEcho, Echoed, FreeProp, clientVars
  <2>4. ASSUME SendNextCb \/ Loop \/ NextCb \/ NextStep
        PROVE  UNCHANGED <<cb, dest, valid>>
    BY <2>4 DEF SendNextCb, Loop, NextCb, NextStep, NextUpdate, NextReq, NextPost,
       NextNothing, clientVars
  <2>5. ASSUME ConnectSts \/ ReadyCb PROVE UNCHANGED <<cb, dest, valid>>
    BY <2>5 DEF ConnectSts, Sts, Listen, StsSend, LostCheck, LostFail, StsEnd,
       ReadyCb, clientVars
  <2>6. QED
    BY <1>1, <1>4, <2>1, <2>2, <2>3, <2>4, <2>5 DEF Next
<1>5. CASE UNCHANGED vars
  BY <1>1, <1>5 DEF vars, clientVars
<1>6. QED
  BY <1>2, <1>3, <1>4, <1>5

-----------------------------------------------------------------------------
(* The count of echoes, when one task does all that changes it.            *)

\* Only the client task sends properties, and no other ends a send.
OneSender == App \subseteq {Client} /\ "down" \notin Outcome

Alone == \A t \in Task \ {Client} : pc[t] = "idle"

\* The sends that have not ended, and the echoes among them.
Open(p) ==
    \/ \E i \in 1 .. Len(send_q) : send_q[i] = p
    \/ \E i \in 1 .. Len(lost_q) : lost_q[i] = p
    \/ sending = p
    \/ pc[Client] = "done" /\ job[Client].done = p
Echoes == {p \in Unfinished : IsEcho(p)}

\* The count is one short from Enq() to Store(), and Dec() is to write it.
CountAt(l, n) ==
    /\ l \notin {"load", "store", "dec"} => echos_pending = n
    /\ l \in {"load", "store"} => echos_pending + 1 = n
    /\ l = "store" => job[Client].reg + 1 = n
    /\ l = "dec" => job[Client].reg = n

CountInv == Inv /\ Alone /\ CountAt(pc[Client], Cardinality(Echoes))

EchoesAre ==
    /\ IsFiniteSet(Echoes) /\ Cardinality(Echoes) \in Nat /\ Echoes \subseteq Prop
    /\ \A p \in Prop : p \in Echoes <=> Open(p) /\ IsEcho(p)

LEMMA EchoesFact == Inv /\ Alone => EchoesAre
<1> SUFFICES ASSUME Inv, Alone PROVE EchoesAre
  OBVIOUS
<1>1. send_q \in Seq(Prop) /\ lost_q \in Seq(Prop)
  BY DEF Inv, TypeOK
<1>2. Echoes \in SUBSET Prop
  BY DEF Echoes, Unfinished
<1>3. IsFiniteSet(Echoes) /\ Cardinality(Echoes) \in Nat
  BY <1>2, PropDataAssumption, FS_Subset, FS_CardinalityType
<1>4. ASSUME NEW p \in Prop PROVE p \in Unfinished <=> Open(p)
  <2>1. (\E t \in Task : pc[t] = "done" /\ job[t].done = p)
          <=> pc[Client] = "done" /\ job[Client].done = p
    BY ClientIsTask DEF Alone
  <2>2. /\ p \in Elems(send_q) <=> \E i \in 1 .. Len(send_q) : send_q[i] = p
        /\ p \in Elems(lost_q) <=> \E i \in 1 .. Len(lost_q) : lost_q[i] = p
    BY <1>1 DEF Elems
  <2>3. QED
    BY <2>1, <2>2 DEF Unfinished, Open
<1>5. QED
  BY <1>2, <1>3, <1>4 DEF EchoesAre, Echoes

LEMMA EchoesFactNext == Inv' /\ Alone' => EchoesAre'
  BY EchoesFact, PTL

\* No echo is opened or ended.
LEMMA EchoesStay ==
    ASSUME CountInv, Inv', Alone',
           \A p \in Prop : Open(p)' /\ IsEcho(p)' <=> Open(p) /\ IsEcho(p)
    PROVE  Echoes' = Echoes
<1>1. EchoesAre /\ EchoesAre'
  BY EchoesFact, EchoesFactNext DEF CountInv
<1>2. QED
  BY <1>1 DEF EchoesAre

\* A step that neither counts nor opens or ends an echo.
LEMMA CountStays ==
    ASSUME CountInv, Inv', Alone', UNCHANGED echos_pending,
           pc[Client] \notin {"load", "store", "dec"},
           pc'[Client] \notin {"load", "store", "dec"},
           \A p \in Prop : Open(p)' /\ IsEcho(p)' <=> Open(p) /\ IsEcho(p)
    PROVE  CountInv'
<1>1. Echoes' = Echoes
  BY EchoesStay
<1>2. CountAt(pc[Client], Cardinality(Echoes))'
  BY <1>1 DEF CountInv, CountAt
<1>3. QED
  BY <1>2 DEF CountInv

\* Such a step that moves no prop.
LEMMA CountQuiet ==
    ASSUME CountInv, Inv', UNCHANGED <<echos_pending, send_q, lost_q, sending, prop>>,
           \A u \in Task \ {Client} : pc'[u] = pc[u],
           pc[Client] \notin {"load", "store", "dec", "done"},
           pc'[Client] \notin {"load", "store", "dec", "done"}
    PROVE  CountInv'
<1>1. Alone'
  BY DEF CountInv, Alone
<1>2. \A p \in Prop : Open(p)' /\ IsEcho(p)' <=> Open(p) /\ IsEcho(p)
  BY DEF Open, IsEcho
<1>3. QED
  BY <1>1, <1>2, CountStays

\* What the places say: a prop that is open is not new, nor in the heap, nor
\* one whose end the client task has reported.
LEMMA OpenFact ==
    ASSUME CountInv, NEW p \in Prop, Open(p)
    PROVE  /\ prop[p] # Free /\ job[Client].new # p
           /\ pc[Client] # "done" => job[Client].done # p
<1>1. PICK place \in [Prop -> Place] : At(place)
  BY DEF CountInv, Inv
<1>2. \/ place[p] \in {InSend, InLost, BeingSent}
      \/ pc[Client] = "done" /\ place[p] = DoneOf(Client)
  BY <1>1, ClientIsTask DEF At, Listed, Open
<1>3. place[p] # Heap /\ place[p] # NewOf(Client)
  BY <1>2, ClientIsTask, PlacesDiffer
<1>4. pc[Client] # "done" => place[p] # DoneOf(Client)
  BY <1>2, ClientIsTask, PlacesDiffer
<1>5. QED
  BY <1>1, <1>3, <1>4, ClientIsTask DEF At

LEMMA SendOptCount ==
    ASSUME CountInv, Inv', Opt(Client) \/ Enq(Client) \/ Load(Client) \/ Store(Client)
    PROVE  CountInv'
<1> USE ClientIsTask
<1>1. /\ pc \in [Task -> Pc] /\ job \in [Task -> Job] /\ prop \in [Prop -> PropRec]
      /\ send_q \in Seq(Prop) /\ EchoesAre /\ Alone /\ TypeOK
      /\ CountAt(pc[Client], Cardinality(Echoes)) /\ JobAt(job[Client], pc[Client])
  BY Here, EchoesFact DEF CountInv, Inv, TypeOK
<1>2. CASE Opt(Client)
  <2>1. /\ pc[Client] = "opt" /\ UNCHANGED <<send_q, lost_q, sending, echos_pending>>
        /\ \/ AfterSend(Client) /\ UNCHANGED prop
           \/ \E p \in Prop : \E x :
                  /\ prop[p] = Free /\ prop' = [prop EXCEPT ![p] = x]
                  /\ pc' = [pc EXCEPT ![Client] = "enq"]
    BY <1>2 DEF Opt, Alloc, Goto, mgrVars
  <2>2. CASE AfterSend(Client) /\ UNCHANGED prop
    <3>1. /\ \A u \in Task \ {Client} : pc'[u] = pc[u]
          /\ pc'[Client] \in {"idle", "echoed"}
      BY <1>1, <2>2, AfterSendFact
    <3>2. QED
      BY <2>1, <2>2, <3>1, CountQuiet
  <2>3. ASSUME NEW p \in Prop, NEW x, prop[p] = Free, prop' = [prop EXCEPT ![p] = x],
               pc' = [pc EXCEPT ![Client] = "enq"]
        PROVE  CountInv'
    <3>1. pc'[Client] = "enq" /\ \A u \in Task \ {Client} : pc'[u] = pc[u]
      BY <1>1, <2>3
    <3>2. ~Open(p) /\ ~Open(p)'
      <4>1. ~Open(p)
        BY <2>3, OpenFact
      <4>2. QED
        BY <2>1, <3>1, <4>1 DEF Open
    <3>3. ASSUME NEW q \in Prop
          PROVE  Open(q)' /\ IsEcho(q)' <=> Open(q) /\ IsEcho(q)
      <4>1. CASE q = p
        BY <3>2, <4>1
      <4>2. CASE q # p
        BY <1>1, <2>1, <2>3, <3>1, <4>2 DEF Open, IsEcho
      <4>3. QED
        BY <4>1, <4>2
    <3>4. Alone'
      BY <1>1, <3>1 DEF Alone
    <3>5. QED
      BY <2>1, <3>1, <3>3, <3>4, CountStays
  <2>4. QED
    BY <2>1, <2>2, <2>3
<1>3. CASE Enq(Client)
  <2> DEFINE p == job[Client].new
  <2>1. /\ pc[Client] = "enq" /\ send_q' = Append(send_q, p)
        /\ UNCHANGED <<lost_q, sending, prop, echos_pending>>
        /\ AfterEnq(Client)
    BY <1>3 DEF Enq, spropVars
  <2>2. p \in Prop /\ ~Open(p)
    <3>1. p \in Prop
      BY <1>1, <2>1, Here, JobTypes DEF JobAt, CountInv
    <3>2. QED
      BY <3>1, OpenFact
  <2>3. \A q \in Prop : (\E i \in 1 .. Len(send_q') : send_q'[i] = q)
                           <=> q = p \/ \E i \in 1 .. Len(send_q) : send_q[i] = q
    <3>1. PICK place \in [Prop -> Place] : At(place)
      BY DEF CountInv, Inv
    <3>2. Distinct(send_q)
      BY <3>1 DEF At, Listed
    <3>3. \A i \in 1 .. Len(send_q) : send_q[i] # p
      BY <2>2 DEF Open
    <3>4. QED
      BY <1>1, <2>1, <2>2, <3>2, <3>3, AppendFact
  <2> HIDE DEF p
  <2>4. /\ \A u \in Task \ {Client} : pc'[u] = pc[u]
        /\ pc'[Client] \in IF IsEcho(p) THEN {"load"} ELSE {"idle", "echoed"}
    <3>1. CASE IsEcho(p)
      BY <1>1, <2>1, <3>1 DEF AfterEnq, Goto, p
    <3>2. CASE ~IsEcho(p)
      <4>1. AfterSend(Client)
        BY <2>1, <3>2 DEF AfterEnq, p
      <4>2. QED
        BY <1>1, <3>2, <4>1, AfterSendFact
    <3>3. QED
      BY <3>1, <3>2
  <2>5. Alone'
    BY <1>1, <2>4 DEF Alone
  <2>6. \A q \in Prop : Open(q)' <=> q = p \/ Open(q)
    BY <2>1, <2>3, <2>4 DEF Open
  <2>7. \A q \in Prop : IsEcho(q)' <=> IsEcho(q)
    BY <2>1 DEF IsEcho
  <2>8. CASE IsEcho(p)
    <3>1. EchoesAre'
      BY <2>5, EchoesFactNext
    <3>2. Echoes' = Echoes \cup {p} /\ p \notin Echoes
      BY <1>1, <2>2, <2>6, <2>7, <2>8, <3>1 DEF EchoesAre
    <3>3. Cardinality(Echoes') = Cardinality(Echoes) + 1
      BY <1>1, <3>2, FS_AddElement DEF EchoesAre
    <3>4. CountAt(pc[Client], Cardinality(Echoes))'
      BY <1>1, <2>1, <2>4, <2>8, <3>3 DEF CountAt
    <3>5. QED
      BY <2>5, <3>4 DEF CountInv
  <2>9. CASE ~IsEcho(p)
    <3>1. \A q \in Prop : Open(q)' /\ IsEcho(q)' <=> Open(q) /\ IsEcho(q)
      BY <2>6, <2>7, <2>9
    <3>2. pc'[Client] \notin {"load", "store", "dec"}
      BY <2>4, <2>9
    <3>3. QED
      BY <2>1, <2>5, <3>1, <3>2, CountStays
  <2>10. QED
    BY <2>8, <2>9
<1>4. CASE Load(Client) \/ Store(Client)
  <2>1. /\ UNCHANGED <<send_q, lost_q, sending, prop>> /\ pc[Client] \in {"load", "store"}
        /\ \A u \in Task \ {Client} : pc'[u] = pc[u]
        /\ pc'[Client] \in {"store", "idle", "echoed"}
    <3>1. CASE Load(Client)
      BY <1>1, <3>1 DEF Load, Goto, mgrVars
    <3>2. CASE Store(Client)
      BY <1>1, <3>2, AfterSendFact DEF Store, mgrVars
    <3>3. QED
      BY <1>4, <3>1, <3>2
  <2>2. Alone'
    BY <1>1, <2>1 DEF Alone
  <2>3. \A p \in Prop : Open(p)' /\ IsEcho(p)' <=> Open(p) /\ IsEcho(p)
    BY <2>1 DEF Open, IsEcho
  <2>4. Echoes' = Echoes
    BY <2>2, <2>3, EchoesStay
  <2>5. CountAt(pc[Client], Cardinality(Echoes))'
    <3>1. CASE Load(Client)
      <4>1. /\ pc[Client] = "load" /\ pc'[Client] = "store" /\ echos_pending' = echos_pending
            /\ job'[Client].reg = echos_pending
        BY <1>1, <3>1 DEF Load, Goto, spropVars, Job
      <4>2. QED
        BY <1>1, <2>4, <4>1 DEF CountAt
    <3>2. CASE Store(Client)
      <4>1. /\ pc[Client] = "store" /\ pc'[Client] \in {"idle", "echoed"}
            /\ echos_pending' = job[Client].reg + 1
        BY <1>1, <3>2, AfterSendFact DEF Store
      <4>2. QED
        BY <1>1, <2>4, <4>1 DEF CountAt
    <3>3. QED
      BY <1>4, <3>1, <3>2
  <2>6. QED
    BY <2>2, <2>5 DEF CountInv
<1>5. QED
  BY <1>2, <1>3, <1>4

LEMMA CompletionCount ==
    ASSUME CountInv, Inv', Completion(Client)
    PROVE  CountInv'
<1> USE ClientIsTask
<1>1. /\ pc \in [Task -> Pc] /\ job \in [Task -> Job] /\ prop \in [Prop -> PropRec]
      /\ EchoesAre /\ Alone /\ echos_pending \in Nat
      /\ CountAt(pc[Client], Cardinality(Echoes)) /\ JobAt(job[Client], pc[Client])
  BY Here, EchoesFact DEF CountInv, Inv, TypeOK
<1>2. CASE Done(Client)
  <2> DEFINE p == job[Client].done
  <2>1. /\ pc[Client] = "done"
        /\ UNCHANGED <<send_q, lost_q, sending, prop, echos_pending>>
        /\ IF Counted(p)
           THEN job'[Client].reg = echos_pending - 1 /\ pc' = [pc EXCEPT ![Client] = "dec"]
           ELSE pc' = [pc EXCEPT ![Client] = "free"]
    BY <1>1, <1>2 DEF Done, Goto, mgrVars, Job
  <2>2. p \in Prop
    BY <1>1, <2>1, Here, JobTypes DEF JobAt, Ending, CountInv
  <2>3. Open(p)
    BY <2>1 DEF Open
  <2> HIDE DEF p
  <2>4. /\ \A u \in Task \ {Client} : pc'[u] = pc[u]
        /\ pc'[Client] = IF Counted(p) THEN "dec" ELSE "free"
    BY <1>1, <2>1
  <2>5. Alone'
    BY <1>1, <2>4 DEF Alone
  <2>6. \A q \in Prop : Open(q)' <=> Open(q) /\ q # p
    <3>1. PICK place \in [Prop -> Place] : At(place)
      BY DEF CountInv, Inv
    <3>2. place[p] = DoneOf(Client)
      BY <2>2, <3>1 DEF At, p
    <3>3. /\ \A i \in 1 .. Len(send_q) : send_q[i] # p
          /\ \A i \in 1 .. Len(lost_q) : lost_q[i] # p
          /\ sending # p
      BY <2>2, <3>1, <3>2, PlacesDiffer DEF At, Listed
    <3>4. \A q \in Prop : Open(q) <=> \/ \E i \in 1 .. Len(send_q) : send_q[i] = q
                                      \/ \E i \in 1 .. Len(lost_q) : lost_q[i] = q
                                      \/ sending = q
                                      \/ q = p
      BY <2>1 DEF Open, p
    <3>5. \A q \in Prop : Open(q)' <=> \/ \E i \in 1 .. Len(send_q) : send_q[i] = q
                                       \/ \E i \in 1 .. Len(lost_q) : lost_q[i] = q
                                       \/ sending = q
      BY <2>1, <2>4 DEF Open
    <3>6. QED
      BY <3>3, <3>4, <3>5
  <2>7. \A q \in Prop : IsEcho(q)' <=> IsEcho(q)
    BY <2>1 DEF IsEcho
  <2>8. CASE IsEcho(p)
    <3>1. p \in Echoes
      BY <1>1, <2>2, <2>3, <2>8 DEF EchoesAre
    <3>2. EchoesAre'
      BY <2>5, EchoesFactNext DEF CountInv
    <3>3. Echoes' = Echoes \ {p}
      BY <1>1, <2>6, <2>7, <3>2 DEF EchoesAre
    <3>4. Cardinality(Echoes') = Cardinality(Echoes) - 1
      BY <1>1, <3>1, <3>3, FS_RemoveElement DEF EchoesAre
    <3>5. echos_pending = Cardinality(Echoes) /\ Cardinality(Echoes) # 0
      <4>1. Echoes # {}
        BY <3>1
      <4>2. QED
        BY <1>1, <2>1, <4>1, FS_EmptySet DEF CountAt, EchoesAre
    <3>6. Counted(p)
      BY <1>1, <2>8, <3>5 DEF Counted
    <3>7. CountAt(pc[Client], Cardinality(Echoes))'
      BY <2>1, <2>4, <3>4, <3>5, <3>6 DEF CountAt
    <3>8. QED
      BY <2>5, <3>7 DEF CountInv
  <2>9. CASE ~IsEcho(p)
    <3>1. \A q \in Prop : Open(q)' /\ IsEcho(q)' <=> Open(q) /\ IsEcho(q)
      BY <2>6, <2>7, <2>9
    <3>2. pc'[Client] = "free"
      BY <2>4, <2>9 DEF Counted
    <3>3. QED
      BY <2>1, <2>5, <3>1, <3>2, CountStays
  <2>10. QED
    BY <2>8, <2>9
<1>3. CASE Dec(Client)
  <2>1. /\ UNCHANGED <<send_q, lost_q, sending, prop>> /\ pc[Client] = "dec"
        /\ echos_pending' = job[Client].reg
        /\ \A u \in Task \ {Client} : pc'[u] = pc[u]
        /\ pc'[Client] \in {"echo", "free"}
    BY <1>1, <1>3 DEF Dec, Goto, mgrVars
  <2>2. Alone'
    BY <1>1, <2>1 DEF Alone
  <2>3. \A p \in Prop : Open(p)' /\ IsEcho(p)' <=> Open(p) /\ IsEcho(p)
    BY <2>1 DEF Open, IsEcho
  <2>4. Echoes' = Echoes
    BY <2>2, <2>3, EchoesStay
  <2>5. CountAt(pc[Client], Cardinality(Echoes))'
    BY <1>1, <2>1, <2>4 DEF CountAt
  <2>6. QED
    BY <2>2, <2>5 DEF CountInv
<1>4. CASE SendEcho(Client) \/ Echoed(Client)
  <2>1. /\ UNCHANGED <<echos_pending, send_q, lost_q, sending, prop>>
        /\ pc[Client] \in {"echo", "echoed"}
        /\ \A u \in Task \ {Client} : pc'[u] = pc[u]
        /\ pc'[Client] \in {"opt", "echoed", "listen", "free"}
    BY <1>1, <1>4 DEF SendEcho, Echoed, Goto, mgrVars
  <2>2. QED
    BY <2>1, CountQuiet
<1>5. CASE FreeProp(Client)
  <2> DEFINE p == job[Client].done
             l == IF job[Client].from \in {"loop", "lost"} THEN job[Client].from ELSE "idle"
  <2>1. /\ UNCHANGED <<echos_pending, send_q, lost_q, sending>> /\ pc[Client] = "free"
        /\ prop' = [prop EXCEPT ![p] = Free]
        /\ pc' = [pc EXCEPT ![Client] = l]
    BY <1>5 DEF FreeProp, Goto, spropVars
  <2>2. l \in {"loop", "lost", "idle"}
    OBVIOUS
  <2>3. p \in Prop /\ ~Open(p)
    <3>1. p \in Prop
      BY <1>1, <2>1, Here, JobTypes DEF JobAt, Ending, CountInv
    <3>2. QED
      BY <2>1, <3>1, OpenFact
  <2> HIDE DEF p, l
  <2>4. /\ \A u \in Task \ {Client} : pc'[u] = pc[u]
        /\ pc'[Client] \in {"loop", "lost", "idle"}
    BY <1>1, <2>1, <2>2
  <2>5. Alone'
    BY <1>1, <2>4 DEF Alone
  <2>6. \A q \in Prop : Open(q)' <=> Open(q)
    BY <2>1, <2>4 DEF Open
  <2>7. \A q \in Prop : Open(q)' /\ IsEcho(q)' <=> Open(q) /\ IsEcho(q)
    BY <1>1, <2>1, <2>3, <2>6 DEF IsEcho
  <2>8. QED
    BY <2>1, <2>4, <2>5, <2>7, CountStays
<1>6. QED
  BY <1>2, <1>3, <1>4, <1>5 DEF Completion

\* A step of the client, or none, with every prop and task where it was.
LEMMA CountSame ==
    ASSUME CountInv, Inv',
           UNCHANGED <<echos_pending, send_q, lost_q, sending, prop, pc, job>>
    PROVE  CountInv'
<1>1. Alone'
  BY DEF CountInv, Alone
<1>2. \A p \in Prop : Open(p)' /\ IsEcho(p)' <=> Open(p) /\ IsEcho(p)
  BY DEF Open, IsEcho
<1>3. Echoes' = Echoes
  BY <1>1, <1>2, EchoesStay
<1>4. CountAt(pc[Client], Cardinality(Echoes))'
  BY <1>3 DEF CountInv, CountAt
<1>5. QED
  BY <1>1, <1>4 DEF CountInv

\* A prop that goes to the client task to report its end is still open.
LEMMA CompleteCount ==
    ASSUME CountInv, Inv', NEW p \in Prop, UNCHANGED <<echos_pending, prop, send_q>>,
           NEW from, NEW status, NEW fail, Complete(Client, p, from, status, fail),
           pc[Client] \notin {"load", "store", "dec", "done"},
           \A q \in Prop :
             \/ \E i \in 1 .. Len(lost_q) : lost_q[i] = q
             \/ sending = q
             <=> \/ \E i \in 1 .. Len(lost_q') : lost_q'[i] = q
                 \/ sending' = q
                 \/ q = p
    PROVE  CountInv'
<1> USE ClientIsTask
<1>1. /\ pc' = [pc EXCEPT ![Client] = "done"] /\ pc \in [Task -> Pc]
      /\ job' = [job EXCEPT ![Client] = [NoJob EXCEPT !.from = from, !.done = p,
                                         !.status = status, !.fail = fail]]
      /\ job \in [Task -> Job]
  BY Here DEF Complete, Goto, CountInv
<1>2. /\ pc'[Client] = "done" /\ \A u \in Task \ {Client} : pc'[u] = pc[u]
      /\ job'[Client].done = p
  BY <1>1 DEF NoJob
<1>3. Alone'
  BY <1>2 DEF CountInv, Alone
<1>4. \A q \in Prop : Open(q)' <=> Open(q)
  BY <1>2 DEF Open
<1>5. \A q \in Prop : Open(q)' /\ IsEcho(q)' <=> Open(q) /\ IsEcho(q)
  BY <1>4 DEF IsEcho
<1>6. QED
  BY <1>2, <1>3, <1>5, CountStays

LEMMA SendDoneCount ==
    ASSUME CountInv, Inv', pc[Client] = "idle",
           UNCHANGED <<echos_pending, prop, send_q, lost_q>>,
           NEW from, NEW ds, NEW ok, NEW err, SendDone(Client, from, ds, ok, err)
    PROVE  CountInv'
<1>1. CASE cb /\ ~NotWaitedFor(ds) /\ dest \subseteq ds
  <2>1. PICK status, fail : /\ sending' = NoProp
                            /\ Complete(Client, sending, from, status, fail)
    BY <1>1 DEF SendDone
  <2>2. sending \in Prop
    BY <1>1 DEF CountInv, Inv, TypeOK, SendAgrees
  <2>3. \A q \in Prop : sending' # q
    BY <2>1, PropDataAssumption
  <2>4. QED
    BY <2>1, <2>2, <2>3, CompleteCount
<1>2. CASE ~(cb /\ ~NotWaitedFor(ds) /\ dest \subseteq ds)
  <2>1. UNCHANGED <<sending, pc, job>>
    BY <1>2 DEF SendDone
  <2>2. QED
    BY <2>1, CountSame
<1>3. QED
  BY <1>1, <1>2

LEMMA SendNextCount ==
    ASSUME CountInv, Inv', SendNextCb \/ Loop \/ CallbackSet
    PROVE  CountInv'
<1> USE ClientIsTask
<1>1. /\ pc \in [Task -> Pc] /\ send_q \in Seq(Prop) /\ lost_q \in Seq(Prop)
      /\ Alone /\ SendAgrees
  BY DEF CountInv, Inv, TypeOK
<1>2. CASE SendNextCb
  <2>1. /\ UNCHANGED <<echos_pending, send_q, lost_q, sending, prop>>
        /\ pc[Client] = "idle" /\ pc'[Client] = "loop"
        /\ \A u \in Task \ {Client} : pc'[u] = pc[u]
    BY <1>1, <1>2 DEF SendNextCb, ClientIdle, Goto, spropVars
  <2>2. QED
    BY <2>1, CountQuiet
<1>3. CASE Loop
  <2>1. /\ UNCHANGED <<echos_pending, lost_q, prop, job>> /\ pc[Client] = "loop"
        /\ pc'[Client] \in {"set", "lost", "idle"}
        /\ \A u \in Task \ {Client} : pc'[u] = pc[u]
        /\ \/ UNCHANGED <<send_q, sending>>
           \/ /\ sending = NoProp /\ send_q # <<>>
              /\ sending' = Head(send_q) /\ send_q' = Tail(send_q)
    BY <1>1, <1>3 DEF Loop, CanSendNext, Goto, spropVars
  <2>2. CASE UNCHANGED <<send_q, sending>>
    BY <2>1, <2>2, CountQuiet
  <2>3. CASE /\ sending = NoProp /\ send_q # <<>>
             /\ sending' = Head(send_q) /\ send_q' = Tail(send_q)
    <3>1. Distinct(send_q)
      BY DEF CountInv, Inv, At, Listed
    <3>2. /\ \A q \in Prop : (\E i \in 1 .. Len(send_q') : send_q'[i] = q)
                  <=> q # sending' /\ \E i \in 1 .. Len(send_q) : send_q[i] = q
          /\ \E i \in 1 .. Len(send_q) : send_q[i] = sending'
      BY <1>1, <2>3, <3>1, TailFact
    <3>3. \A q \in Prop : sending # q
      BY <2>3, PropDataAssumption
    <3>4. \A q \in Prop : Open(q)' <=> Open(q)
      BY <2>1, <3>2, <3>3 DEF Open
    <3>5. \A q \in Prop : Open(q)' /\ IsEcho(q)' <=> Open(q) /\ IsEcho(q)
      BY <2>1, <3>4 DEF IsEcho
    <3>6. Alone'
      BY <1>1, <2>1 DEF Alone
    <3>7. QED
      BY <2>1, <3>5, <3>6, CountStays
  <2>4. QED
    BY <2>1, <2>2, <2>3
<1>4. CASE CallbackSet
  <2>1. /\ UNCHANGED <<echos_pending, send_q, lost_q, prop>> /\ pc[Client] = "set"
        /\ \/ UNCHANGED <<sending, job>> /\ pc' = [pc EXCEPT ![Client] = "loop"]
           \/ sending' = NoProp /\ Complete(Client, sending, "loop", "conn_err",
                                            prop[sending].dest \ valid)
    BY <1>4 DEF CallbackSet, Goto, spropVars
  <2>2. CASE UNCHANGED <<sending, job>> /\ pc' = [pc EXCEPT ![Client] = "loop"]
    <3>1. pc'[Client] = "loop" /\ \A u \in Task \ {Client} : pc'[u] = pc[u]
      BY <1>1, <2>2
    <3>2. QED
      BY <2>1, <2>2, <3>1, CountQuiet
  <2>3. CASE sending' = NoProp /\ Complete(Client, sending, "loop", "conn_err",
                                           prop[sending].dest \ valid)
    <3>1. sending \in Prop
      BY <1>1, <2>1 DEF SendAgrees, CountInv, Inv, TypeOK
    <3>2. \A q \in Prop : sending' # q
      BY <2>3, PropDataAssumption
    <3>3. QED
      BY <2>1, <2>3, <3>1, <3>2, CompleteCount
  <2>4. QED
    BY <2>1, <2>2, <2>3
<1>5. QED
  BY <1>2, <1>3, <1>4

LEMMA ConnectCount ==
    ASSUME CountInv, Inv', NextCb \/ NextStep \/ ConnectSts \/ ReadyCb
    PROVE  CountInv'
<1> USE ClientIsTask
<1>1. /\ pc \in [Task -> Pc] /\ send_q \in Seq(Prop) /\ lost_q \in Seq(Prop)
      /\ Alone /\ SendAgrees
  BY DEF CountInv, Inv, TypeOK
<1>2. CASE NextCb \/ NextStep \/ Sts \/ Listen \/ StsSend \/ StsEnd \/ ReadyCb
  <2>1. UNCHANGED <<echos_pending, send_q, lost_q, sending, prop>>
    BY <1>2 DEF NextCb, NextStep, NextUpdate, NextReq, NextPost, NextNothing, Sts,
       Listen, StsSend, StsEnd, ReadyCb, mgrVars, spropVars
  <2>2. pc[Client] \in {"idle", "next", "sts", "listen", "stsend", "lost"}
    BY <1>2 DEF NextCb, NextStep, NextUpdate, NextReq, NextPost, NextNothing, Sts,
       Listen, StsSend, StsEnd, ReadyCb, ClientIdle, NextReady
  <2>3. \/ pc' = pc
        \/ \E l \in {"next", "sts", "idle", "echo", "stsend", "lost", "loop", "listen"} :
             pc' = [pc EXCEPT ![Client] = l]
    BY <1>2 DEF NextCb, NextStep, NextUpdate, NextReq, NextPost, NextNothing, Sts,
       AfterSts, Listen, StsSend, StsEnd, ReadyCb, Goto
  <2>4. QED
    BY <1>1, <2>1, <2>2, <2>3, CountQuiet
<1>3. CASE LostCheck
  <2> DEFINE I == {i \in 1 .. Len(send_q) : prop[send_q[i]].dest \cap sts.mask = {}}
             K == (1 .. Len(send_q)) \ I
  <2>1. /\ pc[Client] = "lost" /\ sts.lost # {}
        /\ lost_q' \in Picked(send_q, I) /\ send_q' \in Picked(send_q, K)
        /\ UNCHANGED <<echos_pending, sending, prop, job, pc>>
    BY <1>3 DEF LostCheck, spropVars
  <2>2. lost_q = <<>>
    BY <2>1 DEF CountInv, Inv, LostAgrees
  <2>3. /\ I \in SUBSET (1 .. Len(send_q)) /\ K \in SUBSET (1 .. Len(send_q))
        /\ I \cup K = 1 .. Len(send_q)
    OBVIOUS
  <2> HIDE DEF I, K
  <2>4. ASSUME NEW J \in SUBSET (1 .. Len(send_q)), NEW r \in Picked(send_q, J)
        PROVE  \A q \in Prop : (\E i \in 1 .. Len(r) : r[i] = q)
                                   <=> \E k \in J : send_q[k] = q
    <3>1. /\ \A i \in 1 .. Len(r) : \E k \in J : r[i] = send_q[k]
          /\ \A k \in J : \E i \in 1 .. Len(r) : r[i] = send_q[k]
      BY <1>1, PickedFact
    <3>2. QED
      BY <3>1
  <2>5. /\ \A q \in Prop : (\E i \in 1 .. Len(lost_q') : lost_q'[i] = q)
                               <=> \E k \in I : send_q[k] = q
        /\ \A q \in Prop : (\E i \in 1 .. Len(send_q') : send_q'[i] = q)
                               <=> \E k \in K : send_q[k] = q
    BY <2>1, <2>3, <2>4
  <2>6. \A q \in Prop : (\E i \in 1 .. Len(send_q) : send_q[i] = q)
                            <=> \/ \E k \in I : send_q[k] = q
                                \/ \E k \in K : send_q[k] = q
    BY <2>3
  <2>7. 1 .. Len(lost_q) = {}
    BY <2>2
  <2>8. \A q \in Prop : Open(q)' <=> Open(q)
    BY <2>1, <2>5, <2>6, <2>7 DEF Open
  <2>9. \A q \in Prop : Open(q)' /\ IsEcho(q)' <=> Open(q) /\ IsEcho(q)
    BY <2>1, <2>8 DEF IsEcho
  <2>10. Alone'
    BY <1>1, <2>1 DEF Alone
  <2>11. QED
    BY <2>1, <2>9, <2>10, CountStays
<1>4. CASE LostFail
  <2>1. /\ pc[Client] = "lost" /\ lost_q # <<>> /\ lost_q' = Tail(lost_q)
        /\ Complete(Client, Head(lost_q), "lost", "conn_err", prop[Head(lost_q)].dest)
        /\ UNCHANGED <<echos_pending, sending, send_q, prop>>
    BY <1>4 DEF LostFail, spropVars
  <2>2. Distinct(lost_q)
    BY DEF CountInv, Inv, At, Listed
  <2>3. /\ Head(lost_q) \in Prop
        /\ \A q \in Prop : (\E i \in 1 .. Len(lost_q') : lost_q'[i] = q)
                <=> q # Head(lost_q) /\ \E i \in 1 .. Len(lost_q) : lost_q[i] = q
        /\ \E i \in 1 .. Len(lost_q) : lost_q[i] = Head(lost_q)
    BY <1>1, <2>1, <2>2, TailFact
  <2>4. \A q \in Prop :
             \/ \E i \in 1 .. Len(lost_q) : lost_q[i] = q
             \/ sending = q
             <=> \/ \E i \in 1 .. Len(lost_q') : lost_q'[i] = q
                 \/ sending' = q
                 \/ q = Head(lost_q)
    BY <2>1, <2>3
  <2>5. QED
    BY <2>1, <2>3, <2>4, CompleteCount
<1>5. QED
  BY <1>2, <1>3, <1>4 DEF ConnectSts

LEMMA EnvironmentCount ==
    ASSUME OneSender, CountInv, Inv', Environment
    PROVE  CountInv'
<1>1. ASSUME \/ PostOk \/ (\E o \in {"timeout", "s4xx", "s5xx"} : ReqError(o))
             \/ (\E err \in {"conn_err", "ads_err"} : AdsLost(err))
             \/ (\E d \in Lan : LanPostOk(d) \/ LanDown(d))
      PROVE  CountInv'
  <2>1. /\ pc[Client] = "idle" /\ UNCHANGED <<echos_pending, prop, send_q, lost_q>>
    BY <1>1 DEF PostOk, ReqError, AdsLost, LanPostOk, LanDown, ClientIdle, spropVars
  <2>2. \E from, ds, ok, err : SendDone(Client, from, ds, ok, err)
    BY <1>1 DEF PostOk, ReqError, AdsLost, LanPostOk, LanDown
  <2>3. QED
    BY <2>1, <2>2, SendDoneCount
<1>2. ASSUME \/ ReqOk \/ (\E o \in {"closed", "timeout"} : Again(o)) \/ RetryTimeout
             \/ (\E d \in Lan : LanUp(d) \/ LanClear(d)) \/ (\E n \in Name : LanSet(n))
             \/ (\E t \in Wifi : Up(t))
      PROVE  CountInv'
  <2>1. UNCHANGED <<echos_pending, send_q, lost_q, sending, prop, pc, job>>
    BY <1>2 DEF ReqOk, Again, RetryTimeout, LanUp, LanClear, LanSet, Up, mgrVars,
       spropVars, taskVars
  <2>2. QED
    BY <2>1, CountSame
<1>3. ASSUME NEW t \in Wifi, Down(t) PROVE FALSE
  BY <1>3 DEF Down, OneSender
<1>4. QED
  BY <1>1, <1>2, <1>3 DEF Environment, HttpEnd, LanEnd

LEMMA NextCount ==
    ASSUME OneSender, CountInv, [Next]_vars
    PROVE  CountInv'
<1>1. Inv'
  BY NextInv DEF CountInv
<1>2. ASSUME NEW t \in App, NEW n \in Name, Send(t, n) PROVE CountInv'
  <2>1. t = Client
    BY <1>2 DEF OneSender
  <2>2. /\ UNCHANGED <<echos_pending, send_q, lost_q, sending, prop>>
        /\ pc[Client] = "idle" /\ pc' = [pc EXCEPT ![Client] = "opt"]
    BY <1>2, <2>1 DEF Send, Goto, mgrVars, spropVars
  <2>3. pc'[Client] = "opt" /\ \A u \in Task \ {Client} : pc'[u] = pc[u]
    BY <2>2, Here, ClientIsTask DEF CountInv
  <2>4. QED
    BY <1>1, <2>2, <2>3, CountQuiet
<1>3. ASSUME NEW t \in Task, SendOpt(t) \/ Completion(t) PROVE CountInv'
  <2>1. pc[t] # "idle"
    BY <1>3 DEF SendOpt, Opt, Enq, Load, Store, Completion, Done, Dec, SendEcho,
       Echoed, FreeProp
  <2>2. t = Client
    BY <2>1 DEF CountInv, Alone
  <2>3. QED
    BY <1>1, <1>3, <2>2, SendOptCount, CompletionCount DEF SendOpt
<1>4. CASE SendNextCb \/ Loop \/ CallbackSet
  BY <1>1, <1>4, SendNextCount
<1>5. CASE NextCb \/ NextStep \/ ConnectSts \/ ReadyCb
  BY <1>1, <1>5, ConnectCount
<1>6. CASE Environment
  BY <1>1, <1>6, EnvironmentCount
<1>7. CASE UNCHANGED vars
  BY <1>1, <1>7, CountSame DEF vars, mgrVars, spropVars, taskVars
<1>8. QED
  BY <1>2, <1>3, <1>4, <1>5, <1>6, <1>7 DEF Next

LEMMA InitCount == Init => CountInv
<1> SUFFICES ASSUME Init PROVE CountInv
  OBVIOUS
<1>1. /\ pc = [t \in Task |-> "idle"] /\ send_q = <<>> /\ lost_q = <<>>
      /\ sending = NoProp /\ echos_pending = 0
  BY DEF Init
<1>2. Inv /\ Alone /\ pc[Client] = "idle"
  BY <1>1, InitInv, ClientIsTask DEF Alone
<1>3. EchoesAre
  BY <1>2, EchoesFact
<1>4. \A p \in Prop : ~Open(p)
  <2>1. 1 .. Len(<<>>) = {}
    OBVIOUS
  <2>2. QED
    BY <1>1, <1>2, <2>1, PropDataAssumption DEF Open
<1>5. Cardinality(Echoes) = 0
  <2>1. Echoes = {}
    BY <1>3, <1>4 DEF EchoesAre
  <2>2. QED
    BY <2>1, FS_EmptySet
<1>6. QED
  BY <1>1, <1>2, <1>5 DEF CountInv, CountAt

-----------------------------------------------------------------------------
(* What is left to do when ADS is a destination again.                     *)

\* Requests end in every way but a LAN session's or a server error: such an
\* error fails an echo, as a lost connection does, while ADS stays connected.
CloudOnly == {"lan", "s5xx"} \cap Outcome = {}

\* ADS is the only destination there is, and every prop is for it.
OnlyAds ==
    /\ valid \subseteq {Ads}
    /\ cb => dest = {Ads} /\ Ads \notin failed
    /\ conn = "down" => valid = {}
    /\ lost_q # <<>> => Ads \notin valid
    /\ \A p \in Prop : prop[p] # Free => Ads \in prop[p].dest /\ prop[p].name \in Name

\* prop_mgr_connect_sts() and what it calls run to their end before the
\* destinations can change again.
StsRuns(j, l) ==
    /\ sts.on => /\ sts.mask = valid
                 /\ l \notin {"idle", "next"}
                 /\ l \in Ending \cup Sending => j.from \in {"sts", "loop", "lost"}
    /\ l \in {"sts", "stsend", "lost"} \/ j.from \in {"sts", "lost"} => sts.on
    /\ j.from = "sts" => l \in Sending \cup {"listen"}
    /\ j.from = "lost" => l \in Sending \cup Ending

\* The client task is in ada_sprop_send_echo().
InEcho(j, l) ==
    \/ l \in {"echo", "echoed"}
    \/ l \in {"opt", "enq", "load", "store"} /\ j.from # "app"

\* A change of the destinations, and that ADS was lost, is on its way to sprop.
Told(l) == l = "sts" \/ conn_update
Sees(j, l) ==
    /\ Told(l) \/ sprop_dest = valid
    /\ l = "done" /\ Ads \in j.fail /\ j.status = "conn_err"
         => Told(l) \/ Ads \notin valid
    /\ l = "dec" => /\ Ads \in j.dest \/ Told(l) \/ Ads \notin valid
                    /\ Ads \in j.dest => Ads \in sprop_dest
    /\ InEcho(j, l) => Ads \in sprop_dest
    /\ l = "opt" => j.name \in Name /\ j.dest = sprop_dest

\* With ADS there, whoever has declared sprop ready goes on to listen, and
\* until then someone is to declare it.
GoesOn(j, l) ==
    Ads \in valid =>
        /\ enabled => ads_listen \/ Told(l) \/ l = "listen" \/ j.from = "sts"
        /\ ~enabled => \/ ready_pend \/ Told(l) \/ echos_pending # 0
                       \/ l = "dec" \/ InEcho(j, l)

\* With ADS there, an echo that was left has someone to send it.
Resends(j, l) ==
    Ads \in valid /\ (\E n \in Name : send_req[n]) =>
        \/ Told(l) \/ echos_pending # 0
        \/ l \in {"dec", "echo", "load", "store"}
        \/ l \in {"opt", "enq"} /\ j.from # "app"

ResumeInv ==
    /\ CountInv /\ OnlyAds
    /\ StsRuns(job[Client], pc[Client])
    /\ Sees(job[Client], pc[Client])
    /\ GoesOn(job[Client], pc[Client])

\* What else a step starts from.
LEMMA ResumeHere ==
    ASSUME ResumeInv
    PROVE  /\ Inv /\ TypeOK /\ Alone /\ EchoesAre /\ JobAt(job[Client], pc[Client])
           /\ CountAt(pc[Client], Cardinality(Echoes))
           /\ pc \in [Task -> Pc] /\ job \in [Task -> Job] /\ prop \in [Prop -> PropRec]
           /\ job[Client] \in Job /\ pc[Client] \in Pc
           /\ echos_pending \in Nat /\ send_req \in [Name -> BOOLEAN] /\ sts \in StsArgs
           /\ OnlyAds /\ StsRuns(job[Client], pc[Client])
           /\ Sees(job[Client], pc[Client]) /\ GoesOn(job[Client], pc[Client])
  BY EchoesFact, Here, ClientIsTask DEF ResumeInv, CountInv, Inv, TypeOK

\* A step of the client task in sprop_send_opt().
LEMMA SendOptResume ==
    ASSUME ResumeInv, CountInv', SendOpt(Client)
    PROVE  ResumeInv'
<1> USE ClientIsTask
<1> DEFINE j == job[Client]
           l == pc[Client]
<1>1. /\ JobAt(j, l) /\ pc \in [Task -> Pc] /\ job \in [Task -> Job]
      /\ prop \in [Prop -> PropRec] /\ echos_pending \in Nat /\ j \in Job
      /\ OnlyAds /\ StsRuns(j, l) /\ Sees(j, l) /\ GoesOn(j, l)
  BY ResumeHere
<1>2. /\ UNCHANGED <<clientVars, mgr_dest, enabled, sprop_dest, ready_pend, sts>>
      /\ UNCHANGED <<lost_q>>
  BY DEF SendOpt, Opt, Enq, Load, Store, mgrVars, spropVars
<1>3. /\ l \in {"opt", "enq", "load", "store"}
      /\ pc'[Client] \in {"enq", "load", "store"}
                 \cup {IF j.from = "app" THEN "idle" ELSE "echoed"}
      /\ job'[Client].from = j.from
      /\ l \in {"opt", "enq", "load"} => UNCHANGED echos_pending
      /\ l = "store" => echos_pending' # 0
  <2>1. CASE Opt(Client)
    BY <1>1, <2>1, AfterSendFact, ResumeHere DEF Opt, Alloc, Goto, Job
  <2>2. CASE Enq(Client)
    BY <1>1, <2>2, AfterSendFact, ResumeHere DEF Enq, AfterEnq, Goto, Job, spropVars
  <2>3. CASE Load(Client)
    BY <1>1, <2>3 DEF Load, Goto, Job, spropVars
  <2>4. CASE Store(Client)
    BY <1>1, <2>4, AfterSendFact, ResumeHere DEF Store, Job
  <2>5. QED
    BY <2>1, <2>2, <2>3, <2>4 DEF SendOpt
<1>4. \A p \in Prop : prop'[p] = prop[p] \/ (Ads \in prop'[p].dest /\ prop'[p].name \in Name)
  <2>1. CASE Opt(Client)
    <3>1. j.name \in Name
      BY <1>1, <2>1 DEF Opt, Sees
    <3>2. \/ UNCHANGED prop
          \/ \E p \in Prop : \E d :
               prop' = [prop EXCEPT ![p] = [name |-> j.name, dest |-> d \cup {Ads}]]
      BY <2>1 DEF Opt, Alloc
    <3>3. QED
      BY <1>1, <3>1, <3>2
  <2>2. CASE ~Opt(Client)
    BY <2>2 DEF SendOpt, Enq, Load, Store
  <2>3. QED
    BY <2>1, <2>2
<1> HIDE DEF j, l
<1>5. OnlyAds'
  BY <1>1, <1>2, <1>4 DEF OnlyAds, clientVars
<1>6. StsRuns(job[Client], pc[Client])'
  BY <1>1, <1>2, <1>3 DEF StsRuns, Sending, Ending, clientVars
<1>7. Sees(job[Client], pc[Client])'
  BY <1>1, <1>2, <1>3 DEF Sees, Told, InEcho, clientVars
<1>8. GoesOn(job[Client], pc[Client])'
  BY <1>1, <1>2, <1>3 DEF GoesOn, Told, InEcho, clientVars
<1>9. QED
  BY <1>5, <1>6, <1>7, <1>8 DEF ResumeInv

\* A step of the client task in prop_mgr_send_cb().
LEMMA CompletionResume ==
    ASSUME ResumeInv, CountInv', Completion(Client)
    PROVE  ResumeInv'
<1> USE ClientIsTask
<1> DEFINE j == job[Client]
           l == pc[Client]
<1>1. /\ JobAt(j, l) /\ pc \in [Task -> Pc] /\ job \in [Task -> Job]
      /\ prop \in [Prop -> PropRec] /\ echos_pending \in Nat /\ j \in Job
      /\ OnlyAds /\ StsRuns(j, l) /\ Sees(j, l) /\ GoesOn(j, l)
  BY ResumeHere
<1>2. UNCHANGED <<clientVars, mgr_dest, sprop_dest, lost_q, sts>>
  BY DEF Completion, Done, Dec, SendEcho, Echoed, FreeProp, mgrVars, spropVars
<1>3. \A p \in Prop : prop'[p] = prop[p] \/ prop'[p] = Free
  BY <1>1 DEF Completion, Done, Dec, SendEcho, Echoed, FreeProp
<1>4. OnlyAds'
  BY <1>1, <1>2, <1>3 DEF OnlyAds, clientVars
<1>5. CASE Done(Client)
  <2>1. /\ l = "done" /\ UNCHANGED <<echos_pending, enabled, ready_pend>>
        /\ \/ /\ job'[Client] = [j EXCEPT !.reg = echos_pending - 1,
                                          !.dest = IF Repend(j.done, j)
                                                   THEN sprop_dest \ j.fail
                                                   ELSE sprop_dest]
              /\ pc'[Client] = "dec"
           \/ job'[Client] = j /\ pc'[Client] = "free"
    BY <1>1, <1>5 DEF Done, Goto, mgrVars
  <2>2. /\ pc'[Client] \in {"dec", "free"}
        /\ job'[Client].from = j.from /\ job'[Client].from \notin {"app", "sts"}
        /\ pc'[Client] = "dec" =>
             job'[Client].dest \in {sprop_dest} \cup
               (IF Ads \in j.fail /\ j.status = "conn_err" THEN {sprop_dest \ j.fail} ELSE {})
    BY <1>1, <2>1 DEF Repend, Job, JobAt
  <2> HIDE DEF j, l
  <2>3. StsRuns(job[Client], pc[Client])'
    BY <1>1, <1>2, <2>1, <2>2 DEF StsRuns, Sending, Ending, clientVars
  <2>4. Sees(job[Client], pc[Client])'
    BY <1>1, <1>2, <2>1, <2>2 DEF Sees, Told, InEcho, clientVars
  <2>5. GoesOn(job[Client], pc[Client])'
    BY <1>1, <1>2, <2>1, <2>2 DEF GoesOn, Told, InEcho, clientVars
  <2>6. QED
    BY <1>4, <2>3, <2>4, <2>5 DEF ResumeInv
<1>6. CASE Dec(Client)
  <2>1. /\ l = "dec" /\ UNCHANGED <<job, enabled, ready_pend>>
        /\ pc'[Client] = IF Ads \in j.dest THEN "echo" ELSE "free"
    BY <1>1, <1>6 DEF Dec, Goto, mgrVars
  <2>2. j.from \notin {"app", "sts"} /\ job'[Client] = j
    BY <1>1, <2>1 DEF JobAt
  <2> HIDE DEF j, l
  <2>3. StsRuns(job[Client], pc[Client])'
    BY <1>1, <1>2, <2>1, <2>2 DEF StsRuns, Sending, Ending, clientVars
  <2>4. Sees(job[Client], pc[Client])'
    BY <1>1, <1>2, <2>1, <2>2 DEF Sees, Told, InEcho, clientVars
  <2>5. GoesOn(job[Client], pc[Client])'
    BY <1>1, <1>2, <2>1, <2>2 DEF GoesOn, Told, InEcho, Sees, clientVars
  <2>6. QED
    BY <1>4, <2>3, <2>4, <2>5 DEF ResumeInv
<1>7. CASE SendEcho(Client)
  <2>1. /\ l = "echo" /\ UNCHANGED <<echos_pending, enabled, ready_pend>>
        /\ \/ /\ pc'[Client] = "opt"
              /\ \E n \in Name : job'[Client] = [j EXCEPT !.name = n, !.dest = sprop_dest]
           \/ job'[Client] = j /\ pc'[Client] = "echoed"
    BY <1>1, <1>7 DEF SendEcho, Goto, mgrVars
  <2>2. /\ pc'[Client] \in {"opt", "echoed"}
        /\ job'[Client].from = j.from /\ j.from # "app"
        /\ pc'[Client] = "opt" => job'[Client].name \in Name /\ job'[Client].dest = sprop_dest
    BY <1>1, <2>1 DEF Job, JobAt
  <2> HIDE DEF j, l
  <2>3. StsRuns(job[Client], pc[Client])'
    BY <1>1, <1>2, <2>1, <2>2 DEF StsRuns, Sending, Ending, clientVars
  <2>4. Sees(job[Client], pc[Client])'
    BY <1>1, <1>2, <2>1, <2>2 DEF Sees, Told, InEcho, clientVars
  <2>5. GoesOn(job[Client], pc[Client])'
    BY <1>1, <1>2, <2>1, <2>2 DEF GoesOn, Told, InEcho, clientVars
  <2>6. QED
    BY <1>4, <2>3, <2>4, <2>5 DEF ResumeInv
<1>8. CASE Echoed(Client)
  <2>1. /\ l = "echoed" /\ UNCHANGED <<echos_pending, job>> /\ job'[Client] = j
        /\ IF j.from = "sts"
           THEN /\ enabled' = (enabled \/ echos_pending = 0)
                /\ pc'[Client] = "listen" /\ ready_pend' = ready_pend
           ELSE /\ ready_pend' = (ready_pend \/ echos_pending = 0)
                /\ pc'[Client] = "free" /\ enabled' = enabled
    BY <1>1, <1>8 DEF Echoed, ReadyAfterEcho, Goto
  <2> HIDE DEF j, l
  <2>2. StsRuns(job[Client], pc[Client])'
    BY <1>1, <1>2, <2>1 DEF StsRuns, Sending, Ending, clientVars
  <2>3. Sees(job[Client], pc[Client])'
    BY <1>1, <1>2, <2>1 DEF Sees, Told, InEcho, clientVars
  <2>4. GoesOn(job[Client], pc[Client])'
    BY <1>1, <1>2, <2>1 DEF GoesOn, Told, InEcho, clientVars
  <2>5. QED
    BY <1>4, <2>2, <2>3, <2>4 DEF ResumeInv
<1>9. CASE FreeProp(Client)
  <2>1. /\ l = "free" /\ UNCHANGED <<echos_pending, enabled, ready_pend>>
        /\ job'[Client].from = "app"
        /\ pc'[Client] = IF j.from \in {"loop", "lost"} THEN j.from ELSE "idle"
    BY <1>1, <1>9 DEF FreeProp, NoJob, Goto, spropVars
  <2> HIDE DEF j, l
  <2>2. StsRuns(job[Client], pc[Client])'
    BY <1>1, <1>2, <2>1 DEF StsRuns, Sending, Ending, clientVars
  <2>3. Sees(job[Client], pc[Client])'
    BY <1>1, <1>2, <2>1 DEF Sees, Told, InEcho, clientVars
  <2>4. GoesOn(job[Client], pc[Client])'
    BY <1>1, <1>2, <2>1 DEF GoesOn, StsRuns, Sending, Told, InEcho, clientVars
  <2>5. QED
    BY <1>4, <2>2, <2>3, <2>4 DEF ResumeInv
<1>10. QED
  BY <1>5, <1>6, <1>7, <1>8, <1>9 DEF Completion

\* A step that only moves the client task, to a place where nothing depends on
\* what is to be done, or gives it a job of its own.
LEMMA MoveResume ==
    ASSUME ResumeInv, CountInv', OnlyAds',
           UNCHANGED <<valid, conn_update, ads_listen, enabled, sprop_dest,
                       echos_pending, ready_pend>>,
           pc[Client] \in {"idle", "loop", "set", "next", "stsend", "lost"},
           pc'[Client] \in {"idle", "loop", "set", "next", "stsend", "lost", "opt"},
           sts'.on => sts.on /\ sts'.mask = sts.mask,
           pc'[Client] \in {"idle", "next"} => ~sts'.on,
           pc'[Client] \in {"stsend", "lost"} => sts'.on,
           IF pc'[Client] = "opt"
           THEN /\ pc[Client] = "idle" /\ job'[Client].from = "app"
                /\ job'[Client].name \in Name /\ job'[Client].dest = sprop_dest
           ELSE job' = job
    PROVE  ResumeInv'
<1> USE ClientIsTask
<1> DEFINE j == job[Client]
           l == pc[Client]
<1>1. OnlyAds /\ StsRuns(j, l) /\ Sees(j, l) /\ GoesOn(j, l)
  BY ResumeHere
<1> HIDE DEF j, l
<1>2. StsRuns(job[Client], pc[Client])'
  BY <1>1 DEF StsRuns, Sending, Ending, j, l
<1>3. Sees(job[Client], pc[Client])'
  BY <1>1 DEF Sees, Told, InEcho, j, l
<1>4. GoesOn(job[Client], pc[Client])'
  BY <1>1 DEF GoesOn, Told, InEcho, StsRuns, Sending, j, l
<1>5. QED
  BY <1>2, <1>3, <1>4 DEF ResumeInv

\* The client task is given the end of a send, from where it may be.
LEMMA CompleteResume ==
    ASSUME ResumeInv, CountInv', NEW p, NEW from \in {"http", "loop", "lost"},
           NEW status, NEW fail, Complete(Client, p, from, status, fail),
           UNCHANGED <<enabled, sprop_dest, echos_pending, ready_pend, prop, sts>>,
           OnlyAds',
           sts.on => from # "http" /\ valid' = valid,
           from = "lost" => sts.on,
           pc[Client] \notin {"sts", "listen", "dec"} \cup Sending \cup Ending,
           conn_update => conn_update',
           Ads \in valid' => ads_listen' = ads_listen,
           conn_update' \/ valid' = valid,
           Ads \in fail /\ status = "conn_err" => conn_update' \/ Ads \notin valid'
    PROVE  ResumeInv'
<1> USE ClientIsTask
<1> DEFINE j == job[Client]
           l == pc[Client]
<1>1. /\ pc \in [Task -> Pc] /\ job \in [Task -> Job]
      /\ StsRuns(j, l) /\ Sees(j, l) /\ GoesOn(j, l)
  BY ResumeHere
<1>2. /\ pc'[Client] = "done" /\ job'[Client].from = from
      /\ job'[Client].status = status /\ job'[Client].fail = fail
  BY <1>1 DEF Complete, Goto, NoJob
<1> HIDE DEF j, l
<1>3. StsRuns(job[Client], pc[Client])'
  BY <1>1, <1>2 DEF StsRuns, Sending, Ending
<1>4. Sees(job[Client], pc[Client])'
  BY <1>1, <1>2 DEF Sees, Told, InEcho, l
<1>5. GoesOn(job[Client], pc[Client])'
  BY <1>1, <1>2 DEF GoesOn, Told, InEcho, StsRuns, Sending, Ending, l
<1>6. QED
  BY <1>3, <1>4, <1>5 DEF ResumeInv

LEMMA SendNextResume ==
    ASSUME ResumeInv, CountInv', SendNextCb \/ Loop \/ CallbackSet
    PROVE  ResumeInv'
<1> USE ClientIsTask
<1>1. /\ pc \in [Task -> Pc] /\ prop \in [Prop -> PropRec] /\ OnlyAds
      /\ StsRuns(job[Client], pc[Client])
  BY ResumeHere
<1>2. CASE SendNextCb
  <2>1. pc[Client] = "idle" /\ pc'[Client] = "loop"
    BY <1>1, <1>2 DEF SendNextCb, ClientIdle, Goto
  <2>2. OnlyAds'
    BY <1>1, <1>2 DEF SendNextCb, OnlyAds, clientVars
  <2>3. QED
    BY <1>1, <1>2, <2>1, <2>2, MoveResume DEF SendNextCb, StsRuns, clientVars, spropVars
<1>3. CASE Loop
  <2>1. /\ pc[Client] = "loop"
        /\ pc'[Client] \in {"set", IF sts.on THEN "lost" ELSE "idle"}
    BY <1>1, <1>3 DEF Loop, Goto
  <2>2. OnlyAds'
    BY <1>1, <1>3 DEF Loop, OnlyAds, clientVars
  <2>3. QED
    BY <1>3, <2>1, <2>2, MoveResume DEF Loop, clientVars, spropVars
<1>4. CASE CallbackSet
  <2> DEFINE left == Reachable(sending)
             fail == prop[sending].dest \ valid
  <2>1. /\ pc[Client] = "set" /\ dest' = left /\ failed' = fail
        /\ UNCHANGED <<valid, ads_listen, lost_q, enabled, spropVars, prop, sts>>
    BY <1>4 DEF CallbackSet
  <2>2. left \subseteq valid /\ fail \cap valid = {}
    BY DEF Reachable
  <2>3. CASE left = {}
    <3>1. /\ conn_update' = TRUE /\ cb' = FALSE /\ UNCHANGED conn
          /\ Complete(Client, sending, "loop", "conn_err", fail)
      BY <1>4, <2>3 DEF CallbackSet
    <3>2. OnlyAds'
      BY <1>1, <2>1, <3>1 DEF OnlyAds
    <3> HIDE DEF left, fail
    <3>3. QED
      BY <2>1, <3>1, <3>2, CompleteResume DEF spropVars, Sending, Ending
  <2>4. CASE left # {}
    <3>1. /\ cb' = TRUE /\ conn' \in {conn, "event"} /\ pc'[Client] = "loop"
          /\ UNCHANGED <<conn_update, job>>
      BY <1>1, <1>4, <2>4 DEF CallbackSet, Goto
    <3>2. left = {Ads} /\ Ads \notin fail
      BY <1>1, <2>2, <2>4 DEF OnlyAds
    <3> HIDE DEF left, fail
    <3>3. OnlyAds'
      BY <1>1, <2>1, <3>1, <3>2 DEF OnlyAds
    <3>4. QED
      BY <2>1, <3>1, <3>3, MoveResume DEF spropVars
  <2>5. QED
    BY <2>3, <2>4
<1>5. QED
  BY <1>2, <1>3, <1>4

\* What the client does next.
LEMMA NextStepResume ==
    ASSUME ResumeInv, CountInv', NextCb \/ NextStep
    PROVE  ResumeInv'
<1> USE ClientIsTask
<1>1. /\ pc \in [Task -> Pc] /\ OnlyAds /\ StsRuns(job[Client], pc[Client])
      /\ Sees(job[Client], pc[Client]) /\ GoesOn(job[Client], pc[Client])
  BY ResumeHere
<1>2. CASE NextCb \/ (\E keep \in BOOLEAN : NextReq(keep)) \/ NextPost \/ NextNothing
  <2>1. /\ pc[Client] \in {"idle", "next"} /\ pc'[Client] \in {"idle", "next"}
        /\ UNCHANGED <<valid, cb, dest, failed, conn_update, ads_listen, mgrVars,
                       spropVars, prop, job, sts>>
        /\ conn' \in {conn, "req", "post"}
    BY <1>1, <1>2 DEF NextCb, NextReq, NextPost, NextNothing, NextReady, ClientIdle,
       Goto, clientVars
  <2>2. OnlyAds'
    BY <1>1, <2>1 DEF OnlyAds, mgrVars
  <2>3. QED
    BY <1>1, <2>1, <2>2, MoveResume DEF StsRuns, mgrVars, spropVars
<1>3. CASE NextUpdate
  <2>1. /\ pc[Client] = "next" /\ pc'[Client] = "sts"
        /\ sts'.on /\ sts'.mask = valid
        /\ UNCHANGED <<valid, cb, dest, failed, conn, ads_listen, mgrVars, spropVars,
                       prop, job>>
    BY <1>1, <1>3 DEF NextUpdate, NextReady, Goto
  <2>2. OnlyAds'
    BY <1>1, <2>1 DEF OnlyAds, mgrVars
  <2>3. StsRuns(job[Client], pc[Client])'
    BY <1>1, <2>1 DEF StsRuns, Sending, Ending
  <2>4. Sees(job[Client], pc[Client])'
    BY <2>1 DEF Sees, Told, InEcho
  <2>5. GoesOn(job[Client], pc[Client])'
    BY <2>1 DEF GoesOn, Told
  <2>6. QED
    BY <2>2, <2>3, <2>4, <2>5 DEF ResumeInv
<1>4. QED
  BY <1>2, <1>3 DEF NextStep

\* prop_mgr_connect_sts(), up to where it looks at the queue.
LEMMA StsResume ==
    ASSUME ResumeInv, CountInv', Sts \/ Listen \/ ReadyCb
    PROVE  ResumeInv'
<1> USE ClientIsTask
<1> DEFINE j == job[Client]
           l == pc[Client]
<1>1. /\ pc \in [Task -> Pc] /\ job \in [Task -> Job] /\ OnlyAds /\ StsRuns(j, l)
      /\ Sees(j, l) /\ GoesOn(j, l)
  BY ResumeHere
<1>2. UNCHANGED <<valid, cb, dest, failed, conn, conn_update, lost_q, echos_pending,
                  prop, sts>>
  BY DEF Sts, Listen, ReadyCb, clientVars, mgrVars, spropVars
<1>3. OnlyAds'
  BY <1>1, <1>2 DEF OnlyAds
<1>4. CASE Sts
  <2>1. /\ l = "sts" /\ sprop_dest' = sts.mask /\ UNCHANGED <<ads_listen, ready_pend>>
        /\ enabled' = (enabled /\ Ads \in sts.mask)
        /\ IF Ads \in sts.mask
           THEN job'[Client].from = "sts" /\ pc'[Client] = "echo"
           ELSE job'[Client] = j /\ pc'[Client] = "stsend"
    BY <1>1, <1>4 DEF Sts, AfterSts, NoJob, Goto, clientVars
  <2> HIDE DEF j, l
  <2>2. StsRuns(job[Client], pc[Client])'
    BY <1>1, <1>2, <2>1 DEF StsRuns, Sending, Ending
  <2>3. Sees(job[Client], pc[Client])'
    BY <1>1, <1>2, <2>1 DEF Sees, StsRuns, Told, InEcho
  <2>4. GoesOn(job[Client], pc[Client])'
    BY <1>1, <1>2, <2>1 DEF GoesOn, StsRuns, Told, InEcho
  <2>5. QED
    BY <1>3, <2>2, <2>3, <2>4 DEF ResumeInv
<1>5. CASE Listen
  <2>1. /\ l = "listen" /\ UNCHANGED <<sprop_dest, enabled, ready_pend>>
        /\ job'[Client].from = "app"
        /\ pc'[Client] = IF sts.on THEN "stsend" ELSE "idle"
        /\ enabled /\ Ads \in valid => ads_listen'
        /\ ads_listen => ads_listen'
    BY <1>1, <1>5 DEF Listen, NoJob, Goto, mgrVars, spropVars
  <2> HIDE DEF j, l
  <2>2. StsRuns(job[Client], pc[Client])'
    BY <1>1, <1>2, <2>1 DEF StsRuns, Sending, Ending
  <2>3. Sees(job[Client], pc[Client])'
    BY <1>1, <1>2, <2>1 DEF Sees, Told, InEcho
  <2>4. GoesOn(job[Client], pc[Client])'
    BY <1>1, <1>2, <2>1 DEF GoesOn, Told, InEcho
  <2>5. QED
    BY <1>3, <2>2, <2>3, <2>4 DEF ResumeInv
<1>6. CASE ReadyCb
  <2>1. /\ l = "idle" /\ job'[Client] = j /\ UNCHANGED <<ads_listen, sprop_dest>>
        /\ \/ enabled' = TRUE /\ pc'[Client] = "listen"
           \/ /\ echos_pending # 0 \/ Ads \notin sprop_dest \/ enabled
              /\ enabled' = enabled /\ pc'[Client] = l
    BY <1>1, <1>6 DEF ReadyCb, ClientIdle, Goto, clientVars
  <2> HIDE DEF j, l
  <2>2. StsRuns(job[Client], pc[Client])'
    BY <1>1, <1>2, <2>1 DEF StsRuns, Sending, Ending
  <2>3. Sees(job[Client], pc[Client])'
    BY <1>1, <1>2, <2>1 DEF Sees, Told, InEcho
  <2>4. GoesOn(job[Client], pc[Client])'
    BY <1>1, <1>2, <2>1 DEF GoesOn, Sees, Told, InEcho
  <2>5. QED
    BY <1>3, <2>2, <2>3, <2>4 DEF ResumeInv
<1>7. QED
  BY <1>4, <1>5, <1>6

\* What is on the queue is for ADS, so nothing is lost while ADS is there.
LEMMA NothingLost ==
    ASSUME ResumeInv, LostCheck
    PROVE  lost_q' # <<>> => Ads \notin valid
<1> DEFINE I == {i \in 1 .. Len(send_q) : prop[send_q[i]].dest \cap sts.mask = {}}
<1>1. /\ pc[Client] = "lost" /\ lost_q' \in Picked(send_q, I) /\ send_q \in Seq(Prop)
      /\ OnlyAds /\ StsRuns(job[Client], pc[Client])
  BY ResumeHere DEF LostCheck, TypeOK
<1>2. sts.mask = valid
  BY <1>1 DEF StsRuns
<1>3. PICK place \in [Prop -> Place] : At(place)
  BY ResumeHere DEF Inv
<1>4. ASSUME NEW i \in 1 .. Len(send_q) PROVE Ads \in prop[send_q[i]].dest
  <2>1. send_q[i] \in Prop
    BY <1>1
  <2>2. place[send_q[i]] = InSend
    BY <1>3, <2>1 DEF At, Listed
  <2>3. prop[send_q[i]] # Free
    BY <1>3, <2>1, <2>2, PlacesDiffer DEF At
  <2>4. QED
    BY <1>1, <2>1, <2>3 DEF OnlyAds
<1>5. Ads \in valid => I = {}
  BY <1>2, <1>4
<1> HIDE DEF I
<1>6. I = {} => lost_q' = <<>>
  <2> SUFFICES ASSUME I = {} PROVE lost_q' = <<>>
    OBVIOUS
  <2>1. lost_q' \in Seq(Prop) /\ \A i \in 1 .. Len(lost_q') : \E k \in I : TRUE
    BY <1>1, PickedFact
  <2>2. QED
    BY <2>1
<1>7. QED
  BY <1>5, <1>6

\* The rest of prop_mgr_connect_sts().
LEMMA LostResume ==
    ASSUME ResumeInv, CountInv', StsSend \/ LostCheck \/ LostFail \/ StsEnd
    PROVE  ResumeInv'
<1> USE ClientIsTask
<1>1. /\ pc \in [Task -> Pc] /\ OnlyAds /\ StsRuns(job[Client], pc[Client])
      /\ sts \in StsArgs
  BY ResumeHere
<1>2. UNCHANGED <<clientVars, enabled, spropVars, prop>>
  BY DEF StsSend, LostCheck, LostFail, StsEnd, mgrVars
<1>3. CASE StsSend \/ LostCheck \/ StsEnd
  <2>1. /\ pc[Client] \in {"stsend", "lost"} /\ pc'[Client] \in {"lost", "loop", "next"}
        /\ job' = job
        /\ IF pc'[Client] = "next" THEN ~sts'.on
                                  ELSE sts'.on = sts.on /\ sts'.mask = sts.mask
    BY <1>1, <1>3 DEF StsSend, LostCheck, StsEnd, Goto, NoSts, StsArgs
  <2>2. lost_q' # <<>> => Ads \notin valid
    <3>1. CASE LostCheck
      BY <3>1, NothingLost
    <3>2. CASE StsSend \/ StsEnd
      BY <1>1, <3>2 DEF OnlyAds, StsSend, StsEnd, mgrVars
    <3>3. QED
      BY <1>3, <3>1, <3>2
  <2>3. OnlyAds'
    BY <1>1, <1>2, <2>2 DEF OnlyAds, clientVars
  <2>4. sts.on
    BY <1>1, <2>1 DEF StsRuns
  <2>5. QED
    BY <1>2, <2>1, <2>3, <2>4, MoveResume DEF clientVars, spropVars
<1>4. CASE LostFail
  <2>1. /\ pc[Client] = "lost" /\ lost_q # <<>> /\ sts' = sts
        /\ \E p, fail : Complete(Client, p, "lost", "conn_err", fail)
    BY <1>4 DEF LostFail
  <2>2. Ads \notin valid
    BY <1>1, <2>1 DEF OnlyAds
  <2>3. OnlyAds'
    BY <1>1, <1>2, <2>2 DEF OnlyAds, clientVars
  <2>4. sts.on
    BY <1>1, <2>1 DEF StsRuns
  <2>5. QED
    BY <1>2, <2>1, <2>2, <2>3, <2>4, CompleteResume DEF clientVars, spropVars, Sending, Ending
<1>5. QED
  BY <1>3, <1>4

\* Nothing of what is to be done, or more of it.
LEMMA WaitResume ==
    ASSUME ResumeInv, CountInv', OnlyAds', UNCHANGED <<mgrVars, spropVars, taskVars>>,
           conn_update => conn_update',
           conn_update' \/ valid' = valid,
           Ads \in valid' => ads_listen' = ads_listen,
           pc[Client] = "idle" \/ (UNCHANGED <<valid, conn_update>>)
    PROVE  ResumeInv'
<1> DEFINE j == job[Client]
           l == pc[Client]
<1>1. StsRuns(j, l) /\ Sees(j, l) /\ GoesOn(j, l)
  BY ResumeHere
<1>2. UNCHANGED <<enabled, sprop_dest, echos_pending, ready_pend, sts>>
      /\ job'[Client] = j /\ pc'[Client] = l
  BY DEF mgrVars, spropVars, taskVars
<1> HIDE DEF j, l
<1>3. l = "idle" \/ (UNCHANGED <<valid, conn_update>>)
  BY DEF l
<1>4. StsRuns(job[Client], pc[Client])'
  BY <1>1, <1>2, <1>3 DEF StsRuns, Sending, Ending
<1>5. Sees(job[Client], pc[Client])'
  BY <1>1, <1>2, <1>3 DEF Sees, Told, InEcho
<1>6. GoesOn(job[Client], pc[Client])'
  BY <1>1, <1>2, <1>3 DEF GoesOn, Told, InEcho
<1>7. QED
  BY <1>4, <1>5, <1>6 DEF ResumeInv

\* A request that was a POST or a GET has ended, and with it the send.
LEMMA SendDoneResume ==
    ASSUME ResumeInv, CountInv', pc[Client] = "idle", NEW ok \in BOOLEAN, NEW err,
           SendDone(Client, "http", {Ads}, ok, err),
           failed' = FailedAfter({Ads}, ok), dest' = DestAfter({Ads}),
           conn' # "down",
           UNCHANGED <<lost_q, enabled, spropVars, prop, sts>>,
           valid' \in {valid, {}}, Ads \in valid' => ads_listen' = ads_listen,
           conn_update => conn_update',
           conn_update' \/ valid' = valid,
           ok \/ overflow' \/ err # "conn_err" \/ Ads \notin valid'
    PROVE  ResumeInv'
<1>1. OnlyAds /\ StsRuns(job[Client], pc[Client])
      /\ Sees(job[Client], pc[Client]) /\ GoesOn(job[Client], pc[Client])
  BY ResumeHere
<1>2. CASE cb
  <2>1. dest = {Ads} /\ Ads \notin failed
    BY <1>1, <1>2 DEF OnlyAds
  <2> DEFINE fail == FailedAfter({Ads}, ok)
             status == DoneStatus(fail, err)
  <2>2. /\ cb' = FALSE
        /\ Complete(Client, sending, "http", status, fail)
    BY <1>2, <2>1 DEF SendDone, NotWaitedFor
  <2>3. OnlyAds'
    BY <1>1, <2>2 DEF OnlyAds
  <2>4. Ads \in fail /\ status = "conn_err" => ~ok /\ ~overflow' /\ err = "conn_err"
    BY <2>1 DEF DoneStatus, FailedAfter
  <2> HIDE DEF fail, status
  <2>5. ~sts.on
    BY <1>1 DEF StsRuns
  <2>6. QED
    BY <2>2, <2>3, <2>4, <2>5, CompleteResume DEF spropVars, Sending, Ending
<1>3. CASE ~cb
  <2>1. cb' = cb /\ UNCHANGED <<pc, job, sending>>
    BY <1>3 DEF SendDone
  <2>2. OnlyAds'
    BY <1>1, <1>3, <2>1 DEF OnlyAds
  <2>3. /\ UNCHANGED <<enabled, sprop_dest, echos_pending, ready_pend, sts>>
        /\ job'[Client] = job[Client] /\ pc'[Client] = pc[Client]
    BY <2>1 DEF spropVars
  <2>4. StsRuns(job[Client], pc[Client])'
    BY <1>1, <2>3 DEF StsRuns, Sending, Ending
  <2>5. Sees(job[Client], pc[Client])'
    BY <1>1, <2>3 DEF Sees, Told, InEcho
  <2>6. GoesOn(job[Client], pc[Client])'
    BY <1>1, <2>3 DEF GoesOn, Told, InEcho
  <2>7. QED
    BY <2>2, <2>4, <2>5, <2>6 DEF ResumeInv
<1>4. QED
  BY <1>2, <1>3

LEMMA HttpResume ==
    ASSUME CloudOnly, ResumeInv, CountInv', HttpEnd \/ RetryTimeout
    PROVE  ResumeInv'
<1>1. OnlyAds /\ conn \in Conn
  BY ResumeHere DEF TypeOK
<1>2. CASE PostOk
  BY <1>2, SendDoneResume DEF PostOk, ClientIdle, ToEvent
<1>3. ASSUME NEW o \in {"timeout", "s4xx", "s5xx"}, ReqError(o) PROVE ResumeInv'
  <2>1. o \in {"timeout", "s4xx"}
    BY <1>3 DEF ReqError, CloudOnly
  <2> DEFINE err == IF o = "s4xx" THEN "ads_err" ELSE "conn_err"
  <2>2. overflow' \/ err # "conn_err"
    BY <1>3, <2>1 DEF ReqError
  <2>3. SendDone(Client, "http", {Ads}, FALSE, err)
    BY <1>3 DEF ReqError
  <2> HIDE DEF err
  <2>4. QED
    BY <1>3, <2>2, <2>3, SendDoneResume DEF ReqError, ClientIdle, ToEvent
<1>4. ASSUME NEW err \in {"conn_err", "ads_err"}, AdsLost(err) PROVE ResumeInv'
  <2>1. /\ valid' = {} /\ conn' = "retry"
        /\ conn_update' = (conn_update \/ Ads \in valid)
        /\ pc[Client] = "idle" /\ SendDone(Client, "http", {Ads}, FALSE, err)
    BY <1>1, <1>4 DEF AdsLost, ClientIdle, OnlyAds
  <2>2. conn_update' \/ valid' = valid
    BY <1>1, <2>1 DEF OnlyAds
  <2>3. QED
    BY <1>4, <2>1, <2>2, SendDoneResume DEF AdsLost
<1>5. CASE ReqOk
  <2>1. /\ valid' = {Ads} /\ conn' = "event" /\ pc[Client] = "idle"
        /\ conn_update' = (conn_update \/ Ads \notin valid) /\ ads_listen' = ads_listen
        /\ UNCHANGED <<cb, dest, failed, mgrVars, spropVars, prop, taskVars>>
    BY <1>1, <1>5 DEF ReqOk, ClientIdle, OnlyAds
  <2>2. lost_q = <<>>
    BY <2>1, ResumeHere, NotChecking DEF Ending, Sending
  <2>3. OnlyAds'
    BY <1>1, <2>1, <2>2 DEF OnlyAds, mgrVars
  <2>4. conn_update' \/ valid' = valid
    BY <1>1, <2>1 DEF OnlyAds
  <2>5. QED
    BY <2>1, <2>3, <2>4, WaitResume
<1>6. ASSUME RetryTimeout \/ \E o \in {"closed", "timeout"} : Again(o) PROVE ResumeInv'
  <2>1. /\ UNCHANGED <<valid, cb, dest, failed, conn_update, ads_listen, mgrVars,
                       spropVars, prop, taskVars>>
        /\ conn' = "event"
    BY <1>6 DEF RetryTimeout, Again, ToEvent
  <2>2. OnlyAds'
    BY <1>1, <2>1 DEF OnlyAds, mgrVars
  <2>3. QED
    BY <2>1, <2>2, WaitResume
<1>7. QED
  BY <1>2, <1>3, <1>4, <1>5, <1>6 DEF HttpEnd

LEMMA EnvironmentResume ==
    ASSUME OneSender, CloudOnly, ResumeInv, CountInv', Environment
    PROVE  ResumeInv'
<1>1. OnlyAds
  BY ResumeHere
<1>2. CASE HttpEnd \/ RetryTimeout
  BY <1>2, HttpResume
<1>3. ASSUME NEW d \in Lan, LanPostOk(d) \/ LanDown(d) \/ LanUp(d) \/ LanClear(d)
      PROVE  FALSE
  <2>1. d \notin valid
    BY <1>1 DEF OnlyAds, Lan
  <2>2. QED
    BY <1>3, <2>1 DEF LanPostOk, LanDown, LanUp, LanClear, LanClearout, CloudOnly
<1>4. ASSUME NEW n \in Name, LanSet(n) PROVE FALSE
  BY <1>1, <1>4 DEF LanSet, OnlyAds, Lan
<1>5. ASSUME NEW t \in Wifi, Down(t) PROVE FALSE
  BY <1>5 DEF Down, OneSender
<1>6. ASSUME NEW t \in Wifi, Up(t) PROVE ResumeInv'
  <2>1. /\ valid = {} /\ conn' = "event"
        /\ UNCHANGED <<valid, cb, dest, failed, conn_update, mgrVars, spropVars, prop,
                       taskVars>>
    BY <1>1, <1>6 DEF Up, OnlyAds
  <2>2. OnlyAds'
    BY <1>1, <2>1 DEF OnlyAds, mgrVars
  <2>3. QED
    BY <2>1, <2>2, WaitResume
<1>7. QED
  BY <1>2, <1>3, <1>4, <1>5, <1>6 DEF Environment, LanEnd

LEMMA NextResume ==
    ASSUME OneSender, CloudOnly, ResumeInv, [Next]_vars
    PROVE  ResumeInv'
<1>1. CountInv'
  BY NextCount DEF ResumeInv
<1>2. ASSUME NEW t \in App, NEW n \in Name, Send(t, n) PROVE ResumeInv'
  <2>1. t = Client
    BY <1>2 DEF OneSender
  <2>2. /\ OnlyAds /\ StsRuns(job[Client], pc[Client]) /\ pc \in [Task -> Pc]
        /\ job \in [Task -> Job]
    BY ResumeHere
  <2>3. /\ pc[Client] = "idle" /\ pc'[Client] = "opt" /\ job'[Client].from = "app"
        /\ job'[Client].name \in Name /\ job'[Client].dest = sprop_dest
        /\ UNCHANGED <<clientVars, mgrVars, spropVars, prop, sts>>
    BY <1>2, <2>1, <2>2, ClientIsTask DEF Send, Goto, NoJob
  <2>4. OnlyAds'
    BY <2>2, <2>3 DEF OnlyAds, clientVars, mgrVars
  <2>5. QED
    BY <1>1, <2>3, <2>4, MoveResume DEF clientVars, mgrVars, spropVars
<1>3. ASSUME NEW t \in Task, SendOpt(t) \/ Completion(t) PROVE ResumeInv'
  <2>1. pc[t] # "idle"
    BY <1>3 DEF SendOpt, Opt, Enq, Load, Store, Completion, Done, Dec, SendEcho,
       Echoed, FreeProp
  <2>2. t = Client
    BY <2>1, ResumeHere DEF Alone
  <2>3. QED
    BY <1>1, <1>3, <2>2, SendOptResume, CompletionResume
<1>4. CASE SendNextCb \/ Loop \/ CallbackSet
  BY <1>1, <1>4, SendNextResume
<1>5. CASE NextCb \/ NextStep \/ ConnectSts \/ ReadyCb
  BY <1>1, <1>5, NextStepResume, StsResume, LostResume DEF ConnectSts
<1>6. CASE Environment
  BY <1>1, <1>6, EnvironmentResume
<1>7. CASE UNCHANGED vars
  <2>1. OnlyAds'
    BY <1>7, ResumeHere DEF vars, clientVars, mgrVars, OnlyAds
  <2>2. QED
    BY <1>1, <1>7, <2>1, WaitResume DEF vars, clientVars
<1>8. QED
  BY <1>2, <1>3, <1>4, <1>5, <1>6, <1>7 DEF Next

LEMMA InitResume == Init => ResumeInv
<1> SUFFICES ASSUME Init PROVE ResumeInv
  OBVIOUS
<1>1. CountInv
  BY InitCount
<1>2. OnlyAds
  BY DEF Init, OnlyAds
<1>3. /\ pc[Client] = "idle" /\ job[Client].from = "app" /\ ~sts.on /\ valid = {}
      /\ sprop_dest = {}
  BY ClientIsTask DEF Init, NoJob, NoSts
<1>4. StsRuns(job[Client], pc[Client])
  BY <1>3 DEF StsRuns
<1>5. Sees(job[Client], pc[Client])
  BY <1>3 DEF Sees, InEcho
<1>6. GoesOn(job[Client], pc[Client])
  BY <1>3 DEF GoesOn
<1>7. QED
  BY <1>1, <1>2, <1>4, <1>5, <1>6 DEF ResumeInv

\* Every property is echoed, and there is room for two updates.
EchoesOnly == Echo = Name /\ \E p, q \in Prop : p # q

ResendInv == ResumeInv /\ Resends(job[Client], pc[Client])

\* While there is an update that is open the count is not zero.
LEMMA OpenCounts ==
    ASSUME EchoesOnly, ResumeInv, NEW p \in Prop, Open(p)
    PROVE  Cardinality(Echoes) # 0
<1>1. prop[p] # Free
  BY OpenFact DEF ResumeInv
<1>2. IsEcho(p)
  BY <1>1, ResumeHere DEF OnlyAds, IsEcho, EchoesOnly
<1>3. p \in Echoes /\ IsFiniteSet(Echoes)
  BY <1>2, ResumeHere DEF EchoesAre
<1>4. QED
  BY <1>3, FS_EmptySet

\* The heap is full: there is an update that is open.
LEMMA FullHeap ==
    ASSUME EchoesOnly, ResumeInv, pc[Client] = "opt", \A p \in Prop : prop[p] # Free
    PROVE  \E p \in Prop : Open(p)
<1>1. PICK place \in [Prop -> Place] : At(place)
  BY ResumeHere DEF Inv
<1>2. PICK p \in Prop : p # job[Client].done
  BY DEF EchoesOnly
<1>3. ASSUME NEW t \in Task PROVE job[t].new # p /\ job[t].done # p
  <2>1. CASE t = Client
    <3>1. job[t].new = NoProp
      BY <2>1, ResumeHere DEF JobAt
    <3>2. QED
      BY <1>2, <2>1, <3>1, PropDataAssumption
  <2>2. CASE t # Client
    <3>1. pc[t] = "idle" /\ JobAt(job[t], pc[t])
      BY <2>2, ResumeHere, Here DEF Alone
    <3>2. job[t].new = NoProp /\ job[t].done = NoProp
      BY <3>1 DEF JobAt, Ending, Sending
    <3>3. QED
      BY <3>2, PropDataAssumption
  <2>3. QED
    BY <2>1, <2>2
<1>4. place[p] \in {InSend, InLost, BeingSent}
  <2>1. place[p] # Heap
    BY <1>1 DEF At
  <2>2. \A t \in Task : place[p] # NewOf(t) /\ place[p] # DoneOf(t)
    BY <1>1, <1>3 DEF At
  <2>3. QED
    BY <2>1, <2>2 DEF Place
<1>5. Open(p)
  BY <1>1, <1>4 DEF At, Listed, Open
<1>6. QED
  BY <1>5

\* sprop_send_opt() leaves an echo only where another one is to end first.
LEMMA OptResend ==
    ASSUME EchoesOnly, ResendInv, ResumeInv', Opt(Client)
    PROVE  ResendInv'
<1> USE ClientIsTask
<1> DEFINE j == job[Client]
           l == pc[Client]
           n == j.name
           defer == n \in Echo /\ Ads \notin j.dest
           full == Free \notin {prop[p] : p \in Prop}
           again == full /\ j.from # "app"
<1>1. /\ pc \in [Task -> Pc] /\ job \in [Task -> Job] /\ send_req \in [Name -> BOOLEAN]
      /\ TypeOK /\ Sees(j, l) /\ Resends(j, l) /\ OnlyAds
      /\ CountAt(l, Cardinality(Echoes))
  BY ResumeHere DEF ResendInv
<1>2. /\ l = "opt" /\ UNCHANGED <<valid, conn_update, echos_pending>>
      /\ send_req' = [send_req EXCEPT ![n] = @ \/ defer \/ again]
      /\ job'[Client].from = j.from
      /\ pc'[Client] \in {"enq", IF j.from = "app" THEN "idle" ELSE "echoed"}
      /\ pc'[Client] # "enq" => full \/ defer
  BY <1>1, AfterSendFact DEF Opt, Alloc, Goto, Job, clientVars
<1>3. full => echos_pending # 0
  <2>1. ASSUME full PROVE echos_pending # 0
    <3>1. \A p \in Prop : prop[p] # Free
      BY <2>1
    <3>2. Cardinality(Echoes) # 0
      BY <1>2, <3>1, FullHeap, OpenCounts DEF ResendInv
    <3>3. QED
      BY <1>1, <1>2, <3>2 DEF CountAt
  <2>2. QED
    BY <2>1
<1>4. defer => conn_update \/ Ads \notin valid
  BY <1>1, <1>2 DEF Sees, Told
<1>5. ~again /\ ~defer => send_req' = send_req
  BY <1>1, <1>2
<1>6. InEcho(j, l) => Ads \in j.dest
  BY <1>1, <1>2 DEF Sees
<1> HIDE DEF j, l, defer, full, n
<1>7. Resends(job[Client], pc[Client])'
  <2>1. CASE full
    BY <1>2, <1>3, <2>1 DEF Resends
  <2>2. CASE defer
    BY <1>2, <1>4, <2>2 DEF Resends, Told
  <2>3. CASE ~full /\ ~defer
    BY <1>1, <1>2, <1>5, <2>3 DEF Resends, Told
  <2>4. QED
    BY <2>1, <2>2, <2>3
<1>8. QED
  BY <1>7 DEF ResendInv

\* The other steps of sprop_send_opt() and prop_mgr_send_cb().
LEMMA TaskResend ==
    ASSUME EchoesOnly, ResendInv, ResumeInv', SendOpt(Client) \/ Completion(Client)
    PROVE  ResendInv'
<1> USE ClientIsTask
<1> DEFINE j == job[Client]
           l == pc[Client]
<1>1. /\ JobAt(j, l) /\ j \in Job
      /\ pc \in [Task -> Pc] /\ job \in [Task -> Job] /\ send_req \in [Name -> BOOLEAN]
      /\ prop \in [Prop -> PropRec] /\ echos_pending \in Nat
      /\ TypeOK /\ Sees(j, l) /\ Resends(j, l) /\ OnlyAds
      /\ CountAt(l, Cardinality(Echoes))
  BY ResumeHere DEF ResendInv
<1>2. UNCHANGED <<valid, conn_update>>
  BY DEF SendOpt, Opt, Enq, Load, Store, Completion, Done, Dec, SendEcho, Echoed,
     FreeProp, clientVars
<1>3. CASE Opt(Client)
  BY <1>3, OptResend
<1>4. CASE Enq(Client)
  <2>1. l = "enq" /\ j.new \in Prop
    BY <1>1, <1>4, JobTypes DEF Enq, JobAt
  <2>2. prop[j.new] # Free
    <3>1. PICK place \in [Prop -> Place] : At(place)
      BY ResumeHere DEF Inv, ResendInv
    <3>2. place[j.new] = NewOf(Client)
      BY <2>1, <3>1 DEF At
    <3>3. QED
      BY <2>1, <3>1, <3>2, PlacesDiffer DEF At
  <2>3. IsEcho(j.new)
    BY <1>1, <2>1, <2>2 DEF OnlyAds, IsEcho, EchoesOnly
  <2>4. pc'[Client] = "load"
    BY <1>1, <1>4, <2>3 DEF Enq, AfterEnq, Goto
  <2>5. QED
    BY <2>4 DEF ResendInv, Resends
<1>5. CASE Load(Client)
  <2>1. pc'[Client] = "store"
    BY <1>1, <1>5 DEF Load, Goto
  <2>2. QED
    BY <2>1 DEF ResendInv, Resends
<1>6. CASE Store(Client)
  <2>1. echos_pending' # 0
    BY <1>1, <1>6 DEF Store, Job
  <2>2. QED
    BY <2>1 DEF ResendInv, Resends
<1>7. CASE Done(Client)
  <2>1. l = "done" /\ j.done \in Prop
    BY <1>1, <1>7, JobTypes DEF Done, JobAt, Ending
  <2>2. Open(j.done)
    BY <2>1 DEF Open
  <2>3. Cardinality(Echoes) # 0 /\ prop[j.done] # Free
    BY <2>1, <2>2, OpenCounts, OpenFact DEF ResendInv, ResumeInv
  <2>4. IsEcho(j.done)
    BY <1>1, <2>1, <2>3 DEF OnlyAds, IsEcho, EchoesOnly
  <2>5. echos_pending > 0
    BY <1>1, <2>1, <2>3 DEF CountAt
  <2>6. pc'[Client] = "dec"
    BY <1>1, <1>7, <2>4, <2>5 DEF Done, Counted, Goto
  <2>7. QED
    BY <2>6 DEF ResendInv, Resends
<1>8. CASE Dec(Client)
  <2>1. /\ l = "dec" /\ pc'[Client] = IF Ads \in j.dest THEN "echo" ELSE "free"
        /\ job' = job
    BY <1>1, <1>8 DEF Dec, Goto
  <2> HIDE DEF j, l
  <2>2. Resends(job[Client], pc[Client])'
    BY <1>1, <1>2, <2>1 DEF Resends, Sees, Told
  <2>3. QED
    BY <2>2 DEF ResendInv
<1>9. CASE SendEcho(Client)
  <2>1. /\ l = "echo" /\ UNCHANGED echos_pending
        /\ \/ /\ pc'[Client] = "opt" /\ job'[Client].from = j.from
           \/ /\ ~\E n \in Name : send_req[n]
              /\ send_req' = send_req /\ pc'[Client] = "echoed"
    <3>1. CASE \E n \in Name : send_req[n]
      <4>1. /\ l = "echo" /\ UNCHANGED echos_pending
            /\ pc' = [pc EXCEPT ![Client] = "opt"]
            /\ \E n \in Name : job' = [job EXCEPT ![Client].name = n,
                                                 ![Client].dest = sprop_dest]
        BY <1>9, <3>1 DEF SendEcho, Goto
      <4>2. job'[Client].from = j.from
        BY <1>1, <4>1 DEF Job
      <4>3. QED
        BY <1>1, <4>1, <4>2
    <3>2. CASE ~\E n \in Name : send_req[n]
      BY <1>1, <1>9, <3>2 DEF SendEcho, Goto
    <3>3. QED
      BY <3>1, <3>2
  <2>2. j.from # "app"
    BY <1>1, <2>1 DEF JobAt
  <2> HIDE DEF j, l
  <2>3. Resends(job[Client], pc[Client])'
    BY <2>1, <2>2 DEF Resends
  <2>4. QED
    BY <2>3 DEF ResendInv
<1>10. CASE Echoed(Client) \/ FreeProp(Client)
  <2>1. l \in {"echoed", "free"} /\ UNCHANGED <<send_req, echos_pending>>
    BY <1>1, <1>10 DEF Echoed, FreeProp, spropVars
  <2> HIDE DEF j, l
  <2>2. Resends(job[Client], pc[Client])'
    BY <1>1, <1>2, <2>1 DEF Resends, Told
  <2>3. QED
    BY <2>2 DEF ResendInv
<1>11. QED
  BY <1>3, <1>4, <1>5, <1>6, <1>7, <1>8, <1>9, <1>10 DEF SendOpt, Completion

\* A step that leaves the echoes alone, from a place that does not say that one
\* will be sent; or the client's task stays where it is.
LEMMA OtherResend ==
    ASSUME ResendInv, ResumeInv', UNCHANGED <<send_req, echos_pending>>,
           \/ pc[Client] \notin {"sts", "opt", "enq", "load", "store", "dec", "echo"}
           \/ UNCHANGED <<pc, job>>,
           (Ads \in valid' => Ads \in valid) \/ conn_update',
           conn_update => conn_update'
    PROVE  ResendInv'
<1>1. Resends(job[Client], pc[Client])
  BY DEF ResendInv
<1>2. Resends(job[Client], pc[Client])'
  BY <1>1 DEF Resends, Told
<1>3. QED
  BY <1>2 DEF ResendInv

LEMMA NextResend ==
    ASSUME OneSender, CloudOnly, EchoesOnly, ResendInv, [Next]_vars
    PROVE  ResendInv'
<1> USE ClientIsTask
<1>1. /\ ResumeInv' /\ OnlyAds /\ pc \in [Task -> Pc] /\ StsRuns(job[Client], pc[Client])
  BY NextResume, ResumeHere DEF ResendInv
<1>2. ASSUME NEW t \in App, NEW n \in Name, Send(t, n) PROVE ResendInv'
  <2>1. /\ pc[Client] = "idle" /\ UNCHANGED <<send_req, echos_pending, valid, conn_update>>
    BY <1>2 DEF Send, spropVars, clientVars, OneSender
  <2>2. QED
    BY <1>1, <2>1, OtherResend
<1>3. ASSUME NEW t \in Task, SendOpt(t) \/ Completion(t) PROVE ResendInv'
  <2>1. pc[t] # "idle"
    BY <1>3 DEF SendOpt, Opt, Enq, Load, Store, Completion, Done, Dec, SendEcho,
       Echoed, FreeProp
  <2>2. t = Client
    BY <2>1, ResumeHere DEF Alone, ResendInv
  <2>3. QED
    BY <1>1, <1>3, <2>2, TaskResend
<1>4. CASE SendNextCb \/ Loop \/ CallbackSet
  <2>1. /\ pc[Client] \in {"idle", "loop", "set"}
        /\ UNCHANGED <<send_req, echos_pending, valid>>
        /\ conn_update => conn_update'
    BY <1>4 DEF SendNextCb, Loop, CallbackSet, ClientIdle, spropVars, clientVars
  <2>2. QED
    BY <1>1, <2>1, OtherResend
<1>5. CASE NextCb \/ NextStep \/ ReadyCb
  <2>1. /\ pc[Client] \in {"idle", "next"} /\ UNCHANGED <<send_req, echos_pending, valid>>
        /\ pc'[Client] = "sts" \/ conn_update' = conn_update
    BY <1>1, <1>5 DEF NextCb, NextStep, NextUpdate, NextReq, NextPost, NextNothing,
       NextReady, ReadyCb, ClientIdle, Goto, spropVars, clientVars
  <2>2. CASE pc'[Client] = "sts"
    BY <1>1, <2>2 DEF ResendInv, Resends, Told
  <2>3. CASE conn_update' = conn_update
    BY <1>1, <2>1, <2>3, OtherResend
  <2>4. QED
    BY <2>1, <2>2, <2>3
<1>6. CASE ConnectSts
  <2>1. UNCHANGED <<send_req, echos_pending, valid, conn_update>>
    BY <1>6 DEF ConnectSts, Sts, Listen, StsSend, LostCheck, LostFail, StsEnd,
       spropVars, clientVars
  <2>2. CASE Sts
    <3>1. sts.mask = valid
      BY <1>1, <2>2 DEF Sts, StsRuns
    <3>2. pc[Client] = "sts" /\ (Ads \in valid => pc'[Client] = "echo")
      BY <1>1, <2>2, <3>1 DEF Sts, AfterSts, Goto
    <3>3. QED
      BY <1>1, <2>1, <3>2 DEF ResendInv, Resends
  <2>3. CASE ~Sts
    <3>1. pc[Client] \in {"listen", "stsend", "lost"}
      BY <1>6, <2>3 DEF ConnectSts, Listen, StsSend, LostCheck, LostFail, StsEnd
    <3>2. QED
      BY <1>1, <2>1, <3>1, OtherResend
  <2>4. QED
    BY <2>2, <2>3
<1>7. CASE Environment
  <2>1. ASSUME NEW n \in Name, LanSet(n) PROVE FALSE
    BY <1>1, <2>1 DEF LanSet, OnlyAds, Lan
  <2>2. ASSUME NEW t \in Wifi, Down(t) PROVE FALSE
    BY <2>2 DEF Down, OneSender
  <2>3. ASSUME NEW t \in Wifi, Up(t) PROVE ResendInv'
    <3>1. UNCHANGED <<send_req, echos_pending, valid, pc, job, conn_update>>
      BY <2>3 DEF Up, spropVars, taskVars
    <3>2. QED
      BY <1>1, <3>1, OtherResend
  <2>4. ASSUME HttpEnd \/ RetryTimeout PROVE ResendInv'
    <3>1. /\ pc[Client] = "idle" /\ UNCHANGED <<send_req, echos_pending>>
          /\ conn_update => conn_update'
          /\ (Ads \in valid' => Ads \in valid) \/ conn_update'
      <4>1. CASE \/ RetryTimeout \/ PostOk \/ (\E o \in {"closed", "timeout"} : Again(o))
                 \/ (\E o \in {"timeout", "s4xx", "s5xx"} : ReqError(o))
        <5>1. /\ pc[Client] = "idle" /\ UNCHANGED spropVars
              /\ valid' = valid /\ conn_update' = conn_update
          BY <4>1 DEF PostOk, Again, ReqError, RetryTimeout, ToEvent, ClientIdle
        <5>2. QED
          BY <5>1 DEF spropVars
      <4>2. CASE ReqOk
        BY <4>2 DEF ReqOk, ClientIdle, spropVars
      <4>3. ASSUME NEW err, AdsLost(err) 
            PROVE  /\ pc[Client] = "idle" /\ UNCHANGED <<send_req, echos_pending>>
                   /\ conn_update => conn_update'
                   /\ (Ads \in valid' => Ads \in valid) \/ conn_update'
        BY <4>3 DEF AdsLost, ClientIdle, spropVars
      <4>4. QED
        BY <2>4, <4>1, <4>2, <4>3 DEF HttpEnd
    <3>2. QED
      BY <1>1, <3>1, OtherResend
  <2>5. ASSUME NEW d \in Lan, LanPostOk(d) \/ LanDown(d) \/ LanUp(d) \/ LanClear(d)
        PROVE  FALSE
    <3>1. d \notin valid
      BY <1>1 DEF OnlyAds, Lan
    <3>2. QED
      BY <2>5, <3>1 DEF LanPostOk, LanDown, LanUp, LanClear, LanClearout, CloudOnly
  <2>6. QED
    BY <1>7, <2>1, <2>2, <2>3, <2>4, <2>5 DEF Environment, LanEnd
<1>8. CASE UNCHANGED vars
  BY <1>1, <1>8, OtherResend DEF vars, clientVars, spropVars, taskVars
<1>9. QED
  BY <1>2, <1>3, <1>4, <1>5, <1>6, <1>7, <1>8 DEF Next

\* At rest no update is open, so the count is zero.
LEMMA QuietFact ==
    ASSUME ResumeInv, Quiet
    PROVE  pc[Client] = "idle" /\ echos_pending = 0
<1>1. pc[Client] = "idle"
  BY ClientIsTask DEF Quiet
<1>2. lost_q = <<>>
  BY <1>1, ResumeHere, NotChecking DEF Ending, Sending
<1>3. ASSUME NEW p \in Prop PROVE ~Open(p)
  <2>1. sending # p /\ 1 .. Len(send_q) = {} /\ 1 .. Len(lost_q) = {}
    BY <1>2, PropDataAssumption DEF Quiet
  <2>2. QED
    BY <1>1, <2>1 DEF Open
<1>4. Echoes = {}
  BY <1>3, ResumeHere DEF EchoesAre
<1>5. QED
  BY <1>1, <1>4, ResumeHere, FS_EmptySet DEF CountAt

-----------------------------------------------------------------------------
(* The theorems.                                                           *)

\* The queue, the tasks' jobs and the client's state keep their types.
THEOREM TypeCorrect == Spec => []TypeOK
<1>1. Inv => TypeOK
  BY DEF Inv
<1>2. QED
  BY <1>1, InvHolds, PTL

\* A struct prop has one owner until it is freed, whichever tasks send, fail
\* and complete it and in whatever order (ada_prop_mgr_enqueue,
\* prop_mgr_send_next, prop_mgr_send_queue_check, prop_mgr_send_cb).
THEOREM OneOwnerHolds == Spec => []OneOwner
<1>1. QED
  BY InvOneOwner, InvHolds, PTL

\* The property manager and the client agree on the update being sent and it
\* can still end (client_send_callback_set, client_prop_send_done), after any
\* step but a LAN session's clearing that does not end its send.
THEOREM SendKeptHolds == Spec => SendKept
<1> DEFINE Kept == SendMatched /\ SendCanEnd =>
                     (SendMatched /\ SendCanEnd)' \/ \E d \in Lan : LanClear(d)
<1>1. Inv /\ [Next]_vars => [Kept]_vars
  <2>1. ASSUME Inv, [Next]_vars, SendMatched, SendCanEnd
        PROVE  (SendMatched /\ SendCanEnd)' \/ \E d \in Lan : LanClear(d)
    <3>1. Waits' \/ \E d \in Lan : LanClear(d)
      BY <2>1, WaitsFact, NextWaits
    <3>2. Inv'
      BY <2>1, NextInv
    <3>3. (SendMatched /\ SendCanEnd)' <=> Waits'
      BY <3>2 DEF Inv, SendAgrees, SendMatched, SendCanEnd, Waits
    <3>4. QED
      BY <3>1, <3>3
  <2>2. QED
    BY <2>1
<1>2. QED
  BY <1>1, InvHolds, PTL DEF Spec, SendKept

\* Where each session that is cleared is told (client_lan_remove), they agree in
\* every state, with the Wi-Fi task taking the client down at any time: the
\* client never waits for a destination that is gone.
THEOREM SendCanEndHolds ==
    ASSUME "lan_clear" \notin Outcome
    PROVE  Spec => [](SendMatched /\ SendCanEnd)
<1>1. Init => Inv /\ Waits
  BY InitInv DEF Init, Waits
<1>2. Inv /\ Waits /\ [Next]_vars => (Inv /\ Waits)'
  <2> SUFFICES ASSUME Inv, Waits, [Next]_vars PROVE Inv' /\ Waits'
    OBVIOUS
  <2>1. ~\E d \in Lan : LanClear(d)
    BY DEF LanClear
  <2>2. QED
    BY <2>1, NextInv, NextWaits
<1>3. Inv /\ Waits => SendMatched /\ SendCanEnd
  BY WaitsFact
<1>4. QED
  BY <1>1, <1>2, <1>3, PTL DEF Spec

\* ada_sprop_echos_pending counts the echoes whose send has not ended, when all
\* that changes it is done by the client task (sprop_send_opt,
\* ada_sprop_mgr_send_done): no other sends, and ada_client_down() ends none.
THEOREM EchoCountHolds == ASSUME OneSender PROVE Spec => []EchoCount
<1>1. CountInv => EchoCount
  <2> SUFFICES ASSUME CountInv, \A t \in Task : ~Counting(t)
               PROVE  echos_pending = Cardinality(Echoes)
    BY DEF EchoCount, Echoes
  <2>1. pc[Client] \notin {"load", "store", "dec"}
    BY ClientIsTask DEF Counting
  <2>2. QED
    BY <2>1 DEF CountInv, CountAt
<1>2. Init => CountInv
  BY InitCount
<1>3. CountInv /\ [Next]_vars => CountInv'
  BY NextCount
<1>4. QED
  BY <1>1, <1>2, <1>3, PTL DEF Spec

\* When the client is at rest and connected to ADS it listens: the echo that
\* ends last declares sprop ready, or the change of the destinations does
\* (ada_sprop_mgr_send_done, ada_sprop_ready_cb, prop_mgr_listen_check).  For
\* one sender, and no LAN session or server error.
THEOREM ListenResumesHolds ==
    ASSUME OneSender, CloudOnly
    PROVE  Spec => []ListenResumes
<1>1. ResumeInv => ListenResumes
  <2> SUFFICES ASSUME ResumeInv, Connected PROVE ads_listen
    BY DEF ListenResumes
  <2>1. pc[Client] = "idle" /\ echos_pending = 0 /\ ~conn_update /\ ~ready_pend
    BY QuietFact DEF Connected, Quiet
  <2>2. StsRuns(job[Client], pc[Client]) /\ GoesOn(job[Client], pc[Client])
    BY ResumeHere
  <2>3. job[Client].from # "sts" /\ ~InEcho(job[Client], pc[Client]) /\ ~Told(pc[Client])
    BY <2>1, <2>2 DEF StsRuns, Sending, InEcho, Told
  <2>4. QED
    BY <2>1, <2>2, <2>3 DEF GoesOn, Connected
<1>2. Init => ResumeInv
  BY InitResume
<1>3. ResumeInv /\ [Next]_vars => ResumeInv'
  BY NextResume
<1>4. QED
  BY <1>1, <1>2, <1>3, PTL DEF Spec

\* When the client is at rest and connected to ADS no echo is left unsent, of
\* those that failed for the connection or found ADS away or the heap full
\* (sprop_send_opt, ada_sprop_send_echo).  For one sender, no LAN session or
\* server error, echoes only, and room for two.
THEOREM EchoResentHolds ==
    ASSUME OneSender, CloudOnly, EchoesOnly
    PROVE  Spec => []EchoResent
<1>1. ResendInv => EchoResent
  <2> SUFFICES ASSUME ResendInv, Connected PROVE \A n \in Name : ~send_req[n]
    BY DEF EchoResent
  <2>1. pc[Client] = "idle" /\ echos_pending = 0 /\ ~conn_update
    BY QuietFact DEF Connected, Quiet, ResendInv
  <2>2. QED
    BY <2>1 DEF ResendInv, Resends, Told, Connected
<1>2. Init => ResendInv
  <2> SUFFICES ASSUME Init PROVE ResendInv
    OBVIOUS
  <2>1. Resends(job[Client], pc[Client])
    BY DEF Init, Resends
  <2>2. QED
    BY <2>1, InitResume DEF ResendInv
<1>3. ResendInv /\ [Next]_vars => ResendInv'
  BY NextResend
<1>4. QED
  BY <1>1, <1>2, <1>3, PTL DEF Spec
=============================================================================
