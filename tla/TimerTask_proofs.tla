-------------------------- MODULE TimerTask_proofs --------------------------
(***************************************************************************)
(* Proofs about the timers (TimerList) and the tasks that run them         *)
(* (TimerTask), for any timers, any width of the clock and any delays: the *)
(* list is sound, the task does not sleep past a timer, and timers fire in *)
(* the order they are due.                                                 *)
(***************************************************************************)
EXTENDS TimerTask, FiniteSetTheorems, SequenceTheorems, TLAPS

-----------------------------------------------------------------------------
(* Lists.                                                                  *)

\* No timer is on the list twice.
Distinct(l) == \A i, j \in 1 .. Len(l) : l[i] = l[j] => i = j

\* r has timers of l only, in the order of l.
Within(r, l) ==
    \A i, j \in 1 .. Len(r) : i <= j =>
        \E a, b \in 1 .. Len(l) :
            /\ r[i] = l[a] /\ r[j] = l[b] /\ a <= b
            /\ i < j => a < b

\* A set of naturals has a smallest one.
LEMMA Smallest ==
    ASSUME NEW S, S \subseteq Nat, S # {}
    PROVE  \E x \in S : \A y \in S : x <= y
<1>1. PICK x \in S : \A y \in S : ~(<<y, x>> \in OpToRel(<, Nat))
  BY NatLessThanWellFounded, WFMin, Zenon
<1>2. \A y \in S : ~(y < x)
  BY <1>1 DEF OpToRel
<1>3. QED
  BY <1>2

\* The elements of a list of timers.
LEMMA ElemsFact ==
    ASSUME NEW l \in Seq(Timer)
    PROVE  /\ Len(l) \in Nat /\ DOMAIN l = 1 .. Len(l)
           /\ \A i \in 1 .. Len(l) : l[i] \in Timer /\ l[i] \in Elems(l)
           /\ Elems(l) \subseteq Timer
           /\ \A t \in Elems(l) : \E i \in 1 .. Len(l) : l[i] = t
  BY DEF Elems

\* Index() is a place of the timer.
LEMMA IndexFact ==
    ASSUME NEW l \in Seq(Timer), NEW t \in Elems(l)
    PROVE  /\ Index(l, t) \in 1 .. Len(l) /\ l[Index(l, t)] = t
           /\ \A j \in 1 .. Index(l, t) - 1 : l[j] # t
<1> DEFINE S == {i \in 1 .. Len(l) : l[i] = t}
<1>1. S \subseteq Nat /\ S # {}
  BY ElemsFact
<1>2. PICK i \in S : \A j \in S : i <= j
  <2> HIDE DEF S
  <2> QED BY <1>1, Smallest
<1>3. \A j \in 1 .. i - 1 : l[j] # t
  BY <1>2, ElemsFact
<1>4. \E k \in DOMAIN l : l[k] = t /\ \A j \in 1 .. k - 1 : l[j] # t
  BY <1>2, <1>3, ElemsFact
<1>5. QED
  BY <1>4, ElemsFact DEF Index

\* The list up to a place, and after it.
LEMMA SubSeqFact ==
    ASSUME NEW l \in Seq(Timer), NEW m \in 1 .. Len(l) + 1,
           NEW n \in m - 1 .. Len(l)
    PROVE  /\ SubSeq(l, m, n) \in Seq(Timer)
           /\ Len(SubSeq(l, m, n)) = n - m + 1
           /\ \A i \in 1 .. n - m + 1 : SubSeq(l, m, n)[i] = l[m + i - 1]
  BY ElemsFact

\* The joined list.
LEMMA JoinFact ==
    ASSUME NEW l \in Seq(Timer), NEW k \in Seq(Timer)
    PROVE  /\ l \o k \in Seq(Timer)
           /\ Len(l \o k) = Len(l) + Len(k)
           /\ \A i \in 1 .. Len(l) : (l \o k)[i] = l[i]
           /\ \A i \in Len(l) + 1 .. Len(l) + Len(k) :
                    (l \o k)[i] = k[i - Len(l)]
  BY ElemsFact

\* What is left of a list without one of its places.
LEMMA CutFact ==
    ASSUME NEW l \in Seq(Timer), NEW p \in 1 .. Len(l)
    PROVE  LET r == SubSeq(l, 1, p - 1) \o SubSeq(l, p + 1, Len(l))
           IN  /\ r \in Seq(Timer) /\ Len(r) = Len(l) - 1
               /\ \A i \in 1 .. Len(r) :
                    r[i] = IF i < p THEN l[i] ELSE l[i + 1]
<1> DEFINE a == SubSeq(l, 1, p - 1)
           b == SubSeq(l, p + 1, Len(l))
           r == a \o b
<1>1. Len(l) \in Nat
  BY ElemsFact
<1>2. /\ a \in Seq(Timer) /\ Len(a) = p - 1
      /\ \A i \in 1 .. p - 1 : a[i] = l[1 + i - 1]
  <2>1. 1 \in 1 .. Len(l) + 1 /\ p - 1 \in 1 - 1 .. Len(l)
        /\ p - 1 - 1 + 1 = p - 1
    BY <1>1
  <2> HIDE DEF a
  <2>2. QED
    BY <2>1, SubSeqFact DEF a
<1>3. /\ b \in Seq(Timer) /\ Len(b) = Len(l) - p
      /\ \A i \in 1 .. Len(l) - p : b[i] = l[(p + 1) + i - 1]
  <2>1. p + 1 \in 1 .. Len(l) + 1 /\ Len(l) \in (p + 1) - 1 .. Len(l)
        /\ Len(l) - (p + 1) + 1 = Len(l) - p
    BY <1>1
  <2> HIDE DEF b
  <2>2. QED
    BY <2>1, SubSeqFact DEF b
<1> HIDE DEF a, b
<1>4. /\ r \in Seq(Timer) /\ Len(r) = Len(a) + Len(b)
      /\ \A i \in 1 .. Len(a) : r[i] = a[i]
      /\ \A i \in Len(a) + 1 .. Len(a) + Len(b) : r[i] = b[i - Len(a)]
  BY <1>2, <1>3, JoinFact
<1> HIDE DEF r
<1>5. ASSUME NEW i \in 1 .. Len(r)
      PROVE  r[i] = IF i < p THEN l[i] ELSE l[i + 1]
  <2>1. CASE i < p
    <3>1. i \in 1 .. p - 1 /\ 1 + i - 1 = i
      BY <2>1, <1>5
    <3>2. QED
      BY <1>2, <1>4, <2>1, <3>1
  <2>2. CASE ~(i < p)
    <3>1. /\ i \in Len(a) + 1 .. Len(a) + Len(b)
          /\ i - Len(a) \in 1 .. Len(l) - p
          /\ (p + 1) + (i - Len(a)) - 1 = i + 1
      BY <1>1, <1>2, <1>3, <1>4, <1>5, <2>2
    <3>2. QED
      BY <1>3, <1>4, <2>2, <3>1
  <2>3. QED
    BY <2>1, <2>2
<1>6. r \in Seq(Timer) /\ Len(r) = Len(l) - 1
  BY <1>1, <1>2, <1>3, <1>4
<1>7. QED
  BY <1>5, <1>6 DEF r, a, b

\* What timer_set() makes of a list by a place in it.
LEMMA PutFact ==
    ASSUME NEW l \in Seq(Timer), NEW t \in Timer, NEW p \in 1 .. Len(l) + 1
    PROVE  LET r == SubSeq(l, 1, p - 1) \o <<t>> \o SubSeq(l, p, Len(l))
           IN  /\ r \in Seq(Timer) /\ Len(r) = Len(l) + 1
               /\ \A i \in 1 .. Len(r) :
                    r[i] = IF i < p THEN l[i] ELSE IF i = p THEN t
                           ELSE l[i - 1]
<1> DEFINE a == SubSeq(l, 1, p - 1)
           b == SubSeq(l, p, Len(l))
           o == <<t>>
           at1 == a \o o
           r == at1 \o b
<1>1. Len(l) \in Nat
  BY ElemsFact
<1>2. /\ a \in Seq(Timer) /\ Len(a) = p - 1
      /\ \A i \in 1 .. p - 1 : a[i] = l[1 + i - 1]
  <2>1. 1 \in 1 .. Len(l) + 1 /\ p - 1 \in 1 - 1 .. Len(l)
        /\ p - 1 - 1 + 1 = p - 1
    BY <1>1
  <2> HIDE DEF a
  <2>2. QED
    BY <2>1, SubSeqFact DEF a
<1>3. /\ b \in Seq(Timer) /\ Len(b) = Len(l) - p + 1
      /\ \A i \in 1 .. Len(l) - p + 1 : b[i] = l[p + i - 1]
  <2>1. p \in 1 .. Len(l) + 1 /\ Len(l) \in p - 1 .. Len(l)
    BY <1>1
  <2> HIDE DEF b
  <2>2. QED
    BY <2>1, SubSeqFact DEF b
<1>4. o \in Seq(Timer) /\ Len(o) = 1 /\ o[1] = t
  OBVIOUS
<1> HIDE DEF a, b, o
<1>5. /\ at1 \in Seq(Timer) /\ Len(at1) = Len(a) + Len(o)
      /\ \A i \in 1 .. Len(a) : at1[i] = a[i]
      /\ \A i \in Len(a) + 1 .. Len(a) + Len(o) : at1[i] = o[i - Len(a)]
  BY <1>2, <1>4, JoinFact
<1> HIDE DEF at1
<1>6. /\ r \in Seq(Timer) /\ Len(r) = Len(at1) + Len(b)
      /\ \A i \in 1 .. Len(at1) : r[i] = at1[i]
      /\ \A i \in Len(at1) + 1 .. Len(at1) + Len(b) :
            r[i] = b[i - Len(at1)]
  BY <1>3, <1>5, JoinFact
<1> HIDE DEF r
<1>7. r \in Seq(Timer) /\ Len(r) = Len(l) + 1 /\ Len(at1) = p
  BY <1>1, <1>2, <1>3, <1>4, <1>5, <1>6
<1>8. ASSUME NEW i \in 1 .. Len(r)
      PROVE  r[i] = IF i < p THEN l[i] ELSE IF i = p THEN t ELSE l[i - 1]
  <2>1. CASE i < p
    <3>1. /\ i \in 1 .. p - 1 /\ 1 + i - 1 = i /\ i \in 1 .. Len(at1)
          /\ i \in 1 .. Len(a)
      BY <1>2, <1>7, <2>1, <1>8
    <3>2. QED
      BY <1>2, <1>5, <1>6, <2>1, <3>1
  <2>2. CASE i = p
    <3>1. /\ i \in Len(a) + 1 .. Len(a) + Len(o) /\ i \in 1 .. Len(at1)
          /\ i - Len(a) = 1
      BY <1>2, <1>4, <1>7, <2>2
    <3>2. QED
      BY <1>4, <1>5, <1>6, <2>2, <3>1
  <2>3. CASE i > p
    <3>1. /\ i \in Len(at1) + 1 .. Len(at1) + Len(b)
          /\ i - Len(at1) \in 1 .. Len(l) - p + 1
          /\ p + (i - Len(at1)) - 1 = i - 1
          /\ ~(i < p) /\ i # p
      BY <1>1, <1>3, <1>6, <1>7, <1>8, <2>3
    <3>2. QED
      BY <1>3, <1>6, <2>3, <3>1
  <2>4. QED
    BY <1>7, <1>8, <2>1, <2>2, <2>3
<1>9. QED
  BY <1>7, <1>8 DEF r, at1, a, b, o

\* timer_cancel() takes the timer off and leaves the order as it is.
LEMMA WithoutFact ==
    ASSUME NEW l \in Seq(Timer), NEW t \in Timer
    PROVE  /\ Without(l, t) \in Seq(Timer)
           /\ Within(Without(l, t), l)
           /\ Distinct(l) => /\ Distinct(Without(l, t))
                             /\ Elems(Without(l, t)) = Elems(l) \ {t}
<1> DEFINE r == Without(l, t)
<1>1. CASE t \notin Elems(l)
  <2>1. r = l
    BY <1>1 DEF Without
  <2>2. Within(l, l)
    BY ElemsFact DEF Within
  <2>3. Elems(l) = Elems(l) \ {t}
    BY <1>1
  <2> HIDE DEF r
  <2>4. QED
    BY <2>1, <2>2, <2>3 DEF r
<1>2. CASE t \in Elems(l)
  <2> DEFINE p == Index(l, t)
  <2>1. p \in 1 .. Len(l) /\ l[p] = t /\ Len(l) \in Nat
    BY <1>2, IndexFact, ElemsFact
  <2>2. r = SubSeq(l, 1, p - 1) \o SubSeq(l, p + 1, Len(l))
    BY <1>2 DEF Without
  <2> HIDE DEF p, r
  <2>3. /\ r \in Seq(Timer) /\ Len(r) = Len(l) - 1
        /\ \A i \in 1 .. Len(r) : r[i] = IF i < p THEN l[i] ELSE l[i + 1]
    BY <2>1, <2>2, CutFact
  <2> DEFINE f(i) == IF i < p THEN i ELSE i + 1
  <2>4. \A i \in 1 .. Len(r) : f(i) \in 1 .. Len(l) /\ f(i) # p
                              /\ r[i] = l[f(i)]
    BY <2>1, <2>3
  <2>5. \A i, j \in 1 .. Len(r) : i < j => f(i) < f(j)
    BY <2>1, <2>3
  <2>6. Within(r, l)
    <3>1. \A i, j \in 1 .. Len(r) : i <= j =>
            f(i) <= f(j) /\ (i < j => f(i) < f(j))
      BY <2>1, <2>3, <2>5
    <3> HIDE DEF f
    <3>2. QED
      BY <2>4, <3>1 DEF Within
  <2>7. ASSUME Distinct(l)
        PROVE  Distinct(r) /\ Elems(r) = Elems(l) \ {t}
    <3>1. \A i, j \in 1 .. Len(r) : f(i) = f(j) => i = j
      BY <2>1, <2>3
    <3>2. \A k \in 1 .. Len(l) : k # p => \E i \in 1 .. Len(r) : f(i) = k
      <4>1. SUFFICES ASSUME NEW k \in 1 .. Len(l), k # p
                     PROVE  \E i \in 1 .. Len(r) : f(i) = k
        OBVIOUS
      <4>2. CASE k < p
        <5>1. k \in 1 .. Len(r) /\ f(k) = k
          BY <2>1, <2>3, <4>1, <4>2
        <5>2. QED
          BY <5>1
      <4>3. CASE k > p
        <5>1. k - 1 \in 1 .. Len(r) /\ f(k - 1) = k
          BY <2>1, <2>3, <4>1, <4>3
        <5>2. QED
          BY <5>1
      <4>4. QED
        BY <2>1, <4>1, <4>2, <4>3
    <3> HIDE DEF f
    <3>3. Distinct(r)
      BY <2>4, <2>7, <3>1 DEF Distinct
    <3>4. \A u \in Elems(r) : u \in Elems(l) \ {t}
      <4>1. SUFFICES ASSUME NEW u \in Elems(r) PROVE u \in Elems(l) \ {t}
        OBVIOUS
      <4>2. PICK i \in 1 .. Len(r) : r[i] = u
        BY <2>3, ElemsFact
      <4>3. l[f(i)] = u /\ f(i) \in 1 .. Len(l) /\ f(i) # p
        BY <2>4, <4>2
      <4>4. QED
        BY <2>1, <2>7, <4>3, ElemsFact DEF Distinct
    <3>5. \A u \in Elems(l) \ {t} : u \in Elems(r)
      <4>1. SUFFICES ASSUME NEW u \in Elems(l), u # t PROVE u \in Elems(r)
        OBVIOUS
      <4>2. PICK k \in 1 .. Len(l) : l[k] = u
        BY ElemsFact
      <4>3. k # p
        BY <2>1, <4>1, <4>2
      <4>4. PICK i \in 1 .. Len(r) : f(i) = k
        BY <3>2, <4>3
      <4>5. QED
        BY <2>3, <2>4, <4>2, <4>4, ElemsFact
    <3>6. QED
      BY <3>3, <3>4, <3>5
  <2>8. QED
    BY <2>3, <2>6, <2>7 DEF r
<1>3. QED
  BY <1>1, <1>2

\* The first timer is taken off.
LEMMA TailFact ==
    ASSUME NEW l \in Seq(Timer), l # <<>>
    PROVE  /\ Tail(l) \in Seq(Timer) /\ Head(l) = l[1] /\ Head(l) \in Timer
           /\ 1 \in 1 .. Len(l) /\ Head(l) \in Elems(l)
           /\ Within(Tail(l), l)
           /\ Distinct(l) => /\ Distinct(Tail(l))
                             /\ Elems(Tail(l)) = Elems(l) \ {Head(l)}
<1> DEFINE r == Tail(l)
<1>1. Len(l) \in Nat /\ 1 \in 1 .. Len(l) /\ Head(l) = l[1]
  BY ElemsFact
<1>2. /\ r \in Seq(Timer) /\ Len(r) = Len(l) - 1
      /\ \A i \in 1 .. Len(r) : r[i] = l[i + 1]
  BY <1>1
<1> HIDE DEF r
<1>3. \A i \in 1 .. Len(r) : i + 1 \in 1 .. Len(l)
  BY <1>1, <1>2
<1>4. Within(r, l)
  <2>1. \A i, j \in 1 .. Len(r) : (i <= j => i + 1 <= j + 1)
                              /\ (i < j => i + 1 < j + 1)
    BY <1>1, <1>2
  <2>2. QED
    BY <1>2, <1>3, <2>1 DEF Within
<1>5. ASSUME Distinct(l)
      PROVE  Distinct(r) /\ Elems(r) = Elems(l) \ {l[1]}
  <2>1. \A i, j \in 1 .. Len(r) : i + 1 = j + 1 => i = j
    BY <1>1, <1>2
  <2>2. Distinct(r)
    BY <1>2, <1>3, <1>5, <2>1 DEF Distinct
  <2>3. \A i \in 1 .. Len(r) : l[i + 1] # l[1]
    <3>1. \A i \in 1 .. Len(r) : i + 1 # 1
      BY <1>1, <1>2
    <3>2. QED
      BY <1>1, <1>3, <1>5, <3>1 DEF Distinct
  <2>4. \A u \in Elems(r) : u \in Elems(l) \ {l[1]}
    <3>1. SUFFICES ASSUME NEW u \in Elems(r) PROVE u \in Elems(l) \ {l[1]}
      OBVIOUS
    <3>2. PICK i \in 1 .. Len(r) : r[i] = u
      BY <1>2, ElemsFact
    <3>3. QED
      BY <1>2, <1>3, <2>3, <3>2, ElemsFact
  <2>5. \A u \in Elems(l) \ {l[1]} : u \in Elems(r)
    <3>1. SUFFICES ASSUME NEW u \in Elems(l), u # l[1] PROVE u \in Elems(r)
      OBVIOUS
    <3>2. PICK k \in 1 .. Len(l) : l[k] = u
      BY ElemsFact
    <3>3. k - 1 \in 1 .. Len(r) /\ (k - 1) + 1 = k
      <4>1. k # 1
        BY <3>1, <3>2
      <4>2. QED
        BY <1>1, <1>2, <3>2, <4>1
    <3>4. r[k - 1] = u
      BY <1>2, <3>2, <3>3
    <3>5. QED
      BY <1>2, <3>3, <3>4, ElemsFact
  <2>6. QED
    BY <2>2, <2>4, <2>5
<1>6. QED
  BY <1>1, <1>2, <1>4, <1>5, ElemsFact DEF r

\* timer_set() finds a place: at the end, when no timer of the list is later.
LEMMA PlaceFact ==
    ASSUME NEW l \in Seq(Timer), NEW e
    PROVE  /\ Place(l, e) \in 1 .. Len(l) + 1
           /\ Place(l, e) <= Len(l) => ClockGt(time[l[Place(l, e)]], e)
           /\ \A j \in 1 .. Place(l, e) - 1 : ~ClockGt(time[l[j]], e)
<1> DEFINE S == {i \in 1 .. Len(l) + 1 :
                    i <= Len(l) => ClockGt(time[l[i]], e)}
<1>1. Len(l) \in Nat
  BY ElemsFact
<1>2. S \subseteq Nat /\ Len(l) + 1 \in S
  BY <1>1
<1>3. PICK i \in S : \A j \in S : i <= j
  <2> HIDE DEF S
  <2> QED BY <1>2, Smallest
<1>4. \A j \in 1 .. i - 1 : ~ClockGt(time[l[j]], e)
  <2>1. SUFFICES ASSUME NEW j \in 1 .. i - 1, ClockGt(time[l[j]], e)
                 PROVE  FALSE
    OBVIOUS
  <2>2. j \in S /\ ~(i <= j)
    BY <1>1, <2>1
  <2>3. QED
    BY <1>3, <2>2
<1>5. \E k \in 1 .. Len(l) + 1 :
        /\ k <= Len(l) => ClockGt(time[l[k]], e)
        /\ \A j \in 1 .. k - 1 : ~ClockGt(time[l[j]], e)
  BY <1>3, <1>4
<1>6. QED
  BY <1>5 DEF Place

\* The timer is on the list, where the order wants it, and the others are
\* where they were.
LEMMA InsertFact ==
    ASSUME NEW l \in Seq(Timer), NEW t \in Timer, NEW e
    PROVE  /\ Insert(l, t, e) \in Seq(Timer)
           /\ Len(Insert(l, t, e)) = Len(l) + 1
           /\ \A i \in 1 .. Len(l) + 1 :
                Insert(l, t, e)[i] = IF i < Place(l, e) THEN l[i]
                                     ELSE IF i = Place(l, e) THEN t
                                     ELSE l[i - 1]
           /\ Distinct(l) /\ t \notin Elems(l) =>
                /\ Distinct(Insert(l, t, e))
                /\ Elems(Insert(l, t, e)) = Elems(l) \cup {t}
<1> DEFINE p == Place(l, e)
           r == Insert(l, t, e)
<1>1. p \in 1 .. Len(l) + 1 /\ Len(l) \in Nat
  BY PlaceFact, ElemsFact
<1>2. r = SubSeq(l, 1, p - 1) \o <<t>> \o SubSeq(l, p, Len(l))
  BY DEF Insert
<1> HIDE DEF p, r
<1>3. /\ r \in Seq(Timer) /\ Len(r) = Len(l) + 1
      /\ \A i \in 1 .. Len(r) :
            r[i] = IF i < p THEN l[i] ELSE IF i = p THEN t ELSE l[i - 1]
  BY <1>1, <1>2, PutFact, ZenonT(60)
<1> DEFINE f(i) == IF i < p THEN i ELSE i - 1
<1>4. \A i \in 1 .. Len(r) : i # p => f(i) \in 1 .. Len(l) /\ r[i] = l[f(i)]
  BY <1>1, <1>3
<1>5. p \in 1 .. Len(r) /\ r[p] = t
  BY <1>1, <1>3
<1>6. \A i, j \in 1 .. Len(r) : i # p /\ j # p /\ f(i) = f(j) => i = j
  BY <1>1, <1>3
<1>7. \A k \in 1 .. Len(l) : \E i \in 1 .. Len(r) : i # p /\ f(i) = k
  <2>1. SUFFICES ASSUME NEW k \in 1 .. Len(l)
                 PROVE  \E i \in 1 .. Len(r) : i # p /\ f(i) = k
    OBVIOUS
  <2>2. CASE k < p
    <3>1. k \in 1 .. Len(r) /\ f(k) = k /\ k # p
      BY <1>1, <1>3, <2>2
    <3>2. QED
      BY <3>1
  <2>3. CASE ~(k < p)
    <3>1. k + 1 \in 1 .. Len(r) /\ f(k + 1) = k /\ k + 1 # p
      BY <1>1, <1>3, <2>3
    <3>2. QED
      BY <3>1
  <2>4. QED
    BY <2>2, <2>3
<1> HIDE DEF f
<1>8. ASSUME Distinct(l), t \notin Elems(l)
      PROVE  Distinct(r) /\ Elems(r) = Elems(l) \cup {t}
  <2>1. \A i \in 1 .. Len(r) : i # p => r[i] # t
    BY <1>4, <1>8, ElemsFact
  <2>2. Distinct(r)
    BY <1>4, <1>5, <1>6, <1>8, <2>1 DEF Distinct
  <2>3. \A u \in Elems(r) : u \in Elems(l) \cup {t}
    <3>1. SUFFICES ASSUME NEW u \in Elems(r) PROVE u \in Elems(l) \cup {t}
      OBVIOUS
    <3>2. PICK i \in 1 .. Len(r) : r[i] = u
      BY <1>3, ElemsFact
    <3>3. QED
      BY <1>4, <1>5, <3>2, ElemsFact
  <2>4. \A u \in Elems(l) \cup {t} : u \in Elems(r)
    <3>1. SUFFICES ASSUME NEW u \in Elems(l) PROVE u \in Elems(r)
      BY <1>3, <1>5, ElemsFact
    <3>2. PICK k \in 1 .. Len(l) : l[k] = u
      BY ElemsFact
    <3>3. PICK i \in 1 .. Len(r) : i # p /\ f(i) = k
      BY <1>7
    <3>4. r[i] = u
      BY <1>4, <3>2, <3>3
    <3>5. QED
      BY <1>3, <3>4, ElemsFact
  <2>5. QED
    BY <2>2, <2>3, <2>4
<1>9. QED
  BY <1>3, <1>8 DEF r, p

\* A list on which no timer is twice is as long as it has timers.
LEMMA DistinctLen ==
    ASSUME NEW l \in Seq(Timer), Distinct(l)
    PROVE  Len(l) = Cardinality(Elems(l))
<1>1. Len(l) \in Nat /\ l \in [1 .. Len(l) -> Elems(l)]
  <2>1. \A i \in 1 .. Len(l) : l[i] \in Elems(l)
    BY ElemsFact
  <2>2. l = [i \in 1 .. Len(l) |-> l[i]]
    BY LenProperties
  <2>3. QED
    BY <2>1, <2>2, ElemsFact
<1>2. \A u \in Elems(l) : \E i \in 1 .. Len(l) : l[i] = u
  BY ElemsFact
<1>3. l \in Bijection(1 .. Len(l), Elems(l))
  BY <1>1, <1>2 DEF Bijection, Injection, Surjection, IsInjective, Distinct
<1>4. ExistsBijection(1 .. Len(l), Elems(l))
  BY <1>3 DEF ExistsBijection
<1>5. QED
  BY <1>1, <1>4, FS_CountingElements

-----------------------------------------------------------------------------
(* The clock.                                                              *)

\* A time a of the clock is d milliseconds from now.
OnClock(a, d) == a - now \in {d, d + Wrap, d - Wrap}

\* The clock has room for the delays on either side of now.
LEMMA WidthFact ==
    Wrap \in Nat /\ DelayMax \in Nat /\ DelayMax >= 1
        /\ Wrap = 2 * (DelayMax + 1)
  BY TimerListAssumption DEF DelayMax

\* Counting modulo Wrap, near the range of the clock.
LEMMA ModFact ==
    ASSUME NEW x \in Int
    PROVE  /\ x % Wrap \in 0 .. Wrap - 1
           /\ x \in 0 .. Wrap - 1 => x % Wrap = x
           /\ x \in Wrap .. 2 * Wrap - 1 => x % Wrap = x - Wrap
           /\ x \in -Wrap .. -1 => x % Wrap = x + Wrap
<1>1. Wrap \in Nat \ {0}
  BY TimerListAssumption
<1>2. x % Wrap \in 0 .. Wrap - 1
  BY <1>1
<1>3. x \in 0 .. Wrap - 1 => x % Wrap = x
  BY <1>1
<1>4. x \in Wrap .. 2 * Wrap - 1 => x % Wrap = x - Wrap
  BY <1>1
<1>5. x \in -Wrap .. -1 => x % Wrap = x + Wrap
  BY <1>1
<1>6. QED
  BY <1>2, <1>3, <1>4, <1>5

\* Two times are compared as they follow each other, when they are not
\* further apart than half the clock.
LEMMA ClockGtFact ==
    ASSUME now \in 0 .. Wrap - 1, NEW a \in 0 .. Wrap - 1,
           NEW b \in 0 .. Wrap - 1, NEW x \in Int, NEW y \in Int,
           OnClock(a, x), OnClock(b, y),
           x - y \in -(DelayMax + 1) .. DelayMax
    PROVE  ClockGt(a, b) <=> x > y
<1> DEFINE m == (a - b) % Wrap
<1>1. a - b \in -Wrap .. Wrap - 1 /\ a - b \in Int
  BY WidthFact
<1>2. /\ m \in 0 .. Wrap - 1
      /\ a - b \in 0 .. Wrap - 1 => m = a - b
      /\ a - b \in -Wrap .. -1 => m = a - b + Wrap
  BY <1>1, ModFact
<1> HIDE DEF m
<1>3. \E k \in {-3, -2, -1, 0, 1, 2, 3} : m = x - y + k * Wrap
  BY <1>1, <1>2, WidthFact DEF OnClock
<1>4. PICK k \in {-3, -2, -1, 0, 1, 2, 3} : m = x - y + k * Wrap
  BY <1>3
<1>5. m \in 1 .. DelayMax <=> x > y
  BY <1>2, <1>4, WidthFact
<1>6. QED
  BY <1>5 DEF ClockGt, m

\* The time of a timer that is set is its delay from now, or a millisecond
\* less, and is not zero.
LEMMA ExpiryFact ==
    ASSUME now \in 0 .. Wrap - 1, NEW ms \in Nat
    PROVE  /\ Clamped(ms) \in 0 .. DelayMax
           /\ Expiry(ms) \in 1 .. Wrap - 1
           /\ \E d \in {Clamped(ms), Clamped(ms) - 1} : OnClock(Expiry(ms), d)
<1> DEFINE d == Clamped(ms)
           x == now + d
           e == x % Wrap
<1>1. d \in 0 .. DelayMax
  BY WidthFact DEF Clamped
<1> HIDE DEF d
<1>2. x \in 0 .. 2 * Wrap - 1 /\ x \in Int /\ x = now + d
  BY <1>1, WidthFact
<1> HIDE DEF x
<1>3. /\ e \in 0 .. Wrap - 1
      /\ x \in 0 .. Wrap - 1 => e = x
      /\ x \in Wrap .. 2 * Wrap - 1 => e = x - Wrap
  BY <1>2, ModFact
<1> HIDE DEF e
<1>4. Expiry(ms) = IF e = 0 THEN Wrap - 1 ELSE e
  BY DEF Expiry, d, x, e
<1>5. CASE e = 0
  <2>1. OnClock(Wrap - 1, d - 1)
    BY <1>1, <1>2, <1>3, <1>5, WidthFact DEF OnClock
  <2>2. QED
    BY <1>1, <1>4, <1>5, <2>1, WidthFact DEF d
<1>6. CASE e # 0
  <2>1. OnClock(e, d)
    BY <1>1, <1>2, <1>3, WidthFact DEF OnClock
  <2>2. QED
    BY <1>1, <1>3, <1>4, <1>6, <2>1 DEF d
<1>7. QED
  BY <1>5, <1>6

-----------------------------------------------------------------------------
(* The invariant of the list.                                              *)

\* Whoever sets a timer keeps the task off the list meanwhile: client timers
\* are set with client_lock, and no Wi-Fi timer is set by another task.
Private == loop = "client" \/ Shared = {}

\* Active timers are on the list, once.
Listed ==
    /\ Distinct(list)
    /\ \A t \in Timer : time[t] # 0 <=> t \in Elems(list)

\* What timer_run() clears is already off the list.
TakenOff ==
    at \in {"next", "time"} => loop = "net" /\ taken \notin Elems(list)

Inv ==
    /\ TaskTypeOK
    /\ at \in {"next", "time"} => taken \in Timer
    /\ Private => Listed /\ TakenOff

\* The list a timer is put into does not hold it.
LEMMA CancelListFact ==
    ASSUME TypeOK, NEW t \in Timer
    PROVE  /\ CancelList(t) \in Seq(Timer)
           /\ Within(CancelList(t), list)
           /\ Listed => /\ Distinct(CancelList(t))
                        /\ Elems(CancelList(t)) = Elems(list) \ {t}
<1>1. list \in Seq(Timer)
  BY DEF TypeOK
<1>2. CASE time[t] # 0
  BY <1>1, <1>2, WithoutFact DEF CancelList, Listed
<1>3. CASE time[t] = 0
  <2>1. CancelList(t) = list
    BY <1>3 DEF CancelList
  <2>2. Within(list, list)
    BY <1>1, ElemsFact DEF Within
  <2>3. Listed => Elems(list) = Elems(list) \ {t}
    BY <1>3 DEF Listed
  <2>4. QED
    BY <1>1, <2>1, <2>2, <2>3 DEF Listed
<1>4. QED
  BY <1>2, <1>3

\* timer_set() puts the timer on the list once.
LEMMA TimerSetFact ==
    ASSUME TypeOK, NEW t \in Timer, NEW ms \in Delay, TimerSet(t, ms)
    PROVE  /\ TypeOK' /\ list' \in Seq(Timer)
           /\ Listed => /\ Listed' /\ Elems(list') = Elems(list) \cup {t}
<1> DEFINE l == CancelList(t)
           e == Expiry(ms)
<1>1. ms \in Nat /\ now \in 0 .. Wrap - 1
  BY TimerListAssumption DEF TypeOK
<1>2. e \in 1 .. Wrap - 1 /\ Clamped(ms) \in 0 .. DelayMax
  BY <1>1, ExpiryFact
<1>3. l \in Seq(Timer)
      /\ (Listed => Distinct(l) /\ Elems(l) = Elems(list) \ {t})
  BY CancelListFact
<1>4. /\ list' = Insert(l, t, e) /\ time' = [time EXCEPT ![t] = e]
      /\ due' = [due EXCEPT ![t] = Clamped(ms)] /\ now' = now
  BY DEF TimerSet
<1> HIDE DEF l, e
<1>5. list' \in Seq(Timer)
      /\ (Distinct(l) /\ t \notin Elems(l) =>
            Distinct(list') /\ Elems(list') = Elems(l) \cup {t})
  BY <1>3, <1>4, InsertFact
<1>6. TypeOK'
  BY <1>1, <1>2, <1>4, <1>5, WidthFact DEF TypeOK
<1>7. ASSUME Listed
      PROVE  Listed' /\ Elems(list') = Elems(list) \cup {t}
  <2>1. Distinct(list') /\ Elems(list') = Elems(list) \cup {t}
    BY <1>3, <1>5, <1>7
  <2>2. \A u \in Timer : time'[u] # 0 <=> u \in Elems(list')
    BY <1>2, <1>4, <1>7, <2>1, WidthFact DEF Listed, TypeOK
  <2>3. QED
    BY <2>1, <2>2 DEF Listed
<1>8. QED
  BY <1>5, <1>6, <1>7

\* A step that takes timers off the list and makes them inactive.
LEMMA OffFact ==
    ASSUME TypeOK, NEW t \in Timer, list' \in Seq(Timer),
           Distinct(list) =>
                Distinct(list') /\ Elems(list') = Elems(list) \ {t},
           time' = [time EXCEPT ![t] = 0], now' = now, due' = due
    PROVE  TypeOK' /\ (Listed => Listed')
<1>1. TypeOK'
  BY WidthFact DEF TypeOK
<1>2. ASSUME Listed
      PROVE  Listed'
  <2>1. Distinct(list') /\ Elems(list') = Elems(list) \ {t}
    BY <1>2 DEF Listed
  <2>2. \A u \in Timer : time'[u] # 0 <=> u \in Elems(list')
    BY <1>2, <2>1 DEF Listed, TypeOK
  <2>3. QED
    BY <2>1, <2>2 DEF Listed
<1>3. QED
  BY <1>1, <1>2

\* timer_first_dequeue().
LEMMA DequeueFact ==
    ASSUME TypeOK, Delta = 0, Dequeue
    PROVE  /\ TypeOK' /\ Head(list) \in Timer /\ Head(list) \in Elems(list)
           /\ list # <<>> /\ list' = Tail(list) /\ list' \in Seq(Timer)
           /\ Within(list', list)
           /\ Listed => Listed' /\ Elems(list') = Elems(list) \ {Head(list)}
<1>1. list \in Seq(Timer) /\ list # <<>>
  BY DEF Delta, TypeOK
<1>2. /\ Tail(list) \in Seq(Timer) /\ Head(list) \in Timer
      /\ Head(list) \in Elems(list) /\ Within(Tail(list), list)
      /\ Distinct(list) => /\ Distinct(Tail(list))
                           /\ Elems(Tail(list)) = Elems(list) \ {Head(list)}
  BY <1>1, TailFact
<1>3. /\ list' = Tail(list) /\ time' = [time EXCEPT ![Head(list)] = 0]
      /\ now' = now /\ due' = due
  BY DEF Dequeue
<1>4. TypeOK' /\ (Listed => Listed')
  BY <1>2, <1>3, OffFact
<1>5. QED
  BY <1>1, <1>2, <1>3, <1>4 DEF Listed

\* timer_cancel() of a timer on the list.
LEMMA TimerCancelFact ==
    ASSUME TypeOK, NEW t \in Timer, TimerCancel(t)
    PROVE  /\ TypeOK' /\ list' \in Seq(Timer) /\ Within(list', list)
           /\ Listed => Listed' /\ Elems(list') = Elems(list) \ {t}
<1>1. list \in Seq(Timer)
  BY DEF TypeOK
<1>2. /\ list' = Without(list, t) /\ time' = [time EXCEPT ![t] = 0]
      /\ now' = now /\ due' = due
  BY DEF TimerCancel
<1>3. /\ list' \in Seq(Timer) /\ Within(list', list)
      /\ Distinct(list) =>
            Distinct(list') /\ Elems(list') = Elems(list) \ {t}
  BY <1>1, <1>2, WithoutFact
<1>4. TypeOK' /\ (Listed => Listed')
  BY <1>2, <1>3, OffFact
<1>5. QED
  BY <1>3, <1>4 DEF Listed

\* The delay the task waits for is one of the clock.
LEMMA DeltaFact ==
    ASSUME TypeOK
    PROVE  Delta \in -1 .. DelayMax
  BY WidthFact DEF Delta, Expired, ClockGt

\* A millisecond passes.
LEMMA TickFact ==
    ASSUME TypeOK, Tick
    PROVE  TypeOK' /\ list' = list /\ time' = time
<1>1. now' = (now + 1) % Wrap /\ now + 1 \in Int
  BY DEF Tick, TypeOK
<1>2. now' \in 0 .. Wrap - 1
  BY <1>1, ModFact
<1>3. due' \in [Timer -> Int]
  BY DEF Tick, TypeOK
<1>4. QED
  BY <1>2, <1>3 DEF Tick, TypeOK

\* The tasks start in the invariant.
LEMMA InitInv ==
    ASSUME TaskInit
    PROVE  Inv
<1>1. <<>> \in Seq(Timer) /\ Elems(<<>>) = {} /\ Distinct(<<>>)
  BY DEF Elems, Distinct
<1>2. TypeOK
  BY <1>1, WidthFact DEF TaskInit, Init, TypeOK
<1>3. TaskTypeOK
  BY <1>2, WidthFact DEF TaskInit, TaskTypeOK, At
<1>4. Listed
  BY <1>1 DEF TaskInit, Init, Listed
<1>5. QED
  BY <1>3, <1>4 DEF TaskInit, Inv, TakenOff

\* Every step keeps it: a timer is set or cancelled only where the task is
\* not between taking a timer off the list and clearing it.
LEMMA InvStep ==
    ASSUME Inv, [TaskNext]_taskVars
    PROVE  Inv'
<1> USE DEF At
<1>1. /\ TypeOK /\ loop \in {"client", "net"} /\ at \in At
      /\ taken \in Timer \cup {NoTimer} /\ sleep \in -1 .. DelayMax
      /\ at \in {"next", "time"} => taken \in Timer
      /\ Private => Listed /\ TakenOff
      /\ list \in Seq(Timer)
  BY DEF Inv, TaskTypeOK, TypeOK
<1>2. ASSUME TypeOK', loop' = loop, at' \in At, sleep' \in -1 .. DelayMax,
             taken' \in Timer \cup {NoTimer},
             at' \in {"next", "time"} => taken' \in Timer,
             Private => Listed' /\ TakenOff'
      PROVE  Inv'
  BY <1>1, <1>2 DEF Inv, TaskTypeOK, Private
<1>3. ASSUME UNCHANGED vars
      PROVE  TypeOK' /\ (Listed => Listed')
             /\ (TakenOff /\ taken' = taken /\ loop' = loop
                    /\ (at' = at \/ at' \notin {"next", "time"}) => TakenOff')
  BY <1>1, <1>3 DEF vars, TypeOK, Listed, TakenOff
<1>4. CASE Take \/ Advance
  <2>1. Delta = 0 /\ Dequeue /\ taken' = Head(list) /\ loop' = loop
        /\ sleep' = sleep /\ at' \in {"next", "handler"}
        /\ (at' = "next" => loop = "net")
    BY <1>4 DEF Take, Advance
  <2>2. /\ TypeOK' /\ Head(list) \in Timer
        /\ Listed => Listed' /\ Elems(list') = Elems(list) \ {Head(list)}
    BY <1>1, <2>1, DequeueFact
  <2>3. Listed => TakenOff'
    BY <2>1, <2>2 DEF TakenOff
  <2>4. QED
    BY <1>1, <1>2, <2>1, <2>2, <2>3
<1>5. CASE Sleep
  <2>1. sleep' \in -1 .. DelayMax
    BY <1>1, <1>5, DeltaFact DEF Sleep
  <2>2. QED
    BY <1>1, <1>2, <1>3, <1>5, <2>1 DEF Sleep
<1>6. CASE Timeout \/ Callback
  BY <1>1, <1>2, <1>3, <1>6 DEF Timeout, Callback
<1>7. CASE RunNext
  <2>1. at = "next" /\ taken \in Timer
    BY <1>1, <1>7 DEF RunNext
  <2>2. list' \in Seq(Timer)
    <3>1. CASE taken \in Elems(list)
      <4>1. list' = SubSeq(list, 1, Index(list, taken))
        BY <1>7, <3>1 DEF RunNext, UpTo
      <4>2. Index(list, taken) \in 1 .. Len(list)
        BY <1>1, <3>1, IndexFact
      <4>3. 1 \in 1 .. Len(list) + 1
            /\ Index(list, taken) \in 1 - 1 .. Len(list)
        BY <1>1, <4>2, ElemsFact
      <4>4. QED
        BY <1>1, <4>1, <4>3, SubSeqFact
    <3>2. CASE taken \notin Elems(list)
      BY <1>1, <1>7, <3>2 DEF RunNext
    <3>3. QED
      BY <3>1, <3>2
  <2>3. TypeOK'
    BY <1>1, <1>7, <2>2 DEF TypeOK, RunNext
  <2>4. Private => list' = list /\ Listed' /\ TakenOff'
    BY <1>1, <1>7, <2>1 DEF RunNext, Listed, TakenOff
  <2>5. QED
    BY <1>1, <1>2, <1>7, <2>1, <2>3, <2>4 DEF RunNext
<1>8. CASE RunTime
  <2>1. at = "time" /\ taken \in Timer
    BY <1>1, <1>8 DEF RunTime
  <2>2. TypeOK'
    BY <1>1, <1>8, <2>1, WidthFact DEF TypeOK, RunTime
  <2>3. Private => Listed'
    BY <1>1, <1>8, <2>1 DEF RunTime, Listed, TakenOff, TypeOK
  <2>4. TakenOff'
    BY <1>8 DEF RunTime, TakenOff
  <2>5. QED
    BY <1>1, <1>2, <1>8, <2>1, <2>2, <2>3, <2>4 DEF RunTime
<1>9. CASE HandlerEnd
  <2>1. UNCHANGED vars
    BY <1>9 DEF HandlerEnd, HandlerReturns, vars
  <2>2. TakenOff'
    BY <1>9 DEF HandlerEnd, TakenOff
  <2>3. QED
    BY <1>1, <1>2, <1>3, <1>9, <2>1, <2>2 DEF HandlerEnd
<1>10. ASSUME NEW t \in Timer, NEW ms \in Delay, TaskTimerSet(t, ms)
       PROVE  Inv'
  <2>1. TypeOK' /\ (Listed => Listed')
    BY <1>1, <1>10, TimerSetFact DEF TaskTimerSet
  <2>2. at' \in At /\ (at' = at \/ at' = "check")
    BY <1>1, <1>10 DEF TaskTimerSet, AfterSet
  <2>3. Private => at' \notin {"next", "time"}
    BY <1>1, <1>10, <2>2 DEF TaskTimerSet, May, Private
  <2>4. QED
    BY <1>1, <1>2, <1>10, <2>1, <2>2, <2>3 DEF TaskTimerSet, TakenOff
<1>11. ASSUME NEW t \in Timer, TaskTimerCancel(t)
       PROVE  Inv'
  <2>1. TypeOK' /\ (Listed => Listed')
    BY <1>1, <1>11, TimerCancelFact DEF TaskTimerCancel
  <2>2. Private => at \notin {"next", "time"}
    BY <1>1, <1>11 DEF TaskTimerCancel, May, Private
  <2>3. QED
    BY <1>1, <1>2, <1>11, <2>1, <2>2 DEF TaskTimerCancel, TakenOff
<1>12. CASE TaskTick
  <2>1. TypeOK' /\ list' = list /\ time' = time
    BY <1>1, <1>12, TickFact DEF TaskTick
  <2>2. sleep' \in -1 .. DelayMax
    BY <1>1, <1>12, WidthFact DEF TaskTick
  <2>3. QED
    BY <1>1, <1>2, <1>12, <2>1, <2>2 DEF TaskTick, Listed, TakenOff
<1>13. CASE UNCHANGED taskVars
  BY <1>1, <1>2, <1>3, <1>13 DEF taskVars
<1>14. QED
  BY <1>4, <1>5, <1>6, <1>7, <1>8, <1>9, <1>10, <1>11, <1>12, <1>13
     DEF TaskNext

-----------------------------------------------------------------------------
(* The invariant of the times.                                             *)

\* Delays and lateness leave the clock room to compare two times.
Near ==
    /\ MaxLate <= DelayMax
    /\ \A ms \in Delay : ms < DelayMax /\ ms + MaxLate <= DelayMax

\* off[t], the time of t from now, is what the caller asked for or, zero
\* being skipped, a millisecond less; the list is in that order.
InTime(t, off) ==
    /\ -MaxLate <= due[t] /\ due[t] < DelayMax /\ due[t] + MaxLate <= DelayMax
    /\ off[t] \in {due[t], due[t] - 1}
    /\ OnClock(time[t], off[t])

Ordered(l, off) ==
    \A i, j \in 1 .. Len(l) : i < j => off[l[i]] <= off[l[j]]

Timely(off) == (\A t \in Elems(list) : InTime(t, off)) /\ Ordered(list, off)

Times == \E off \in [Timer -> Int] : Timely(off)

TimeInv == Inv /\ (Private => Times /\ NoOversleep)

\* What is taken off a list leaves it in order.
LEMMA WithinOrdered ==
    ASSUME NEW l \in Seq(Timer), NEW r \in Seq(Timer), Within(r, l),
           NEW off \in [Timer -> Int]
    PROVE  /\ Elems(r) \subseteq Elems(l)
           /\ Ordered(l, off) => Ordered(r, off)
<1>1. ASSUME NEW t \in Elems(r)
      PROVE  t \in Elems(l)
  <2>1. PICK i \in 1 .. Len(r) : r[i] = t
    BY <1>1, ElemsFact
  <2>2. i <= i
    BY ElemsFact
  <2>3. QED
    BY <2>1, <2>2, ElemsFact DEF Within
<1>2. ASSUME Ordered(l, off), NEW i \in 1 .. Len(r), NEW j \in 1 .. Len(r),
             i < j
      PROVE  off[r[i]] <= off[r[j]]
  <2>1. i <= j
    BY <1>2, ElemsFact
  <2>2. PICK a, b \in 1 .. Len(l) : r[i] = l[a] /\ r[j] = l[b] /\ a < b
    BY <1>2, <2>1 DEF Within
  <2>3. QED
    BY <1>2, <2>2 DEF Ordered
<1>3. QED
  BY <1>1, <1>2 DEF Ordered

\* A step that only takes timers off.
LEMMA TimesOff ==
    ASSUME TypeOK, Times, list' \in Seq(Timer), Within(list', list),
           now' = now, due' = due,
           \A t \in Elems(list') : time'[t] = time[t]
    PROVE  Times'
<1>1. PICK off \in [Timer -> Int] : Timely(off)
  BY DEF Times
<1>2. list \in Seq(Timer)
  BY DEF TypeOK
<1>3. Elems(list') \subseteq Elems(list) /\ Ordered(list', off)
  BY <1>1, <1>2, WithinOrdered DEF Timely
<1>4. \A t \in Elems(list') : InTime(t, off)'
  BY <1>1, <1>3 DEF Timely, InTime, OnClock
<1>5. Timely(off)'
  BY <1>3, <1>4 DEF Timely
<1>6. QED
  BY <1>5 DEF Times

\* A step that leaves the times alone.
LEMMA TimesSame ==
    ASSUME Times, list' = list, now' = now, due' = due, TypeOK,
           \A t \in Elems(list) : time'[t] = time[t]
    PROVE  Times'
<1>1. list \in Seq(Timer) /\ Within(list, list)
  BY ElemsFact DEF TypeOK, Within
<1>2. QED
  BY <1>1, TimesOff

\* A millisecond is one for all timers.
LEMMA TimesTick ==
    ASSUME TypeOK, Times, Tick, Near
    PROVE  Times'
<1>1. PICK off \in [Timer -> Int] : Timely(off)
  BY DEF Times
<1>2. PICK o \in [Timer -> Int] :
        \A t \in Timer : o[t] = IF t \in Elems(list) THEN off[t] - 1 ELSE off[t]
  <2> DEFINE f == [t \in Timer |-> IF t \in Elems(list) THEN off[t] - 1
                                   ELSE off[t]]
  <2>1. f \in [Timer -> Int]
        /\ \A t \in Timer : f[t] = IF t \in Elems(list) THEN off[t] - 1
                                   ELSE off[t]
    OBVIOUS
  <2>2. QED
    BY <2>1
<1>3. /\ list \in Seq(Timer) /\ now \in 0 .. Wrap - 1
      /\ time \in [Timer -> 0 .. Wrap - 1] /\ due \in [Timer -> Int]
  BY DEF TypeOK
<1>4. list' = list /\ time' = time
  BY DEF Tick
<1>5. now' = now + 1 \/ now' = now + 1 - Wrap
  <2> DEFINE x == now + 1
  <2>1. x \in Int /\ x \in 0 .. Wrap
    BY <1>3, WidthFact
  <2>2. now' = x % Wrap
    BY DEF Tick
  <2> HIDE DEF x
  <2>3. /\ x \in 0 .. Wrap - 1 => now' = x
        /\ x \in Wrap .. 2 * Wrap - 1 => now' = x - Wrap
    BY <2>1, <2>2, ModFact
  <2>4. now' = x \/ now' = x - Wrap
    BY <2>1, <2>3, WidthFact
  <2>5. x = now + 1
    BY DEF x
  <2>6. QED
    BY <1>3, <2>1, <2>4, <2>5, WidthFact
<1>6. ASSUME NEW t \in Elems(list)
      PROVE  InTime(t, o)'
  <2>1. t \in Timer /\ InTime(t, off) /\ o[t] = off[t] - 1
    BY <1>1, <1>2, <1>3, <1>6, ElemsFact DEF Timely
  <2>2. due'[t] = due[t] - 1 /\ due[t] > -MaxLate
    BY <1>3, <1>6, <2>1 DEF Tick
  <2>3. MaxLate \in Nat /\ due[t] \in Int /\ off[t] \in Int
    BY <1>3, <2>1, TimerListAssumption
  <2>4. /\ -MaxLate <= due[t] /\ due[t] < DelayMax
        /\ due[t] + MaxLate <= DelayMax /\ MaxLate <= DelayMax
        /\ off[t] \in {due[t], due[t] - 1} /\ OnClock(time[t], off[t])
    BY <2>1 DEF InTime, Near
  <2> DEFINE d == due[t]
             e == due'[t]
             f == off[t]
             g == o[t]
             m == time[t]
  <2>5. d \in Int /\ f \in Int /\ m \in 0 .. Wrap - 1
        /\ e = d - 1 /\ g = f - 1
    BY <1>3, <2>1, <2>2, <2>3
  <2> HIDE DEF d, e, f, g, m
  <2>6. /\ -MaxLate <= e /\ e < DelayMax /\ e + MaxLate <= DelayMax
        /\ g \in {e, e - 1}
    BY <2>2, <2>3, <2>4, <2>5, WidthFact DEF d, f
  <2>7. m - now' \in {g, g + Wrap, g - Wrap}
    <3>1. m - now \in {f, f + Wrap, f - Wrap}
      BY <2>4 DEF OnClock, m, f
    <3>2. f \in -DelayMax - 1 .. DelayMax
      BY <2>3, <2>4, <2>5, WidthFact DEF d, f
    <3>3. now' \in 0 .. Wrap - 1
      BY TickFact DEF TypeOK
    <3>4. CASE now' = now + 1
      <4>1. m - now' \in {g, g + Wrap, g - Wrap}
        BY <1>3, <2>5, <3>1, <3>4, WidthFact
      <4>2. QED
        BY <4>1
    <3>5. CASE now' = now + 1 - Wrap
      <4>1. now = Wrap - 1 /\ now' = 0
        BY <1>3, <3>3, <3>5, WidthFact
      <4>2. f = m - now \/ f = m - now + Wrap
        BY <1>3, <2>5, <3>1, <3>2, <4>1, WidthFact
      <4>3. QED
        BY <1>3, <2>5, <4>1, <4>2, WidthFact
    <3>6. QED
      BY <1>5, <3>4, <3>5
  <2>8. QED
    BY <1>4, <2>6, <2>7 DEF InTime, OnClock, e, g, m
<1>7. Ordered(list, o)
  <2>1. ASSUME NEW i \in 1 .. Len(list), NEW j \in 1 .. Len(list), i < j
        PROVE  o[list[i]] <= o[list[j]]
    <3>1. off[list[i]] <= off[list[j]]
      BY <1>1, <2>1 DEF Timely, Ordered
    <3>2. /\ list[i] \in Elems(list) /\ list[j] \in Elems(list)
          /\ list[i] \in Timer /\ list[j] \in Timer
      BY <1>3, ElemsFact
    <3>3. o[list[i]] = off[list[i]] - 1 /\ o[list[j]] = off[list[j]] - 1
          /\ off[list[i]] \in Int /\ off[list[j]] \in Int
      BY <1>2, <3>2
    <3>4. QED
      BY <3>1, <3>3
  <2>2. QED
    BY <2>1 DEF Ordered
<1>8. Timely(o)'
  BY <1>4, <1>6, <1>7 DEF Timely
<1>9. QED
  BY <1>8 DEF Times

\* A set puts the timer after those that are not later and before the rest.
LEMMA TimesSet ==
    ASSUME TypeOK, Listed, Times, Near, NEW t \in Timer, NEW ms \in Delay,
           TimerSet(t, ms)
    PROVE  Times'
<1> DEFINE l == CancelList(t)
           e == Expiry(ms)
           c == Clamped(ms)
           p == Place(l, e)
<1>1. PICK off \in [Timer -> Int] : Timely(off)
  BY DEF Times
<1>2. /\ list \in Seq(Timer) /\ now \in 0 .. Wrap - 1
      /\ time \in [Timer -> 0 .. Wrap - 1] /\ due \in [Timer -> Int]
      /\ ms \in Nat /\ MaxLate \in Nat
  BY TimerListAssumption DEF TypeOK
<1>3. /\ ms < DelayMax /\ ms + MaxLate <= DelayMax /\ MaxLate <= DelayMax
      /\ c = ms
  BY <1>2, WidthFact DEF Near, Clamped
<1>4. e \in 1 .. Wrap - 1 /\ \E d \in {c, c - 1} : OnClock(e, d)
  BY <1>2, ExpiryFact
<1>5. /\ l \in Seq(Timer) /\ Within(l, list) /\ Distinct(l)
      /\ Elems(l) = Elems(list) \ {t}
  BY CancelListFact
<1>6. /\ list' = Insert(l, t, e) /\ time' = [time EXCEPT ![t] = e]
      /\ due' = [due EXCEPT ![t] = c] /\ now' = now
  BY DEF TimerSet
<1> HIDE DEF l, e, c
<1>7. /\ p \in 1 .. Len(l) + 1 /\ Len(l) \in Nat
      /\ p <= Len(l) => ClockGt(time[l[p]], e)
      /\ \A j \in 1 .. p - 1 : ~ClockGt(time[l[j]], e)
  BY <1>5, PlaceFact, ElemsFact
<1>8. /\ list' \in Seq(Timer) /\ Len(list') = Len(l) + 1
      /\ \A i \in 1 .. Len(l) + 1 :
            list'[i] = IF i < p THEN l[i] ELSE IF i = p THEN t ELSE l[i - 1]
      /\ Elems(list') = Elems(l) \cup {t}
  BY <1>5, <1>6, InsertFact, SMTT(30)
<1> HIDE DEF p
<1>9. PICK d \in {c, c - 1} : OnClock(e, d)
  BY <1>4
<1>10. d \in Int /\ -1 <= d /\ d + MaxLate <= DelayMax /\ d < DelayMax
  BY <1>2, <1>3, <1>9, WidthFact
<1>11. Ordered(l, off)
  BY <1>1, <1>2, <1>5, WithinOrdered DEF Timely
<1>12. ASSUME NEW u \in Elems(l)
       PROVE  u \in Timer /\ u # t /\ InTime(u, off) /\ off[u] \in Int
              /\ (ClockGt(time[u], e) <=> off[u] > d)
  <2>1. u \in Timer /\ u # t /\ u \in Elems(list) /\ InTime(u, off)
    BY <1>1, <1>2, <1>5, ElemsFact DEF Timely
  <2>2. off[u] \in Int /\ due[u] \in Int /\ time[u] \in 0 .. Wrap - 1
    BY <1>2, <2>1
  <2>3. OnClock(time[u], off[u]) /\ off[u] \in {due[u], due[u] - 1}
        /\ -MaxLate <= due[u] /\ due[u] < DelayMax
        /\ due[u] + MaxLate <= DelayMax
    BY <2>1 DEF InTime
  <2>4. off[u] - d \in -(DelayMax + 1) .. DelayMax
    <3> DEFINE f == off[u]
               v == due[u]
    <3>1. f \in Int /\ v \in Int /\ f <= v /\ v - 1 <= f /\ -MaxLate <= v
          /\ v < DelayMax
      BY <2>2, <2>3
    <3> HIDE DEF f, v
    <3>2. f - d <= DelayMax
      BY <1>10, <3>1, WidthFact
    <3>3. -(DelayMax + 1) <= f - d
      BY <1>2, <1>10, <3>1, WidthFact
    <3>4. f - d \in -(DelayMax + 1) .. DelayMax
      BY <1>10, <3>1, <3>2, <3>3, WidthFact
    <3>5. QED
      BY <3>4 DEF f
  <2>5. e \in 0 .. Wrap - 1
    BY <1>4, WidthFact
  <2>6. ClockGt(time[u], e) <=> off[u] > d
    BY <1>2, <1>9, <1>10, <2>2, <2>3, <2>4, <2>5, ClockGtFact
  <2>7. QED
    BY <2>1, <2>2, <2>6
<1>13. \A j \in 1 .. p - 1 : l[j] \in Elems(l) /\ off[l[j]] <= d
  <2>1. \A j \in 1 .. p - 1 : j \in 1 .. Len(l)
    BY <1>7
  <2>2. QED
    BY <1>5, <1>7, <1>10, <1>12, <2>1, ElemsFact
<1>14. \A k \in p .. Len(l) : l[k] \in Elems(l) /\ d < off[l[k]]
  <2>1. SUFFICES ASSUME NEW k \in p .. Len(l)
                 PROVE  l[k] \in Elems(l) /\ d < off[l[k]]
    OBVIOUS
  <2>2. k \in 1 .. Len(l) /\ p \in 1 .. Len(l) /\ (p = k \/ p < k)
        /\ p <= Len(l)
    BY <1>7
  <2>3. l[k] \in Elems(l) /\ l[p] \in Elems(l)
    BY <1>5, <2>2, ElemsFact
  <2>4. off[l[p]] > d /\ off[l[p]] \in Int /\ off[l[k]] \in Int
    BY <1>7, <1>12, <2>2, <2>3
  <2>5. off[l[p]] <= off[l[k]]
    BY <1>11, <2>2, <2>4 DEF Ordered
  <2>6. QED
    BY <1>10, <2>3, <2>4, <2>5
<1> DEFINE o == [off EXCEPT ![t] = d]
<1>15. /\ o \in [Timer -> Int] /\ o[t] = d
       /\ \A u \in Elems(l) : o[u] = off[u] /\ o[u] \in Int
  BY <1>10, <1>12
<1> HIDE DEF o
<1>16. ASSUME NEW i \in 1 .. Len(list'), NEW j \in 1 .. Len(list'), i < j
       PROVE  o[list'[i]] <= o[list'[j]]
  <2>1. i \in 1 .. Len(l) + 1 /\ j \in 1 .. Len(l) + 1
    BY <1>8
  <2>2. CASE j < p
    <3>1. i \in 1 .. Len(l) /\ j \in 1 .. Len(l) /\ i < p
      BY <1>7, <1>16, <2>1, <2>2
    <3>2. list'[i] = l[i] /\ list'[j] = l[j] /\ off[l[i]] <= off[l[j]]
          /\ l[i] \in Elems(l) /\ l[j] \in Elems(l)
      BY <1>5, <1>8, <1>11, <1>16, <2>1, <2>2, <3>1, ElemsFact DEF Ordered
    <3>3. QED
      BY <1>15, <3>2
  <2>3. CASE j = p
    <3>1. i \in 1 .. p - 1 /\ i < p
      BY <1>7, <1>16, <2>1, <2>3
    <3>2. list'[i] = l[i] /\ list'[j] = t
      BY <1>8, <2>1, <2>3, <3>1
    <3>3. QED
      BY <1>13, <1>15, <3>1, <3>2
  <2>4. CASE j > p
    <3>1. j - 1 \in p .. Len(l) /\ ~(j < p) /\ j # p /\ j - 1 \in 1 .. Len(l)
      BY <1>7, <2>1, <2>4
    <3>2. list'[j] = l[j - 1] /\ d < off[l[j - 1]] /\ l[j - 1] \in Elems(l)
      BY <1>8, <1>14, <2>1, <3>1
    <3>3. CASE i < p
      <4>1. i \in 1 .. p - 1
        BY <1>7, <2>1, <3>3
      <4>2. list'[i] = l[i] /\ off[l[i]] <= d /\ l[i] \in Elems(l)
        BY <1>8, <1>13, <2>1, <3>3, <4>1
      <4>3. o[l[i]] <= d /\ d < o[l[j - 1]] /\ o[l[i]] \in Int
            /\ o[l[j - 1]] \in Int
        BY <1>15, <3>2, <4>2
      <4>4. QED
        BY <1>10, <3>2, <4>2, <4>3
    <3>4. CASE i = p
      <4>1. list'[i] = t
        BY <1>8, <2>1, <3>4
      <4>2. o[t] = d /\ d < o[l[j - 1]] /\ o[l[j - 1]] \in Int
        BY <1>15, <3>2
      <4>3. QED
        BY <1>10, <3>2, <4>1, <4>2
    <3>5. CASE i > p
      <4>1. i - 1 \in p .. Len(l) /\ ~(i < p) /\ i # p
            /\ i - 1 \in 1 .. Len(l) /\ i - 1 < j - 1
        BY <1>7, <1>16, <2>1, <3>5
      <4>2. list'[i] = l[i - 1] /\ l[i - 1] \in Elems(l)
        BY <1>8, <1>14, <2>1, <4>1
      <4>3. off[l[i - 1]] <= off[l[j - 1]]
        BY <1>11, <3>1, <4>1 DEF Ordered
      <4>4. QED
        BY <1>15, <3>2, <4>2, <4>3
    <3>6. QED
      BY <1>7, <2>1, <3>3, <3>4, <3>5
  <2>5. QED
    BY <1>7, <2>1, <2>2, <2>3, <2>4
<1>17. ASSUME NEW u \in Elems(list')
       PROVE  InTime(u, o)'
  <2>1. CASE u = t
    <3>1. time'[u] = e /\ due'[u] = c /\ o[u] = d
      BY <1>2, <1>6, <1>15, <2>1
    <3>2. QED
      BY <1>2, <1>3, <1>6, <1>9, <3>1 DEF InTime, OnClock
  <2>2. CASE u # t
    <3>1. u \in Elems(l) /\ u \in Timer /\ InTime(u, off)
      BY <1>8, <1>12, <1>17, <2>2
    <3>2. time'[u] = time[u] /\ due'[u] = due[u] /\ o[u] = off[u]
      BY <1>2, <1>6, <1>15, <2>2, <3>1
    <3>3. QED
      BY <1>6, <3>1, <3>2 DEF InTime, OnClock
  <2>3. QED
    BY <2>1, <2>2
<1>18. Ordered(list', o)
  BY <1>16 DEF Ordered
<1>19. Timely(o)'
  BY <1>17, <1>18 DEF Timely
<1>20. QED
  BY <1>15, <1>19 DEF Times

\* The first timer of the list is due first, and Delta is how long it has.
LEMMA HeadFact ==
    ASSUME TypeOK, Listed, Near, list # <<>>, NEW off \in [Timer -> Int],
           Timely(off)
    PROVE  LET h == Head(list)
           IN  /\ h \in Elems(list) /\ Elems(list) \subseteq Timer
               /\ \A t \in Elems(list) : off[h] <= off[t]
               /\ Delta # -1
               /\ Delta = 0 <=> off[h] <= 0
               /\ Delta # 0 => Delta = off[h]
<1> DEFINE h == Head(list)
           m == time[h]
           f == off[h]
           x == m - now
<1>1. /\ list \in Seq(Timer) /\ now \in 0 .. Wrap - 1
      /\ time \in [Timer -> 0 .. Wrap - 1] /\ due \in [Timer -> Int]
      /\ MaxLate \in Nat /\ MaxLate <= DelayMax
  BY TimerListAssumption DEF TypeOK, Near
<1>2. h = list[1] /\ h \in Timer /\ 1 \in 1 .. Len(list) /\ h \in Elems(list)
      /\ Elems(list) \subseteq Timer
  BY <1>1, TailFact, ElemsFact
<1>3. m # 0 /\ m \in 0 .. Wrap - 1 /\ f \in Int /\ due[h] \in Int
  BY <1>1, <1>2 DEF Listed
<1>4. InTime(h, off)
  BY <1>2 DEF Timely
<1>5. f \in -(DelayMax + 1) .. DelayMax /\ OnClock(m, f)
  BY <1>1, <1>3, <1>4, WidthFact DEF InTime
<1>6. ASSUME NEW t \in Elems(list)
      PROVE  off[h] <= off[t]
  <2>1. PICK i \in 1 .. Len(list) : list[i] = t
    BY <1>1, ElemsFact
  <2>2. i = 1 \/ 1 < i
    BY <1>1, ElemsFact
  <2>3. CASE i = 1
    BY <1>2, <1>3, <2>1, <2>3
  <2>4. CASE 1 < i
    BY <1>2, <2>1, <2>4 DEF Timely, Ordered
  <2>5. QED
    BY <2>2, <2>3, <2>4
<1>7. Expired(h) <=> f <= 0
  <2>1. OnClock(now, 0) /\ f - 0 \in -(DelayMax + 1) .. DelayMax
    BY <1>1, <1>3, <1>5 DEF OnClock
  <2> HIDE DEF m, f
  <2>2. ClockGt(m, now) <=> f > 0
    BY <1>1, <1>3, <1>5, <2>1, ClockGtFact
  <2>3. QED
    BY <1>3, <2>2 DEF Expired, m
<1>8. Delta = IF Expired(h) THEN 0 ELSE x % Wrap
  BY <1>3 DEF Delta
<1>9. x \in Int /\ x = m - now
  BY <1>1, <1>3
<1> HIDE DEF h, m, f, x
<1>10. f > 0 => x % Wrap = f
  <2>1. SUFFICES ASSUME f > 0 PROVE x % Wrap = f
    OBVIOUS
  <2>2. x = f \/ x = f - Wrap
    <3>1. x \in {f, f + Wrap, f - Wrap}
      BY <1>5, <1>9 DEF OnClock
    <3>2. x # f + Wrap
      BY <1>1, <1>3, <1>9, <2>1, WidthFact
    <3>3. QED
      BY <3>1, <3>2
  <2>3. CASE x = f
    <3>1. x \in 0 .. Wrap - 1
      BY <1>5, <2>1, <2>3, WidthFact
    <3>2. QED
      BY <1>9, <2>3, <3>1, ModFact
  <2>4. CASE x = f - Wrap
    <3>1. x \in -Wrap .. -1 /\ x + Wrap = f
      BY <1>3, <1>5, <1>9, <2>1, <2>4, WidthFact
    <3>2. QED
      BY <1>9, <3>1, ModFact
  <2>5. QED
    BY <2>2, <2>3, <2>4
<1>11. /\ Delta # -1
       /\ Delta = 0 <=> f <= 0
       /\ Delta # 0 => Delta = f
  BY <1>3, <1>7, <1>8, <1>10
<1>12. QED
  BY <1>2, <1>6, <1>11 DEF h, f

-----------------------------------------------------------------------------
(* The tasks.                                                              *)

\* Who sets the timers of a task does not change.
LEMMA PrivateStep ==
    ASSUME Private, [TaskNext]_taskVars
    PROVE  Private' /\ loop' = loop
<1>1. loop' = loop
  BY DEF TaskNext, Take, Advance, Sleep, Timeout, Callback, RunNext, RunTime,
         HandlerEnd, TaskTimerSet, TaskTimerCancel, TaskTick, taskVars
<1>2. QED
  BY <1>1 DEF Private

\* The task waits for the first timer, which no timer on the list precedes.
LEMMA SleepFact ==
    ASSUME TypeOK, Listed, Near, Times, Sleep
    PROVE  NoOversleep'
<1>1. PICK off \in [Timer -> Int] : Timely(off)
  BY DEF Times
<1>2. SUFFICES ASSUME NEW t \in Elems(list)
               PROVE  sleep' # -1 /\ sleep' <= due[t]
  BY DEF NoOversleep, Sleep, vars
<1>3. list # <<>>
  BY <1>2 DEF Elems
<1>4. /\ Head(list) \in Elems(list) /\ Elems(list) \subseteq Timer
      /\ off[Head(list)] <= off[t]
      /\ Delta # -1 /\ Delta = off[Head(list)]
  BY <1>1, <1>2, <1>3, HeadFact DEF Sleep
<1>5. off[t] \in Int /\ due[t] \in Int /\ off[Head(list)] \in Int
  BY <1>2, <1>4 DEF TypeOK
<1>6. off[t] <= due[t]
  BY <1>1, <1>2, <1>5 DEF Timely, InTime
<1>7. QED
  BY <1>4, <1>5, <1>6 DEF Sleep

\* Every step keeps the times and the wait.
LEMMA TimeStep ==
    ASSUME Near, Private, TimeInv, [TaskNext]_taskVars
    PROVE  TimeInv'
<1>1. /\ Inv /\ TypeOK /\ Listed /\ TakenOff /\ Times /\ NoOversleep
      /\ list \in Seq(Timer) /\ due \in [Timer -> Int]
      /\ sleep \in -1 .. DelayMax /\ loop \in {"client", "net"}
  BY DEF TimeInv, Inv, TaskTypeOK, TypeOK
<1>2. Inv' /\ Private'
  BY <1>1, InvStep, PrivateStep
<1>3. ASSUME Times', NoOversleep'
      PROVE  TimeInv'
  BY <1>2, <1>3 DEF TimeInv
<1>4. CASE Take \/ Advance
  <2>1. Delta = 0 /\ Dequeue /\ at' # "wait"
    BY <1>4 DEF Take, Advance
  <2>2. /\ list' \in Seq(Timer) /\ Within(list', list)
        /\ Elems(list') = Elems(list) \ {Head(list)}
    BY <1>1, <2>1, DequeueFact
  <2>3. now' = now /\ due' = due /\ time' = [time EXCEPT ![Head(list)] = 0]
    BY <2>1 DEF Dequeue
  <2>4. \A t \in Elems(list') : time'[t] = time[t]
    <3>1. ASSUME NEW t \in Elems(list')
          PROVE  time'[t] = time[t]
      <4>1. t \in Timer /\ t # Head(list)
        BY <1>1, <2>2, ElemsFact
      <4>2. QED
        BY <1>1, <2>3, <4>1 DEF TypeOK
    <3>2. QED
      BY <3>1
  <2>5. Times'
    BY <1>1, <2>2, <2>3, <2>4, TimesOff
  <2>6. QED
    BY <1>3, <2>1, <2>5 DEF NoOversleep
<1>5. CASE Sleep
  <2>1. Times'
    BY <1>1, <1>5, TimesSame DEF Sleep, vars
  <2>2. NoOversleep'
    BY <1>1, <1>5, SleepFact
  <2>3. QED
    BY <1>3, <2>1, <2>2
<1>6. CASE Timeout \/ Callback \/ HandlerEnd
  <2>1. UNCHANGED vars /\ at' # "wait"
    BY <1>6 DEF Timeout, Callback, HandlerEnd, HandlerReturns, vars
  <2>2. Times'
    BY <1>1, <2>1, TimesSame DEF vars
  <2>3. QED
    BY <1>3, <2>1, <2>2 DEF NoOversleep
<1>7. CASE RunNext
  <2>1. list' = list /\ now' = now /\ time' = time /\ due' = due
        /\ at' # "wait"
    BY <1>1, <1>7 DEF RunNext, TakenOff
  <2>2. Times'
    BY <1>1, <2>1, TimesSame
  <2>3. QED
    BY <1>3, <2>1, <2>2 DEF NoOversleep
<1>8. CASE RunTime
  <2>1. list' = list /\ now' = now /\ due' = due /\ at' # "wait"
        /\ time' = [time EXCEPT ![taken] = 0]
    BY <1>8 DEF RunTime
  <2>2. \A t \in Elems(list) : time'[t] = time[t]
    <3>1. ASSUME NEW t \in Elems(list)
          PROVE  time'[t] = time[t]
      <4>1. t \in Timer /\ t # taken
        BY <1>1, <1>8, ElemsFact DEF RunTime, TakenOff
      <4>2. QED
        BY <1>1, <2>1, <4>1 DEF TypeOK
    <3>2. QED
      BY <3>1
  <2>3. Times'
    BY <1>1, <2>1, <2>2, TimesSame
  <2>4. QED
    BY <1>3, <2>1, <2>3 DEF NoOversleep
<1>9. ASSUME NEW t \in Timer, NEW ms \in Delay, TaskTimerSet(t, ms)
      PROVE  TimeInv'
  <2>1. Times'
    BY <1>1, <1>9, TimesSet DEF TaskTimerSet
  <2>2. at' # "wait"
    BY <1>1, <1>9 DEF TaskTimerSet, AfterSet, May, Private
  <2>3. QED
    BY <1>3, <2>1, <2>2 DEF NoOversleep
<1>10. ASSUME NEW t \in Timer, TaskTimerCancel(t)
       PROVE  TimeInv'
  <2>1. /\ list' \in Seq(Timer) /\ Within(list', list)
        /\ Elems(list') = Elems(list) \ {t}
    BY <1>1, <1>10, TimerCancelFact DEF TaskTimerCancel
  <2>2. /\ now' = now /\ due' = due /\ time' = [time EXCEPT ![t] = 0]
        /\ at' = at /\ sleep' = sleep
    BY <1>10 DEF TaskTimerCancel, TimerCancel
  <2>3. \A u \in Elems(list') : time'[u] = time[u]
    <3>1. ASSUME NEW u \in Elems(list')
          PROVE  time'[u] = time[u]
      <4>1. u \in Timer /\ u # t
        BY <1>1, <2>1, ElemsFact
      <4>2. QED
        BY <1>1, <2>2, <4>1 DEF TypeOK
    <3>2. QED
      BY <3>1
  <2>4. Times'
    BY <1>1, <2>1, <2>2, <2>3, TimesOff
  <2>5. NoOversleep'
    BY <1>1, <2>1, <2>2 DEF NoOversleep
  <2>6. QED
    BY <1>3, <2>4, <2>5
<1>11. CASE TaskTick
  <2>1. Tick /\ list' = list
    BY <1>11 DEF TaskTick, Tick
  <2>2. Times'
    BY <1>1, <2>1, TimesTick
  <2>3. ASSUME at' = "wait", NEW t \in Elems(list')
        PROVE  sleep' # -1 /\ sleep' <= due'[t]
    <3>1. at = "wait" /\ t \in Elems(list) /\ t \in Timer
      BY <1>1, <1>11, <2>1, <2>3, ElemsFact DEF TaskTick
    <3>2. sleep # -1 /\ sleep <= due[t] /\ sleep # 0 /\ due[t] \in Int
      BY <1>1, <1>11, <3>1 DEF NoOversleep, TaskTick
    <3>3. sleep \in Int /\ sleep > 0
      BY <1>1, <3>2, WidthFact
    <3>4. sleep' = sleep - 1
      BY <1>11, <3>1, <3>3 DEF TaskTick
    <3>5. due'[t] = due[t] - 1
      BY <2>1, <3>1 DEF Tick
    <3>6. QED
      BY <3>2, <3>3, <3>4, <3>5
  <2>4. QED
    BY <1>3, <2>2, <2>3 DEF NoOversleep
<1>12. CASE UNCHANGED taskVars
  <2>1. Times'
    BY <1>1, <1>12, TimesSame DEF taskVars, vars
  <2>2. NoOversleep'
    BY <1>1, <1>12 DEF taskVars, vars, NoOversleep
  <2>3. QED
    BY <1>3, <2>1, <2>2
<1>13. QED
  BY <1>4, <1>5, <1>6, <1>7, <1>8, <1>9, <1>10, <1>11, <1>12 DEF TaskNext

\* The tasks start with an empty list, awake.
LEMMA InitTimeInv ==
    ASSUME TaskInit
    PROVE  TimeInv
<1>1. Inv
  BY InitInv
<1>2. list = <<>> /\ at = "check"
  BY DEF TaskInit, Init
<1>3. Times
  <2> DEFINE o == [t \in Timer |-> 0]
  <2>1. o \in [Timer -> Int]
    OBVIOUS
  <2>2. Timely(o)
    BY <1>2 DEF Timely, Ordered, Elems
  <2> HIDE DEF o
  <2>3. QED
    BY <2>1, <2>2 DEF Times
<1>4. QED
  BY <1>1, <1>2, <1>3 DEF TimeInv, NoOversleep

\* A timer that is run is due, and none on the list is due before it.
LEMMA FiresFact ==
    ASSUME Near, Private, TimeInv, Take \/ Advance
    PROVE  LET t == Head(list)
           IN  due[t] <= 1 /\ \A u \in Elems(list) : due[t] <= due[u] + 1
<1>1. TypeOK /\ Listed /\ Times /\ due \in [Timer -> Int]
  BY DEF TimeInv, Inv, TaskTypeOK, TypeOK
<1>2. PICK off \in [Timer -> Int] : Timely(off)
  BY <1>1 DEF Times
<1>3. Delta = 0 /\ list # <<>>
  BY DEF Take, Advance, Delta
<1>4. /\ Head(list) \in Elems(list) /\ Elems(list) \subseteq Timer
      /\ \A u \in Elems(list) : off[Head(list)] <= off[u]
      /\ off[Head(list)] <= 0
  BY <1>1, <1>2, <1>3, HeadFact
<1>5. \A u \in Elems(list) : off[u] \in Int /\ due[u] \in Int
                             /\ off[u] \in {due[u], due[u] - 1}
  BY <1>1, <1>2, <1>4 DEF Timely, InTime
<1> DEFINE h == Head(list)
<1>6. h \in Elems(list) /\ off[h] <= 0
  BY <1>4
<1>7. due[h] <= 1
  BY <1>5, <1>6
<1>8. ASSUME NEW u \in Elems(list)
      PROVE  due[h] <= due[u] + 1
  <2>1. off[h] <= off[u]
    BY <1>4
  <2>2. QED
    BY <1>5, <1>6, <2>1
<1>9. QED
  BY <1>7, <1>8

\* Every variable of the lists and of the tasks keeps its type, the timers of
\* the net task among them, which other tasks may set while it runs one.
THEOREM TypeCorrect == TaskSpec => []TaskTypeOK
<1>1. TaskInit => Inv
  BY InitInv
<1>2. Inv /\ [TaskNext]_taskVars => Inv'
  BY InvStep
<1>3. Inv => TaskTypeOK
  BY DEF Inv
<1>4. QED
  BY <1>1, <1>2, <1>3, PTL DEF TaskSpec

\* A timer is on the list once if its time_ms is set and not at all
\* otherwise: timer_set(), timer_cancel() and timer_advance() keep the list
\* and the times in step, under client_lock.
THEOREM ListedOnceHolds == TaskSpec /\ Private => []ListedOnce
<1>1. TaskInit => Inv
  BY InitInv
<1>2. Inv /\ Private /\ [TaskNext]_taskVars => (Inv /\ Private)'
  BY InvStep, PrivateStep
<1>3. Inv /\ Private => ListedOnce
  <2>1. SUFFICES ASSUME Inv, Private PROVE ListedOnce
    OBVIOUS
  <2>2. Listed /\ list \in Seq(Timer)
    BY <2>1 DEF Inv, TaskTypeOK, TypeOK
  <2>3. QED
    BY <2>2, DistinctLen DEF Listed, ListedOnce
<1>4. QED
  BY <1>1, <1>2, <1>3, PTL DEF TaskSpec

\* What client_idle() waits for, timer_advance()'s delay, is no longer than
\* that of any timer of the list, also of one set while it waits.
THEOREM NoOversleepHolds ==
    ASSUME Near PROVE TaskSpec /\ Private => []NoOversleep
<1>1. TaskInit => TimeInv
  BY InitTimeInv
<1>2. TimeInv /\ Private /\ [TaskNext]_taskVars => (TimeInv /\ Private)'
  BY TimeStep, PrivateStep
<1>3. TimeInv /\ Private => NoOversleep
  BY DEF TimeInv
<1>4. QED
  BY <1>1, <1>2, <1>3, PTL DEF TaskSpec

\* timer_delta_get() answers that nothing is scheduled only when nothing is.
THEOREM IdleMeansEmptyHolds ==
    ASSUME Near PROVE TaskSpec /\ Private => []IdleMeansEmpty
<1>1. TaskInit => TimeInv
  BY InitTimeInv
<1>2. TimeInv /\ Private /\ [TaskNext]_taskVars => (TimeInv /\ Private)'
  BY TimeStep, PrivateStep
<1>3. TimeInv /\ Private => IdleMeansEmpty
  <2>1. SUFFICES ASSUME TimeInv, Private, list # <<>> PROVE Delta # -1
    BY DEF IdleMeansEmpty
  <2>2. TypeOK /\ Listed /\ Times
    BY <2>1 DEF TimeInv, Inv, TaskTypeOK
  <2>3. PICK off \in [Timer -> Int] : Timely(off)
    BY <2>2 DEF Times
  <2>4. QED
    BY <2>1, <2>2, <2>3, HeadFact
<1>4. QED
  BY <1>1, <1>2, <1>3, PTL DEF TaskSpec

\* net_timer_wait() and timer_advance() run the timer that is due first, and
\* none before it is due, but for the millisecond that skipping zero costs:
\* the wrap-around of the clock does not change the order.
THEOREM FiresInOrderHolds ==
    ASSUME Near PROVE TaskSpec /\ Private => FiresInOrder
<1> DEFINE Fires == Take \/ Advance =>
                LET t == Head(list)
                IN  /\ due[t] <= 1
                    /\ \A u \in Elems(list) : due[t] <= due[u] + 1
<1>1. TaskInit => TimeInv
  BY InitTimeInv
<1>2. TimeInv /\ Private /\ [TaskNext]_taskVars => (TimeInv /\ Private)'
  BY TimeStep, PrivateStep
<1>3. TimeInv /\ Private => Fires
  BY FiresFact
<1> HIDE DEF Fires
<1>4. TaskSpec /\ Private => [][Fires]_taskVars
  BY <1>1, <1>2, <1>3, PTL DEF TaskSpec
<1>5. QED
  BY <1>4 DEF FiresInOrder, Fires

=============================================================================
