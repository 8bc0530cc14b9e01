---------------------------- MODULE Sched_proofs ----------------------------
(***************************************************************************)
(* Proofs about the schedules.                                             *)
(*                                                                         *)
(* What a run does right rests on what sched_evaluate() says of each       *)
(* schedule, Evaluated.  That is proved of schedules that are on for a     *)
(* while on each of their days (OnOffSchedule); of others it is false for  *)
(* some, and TLC can tell of which.                                        *)
(***************************************************************************)
EXTENDS Sched, WellFoundedInduction, FiniteSetTheorems, SequenceTheorems, TLAPS

-----------------------------------------------------------------------------
(* Sets of naturals, and days.                                             *)

\* A set of naturals has a smallest one.
LEMMA Smallest ==
    ASSUME NEW S, S \subseteq Nat, S # {}
    PROVE  \E x \in S : \A y \in S : x <= y
<1>1. PICK x \in S : \A y \in S : ~(<<y, x>> \in OpToRel(<, Nat))
  BY NatLessThanWellFounded, WFMin, Zenon
<1>2. \A y \in S : ~(y < x)
  BY <1>1 DEF OpToRel
<1>3. QED
  BY <1>2

LEMMA MinFact ==
    ASSUME NEW S, S \subseteq Nat, S # {}
    PROVE  Min(S) \in S /\ \A y \in S : Min(S) <= y
<1>1. \E x \in S : \A y \in S : x <= y
  BY Smallest
<1>2. QED
  BY <1>1, Zenon DEF Min

LEMMA MaxFact ==
    ASSUME NEW S, S \subseteq Int, S # {}, NEW n \in Int, \A y \in S : y <= n
    PROVE  Max(S) \in S /\ \A y \in S : y <= Max(S)
<1> DEFINE T == {n - y : y \in S}
<1>1. T \subseteq Nat /\ T # {}
  <2>1. \A y \in S : y \in Int /\ y <= n
    OBVIOUS
  <2>2. \A y \in S : n - y \in Nat
    BY <2>1
  <2>3. QED
    BY <2>2
<1>2. PICK z \in T : \A y \in T : z <= y
  BY <1>1, Smallest
<1>3. PICK x \in S : z = n - x
  BY <1>2
<1>4. ASSUME NEW y \in S PROVE y <= x
  <2>1. n - x <= n - y
    BY <1>2, <1>3
  <2>2. QED
    BY <2>1
<1>5. \E m \in S : \A y \in S : m >= y
  BY <1>4
<1>6. Max(S) \in S /\ \A y \in S : Max(S) >= y
  BY <1>5, Zenon DEF Max
<1>7. QED
  BY <1>6

LEMMA DayStartFact ==
    ASSUME NEW d \in Int, NEW e \in Int
    PROVE  /\ DayStart(d) \in Int
           /\ d \in Nat => DayStart(d) \in Nat
           /\ DayStart(d + 1) = DayStart(d) + DayLen
           /\ d < e => DayStart(d) + DayLen <= DayStart(e)
<1>1. DayLen \in Nat /\ DayLen > 0
  BY DayAssumption
<1>2. DayStart(d) \in Int /\ DayStart(d + 1) = DayStart(d) + DayLen
  BY <1>1 DEF DayStart
<1>3. d \in Nat => DayStart(d) \in Nat
  BY <1>1 DEF DayStart
<1>4. ASSUME d < e PROVE DayStart(d) + DayLen <= DayStart(e)
  <2>1. PICK k \in Nat : e = d + 1 + k
    <3>1. e - d - 1 \in Nat /\ e = d + 1 + (e - d - 1)
      BY <1>4
    <3>2. QED
      BY <3>1
  <2>2. k * DayLen >= 0 /\ k * DayLen \in Int
    BY <1>1, <2>1
  <2>3. (d + 1 + k) * DayLen = d * DayLen + DayLen + k * DayLen
    BY <1>1, <2>1
  <2>4. QED
    BY <1>1, <1>2, <2>1, <2>2, <2>3 DEF DayStart
<1>5. QED
  BY <1>2, <1>3, <1>4

LEMMA DayFact ==
    ASSUME NEW t \in Int
    PROVE  /\ Day(t) \in Int /\ DayStart(Day(t)) \in Int
           /\ DayStart(Day(t)) <= t /\ t < DayStart(Day(t)) + DayLen
           /\ t \in Nat => Day(t) \in Nat
           /\ Day(t) \in Nat => t \in Nat
<1>1. DayLen \in Nat \ {0}
  BY DayAssumption
<1>2. /\ Day(t) \in Int /\ DayStart(Day(t)) \in Int
      /\ DayStart(Day(t)) <= t /\ t < DayStart(Day(t)) + DayLen
  BY <1>1 DEF Day, DayStart
<1>3. t \in Nat => Day(t) \in Nat
  BY <1>1 DEF Day
<1>4. Day(t) \in Nat => t \in Nat
  BY <1>2, DayStartFact
<1>5. QED
  BY <1>2, <1>3, <1>4

\* A time is on the day in which it lies.
LEMMA DayIs ==
    ASSUME NEW t \in Int, NEW d \in Int,
           DayStart(d) <= t, t < DayStart(d) + DayLen
    PROVE  Day(t) = d
<1>1. /\ Day(t) \in Int /\ DayStart(Day(t)) \in Int /\ DayStart(d) \in Int
      /\ DayStart(Day(t)) <= t /\ t < DayStart(Day(t)) + DayLen /\ DayLen \in Nat
  BY DayFact, DayStartFact, DayAssumption
<1>2. Day(t) < d => DayStart(Day(t)) + DayLen <= DayStart(d)
  BY <1>1, DayStartFact
<1>3. d < Day(t) => DayStart(d) + DayLen <= DayStart(Day(t))
  BY <1>1, DayStartFact
<1>4. QED
  BY <1>1, <1>2, <1>3
-----------------------------------------------------------------------------
(* sched_evaluate() of a schedule that is on for a while on each day.      *)

RangeStart(s, d) == DayStart(d) + s.start
RangeEnd(s, d) == RangeStart(s, d) + s.duration

\* r is the range of the first day from day f on that is not over at t.
IsFirst(s, f, t, r) ==
    \/ r = NoRange /\ \A d \in s.days : d >= f => RangeEnd(s, d) < t
    \/ \E m \in s.days :
          /\ r = <<RangeStart(s, m), RangeEnd(s, m)>>
          /\ m >= f /\ t <= RangeEnd(s, m)
          /\ \A d \in s.days : d >= f /\ t <= RangeEnd(s, d) => m <= d

\* What is known of the numbers of such a schedule.
OnOffNumbers(s) ==
    /\ s.days \subseteq Nat \ {0} /\ s.start \in Nat /\ s.duration \in Nat
    /\ s.start < DayLen /\ s.duration < DayLen /\ s.duration > 0
    /\ s.interval = 0
    /\ \A d \in s.days : d + 1 \in s.days => s.start + s.duration < DayLen

LEMMA OnOffNumbersFact ==
    ASSUME NEW s \in Schedule, OnOffSchedule(s)
    PROVE  OnOffNumbers(s)
<1>1. /\ s.days \in SUBSET (1 .. LastDay) /\ s.start \in 0 .. DayLen - 1
      /\ s.duration \in 0 .. DayLen - 1
  BY DEF Schedule
<1>2. DayLen \in Nat /\ LastDay \in Nat
  BY DayAssumption
<1>3. s.days \subseteq Nat \ {0}
  BY <1>1, <1>2
<1>4. QED
  BY <1>1, <1>2, <1>3 DEF OnOffNumbers, OnOffSchedule

LEMMA RangeFact ==
    ASSUME NEW s, OnOffNumbers(s), NEW d \in Nat
    PROVE  /\ DayStart(d) \in Nat /\ DayStart(d + 1) = DayStart(d) + DayLen
           /\ RangeStart(s, d) \in Nat /\ RangeEnd(s, d) \in Nat
           /\ RangeStart(s, d) = DayStart(d) + s.start
           /\ RangeEnd(s, d) = RangeStart(s, d) + s.duration
           /\ DayStart(d) <= RangeStart(s, d)
           /\ RangeEnd(s, d) < DayStart(d) + DayLen + DayLen
           /\ \A e \in Nat : d < e => DayStart(d) + DayLen <= DayStart(e)
<1>1. DayLen \in Nat
  BY DayAssumption
<1>2. DayStart(d) \in Nat /\ DayStart(d + 1) = DayStart(d) + DayLen
  BY DayStartFact
<1>3. \A e \in Nat : d < e => DayStart(d) + DayLen <= DayStart(e)
  BY DayStartFact
<1>4. QED
  BY <1>1, <1>2, <1>3 DEF OnOffNumbers, RangeStart, RangeEnd

LEMMA NextBigFact ==
    ASSUME NEW s, OnOffNumbers(s), NEW f \in Nat, NEW t \in Int
    PROVE  IsFirst(s, f, t, NextBig(s, f, t))
<1> DEFINE D == {e \in s.days : e >= f /\ t <= RangeEnd(s, e)}
<1>1. DurationNoInterval(s)
  BY DEF OnOffNumbers, DurationNoInterval
<1>2. NextBig(s, f, t) = IF D = {} THEN NoRange
                         ELSE <<RangeStart(s, Min(D)), RangeEnd(s, Min(D))>>
  BY <1>1 DEF NextBig, RangeStart, RangeEnd
<1>3. D \subseteq Nat
  BY DEF OnOffNumbers
<1>4. CASE D = {}
  <2>1. ASSUME NEW d \in s.days, d >= f PROVE RangeEnd(s, d) < t
    <3>1. RangeEnd(s, d) \in Nat
      BY RangeFact DEF OnOffNumbers
    <3>2. ~(t <= RangeEnd(s, d))
      BY <1>4, <2>1
    <3>3. QED
      BY <3>1, <3>2
  <2>2. QED
    BY <1>2, <1>4, <2>1 DEF IsFirst
<1>5. CASE D # {}
  <2>1. Min(D) \in D /\ \A d \in D : Min(D) <= d
    BY <1>3, <1>5, MinFact
  <2>2. QED
    BY <1>2, <1>5, <2>1 DEF IsFirst
<1>6. QED
  BY <1>4, <1>5

\* A range that lasts at t and a day of the schedule has begun on that day or on
\* the day before.
LEMMA LastsFact ==
    ASSUME NEW s, OnOffNumbers(s), NEW t \in Nat, NEW d \in s.days,
           d <= Day(t), t <= RangeEnd(s, d)
    PROVE  \/ d = Day(t)
           \/ d + 1 = Day(t) /\ Day(t) \notin s.days
<1>1. d \in Nat /\ Day(t) \in Nat /\ DayLen \in Nat
  BY DayFact, DayAssumption DEF OnOffNumbers
<1>2. DayStart(Day(t)) <= t
  BY DayFact
<1>3. /\ DayStart(d) \in Nat /\ DayStart(d + 1) = DayStart(d) + DayLen
      /\ RangeEnd(s, d) \in Nat /\ RangeEnd(s, d) < DayStart(d) + DayLen + DayLen
  BY <1>1, RangeFact
<1>4. DayStart(d + 1) \in Nat /\ DayStart(Day(t)) \in Nat
      /\ (d + 1 < Day(t) => DayStart(d + 1) + DayLen <= DayStart(Day(t)))
  BY <1>1, RangeFact
<1>5. d = Day(t) \/ d + 1 = Day(t)
  BY <1>1, <1>2, <1>3, <1>4
<1>6. ASSUME d + 1 = Day(t), Day(t) \in s.days PROVE FALSE
  <2>1. s.start + s.duration < DayLen /\ s.start \in Nat /\ s.duration \in Nat
    BY <1>6 DEF OnOffNumbers
  <2>2. RangeEnd(s, d) = DayStart(d) + s.start + s.duration
    BY DEF RangeEnd, RangeStart
  <2>3. DayStart(Day(t)) = DayStart(d) + DayLen
    BY <1>3, <1>6
  <2>4. QED
    BY <1>1, <1>2, <1>3, <2>1, <2>2, <2>3
<1>7. QED
  BY <1>5, <1>6

\* The first range that is not over: none before today's can be but yesterday's.
LEMMA FirstToday ==
    ASSUME NEW s, OnOffNumbers(s), NEW t \in Nat, NEW r,
           \/ /\ IsFirst(s, Day(t) + 1, t, r)
              /\ \A d \in s.days : d = Day(t) \/ d + 1 = Day(t) => RangeEnd(s, d) < t
           \/ \E d \in s.days :
                 /\ r = <<RangeStart(s, d), RangeEnd(s, d)>> /\ t <= RangeEnd(s, d)
                 /\ d = Day(t) \/ (d + 1 = Day(t) /\ Day(t) \notin s.days)
    PROVE  IsFirst(s, 0, t, r)
<1>1. s.days \subseteq Nat /\ Day(t) \in Nat
  BY DayFact DEF OnOffNumbers
<1>2. \A d \in s.days : RangeEnd(s, d) \in Nat
  BY <1>1, RangeFact
<1>3. \A d \in s.days : d <= Day(t) /\ t <= RangeEnd(s, d) =>
          d = Day(t) \/ (d + 1 = Day(t) /\ Day(t) \notin s.days)
  BY LastsFact
<1>4. CASE /\ IsFirst(s, Day(t) + 1, t, r)
           /\ \A d \in s.days : d = Day(t) \/ d + 1 = Day(t) => RangeEnd(s, d) < t
  <2>1. \A d \in s.days : t <= RangeEnd(s, d) => d >= Day(t) + 1
    BY <1>1, <1>2, <1>3, <1>4
  <2>2. CASE r = NoRange /\ \A d \in s.days : d >= Day(t) + 1 => RangeEnd(s, d) < t
    <3>1. \A d \in s.days : RangeEnd(s, d) < t
      BY <1>1, <1>2, <2>1, <2>2
    <3>2. QED
      BY <2>2, <3>1 DEF IsFirst
  <2>3. ASSUME NEW m \in s.days,
               r = <<RangeStart(s, m), RangeEnd(s, m)>>,
               m >= Day(t) + 1, t <= RangeEnd(s, m),
               \A d \in s.days : d >= Day(t) + 1 /\ t <= RangeEnd(s, d) => m <= d
        PROVE  IsFirst(s, 0, t, r)
    <3>1. m >= 0
      BY <1>1
    <3>2. QED
      BY <2>1, <2>3, <3>1 DEF IsFirst
  <2>4. QED
    BY <1>4, <2>2, <2>3 DEF IsFirst
<1>5. ASSUME NEW d \in s.days,
             r = <<RangeStart(s, d), RangeEnd(s, d)>>, t <= RangeEnd(s, d),
             d = Day(t) \/ (d + 1 = Day(t) /\ Day(t) \notin s.days)
      PROVE  IsFirst(s, 0, t, r)
  <2>1. ASSUME NEW e \in s.days, t <= RangeEnd(s, e) PROVE d <= e
    <3>1. e <= Day(t) => e = Day(t) \/ (e + 1 = Day(t) /\ Day(t) \notin s.days)
      BY <1>3, <2>1
    <3>2. QED
      BY <1>1, <1>5, <3>1
  <2>2. d >= 0
    BY <1>1
  <2>3. QED
    BY <1>5, <2>1, <2>2 DEF IsFirst
<1>6. QED
  BY <1>4, <1>5

\* What InnerRange() gives where Carryover() asks for it.
LEMMA InnerFact ==
    ASSUME NEW s, OnOffNumbers(s), NEW b \in Nat, Day(b) \in s.days
    PROVE  IsFirst(s, Day(b), b, InnerRange(s, b))
<1>1. DurationNoInterval(s) /\ s.interval = 0
  BY DEF OnOffNumbers, DurationNoInterval
<1>2. DayRange(s, b) = <<RangeStart(s, Day(b)), RangeEnd(s, Day(b))>>
  BY <1>1 DEF DayRange, RangeStart, RangeEnd
<1>3. Day(b) \in Nat /\ \A d \in s.days : d \in Nat /\ RangeEnd(s, d) \in Nat
  BY DayFact, RangeFact DEF OnOffNumbers
<1>4. InnerRange(s, b) = IF b <= RangeEnd(s, Day(b)) THEN DayRange(s, b)
                         ELSE NextBig(s, Day(b) + 1, b)
  BY <1>1, <1>2 DEF InnerRange, Narrow, BigInner, In, Later
<1>5. CASE b <= RangeEnd(s, Day(b))
  <2>1. InnerRange(s, b) = <<RangeStart(s, Day(b)), RangeEnd(s, Day(b))>>
    BY <1>2, <1>4, <1>5
  <2>2. QED
    BY <1>3, <1>5, <2>1 DEF IsFirst
<1>6. CASE ~(b <= RangeEnd(s, Day(b)))
  <2>1. IsFirst(s, Day(b) + 1, b, InnerRange(s, b))
    <3>1. Day(b) + 1 \in Nat
      BY <1>3
    <3>2. IsFirst(s, Day(b) + 1, b, NextBig(s, Day(b) + 1, b))
      BY <3>1, NextBigFact
    <3>3. QED
      BY <1>4, <1>6, <3>2
  <2>2. \A d \in s.days : d >= Day(b) /\ b <= RangeEnd(s, d) => d >= Day(b) + 1
    BY <1>3, <1>6
  <2>3. CASE /\ InnerRange(s, b) = NoRange
             /\ \A d \in s.days : d >= Day(b) + 1 => RangeEnd(s, d) < b
    <3>1. \A d \in s.days : d >= Day(b) => RangeEnd(s, d) < b
      BY <1>3, <2>2, <2>3
    <3>2. QED
      BY <2>3, <3>1 DEF IsFirst
  <2>4. ASSUME NEW m \in s.days,
               InnerRange(s, b) = <<RangeStart(s, m), RangeEnd(s, m)>>,
               m >= Day(b) + 1, b <= RangeEnd(s, m),
               \A d \in s.days : d >= Day(b) + 1 /\ b <= RangeEnd(s, d) => m <= d
        PROVE  IsFirst(s, Day(b), b, InnerRange(s, b))
    <3>1. m >= Day(b)
      BY <1>3, <2>4
    <3>2. QED
      BY <2>2, <2>4, <3>1 DEF IsFirst
  <2>5. QED
    BY <2>1, <2>3, <2>4 DEF IsFirst
<1>7. QED
  BY <1>5, <1>6

LEMMA CarryoverFact ==
    ASSUME NEW s, OnOffNumbers(s), NEW t \in Nat \ {0},
           Day(t) \in s.days => RangeEnd(s, Day(t)) < t
    PROVE  IsFirst(s, 0, t, Carryover(s, t))
<1> DEFINE b == t - s.duration
           db == Day(t - s.duration)
           r == InnerRange(s, t - s.duration)
<1>1. /\ s.days \subseteq Nat \ {0} /\ s.start \in Nat /\ s.duration \in Nat
      /\ s.start < DayLen /\ s.duration < DayLen /\ s.duration > 0
      /\ DayLen \in Nat
  BY DayAssumption DEF OnOffNumbers
<1>2. \A d \in s.days :
         /\ d \in Nat /\ DayStart(d) \in Nat
         /\ DayStart(d + 1) = DayStart(d) + DayLen
         /\ RangeStart(s, d) \in Nat /\ RangeEnd(s, d) \in Nat
         /\ RangeStart(s, d) = DayStart(d) + s.start
         /\ RangeEnd(s, d) = RangeStart(s, d) + s.duration
         /\ RangeEnd(s, d) < DayStart(d) + DayLen + DayLen
  BY <1>1, RangeFact
<1>3. /\ Day(t) \in Nat /\ DayStart(Day(t)) \in Nat /\ DayStart(Day(t)) <= t
      /\ t < DayStart(Day(t)) + DayLen
  BY DayFact, DayStartFact
<1>4. b \in Int /\ db \in Int /\ DayStart(db) \in Int
      /\ DayStart(db) <= b /\ b < DayStart(db) + DayLen
      /\ (db \in Nat => b \in Nat)
  BY <1>1, DayFact
<1>5. Carryover(s, t) = IF b < DayStart(Day(t)) /\ db \in s.days /\ t <= r[2]
                        THEN r ELSE NextBig(s, Day(t) + 1, t)
  BY <1>1 DEF Carryover
<1>6. db \in s.days => IsFirst(s, db, b, r)
  BY <1>1, <1>4, InnerFact
<1>7. \A d \in s.days : d = Day(t) => RangeEnd(s, d) < t
  OBVIOUS
<1> HIDE DEF b, db, r
<1>8. CASE b < DayStart(Day(t)) /\ db \in s.days /\ t <= r[2]
  <2>1. db + 1 = Day(t)
    <3>1. DayStart(Day(t)) < DayStart(db) + DayLen + DayLen
      BY <1>1, <1>3, <1>4 DEF b
    <3>2. /\ Day(t) <= db => DayStart(Day(t)) <= DayStart(db)
          /\ db + 1 < Day(t) => DayStart(db + 1) + DayLen <= DayStart(Day(t))
      <4>1. Day(t) < db => DayStart(Day(t)) + DayLen <= DayStart(db)
        BY <1>3, <1>4, DayStartFact
      <4>2. db + 1 < Day(t) => DayStart(db + 1) + DayLen <= DayStart(Day(t))
        BY <1>3, <1>4, DayStartFact
      <4>3. QED
        BY <1>1, <1>3, <1>4, <4>1, <4>2
    <3>3. DayStart(db + 1) = DayStart(db) + DayLen
      BY <1>2, <1>8
    <3>4. QED
      BY <1>1, <1>3, <1>4, <1>8, <3>1, <3>2, <3>3
  <2>2. r # NoRange
    BY <1>8 DEF NoRange
  <2>3. PICK m \in s.days :
           /\ r = <<RangeStart(s, m), RangeEnd(s, m)>>
           /\ m >= db /\ b <= RangeEnd(s, m)
           /\ \A d \in s.days : d >= db /\ b <= RangeEnd(s, d) => m <= d
    BY <1>6, <1>8, <2>2 DEF IsFirst
  <2>4. t <= RangeEnd(s, m) /\ Carryover(s, t) = r
    BY <1>5, <1>8, <2>3
  <2>5. CASE m = db
    <3>1. db <= Day(t) /\ t <= RangeEnd(s, db)
      BY <1>4, <2>1, <2>4, <2>5
    <3>2. db + 1 = Day(t) /\ Day(t) \notin s.days
      BY <1>3, <1>4, <1>8, <2>1, <3>1, LastsFact
    <3>3. QED
      BY <2>3, <2>4, <2>5, <3>2, FirstToday
  <2>6. CASE m # db
    <3>1. m >= Day(t) + 1
      BY <1>2, <1>3, <1>4, <1>7, <2>1, <2>3, <2>4, <2>6
    <3>2. \A d \in s.days : d + 1 = Day(t) => RangeEnd(s, d) < t
      <4>1. ASSUME NEW d \in s.days, d + 1 = Day(t) PROVE RangeEnd(s, d) < t
        <5>1. d = db /\ d \in Nat /\ RangeEnd(s, d) \in Nat
          BY <1>2, <1>4, <2>1, <4>1
        <5>2. ~(b <= RangeEnd(s, d))
          BY <1>2, <1>4, <2>3, <2>6, <5>1
        <5>3. b <= t
          BY <1>1 DEF b
        <5>4. QED
          BY <1>4, <5>1, <5>2, <5>3
      <4>2. QED
        BY <4>1
    <3>3. \A d \in s.days : d >= Day(t) + 1 /\ t <= RangeEnd(s, d) => m <= d
      <4>1. b <= t
        BY <1>1 DEF b
      <4>2. \A d \in s.days : d >= Day(t) + 1 => d >= db
        BY <1>2, <1>3, <1>4, <2>1
      <4>3. \A d \in s.days : t <= RangeEnd(s, d) => b <= RangeEnd(s, d)
        BY <1>2, <1>4, <4>1
      <4>4. QED
        BY <2>3, <4>2, <4>3
    <3>4. IsFirst(s, Day(t) + 1, t, r)
      BY <2>3, <2>4, <3>1, <3>3 DEF IsFirst
    <3>5. QED
      BY <1>7, <2>4, <3>2, <3>4, FirstToday
  <2>7. QED
    BY <2>5, <2>6
<1>9. CASE ~(b < DayStart(Day(t)) /\ db \in s.days /\ t <= r[2])
  <2>1. IsFirst(s, Day(t) + 1, t, Carryover(s, t))
    <3>1. Day(t) + 1 \in Nat
      BY <1>3
    <3>2. IsFirst(s, Day(t) + 1, t, NextBig(s, Day(t) + 1, t))
      BY <3>1, NextBigFact
    <3>3. QED
      BY <1>5, <1>9, <3>2
  <2>2. ASSUME NEW d \in s.days, d + 1 = Day(t), t <= RangeEnd(s, d)
        PROVE  FALSE
    <3>1. /\ d \in Nat /\ DayStart(Day(t)) = DayStart(d) + DayLen
          /\ DayStart(d) \in Nat /\ RangeStart(s, d) \in Nat
          /\ RangeStart(s, d) = DayStart(d) + s.start
          /\ RangeEnd(s, d) = RangeStart(s, d) + s.duration
      BY <1>2, <2>2
    <3>2. /\ DayStart(d) <= b /\ b < DayStart(d) + DayLen
          /\ b <= RangeStart(s, d) /\ b < DayStart(Day(t))
      BY <1>1, <1>3, <2>2, <3>1 DEF b
    <3>3. db = d
      <4>1. Day(b) = d
        BY <1>4, <3>1, <3>2, DayIs
      <4>2. QED
        BY <4>1 DEF b, db
    <3>4. b <= RangeEnd(s, d)
      BY <1>1, <1>4, <3>1, <3>2
    <3>5. r = <<RangeStart(s, d), RangeEnd(s, d)>>
      <4>1. IsFirst(s, d, b, r)
        BY <1>6, <3>3
      <4>2. ~(r = NoRange /\ \A e \in s.days : e >= d => RangeEnd(s, e) < b)
        <5>1. d >= d /\ RangeEnd(s, d) \in Nat
          BY <1>2, <3>1
        <5>2. ~(RangeEnd(s, d) < b)
          BY <1>4, <3>4, <5>1
        <5>3. QED
          BY <5>1, <5>2
      <4>3. PICK m \in s.days :
               /\ r = <<RangeStart(s, m), RangeEnd(s, m)>> /\ m >= d
               /\ \A e \in s.days : e >= d /\ b <= RangeEnd(s, e) => m <= e
        BY <4>1, <4>2 DEF IsFirst
      <4>4. m = d
        BY <1>2, <3>1, <3>4, <4>3
      <4>5. QED
        BY <4>3, <4>4
    <3>6. QED
      BY <1>9, <2>2, <3>2, <3>3, <3>5
  <2>3. \A d \in s.days : d + 1 = Day(t) => RangeEnd(s, d) < t
    BY <1>2, <2>2
  <2>4. QED
    BY <1>7, <2>1, <2>3, FirstToday
<1>10. QED
  BY <1>8, <1>9

\* sched_determine_range() finds the first range that is not over.
LEMMA OnOffRange ==
    ASSUME NEW s, OnOffNumbers(s), NEW t \in Nat \ {0}
    PROVE  IsFirst(s, 0, t, DetermineRange(s, t))
<1>1. DurationNoInterval(s) /\ s.interval = 0
  BY DEF OnOffNumbers, DurationNoInterval
<1>2. DayRange(s, t) = <<RangeStart(s, Day(t)), RangeEnd(s, Day(t))>>
  BY <1>1 DEF DayRange, RangeStart, RangeEnd
<1>3. DetermineRange(s, t) = IF Day(t) \in s.days /\ t <= RangeEnd(s, Day(t))
                             THEN DayRange(s, t) ELSE Carryover(s, t)
  BY <1>1, <1>2 DEF DetermineRange, Narrow, Big, In, Later
<1>4. CASE Day(t) \in s.days /\ t <= RangeEnd(s, Day(t))
  BY <1>2, <1>3, <1>4, FirstToday
<1>5. CASE ~(Day(t) \in s.days /\ t <= RangeEnd(s, Day(t)))
  <2>1. Day(t) \in s.days => RangeEnd(s, Day(t)) < t
    <3>1. ASSUME Day(t) \in s.days PROVE RangeEnd(s, Day(t)) < t
      <4>1. Day(t) \in Nat
        BY DayFact
      <4>2. RangeEnd(s, Day(t)) \in Nat
        BY <4>1, RangeFact
      <4>3. QED
        BY <1>5, <3>1, <4>2
    <3>2. QED
      BY <3>1
  <2>2. QED
    BY <1>3, <1>5, <2>1, CarryoverFact
<1>6. QED
  BY <1>4, <1>5

LEMMA RangesApart ==
    ASSUME NEW s, OnOffNumbers(s)
    PROVE  /\ \A d \in s.days :
                 /\ RangeStart(s, d) \in Nat \ {0} /\ RangeEnd(s, d) \in Nat
                 /\ RangeStart(s, d) < RangeEnd(s, d)
           /\ \A d, e \in s.days : d < e => RangeEnd(s, d) < RangeStart(s, e)
           /\ s.days \subseteq Nat
<1>1. /\ s.days \subseteq Nat \ {0} /\ s.start \in Nat /\ s.duration \in Nat
      /\ s.duration < DayLen /\ s.duration > 0 /\ DayLen \in Nat
  BY DayAssumption DEF OnOffNumbers
<1>2. ASSUME NEW d \in s.days
      PROVE  /\ RangeStart(s, d) \in Nat \ {0} /\ RangeEnd(s, d) \in Nat
             /\ RangeStart(s, d) < RangeEnd(s, d)
             /\ RangeEnd(s, d) = DayStart(d) + s.start + s.duration
             /\ RangeStart(s, d) = DayStart(d) + s.start
             /\ DayStart(d) \in Nat
  <2>1. d \in Nat /\ 0 < d
    BY <1>1
  <2>2. DayStart(0) \in Nat /\ DayStart(0) + DayLen <= DayStart(d)
    BY <2>1, DayStartFact
  <2>3. DayStart(d) \in Nat
    BY <2>1, DayStartFact
  <2>4. RangeStart(s, d) = DayStart(d) + s.start
        /\ RangeEnd(s, d) = RangeStart(s, d) + s.duration
    BY DEF RangeStart, RangeEnd
  <2>5. QED
    BY <1>1, <2>2, <2>3, <2>4
<1>3. ASSUME NEW d \in s.days, NEW e \in s.days, d < e
      PROVE  RangeEnd(s, d) < RangeStart(s, e)
  <2>1. DayStart(d) + DayLen <= DayStart(e)
    BY <1>1, <1>3, DayStartFact
  <2>2. QED
    BY <1>1, <1>2, <2>1
<1>4. QED
  BY <1>1, <1>2, <1>3

\* The events are the starts and the ends of the ranges.
EventOn(s, d, e) ==
    /\ e[1] \in 1 .. Len(s.acts)
    /\ e[2] = IF s.acts[e[1]] = "end" THEN RangeEnd(s, d) ELSE RangeStart(s, d)

LEMMA OnOffEvents ==
    ASSUME NEW s, OnOffNumbers(s)
    PROVE  /\ \A e \in Events(s) : \E d \in s.days : EventOn(s, d, e)
           /\ \A d \in s.days : \A j \in 1 .. Len(s.acts) :
                 <<j, IF s.acts[j] = "end" THEN RangeEnd(s, d)
                                           ELSE RangeStart(s, d)>> \in Events(s)
<1>1. s.interval = 0 /\ s.duration # 0
  BY DEF OnOffNumbers
<1>2. Ranges(s) = {<<RangeStart(s, d), RangeEnd(s, d)>> : d \in s.days}
  BY <1>1 DEF Ranges, RangeStart, RangeEnd
<1>3. ASSUME NEW e \in Events(s)
      PROVE  \E d \in s.days : EventOn(s, d, e)
  <2>1. PICK r \in Ranges(s) : \E i \in 1 .. Len(s.acts) :
            e = <<i, IF s.acts[i] = "end" THEN r[2] ELSE r[1]>>
    BY DEF Events
  <2>2. PICK d \in s.days : r = <<RangeStart(s, d), RangeEnd(s, d)>>
    BY <1>2
  <2>3. QED
    BY <2>1, <2>2 DEF EventOn
<1>4. ASSUME NEW d \in s.days, NEW j \in 1 .. Len(s.acts)
      PROVE  <<j, IF s.acts[j] = "end" THEN RangeEnd(s, d)
                                       ELSE RangeStart(s, d)>> \in Events(s)
  <2> DEFINE r == <<RangeStart(s, d), RangeEnd(s, d)>>
  <2>1. r \in Ranges(s) /\ r[1] < r[2]
    BY <1>2, RangesApart
  <2>2. <<j, IF s.acts[j] = "end" THEN r[2] ELSE r[1]>> \in Events(s)
    <3> HIDE DEF r
    <3>1. QED
      BY <2>1 DEF Events
  <2>3. QED
    BY <2>2
<1>5. QED
  BY <1>3, <1>4

\* Two events of a schedule are in the order of their days.
LEMMA EventTimes ==
    ASSUME NEW s, OnOffNumbers(s), NEW d \in s.days, NEW e, EventOn(s, d, e)
    PROVE  /\ e[2] \in Nat
           /\ RangeStart(s, d) <= e[2] /\ e[2] <= RangeEnd(s, d)
           /\ e[2] = RangeStart(s, d) \/ e[2] = RangeEnd(s, d)
<1>1. /\ RangeStart(s, d) \in Nat /\ RangeEnd(s, d) \in Nat
      /\ RangeStart(s, d) < RangeEnd(s, d)
  BY RangesApart
<1>2. QED
  BY <1>1 DEF EventOn

\* The range that is found is the one of day m, and the events after it.
FirstOn(s, m, t) ==
    /\ m \in s.days /\ t <= RangeEnd(s, m)
    /\ \A d \in s.days : t <= RangeEnd(s, d) => m <= d

LEMMA FirstOrNone ==
    ASSUME NEW s, OnOffNumbers(s), NEW t \in Nat \ {0}
    PROVE  \/ /\ DetermineRange(s, t) = NoRange
              /\ \A d \in s.days : RangeEnd(s, d) < t
           \/ \E m \in s.days :
                 /\ FirstOn(s, m, t)
                 /\ DetermineRange(s, t) = <<RangeStart(s, m), RangeEnd(s, m)>>
<1>1. IsFirst(s, 0, t, DetermineRange(s, t))
  BY OnOffRange
<1>2. \A d \in s.days : d >= 0
  BY DEF OnOffNumbers
<1>3. QED
  BY <1>1, <1>2 DEF IsFirst, FirstOn

\* Where the search goes on behind a range, it finds the next one.
LEMMA StartFromFact ==
    ASSUME NEW s, OnOffNumbers(s), NEW m \in s.days
    PROVE  \/ /\ StartFrom(s, RangeEnd(s, m) + 1) = 0
              /\ \A d \in s.days : d <= m
           \/ \E n \in s.days :
                 /\ StartFrom(s, RangeEnd(s, m) + 1) = RangeStart(s, n)
                 /\ m < n /\ \A d \in s.days : m < d => n <= d
<1> DEFINE t == RangeEnd(s, m) + 1
<1>1. /\ s.days \subseteq Nat
      /\ \A d \in s.days : RangeStart(s, d) \in Nat \ {0} /\ RangeEnd(s, d) \in Nat
                           /\ RangeStart(s, d) < RangeEnd(s, d)
      /\ \A d, e \in s.days : d < e => RangeEnd(s, d) < RangeStart(s, e)
  BY RangesApart
<1>2. t \in Nat \ {0}
  BY <1>1
<1>3. \A d \in s.days : t <= RangeEnd(s, d) <=> m < d
  <2>1. ASSUME NEW d \in s.days PROVE t <= RangeEnd(s, d) <=> m < d
    <3>1. CASE m < d
      BY <1>1, <3>1
    <3>2. CASE m = d
      BY <1>1, <3>2
    <3>3. CASE d < m
      BY <1>1, <3>3
    <3>4. QED
      BY <1>1, <3>1, <3>2, <3>3
  <2>2. QED
    BY <2>1
<1> HIDE DEF t
<1>4. CASE /\ DetermineRange(s, t) = NoRange
           /\ \A d \in s.days : RangeEnd(s, d) < t
  <2>1. StartFrom(s, t) = 0
    BY <1>2, <1>4 DEF StartFrom, NotBefore, NoRange
  <2>2. \A d \in s.days : d <= m
    BY <1>1, <1>2, <1>3, <1>4
  <2>3. QED
    BY <2>1, <2>2 DEF t
<1>5. ASSUME NEW n \in s.days, FirstOn(s, n, t),
             DetermineRange(s, t) = <<RangeStart(s, n), RangeEnd(s, n)>>
      PROVE  \E k \in s.days :
                 /\ StartFrom(s, RangeEnd(s, m) + 1) = RangeStart(s, k)
                 /\ m < k /\ \A d \in s.days : m < d => k <= d
  <2>1. m < n /\ \A d \in s.days : m < d => n <= d
    BY <1>3, <1>5 DEF FirstOn
  <2>2. ~(RangeStart(s, n) < t)
    BY <1>1, <2>1 DEF t
  <2>3. StartFrom(s, t) = RangeStart(s, n)
    BY <1>5, <2>2 DEF StartFrom, NotBefore
  <2>4. QED
    BY <2>1, <2>3 DEF t
<1>6. QED
  BY <1>2, <1>4, <1>5, FirstOrNone DEF t

\* The next event, where the range is the one of day m.
LEMMA NextEventFact ==
    ASSUME NEW s, OnOffNumbers(s), NEW t \in Nat \ {0}, NEW m \in s.days,
           FirstOn(s, m, t),
           DetermineRange(s, t) = <<RangeStart(s, m), RangeEnd(s, m)>>
    PROVE  NextEvent(s, t) =
               IF t < RangeStart(s, m) THEN RangeStart(s, m)
               ELSE IF EndNeeded(s) /\ t < RangeEnd(s, m) THEN RangeEnd(s, m)
               ELSE StartFrom(s, RangeEnd(s, m) + 1)
<1>1. /\ RangeStart(s, m) \in Nat \ {0} /\ RangeEnd(s, m) \in Nat
      /\ t <= RangeEnd(s, m)
  BY RangesApart DEF FirstOn
<1> DEFINE r == <<RangeStart(s, m), RangeEnd(s, m)>>
<1>2. r # NoRange /\ r[1] = RangeStart(s, m) /\ r[2] = RangeEnd(s, m)
  BY <1>1 DEF NoRange
<1>3. NextEvent(s, t) = EventAround(s, r, t)
  BY DEF NextEvent
<1> HIDE DEF r
<1>4. QED
  BY <1>1, <1>2, <1>3 DEF EventAround

\* Where the range is the one of day m, what comes after t.
LEMMA NextIsRight ==
    ASSUME NEW s, OnOffNumbers(s), NEW t \in Nat \ {0}, NEW m \in s.days,
           FirstOn(s, m, t),
           DetermineRange(s, t) = <<RangeStart(s, m), RangeEnd(s, m)>>
    PROVE  /\ NextEvent(s, t) \in Nat
           /\ NextEvent(s, t) # 0 => NextEvent(s, t) > t
           /\ \A e \in Events(s) : e[2] > t => NextEvent(s, t) \in 1 .. e[2]
<1> DEFINE next == NextEvent(s, t)
           from == StartFrom(s, RangeEnd(s, m) + 1)
<1>1. /\ s.days \subseteq Nat
      /\ \A d \in s.days : RangeStart(s, d) \in Nat \ {0} /\ RangeEnd(s, d) \in Nat
                           /\ RangeStart(s, d) < RangeEnd(s, d)
      /\ \A d, e \in s.days : d < e => RangeEnd(s, d) < RangeStart(s, e)
  BY RangesApart
<1>2. t <= RangeEnd(s, m) /\ \A d \in s.days : t <= RangeEnd(s, d) => m <= d
  BY DEF FirstOn
<1>3. next = IF t < RangeStart(s, m) THEN RangeStart(s, m)
             ELSE IF EndNeeded(s) /\ t < RangeEnd(s, m) THEN RangeEnd(s, m)
             ELSE from
  BY NextEventFact
<1>4. \/ from = 0 /\ \A d \in s.days : d <= m
      \/ \E n \in s.days : /\ from = RangeStart(s, n) /\ m < n
                           /\ \A d \in s.days : m < d => n <= d
  BY StartFromFact
<1> HIDE DEF next, from
<1>5. next \in Nat /\ (next # 0 => next > t)
  <2>1. CASE t < RangeStart(s, m)
    BY <1>1, <1>3, <2>1
  <2>2. CASE ~(t < RangeStart(s, m)) /\ EndNeeded(s) /\ t < RangeEnd(s, m)
    BY <1>1, <1>3, <2>2
  <2>3. CASE ~(t < RangeStart(s, m)) /\ ~(EndNeeded(s) /\ t < RangeEnd(s, m))
    <3>1. next = from
      BY <1>3, <2>3
    <3>2. ASSUME NEW n \in s.days, from = RangeStart(s, n), m < n
          PROVE  from \in Nat /\ from > t
      <4>1. RangeEnd(s, m) < RangeStart(s, n)
        BY <1>1, <3>2
      <4>2. QED
        BY <1>1, <1>2, <3>2, <4>1
    <3>3. QED
      BY <1>4, <3>1, <3>2
  <2>4. QED
    BY <2>1, <2>2, <2>3
<1>6. ASSUME NEW e \in Events(s), e[2] > t PROVE next \in 1 .. e[2]
  <2>1. PICK d \in s.days : EventOn(s, d, e)
    BY OnOffEvents
  <2>2. /\ e[2] \in Nat /\ RangeStart(s, d) <= e[2] /\ e[2] <= RangeEnd(s, d)
        /\ e[2] = RangeStart(s, d) \/ e[2] = RangeEnd(s, d)
    BY <2>1, EventTimes
  <2>3. m <= d
    BY <1>1, <1>2, <1>6, <2>2
  <2>4. d = m \/ RangeEnd(s, m) < RangeStart(s, d)
    BY <1>1, <2>3
  <2>5. CASE t < RangeStart(s, m)
    BY <1>1, <1>3, <2>2, <2>4, <2>5
  <2>6. CASE ~(t < RangeStart(s, m)) /\ EndNeeded(s) /\ t < RangeEnd(s, m)
    BY <1>1, <1>3, <1>6, <2>2, <2>4, <2>6
  <2>7. CASE ~(t < RangeStart(s, m)) /\ ~(EndNeeded(s) /\ t < RangeEnd(s, m))
    <3>1. d # m
      <4>1. SUFFICES ASSUME d = m PROVE FALSE
        OBVIOUS
      <4>2. e[2] = RangeEnd(s, m) /\ t < RangeEnd(s, m)
        BY <1>1, <1>2, <1>6, <2>2, <2>7, <4>1
      <4>3. s.acts[e[1]] = "end" /\ e[1] \in 1 .. Len(s.acts)
        BY <1>1, <2>1, <4>1, <4>2 DEF EventOn
      <4>4. EndNeeded(s)
        BY <4>3 DEF EndNeeded
      <4>5. QED
        BY <2>7, <4>2, <4>4
    <3>2. m < d
      BY <1>1, <2>3, <3>1
    <3>3. PICK n \in s.days : /\ from = RangeStart(s, n) /\ m < n
                              /\ \A k \in s.days : m < k => n <= k
      BY <1>1, <1>4, <3>2
    <3>4. n <= d
      BY <3>2, <3>3
    <3>5. n = d \/ RangeEnd(s, n) < RangeStart(s, d)
      BY <1>1, <3>4
    <3>6. next = RangeStart(s, n)
      BY <1>3, <2>7, <3>3
    <3>7. QED
      BY <1>1, <2>2, <3>5, <3>6
  <2>8. QED
    BY <2>5, <2>6, <2>7
<1>7. QED
  BY <1>5, <1>6 DEF next

\* ... and what is due at t.
LEMMA DueIsRight ==
    ASSUME NEW s \in Schedule, OnOffNumbers(s), NEW t \in Nat \ {0},
           NEW m \in s.days, FirstOn(s, m, t),
           DetermineRange(s, t) = <<RangeStart(s, m), RangeEnd(s, m)>>
    PROVE  /\ \A e \in Events(s) : e[2] = t => e[1] \in Due(s, t)
           /\ \A j \in Due(s, t) : s.acts[j] # "within" => <<j, t>> \in Events(s)
<1>1. /\ s.days \subseteq Nat
      /\ \A d \in s.days : RangeStart(s, d) \in Nat \ {0} /\ RangeEnd(s, d) \in Nat
                           /\ RangeStart(s, d) < RangeEnd(s, d)
      /\ \A d, e \in s.days : d < e => RangeEnd(s, d) < RangeStart(s, e)
  BY RangesApart
<1>2. t <= RangeEnd(s, m) /\ \A d \in s.days : t <= RangeEnd(s, d) => m <= d
  BY DEF FirstOn
<1>3. \A j \in 1 .. Len(s.acts) : s.acts[j] \in {"start", "end", "within"}
  BY DEF Schedule
<1>4. Due(s, t) = {i \in 1 .. Len(s.acts) :
          \/ s.acts[i] = "start" /\ t = RangeStart(s, m)
          \/ s.acts[i] = "end" /\ t = RangeEnd(s, m)
          \/ s.acts[i] = "within" /\ RangeStart(s, m) <= t /\ t < RangeEnd(s, m)}
  BY DEF Due, DueIn
<1>5. ASSUME NEW e \in Events(s), e[2] = t PROVE e[1] \in Due(s, t)
  <2>1. PICK d \in s.days : EventOn(s, d, e)
    BY OnOffEvents
  <2>2. /\ RangeStart(s, d) <= t /\ t <= RangeEnd(s, d)
    BY <1>5, <2>1, EventTimes
  <2>3. d = m
    <3>1. m <= d
      BY <1>2, <2>2
    <3>2. ~(m < d)
      BY <1>1, <1>2, <2>2
    <3>3. QED
      BY <1>1, <3>1, <3>2
  <2>4. /\ e[1] \in 1 .. Len(s.acts)
        /\ t = IF s.acts[e[1]] = "end" THEN RangeEnd(s, m) ELSE RangeStart(s, m)
    BY <1>5, <2>1, <2>3 DEF EventOn
  <2>5. QED
    BY <1>1, <1>3, <1>4, <2>4
<1>6. ASSUME NEW j \in Due(s, t), s.acts[j] # "within"
      PROVE  <<j, t>> \in Events(s)
  <2>1. /\ j \in 1 .. Len(s.acts)
        /\ t = IF s.acts[j] = "end" THEN RangeEnd(s, m) ELSE RangeStart(s, m)
    BY <1>4, <1>6
  <2>2. QED
    BY <2>1, OnOffEvents
<1>7. QED
  BY <1>5, <1>6

\* A schedule that has no range from t on.
LEMMA NoneIsRight ==
    ASSUME NEW s, NEW t \in Nat \ {0}, DetermineRange(s, t) = NoRange,
           \A e \in Events(s) : e[2] \in Int /\ e[2] < t
    PROVE  EvaluatedRightly(s, t) /\ NextEvent(s, t) \in Nat
<1>1. NextEvent(s, t) = 0
  <2>1. NextEvent(s, t) = EventAround(s, NoRange, t)
    BY DEF NextEvent
  <2>2. ~(t < NoRange[1]) /\ NoRange[1] = 0 /\ NoRange[2] = 0
    BY DEF NoRange
  <2>3. QED
    BY <2>1, <2>2 DEF EventAround
<1>2. Due(s, t) = {}
  BY DEF Due, DueIn, NoRange
<1>3. QED
  BY <1>1, <1>2 DEF EvaluatedRightly

(* sched_evaluate() is right, at every time, about a schedule that is on   *)
(* for a while on each of its days: its next event is in the future and    *)
(* none comes before it, and what is due are the events of that second,    *)
(* also past midnight (check_carryover of schedeval.c).                    *)
THEOREM OnOffEvaluated ==
    ASSUME NEW s \in Schedule, OnOffSchedule(s), NEW t \in Nat \ {0}
    PROVE  EvaluatedRightly(s, t)
<1>1. OnOffNumbers(s)
  BY OnOffNumbersFact
<1>2. CASE /\ DetermineRange(s, t) = NoRange
           /\ \A d \in s.days : RangeEnd(s, d) < t
  <2>1. ASSUME NEW e \in Events(s) PROVE e[2] \in Int /\ e[2] < t
    <3>1. PICK d \in s.days : EventOn(s, d, e)
      BY <1>1, OnOffEvents
    <3>2. e[2] \in Nat /\ e[2] <= RangeEnd(s, d) /\ RangeEnd(s, d) \in Nat
      BY <1>1, <3>1, EventTimes, RangesApart
    <3>3. QED
      BY <1>2, <3>2
  <2>2. QED
    BY <1>2, <2>1, NoneIsRight
<1>3. ASSUME NEW m \in s.days, FirstOn(s, m, t),
             DetermineRange(s, t) = <<RangeStart(s, m), RangeEnd(s, m)>>
      PROVE  EvaluatedRightly(s, t)
  BY <1>1, <1>3, NextIsRight, DueIsRight DEF EvaluatedRightly
<1>4. QED
  BY <1>1, <1>2, <1>3, FirstOrNone

\* There is nothing where there is no schedule.
LEMMA NoSchedEvaluated ==
    ASSUME NEW t \in Nat \ {0}
    PROVE  EvaluatedRightly(NoSched, t)
<1>1. NoSched.days = {} /\ NoSched.interval = 0 /\ NoSched.duration = 0
  BY DEF NoSched
<1>2. DetermineRange(NoSched, t) = NoRange
  <2>1. Big(NoSched, t).range = NoRange
    BY <1>1 DEF Big, Carryover, NextBig, Later, NoRange
  <2>2. QED
    BY <2>1 DEF DetermineRange, Narrow
<1>3. Events(NoSched) = {}
  BY <1>1 DEF Events, Ranges
<1>4. QED
  BY <1>2, <1>3, NoneIsRight

(* sched_evaluate() is right about all the schedules there may be, if they *)
(* are on for a while on each of their days.                               *)
THEOREM OnOffScheds ==
    ASSUME \A i \in Slot : \A v \in Values[i] : OnOffSchedule(v)
    PROVE  Evaluated
<1>1. ASSUME NEW v \in AllValues, NEW t \in DayLen .. MaxTime
      PROVE  EvaluatedRightly(v, t)
  <2>1. t \in Nat \ {0}
    BY DayAssumption, SchedAssumption
  <2>2. v = NoSched \/ \E i \in Slot : v \in Values[i]
    BY DEF AllValues
  <2>3. CASE v = NoSched
    BY <2>1, <2>3, NoSchedEvaluated
  <2>4. ASSUME NEW i \in Slot, v \in Values[i] PROVE EvaluatedRightly(v, t)
    <3>1. v \in Schedule /\ OnOffSchedule(v)
      BY <2>4, SchedAssumption
    <3>2. QED
      BY <2>1, <3>1, OnOffEvaluated
  <2>5. QED
    BY <2>2, <2>3, <2>4
<1>2. QED
  BY <1>1 DEF Evaluated
-----------------------------------------------------------------------------
(* The types of what sched_evaluate() works with, for any schedule.        *)

LEMMA ScheduleFact ==
    ASSUME NEW s \in Schedule
    PROVE  /\ s.days \subseteq 1 .. LastDay /\ s.days \subseteq Nat \ {0}
           /\ s.start \in Nat /\ s.duration \in Nat /\ s.interval \in Nat
           /\ s.acts \in Seq({"start", "end", "within"}) /\ Len(s.acts) \in 0 .. 2
<1>1. /\ s.days \in SUBSET (1 .. LastDay) /\ s.start \in 0 .. DayLen - 1
      /\ s.duration \in 0 .. DayLen - 1 /\ s.interval \in 0 .. 2 * DayLen
      /\ s.acts \in UNION {[1 .. n -> {"start", "end", "within"}] : n \in 0 .. 2}
  BY DEF Schedule
<1>2. DayLen \in Nat /\ LastDay \in Nat
  BY DayAssumption
<1>3. PICK n \in 0 .. 2 : s.acts \in [1 .. n -> {"start", "end", "within"}]
  BY <1>1
<1>4. s.acts \in Seq({"start", "end", "within"}) /\ Len(s.acts) = n
  BY <1>3
<1>5. QED
  BY <1>1, <1>2, <1>3, <1>4

LEMMA FirstDayType ==
    ASSUME NEW s \in Schedule, NEW d \in s.days
    PROVE  FirstDay(s, d) \in Nat
<1> DEFINE S == {e \in 1 .. d : e .. d \subseteq s.days}
<1>1. d \in Nat \ {0}
  BY ScheduleFact
<1>2. S \subseteq Nat
  OBVIOUS
<1>3. d \in S
  BY <1>1
<1>4. Min(S) \in S
  <2> HIDE DEF S
  <2>1. QED
    BY <1>2, <1>3, MinFact
<1>5. QED
  BY <1>2, <1>4 DEF FirstDay

LEMMA LastEndType ==
    ASSUME NEW s \in Schedule, NEW d \in s.days
    PROVE  LastEnd(s, d) \in Nat
<1> DEFINE S == {e \in d .. LastDay : d .. e \subseteq s.days}
<1>1. d \in Nat \ {0} /\ d \in d .. LastDay /\ LastDay \in Nat
  BY ScheduleFact, DayAssumption
<1>2. S \subseteq Int /\ \A e \in S : e \in Nat /\ e <= LastDay
  BY <1>1
<1>3. d \in S
  BY <1>1
<1>4. Max(S) \in S
  <2> HIDE DEF S
  <2>1. QED
    <3>1. S # {} /\ LastDay \in Int /\ \A e \in S : e <= LastDay
      BY <1>1, <1>2, <1>3
    <3>2. QED
      BY <1>2, <3>1, MaxFact
<1>5. Max(S) + 1 \in Nat
  <2> HIDE DEF S
  <2>1. Max(S) \in Nat
    BY <1>2, <1>4
  <2>2. QED
    BY <2>1
<1>6. DayStart(Max(S) + 1) \in Nat
  <2> HIDE DEF S
  <2>1. QED
    BY <1>5, DayStartFact
<1>7. QED
  BY <1>6 DEF LastEnd

IsRange(r) == r \in Nat \X Nat

LEMMA RangeOf ==
    ASSUME NEW s \in Schedule, NEW d \in Nat, NEW x \in Nat
    PROVE  /\ IsRange(<<DayStart(d) + s.start, x>>)
           /\ IsRange(<<DayStart(d) + s.start, DayStart(d) + s.start + s.duration>>)
<1>1. s.start \in Nat /\ s.duration \in Nat /\ DayStart(d) \in Nat
  BY ScheduleFact, DayStartFact
<1>2. QED
  BY <1>1 DEF IsRange

LEMMA NextBigType ==
    ASSUME NEW s \in Schedule, NEW d, NEW t
    PROVE  IsRange(NextBig(s, d, t))
<1> DEFINE days == {e \in s.days : e >= d /\
                       (DurationNoInterval(s) => t <= DayStart(e) + s.start + s.duration)}
           m == Min(days)
<1>1. NextBig(s, d, t) = IF days = {} THEN NoRange
          ELSE <<DayStart(m) + s.start,
                 IF DurationNoInterval(s) THEN DayStart(m) + s.start + s.duration
                                          ELSE LastEnd(s, m)>>
  BY DEF NextBig
<1>2. days \subseteq s.days /\ days \subseteq Nat
  BY ScheduleFact
<1> HIDE DEF days
<1>3. CASE days = {}
  BY <1>1, <1>3 DEF IsRange, NoRange
<1>4. CASE days # {}
  <2>1. m \in s.days /\ m \in Nat
    BY <1>2, <1>4, MinFact
  <2> HIDE DEF m
  <2>2. LastEnd(s, m) \in Nat
    BY <2>1, LastEndType
  <2>3. QED
    BY <1>1, <1>4, <2>1, <2>2, RangeOf
<1>5. QED
  BY <1>3, <1>4

LEMMA DayRangeType ==
    ASSUME NEW s \in Schedule, NEW t \in Int, Day(t) \in s.days
    PROVE  IsRange(DayRange(s, t))
<1>1. Day(t) \in Nat /\ FirstDay(s, Day(t)) \in Nat /\ LastEnd(s, Day(t)) \in Nat
  BY ScheduleFact, FirstDayType, LastEndType
<1>2. CASE DurationNoInterval(s)
  <2>1. DayRange(s, t) = <<DayStart(Day(t)) + s.start,
                           DayStart(Day(t)) + s.start + s.duration>>
    BY <1>2 DEF DayRange
  <2>2. QED
    BY <1>1, <2>1, RangeOf
<1>3. CASE ~DurationNoInterval(s)
  <2>1. DayRange(s, t) = <<DayStart(FirstDay(s, Day(t))) + s.start,
                           LastEnd(s, Day(t))>>
    BY <1>3 DEF DayRange
  <2>2. QED
    BY <1>1, <2>1, RangeOf
<1>4. QED
  BY <1>2, <1>3

LEMMA NarrowType ==
    ASSUME NEW s \in Schedule, NEW big, NEW t \in Int, NEW otherwise,
           IsRange(big.range), IsRange(otherwise)
    PROVE  IsRange(Narrow(s, big, t, otherwise))
<1> DEFINE L == Littles(s, big.range, t)
<1>1. ASSUME L # {} PROVE IsRange(Little(s, big.range, t))
  <2>1. big.range[1] \in Nat /\ big.range[2] \in Nat
    BY DEF IsRange
  <2>2. L \subseteq Nat
    BY <2>1 DEF Littles
  <2>3. Min(L) \in Nat
    <3> HIDE DEF L
    <3>1. QED
      BY <1>1, <2>2, MinFact
  <2>4. s.duration \in Nat
    BY ScheduleFact
  <2>5. QED
    BY <2>3, <2>4 DEF Little, IsRange
<1>2. QED
  BY <1>1 DEF Narrow

LEMMA InnerRangeType ==
    ASSUME NEW s \in Schedule, NEW t \in Int
    PROVE  IsRange(InnerRange(s, t))
<1>1. IsRange(NoRange)
  BY DEF IsRange, NoRange
<1>2. IsRange(BigInner(s, t).range)
  <2>1. Day(t) \in s.days => IsRange(DayRange(s, t))
    BY DayRangeType
  <2>2. QED
    BY <1>1, <2>1, NextBigType DEF BigInner, In, Later
<1>3. QED
  BY <1>1, <1>2, NarrowType DEF InnerRange

LEMMA BigType ==
    ASSUME NEW s \in Schedule, NEW t \in Int
    PROVE  IsRange(Big(s, t).range)
<1>1. Day(t) \in s.days => IsRange(DayRange(s, t))
  BY DayRangeType
<1>2. IsRange(Carryover(s, t))
  <2>1. t - s.duration \in Int
    BY ScheduleFact
  <2>2. IsRange(InnerRange(s, t - s.duration))
    BY <2>1, InnerRangeType
  <2>3. QED
    BY <2>2, NextBigType DEF Carryover
<1>3. QED
  BY <1>1, <1>2 DEF Big, In, Later

LEMMA DetermineRangeType ==
    ASSUME NEW s \in Schedule, NEW t \in Int
    PROVE  IsRange(DetermineRange(s, t))
<1> DEFINE big == Big(s, t)
           other == Big(s, big.range[2] + 1).range
<1>1. IsRange(NoRange)
  BY DEF IsRange, NoRange
<1>2. IsRange(big.range)
  BY BigType
<1>3. IsRange(other)
  <2>1. big.range[2] + 1 \in Int
    BY <1>2 DEF IsRange
  <2> HIDE DEF big
  <2>2. QED
    BY <2>1, BigType
<1>4. DetermineRange(s, t) = IF t = 0 THEN NoRange ELSE Narrow(s, big, t, other)
  BY DEF DetermineRange
<1> HIDE DEF big, other
<1>5. QED
  BY <1>1, <1>2, <1>3, <1>4, NarrowType

LEMMA NextEventType ==
    ASSUME NEW s \in Schedule, NEW t \in Int
    PROVE  NextEvent(s, t) \in Nat
<1> DEFINE r == DetermineRange(s, t)
<1>1. r[1] \in Nat /\ r[2] \in Nat
  BY DetermineRangeType DEF IsRange
<1>2. NextEvent(s, t) = EventAround(s, r, t)
  BY DEF NextEvent
<1> HIDE DEF r
<1>3. StartFrom(s, r[2] + 1) \in Nat
  <2>1. r[2] + 1 \in Int
    BY <1>1
  <2>2. DetermineRange(s, r[2] + 1)[1] \in Nat
    BY <2>1, DetermineRangeType DEF IsRange
  <2>3. QED
    BY <2>2 DEF StartFrom, NotBefore
<1>4. QED
  BY <1>1, <1>2, <1>3 DEF EventAround

LEMMA EventsType ==
    ASSUME NEW s \in Schedule, NEW e \in Events(s)
    PROVE  e[1] \in 1 .. Len(s.acts) /\ e[2] \in Nat /\ e = <<e[1], e[2]>>
<1>1. PICK r \in Ranges(s) : \E i \in 1 .. Len(s.acts) :
          e = <<i, IF s.acts[i] = "end" THEN r[2] ELSE r[1]>>
  BY DEF Events
<1>2. IsRange(r)
  <2>1. CASE s.interval = 0 /\ s.duration # 0
    <3>1. PICK d \in s.days : r = <<DayStart(d) + s.start,
                                    DayStart(d) + s.start + s.duration>>
      BY <2>1 DEF Ranges
    <3>2. QED
      BY <3>1, ScheduleFact, RangeOf
  <2>2. CASE ~(s.interval = 0 /\ s.duration # 0)
    <3>1. PICK d \in s.days :
              \/ r = <<DayStart(FirstDay(s, d)) + s.start, LastEnd(s, d)>>
              \/ \E l \in DayStart(FirstDay(s, d)) + s.start .. LastEnd(s, d) :
                     r = <<l, l + s.duration>>
      BY <2>2 DEF Ranges
    <3>2. FirstDay(s, d) \in Nat /\ LastEnd(s, d) \in Nat
      BY FirstDayType, LastEndType
    <3>3. IsRange(<<DayStart(FirstDay(s, d)) + s.start, LastEnd(s, d)>>)
      BY <3>2, RangeOf
    <3>4. DayStart(FirstDay(s, d)) + s.start \in Nat /\ s.duration \in Nat
      BY <3>3, ScheduleFact DEF IsRange
    <3>5. QED
      BY <3>1, <3>2, <3>3, <3>4 DEF IsRange
  <2>3. QED
    BY <2>1, <2>2
<1>3. r[1] \in Nat /\ r[2] \in Nat
  BY <1>2 DEF IsRange
<1>4. QED
  BY <1>1, <1>3

LEMMA ValuesType ==
    ASSUME NEW v \in AllValues
    PROVE  v \in Schedule
<1>1. NoSched \in Schedule
  <2>1. /\ {} \in SUBSET (1 .. LastDay) /\ 0 \in 0 .. DayLen - 1
        /\ 0 \in 0 .. 2 * DayLen
    BY DayAssumption
  <2>2. <<>> \in UNION {[1 .. n -> {"start", "end", "within"}] : n \in 0 .. 2}
    <3>1. <<>> \in [1 .. 0 -> {"start", "end", "within"}]
      OBVIOUS
    <3>2. QED
      BY <3>1
  <2>3. QED
    BY <2>1, <2>2 DEF NoSched, Schedule
<1>2. QED
  BY <1>1, SchedAssumption DEF AllValues
-----------------------------------------------------------------------------
(* The list of the actions that are pending.                               *)

DistinctActs(q) == \A i, j \in 1 .. Len(q) : q[i].act = q[j].act => i = j
InOrder(q) == \A i, j \in 1 .. Len(q) : i < j => q[i].at <= q[j].at

LEMMA SeqEntry ==
    ASSUME NEW q \in Seq(Pended), NEW i \in 1 .. Len(q)
    PROVE  /\ q[i] \in Pended /\ q[i].at \in Nat /\ q[i].act \in Act
           /\ Len(q) \in Nat
<1>1. q[i] \in Pended
  OBVIOUS
<1>2. QED
  BY <1>1 DEF Pended

\* What picking the places I of a list gives.
LEMMA PickedFact ==
    ASSUME NEW q \in Seq(Pended), NEW I \in SUBSET (1 .. Len(q)),
           NEW r \in Picked(q, I)
    PROVE  /\ r \in Seq(Pended)
           /\ \A i \in 1 .. Len(r) : \E k \in I : r[i] = q[k]
           /\ \A k \in I : \E i \in 1 .. Len(r) : r[i] = q[k]
           /\ DistinctActs(q) => DistinctActs(r)
           /\ InOrder(q) => InOrder(r)
<1>1. Len(q) \in Nat /\ \A i \in 1 .. Len(q) : q[i] \in Pended
  OBVIOUS
<1>2. IsFiniteSet(1 .. Len(q))
  BY <1>1, FS_Interval
<1>3. Cardinality(I) \in Nat
  BY <1>2, FS_Subset, FS_CardinalityType
<1> DEFINE n == Cardinality(I)
<1>4. PICK f \in [1 .. n -> I] :
        /\ r = [i \in 1 .. n |-> q[f[i]]]
        /\ \A i, j \in 1 .. n : i < j => f[i] < f[j]
        /\ \A k \in I : \E i \in 1 .. n : f[i] = k
  BY DEF Picked
<1> HIDE DEF n
<1>5. n \in Nat /\ \A i \in 1 .. n : f[i] \in I /\ f[i] \in 1 .. Len(q)
  BY <1>3, <1>4 DEF n
<1>6. \A i \in 1 .. n : q[f[i]] \in Pended
  BY <1>1, <1>5
<1>7. r \in Seq(Pended) /\ Len(r) = n /\ \A i \in 1 .. n : r[i] = q[f[i]]
  BY <1>4, <1>5, <1>6
<1>8. \A i \in 1 .. Len(r) : \E k \in I : r[i] = q[k]
  BY <1>5, <1>7
<1>9. \A k \in I : \E i \in 1 .. Len(r) : r[i] = q[k]
  BY <1>4, <1>5, <1>7
<1>10. ASSUME DistinctActs(q), NEW i \in 1 .. n, NEW j \in 1 .. n,
              r[i].act = r[j].act
       PROVE  i = j
  <2>1. q[f[i]].act = q[f[j]].act
    BY <1>7, <1>10
  <2>2. f[i] \in 1 .. Len(q) /\ f[j] \in 1 .. Len(q)
    BY <1>5
  <2>3. f[i] = f[j]
    BY <1>10, <2>1, <2>2 DEF DistinctActs
  <2>4. f[i] \in Nat /\ f[j] \in Nat
    BY <1>1, <2>2
  <2>5. QED
    BY <1>4, <1>5, <2>3, <2>4
<1>11. ASSUME InOrder(q), NEW i \in 1 .. n, NEW j \in 1 .. n, i < j
       PROVE  r[i].at <= r[j].at
  <2>1. f[i] \in 1 .. Len(q) /\ f[j] \in 1 .. Len(q) /\ f[i] < f[j]
    BY <1>4, <1>5, <1>11
  <2>2. QED
    BY <1>7, <1>11, <2>1 DEF InOrder
<1>12. QED
  BY <1>7, <1>8, <1>9, <1>10, <1>11 DEF DistinctActs, InOrder

\* What becomes of the list: r holds what was due and what else was pending.
IsPended(pend, acts, r) ==
    /\ r \in Seq(Pended) /\ DistinctActs(r) /\ InOrder(r)
    /\ \A i \in 1 .. Len(r) :
          \/ \E k \in 1 .. Len(pend) : r[i] = pend[k]
          \/ \E k \in 1 .. Len(acts) : r[i] = acts[k]
    /\ \A k \in 1 .. Len(acts) : \E i \in 1 .. Len(r) : r[i] = acts[k]
    /\ \A k \in 1 .. Len(pend) : \E i \in 1 .. Len(r) :
          r[i].act = pend[k].act /\ r[i].at >= pend[k].at

LEMMA PendFact ==
    ASSUME NEW pend \in Seq(Pended), NEW acts \in Seq(Pended),
           NEW r \in Pend(pend, acts), DistinctActs(pend), DistinctActs(acts),
           InOrder(pend), InOrder(acts),
           \A i \in 1 .. Len(pend) : \A j \in 1 .. Len(acts) :
               pend[i].at <= acts[j].at
    PROVE  IsPended(pend, acts, r)
<1> DEFINE I == Without(pend, acts)
<1>1. I \subseteq 1 .. Len(pend)
  BY DEF Without
<1>2. PICK kept \in Picked(pend, I) : r = kept \o acts
  BY DEF Pend
<1>3. \A k \in 1 .. Len(pend) : k \in I <=>
          \A j \in 1 .. Len(acts) : pend[k].act # acts[j].act
  BY DEF Without
<1> HIDE DEF I
<1>4. /\ kept \in Seq(Pended) /\ DistinctActs(kept) /\ InOrder(kept)
      /\ \A i \in 1 .. Len(kept) : \E k \in I : kept[i] = pend[k]
      /\ \A k \in I : \E i \in 1 .. Len(kept) : kept[i] = pend[k]
  BY <1>1, PickedFact
<1>5. Len(kept) \in Nat /\ Len(acts) \in Nat /\ Len(r) = Len(kept) + Len(acts)
      /\ r \in Seq(Pended)
  BY <1>2, <1>4
<1>6. /\ \A i \in 1 .. Len(kept) : i \in 1 .. Len(r) /\ r[i] = kept[i]
      /\ \A i \in 1 .. Len(r) : i \notin 1 .. Len(kept) =>
            i - Len(kept) \in 1 .. Len(acts) /\ r[i] = acts[i - Len(kept)]
      /\ \A i \in 1 .. Len(acts) :
            i + Len(kept) \in 1 .. Len(r) /\ r[i + Len(kept)] = acts[i]
  <2>1. \A i \in 1 .. Len(kept) : i \in 1 .. Len(r) /\ r[i] = kept[i]
    BY <1>2, <1>4, <1>5
  <2>2. \A i \in 1 .. Len(r) : i \notin 1 .. Len(kept) =>
            i - Len(kept) \in 1 .. Len(acts) /\ r[i] = acts[i - Len(kept)]
    BY <1>2, <1>4, <1>5
  <2>3. \A i \in 1 .. Len(acts) :
            i + Len(kept) \in 1 .. Len(r) /\ r[i + Len(kept)] = acts[i]
    <3>1. ASSUME NEW i \in 1 .. Len(acts)
          PROVE  i + Len(kept) \in 1 .. Len(r) /\ r[i + Len(kept)] = acts[i]
      <4>1. i + Len(kept) \in 1 .. Len(r) /\ i + Len(kept) \notin 1 .. Len(kept)
            /\ (i + Len(kept)) - Len(kept) = i
        BY <1>5
      <4>2. QED
        BY <2>2, <4>1
    <3>2. QED
      BY <3>1
  <2>4. QED
    BY <2>1, <2>2, <2>3
<1>7. \A i \in 1 .. Len(r) :
          (\E k \in I : r[i] = pend[k]) \/ \E k \in 1 .. Len(acts) : r[i] = acts[k]
  BY <1>4, <1>6
<1>8. \A k \in 1 .. Len(acts) : \E i \in 1 .. Len(r) : r[i] = acts[k]
  BY <1>6
<1>9. \A i \in 1 .. Len(kept) : \A j \in 1 .. Len(acts) :
          kept[i].act # acts[j].act /\ kept[i].at <= acts[j].at
  <2>1. ASSUME NEW i \in 1 .. Len(kept), NEW j \in 1 .. Len(acts)
        PROVE  kept[i].act # acts[j].act /\ kept[i].at <= acts[j].at
    <3>1. PICK k \in I : kept[i] = pend[k]
      BY <1>4
    <3>2. k \in 1 .. Len(pend) /\ pend[k].act # acts[j].act
      BY <1>1, <1>3, <3>1
    <3>3. QED
      BY <3>1, <3>2
  <2>2. QED
    BY <2>1
<1>10. DistinctActs(r)
  <2>1. ASSUME NEW i \in 1 .. Len(r), NEW j \in 1 .. Len(r), r[i].act = r[j].act
        PROVE  i = j
    <3>1. CASE i \in 1 .. Len(kept) /\ j \in 1 .. Len(kept)
      BY <1>4, <1>6, <2>1, <3>1 DEF DistinctActs
    <3>2. CASE i \in 1 .. Len(kept) /\ j \notin 1 .. Len(kept)
      <4>1. j - Len(kept) \in 1 .. Len(acts) /\ r[j] = acts[j - Len(kept)]
            /\ r[i] = kept[i]
        BY <1>6, <3>2
      <4>2. r[i].act # r[j].act
        BY <1>9, <3>2, <4>1
      <4>3. QED
        BY <2>1, <4>2
    <3>3. CASE i \notin 1 .. Len(kept) /\ j \in 1 .. Len(kept)
      <4>1. i - Len(kept) \in 1 .. Len(acts) /\ r[i] = acts[i - Len(kept)]
            /\ r[j] = kept[j]
        BY <1>6, <3>3
      <4>2. r[i].act # r[j].act
        BY <1>9, <3>3, <4>1
      <4>3. QED
        BY <2>1, <4>2
    <3>4. CASE i \notin 1 .. Len(kept) /\ j \notin 1 .. Len(kept)
      <4>1. /\ i - Len(kept) \in 1 .. Len(acts) /\ j - Len(kept) \in 1 .. Len(acts)
            /\ acts[i - Len(kept)].act = acts[j - Len(kept)].act
        BY <1>6, <2>1, <3>4
      <4>2. i - Len(kept) = j - Len(kept)
        BY <4>1 DEF DistinctActs
      <4>3. QED
        BY <1>5, <4>2
    <3>5. QED
      BY <3>1, <3>2, <3>3, <3>4
  <2>2. QED
    BY <2>1 DEF DistinctActs
<1>11. InOrder(r)
  <2>1. ASSUME NEW i \in 1 .. Len(r), NEW j \in 1 .. Len(r), i < j
        PROVE  r[i].at <= r[j].at
    <3>1. CASE i \in 1 .. Len(kept) /\ j \in 1 .. Len(kept)
      BY <1>4, <1>6, <2>1, <3>1 DEF InOrder
    <3>2. CASE i \in 1 .. Len(kept) /\ j \notin 1 .. Len(kept)
      BY <1>6, <1>9, <3>2
    <3>3. CASE i \notin 1 .. Len(kept) /\ j \in 1 .. Len(kept)
      BY <1>5, <2>1, <3>3
    <3>4. CASE i \notin 1 .. Len(kept) /\ j \notin 1 .. Len(kept)
      <4>1. /\ i - Len(kept) \in 1 .. Len(acts) /\ j - Len(kept) \in 1 .. Len(acts)
            /\ r[i] = acts[i - Len(kept)] /\ r[j] = acts[j - Len(kept)]
        BY <1>6, <3>4
      <4>2. i - Len(kept) < j - Len(kept)
        BY <1>5, <2>1
      <4>3. QED
        BY <4>1, <4>2 DEF InOrder
    <3>5. QED
      BY <3>1, <3>2, <3>3, <3>4
  <2>2. QED
    BY <2>1 DEF InOrder
<1>12. ASSUME NEW k \in 1 .. Len(pend)
       PROVE  \E i \in 1 .. Len(r) : r[i].act = pend[k].act /\ r[i].at >= pend[k].at
  <2>1. pend[k] \in Pended /\ pend[k].at \in Nat
    <3>1. pend[k] \in Pended
      BY SeqEntry
    <3>2. QED
      BY <3>1 DEF Pended
  <2>2. CASE k \in I
    <3>1. PICK i \in 1 .. Len(kept) : kept[i] = pend[k]
      BY <1>4, <2>2
    <3>2. i \in 1 .. Len(r) /\ r[i] = pend[k]
      BY <1>6, <3>1
    <3>3. QED
      BY <2>1, <3>2
  <2>3. CASE k \notin I
    <3>1. PICK j \in 1 .. Len(acts) : pend[k].act = acts[j].act
      BY <1>3, <2>3
    <3>2. PICK i \in 1 .. Len(r) : r[i] = acts[j]
      BY <1>8
    <3>3. acts[j].at \in Nat
      <4>1. acts[j] \in Pended
        BY SeqEntry
      <4>2. QED
        BY <4>1 DEF Pended
    <3>4. QED
      BY <2>1, <3>1, <3>2, <3>3
  <2>4. QED
    BY <2>2, <2>3
<1>13. QED
  BY <1>1, <1>5, <1>7, <1>8, <1>10, <1>11, <1>12 DEF IsPended

LEMMA DueFact ==
    ASSUME NEW s \in Slot, NEW v \in AllValues, NEW t \in 0 .. MaxTime,
           NEW acts \in DueActs[s][v][t]
    PROVE  /\ acts \in Seq(Pended) /\ DistinctActs(acts) /\ InOrder(acts)
           /\ \A i \in 1 .. Len(acts) :
                 \E j \in Due(v, t) : acts[i] = [act |-> <<s, j>>, at |-> t]
           /\ \A j \in Due(v, t) :
                 \E i \in 1 .. Len(acts) : acts[i] = [act |-> <<s, j>>, at |-> t]
           /\ Due(v, t) \subseteq 1 .. Len(v.acts) /\ Len(v.acts) \in 0 .. 2
<1> DEFINE q == [j \in 1 .. Len(v.acts) |-> [act |-> <<s, j>>, at |-> t]]
<1>1. v \in Schedule
  BY ValuesType
<1>2. Len(v.acts) \in 0 .. 2
  BY <1>1, ScheduleFact
<1>3. MaxTime \in Nat /\ t \in Nat
  <2>1. MaxTime \in Nat
    BY SchedAssumption
  <2>2. QED
    BY <2>1
<1>4. \A j \in 1 .. Len(v.acts) : [act |-> <<s, j>>, at |-> t] \in Pended
  <2>1. ASSUME NEW j \in 1 .. Len(v.acts)
        PROVE  [act |-> <<s, j>>, at |-> t] \in Pended
    <3>1. j \in 1 .. 2
      <4> DEFINE n == Len(v.acts)
      <4>1. n \in 0 .. 2 /\ j \in 1 .. n
        BY <1>2
      <4> HIDE DEF n
      <4>2. QED
        BY <4>1
    <3>2. <<s, j>> \in Act
      BY <3>1 DEF Act
    <3>3. QED
      BY <1>3, <3>2 DEF Pended
  <2>2. QED
    BY <2>1
<1>5. q \in Seq(Pended) /\ Len(q) = Len(v.acts)
      /\ \A j \in 1 .. Len(q) : q[j] = [act |-> <<s, j>>, at |-> t]
  BY <1>2, <1>4
<1>6. Due(v, t) \subseteq 1 .. Len(v.acts)
  BY DEF Due, DueIn
<1>7. acts \in Picked(q, Due(v, t))
  BY DEF DueActs
<1> HIDE DEF q
<1>5a. \A j \in 1 .. Len(q) : q[j].act = <<s, j>> /\ q[j].at = t
  <2>1. ASSUME NEW j \in 1 .. Len(q) PROVE q[j].act = <<s, j>> /\ q[j].at = t
    <3>1. q[j] = [act |-> <<s, j>>, at |-> t]
      BY <1>5
    <3>2. QED
      BY <3>1
  <2>2. QED
    BY <2>1
<1>8. DistinctActs(q)
  <2>1. ASSUME NEW i \in 1 .. Len(q), NEW j \in 1 .. Len(q), q[i].act = q[j].act
        PROVE  i = j
    <3>1. <<s, i>> = <<s, j>>
      BY <1>5a, <2>1
    <3>2. QED
      BY <3>1
  <2>2. QED
    BY <2>1 DEF DistinctActs
<1>9. InOrder(q)
  BY <1>3, <1>5a DEF InOrder
<1>10. Due(v, t) \in SUBSET (1 .. Len(q))
  BY <1>5, <1>6
<1>11. /\ acts \in Seq(Pended) /\ DistinctActs(acts) /\ InOrder(acts)
       /\ \A i \in 1 .. Len(acts) : \E k \in Due(v, t) : acts[i] = q[k]
       /\ \A k \in Due(v, t) : \E i \in 1 .. Len(acts) : acts[i] = q[k]
  BY <1>5, <1>7, <1>8, <1>9, <1>10, PickedFact
<1>12. \A k \in Due(v, t) : q[k] = [act |-> <<s, k>>, at |-> t]
  BY <1>5, <1>6
<1>13. \A i \in 1 .. Len(acts) :
           \E j \in Due(v, t) : acts[i] = [act |-> <<s, j>>, at |-> t]
  <2>1. ASSUME NEW i \in 1 .. Len(acts)
        PROVE  \E j \in Due(v, t) : acts[i] = [act |-> <<s, j>>, at |-> t]
    <3>1. PICK k \in Due(v, t) : acts[i] = q[k]
      BY <1>11
    <3>2. QED
      BY <1>12, <3>1
  <2>2. QED
    BY <2>1
<1>14. \A j \in Due(v, t) :
           \E i \in 1 .. Len(acts) : acts[i] = [act |-> <<s, j>>, at |-> t]
  <2>1. ASSUME NEW j \in Due(v, t)
        PROVE  \E i \in 1 .. Len(acts) : acts[i] = [act |-> <<s, j>>, at |-> t]
    <3>1. PICK i \in 1 .. Len(acts) : acts[i] = q[j]
      BY <1>11
    <3>2. QED
      BY <1>12, <3>1
  <2>2. QED
    BY <2>1
<1>15. QED
  BY <1>2, <1>6, <1>11, <1>13, <1>14
-----------------------------------------------------------------------------
(* What holds between the steps of the program.                            *)

\* What the timer, the run and the flash have to do with each other.
Base ==
    /\ SchedTypeOK /\ Kept
    /\ phase = "idle" => actions = <<>> /\ earliest = Off
    /\ phase # "idle" => MayRun /\ timer = Off /\ stored = val /\ run_time <= utc
    /\ ~enabled => timer = Off
    /\ ~MayRun => bb_run_time = 0

\* No run starts after the first second that has not been run.
Fresh ==
    bb_run_time # 0 => /\ bb_run_time >= DayLen
                       /\ \A s \in Slot : bb_run_time <= since[s] + 1
Times ==
    /\ phase # "idle" => DayLen <= run_time /\ From <= run_time
    /\ earliest # Off => run_time < earliest

\* What is pending was due in this run, at the time that it has.
OfRun(a) ==
    /\ From <= a.at /\ a.at <= run_time
    /\ Starts(a.act) => <<a.act[2], a.at>> \in Events(val[a.act[1]])

Listed ==
    /\ DistinctActs(actions) /\ InOrder(actions)
    /\ \A k \in 1 .. Len(actions) : OfRun(actions[k])

\* The schedules that have been looked at since run_time was set.
Seen(s) ==
    \/ phase = "looked"
    \/ start <= cur /\ start <= s /\ s < cur
    \/ cur < start /\ (start <= s \/ s < cur)

IsListed(q, s, e) ==
    \E k \in 1 .. Len(q) : q[k].act = <<s, e[1]>> /\ q[k].at >= e[2]

\* The events that the run has come to are pending, or a later one of the action.
Passed(s, e) ==
    /\ phase # "idle" /\ From <= e[2]
    /\ e[2] < run_time \/ (e[2] = run_time /\ Seen(s))
Covered ==
    \A s \in Slot : \A e \in Events(val[s]) : Passed(s, e) => IsListed(actions, s, e)

\* Those it has not come to are not before the earliest one.
Ahead ==
    \A s \in Slot : phase # "idle" /\ Seen(s) =>
        \A e \in Events(val[s]) : e[2] > run_time =>
            earliest # Off /\ earliest <= e[2]

\* The timer that a run sets does not expire before the second after it.
NewFrom(t) ==
    /\ bb_run_time # 0 /\ bb_run_time <= t
    /\ \A s \in Slot : bb_run_time = since[s] + 1
TimerIsNew ==
    /\ phase = "idle" /\ cause = "event" /\ timer # Off => NewFrom(utc + timer)
    /\ phase # "idle" /\ cause = "event" => NewFrom(utc)

RunInv ==
    /\ Fresh /\ Times /\ Listed /\ Covered /\ Ahead
    /\ TimerIsNew /\ Armed

\* The constants, and the numbers among the variables.
LEMMA Numbers ==
    /\ DayLen \in Nat /\ 1 <= DayLen /\ MaxTime \in Nat /\ DayLen <= MaxTime
    /\ N \in Nat /\ 1 <= N /\ 0 \in Slot /\ Slot \subseteq Nat
    /\ TimerWrap \in Nat \ {0} /\ TimerWrap \div 2 \in Nat
    /\ ClockTimes \subseteq DayLen .. MaxTime
    /\ NoSched \in AllValues
    /\ \A s \in Slot : Values[s] \subseteq AllValues
<1>1. /\ DayLen \in Nat /\ 1 <= DayLen /\ MaxTime \in Nat /\ DayLen <= MaxTime
      /\ N \in Nat /\ 1 <= N /\ TimerWrap \in Nat \ {0}
      /\ ClockTimes \subseteq DayLen .. MaxTime
  BY DayAssumption, SchedAssumption
<1>2. TimerWrap \div 2 \in Nat
  BY <1>1
<1>3. 0 \in Slot /\ Slot \subseteq Nat
  BY <1>1 DEF Slot
<1>4. NoSched \in AllValues /\ \A s \in Slot : Values[s] \subseteq AllValues
  BY DEF AllValues
<1>5. QED
  BY <1>1, <1>2, <1>3, <1>4

LEMMA DelayFact ==
    ASSUME NEW x \in Nat
    PROVE  /\ Delay(x) \in 0 .. TimerWrap \div 2
           /\ Delay(x) <= x
<1>1. TimerWrap \in Nat \ {0} /\ TimerWrap \div 2 \in Nat
  BY Numbers
<1>2. x % TimerWrap \in Nat /\ x % TimerWrap <= x
  BY <1>1
<1>3. QED
  BY <1>1, <1>2 DEF Delay

LEMMA NextTimeFact ==
    ASSUME NEW v \in AllValues, NEW t \in 0 .. MaxTime
    PROVE  NextTime[v][t] = NextEvent(v, t) /\ NextTime[v][t] \in Nat
<1>1. NextTime[v][t] = NextEvent(v, t)
  BY DEF NextTime
<1>2. t \in Int
  BY Numbers
<1>3. QED
  BY <1>1, <1>2, ValuesType, NextEventType

\* What is pending stays a list of actions, whatever is pended.
LEMMA PendType ==
    ASSUME NEW pend \in Seq(Pended), NEW acts \in Seq(Pended),
           NEW r \in Pend(pend, acts)
    PROVE  r \in Seq(Pended)
<1>1. Without(pend, acts) \in SUBSET (1 .. Len(pend))
  BY DEF Without
<1>2. PICK kept \in Picked(pend, Without(pend, acts)) : r = kept \o acts
  BY DEF Pend
<1>3. kept \in Seq(Pended)
  BY <1>1, PickedFact
<1>4. QED
  BY <1>2, <1>3

LEMMA SinceMoved ==
    ASSUME SchedTypeOK, NEW t \in DayLen .. MaxTime
    PROVE  /\ [s \in Slot |-> t] \in [Slot -> 0 .. MaxTime]
           /\ [s \in Slot |-> t - 1] \in [Slot -> 0 .. MaxTime]
<1>1. t \in 0 .. MaxTime /\ t - 1 \in 0 .. MaxTime
  BY Numbers
<1>2. QED
  BY <1>1

-----------------------------------------------------------------------------
(* The types, and what does not depend on what a schedule means.           *)

LEMMA BaseInit == Init => Base
<1> SUFFICES ASSUME Init PROVE Base
  OBVIOUS
<1>1. SchedTypeOK
  BY Numbers DEF Init, SchedTypeOK, Off
<1>2. QED
  BY <1>1 DEF Init, Base, Kept, MayRun

LEMMA TimeoutBase ==
    ASSUME Base, Timeout
    PROVE  Base'
<1>1. SchedTypeOK /\ SchedTypeOK'
  <2>1. SchedTypeOK
    BY DEF Base
  <2>2. stored' \in [Slot -> AllValues] /\ save_needed' \in BOOLEAN
    BY <2>1 DEF Timeout, Save, SchedTypeOK
  <2>3. run_time' \in 0 .. MaxTime + 1 /\ next_fire' \in Slot /\ start' \in Slot
        /\ cur' \in Slot /\ phase' \in {"idle", "look", "looked"}
    <3>1. From \in 0 .. MaxTime + 1
      BY <2>1, Numbers DEF From, SchedTypeOK
    <3>2. CASE MayRun
      BY <2>1, <3>1, <3>2, Numbers DEF Timeout, StartRun, SchedTypeOK
    <3>3. CASE ~MayRun
      BY <2>1, <3>3 DEF Timeout, SchedTypeOK
    <3>4. QED
      BY <3>2, <3>3
  <2>4. QED
    BY <2>1, <2>2, <2>3 DEF Timeout, SchedTypeOK
<1>2. stored' = val' /\ timer' = Off /\ MayRun' = MayRun
  BY DEF Timeout, Save, Base, Kept, MayRun
<1>3. From <= utc
  BY <1>1, Numbers DEF SchedTypeOK, From, Trusted
<1>4. CASE MayRun
  BY <1>1, <1>2, <1>3, <1>4 DEF Timeout, StartRun, Base, Kept
<1>5. CASE ~MayRun
  BY <1>1, <1>2, <1>5 DEF Timeout, Base, Kept
<1>6. QED
  BY <1>4, <1>5

LEMMA LookBase ==
    ASSUME Base, Look
    PROVE  Base'
<1>1. SchedTypeOK /\ phase # "idle" /\ run_time <= utc
  BY DEF Base, Look
<1>2. /\ val[cur] \in AllValues /\ cur \in Slot /\ run_time \in 0 .. MaxTime
      /\ actions \in Seq(Pended)
  BY <1>1, Numbers DEF SchedTypeOK
<1>3. actions' \in Seq(Pended)
  <2>1. PICK acts \in DueActs[cur][val[cur]][run_time] : actions' \in Pend(actions, acts)
    BY DEF Look
  <2>2. acts \in Seq(Pended)
    BY <1>2, <2>1, DueFact
  <2>3. QED
    BY <1>2, <2>1, <2>2, PendType
<1>4. earliest' \in {Off} \cup Nat /\ next_fire' \in Slot
  <2>1. NextTime[val[cur]][run_time] \in Nat
    BY <1>2, NextTimeFact
  <2>2. QED
    BY <1>1, <1>2, <2>1 DEF Look, SchedTypeOK
<1>5. cur' \in Slot /\ phase' \in {"look", "looked"}
  BY <1>2, Numbers DEF Look, Slot
<1>6. SchedTypeOK'
  BY <1>1, <1>3, <1>4, <1>5 DEF SchedTypeOK, Look, confVars
<1>7. QED
  BY <1>1, <1>5, <1>6 DEF Base, Kept, MayRun, Look, confVars

LEMMA AgainBase ==
    ASSUME Base, Again
    PROVE  Base'
<1>1. SchedTypeOK /\ phase # "idle"
  BY DEF Base, Again
<1>2. run_time' \in 0 .. MaxTime + 1 /\ run_time' <= utc
  BY <1>1, Numbers DEF Again, SchedTypeOK, Off
<1>3. SchedTypeOK'
  BY <1>1, <1>2 DEF SchedTypeOK, Again, confVars
<1>4. QED
  BY <1>1, <1>2, <1>3 DEF Base, Kept, MayRun, Again, confVars

LEMMA FinishBase ==
    ASSUME Base, Finish
    PROVE  Base'
<1>1. SchedTypeOK /\ phase # "idle" /\ MayRun /\ stored = val
  BY DEF Base, Finish
<1>2. utc \in Nat /\ utc + 1 \in 0 .. MaxTime + 1 /\ (earliest # Off => earliest \in Nat)
  BY <1>1, Numbers DEF SchedTypeOK
<1>3. timer' \in {Off} \cup 0 .. TimerWrap \div 2
  <2>1. CASE earliest = Off
    BY <2>1 DEF Finish
  <2>2. CASE earliest # Off
    <3>1. earliest - utc \in Nat
      BY <1>2, <2>2 DEF Finish
    <3>2. QED
      BY <2>2, <3>1, DelayFact DEF Finish
  <2>3. QED
    BY <2>1, <2>2
<1>4. run_time' \in 0 .. MaxTime + 1 /\ bb_run_time' = run_time'
  BY <1>1, <1>2 DEF Finish, Resume, SchedTypeOK
<1>5. since' \in [Slot -> 0 .. MaxTime]
  <2>1. utc \in DayLen .. MaxTime
    BY <1>1 DEF SchedTypeOK
  <2>2. QED
    BY <1>1, <2>1, SinceMoved DEF Finish
<1>6. actions' = <<>> /\ actions' \in Seq(Pended) /\ earliest' = Off
      /\ phase' = "idle" /\ start' \in Slot /\ cur' \in Slot
  BY Numbers DEF Finish, EndRun
<1>7. cause' \in {"event", "set", "poke"}
  BY DEF Finish
<1>8. SchedTypeOK'
  BY <1>1, <1>3, <1>4, <1>5, <1>6, <1>7 DEF SchedTypeOK, Finish, confVars
<1>9. QED
  BY <1>1, <1>6, <1>8 DEF Base, Kept, MayRun, Finish, confVars

LEMMA EnableBase ==
    ASSUME Base, Enable
    PROVE  Base'
<1>1. SchedTypeOK /\ utc \in DayLen .. MaxTime
  BY DEF Base, SchedTypeOK
<1>2. since' \in [Slot -> 0 .. MaxTime]
  BY <1>1, SinceMoved DEF Enable
<1>3. timer' = 0 /\ 0 \in 0 .. TimerWrap \div 2 /\ cause' \in {"event", "set", "poke"}
  BY <1>1, Numbers DEF Enable, TimeUpdate, SchedTypeOK
<1>4. SchedTypeOK'
  BY <1>1, <1>2, <1>3 DEF Enable, SchedTypeOK, loopVars
<1>5. QED
  BY <1>3, <1>4 DEF Base, Kept, MayRun, Enable, loopVars

LEMMA RecvBase ==
    ASSUME Base, Recv
    PROVE  Base'
<1>1. SchedTypeOK /\ utc \in DayLen .. MaxTime
  BY DEF Base, SchedTypeOK
<1>2. PICK s \in Slot : \E v \in Values[s] :
          /\ val' = [val EXCEPT ![s] = v]
          /\ since' = [since EXCEPT ![s] = IF @ < utc THEN utc - 1 ELSE @]
  BY DEF Recv
<1>3. val' \in [Slot -> AllValues]
  BY <1>1, <1>2, Numbers DEF SchedTypeOK
<1>4. since' \in [Slot -> 0 .. MaxTime]
  <2>1. utc - 1 \in 0 .. MaxTime
    BY <1>1, Numbers
  <2>2. QED
    BY <1>1, <1>2, <2>1 DEF SchedTypeOK
<1>5. timer' = 0 /\ 0 \in 0 .. TimerWrap \div 2 /\ cause' \in {"event", "set", "poke"}
      /\ save_needed' = TRUE
  BY <1>1, Numbers DEF Recv, TimeUpdate, SchedTypeOK
<1>6. UNCHANGED <<utc, clock_set, enabled, stored, bb_run_time, next_fire, loopVars>>
      /\ phase = "idle" /\ enabled
  BY DEF Recv
<1>7. SchedTypeOK'
  BY <1>1, <1>3, <1>4, <1>5, <1>6 DEF SchedTypeOK, loopVars
<1>8. QED
  BY <1>5, <1>6, <1>7 DEF Base, Kept, MayRun, loopVars

LEMMA ClockSetBase ==
    ASSUME Base, ClockSet
    PROVE  Base'
<1>1. SchedTypeOK
  BY DEF Base
<1>2. utc' \in DayLen .. MaxTime /\ clock_set' = TRUE
  BY Numbers DEF ClockSet
<1>3. since' \in [Slot -> 0 .. MaxTime]
  <2>1. PICK t \in DayLen .. MaxTime :
            since' = IF clock_set THEN since ELSE [s \in Slot |-> t - 1]
    BY Numbers DEF ClockSet
  <2>2. QED
    BY <1>1, <2>1, SinceMoved DEF SchedTypeOK
<1>4. /\ enabled => timer' = 0
      /\ ~enabled => timer' = timer
      /\ timer' \in {Off} \cup 0 .. TimerWrap \div 2
      /\ cause' \in {"event", "set", "poke"}
  <2>1. 0 \in 0 .. TimerWrap \div 2
    BY Numbers
  <2>2. CASE enabled
    BY <1>1, <2>1, <2>2 DEF ClockSet, TimeUpdate, SchedTypeOK
  <2>3. CASE ~enabled
    BY <1>1, <2>3 DEF ClockSet, SchedTypeOK
  <2>4. QED
    BY <2>2, <2>3
<1>5. UNCHANGED <<enabled, val, stored, save_needed, bb_run_time, next_fire, loopVars>>
      /\ phase = "idle"
  BY DEF ClockSet
<1>6. SchedTypeOK'
  BY <1>1, <1>2, <1>3, <1>4, <1>5 DEF SchedTypeOK, loopVars
<1>7. QED
  BY <1>1, <1>2, <1>4, <1>5, <1>6 DEF Base, Kept, MayRun, loopVars, SchedTypeOK

LEMMA TickBase ==
    ASSUME Base, Tick
    PROVE  Base'
<1>1. SchedTypeOK
  BY DEF Base
<1>2. utc' \in DayLen .. MaxTime
  <2>1. utc \in DayLen .. MaxTime /\ utc < MaxTime /\ utc' = utc + 1
    BY <1>1 DEF Tick, SchedTypeOK
  <2>2. DayLen \in Nat /\ MaxTime \in Nat
    BY Numbers
  <2>3. QED
    BY <2>1, <2>2
<1>3. /\ timer' \in {Off} \cup 0 .. TimerWrap \div 2
      /\ timer = 0 => timer' = 0
      /\ timer = Off => timer' = Off
  BY <1>1, Numbers DEF Tick, SchedTypeOK, Off
<1>4. SchedTypeOK'
  BY <1>1, <1>2, <1>3 DEF Tick, SchedTypeOK, confVars, loopVars
<1>5. QED
  BY <1>3, <1>4 DEF Base, Kept, MayRun, Tick, confVars, loopVars

LEMMA RestartBase ==
    ASSUME Base, Restart
    PROVE  Base'
<1>1. SchedTypeOK /\ utc \in DayLen .. MaxTime
  BY DEF Base, SchedTypeOK
<1>2. since' \in [Slot -> 0 .. MaxTime]
  BY <1>1, SinceMoved DEF Restart
<1>3. SchedTypeOK'
  <2>1. bb_run_time' \in 0 .. MaxTime + 1 /\ run_time' \in 0 .. MaxTime + 1
        /\ next_fire' \in Slot /\ start' \in Slot /\ cur' \in Slot
        /\ <<>> \in Seq(Pended)
    BY Numbers DEF Restart, EndRun
  <2>2. QED
    BY <1>1, <1>2, <2>1 DEF Restart, EndRun, SchedTypeOK
<1>4. QED
  BY <1>3 DEF Base, Kept, MayRun, Restart, EndRun

LEMMA BaseStep ==
    ASSUME Base, [Next]_vars
    PROVE  Base'
<1>1. CASE UNCHANGED vars
  BY <1>1 DEF vars, confVars, loopVars, Base, SchedTypeOK, Kept, MayRun
<1>2. QED
  BY <1>1, TimeoutBase, LookBase, AgainBase, FinishBase, EnableBase, RecvBase,
     ClockSetBase, TickBase, RestartBase DEF Next

LEMMA BaseHolds == Spec => []Base
<1>1. QED
  BY BaseInit, BaseStep, PTL DEF Spec

(* The variables of the schedules keep their types; in particular          *)
(* sched_run_all() evaluates no schedule at a time after the present, and  *)
(* its timer is never set further ahead than timer_set() can tell from a   *)
(* time that has passed.                                                   *)
THEOREM SchedTypeCorrect == Spec => []SchedTypeOK
<1>1. Base => SchedTypeOK
  BY DEF Base
<1>2. QED
  BY <1>1, BaseHolds, PTL

(* A schedule that was received is in flash, or is about to be saved: no   *)
(* run, setting of the clock or restart comes between sched_prop_recv()    *)
(* and the timeout that persists it without one of the two holding.        *)
THEOREM KeptHolds == Spec => []Kept
<1>1. Base => Kept
  BY DEF Base
<1>2. QED
  BY <1>1, BaseHolds, PTL
-----------------------------------------------------------------------------
(* What depends on it: runs, where sched_evaluate() is right.              *)

LEMMA EventFact ==
    ASSUME SchedTypeOK, NEW s \in Slot, NEW e \in Events(val[s])
    PROVE  e[2] \in Nat /\ e[1] \in 1 .. 2
<1>1. val[s] \in AllValues
  BY DEF SchedTypeOK
<1>2. val[s] \in Schedule
  BY <1>1, ValuesType
<1> DEFINE v == val[s]
<1>3. e[1] \in 1 .. Len(v.acts) /\ e[2] \in Nat
  BY <1>2, EventsType
<1>4. Len(v.acts) \in 0 .. 2
  BY <1>2, ScheduleFact
<1> DEFINE n == Len(v.acts)
           i == e[1]
<1>5. i \in 1 .. n /\ n \in 0 .. 2
  BY <1>3, <1>4
<1> HIDE DEF n, i
<1>6. i \in 1 .. 2
  BY <1>5
<1>7. QED
  BY <1>3, <1>6 DEF i

LEMMA EventsOfFact ==
    ASSUME SchedTypeOK, NEW s \in Slot
    PROVE  EventsOf[val[s]] = Events(val[s])
BY DEF EventsOf, SchedTypeOK

\* The numbers of a run, and what sched_evaluate() is right about in it.
LEMMA RunNumbers ==
    ASSUME Base
    PROVE  /\ utc \in Nat /\ DayLen <= utc /\ utc <= MaxTime /\ run_time \in Nat
           /\ bb_run_time \in Nat /\ From \in Nat /\ From <= utc
           /\ earliest = Off \/ earliest \in Nat
           /\ timer = Off \/ timer \in Nat
           /\ actions \in Seq(Pended) /\ SchedTypeOK
           /\ \A s \in Slot : val[s] \in AllValues /\ since[s] \in Nat
           /\ \A n \in Nat : n # Off
           /\ start \in Nat /\ cur \in Nat /\ start \in Slot /\ cur \in Slot
           /\ DayLen \in Nat /\ 1 <= DayLen /\ MaxTime \in Nat
<1>1. SchedTypeOK
  BY DEF Base
<1>2. From \in Nat /\ From <= utc
  BY <1>1, Numbers DEF From, Trusted, SchedTypeOK
<1>3. \A n \in Nat : n # Off
  BY DEF Off
<1>4. /\ DayLen \in Nat /\ 1 <= DayLen /\ MaxTime \in Nat /\ Slot \subseteq Nat
      /\ TimerWrap \div 2 \in Nat
  BY Numbers
<1>5. /\ utc \in DayLen .. MaxTime /\ run_time \in 0 .. MaxTime + 1
      /\ bb_run_time \in 0 .. MaxTime + 1 /\ earliest \in {Off} \cup Nat
      /\ timer \in {Off} \cup 0 .. TimerWrap \div 2 /\ actions \in Seq(Pended)
      /\ start \in Slot /\ cur \in Slot
  BY <1>1 DEF SchedTypeOK
<1>6. \A s \in Slot : val[s] \in AllValues /\ since[s] \in 0 .. MaxTime
  BY <1>1 DEF SchedTypeOK
<1>7. \A s \in Slot : val[s] \in AllValues /\ since[s] \in Nat
  BY <1>4, <1>6
<1>8. timer = Off \/ timer \in Nat
  BY <1>4, <1>5
<1>9. /\ utc \in Nat /\ DayLen <= utc /\ utc <= MaxTime /\ run_time \in Nat
      /\ bb_run_time \in Nat /\ start \in Nat /\ cur \in Nat
  BY <1>4, <1>5
<1>10. QED
  BY <1>1, <1>2, <1>3, <1>4, <1>5, <1>7, <1>8, <1>9

LEMMA IdleInv ==
    ASSUME phase' = "idle", actions' = <<>>, earliest' = Off,
           Fresh', TimerIsNew', Armed'
    PROVE  RunInv'
<1>1. Len(actions') = 0
  OBVIOUS
<1>2. Listed'
  BY <1>1 DEF Listed, DistinctActs, InOrder
<1>3. Times' /\ Covered' /\ Ahead'
  BY DEF Times, Covered, Passed, Ahead
<1>4. QED
  BY <1>2, <1>3 DEF RunInv

\* The timer that is to expire at once for another reason than an event.
LEMMA PokeInv ==
    ASSUME phase' = "idle", timer' = 0, cause' # "event"
    PROVE  TimerIsNew' /\ Armed'
BY DEF TimerIsNew, Armed

LEMMA NoTimerInv ==
    ASSUME phase' = "idle", timer' = Off, ~MayRun'
    PROVE  TimerIsNew' /\ Armed'
BY DEF TimerIsNew, Armed

LEMMA RunInvInit == Init => RunInv
<1> SUFFICES ASSUME Init PROVE RunInv
  OBVIOUS
<1>1. Len(actions) = 0
  BY DEF Init
<1>2. Listed
  BY <1>1 DEF Listed, DistinctActs, InOrder
<1>3. QED
  BY <1>2 DEF Init, RunInv, Fresh, Times, Covered, Passed, Ahead, TimerIsNew,
     Armed, MayRun

LEMMA EnableInv ==
    ASSUME Base, RunInv, Enable
    PROVE  RunInv'
<1>1. bb_run_time' = 0 /\ phase' = "idle" /\ actions' = <<>> /\ earliest' = Off
  BY DEF Base, MayRun, Enable, loopVars
<1>2. timer' = 0 /\ cause' # "event"
  BY DEF Enable, TimeUpdate
<1>3. QED
  BY <1>1, <1>2, PokeInv, IdleInv DEF Fresh

LEMMA RecvInv ==
    ASSUME Base, RunInv, Recv
    PROVE  RunInv'
<1>1. phase' = "idle" /\ actions' = <<>> /\ earliest' = Off /\ bb_run_time' = bb_run_time
  BY DEF Base, Recv, loopVars
<1>2. timer' = 0 /\ cause' # "event"
  BY DEF Recv, TimeUpdate
<1>3. Fresh'
  <2>1. PICK s \in Slot : since' = [since EXCEPT ![s] = IF @ < utc THEN utc - 1 ELSE @]
    BY DEF Recv
  <2>2. since \in [Slot -> 0 .. MaxTime] /\ utc \in Nat /\ MaxTime \in Nat
        /\ bb_run_time \in Nat
    BY RunNumbers DEF SchedTypeOK
  <2>3. \A r \in Slot : since[r] \in Nat /\ since'[r] \in Int /\ since[r] <= since'[r]
    BY <2>1, <2>2
  <2>4. Fresh
    BY DEF RunInv
  <2>5. QED
    BY <1>1, <2>2, <2>3, <2>4, Numbers DEF Fresh
<1>4. QED
  BY <1>1, <1>2, <1>3, PokeInv, IdleInv

LEMMA ClockSetInv ==
    ASSUME Base, RunInv, ClockSet
    PROVE  RunInv'
<1>1. /\ phase' = "idle" /\ actions' = <<>> /\ earliest' = Off
      /\ bb_run_time' = bb_run_time /\ enabled' = enabled
  BY DEF Base, ClockSet, loopVars
<1>2. Fresh'
  <2>1. CASE clock_set
    <3>1. since' = since
      BY <2>1 DEF ClockSet
    <3>2. QED
      BY <1>1, <3>1 DEF RunInv, Fresh
  <2>2. CASE ~clock_set
    BY <1>1, <2>2 DEF Base, MayRun, Fresh
  <2>3. QED
    BY <2>1, <2>2
<1>3. TimerIsNew' /\ Armed'
  <2>1. CASE enabled
    <3>1. timer' = 0 /\ cause' # "event"
      BY <2>1 DEF ClockSet, TimeUpdate
    <3>2. QED
      BY <1>1, <3>1, PokeInv
  <2>2. CASE ~enabled
    <3>1. timer' = Off /\ ~MayRun'
      BY <1>1, <2>2 DEF ClockSet, Base, MayRun
    <3>2. QED
      BY <1>1, <3>1, NoTimerInv
  <2>3. QED
    BY <2>1, <2>2
<1>4. QED
  BY <1>1, <1>2, <1>3, IdleInv

LEMMA RestartInv ==
    ASSUME Base, RunInv, Restart
    PROVE  RunInv'
<1>1. /\ phase' = "idle" /\ actions' = <<>> /\ earliest' = Off
      /\ timer' = Off /\ ~MayRun' /\ bb_run_time' = 0
  BY DEF Restart, EndRun, MayRun
<1>2. QED
  BY <1>1, NoTimerInv, IdleInv DEF Fresh

LEMMA TickInv ==
    ASSUME Base, RunInv, Tick
    PROVE  RunInv'
<1>1. /\ phase' = "idle" /\ actions' = <<>> /\ earliest' = Off
      /\ UNCHANGED <<enabled, clock_set, val, bb_run_time, since, cause>>
      /\ phase = "idle" /\ utc' = utc + 1
      /\ timer' = IF timer > 0 THEN timer - 1 ELSE timer
  BY DEF Base, Tick, loopVars, confVars
<1>2. utc \in Nat /\ (timer = Off \/ timer \in Nat) /\ bb_run_time \in Nat
      /\ \A n \in Nat : n # Off
  BY RunNumbers
<1>3. /\ timer = Off => timer' = Off
      /\ timer \in Nat /\ timer > 0 => timer' \in Nat /\ utc' + timer' = utc + timer
      /\ timer = 0 => timer' = 0
  BY <1>1, <1>2 DEF Off
<1>4. Fresh'
  BY <1>1 DEF RunInv, Fresh
<1>5. TimerIsNew'
  <2>1. ASSUME cause = "event", timer' # Off PROVE NewFrom(utc + timer)'
    <3>1. NewFrom(utc + timer) /\ timer \in Nat
      BY <1>1, <1>2, <1>3, <2>1 DEF RunInv, TimerIsNew
    <3>2. utc + timer <= utc' + timer' /\ utc' + timer' \in Nat /\ utc + timer \in Nat
      BY <1>1, <1>2, <1>3, <3>1
    <3>3. bb_run_time <= utc' + timer'
      BY <1>2, <3>1, <3>2 DEF NewFrom
    <3>4. QED
      BY <1>1, <3>1, <3>3 DEF NewFrom
  <2>2. QED
    BY <1>1, <2>1 DEF TimerIsNew
<1>6. Armed'
  <2>1. SUFFICES ASSUME MayRun', timer' # 0, NEW s \in Slot,
                        NEW e \in EventsOf[val'[s]], e[2] > utc'
                 PROVE  timer' # Off /\ utc' + timer' <= e[2]
    BY <1>1 DEF Armed
  <2>2. e \in EventsOf[val[s]] /\ MayRun /\ timer # 0
    BY <1>1, <1>3, <2>1 DEF MayRun
  <2>3. e[2] \in Nat
    BY <2>2, RunNumbers, EventsOfFact, EventFact
  <2>4. e[2] > utc
    BY <1>1, <1>2, <2>1, <2>3
  <2>5. timer # Off /\ utc + timer <= e[2]
    BY <1>1, <2>2, <2>4 DEF RunInv, Armed
  <2>6. timer \in Nat /\ timer > 0
    BY <1>2, <2>2, <2>5
  <2>7. QED
    BY <1>2, <1>3, <2>5, <2>6
<1>7. QED
  BY <1>1, <1>4, <1>5, <1>6, IdleInv

LEMMA TimeoutInv ==
    ASSUME Base, RunInv, Timeout
    PROVE  RunInv'
<1>1. /\ phase = "idle" /\ timer = 0 /\ timer' = Off /\ actions = <<>> /\ actions' = <<>>
      /\ earliest' = Off
      /\ UNCHANGED <<utc, clock_set, enabled, val, bb_run_time, since, cause>>
  BY DEF Base, Timeout
<1>2. Fresh'
  BY <1>1 DEF RunInv, Fresh
<1>3. CASE ~MayRun
  <2>1. phase' = "idle" /\ ~MayRun'
    BY <1>1, <1>3 DEF Timeout, MayRun
  <2>2. QED
    BY <1>1, <1>2, <2>1, NoTimerInv, IdleInv
<1>4. CASE MayRun
  <2>1. phase' = "look" /\ run_time' = From /\ start' = cur' /\ start' \in Nat
    <3>1. phase' = "look" /\ run_time' = From /\ start' = cur'
      BY <1>4 DEF Timeout, StartRun
    <3>2. start' \in Slot
      BY TimeoutBase DEF Base, SchedTypeOK
    <3>3. QED
      BY <3>1, <3>2, Numbers
  <2>2. From' = From /\ From \in Nat /\ DayLen <= From
    <3>1. From' = From
      BY <1>1 DEF From, Trusted
    <3>2. DayLen <= From
      BY RunNumbers DEF RunInv, Fresh, From, Trusted
    <3>3. QED
      BY <3>1, <3>2, RunNumbers
  <2>3. Times'
    BY <1>1, <2>1, <2>2 DEF Times
  <2>4. Listed'
    <3>1. Len(actions') = 0
      BY <1>1
    <3>2. QED
      BY <3>1 DEF Listed, DistinctActs, InOrder
  <2>5. \A s \in Slot : ~Seen(s)'
    <3>1. ASSUME NEW s \in Slot PROVE ~Seen(s)'
      <4>1. s \in Nat
        BY Numbers
      <4>2. QED
        BY <2>1, <4>1 DEF Seen
    <3>2. QED
      BY <3>1
  <2>6. Ahead'
    BY <2>5 DEF Ahead
  <2>7. Covered'
    <3>1. SUFFICES ASSUME NEW s \in Slot, NEW e \in Events(val[s])', Passed(s, e)'
                   PROVE  FALSE
      BY DEF Covered
    <3>2. e \in Events(val[s])
      BY <1>1, <3>1
    <3>3. e[2] \in Nat
      BY <3>2, RunNumbers, EventFact
    <3>4. From <= e[2] /\ e[2] < From
      BY <2>1, <2>2, <2>5, <3>1 DEF Passed
    <3>5. QED
      BY <2>2, <3>3, <3>4
  <2>8. TimerIsNew'
    <3>1. ASSUME cause = "event" PROVE NewFrom(utc)'
      <4>1. timer # Off /\ utc + timer = utc
        BY <1>1, RunNumbers
      <4>2. NewFrom(utc)
        BY <1>1, <3>1, <4>1 DEF RunInv, TimerIsNew
      <4>3. QED
        BY <1>1, <4>2 DEF NewFrom
    <3>2. QED
      BY <1>1, <2>1, <3>1 DEF TimerIsNew
  <2>9. Armed'
    BY <2>1 DEF Armed
  <2>10. QED
    BY <1>2, <2>3, <2>4, <2>6, <2>7, <2>8, <2>9 DEF RunInv
<1>5. QED
  BY <1>3, <1>4

\* A step of a run, in which the time, the timer and the schedules are left alone.
LEMMA InRun ==
    ASSUME Base, RunInv, phase # "idle", phase' # "idle",
           UNCHANGED <<utc, val, bb_run_time, timer, since, cause>>
    PROVE  /\ Fresh' /\ TimerIsNew' /\ Armed'
           /\ From' = From /\ \A a : Starts(a)' = Starts(a)
<1>1. From' = From /\ \A a : Starts(a)' = Starts(a)
  BY DEF From, Trusted, Starts
<1>2. Fresh'
  BY DEF RunInv, Fresh
<1>3. TimerIsNew'
  BY DEF RunInv, TimerIsNew, NewFrom
<1>4. Armed'
  BY DEF Armed
<1>5. QED
  BY <1>1, <1>2, <1>3, <1>4

LEMMA AgainInv ==
    ASSUME Base, RunInv, Again
    PROVE  RunInv'
<1>1. /\ phase = "looked" /\ phase' = "look" /\ earliest # Off /\ earliest <= utc
      /\ run_time' = earliest /\ earliest' = Off
      /\ start' = next_fire /\ cur' = next_fire /\ actions' = actions
      /\ UNCHANGED <<utc, val, bb_run_time, timer, since, cause>>
  BY DEF Again, confVars
<1>2. /\ Fresh' /\ TimerIsNew' /\ Armed'
      /\ From' = From /\ \A a : Starts(a)' = Starts(a)
  BY <1>1, InRun
<1>3. /\ earliest \in Nat /\ run_time \in Nat /\ From \in Nat /\ run_time < earliest
      /\ DayLen \in Nat /\ DayLen <= run_time /\ From <= run_time
  BY <1>1, RunNumbers DEF RunInv, Times
<1>4. Times'
  BY <1>1, <1>2, <1>3 DEF Times
<1>5. Listed'
  <2>1. Listed
    BY DEF RunInv
  <2>2. ASSUME NEW k \in 1 .. Len(actions) PROVE OfRun(actions[k])'
    <3>1. OfRun(actions[k])
      BY <2>1 DEF Listed
    <3>2. actions[k].at \in Nat
      BY RunNumbers, SeqEntry
    <3>3. From <= actions[k].at /\ actions[k].at <= run_time'
      BY <1>1, <1>3, <3>1, <3>2 DEF OfRun
    <3>4. QED
      BY <1>1, <1>2, <3>1, <3>3 DEF OfRun
  <2>3. QED
    BY <1>1, <2>1, <2>2 DEF Listed, DistinctActs, InOrder
<1>6. \A s \in Slot : ~Seen(s)' /\ Seen(s)
  <2>1. next_fire \in Nat
    BY Numbers DEF Base, SchedTypeOK
  <2>2. ASSUME NEW s \in Slot PROVE ~Seen(s)' /\ Seen(s)
    <3>1. s \in Nat
      BY Numbers
    <3>2. ~Seen(s)'
      BY <1>1, <2>1, <3>1 DEF Seen
    <3>3. Seen(s)
      BY <1>1 DEF Seen
    <3>4. QED
      BY <3>2, <3>3
  <2>3. QED
    BY <2>2
<1>7. Ahead'
  BY <1>6 DEF Ahead
<1>8. Covered'
  <2>1. SUFFICES ASSUME NEW s \in Slot, NEW e \in Events(val[s])', Passed(s, e)'
                 PROVE  IsListed(actions, s, e)'
    BY <1>1 DEF Covered
  <2>2. e \in Events(val[s])
    BY <1>1, <2>1
  <2>3. e[2] \in Nat
    BY <2>2, RunNumbers, EventFact
  <2>4. From <= e[2] /\ e[2] < earliest
    BY <1>1, <1>2, <1>6, <2>1 DEF Passed
  <2>5. ~(e[2] > run_time)
    <3>1. SUFFICES ASSUME e[2] > run_time PROVE FALSE
      OBVIOUS
    <3>2. earliest <= e[2]
      BY <1>1, <1>6, <2>2, <3>1 DEF RunInv, Ahead
    <3>3. QED
      BY <1>3, <2>3, <2>4, <3>2
  <2>6. Passed(s, e)
    BY <1>1, <1>3, <1>6, <2>3, <2>4, <2>5 DEF Passed
  <2>7. IsListed(actions, s, e)
    BY <2>2, <2>6 DEF RunInv, Covered
  <2>8. QED
    BY <1>1, <2>7 DEF IsListed
<1>9. QED
  BY <1>2, <1>4, <1>5, <1>7, <1>8 DEF RunInv

\* Which schedules have been looked at after the next one.
LEMMA SeenStep ==
    ASSUME Base, Look, NEW s \in Slot
    PROVE  Seen(s)' <=> (Seen(s) \/ s = cur)
<1>1. /\ N \in Nat /\ start \in 0 .. N - 1 /\ cur \in 0 .. N - 1 /\ s \in 0 .. N - 1
  BY Numbers, RunNumbers DEF Slot
<1>2. /\ phase = "look" /\ start' = start
      /\ cur' = IF cur + 1 = N THEN 0 ELSE cur + 1
      /\ phase' = IF cur' = start THEN "looked" ELSE "look"
  BY DEF Look
<1>3. CASE cur' = start
  BY <1>1, <1>2, <1>3 DEF Seen
<1>4. CASE cur' # start
  BY <1>1, <1>2, <1>4 DEF Seen
<1>5. QED
  BY <1>3, <1>4

LEMMA LookInv ==
    ASSUME Base, RunInv, Look, Evaluated
    PROVE  RunInv'
<1> DEFINE v == val[cur]
           next == NextTime[val[cur]][run_time]
<1>1. /\ phase = "look" /\ phase' # "idle" /\ phase # "idle"
      /\ UNCHANGED <<utc, val, bb_run_time, timer, since, cause, run_time, start>>
      /\ IF next # 0 /\ (earliest = Off \/ next < earliest)
         THEN earliest' = next ELSE earliest' = earliest
  BY DEF Look, confVars
<1>2. /\ Fresh' /\ TimerIsNew' /\ Armed'
      /\ From' = From /\ \A a : Starts(a)' = Starts(a)
  BY <1>1, InRun
<1>3. /\ run_time \in Nat /\ From \in Nat /\ From <= run_time /\ DayLen <= run_time
      /\ run_time \in 0 .. MaxTime /\ run_time \in DayLen .. MaxTime
      /\ earliest = Off \/ (earliest \in Nat /\ run_time < earliest)
      /\ v \in AllValues /\ cur \in Slot
  <2>1. run_time <= utc
    BY <1>1 DEF Base
  <2>2. QED
    BY <1>1, <2>1, RunNumbers DEF RunInv, Times
<1>4. EvaluatedRightly(v, run_time) /\ next \in Nat /\ next = NextEvent(v, run_time)
  BY <1>3, NextTimeFact DEF Evaluated
<1>5. PICK acts \in DueActs[cur][v][run_time] : actions' \in Pend(actions, acts)
  BY DEF Look
<1>6. /\ acts \in Seq(Pended) /\ DistinctActs(acts) /\ InOrder(acts)
      /\ \A i \in 1 .. Len(acts) :
            \E j \in Due(v, run_time) : acts[i] = [act |-> <<cur, j>>, at |-> run_time]
      /\ \A j \in Due(v, run_time) :
            \E i \in 1 .. Len(acts) : acts[i] = [act |-> <<cur, j>>, at |-> run_time]
  BY <1>3, <1>5, DueFact
<1>7. next # 0 => next > run_time
  BY <1>4 DEF EvaluatedRightly
<1>8. \A e \in Events(v) : e[2] > run_time => next \in 1 .. e[2]
  BY <1>4 DEF EvaluatedRightly
<1>9. \A e \in Events(v) : e[2] = run_time => e[1] \in Due(v, run_time)
  BY <1>4 DEF EvaluatedRightly
<1>10. \A j \in Due(v, run_time) :
           v.acts[j] # "within" => <<j, run_time>> \in Events(v)
  BY <1>4 DEF EvaluatedRightly
<1>11. Listed /\ Covered /\ Ahead /\ actions \in Seq(Pended) /\ SchedTypeOK
  BY RunNumbers DEF RunInv
<1>12. IsPended(actions, acts, actions')
  <2>1. ASSUME NEW i \in 1 .. Len(actions), NEW j \in 1 .. Len(acts)
        PROVE  actions[i].at <= acts[j].at
    <3>1. actions[i].at <= run_time
      BY <1>11 DEF Listed, OfRun
    <3>2. acts[j].at = run_time
      <4>1. PICK d \in Due(v, run_time) : acts[j] = [act |-> <<cur, d>>, at |-> run_time]
        BY <1>6
      <4>2. QED
        BY <4>1
    <3>3. QED
      BY <3>1, <3>2
  <2>2. DistinctActs(actions) /\ InOrder(actions)
    BY <1>11 DEF Listed
  <2>3. QED
    BY <1>5, <1>6, <1>11, <2>1, <2>2, PendFact
<1> HIDE DEF v, next
<1>13. Times'
  BY <1>1, <1>2, <1>3, <1>4, <1>7 DEF Times
<1>14. Listed'
  <2>1. ASSUME NEW k \in 1 .. Len(actions') PROVE OfRun(actions[k])'
    <3>1. CASE \E i \in 1 .. Len(actions) : actions'[k] = actions[i]
      <4>1. PICK i \in 1 .. Len(actions) : actions'[k] = actions[i]
        BY <3>1
      <4>2. OfRun(actions[i])
        BY <1>11 DEF Listed
      <4>3. QED
        BY <1>1, <1>2, <4>1, <4>2 DEF OfRun
    <3>2. CASE \E i \in 1 .. Len(acts) : actions'[k] = acts[i]
      <4>1. PICK j \in Due(v, run_time) :
                actions'[k] = [act |-> <<cur, j>>, at |-> run_time]
        BY <1>6, <3>2
      <4>2. actions'[k].at = run_time /\ actions'[k].act = <<cur, j>>
        BY <4>1
      <4>3. Starts(<<cur, j>>) => v.acts[j] # "within"
        BY DEF Starts, v
      <4>4. Starts(actions'[k].act) => <<j, run_time>> \in Events(val[cur])
        BY <1>10, <4>2, <4>3 DEF v
      <4>5. OfRun(actions'[k])
        BY <1>3, <4>2, <4>4 DEF OfRun
      <4>6. QED
        BY <1>1, <1>2, <4>5 DEF OfRun
    <3>3. QED
      BY <1>12, <3>1, <3>2 DEF IsPended
  <2>2. QED
    BY <1>12, <2>1 DEF Listed, IsPended
<1>15. Ahead'
  <2>1. SUFFICES ASSUME NEW s \in Slot, Seen(s)', NEW e \in Events(val[s])',
                        e[2] > run_time'
                 PROVE  earliest' # Off /\ earliest' <= e[2]
    BY DEF Ahead
  <2>2. e \in Events(val[s]) /\ e[2] > run_time
    BY <1>1, <2>1
  <2>3. e[2] \in Nat
    BY <1>11, <2>2, EventFact
  <2>4. \A n \in Nat : n # Off
    BY DEF Off
  <2>5. CASE Seen(s)
    <3>1. earliest # Off /\ earliest <= e[2]
      BY <1>1, <1>11, <2>2, <2>5 DEF Ahead
    <3>2. QED
      BY <1>1, <1>3, <1>4, <2>3, <2>4, <3>1
  <2>6. CASE s = cur
    <3>1. next \in 1 .. e[2]
      BY <1>8, <2>2, <2>6 DEF v
    <3>2. QED
      BY <1>1, <1>3, <1>4, <2>3, <2>4, <3>1
  <2>7. QED
    BY <2>1, <2>5, <2>6, SeenStep
<1>16. Covered'
  <2>1. SUFFICES ASSUME NEW s \in Slot, NEW e \in Events(val[s])', Passed(s, e)'
                 PROVE  IsListed(actions', s, e)
    BY DEF Covered
  <2>2. e \in Events(val[s])
    BY <1>1, <2>1
  <2>3. e[2] \in Nat
    BY <1>11, <2>2, EventFact
  <2>4. Passed(s, e) \/ (e[2] = run_time /\ s = cur)
    BY <1>1, <1>2, <2>1, SeenStep DEF Passed
  <2>5. CASE Passed(s, e)
    <3>1. PICK k \in 1 .. Len(actions) :
              actions[k].act = <<s, e[1]>> /\ actions[k].at >= e[2]
      BY <1>11, <2>2, <2>5 DEF Covered, IsListed
    <3>2. PICK i \in 1 .. Len(actions') :
              actions'[i].act = actions[k].act /\ actions'[i].at >= actions[k].at
      BY <1>12 DEF IsPended
    <3>3. actions[k].at \in Nat /\ actions'[i].at \in Nat
      BY <1>11, <1>12, SeqEntry DEF IsPended
    <3>4. QED
      BY <2>3, <3>1, <3>2, <3>3 DEF IsListed
  <2>6. CASE e[2] = run_time /\ s = cur
    <3>1. e[1] \in Due(v, run_time)
      BY <1>9, <2>2, <2>6 DEF v
    <3>2. PICK j \in 1 .. Len(acts) : acts[j] = [act |-> <<cur, e[1]>>, at |-> run_time]
      BY <1>6, <3>1
    <3>3. PICK i \in 1 .. Len(actions') : actions'[i] = acts[j]
      BY <1>12 DEF IsPended
    <3>4. actions'[i].act = <<s, e[1]>> /\ actions'[i].at = e[2]
      BY <2>6, <3>2, <3>3
    <3>5. QED
      BY <2>3, <3>4 DEF IsListed
  <2>7. QED
    BY <2>4, <2>5, <2>6
<1>17. QED
  BY <1>2, <1>13, <1>14, <1>15, <1>16 DEF RunInv

LEMMA FinishInv ==
    ASSUME Base, RunInv, Finish
    PROVE  RunInv'
<1>1. /\ phase = "looked" /\ phase' = "idle" /\ actions' = <<>> /\ earliest' = Off
      /\ earliest # Off => earliest > utc
      /\ timer' = IF earliest = Off THEN Off ELSE Delay(earliest - utc)
      /\ bb_run_time' = IF earliest = Off THEN run_time ELSE utc + 1
      /\ since' = [s \in Slot |-> utc]
      /\ cause' = IF timer' = 0 THEN "poke" ELSE "event"
      /\ UNCHANGED <<utc, val>>
  BY DEF Finish, EndRun, Resume, confVars
<1>2. /\ utc \in Nat /\ run_time \in Nat /\ DayLen <= run_time /\ run_time <= utc
      /\ earliest = Off \/ (earliest \in Nat /\ earliest - utc \in Nat)
      /\ DayLen \in Nat /\ 1 <= DayLen
  BY <1>1, RunNumbers DEF RunInv, Times, Base
<1>3. earliest # Off => timer' \in Nat /\ timer' <= earliest - utc
  <2>1. SUFFICES ASSUME earliest # Off
                 PROVE  timer' \in Nat /\ timer' <= earliest - utc
    OBVIOUS
  <2>2. TimerWrap \div 2 \in Nat /\ earliest - utc \in Nat
    BY <1>2, <2>1, Numbers
  <2>3. QED
    BY <1>1, <2>1, <2>2, DelayFact
<1>4. Fresh'
  BY <1>1, <1>2 DEF Fresh
<1>5. TimerIsNew'
  <2>1. ASSUME cause' = "event", timer' # Off PROVE NewFrom(utc + timer)'
    <3>1. earliest # Off /\ timer' # 0
      BY <1>1, <2>1
    <3>2. timer' \in Nat /\ bb_run_time' = utc + 1
      BY <1>1, <1>3, <3>1
    <3>3. bb_run_time' # 0 /\ bb_run_time' <= utc' + timer'
      BY <1>1, <1>2, <3>1, <3>2
    <3>4. \A s \in Slot : bb_run_time' = since'[s] + 1
      BY <1>1, <3>2
    <3>5. QED
      BY <3>3, <3>4 DEF NewFrom
  <2>2. QED
    BY <1>1, <2>1 DEF TimerIsNew
<1>6. Armed'
  <2>1. SUFFICES ASSUME NEW s \in Slot, NEW e \in EventsOf[val'[s]], e[2] > utc'
                 PROVE  timer' # Off /\ utc' + timer' <= e[2]
    BY DEF Armed
  <2>2. e \in Events(val[s]) /\ e[2] \in Nat /\ e[2] > run_time
    <3>1. e \in Events(val[s])
      BY <1>1, <2>1, RunNumbers, EventsOfFact
    <3>2. e[2] \in Nat
      BY <3>1, RunNumbers, EventFact
    <3>3. QED
      BY <1>1, <1>2, <2>1, <3>1, <3>2
  <2>3. earliest # Off /\ earliest <= e[2]
    BY <1>1, <2>2 DEF RunInv, Ahead, Seen
  <2>4. timer' \in Nat /\ timer' # Off
    BY <1>3, <2>3, RunNumbers
  <2>5. QED
    BY <1>1, <1>2, <1>3, <2>2, <2>3, <2>4
<1>7. QED
  BY <1>1, <1>4, <1>5, <1>6, IdleInv

LEMMA RunInvStep ==
    ASSUME Base, RunInv, [Next]_vars, Evaluated
    PROVE  RunInv'
<1>1. CASE UNCHANGED vars
  BY <1>1 DEF vars, confVars, loopVars, RunInv, Fresh, Times, Listed, OfRun, Covered,
     Passed, IsListed, Ahead, TimerIsNew, NewFrom, Armed, MayRun, From, Trusted,
     Starts, Seen, DistinctActs, InOrder
<1>2. QED
  BY <1>1, TimeoutInv, LookInv, AgainInv, FinishInv, EnableInv, RecvInv,
     ClockSetInv, TickInv, RestartInv DEF Next

LEMMA RunHolds ==
    ASSUME Evaluated
    PROVE  Spec => [](Base /\ RunInv)
<1>1. Init => Base /\ RunInv
  BY BaseInit, RunInvInit
<1>2. Base /\ RunInv /\ [Next]_vars => (Base /\ RunInv)'
  BY Evaluated, BaseStep, RunInvStep
<1>3. QED
  BY <1>1, <1>2, PTL DEF Spec

(* Where sched_evaluate() is right about the schedules, the timer of the   *)
(* schedules, while nothing is to be run at once, expires no later than    *)
(* their next event, also when the delay does not fit its 32 bits.         *)
THEOREM ArmedHolds ==
    ASSUME Evaluated
    PROVE  Spec => []Armed
<1>1. RunInv => Armed
  BY DEF RunInv
<1>2. QED
  BY <1>1, RunHolds, PTL

\* What is pending at the end of a run.
LEMMA AllListed ==
    ASSUME Base, RunInv, Finish, NEW s \in Slot, NEW e \in Events(val[s]),
           From <= e[2], e[2] <= utc
    PROVE  IsListed(actions, s, e)
<1>1. phase = "looked" /\ (earliest # Off => earliest > utc)
  BY DEF Finish
<1>2. Seen(s)
  BY <1>1 DEF Seen
<1>3. e[2] \in Nat /\ utc \in Nat /\ run_time \in Nat
      /\ (earliest = Off \/ earliest \in Nat)
  BY RunNumbers, EventFact
<1>4. ~(e[2] > run_time)
  <2>1. SUFFICES ASSUME e[2] > run_time PROVE FALSE
    OBVIOUS
  <2>2. earliest # Off /\ earliest <= e[2]
    BY <1>1, <1>2, <2>1 DEF RunInv, Ahead
  <2>3. QED
    BY <1>1, <1>3, <2>2
<1>5. Passed(s, e)
  BY <1>1, <1>2, <1>3, <1>4 DEF Passed
<1>6. QED
  BY <1>5 DEF RunInv, Covered

(* "Fire events as time progresses to current utc time": where             *)
(* sched_evaluate() is right about the schedules, sched_run_all() passes   *)
(* over no event between the last run, or the time its schedule was set,   *)
(* and the present, whatever was set in between and however late it runs.  *)
THEOREM NoEventMissedHolds ==
    ASSUME Evaluated
    PROVE  Spec => NoEventMissed
<1> DEFINE A == Finish /\ Trusted =>
                  \A s \in Slot : \A e \in EventsOf[val[s]] :
                      since[s] < e[2] /\ e[2] <= utc =>
                          \E k \in 1 .. Len(actions) :
                              actions[k].act = <<s, e[1]>> /\ actions[k].at >= e[2]
<1>1. ASSUME Base, RunInv PROVE A
  <2>1. SUFFICES ASSUME Finish, Trusted, NEW s \in Slot, NEW e \in EventsOf[val[s]],
                        since[s] < e[2], e[2] <= utc
                 PROVE  IsListed(actions, s, e)
    BY DEF IsListed
  <2>2. e \in Events(val[s]) /\ e[2] \in Nat
    BY <1>1, RunNumbers, EventsOfFact, EventFact
  <2>3. bb_run_time <= since[s] + 1 /\ since[s] \in Nat /\ bb_run_time \in Nat
    BY <1>1, <2>1, RunNumbers DEF RunInv, Fresh, Trusted
  <2>4. From = bb_run_time
    BY <2>1 DEF From
  <2>5. From <= e[2]
    BY <2>1, <2>2, <2>3, <2>4
  <2>6. QED
    BY <1>1, <2>1, <2>2, <2>5, AllListed
<1>2. Base /\ RunInv => A
  BY <1>1
<1>3. Spec => [](Base /\ RunInv)
  BY Evaluated, RunHolds
<1> HIDE DEF A
<1>4. Spec => [][A]_vars
  BY <1>2, <1>3, PTL
<1>5. QED
  BY <1>4 DEF NoEventMissed, A

\* The last event of an action that is pending is the one it is pending for.
LEMMA LastEventFact ==
    ASSUME Base, RunInv, Finish, NEW k \in 1 .. Len(actions), Starts(actions[k].act)
    PROVE  LastEvent(actions[k].act) = actions[k].at
<1> DEFINE a == actions[k].act
           s == actions[k].act[1]
           S == {e[2] : e \in {f \in EventsOf[val[s]] : f[1] = a[2] /\ f[2] <= utc}}
<1>1. /\ actions[k].at \in Nat /\ a \in Act /\ SchedTypeOK /\ utc \in Nat
      /\ run_time \in Nat
  BY RunNumbers, SeqEntry
<1>2. s \in Slot /\ a = <<s, a[2]>>
  BY <1>1 DEF Act
<1>3. OfRun(actions[k])
  BY DEF RunInv, Listed
<1>4. <<a[2], actions[k].at>> \in EventsOf[val[s]]
  BY <1>1, <1>2, <1>3, EventsOfFact DEF OfRun
<1>5. run_time <= utc
  BY DEF Base, Finish
<1>6. From <= actions[k].at /\ actions[k].at <= utc
  BY <1>1, <1>3, <1>5 DEF OfRun
<1>7. actions[k].at \in S
  <2>1. \E f \in EventsOf[val[s]] : f[1] = a[2] /\ f[2] <= utc /\ f[2] = actions[k].at
    BY <1>4, <1>6
  <2>2. QED
    BY <2>1
<1>8. ASSUME NEW x \in S PROVE x \in Nat /\ x <= actions[k].at
  <2>1. PICK e \in EventsOf[val[s]] : e[1] = a[2] /\ e[2] <= utc /\ x = e[2]
    BY <1>8
  <2>2. e \in Events(val[s]) /\ x \in Nat
    BY <1>1, <1>2, <2>1, EventsOfFact, EventFact
  <2>3. SUFFICES ASSUME ~(x <= actions[k].at) PROVE FALSE
    BY <2>2
  <2>4. From <= x
    BY <1>1, <1>6, <2>2, <2>3, RunNumbers
  <2>5. IsListed(actions, s, e)
    BY <1>2, <2>1, <2>2, <2>4, AllListed
  <2>6. PICK i \in 1 .. Len(actions) : actions[i].act = a /\ actions[i].at >= x
    BY <1>2, <2>1, <2>5 DEF IsListed
  <2>7. i = k
    BY <2>6 DEF RunInv, Listed, DistinctActs
  <2>8. QED
    BY <1>1, <2>2, <2>3, <2>6, <2>7
<1>9. LastEvent(a) = Max(S)
  BY DEF LastEvent
<1>10. S \subseteq Int /\ S # {} /\ \A x \in S : x <= actions[k].at
  BY <1>7, <1>8
<1> HIDE DEF S
<1>11. Max(S) \in S /\ \A x \in S : x <= Max(S)
  <2>1. actions[k].at \in Int
    BY <1>1
  <2>2. QED
    BY <1>10, <2>1, MaxFact
<1>12. Max(S) = actions[k].at
  <2>1. Max(S) \in Nat /\ Max(S) <= actions[k].at /\ actions[k].at <= Max(S)
    BY <1>7, <1>8, <1>11
  <2>2. QED
    BY <1>1, <2>1
<1>13. QED
  BY <1>9, <1>12

(* "so the actions are chronological": where sched_evaluate() is right     *)
(* about the schedules, of the actions at the start and the end of ranges  *)
(* the one that sched_run_all() runs last had the last event, in however   *)
(* many rounds of its loop they were found.                                *)
THEOREM ChronologicalHolds ==
    ASSUME Evaluated
    PROVE  Spec => Chronological
<1> DEFINE A == Finish => \A j, k \in 1 .. Len(actions) :
                    j < k /\ Starts(actions[j].act) /\ Starts(actions[k].act) =>
                        LastEvent(actions[j].act) <= LastEvent(actions[k].act)
<1>1. ASSUME Base, RunInv PROVE A
  <2>1. SUFFICES ASSUME Finish, NEW j \in 1 .. Len(actions), NEW k \in 1 .. Len(actions),
                        j < k, Starts(actions[j].act), Starts(actions[k].act)
                 PROVE  LastEvent(actions[j].act) <= LastEvent(actions[k].act)
    OBVIOUS
  <2>2. LastEvent(actions[j].act) = actions[j].at
        /\ LastEvent(actions[k].act) = actions[k].at
    BY <1>1, <2>1, LastEventFact
  <2>3. actions[j].at <= actions[k].at
    BY <1>1, <2>1 DEF RunInv, Listed, InOrder
  <2>4. QED
    BY <2>2, <2>3
<1>2. Base /\ RunInv => A
  BY <1>1
<1>3. Spec => [](Base /\ RunInv)
  BY Evaluated, RunHolds
<1> HIDE DEF A
<1>4. Spec => [][A]_vars
  BY <1>2, <1>3, PTL
<1>5. QED
  BY <1>4 DEF Chronological, A

(* Where sched_evaluate() is right about the schedules, a run that the     *)
(* timer starts for an event runs no action that a run before it ran.      *)
THEOREM OnlyNewHolds ==
    ASSUME Evaluated
    PROVE  Spec => OnlyNew
<1> DEFINE A == Finish /\ cause = "event" => OnlyNewActs
<1>1. ASSUME Base, RunInv PROVE A
  <2>1. SUFFICES ASSUME Finish, cause = "event", NEW k \in 1 .. Len(actions),
                        Starts(actions[k].act)
                 PROVE  actions[k].at > since[actions[k].act[1]]
    BY DEF OnlyNewActs
  <2>2. actions[k].at \in Nat /\ actions[k].act \in Act
    BY <1>1, RunNumbers, SeqEntry
  <2>3. PICK s \in Slot : actions[k].act[1] = s
    BY <2>2 DEF Act
  <2>4. NewFrom(utc)
    BY <1>1, <2>1 DEF RunInv, TimerIsNew, Finish
  <2>5. bb_run_time = since[s] + 1 /\ From = bb_run_time /\ since[s] \in Nat
    BY <1>1, <2>4, RunNumbers DEF NewFrom, From, Trusted
  <2>6. From <= actions[k].at
    BY <1>1 DEF RunInv, Listed, OfRun
  <2>7. QED
    BY <2>2, <2>3, <2>5, <2>6
<1>2. Base /\ RunInv => A
  BY <1>1
<1>3. Spec => [](Base /\ RunInv)
  BY Evaluated, RunHolds
<1> HIDE DEF A
<1>4. Spec => [][A]_vars
  BY <1>2, <1>3, PTL
<1>5. QED
  BY <1>4 DEF OnlyNew, A

(* A device whose schedules are all on for a while on each of their days   *)
(* runs them right: nothing is left of the assumption that what            *)
(* sched_evaluate() says of them is.                                       *)
THEOREM OnOffRuns ==
    ASSUME \A i \in Slot : \A v \in Values[i] : OnOffSchedule(v)
    PROVE  Spec => []Armed /\ NoEventMissed /\ Chronological /\ OnlyNew
<1>1. Evaluated
  BY OnOffScheds
<1>2. QED
  BY <1>1, ArmedHolds, NoEventMissedHolds, ChronologicalHolds, OnlyNewHolds
=============================================================================
