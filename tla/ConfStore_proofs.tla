-------------------------- MODULE ConfStore_proofs --------------------------
(***************************************************************************)
(* Proofs about the configuration store: the tree of names follows the     *)
(* slots, items are written where flash is erased, and a restart finds     *)
(* what was saved.                                                         *)
(*                                                                         *)
(* What matters is what conf_compress() has copied when it is half way     *)
(* (Copied): the items it keeps do not depend on when it comes to them     *)
(* (Keeps), so the other slot ends up with one item of each name, and one  *)
(* factory item, and the tree is that of the other slot for the names that *)
(* have one there and that of the old slot for the rest.                   *)
(***************************************************************************)
EXTENDS ConfStore, FiniteSetTheorems, WellFoundedInduction, TLAPS

-----------------------------------------------------------------------------
(* Sets of places.                                                         *)

\* A set of naturals has a smallest one.
LEMMA Smallest ==
    ASSUME NEW S, S \subseteq Nat, S # {}
    PROVE  \E x \in S : \A y \in S : x <= y
<1>1. PICK x \in S : \A y \in S : ~(<<y, x>> \in OpToRel(<, Nat))
  BY NatLessThanWellFounded, WFMin, Zenon
<1>2. \A y \in S : ~(y < x)
  BY <1>1 DEF OpToRel
<1>3. QED
  BY <1>2

\* Latest() is the last of a set of places, or 0.
LEMMA LatestFact ==
    ASSUME NEW m \in Nat, NEW S, S \subseteq 1 .. m
    PROVE  /\ S = {} => Latest(S) = 0
           /\ S # {} => Latest(S) \in S /\ \A y \in S : y <= Latest(S)
           /\ Latest(S) \in 0 .. m
<1>1. CASE S = {}
  BY <1>1 DEF Latest
<1>2. CASE S # {}
  <2> DEFINE T == {m - x : x \in S}
  <2>1. \A y \in S : y \in Int /\ m - y \in Nat
    OBVIOUS
  <2>2. T \subseteq Nat
    BY <2>1
  <2>3. T # {} /\ \A z \in T : \E x \in S : z = m - x
    BY <1>2
  <2>4. \A y \in S : m - y \in T
    OBVIOUS
  <2> HIDE DEF T
  <2>5. PICK z \in T : \A y \in T : z <= y
    BY <2>2, <2>3, Smallest
  <2>6. PICK x \in S : z = m - x
    BY <2>3
  <2>7. \A y \in S : x >= y
    <3>1. SUFFICES ASSUME NEW y \in S PROVE x >= y
      OBVIOUS
    <3>2. m - x <= m - y /\ x \in Int /\ y \in Int
      BY <2>1, <2>4, <2>5, <2>6
    <3>3. QED
      BY <3>2
  <2>8. Max(S) \in S /\ \A y \in S : Max(S) >= y
    BY <2>7 DEF Max
  <2>9. Latest(S) = Max(S)
    BY <1>2 DEF Latest
  <2> DEFINE w == Latest(S)
  <2>10. w \in S /\ \A y \in S : w >= y
    BY <2>8, <2>9
  <2> HIDE DEF w
  <2>11. w \in 0 .. m
    <3>1. w \in 1 .. m
      BY <2>10
    <3>2. QED
      BY <3>1
  <2>12. \A y \in S : y <= w
    BY <2>1, <2>10
  <2>13. QED
    BY <1>2, <2>10, <2>11, <2>12 DEF w
<1>3. QED
  BY <1>1, <1>2

\* A place after which there is none is the last.
LEMMA LatestIs ==
    ASSUME NEW m \in Nat, NEW S, S \subseteq 1 .. m, NEW x \in S,
           \A y \in S : y <= x
    PROVE  Latest(S) = x
<1>1. Latest(S) \in S /\ x <= Latest(S)
  BY LatestFact
<1>2. Latest(S) <= x /\ x \in 1 .. m /\ Latest(S) \in 1 .. m
  BY <1>1
<1>3. QED
  BY <1>1, <1>2

\* A place is not the last if there is one after it.
LEMMA NotLast ==
    ASSUME NEW m \in Nat, NEW S, S \subseteq 1 .. m, NEW x \in S
    PROVE  (\E i \in S : i > x) <=> x # Latest(S)
<1>1. Latest(S) \in S /\ \A y \in S : y <= Latest(S)
  BY LatestFact
<1>2. \A y \in S : y \in 1 .. m
  OBVIOUS
<1> DEFINE w == Latest(S)
<1>3. w \in S /\ w \in 1 .. m /\ x \in 1 .. m /\ x <= w
      /\ \A y \in S : y <= w
  BY <1>1, <1>2
<1> HIDE DEF w
<1>4. x # w => w > x
  BY <1>3
<1>5. x = w => \A y \in S : ~(y > x)
  BY <1>2, <1>3
<1>6. QED
  BY <1>3, <1>4, <1>5 DEF w

\* Items.
LEMMA ItemFact ==
    /\ Orphan \notin Put
    /\ \A o \in Item : o.name \in Name => o \in Put
    /\ \A o \in Put : /\ o.name \in Name /\ o.fact \in BOOLEAN
                      /\ o.val \in Val \cup {None} /\ o # Orphan /\ o \in Item
    /\ Orphan \in Item /\ Orphan.name \notin Name
<1>1. \A o \in Put : o.name \in Name /\ o.fact \in BOOLEAN
                     /\ o.val \in Val \cup {None}
  BY ConfAssumption
<1>2. Orphan.name = None /\ None \notin Name
  BY ConfAssumption DEF Orphan
<1>3. QED
  BY <1>1, <1>2 DEF Item

\* The places of the items of a name.
LEMMA ItemsFact ==
    ASSUME NEW l \in Seq(Item), NEW n \in Name
    PROVE  /\ Len(l) \in Nat /\ DOMAIN l = 1 .. Len(l)
           /\ Items(l, n) \subseteq 1 .. Len(l)
           /\ FactItems(l, n) \subseteq Items(l, n)
           /\ \A i \in Items(l, n) : l[i] \in Put /\ l[i].name = n
           /\ \A i \in 1 .. Len(l) : l[i] \in Item
           /\ \A i \in 1 .. Len(l) : l[i].name = n <=> i \in Items(l, n)
           /\ \A i \in Items(l, n) : l[i].fact <=> i \in FactItems(l, n)
  BY ItemFact DEF Items, FactItems

-----------------------------------------------------------------------------
(* A slot that grows by an item.                                           *)

\* The item o is added after those of l.
Grown(l, r, o) ==
    /\ \A n \in Name : Items(r, n) = IF o.name = n THEN Items(l, n) \cup {Len(r)}
                                     ELSE Items(l, n)
    /\ \A n \in Name : \A i \in Items(l, n) : r[i] = l[i] /\ i < Len(r)
    /\ Len(r) > 0 /\ r[Len(r)] = o

\* Its place is the last of its name; the last ones of others are as before.
LEMMA GrownFact ==
    ASSUME NEW l \in Seq(Item), NEW r \in Seq(Item), NEW o \in Item,
           Grown(l, r, o), NEW n \in Name
    PROVE  /\ FactItems(r, n) = IF o.name = n /\ o.fact
                                THEN FactItems(l, n) \cup {Len(r)}
                                ELSE FactItems(l, n)
           /\ Latest(Items(r, n)) = IF o.name = n THEN Len(r)
                                    ELSE Latest(Items(l, n))
           /\ Latest(FactItems(r, n)) = IF o.name = n /\ o.fact THEN Len(r)
                                        ELSE Latest(FactItems(l, n))
           /\ Live(r, n) = IF o.name = n
                           THEN IF o.val = None THEN 0 ELSE Len(r)
                           ELSE Live(l, n)
           /\ Value(r, n) = IF o.name = n THEN o.val ELSE Value(l, n)
<1>1. /\ Len(l) \in Nat /\ Items(l, n) \subseteq 1 .. Len(l)
      /\ Len(r) \in Nat /\ Items(r, n) \subseteq 1 .. Len(r)
      /\ FactItems(r, n) \subseteq Items(r, n)
      /\ FactItems(l, n) \subseteq Items(l, n)
  BY ItemsFact
<1>2. /\ Items(r, n) = IF o.name = n THEN Items(l, n) \cup {Len(r)}
                       ELSE Items(l, n)
      /\ \A i \in Items(l, n) : r[i] = l[i] /\ i < Len(r)
      /\ Len(r) > 0 /\ r[Len(r)] = o
  BY DEF Grown
<1>3. FactItems(r, n) = IF o.name = n /\ o.fact
                        THEN FactItems(l, n) \cup {Len(r)}
                        ELSE FactItems(l, n)
  BY <1>1, <1>2 DEF FactItems
<1>4. o.name = n => Latest(Items(r, n)) = Len(r)
  <2>1. SUFFICES ASSUME o.name = n PROVE Latest(Items(r, n)) = Len(r)
    OBVIOUS
  <2>2. Len(r) \in Items(r, n) /\ \A y \in Items(r, n) : y <= Len(r)
    BY <1>1, <1>2, <2>1
  <2>3. QED
    BY <1>1, <2>2, LatestIs
<1>5. o.name = n /\ o.fact => Latest(FactItems(r, n)) = Len(r)
  <2>1. SUFFICES ASSUME o.name = n, o.fact
                 PROVE  Latest(FactItems(r, n)) = Len(r)
    OBVIOUS
  <2>2. Len(r) \in FactItems(r, n) /\ \A y \in FactItems(r, n) : y <= Len(r)
    BY <1>1, <1>3, <2>1
  <2>3. FactItems(r, n) \subseteq 1 .. Len(r)
    BY <1>1
  <2>4. QED
    BY <1>1, <2>2, <2>3, LatestIs
<1>6. o.name # n => Live(r, n) = Live(l, n)
  <2>1. SUFFICES ASSUME o.name # n PROVE Live(r, n) = Live(l, n)
    OBVIOUS
  <2>2. Items(r, n) = Items(l, n)
    BY <1>2, <2>1
  <2>3. Latest(Items(l, n)) # 0 =>
            r[Latest(Items(l, n))] = l[Latest(Items(l, n))]
    BY <1>1, <1>2, LatestFact
  <2>4. QED
    BY <2>2, <2>3 DEF Live
<1>7. o.name # n => Value(r, n) = Value(l, n)
  <2>1. SUFFICES ASSUME o.name # n PROVE Value(r, n) = Value(l, n)
    OBVIOUS
  <2>2. Live(l, n) # 0 => r[Live(l, n)] = l[Live(l, n)]
    BY <1>1, <1>2, LatestFact DEF Live
  <2>3. QED
    BY <1>6, <2>1, <2>2 DEF Value
<1>8. o.name = n => Live(r, n) = IF o.val = None THEN 0 ELSE Len(r)
  BY <1>1, <1>2, <1>4 DEF Live
<1>9. o.name = n => Value(r, n) = o.val
  BY <1>1, <1>2, <1>8 DEF Value
<1>10. QED
  BY <1>2, <1>3, <1>4, <1>5, <1>6, <1>7, <1>8, <1>9

\* Append() adds an item.
LEMMA AppendGrown ==
    ASSUME NEW l \in Seq(Item), NEW o \in Item
    PROVE  /\ Append(l, o) \in Seq(Item) /\ Len(Append(l, o)) = Len(l) + 1
           /\ Grown(l, Append(l, o), o)
<1> DEFINE r == Append(l, o)
<1>1. /\ r \in Seq(Item) /\ Len(r) = Len(l) + 1 /\ Len(l) \in Nat
      /\ r[Len(r)] = o /\ \A i \in 1 .. Len(l) : r[i] = l[i]
  BY ItemsFact
<1> HIDE DEF r
<1>2. ASSUME NEW n \in Name
      PROVE  /\ Items(r, n) = IF o.name = n THEN Items(l, n) \cup {Len(r)}
                              ELSE Items(l, n)
             /\ \A i \in Items(l, n) : r[i] = l[i] /\ i < Len(r)
  <2>1. /\ \A i \in 1 .. Len(r) : r[i].name = n <=> i \in Items(r, n)
        /\ \A i \in 1 .. Len(l) : l[i].name = n <=> i \in Items(l, n)
        /\ Items(r, n) \subseteq 1 .. Len(r) /\ Items(l, n) \subseteq 1 .. Len(l)
    BY <1>1, ItemsFact
  <2>2. \A i \in 1 .. Len(r) : i \in 1 .. Len(l) \/ i = Len(r)
    BY <1>1
  <2>3. Len(r) \in 1 .. Len(r) /\ \A i \in 1 .. Len(l) : i \in 1 .. Len(r)
                                                        /\ i < Len(r)
    BY <1>1
  <2>4. QED
    BY <1>1, <2>1, <2>2, <2>3
<1>3. Grown(l, r, o)
  BY <1>1, <1>2 DEF Grown
<1>4. QED
  BY <1>1, <1>3 DEF r

\* The name of a value that is the last of the slot makes it an item.
LEMMA NamedGrown ==
    ASSUME NEW l \in Seq(Item), NEW k \in 1 .. Len(l), k = Len(l),
           l[k] = Orphan, NEW o \in Item
    PROVE  LET r == [l EXCEPT ![k] = o]
           IN  r \in Seq(Item) /\ Len(r) = Len(l) /\ Grown(l, r, o)
<1> DEFINE r == [l EXCEPT ![k] = o]
<1>1. /\ r \in Seq(Item) /\ Len(r) = Len(l) /\ Len(l) \in Nat
      /\ r[k] = o /\ \A i \in 1 .. Len(l) : i # k => r[i] = l[i]
  BY ItemsFact
<1> HIDE DEF r
<1>2. ASSUME NEW n \in Name
      PROVE  /\ Items(r, n) = IF o.name = n THEN Items(l, n) \cup {Len(r)}
                              ELSE Items(l, n)
             /\ \A i \in Items(l, n) : r[i] = l[i] /\ i < Len(r)
  <2>1. /\ \A i \in 1 .. Len(r) : r[i].name = n <=> i \in Items(r, n)
        /\ \A i \in 1 .. Len(l) : l[i].name = n <=> i \in Items(l, n)
        /\ Items(r, n) \subseteq 1 .. Len(r) /\ Items(l, n) \subseteq 1 .. Len(l)
    BY <1>1, ItemsFact
  <2>2. k \notin Items(l, n)
    BY <2>1, ItemFact
  <2>3. \A i \in 1 .. Len(l) : i # k => i < Len(r)
    BY <1>1
  <2>4. Len(r) = k /\ k \in 1 .. Len(r) /\ r[k] = o
    BY <1>1
  <2>5. \A i \in 1 .. Len(l) : i # k => (i \in Items(r, n) <=> i \in Items(l, n))
    BY <1>1, <2>1
  <2>6. k \in Items(r, n) <=> o.name = n
    BY <2>1, <2>4
  <2>7. Items(r, n) = IF o.name = n THEN Items(l, n) \cup {Len(r)}
                      ELSE Items(l, n)
    BY <1>1, <2>1, <2>2, <2>4, <2>5, <2>6
  <2>8. \A i \in Items(l, n) : r[i] = l[i] /\ i < Len(r)
    BY <1>1, <2>1, <2>2, <2>3
  <2>9. QED
    BY <2>7, <2>8
<1>3. Grown(l, r, o)
  BY <1>1, <1>2 DEF Grown
<1>4. QED
  BY <1>1, <1>3 DEF r

-----------------------------------------------------------------------------
(* What conf_compress() copies.                                            *)

\* The items of l that are copied, whenever the copy comes to them.
Keeps(l, i) ==
    /\ l[i] # Orphan /\ l[i].val # None
    /\ reset => l[i].fact
    /\ i = Latest(IF ~cached /\ l[i].fact THEN FactItems(l, l[i].name)
                  ELSE Items(l, l[i].name))

\* Those of a name before the place k.
KeptItems(l, n, k) == {i \in Items(l, n) : i < k /\ Keeps(l, i)}
KeptFacts(l, n, k) == {i \in FactItems(l, n) : i < k /\ Keeps(l, i)}

\* o has what is copied of l up to the place k.
Copied(l, o, k) ==
    /\ off = Len(o) /\ off < k
    /\ \A j \in 1 .. Len(o) :
            \E i \in 1 .. Len(l) : i < k /\ Keeps(l, i) /\ o[j] = l[i]
    /\ \A j1, j2 \in 1 .. Len(o) :
            o[j1].name = o[j2].name /\ o[j1].fact = o[j2].fact => j1 = j2
    /\ \A n \in Name :
            /\ KeptItems(l, n, k) = {} <=> Items(o, n) = {}
            /\ Items(o, n) # {} =>
                o[Latest(Items(o, n))] = l[Latest(KeptItems(l, n, k))]
            /\ KeptFacts(l, n, k) = {} <=> FactItems(o, n) = {}
            /\ FactItems(o, n) # {} =>
                o[Latest(FactItems(o, n))] = l[Latest(KeptFacts(l, n, k))]
    /\ cached => \A n \in Name :
            /\ tree[n] = IF Items(o, n) = {} THEN Live(l, n)
                         ELSE Latest(Items(o, n))
            /\ FactItems(o, n) # {} => tfact[n] = Latest(FactItems(o, n))

\* At most one item of each of these keys is live.
Keys == {<<p.name, p.fact>> : p \in Put}

\* Live() is a place of the slot.
LEMMA LiveFacts ==
    ASSUME NEW l \in Seq(Item), NEW n \in Name
    PROVE  /\ Live(l, n) \in 0 .. Len(l)
           /\ Latest(Items(l, n)) \in 0 .. Len(l)
           /\ Live(l, n) # 0 => /\ Live(l, n) = Latest(Items(l, n))
                                /\ Live(l, n) \in Items(l, n)
                                /\ l[Live(l, n)].val # None
           /\ Live(l, n) = 0 => \/ Items(l, n) = {}
                                \/ /\ Latest(Items(l, n)) \in Items(l, n)
                                   /\ l[Latest(Items(l, n))].val = None
           /\ \A i \in Items(l, n) : i <= Latest(Items(l, n)) /\ i # 0
           /\ \A i \in FactItems(l, n) : i <= Latest(FactItems(l, n)) /\ i # 0
           /\ FactItems(l, n) # {} => Latest(FactItems(l, n)) \in FactItems(l, n)
           /\ Latest(FactItems(l, n)) \in 0 .. Len(l)
<1>1. /\ Len(l) \in Nat /\ Items(l, n) \subseteq 1 .. Len(l)
      /\ FactItems(l, n) \subseteq 1 .. Len(l)
  BY ItemsFact
<1>2. \A i \in Items(l, n) \cup FactItems(l, n) : i # 0
  BY <1>1
<1>3. /\ Items(l, n) = {} => Latest(Items(l, n)) = 0
      /\ Items(l, n) # {} => /\ Latest(Items(l, n)) \in Items(l, n)
                             /\ \A y \in Items(l, n) : y <= Latest(Items(l, n))
      /\ Latest(Items(l, n)) \in 0 .. Len(l)
  BY <1>1, LatestFact
<1>4. /\ FactItems(l, n) = {} => Latest(FactItems(l, n)) = 0
      /\ FactItems(l, n) # {} =>
            /\ Latest(FactItems(l, n)) \in FactItems(l, n)
            /\ \A y \in FactItems(l, n) : y <= Latest(FactItems(l, n))
      /\ Latest(FactItems(l, n)) \in 0 .. Len(l)
  BY <1>1, LatestFact
<1>5. 0 \in 0 .. Len(l)
  BY <1>1
<1> DEFINE I == Items(l, n)
           x == Latest(I)
<1>6. Live(l, n) = IF x # 0 /\ l[x].val = None THEN 0 ELSE x
  BY DEF Live
<1> HIDE DEF I, x
<1>7. QED
  BY <1>2, <1>3, <1>4, <1>5, <1>6, Zenon DEF I, x

\* conf_compress() copies an item if it is one to keep: the tree, of which
\* part is already that of the other slot, tells the same as a search.
LEMMA KeptFact ==
    ASSUME NEW l \in Seq(Item), l = log[cur], NEW o \in Seq(Item),
           next \in 1 .. Len(l), Copied(l, o, next), cached \in BOOLEAN
    PROVE  Kept(l[next]) <=> Keeps(l, next)
<1> DEFINE t == l[next]
           n == t.name
<1>1. Len(l) \in Nat /\ t \in Item
  BY ItemsFact
<1>2. CASE t = Orphan
  BY <1>2 DEF Kept, Keeps
<1>3. CASE t # Orphan
  <2>1. t \in Put /\ n \in Name /\ next \in Items(l, n)
    <3>1. t \in Put /\ n \in Name
      BY <1>1, <1>3, ItemFact DEF Item
    <3>2. QED
      BY <3>1, ItemsFact
  <2>2. (t.fact <=> next \in FactItems(l, n)) /\ t.fact \in BOOLEAN
    BY <2>1, ItemsFact, ItemFact
  <2>3. ASSUME cached, t.val # None
        PROVE  tree[n] \in 1 .. next <=> next = Latest(Items(l, n))
    <3>1. tree[n] = IF Items(o, n) = {} THEN Live(l, n)
                    ELSE Latest(Items(o, n))
      BY <2>1, <2>3 DEF Copied
    <3>2. CASE Items(o, n) = {}
      <4>1. tree[n] = Live(l, n)
        BY <3>1, <3>2
      <4>2. next <= Latest(Items(l, n)) /\ next \in Int
            /\ Latest(Items(l, n)) \in Int /\ Live(l, n) \in Int
        BY <1>1, <2>1, LiveFacts
      <4>3. ASSUME next = Latest(Items(l, n))
            PROVE  Live(l, n) = next
        BY <2>1, <2>3, <4>3, LiveFacts
      <4>4. Live(l, n) # 0 => Live(l, n) = Latest(Items(l, n))
        BY <2>1, LiveFacts
      <4>5. QED
        BY <4>1, <4>2, <4>3, <4>4
    <3>3. CASE Items(o, n) # {}
      <4>1. PICK i \in KeptItems(l, n, next) : TRUE
        BY <2>1, <3>3 DEF Copied
      <4>2. i < next /\ i \in Items(l, n) /\ Keeps(l, i) /\ l[i].name = n
        BY <2>1, <4>1, ItemsFact DEF KeptItems
      <4>3. i = Latest(Items(l, n))
        BY <2>3, <4>2 DEF Keeps
      <4>4. next <= i /\ i \in Int /\ next \in Int
        BY <1>1, <2>1, <4>3, LiveFacts
      <4>5. QED
        BY <4>2, <4>4
    <3>4. QED
      BY <3>2, <3>3
  <2>4. ASSUME ~cached
        PROVE  (\E i \in Items(l, n) :
                    i > next /\ (t.fact => l[i].fact))
                <=> next # Latest(IF t.fact THEN FactItems(l, n)
                                  ELSE Items(l, n))
    <3>1. CASE t.fact
      <4>1. next \in FactItems(l, n) /\ FactItems(l, n) \subseteq 1 .. Len(l)
            /\ FactItems(l, n) \subseteq Items(l, n)
        BY <2>1, <2>2, <3>1, ItemsFact
      <4>2. \A i \in Items(l, n) : l[i].fact <=> i \in FactItems(l, n)
        BY <2>1, ItemsFact
      <4>3. (\E i \in FactItems(l, n) : i > next)
                <=> next # Latest(FactItems(l, n))
        BY <1>1, <4>1, NotLast
      <4>4. QED
        BY <3>1, <4>1, <4>2, <4>3
    <3>2. CASE ~t.fact
      <4>1. Items(l, n) \subseteq 1 .. Len(l)
        BY <2>1, ItemsFact
      <4>2. (\E i \in Items(l, n) : i > next) <=> next # Latest(Items(l, n))
        BY <1>1, <2>1, <4>1, NotLast
      <4>3. QED
        BY <3>2, <4>2
    <3>3. QED
      BY <3>1, <3>2
  <2>5. CASE cached
    BY <1>3, <2>3, <2>5 DEF Kept, Keeps, IsLast
  <2>6. CASE ~cached
    BY <1>3, <2>4, <2>6 DEF Kept, Keeps, IsLast
  <2>7. QED
    BY <2>5, <2>6
<1>4. QED
  BY <1>2, <1>3

\* What is copied does not depend on the copy.
LEMMA KeepsSame ==
    ASSUME cached' = cached, reset' = reset, NEW l, NEW n, NEW k
    PROVE  /\ \A i : Keeps(l, i)' <=> Keeps(l, i)
           /\ KeptItems(l, n, k)' = KeptItems(l, n, k)
           /\ KeptFacts(l, n, k)' = KeptFacts(l, n, k)
<1>1. \A i : Keeps(l, i)' <=> Keeps(l, i)
  BY DEF Keeps
<1>2. QED
  BY <1>1 DEF KeptItems, KeptFacts

\* Nor does what is copied so far, but on the places that were noted.
LEMMA CopiedSame ==
    ASSUME cached' = cached, reset' = reset, off' = off, tree' = tree,
           tfact' = tfact, Copied(log[cur], log[other], next),
           (log[cur])' = log[cur], (log[other])' = log[other], next' = next
    PROVE  Copied(log[cur], log[other], next)'
<1>1. PICK l, o, k : l = log[cur] /\ o = log[other] /\ k = next
  OBVIOUS
<1>2. /\ \A i : Keeps(l, i)' <=> Keeps(l, i)
      /\ \A n : /\ KeptItems(l, n, k)' = KeptItems(l, n, k)
                /\ KeptFacts(l, n, k)' = KeptFacts(l, n, k)
  BY KeepsSame
<1>3. Copied(l, o, k)
  BY <1>1
<1>4. Copied(l, o, k)'
  BY <1>2, <1>3 DEF Copied
<1>5. QED
  BY <1>1, <1>4

\* The copy starts with nothing.
LEMMA CopyStart ==
    ASSUME NEW l \in Seq(Item), off' = 0,
           cached' => \A n \in Name : tree'[n] = Live(l, n)
    PROVE  Copied(l, <<>>, 1)'
<1>1. Len(<<>>) = 0 /\ \A n : Items(<<>>, n) = {} /\ FactItems(<<>>, n) = {}
  BY DEF Items, FactItems
<1>2. \A n \in Name : KeptItems(l, n, 1)' = {} /\ KeptFacts(l, n, 1)' = {}
  <2>1. SUFFICES ASSUME NEW n \in Name
                 PROVE  KeptItems(l, n, 1)' = {} /\ KeptFacts(l, n, 1)' = {}
    OBVIOUS
  <2>2. \A i \in Items(l, n) : ~(i < 1)
    BY ItemsFact
  <2>3. QED
    BY <2>2, ItemsFact DEF KeptItems, KeptFacts
<1>3. QED
  BY <1>1, <1>2 DEF Copied

\* An item is copied to the end of the other slot.
LEMMA CopyKept ==
    ASSUME NEW l \in Seq(Item), NEW o \in Seq(Item), NEW k \in 1 .. Len(l),
           Copied(l, o, k), Keeps(l, k), l[k] \in Put,
           cached' = cached, reset' = reset, off' = off + 1,
           tree \in [Name -> 0 .. Size], tfact \in [Name -> 0 .. Size],
           cached => tree' = [tree EXCEPT ![l[k].name] = off + 1],
           cached => tfact' = [tfact EXCEPT ![l[k].name] =
                                    IF l[k].fact THEN off + 1 ELSE @]
    PROVE  Copied(l, Append(o, l[k]), k + 1)'
<1> DEFINE t == l[k]
           r == Append(o, t)
           m == t.name
<1>1. /\ Len(l) \in Nat /\ Len(o) \in Nat /\ off = Len(o) /\ off < k
      /\ k \in Int /\ m \in Name /\ t \in Item /\ t.fact \in BOOLEAN
      /\ k \in Items(l, m)
  BY ItemsFact, ItemFact DEF Copied
<1>2. r \in Seq(Item) /\ Len(r) = Len(o) + 1 /\ Grown(o, r, t)
  BY <1>1, AppendGrown
<1>3. /\ r[Len(r)] = t /\ \A j \in 1 .. Len(o) : r[j] = o[j]
      /\ \A j \in 1 .. Len(r) : j \in 1 .. Len(o) \/ j = Len(r)
  BY <1>1, <1>2
<1>4. \A n \in Name :
        /\ Items(r, n) = IF m = n THEN Items(o, n) \cup {Len(r)}
                         ELSE Items(o, n)
        /\ FactItems(r, n) = IF m = n /\ t.fact
                             THEN FactItems(o, n) \cup {Len(r)}
                             ELSE FactItems(o, n)
        /\ Latest(Items(r, n)) = IF m = n THEN Len(r)
                                 ELSE Latest(Items(o, n))
        /\ Latest(FactItems(r, n)) = IF m = n /\ t.fact THEN Len(r)
                                     ELSE Latest(FactItems(o, n))
  <2> HIDE DEF r, t, m
  <2>1. t.name = m
    BY DEF m
  <2>2. \A n \in Name :
            /\ FactItems(r, n) = IF t.name = n /\ t.fact
                                 THEN FactItems(o, n) \cup {Len(r)}
                                 ELSE FactItems(o, n)
            /\ Latest(Items(r, n)) = IF t.name = n THEN Len(r)
                                     ELSE Latest(Items(o, n))
            /\ Latest(FactItems(r, n)) = IF t.name = n /\ t.fact THEN Len(r)
                                         ELSE Latest(FactItems(o, n))
    BY <1>1, <1>2, GrownFact
  <2>3. \A n \in Name : Items(r, n) = IF t.name = n
                                        THEN Items(o, n) \cup {Len(r)}
                                        ELSE Items(o, n)
    BY <1>2 DEF Grown
  <2>4. QED
    BY <2>1, <2>2, <2>3
<1> HIDE DEF r
<1>5. \A n \in Name :
        /\ KeptItems(l, n, k + 1)' = IF m = n THEN KeptItems(l, n, k) \cup {k}
                                     ELSE KeptItems(l, n, k)
        /\ KeptFacts(l, n, k + 1)' = IF m = n /\ t.fact
                                     THEN KeptFacts(l, n, k) \cup {k}
                                     ELSE KeptFacts(l, n, k)
        /\ KeptItems(l, n, k) \subseteq 1 .. k - 1
        /\ KeptFacts(l, n, k) \subseteq 1 .. k - 1
  <2>1. SUFFICES ASSUME NEW n \in Name
                 PROVE
        /\ KeptItems(l, n, k + 1)' = IF m = n THEN KeptItems(l, n, k) \cup {k}
                                     ELSE KeptItems(l, n, k)
        /\ KeptFacts(l, n, k + 1)' = IF m = n /\ t.fact
                                     THEN KeptFacts(l, n, k) \cup {k}
                                     ELSE KeptFacts(l, n, k)
        /\ KeptItems(l, n, k) \subseteq 1 .. k - 1
        /\ KeptFacts(l, n, k) \subseteq 1 .. k - 1
    OBVIOUS
  <2>2. /\ KeptItems(l, n, k + 1)' = KeptItems(l, n, k + 1)
        /\ KeptFacts(l, n, k + 1)' = KeptFacts(l, n, k + 1)
    BY KeepsSame
  <2>3. /\ Items(l, n) \subseteq 1 .. Len(l)
        /\ FactItems(l, n) \subseteq Items(l, n)
        /\ k \in Items(l, n) <=> m = n
        /\ k \in FactItems(l, n) <=> m = n /\ t.fact
    BY <1>1, ItemsFact, ItemFact
  <2>4. \A i \in 1 .. Len(l) : i < k + 1 <=> i < k \/ i = k
    BY <1>1
  <2>5. \A i \in 1 .. Len(l) : i < k => i \in 1 .. k - 1
    BY <1>1
  <2>6. /\ KeptItems(l, n, k) \subseteq 1 .. k - 1
        /\ KeptFacts(l, n, k) \subseteq 1 .. k - 1
    BY <2>3, <2>5 DEF KeptItems, KeptFacts
  <2>7. \A i : /\ i \in KeptItems(l, n, k + 1) <=>
                    i \in KeptItems(l, n, k) \/ (i = k /\ m = n)
               /\ i \in KeptFacts(l, n, k + 1) <=>
                    i \in KeptFacts(l, n, k) \/ (i = k /\ m = n /\ t.fact)
    BY <1>1, <2>3, <2>4 DEF KeptItems, KeptFacts
  <2>8. KeptItems(l, n, k + 1) = IF m = n THEN KeptItems(l, n, k) \cup {k}
                                 ELSE KeptItems(l, n, k)
    BY <2>7
  <2>9. KeptFacts(l, n, k + 1) = IF m = n /\ t.fact
                                 THEN KeptFacts(l, n, k) \cup {k}
                                 ELSE KeptFacts(l, n, k)
    BY <2>7
  <2>10. QED
    BY <2>2, <2>6, <2>8, <2>9
<1>6. ASSUME NEW S, S \subseteq 1 .. k - 1
      PROVE  Latest(S \cup {k}) = k
  <2>1. S \cup {k} \subseteq 1 .. k /\ k \in S \cup {k}
        /\ \A y \in S \cup {k} : y <= k
    BY <1>1, <1>6
  <2>2. k \in Nat
    BY <1>1
  <2>3. QED
    BY <2>1, <2>2, LatestIs
<1>7. ASSUME NEW n \in Name
      PROVE  /\ KeptItems(l, n, k + 1)' = {} <=> Items(r, n) = {}
             /\ Items(r, n) # {} =>
                r[Latest(Items(r, n))] = l[Latest(KeptItems(l, n, k + 1)')]
             /\ KeptFacts(l, n, k + 1)' = {} <=> FactItems(r, n) = {}
             /\ FactItems(r, n) # {} =>
                r[Latest(FactItems(r, n))] = l[Latest(KeptFacts(l, n, k + 1)')]
  <2>1. /\ KeptItems(l, n, k) = {} <=> Items(o, n) = {}
        /\ Items(o, n) # {} =>
                o[Latest(Items(o, n))] = l[Latest(KeptItems(l, n, k))]
        /\ KeptFacts(l, n, k) = {} <=> FactItems(o, n) = {}
        /\ FactItems(o, n) # {} =>
                o[Latest(FactItems(o, n))] = l[Latest(KeptFacts(l, n, k))]
    BY DEF Copied
  <2>2. /\ Items(o, n) # {} => Latest(Items(o, n)) \in 1 .. Len(o)
        /\ FactItems(o, n) # {} => Latest(FactItems(o, n)) \in 1 .. Len(o)
    BY ItemsFact, LatestFact
  <2>3. /\ Items(o, n) # {} => r[Latest(Items(o, n))] = o[Latest(Items(o, n))]
        /\ FactItems(o, n) # {} =>
                r[Latest(FactItems(o, n))] = o[Latest(FactItems(o, n))]
    BY <1>3, <2>2
  <2>4. /\ Latest(KeptItems(l, n, k) \cup {k}) = k
        /\ Latest(KeptFacts(l, n, k) \cup {k}) = k
    BY <1>5, <1>6
  <2>5. CASE m = n
    <3>1. /\ Items(r, n) # {} /\ KeptItems(l, n, k + 1)' # {}
          /\ r[Latest(Items(r, n))] = t
          /\ Latest(KeptItems(l, n, k + 1)') = k
      BY <1>3, <1>4, <1>5, <2>4, <2>5
    <3>2. CASE t.fact
      BY <1>3, <1>4, <1>5, <2>4, <2>5, <3>1, <3>2
    <3>3. CASE ~t.fact
      BY <1>4, <1>5, <2>1, <2>3, <2>5, <3>1, <3>3
    <3>4. QED
      BY <3>2, <3>3
  <2>6. CASE m # n
    BY <1>4, <1>5, <2>1, <2>3, <2>6
  <2>7. QED
    BY <2>5, <2>6
<1>8. ASSUME NEW j \in 1 .. Len(r)
      PROVE  \E i \in 1 .. Len(l) : i < k + 1 /\ Keeps(l, i)' /\ r[j] = l[i]
  <2>1. \A i : Keeps(l, i)' <=> Keeps(l, i)
    BY KeepsSame
  <2>2. CASE j = Len(r)
    <3>1. k < k + 1 /\ r[j] = l[k] /\ Keeps(l, k)'
      BY <1>1, <1>3, <2>1, <2>2
    <3>2. QED
      BY <3>1
  <2>3. CASE j \in 1 .. Len(o)
    <3>1. PICK i \in 1 .. Len(l) : i < k /\ Keeps(l, i) /\ o[j] = l[i]
      BY <2>3 DEF Copied
    <3>2. i < k + 1
      BY <1>1, <3>1
    <3>3. QED
      BY <1>3, <2>1, <2>3, <3>1, <3>2
  <2>4. QED
    BY <1>3, <2>2, <2>3
<1>9. ASSUME NEW j \in 1 .. Len(o), o[j].name = m, o[j].fact = t.fact
      PROVE  FALSE
  <2>1. PICK i \in 1 .. Len(l) : i < k /\ Keeps(l, i) /\ o[j] = l[i]
    BY DEF Copied
  <2>2. i = k
    BY <1>9, <2>1 DEF Keeps
  <2>3. QED
    BY <1>1, <2>1, <2>2
<1>10. ASSUME NEW j1 \in 1 .. Len(r), NEW j2 \in 1 .. Len(r),
              r[j1].name = r[j2].name, r[j1].fact = r[j2].fact
       PROVE  j1 = j2
  <2>1. CASE j1 \in 1 .. Len(o) /\ j2 \in 1 .. Len(o)
    BY <1>3, <1>10, <2>1 DEF Copied
  <2>2. CASE j1 = Len(r) /\ j2 \in 1 .. Len(o)
    BY <1>3, <1>9, <1>10, <2>2
  <2>3. CASE j1 \in 1 .. Len(o) /\ j2 = Len(r)
    BY <1>3, <1>9, <1>10, <2>3
  <2>4. QED
    BY <1>3, <2>1, <2>2, <2>3
<1>11. ASSUME cached', NEW n \in Name
       PROVE  /\ tree'[n] = IF Items(r, n) = {} THEN Live(l, n)
                            ELSE Latest(Items(r, n))
              /\ FactItems(r, n) # {} => tfact'[n] = Latest(FactItems(r, n))
  <2>1. /\ tree[n] = IF Items(o, n) = {} THEN Live(l, n)
                     ELSE Latest(Items(o, n))
        /\ FactItems(o, n) # {} => tfact[n] = Latest(FactItems(o, n))
    BY <1>11 DEF Copied
  <2>2. /\ tree'[n] = IF m = n THEN off + 1 ELSE tree[n]
        /\ tfact'[n] = IF m = n /\ t.fact THEN off + 1 ELSE tfact[n]
    BY <1>1, <1>11
  <2>3. Len(r) = off + 1
    BY <1>1, <1>2
  <2>4. QED
    BY <1>4, <2>1, <2>2, <2>3
<1>12. off' = Len(r) /\ off' < k + 1
  BY <1>1, <1>2
<1>13. Copied(l, r, k + 1)'
  BY <1>7, <1>8, <1>10, <1>11, <1>12 DEF Copied
<1>14. QED
  BY <1>13 DEF r

\* An item that is not copied.
LEMMA CopySkip ==
    ASSUME NEW l \in Seq(Item), NEW o \in Seq(Item), NEW k \in 1 .. Len(l),
           Copied(l, o, k), ~Keeps(l, k),
           cached' = cached, reset' = reset, off' = off,
           tree' = tree, tfact' = tfact
    PROVE  Copied(l, o, k + 1)'
<1>1. /\ \A i : Keeps(l, i)' <=> Keeps(l, i)
      /\ \A n : /\ KeptItems(l, n, k + 1)' = KeptItems(l, n, k + 1)
                /\ KeptFacts(l, n, k + 1)' = KeptFacts(l, n, k + 1)
  BY KeepsSame
<1>2. Len(l) \in Nat /\ k \in Int /\ Len(o) \in Nat /\ off = Len(o) /\ off < k
  BY ItemsFact DEF Copied
<1>3. \A i \in 1 .. Len(l) : (i < k => i < k + 1) /\ (i < k + 1 => i < k \/ i = k)
  BY <1>2
<1>4. ASSUME NEW n \in Name
      PROVE  /\ KeptItems(l, n, k + 1) = KeptItems(l, n, k)
             /\ KeptFacts(l, n, k + 1) = KeptFacts(l, n, k)
  <2>1. Items(l, n) \subseteq 1 .. Len(l) /\ FactItems(l, n) \subseteq 1 .. Len(l)
    BY ItemsFact
  <2>2. QED
    BY <1>3, <2>1 DEF KeptItems, KeptFacts
<1>5. off' = Len(o) /\ off' < k + 1
  BY <1>2
<1>6. \A j \in 1 .. Len(o) :
        \E i \in 1 .. Len(l) : i < k + 1 /\ Keeps(l, i)' /\ o[j] = l[i]
  BY <1>1, <1>3 DEF Copied
<1>7. QED
  BY <1>1, <1>4, <1>5, <1>6 DEF Copied

\* No name has both factory items and deletions.
NoMix == \A p, q \in Put : p.name = q.name /\ p.fact => q.val # None

\* A factory reset brings back what a name was last given as a factory item.
FactOK(l) == \A n \in Name : FactItems(l, n) # {} =>
                    l[Latest(FactItems(l, n))].val \in factory[n]

\* What is copied of a name when all items have been looked at.
LEMMA AllKept ==
    ASSUME NEW l \in Seq(Item), NEW k \in Int, k > Len(l), NEW n \in Name
    PROVE  /\ \A i : i \in KeptItems(l, n, k) <=> i \in Items(l, n) /\ Keeps(l, i)
           /\ \A i : i \in KeptFacts(l, n, k) <=>
                            i \in FactItems(l, n) /\ Keeps(l, i)
           /\ KeptItems(l, n, k) \subseteq 1 .. Len(l)
           /\ KeptFacts(l, n, k) \subseteq 1 .. Len(l)
           /\ KeptItems(l, n, k) # {} =>
                    /\ Latest(KeptItems(l, n, k)) \in KeptItems(l, n, k)
                    /\ \A y \in KeptItems(l, n, k) :
                            y <= Latest(KeptItems(l, n, k))
           /\ KeptFacts(l, n, k) # {} =>
                    Latest(KeptFacts(l, n, k)) \in KeptFacts(l, n, k)
<1>1. /\ Items(l, n) \subseteq 1 .. Len(l) /\ FactItems(l, n) \subseteq 1 .. Len(l)
      /\ Len(l) \in Nat
  BY ItemsFact
<1>2. \A i \in 1 .. Len(l) : i < k
  BY <1>1
<1>3. /\ \A i : i \in KeptItems(l, n, k) <=> i \in Items(l, n) /\ Keeps(l, i)
      /\ \A i : i \in KeptFacts(l, n, k) <=> i \in FactItems(l, n) /\ Keeps(l, i)
  BY <1>1, <1>2 DEF KeptItems, KeptFacts
<1>4. /\ KeptItems(l, n, k) \subseteq 1 .. Len(l)
      /\ KeptFacts(l, n, k) \subseteq 1 .. Len(l)
  BY <1>1, <1>3
<1>5. QED
  BY <1>1, <1>3, <1>4, LatestFact

\* The slot copied to has the values of the one copied from.
LEMMA CopyValue ==
    ASSUME NEW l \in Seq(Item), NEW o \in Seq(Item), NEW k \in Int,
           k > Len(l), Copied(l, o, k), ~reset, cached \in BOOLEAN,
           NEW n \in Name
    PROVE  /\ cached => tree[n] = Live(o, n)
           /\ cached \/ NoMix => Value(o, n) = Value(l, n)
<1> DEFINE A == KeptItems(l, n, k)
           i == Live(l, n)
           w == Latest(Items(l, n))
<1>1. /\ \A j : j \in A <=> j \in Items(l, n) /\ Keeps(l, j)
      /\ A \subseteq 1 .. Len(l)
      /\ A # {} => Latest(A) \in A /\ \A y \in A : y <= Latest(A)
  BY AllKept
<1>2. /\ A = {} <=> Items(o, n) = {}
      /\ Items(o, n) # {} => o[Latest(Items(o, n))] = l[Latest(A)]
      /\ cached => tree[n] = IF Items(o, n) = {} THEN Live(l, n)
                             ELSE Latest(Items(o, n))
  BY DEF Copied
<1>3. /\ i \in 0 .. Len(l)
      /\ i # 0 => i = w /\ i \in Items(l, n) /\ l[i].val # None
      /\ i = 0 => Items(l, n) = {} \/ (w \in Items(l, n) /\ l[w].val = None)
      /\ \A j \in Items(l, n) : j <= w /\ j # 0
      /\ \A j \in Items(l, n) : l[j] \in Put /\ l[j].name = n /\ l[j] # Orphan
      /\ \A j \in FactItems(l, n) : j <= Latest(FactItems(l, n))
      /\ FactItems(l, n) \subseteq Items(l, n) /\ Len(l) \in Nat
      /\ \A j \in Items(l, n) : l[j].fact <=> j \in FactItems(l, n)
  BY LiveFacts, ItemsFact, ItemFact
<1>4. CASE i = 0 /\ (cached \/ NoMix)
  <2>1. ASSUME NEW j \in A
        PROVE  FALSE
    <3>1. j \in Items(l, n) /\ Keeps(l, j) /\ l[j].val # None
          /\ l[j].name = n /\ l[j] \in Put
      BY <1>1, <1>3, <2>1 DEF Keeps
    <3>2. w \in Items(l, n) /\ l[w].val = None /\ l[w] \in Put
          /\ l[w].name = n
      BY <1>3, <1>4, <3>1
    <3>3. CASE cached \/ ~l[j].fact
      <4>1. j = w
        BY <3>1, <3>3 DEF Keeps
      <4>2. QED
        BY <3>1, <3>2, <4>1
    <3>4. CASE ~cached /\ l[j].fact
      BY <1>4, <3>1, <3>2, <3>4 DEF NoMix
    <3>5. QED
      BY <3>3, <3>4
  <2>2. Items(o, n) = {}
    BY <1>2, <2>1
  <2>3. Latest(Items(o, n)) = 0
    BY <2>2 DEF Latest
  <2>4. Live(o, n) = 0
    BY <2>3 DEF Live
  <2>5. QED
    BY <1>2, <1>4, <2>2, <2>4 DEF Value
<1>5. CASE i # 0
  <2>1. Keeps(l, i)
    <3>1. l[i] # Orphan /\ l[i].val # None /\ l[i].name = n /\ i = w
          /\ i \in Items(l, n)
      BY <1>3, <1>5
    <3>2. l[i].fact => i = Latest(FactItems(l, n))
      <4>1. SUFFICES ASSUME l[i].fact PROVE i = Latest(FactItems(l, n))
        OBVIOUS
      <4>2. i \in FactItems(l, n) /\ \A y \in FactItems(l, n) : y <= i
        BY <1>3, <3>1, <4>1
      <4>3. FactItems(l, n) \subseteq 1 .. Len(l)
        BY ItemsFact
      <4>4. QED
        BY <1>3, <4>2, <4>3, LatestIs
    <3>3. QED
      BY <3>1, <3>2 DEF Keeps
  <2>2. i \in A /\ \A y \in A : y <= i
    BY <1>1, <1>3, <1>5, <2>1
  <2>3. Latest(A) = i
    BY <1>1, <1>3, <2>2, LatestIs
  <2>4. /\ Items(o, n) # {} /\ o[Latest(Items(o, n))] = l[i]
    BY <1>2, <2>2, <2>3
  <2>5. Latest(Items(o, n)) # 0
    BY <2>4, LiveFacts
  <2>6. Live(o, n) = Latest(Items(o, n))
    BY <1>3, <1>5, <2>4, <2>5 DEF Live
  <2>7. Value(o, n) = l[i].val /\ Value(l, n) = l[i].val
    BY <1>5, <2>4, <2>5, <2>6 DEF Value
  <2>8. QED
    BY <1>2, <2>4, <2>6, <2>7
<1>6. CASE ~(cached \/ NoMix)
  BY <1>6
<1>7. QED
  BY <1>4, <1>5, <1>6

\* Its factory items are the last ones that were written, and if nothing else
\* is copied, its values are theirs.
LEMMA CopyFacts ==
    ASSUME NEW l \in Seq(Item), NEW o \in Seq(Item), NEW k \in Int,
           k > Len(l), Copied(l, o, k), cached \in BOOLEAN, FactOK(l)
    PROVE  /\ FactOK(o)
           /\ reset => \A n \in Name : Value(o, n) \in factory[n] \cup {None}
<1>1. ASSUME NEW n \in Name, NEW j \in FactItems(l, n), Keeps(l, j)
      PROVE  l[j].val \in factory[n]
  <2>1. l[j].fact /\ l[j].name = n /\ j \in Items(l, n)
        /\ FactItems(l, n) \subseteq Items(l, n) /\ Len(l) \in Nat
        /\ FactItems(l, n) \subseteq 1 .. Len(l)
    BY ItemsFact
  <2>2. j = Latest(FactItems(l, n))
    <3>1. CASE cached
      <4>1. j = Latest(Items(l, n))
        BY <1>1, <2>1, <3>1 DEF Keeps
      <4>2. \A y \in FactItems(l, n) : y <= j
        BY <2>1, <4>1, LiveFacts
      <4>3. QED
        BY <2>1, <4>2, LatestIs
    <3>2. CASE ~cached
      BY <1>1, <2>1, <3>2 DEF Keeps
    <3>3. QED
      BY <3>1, <3>2
  <2>3. QED
    BY <2>2 DEF FactOK
<1>2. ASSUME NEW n \in Name, FactItems(o, n) # {}
      PROVE  o[Latest(FactItems(o, n))].val \in factory[n]
  <2>1. /\ KeptFacts(l, n, k) # {}
        /\ o[Latest(FactItems(o, n))] = l[Latest(KeptFacts(l, n, k))]
    BY <1>2 DEF Copied
  <2>2. Latest(KeptFacts(l, n, k)) \in FactItems(l, n)
        /\ Keeps(l, Latest(KeptFacts(l, n, k)))
    BY <2>1, AllKept
  <2>3. QED
    BY <1>1, <2>1, <2>2
<1>3. ASSUME reset, NEW n \in Name, Value(o, n) # None
      PROVE  Value(o, n) \in factory[n]
  <2>1. Live(o, n) # 0 /\ Value(o, n) = o[Live(o, n)].val
    BY <1>3 DEF Value
  <2>2. Items(o, n) # {} /\ Live(o, n) = Latest(Items(o, n))
    BY <2>1, LiveFacts
  <2>3. /\ KeptItems(l, n, k) # {}
        /\ o[Latest(Items(o, n))] = l[Latest(KeptItems(l, n, k))]
    BY <2>2 DEF Copied
  <2>4. Latest(KeptItems(l, n, k)) \in Items(l, n)
        /\ Keeps(l, Latest(KeptItems(l, n, k)))
    BY <2>3, AllKept
  <2>5. Latest(KeptItems(l, n, k)) \in FactItems(l, n)
    BY <1>3, <2>4, ItemsFact DEF Keeps
  <2>6. QED
    BY <1>1, <2>1, <2>2, <2>3, <2>4, <2>5
<1>4. QED
  BY <1>2, <1>3 DEF FactOK

\* There are finitely many keys.
LEMMA KeysFinite == IsFiniteSet(Keys) /\ Cardinality(Keys) \in Nat
<1>1. IsFiniteSet(BOOLEAN)
  <2>1. IsFiniteSet({TRUE})
    BY FS_Singleton
  <2>2. IsFiniteSet({TRUE} \cup {FALSE})
    BY <2>1, FS_AddElement
  <2>3. BOOLEAN = {TRUE} \cup {FALSE}
    OBVIOUS
  <2>4. QED
    BY <2>2, <2>3
<1>2. IsFiniteSet(Name \X BOOLEAN)
  BY <1>1, ConfAssumption, FS_Product
<1>3. Keys \in SUBSET (Name \X BOOLEAN)
  BY ItemFact DEF Keys
<1>4. QED
  BY <1>2, <1>3, FS_Subset, FS_CardinalityType

\* The copy has no more items than there are keys.
LEMMA CopyFits ==
    ASSUME NEW l \in Seq(Item), NEW o \in Seq(Item), NEW k \in Int,
           Copied(l, o, k)
    PROVE  off <= Cardinality(Keys) /\ off = Len(o)
<1> DEFINE f == [j \in 1 .. Len(o) |-> <<o[j].name, o[j].fact>>]
<1>1. Len(o) \in Nat /\ off = Len(o)
  BY ItemsFact DEF Copied
<1>2. ASSUME NEW j \in 1 .. Len(o)
      PROVE  o[j] \in Put /\ <<o[j].name, o[j].fact>> \in Keys
  <2>1. PICK i \in 1 .. Len(l) : Keeps(l, i) /\ o[j] = l[i]
    BY DEF Copied
  <2>2. l[i] \in Item /\ l[i] # Orphan
    BY <2>1, ItemsFact DEF Keeps
  <2>3. o[j] \in Put
    BY <2>1, <2>2 DEF Item
  <2>4. QED
    BY <2>3 DEF Keys
<1>3. f \in [1 .. Len(o) -> Keys]
  BY <1>2
<1>4. ASSUME NEW j1 \in 1 .. Len(o), NEW j2 \in 1 .. Len(o), f[j1] = f[j2]
      PROVE  j1 = j2
  <2>1. o[j1].name = o[j2].name /\ o[j1].fact = o[j2].fact
    BY <1>4
  <2>2. QED
    BY <2>1 DEF Copied
<1>5. f \in Injection(1 .. Len(o), Keys)
  BY <1>3, <1>4 DEF Injection, IsInjective
<1> HIDE DEF f
<1>6. Cardinality(1 .. Len(o)) <= Cardinality(Keys)
  BY <1>5, KeysFinite, FS_Injection
<1>7. Cardinality(1 .. Len(o)) = Len(o)
  <2>1. 1 \in Int /\ Len(o) \in Int /\ (1 > Len(o) => Len(o) = 0)
        /\ Len(o) - 1 + 1 = Len(o)
    BY <1>1
  <2>2. QED
    BY <2>1, FS_Interval
<1>8. QED
  BY <1>1, <1>6, <1>7

-----------------------------------------------------------------------------
(* The inductive invariant.                                                *)

\* There is room for what is live and for one item more.
Room == Cardinality(Keys) < Size

\* Which of the slots has a head.
Heads ==
    /\ not_valid => pc = "idle" /\ log[cur] = <<>>
    /\ pc \in {"idle", "value", "name", "copy", "restart"} =>
            head[other] = NoHead /\ (not_valid <=> head[cur] = NoHead)
    /\ pc = "erase" => head[cur] # NoHead /\ head[other] # NoHead
    /\ pc = "rest" => head[cur] = NoHead /\ head[other] # NoHead

\* Between the writes conf_tree is that of the current slot, and the other
\* slot is erased.
Settled ==
    pc \in {"idle", "value"} =>
        /\ off = Len(log[cur]) /\ log[other] = <<>>
        /\ cached => \A n \in Name : tree[n] = Live(log[cur], n)

\* An item is put: conf_tree has it before flash has its name.
Putting ==
    /\ pc \in {"value", "name"} => op \in Put /\ off < Size
    /\ pc = "name" =>
        /\ Len(log[cur]) = off + 1 /\ log[cur][off + 1] = Orphan
        /\ log[other] = <<>>
        /\ cached => \A n \in Name :
                tree[n] = IF n = op.name THEN IF op.val = None THEN 0 ELSE off + 1
                          ELSE Live(log[cur], n)

\* A slot is copied.
Copying ==
    pc \in {"copy", "erase", "rest"} =>
        /\ Copied(log[cur], log[other], next)
        /\ ~reset => op \in Put
        /\ pc # "copy" => next > Len(log[cur])

Inv == ConfTypeOK /\ Heads /\ Settled /\ Putting /\ Copying

\* The two slots.
LEMMA SlotFact ==
    \A s \in Slot : /\ OtherSlot(s) \in Slot /\ OtherSlot(s) # s
                    /\ OtherSlot(OtherSlot(s)) = s
                    /\ \A r \in Slot : r = s \/ r = OtherSlot(s)
  BY DEF Slot, OtherSlot

\* What is in the slots.
LEMMA LogFact ==
    ASSUME ConfTypeOK
    PROVE  /\ cur \in Slot /\ other \in Slot /\ other # cur
           /\ OtherSlot(other) = cur /\ DOMAIN log = Slot
           /\ \A s \in Slot : s = cur \/ s = other
           /\ \A s \in Slot : /\ log[s] \in Seq(Item) /\ Len(log[s]) \in 0 .. Size
                              /\ DOMAIN log[s] = 1 .. Len(log[s])
<1>1. cur \in Slot /\ log \in [Slot -> Seq(Item)]
      /\ \A s \in Slot : Len(log[s]) <= Size
  BY DEF ConfTypeOK
<1>2. Size \in Nat
  BY ConfAssumption
<1>3. \A s \in Slot : log[s] \in Seq(Item)
  BY <1>1
<1>4. \A s \in Slot : Len(log[s]) \in Nat /\ DOMAIN log[s] = 1 .. Len(log[s])
  BY <1>3
<1>5. QED
  BY <1>1, <1>2, <1>3, <1>4, SlotFact DEF other

\* Initially nothing is there.
LEMMA InitInv == ASSUME Init PROVE Inv
<1>1. <<>> \in Seq(Item) /\ Len(<<>>) = 0
  OBVIOUS
<1>2. /\ head \in [Slot -> 0 .. GenMod - 1 \cup {NoHead}]
      /\ log \in [Slot -> Seq(Item)] /\ \A s \in Slot : Len(log[s]) <= Size
  BY <1>1, ConfAssumption DEF Init
<1>3. /\ cur \in Slot /\ gen \in 0 .. GenMod - 1 /\ off \in 0 .. Size
      /\ not_valid \in BOOLEAN /\ cached \in BOOLEAN
      /\ op \in Put \cup {NoOp} /\ reset \in BOOLEAN /\ next \in 1 .. Size + 1
  <2>1. 0 \in 0 .. GenMod - 1 /\ 0 \in 0 .. Size /\ 1 \in 1 .. Size + 1
    BY ConfAssumption
  <2>2. QED
    BY <2>1 DEF Init, Slot
<1>4. /\ tree \in [Name -> 0 .. Size] /\ tfact \in [Name -> 0 .. Size]
      /\ may \in [Name -> SUBSET (Val \cup {None})]
      /\ factory \in [Name -> SUBSET (Val \cup {None})]
  BY ConfAssumption DEF Init
<1>5. pc = "down" /\ ~not_valid
  BY DEF Init
<1>6. QED
  BY <1>2, <1>3, <1>4, <1>5 DEF Inv, ConfTypeOK, Heads, Settled, Putting, Copying

-----------------------------------------------------------------------------
(* Every step keeps the invariant.                                         *)

\* The chosen slot is read, and the other one erased.
LEMMA LoadStep == ASSUME Inv, Load PROVE Inv'
<1> DEFINE c == Chosen
           l == IF not_valid' THEN <<>> ELSE log[c]
<1>1. ConfTypeOK /\ pc = "down" /\ ~not_valid
  BY DEF Inv, Load, Heads
<1>2. c \in Slot /\ OtherSlot(c) \in Slot /\ OtherSlot(c) # c
  BY SlotFact DEF Chosen, Newer, Slot
<1>3. /\ l \in Seq(Item) /\ Len(l) \in 0 .. Size /\ (not_valid' => l = <<>>)
  BY <1>1, <1>2, LogFact, ConfAssumption
<1>4. /\ cur' = c /\ (not_valid' <=> head[c] = NoHead) /\ pc' = "idle"
      /\ gen' = IF not_valid' THEN 0 ELSE head[c]
      /\ log' = [s \in Slot |-> IF s = c THEN l ELSE <<>>]
      /\ off' = Len(l) /\ cached' \in BOOLEAN /\ not_valid' \in BOOLEAN
      /\ tree' = [n \in Name |-> Live(l, n)]
      /\ tfact' = [n \in Name |-> IF Live(l, n) = 0 THEN 0 ELSE LiveFact(l, n)]
      /\ head' = [head EXCEPT ![OtherSlot(c)] = NoHead]
      /\ may' = [n \in Name |-> {Recovered(n)}]
      /\ UNCHANGED <<op, reset, next, factory>>
  BY DEF Load, LoadOff
<1>5. other' = OtherSlot(c)
  BY <1>4 DEF other
<1> HIDE DEF c, l
<1>6. log'[c] = l /\ log'[OtherSlot(c)] = <<>>
  BY <1>2, <1>4
<1>7. head'[c] = head[c] /\ head'[OtherSlot(c)] = NoHead
      /\ head' \in [Slot -> 0 .. GenMod - 1 \cup {NoHead}]
      /\ gen' \in 0 .. GenMod - 1
  <2>1. head \in [Slot -> 0 .. GenMod - 1 \cup {NoHead}]
        /\ 0 \in 0 .. GenMod - 1
    BY <1>1, ConfAssumption DEF ConfTypeOK
  <2>2. QED
    BY <1>2, <1>4, <2>1
<1>8. \A n \in Name : Live(l, n) \in 0 .. Size /\ LiveFact(l, n) \in 0 .. Size
  <2>1. SUFFICES ASSUME NEW n \in Name
                 PROVE  Live(l, n) \in 0 .. Size /\ LiveFact(l, n) \in 0 .. Size
    OBVIOUS
  <2>2. \A x \in 0 .. Len(l) : x \in 0 .. Size
    BY <1>3, ConfAssumption
  <2>3. Live(l, n) \in 0 .. Len(l)
    BY <1>3, LiveFacts
  <2>4. LiveFact(l, n) \in 0 .. Len(l)
    <3> DEFINE D == {i \in Items(l, n) : l[i].val = None}
               F == {i \in FactItems(l, n) : \A d \in D : i > d}
    <3>1. F \subseteq 1 .. Len(l) /\ Len(l) \in Nat
      BY <1>3, ItemsFact
    <3>2. LiveFact(l, n) = Latest(F)
      BY DEF LiveFact
    <3> HIDE DEF F
    <3>3. QED
      BY <3>1, <3>2, LatestFact
  <2>5. QED
    BY <2>2, <2>3, <2>4
<1>9. \A n \in Name : Recovered(n) \in Val \cup {None}
  <2>1. SUFFICES ASSUME NEW n \in Name, head[c] # NoHead
                 PROVE  Value(log[c], n) \in Val \cup {None}
    BY DEF Recovered, c
  <2>2. log[c] \in Seq(Item)
    BY <1>1, <1>2, LogFact
  <2>3. Live(log[c], n) # 0 => log[c][Live(log[c], n)] \in Put
    BY <2>2, LiveFacts, ItemsFact
  <2>4. QED
    BY <2>3, ItemFact DEF Value
<1>10. ConfTypeOK'
  <2>1. log' \in [Slot -> Seq(Item)] /\ \A s \in Slot : Len(log'[s]) <= Size
    <3>1. <<>> \in Seq(Item) /\ Len(<<>>) <= Size /\ Len(l) <= Size
      BY <1>3, ConfAssumption
    <3>2. QED
      BY <1>3, <1>4, <3>1
  <2>2. tree' \in [Name -> 0 .. Size] /\ tfact' \in [Name -> 0 .. Size]
    <3>1. 0 \in 0 .. Size
      BY ConfAssumption
    <3>2. QED
      BY <1>4, <1>8, <3>1
  <2>3. may' \in [Name -> SUBSET (Val \cup {None})]
    BY <1>4, <1>9
  <2>4. cur' \in Slot /\ off' \in 0 .. Size
    BY <1>2, <1>3, <1>4
  <2>5. QED
    BY <1>1, <1>4, <1>7, <2>1, <2>2, <2>3, <2>4 DEF ConfTypeOK
<1>11. Heads'
  BY <1>3, <1>4, <1>5, <1>6, <1>7 DEF Heads
<1>12. Settled'
  BY <1>4, <1>5, <1>6 DEF Settled
<1>13. QED
  BY <1>4, <1>10, <1>11, <1>12 DEF Inv, Putting, Copying

\* A head is written.
LEMMA SaveHeadStep == ASSUME Inv, SaveHead PROVE Inv'
<1>1. ConfTypeOK /\ Heads /\ Settled /\ pc = "idle" /\ not_valid
  BY DEF Inv, SaveHead
<1>2. /\ gen' = (gen + 1) % GenMod /\ head' = [head EXCEPT ![cur] = gen']
      /\ ~not_valid' /\ not_valid' \in BOOLEAN
      /\ UNCHANGED <<log, cur, off, cached, tree, tfact, pc, op, reset, next,
                     may, factory>>
  BY DEF SaveHead, call, ghost
<1>3. gen' \in 0 .. GenMod - 1 /\ gen' # NoHead
  BY <1>1, <1>2, ConfAssumption DEF ConfTypeOK
<1>4. other' = other
  BY <1>2 DEF other
<1>5. head'[cur] # NoHead /\ head'[other] = head[other]
      /\ head' \in [Slot -> 0 .. GenMod - 1 \cup {NoHead}]
  BY <1>1, <1>2, <1>3, LogFact DEF ConfTypeOK
<1>6. ConfTypeOK'
  BY <1>1, <1>2, <1>3, <1>5 DEF ConfTypeOK
<1>7. Heads'
  BY <1>1, <1>2, <1>4, <1>5 DEF Heads
<1>8. Settled'
  BY <1>1, <1>2, <1>4 DEF Settled
<1>9. QED
  BY <1>1, <1>2, <1>6, <1>7, <1>8 DEF Inv, Putting, Copying

\* A copy starts.
LEMMA CompressStep ==
    ASSUME Inv, pc = "idle", ~not_valid, NEW r \in BOOLEAN, Compress(r),
           UNCHANGED <<flash, cur, gen, not_valid, cached, tree, tfact>>,
           op' \in Put \cup {NoOp}, ~r => op' \in Put,
           may' \in [Name -> SUBSET (Val \cup {None})],
           factory' \in [Name -> SUBSET (Val \cup {None})]
    PROVE  Inv'
<1>1. ConfTypeOK /\ Heads /\ Settled
  BY DEF Inv
<1>2. /\ off' = 0 /\ next' = 1 /\ reset' = r /\ pc' = "copy"
      /\ head' = head /\ log' = log /\ cur' = cur /\ gen' = gen
      /\ not_valid' = not_valid /\ cached' = cached
      /\ tree' = tree /\ tfact' = tfact
  BY DEF Compress, flash
<1>3. other' = other
  BY <1>2 DEF other
<1>4. ConfTypeOK'
  <2>1. 0 \in 0 .. Size /\ 1 \in 1 .. Size + 1
    BY ConfAssumption
  <2>2. QED
    BY <1>1, <1>2, <2>1 DEF ConfTypeOK
<1>5. Heads'
  BY <1>1, <1>2, <1>3 DEF Heads
<1>6. Copied(log[cur], <<>>, 1)'
  <2>1. log[cur] \in Seq(Item)
    BY <1>1, LogFact
  <2>2. cached' => \A n \in Name : tree'[n] = Live(log[cur], n)
    BY <1>1, <1>2 DEF Settled
  <2>3. PICK l \in Seq(Item) : l = log[cur]
    BY <2>1
  <2>4. Copied(l, <<>>, 1)'
    BY <1>2, <2>2, <2>3, CopyStart
  <2>5. log'[cur'] = l
    BY <1>2, <2>3
  <2>6. QED
    BY <2>4, <2>5
<1>7. Copying'
  <2>1. log'[other'] = <<>>
    BY <1>1, <1>2, <1>3 DEF Settled
  <2>2. QED
    BY <1>2, <1>6, <2>1 DEF Copying
<1>8. QED
  BY <1>2, <1>4, <1>5, <1>7 DEF Inv, Settled, Putting

\* The types of may and factory when an item is put.
LEMMA MayFact ==
    ASSUME ConfTypeOK, NEW item \in Put
    PROVE  /\ [may EXCEPT ![item.name] = @ \cup {item.val}]
                \in [Name -> SUBSET (Val \cup {None})]
           /\ [may EXCEPT ![item.name] = {item.val}]
                \in [Name -> SUBSET (Val \cup {None})]
           /\ [factory EXCEPT ![item.name] =
                      IF item.fact THEN @ \cup {item.val} ELSE @]
                \in [Name -> SUBSET (Val \cup {None})]
           /\ [factory EXCEPT ![item.name] =
                      IF item.fact THEN {item.val} ELSE @]
                \in [Name -> SUBSET (Val \cup {None})]
  BY ItemFact DEF ConfTypeOK

\* An item is to be put.
LEMMA ConfPutStep == ASSUME Inv, NEW item \in Put, ConfPut(item) PROVE Inv'
<1>1. ConfTypeOK /\ Heads /\ Settled /\ pc = "idle" /\ ~not_valid
  BY DEF Inv, ConfPut
<1>2. /\ may' \in [Name -> SUBSET (Val \cup {None})]
      /\ factory' \in [Name -> SUBSET (Val \cup {None})]
      /\ op' \in Put /\ op' \in Put \cup {NoOp}
  BY <1>1, MayFact DEF ConfPut
<1>3. UNCHANGED <<flash, cur, gen, not_valid, cached, tree, tfact>>
  BY DEF ConfPut
<1>4. CASE NeedCompress
  BY <1>1, <1>2, <1>3, <1>4, CompressStep DEF ConfPut
<1>5. CASE ~NeedCompress
  <2>1. pc' = "value" /\ UNCHANGED <<off, next, reset>>
    BY <1>5 DEF ConfPut
  <2>2. off' < Size
    BY <1>1, <1>5, <2>1, ConfAssumption DEF NeedCompress, ConfTypeOK
  <2>3. /\ head' = head /\ log' = log /\ cur' = cur /\ gen' = gen
        /\ not_valid' = not_valid /\ cached' = cached
        /\ tree' = tree /\ tfact' = tfact
    BY <1>3 DEF flash
  <2>4. other' = other
    BY <2>3 DEF other
  <2>5. ConfTypeOK'
    BY <1>1, <1>2, <2>1, <2>3 DEF ConfTypeOK
  <2>6. Heads' /\ Settled'
    BY <1>1, <2>1, <2>3, <2>4 DEF Heads, Settled
  <2>7. QED
    BY <1>2, <2>1, <2>2, <2>5, <2>6 DEF Inv, Putting, Copying
<1>6. QED
  BY <1>4, <1>5

\* The value is there already.
LEMMA SkipStep == ASSUME Inv, Skip PROVE Inv'
<1>1. ConfTypeOK /\ Heads /\ Settled /\ pc = "value" /\ op \in Put
  BY DEF Inv, Skip, Putting
<1>2. /\ head' = head /\ log' = log /\ cur' = cur /\ gen' = gen /\ off' = off
      /\ not_valid' = not_valid /\ cached' = cached /\ reset' = reset
      /\ tree' = tree /\ tfact' = tfact /\ next' = next
      /\ pc' = "idle" /\ op' \in Put \cup {NoOp}
  BY DEF Skip, Stored, flash, ram
<1>3. /\ may' \in [Name -> SUBSET (Val \cup {None})]
      /\ factory' \in [Name -> SUBSET (Val \cup {None})]
  BY <1>1, MayFact DEF Skip, Stored
<1>4. other' = other
  BY <1>2 DEF other
<1>5. ConfTypeOK'
  BY <1>1, <1>2, <1>3 DEF ConfTypeOK
<1>6. Heads' /\ Settled'
  BY <1>1, <1>2, <1>4 DEF Heads, Settled
<1>7. QED
  BY <1>2, <1>5, <1>6 DEF Inv, Putting, Copying

\* The value is appended to the slot.
LEMMA ValueEffect ==
    ASSUME Inv, PutValue
    PROVE  /\ log' = [log EXCEPT ![cur] = Append(log[cur], Orphan)]
           /\ log'[cur] = Append(log[cur], Orphan) /\ log'[other] = log[other]
           /\ Append(log[cur], Orphan) \in Seq(Item)
           /\ Len(log'[cur]) = off + 1 /\ off + 1 \in 1 .. Size
           /\ log'[cur][off + 1] = Orphan
           /\ Grown(log[cur], log'[cur], Orphan)
<1>1. ConfTypeOK /\ off = Len(log[cur]) /\ off < Size /\ off \in 0 .. Size
  BY DEF Inv, PutValue, Settled, Putting, ConfTypeOK
<1>2. cur \in Slot /\ other \in Slot /\ other # cur /\ log[cur] \in Seq(Item)
      /\ DOMAIN log = Slot
  BY <1>1, LogFact
<1>3. off + 1 \in 1 .. Size /\ ~(off + 1 > Size) /\ off + 1 > off
  BY <1>1, ConfAssumption
<1>4. Write(log[cur], off + 1, Orphan) = Append(log[cur], Orphan)
  BY <1>1, <1>3 DEF Write
<1>5. log' = [log EXCEPT ![cur] = Append(log[cur], Orphan)]
  BY <1>4 DEF PutValue
<1>6. Orphan \in Item
  BY ItemFact
<1>7. /\ Append(log[cur], Orphan) \in Seq(Item)
      /\ Len(Append(log[cur], Orphan)) = off + 1
      /\ Grown(log[cur], Append(log[cur], Orphan), Orphan)
  BY <1>1, <1>2, <1>6, AppendGrown
<1>8. log'[cur] = Append(log[cur], Orphan) /\ log'[other] = log[other]
  BY <1>2, <1>5
<1>9. QED
  BY <1>3, <1>5, <1>7, <1>8 DEF Grown

\* A slot that is rewritten leaves the types of the others.
LEMMA LogType ==
    ASSUME ConfTypeOK, NEW s \in Slot, NEW r \in Seq(Item), Len(r) <= Size,
           log' = [log EXCEPT ![s] = r]
    PROVE  /\ log' \in [Slot -> Seq(Item)]
           /\ \A t \in Slot : Len(log'[t]) <= Size
           /\ log'[s] = r /\ \A t \in Slot : t # s => log'[t] = log[t]
  BY DEF ConfTypeOK

\* The value is written, and the tree has it.
LEMMA PutValueStep == ASSUME Inv, PutValue PROVE Inv'
<1>1. ConfTypeOK /\ Heads /\ Settled /\ pc = "value" /\ op \in Put /\ off < Size
      /\ ~not_valid
  BY DEF Inv, PutValue, Putting, Heads
<1>2. /\ head' = head /\ cur' = cur /\ gen' = gen /\ off' = off
      /\ not_valid' = not_valid /\ cached' = cached /\ reset' = reset
      /\ next' = next /\ op' = op /\ may' = may /\ factory' = factory
      /\ pc' = "name" /\ TreeAdd(op, off + 1)
  BY DEF PutValue, ghost
<1>3. other' = other /\ cur \in Slot /\ other \in Slot /\ other # cur
      /\ log[cur] \in Seq(Item)
  BY <1>1, <1>2, LogFact DEF other
<1>4. op.name \in Name /\ op.fact \in BOOLEAN /\ off + 1 \in 0 .. Size
      /\ 0 \in 0 .. Size
  <2>1. off \in 0 .. Size /\ Size \in Nat
    BY <1>1, ConfAssumption DEF ConfTypeOK
  <2>2. QED
    BY <1>1, <2>1, ItemFact
<1>5. tree' \in [Name -> 0 .. Size] /\ tfact' \in [Name -> 0 .. Size]
  <2>1. tree \in [Name -> 0 .. Size] /\ tfact \in [Name -> 0 .. Size]
    BY <1>1 DEF ConfTypeOK
  <2>2. CASE cached
    BY <1>2, <1>4, <2>1, <2>2 DEF TreeAdd
  <2>3. CASE ~cached
    BY <1>2, <2>1, <2>3 DEF TreeAdd
  <2>4. QED
    BY <2>2, <2>3
<1>6. log' \in [Slot -> Seq(Item)] /\ \A t \in Slot : Len(log'[t]) <= Size
  <2>1. Len(log'[cur]) <= Size
    BY ValueEffect
  <2>2. QED
    BY <1>1, <1>3, <2>1, ValueEffect, LogType
<1>7. ConfTypeOK'
  BY <1>1, <1>2, <1>5, <1>6 DEF ConfTypeOK
<1>8. Heads'
  BY <1>1, <1>2, <1>3 DEF Heads
<1>9. ASSUME cached, NEW n \in Name
      PROVE  tree'[n] = IF n = op.name THEN IF op.val = None THEN 0 ELSE off + 1
                        ELSE Live(log'[cur], n)
  <2>1. tree' = [tree EXCEPT ![op.name] = IF op.val = None THEN 0 ELSE off + 1]
    BY <1>2, <1>9 DEF TreeAdd
  <2>2. Live(log'[cur], n) = Live(log[cur], n)
    <3>1. Orphan \in Item /\ Orphan.name # n
      BY ItemFact
    <3>2. log'[cur] \in Seq(Item)
      BY ValueEffect
    <3>3. QED
      BY <1>3, <3>1, <3>2, ValueEffect, GrownFact
  <2>3. tree[n] = Live(log[cur], n)
    BY <1>1, <1>9 DEF Settled
  <2>4. tree \in [Name -> 0 .. Size]
    BY <1>1 DEF ConfTypeOK
  <2>5. QED
    BY <1>4, <2>1, <2>2, <2>3, <2>4
<1>10. Putting'
  <2>1. log'[other] = <<>>
    BY <1>1, ValueEffect DEF Settled
  <2>2. Len(log'[cur]) = off + 1 /\ log'[cur][off + 1] = Orphan
    BY ValueEffect
  <2>3. QED
    BY <1>1, <1>2, <1>3, <1>9, <2>1, <2>2 DEF Putting
<1>11. QED
  BY <1>2, <1>7, <1>8, <1>10 DEF Inv, Settled, Copying

\* The name makes it an item.
LEMMA NameEffect ==
    ASSUME Inv, PutName
    PROVE  LET r == [log[cur] EXCEPT ![off + 1] = op]
           IN  /\ log' = [log EXCEPT ![cur] = r]
               /\ log'[cur] = r /\ log'[other] = log[other]
               /\ r \in Seq(Item) /\ Len(r) = off + 1 /\ off + 1 \in 1 .. Size
               /\ Grown(log[cur], log'[cur], op)
               /\ op \in Put
<1> DEFINE l == log[cur]
           r == [l EXCEPT ![off + 1] = op]
<1>1. /\ ConfTypeOK /\ op \in Put /\ off < Size /\ off \in 0 .. Size
      /\ Len(l) = off + 1 /\ l[off + 1] = Orphan
  BY DEF Inv, PutName, Putting, ConfTypeOK
<1>2. cur \in Slot /\ other \in Slot /\ other # cur /\ l \in Seq(Item)
      /\ DOMAIN log = Slot /\ DOMAIN l = 1 .. Len(l)
  BY <1>1, LogFact
<1>3. off + 1 \in 1 .. Size /\ off + 1 \in 1 .. Len(l)
  BY <1>1, ConfAssumption
<1>4. log' = [log EXCEPT ![cur] = r]
  BY <1>2, <1>3 DEF PutName
<1>5. op \in Item
  BY <1>1 DEF Item
<1>6. r \in Seq(Item) /\ Len(r) = Len(l) /\ Grown(l, r, op)
  BY <1>1, <1>2, <1>3, <1>5, NamedGrown
<1> HIDE DEF r
<1>7. log'[cur] = r /\ log'[other] = log[other]
  BY <1>2, <1>4
<1>8. QED
  BY <1>1, <1>3, <1>4, <1>6, <1>7 DEF r

\* The name is written.
LEMMA PutNameStep == ASSUME Inv, PutName PROVE Inv'
<1> DEFINE r == [log[cur] EXCEPT ![off + 1] = op]
<1>1. ConfTypeOK /\ Heads /\ Putting /\ pc = "name" /\ ~not_valid
  BY DEF Inv, PutName, Heads
<1>2. /\ head' = head /\ cur' = cur /\ gen' = gen /\ off' = off + 1
      /\ not_valid' = not_valid /\ cached' = cached /\ reset' = reset
      /\ next' = next /\ tree' = tree /\ tfact' = tfact
      /\ pc' = "idle" /\ op' \in Put \cup {NoOp}
  BY DEF PutName, Stored
<1>3. other' = other /\ cur \in Slot /\ other \in Slot /\ other # cur
      /\ log[cur] \in Seq(Item)
  BY <1>1, <1>2, LogFact DEF other
<1>4. /\ log' = [log EXCEPT ![cur] = r]
      /\ log'[cur] = r /\ log'[other] = log[other]
      /\ r \in Seq(Item) /\ Len(r) = off + 1 /\ off + 1 \in 1 .. Size
      /\ Grown(log[cur], r, op) /\ op \in Put /\ op \in Item
  BY NameEffect, ItemFact
<1> HIDE DEF r
<1>5. /\ may' \in [Name -> SUBSET (Val \cup {None})]
      /\ factory' \in [Name -> SUBSET (Val \cup {None})]
  BY <1>1, <1>4, MayFact DEF PutName, Stored
<1>6. Len(r) <= Size /\ off' \in 0 .. Size
  BY <1>2, <1>4, ConfAssumption
<1>7. log' \in [Slot -> Seq(Item)] /\ \A t \in Slot : Len(log'[t]) <= Size
  BY <1>1, <1>3, <1>4, <1>6, LogType
<1>8. ConfTypeOK'
  BY <1>1, <1>2, <1>5, <1>6, <1>7 DEF ConfTypeOK
<1>9. Heads'
  BY <1>1, <1>2, <1>3 DEF Heads
<1>10. ASSUME cached, NEW n \in Name
       PROVE  tree[n] = Live(r, n)
  <2>1. tree[n] = IF n = op.name THEN IF op.val = None THEN 0 ELSE off + 1
                  ELSE Live(log[cur], n)
    BY <1>1, <1>10 DEF Putting
  <2>2. Live(r, n) = IF op.name = n THEN IF op.val = None THEN 0 ELSE Len(r)
                     ELSE Live(log[cur], n)
    BY <1>3, <1>4, GrownFact
  <2>3. QED
    BY <1>4, <2>1, <2>2
<1>11. Settled'
  BY <1>1, <1>2, <1>3, <1>4, <1>10 DEF Settled, Putting
<1>12. QED
  BY <1>2, <1>8, <1>9, <1>11 DEF Inv, Putting, Copying

\* A factory reset starts.
LEMMA ResetStep == ASSUME Inv, ResetFactory PROVE Inv'
<1>1. ConfTypeOK /\ pc = "idle" /\ ~not_valid
  BY DEF Inv, ResetFactory
<1>2. /\ may' \in [Name -> SUBSET (Val \cup {None})]
      /\ factory' \in [Name -> SUBSET (Val \cup {None})]
      /\ op' \in Put \cup {NoOp}
  BY <1>1 DEF ResetFactory, ConfTypeOK
<1>3. Compress(TRUE) /\ UNCHANGED <<flash, cur, gen, not_valid, cached, tree, tfact>>
  BY DEF ResetFactory, flash
<1>4. QED
  BY <1>1, <1>2, <1>3, CompressStep

\* One item is looked at, and copied if it is one to keep.
LEMMA CopyEffect ==
    ASSUME Inv, Copy
    PROVE  /\ Copied(log[cur], log[other], next)'
           /\ log' \in [Slot -> Seq(Item)]
           /\ \A s \in Slot : Len(log'[s]) <= Size
           /\ log'[cur] = log[cur]
           /\ tree' \in [Name -> 0 .. Size] /\ tfact' \in [Name -> 0 .. Size]
           /\ off' \in 0 .. Size /\ next' \in 1 .. Size + 1
<1>1. /\ ConfTypeOK /\ Copied(log[cur], log[other], next)
      /\ tree \in [Name -> 0 .. Size] /\ tfact \in [Name -> 0 .. Size]
      /\ off \in 0 .. Size /\ next \in 1 .. Size + 1 /\ cached \in BOOLEAN
      /\ log \in [Slot -> Seq(Item)] /\ \A s \in Slot : Len(log[s]) <= Size
  BY DEF Inv, Copy, Copying, ConfTypeOK
<1>2. /\ cur \in Slot /\ other \in Slot /\ other # cur
      /\ log[cur] \in Seq(Item) /\ log[other] \in Seq(Item)
      /\ Len(log[cur]) \in 0 .. Size /\ Len(log[other]) \in 0 .. Size
  BY <1>1, LogFact
<1>3. cur' = cur /\ other' = other /\ cached' = cached /\ reset' = reset
      /\ next' = next + 1
  BY DEF Copy, other
<1>4. PICK l \in Seq(Item), o \in Seq(Item) : l = log[cur] /\ o = log[other]
  BY <1>2
<1>5. next \in 1 .. Len(l) /\ off = Len(o) /\ off < next
  BY <1>1, <1>2, <1>4, ConfAssumption DEF Copy, CopyDone, Copied
<1>6. PICK k \in 1 .. Len(l) : k = next
  BY <1>5
<1>7. Copied(l, o, k) /\ Copied(l, o, next)
  BY <1>1, <1>4, <1>6
<1>8. next' \in 1 .. Size + 1 /\ off + 1 \in 0 .. Size /\ ~(off + 1 > Size)
      /\ 0 \in 0 .. Size /\ off + 1 > Len(o)
  BY <1>1, <1>2, <1>3, <1>4, <1>5, ConfAssumption
<1>9. CASE Kept(l[k])
  <2>1. Keeps(l, k)
    BY <1>1, <1>4, <1>5, <1>6, <1>7, <1>9, KeptFact
  <2>2. l[k] \in Put /\ l[k].name \in Name /\ l[k].val # None
        /\ l[k].fact \in BOOLEAN /\ l[k] \in Item
    BY <2>1, ItemsFact, ItemFact DEF Keeps, Item
  <2>3. /\ TreeAdd(l[k], off + 1) /\ off' = off + 1
        /\ log' = [log EXCEPT ![other] = Write(o, off + 1, l[k])]
    BY <1>4, <1>6, <1>9 DEF Copy, CopyTree
  <2>4. /\ cached => tree' = [tree EXCEPT ![l[k].name] = off + 1]
        /\ cached => tfact' = [tfact EXCEPT ![l[k].name] =
                                    IF l[k].fact THEN off + 1 ELSE @]
        /\ ~cached => tree' = tree /\ tfact' = tfact
    BY <2>2, <2>3 DEF TreeAdd
  <2>5. Copied(l, Append(o, l[k]), k + 1)'
    BY <1>1, <1>3, <1>7, <2>1, <2>2, <2>3, <2>4, CopyKept
  <2>6. Write(o, off + 1, l[k]) = Append(o, l[k])
    BY <1>8 DEF Write
  <2>7. Append(o, l[k]) \in Seq(Item) /\ Len(Append(o, l[k])) = off + 1
    BY <1>5, <2>2, AppendGrown
  <2>8. /\ log' \in [Slot -> Seq(Item)] /\ \A s \in Slot : Len(log'[s]) <= Size
        /\ log'[other] = Append(o, l[k]) /\ log'[cur] = l
    <3>1. Len(Append(o, l[k])) <= Size
      BY <1>8, <2>7
    <3>2. QED
      BY <1>1, <1>2, <1>4, <2>3, <2>6, <2>7, <3>1, LogType
  <2>9. tree' \in [Name -> 0 .. Size] /\ tfact' \in [Name -> 0 .. Size]
    BY <1>1, <1>8, <2>2, <2>4
  <2>10. log'[other'] = Append(o, l[k]) /\ log'[cur'] = l /\ next' = k + 1
    BY <1>3, <1>6, <2>8
  <2>11. Copied(log[cur], log[other], next)'
    BY <2>5, <2>10
  <2>12. QED
    BY <1>4, <1>8, <2>3, <2>8, <2>9, <2>11
<1>10. CASE ~Kept(l[k])
  <2>1. ~Keeps(l, k)
    BY <1>1, <1>4, <1>5, <1>6, <1>7, <1>10, KeptFact
  <2>2. UNCHANGED <<tree, tfact, log, off>>
    BY <1>4, <1>6, <1>10 DEF Copy
  <2>3. Copied(l, o, k + 1)'
    BY <1>3, <1>7, <2>1, <2>2, CopySkip
  <2>4. log'[other'] = o /\ log'[cur'] = l /\ next' = k + 1
    BY <1>3, <1>4, <1>6, <2>2
  <2>5. Copied(log[cur], log[other], next)'
    BY <2>3, <2>4
  <2>6. QED
    BY <1>1, <1>4, <1>8, <2>2, <2>5
<1>11. QED
  BY <1>9, <1>10

\* One item is looked at.
LEMMA CopyStep == ASSUME Inv, Copy PROVE Inv'
<1>1. ConfTypeOK /\ Heads /\ Copying /\ pc = "copy"
  BY DEF Inv, Copy
<1>2. /\ head' = head /\ cur' = cur /\ gen' = gen /\ not_valid' = not_valid
      /\ cached' = cached /\ pc' = pc /\ op' = op /\ reset' = reset
      /\ may' = may /\ factory' = factory /\ other' = other
  BY DEF Copy, ghost, other
<1>3. ConfTypeOK'
  BY <1>1, <1>2, CopyEffect DEF ConfTypeOK
<1>4. Heads'
  BY <1>1, <1>2 DEF Heads
<1>5. Copying'
  BY <1>1, <1>2, CopyEffect DEF Copying
<1>6. QED
  BY <1>1, <1>2, <1>3, <1>4, <1>5 DEF Inv, Settled, Putting

\* The slot copied to is given its head.
LEMMA CopyHeadStep == ASSUME Inv, CopyHead PROVE Inv'
<1>1. ConfTypeOK /\ Heads /\ Copying /\ pc = "copy" /\ ~not_valid
  BY DEF Inv, CopyHead, Heads
<1>2. /\ gen' = (gen + 1) % GenMod /\ head' = [head EXCEPT ![other] = gen']
      /\ log' = log /\ cur' = cur /\ off' = off /\ not_valid' = not_valid
      /\ cached' = cached /\ tree' = tree /\ tfact' = tfact /\ op' = op
      /\ reset' = reset /\ next' = next /\ may' = may /\ factory' = factory
      /\ pc' = "erase" /\ next > Len(log[cur])
  BY DEF CopyHead, CopyDone, ghost
<1>3. gen' \in 0 .. GenMod - 1 /\ gen' # NoHead
  BY <1>1, <1>2, ConfAssumption DEF ConfTypeOK
<1>4. other' = other
  BY <1>2 DEF other
<1>5. head'[other] # NoHead /\ head'[cur] = head[cur]
      /\ head' \in [Slot -> 0 .. GenMod - 1 \cup {NoHead}]
  BY <1>1, <1>2, <1>3, LogFact DEF ConfTypeOK
<1>6. ConfTypeOK'
  BY <1>1, <1>2, <1>3, <1>5 DEF ConfTypeOK
<1>7. Heads'
  BY <1>1, <1>2, <1>4, <1>5 DEF Heads
<1>8. Copying'
  <2>1. Copied(log[cur], log[other], next)'
    BY <1>1, <1>2, <1>4, CopiedSame DEF Copying
  <2>2. QED
    BY <1>1, <1>2, <1>4, <2>1 DEF Copying
<1>9. QED
  BY <1>2, <1>6, <1>7, <1>8 DEF Inv, Settled, Putting

\* The head of the old slot is erased.
LEMMA EraseHeadStep == ASSUME Inv, EraseHead PROVE Inv'
<1>1. ConfTypeOK /\ Heads /\ Copying /\ pc = "erase" /\ ~not_valid
  BY DEF Inv, EraseHead, Heads
<1>2. /\ head' = [head EXCEPT ![cur] = NoHead] /\ gen' = gen
      /\ log' = log /\ cur' = cur /\ off' = off /\ not_valid' = not_valid
      /\ cached' = cached /\ tree' = tree /\ tfact' = tfact /\ op' = op
      /\ reset' = reset /\ next' = next /\ may' = may /\ factory' = factory
      /\ pc' = "rest"
  BY DEF EraseHead, ghost, ram
<1>3. other' = other
  BY <1>2 DEF other
<1>4. head'[cur] = NoHead /\ head'[other] = head[other]
      /\ head' \in [Slot -> 0 .. GenMod - 1 \cup {NoHead}]
  BY <1>1, <1>2, LogFact DEF ConfTypeOK
<1>5. ConfTypeOK'
  BY <1>1, <1>2, <1>4 DEF ConfTypeOK
<1>6. Heads'
  BY <1>1, <1>2, <1>3, <1>4 DEF Heads
<1>7. Copying'
  <2>1. Copied(log[cur], log[other], next)'
    BY <1>1, <1>2, <1>3, CopiedSame DEF Copying
  <2>2. QED
    BY <1>1, <1>2, <1>3, <2>1 DEF Copying
<1>8. QED
  BY <1>2, <1>5, <1>6, <1>7 DEF Inv, Settled, Putting

\* The rest of it is erased, and the other slot is current.
LEMMA EraseRestStep ==
    ASSUME Room, ~GoesOn, Inv, EraseRest
    PROVE  Inv'
<1>1. /\ ConfTypeOK /\ Heads /\ Copying /\ pc = "rest" /\ ~not_valid
      /\ cached \in BOOLEAN /\ next \in 1 .. Size + 1
      /\ Copied(log[cur], log[other], next) /\ (~reset => op \in Put)
      /\ next > Len(log[cur])
  BY DEF Inv, EraseRest, Heads, Copying, ConfTypeOK
<1>2. /\ cur \in Slot /\ other \in Slot /\ other # cur /\ OtherSlot(other) = cur
      /\ log[cur] \in Seq(Item) /\ log[other] \in Seq(Item)
  BY <1>1, LogFact
<1>3. /\ log' = [log EXCEPT ![cur] = <<>>] /\ cur' = other
      /\ pc' = (IF reset THEN "restart" ELSE "value")
      /\ may' = (IF reset THEN [n \in Name |-> factory[n] \cup {None}] ELSE may)
      /\ ~reset' /\ reset' \in BOOLEAN /\ next' = 1
      /\ head' = head /\ gen' = gen /\ off' = off /\ not_valid' = not_valid
      /\ cached' = cached /\ tree' = tree /\ tfact' = tfact /\ op' = op
      /\ factory' = factory
  BY DEF EraseRest, AfterReset
<1>4. other' = cur
  BY <1>2, <1>3 DEF other
<1>5. /\ log' \in [Slot -> Seq(Item)] /\ \A s \in Slot : Len(log'[s]) <= Size
      /\ log'[cur] = <<>> /\ log'[other] = log[other]
  <2>1. <<>> \in Seq(Item) /\ Len(<<>>) <= Size
    BY ConfAssumption
  <2>2. QED
    BY <1>1, <1>2, <1>3, <2>1, LogType
<1>6. next \in Int
  BY <1>1, ConfAssumption
<1>7. off <= Cardinality(Keys) /\ off = Len(log[other])
  BY <1>1, <1>2, <1>6, CopyFits
<1>8. off < Size
  BY <1>1, <1>7, KeysFinite, ConfAssumption DEF Room, ConfTypeOK
<1>9. ConfTypeOK'
  <2>1. may' \in [Name -> SUBSET (Val \cup {None})] /\ next' \in 1 .. Size + 1
    BY <1>1, <1>3, ConfAssumption DEF ConfTypeOK
  <2>2. pc' \in {"value", "restart"}
    BY <1>3
  <2>3. QED
    BY <1>1, <1>2, <1>3, <1>5, <2>1, <2>2 DEF ConfTypeOK
<1>10. Heads'
  BY <1>1, <1>3, <1>4 DEF Heads
<1>11. ASSUME ~reset, cached, NEW n \in Name
       PROVE  tree[n] = Live(log[other], n)
  BY <1>1, <1>2, <1>6, <1>11, CopyValue
<1>12. Settled'
  BY <1>3, <1>4, <1>5, <1>7, <1>11 DEF Settled
<1>13. Putting'
  BY <1>1, <1>3, <1>8 DEF Putting
<1>14. QED
  BY <1>3, <1>9, <1>10, <1>12, <1>13 DEF Inv, Copying

\* What is in RAM is lost.
LEMMA RestartStep == ASSUME Inv, Restart PROVE Inv'
<1>1. ConfTypeOK
  BY DEF Inv
<1>2. /\ cur' \in Slot /\ ~not_valid' /\ not_valid' \in BOOLEAN
      /\ cached' \in BOOLEAN /\ pc' = "down" /\ op' \in Put \cup {NoOp}
      /\ reset' \in BOOLEAN /\ head' = head /\ log' = log
      /\ may' = may /\ factory' = factory
  BY DEF Restart, Slot, flash, ghost
<1>3. /\ gen' \in 0 .. GenMod - 1 /\ off' \in 0 .. Size /\ next' \in 1 .. Size + 1
      /\ tree' \in [Name -> 0 .. Size] /\ tfact' \in [Name -> 0 .. Size]
  <2>1. 0 \in 0 .. GenMod - 1 /\ 0 \in 0 .. Size /\ 1 \in 1 .. Size + 1
    BY ConfAssumption
  <2>2. QED
    BY <2>1 DEF Restart
<1>4. ConfTypeOK'
  BY <1>1, <1>2, <1>3 DEF ConfTypeOK
<1>5. QED
  BY <1>2, <1>4 DEF Inv, Heads, Settled, Putting, Copying

\* Inv is inductive.
LEMMA InvStep == ASSUME Room, ~GoesOn, Inv, [Next]_vars PROVE Inv'
<1>1. CASE Next
  BY <1>1, LoadStep, SaveHeadStep, ConfPutStep, SkipStep, PutValueStep,
     PutNameStep, ResetStep, CopyStep, CopyHeadStep, EraseHeadStep,
     EraseRestStep, RestartStep DEF Next
<1>2. CASE UNCHANGED vars
  <2>1. /\ head' = head /\ log' = log /\ cur' = cur /\ gen' = gen /\ off' = off
        /\ not_valid' = not_valid /\ cached' = cached /\ tree' = tree
        /\ tfact' = tfact /\ pc' = pc /\ op' = op /\ reset' = reset
        /\ next' = next /\ may' = may /\ factory' = factory
    BY <1>2 DEF vars, flash, ram, call, ghost
  <2>2. other' = other
    BY <2>1 DEF other
  <2>3. ConfTypeOK' /\ Heads' /\ Settled' /\ Putting'
    BY <2>1, <2>2 DEF Inv, ConfTypeOK, Heads, Settled, Putting
  <2>4. Copying'
    BY <2>1, <2>2, CopiedSame DEF Inv, Copying
  <2>5. QED
    BY <2>3, <2>4 DEF Inv
<1>3. QED
  BY <1>1, <1>2

-----------------------------------------------------------------------------
(* The values that a restart finds.                                        *)

\* What the tree has of the factory items of a slot.
TreeFacts(l) ==
    \A n \in Name : FactItems(l, n) # {} => tfact[n] = Latest(FactItems(l, n))

\* The current slot has values that each name may have, and so does the one
\* that a restart would choose.
Sound ==
    /\ pc = "down" => Durable /\ (head[Chosen] # NoHead => FactOK(log[Chosen]))
    /\ pc # "down" => /\ FactOK(log[cur])
                      /\ \A n \in Name : Value(log[cur], n) \in may[n]
    /\ pc \in {"copy", "erase", "rest"} /\ reset =>
            \A n \in Name : factory[n] \cup {None} \subseteq may[n]
    /\ pc \in {"idle", "value"} /\ cached => TreeFacts(log[cur])
    /\ pc = "name" /\ cached => \A n \in Name :
            IF n = op.name /\ op.fact THEN tfact[n] = off + 1
            ELSE FactItems(log[cur], n) # {} =>
                    tfact[n] = Latest(FactItems(log[cur], n))

\* The slot that is read after a restart.
LEMMA ChosenFact ==
    ASSUME ConfTypeOK
    PROVE  /\ Chosen = cur \/ Chosen = other
           /\ head[other] = NoHead /\ head[cur] # NoHead => Chosen = cur
           /\ head[cur] = NoHead /\ head[other] # NoHead => Chosen = other
           /\ head[cur] = NoHead /\ head[other] = NoHead => head[Chosen] = NoHead
  BY DEF ConfTypeOK, Slot, other, OtherSlot, Chosen, Newer

\* Nothing is in an empty slot.
LEMMA EmptySlot ==
    \A n \in Name : Value(<<>>, n) = None /\ FactItems(<<>>, n) = {}
<1>1. \A n : Items(<<>>, n) = {} /\ FactItems(<<>>, n) = {}
  BY DEF Items, FactItems
<1>2. QED
  BY <1>1 DEF Value, Live, Latest

\* The slot that was copied to has what the other one had.
LEMMA CopyOver ==
    ASSUME Inv, Sound, NoMix, pc \in {"erase", "rest"}
    PROVE  /\ FactOK(log[other])
           /\ \A n \in Name : Value(log[other], n) \in may[n]
           /\ reset => \A n \in Name :
                            Value(log[other], n) \in factory[n] \cup {None}
<1>1. /\ ConfTypeOK /\ Copied(log[cur], log[other], next)
      /\ next > Len(log[cur]) /\ cached \in BOOLEAN /\ reset \in BOOLEAN
      /\ next \in 1 .. Size + 1
  BY DEF Inv, Copying, ConfTypeOK
<1>2. log[cur] \in Seq(Item) /\ log[other] \in Seq(Item) /\ next \in Int
  BY <1>1, LogFact, ConfAssumption
<1>3. /\ FactOK(log[cur]) /\ \A n \in Name : Value(log[cur], n) \in may[n]
      /\ reset => \A n \in Name : factory[n] \cup {None} \subseteq may[n]
  BY DEF Sound
<1>4. /\ FactOK(log[other])
      /\ reset => \A n \in Name : Value(log[other], n) \in factory[n] \cup {None}
  BY <1>1, <1>2, <1>3, CopyFacts
<1>5. ~reset => \A n \in Name : Value(log[other], n) = Value(log[cur], n)
  BY <1>1, <1>2, CopyValue
<1>6. QED
  BY <1>3, <1>4, <1>5

\* A restart finds values that the names may have.
LEMMA Recover ==
    ASSUME Inv, Sound, NoMix
    PROVE  Durable /\ (head[Chosen] # NoHead => FactOK(log[Chosen]))
<1>1. CASE pc = "down"
  BY <1>1 DEF Sound
<1>2. CASE pc # "down"
  <2>1. /\ ConfTypeOK /\ Heads
        /\ FactOK(log[cur]) /\ \A n \in Name : Value(log[cur], n) \in may[n]
    BY <1>2 DEF Inv, Sound
  <2>2. CASE head[Chosen] = NoHead
    <3>1. head[cur] = NoHead
      BY <2>1, <2>2, ChosenFact
    <3>2. pc # "rest"
      BY <2>1, <2>2, ChosenFact DEF Heads
    <3>3. log[cur] = <<>>
      BY <1>2, <2>1, <3>1, <3>2 DEF Heads, ConfTypeOK
    <3>4. QED
      BY <2>1, <2>2, <3>3, EmptySlot DEF Durable, Recovered
  <2>3. CASE head[Chosen] # NoHead /\ Chosen = cur
    BY <2>1, <2>3 DEF Durable, Recovered
  <2>4. CASE head[Chosen] # NoHead /\ Chosen = other
    <3>1. pc \in {"erase", "rest"}
      BY <1>2, <2>1, <2>4 DEF Heads, ConfTypeOK
    <3>2. QED
      BY <2>4, <3>1, CopyOver DEF Durable, Recovered
  <2>5. QED
    BY <2>1, <2>2, <2>3, <2>4, ChosenFact
<1>3. QED
  BY <1>1, <1>2

\* A name with factory items is never deleted.
LEMMA NoDelete ==
    ASSUME NoMix, NEW l \in Seq(Item), NEW n \in Name, FactItems(l, n) # {}
    PROVE  /\ \A i \in Items(l, n) : l[i].val # None
           /\ \A p \in Put : p.name = n => p.val # None
           /\ Live(l, n) # 0
           /\ LiveFact(l, n) = Latest(FactItems(l, n))
<1>1. PICK f \in FactItems(l, n) : TRUE
  OBVIOUS
<1>2. l[f] \in Put /\ l[f].name = n /\ l[f].fact /\ f \in Items(l, n)
  BY <1>1, ItemsFact
<1>3. \A p \in Put : p.name = n => p.val # None
  BY <1>2 DEF NoMix
<1>4. \A i \in Items(l, n) : l[i].val # None
  BY <1>3, ItemsFact
<1>5. Live(l, n) # 0
  BY <1>2, <1>4, LiveFacts
<1>6. {i \in Items(l, n) : l[i].val = None} = {}
  BY <1>4
<1>7. LiveFact(l, n) = Latest(FactItems(l, n))
  BY <1>6 DEF LiveFact
<1>8. QED
  BY <1>3, <1>4, <1>5, <1>7

\* The initial state has no values.
LEMMA InitSound == ASSUME Init PROVE Sound
<1>1. pc = "down" /\ ~reset /\ may = [n \in Name |-> {None}]
      /\ head = [s \in Slot |-> NoHead]
  BY DEF Init
<1>2. head[Chosen] = NoHead
  BY <1>1 DEF Chosen, Newer, Slot
<1>3. QED
  BY <1>1, <1>2 DEF Sound, Durable, Recovered

\* After the load.
LEMMA LoadSound == ASSUME Inv, Sound, NoMix, Load PROVE Sound'
<1>1. ConfTypeOK /\ pc = "down"
      /\ (head[Chosen] # NoHead => FactOK(log[Chosen]))
  BY DEF Inv, Load, Sound
<1>2. PICK c \in Slot : c = Chosen
  BY SlotFact DEF Chosen, Newer, Slot
<1>3. <<>> \in Seq(Item) /\ log[c] \in Seq(Item)
  BY <1>1, <1>2, LogFact
<1>4. PICK l \in Seq(Item) : l = IF not_valid' THEN <<>> ELSE log[c]
  BY <1>3
<1>5. /\ cur' = c /\ (not_valid' <=> head[c] = NoHead) /\ pc' = "idle"
      /\ log' = [s \in Slot |-> IF s = c THEN l ELSE <<>>]
      /\ tfact' = [n \in Name |-> IF Live(l, n) = 0 THEN 0 ELSE LiveFact(l, n)]
      /\ may' = [n \in Name |-> {Recovered(n)}] /\ factory' = factory
  BY <1>2, <1>4 DEF Load
<1>6. FactOK(l) /\ \A n \in Name : Value(l, n) = Recovered(n)
  <2>1. CASE not_valid'
    BY <1>2, <1>4, <1>5, <2>1, EmptySlot DEF FactOK, Recovered
  <2>2. CASE ~not_valid'
    BY <1>1, <1>2, <1>4, <1>5, <2>2 DEF Recovered
  <2>3. QED
    BY <2>1, <2>2
<1>7. log'[cur'] = l
  BY <1>2, <1>5
<1>8. FactOK(l)' /\ \A n \in Name : Value(l, n) \in may'[n]
  BY <1>5, <1>6 DEF FactOK
<1>9. TreeFacts(l)'
  BY <1>5, NoDelete DEF TreeFacts
<1>10. QED
  BY <1>5, <1>7, <1>8, <1>9 DEF Sound

\* Steps that leave the slot that is current, and only let more values be.
LEMMA SameSound ==
    ASSUME Inv, Sound, pc # "down", pc' \notin {"down", "name"},
           cur' = cur, log'[cur] = log[cur],
           \A n \in Name : may[n] \subseteq may'[n],
           \A n \in Name : factory[n] \subseteq factory'[n],
           pc' \in {"idle", "value"} =>
                pc \in {"idle", "value"} /\ cached' = cached /\ tfact' = tfact,
           pc' \in {"copy", "erase", "rest"} /\ reset' =>
                \A n \in Name : factory'[n] \cup {None} \subseteq may'[n]
    PROVE  Sound'
<1>1. PICK l : l = log[cur] /\ l = log'[cur']
  OBVIOUS
<1>2. FactOK(l) /\ \A n \in Name : Value(l, n) \in may[n]
  BY <1>1 DEF Sound
<1>3. FactOK(l)' /\ \A n \in Name : Value(l, n) \in may'[n]
  BY <1>2 DEF FactOK
<1>4. ASSUME pc' \in {"idle", "value"}, cached' PROVE TreeFacts(l)'
  <2>1. TreeFacts(l) /\ tfact' = tfact
    BY <1>1, <1>4 DEF Sound
  <2>2. QED
    BY <2>1 DEF TreeFacts
<1>5. QED
  BY <1>1, <1>3, <1>4 DEF Sound

\* The last factory item of a slot that has grown.
LEMMA GrownLast ==
    ASSUME NEW l \in Seq(Item), NEW r \in Seq(Item), NEW o \in Item,
           Grown(l, r, o), NEW n \in Name, FactItems(r, n) # {}
    PROVE  IF o.name = n /\ o.fact THEN r[Latest(FactItems(r, n))] = o
           ELSE /\ FactItems(l, n) # {}
                /\ r[Latest(FactItems(r, n))] = l[Latest(FactItems(l, n))]
<1>1. CASE o.name = n /\ o.fact
  BY <1>1, GrownFact DEF Grown
<1>2. CASE ~(o.name = n /\ o.fact)
  <2>1. FactItems(r, n) = FactItems(l, n)
    BY <1>2, GrownFact
  <2>2. Latest(FactItems(l, n)) \in Items(l, n)
    BY <2>1, LiveFacts, ItemsFact
  <2>3. QED
    BY <1>2, <2>1, <2>2 DEF Grown
<1>3. QED
  BY <1>1, <1>2

\* A value that is the same is not written, but it is there.
LEMMA SkipSound == ASSUME Inv, Sound, NoMix, Skip PROVE Sound'
<1>1. /\ ConfTypeOK /\ pc = "value" /\ op \in Put /\ op.name \in Name /\ Same
      /\ (cached => \A n \in Name : tree[n] = Live(log[cur], n))
      /\ (cached => TreeFacts(log[cur]))
      /\ FactOK(log[cur]) /\ \A n \in Name : Value(log[cur], n) \in may[n]
  BY ItemFact DEF Inv, Skip, Putting, Settled, Sound
<1>2. PICK l \in Seq(Item) : l = log[cur]
  BY <1>1, LogFact
<1>3. /\ log' = log /\ cur' = cur /\ cached' = cached /\ tfact' = tfact
      /\ pc' = "idle" /\ reset' = reset
      /\ may' = [may EXCEPT ![op.name] = {op.val}]
      /\ factory' = [factory EXCEPT ![op.name] = IF op.fact THEN {op.val} ELSE @]
      /\ DOMAIN may = Name /\ DOMAIN factory = Name
  BY <1>1 DEF Skip, Stored, flash, ram, ConfTypeOK
<1> DEFINE m == op.name
           o == IF cached THEN tree[m] ELSE Latest(Items(l, m))
           f == IF cached THEN tfact[m] ELSE Latest(FactItems(l, m))
<1>4. IF o = 0 THEN op.val = None
      ELSE IF op.fact THEN /\ op.val # None
                           /\ f = 0 \/ Reads(f, op.val)
                           /\ f = o \/ Reads(o, op.val)
           ELSE Reads(o, op.val)
  BY <1>1, <1>2 DEF Same
<1>5. \A p : Reads(p, op.val) => l[p].val = op.val
  BY <1>2 DEF Reads
<1>6. op.fact => op.val # None
  BY <1>1 DEF NoMix
<1>7. /\ Live(l, m) # 0 => Live(l, m) = Latest(Items(l, m))
                           /\ l[Live(l, m)].val # None
      /\ Live(l, m) = 0 => \/ Items(l, m) = {}
                           \/ /\ Latest(Items(l, m)) \in Items(l, m)
                              /\ l[Latest(Items(l, m))].val = None
      /\ \A i \in Items(l, m) : i # 0
      /\ FactItems(l, m) # {} => Latest(FactItems(l, m)) # 0
  BY <1>1, LiveFacts, ItemsFact
<1>8. cached => o = Live(l, m)
  BY <1>1, <1>2
<1>9. Value(l, m) = op.val
  <2>1. CASE o = 0
    <3>1. op.val = None
      BY <1>4, <2>1
    <3>2. Live(l, m) = 0
      BY <1>7, <1>8, <2>1 DEF Latest
    <3>3. QED
      BY <3>1, <3>2 DEF Value
  <2>2. CASE o # 0
    <3>1. l[o].val = op.val
      BY <1>4, <1>5, <2>2
    <3>2. CASE cached
      BY <1>8, <2>2, <3>1, <3>2 DEF Value
    <3>3. CASE ~cached
      <4>1. o = Latest(Items(l, m))
        BY <3>3
      <4>2. Live(l, m) = 0 => op.val = None
        BY <1>7, <2>2, <3>1, <4>1 DEF Latest
      <4>3. QED
        BY <1>7, <3>1, <4>1, <4>2 DEF Value
    <3>4. QED
      BY <3>2, <3>3
  <2>3. QED
    BY <2>1, <2>2
<1>10. ASSUME op.fact, FactItems(l, m) # {}
       PROVE  l[Latest(FactItems(l, m))].val = op.val
  <2>1. f = Latest(FactItems(l, m))
    BY <1>1, <1>2, <1>10 DEF TreeFacts
  <2>2. f # 0 /\ o # 0
    BY <1>4, <1>6, <1>7, <1>10, <2>1
  <2>3. Reads(f, op.val)
    BY <1>4, <1>10, <2>2
  <2>4. QED
    BY <1>5, <2>1, <2>3
<1> HIDE DEF m, o, f
<1>11. FactOK(l)'
  <2>1. ASSUME NEW n \in Name, FactItems(l, n) # {}
        PROVE  l[Latest(FactItems(l, n))].val \in factory'[n]
    <3>1. CASE n = m /\ op.fact
      BY <1>3, <1>10, <2>1, <3>1 DEF m
    <3>2. CASE ~(n = m /\ op.fact)
      <4>1. factory'[n] = factory[n]
        BY <1>3, <3>2 DEF m
      <4>2. QED
        BY <1>1, <1>2, <2>1, <4>1 DEF FactOK
    <3>3. QED
      BY <3>1, <3>2
  <2>2. QED
    BY <2>1 DEF FactOK
<1>12. \A n \in Name : Value(l, n) \in may'[n]
  BY <1>1, <1>2, <1>3, <1>9 DEF m
<1>13. cached' => TreeFacts(l)'
  BY <1>1, <1>2, <1>3 DEF TreeFacts
<1>14. log'[cur'] = l
  BY <1>2, <1>3
<1>15. QED
  BY <1>3, <1>11, <1>12, <1>13, <1>14 DEF Sound

\* A value without a name changes nothing, but for the tree.
LEMMA PutValueSound == ASSUME Inv, Sound, NoMix, PutValue PROVE Sound'
<1>1. /\ ConfTypeOK /\ pc = "value" /\ op \in Put /\ op.name \in Name
      /\ (cached => TreeFacts(log[cur]))
      /\ FactOK(log[cur]) /\ \A n \in Name : Value(log[cur], n) \in may[n]
  BY ItemFact DEF Inv, PutValue, Putting, Sound
<1>2. log[cur] \in Seq(Item) /\ log'[cur] \in Seq(Item)
      /\ Grown(log[cur], log'[cur], Orphan)
  BY <1>1, LogFact, ValueEffect
<1>3. PICK l \in Seq(Item), r \in Seq(Item) : l = log[cur] /\ r = log'[cur]
  BY <1>2
<1>4. Grown(l, r, Orphan) /\ Orphan \in Item
      /\ \A n \in Name : ~(Orphan.name = n)
  BY <1>2, <1>3, ItemFact
<1>5. /\ cur' = cur /\ cached' = cached /\ off' = off /\ op' = op
      /\ pc' = "name" /\ may' = may /\ factory' = factory
      /\ TreeAdd(op, off + 1) /\ DOMAIN tfact = Name
  BY <1>1 DEF PutValue, ghost, ConfTypeOK
<1>6. \A n \in Name : /\ Value(r, n) = Value(l, n)
                      /\ FactItems(r, n) = FactItems(l, n)
  BY <1>4, GrownFact
<1>7. FactOK(r)'
  <2>1. ASSUME NEW n \in Name, FactItems(r, n) # {}
        PROVE  r[Latest(FactItems(r, n))].val \in factory[n]
    <3>1. /\ FactItems(l, n) # {}
          /\ r[Latest(FactItems(r, n))] = l[Latest(FactItems(l, n))]
      BY <1>4, <2>1, GrownLast
    <3>2. QED
      BY <1>1, <1>3, <3>1 DEF FactOK
  <2>2. QED
    BY <1>5, <2>1 DEF FactOK
<1>8. ASSUME cached, NEW n \in Name
      PROVE  IF n = op.name /\ op.fact THEN tfact'[n] = off + 1
             ELSE FactItems(r, n) # {} => tfact'[n] = Latest(FactItems(r, n))
  <2>1. tfact' = [tfact EXCEPT ![op.name] =
                         IF op.val = None THEN 0 ELSE IF op.fact THEN off + 1 ELSE @]
    BY <1>5, <1>8 DEF TreeAdd
  <2>2. FactItems(l, n) # {} => tfact[n] = Latest(FactItems(l, n))
    BY <1>1, <1>3, <1>8 DEF TreeFacts
  <2>3. FactItems(l, n) # {} /\ op.name = n => op.val # None
    BY <1>1, NoDelete
  <2>4. op.fact => op.val # None
    BY <1>1 DEF NoMix
  <2>5. CASE n = op.name /\ op.fact
    BY <1>1, <1>5, <2>1, <2>4, <2>5
  <2>6. CASE ~(n = op.name /\ op.fact)
    <3>1. FactItems(l, n) # {} => tfact'[n] = tfact[n]
      BY <1>1, <1>5, <2>1, <2>3, <2>6
    <3>2. QED
      BY <1>6, <2>2, <2>6, <3>1
  <2>7. QED
    BY <2>5, <2>6
<1>9. log'[cur'] = r
  BY <1>3, <1>5
<1>10. \A n \in Name : Value(r, n) \in may'[n]
  BY <1>1, <1>3, <1>5, <1>6
<1>11. QED
  BY <1>5, <1>7, <1>8, <1>9, <1>10 DEF Sound

\* With its name it is the value.
LEMMA PutNameSound == ASSUME Inv, Sound, NoMix, PutName PROVE Sound'
<1>1. /\ ConfTypeOK /\ pc = "name" /\ op \in Put /\ op.name \in Name
      /\ op \in Item
      /\ (cached => \A n \in Name :
            IF n = op.name /\ op.fact THEN tfact[n] = off + 1
            ELSE FactItems(log[cur], n) # {} =>
                    tfact[n] = Latest(FactItems(log[cur], n)))
      /\ FactOK(log[cur]) /\ \A n \in Name : Value(log[cur], n) \in may[n]
  BY ItemFact DEF Inv, PutName, Putting, Sound
<1>2. log[cur] \in Seq(Item) /\ log'[cur] \in Seq(Item)
      /\ Grown(log[cur], log'[cur], op) /\ Len(log'[cur]) = off + 1
  BY <1>1, LogFact, NameEffect
<1>3. PICK l \in Seq(Item), r \in Seq(Item) : l = log[cur] /\ r = log'[cur]
  BY <1>2
<1>4. Grown(l, r, op) /\ Len(r) = off + 1
  BY <1>2, <1>3
<1>5. /\ cur' = cur /\ cached' = cached /\ pc' = "idle" /\ tfact' = tfact
      /\ may' = [may EXCEPT ![op.name] = {op.val}]
      /\ factory' = [factory EXCEPT ![op.name] = IF op.fact THEN {op.val} ELSE @]
      /\ DOMAIN may = Name /\ DOMAIN factory = Name
  BY <1>1 DEF PutName, Stored, ConfTypeOK
<1>6. FactOK(r)'
  <2>1. ASSUME NEW n \in Name, FactItems(r, n) # {}
        PROVE  r[Latest(FactItems(r, n))].val \in factory'[n]
    <3>1. CASE n = op.name /\ op.fact
      BY <1>1, <1>4, <1>5, <2>1, <3>1, GrownLast
    <3>2. CASE ~(n = op.name /\ op.fact)
      <4>1. /\ FactItems(l, n) # {}
            /\ r[Latest(FactItems(r, n))] = l[Latest(FactItems(l, n))]
        BY <1>1, <1>4, <2>1, <3>2, GrownLast
      <4>2. factory'[n] = factory[n]
        BY <1>5, <3>2
      <4>3. QED
        BY <1>1, <1>3, <4>1, <4>2 DEF FactOK
    <3>3. QED
      BY <3>1, <3>2
  <2>2. QED
    BY <2>1 DEF FactOK
<1>7. ASSUME NEW n \in Name
      PROVE  Value(r, n) \in may'[n]
  <2>1. Value(r, n) = IF op.name = n THEN op.val ELSE Value(l, n)
    BY <1>1, <1>4, GrownFact
  <2>2. QED
    BY <1>1, <1>3, <1>5, <2>1
<1>8. ASSUME cached'
      PROVE  TreeFacts(r)'
  <2>1. ASSUME NEW n \in Name, FactItems(r, n) # {}
        PROVE  tfact[n] = Latest(FactItems(r, n))
    <3>1. /\ FactItems(r, n) = IF op.name = n /\ op.fact
                               THEN FactItems(l, n) \cup {Len(r)}
                               ELSE FactItems(l, n)
          /\ Latest(FactItems(r, n)) = IF op.name = n /\ op.fact THEN Len(r)
                                       ELSE Latest(FactItems(l, n))
      BY <1>1, <1>4, GrownFact
    <3>2. QED
      BY <1>1, <1>3, <1>4, <1>5, <1>8, <2>1, <3>1
  <2>2. QED
    BY <1>5, <2>1 DEF TreeFacts
<1>9. log'[cur'] = r
  BY <1>3, <1>5
<1>10. QED
  BY <1>5, <1>6, <1>7, <1>8, <1>9 DEF Sound

\* The slot that was copied to is current.
LEMMA EraseRestSound ==
    ASSUME ~GoesOn, Inv, Sound, NoMix, EraseRest
    PROVE  Sound'
<1>1. /\ ConfTypeOK /\ pc = "rest" /\ Copied(log[cur], log[other], next)
  BY DEF Inv, EraseRest, Copying
<1>2. /\ FactOK(log[other]) /\ \A n \in Name : Value(log[other], n) \in may[n]
      /\ reset => \A n \in Name : Value(log[other], n) \in factory[n] \cup {None}
  BY <1>1, CopyOver
<1>3. /\ log' = [log EXCEPT ![cur] = <<>>] /\ cur' = other
      /\ pc' = (IF reset THEN "restart" ELSE "value")
      /\ may' = (IF reset THEN [n \in Name |-> factory[n] \cup {None}] ELSE may)
      /\ cached' = cached /\ tfact' = tfact /\ factory' = factory
  BY DEF EraseRest, AfterReset
<1>4. PICK o : o = log[other]
  OBVIOUS
<1>5. log'[cur'] = o
  BY <1>1, <1>3, <1>4, LogFact
<1>6. FactOK(o)' /\ \A n \in Name : Value(o, n) \in may'[n]
  BY <1>2, <1>3, <1>4 DEF FactOK
<1>7. cached' => TreeFacts(o)'
  BY <1>1, <1>3, <1>4 DEF Copied, TreeFacts
<1>8. QED
  BY <1>3, <1>5, <1>6, <1>7 DEF Sound

\* Sound is inductive.
LEMMA SoundStep ==
    ASSUME ~GoesOn, NoMix, Inv, Sound, [Next]_vars
    PROVE  Sound'
<1>1. ConfTypeOK
  BY DEF Inv
<1>2. ASSUME NEW item \in Put, ConfPut(item) PROVE Sound'
  <2>1. /\ pc = "idle" /\ cur' = cur /\ log' = log /\ cached' = cached
        /\ tfact' = tfact
        /\ pc' \in {"value", "copy"} /\ (pc' = "copy" => ~reset')
        /\ may' = [may EXCEPT ![item.name] = @ \cup {item.val}]
        /\ factory' = [factory EXCEPT ![item.name] =
                          IF item.fact THEN @ \cup {item.val} ELSE @]
        /\ DOMAIN may = Name /\ DOMAIN factory = Name
    BY <1>1, <1>2 DEF ConfPut, Compress, flash, ConfTypeOK
  <2>2. /\ \A n \in Name : may[n] \subseteq may'[n]
        /\ \A n \in Name : factory[n] \subseteq factory'[n]
    BY <2>1
  <2>3. QED
    BY <2>1, <2>2, SameSound
<1>3. ASSUME SaveHead PROVE Sound'
  BY <1>3, SameSound DEF SaveHead, call, ghost
<1>4. ASSUME ResetFactory PROVE Sound'
  <2>1. /\ pc = "idle" /\ cur' = cur /\ log' = log /\ pc' = "copy"
        /\ may' = [n \in Name |-> may[n] \cup factory[n] \cup {None}]
        /\ factory' = factory
    BY <1>4 DEF ResetFactory, Compress, flash
  <2>2. QED
    BY <2>1, SameSound
<1>5. ASSUME Copy \/ CopyHead \/ EraseHead PROVE Sound'
  <2>1. /\ pc \in {"copy", "erase"} /\ pc' \in {"copy", "erase", "rest"}
        /\ cur' = cur /\ reset' = reset /\ may' = may /\ factory' = factory
        /\ log'[cur] = log[cur]
    BY <1>5, CopyEffect DEF Copy, CopyHead, EraseHead, ghost, ram
  <2>2. reset => \A n \in Name : factory[n] \cup {None} \subseteq may[n]
    BY <2>1 DEF Sound
  <2>3. QED
    BY <2>1, <2>2, SameSound
<1>6. ASSUME Restart PROVE Sound'
  <2>1. /\ pc' = "down" /\ ~reset' /\ head' = head /\ log' = log
        /\ may' = may /\ factory' = factory
    BY <1>6 DEF Restart, flash, ghost
  <2>2. Durable /\ (head[Chosen] # NoHead => FactOK(log[Chosen]))
    BY Recover
  <2>3. Chosen' = Chosen
    BY <2>1 DEF Chosen, Newer
  <2>4. Durable' /\ (head'[Chosen'] # NoHead => FactOK(log[Chosen])')
    BY <2>1, <2>2, <2>3 DEF Durable, Recovered, FactOK
  <2>5. QED
    BY <2>1, <2>4 DEF Sound
<1>7. ASSUME UNCHANGED vars PROVE Sound'
  <2>1. /\ head' = head /\ log' = log /\ cur' = cur /\ off' = off
        /\ cached' = cached /\ tfact' = tfact /\ pc' = pc /\ op' = op
        /\ reset' = reset /\ may' = may /\ factory' = factory
    BY <1>7 DEF vars, flash, ram, call, ghost
  <2>2. QED
    BY <2>1 DEF Sound, Durable, Recovered, Chosen, Newer, FactOK, TreeFacts
<1>8. QED
  BY <1>2, <1>3, <1>4, <1>5, <1>6, <1>7, LoadSound, SkipSound, PutValueSound,
     PutNameSound, EraseRestSound DEF Next

-----------------------------------------------------------------------------
(* Theorems.                                                               *)

\* Every variable keeps its type, and no slot is given more items than it has
\* room for: conf_compress() is called in time, and makes room.
THEOREM TypeCorrect == ASSUME Room, ~GoesOn PROVE Spec => []ConfTypeOK
<1>1. Init => Inv
  BY InitInv
<1>2. Inv /\ [Next]_vars => Inv'
  BY InvStep
<1>3. Inv => ConfTypeOK
  BY DEF Inv
<1>4. QED
  BY <1>1, <1>2, <1>3, PTL DEF Spec

\* conf_put_name_val() and conf_compress() write where flash is erased, also
\* after a restart between any two of their writes.
THEOREM WritesErasedHolds == ASSUME Room, ~GoesOn PROVE Spec => []WritesErased
<1>1. Init => Inv
  BY InitInv
<1>2. Inv /\ [Next]_vars => Inv'
  BY InvStep
<1>3. Inv => WritesErased
  BY DEF Inv, Settled, Copying, Copied, WritesErased
<1>4. QED
  BY <1>1, <1>2, <1>3, PTL DEF Spec

\* Between calls conf_tree has the places of the last values in the current
\* slot, also after conf_compress() has moved them to the other one.
THEOREM CacheAgreesHolds == ASSUME Room, ~GoesOn PROVE Spec => []CacheAgrees
<1>1. Init => Inv
  BY InitInv
<1>2. Inv /\ [Next]_vars => Inv'
  BY InvStep
<1>3. Inv => CacheAgrees
  BY DEF Inv, Settled, CacheAgrees
<1>4. QED
  BY <1>1, <1>2, <1>3, PTL DEF Spec

\* A restart between any two writes finds of each name the last value that
\* was put, or one that it had before if the call has not ended; a factory
\* reset leaves a name the last value it was given as a factory item, or none.
THEOREM DurableHolds == ASSUME Room, ~GoesOn, NoMix PROVE Spec => []Durable
<1>1. Init => Inv /\ Sound
  BY InitInv, InitSound
<1>2. Inv /\ Sound /\ [Next]_vars => (Inv /\ Sound)'
  BY InvStep, SoundStep
<1>3. Inv /\ Sound => Durable
  BY Recover
<1>4. QED
  BY <1>1, <1>2, <1>3, PTL DEF Spec

=============================================================================
