----------------------------- MODULE ConfStore ------------------------------
(***************************************************************************)
(* The configuration store (conf.c, conf_flash.c).  Two slots of flash are *)
(* used in turns: items, a value followed by its name, are appended to the *)
(* current slot until it is full; then the last item of each name is       *)
(* copied to the other slot, the head of that slot is written, with the    *)
(* next generation id, and the old slot is erased.  The device may restart *)
(* between any two writes.                                                 *)
(*                                                                         *)
(* An offset is the number of items before it, and a value whose name was  *)
(* not written takes as much place as an item.  Names are leaves of the    *)
(* tree of names.  may and factory are not in the code: the values that a  *)
(* name may have after a restart, and after a factory reset.               *)
(***************************************************************************)
EXTENDS Integers, Sequences, FiniteSetsExt

CONSTANTS
    Name,           \* names of variables, paths of tokens
    Val,            \* values
    None,           \* no value, and the value of an item that deletes
    NoHead,         \* the head of a slot is not valid
    NoOp,           \* conf_put() is not running
    Put,            \* items that callers save: name, as factory item, value
    Size,           \* items in a slot
    GenMod,         \* generation ids: 128 in the code
    GoesOn          \* the caller of a factory reset does not restart

ASSUME ConfAssumption ==
    /\ IsFiniteSet(Name) /\ None \notin Val \cup Name
    /\ Put \subseteq [name : Name, fact : BOOLEAN, val : Val \cup {None}]
    /\ Size \in Nat \ {0} /\ GenMod \in Nat \ {0, 1} /\ GoesOn \in BOOLEAN
    /\ NoHead \notin Nat /\ NoOp \notin Put

VARIABLES
    head,           \* flash: the generation id in the head of each slot
    log,            \* flash: the items of each slot
    cur,            \* conf_cur
    gen,            \* gen_id, of which the head has seven bits
    off,            \* off: where the next item goes
    not_valid,      \* not_valid: no slot has a head
    cached,         \* conf_tree is not NULL
    tree,           \* conf_tree: place of the last item, 0 if none
    tfact,          \* conf_tree: place of the last factory item, 0 if none
    pc,             \* where the call that runs is
    op,             \* the item of conf_put()
    reset,          \* factory_reset of conf_compress()
    next,           \* next_off of conf_compress()
    may, factory

flash == <<head, log>>
ram == <<cur, gen, off, not_valid, cached, tree, tfact>>
call == <<pc, op, reset, next>>
ghost == <<may, factory>>
vars == <<flash, ram, call, ghost>>

Slot == {"startup", "factory"}
OtherSlot(s) == IF s = "startup" THEN "factory" ELSE "startup"
other == OtherSlot(cur)

\* A value without a name, or what a second write left: not an item.
Orphan == [name |-> None, fact |-> FALSE, val |-> None]

Item == Put \cup {Orphan}

\* The types of the variables; no slot holds more than it has room for, which
\* conf_compress() has to see to in time.
ConfTypeOK ==
    /\ head \in [Slot -> 0 .. GenMod - 1 \cup {NoHead}]
    /\ log \in [Slot -> Seq(Item)] /\ \A s \in Slot : Len(log[s]) <= Size
    /\ cur \in Slot /\ gen \in 0 .. GenMod - 1 /\ off \in 0 .. Size
    /\ not_valid \in BOOLEAN /\ cached \in BOOLEAN
    /\ tree \in [Name -> 0 .. Size] /\ tfact \in [Name -> 0 .. Size]
    /\ pc \in {"down", "idle", "value", "name", "copy", "erase", "rest", "restart"}
    /\ op \in Put \cup {NoOp} /\ reset \in BOOLEAN /\ next \in 1 .. Size + 1
    /\ may \in [Name -> SUBSET (Val \cup {None})]
    /\ factory \in [Name -> SUBSET (Val \cup {None})]

\* A device that has never saved a configuration.
Init ==
    /\ head = [s \in Slot |-> NoHead]
    /\ log = [s \in Slot |-> <<>>]
    /\ cur = "startup" /\ gen = 0 /\ off = 0
    /\ not_valid = FALSE /\ cached = FALSE
    /\ tree = [n \in Name |-> 0] /\ tfact = [n \in Name |-> 0]
    /\ pc = "down" /\ op = NoOp /\ reset = FALSE /\ next = 1
    /\ may = [n \in Name |-> {None}] /\ factory = [n \in Name |-> {None}]
-----------------------------------------------------------------------------
(* Reading a slot *)

\* conf_next_tlv() skips a value without a name and an item whose CRC is wrong.
Items(l, n) == {i \in DOMAIN l : l[i].name = n}
FactItems(l, n) == {i \in Items(l, n) : l[i].fact}
Latest(S) == IF S = {} THEN 0 ELSE Max(S)

\* conf_tree_add() for each item in turn: an item that deletes frees the node.
Live(l, n) ==
    LET i == Latest(Items(l, n)) IN IF i # 0 /\ l[i].val = None THEN 0 ELSE i
LiveFact(l, n) ==
    LET del == {i \in Items(l, n) : l[i].val = None}
    IN  Latest({i \in FactItems(l, n) : \A d \in del : i > d})

Value(l, n) == IF Live(l, n) = 0 THEN None ELSE l[Live(l, n)].val

\* Both heads are valid: the restart came just before the erase.
Newer == IF head["startup"] - head["factory"] >= 0 THEN "startup" ELSE "factory"

Chosen ==
    CASE head["factory"] = NoHead -> "startup"
      [] head["startup"] = NoHead -> "factory"
      [] OTHER -> Newer

\* What the device has if it restarts now.
Recovered(n) == IF head[Chosen] = NoHead THEN None ELSE Value(log[Chosen], n)

\* The bug of appending after the last whole item, on a value that is there.
LoadOff_Item(l) == Latest({i \in DOMAIN l : l[i] # Orphan})

\* conf_next_tlv() at the end: where further writes can be made.
LoadOff(l) == Len(l)
-----------------------------------------------------------------------------
(* Writing a slot *)

\* conf_flash_write_blk(): out of range is not written, and nobody looks at
\* the result; a write on what is written already leaves no item.
Write(l, p, item) ==
    IF p > Size THEN l
    ELSE IF p > Len(l) THEN Append(l, item) ELSE [l EXCEPT ![p] = Orphan]

(* conf_load_config(), which erases the slot that is not current. *)
Load ==
    /\ pc = "down"
    /\ cur' = Chosen
    /\ not_valid' = (head[Chosen] = NoHead)
    /\ gen' = IF not_valid' THEN 0 ELSE head[Chosen]
    /\ LET l == IF not_valid' THEN <<>> ELSE log[Chosen]
       IN  /\ log' = [s \in Slot |-> IF s = Chosen THEN l ELSE <<>>]
           /\ off' = LoadOff(l)
           /\ cached' = (not_valid' \/ \E i \in DOMAIN l : l[i] # Orphan)
           /\ tree' = [n \in Name |-> Live(l, n)]
           /\ tfact' = [n \in Name |-> IF Live(l, n) = 0 THEN 0 ELSE LiveFact(l, n)]
    /\ head' = [head EXCEPT ![OtherSlot(Chosen)] = NoHead]
    /\ may' = [n \in Name |-> {Recovered(n)}]
    /\ pc' = "idle"
    /\ UNCHANGED <<op, reset, next, factory>>

(* conf_save() of a device that has no configuration writes a head first.  *)
SaveHead ==
    /\ pc = "idle" /\ not_valid
    /\ gen' = (gen + 1) % GenMod
    /\ head' = [head EXCEPT ![cur] = gen']
    /\ not_valid' = FALSE
    /\ UNCHANGED <<log, cur, off, cached, tree, tfact, call, ghost>>

\* The bug of a slot that is taken to be full one item late.
NeedCompress_Late == off > Size

\* conf_need_compress()
NeedCompress == off + 1 > Size

Compress(r) ==
    /\ off' = 0 /\ next' = 1 /\ reset' = r
    /\ pc' = "copy"

(* conf_put() or conf_delete(), up to conf_check_fit(). *)
ConfPut(item) ==
    /\ pc = "idle" /\ ~not_valid
    /\ op' = item
    /\ may' = [may EXCEPT ![item.name] = @ \cup {item.val}]
    /\ factory' = [factory EXCEPT ![item.name] =
                      IF item.fact THEN @ \cup {item.val} ELSE @]
    /\ IF NeedCompress THEN Compress(FALSE)
       ELSE pc' = "value" /\ UNCHANGED <<off, next, reset>>
    /\ UNCHANGED <<flash, cur, gen, not_valid, cached, tree, tfact>>

\* conf_tlv_compare() of the value at a place of the current slot.
Reads(p, v) == p \in DOMAIN log[cur] /\ log[cur][p] # Orphan /\ log[cur][p].val = v

\* The existing value is the same; a factory item is looked at as well.
Same ==
    LET items == Items(log[cur], op.name)
        o == IF cached THEN tree[op.name] ELSE Latest(items)
        f == IF cached THEN tfact[op.name] ELSE Latest(FactItems(log[cur], op.name))
    IN  IF o = 0 THEN op.val = None
        ELSE IF op.fact THEN /\ op.val # None
                             /\ f = 0 \/ Reads(f, op.val)
                             /\ f = o \/ Reads(o, op.val)
             ELSE Reads(o, op.val)

\* conf_tree_add()
TreeAdd(item, p) ==
    IF ~cached THEN UNCHANGED <<tree, tfact>>
    ELSE /\ tree' = [tree EXCEPT ![item.name] = IF item.val = None THEN 0 ELSE p]
         /\ tfact' = [tfact EXCEPT ![item.name] =
                         IF item.val = None THEN 0 ELSE IF item.fact THEN p ELSE @]

\* The item is stored: the caller goes on.
Stored ==
    /\ may' = [may EXCEPT ![op.name] = {op.val}]
    /\ factory' = [factory EXCEPT ![op.name] = IF op.fact THEN {op.val} ELSE @]
    /\ op' = NoOp
    /\ pc' = "idle"

Skip ==
    /\ pc = "value" /\ Same
    /\ Stored
    /\ UNCHANGED <<flash, ram, reset, next>>

PutValue ==
    /\ pc = "value" /\ ~Same
    /\ TreeAdd(op, off + 1)
    /\ log' = [log EXCEPT ![cur] = Write(@, off + 1, Orphan)]
    /\ pc' = "name"
    /\ UNCHANGED <<head, cur, gen, off, not_valid, cached, op, reset, next, ghost>>

PutName ==
    /\ pc = "name"
    /\ log' = [log EXCEPT ![cur] =
                  IF off + 1 \in DOMAIN @ THEN [@ EXCEPT ![off + 1] = op] ELSE @]
    /\ off' = off + 1
    /\ Stored
    /\ UNCHANGED <<head, cur, gen, not_valid, cached, tree, tfact, reset, next>>

(* conf_reset_factory() *)
ResetFactory ==
    /\ pc = "idle" /\ ~not_valid
    /\ may' = [n \in Name |-> may[n] \cup factory[n] \cup {None}]
    /\ Compress(TRUE)
    /\ UNCHANGED <<flash, cur, gen, not_valid, cached, tree, tfact, op, factory>>
-----------------------------------------------------------------------------
(* conf_compress() *)

\* The last written item of its name, as the tree has it, or as a search
\* from here on finds it: a factory item is then hidden by factory items only.
IsLast(item) ==
    IF cached THEN tree[item.name] \in 1 .. next
    ELSE ~\E i \in Items(log[cur], item.name) :
             i > next /\ (item.fact => log[cur][i].fact)

Kept(item) ==
    /\ item # Orphan
    /\ reset => item.fact
    /\ IsLast(item)
    /\ item.val # None

\* The bug of a copy that the tree does not follow.
CopyTree_Not(item) == UNCHANGED <<tree, tfact>>

CopyTree(item) == TreeAdd(item, off + 1)

\* The bug of ending the copy one item early.
CopyDone_Early == next >= Len(log[cur])

\* conf_next_tlv() finds no more items.
CopyDone == next > Len(log[cur])

Copy ==
    /\ pc = "copy" /\ ~CopyDone
    /\ next' = next + 1
    /\ LET item == log[cur][next]
       IN  IF Kept(item)
           THEN /\ CopyTree(item)
                /\ log' = [log EXCEPT ![other] = Write(@, off + 1, item)]
                /\ off' = off + 1
           ELSE UNCHANGED <<tree, tfact, log, off>>
    /\ UNCHANGED <<head, cur, gen, not_valid, cached, pc, op, reset, ghost>>

CopyHead ==
    /\ pc = "copy" /\ CopyDone
    /\ gen' = (gen + 1) % GenMod
    /\ head' = [head EXCEPT ![other] = gen']
    /\ pc' = "erase"
    /\ UNCHANGED <<log, cur, off, not_valid, cached, tree, tfact, op, reset, next, ghost>>

\* The first sector of the old slot, with the head, and then the others.
EraseHead ==
    /\ pc = "erase"
    /\ head' = [head EXCEPT ![cur] = NoHead]
    /\ pc' = "rest"
    /\ UNCHANGED <<log, ram, op, reset, next, ghost>>

AfterReset == IF GoesOn THEN "idle" ELSE "restart"

EraseRest ==
    /\ pc = "rest"
    /\ log' = [log EXCEPT ![cur] = <<>>]
    /\ cur' = other
    /\ pc' = IF reset THEN AfterReset ELSE "value"
    /\ may' = IF reset THEN [n \in Name |-> factory[n] \cup {None}] ELSE may
    /\ reset' = FALSE /\ next' = 1
    /\ UNCHANGED <<head, gen, off, not_valid, cached, tree, tfact, op, factory>>

(* The device restarts: what is in RAM is lost. *)
Restart ==
    /\ pc # "down"
    /\ cur' = "startup" /\ gen' = 0 /\ off' = 0
    /\ not_valid' = FALSE /\ cached' = FALSE
    /\ tree' = [n \in Name |-> 0] /\ tfact' = [n \in Name |-> 0]
    /\ pc' = "down" /\ op' = NoOp /\ reset' = FALSE /\ next' = 1
    /\ UNCHANGED <<flash, ghost>>

Next ==
    \/ Load \/ SaveHead
    \/ \E item \in Put : ConfPut(item)
    \/ Skip \/ PutValue \/ PutName
    \/ ResetFactory
    \/ Copy \/ CopyHead \/ EraseHead \/ EraseRest
    \/ Restart

Spec == Init /\ [][Next]_vars
-----------------------------------------------------------------------------
(* Properties *)

\* Whenever the device restarts, each name has its last value, or, for the
\* item being put, the value before: nothing is lost or comes back while
\* conf_put_name_val() or conf_compress() is under way.
Durable == \A n \in Name : Recovered(n) \in may[n]

\* A factory reset leaves each name the last value it was given as a factory
\* item ("to allow for factory reset", conf_put_name_val()).
ResetRestores == pc = "restart" => \A n \in Name : Recovered(n) \in factory[n]

\* Between calls conf_tree has the place of the last value of each name, in
\* the slot that is current: what conf_item_find() and the comparison read.
CacheAgrees ==
    pc = "idle" /\ cached => \A n \in Name : tree[n] = Live(log[cur], n)

\* Items are only written where flash is erased, also after a restart that
\* left a value without a name: state->off is where further writes can be made.
WritesErased ==
    /\ pc \in {"idle", "value"} => off = Len(log[cur]) /\ log[other] = <<>>
    /\ pc = "copy" => off = Len(log[other])
=============================================================================
