--------------------------- MODULE InventoryProofs ----------------------------
(***************************************************************************)
(* What Inventory promises of the items, for any items, slots and blocks.  *)
(*                                                                         *)
(* An action of the inventory is a chain of functions from states to       *)
(* states.  The variables are therefore put into one record v, the one the *)
(* functions of Inventory take, and a lemma says of each function which    *)
(* fields it keeps (Keeps, Turns, ...) and which parts of the invariant.   *)
(*                                                                         *)
(* HeldOnce needs that an item the actor has is somewhere (Owned) and that *)
(* what is rejected is rejected once (RejectedOnce): a second reject would *)
(* take the item out of a place it may have come to since.                 *)
(*                                                                         *)
(* The counter of an item lies between what uses it now (Uses) and what it *)
(* will be at most when the messages under way have arrived (Charge); it   *)
(* counts modulo CounterSize, so the bounds of the model must be below it  *)
(* (NoWrap).                                                               *)
(***************************************************************************)
EXTENDS Inventory, FiniteSetTheorems, FunctionTheorems, TLAPS

(* The variables and the hands as a record.                                  *)
State == [
    all : SUBSET Items,
    ruck : SUBSET Items,
    belt : SUBSET Items,
    slots : [SlotIds -> Items \cup {NoItem}],
    place : [Items -> Places],
    chosen : [Items -> SlotIds \cup {NoSlot}],
    dropManual : SUBSET Items,
    processing : [Items -> 0 .. CounterSize - 1],
    active : SlotIds \cup {NoSlot},
    next : SlotIds \cup {NoSlot},
    events : Seq(Messages),
    hands : HandStates]

Meant(v) == \A i \in Items : v.chosen[i] \in Range(SlotsOf[i]) \cup {NoSlot}

(* HeldOnce of an item.                                                      *)
HeldAt(v, i) ==
    /\ i \in v.ruck <=> v.place[i] = "ruck"
    /\ i \in v.belt <=> v.place[i] = "belt"
    /\ \A s \in SlotIds : v.slots[s] = i <=> v.place[i] = "slot" /\ s = v.chosen[i]
    /\ v.place[i] = "slot" => v.chosen[i] \in SlotIds

Held(v) == \A i \in Items : HeldAt(v, i)

(* An item the actor has is somewhere.                                       *)
Owned(v) == \A i \in v.all : v.place[i] # "undefined"

(* The actor has what the server is to make nobody's, and the server is told *)
(* of it once.                                                               *)
RejectedOnce(v) ==
    \A k \in DOMAIN v.events : v.events[k].type = "reject" =>
        /\ v.events[k].item \in v.all
        /\ \A l \in DOMAIN v.events : v.events[l] = v.events[k] => l = k

Good(v) == v \in State /\ Meant(v) /\ Held(v) /\ Owned(v) /\ RejectedOnce(v)

(* What an item's counter is at least.                                       *)
Uses(v, i) ==
    (IF i \in v.all THEN 0 ELSE 1) + (IF v.place[i] \in {"slot", "belt"} THEN 1 ELSE 0)

(* The messages under way that may add to the counter of i.                  *)
Moves(e, i) == {k \in DOMAIN e : e[k].type \in {"item2slot", "item2belt"} /\ e[k].item = i}

(* What it is at most, when all of them have arrived and it is thrown away.  *)
Charge(v, i) ==
    v.processing[i] + Cardinality(Moves(v.events, i)) + (IF i \in v.all THEN 1 ELSE 0)

CountedAt(v, i) ==
    /\ v.processing[i] >= Uses(v, i)
    /\ Charge(v, i) <= MaxProcessing + MaxEvents + 1

Counted(v) == \A i \in Items : CountedAt(v, i)

(* The bounds keep the counters from their largest value.                    *)
NoWrap == MaxProcessing + MaxEvents + 1 < CounterSize

Invariant(v) == Good(v) /\ (NoWrap => Counted(v))

IInv == Invariant(Current("shown"))

-----------------------------------------------------------------------------
(* Functions that only read the slots.                                       *)

(* All but where items are, the counters and the next slot.                  *)
Keeps(v, w) ==
    /\ w \in State
    /\ w.all = v.all
    /\ w.chosen = v.chosen
    /\ w.dropManual = v.dropManual
    /\ w.active = v.active
    /\ w.events = v.events
    /\ w.hands = v.hands

(* Only the next slot, or nothing, changes.                                  *)
Turns(v, w) ==
    /\ Keeps(v, w)
    /\ w.ruck = v.ruck
    /\ w.belt = v.belt
    /\ w.slots = v.slots
    /\ w.place = v.place
    /\ w.processing = v.processing

LEMMA ActivateTurns ==
  ASSUME NEW v \in State, NEW s \in SlotIds \cup {NoSlot}
  PROVE  Turns(v, Activate(v, s)) /\ Activate(v, s).next \in {v.next, s}
<1>1. CASE Activate(v, s) = v
  BY <1>1 DEF Turns, Keeps, State
<1>2. CASE Activate(v, s) = [v EXCEPT !.next = s]
  BY <1>2 DEF Turns, Keeps, State
<1> QED BY <1>1, <1>2 DEF Activate

(* What is active already is not asked for.                                  *)
LEMMA ActivateActive ==
  ASSUME NEW v, NEW s, v.active = s
  PROVE  Activate(v, s) = v
  BY DEF Activate

(* The hands let go of the slot an item leaves.                              *)
LEMMA OutOfSlotIs ==
  ASSUME NEW v \in State, NEW s \in SlotIds
  PROVE  LET w == OutOfSlot(v, s) IN
         /\ Keeps(v, w)
         /\ w.ruck = v.ruck /\ w.belt = v.belt /\ w.place = v.place
         /\ w.processing = v.processing
         /\ w.slots = [v.slots EXCEPT ![s] = NoItem]
         /\ w.next = IF v.active = s THEN NoSlot ELSE v.next
<1> DEFINE free == IF v.active = s THEN Activate(v, NoSlot) ELSE v
<1>1. Turns(v, free) /\ free.next = IF v.active = s THEN NoSlot ELSE v.next
  <2>1. CASE v.active = s
    <3>1. Turns(v, Activate(v, NoSlot)) /\ Activate(v, NoSlot).next \in {v.next, NoSlot}
      BY ActivateTurns
    <3>2. Activate(v, NoSlot).next = NoSlot
      <4>1. NoSlot \notin InvisibleSlots /\ v.active # NoSlot
        BY <2>1, InventoryAssumption DEF InventoryAssumption
      <4>2. CASE v.next = NoSlot
        BY <3>1, <4>2
      <4>3. CASE v.next # NoSlot
        <5>1. Activate(v, NoSlot) = [v EXCEPT !.next = NoSlot]
          BY <4>1, <4>3 DEF Activate
        <5> QED BY <5>1 DEF State
      <4> QED BY <4>2, <4>3
    <3> QED BY <2>1, <3>1, <3>2
  <2>2. CASE v.active # s
    BY <2>2 DEF Turns, Keeps
  <2> QED BY <2>1, <2>2
<1>2. OutOfSlot(v, s) = [free EXCEPT !.slots[s] = NoItem]
  BY DEF OutOfSlot
<1> HIDE DEF free
<1>3. free \in State /\ [free EXCEPT !.slots[s] = NoItem] \in State
  BY <1>1 DEF Turns, Keeps, State
<1>4. /\ OutOfSlot(v, s).slots = [free.slots EXCEPT ![s] = NoItem]
      /\ OutOfSlot(v, s).next = free.next
      /\ OutOfSlot(v, s).ruck = free.ruck
      /\ OutOfSlot(v, s).belt = free.belt
      /\ OutOfSlot(v, s).place = free.place
      /\ OutOfSlot(v, s).processing = free.processing
      /\ Keeps(free, OutOfSlot(v, s))
  BY <1>2, <1>3 DEF State, Keeps
<1> QED BY <1>1, <1>4 DEF Turns, Keeps

(* The counter of an item.                                                   *)
Counts(v, w, i, n) ==
    /\ Keeps(v, w)
    /\ w.ruck = v.ruck
    /\ w.belt = v.belt
    /\ w.slots = v.slots
    /\ w.place = v.place
    /\ w.next = v.next
    /\ w.processing = [v.processing EXCEPT ![i] = n]

Up(n) == (n + 1) % CounterSize
Down(n) == (n + CounterSize - 1) % CounterSize

LEMMA UpAndDown ==
  ASSUME NEW n \in 0 .. CounterSize - 1
  PROVE  /\ Up(n) \in 0 .. CounterSize - 1
         /\ Down(n) \in 0 .. CounterSize - 1
         /\ n + 1 < CounterSize => Up(n) = n + 1
         /\ n > 0 => Down(n) = n - 1
<1>1. CounterSize \in Nat \ {0, 1}
  BY InventoryAssumption DEF InventoryAssumption
<1> QED BY <1>1 DEF Up, Down

LEMMA CountersIn ==
  ASSUME NEW v \in State, NEW i \in Items
  PROVE  v.processing[i] \in 0 .. CounterSize - 1
  BY DEF State

LEMMA CountingIs ==
  ASSUME NEW v \in State, NEW i \in Items
  PROVE  /\ Counts(v, processing_activate(v, i), i, Up(v.processing[i]))
         /\ Counts(v, processing_deactivate(v, i), i, Down(v.processing[i]))
<1> DEFINE n == Up(v.processing[i])
           m == Down(v.processing[i])
<1>1. n \in 0 .. CounterSize - 1 /\ m \in 0 .. CounterSize - 1
  BY CountersIn, UpAndDown
<1>2. processing_activate(v, i) = [v EXCEPT !.processing[i] = n]
  BY DEF processing_activate, Up
<1>3. processing_deactivate(v, i) = [v EXCEPT !.processing[i] = m]
  BY DEF processing_deactivate, Down
<1> HIDE DEF n, m
<1>4. Counts(v, [v EXCEPT !.processing[i] = n], i, n)
  BY <1>1 DEF Counts, Keeps, State
<1>5. Counts(v, [v EXCEPT !.processing[i] = m], i, m)
  BY <1>1 DEF Counts, Keeps, State
<1> QED BY <1>2, <1>3, <1>4, <1>5 DEF n, m

-----------------------------------------------------------------------------
(* The containers.                                                           *)

(* The hands that hold what leaves its slot are made to let go of it, and    *)
(* are not made to take anything else.                                       *)
Frees(v, w) ==
    v.active # NoSlot =>
        /\ w.next \in {v.next, NoSlot}
        /\ v.slots[v.active] # NoItem /\ w.slots[v.active] # v.slots[v.active] => w.next = NoSlot

(* i is taken from wherever it is and put there.                             *)
Put(v, w, i, there) ==
    /\ Keeps(v, w)
    /\ w.place = [v.place EXCEPT ![i] = there]
    /\ w.ruck = IF there = "ruck" THEN v.ruck \cup {i} ELSE v.ruck \ {i}
    /\ w.belt = IF there = "belt" THEN v.belt \cup {i} ELSE v.belt \ {i}
    /\ \A s \in SlotIds :
          w.slots[s] = IF there = "slot" /\ s = v.chosen[i] THEN i
                       ELSE IF v.slots[s] = i THEN NoItem ELSE v.slots[s]
    /\ \A j \in Items \ {i} : w.processing[j] = v.processing[j]
    /\ Frees(v, w)

LEMMA PutHolds ==
  ASSUME NEW v \in State, NEW w, NEW i \in Items, NEW there \in Places,
         Put(v, w, i, there),
         there = "slot" => v.chosen[i] \in SlotIds /\ v.slots[v.chosen[i]] \in {NoItem, i}
  PROVE  HeldAt(w, i) /\ \A j \in Items \ {i} : HeldAt(v, j) => HeldAt(w, j)
<1>1. /\ w.chosen = v.chosen
      /\ w.place = [v.place EXCEPT ![i] = there]
      /\ w.ruck = IF there = "ruck" THEN v.ruck \cup {i} ELSE v.ruck \ {i}
      /\ w.belt = IF there = "belt" THEN v.belt \cup {i} ELSE v.belt \ {i}
      /\ \A s \in SlotIds :
            w.slots[s] = IF there = "slot" /\ s = v.chosen[i] THEN i
                         ELSE IF v.slots[s] = i THEN NoItem ELSE v.slots[s]
  BY DEF Put, Keeps
<1>2. v.place \in [Items -> Places] /\ NoItem \notin Items
  BY InventoryAssumption DEF State, InventoryAssumption
<1>3. HeldAt(w, i)
  BY <1>1, <1>2 DEF HeldAt
<1>4. ASSUME NEW j \in Items \ {i}, HeldAt(v, j) PROVE HeldAt(w, j)
  <2>1. HeldAt(v, j) /\ w.place[j] = v.place[j] /\ j # NoItem
    BY <1>1, <1>2, <1>4
  <2>2. ASSUME NEW s \in SlotIds PROVE w.slots[s] = j <=> v.slots[s] = j
    <3>1. w.slots[s] = IF there = "slot" /\ s = v.chosen[i] THEN i
                         ELSE IF v.slots[s] = i THEN NoItem ELSE v.slots[s]
      BY <1>1
    <3>2. there = "slot" /\ s = v.chosen[i] => v.slots[s] \in {NoItem, i}
      OBVIOUS
    <3> QED BY <2>1, <3>1, <3>2
  <2> QED BY <1>1, <2>1, <2>2 DEF HeldAt
<1> QED BY <1>3, <1>4

(* Where an item of which HeldOnce is true is.                               *)
LEMMA HeldInSlot ==
  ASSUME NEW v \in State, NEW i \in Items, HeldAt(v, i)
  PROVE  /\ InSlot(v, i) <=> v.place[i] = "slot"
         /\ InSlot(v, i) => v.chosen[i] \in SlotIds
         /\ CanPutInSlot(v, i) => v.place[i] # "slot" /\ v.chosen[i] \in SlotIds
         /\ CanPutInBelt(v, i) => v.place[i] # "belt"
         /\ CanPutInRuck(v, i) <=> v.place[i] # "ruck"
<1>1. v.chosen[i] \in SlotIds \cup {NoSlot} /\ i # NoItem /\ NoSlot \notin SlotIds
  BY InventoryAssumption DEF State, InventoryAssumption
<1> QED BY <1>1 DEF HeldAt, InSlot, Occupied, CanPutInSlot, CanPutInBelt, CanPutInRuck

(* An item leaves the only slot it is in.                                    *)
LEMMA OutOfOnlySlot ==
  ASSUME NEW v \in State, NEW i \in Items, NEW s \in SlotIds, v.slots[s] = i,
         \A t \in SlotIds : v.slots[t] = i => t = s
  PROVE  LET w == OutOfSlot(v, s) IN
         /\ Keeps(v, w)
         /\ w.ruck = v.ruck /\ w.belt = v.belt /\ w.place = v.place
         /\ w.processing = v.processing
         /\ \A t \in SlotIds : w.slots[t] = IF v.slots[t] = i THEN NoItem ELSE v.slots[t]
         /\ Frees(v, w)
<1> DEFINE w == OutOfSlot(v, s)
<1>1. /\ Keeps(v, w)
      /\ w.ruck = v.ruck /\ w.belt = v.belt /\ w.place = v.place
      /\ w.processing = v.processing
      /\ w.slots = [v.slots EXCEPT ![s] = NoItem]
      /\ w.next = IF v.active = s THEN NoSlot ELSE v.next
  BY OutOfSlotIs
<1> HIDE DEF w
<1>2. v.slots \in [SlotIds -> Items \cup {NoItem}] /\ v.active \in SlotIds \cup {NoSlot}
  BY DEF State
<1>3. \A t \in SlotIds : w.slots[t] = IF v.slots[t] = i THEN NoItem ELSE v.slots[t]
  BY <1>1, <1>2
<1>4. Frees(v, w)
  BY <1>1, <1>2 DEF Frees
<1> QED BY <1>1, <1>3, <1>4 DEF w

(* The container the item's place names.                                     *)
LEMMA PlaceIs ==
  ASSUME NEW v \in State, NEW i \in Items, NEW there \in Places
  PROVE  LET w == [v EXCEPT !.place[i] = there] IN
         /\ Keeps(v, w)
         /\ w.ruck = v.ruck /\ w.belt = v.belt /\ w.slots = v.slots
         /\ w.next = v.next
         /\ w.processing = v.processing
         /\ w.place = [v.place EXCEPT ![i] = there]
  BY DEF Keeps, State

LEMMA SlotPuts ==
  ASSUME NEW v \in State, NEW i \in Items, CanPutInSlot(v, i),
         \A t, u \in SlotIds : v.slots[t] = i /\ v.slots[u] = i => t = u
  PROVE  /\ Put(v, Slot(v, i), i, "slot")
         /\ Slot(v, i).processing[i] = Up(v.processing[i])
<1> DEFINE s == v.chosen[i]
           out == IF SlotsWith(v, i) = {} THEN v
                  ELSE OutOfSlot(v, CHOOSE t \in SlotsWith(v, i) : TRUE)
           in == [out EXCEPT !.slots[s] = i,
                             !.ruck = @ \ {i},
                             !.belt = @ \ {i}]
           drawn == IF \/ in.active = s
                       \/ in.active = NoSlot /\ in.next = NoSlot
                    THEN Activate(in, s)
                    ELSE in
           there == [drawn EXCEPT !.place[i] = "slot"]
<1>1. Slot(v, i) = processing_activate(there, i)
  BY DEF Slot
<1>2. s \in SlotIds /\ v.slots[s] = NoItem /\ i # NoItem
  BY InventoryAssumption DEF CanPutInSlot, State, InventoryAssumption
<1> HIDE DEF s
<1>3. /\ Keeps(v, out)
      /\ out.ruck = v.ruck /\ out.belt = v.belt /\ out.place = v.place
      /\ out.processing = v.processing
      /\ \A t \in SlotIds : out.slots[t] = IF v.slots[t] = i THEN NoItem ELSE v.slots[t]
      /\ Frees(v, out)
  <2>1. CASE SlotsWith(v, i) = {}
    BY <2>1 DEF SlotsWith, Keeps, Frees
  <2>2. CASE SlotsWith(v, i) # {}
    <3> DEFINE t == CHOOSE u \in SlotsWith(v, i) : TRUE
    <3>1. t \in SlotsWith(v, i)
      BY <2>2
    <3>2. out = OutOfSlot(v, t)
      BY <2>2
    <3> HIDE DEF t, out
    <3>3. t \in SlotIds /\ v.slots[t] = i
      BY <3>1 DEF SlotsWith
    <3> QED BY <3>2, <3>3, OutOfOnlySlot
  <2> QED BY <2>1, <2>2
<1> HIDE DEF out
<1>4. /\ Keeps(out, in)
      /\ in.ruck = out.ruck \ {i} /\ in.belt = out.belt \ {i}
      /\ in.place = out.place /\ in.processing = out.processing /\ in.next = out.next
      /\ in.slots = [out.slots EXCEPT ![s] = i]
  BY <1>2, <1>3 DEF Keeps, State
<1> HIDE DEF in
<1>5. Turns(in, drawn) /\ (in.active # NoSlot => drawn = in)
  <2>1. in \in State
    BY <1>4 DEF Keeps
  <2>2. CASE drawn = in
    BY <2>1, <2>2 DEF Turns, Keeps
  <2>3. CASE drawn # in
    BY <1>2, <2>1, <2>3, ActivateTurns, ActivateActive
  <2> QED BY <2>2, <2>3
<1> HIDE DEF drawn
<1>6. /\ Keeps(drawn, there)
      /\ there.ruck = drawn.ruck /\ there.belt = drawn.belt /\ there.slots = drawn.slots
      /\ there.next = drawn.next
      /\ there.processing = drawn.processing
      /\ there.place = [drawn.place EXCEPT ![i] = "slot"]
  <2>1. drawn \in State /\ "slot" \in Places
    BY <1>5 DEF Turns, Keeps, Places
  <2> QED BY <2>1, PlaceIs
<1> HIDE DEF there
<1>7. Counts(there, Slot(v, i), i, Up(there.processing[i]))
  <2>1. there \in State
    BY <1>6 DEF Keeps
  <2> QED BY <1>1, <2>1, CountingIs
<1> DEFINE w == Slot(v, i)
<1> HIDE DEF w
<1>8. Counts(there, w, i, Up(there.processing[i]))
  BY <1>7 DEF w
<1>9. Keeps(v, w)
  BY <1>3, <1>4, <1>5, <1>6, <1>8 DEF Keeps, Turns, Counts
<1>10. /\ w.place = [v.place EXCEPT ![i] = "slot"]
       /\ w.ruck = v.ruck \ {i}
       /\ w.belt = v.belt \ {i}
  BY <1>3, <1>4, <1>5, <1>6, <1>8 DEF Turns, Counts
<1>11. w.processing = [v.processing EXCEPT ![i] = Up(v.processing[i])]
  BY <1>3, <1>4, <1>5, <1>6, <1>8 DEF Turns, Counts
<1>12. v.processing \in [Items -> 0 .. CounterSize - 1] /\ out.slots \in [SlotIds -> Items \cup {NoItem}]
       /\ v.active \in SlotIds \cup {NoSlot}
  BY <1>3 DEF State, Keeps
<1>13. w.slots = [out.slots EXCEPT ![s] = i]
  BY <1>4, <1>5, <1>6, <1>8 DEF Turns, Counts
<1>14. \A t \in SlotIds :
          w.slots[t] = IF t = s THEN i ELSE IF v.slots[t] = i THEN NoItem ELSE v.slots[t]
  BY <1>2, <1>3, <1>12, <1>13
<1>15. v.active # NoSlot => w.next = out.next
  BY <1>3, <1>4, <1>5, <1>6, <1>8 DEF Turns, Counts, Keeps
<1>16. Frees(v, w)
  <2> SUFFICES ASSUME v.active # NoSlot PROVE Frees(v, w)
    BY DEF Frees
  <2>1. v.slots[v.active] # NoItem => w.slots[v.active] = out.slots[v.active]
    BY <1>2, <1>3, <1>12, <1>14
  <2> QED BY <1>3, <1>15, <2>1 DEF Frees
<1>17. w.processing[i] = Up(v.processing[i])
  BY <1>11, <1>12
<1>18. Put(v, w, i, "slot")
  BY <1>9, <1>10, <1>11, <1>12, <1>14, <1>16 DEF Put, s
<1> QED BY <1>17, <1>18 DEF w

(* Else the item is in its slot and that is asked for, or nothing is done.   *)
LEMMA SlotTurns ==
  ASSUME NEW v \in State, NEW i \in Items, ~CanPutInSlot(v, i)
  PROVE  Turns(v, Slot(v, i))
<1>1. Turns(v, v)
  BY DEF Turns, Keeps
<1>2. v.chosen[i] \in SlotIds \cup {NoSlot}
  BY DEF State
<1> QED BY <1>1, <1>2, ActivateTurns DEF Slot

(* An item leaves its slot and is counted less.                              *)
LEMMA LeavesSlot ==
  ASSUME NEW v \in State, NEW i \in Items, HeldAt(v, i), v.place[i] = "slot"
  PROVE  LET w == processing_deactivate(OutOfSlot(v, v.chosen[i]), i) IN
         /\ Keeps(v, w)
         /\ w.ruck = v.ruck /\ w.belt = v.belt /\ w.place = v.place
         /\ w.processing = [v.processing EXCEPT ![i] = Down(v.processing[i])]
         /\ \A t \in SlotIds : w.slots[t] = IF v.slots[t] = i THEN NoItem ELSE v.slots[t]
         /\ Frees(v, w)
<1> DEFINE s == v.chosen[i]
           out == OutOfSlot(v, s)
           w == processing_deactivate(out, i)
<1>1. s \in SlotIds /\ v.slots[s] = i /\ \A t \in SlotIds : v.slots[t] = i => t = s
  BY DEF HeldAt
<1> HIDE DEF s
<1>2. /\ Keeps(v, out)
      /\ out.ruck = v.ruck /\ out.belt = v.belt /\ out.place = v.place
      /\ out.processing = v.processing
      /\ \A t \in SlotIds : out.slots[t] = IF v.slots[t] = i THEN NoItem ELSE v.slots[t]
      /\ Frees(v, out)
  BY <1>1, OutOfOnlySlot
<1> HIDE DEF out
<1>3. Counts(out, w, i, Down(out.processing[i]))
  BY <1>2, CountingIs DEF Keeps
<1> HIDE DEF w
<1>4. /\ Keeps(v, w)
      /\ w.ruck = v.ruck /\ w.belt = v.belt /\ w.place = v.place
      /\ w.processing = [v.processing EXCEPT ![i] = Down(v.processing[i])]
      /\ \A t \in SlotIds : w.slots[t] = IF v.slots[t] = i THEN NoItem ELSE v.slots[t]
  BY <1>2, <1>3 DEF Keeps, Counts
<1>5. w.next = out.next /\ w.slots = out.slots
  BY <1>3 DEF Counts
<1>6. Frees(v, w)
  BY <1>2, <1>5 DEF Frees
<1> QED BY <1>4, <1>6 DEF w, out, s

(* What is counted less and more.                                            *)
LEMMA CountIs ==
  ASSUME NEW v \in State, NEW i \in Items, NEW n \in 0 .. CounterSize - 1
  PROVE  [v.processing EXCEPT ![i] = n][i] = n
  BY DEF State

LEMMA BeltPuts ==
  ASSUME NEW v \in State, NEW i \in Items, HeldAt(v, i), CanPutInBelt(v, i)
  PROVE  /\ Put(v, Belt(v, i), i, "belt")
         /\ Belt(v, i).processing[i] =
               Up(IF v.place[i] = "slot" THEN Down(v.processing[i]) ELSE v.processing[i])
<1> DEFINE n == IF v.place[i] = "slot" THEN Down(v.processing[i]) ELSE v.processing[i]
           out == IF InSlot(v, i)
                  THEN processing_deactivate(OutOfSlot(v, v.chosen[i]), i)
                  ELSE [v EXCEPT !.ruck = @ \ {i}]
           there == [out EXCEPT !.belt = @ \cup {i}, !.place[i] = "belt"]
           w == Belt(v, i)
<1>1. w = processing_activate(there, i)
  BY DEF Belt
<1>2. InSlot(v, i) <=> v.place[i] = "slot"
  BY HeldInSlot
<1>3. n \in 0 .. CounterSize - 1
  BY CountersIn, UpAndDown
<1>4. i \in v.ruck <=> v.place[i] = "ruck"
  BY DEF HeldAt
<1>5. \A t \in SlotIds : v.slots[t] = i => v.place[i] = "slot"
  BY DEF HeldAt
<1>6. /\ Keeps(v, out)
      /\ out.ruck = v.ruck \ {i} /\ out.belt = v.belt /\ out.place = v.place
      /\ \A t \in SlotIds : out.slots[t] = IF v.slots[t] = i THEN NoItem ELSE v.slots[t]
      /\ out.processing = [v.processing EXCEPT ![i] = n]
      /\ Frees(v, out)
  <2>1. CASE v.place[i] = "slot"
    BY <1>2, <1>4, <2>1, LeavesSlot
  <2>2. CASE v.place[i] # "slot"
    <3>1. out = [v EXCEPT !.ruck = @ \ {i}] /\ n = v.processing[i]
      BY <1>2, <2>2
    <3> HIDE DEF out, n
    <3>2. /\ Keeps(v, out)
          /\ out.ruck = v.ruck \ {i} /\ out.belt = v.belt /\ out.place = v.place
          /\ out.slots = v.slots /\ out.processing = v.processing /\ out.next = v.next
      BY <3>1 DEF Keeps, State
    <3>3. v.processing = [v.processing EXCEPT ![i] = v.processing[i]]
      BY DEF State
    <3>4. Frees(v, out)
      BY <3>2 DEF Frees
    <3> QED BY <1>5, <2>2, <3>1, <3>2, <3>3, <3>4
  <2> QED BY <2>1, <2>2
<1> HIDE DEF out, n
<1>7. /\ Keeps(out, there)
      /\ there.ruck = out.ruck /\ there.belt = out.belt \cup {i}
      /\ there.place = [out.place EXCEPT ![i] = "belt"]
      /\ there.slots = out.slots /\ there.processing = out.processing
      /\ there.next = out.next
  <2>1. out \in State
    BY <1>6 DEF Keeps
  <2> QED BY <2>1 DEF Keeps, State, Places
<1> HIDE DEF there
<1>8. Counts(there, w, i, Up(there.processing[i]))
  BY <1>1, <1>7, CountingIs DEF Keeps
<1>9. there.processing[i] = n
  BY <1>3, <1>6, <1>7, CountIs
<1> HIDE DEF w
<1>10. Keeps(v, w)
  BY <1>6, <1>7, <1>8 DEF Keeps, Counts
<1>11. /\ w.place = [v.place EXCEPT ![i] = "belt"]
       /\ w.ruck = v.ruck \ {i} /\ w.belt = v.belt \cup {i}
       /\ w.slots = out.slots /\ w.next = out.next
       /\ w.processing = [[v.processing EXCEPT ![i] = n] EXCEPT ![i] = Up(n)]
  BY <1>6, <1>7, <1>8, <1>9 DEF Counts
<1>12. w.processing[i] = Up(n) /\ \A j \in Items \ {i} : w.processing[j] = v.processing[j]
  BY <1>11 DEF State
<1>13. Frees(v, w)
  BY <1>6, <1>11 DEF Frees
<1>14. Put(v, w, i, "belt")
  BY <1>6, <1>10, <1>11, <1>12, <1>13 DEF Put
<1> QED BY <1>12, <1>14 DEF w, n

LEMMA RuckPuts ==
  ASSUME NEW v \in State, NEW i \in Items, HeldAt(v, i), CanPutInRuck(v, i)
  PROVE  /\ Put(v, Ruck(v, i), i, "ruck")
         /\ Ruck(v, i).processing[i] =
               IF v.place[i] = "slot" THEN Down(v.processing[i]) ELSE v.processing[i]
<1> DEFINE n == IF v.place[i] = "slot" THEN Down(v.processing[i]) ELSE v.processing[i]
           out == IF InSlot(v, i)
                  THEN processing_deactivate(OutOfSlot(v, v.chosen[i]), i)
                  ELSE [v EXCEPT !.belt = @ \ {i}]
           w == Ruck(v, i)
<1>1. w = [out EXCEPT !.ruck = @ \cup {i}, !.place[i] = "ruck"]
  BY DEF Ruck
<1>2. InSlot(v, i) <=> v.place[i] = "slot"
  BY HeldInSlot
<1>3. n \in 0 .. CounterSize - 1
  BY CountersIn, UpAndDown
<1>4. i \in v.belt <=> v.place[i] = "belt"
  BY DEF HeldAt
<1>5. \A t \in SlotIds : v.slots[t] = i => v.place[i] = "slot"
  BY DEF HeldAt
<1>6. /\ Keeps(v, out)
      /\ out.ruck = v.ruck /\ out.belt = v.belt \ {i} /\ out.place = v.place
      /\ \A t \in SlotIds : out.slots[t] = IF v.slots[t] = i THEN NoItem ELSE v.slots[t]
      /\ out.processing = [v.processing EXCEPT ![i] = n]
      /\ Frees(v, out)
  <2>1. CASE v.place[i] = "slot"
    BY <1>2, <1>4, <2>1, LeavesSlot
  <2>2. CASE v.place[i] # "slot"
    <3>1. out = [v EXCEPT !.belt = @ \ {i}] /\ n = v.processing[i]
      BY <1>2, <2>2
    <3> HIDE DEF out, n
    <3>2. /\ Keeps(v, out)
          /\ out.ruck = v.ruck /\ out.belt = v.belt \ {i} /\ out.place = v.place
          /\ out.slots = v.slots /\ out.processing = v.processing /\ out.next = v.next
      BY <3>1 DEF Keeps, State
    <3>3. v.processing = [v.processing EXCEPT ![i] = v.processing[i]]
      BY DEF State
    <3>4. Frees(v, out)
      BY <3>2 DEF Frees
    <3> QED BY <1>5, <2>2, <3>1, <3>2, <3>3, <3>4
  <2> QED BY <2>1, <2>2
<1> HIDE DEF out, n, w
<1>7. /\ Keeps(out, w)
      /\ w.ruck = out.ruck \cup {i} /\ w.belt = out.belt
      /\ w.place = [out.place EXCEPT ![i] = "ruck"]
      /\ w.slots = out.slots /\ w.processing = out.processing
      /\ w.next = out.next
  <2>1. out \in State
    BY <1>6 DEF Keeps
  <2> QED BY <1>1, <2>1 DEF Keeps, State, Places
<1>8. Keeps(v, w)
  BY <1>6, <1>7 DEF Keeps
<1>9. w.processing[i] = n /\ \A j \in Items \ {i} : w.processing[j] = v.processing[j]
  BY <1>6, <1>7 DEF State
<1>10. Frees(v, w)
  BY <1>6, <1>7 DEF Frees
<1>11. Put(v, w, i, "ruck")
  BY <1>6, <1>7, <1>8, <1>9, <1>10 DEF Put
<1> QED BY <1>9, <1>11 DEF w, n

-----------------------------------------------------------------------------
(* What a function makes of an inventory in which everything is held once.   *)

Worn(v, i) == IF v.place[i] \in {"slot", "belt"} THEN 1 ELSE 0

(* The counter goes up at least when i is put on and stays or goes down at   *)
(* most when it is taken off.                                                *)
Balanced(v, w, i, most) ==
    v.processing[i] >= Worn(v, i) /\ v.processing[i] + most < CounterSize =>
        /\ w.processing[i] + Worn(v, i) >= v.processing[i] + Worn(w, i)
        /\ w.processing[i] <= v.processing[i] + most

(* LetsGo of a step from v to w.                                             *)
Releases(v, w) ==
    v.active # NoSlot /\ v.slots[v.active] # NoItem /\ w.slots[v.active] # v.slots[v.active]
        => w.next # v.active

Moved(v, w, i, most) ==
    /\ Keeps(v, w)
    /\ Held(w)
    /\ Releases(v, w)
    /\ \A j \in Items \ {i} : w.place[j] = v.place[j] /\ w.processing[j] = v.processing[j]
    /\ w.place[i] = "undefined" => v.place[i] = "undefined"
    /\ Balanced(v, w, i, most)

LEMMA TurnsMoves ==
  ASSUME NEW v \in State, Held(v), NEW w, Turns(v, w), NEW i \in Items, NEW most \in {0, 1}
  PROVE  Moved(v, w, i, most)
<1>1. Held(w)
  BY DEF Turns, Keeps, Held, HeldAt
<1>2. v.processing[i] \in 0 .. CounterSize - 1
  BY CountersIn
<1>3. Balanced(v, w, i, most)
  BY <1>2, InventoryAssumption DEF Turns, Balanced, Worn, InventoryAssumption
<1> QED BY <1>1, <1>3 DEF Moved, Turns, Releases

LEMMA PutMoves ==
  ASSUME NEW v \in State, NEW i \in Items, NEW w, NEW there \in Places \ {"undefined"},
         NEW most \in {0, 1}, Put(v, w, i, there), Balanced(v, w, i, most),
         \A j \in Items \ {i} : HeldAt(v, j),
         there = "slot" => v.chosen[i] \in SlotIds /\ v.slots[v.chosen[i]] \in {NoItem, i}
  PROVE  Moved(v, w, i, most) /\ w.place[i] = there
<1>1. Held(w)
  BY PutHolds DEF Held
<1>2. Keeps(v, w) /\ w.place = [v.place EXCEPT ![i] = there] /\ Frees(v, w)
      /\ \A j \in Items \ {i} : w.processing[j] = v.processing[j]
  BY DEF Put
<1>3. w.place[i] = there /\ \A j \in Items \ {i} : w.place[j] = v.place[j]
  BY <1>2 DEF State
<1>4. Releases(v, w)
  BY <1>2 DEF Releases, Frees
<1> QED BY <1>1, <1>2, <1>3, <1>4 DEF Moved

LEMMA SlotMoves ==
  ASSUME NEW v \in State, Held(v), NEW i \in Items
  PROVE  /\ Moved(v, Slot(v, i), i, 1)
         /\ CanPutInSlot(v, i) => Slot(v, i).place[i] = "slot"
<1>1. CASE CanPutInSlot(v, i)
  <2>1. HeldAt(v, i)
    BY DEF Held
  <2>2. v.chosen[i] \in SlotIds /\ v.place[i] # "slot" /\ v.slots[v.chosen[i]] = NoItem
    BY <1>1, <2>1, HeldInSlot DEF CanPutInSlot
  <2>3. \A t, u \in SlotIds : v.slots[t] = i /\ v.slots[u] = i => t = u
    BY <2>1 DEF HeldAt
  <2>4. Put(v, Slot(v, i), i, "slot") /\ Slot(v, i).processing[i] = Up(v.processing[i])
    BY <1>1, <2>3, SlotPuts
  <2> DEFINE w == Slot(v, i)
  <2>5. w.place[i] = "slot"
    BY <2>4 DEF Put, State
  <2>6. Balanced(v, w, i, 1)
    <3> HIDE DEF w
    <3>1. v.processing[i] \in 0 .. CounterSize - 1
      BY CountersIn
    <3>2. v.processing[i] + 1 < CounterSize => w.processing[i] = v.processing[i] + 1
      BY <2>4, <3>1, UpAndDown DEF w
    <3> QED BY <2>2, <2>5, <3>1, <3>2, InventoryAssumption
            DEF Balanced, Worn, InventoryAssumption
  <2> HIDE DEF w
  <2>7. Moved(v, w, i, 1)
    BY <2>2, <2>4, <2>6, PutMoves DEF Held, Places, w
  <2> QED BY <2>5, <2>7 DEF w
<1>2. CASE ~CanPutInSlot(v, i)
  BY <1>2, SlotTurns, TurnsMoves
<1> QED BY <1>1, <1>2

LEMMA BeltMoves ==
  ASSUME NEW v \in State, Held(v), NEW i \in Items
  PROVE  /\ Moved(v, Belt(v, i), i, 1)
         /\ CanPutInBelt(v, i) => Belt(v, i).place[i] = "belt"
<1>1. CASE CanPutInBelt(v, i)
  <2> DEFINE w == Belt(v, i)
  <2>1. HeldAt(v, i)
    BY DEF Held
  <2>2. v.place[i] # "belt"
    BY <1>1, <2>1, HeldInSlot
  <2>3. /\ Put(v, w, i, "belt")
        /\ w.processing[i] =
              Up(IF v.place[i] = "slot" THEN Down(v.processing[i]) ELSE v.processing[i])
    BY <1>1, <2>1, BeltPuts
  <2> HIDE DEF w
  <2>4. w.place[i] = "belt"
    BY <2>3 DEF Put, State
  <2>5. Balanced(v, w, i, 1)
    <3>1. v.processing[i] \in 0 .. CounterSize - 1 /\ CounterSize \in Nat \ {0, 1}
      BY CountersIn, InventoryAssumption DEF InventoryAssumption
    <3>2. CASE v.place[i] = "slot"
      <4>1. v.processing[i] > 0 /\ v.processing[i] + 1 < CounterSize =>
               w.processing[i] = v.processing[i]
        <5> SUFFICES ASSUME v.processing[i] > 0, v.processing[i] + 1 < CounterSize
                     PROVE  w.processing[i] = v.processing[i]
          OBVIOUS
        <5>1. Down(v.processing[i]) = v.processing[i] - 1
          BY <3>1, UpAndDown
        <5>2. v.processing[i] - 1 \in 0 .. CounterSize - 1 /\ v.processing[i] - 1 + 1 < CounterSize
          BY <3>1
        <5>3. Up(v.processing[i] - 1) = v.processing[i]
          BY <3>1, <5>2, UpAndDown
        <5> QED BY <2>3, <3>2, <5>1, <5>3
      <4> QED BY <2>4, <3>1, <3>2, <4>1 DEF Balanced, Worn
    <3>3. CASE v.place[i] # "slot"
      <4>1. v.processing[i] + 1 < CounterSize => w.processing[i] = v.processing[i] + 1
        BY <2>3, <3>1, <3>3, UpAndDown
      <4> QED BY <2>2, <2>4, <3>1, <3>3, <4>1 DEF Balanced, Worn
    <3> QED BY <3>2, <3>3
  <2>6. Moved(v, w, i, 1)
    BY <2>3, <2>5, PutMoves DEF Held, Places
  <2> QED BY <2>4, <2>6 DEF w
<1>2. CASE ~CanPutInBelt(v, i)
  <2>1. Turns(v, Belt(v, i))
    BY <1>2 DEF Belt, Turns, Keeps
  <2> QED BY <1>2, <2>1, TurnsMoves
<1> QED BY <1>1, <1>2

LEMMA RuckMoves ==
  ASSUME NEW v \in State, Held(v), NEW i \in Items
  PROVE  Moved(v, Ruck(v, i), i, 0) /\ Ruck(v, i).place[i] = "ruck"
<1>1. CASE CanPutInRuck(v, i)
  <2> DEFINE w == Ruck(v, i)
  <2>1. HeldAt(v, i)
    BY DEF Held
  <2>2. /\ Put(v, w, i, "ruck")
        /\ w.processing[i] = IF v.place[i] = "slot" THEN Down(v.processing[i]) ELSE v.processing[i]
    BY <1>1, <2>1, RuckPuts
  <2> HIDE DEF w
  <2>3. w.place[i] = "ruck"
    BY <2>2 DEF Put, State
  <2>4. Balanced(v, w, i, 0)
    <3>1. v.processing[i] \in 0 .. CounterSize - 1 /\ CounterSize \in Nat \ {0, 1}
      BY CountersIn, InventoryAssumption DEF InventoryAssumption
    <3>2. v.place[i] = "slot" /\ v.processing[i] > 0 => w.processing[i] = v.processing[i] - 1
      BY <2>2, <3>1, UpAndDown
    <3> QED BY <2>2, <2>3, <3>1, <3>2 DEF Balanced, Worn
  <2>5. Moved(v, w, i, 0)
    BY <2>2, <2>4, PutMoves DEF Held, Places
  <2> QED BY <2>3, <2>5 DEF w
<1>2. CASE ~CanPutInRuck(v, i)
  <2>1. Turns(v, Ruck(v, i)) /\ Ruck(v, i) = v
    BY <1>2 DEF Ruck, Turns, Keeps
  <2>2. v.place[i] = "ruck"
    BY <1>2, HeldInSlot DEF Held
  <2> QED BY <2>1, <2>2, TurnsMoves
<1> QED BY <1>1, <1>2

(* What Take and DropItem share.                                             *)
Transfers(v, w, i) ==
    /\ w \in State
    /\ w.chosen = v.chosen
    /\ w.events = v.events
    /\ w.active = v.active
    /\ Held(w)
    /\ Releases(v, w)
    /\ \A j \in Items \ {i} : w.place[j] = v.place[j] /\ w.processing[j] = v.processing[j]

LEMMA TakeMoves ==
  ASSUME NEW v \in State, Held(v), NEW i \in Items,
         NEW toSlot \in BOOLEAN, NEW toBelt \in BOOLEAN
  PROVE  LET w == Take(v, i, toSlot, toBelt) IN
         /\ Transfers(v, w, i)
         /\ w.all = v.all \cup {i}
         /\ w.place[i] # "undefined"
         /\ v.processing[i] > Worn(v, i) /\ v.processing[i] + 1 < CounterSize =>
               /\ w.processing[i] + Worn(v, i) + 1 >= v.processing[i] + Worn(w, i)
               /\ w.processing[i] <= v.processing[i]
<1> DEFINE held == [v EXCEPT !.all = @ \cup {i}, !.dropManual = @ \ {i}]
           put == CASE v.place[i] = "belt" ->
                          IF CanPutInBelt(held, i) THEN Belt(held, i)
                                                   ELSE Ruck(held, i)
                    [] v.place[i] = "ruck" -> Ruck(held, i)
                    [] v.place[i] = "slot" -> Slot(held, i)
                    [] v.place[i] = "undefined" ->
                          IF toSlot /\ CanPutInSlot(held, i) THEN Slot(held, i)
                          ELSE IF toBelt /\ CanPutInBelt(held, i) THEN Belt(held, i)
                          ELSE Ruck(held, i)
           w == processing_deactivate(put, i)
<1>1. w = Take(v, i, toSlot, toBelt)
  BY DEF Take
<1>2. /\ held \in State
      /\ held.all = v.all \cup {i}
      /\ held.ruck = v.ruck /\ held.belt = v.belt /\ held.slots = v.slots
      /\ held.place = v.place /\ held.chosen = v.chosen /\ held.processing = v.processing
      /\ held.active = v.active /\ held.next = v.next /\ held.events = v.events
  BY DEF State
<1> HIDE DEF held
<1>3. Held(held)
  BY <1>2 DEF Held, HeldAt
<1>4. v.place[i] \in {"undefined", "slot", "belt", "ruck"}
  BY DEF State, Places
<1>5. Moved(held, put, i, 1) /\ put.place[i] # "undefined"
  <2>1. Moved(held, Ruck(held, i), i, 1) /\ Ruck(held, i).place[i] # "undefined"
    <3>1. Moved(held, Ruck(held, i), i, 0) /\ Ruck(held, i).place[i] = "ruck"
      BY <1>2, <1>3, RuckMoves
    <3>2. Ruck(held, i).processing[i] \in Nat /\ held.processing[i] \in Nat
          /\ CounterSize \in Nat
      <4>1. Ruck(held, i) \in State
        BY <3>1 DEF Moved, Keeps
      <4> QED BY <1>2, <4>1, CountersIn, InventoryAssumption DEF InventoryAssumption
    <3> QED BY <3>1, <3>2 DEF Moved, Balanced
  <2>2. Moved(held, Belt(held, i), i, 1) /\ (CanPutInBelt(held, i) => Belt(held, i).place[i] # "undefined")
    BY <1>2, <1>3, BeltMoves
  <2>3. Moved(held, Slot(held, i), i, 1) /\ (CanPutInSlot(held, i) => Slot(held, i).place[i] # "undefined")
    BY <1>2, <1>3, SlotMoves
  <2>4. v.place[i] = "slot" => Slot(held, i).place[i] # "undefined"
    BY <1>2, <2>3 DEF Moved
  <2> HIDE DEF held
  <2> QED BY <1>4, <2>1, <2>2, <2>3, <2>4
<1> HIDE DEF put
<1>6. put \in State
  BY <1>5 DEF Moved, Keeps
<1>7. Counts(put, w, i, Down(put.processing[i]))
  BY <1>6, CountingIs
<1> HIDE DEF w
<1>8. /\ w \in State /\ w.all = v.all \cup {i} /\ w.chosen = v.chosen
      /\ w.events = v.events /\ w.active = v.active
  BY <1>2, <1>5, <1>7 DEF Counts, Moved, Keeps
<1>9. w.place = put.place /\ w.slots = put.slots /\ w.next = put.next
      /\ w.ruck = put.ruck /\ w.belt = put.belt /\ w.chosen = put.chosen
  BY <1>7 DEF Counts, Keeps
<1>10. Held(w)
  BY <1>5, <1>9 DEF Moved, Held, HeldAt
<1>11. Releases(v, w)
  BY <1>2, <1>5, <1>9 DEF Moved, Releases
<1>12. w.processing[i] = Down(put.processing[i])
       /\ \A j \in Items \ {i} : w.processing[j] = put.processing[j]
  BY <1>6, <1>7 DEF Counts, State
<1>13. Transfers(v, w, i) /\ w.place[i] # "undefined"
  BY <1>2, <1>5, <1>8, <1>9, <1>10, <1>11, <1>12 DEF Moved, Transfers
<1>14. ASSUME v.processing[i] > Worn(v, i), v.processing[i] + 1 < CounterSize
       PROVE  /\ w.processing[i] + Worn(v, i) + 1 >= v.processing[i] + Worn(w, i)
              /\ w.processing[i] <= v.processing[i]
  <2>1. /\ v.processing[i] \in 0 .. CounterSize - 1
        /\ put.processing[i] \in 0 .. CounterSize - 1
        /\ Worn(v, i) \in {0, 1} /\ Worn(put, i) \in {0, 1} /\ CounterSize \in Nat
        /\ Worn(held, i) = Worn(v, i) /\ Worn(w, i) = Worn(put, i)
    BY <1>2, <1>6, <1>9, CountersIn, InventoryAssumption DEF Worn, InventoryAssumption
  <2>2. /\ put.processing[i] + Worn(v, i) >= v.processing[i] + Worn(put, i)
        /\ put.processing[i] <= v.processing[i] + 1
    BY <1>2, <1>5, <1>14, <2>1 DEF Moved, Balanced
  <2>3. put.processing[i] > 0
    BY <1>14, <2>1, <2>2
  <2>4. w.processing[i] = put.processing[i] - 1
    BY <1>12, <2>1, <2>3, UpAndDown
  <2> QED BY <2>1, <2>2, <2>4
<1> QED BY <1>1, <1>8, <1>13, <1>14

LEMMA DropMoves ==
  ASSUME NEW v \in State, Held(v), NEW i \in Items, v.place[i] # "undefined"
  PROVE  LET w == DropItem(v, i) IN
         /\ Transfers(v, w, i)
         /\ w.all = v.all \ {i}
         /\ w.place[i] = "undefined"
         /\ v.processing[i] + 1 < CounterSize =>
               w.processing[i] = v.processing[i] + 1 - Worn(v, i)
<1> DEFINE woken == processing_activate(v, i)
           out == CASE v.place[i] = "belt" ->
                          processing_deactivate([woken EXCEPT !.belt = @ \ {i}], i)
                    [] v.place[i] = "ruck" -> [woken EXCEPT !.ruck = @ \ {i}]
                    [] v.place[i] = "slot" ->
                          processing_deactivate(OutOfSlot(woken, v.chosen[i]), i)
           n == Up(v.processing[i])
           m == IF v.place[i] = "ruck" THEN n ELSE Down(n)
           w == [out EXCEPT !.all = @ \ {i}, !.place[i] = "undefined"]
<1>1. w = DropItem(v, i)
  BY DEF DropItem
<1>2. Counts(v, woken, i, n)
  BY CountingIs
<1>3. n \in 0 .. CounterSize - 1 /\ Down(n) \in 0 .. CounterSize - 1
  BY CountersIn, UpAndDown
<1> HIDE DEF woken, n
<1>4. woken \in State /\ woken.processing[i] = n
      /\ woken.processing = [v.processing EXCEPT ![i] = n]
  BY <1>2, <1>3, CountIs DEF Counts, Keeps
<1>5. HeldAt(v, i) /\ HeldAt(woken, i)
  BY <1>2 DEF Held, HeldAt, Counts, Keeps
<1>6. v.place[i] \in {"slot", "belt", "ruck"}
  BY DEF State, Places
<1>7. /\ Keeps(v, out)
      /\ out.ruck = v.ruck \ {i} /\ out.belt = v.belt \ {i} /\ out.place = v.place
      /\ \A t \in SlotIds : out.slots[t] = IF v.slots[t] = i THEN NoItem ELSE v.slots[t]
      /\ Frees(v, out)
      /\ out.processing = [woken.processing EXCEPT ![i] = m]
  <2>1. CASE v.place[i] = "slot"
    <3>1. out = processing_deactivate(OutOfSlot(woken, woken.chosen[i]), i) /\ m = Down(n)
      BY <1>2, <2>1 DEF Counts, Keeps
    <3> HIDE DEF out, m
    <3>2. /\ Keeps(woken, out)
          /\ out.ruck = woken.ruck /\ out.belt = woken.belt /\ out.place = woken.place
          /\ out.processing = [woken.processing EXCEPT ![i] = Down(woken.processing[i])]
          /\ \A t \in SlotIds : out.slots[t] = IF woken.slots[t] = i THEN NoItem ELSE woken.slots[t]
          /\ Frees(woken, out)
      BY <1>2, <1>4, <1>5, <2>1, <3>1, LeavesSlot DEF Counts
    <3>3. i \notin v.ruck /\ i \notin v.belt
      BY <1>5, <2>1 DEF HeldAt
    <3>4. Keeps(v, out)
      BY <1>2, <3>2 DEF Counts, Keeps
    <3>5. Frees(v, out)
      BY <1>2, <3>2 DEF Counts, Keeps, Frees
    <3> QED BY <1>2, <1>4, <3>1, <3>2, <3>3, <3>4, <3>5 DEF Counts
  <2>2. CASE v.place[i] = "belt"
    <3> DEFINE x == [woken EXCEPT !.belt = @ \ {i}]
    <3>1. out = processing_deactivate(x, i) /\ m = Down(n)
      BY <2>2
    <3> HIDE DEF out, m
    <3>2. /\ Keeps(woken, x)
          /\ x.ruck = woken.ruck /\ x.belt = woken.belt \ {i} /\ x.place = woken.place
          /\ x.slots = woken.slots /\ x.next = woken.next /\ x.processing = woken.processing
      BY <1>4 DEF Keeps, State
    <3> HIDE DEF x
    <3>3. Counts(x, out, i, Down(x.processing[i]))
      BY <3>1, <3>2, CountingIs DEF Keeps
    <3>4. i \notin v.ruck /\ \A t \in SlotIds : v.slots[t] # i
      BY <1>5, <2>2 DEF HeldAt
    <3>5. Keeps(v, out)
      BY <1>2, <3>2, <3>3 DEF Counts, Keeps
    <3>6. Frees(v, out)
      BY <1>2, <3>2, <3>3 DEF Counts, Frees
    <3> QED BY <1>2, <1>4, <3>1, <3>2, <3>3, <3>4, <3>5, <3>6 DEF Counts
  <2>3. CASE v.place[i] = "ruck"
    <3>1. out = [woken EXCEPT !.ruck = @ \ {i}] /\ m = n
      BY <2>3
    <3> HIDE DEF out, m
    <3>2. /\ Keeps(woken, out)
          /\ out.ruck = woken.ruck \ {i} /\ out.belt = woken.belt /\ out.place = woken.place
          /\ out.slots = woken.slots /\ out.next = woken.next /\ out.processing = woken.processing
      BY <1>4, <3>1 DEF Keeps, State
    <3>3. i \notin v.belt /\ \A t \in SlotIds : v.slots[t] # i
      BY <1>5, <2>3 DEF HeldAt
    <3>4. Keeps(v, out)
      BY <1>2, <3>2 DEF Counts, Keeps
    <3>5. Frees(v, out)
      BY <1>2, <3>2 DEF Counts, Frees
    <3>6. woken.processing = [woken.processing EXCEPT ![i] = m]
      BY <1>4, <3>1 DEF State
    <3> QED BY <1>2, <3>2, <3>3, <3>4, <3>5, <3>6 DEF Counts
  <2> QED BY <1>6, <2>1, <2>2, <2>3
<1>8. m \in 0 .. CounterSize - 1
  BY <1>3
<1> HIDE DEF out, m
<1>9. /\ w \in State
      /\ w.all = out.all \ {i}
      /\ w.place = [out.place EXCEPT ![i] = "undefined"]
      /\ w.ruck = out.ruck /\ w.belt = out.belt /\ w.slots = out.slots
      /\ w.chosen = out.chosen /\ w.processing = out.processing /\ w.next = out.next
      /\ w.events = out.events /\ w.active = out.active
  <2>1. out \in State
    BY <1>7 DEF Keeps
  <2> QED BY <2>1 DEF State, Places
<1> HIDE DEF w
<1>10. w.place[i] = "undefined" /\ \A j \in Items \ {i} : w.place[j] = v.place[j]
  BY <1>7, <1>9 DEF State
<1>11. w.processing[i] = m /\ \A j \in Items \ {i} : w.processing[j] = v.processing[j]
  BY <1>4, <1>7, <1>8, <1>9 DEF State
<1>12. w.chosen = v.chosen /\ w.events = v.events /\ w.active = v.active /\ w.all = v.all \ {i}
  BY <1>7, <1>9 DEF Keeps
<1>13. Held(w)
  <2>1. HeldAt(w, i)
    <3>1. i # NoItem
      BY InventoryAssumption DEF InventoryAssumption
    <3>2. \A t \in SlotIds : w.slots[t] # i
      BY <1>7, <1>9, <3>1
    <3> QED BY <1>7, <1>9, <1>10, <3>2 DEF HeldAt
  <2>2. ASSUME NEW j \in Items \ {i} PROVE HeldAt(w, j)
    <3>1. HeldAt(v, j) /\ j # NoItem
      BY InventoryAssumption DEF InventoryAssumption, Held
    <3>2. \A t \in SlotIds : w.slots[t] = j <=> v.slots[t] = j
      BY <1>7, <1>9, <3>1
    <3> QED BY <1>7, <1>9, <1>10, <1>12, <3>1, <3>2 DEF HeldAt
  <2> QED BY <2>1, <2>2 DEF Held
<1>14. Releases(v, w)
  BY <1>7, <1>9 DEF Releases, Frees
<1>15. Transfers(v, w, i)
  BY <1>9, <1>10, <1>11, <1>12, <1>13, <1>14 DEF Transfers
<1>16. ASSUME v.processing[i] + 1 < CounterSize
       PROVE  w.processing[i] = v.processing[i] + 1 - Worn(v, i)
  <2>1. v.processing[i] \in 0 .. CounterSize - 1 /\ CounterSize \in Nat
    BY CountersIn, InventoryAssumption DEF InventoryAssumption
  <2>2. n = v.processing[i] + 1
    BY <1>16, <2>1, UpAndDown DEF n
  <2>3. Down(n) = v.processing[i]
    BY <1>3, <2>1, <2>2, UpAndDown
  <2> QED BY <1>6, <1>11, <2>1, <2>2, <2>3 DEF m, Worn
<1> QED BY <1>1, <1>10, <1>12, <1>15, <1>16

-----------------------------------------------------------------------------
(* The messages under way.                                                   *)

IsMove(m, i) == m.type \in {"item2slot", "item2belt"} /\ m.item = i

LEMMA MovesCounted ==
  ASSUME NEW e \in Seq(Messages), NEW i \in Items
  PROVE  /\ IsFiniteSet(Moves(e, i))
         /\ Cardinality(Moves(e, i)) \in Nat
         /\ Cardinality(Moves(e, i)) <= Len(e)
<1>1. Len(e) \in Nat /\ DOMAIN e = 1 .. Len(e)
  OBVIOUS
<1>2. IsFiniteSet(1 .. Len(e)) /\ Cardinality(1 .. Len(e)) = Len(e)
  BY <1>1, FS_Interval
<1>3. Moves(e, i) \in SUBSET (1 .. Len(e))
  BY <1>1 DEF Moves
<1> QED BY <1>2, <1>3, FS_Subset, FS_CardinalityType

LEMMA MovesSent ==
  ASSUME NEW e \in Seq(Messages), NEW i \in Items, NEW m \in Messages
  PROVE  /\ Cardinality(Moves(Append(e, m), i)) <= Cardinality(Moves(e, i)) + 1
         /\ ~IsMove(m, i) => Cardinality(Moves(Append(e, m), i)) = Cardinality(Moves(e, i))
<1> DEFINE n == Len(e) + 1
           f == Append(e, m)
<1>1. /\ n \in Nat \ {0} /\ DOMAIN f = 1 .. n /\ DOMAIN e = 1 .. n - 1 /\ f[n] = m
      /\ \A k \in 1 .. n - 1 : f[k] = e[k]
  OBVIOUS
<1> HIDE DEF f, n
<1>2. CASE IsMove(m, i)
  <2>1. \A k \in 1 .. n : k \in Moves(f, i) <=> k \in Moves(e, i) \/ k = n
    BY <1>1, <1>2 DEF Moves, IsMove
  <2>2. Moves(f, i) \subseteq 1 .. n /\ Moves(e, i) \subseteq 1 .. n /\ n \in 1 .. n
    BY <1>1 DEF Moves
  <2>3. Moves(f, i) = Moves(e, i) \cup {n}
    BY <2>1, <2>2
  <2>4. Cardinality(Moves(e, i) \cup {n}) <= Cardinality(Moves(e, i)) + 1
    <3>1. IsFiniteSet(Moves(e, i)) /\ Cardinality(Moves(e, i)) \in Nat
      BY MovesCounted
    <3>2. Cardinality(Moves(e, i) \cup {n}) =
             IF n \in Moves(e, i) THEN Cardinality(Moves(e, i)) ELSE Cardinality(Moves(e, i)) + 1
      BY <3>1, FS_AddElement
    <3> QED BY <3>1, <3>2
  <2> QED BY <1>2, <2>3, <2>4 DEF f
<1>3. CASE ~IsMove(m, i)
  <2>1. Moves(f, i) = Moves(e, i)
    BY <1>1, <1>3 DEF Moves, IsMove
  <2> QED BY <2>1, MovesCounted DEF f
<1> QED BY <1>2, <1>3

LEMMA MovesReceived ==
  ASSUME NEW e \in Seq(Messages), e # <<>>, NEW i \in Items
  PROVE  Cardinality(Moves(e, i)) =
            Cardinality(Moves(Tail(e), i)) + (IF IsMove(Head(e), i) THEN 1 ELSE 0)
<1> DEFINE f == Tail(e)
           S == Moves(f, i)
           T == Moves(e, i) \ {1}
           up == [k \in S |-> k + 1]
<1>1. /\ f \in Seq(Messages) /\ Len(e) \in Nat \ {0} /\ DOMAIN e = 1 .. Len(e)
      /\ DOMAIN f = 1 .. Len(e) - 1 /\ Head(e) = e[1]
      /\ \A k \in 1 .. Len(e) - 1 : f[k] = e[k + 1]
  OBVIOUS
<1>2. S \subseteq 1 .. Len(e) - 1 /\ T \subseteq 2 .. Len(e)
  BY <1>1 DEF Moves
<1>3. \A k \in S : k + 1 \in T
  BY <1>1 DEF Moves
<1>4. \A k \in T : k - 1 \in S /\ k = (k - 1) + 1
  BY <1>1, <1>2 DEF Moves
<1>5. up \in Bijection(S, T)
  <2> HIDE DEF S, T
  <2>1. up \in [S -> T]
    BY <1>3
  <2>2. \A k, l \in S : up[k] = up[l] => k = l
    BY <1>2
  <2>3. \A t \in T : \E k \in S : up[k] = t
    BY <1>4
  <2> QED BY <2>1, <2>2, <2>3, Fun_IsBij
<1>6. IsFiniteSet(S) /\ Cardinality(S) \in Nat
  BY <1>1, MovesCounted
<1>7. Cardinality(T) = Cardinality(S)
  BY <1>5, <1>6, FS_Bijection DEF ExistsBijection
<1>8. 1 \in Moves(e, i) <=> IsMove(Head(e), i)
  BY <1>1 DEF Moves, IsMove
<1>9. IsFiniteSet(Moves(e, i)) /\ Cardinality(Moves(e, i)) \in Nat
  BY MovesCounted
<1>10. Cardinality(T) = IF 1 \in Moves(e, i) THEN Cardinality(Moves(e, i)) - 1
                                             ELSE Cardinality(Moves(e, i))
  BY <1>9, FS_RemoveElement
<1> HIDE DEF S, T
<1> QED BY <1>6, <1>7, <1>8, <1>9, <1>10 DEF S, f

(* Rejects are none of them.                                                 *)
LEMMA MovesBeside ==
  ASSUME NEW e \in Seq(Messages), NEW i \in Items, NEW r \in Seq(Messages),
         \A k \in DOMAIN r : r[k].type = "reject"
  PROVE  Moves(e \o r, i) = Moves(e, i)
<1>1. /\ Len(e) \in Nat /\ Len(r) \in Nat
      /\ DOMAIN e = 1 .. Len(e) /\ DOMAIN r = 1 .. Len(r)
      /\ DOMAIN (e \o r) = 1 .. Len(e) + Len(r)
      /\ \A k \in 1 .. Len(e) : (e \o r)[k] = e[k]
      /\ \A k \in Len(e) + 1 .. Len(e) + Len(r) : (e \o r)[k] = r[k - Len(e)]
  OBVIOUS
<1>2. ASSUME NEW k \in Len(e) + 1 .. Len(e) + Len(r)
      PROVE  (e \o r)[k].type = "reject"
  BY <1>1
<1> QED BY <1>1, <1>2 DEF Moves

-----------------------------------------------------------------------------
(* The steps.                                                                *)

LEMMA Bounds ==
  /\ MaxProcessing \in Nat /\ MaxEvents \in Nat /\ CounterSize \in Nat
  BY InventoryAssumption DEF InventoryAssumption

(* What the hands do is no part of the invariant.                            *)
LEMMA HandsAside ==
  ASSUME NEW v, NEW w \in State, Invariant(v),
         w.all = v.all, w.ruck = v.ruck, w.belt = v.belt, w.slots = v.slots,
         w.place = v.place, w.chosen = v.chosen, w.processing = v.processing,
         w.events = v.events
  PROVE  Invariant(w)
<1>1. Good(w)
  BY DEF Invariant, Good, Meant, Held, HeldAt, Owned, RejectedOnce
<1>2. NoWrap => Counted(w)
  BY DEF Invariant, Counted, CountedAt, Uses, Charge
<1> QED BY <1>1, <1>2 DEF Invariant

LEMMA CurrentInvariant ==
  ASSUME IInv, NEW hands \in HandStates
  PROVE  Invariant(Current(hands))
<1> DEFINE v == Current("shown")
           w == Current(hands)
<1>1. /\ w.all = v.all /\ w.ruck = v.ruck /\ w.belt = v.belt /\ w.slots = v.slots
      /\ w.place = v.place /\ w.chosen = v.chosen /\ w.processing = v.processing
      /\ w.events = v.events
  BY DEF Current
<1>2. v \in State
  BY DEF IInv, Invariant, Good
<1>3. w \in State
  BY <1>2 DEF Current, State
<1>4. Invariant(v)
  BY DEF IInv
<1> HIDE DEF v, w
<1>5. Invariant(w)
  BY <1>1, <1>3, <1>4, HandsAside
<1> QED BY <1>5 DEF w

LEMMA BecomesInvariant ==
  ASSUME NEW w, Invariant(w), Becomes(w)
  PROVE  IInv'
<1> DEFINE x == Current("shown")'
<1>1. /\ all' = w.all /\ ruck' = w.ruck /\ belt' = w.belt /\ slots' = w.slots
      /\ place' = w.place /\ chosen' = w.chosen /\ dropManual' = w.dropManual
      /\ processing' = w.processing /\ active' = w.active /\ next' = w.next
      /\ events' = w.events
  BY DEF Becomes
<1>2. x = [all |-> all', ruck |-> ruck', belt |-> belt', slots |-> slots',
           place |-> place', chosen |-> chosen', dropManual |-> dropManual',
           processing |-> processing', active |-> active', next |-> next',
           events |-> events', hands |-> "shown"]
  BY DEF Current
<1>3. w \in State
  BY DEF Invariant, Good
<1> HIDE DEF x
<1>4. /\ x.all = w.all /\ x.ruck = w.ruck /\ x.belt = w.belt /\ x.slots = w.slots
      /\ x.place = w.place /\ x.chosen = w.chosen /\ x.processing = w.processing
      /\ x.events = w.events
  BY <1>1, <1>2
<1>5. x \in State
  BY <1>1, <1>2, <1>3 DEF State, HandStates
<1>6. Invariant(x)
  BY <1>4, <1>5, HandsAside
<1>7. IInv' = Invariant(x)
  BY DEF IInv, x
<1> QED BY <1>6, <1>7

(* A message is sent.                                                        *)
LEMMA SentIs ==
  ASSUME NEW v \in State, NEW m \in Messages
  PROVE  LET w == Send(v, m) IN
         /\ w \in State /\ w.events = Append(v.events, m)
         /\ w.all = v.all /\ w.ruck = v.ruck /\ w.belt = v.belt /\ w.slots = v.slots
         /\ w.place = v.place /\ w.chosen = v.chosen /\ w.processing = v.processing
         /\ w.active = v.active /\ w.next = v.next
<1>1. v.events \in Seq(Messages)
  BY DEF State
<1>2. Append(v.events, m) \in Seq(Messages)
  BY <1>1
<1> QED BY <1>2 DEF Send, State

LEMMA RejectedOnceSent ==
  ASSUME NEW v, v.events \in Seq(Messages), RejectedOnce(v),
         NEW m \in Messages, m.type # "reject",
         NEW w, w.events = Append(v.events, m), w.all = v.all
  PROVE  RejectedOnce(w)
<1> SUFFICES ASSUME NEW k \in DOMAIN w.events, w.events[k].type = "reject"
             PROVE  /\ w.events[k].item \in w.all
                    /\ \A l \in DOMAIN w.events : w.events[l] = w.events[k] => l = k
  BY DEF RejectedOnce
<1>1. /\ DOMAIN w.events = 1 .. Len(v.events) + 1 /\ DOMAIN v.events = 1 .. Len(v.events)
      /\ Len(v.events) \in Nat /\ w.events[Len(v.events) + 1] = m
      /\ \A l \in DOMAIN v.events : w.events[l] = v.events[l]
  OBVIOUS
<1>2. k # Len(v.events) + 1
  BY <1>1
<1>3. k \in DOMAIN v.events /\ w.events[k] = v.events[k]
  BY <1>1, <1>2
<1>4. /\ v.events[k].item \in v.all
      /\ \A l \in DOMAIN v.events : v.events[l] = v.events[k] => l = k
  BY <1>3 DEF RejectedOnce
<1> QED BY <1>1, <1>3, <1>4

LEMMA SentGood ==
  ASSUME NEW v, Good(v), NEW m \in Messages, m.type # "reject"
  PROVE  Good(Send(v, m))
<1> DEFINE w == Send(v, m)
<1>1. /\ w \in State /\ w.events = Append(v.events, m)
      /\ w.all = v.all /\ w.ruck = v.ruck /\ w.belt = v.belt /\ w.slots = v.slots
      /\ w.place = v.place /\ w.chosen = v.chosen
  BY SentIs DEF Good
<1> HIDE DEF w
<1>2. Meant(w) /\ Held(w) /\ Owned(w)
  BY <1>1 DEF Good, Meant, Held, HeldAt, Owned
<1>3. v.events \in Seq(Messages)
  BY DEF Good, State
<1>4. RejectedOnce(w)
  BY <1>1, <1>3, RejectedOnceSent DEF Good
<1> QED BY <1>1, <1>2, <1>4 DEF Good, w

LEMMA MovedGood ==
  ASSUME NEW v, Good(v), NEW i \in Items, NEW w, NEW most, Moved(v, w, i, most)
  PROVE  Good(w)
<1>1. /\ w \in State /\ w.all = v.all /\ w.chosen = v.chosen /\ w.events = v.events
      /\ Held(w)
      /\ \A j \in Items \ {i} : w.place[j] = v.place[j]
      /\ w.place[i] = "undefined" => v.place[i] = "undefined"
  BY DEF Moved, Keeps
<1>2. v.all \subseteq Items
  BY DEF Good, State
<1> QED BY <1>1, <1>2 DEF Good, Meant, Owned, RejectedOnce

LEMMA CountersAreNaturals ==
  ASSUME NEW v \in State, NEW i \in Items
  PROVE  /\ v.processing[i] \in Nat
         /\ Cardinality(Moves(v.events, i)) \in Nat
         /\ Cardinality(Moves(v.events, i)) <= Len(v.events)
         /\ Len(v.events) \in Nat
         /\ Worn(v, i) \in {0, 1}
         /\ Uses(v, i) = (IF i \in v.all THEN 0 ELSE 1) + Worn(v, i)
<1>1. v.events \in Seq(Messages)
  BY DEF State
<1> QED BY <1>1, CountersIn, MovesCounted, Bounds DEF Worn, Uses

(* The inventory window moves an item and sends the message of it.           *)
LEMMA MoveAndSend ==
  ASSUME NEW v, Invariant(v), NEW i \in Items, NEW x, NEW most \in {0, 1},
         Moved(v, x, i, most), NEW m \in Messages, m.type # "reject",
         \A j \in Items \ {i} : ~IsMove(m, j),
         v.processing[i] < MaxProcessing, Len(v.events) < MaxEvents
  PROVE  Invariant(Send(x, m)) /\ Releases(v, Send(x, m))
<1> DEFINE w == Send(x, m)
<1>1. v \in State /\ Good(v) /\ x \in State /\ Good(x)
  BY MovedGood DEF Invariant, Good
<1>2. /\ w \in State /\ w.events = Append(v.events, m)
      /\ w.all = v.all /\ w.slots = x.slots /\ w.place = x.place
      /\ w.processing = x.processing /\ w.next = x.next
  BY <1>1, SentIs DEF Moved, Keeps
<1>3. Good(w)
  BY <1>1, SentGood
<1> HIDE DEF w
<1>4. Releases(v, w)
  BY <1>2 DEF Moved, Releases
<1>5. v.events \in Seq(Messages)
  BY <1>1 DEF State
<1>6. ASSUME NoWrap, NEW j \in Items \ {i} PROVE CountedAt(w, j)
  <2>1. CountedAt(v, j)
    BY <1>6 DEF Invariant, Counted
  <2>2. Cardinality(Moves(w.events, j)) = Cardinality(Moves(v.events, j))
    BY <1>2, <1>5, MovesSent
  <2>3. w.place[j] = v.place[j] /\ w.processing[j] = v.processing[j]
    BY <1>2 DEF Moved
  <2> QED BY <1>2, <2>1, <2>2, <2>3 DEF CountedAt, Uses, Charge
<1>7. ASSUME NoWrap PROVE CountedAt(w, i)
  <2>1. CountedAt(v, i)
    BY <1>7 DEF Invariant, Counted
  <2>2. /\ v.processing[i] \in Nat /\ w.processing[i] \in Nat
        /\ Len(v.events) \in Nat
        /\ Worn(v, i) \in {0, 1} /\ Worn(w, i) \in {0, 1}
        /\ Uses(v, i) = (IF i \in v.all THEN 0 ELSE 1) + Worn(v, i)
        /\ Uses(w, i) = (IF i \in v.all THEN 0 ELSE 1) + Worn(w, i)
        /\ Worn(x, i) = Worn(w, i)
    BY <1>1, <1>2, CountersAreNaturals DEF Worn
  <2>3. /\ Cardinality(Moves(w.events, i)) \in Nat
        /\ Cardinality(Moves(w.events, i)) <= Len(v.events) + 1
    <3>1. Len(w.events) = Len(v.events) + 1
      BY <1>2, <1>5
    <3> QED BY <1>2, <3>1, CountersAreNaturals
  <2>4. v.processing[i] >= Worn(v, i)
    BY <2>1, <2>2 DEF CountedAt
  <2>5. v.processing[i] + most < CounterSize
    BY <1>7, <2>2, Bounds DEF NoWrap
  <2>6. /\ w.processing[i] + Worn(v, i) >= v.processing[i] + Worn(w, i)
        /\ w.processing[i] <= v.processing[i] + 1
    BY <1>2, <2>2, <2>4, <2>5 DEF Moved, Balanced
  <2>7. w.processing[i] >= Uses(w, i)
    BY <2>1, <2>2, <2>6 DEF CountedAt
  <2>8. Charge(w, i) <= MaxProcessing + MaxEvents + 1
    BY <2>2, <2>3, <2>6, Bounds DEF Charge
  <2> QED BY <2>7, <2>8 DEF CountedAt
<1> QED BY <1>3, <1>4, <1>6, <1>7 DEF Invariant, Counted, w

(* The message that is back is taken from those under way.                   *)
LEMMA RestIs ==
  ASSUME NEW v, Good(v), v.events # <<>>
  PROVE  LET w == [v EXCEPT !.events = Tail(@)] IN
         /\ w.events = Tail(v.events)
         /\ w.all = v.all /\ w.ruck = v.ruck /\ w.belt = v.belt /\ w.slots = v.slots
         /\ w.place = v.place /\ w.chosen = v.chosen /\ w.processing = v.processing
         /\ w.active = v.active /\ w.next = v.next
         /\ Good(w)
         /\ Head(v.events) \in Messages
         /\ Head(v.events).type = "reject" =>
               /\ Head(v.events).item \in v.all
               /\ \A k \in DOMAIN w.events :
                     w.events[k].type = "reject" => w.events[k].item # Head(v.events).item
<1> DEFINE w == [v EXCEPT !.events = Tail(@)]
<1>1. v \in State /\ v.events \in Seq(Messages)
  BY DEF Good, State
<1>2. Tail(v.events) \in Seq(Messages) /\ Head(v.events) \in Messages
  BY <1>1
<1>3. /\ w.events = Tail(v.events)
      /\ w.all = v.all /\ w.ruck = v.ruck /\ w.belt = v.belt /\ w.slots = v.slots
      /\ w.place = v.place /\ w.chosen = v.chosen /\ w.processing = v.processing
      /\ w.active = v.active /\ w.next = v.next
      /\ w \in State
  BY <1>1, <1>2 DEF State
<1> HIDE DEF w
<1>4. /\ Len(v.events) \in Nat \ {0} /\ DOMAIN v.events = 1 .. Len(v.events)
      /\ DOMAIN w.events = 1 .. Len(v.events) - 1 /\ Head(v.events) = v.events[1]
      /\ \A k \in DOMAIN w.events : w.events[k] = v.events[k + 1]
  BY <1>1, <1>3
<1>5. \A k \in DOMAIN w.events :
         /\ k + 1 \in DOMAIN v.events
         /\ \A l \in DOMAIN w.events : l + 1 = k + 1 => l = k
  BY <1>4
<1>6. RejectedOnce(w)
  BY <1>3, <1>4, <1>5 DEF Good, RejectedOnce
<1>7. Meant(w) /\ Held(w) /\ Owned(w)
  BY <1>3 DEF Good, Meant, Held, HeldAt, Owned
<1>8. ASSUME Head(v.events).type = "reject"
      PROVE  /\ Head(v.events).item \in v.all
             /\ \A k \in DOMAIN w.events :
                   w.events[k].type = "reject" => w.events[k].item # Head(v.events).item
  <2>1. /\ v.events[1].item \in v.all
        /\ \A l \in DOMAIN v.events : v.events[l] = v.events[1] => l = 1
    BY <1>4, <1>8 DEF Good, RejectedOnce
  <2>2. ASSUME NEW k \in DOMAIN w.events, w.events[k].type = "reject",
               w.events[k].item = v.events[1].item
        PROVE  FALSE
    <3>1. k + 1 \in DOMAIN v.events /\ v.events[k + 1] = w.events[k] /\ k + 1 # 1
      BY <1>4
    <3>2. v.events[k + 1] \in Messages /\ v.events[1] \in Messages
      BY <1>1, <1>4, <3>1
    <3>3. v.events[k + 1] = v.events[1]
      BY <1>4, <1>8, <2>2, <3>1, <3>2 DEF Messages
    <3> QED BY <2>1, <3>1, <3>3
  <2> QED BY <1>4, <2>1, <2>2
<1> QED BY <1>2, <1>3, <1>6, <1>7, <1>8 DEF Good, w

LEMMA RestInvariant ==
  ASSUME NEW v, Invariant(v), v.events # <<>>
  PROVE  Invariant([v EXCEPT !.events = Tail(@)])
<1> DEFINE w == [v EXCEPT !.events = Tail(@)]
<1>1. /\ w.events = Tail(v.events) /\ Good(w)
      /\ w.all = v.all /\ w.place = v.place /\ w.processing = v.processing
  BY RestIs DEF Invariant
<1> HIDE DEF w
<1>2. v \in State /\ w \in State /\ v.events \in Seq(Messages)
  BY <1>1 DEF Invariant, Good, State
<1>3. ASSUME NoWrap, NEW j \in Items PROVE CountedAt(w, j)
  <2>1. CountedAt(v, j)
    BY <1>3 DEF Invariant, Counted
  <2>2. /\ Cardinality(Moves(v.events, j)) =
              Cardinality(Moves(w.events, j)) + (IF IsMove(Head(v.events), j) THEN 1 ELSE 0)
        /\ Cardinality(Moves(w.events, j)) \in Nat /\ Cardinality(Moves(v.events, j)) \in Nat
        /\ Cardinality(Moves(w.events, j)) <= Cardinality(Moves(v.events, j))
        /\ v.processing[j] \in Nat
    BY <1>1, <1>2, MovesReceived, CountersAreNaturals
  <2>3. Charge(w, j) <= Charge(v, j) /\ Charge(w, j) \in Nat /\ Charge(v, j) \in Nat
    BY <1>1, <2>2 DEF Charge
  <2>4. Uses(w, j) = Uses(v, j) /\ w.processing[j] = v.processing[j]
    BY <1>1 DEF Uses
  <2> QED BY <2>1, <2>3, <2>4, Bounds DEF CountedAt
<1> QED BY <1>1, <1>3 DEF Invariant, Counted, w

(* A message moves an item.                                                  *)
LEMMA MovedByMessage ==
  ASSUME NEW v, Invariant(v), v.events # <<>>, NEW i \in Items, NEW x, NEW most \in {0, 1},
         Moved([v EXCEPT !.events = Tail(@)], x, i, most),
         most = 1 => IsMove(Head(v.events), i)
  PROVE  Invariant(x) /\ Releases(v, x)
<1> DEFINE rest == [v EXCEPT !.events = Tail(@)]
<1>1. Good(v)
  BY DEF Invariant
<1>2. /\ rest.events = Tail(v.events)
      /\ rest.all = v.all /\ rest.slots = v.slots /\ rest.place = v.place
      /\ rest.processing = v.processing
      /\ rest.active = v.active /\ rest.next = v.next
      /\ Good(rest)
  BY <1>1, RestIs
<1>3. Moved(rest, x, i, most)
  OBVIOUS
<1> HIDE DEF rest
<1>4. Good(x) /\ x \in State /\ v \in State /\ rest \in State
  BY <1>1, <1>2, <1>3, MovedGood DEF Good
<1>5. Releases(v, x)
  BY <1>2, <1>3 DEF Moved, Releases
<1>6. x.all = v.all /\ x.events = Tail(v.events) /\ v.events \in Seq(Messages)
  BY <1>2, <1>3, <1>4 DEF Moved, Keeps, State
<1>7. \A j \in Items : Cardinality(Moves(v.events, j)) =
         Cardinality(Moves(x.events, j)) + (IF IsMove(Head(v.events), j) THEN 1 ELSE 0)
  BY <1>6, MovesReceived
<1>8. ASSUME NoWrap, NEW j \in Items \ {i} PROVE CountedAt(x, j)
  <2>1. CountedAt(v, j)
    BY <1>8 DEF Invariant, Counted
  <2>2. Cardinality(Moves(x.events, j)) <= Cardinality(Moves(v.events, j))
        /\ Cardinality(Moves(x.events, j)) \in Nat /\ Cardinality(Moves(v.events, j)) \in Nat
    BY <1>4, <1>7, CountersAreNaturals
  <2>3. x.place[j] = v.place[j] /\ x.processing[j] = v.processing[j] /\ v.processing[j] \in Nat
    BY <1>2, <1>3, <1>4, CountersAreNaturals DEF Moved
  <2>4. Uses(x, j) = Uses(v, j)
    BY <1>6, <2>3 DEF Uses
  <2>5. Charge(x, j) <= Charge(v, j) /\ Charge(x, j) \in Nat /\ Charge(v, j) \in Nat
    BY <1>6, <2>2, <2>3 DEF Charge
  <2> QED BY <2>1, <2>3, <2>4, <2>5, Bounds DEF CountedAt
<1>9. ASSUME NoWrap PROVE CountedAt(x, i)
  <2>1. CountedAt(v, i)
    BY <1>9 DEF Invariant, Counted
  <2>2. /\ v.processing[i] \in Nat /\ x.processing[i] \in Nat
        /\ Worn(v, i) \in {0, 1} /\ Worn(x, i) \in {0, 1}
        /\ Uses(v, i) = (IF i \in v.all THEN 0 ELSE 1) + Worn(v, i)
        /\ Uses(x, i) = (IF i \in v.all THEN 0 ELSE 1) + Worn(x, i)
        /\ Worn(rest, i) = Worn(v, i)
        /\ Cardinality(Moves(x.events, i)) \in Nat /\ Cardinality(Moves(v.events, i)) \in Nat
    BY <1>2, <1>4, <1>6, CountersAreNaturals DEF Worn
  <2>3. Cardinality(Moves(v.events, i)) >= Cardinality(Moves(x.events, i)) + most
    BY <1>7, <2>2
  <2>4. v.processing[i] + Cardinality(Moves(v.events, i)) + (IF i \in v.all THEN 1 ELSE 0)
          <= MaxProcessing + MaxEvents + 1
    BY <2>1 DEF CountedAt, Charge
  <2>5. v.processing[i] >= Worn(v, i) /\ v.processing[i] >= Uses(v, i)
    BY <2>1, <2>2 DEF CountedAt
  <2>6. v.processing[i] + most < CounterSize
    BY <1>9, <2>2, <2>3, <2>4, Bounds DEF NoWrap
  <2>7. /\ x.processing[i] + Worn(v, i) >= v.processing[i] + Worn(x, i)
        /\ x.processing[i] <= v.processing[i] + most
    BY <1>2, <1>3, <2>2, <2>5, <2>6 DEF Moved, Balanced
  <2>8. x.processing[i] >= Uses(x, i)
    BY <2>2, <2>5, <2>7
  <2>9. x.processing[i] + Cardinality(Moves(x.events, i)) + (IF i \in v.all THEN 1 ELSE 0)
          <= MaxProcessing + MaxEvents + 1
    BY <2>2, <2>3, <2>4, <2>7, Bounds
  <2> QED BY <1>6, <2>8, <2>9 DEF CountedAt, Charge
<1> QED BY <1>4, <1>5, <1>8, <1>9 DEF Invariant, Counted

(* A reject takes its item from the actor.                                   *)
LEMMA DroppedByMessage ==
  ASSUME NEW v, Invariant(v), v.events # <<>>, Head(v.events).type = "reject"
  PROVE  LET x == DropItem([v EXCEPT !.events = Tail(@)], Head(v.events).item) IN
         Invariant(x) /\ Releases(v, x)
<1> DEFINE rest == [v EXCEPT !.events = Tail(@)]
           i == Head(v.events).item
           x == DropItem(rest, i)
<1>1. Good(v)
  BY DEF Invariant
<1>2. /\ rest.events = Tail(v.events)
      /\ rest.all = v.all /\ rest.slots = v.slots /\ rest.place = v.place
      /\ rest.processing = v.processing
      /\ rest.active = v.active /\ rest.next = v.next
      /\ rest.chosen = v.chosen
      /\ Good(rest)
      /\ i \in v.all
      /\ \A k \in DOMAIN rest.events : rest.events[k].type = "reject" => rest.events[k].item # i
  BY <1>1, RestIs
<1> HIDE DEF rest, i
<1>3. i \in Items /\ rest.place[i] # "undefined"
  BY <1>1, <1>2 DEF Good, State, Owned
<1>4. /\ Transfers(rest, x, i)
      /\ x.all = rest.all \ {i}
      /\ x.place[i] = "undefined"
      /\ rest.processing[i] + 1 < CounterSize =>
            x.processing[i] = rest.processing[i] + 1 - Worn(rest, i)
  BY <1>2, <1>3, DropMoves DEF Good
<1> HIDE DEF x
<1>5. /\ v \in State /\ x \in State /\ rest \in State /\ v.events \in Seq(Messages)
      /\ x.events = rest.events /\ x.chosen = v.chosen /\ x.all = v.all \ {i}
  BY <1>1, <1>2, <1>4 DEF Transfers, Good, State
<1>6. Owned(x)
  <2> SUFFICES ASSUME NEW j \in v.all \ {i} PROVE x.place[j] # "undefined"
    BY <1>5 DEF Owned
  <2>1. j \in Items /\ v.place[j] # "undefined"
    BY <1>1 DEF Good, State, Owned
  <2> QED BY <1>2, <1>4, <2>1 DEF Transfers
<1>7. RejectedOnce(x)
  BY <1>2, <1>5 DEF Good, RejectedOnce
<1>8. Good(x)
  BY <1>1, <1>4, <1>5, <1>6, <1>7 DEF Good, Meant, Transfers
<1>9. Releases(v, x)
  BY <1>2, <1>4 DEF Transfers, Releases
<1>10. \A j \in Items : Cardinality(Moves(x.events, j)) = Cardinality(Moves(v.events, j))
  <2> SUFFICES ASSUME NEW j \in Items
               PROVE  Cardinality(Moves(x.events, j)) = Cardinality(Moves(v.events, j))
    OBVIOUS
  <2>1. ~IsMove(Head(v.events), j)
    BY DEF IsMove
  <2>2. /\ Cardinality(Moves(x.events, j)) \in Nat
        /\ Cardinality(Moves(v.events, j)) = Cardinality(Moves(Tail(v.events), j)) +
              (IF IsMove(Head(v.events), j) THEN 1 ELSE 0)
    BY <1>5, CountersAreNaturals, MovesReceived
  <2> QED BY <1>2, <1>5, <2>1, <2>2
<1>11. ASSUME NoWrap, NEW j \in Items \ {i} PROVE CountedAt(x, j)
  <2>1. CountedAt(v, j)
    BY <1>11 DEF Invariant, Counted
  <2>2. x.place[j] = v.place[j] /\ x.processing[j] = v.processing[j]
    BY <1>2, <1>4 DEF Transfers
  <2>3. (j \in x.all) = (j \in v.all)
    BY <1>5
  <2> QED BY <1>10, <2>1, <2>2, <2>3 DEF CountedAt, Uses, Charge
<1>12. ASSUME NoWrap PROVE CountedAt(x, i)
  <2>1. CountedAt(v, i)
    BY <1>3, <1>12 DEF Invariant, Counted
  <2>2. /\ v.processing[i] \in Nat
        /\ Worn(v, i) \in {0, 1} /\ Worn(rest, i) = Worn(v, i)
        /\ Uses(v, i) = 0 + Worn(v, i)
        /\ Cardinality(Moves(v.events, i)) \in Nat
    BY <1>2, <1>3, <1>5, CountersAreNaturals DEF Worn
  <2>3. v.processing[i] + Cardinality(Moves(v.events, i)) + 1 <= MaxProcessing + MaxEvents + 1
    BY <1>2, <2>1 DEF CountedAt, Charge
  <2>4. v.processing[i] >= Worn(v, i)
    BY <2>1, <2>2 DEF CountedAt
  <2>5. v.processing[i] + 1 < CounterSize
    BY <1>12, <2>2, <2>3, Bounds DEF NoWrap
  <2>6. x.processing[i] = v.processing[i] + 1 - Worn(v, i)
    BY <1>2, <1>4, <2>2, <2>5
  <2>7. i \notin x.all /\ Uses(x, i) = 1
    BY <1>4, <1>5 DEF Uses
  <2>8. Charge(x, i) = x.processing[i] + Cardinality(Moves(v.events, i)) + 0
    BY <1>3, <1>10, <2>7 DEF Charge
  <2> QED BY <2>2, <2>3, <2>4, <2>6, <2>7, <2>8, Bounds DEF CountedAt
<1> QED BY <1>8, <1>9, <1>11, <1>12 DEF Invariant, Counted, x, rest, i

(* The actor takes an item.                                                  *)
LEMMA TakeStep ==
  ASSUME NEW v, Invariant(v), NEW i \in Items, i \notin v.all,
         v.processing[i] < MaxProcessing, Len(v.events) < MaxEvents,
         NEW toSlot \in BOOLEAN, NEW toBelt \in BOOLEAN
  PROVE  /\ Invariant(Take(v, i, toSlot, toBelt))
         /\ Releases(v, Take(v, i, toSlot, toBelt))
<1> DEFINE x == Take(v, i, toSlot, toBelt)
<1>1. Good(v) /\ v \in State
  BY DEF Invariant, Good
<1>2. /\ Transfers(v, x, i)
      /\ x.all = v.all \cup {i}
      /\ x.place[i] # "undefined"
      /\ v.processing[i] > Worn(v, i) /\ v.processing[i] + 1 < CounterSize =>
            /\ x.processing[i] + Worn(v, i) + 1 >= v.processing[i] + Worn(x, i)
            /\ x.processing[i] <= v.processing[i]
  BY <1>1, TakeMoves DEF Good
<1> HIDE DEF x
<1>3. /\ x \in State /\ v.events \in Seq(Messages)
      /\ x.events = v.events /\ x.chosen = v.chosen
  BY <1>1, <1>2 DEF Transfers, State
<1>4. Owned(x)
  <2> SUFFICES ASSUME NEW j \in v.all \ {i} PROVE x.place[j] # "undefined"
    BY <1>2 DEF Owned
  <2>1. j \in Items /\ v.place[j] # "undefined"
    BY <1>1 DEF Good, State, Owned
  <2> QED BY <1>2, <2>1 DEF Transfers
<1>5. Good(x)
  BY <1>1, <1>2, <1>3, <1>4 DEF Good, Meant, Transfers, RejectedOnce
<1>6. Releases(v, x)
  BY <1>2 DEF Transfers
<1>7. ASSUME NoWrap, NEW j \in Items \ {i} PROVE CountedAt(x, j)
  <2>1. CountedAt(v, j)
    BY <1>7 DEF Invariant, Counted
  <2>2. x.place[j] = v.place[j] /\ x.processing[j] = v.processing[j]
    BY <1>2 DEF Transfers
  <2>3. (j \in x.all) = (j \in v.all)
    BY <1>2
  <2> QED BY <1>3, <2>1, <2>2, <2>3 DEF CountedAt, Uses, Charge
<1>8. ASSUME NoWrap PROVE CountedAt(x, i)
  <2>1. CountedAt(v, i)
    BY <1>8 DEF Invariant, Counted
  <2>2. /\ v.processing[i] \in Nat /\ x.processing[i] \in Nat
        /\ Worn(v, i) \in {0, 1} /\ Worn(x, i) \in {0, 1}
        /\ Uses(v, i) = 1 + Worn(v, i) /\ Uses(x, i) = 0 + Worn(x, i)
        /\ Cardinality(Moves(v.events, i)) \in Nat
        /\ Cardinality(Moves(v.events, i)) <= Len(v.events) /\ Len(v.events) \in Nat
    BY <1>1, <1>2, <1>3, CountersAreNaturals
  <2>3. v.processing[i] > Worn(v, i) /\ v.processing[i] + 1 < CounterSize
    BY <1>8, <2>1, <2>2, Bounds DEF CountedAt, NoWrap
  <2>4. x.processing[i] >= Uses(x, i)
    BY <1>2, <2>2, <2>3
  <2>5. Charge(x, i) = x.processing[i] + Cardinality(Moves(v.events, i)) + 1
    BY <1>2, <1>3 DEF Charge
  <2> QED BY <1>2, <2>2, <2>3, <2>4, <2>5, Bounds DEF CountedAt
<1> QED BY <1>5, <1>6, <1>7, <1>8 DEF Invariant, Counted, x

(* The window makes room in a slot: the item that is in the way goes into    *)
(* the ruck.  Item i is already meant for the slot s, and may still be in    *)
(* another.                                                                  *)
Freed(v, w, i, s) ==
    /\ w \in State
    /\ w.all = v.all /\ w.active = v.active
    /\ w.chosen = [v.chosen EXCEPT ![i] = s]
    /\ w.slots[s] = NoItem
    /\ \A j \in Items \ {i} : HeldAt(w, j)
    /\ \A t, u \in SlotIds : w.slots[t] = i /\ w.slots[u] = i => t = u
    /\ w.place[i] = v.place[i] /\ w.processing[i] = v.processing[i]
    /\ \A j \in Items \ {i} : w.place[j] = "undefined" => v.place[j] = "undefined"
    /\ \A j \in Items \ {i} :
          v.processing[j] >= Worn(v, j) =>
             /\ w.processing[j] + Worn(v, j) >= v.processing[j] + Worn(w, j)
             /\ w.processing[j] <= v.processing[j]
    /\ \/ w.events = v.events
       \/ \E j \in Items \ {i} : w.events = Append(v.events, ItemMessage("item2ruck", j))
    /\ Frees(v, w)

LEMMA SlotFreed ==
  ASSUME NEW v \in State, Held(v), NEW i \in Items, NEW s \in SlotIds,
         v.slots[s] \in (v.all \ {i}) \cup {NoItem}
  PROVE  LET meant == [v EXCEPT !.chosen[i] = s]
             other == meant.slots[s]
         IN  Freed(v, IF CanPutInSlot(meant, i) THEN meant
                      ELSE Send(Ruck(meant, other), ItemMessage("item2ruck", other)), i, s)
<1> DEFINE meant == [v EXCEPT !.chosen[i] = s]
           other == meant.slots[s]
<1>1. /\ meant \in State
      /\ meant.all = v.all /\ meant.ruck = v.ruck /\ meant.belt = v.belt
      /\ meant.slots = v.slots /\ meant.place = v.place /\ meant.processing = v.processing
      /\ meant.active = v.active /\ meant.next = v.next /\ meant.events = v.events
      /\ meant.chosen = [v.chosen EXCEPT ![i] = s]
  BY DEF State
<1> HIDE DEF meant
<1>2. meant.chosen[i] = s /\ \A j \in Items \ {i} : meant.chosen[j] = v.chosen[j]
  BY <1>1 DEF State
<1>3. \A j \in Items \ {i} : HeldAt(meant, j)
  BY <1>1, <1>2 DEF Held, HeldAt
<1>4. \A t, u \in SlotIds : meant.slots[t] = i /\ meant.slots[u] = i => t = u
  BY <1>1 DEF Held, HeldAt
<1>5. CanPutInSlot(meant, i) <=> v.slots[s] = NoItem
  BY <1>1, <1>2, InventoryAssumption DEF CanPutInSlot, InventoryAssumption
<1>6. \A j \in Items : v.processing[j] \in Nat /\ Worn(v, j) \in Nat
  BY CountersAreNaturals
<1>7. CASE v.slots[s] = NoItem
  <2>1. Freed(v, meant, i, s)
    BY <1>1, <1>3, <1>4, <1>6, <1>7 DEF Freed, Frees, Worn
  <2> QED BY <1>5, <1>7, <2>1 DEF meant
<1>8. CASE v.slots[s] # NoItem
  <2> DEFINE r == Ruck(meant, other)
             m == ItemMessage("item2ruck", other)
             w == Send(r, m)
  <2>1. other = v.slots[s] /\ other \in Items \ {i}
    BY <1>1, <1>8 DEF State
  <2> HIDE DEF other
  <2>2. HeldAt(meant, other) /\ meant.place[other] = "slot"
    BY <1>1, <1>3, <2>1 DEF HeldAt
  <2>3. /\ Put(meant, r, other, "ruck")
        /\ r.processing[other] = Down(v.processing[other])
    BY <1>1, <2>1, <2>2, RuckPuts, HeldInSlot
  <2> HIDE DEF r
  <2>4. r \in State /\ r.all = v.all /\ r.active = v.active /\ r.events = v.events
        /\ r.chosen = meant.chosen
    BY <1>1, <2>3 DEF Put, Keeps
  <2>5. \A j \in Items \ {i} : HeldAt(r, j)
    <3>1. HeldAt(r, other) /\ \A j \in Items \ {other} : HeldAt(meant, j) => HeldAt(r, j)
      BY <1>1, <2>1, <2>3, PutHolds DEF Places
    <3> QED BY <1>3, <3>1
  <2>6. \A t \in SlotIds : r.slots[t] = IF v.slots[t] = other THEN NoItem ELSE v.slots[t]
    BY <1>1, <2>3 DEF Put
  <2>7. r.slots[s] = NoItem /\ \A t, u \in SlotIds : r.slots[t] = i /\ r.slots[u] = i => t = u
    <3>1. i # NoItem
      BY InventoryAssumption DEF InventoryAssumption
    <3> QED BY <1>1, <1>4, <2>1, <2>6, <3>1
  <2>8. r.place[other] = "ruck" /\ \A j \in Items \ {other} : r.place[j] = v.place[j]
    BY <1>1, <2>1, <2>3 DEF Put, State
  <2>9. \A j \in Items \ {other} : r.processing[j] = v.processing[j]
    BY <1>1, <2>3 DEF Put
  <2>10. ASSUME NEW j \in Items \ {i}, v.processing[j] >= Worn(v, j)
         PROVE  /\ r.processing[j] + Worn(v, j) >= v.processing[j] + Worn(r, j)
                /\ r.processing[j] <= v.processing[j]
    <3>1. CASE j = other
      <4>1. Worn(v, other) = 1 /\ Worn(r, other) = 0
        BY <1>1, <2>2, <2>8 DEF Worn
      <4>2. Down(v.processing[other]) = v.processing[other] - 1
        BY <1>6, <2>1, <2>10, <3>1, <4>1, CountersIn, UpAndDown
      <4> QED BY <1>6, <2>1, <2>3, <3>1, <4>1, <4>2
    <3>2. CASE j # other
      BY <1>6, <2>8, <2>9, <3>2 DEF Worn
    <3> QED BY <3>1, <3>2
  <2>11. m \in Messages
    BY <2>1 DEF ItemMessage, Messages
  <2>12. /\ w \in State /\ w.events = Append(r.events, m)
         /\ w.all = r.all /\ w.ruck = r.ruck /\ w.belt = r.belt /\ w.slots = r.slots
         /\ w.place = r.place /\ w.chosen = r.chosen /\ w.processing = r.processing
         /\ w.active = r.active /\ w.next = r.next
    BY <2>4, <2>11, SentIs
  <2> HIDE DEF w
  <2>13. \A j \in Items \ {i} : HeldAt(w, j)
    BY <2>5, <2>12 DEF HeldAt
  <2>14. Frees(v, w)
    BY <1>1, <2>3, <2>12 DEF Put, Frees
  <2>15. \A j \in Items \ {i} : w.place[j] = "undefined" => v.place[j] = "undefined"
    BY <2>1, <2>8, <2>12
  <2>16. w.events = Append(v.events, ItemMessage("item2ruck", other))
    BY <2>4, <2>12
  <2>17. \A j \in Items \ {i} :
            v.processing[j] >= Worn(v, j) =>
               /\ w.processing[j] + Worn(v, j) >= v.processing[j] + Worn(w, j)
               /\ w.processing[j] <= v.processing[j]
    BY <2>10, <2>12 DEF Worn
  <2>18. w.place[i] = v.place[i] /\ w.processing[i] = v.processing[i]
    BY <2>1, <2>8, <2>9, <2>12
  <2>19. Freed(v, w, i, s)
    BY <1>1, <2>1, <2>4, <2>7, <2>12, <2>13, <2>14, <2>15, <2>16, <2>17, <2>18 DEF Freed
  <2> QED BY <1>5, <1>8, <2>19 DEF w, r, other, meant
<1> QED BY <1>7, <1>8

(* The player drags an item onto a slot.                                     *)
LEMMA IntoSlotStep ==
  ASSUME NEW v, Invariant(v), NEW i \in v.all, NEW s \in SlotIds, s \in Range(SlotsOf[i]),
         v.slots[s] \in (v.all \ {i}) \cup {NoItem},
         v.processing[i] < MaxProcessing, Len(v.events) < MaxEvents
  PROVE  Invariant(IntoSlot(v, i, s)) /\ Releases(v, IntoSlot(v, i, s))
<1> DEFINE meant == [v EXCEPT !.chosen[i] = s]
           other == meant.slots[s]
           freed == IF CanPutInSlot(meant, i) THEN meant
                    ELSE Send(Ruck(meant, other), ItemMessage("item2ruck", other))
           x == Slot(freed, i)
           a == Send(x, ItemMessage("item2slot", i))
           act == [type |-> "activate", slot |-> s]
           w == Send(a, act)
<1>1. w = IntoSlot(v, i, s)
  BY DEF IntoSlot
<1>2. v \in State /\ Good(v) /\ i \in Items
  BY DEF Invariant, Good, State
<1>3. Freed(v, freed, i, s)
  BY <1>2, SlotFreed DEF Good
<1> HIDE DEF freed
<1>4. freed \in State /\ freed.chosen[i] = s /\ CanPutInSlot(freed, i)
      /\ \A j \in Items \ {i} : freed.chosen[j] = v.chosen[j]
  BY <1>2, <1>3, InventoryAssumption DEF Freed, State, CanPutInSlot, InventoryAssumption
<1>5. Put(freed, x, i, "slot") /\ x.processing[i] = Up(v.processing[i])
  BY <1>2, <1>3, <1>4, SlotPuts DEF Freed
<1> HIDE DEF x
<1>6. x \in State /\ x.all = v.all /\ x.active = v.active /\ x.events = freed.events
      /\ x.chosen = freed.chosen /\ Frees(freed, x)
      /\ \A j \in Items \ {i} : x.processing[j] = freed.processing[j]
  BY <1>3, <1>5 DEF Freed, Put, Keeps
<1>7. x.place[i] = "slot" /\ \A j \in Items \ {i} : x.place[j] = freed.place[j]
  BY <1>2, <1>4, <1>5 DEF Put, State
<1>8. Held(x)
  <2>1. HeldAt(x, i) /\ \A j \in Items \ {i} : HeldAt(freed, j) => HeldAt(x, j)
    BY <1>2, <1>3, <1>4, <1>5, PutHolds DEF Places, Freed
  <2> QED BY <1>3, <2>1 DEF Held, Freed
<1>9. ItemMessage("item2slot", i) \in Messages /\ act \in Messages
  BY <1>2 DEF ItemMessage, Messages
<1>10. /\ a \in State /\ a.events = Append(x.events, ItemMessage("item2slot", i))
       /\ a.all = x.all /\ a.ruck = x.ruck /\ a.belt = x.belt /\ a.slots = x.slots
       /\ a.place = x.place /\ a.chosen = x.chosen /\ a.processing = x.processing
       /\ a.active = x.active /\ a.next = x.next
  BY <1>6, <1>9, SentIs
<1> HIDE DEF a
<1>11. /\ w \in State /\ w.events = Append(a.events, act)
       /\ w.all = a.all /\ w.ruck = a.ruck /\ w.belt = a.belt /\ w.slots = a.slots
       /\ w.place = a.place /\ w.chosen = a.chosen /\ w.processing = a.processing
       /\ w.active = a.active /\ w.next = a.next
  BY <1>9, <1>10, SentIs
<1> HIDE DEF w
<1>12. v.events \in Seq(Messages) /\ freed.events \in Seq(Messages)
       /\ a.events \in Seq(Messages)
  BY <1>2, <1>4, <1>10 DEF State
<1>13. RejectedOnce(freed)
       /\ \A j \in Items : Cardinality(Moves(freed.events, j)) = Cardinality(Moves(v.events, j))
  <2>1. CASE freed.events = v.events
    BY <1>2, <1>3, <2>1 DEF Good, RejectedOnce, Freed
  <2>2. ASSUME NEW j \in Items \ {i}, freed.events = Append(v.events, ItemMessage("item2ruck", j))
        PROVE  RejectedOnce(freed)
               /\ \A k \in Items : Cardinality(Moves(freed.events, k)) = Cardinality(Moves(v.events, k))
    <3> DEFINE m == ItemMessage("item2ruck", j)
    <3>1. m \in Messages /\ m.type # "reject" /\ \A k \in Items : ~IsMove(m, k)
      BY DEF ItemMessage, Messages, IsMove
    <3> HIDE DEF m
    <3>2. freed.events = Append(v.events, m) /\ freed.all = v.all
      BY <1>3, <2>2 DEF m, Freed
    <3> QED BY <1>2, <1>12, <3>1, <3>2, RejectedOnceSent, MovesSent DEF Good
  <2> QED BY <1>3, <2>1, <2>2 DEF Freed
<1>14. RejectedOnce(w)
  <2>1. RejectedOnce(x)
    BY <1>3, <1>6, <1>13 DEF RejectedOnce, Freed
  <2>2. RejectedOnce(a)
    BY <1>6, <1>9, <1>10, <1>12, <2>1, RejectedOnceSent DEF ItemMessage
  <2> QED BY <1>9, <1>11, <1>12, <2>2, RejectedOnceSent
<1>15. Owned(w)
  <2> SUFFICES ASSUME NEW j \in v.all PROVE w.place[j] # "undefined"
    BY <1>6, <1>10, <1>11 DEF Owned
  <2>1. j \in Items /\ v.place[j] # "undefined"
    BY <1>2 DEF Good, State, Owned
  <2> QED BY <1>3, <1>7, <1>10, <1>11, <2>1 DEF Freed
<1>16. Meant(w) /\ Held(w)
  BY <1>2, <1>4, <1>6, <1>8, <1>10, <1>11 DEF Good, Meant, Held, HeldAt
<1>17. Good(w)
  BY <1>11, <1>14, <1>15, <1>16 DEF Good
<1>18. Releases(v, w)
  <2> SUFFICES ASSUME v.active # NoSlot, v.slots[v.active] # NoItem,
                      w.slots[v.active] # v.slots[v.active]
               PROVE  w.next = NoSlot
    BY DEF Releases
  <2>1. /\ freed.next \in {v.next, NoSlot}
        /\ freed.slots[v.active] # v.slots[v.active] => freed.next = NoSlot
        /\ freed.active = v.active
    BY <1>3 DEF Freed, Frees
  <2>2. /\ x.next \in {freed.next, NoSlot}
        /\ freed.slots[v.active] # NoItem /\ x.slots[v.active] # freed.slots[v.active] => x.next = NoSlot
    BY <1>6, <2>1 DEF Frees
  <2>3. w.slots = x.slots /\ w.next = x.next
    BY <1>10, <1>11
  <2> QED BY <2>1, <2>2, <2>3
<1>19. \A j \in Items \ {i} : Cardinality(Moves(w.events, j)) = Cardinality(Moves(v.events, j))
  <2> SUFFICES ASSUME NEW j \in Items \ {i}
               PROVE  Cardinality(Moves(w.events, j)) = Cardinality(Moves(v.events, j))
    OBVIOUS
  <2>1. ~IsMove(ItemMessage("item2slot", i), j) /\ ~IsMove(act, j)
    BY DEF IsMove, ItemMessage
  <2>2. Cardinality(Moves(a.events, j)) = Cardinality(Moves(freed.events, j))
    BY <1>6, <1>9, <1>10, <1>12, <2>1, MovesSent
  <2>3. Cardinality(Moves(w.events, j)) = Cardinality(Moves(a.events, j))
    BY <1>9, <1>11, <1>12, <2>1, MovesSent
  <2> QED BY <1>13, <2>2, <2>3
<1>20. /\ Cardinality(Moves(w.events, i)) <= Cardinality(Moves(v.events, i)) + 1
       /\ Cardinality(Moves(w.events, i)) \in Nat
  <2>1. ~IsMove(act, i)
    BY DEF IsMove
  <2>2. Cardinality(Moves(a.events, i)) <= Cardinality(Moves(freed.events, i)) + 1
    BY <1>2, <1>6, <1>9, <1>10, <1>12, MovesSent
  <2>3. Cardinality(Moves(w.events, i)) = Cardinality(Moves(a.events, i))
    BY <1>2, <1>9, <1>11, <1>12, <2>1, MovesSent
  <2>4. Cardinality(Moves(w.events, i)) \in Nat
    BY <1>2, <1>11, CountersAreNaturals
  <2> QED BY <1>2, <1>13, <2>2, <2>3, <2>4
<1>21. ASSUME NoWrap, NEW j \in Items \ {i} PROVE CountedAt(w, j)
  <2>1. CountedAt(v, j)
    BY <1>21 DEF Invariant, Counted
  <2>2. /\ v.processing[j] \in Nat /\ w.processing[j] \in Nat
        /\ Worn(v, j) \in {0, 1} /\ Worn(w, j) \in {0, 1}
        /\ Uses(v, j) = (IF j \in v.all THEN 0 ELSE 1) + Worn(v, j)
        /\ Uses(w, j) = (IF j \in v.all THEN 0 ELSE 1) + Worn(w, j)
        /\ Cardinality(Moves(v.events, j)) \in Nat
    BY <1>2, <1>6, <1>10, <1>11, CountersAreNaturals
  <2>3. v.processing[j] >= Worn(v, j)
    BY <2>1, <2>2 DEF CountedAt
  <2>4. /\ w.processing[j] + Worn(v, j) >= v.processing[j] + Worn(w, j)
        /\ w.processing[j] <= v.processing[j]
    <3>1. /\ freed.processing[j] + Worn(v, j) >= v.processing[j] + Worn(freed, j)
          /\ freed.processing[j] <= v.processing[j]
      BY <1>3, <2>3 DEF Freed
    <3>2. w.processing[j] = freed.processing[j] /\ Worn(w, j) = Worn(freed, j)
      BY <1>6, <1>7, <1>10, <1>11 DEF Worn
    <3> QED BY <3>1, <3>2
  <2>5. w.processing[j] >= Uses(w, j)
    BY <2>1, <2>2, <2>4 DEF CountedAt
  <2>6. Charge(w, j) <= Charge(v, j) /\ Charge(w, j) \in Nat /\ Charge(v, j) \in Nat
    BY <1>6, <1>10, <1>11, <1>19, <2>2, <2>4 DEF Charge
  <2> QED BY <2>1, <2>5, <2>6, Bounds DEF CountedAt
<1>22. ASSUME NoWrap PROVE CountedAt(w, i)
  <2>1. CountedAt(v, i)
    BY <1>2, <1>22 DEF Invariant, Counted
  <2>2. /\ v.processing[i] \in 0 .. CounterSize - 1
        /\ Cardinality(Moves(v.events, i)) \in Nat
        /\ Cardinality(Moves(v.events, i)) <= Len(v.events) /\ Len(v.events) \in Nat
        /\ w.processing[i] = Up(v.processing[i])
        /\ Uses(w, i) = 1
    BY <1>2, <1>5, <1>6, <1>7, <1>10, <1>11, CountersAreNaturals, CountersIn DEF Uses
  <2>3. w.processing[i] = v.processing[i] + 1
    <3>1. v.processing[i] + 1 < CounterSize
      BY <1>22, <2>2, Bounds DEF NoWrap
    <3> QED BY <2>2, <3>1, UpAndDown
  <2>4. Charge(w, i) = w.processing[i] + Cardinality(Moves(w.events, i)) + 1
    BY <1>6, <1>10, <1>11 DEF Charge
  <2> QED BY <1>20, <2>2, <2>3, <2>4, Bounds DEF CountedAt
<1> QED BY <1>1, <1>17, <1>18, <1>21, <1>22 DEF Invariant, Counted

(* Only the next slot, the marks of the player, or neither change.           *)
LEMMA OnlyMarks ==
  ASSUME NEW v, Invariant(v), NEW w \in State, w.all = v.all, w.ruck = v.ruck,
         w.belt = v.belt, w.slots = v.slots, w.place = v.place, w.chosen = v.chosen,
         w.processing = v.processing, w.events = v.events
  PROVE  Invariant(w) /\ Releases(v, w)
<1>1. Invariant(w)
  BY HandsAside
<1> QED BY <1>1 DEF Releases

(* A sequence of everything a finite set has, each once.                     *)
LEMMA SetInSequence ==
  ASSUME NEW S, IsFiniteSet(S)
  PROVE  /\ SetToSeq(S) \in Seq(S)
         /\ \A a, b \in DOMAIN SetToSeq(S) : SetToSeq(S)[a] = SetToSeq(S)[b] => a = b
<1>1. Cardinality(S) \in Nat /\ ExistsBijection(1 .. Cardinality(S), S)
  BY FS_CardinalityType
<1>2. PICK f \in Bijection(1 .. Cardinality(S), S) : TRUE
  BY <1>1 DEF ExistsBijection
<1>3. f \in [1 .. Cardinality(S) -> S] /\ IsInjective(f)
  BY <1>2 DEF Bijection, Injection
<1>4. SetToSeq(S) \in [1 .. Cardinality(S) -> S] /\ IsInjective(SetToSeq(S))
  BY <1>3 DEF SetToSeq
<1> QED BY <1>1, <1>4 DEF IsInjective

(* The server is told of what was thrown away.                               *)
LEMMA DropTasksStep ==
  ASSUME NEW v, Invariant(v)
  PROVE  Invariant(DropTasks(v)) /\ Releases(v, DropTasks(v))
<1> DEFINE held == v.ruck \cup v.belt \cup Range(v.slots)
           thrown == v.dropManual \cap held
           S == {i \in thrown \cap v.all : ~Rejected(v, i)}
           q == SetToSeq(S)
           r == [k \in DOMAIN q |-> ItemMessage("reject", q[k])]
           w == [v EXCEPT !.dropManual = @ \ thrown, !.events = @ \o r]
<1>1. w = DropTasks(v)
  BY DEF DropTasks
<1>2. v \in State /\ Good(v) /\ v.events \in Seq(Messages)
  BY DEF Invariant, Good, State
<1>3. S \subseteq Items /\ S \subseteq v.all /\ \A i \in S : ~Rejected(v, i)
  BY <1>2 DEF State
<1>4. IsFiniteSet(S)
  BY <1>3, FS_Subset, InventoryAssumption DEF InventoryAssumption
<1> HIDE DEF S
<1>5. /\ q \in Seq(S)
      /\ \A a, b \in DOMAIN q : q[a] = q[b] => a = b
  BY <1>4, SetInSequence
<1> HIDE DEF q
<1>6. Len(q) \in Nat /\ DOMAIN q = 1 .. Len(q) /\ \A k \in DOMAIN q : q[k] \in S
  BY <1>5
<1>7. \A k \in DOMAIN q : ItemMessage("reject", q[k]) \in Messages
  BY <1>3, <1>6 DEF ItemMessage, Messages
<1>8. /\ DOMAIN r = DOMAIN q
      /\ \A k \in DOMAIN q : r[k] = [type |-> "reject", item |-> q[k]]
      /\ \A k \in DOMAIN q : r[k] \in Messages
  BY <1>7 DEF ItemMessage
<1>9. r \in Seq(Messages)
  <2> HIDE DEF r
  <2>1. r = [k \in 1 .. Len(q) |-> r[k]]
    BY <1>6 DEF r
  <2>2. r \in [1 .. Len(q) -> Messages]
    BY <1>6, <1>8, <2>1
  <2> QED BY <1>6, <2>2
<1> HIDE DEF r
<1>10. v.events \o r \in Seq(Messages)
  BY <1>2, <1>9
<1>11. /\ w \in State /\ w.events = v.events \o r
       /\ w.all = v.all /\ w.ruck = v.ruck /\ w.belt = v.belt /\ w.slots = v.slots
       /\ w.place = v.place /\ w.chosen = v.chosen /\ w.processing = v.processing
       /\ w.active = v.active /\ w.next = v.next
  BY <1>2, <1>10 DEF State
<1> HIDE DEF w
<1>12. /\ Len(v.events) \in Nat /\ DOMAIN v.events = 1 .. Len(v.events)
       /\ Len(r) = Len(q) /\ DOMAIN w.events = 1 .. Len(v.events) + Len(q)
       /\ \A k \in 1 .. Len(v.events) : w.events[k] = v.events[k]
       /\ \A k \in Len(v.events) + 1 .. Len(v.events) + Len(q) :
             k - Len(v.events) \in DOMAIN q /\ w.events[k] = r[k - Len(v.events)]
  <2>1. /\ Len(v.events) \in Nat /\ DOMAIN v.events = 1 .. Len(v.events)
        /\ Len(r) \in Nat /\ DOMAIN r = 1 .. Len(r)
    BY <1>2, <1>9
  <2>2. Len(r) = Len(q)
    BY <1>6, <1>8, <2>1
  <2>3. /\ DOMAIN (v.events \o r) = 1 .. Len(v.events) + Len(r)
        /\ \A k \in 1 .. Len(v.events) : (v.events \o r)[k] = v.events[k]
        /\ \A k \in Len(v.events) + 1 .. Len(v.events) + Len(r) :
              (v.events \o r)[k] = r[k - Len(v.events)]
    BY <1>2, <1>9
  <2>4. \A k \in Len(v.events) + 1 .. Len(v.events) + Len(q) : k - Len(v.events) \in 1 .. Len(q)
    BY <1>6, <2>1
  <2> QED BY <1>6, <1>11, <2>1, <2>2, <2>3, <2>4
<1>13. RejectedOnce(w)
  <2> SUFFICES ASSUME NEW k \in DOMAIN w.events, w.events[k].type = "reject"
               PROVE  /\ w.events[k].item \in w.all
                      /\ \A l \in DOMAIN w.events : w.events[l] = w.events[k] => l = k
    BY DEF RejectedOnce
  <2>1. \A l \in Len(v.events) + 1 .. Len(v.events) + Len(q) :
           /\ w.events[l].item = q[l - Len(v.events)]
           /\ w.events[l] = [type |-> "reject", item |-> q[l - Len(v.events)]]
           /\ w.events[l].item \in S
    <3> SUFFICES ASSUME NEW l \in Len(v.events) + 1 .. Len(v.events) + Len(q)
                 PROVE  /\ w.events[l].item = q[l - Len(v.events)]
                        /\ w.events[l] = [type |-> "reject", item |-> q[l - Len(v.events)]]
                        /\ w.events[l].item \in S
      OBVIOUS
    <3> DEFINE k0 == l - Len(v.events)
    <3>1. k0 \in DOMAIN q /\ w.events[l] = r[k0]
      BY <1>12
    <3>2. w.events[l] = [type |-> "reject", item |-> q[k0]]
      BY <1>8, <3>1
    <3> QED BY <1>6, <3>1, <3>2
  <2>2. \A l \in 1 .. Len(v.events), i \in S :
           v.events[l] # [type |-> "reject", item |-> i]
    BY <1>3 DEF Rejected, Contains, ItemMessage
  <2>3. CASE k \in 1 .. Len(v.events)
    <3>1. /\ v.events[k].item \in v.all
          /\ \A l \in DOMAIN v.events : v.events[l] = v.events[k] => l = k
      <4>1. k \in DOMAIN v.events /\ v.events[k].type = "reject"
        BY <1>12, <2>3
      <4> QED BY <1>2, <4>1 DEF Good, RejectedOnce
    <3>2. \A l \in Len(v.events) + 1 .. Len(v.events) + Len(q) : w.events[l] # w.events[k]
      <4> SUFFICES ASSUME NEW l \in Len(v.events) + 1 .. Len(v.events) + Len(q)
                   PROVE  w.events[l] # w.events[k]
        OBVIOUS
      <4> DEFINE i == w.events[l].item
      <4>1. i \in S /\ w.events[l] = [type |-> "reject", item |-> i]
        BY <2>1
      <4> HIDE DEF i
      <4>2. w.events[k] = v.events[k]
        BY <1>12, <2>3
      <4> QED BY <2>2, <2>3, <4>1, <4>2
    <3> QED BY <1>11, <1>12, <2>3, <3>1, <3>2
  <2>4. CASE k \in Len(v.events) + 1 .. Len(v.events) + Len(q)
    <3>1. w.events[k].item \in w.all
      BY <1>3, <1>11, <2>1, <2>4
    <3>2. \A l \in 1 .. Len(v.events) : w.events[l] # w.events[k]
      BY <1>12, <2>1, <2>2, <2>4
    <3>3. ASSUME NEW l \in Len(v.events) + 1 .. Len(v.events) + Len(q), w.events[l] = w.events[k]
          PROVE  l = k
      <4>1. q[l - Len(v.events)] = q[k - Len(v.events)]
        BY <2>1, <2>4, <3>3
      <4>2. l - Len(v.events) = k - Len(v.events)
        BY <1>5, <1>12, <2>4, <4>1
      <4> QED BY <1>6, <1>12, <2>4, <4>2
    <3> QED BY <1>12, <3>1, <3>2, <3>3
  <2> QED BY <1>6, <1>12, <2>3, <2>4
<1>14. Good(w)
  BY <1>2, <1>11, <1>13 DEF Good, Meant, Held, HeldAt, Owned
<1>15. \A i \in Items : Moves(w.events, i) = Moves(v.events, i)
  <2>1. \A k \in DOMAIN r : r[k].type = "reject"
    BY <1>8
  <2> QED BY <1>2, <1>9, <1>11, <2>1, MovesBeside
<1>16. NoWrap => Counted(w)
  BY <1>11, <1>15 DEF Invariant, Counted, CountedAt, Uses, Charge
<1> QED BY <1>1, <1>11, <1>14, <1>16 DEF Invariant, Releases

LEMMA SwitchedIs ==
  ASSUME NEW v, Invariant(v)
  PROVE  LET w == Switched(v) IN
         Invariant(w) /\ w.slots = v.slots
<1>1. v \in State
  BY DEF Invariant, Good
<1> DEFINE x == [v EXCEPT !.active = v.next]
<1>2. /\ x \in State /\ x.all = v.all /\ x.ruck = v.ruck
      /\ x.belt = v.belt /\ x.slots = v.slots /\ x.place = v.place /\ x.chosen = v.chosen
      /\ x.processing = v.processing /\ x.events = v.events
  BY <1>1 DEF State
<1>3. Switched(v) = v \/ Switched(v) = x
  BY DEF Switched
<1> HIDE DEF x
<1> QED BY <1>2, <1>3, OnlyMarks

-----------------------------------------------------------------------------
(* Every step leads to what a function made of an inventory.                 *)

(* What every step does but the marking of an item to be thrown away.        *)
Leads(v, w) == Invariant(w) /\ Releases(v, w) /\ Becomes(w)

LEMMA NextLeads ==
  ASSUME IInv, Next
  PROVE  \/ \E i \in Items : ThrowAway(i)
         \/ \E hands \in HandStates : \E w : Leads(Current(hands), w)
<1> SUFFICES ASSUME ~\E i \in Items : ThrowAway(i)
             PROVE  \E hands \in HandStates : \E w : Leads(Current(hands), w)
  OBVIOUS
<1>1. PICK hands \in HandStates :
        \/ \E i \in Items :
              \/ TakeItem(hands, i)
              \/ DragToBag(hands, i)
              \/ DragToBelt(hands, i)
              \/ \E s \in SlotIds : DragToSlot(hands, i, s)
        \/ \E s \in SlotIds \cup {NoSlot} : ActivateSlot(hands, s)
        \/ Update(hands)
        \/ Receive(hands)
  BY DEF Next
<1> DEFINE v == Current(hands)
<1>2. Invariant(v)
  BY <1>1, CurrentInvariant
<1>3. /\ v.all = all /\ v.slots = slots /\ v.processing = processing /\ v.events = events
  BY DEF Current
<1> SUFFICES \E w : Leads(v, w)
  OBVIOUS
<1> HIDE DEF v
<1>4. v \in State /\ Good(v) /\ Held(v)
  BY <1>2 DEF Invariant, Good
<1>5. ASSUME NEW i \in Items, TakeItem(hands, i) PROVE \E w : Leads(v, w)
  <2>1. PICK toSlot \in BOOLEAN, toBelt \in BOOLEAN :
            /\ i \notin v.all /\ v.processing[i] < MaxProcessing /\ Len(v.events) < MaxEvents
            /\ Becomes(Take(v, i, toSlot, toBelt))
    BY <1>3, <1>5 DEF TakeItem, Movable, Quiet, v
  <2> QED BY <1>2, <2>1, TakeStep DEF Leads
<1>6. ASSUME NEW i \in Items, DragToBag(hands, i) PROVE \E w : Leads(v, w)
  <2> DEFINE m == ItemMessage("item2ruck", i)
  <2>1. v.processing[i] < MaxProcessing /\ Len(v.events) < MaxEvents
        /\ Becomes(Send(Ruck(v, i), m))
    BY <1>3, <1>6 DEF DragToBag, Movable, Quiet, IntoBag, v
  <2>2. m \in Messages /\ m.type # "reject" /\ \A j \in Items : ~IsMove(m, j)
    BY DEF ItemMessage, Messages, IsMove
  <2> HIDE DEF m
  <2>3. Moved(v, Ruck(v, i), i, 0)
    BY <1>4, RuckMoves
  <2>4. Invariant(Send(Ruck(v, i), m)) /\ Releases(v, Send(Ruck(v, i), m))
    BY <1>2, <2>1, <2>2, <2>3, MoveAndSend
  <2> QED BY <2>1, <2>4 DEF Leads
<1>7. ASSUME NEW i \in Items, DragToBelt(hands, i) PROVE \E w : Leads(v, w)
  <2> DEFINE m == ItemMessage("item2belt", i)
  <2>1. v.processing[i] < MaxProcessing /\ Len(v.events) < MaxEvents
        /\ Becomes(Send(Belt(v, i), m))
    BY <1>3, <1>7 DEF DragToBelt, Movable, Quiet, OntoBelt, v
  <2>2. m \in Messages /\ m.type # "reject" /\ \A j \in Items \ {i} : ~IsMove(m, j)
    BY DEF ItemMessage, Messages, IsMove
  <2> HIDE DEF m
  <2>3. Moved(v, Belt(v, i), i, 1)
    BY <1>4, BeltMoves
  <2>4. Invariant(Send(Belt(v, i), m)) /\ Releases(v, Send(Belt(v, i), m))
    BY <1>2, <2>1, <2>2, <2>3, MoveAndSend
  <2> QED BY <2>1, <2>4 DEF Leads
<1>8. ASSUME NEW i \in Items, NEW s \in SlotIds, DragToSlot(hands, i, s)
      PROVE  \E w : Leads(v, w)
  <2>1. /\ i \in v.all /\ s \in Range(SlotsOf[i])
        /\ v.slots[s] \in (v.all \ {i}) \cup {NoItem}
        /\ v.processing[i] < MaxProcessing /\ Len(v.events) < MaxEvents
        /\ Becomes(IntoSlot(v, i, s))
    BY <1>3, <1>8 DEF DragToSlot, Movable, Quiet, v
  <2> QED BY <1>2, <2>1, IntoSlotStep DEF Leads
<1>9. ASSUME NEW s \in SlotIds \cup {NoSlot}, ActivateSlot(hands, s)
      PROVE  \E w : Leads(v, w)
  <2> DEFINE w == Activate(v, s)
  <2>1. Becomes(w)
    BY <1>9 DEF ActivateSlot, v
  <2>2. Turns(v, w)
    BY <1>4, ActivateTurns
  <2> HIDE DEF w
  <2>3. Invariant(w) /\ Releases(v, w)
    BY <1>2, <2>2, OnlyMarks DEF Turns, Keeps
  <2> QED BY <2>1, <2>3 DEF Leads
<1>10. ASSUME Update(hands) PROVE \E w : Leads(v, w)
  <2> DEFINE x == Switched(v)
             w == DropTasks(x)
  <2>1. Becomes(w)
    BY <1>10 DEF Update, v
  <2>2. Invariant(x) /\ x.slots = v.slots
    BY <1>2, SwitchedIs
  <2> HIDE DEF x
  <2>3. Invariant(w) /\ w.slots = x.slots
    <3>1. w.slots = x.slots
      <4>1. x \in State
        BY <2>2 DEF Invariant, Good
      <4> QED BY <4>1 DEF DropTasks, State
    <3> QED BY <2>2, <3>1, DropTasksStep
  <2> HIDE DEF w
  <2>4. Releases(v, w)
    BY <2>2, <2>3 DEF Releases
  <2> QED BY <2>1, <2>3, <2>4 DEF Leads
<1>11. ASSUME Receive(hands) PROVE \E w : Leads(v, w)
  <2> DEFINE m == Head(v.events)
             rest == [v EXCEPT !.events = Tail(@)]
  <2>1. v.events # <<>>
        /\ Becomes(CASE m.type = "item2slot" -> Slot(rest, m.item)
                     [] m.type = "item2belt" -> Belt(rest, m.item)
                     [] m.type = "item2ruck" -> Ruck(rest, m.item)
                     [] m.type = "reject"    -> DropItem(rest, m.item)
                     [] m.type = "activate"  -> Activate(rest, m.slot))
    <3>1. rest = [Current(hands) EXCEPT !.events = Tail(events)] /\ m = Head(events)
      BY <1>3 DEF v
    <3> QED BY <1>3, <1>11, <3>1 DEF Receive
  <2>2. Good(rest) /\ rest \in State /\ Held(rest) /\ rest.slots = v.slots /\ rest.active = v.active
        /\ m \in Messages
    BY <1>4, <2>1, RestIs DEF Good
  <2>3. \/ m.type \in {"item2slot", "item2belt", "item2ruck", "reject"} /\ m.item \in Items
        \/ m.type = "activate" /\ m.slot \in SlotIds
    BY <2>2 DEF Messages
  <2>4. CASE m.type = "item2slot"
    <3>1. Becomes(Slot(rest, m.item)) /\ m.item \in Items /\ IsMove(m, m.item)
      BY <2>1, <2>3, <2>4 DEF IsMove
    <3>2. Moved(rest, Slot(rest, m.item), m.item, 1)
      BY <2>2, <3>1, SlotMoves
    <3>3. Invariant(Slot(rest, m.item)) /\ Releases(v, Slot(rest, m.item))
      BY <1>2, <2>1, <3>1, <3>2, MovedByMessage
    <3> QED BY <3>1, <3>3 DEF Leads
  <2>5. CASE m.type = "item2belt"
    <3>1. Becomes(Belt(rest, m.item)) /\ m.item \in Items /\ IsMove(m, m.item)
      BY <2>1, <2>3, <2>5 DEF IsMove
    <3>2. Moved(rest, Belt(rest, m.item), m.item, 1)
      BY <2>2, <3>1, BeltMoves
    <3>3. Invariant(Belt(rest, m.item)) /\ Releases(v, Belt(rest, m.item))
      BY <1>2, <2>1, <3>1, <3>2, MovedByMessage
    <3> QED BY <3>1, <3>3 DEF Leads
  <2>6. CASE m.type = "item2ruck"
    <3>1. Becomes(Ruck(rest, m.item)) /\ m.item \in Items
      BY <2>1, <2>3, <2>6
    <3>2. Moved(rest, Ruck(rest, m.item), m.item, 0)
      BY <2>2, <3>1, RuckMoves
    <3>3. Invariant(Ruck(rest, m.item)) /\ Releases(v, Ruck(rest, m.item))
      BY <1>2, <2>1, <3>1, <3>2, MovedByMessage
    <3> QED BY <3>1, <3>3 DEF Leads
  <2>7. CASE m.type = "reject"
    <3>1. Becomes(DropItem(rest, m.item))
      BY <2>1, <2>7
    <3>2. Invariant(DropItem(rest, m.item)) /\ Releases(v, DropItem(rest, m.item))
      BY <1>2, <2>1, <2>7, DroppedByMessage
    <3> QED BY <3>1, <3>2 DEF Leads
  <2>8. CASE m.type = "activate"
    <3> DEFINE w == Activate(rest, m.slot)
    <3>1. Becomes(w) /\ m.slot \in SlotIds
      BY <2>1, <2>3, <2>8
    <3>2. Turns(rest, w)
      BY <2>2, <3>1, ActivateTurns
    <3> HIDE DEF w
    <3>3. Invariant(rest)
      BY <1>2, <2>1, RestInvariant
    <3>4. Invariant(w) /\ Releases(rest, w)
      BY <3>2, <3>3, OnlyMarks DEF Turns, Keeps
    <3>5. Releases(v, w)
      BY <2>2, <3>4 DEF Releases
    <3> QED BY <3>1, <3>4, <3>5 DEF Leads
  <2> QED BY <2>3, <2>4, <2>5, <2>6, <2>7, <2>8
<1> QED BY <1>1, <1>5, <1>6, <1>7, <1>8, <1>9, <1>10, <1>11

LEMMA ThrowAwayStep ==
  ASSUME IInv, NEW i \in Items, ThrowAway(i)
  PROVE  IInv' /\ UNCHANGED slots
<1> DEFINE v == Current("shown")
           x == Current("shown")'
<1>1. x = [all |-> all', ruck |-> ruck', belt |-> belt', slots |-> slots',
           place |-> place', chosen |-> chosen', dropManual |-> dropManual',
           processing |-> processing', active |-> active', next |-> next',
           events |-> events', hands |-> "shown"]
  BY DEF Current
<1>2. v \in State /\ Invariant(v)
  BY DEF IInv, Invariant, Good
<1>3. dropManual' = dropManual \cup {i}
      /\ UNCHANGED <<all, ruck, belt, slots, place, chosen, processing, active, next, events>>
  BY DEF ThrowAway
<1>4. /\ v.all = all /\ v.ruck = ruck /\ v.belt = belt /\ v.slots = slots
      /\ v.place = place /\ v.chosen = chosen /\ v.processing = processing
      /\ v.events = events /\ v.dropManual = dropManual /\ v.active = active /\ v.next = next
  BY DEF Current
<1> HIDE DEF v, x
<1>5. /\ x.all = v.all /\ x.ruck = v.ruck /\ x.belt = v.belt /\ x.slots = v.slots
      /\ x.place = v.place /\ x.chosen = v.chosen /\ x.processing = v.processing
      /\ x.events = v.events
  BY <1>1, <1>3, <1>4
<1>6. x \in State
  BY <1>1, <1>2, <1>3, <1>4 DEF State, HandStates
<1>7. Invariant(x)
  BY <1>2, <1>5, <1>6, HandsAside
<1>8. IInv' = Invariant(x)
  BY DEF IInv, x
<1> QED BY <1>3, <1>7, <1>8

LEMMA Initially == Init => IInv
<1> SUFFICES ASSUME Init PROVE IInv
  OBVIOUS
<1> USE DEF Init
<1> DEFINE v == Current("shown")
<1>1. /\ v = [all |-> {}, ruck |-> {}, belt |-> {}, slots |-> slots, place |-> place,
              chosen |-> chosen, dropManual |-> {}, processing |-> processing,
              active |-> NoSlot, next |-> NoSlot, events |-> <<>>, hands |-> "shown"]
  BY DEF Current
<1>2. /\ slots \in [SlotIds -> Items \cup {NoItem}]
      /\ place \in [Items -> Places]
      /\ processing \in [Items -> 0 .. CounterSize - 1]
      /\ <<>> \in Seq(Messages)
  BY InventoryAssumption DEF Places, InventoryAssumption
<1>3. /\ chosen \in [Items -> SlotIds \cup {NoSlot}]
      /\ \A i \in Items : chosen[i] \in Range(SlotsOf[i]) \cup {NoSlot}
  <2>1. ASSUME NEW i \in Items, SlotsOf[i] # <<>>
        PROVE  SlotsOf[i][1] \in SlotIds /\ SlotsOf[i][1] \in Range(SlotsOf[i])
    <3>1. SlotsOf[i] \in Seq(SlotIds)
      BY InventoryAssumption DEF InventoryAssumption
    <3>2. 1 \in DOMAIN SlotsOf[i]
      BY <2>1, <3>1
    <3> QED BY <3>1, <3>2 DEF Range
  <2> QED BY <2>1
<1> HIDE DEF v
<1>4. v \in State
  BY <1>1, <1>2, <1>3 DEF State, HandStates
<1>5. Meant(v) /\ Owned(v) /\ RejectedOnce(v)
  <2>1. DOMAIN v.events = {}
    BY <1>1
  <2> QED BY <1>1, <1>3, <2>1 DEF Meant, Owned, RejectedOnce
<1>6. Held(v)
  <2> SUFFICES ASSUME NEW i \in Items PROVE HeldAt(v, i)
    BY DEF Held
  <2>1. i # NoItem /\ v.place[i] = "undefined" /\ \A s \in SlotIds : v.slots[s] = NoItem
    BY <1>1, InventoryAssumption DEF InventoryAssumption
  <2> QED BY <1>1, <2>1 DEF HeldAt
<1>7. ASSUME NEW i \in Items PROVE CountedAt(v, i)
  <2>1. v.processing[i] = 1 /\ Uses(v, i) = 1
    BY <1>1 DEF Uses
  <2>2. Moves(v.events, i) = {}
    BY <1>1 DEF Moves
  <2>3. Charge(v, i) = 1
    <3>1. Cardinality(Moves(v.events, i)) = 0
      BY <2>2, FS_EmptySet
    <3>2. i \notin v.all
      BY <1>1
    <3> QED BY <2>1, <3>1, <3>2 DEF Charge
  <2> QED BY <2>1, <2>3, Bounds DEF CountedAt
<1> QED BY <1>4, <1>5, <1>6, <1>7 DEF IInv, Invariant, Good, Counted, v

LEMMA Inductive == IInv /\ [Next]_vars => IInv'
<1> SUFFICES ASSUME IInv, [Next]_vars PROVE IInv'
  OBVIOUS
<1>1. CASE Next
  BY <1>1, NextLeads, ThrowAwayStep, BecomesInvariant DEF Leads
<1>2. CASE UNCHANGED vars
  <2>1. Current("shown")' = Current("shown")
    BY <1>2 DEF vars, Current
  <2> QED BY <2>1 DEF IInv
<1> QED BY <1>1, <1>2

LEMMA Invariance == Spec => []IInv
<1> QED BY Initially, Inductive, PTL DEF Spec

-----------------------------------------------------------------------------
LEMMA Parts ==
  ASSUME IInv
  PROVE  TypeOK /\ HeldOnce /\ (NoWrap => EquippedProcessed)
<1> DEFINE v == Current("shown")
<1>1. /\ v.all = all /\ v.ruck = ruck /\ v.belt = belt /\ v.slots = slots
      /\ v.place = place /\ v.chosen = chosen /\ v.processing = processing
      /\ v.events = events /\ v.dropManual = dropManual /\ v.active = active /\ v.next = next
  BY DEF Current
<1>2. Invariant(v)
  BY DEF IInv
<1> HIDE DEF v
<1>3. v \in State /\ Meant(v) /\ Held(v) /\ Owned(v)
  BY <1>2 DEF Invariant, Good
<1>4. TypeOK
  BY <1>1, <1>3 DEF TypeOK, State, Meant
<1>5. HeldOnce
  BY <1>1, <1>3 DEF HeldOnce, Held, HeldAt
<1>6. ASSUME NoWrap, NEW i \in Items, i \notin ruck PROVE processing[i] > 0
  <2>1. processing[i] >= Uses(v, i) /\ processing[i] \in Nat /\ Worn(v, i) \in {0, 1}
        /\ Uses(v, i) = (IF i \in v.all THEN 0 ELSE 1) + Worn(v, i)
    BY <1>1, <1>2, <1>3, <1>6, CountersAreNaturals DEF Invariant, Counted, CountedAt
  <2>2. place[i] # "ruck" /\ place[i] \in Places
    BY <1>1, <1>3, <1>6 DEF Held, HeldAt, State
  <2>3. i \in v.all => Worn(v, i) = 1
    BY <1>1, <1>3, <2>2 DEF Owned, Worn, Places
  <2> QED BY <2>1, <2>3
<1> QED BY <1>4, <1>5, <1>6 DEF EquippedProcessed

(* Every variable keeps its type: an item is meant for one of its own slots  *)
(* or for none, and its counter stays a counter, whatever the order of the   *)
(* window's moves, their messages, takes and rejects.                        *)
THEOREM TypeCorrect == Spec => []TypeOK
<1>1. IInv => TypeOK
  BY Parts
<1> QED BY <1>1, Invariance, PTL

(* An item is in the one container its place names, and when that is a slot, *)
(* in the slot it is meant for: what Ruck, Belt and DropItem, which look     *)
(* into no other slot, rely on.  It holds between any two steps although the *)
(* window changes the slot an item is meant for before it moves the item.    *)
THEOREM Once == Spec => []HeldOnce
<1>1. IInv => HeldOnce
  BY Parts
<1> QED BY <1>1, Invariance, PTL

(* An item that is worn, on the belt or lying about is processed, as long as *)
(* the bounds of the model keep its counter from its largest value: then no  *)
(* order of moves, late messages, takes and rejects takes more from the      *)
(* counter than it added.                                                    *)
THEOREM Processed ==
  ASSUME NoWrap
  PROVE  Spec => []EquippedProcessed
<1>1. IInv => EquippedProcessed
  BY Parts
<1> QED BY <1>1, Invariance, PTL

(* Whenever the item in the hands leaves its slot, the next Update does not  *)
(* leave that slot active, also when the item is replaced in the same step.  *)
THEOREM HandsLetGo == Spec => LetsGo
<1> DEFINE A == active # NoSlot /\ slots[active] # NoItem /\ slots'[active] # slots[active]
                   => next' # active
<1>1. IInv /\ [Next]_vars => [A]_vars
  <2> SUFFICES ASSUME IInv, Next PROVE A
    OBVIOUS
  <2>1. CASE \E i \in Items : ThrowAway(i)
    BY <2>1, ThrowAwayStep
  <2>2. ASSUME NEW hands \in HandStates, NEW w, Leads(Current(hands), w) PROVE A
    <3>1. Current(hands).active = active /\ Current(hands).slots = slots
      BY DEF Current
    <3>2. slots' = w.slots /\ next' = w.next /\ Releases(Current(hands), w)
      BY <2>2 DEF Leads, Becomes
    <3> QED BY <3>1, <3>2 DEF Releases
  <2> QED BY <2>1, <2>2, NextLeads
<1> QED BY <1>1, Invariance, PTL DEF Spec, LetsGo
=============================================================================
