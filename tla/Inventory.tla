----------------------------- MODULE Inventory ------------------------------
(* The inventory of the actor (xrGame/Inventory.cpp): the containers an     *)
(* item may be in, the slot in the actor's hands, and the counter that says *)
(* whether an item is processed every frame.  An item is moved by the       *)
(* inventory window, which moves it at once and then sends the message that *)
(* moves it again when it is back from the server; by the take and reject   *)
(* messages; and by the throwing away of an item, which the scheduled       *)
(* update of the actor turns into a reject.                                 *)
(*                                                                          *)
(* The operators work on a record of the variables, since the functions     *)
(* they model call each other.  What the weapon in the hands is doing is    *)
(* the weapon's affair and may be anything in any step: HandStates.         *)
(* Left out: blocked and persistent slots, grenades, which swap themselves  *)
(* for the next one, an outfit that changes the number of places on the     *)
(* belt, and what is done otherwise while a game is loaded.                 *)
EXTENDS Integers, Sequences, FiniteSets, SequencesExt

CONSTANTS
    Items,            \* the objects the actor may carry
    SlotIds,          \* the slots
    SlotsOf,          \* SlotsOf[i]: the slots item i may be put in, in order
    OnBelt,           \* the items with Belt()
    BeltSlotsCount,   \* how many items the belt takes
    InvisibleSlots,   \* slots with m_bVisible = false
    NoSlot,           \* NO_ACTIVE_SLOT
    NoItem,           \* no item in a slot
    CounterSize,      \* Props.bActiveCounter counts modulo this
    MaxProcessing,    \* bound: an item is not moved while its counter is this
    MaxEvents         \* bound: no input while so many messages are under way

VARIABLES
    all,              \* m_all
    ruck,             \* m_ruck, its order left out
    belt,             \* m_belt, its order left out
    slots,            \* m_slots[s].m_pIItem
    place,            \* m_eItemPlace of an item
    chosen,           \* GetSlot() of an item: the slot it is meant for
    dropManual,       \* items with GetDropManual()
    processing,       \* Props.bActiveCounter of an item
    active,           \* m_iActiveSlot
    next,             \* m_iNextActiveSlot
    events            \* messages under way to the client, first sent first

vars == <<all, ruck, belt, slots, place, chosen, dropManual, processing,
          active, next, events>>

InventoryAssumption ==
    /\ IsFiniteSet(Items)
    /\ OnBelt \subseteq Items
    /\ InvisibleSlots \subseteq SlotIds
    /\ NoSlot \notin SlotIds
    /\ NoItem \notin Items
    /\ SlotsOf \in [Items -> Seq(SlotIds)]
    /\ BeltSlotsCount \in Nat
    /\ CounterSize \in Nat \ {0, 1}
    /\ MaxProcessing \in Nat
    /\ MaxEvents \in Nat

ASSUME InventoryAssumption

Places == {"undefined", "slot", "belt", "ruck"}

HandStates == {"hidden", "shown", "hiding"}

Messages ==
    [type : {"item2slot", "item2belt", "item2ruck", "reject"}, item : Items]
        \cup [type : {"activate"}, slot : SlotIds]

-----------------------------------------------------------------------------
(* The variables as a record, and the step to the record a function left.   *)

Current(hands) ==
    [all |-> all, ruck |-> ruck, belt |-> belt, slots |-> slots,
     place |-> place, chosen |-> chosen, dropManual |-> dropManual,
     processing |-> processing, active |-> active, next |-> next,
     events |-> events, hands |-> hands]

Becomes(left) ==
    \E v \in {left} :
        /\ all' = v.all
        /\ ruck' = v.ruck
        /\ belt' = v.belt
        /\ slots' = v.slots
        /\ place' = v.place
        /\ chosen' = v.chosen
        /\ dropManual' = v.dropManual
        /\ processing' = v.processing
        /\ active' = v.active
        /\ next' = v.next
        /\ events' = v.events

Send(v, m) == [v EXCEPT !.events = Append(@, m)]

ItemMessage(type, i) == [type |-> type, item |-> i]

processing_activate(v, i) ==
    [v EXCEPT !.processing[i] = (@ + 1) % CounterSize]

processing_deactivate(v, i) ==
    [v EXCEPT !.processing[i] = (@ + CounterSize - 1) % CounterSize]

-----------------------------------------------------------------------------
(* The slot in the actor's hands: Activate only says which slot is to be    *)
(* next, and has the weapon in the hands put away; Update makes the change. *)

Occupied(v, s) == s # NoSlot /\ v.slots[s] # NoItem

Activate(v, s) ==
    LET refused == \/ s \in InvisibleSlots
                   \/ v.active = s
                   \/ v.next = s /\ Occupied(v, v.active) /\ v.hands = "hiding"
                   \/ s # NoSlot /\ ~Occupied(v, s)
    IN  IF refused THEN v ELSE [v EXCEPT !.next = s]

-----------------------------------------------------------------------------
(* The containers.  Each function asks where the item is in its own way:    *)
(* Slot searches all slots, Ruck and Belt look only into the slot the item  *)
(* is meant for.                                                            *)

InSlot(v, i) == Occupied(v, v.chosen[i]) /\ v.slots[v.chosen[i]] = i

CanPutInSlot(v, i) == v.chosen[i] # NoSlot /\ v.slots[v.chosen[i]] = NoItem

CanPutInBelt(v, i) ==
    /\ i \notin v.belt
    /\ i \in OnBelt
    /\ Cardinality(v.belt) < BeltSlotsCount

CanPutInRuck(v, i) == i \notin v.ruck

OutOfSlot_StillInHands(v, s) == [v EXCEPT !.slots[s] = NoItem]

(* The item leaves the slot s; the hands let go of it first.                *)
OutOfSlot(v, s) ==
    LET free == IF v.active = s THEN Activate(v, NoSlot) ELSE v
    IN  [free EXCEPT !.slots[s] = NoItem]

SlotsWith(v, i) == {s \in SlotIds : v.slots[s] = i}

Slot_LooksOnlyWhereMeant(v, i) ==
    LET in == [v EXCEPT !.slots[v.chosen[i]] = i,
                        !.ruck = @ \ {i},
                        !.belt = @ \ {i}]
    IN  IF CanPutInSlot(v, i)
        THEN processing_activate([in EXCEPT !.place[i] = "slot"], i)
        ELSE v

Slot(v, i) ==
    LET s   == v.chosen[i]
        out == IF SlotsWith(v, i) = {} THEN v
               ELSE OutOfSlot(v, CHOOSE t \in SlotsWith(v, i) : TRUE)
        in  == [out EXCEPT !.slots[s] = i,
                           !.ruck = @ \ {i},
                           !.belt = @ \ {i}]
        drawn == IF \/ in.active = s
                    \/ in.active = NoSlot /\ in.next = NoSlot
                 THEN Activate(in, s)
                 ELSE in
    IN  IF CanPutInSlot(v, i)
        THEN processing_activate([drawn EXCEPT !.place[i] = "slot"], i)
        ELSE IF InSlot(v, i)
        THEN Activate(v, s)
        ELSE v

Belt(v, i) ==
    LET out == IF InSlot(v, i)
               THEN processing_deactivate(OutOfSlot(v, v.chosen[i]), i)
               ELSE [v EXCEPT !.ruck = @ \ {i}]
    IN  IF CanPutInBelt(v, i)
        THEN processing_activate([out EXCEPT !.belt = @ \cup {i},
                                             !.place[i] = "belt"], i)
        ELSE v

Ruck_AlwaysDeactivates(v, i) ==
    LET out == IF InSlot(v, i)
               THEN OutOfSlot(v, v.chosen[i])
               ELSE [v EXCEPT !.belt = @ \ {i}]
    IN  IF CanPutInRuck(v, i)
        THEN processing_deactivate([out EXCEPT !.ruck = @ \cup {i},
                                               !.place[i] = "ruck"], i)
        ELSE v

Ruck(v, i) ==
    LET out == IF InSlot(v, i)
               THEN processing_deactivate(OutOfSlot(v, v.chosen[i]), i)
               ELSE [v EXCEPT !.belt = @ \ {i}]
    IN  IF CanPutInRuck(v, i)
        THEN [out EXCEPT !.ruck = @ \cup {i}, !.place[i] = "ruck"]
        ELSE v

(* Take with strict_placement: the item goes where its place says, and if   *)
(* it has none, into its slot, on the belt or into the ruck.  toSlot and    *)
(* toBelt: what is asked of the item (RuckDefault, ruck_flag_preferred) and *)
(* of its owner (m_tmp_next_item_slot of 0) admits the slot, the belt.      *)
(* Left out: an m_tmp_next_item_slot that names a slot.                     *)
Take(v, i, toSlot, toBelt) ==
    LET held == [v EXCEPT !.all = @ \cup {i}, !.dropManual = @ \ {i}]
        put  == CASE v.place[i] = "belt" ->
                       IF CanPutInBelt(held, i) THEN Belt(held, i)
                                                ELSE Ruck(held, i)
                  [] v.place[i] = "ruck" -> Ruck(held, i)
                  [] v.place[i] = "slot" -> Slot(held, i)
                  [] v.place[i] = "undefined" ->
                       IF toSlot /\ CanPutInSlot(held, i) THEN Slot(held, i)
                       ELSE IF toBelt /\ CanPutInBelt(held, i) THEN Belt(held, i)
                       ELSE Ruck(held, i)
    IN  processing_deactivate(put, i)

(* DropItem, and OnH_B_Independent as the item is made nobody's.            *)
DropItem(v, i) ==
    LET woken == processing_activate(v, i)
        out   == CASE v.place[i] = "belt" ->
                        processing_deactivate([woken EXCEPT !.belt = @ \ {i}], i)
                   [] v.place[i] = "ruck" -> [woken EXCEPT !.ruck = @ \ {i}]
                   [] v.place[i] = "slot" ->
                        processing_deactivate(OutOfSlot(woken, v.chosen[i]), i)
    IN  [out EXCEPT !.all = @ \ {i}, !.place[i] = "undefined"]

-----------------------------------------------------------------------------
(* Update: the change of slots once nothing is in the hands, and the items  *)
(* the player threw away, which the server is told of now.                  *)

Switched(v) ==
    IF Occupied(v, v.active) /\ v.hands # "hidden"
    THEN v
    ELSE [v EXCEPT !.active = v.next]

(* UpdateDropTasks.  The server takes no second reject of an item: it is    *)
(* nobody's there since the first one.  A marked item in a container that   *)
(* is nobody's here either (rejected, and put back by a message that was    *)
(* under way) loses its mark and nothing is sent; the code would look for   *)
(* the owner the message names (H_Parent(), Inventory.cpp:756).             *)
Rejected(v, i) == Contains(v.events, ItemMessage("reject", i))

DropTasks_NotRuck(v) ==
    LET thrown == v.dropManual \cap (v.belt \cup Range(v.slots))
        sent   == SetToSeq({i \in thrown \cap v.all : ~Rejected(v, i)})
    IN  [v EXCEPT !.dropManual = @ \ thrown,
                  !.events = @ \o [k \in DOMAIN sent |->
                                      ItemMessage("reject", sent[k])]]

DropTasks(v) ==
    LET held   == v.ruck \cup v.belt \cup Range(v.slots)
        thrown == v.dropManual \cap held
        sent   == SetToSeq({i \in thrown \cap v.all : ~Rejected(v, i)})
    IN  [v EXCEPT !.dropManual = @ \ thrown,
                  !.events = @ \o [k \in DOMAIN sent |->
                                      ItemMessage("reject", sent[k])]]

-----------------------------------------------------------------------------
(* The inventory window: what it does it does at once, and sends the        *)
(* message that does it once more.                                          *)

IntoSlot_ByIndex(v, i, s) ==
    LET k == CHOOSE n \in DOMAIN SlotsOf[i] : SlotsOf[i][n] = s
    IN  Send(Slot([v EXCEPT !.chosen[i] = k], i), ItemMessage("item2slot", i))

IntoSlot(v, i, s) ==
    LET meant == [v EXCEPT !.chosen[i] = s]
        other == meant.slots[s]
        freed == IF CanPutInSlot(meant, i) THEN meant
                 ELSE Send(Ruck(meant, other), ItemMessage("item2ruck", other))
    IN  Send(Send(Slot(freed, i), ItemMessage("item2slot", i)),
             [type |-> "activate", slot |-> s])

IntoBag(v, i) == Send(Ruck(v, i), ItemMessage("item2ruck", i))

OntoBelt(v, i) == Send(Belt(v, i), ItemMessage("item2belt", i))

-----------------------------------------------------------------------------
(* The actor carries nothing, every item lies about and is processed.       *)
Init ==
    /\ all = {}
    /\ ruck = {}
    /\ belt = {}
    /\ slots = [s \in SlotIds |-> NoItem]
    /\ place = [i \in Items |-> "undefined"]
    /\ chosen = [i \in Items |-> IF SlotsOf[i] = <<>> THEN NoSlot
                                  ELSE SlotsOf[i][1]]
    /\ dropManual = {}
    /\ processing = [i \in Items |-> 1]
    /\ active = NoSlot
    /\ next = NoSlot
    /\ events = <<>>

Quiet == Len(events) < MaxEvents

Movable(i) == Quiet /\ processing[i] < MaxProcessing

(* The actor is told of an item it takes.                                   *)
TakeItem(hands, i) ==
    /\ Movable(i)
    /\ i \notin all
    /\ \E toSlot, toBelt \in BOOLEAN : Becomes(Take(Current(hands), i, toSlot, toBelt))

(* The player drags an item onto one of its slots; one that is in the way   *)
(* goes to the bag.                                                         *)
DragToSlot(hands, i, s) ==
    /\ Movable(i)
    /\ i \in all
    /\ s \in Range(SlotsOf[i])
    /\ slots[s] \in (all \ {i}) \cup {NoItem}
    /\ Becomes(IntoSlot(Current(hands), i, s))

DragToBag(hands, i) ==
    /\ Movable(i)
    /\ i \in all
    /\ CanPutInRuck(Current(hands), i)
    /\ Becomes(IntoBag(Current(hands), i))

DragToBelt(hands, i) ==
    /\ Movable(i)
    /\ i \in all
    /\ CanPutInBelt(Current(hands), i)
    /\ Becomes(OntoBelt(Current(hands), i))

(* The player throws an item away: only a mark, the next Update acts on it. *)
ThrowAway(i) ==
    /\ Quiet
    /\ i \in all
    /\ dropManual' = dropManual \cup {i}
    /\ UNCHANGED <<all, ruck, belt, slots, place, chosen, processing, active,
                   next, events>>

(* The key of a slot, which asks for none if that slot is in the hands, a   *)
(* script, or the window as it closes.                                      *)
ActivateSlot(hands, s) ==
    /\ Quiet
    /\ Becomes(Activate(Current(hands), s))

(* The scheduled update of the actor.                                       *)
Update(hands) == Becomes(DropTasks(Switched(Current(hands))))

(* A message is back from the server.                                       *)
Receive(hands) ==
    /\ events # <<>>
    /\ LET m    == Head(events)
           rest == [Current(hands) EXCEPT !.events = Tail(events)]
       IN  Becomes(CASE m.type = "item2slot" -> Slot(rest, m.item)
                     [] m.type = "item2belt" -> Belt(rest, m.item)
                     [] m.type = "item2ruck" -> Ruck(rest, m.item)
                     [] m.type = "reject"    -> DropItem(rest, m.item)
                     [] m.type = "activate"  -> Activate(rest, m.slot))

Next ==
    \E hands \in HandStates :
        \/ \E i \in Items :
              \/ TakeItem(hands, i)
              \/ DragToBag(hands, i)
              \/ DragToBelt(hands, i)
              \/ ThrowAway(i)
              \/ \E s \in SlotIds : DragToSlot(hands, i, s)
        \/ \E s \in SlotIds \cup {NoSlot} : ActivateSlot(hands, s)
        \/ Update(hands)
        \/ Receive(hands)

(* The actor is updated and messages come back as long as the game runs.    *)
Spec ==
    /\ Init
    /\ [][Next]_vars
    /\ WF_vars(\E hands \in HandStates : Update(hands))
    /\ WF_vars(\E hands \in HandStates : Receive(hands))

-----------------------------------------------------------------------------
(* The type of every variable.                                              *)
TypeOK ==
    /\ all \subseteq Items
    /\ ruck \subseteq Items
    /\ belt \subseteq Items
    /\ slots \in [SlotIds -> Items \cup {NoItem}]
    /\ place \in [Items -> Places]
    /\ chosen \in [Items -> SlotIds \cup {NoSlot}]
    /\ \A i \in Items : chosen[i] \in Range(SlotsOf[i]) \cup {NoSlot}
    /\ dropManual \subseteq Items
    /\ processing \in [Items -> 0..CounterSize - 1]
    /\ {active, next} \subseteq SlotIds \cup {NoSlot}
    /\ events \in Seq(Messages)

(* An item is in one container only, the one its place names, and when that *)
(* is a slot it is the slot the item is meant for: what DropItem asserts    *)
(* (InBelt, InRuck, InSlot, Inventory.cpp:263-274), also for an item that a *)
(* late message put back after it was dropped.  Ruck, Belt and DropItem     *)
(* look for the item in the slot it is meant for, which the window changes  *)
(* before it moves the item (uiinventorywnd2.cpp:226); only Slot looks      *)
(* through all of them.                                                     *)
HeldOnce ==
    \A i \in Items :
        /\ i \in ruck <=> place[i] = "ruck"
        /\ i \in belt <=> place[i] = "belt"
        /\ \A s \in SlotIds :
               slots[s] = i <=> place[i] = "slot" /\ s = chosen[i]

(* An item outside the ruck, worn, on the belt or lying about, is processed *)
(* every frame: whatever the order in which the window's moves, their       *)
(* messages, takes and rejects add to the counter and take from it, it is   *)
(* not down to zero for an item that is in use.                             *)
EquippedProcessed ==
    \A i \in Items : i \notin ruck => processing[i] > 0

(* When the item in the hands leaves its slot, the actor is made to let go  *)
(* of the slot: the next Update does not leave it active.                   *)
LetsGo ==
    [][ active # NoSlot /\ slots[active] # NoItem /\ slots'[active] # slots[active]
          => next' # active ]_vars

(* An item the player threw away leaves the inventory, wherever it is moved *)
(* between the mark, the reject and its return (UpdateDropTasks).           *)
ThrownAwayLeaves ==
    \A i \in Items : i \in dropManual /\ i \in all ~> i \notin all

(* The counter of an item never passes the largest value its eight bits     *)
(* hold, "Invalid sequence of processing enable/disable calls: overflow"    *)
(* (xr_3da/xr_object.cpp:72).                                               *)
NoOverflow ==
    [][ \A i \in Items :
          ~(processing[i] = CounterSize - 1 /\ processing'[i] = 0) ]_vars
=============================================================================
