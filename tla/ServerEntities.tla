--------------------------- MODULE ServerEntities ---------------------------
(***************************************************************************)
(* The entity table of the game server (xrServer) together with the part  *)
(* of ALife that shares it: which ids are allocated, which entities are   *)
(* in the server's map, which objects the ALife registry owns, and the    *)
(* ownership forest that both of them keep (CSE_Abstract::ID_Parent and   *)
(* CSE_Abstract::children).                                               *)
(*                                                                         *)
(* An id of the generator is one element of Ids.  The class of the object *)
(* behind an id never matters except for three facts, which the constants *)
(* give per id: what it may own (MayHold), whether can_save() holds       *)
(* (Savable), and whether it is a box, container, monster or trader       *)
(* (Boxes): the classes whose add_online and add_offline carry their      *)
(* children along, and whose items game_sv_Single::OnCreate gives to      *)
(* ALife.                                                                 *)
(***************************************************************************)
EXTENDS Naturals, FiniteSets

CONSTANTS Ids,       \* the ids the generator hands out
          NoParent,  \* 0xffff, the ID_Parent of an independent object
          MayHold,   \* pairs <<holder, item>> the game's classes allow
          Savable,   \* ids of objects whose can_save() is true
          Boxes      \* ids of boxes, containers, monsters and traders

(* An id is a u16.                                                         *)
ASSUME IdsAssumption == NoParent \notin Ids /\ IsFiniteSet(Ids)

ASSUME ClassAssumption ==
    /\ MayHold \subseteq Ids \X Ids
    /\ Savable \subseteq Ids
    /\ Boxes \subseteq Ids

(* What remove_online relies on and nothing checks: a savable item has an  *)
(* owner that carries its children offline, and no owner above that one.   *)
Disciplined ==
    \A p, c \in Ids :
        <<p, c>> \in MayHold /\ c \in Savable
            => p \in Boxes /\ \A z \in Ids : <<z, p>> \notin MayHold

VARIABLES
    used,      \* ids taken from the id generator (m_tID_Generator)
    entities,  \* the keys of xrServer::entities
    objects,   \* the keys of CALifeObjectRegistry::m_objects
    online,    \* ids whose CSE_ALifeObject::m_bOnline is set
    parent,    \* CSE_Abstract::ID_Parent
    kids       \* CSE_Abstract::children, as a bag: how often a child is listed

vars == <<used, entities, objects, online, parent, kids>>

TypeOK ==
    /\ used \subseteq Ids
    /\ entities \subseteq Ids
    /\ objects \subseteq Ids
    /\ online \subseteq Ids
    /\ parent \in [Ids -> Ids \cup {NoParent}]
    /\ kids \in [Ids -> [Ids -> Nat]]

NoKids == [c \in Ids |-> 0]

Init ==
    /\ used = {}
    /\ entities = {}
    /\ objects = {}
    /\ online = {}
    /\ parent = [i \in Ids |-> NoParent]
    /\ kids = [i \in Ids |-> NoKids]

-----------------------------------------------------------------------------
Kids(p) == {c \in Ids : kids[p][c] > 0}

Closed(S) == \A x \in S : Kids(x) \subseteq S

(* What a recursive destruction of r walks through: the least set that     *)
(* holds r and the children of its members.                                *)
Subtree(r) == {x \in Ids : \A S \in SUBSET Ids : (r \in S /\ Closed(S)) => x \in S}

Link(p, c) ==
    /\ parent' = [parent EXCEPT ![c] = p]
    /\ kids' = [kids EXCEPT ![p][c] = @ + 1]

Unlinked_KeepsRoot(T, r, p, c) == IF p \in T THEN 0 ELSE kids[p][c]

(* The record of every member of T is gone or reset, and r, the top of T,  *)
(* is erased from the list of the parent it may have had.                  *)
Unlinked(T, r, p, c) ==
    IF p \in T THEN 0
    ELSE IF c = r /\ p = parent[r] /\ kids[p][c] > 0 THEN kids[p][c] - 1
    ELSE kids[p][c]

-----------------------------------------------------------------------------
(* game_sv_Single::OnCreate: an independent object is given to ALife when  *)
(* it can be saved, an owned one only if its owner is an ALife box,        *)
(* monster or trader.                                                      *)
TakenByALife(id, p) ==
    id \in Savable /\ (p = NoParent \/ p \in objects \cap Boxes)

(* A spawn request: PerformIDgen, insertion into the map, OnCreate and the *)
(* link to the parent.  A request whose parent is not in the map is        *)
(* dropped.                                                                *)
ProcessSpawn(id, p) ==
    /\ id \notin used
    /\ p # NoParent => p \in entities /\ <<p, id>> \in MayHold
    /\ used' = used \cup {id}
    /\ entities' = entities \cup {id}
    /\ online' = online \cup {id}
    /\ objects' = IF TakenByALife(id, p) THEN objects \cup {id} ELSE objects
    /\ IF p = NoParent THEN UNCHANGED <<parent, kids>> ELSE Link(p, id)

Ownable_IgnoresParent(e) == e \in entities

Ownable(e) == e \in entities /\ parent[e] = NoParent

(* GE_OWNERSHIP_TAKE, GE_TRANSFER_TAKE: an item that already has a parent  *)
(* is left alone.                                                          *)
ProcessOwnership(p, e) ==
    /\ p \in entities
    /\ Ownable(e)
    /\ <<p, e>> \in MayHold
    /\ Link(p, e)
    /\ UNCHANGED <<used, entities, objects, online>>

ProcessReject_NoEarlyReturn(p, e) ==
    /\ p \in entities
    /\ e \in entities
    /\ parent[e] \in {p, NoParent}
    /\ objects' = objects \cup ({e} \cap Savable)
    /\ parent' = [parent EXCEPT ![e] = NoParent]
    /\ kids' = [kids EXCEPT ![p][e] = @ - 1]
    /\ UNCHANGED <<used, entities, online>>

(* GE_OWNERSHIP_REJECT, GE_TRANSFER_REJECT.  OnDetach runs before the      *)
(* early return for an independent item: it hands an item ALife does not   *)
(* know to ALife.                                                          *)
ProcessReject(p, e) ==
    /\ p \in entities
    /\ e \in entities
    /\ parent[e] \in {p, NoParent}
    /\ objects' = objects \cup ({e} \cap Savable)
    /\ IF parent[e] = NoParent
       THEN UNCHANGED <<parent, kids>>
       ELSE /\ parent' = [parent EXCEPT ![e] = NoParent]
            /\ kids' = [kids EXCEPT ![p][e] = @ - 1]
    /\ UNCHANGED <<used, entities, online>>

(* The common end of a destruction of r and everything it owns.            *)
Forget(r) ==
    LET T == Subtree(r) IN
    /\ used' = used \ T
    /\ entities' = entities \ T
    /\ objects' = objects \ T
    /\ online' = online \ T
    /\ parent' = [i \in Ids |-> IF i \in T THEN NoParent ELSE parent[i]]
    /\ kids' = [p \in Ids |-> [c \in Ids |-> Unlinked(T, r, p, c)]]

(* GE_DESTROY: every descendant is rejected from its parent, released from *)
(* ALife and erased, then the object itself.                               *)
ProcessDestroy(r) == r \in entities /\ Forget(r)

-----------------------------------------------------------------------------
(* CALifeSimulatorBase::spawn_item with registration: an offline object,   *)
(* possibly inside an offline owner.                                       *)
SpawnItem(id, p) ==
    /\ id \notin used
    /\ id \in Savable
    /\ p # NoParent => p \in objects \ online /\ <<p, id>> \in MayHold
    /\ used' = used \cup {id}
    /\ objects' = objects \cup {id}
    /\ IF p = NoParent THEN UNCHANGED <<parent, kids>> ELSE Link(p, id)
    /\ UNCHANGED <<entities, online>>

(* CALifeSimulatorBase::release of an offline object and of its children.  *)
Release(r) == r \in objects \ online /\ Forget(r)

EntersMap_OnlyRoot(o) == {o}

(* add_online for the object, add_online_impl for the children of a box.   *)
EntersMap(o) == {o} \cup (IF o \in Boxes THEN Kids(o) ELSE {})

(* CALifeSwitchManager::add_online: the object and its children enter the  *)
(* server's map under the ids they already have.                           *)
AddOnline(o) ==
    /\ o \in objects \ online
    /\ parent[o] = NoParent
    /\ EntersMap(o) \subseteq objects
    /\ used' = used \cup EntersMap(o)
    /\ entities' = entities \cup EntersMap(o)
    /\ online' = online \cup EntersMap(o)
    /\ UNCHANGED <<objects, parent, kids>>

(* The children that come back: those of a box, without the non savable    *)
(* ones, which remove_online erases from the list it saves.                *)
SavedChildren(o) == IF o \in Boxes THEN Kids(o) \cap Savable ELSE {}

Reacquired_OnlyRoot(o) == {o}

(* The ids PerformIDgen takes again once Perform_destroy has freed them.   *)
Reacquired(o) == {o} \cup SavedChildren(o)

(* The list of o after Perform_destroy emptied it and add_offline_impl     *)
(* attached the saved children one by one.                                 *)
Reattached(o, c) == IF c \in SavedChildren(o) THEN 1 ELSE 0

(* CALifeSwitchManager::remove_online: Perform_destroy takes the object    *)
(* and everything below it out of the map and frees the ids, handing every *)
(* rejected savable item to ALife; then the id of the object and, in       *)
(* add_offline_impl, the ids of the saved children are taken again and the *)
(* children attached again.                                                *)
RemoveOnline(o) ==
    LET T == Subtree(o) IN
    /\ o \in objects \cap online
    /\ parent[o] = NoParent
    /\ entities' = entities \ T
    /\ used' = (used \ T) \cup Reacquired(o)
    /\ objects' = objects \cup ((T \ {o}) \cap Savable)
    /\ online' = (online \ ({o} \cup SavedChildren(o))) \ (T \ Savable)
    /\ parent' = [i \in Ids |-> IF i \in SavedChildren(o) THEN o
                                ELSE IF i \in T THEN NoParent ELSE parent[i]]
    /\ kids' = [p \in Ids |->
                   IF p = o THEN [c \in Ids |-> Reattached(o, c)]
                   ELSE IF p \in T THEN NoKids ELSE kids[p]]

-----------------------------------------------------------------------------
Next ==
    \/ \E id \in Ids, p \in Ids \cup {NoParent} : ProcessSpawn(id, p)
    \/ \E p, e \in Ids : ProcessOwnership(p, e)
    \/ \E p, e \in Ids : ProcessReject(p, e)
    \/ \E r \in Ids : ProcessDestroy(r)
    \/ \E id \in Ids, p \in Ids \cup {NoParent} : SpawnItem(id, p)
    \/ \E r \in Ids : Release(r)
    \/ \E o \in Ids : AddOnline(o)
    \/ \E o \in Ids : RemoveOnline(o)

Spec == Init /\ [][Next]_vars
-----------------------------------------------------------------------------
(* No object is listed twice by its owner ("Child is registered twice in   *)
(* the child list", CALifeSwitchManager::synchronize_location).  A second  *)
(* entry would also make the loop of Process_event_destroy endless.        *)
NoChildTwice == \A p, c \in Ids : kids[p][c] <= 1

(* xrServer::verify_entities, which debug builds run around every message: *)
(* in the map, ID_Parent and children describe the same forest, no link    *)
(* leaves the map, and no child is listed twice.                           *)
EntitiesVerified ==
    /\ NoChildTwice
    /\ \A e \in entities :
           /\ parent[e] # NoParent => parent[e] \in entities /\ e \in Kids(parent[e])
           /\ \A c \in Kids(e) : c \in entities /\ parent[c] = e

(* An id is allocated exactly while the server or ALife has an object      *)
(* under it: nobody keeps an id that the generator may hand out again, and *)
(* no id leaks.                                                            *)
IdsAccounted == used = entities \cup objects

(* "Object with the specified ID is already presented in the Object        *)
(* Registry!" (CALifeObjectRegistry::add): a new id is under no object     *)
(* ALife has.                                                              *)
NewIdUnknown == \A id \in Ids \ used : id \notin objects

(* An ALife object is marked online exactly while it is in the server's    *)
(* map, and an item is on the same side as its owner ("Parent online, item *)
(* offline...", CALifeSwitchManager::try_switch_online).                   *)
OnlineServed ==
    /\ objects \cap online = objects \cap entities
    /\ \A i \in objects : parent[i] \in objects => (i \in online <=> parent[i] \in online)

(* An object goes from one owner to another only by way of having none:    *)
(* a take never steals.                                                    *)
TakeNeverSteals ==
    [][\A e \in Ids : parent[e] # NoParent => parent'[e] \in {parent[e], NoParent}]_vars
=============================================================================
