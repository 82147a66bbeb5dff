------------------------ MODULE ServerEntitiesProofs ------------------------
(***************************************************************************)
(* What ServerEntities guarantees for every set of ids and every choice of *)
(* classes.  Type correctness needs no hypothesis; the invariants need     *)
(* Disciplined, without which MCNestedContainers refutes IdsAccounted.     *)
(* Then that it guarantees the same as part of a GameSession, and what the *)
(* client of the session may rely on: the messages under way are a history *)
(* that leads from what the client has to what the server has.             *)
(***************************************************************************)
EXTENDS GameSession, WellFoundedInduction, FiniteSetTheorems, TLAPS

(* The two records of the forest say the same.                             *)
Linked ==
    \A p, c \in Ids : kids[p][c] <= 1 /\ (kids[p][c] > 0 <=> parent[c] = p)

(* What the server knows has an allocated id, and so has an object with an *)
(* owner; the classes allow it to have that owner.                         *)
Allocated ==
    /\ entities \subseteq used
    /\ \A c \in Ids : parent[c] # NoParent =>
          <<parent[c], c>> \in MayHold /\ c \in used

(* The part of the invariant that needs no hypothesis.                     *)
Forest == TypeOK /\ Linked /\ Allocated

(* No link crosses the border of the map or leads out of the used ids.     *)
LinksInside ==
    \A c \in Ids : parent[c] # NoParent =>
        parent[c] \in used /\ (c \in entities <=> parent[c] \in entities)

(* The part that needs Disciplined.                                        *)
Accounted ==
    /\ LinksInside
    /\ IdsAccounted
    /\ objects \subseteq Savable
    /\ online = entities
-----------------------------------------------------------------------------
(* An object hangs below itself.                                           *)
LEMMA SubtreeRoot ==
    ASSUME NEW r \in Ids
    PROVE  r \in Subtree(r)
BY DEF Subtree

(* So does what an object below it owns.                                   *)
LEMMA SubtreeClosed ==
    ASSUME NEW r \in Ids
    PROVE  Closed(Subtree(r))
<1> SUFFICES ASSUME NEW x \in Subtree(r), NEW c \in Kids(x)
             PROVE  c \in Subtree(r)
  BY DEF Closed
<1>1. c \in Ids
  BY DEF Kids
<1>2. ASSUME NEW S \in SUBSET Ids, r \in S, Closed(S)
      PROVE  c \in S
  <2>1. x \in S
    BY <1>2 DEF Subtree
  <2> QED
    BY <2>1, <1>2 DEF Closed
<1> QED
  BY <1>1, <1>2 DEF Subtree

(* Below the root, every member of a subtree is the child of a member.     *)
LEMMA SubtreeStep ==
    ASSUME NEW r \in Ids, NEW x \in Subtree(r), x # r
    PROVE  \E p \in Subtree(r) : x \in Kids(p)
<1> DEFINE S == {y \in Subtree(r) : y = r \/ \E p \in Subtree(r) : y \in Kids(p)}
<1>1. S \in SUBSET Ids
  BY DEF Subtree
<1>2. r \in S
  BY SubtreeRoot
<1>3. Closed(S)
  BY SubtreeClosed DEF Closed
<1>4. x \in S
  BY <1>1, <1>2, <1>3 DEF Subtree
<1> QED
  BY <1>4

(* No link crosses the border of a subtree except the one above its root.  *)
LEMMA SubtreeBorder ==
    ASSUME Forest, NEW r \in Ids
    PROVE  /\ \A c \in Ids : parent[c] \in Subtree(r) => c \in Subtree(r)
           /\ \A c \in Subtree(r) : c # r => parent[c] \in Subtree(r)
<1>1. \A p, c \in Ids : c \in Kids(p) <=> parent[c] = p
  BY DEF Forest, Linked, Kids
<1>2. Subtree(r) \subseteq Ids
  BY DEF Subtree
<1>3. ASSUME NEW c \in Ids, parent[c] \in Subtree(r)
      PROVE  c \in Subtree(r)
  BY <1>1, <1>2, <1>3, SubtreeClosed DEF Closed
<1>4. ASSUME NEW c \in Subtree(r), c # r
      PROVE  parent[c] \in Subtree(r)
  BY <1>1, <1>2, <1>4, SubtreeStep
<1> QED
  BY <1>3, <1>4

(* Under Disciplined, what is savable below an object that has no owner is *)
(* exactly what remove_online saves.                                       *)
LEMMA SavedIsSavable ==
    ASSUME Disciplined, Forest, NEW o \in Ids, parent[o] = NoParent
    PROVE  SavedChildren(o) = (Subtree(o) \ {o}) \cap Savable
<1>1. \A p, c \in Ids : c \in Kids(p) <=> parent[c] = p
  BY DEF Forest, Linked, Kids
<1>2. Subtree(o) \subseteq Ids
  BY DEF Subtree
<1>3. ASSUME NEW x \in SavedChildren(o)
      PROVE  x \in (Subtree(o) \ {o}) \cap Savable
  <2>1. x \in Kids(o) /\ x \in Savable
    BY <1>3 DEF SavedChildren
  <2>2. x # o
    BY <2>1, <1>1, IdsAssumption
  <2> QED
    BY <2>1, <2>2, SubtreeRoot, SubtreeClosed DEF Closed
<1>4. ASSUME NEW x \in Subtree(o), x # o, x \in Savable
      PROVE  x \in SavedChildren(o)
  <2>1. PICK p \in Subtree(o) : x \in Kids(p)
    BY <1>4, SubtreeStep
  <2>2. p \in Ids /\ x \in Ids /\ parent[x] = p /\ <<p, x>> \in MayHold
    BY <2>1, <1>1, <1>2, IdsAssumption DEF Forest, Allocated, Kids
  <2>3. p \in Boxes /\ \A z \in Ids : <<z, p>> \notin MayHold
    BY <2>2, <1>4 DEF Disciplined
  <2>4. p = o
    <3> SUFFICES ASSUME p # o PROVE FALSE
      OBVIOUS
    <3>1. PICK z \in Subtree(o) : p \in Kids(z)
      BY <2>1, SubtreeStep
    <3>2. <<z, p>> \in MayHold
      BY <3>1, <1>1, <1>2, <2>2, IdsAssumption DEF Forest, Allocated
    <3> QED
      BY <3>1, <3>2, <2>3, <1>2
  <2> QED
    BY <2>1, <2>3, <2>4, <1>4 DEF SavedChildren
<1> QED
  BY <1>3, <1>4
-----------------------------------------------------------------------------
(* The first half of the induction: the forest, action by action.          *)
LEMMA LinkForest ==
    ASSUME Forest, NEW p \in Ids, NEW c \in Ids, parent[c] = NoParent, Link(p, c),
           <<p, c>> \in MayHold, used \subseteq used', used' \subseteq Ids, c \in used',
           entities' \subseteq used', objects' \subseteq Ids, online' \subseteq Ids
    PROVE  Forest'
<1>1. kids[p][c] = 0
  BY IdsAssumption DEF Forest, TypeOK, Linked
<1>2. kids' = [kids EXCEPT ![p] = [kids[p] EXCEPT ![c] = 1]]
  BY <1>1 DEF Link
<1>3. parent' = [parent EXCEPT ![c] = p]
  BY DEF Link
<1>4. TypeOK'
  BY <1>2, <1>3 DEF Forest, TypeOK
<1>5. Linked'
  BY <1>1, <1>2, <1>3, IdsAssumption DEF Forest, TypeOK, Linked
<1>6. Allocated'
  BY <1>3 DEF Forest, TypeOK, Allocated
<1> QED
  BY <1>4, <1>5, <1>6 DEF Forest

(* Forgetting a subtree.                                                   *)
LEMMA ForgetForest ==
    ASSUME Forest, NEW r \in Ids, Forget(r)
    PROVE  Forest'
<1> DEFINE T == Subtree(r)
<1>1. T \subseteq Ids /\ r \in T
  BY SubtreeRoot DEF Subtree
<1>2. /\ \A c \in Ids : parent[c] \in T => c \in T
      /\ \A c \in T : c # r => parent[c] \in T
  BY SubtreeBorder
<1> HIDE DEF T
<1>3. /\ parent' = [i \in Ids |-> IF i \in T THEN NoParent ELSE parent[i]]
      /\ kids' = [p \in Ids |-> [c \in Ids |-> Unlinked(T, r, p, c)]]
      /\ used' = used \ T
      /\ entities' = entities \ T
      /\ objects' \subseteq objects
      /\ online' \subseteq online
  BY DEF Forget, T
<1>4. \A p, c \in Ids : Unlinked(T, r, p, c) =
                          IF p \in T \/ c \in T THEN 0 ELSE kids[p][c]
  <2> SUFFICES ASSUME NEW p \in Ids, NEW c \in Ids, p \notin T
               PROVE  Unlinked(T, r, p, c) = IF c \in T THEN 0 ELSE kids[p][c]
    BY DEF Unlinked
  <2>1. kids[p][c] \in Nat /\ kids[p][c] <= 1 /\ (kids[p][c] > 0 <=> parent[c] = p)
    BY DEF Forest, TypeOK, Linked
  <2>2. CASE c = r
    BY <1>1, <2>1, <2>2 DEF Unlinked
  <2>3. CASE c \in T /\ c # r
    BY <1>2, <2>1, <2>3 DEF Unlinked
  <2>4. CASE c \notin T
    BY <1>1, <2>4 DEF Unlinked
  <2> QED
    BY <2>2, <2>3, <2>4
<1>5. TypeOK'
  BY <1>3, <1>4 DEF Forest, TypeOK
<1>6. Linked'
  BY <1>2, <1>3, <1>4, IdsAssumption DEF Forest, TypeOK, Linked
<1>7. Allocated'
  BY <1>1, <1>2, <1>3 DEF Forest, TypeOK, Allocated
<1> QED
  BY <1>5, <1>6, <1>7 DEF Forest

(* An owner loses an item.                                                 *)
LEMMA RejectForest ==
    ASSUME Forest, NEW p \in Ids, NEW e \in Ids, ProcessReject(p, e)
    PROVE  Forest'
<1>1. CASE parent[e] = NoParent
  BY <1>1 DEF Forest, TypeOK, Linked, Allocated, ProcessReject
<1>2. CASE parent[e] # NoParent
  <2>1. parent[e] = p
    BY <1>2 DEF ProcessReject
  <2>2. kids[p][e] = 1
    BY <2>1 DEF Forest, TypeOK, Linked
  <2>3. /\ parent' = [parent EXCEPT ![e] = NoParent]
        /\ kids' = [kids EXCEPT ![p] = [kids[p] EXCEPT ![e] = 0]]
        /\ objects' = objects \cup ({e} \cap Savable)
        /\ UNCHANGED <<used, entities, online>>
    BY <1>2, <2>2 DEF ProcessReject
  <2>4. TypeOK'
    BY <2>3 DEF Forest, TypeOK
  <2>5. Linked'
    BY <2>1, <2>2, <2>3, IdsAssumption DEF Forest, TypeOK, Linked
  <2>6. Allocated'
    BY <2>3 DEF Forest, TypeOK, Allocated
  <2> QED
    BY <2>4, <2>5, <2>6 DEF Forest
<1> QED
  BY <1>1, <1>2

(* An object enters the map with what it owns.                             *)
LEMMA AddOnlineForest ==
    ASSUME Forest, NEW o \in Ids, AddOnline(o)
    PROVE  Forest'
<1>1. EntersMap(o) \subseteq Ids
  BY DEF EntersMap, Kids
<1> QED
  BY <1>1 DEF AddOnline, Forest, TypeOK, Linked, Allocated

(* An object leaves the map; what is savable stays with ALife.             *)
LEMMA RemoveOnlineForest ==
    ASSUME Forest, NEW o \in Ids, RemoveOnline(o)
    PROVE  Forest'
<1> DEFINE T == Subtree(o)
           S == SavedChildren(o)
<1>1. T \subseteq Ids /\ o \in T /\ parent[o] = NoParent
  BY SubtreeRoot DEF Subtree, RemoveOnline
<1>2. /\ \A c \in Ids : parent[c] \in T => c \in T
      /\ \A c \in T : c # o => parent[c] \in T
  BY SubtreeBorder
<1>3. S \subseteq T \ {o} /\ \A c \in S : parent[c] = o
  <2> SUFFICES ASSUME NEW c \in S
               PROVE  c \in T \ {o} /\ parent[c] = o
    OBVIOUS
  <2>1. c \in Ids /\ parent[c] = o
    BY DEF SavedChildren, Kids, Forest, Linked
  <2> QED
    BY <1>1, <1>2, <2>1, IdsAssumption
<1>4. /\ used' = (used \ T) \cup {o} \cup S
      /\ entities' = entities \ T
      /\ objects' \subseteq objects \cup T
      /\ online' \subseteq online
      /\ parent' = [i \in Ids |-> IF i \in S THEN o
                                 ELSE IF i \in T THEN NoParent ELSE parent[i]]
      /\ kids' = [p \in Ids |->
                      IF p = o THEN [c \in Ids |-> IF c \in S THEN 1 ELSE 0]
                      ELSE IF p \in T THEN NoKids ELSE kids[p]]
  BY DEF RemoveOnline, Reacquired, Reattached
<1> HIDE DEF T, S
<1>5. TypeOK'
  BY <1>1, <1>3, <1>4 DEF Forest, TypeOK, NoKids
<1>6. Linked'
  <2> SUFFICES ASSUME NEW p \in Ids, NEW c \in Ids
               PROVE  kids'[p][c] <= 1 /\ (kids'[p][c] > 0 <=> parent'[c] = p)
    BY DEF Linked
  <2>1. kids[p][c] \in Nat /\ kids[p][c] <= 1 /\ (kids[p][c] > 0 <=> parent[c] = p)
    BY DEF Forest, TypeOK, Linked
  <2>2. CASE p = o
    BY <1>1, <1>2, <1>3, <1>4, <2>2, IdsAssumption
  <2>3. CASE p # o /\ p \in T
    BY <1>1, <1>2, <1>3, <1>4, <2>3, IdsAssumption DEF NoKids
  <2>4. CASE p \notin T
    BY <1>1, <1>2, <1>3, <1>4, <2>1, <2>4, IdsAssumption
  <2> QED
    BY <2>2, <2>3, <2>4
<1>7. Allocated'
  BY <1>1, <1>2, <1>3, <1>4, IdsAssumption DEF Forest, TypeOK, Allocated
<1> QED
  BY <1>5, <1>6, <1>7 DEF Forest

(* Forest is an invariant whatever the classes allow.                      *)
LEMMA ForestStep == Forest /\ [Next]_vars => Forest'
<1> SUFFICES ASSUME Forest, [Next]_vars
             PROVE  Forest'
  OBVIOUS
<1>1. ASSUME NEW id \in Ids, NEW p \in Ids \cup {NoParent}, ProcessSpawn(id, p)
      PROVE  Forest'
  <2>1. CASE p = NoParent
    BY <1>1, <2>1 DEF ProcessSpawn, Forest, TypeOK, Linked, Allocated
  <2>2. CASE p # NoParent
    BY <1>1, <2>2, LinkForest DEF ProcessSpawn, Forest, TypeOK, Allocated
  <2> QED
    BY <2>1, <2>2
<1>2. ASSUME NEW p \in Ids, NEW e \in Ids, ProcessOwnership(p, e)
      PROVE  Forest'
  BY <1>2, LinkForest DEF ProcessOwnership, Ownable, Forest, TypeOK, Allocated
<1>3. ASSUME NEW id \in Ids, NEW p \in Ids \cup {NoParent}, SpawnItem(id, p)
      PROVE  Forest'
  <2>1. CASE p = NoParent
    BY <1>3, <2>1 DEF SpawnItem, Forest, TypeOK, Linked, Allocated
  <2>2. CASE p # NoParent
    BY <1>3, <2>2, LinkForest DEF SpawnItem, Forest, TypeOK, Allocated
  <2> QED
    BY <2>1, <2>2
<1>4. CASE UNCHANGED vars
  BY <1>4 DEF vars, Forest, TypeOK, Linked, Allocated
<1> QED
  BY <1>1, <1>2, <1>3, <1>4, RejectForest, ForgetForest, AddOnlineForest,
     RemoveOnlineForest DEF Next, ProcessDestroy, Release

(* The forest holds in every reachable state.                              *)
LEMMA ForestInvariant == Spec => []Forest
<1>1. Init => Forest
  BY IdsAssumption DEF Init, Forest, TypeOK, Linked, Allocated, NoKids
<1> QED
  BY <1>1, ForestStep, PTL DEF Spec
-----------------------------------------------------------------------------
(* The second half of the induction, action by action.                     *)
LEMMA FreshUnlinked ==
    ASSUME Forest, Accounted, NEW id \in Ids, id \notin used
    PROVE  parent[id] = NoParent /\ \A c \in Ids : parent[c] # id
BY IdsAssumption DEF Forest, Allocated, Accounted, LinksInside

(* A spawn takes a free id.                                                *)
LEMMA SpawnAccounted ==
    ASSUME Forest, Accounted, NEW id \in Ids, NEW p \in Ids \cup {NoParent},
           ProcessSpawn(id, p)
    PROVE  Accounted'
<1>0. id \notin used
  BY DEF ProcessSpawn
<1>1. parent[id] = NoParent /\ \A c \in Ids : parent[c] # id
  BY <1>0, FreshUnlinked
<1>2. parent' = [parent EXCEPT ![id] = p]
  BY <1>1 DEF ProcessSpawn, Link, Forest, TypeOK
<1>3. LinksInside'
  BY <1>1, <1>2 DEF ProcessSpawn, Forest, TypeOK, Allocated, Accounted, LinksInside
<1>4. objects' \subseteq objects \cup ({id} \cap Savable) /\ objects \subseteq objects'
  BY DEF ProcessSpawn, TakenByALife
<1> QED
  BY <1>3, <1>4 DEF ProcessSpawn, Accounted, IdsAccounted

(* A take links what is on the map.                                        *)
LEMMA OwnershipAccounted ==
    ASSUME Forest, Accounted, NEW p \in Ids, NEW e \in Ids, ProcessOwnership(p, e)
    PROVE  Accounted'
BY DEF ProcessOwnership, Ownable, Link, Forest, TypeOK, Allocated, Accounted,
       LinksInside, IdsAccounted

(* A rejection removes a link.                                             *)
LEMMA RejectAccounted ==
    ASSUME Forest, Accounted, NEW p \in Ids, NEW e \in Ids, ProcessReject(p, e)
    PROVE  Accounted'
<1>1. parent' \in {parent, [parent EXCEPT ![e] = NoParent]}
  BY DEF ProcessReject
<1>2. LinksInside'
  BY <1>1 DEF ProcessReject, Forest, TypeOK, Accounted, LinksInside
<1> QED
  BY <1>2 DEF ProcessReject, Forest, Allocated, Accounted, IdsAccounted

(* A subtree goes with its ids.                                            *)
LEMMA ForgetAccounted ==
    ASSUME Forest, Accounted, NEW r \in Ids, Forget(r)
    PROVE  Accounted'
<1> DEFINE T == Subtree(r)
<1>1. /\ \A c \in Ids : parent[c] \in T => c \in T
  BY SubtreeBorder
<1>2. /\ parent' = [i \in Ids |-> IF i \in T THEN NoParent ELSE parent[i]]
      /\ used' = used \ T
      /\ entities' = entities \ T
      /\ objects' = objects \ T
      /\ online' = online \ T
  BY DEF Forget
<1> HIDE DEF T
<1>3. LinksInside'
  BY <1>1, <1>2 DEF Accounted, LinksInside
<1> QED
  BY <1>2, <1>3 DEF Accounted, IdsAccounted

(* ALife's new item is off the map, as its owner is.                       *)
LEMMA SpawnItemAccounted ==
    ASSUME Forest, Accounted, NEW id \in Ids, NEW p \in Ids \cup {NoParent},
           SpawnItem(id, p)
    PROVE  Accounted'
<1>0. id \notin used
  BY DEF SpawnItem
<1>1. parent[id] = NoParent /\ \A c \in Ids : parent[c] # id
  BY <1>0, FreshUnlinked
<1>2. parent' = [parent EXCEPT ![id] = p]
  BY <1>1 DEF SpawnItem, Link, Forest, TypeOK
<1>3. LinksInside'
  BY <1>1, <1>2 DEF SpawnItem, Forest, TypeOK, Allocated, Accounted, LinksInside,
                    IdsAccounted
<1> QED
  BY <1>3 DEF SpawnItem, Accounted, IdsAccounted

(* Disciplined: all that hangs below an object enters the map with it.     *)
LEMMA AddOnlineAccounted ==
    ASSUME Disciplined, Forest, Accounted, NEW o \in Ids, AddOnline(o)
    PROVE  Accounted'
<1>1. \A p, c \in Ids : c \in Kids(p) <=> parent[c] = p
  BY DEF Forest, Linked, Kids
<1>2. o \in objects /\ o \notin entities /\ parent[o] = NoParent
  BY DEF AddOnline, Accounted
<1>3. ASSUME NEW c \in Ids, parent[c] # NoParent, c \notin entities
      PROVE  /\ c \in Savable
             /\ parent[c] \in Boxes
             /\ parent[parent[c]] = NoParent
  <2>1. c \in Savable /\ parent[c] \in Ids /\ <<parent[c], c>> \in MayHold
    BY <1>3 DEF Forest, TypeOK, Allocated, Accounted, IdsAccounted
  <2>2. parent[c] \in Boxes /\ \A z \in Ids : <<z, parent[c]>> \notin MayHold
    BY <2>1 DEF Disciplined
  <2> QED
    BY <2>1, <2>2 DEF Forest, TypeOK, Allocated
<1>4. ASSUME NEW c \in Ids, parent[c] # NoParent
      PROVE  c \in EntersMap(o) <=> parent[c] = o
  <2>1. c # o
    BY <1>2, <1>4
  <2>2. CASE parent[c] = o
    <3>1. c \notin entities
      BY <1>2, <1>4, <2>2 DEF Accounted, LinksInside
    <3> QED
      BY <1>1, <1>3, <1>4, <2>2, <3>1 DEF EntersMap
  <2> QED
    BY <1>1, <2>1, <2>2 DEF EntersMap
<1>5. LinksInside'
  <2> SUFFICES ASSUME NEW c \in Ids, parent[c] # NoParent
               PROVE  parent[c] \in used' /\ (c \in entities' <=> parent[c] \in entities')
    BY DEF AddOnline, LinksInside
  <2>1. parent[c] \in used /\ (c \in entities <=> parent[c] \in entities)
    BY DEF Accounted, LinksInside
  <2>2. CASE parent[c] = o
    BY <1>4, <2>2 DEF AddOnline, EntersMap
  <2>3. CASE c \in entities
    BY <2>1, <2>3 DEF AddOnline
  <2>4. CASE parent[c] # o /\ c \notin entities
    <3>1. parent[parent[c]] = NoParent
      BY <1>3, <2>4
    <3>2. parent[c] \notin EntersMap(o)
      BY <1>1, <2>4, <3>1, IdsAssumption DEF EntersMap, Kids
    <3> QED
      BY <1>4, <2>1, <2>4, <3>2 DEF AddOnline
  <2> QED
    BY <2>2, <2>3, <2>4
<1> QED
  BY <1>5 DEF AddOnline, Accounted, IdsAccounted

(* Disciplined: all that is savable below an object stays ALife's.         *)
LEMMA RemoveOnlineAccounted ==
    ASSUME Disciplined, Forest, Accounted, NEW o \in Ids, RemoveOnline(o)
    PROVE  Accounted'
<1> DEFINE T == Subtree(o)
           S == SavedChildren(o)
<1>1. T \subseteq Ids /\ o \in T /\ parent[o] = NoParent /\ o \in objects
  BY SubtreeRoot DEF Subtree, RemoveOnline
<1>2. /\ \A c \in Ids : parent[c] \in T => c \in T
      /\ S = (T \ {o}) \cap Savable
  BY <1>1, SubtreeBorder, SavedIsSavable
<1>3. /\ used' = (used \ T) \cup {o} \cup S
      /\ entities' = entities \ T
      /\ objects' = objects \cup ((T \ {o}) \cap Savable)
      /\ online' = (online \ ({o} \cup S)) \ (T \ Savable)
      /\ parent' = [i \in Ids |-> IF i \in S THEN o
                                 ELSE IF i \in T THEN NoParent ELSE parent[i]]
  BY DEF RemoveOnline, Reacquired
<1> HIDE DEF T, S
<1>4. LinksInside'
  BY <1>1, <1>2, <1>3 DEF Accounted, LinksInside
<1>5. IdsAccounted'
  BY <1>1, <1>2, <1>3 DEF Accounted, IdsAccounted
<1>6. online' = entities' /\ objects' \subseteq Savable
  BY <1>1, <1>2, <1>3 DEF Accounted
<1> QED
  BY <1>4, <1>5, <1>6 DEF Accounted

(* Every step keeps the second half.                                       *)
LEMMA AccountedStep ==
    ASSUME Disciplined, Forest, Accounted, [Next]_vars
    PROVE  Accounted'
<1>1. CASE UNCHANGED vars
  BY <1>1 DEF vars, Accounted, LinksInside, IdsAccounted
<1> QED
  BY <1>1, SpawnAccounted, OwnershipAccounted, RejectAccounted, ForgetAccounted,
     SpawnItemAccounted, AddOnlineAccounted, RemoveOnlineAccounted
     DEF Next, ProcessDestroy, Release

(* The second half holds in every reachable state.                         *)
LEMMA AccountedInvariant == Disciplined => (Spec => []Accounted)
<1> SUFFICES ASSUME Disciplined
             PROVE  Spec => []Accounted
  OBVIOUS
<1>1. Init => Accounted
  BY DEF Init, Accounted, LinksInside, IdsAccounted
<1>2. Forest /\ Accounted /\ [Next]_vars => Accounted'
  BY AccountedStep
<1> QED
  BY <1>1, <1>2, ForestInvariant, PTL DEF Spec
-----------------------------------------------------------------------------
(* Every reachable state is well typed, and in particular the children     *)
(* lists never count below zero, whatever the classes allow.               *)
THEOREM TypeCorrect == Spec => []TypeOK
BY ForestInvariant, PTL DEF Forest

(* No message of the server and no switch of ALife lists a child twice.    *)
THEOREM ChildListedOnce == Spec => []NoChildTwice
<1>1. Forest => NoChildTwice
  BY DEF Forest, Linked, NoChildTwice
<1> QED
  BY <1>1, ForestInvariant, PTL

(* An owned object is never taken away by another owner.                   *)
THEOREM NoTheft == Spec => TakeNeverSteals
<1>1. Forest /\ [Next]_vars =>
        [\A e \in Ids : parent[e] # NoParent => parent'[e] \in {parent[e], NoParent}]_vars
  <2> SUFFICES ASSUME Forest, Next, NEW e \in Ids, parent[e] # NoParent
               PROVE  parent'[e] \in {parent[e], NoParent}
    OBVIOUS
  <2>1. ASSUME NEW id \in Ids, NEW p \in Ids \cup {NoParent},
               ProcessSpawn(id, p) \/ SpawnItem(id, p)
        PROVE  parent'[e] = parent[e]
    BY <2>1 DEF ProcessSpawn, SpawnItem, Link, Forest, TypeOK, Allocated
  <2>2. ASSUME NEW p \in Ids, NEW i \in Ids, ProcessOwnership(p, i)
        PROVE  parent'[e] = parent[e]
    BY <2>2 DEF ProcessOwnership, Ownable, Link, Forest, TypeOK
  <2>3. ASSUME NEW p \in Ids, NEW i \in Ids, ProcessReject(p, i)
        PROVE  parent'[e] \in {parent[e], NoParent}
    BY <2>3 DEF ProcessReject, Forest, TypeOK
  <2>4. ASSUME NEW r \in Ids, Forget(r)
        PROVE  parent'[e] \in {parent[e], NoParent}
    BY <2>4 DEF Forget
  <2>5. ASSUME NEW o \in Ids, RemoveOnline(o)
        PROVE  parent'[e] \in {parent[e], NoParent}
    <3>1. e \in SavedChildren(o) => parent[e] = o
      BY <2>5 DEF SavedChildren, Kids, Forest, Linked
    <3> QED
      BY <2>5, <3>1 DEF RemoveOnline
  <2> QED
    BY <2>1, <2>2, <2>3, <2>4, <2>5 DEF Next, ProcessDestroy, Release, AddOnline
<1> QED
  BY <1>1, ForestInvariant, PTL DEF Spec, TakeNeverSteals

(* The links of the server's map are those verify_entities expects.        *)
THEOREM MapVerified == Disciplined => (Spec => []EntitiesVerified)
<1> SUFFICES ASSUME Disciplined
             PROVE  Spec => []EntitiesVerified
  OBVIOUS
<1>1. Forest /\ Accounted => EntitiesVerified
  <2>1. ASSUME Forest, Accounted, NEW e \in entities
        PROVE  /\ parent[e] # NoParent => parent[e] \in entities /\ e \in Kids(parent[e])
               /\ \A c \in Kids(e) : c \in entities /\ parent[c] = e
    BY <2>1, IdsAssumption DEF Forest, TypeOK, Linked, Accounted, LinksInside, Kids
  <2>2. Forest => NoChildTwice
    BY DEF Forest, Linked, NoChildTwice
  <2> QED
    BY <2>1, <2>2 DEF EntitiesVerified
<1> QED
  BY <1>1, ForestInvariant, AccountedInvariant, PTL

(* An id is allocated exactly while an entity or an ALife object has it.   *)
THEOREM NoIdLeaks == Disciplined => (Spec => []IdsAccounted)
BY AccountedInvariant, PTL DEF Accounted

(* ALife's online flag and the server's map agree, owners with items.      *)
THEOREM OnlineIsServed == Disciplined => (Spec => []OnlineServed)
<1> SUFFICES ASSUME Disciplined
             PROVE  Spec => []OnlineServed
  OBVIOUS
<1>1. Forest /\ Accounted => OnlineServed
  BY IdsAssumption DEF Forest, TypeOK, Accounted, LinksInside, OnlineServed
<1> QED
  BY <1>1, ForestInvariant, AccountedInvariant, PTL
-----------------------------------------------------------------------------
(* The session.                                                            *)

(* What a client or its stalkers refuse goes through the server's handler. *)
LEMMA RefusalServed ==
    ASSUME Forest, NEW p, NEW e, RejectAtServer(p, e)
    PROVE  [Next]_vars
BY DEF RejectAtServer, Forest, TypeOK, Next

(* So does what the client is given.                                       *)
LEMMA GivingServed ==
    ASSUME Forest, NEW p, NEW e, NEW holders,
           GivenTo(p, e, holders) \/ GivingFails(p, e, holders)
    PROVE  [Next]_vars
<1>1. CASE UNCHANGED vars
  BY <1>1
<1>2. CASE RejectAtServer(p, e)
  BY <1>2, RefusalServed
<1> QED
  BY <1>1, <1>2 DEF GivenTo, GivingFails, Fail

(* Every step of the session is a step of the server or none.              *)
LEMMA SessionStep == Forest /\ [SessionNext]_sessionVars => [Next]_vars
<1> SUFFICES ASSUME Forest, [SessionNext]_sessionVars
             PROVE  [Next]_vars
  OBVIOUS
<1>1. CASE GameCode
  <2>1. ASSUME NEW id \in Ids, NEW p \in Ids \cup {NoParent}, ServerSpawn(id, p)
        PROVE  Next
    BY <2>1 DEF ServerSpawn, Next
  <2>2. ASSUME NEW p \in Ids, NEW e \in Ids, RequestTake(p, e)
        PROVE  [Next]_vars
    BY <2>2 DEF RequestTake, ServerTake, Fail, Next
  <2>3. ASSUME NEW p \in Ids, NEW e \in Ids, RequestReject(p, e)
        PROVE  [Next]_vars
    BY <2>3 DEF RequestReject, ServerReject, Fail, Next
  <2>4. ASSUME NEW r \in Ids, ServerDestroy(r)
        PROVE  Next
    BY <2>4 DEF ServerDestroy, Next
  <2> QED
    BY <1>1, <2>1, <2>2, <2>3, <2>4 DEF GameCode
<1>2. CASE ALife
  BY <1>2 DEF ALife, SwitchOnline, SwitchOffline, ALifeOffline, Next
<1>3. CASE ClientReceive \/ SpawnSkipped \/ HandleReject \/ HandleDestroy \/ EndFrame
  BY <1>3 DEF ClientReceive, SpawnSkipped, HandleReject, HandleDestroy, EndFrame, Fail
<1>4. CASE HandleSpawn
  <2> DEFINE id == Incoming.id
             p == Incoming.owner
             holders == HoldersWithout(Flushed(id))
  <2>1. \/ GivenTo(p, id, holders) \/ GivingFails(p, id, holders)
        \/ UNCHANGED vars
    BY <1>4 DEF HandleSpawn, Fail
  <2> QED
    BY <2>1, GivingServed
<1>5. CASE HandleTake
  <2> DEFINE e == Incoming.id
             p == Incoming.owner
  <2>1. \/ GivenTo(p, e, holder) \/ GivingFails(p, e, holder)
        \/ UNCHANGED vars
    BY <1>5 DEF HandleTake, Fail
  <2> QED
    BY <2>1, GivingServed
<1>6. CASE UNCHANGED sessionVars
  BY <1>6 DEF sessionVars
<1> QED
  BY <1>1, <1>2, <1>3, <1>4, <1>5, <1>6 DEF SessionNext, Frame, Drain

(* The session uses the server by its handlers only: what the client asks  *)
(* for and refuses, by a view that lags behind, what game code does in the *)
(* middle of a drain and what ALife switches meanwhile are steps of        *)
(* ServerEntities.                                                         *)
THEOREM SessionServed == SessionSpec => Spec
<1>1. SessionInit => Init /\ Forest
  BY IdsAssumption DEF SessionInit, Init, Forest, TypeOK, Linked, Allocated, NoKids
<1>2. Forest /\ [SessionNext]_sessionVars => [Next]_vars /\ Forest'
  BY SessionStep, ForestStep
<1> QED
  BY <1>1, <1>2, PTL DEF SessionSpec, Spec

(* So whatever the client asks for or refuses, the server's map stays the  *)
(* forest of verify_entities, no id leaks or is given out twice, ALife's   *)
(* online flag is true to the map, and no item is stolen.                  *)
THEOREM SessionVerified ==
    Disciplined =>
        (SessionSpec => [](EntitiesVerified /\ IdsAccounted /\ OnlineServed) /\ TakeNeverSteals)
BY SessionServed, MapVerified, NoIdLeaks, OnlineIsServed, NoTheft, PTL
-----------------------------------------------------------------------------
(* What a message finds at the object it is about, and what it leaves: no  *)
(* owner known for {}, otherwise the only member of the set.               *)
Before(m) ==
    IF m.type = "spawn" THEN {} ELSE IF m.type = "reject" THEN {m.owner} ELSE {NoParent}

After(m) ==
    IF m.type \in {"spawn", "take"} THEN {m.owner}
    ELSE IF m.type = "reject" THEN {NoParent} ELSE {}

(* A table of objects: {} for one that is not there, else {its owner}.     *)
TableOf == [Ids -> SUBSET (Ids \cup {NoParent})]

(* No table has an item without its owner.                                 *)
OwnersThere(v) == \A e, p \in Ids : v[e] = {p} => v[p] # {}

(* V is the history Q tells of: a table before each of its messages and    *)
(* one after the last.                                                     *)
Views(V, Q) ==
    /\ V \in [1 .. Len(Q) + 1 -> TableOf]
    /\ \A k \in 1 .. Len(Q) + 1 : OwnersThere(V[k])
    /\ \A k \in 1 .. Len(Q) :
           /\ V[k][Q[k].id] = Before(Q[k])
           /\ V[k + 1] = [V[k] EXCEPT ![Q[k].id] = After(Q[k])]

(* m is under way.                                                         *)
Awaits(Q, m) == \E k \in 1 .. Len(Q) : Q[k] = m

(* The destruction of e is under way.                                      *)
DestructionAwaited(Q, e) == \E k \in 1 .. Len(Q) : Q[k].type = "destroy" /\ Q[k].id = e

(* What the client has of e, alive and held as ho says, agrees with the    *)
(* first table v, or the messages that explain the difference wait.        *)
FollowedAt(v, Q, al, ho, e) ==
    /\ e \in al /\ ho[e] # NoParent => v[e] = {ho[e]}
    /\ e \notin al /\ v[e] # {} => DestructionAwaited(Q, e)
    /\ e \in al => \A p \in Ids : v[e] = {p} /\ ho[e] # p => Awaits(Q, Rejected(p, e))

Followed(v, Q, al, ho) == \A e \in Ids : FollowedAt(v, Q, al, ho, e)

(* What is destroyed is not there again in any table that follows.         *)
Buried(V, Q, dy) ==
    /\ \A k \in 1 .. Len(Q) : Q[k].type = "destroy" =>
          \A l \in k + 1 .. Len(Q) + 1 : V[l][Q[k].id] = {}
    /\ \A c \in dy : \A l \in 1 .. Len(Q) + 1 : V[l][c] = {}

(* V leads from what the client has to sv, what the server has. Only while *)
(* ids rest does what the client has determine the first table.            *)
SyncedBy(V, Q, sv, al, dy, ho, reuse) ==
    /\ Views(V, Q)
    /\ V[Len(Q) + 1] = sv
    /\ \A e \in al : V[1][e] # {}
    /\ ~reuse => Followed(V[1], Q, al, ho) /\ Buried(V, Q, dy)

Synced(Q, sv, al, dy, ho, reuse) == \E V : SyncedBy(V, Q, sv, al, dy, ho, reuse)
-----------------------------------------------------------------------------
(* What a message has in its fields.                                       *)
LEMMA MessageFields ==
    ASSUME NEW m \in Message
    PROVE  /\ m.id \in Ids /\ m.owner \in Ids \cup {NoParent}
           /\ m.type \in {"spawn", "take", "reject", "destroy"}
           /\ m = [type |-> m.type, id |-> m.id, owner |-> m.owner]
           /\ Before(m) \in SUBSET (Ids \cup {NoParent})
           /\ After(m) \in SUBSET (Ids \cup {NoParent})
BY DEF Message, Before, After

(* What the server broadcasts are messages.                                *)
LEMMA AreMessages ==
    ASSUME NEW e \in Ids, NEW p \in Ids \cup {NoParent}
    PROVE  {Spawned(e, p), Taken(p, e), Rejected(p, e), Destroyed(e)} \subseteq Message
BY DEF Message, Spawned, Taken, Rejected, Destroyed

(* The order of the natural numbers.                                         *)
Less == {p \in Nat \X Nat : p[1] < p[2]}

(* A set of natural numbers that is not empty has a least member.            *)
LEMMA Least ==
  ASSUME NEW T \in SUBSET Nat, T # {}
  PROVE  \E n \in T : \A m \in T : n <= m
<1>1. IsWellFoundedOn(Less, Nat)
  BY NatLessThanWellFounded DEF Less, OpToRel
<1>2. PICK x \in T : \A y \in T : ~ (<<y, x>> \in Less)
  BY <1>1, WFMin
<1>3. ASSUME NEW y \in T PROVE x <= y
  <2>1. <<y, x>> \notin Less
    BY <1>2
  <2>2. y \in Nat /\ x \in Nat
    OBVIOUS
  <2>3. ~(y < x)
    BY <2>1, <2>2 DEF Less
  <2> QED BY <2>2, <2>3
<1> QED BY <1>3

(* An item that is not with p any more at the end is told to be rejected.  *)
LEMMA RejectionAwaited ==
    ASSUME NEW V, NEW Q \in Seq(Message), Views(V, Q), NEW e \in Ids, NEW p \in Ids,
           V[1][e] = {p}, V[Len(Q) + 1][e] # {p}
    PROVE  Awaits(Q, Rejected(p, e))
<1> DEFINE T == {k \in 1 .. Len(Q) + 1 : V[k][e] # {p}}
<1>0. Len(Q) \in Nat
  OBVIOUS
<1>1. T \in SUBSET Nat /\ Len(Q) + 1 \in T
  BY <1>0
<1> HIDE DEF T
<1>2. PICK n \in T : \A m \in T : n <= m
  BY <1>1, Least
<1> DEFINE k == n - 1
<1>3. n \in 1 .. Len(Q) + 1 /\ V[n][e] # {p} /\ n # 1
  BY <1>2 DEF T
<1>4. k \in 1 .. Len(Q) /\ n = k + 1 /\ k \in 1 .. Len(Q) + 1
  BY <1>0, <1>3
<1> HIDE DEF k
<1>5. V[k][e] = {p}
  <2>1. ~(n <= k)
    BY <1>4
  <2> QED BY <2>1, <1>2, <1>4 DEF T
<1>6. /\ V[k][Q[k].id] = Before(Q[k])
      /\ V[n] = [V[k] EXCEPT ![Q[k].id] = After(Q[k])]
      /\ V[k] \in TableOf
  BY <1>4, <1>0 DEF Views
<1>7. Q[k] \in Message
  BY <1>4
<1>8. Q[k].id = e
  BY <1>6, <1>5, <1>3, <1>7, MessageFields DEF TableOf
<1>9. Q[k].type = "reject" /\ Q[k].owner = p
  <2>1. Before(Q[k]) = {p}
    BY <1>8, <1>6, <1>5
  <2> QED BY <2>1, IdsAssumption DEF Before
<1> QED
  BY <1>4, <1>7, <1>8, <1>9, MessageFields DEF Awaits, Rejected

(* Two histories of which one ends where the other begins are one.         *)
LEMMA ViewsJoined ==
    ASSUME NEW V, NEW Q \in Seq(Message), Views(V, Q),
           NEW U, NEW m \in Seq(Message), Views(U, m), U[1] = V[Len(Q) + 1]
    PROVE  \E W : /\ Views(W, Q \o m)
                  /\ \A k \in 1 .. Len(Q) + 1 : W[k] = V[k]
                  /\ \A k \in 1 .. Len(m) + 1 : W[Len(Q) + k] = U[k]
<1> DEFINE q == Len(Q)
           n == Len(m)
           R == Q \o m
           W == [k \in 1 .. q + n + 1 |-> IF k <= q + 1 THEN V[k] ELSE U[k - q]]
<1>1. /\ q \in Nat /\ n \in Nat /\ Len(R) = q + n
      /\ \A k \in 1 .. q : R[k] = Q[k]
      /\ \A k \in 1 .. n : R[q + k] = m[k]
  OBVIOUS
<1>2. \A k \in 1 .. q + 1 : W[k] = V[k]
  BY <1>1
<1>3. \A k \in 1 .. n + 1 : W[q + k] = U[k]
  <2> SUFFICES ASSUME NEW k \in 1 .. n + 1 PROVE W[q + k] = U[k]
    OBVIOUS
  <2>1. CASE k = 1
    BY <1>1, <2>1
  <2>2. CASE k # 1
    <3>1. q + k \in 1 .. q + n + 1 /\ ~(q + k <= q + 1) /\ (q + k) - q = k
      BY <1>1, <2>2
    <3> QED BY <3>1
  <2> QED BY <2>1, <2>2
<1>4. W \in [1 .. q + n + 1 -> TableOf]
  <2>1. \A k \in 1 .. q + n + 1 : ~(k <= q + 1) => k - q \in 1 .. n + 1
    BY <1>1
  <2> QED BY <2>1, <1>1 DEF Views
<1>5. DOMAIN W = 1 .. q + n + 1
  OBVIOUS
<1> HIDE DEF W, R
<1>6. \A k \in 1 .. q + n + 1 : k \in 1 .. q + 1 \/ \E j \in 1 .. n + 1 : k = q + j
  <2> SUFFICES ASSUME NEW k \in 1 .. q + n + 1, k \notin 1 .. q + 1
               PROVE  \E j \in 1 .. n + 1 : k = q + j
    OBVIOUS
  <2>1. k - q \in 1 .. n + 1 /\ k = q + (k - q)
    BY <1>1
  <2> QED BY <2>1
<1>7. \A k \in 1 .. q + n + 1 : OwnersThere(W[k])
  BY <1>1, <1>2, <1>3, <1>6 DEF Views
<1>8. ASSUME NEW k \in 1 .. q + n
      PROVE  /\ W[k][R[k].id] = Before(R[k])
             /\ W[k + 1] = [W[k] EXCEPT ![R[k].id] = After(R[k])]
  <2>1. CASE k \in 1 .. q
    <3>1. k \in 1 .. q + 1 /\ k + 1 \in 1 .. q + 1
      BY <1>1, <2>1
    <3>2. W[k] = V[k] /\ W[k + 1] = V[k + 1] /\ R[k] = Q[k]
      BY <1>1, <1>2, <2>1, <3>1
    <3> QED BY <3>2, <2>1 DEF Views
  <2>2. CASE k \notin 1 .. q
    <3> DEFINE j == k - q
    <3>1. j \in 1 .. n /\ k = q + j /\ k + 1 = q + (j + 1) /\ j + 1 \in 1 .. n + 1 /\ j \in 1 .. n + 1
      BY <1>1, <2>2
    <3> HIDE DEF j
    <3>2. W[k] = U[j] /\ W[k + 1] = U[j + 1] /\ R[k] = m[j]
      BY <1>1, <1>3, <3>1
    <3> QED BY <3>1, <3>2 DEF Views
  <2> QED BY <2>1, <2>2
<1>9. Views(W, R)
  BY <1>1, <1>4, <1>7, <1>8 DEF Views
<1> QED
  BY <1>9, <1>2, <1>3 DEF R

(* The server says more: the client's account stays true.                  *)
LEMMA SyncedWithMore ==
    ASSUME NEW Q \in Seq(Message), NEW sv, NEW al, NEW dy \in SUBSET Ids, NEW ho,
           NEW reuse, Synced(Q, sv, al, dy, ho, reuse),
           NEW U, NEW m \in Seq(Message), Views(U, m), U[1] = sv,
           ~reuse => /\ \A k \in 1 .. Len(m) : m[k].type = "destroy" =>
                           \A l \in k + 1 .. Len(m) + 1 : U[l][m[k].id] = {}
                     /\ \A c \in Ids : sv[c] = {} /\ (c \in dy \/ DestructionAwaited(Q, c)) =>
                           \A l \in 1 .. Len(m) + 1 : U[l][c] = {}
    PROVE  Synced(Q \o m, U[Len(m) + 1], al, dy, ho, reuse)
<1> DEFINE q == Len(Q)
           n == Len(m)
           R == Q \o m
<1>0. PICK V : SyncedBy(V, Q, sv, al, dy, ho, reuse)
  BY DEF Synced
<1>1. /\ q \in Nat /\ n \in Nat /\ Len(R) = q + n
      /\ \A k \in 1 .. q : R[k] = Q[k]
      /\ \A k \in 1 .. n : R[q + k] = m[k]
  OBVIOUS
<1>2. PICK W : /\ Views(W, R)
               /\ \A k \in 1 .. q + 1 : W[k] = V[k]
               /\ \A k \in 1 .. n + 1 : W[q + k] = U[k]
  BY <1>0, ViewsJoined DEF SyncedBy
<1> HIDE DEF R
<1>3. W[Len(R) + 1] = U[n + 1]
  <2>1. n + 1 \in 1 .. n + 1 /\ Len(R) + 1 = q + (n + 1)
    BY <1>1
  <2> QED BY <1>2, <2>1
<1>4. W[1] = V[1]
  BY <1>1, <1>2
<1>5. /\ \A x : Awaits(Q, x) => Awaits(R, x)
      /\ \A c : DestructionAwaited(Q, c) => DestructionAwaited(R, c)
  BY <1>1 DEF Awaits, DestructionAwaited
<1>6. \A k \in 1 .. q + n + 1 : k \in 1 .. q + 1 \/ \E j \in 1 .. n + 1 : k = q + j
  <2> SUFFICES ASSUME NEW k \in 1 .. q + n + 1, k \notin 1 .. q + 1
               PROVE  \E j \in 1 .. n + 1 : k = q + j
    OBVIOUS
  <2>1. k - q \in 1 .. n + 1 /\ k = q + (k - q)
    BY <1>1
  <2> QED BY <2>1
<1>7. ASSUME ~reuse
      PROVE  Followed(W[1], R, al, ho) /\ Buried(W, R, dy)
  <2>1. Followed(V[1], Q, al, ho) /\ Buried(V, Q, dy) /\ V[q + 1] = sv
    BY <1>0, <1>7 DEF SyncedBy
  <2>2. Followed(W[1], R, al, ho)
    BY <2>1, <1>4, <1>5 DEF Followed, FollowedAt
  <2>3. ASSUME NEW c \in Ids, NEW k \in 1 .. q + 1,
               \A l \in k .. q + 1 : V[l][c] = {}, c \in dy \/ DestructionAwaited(Q, c)
        PROVE  \A l \in k .. q + n + 1 : W[l][c] = {}
    <3>1. sv[c] = {}
      BY <2>1, <2>3, <1>1
    <3>2. \A l \in 1 .. n + 1 : U[l][c] = {}
      BY <3>1, <2>3, <1>7
    <3> TAKE l \in k .. q + n + 1
    <3>3. CASE l <= q + 1
      BY <2>3, <1>1, <1>2, <3>3
    <3>4. CASE ~(l <= q + 1)
      <4>1. l \in 1 .. q + n + 1 /\ l \notin 1 .. q + 1
        BY <1>1, <3>4
      <4> QED BY <4>1, <1>6, <1>2, <3>2
    <3> QED BY <3>3, <3>4
  <2>4. ASSUME NEW c \in dy, NEW l \in 1 .. q + n + 1
        PROVE  W[l][c] = {}
    <3>1. \A j \in 1 .. q + 1 : V[j][c] = {}
      BY <2>1 DEF Buried
    <3>2. 1 \in 1 .. q + 1
      BY <1>1
    <3> QED BY <3>1, <3>2, <2>3, <2>4
  <2>5. ASSUME NEW k \in 1 .. q + n, R[k].type = "destroy",
               NEW l \in k + 1 .. q + n + 1
        PROVE  W[l][R[k].id] = {}
    <3>1. CASE k \in 1 .. q
      <4>1. R[k] = Q[k] /\ Q[k] \in Message /\ k + 1 \in 1 .. q + 1
        BY <3>1, <1>1
      <4> DEFINE j == k + 1
      <4>2. \A i \in j .. q + 1 : V[i][Q[k].id] = {}
        BY <2>1, <2>5, <3>1, <4>1 DEF Buried
      <4> HIDE DEF j
      <4>3. Q[k].id \in Ids
        BY <4>1, MessageFields
      <4>4. DestructionAwaited(Q, Q[k].id)
        BY <2>5, <3>1, <4>1 DEF DestructionAwaited
      <4>5. j \in 1 .. q + 1
        BY <4>1 DEF j
      <4> DEFINE c == Q[k].id
      <4> HIDE DEF c
      <4>6. \A i \in j .. q + n + 1 : W[i][c] = {}
        <5>1. \A i \in j .. q + 1 : V[i][c] = {}
          BY <4>2 DEF c
        <5>2. c \in Ids /\ DestructionAwaited(Q, c)
          BY <4>3, <4>4 DEF c
        <5> QED BY ONLY <5>1, <5>2, <4>5, <2>3
      <4> QED BY <4>1, <4>6 DEF j, c
    <3>2. CASE k \notin 1 .. q
      <4> DEFINE i == k - q
                 j == l - q
      <4>0. k \in Int /\ l \in Int /\ q < k /\ k <= q + n /\ k < l /\ l <= q + n + 1
        BY <3>2, <1>1
      <4>1. i \in 1 .. n /\ k = q + i /\ l = q + j /\ j \in i + 1 .. n + 1 /\ j \in 1 .. n + 1
        BY <4>0, <1>1
      <4> HIDE DEF i, j
      <4>2. R[k] = m[i] /\ W[l] = U[j]
        BY <4>1, <1>1, <1>2
      <4> QED BY <4>1, <4>2, <1>7, <2>5
    <3> QED BY <3>1, <3>2
  <2> QED BY <1>1, <2>2, <2>4, <2>5 DEF Buried
<1>8. \A e \in al : W[1][e] # {}
  BY <1>0, <1>4 DEF SyncedBy
<1> QED
  BY <1>2, <1>3, <1>7, <1>8 DEF Synced, SyncedBy, R

-----------------------------------------------------------------------------
(* The queue without its first message.                                    *)
LEMMA TailFacts ==
    ASSUME NEW Q \in Seq(Message), Q # <<>>
    PROVE  /\ Len(Q) \in Nat /\ Len(Q) >= 1 /\ Tail(Q) \in Seq(Message)
           /\ Len(Tail(Q)) = Len(Q) - 1 /\ Len(Tail(Q)) + 1 = Len(Q)
           /\ \A k \in 1 .. Len(Q) - 1 : Tail(Q)[k] = Q[k + 1]
           /\ Head(Q) = Q[1] /\ Head(Q) \in Message
OBVIOUS

(* What waits behind the first message waits when that one is taken.       *)
LEMMA StillAwaited ==
    ASSUME NEW Q \in Seq(Message), Q # <<>>
    PROVE  /\ \A m : Awaits(Q, m) /\ m # Head(Q) => Awaits(Tail(Q), m)
           /\ \A c : DestructionAwaited(Q, c) /\ (Head(Q).type # "destroy" \/ Head(Q).id # c)
                        => DestructionAwaited(Tail(Q), c)
<1>1. \A k \in 1 .. Len(Q) : k # 1 => k - 1 \in 1 .. Len(Q) - 1 /\ Tail(Q)[k - 1] = Q[k]
  <2> TAKE k \in 1 .. Len(Q)
  <2> HAVE k # 1
  <2>1. k - 1 \in 1 .. Len(Q) - 1 /\ (k - 1) + 1 = k
    OBVIOUS
  <2> QED BY <2>1, TailFacts
<1>2. Len(Tail(Q)) = Len(Q) - 1 /\ Head(Q) = Q[1]
  BY TailFacts
<1>3. ASSUME NEW m, Awaits(Q, m), m # Head(Q) PROVE Awaits(Tail(Q), m)
  <2>1. PICK k \in 1 .. Len(Q) : Q[k] = m
    BY <1>3 DEF Awaits
  <2>2. k # 1
    BY <2>1, <1>2, <1>3
  <2> QED BY <1>1, <1>2, <2>1, <2>2 DEF Awaits
<1>4. ASSUME NEW c, DestructionAwaited(Q, c), Head(Q).type # "destroy" \/ Head(Q).id # c
      PROVE  DestructionAwaited(Tail(Q), c)
  <2>1. PICK k \in 1 .. Len(Q) : Q[k].type = "destroy" /\ Q[k].id = c
    BY <1>4 DEF DestructionAwaited
  <2>2. k # 1
    BY <2>1, <1>2, <1>4
  <2> QED BY <1>1, <1>2, <2>1, <2>2 DEF DestructionAwaited
<1> QED BY <1>3, <1>4

(* The history without its first message.                                  *)
LEMMA ViewsTail ==
    ASSUME NEW Q \in Seq(Message), Q # <<>>, NEW V, Views(V, Q)
    PROVE  \E W : /\ Views(W, Tail(Q))
                  /\ \A k \in 1 .. Len(Q) : W[k] = V[k + 1]
<1> DEFINE R == Tail(Q)
           n == Len(Q) - 1
           W == [k \in 1 .. n + 1 |-> V[k + 1]]
<1>1. /\ n \in Nat /\ Len(R) = n /\ Len(Q) = n + 1
      /\ \A k \in 1 .. n : R[k] = Q[k + 1]
  BY TailFacts
<1> HIDE DEF R, n
<1>2. \A k \in 1 .. n + 1 : k + 1 \in 1 .. n + 2
  BY <1>1
<1>3. (n + 1) + 1 = n + 2
  BY <1>1
<1>4. /\ V \in [1 .. n + 2 -> TableOf]
      /\ \A k \in 1 .. n + 2 : OwnersThere(V[k])
      /\ \A k \in 1 .. n + 1 :
           /\ V[k][Q[k].id] = Before(Q[k])
           /\ V[k + 1] = [V[k] EXCEPT ![Q[k].id] = After(Q[k])]
  BY <1>1, <1>3 DEF Views
<1>5. W \in [1 .. n + 1 -> TableOf]
  BY <1>2, <1>4
<1>6. \A k \in 1 .. n + 1 : W[k] = V[k + 1]
  OBVIOUS
<1> HIDE DEF W
<1>7. \A k \in 1 .. n + 1 : OwnersThere(W[k])
  BY <1>2, <1>4, <1>6
<1>8. ASSUME NEW k \in 1 .. n
      PROVE  /\ W[k][R[k].id] = Before(R[k])
             /\ W[k + 1] = [W[k] EXCEPT ![R[k].id] = After(R[k])]
  <2>1. k \in 1 .. n + 1 /\ k + 1 \in 1 .. n + 1
    BY <1>1
  <2>2. W[k] = V[k + 1] /\ W[k + 1] = V[(k + 1) + 1] /\ R[k] = Q[k + 1]
    BY <2>1, <1>1, <1>6
  <2> QED BY <2>1, <2>2, <1>4
<1>9. Views(W, R)
  BY <1>1, <1>5, <1>7, <1>8 DEF Views
<1> QED BY <1>1, <1>6, <1>9 DEF R

(* What the first message finds and leaves.                                *)
LEMMA FirstMessage ==
    ASSUME NEW Q \in Seq(Message), Q # <<>>, NEW V, Views(V, Q)
    PROVE  /\ V[1] \in TableOf /\ V[2] \in TableOf
           /\ OwnersThere(V[1]) /\ OwnersThere(V[2]) /\ OwnersThere(V[Len(Q) + 1])
           /\ V[1][Head(Q).id] = Before(Head(Q))
           /\ V[2][Head(Q).id] = After(Head(Q))
           /\ \A e \in Ids \ {Head(Q).id} : V[2][e] = V[1][e]
<1>1. /\ 1 \in 1 .. Len(Q) /\ 1 \in 1 .. Len(Q) + 1 /\ 1 + 1 \in 1 .. Len(Q) + 1
      /\ Len(Q) + 1 \in 1 .. Len(Q) + 1 /\ 1 + 1 = 2
      /\ Head(Q) = Q[1] /\ Head(Q) \in Message
  BY TailFacts
<1>2. Head(Q).id \in Ids
  BY <1>1, MessageFields
<1>3. V[1] \in TableOf /\ V[2] \in TableOf
  BY <1>1 DEF Views
<1>4. OwnersThere(V[1]) /\ OwnersThere(V[2]) /\ OwnersThere(V[Len(Q) + 1])
  BY <1>1 DEF Views
<1>5. /\ V[1][Head(Q).id] = Before(Head(Q))
      /\ V[2] = [V[1] EXCEPT ![Head(Q).id] = After(Head(Q))]
  BY <1>1 DEF Views
<1>6. V[1] \in [Ids -> SUBSET (Ids \cup {NoParent})]
  BY <1>3 DEF TableOf
<1>7. /\ V[2][Head(Q).id] = After(Head(Q))
      /\ \A e \in Ids \ {Head(Q).id} : V[2][e] = V[1][e]
  BY <1>2, <1>5, <1>6
<1> QED BY <1>3, <1>4, <1>5, <1>7

(* The client handles the first message.                                   *)
LEMMA SyncedTail ==
    ASSUME NEW Q \in Seq(Message), Q # <<>>, NEW V, NEW sv, NEW al, NEW dy, NEW ho,
           NEW reuse,
           SyncedBy(V, Q, sv, al, dy, ho, reuse),
           NEW al2, NEW dy2, NEW ho2,
           \A e \in al2 : V[2][e] # {},
           ~reuse => /\ \A e \in Ids \ {Head(Q).id} : (e \in al2 <=> e \in al) /\ ho2[e] = ho[e]
                     /\ FollowedAt(V[2], Tail(Q), al2, ho2, Head(Q).id)
                     /\ \A c \in dy2 : c \in dy \/ (Head(Q).type = "destroy" /\ c = Head(Q).id)
    PROVE  Synced(Tail(Q), sv, al2, dy2, ho2, reuse)
<1> DEFINE R == Tail(Q)
           n == Len(Q) - 1
<1>1. PICK W : /\ Views(W, R)
               /\ \A k \in 1 .. Len(Q) : W[k] = V[k + 1]
  BY ViewsTail DEF SyncedBy
<1>2. /\ n \in Nat /\ Len(R) = n /\ Len(Q) = n + 1
      /\ \A k \in 1 .. n : R[k] = Q[k + 1]
      /\ Head(Q) = Q[1]
  BY TailFacts
<1>3. W[1] = V[2] /\ W[Len(R) + 1] = sv
  <2>1. 1 \in 1 .. Len(Q) /\ Len(R) + 1 \in 1 .. Len(Q) /\ (Len(R) + 1) + 1 = Len(Q) + 1 /\ 1 + 1 = 2
    BY <1>2
  <2> QED BY <1>1, <2>1 DEF SyncedBy
<1>4. ASSUME ~reuse PROVE Followed(W[1], R, al2, ho2)
  <2> SUFFICES ASSUME NEW e \in Ids, e # Head(Q).id
               PROVE  FollowedAt(V[2], R, al2, ho2, e)
    BY <1>3, <1>4 DEF Followed
  <2>1. FollowedAt(V[1], Q, al, ho, e)
    BY <1>4 DEF SyncedBy, Followed
  <2>2. V[2][e] = V[1][e] /\ (e \in al2 <=> e \in al) /\ ho2[e] = ho[e]
    BY <1>4, FirstMessage DEF SyncedBy
  <2>3. /\ \A p : Awaits(Q, Rejected(p, e)) => Awaits(R, Rejected(p, e))
        /\ DestructionAwaited(Q, e) => DestructionAwaited(R, e)
    BY StillAwaited DEF Rejected
  <2> QED BY <2>1, <2>2, <2>3 DEF FollowedAt
<1>5. ASSUME ~reuse PROVE Buried(W, R, dy2)
  <2>1. Buried(V, Q, dy)
    BY <1>5 DEF SyncedBy
  <2> HIDE DEF R, n
  <2>2. ASSUME NEW k \in 1 .. n, R[k].type = "destroy", NEW l \in k + 1 .. n + 1
        PROVE  W[l][R[k].id] = {}
    <3>1. k + 1 \in 1 .. Len(Q) /\ l \in 1 .. Len(Q) /\ l + 1 \in (k + 1) + 1 .. Len(Q) + 1
      BY <1>2
    <3>2. R[k] = Q[k + 1] /\ W[l] = V[l + 1]
      BY <1>1, <1>2, <3>1
    <3> QED BY <2>1, <2>2, <3>1, <3>2 DEF Buried
  <2>3. ASSUME NEW c \in dy2, NEW l \in 1 .. n + 1
        PROVE  W[l][c] = {}
    <3>1. l \in 1 .. Len(Q) /\ l + 1 \in 1 .. Len(Q) + 1 /\ l + 1 \in 1 + 1 .. Len(Q) + 1 /\ 1 \in 1 .. Len(Q)
      BY <1>2
    <3>2. W[l] = V[l + 1]
      BY <1>1, <3>1
    <3>3. CASE c \in dy
      BY <2>1, <3>1, <3>2, <3>3 DEF Buried
    <3>4. CASE Head(Q).type = "destroy" /\ c = Head(Q).id
      BY <2>1, <3>1, <3>2, <3>4, <1>2 DEF Buried
    <3> QED BY <3>3, <3>4, <1>5
  <2> QED BY <2>2, <2>3, <1>2 DEF Buried
<1> QED BY <1>1, <1>3, <1>4, <1>5 DEF Synced, SyncedBy

(* As RejectionAwaited, for an item that is given by the first message.    *)
LEMMA RejectionAwaitedNext ==
    ASSUME NEW Q \in Seq(Message), Q # <<>>, NEW V, Views(V, Q), NEW e \in Ids,
           NEW p \in Ids,
           V[2][e] = {p}, V[Len(Q) + 1][e] # {p}
    PROVE  Awaits(Tail(Q), Rejected(p, e))
<1>1. PICK W : Views(W, Tail(Q)) /\ \A k \in 1 .. Len(Q) : W[k] = V[k + 1]
  BY ViewsTail
<1>2. 1 \in 1 .. Len(Q) /\ Len(Tail(Q)) + 1 = Len(Q) /\ Len(Q) \in 1 .. Len(Q) /\ 1 + 1 = 2
      /\ Tail(Q) \in Seq(Message)
  BY TailFacts
<1>3. W[1] = V[2] /\ W[Len(Tail(Q)) + 1] = V[Len(Q) + 1]
  BY <1>1, <1>2
<1> QED BY <1>1, <1>2, <1>3, RejectionAwaited
-----------------------------------------------------------------------------
(* e appears or gets the owner p; or the client does not give it to p,     *)
(* because it does not have p or because p refuses it, but then it is not  *)
(* with p at the end.                                                      *)
Receives(m, sv, al, dy, ho, al2, dy2, ho2) ==
    /\ \A x \in Ids \ {m.id} : (x \in al2 <=> x \in al) /\ ho2[x] = ho[x]
    /\ IF m.type = "spawn" THEN m.id \in al2 /\ ho[m.id] = NoParent
       ELSE m.id \in al2 <=> m.id \in al
    /\ \A c \in dy2 : c \in dy
    /\ \/ ho2[m.id] = m.owner
       \/ ho2[m.id] = ho[m.id] /\ (m.owner \in al2 => sv[m.id] # {m.owner})

(* The client handles a spawn or a take.                                   *)
LEMMA GivingSeen ==
    ASSUME NEW Q \in Seq(Message), Q # <<>>, NEW sv, NEW al \in SUBSET Ids, NEW dy,
           NEW ho, NEW reuse, Synced(Q, sv, al, dy, ho, reuse),
           Head(Q).type \in {"spawn", "take"}, NEW al2, NEW dy2, NEW ho2,
           \A x \in al2 : x \in al \/ x = Head(Q).id,
           ~reuse => Receives(Head(Q), sv, al, dy, ho, al2, dy2, ho2)
    PROVE  Synced(Tail(Q), sv, al2, dy2, ho2, reuse)
<1> DEFINE e == Head(Q).id
           p == Head(Q).owner
<1>0. PICK V : SyncedBy(V, Q, sv, al, dy, ho, reuse)
  BY DEF Synced
<1>1. /\ Head(Q) \in Message /\ e \in Ids /\ p \in Ids \cup {NoParent}
      /\ Before(Head(Q)) = IF Head(Q).type = "spawn" THEN {} ELSE {NoParent}
      /\ After(Head(Q)) = {p}
  BY TailFacts, MessageFields DEF Before, After
<1>2. /\ V[1] \in TableOf /\ V[2] \in TableOf
      /\ OwnersThere(V[1]) /\ OwnersThere(V[2]) /\ OwnersThere(sv)
      /\ V[1][e] = Before(Head(Q))
      /\ V[2][e] = {p}
      /\ \A x \in Ids \ {e} : V[2][x] = V[1][x]
  BY <1>0, <1>1, FirstMessage DEF SyncedBy
<1>3. \A x \in al2 : V[2][x] # {}
  BY <1>0, <1>2 DEF SyncedBy
<1>6. ~reuse =>
          /\ \A x \in Ids \ {e} : (x \in al2 <=> x \in al) /\ ho2[x] = ho[x]
          /\ Head(Q).type = "spawn" => e \in al2 /\ ho[e] = NoParent
          /\ Head(Q).type # "spawn" => (e \in al2 <=> e \in al)
          /\ \A c \in dy2 : c \in dy
          /\ ho2[e] = p \/ (ho2[e] = ho[e] /\ (p \in al2 => sv[e] # {p}))
  BY DEF Receives
<1> HIDE DEF e, p
<1>4. ASSUME ~reuse PROVE FollowedAt(V[2], Tail(Q), al2, ho2, e)
  <2>1. \A x \in Ids : FollowedAt(V[1], Q, al, ho, x)
    BY <1>0, <1>4 DEF SyncedBy, Followed
  <2>2. ASSUME e \in al2 PROVE ho[e] = NoParent
    <3>1. CASE Head(Q).type = "spawn"
      BY <1>4, <1>6, <3>1
    <3>2. CASE Head(Q).type # "spawn"
      <4>1. e \in al /\ V[1][e] = {NoParent}
        BY <1>1, <1>2, <1>4, <1>6, <2>2, <3>2
      <4> QED BY <4>1, <2>1, <1>1 DEF FollowedAt
    <3> QED BY <3>1, <3>2
  <2>3. ASSUME e \notin al2 PROVE DestructionAwaited(Tail(Q), e)
    <3>1. e \notin al /\ Head(Q).type = "take"
      BY <1>4, <1>6, <1>1, <2>3
    <3>2. V[1][e] # {}
      <4>1. V[1][e] = {NoParent}
        BY <3>1, <1>1, <1>2
      <4> QED BY ONLY <4>1
    <3>3. DestructionAwaited(Q, e)
      BY <3>1, <3>2, <2>1, <1>1 DEF FollowedAt
    <3>4. Head(Q).type # "destroy"
      BY <3>1
    <3> QED BY <3>3, <3>4, StillAwaited DEF e
  <2>4. CASE ho2[e] = p
    BY <2>4, <1>2, <2>3 DEF FollowedAt
  <2>5. CASE ho2[e] = ho[e] /\ (p \in al2 => sv[e] # {p})
    <3>1. ASSUME e \in al2, p \in Ids PROVE sv[e] # {p}
      <4> SUFFICES ASSUME p \notin al2 PROVE sv[p] = {}
        BY <2>5, <1>2, <1>1, <3>1 DEF OwnersThere
      <4>1. p # e /\ p \notin al
        BY <3>1, <1>4, <1>6, <1>1
      <4>2. V[1][p] # {}
        BY <4>1, <1>2, <1>1, <3>1 DEF OwnersThere
      <4>3. DestructionAwaited(Q, p)
        BY <4>1, <4>2, <2>1, <3>1 DEF FollowedAt
      <4>4. PICK k \in 1 .. Len(Q) : Q[k].type = "destroy" /\ Q[k].id = p
        BY <4>3 DEF DestructionAwaited
      <4>5. Len(Q) + 1 \in k + 1 .. Len(Q) + 1
        BY TailFacts
      <4>6. V[Len(Q) + 1][Q[k].id] = {}
        BY <4>4, <4>5, <1>0, <1>4 DEF SyncedBy, Buried
      <4> QED BY <1>0, <4>4, <4>6 DEF SyncedBy
    <3>2. ASSUME e \in al2, p \in Ids PROVE Awaits(Tail(Q), Rejected(p, e))
      BY <1>0, <3>1, <3>2, <1>1, <1>2, RejectionAwaitedNext DEF SyncedBy
    <3>3. e \in al2 => ho2[e] = NoParent
      BY <2>2, <2>5
    <3> QED BY <3>2, <3>3, <1>2, <2>3 DEF FollowedAt
  <2> QED BY <2>4, <2>5, <1>4, <1>6
<1>5. ~reuse => \A x \in Ids \ {e} : (x \in al2 <=> x \in al) /\ ho2[x] = ho[x]
  BY <1>1, <1>6
<1>7. ~reuse => \A c \in dy2 : c \in dy
  BY <1>6
<1> QED BY <1>0, <1>3, <1>4, <1>5, <1>7, SyncedTail DEF e

(* The spawn of an object whose destruction waits is skipped.              *)
LEMMA SkippingSeen ==
    ASSUME NEW Q \in Seq(Message), Q # <<>>, NEW sv, NEW al \in SUBSET Ids, NEW dy,
           NEW ho, NEW reuse, Synced(Q, sv, al, dy, ho, reuse),
           Head(Q).type = "spawn", DestructionAwaited(Tail(Q), Head(Q).id)
    PROVE  Synced(Tail(Q), sv, al, dy, ho, reuse)
<1>0. PICK V : SyncedBy(V, Q, sv, al, dy, ho, reuse)
  BY DEF Synced
<1> DEFINE e == Head(Q).id
<1>1. V[1][e] = {} /\ V[2][e] # {} /\ \A x \in Ids \ {e} : V[2][x] = V[1][x]
  BY <1>0, FirstMessage DEF SyncedBy, Before, After
<1>2. e \notin al
  BY <1>0, <1>1 DEF SyncedBy
<1>3. FollowedAt(V[2], Tail(Q), al, ho, e)
  BY <1>2 DEF FollowedAt
<1>4. \A x \in al : V[2][x] # {}
  <2>1. V[1] \in TableOf /\ V[2] \in TableOf
    BY <1>0, FirstMessage DEF SyncedBy
  <2> QED BY <1>0, <1>1, <2>1 DEF SyncedBy, TableOf
<1> QED BY <1>0, <1>3, <1>4, SyncedTail

-----------------------------------------------------------------------------
(* p loses e, unless it did so before.                                     *)
LEMMA RejectionSeen ==
    ASSUME NEW Q \in Seq(Message), Q # <<>>, NEW sv, NEW al \in SUBSET Ids, NEW dy,
           NEW ho, NEW reuse, Synced(Q, sv, al, dy, ho, reuse),
           NEW e, NEW p, e = Head(Q).id, p = Head(Q).owner, Head(Q).type = "reject",
           NEW ho2, \A x \in Ids : ho2[x] = ho[x] \/ (x = e /\ ho2[x] = NoParent),
           ~reuse /\ e \in al /\ ho[e] = p => ho2[e] = NoParent
    PROVE  Synced(Tail(Q), sv, al, dy, ho2, reuse)
<1>0. PICK V : SyncedBy(V, Q, sv, al, dy, ho, reuse)
  BY DEF Synced
<1>1. Head(Q) \in Message /\ e \in Ids /\ p \in Ids \cup {NoParent}
  BY TailFacts, MessageFields
<1>2. /\ V[1] \in TableOf /\ V[2] \in TableOf
      /\ V[1][e] = {p} /\ V[2][e] = {NoParent}
      /\ \A x \in Ids \ {e} : V[2][x] = V[1][x]
  BY <1>0, FirstMessage DEF SyncedBy, Before, After
<1>3. \A x \in al : V[2][x] # {}
  BY <1>0, <1>2 DEF SyncedBy
<1>4. ASSUME ~reuse PROVE FollowedAt(V[2], Tail(Q), al, ho2, e)
  <2>1. FollowedAt(V[1], Q, al, ho, e)
    BY <1>0, <1>1, <1>4 DEF SyncedBy, Followed
  <2>2. ASSUME e \notin al PROVE DestructionAwaited(Tail(Q), e)
    <3>1. V[1][e] # {}
      BY <1>2
    <3>2. DestructionAwaited(Q, e)
      BY <2>1, <2>2, <3>1 DEF FollowedAt
    <3>3. Head(Q).type # "destroy"
      OBVIOUS
    <3> QED BY <3>2, <3>3, StillAwaited
  <2>3. ASSUME e \in al PROVE ho2[e] = NoParent
    <3>1. ho[e] # NoParent => ho[e] = p
      BY <2>1, <2>3, <1>2 DEF FollowedAt
    <3>2. ho2[e] \in {ho[e], NoParent}
      BY <1>1
    <3> QED BY <3>1, <3>2, <2>3, <1>4
  <2>4. \A x \in Ids : V[2][e] # {x}
    BY <1>2, IdsAssumption
  <2> QED BY <2>2, <2>3, <2>4 DEF FollowedAt
<1>5. \A x \in Ids \ {e} : ho2[x] = ho[x]
  OBVIOUS
<1>6. ~reuse => FollowedAt(V[2], Tail(Q), al, ho2, Head(Q).id)
  BY <1>4
<1>7. ~reuse => \A x \in Ids \ {Head(Q).id} : (x \in al <=> x \in al) /\ ho2[x] = ho[x]
  BY <1>5
<1>8. \A c \in dy : c \in dy \/ (Head(Q).type = "destroy" /\ c = Head(Q).id)
  OBVIOUS
<1> QED BY <1>0, <1>3, <1>6, <1>7, <1>8, SyncedTail

(* Who holds something of what the client still has when its destruction   *)
(* comes next?  Nobody.                                                    *)
LEMMA NothingHeld ==
    ASSUME NEW Q \in Seq(Message), Q # <<>>, NEW sv, NEW al \in SUBSET Ids, NEW dy,
           NEW ho, NEW reuse, ~reuse, Synced(Q, sv, al, dy, ho, reuse),
           Head(Q).type = "destroy"
    PROVE  \A x \in al : ho[x] = Head(Q).id => x = Head(Q).id
<1>0. PICK V : SyncedBy(V, Q, sv, al, dy, ho, reuse)
  BY DEF Synced
<1> SUFFICES ASSUME NEW x \in al, ho[x] = Head(Q).id, x # Head(Q).id
             PROVE  FALSE
  OBVIOUS
<1>1. Head(Q) \in Message /\ Head(Q).id \in Ids
  BY TailFacts, MessageFields
<1>2. FollowedAt(V[1], Q, al, ho, x)
  BY <1>0 DEF SyncedBy, Followed
<1>3. V[1][x] = {ho[x]}
  BY <1>1, <1>2, IdsAssumption DEF FollowedAt
<1>4. /\ V[2][Head(Q).id] = After(Head(Q)) /\ OwnersThere(V[2])
      /\ \A y \in Ids \ {Head(Q).id} : V[2][y] = V[1][y]
  BY <1>0, FirstMessage DEF SyncedBy
<1>5. V[2][x] = {Head(Q).id} /\ V[2][Head(Q).id] = {}
  BY <1>3, <1>4 DEF After
<1> QED BY <1>1, <1>4, <1>5 DEF OwnersThere

(* e goes, and perhaps something that went before.                         *)
LEMMA DestructionSeen ==
    ASSUME NEW Q \in Seq(Message), Q # <<>>, NEW sv, NEW al \in SUBSET Ids, NEW dy,
           NEW ho, NEW reuse, Synced(Q, sv, al, dy, ho, reuse),
           NEW e, e = Head(Q).id, Head(Q).type = "destroy",
           NEW al2, NEW dy2, al2 \subseteq al \ {e},
           ~reuse => al2 = al \ {e} /\ dy2 \subseteq dy \cup {e}
    PROVE  Synced(Tail(Q), sv, al2, dy2, ho, reuse)
<1>0. PICK V : SyncedBy(V, Q, sv, al, dy, ho, reuse)
  BY DEF Synced
<1>1. Head(Q) \in Message /\ e \in Ids
  BY TailFacts, MessageFields
<1>2. /\ V[1] \in TableOf /\ V[2] \in TableOf
      /\ V[2][e] = {}
      /\ \A x \in Ids \ {e} : V[2][x] = V[1][x]
  <2>1. Views(V, Q)
    BY <1>0 DEF SyncedBy
  <2>2. /\ V[1] \in TableOf /\ V[2] \in TableOf
        /\ V[2][Head(Q).id] = After(Head(Q))
        /\ \A x \in Ids \ {Head(Q).id} : V[2][x] = V[1][x]
    BY <2>1, FirstMessage
  <2>3. After(Head(Q)) = {}
    BY DEF After
  <2> QED BY <2>2, <2>3
<1>3. \A x \in al2 : V[2][x] # {}
  BY <1>0, <1>2 DEF SyncedBy
<1>4. ~reuse => FollowedAt(V[2], Tail(Q), al2, ho, e)
  BY <1>2 DEF FollowedAt
<1>5. ~reuse => /\ \A x \in Ids \ {e} : x \in al2 <=> x \in al
                /\ \A c \in dy2 : c \in dy \/ c = e
  OBVIOUS
<1> QED BY <1>0, <1>3, <1>4, <1>5, SyncedTail

(* The end of the frame: what went is not there any more.                  *)
LEMMA FlushSeen ==
    ASSUME NEW Q, NEW sv, NEW al \in SUBSET Ids, NEW dy, NEW ho, NEW reuse,
           Synced(Q, sv, al, dy, ho, reuse),
           NEW ho2, \A e \in al : ho2[e] = ho[e]
    PROVE  Synced(Q, sv, al, {}, ho2, reuse)
<1>0. PICK V : SyncedBy(V, Q, sv, al, dy, ho, reuse)
  BY DEF Synced
<1>1. Followed(V[1], Q, al, ho) => Followed(V[1], Q, al, ho2)
  BY DEF Followed, FollowedAt
<1>2. Buried(V, Q, dy) => Buried(V, Q, {})
  BY DEF Buried
<1> QED BY <1>0, <1>1, <1>2 DEF Synced, SyncedBy

(* An owner whose item the client has not lost yet is not about to go.     *)
LEMMA OwnerStays ==
    ASSUME NEW Q \in Seq(Message), NEW sv, NEW al \in SUBSET Ids, NEW dy,
           NEW ho, NEW reuse, ~reuse, Synced(Q, sv, al, dy, ho, reuse),
           NEW e \in al, ho[e] \in Ids
    PROVE  ho[e] \notin dy
<1>0. PICK V : SyncedBy(V, Q, sv, al, dy, ho, reuse)
  BY DEF Synced
<1>1. 1 \in 1 .. Len(Q) + 1
  OBVIOUS
<1>2. V[1][e] = {ho[e]}
  BY <1>0, IdsAssumption DEF SyncedBy, Followed, FollowedAt
<1>3. OwnersThere(V[1])
  BY <1>0, <1>1 DEF SyncedBy, Views
<1> QED BY <1>0, <1>1, <1>2, <1>3 DEF OwnersThere, SyncedBy, Buried

-----------------------------------------------------------------------------
(* What is under way to the client, and the table of the server.           *)
Pending == events \o wire

(* The table of a set of objects with their owners.                        *)
TableFor(E, P) == [e \in Ids |-> IF e \in E THEN {P[e]} ELSE {}]

(* The table of what the server has.                                       *)
ServerTable == TableFor(entities, parent)

(* A set of objects that has the owners too makes a table.                 *)
LEMMA TableForOK ==
    ASSUME NEW E \in SUBSET Ids, NEW P \in [Ids -> Ids \cup {NoParent}],
           \A c \in E : P[c] # NoParent => P[c] \in E
    PROVE  TableFor(E, P) \in TableOf /\ OwnersThere(TableFor(E, P))
<1>1. TableFor(E, P) \in TableOf
  BY DEF TableFor, TableOf
<1>2. ASSUME NEW e \in Ids, NEW p \in Ids, TableFor(E, P)[e] = {p}
      PROVE  TableFor(E, P)[p] # {}
  <2>1. e \in E /\ P[e] = p
    BY <1>2 DEF TableFor
  <2>2. p \in E
    BY <2>1, IdsAssumption
  <2> QED BY <2>2 DEF TableFor
<1> QED BY <1>1, <1>2 DEF OwnersThere

(* The server's objects make a table: no link leaves its map.              *)
LEMMA ServerTableOK ==
    ASSUME Forest, Accounted
    PROVE  ServerTable \in TableOf /\ OwnersThere(ServerTable)
<1>1. \A c \in entities : parent[c] # NoParent => parent[c] \in entities
  BY DEF Forest, TypeOK, Accounted, LinksInside
<1> QED BY <1>1, TableForOK DEF ServerTable, Forest, TypeOK

(* The same after a step.                                                  *)
LEMMA ServerTableOKNext ==
    ASSUME Forest', Accounted'
    PROVE  ServerTable' \in TableOf /\ OwnersThere(ServerTable')
<1>1. \A c \in entities' : parent'[c] # NoParent => parent'[c] \in entities'
  BY DEF Forest, TypeOK, Accounted, LinksInside
<1>2. ServerTable' = TableFor(entities', parent')
  BY DEF ServerTable, TableFor
<1> QED BY <1>1, <1>2, TableForOK DEF Forest, TypeOK

(* One message more.                                                       *)
LEMMA SyncedWithOne ==
    ASSUME NEW Q \in Seq(Message), NEW sv \in TableOf, NEW al, NEW dy \in SUBSET Ids,
           NEW ho,
           NEW reuse, Synced(Q, sv, al, dy, ho, reuse),
           NEW m \in Message, sv[m.id] = Before(m),
           ~reuse /\ m.type = "spawn" => m.id \notin dy /\ ~DestructionAwaited(Q, m.id),
           NEW sv2 \in TableOf, sv2 = [sv EXCEPT ![m.id] = After(m)],
           OwnersThere(sv), OwnersThere(sv2)
    PROVE  Synced(Q \o <<m>>, sv2, al, dy, ho, reuse)
<1> DEFINE U == [k \in 1 .. 2 |-> IF k = 1 THEN sv ELSE sv2]
           M == <<m>>
<1>1. /\ M \in Seq(Message) /\ Len(M) = 1 /\ M[1] = m
      /\ U[1] = sv /\ U[2] = sv2 /\ U \in [1 .. 2 -> TableOf]
  OBVIOUS
<1>2. \A k \in 1 .. 2 : k = 1 \/ k = 2
  OBVIOUS
<1>3. \A k \in 1 .. 1 : k = 1
  OBVIOUS
<1> HIDE DEF U, M
<1>4. Views(U, M)
  <2>1. Len(M) + 1 = 2 /\ 1 + 1 = 2
    BY <1>1
  <2> QED BY <1>1, <1>2, <1>3, <2>1 DEF Views
<1>5. m.id \in Ids
  BY MessageFields
<1>6. ASSUME NEW k \in 1 .. Len(M), M[k].type = "destroy", NEW l \in k + 1 .. Len(M) + 1
      PROVE  U[l][M[k].id] = {}
  <2>1. k = 1 /\ l = 2
    BY <1>1
  <2> QED BY <1>1, <1>5, <1>6, <2>1 DEF After, TableOf
<1>7. ASSUME NEW c \in Ids, sv[c] = {}, c \in dy \/ DestructionAwaited(Q, c), ~reuse,
             NEW l \in 1 .. Len(M) + 1
      PROVE  U[l][c] = {}
  <2>1. l = 1 \/ l = 2
    BY <1>1
  <2>2. c = m.id => m.type = "spawn"
    BY <1>7 DEF Before
  <2>3. c # m.id
    BY <1>7, <2>2
  <2> QED BY <1>1, <1>7, <2>1, <2>3 DEF TableOf
<1>8. Synced(Q \o M, U[Len(M) + 1], al, dy, ho, reuse)
  <2>1. \A k \in 1 .. Len(M) : M[k].type = "destroy" =>
             \A l \in k + 1 .. Len(M) + 1 : U[l][M[k].id] = {}
    BY <1>6
  <2>2. ~reuse => \A c \in Ids : sv[c] = {} /\ (c \in dy \/ DestructionAwaited(Q, c)) =>
                       \A l \in 1 .. Len(M) + 1 : U[l][c] = {}
    BY <1>7
  <2>3. M \in Seq(Message) /\ U[1] = sv
    BY <1>1
  <2>4. ~reuse => /\ \A k \in 1 .. Len(M) : M[k].type = "destroy" =>
                        \A l \in k + 1 .. Len(M) + 1 : U[l][M[k].id] = {}
                  /\ \A c \in Ids : sv[c] = {} /\ (c \in dy \/ DestructionAwaited(Q, c)) =>
                        \A l \in 1 .. Len(M) + 1 : U[l][c] = {}
    BY <2>1, <2>2
  <2> QED BY ONLY <1>4, <2>3, <2>4, SyncedWithMore, Q \in Seq(Message),
             dy \in SUBSET Ids,
                  Synced(Q, sv, al, dy, ho, reuse)
<1>9. U[Len(M) + 1] = sv2
  BY <1>1
<1> QED BY <1>8, <1>9 DEF M

(* No message changes no queue.                                            *)
LEMMA NothingMore ==
    ASSUME NEW Q \in Seq(Message)
    PROVE  Q \o <<>> = Q
OBVIOUS

(* Queues joined to queues, and their first message.                       *)
LEMMA Joined ==
    ASSUME NEW Q \in Seq(Message), NEW R \in Seq(Message), NEW m \in Seq(Message)
    PROVE  /\ Q \o R \in Seq(Message)
           /\ Q \o (R \o m) = (Q \o R) \o m
           /\ Q # <<>> => /\ Tail(Q) \o R = Tail(Q \o R)
                          /\ Head(Q \o R) = Head(Q)
                          /\ Q \o R # <<>>
OBVIOUS

(* A rejection at the server, with or without a message.                   *)
LEMMA SyncedReject ==
    ASSUME Forest, Accounted, Forest', Accounted', NEW p \in Ids, NEW e \in Ids,
           ProcessReject(p, e), NEW Q \in Seq(Message), NEW al, NEW dy \in SUBSET Ids, NEW ho, NEW reuse,
           Synced(Q, ServerTable, al, dy, ho, reuse)
    PROVE  /\ Synced(Q \o Detached(e), ServerTable', al, dy, ho, reuse)
           /\ Detached(e) \in Seq(Message)
           /\ ServerTable'[e] = {NoParent}
<1>1. /\ ServerTable \in TableOf /\ OwnersThere(ServerTable)
      /\ ServerTable' \in TableOf /\ OwnersThere(ServerTable')
  BY ServerTableOK, ServerTableOKNext
<1>2. ServerTable' = TableFor(entities', parent') /\ e \in entities /\ entities' = entities
  BY DEF ServerTable, TableFor, ProcessReject
<1>3. CASE parent[e] = NoParent
  <2>1. Detached(e) = <<>> /\ parent' = parent
    BY <1>3 DEF Detached, ProcessReject
  <2>2. ServerTable' = ServerTable /\ ServerTable[e] = {NoParent}
    BY <1>2, <1>3, <2>1 DEF ServerTable, TableFor
  <2>3. <<>> \in Seq(Message)
    OBVIOUS
  <2> QED BY <2>1, <2>2, <2>3, NothingMore
<1>4. CASE parent[e] # NoParent
  <2> DEFINE m == Rejected(p, e)
  <2>1. parent[e] = p /\ parent' = [parent EXCEPT ![e] = NoParent] /\ Detached(e) = <<m>>
    BY <1>4 DEF Detached, ProcessReject
  <2>2. m \in Message /\ m.id = e /\ Before(m) = {p} /\ After(m) = {NoParent} /\ m.type # "spawn"
    BY AreMessages DEF Rejected, Before, After
  <2> HIDE DEF m
  <2>3. ServerTable[e] = {p} /\ ServerTable'[e] = {NoParent}
    BY <1>2, <2>1 DEF ServerTable, TableFor, Forest, TypeOK
  <2>4. ServerTable' = [ServerTable EXCEPT ![e] = {NoParent}]
    BY <1>2, <2>1 DEF ServerTable, TableFor, Forest, TypeOK
  <2>5. Synced(Q \o <<m>>, ServerTable', al, dy, ho, reuse)
    BY <1>1, <2>2, <2>3, <2>4, SyncedWithOne
  <2> QED BY <2>1, <2>2, <2>3, <2>5
<1> QED BY <1>3, <1>4

(* A spawn at the server, announced.                                       *)
LEMMA SyncedSpawn ==
    ASSUME Forest, Accounted, Forest', Accounted', NEW id \in Ids,
           NEW p \in Ids \cup {NoParent},
           ProcessSpawn(id, p), NEW Q \in Seq(Message), NEW al, NEW dy \in SUBSET Ids, NEW ho, NEW reuse,
           Synced(Q, ServerTable, al, dy, ho, reuse),
           ~reuse => id \notin dy /\ ~DestructionAwaited(Q, id)
    PROVE  Synced(Q \o <<Spawned(id, p)>>, ServerTable', al, dy, ho, reuse)
<1> DEFINE m == Spawned(id, p)
<1>1. /\ ServerTable \in TableOf /\ OwnersThere(ServerTable)
      /\ ServerTable' \in TableOf /\ OwnersThere(ServerTable')
  BY ServerTableOK, ServerTableOKNext
<1>2. ServerTable' = TableFor(entities', parent') /\ entities' = entities \cup {id}
  BY DEF ServerTable, TableFor, ProcessSpawn
<1>3. id \notin entities /\ parent[id] = NoParent
  BY FreshUnlinked DEF ProcessSpawn, Forest, Allocated
<1>4. parent' = [parent EXCEPT ![id] = p]
  BY <1>3 DEF ProcessSpawn, Link, Forest, TypeOK
<1>5. m \in Message /\ m.id = id /\ Before(m) = {} /\ After(m) = {p}
  BY AreMessages DEF Spawned, Before, After
<1> HIDE DEF m
<1>6. ServerTable[id] = {} /\ ServerTable' = [ServerTable EXCEPT ![id] = {p}]
  BY <1>2, <1>3, <1>4 DEF ServerTable, TableFor, Forest, TypeOK
<1> QED BY <1>1, <1>5, <1>6, SyncedWithOne DEF m

(* A take at the server, announced.                                        *)
LEMMA SyncedTake ==
    ASSUME Forest, Accounted, Forest', Accounted', NEW p \in Ids, NEW e \in Ids,
           ProcessOwnership(p, e), NEW Q \in Seq(Message), NEW al, NEW dy \in SUBSET Ids, NEW ho, NEW reuse,
           Synced(Q, ServerTable, al, dy, ho, reuse)
    PROVE  Synced(Q \o <<Taken(p, e)>>, ServerTable', al, dy, ho, reuse)
<1> DEFINE m == Taken(p, e)
<1>1. /\ ServerTable \in TableOf /\ OwnersThere(ServerTable)
      /\ ServerTable' \in TableOf /\ OwnersThere(ServerTable')
  BY ServerTableOK, ServerTableOKNext
<1>2. ServerTable' = TableFor(entities', parent') /\ entities' = entities
  BY DEF ServerTable, TableFor, ProcessOwnership
<1>3. e \in entities /\ parent[e] = NoParent /\ parent' = [parent EXCEPT ![e] = p]
  BY DEF ProcessOwnership, Ownable, Link
<1>5. m \in Message /\ m.id = e /\ Before(m) = {NoParent} /\ After(m) = {p} /\ m.type # "spawn"
  BY AreMessages DEF Taken, Before, After
<1> HIDE DEF m
<1>6. ServerTable[e] = {NoParent} /\ ServerTable' = [ServerTable EXCEPT ![e] = {p}]
  BY <1>2, <1>3 DEF ServerTable, TableFor, Forest, TypeOK
<1> QED BY <1>1, <1>5, <1>6, SyncedWithOne DEF m

-----------------------------------------------------------------------------
(* There are finitely many farewells: ids are.                             *)
LEMMA FarewellsFinite ==
    ASSUME TypeOK, NEW T \in SUBSET Ids
    PROVE  Cardinality(Farewells(T)) \in Nat
<1> DEFINE R == {y \in T : parent[y] # NoParent}
           f == [x \in R |-> Rejected(parent[x], x)]
           g == [x \in T |-> Destroyed(x)]
           A == {Rejected(parent[x], x) : x \in R}
           B == {Destroyed(x) : x \in T}
<1>1. IsFiniteSet(T) /\ IsFiniteSet(R)
  <2>1. R \in SUBSET Ids
    OBVIOUS
  <2> QED BY <2>1, IdsAssumption, FS_Subset
<1>2. f \in Surjection(R, A) /\ g \in Surjection(T, B)
  BY DEF Surjection
<1>3. IsFiniteSet(A)
  BY <1>1, <1>2, FS_Surjection
<1>4. IsFiniteSet(B)
  BY <1>1, <1>2, FS_Surjection
<1>5. IsFiniteSet(A \cup B)
  BY <1>3, <1>4, FS_Union
<1>6. Farewells(T) = A \cup B
  BY DEF Farewells
<1> QED BY <1>5, <1>6, FS_CardinalityType

(* What every order of the farewells has in common: each is sent once, and *)
(* Destroyed(x) after all that concerns what hangs below x.                *)
InOrder(m, T) ==
    /\ m \in [1 .. Len(m) -> Farewells(T)]
    /\ m \in Seq(Message)
    /\ \A j, k \in 1 .. Len(m) : j # k => m[j] # m[k]
    /\ \A x \in T : \E last \in 1 .. Len(m) :
           /\ m[last] = Destroyed(x)
           /\ \A k \in 1 .. Len(m) : m[k].id \in Subtree(x) => k <= last
           /\ parent[x] # NoParent =>
                 \E k \in 1 .. Len(m) : k <= last /\ m[k] = Rejected(parent[x], x)

(* Every order the code may choose keeps that.                             *)
LEMMA DismantledInOrder ==
    ASSUME TypeOK, NEW r \in Ids, NEW m \in Dismantled(r) \cup TakenApart(r)
    PROVE  InOrder(m, Subtree(r))
<1> DEFINE T == Subtree(r)
           c == Cardinality(Farewells(T))
<1>1. T \in SUBSET Ids
  BY DEF Subtree
<1>2. c \in Nat
  BY <1>1, FarewellsFinite
<1>3. m \in SetToSeqs(Farewells(T))
  BY DEF Dismantled, TakenApart
<1> HIDE DEF c
<1>4. /\ m \in [1 .. c -> Farewells(T)]
      /\ \A i, j \in 1 .. c : i # j => m[i] # m[j]
  BY <1>3 DEF SetToSeqs, c
<1>5. Farewells(T) \subseteq Message
  BY <1>1, AreMessages DEF Farewells, TypeOK
<1>6. m \in Seq(Message) /\ Len(m) = c
  BY <1>2, <1>4, <1>5
<1>7. ASSUME NEW x \in T
      PROVE  \E last \in 1 .. c :
                /\ m[last] = Destroyed(x)
                /\ \A k \in 1 .. c : m[k].id \in Subtree(x) => k <= last
                /\ parent[x] # NoParent =>
                      \E k \in 1 .. c : k <= last /\ m[k] = Rejected(parent[x], x)
  <2>0. DOMAIN m = 1 .. c
    BY <1>4
  <2>1. PICK first \in 1 .. c, last \in 1 .. c :
            /\ InOnePiece(m, x, Subtree(x), first, last)
            /\ parent[x] # NoParent => \/ first < last /\ m[last - 1] = Rejected(parent[x], x)
                                       \/ m[first] = Rejected(parent[x], x)
    BY <2>0 DEF Dismantled, TakenApart
  <2>2. m[last] = Destroyed(x) /\ \A k \in 1 .. c : m[k].id \in Subtree(x) => k \in first .. last
    BY <2>0, <2>1 DEF InOnePiece
  <2>3. first <= last
    <3>1. last \in first .. last
      <4>1. last \in {k \in DOMAIN m : m[k].id \in Subtree(x)}
        BY <2>0, <2>2, <1>1, SubtreeRoot DEF Destroyed
      <4> QED BY <4>1, <2>1 DEF InOnePiece
    <3> QED BY <3>1, <1>2
  <2>4. first < last => last - 1 \in 1 .. c /\ last - 1 <= last
    BY <1>2
  <2>5. \A k \in first .. last : k <= last
    BY <1>2
  <2> QED BY <2>1, <2>2, <2>3, <2>4, <2>5
<1> QED BY <1>4, <1>6, <1>7 DEF InOrder

(* The server serves all that hangs below what it serves.                  *)
LEMMA SubtreeServed ==
    ASSUME Forest, Accounted, NEW r \in Ids, r \in entities
    PROVE  Subtree(r) \subseteq entities
<1>1. Closed(entities)
  BY IdsAssumption DEF Closed, Kids, Forest, TypeOK, Linked, Accounted, LinksInside
<1> QED BY <1>1 DEF Subtree, Forest, TypeOK

(* The history the farewells tell, from the table of the server to the one *)
(* without T.                                                              *)
LEMMA FarewellsTold ==
    ASSUME Forest, Accounted, NEW r \in Ids, r \in entities, NEW m,
           InOrder(m, Subtree(r))
    PROVE  \E U : /\ Views(U, m)
                  /\ U[1] = ServerTable
                  /\ U[Len(m) + 1] = TableFor(entities \ Subtree(r), parent)
                  /\ \A k \in 1 .. Len(m) : m[k].type = "destroy" =>
                        \A l \in k + 1 .. Len(m) + 1 : U[l][m[k].id] = {}
                  /\ \A c \in Ids : ServerTable[c] = {} =>
                        \A l \in 1 .. Len(m) + 1 : U[l][c] = {}
<1> DEFINE T == Subtree(r)
           n == Len(m)
           Gone(k, x) == \E i \in 1 .. k - 1 : m[i] = Destroyed(x)
           Left(k, x) == \E i \in 1 .. k - 1 : m[i] = Rejected(parent[x], x)
           At(k, x) == IF x \notin T THEN ServerTable[x]
                       ELSE IF Gone(k, x) THEN {}
                       ELSE IF Left(k, x) THEN {NoParent} ELSE {parent[x]}
<1>1. T \subseteq Ids /\ T \subseteq entities /\ r \in T
  BY SubtreeServed, SubtreeRoot DEF Subtree
<1>2. /\ \A x \in Ids : parent[x] \in T => x \in T
      /\ \A x \in T : x # r => parent[x] \in T
  BY SubtreeBorder
<1>3. /\ n \in Nat /\ m \in [1 .. n -> Farewells(T)] /\ m \in Seq(Message)
      /\ \A j, k \in 1 .. n : j # k => m[j] # m[k]
      /\ \A x \in T : \E last \in 1 .. n :
           /\ m[last] = Destroyed(x)
           /\ \A k \in 1 .. n : m[k].id \in Subtree(x) => k <= last
           /\ parent[x] # NoParent =>
                 \E k \in 1 .. n : k <= last /\ m[k] = Rejected(parent[x], x)
  BY DEF InOrder
<1>4. /\ parent \in [Ids -> Ids \cup {NoParent}]
      /\ \A x \in Ids : x \in Subtree(x)
      /\ \A x \in T : parent[x] \in T => x \in Subtree(parent[x])
  <2>1. ASSUME NEW x \in T, parent[x] \in T PROVE x \in Subtree(parent[x])
    <3>1. x \in Kids(parent[x]) /\ parent[x] \in Ids
      BY <1>1, <2>1 DEF Kids, Forest, Linked
    <3> QED BY <3>1, SubtreeRoot, SubtreeClosed DEF Closed
  <2> QED BY <2>1, SubtreeRoot DEF Forest, TypeOK
<1>5. /\ ServerTable \in TableOf /\ OwnersThere(ServerTable)
      /\ \A x \in T : ServerTable[x] = {parent[x]}
  BY <1>1, ServerTableOK DEF ServerTable, TableFor
<1> HIDE DEF T, n
<1>6. \A k \in 1 .. n : \E x \in T : m[k] = Destroyed(x) \/ m[k] = Rejected(parent[x], x)
  BY <1>3 DEF Farewells
<1>7. \A x, y, p, q : /\ Destroyed(x) # Rejected(p, y)
                      /\ Destroyed(x) = Destroyed(y) => x = y
                      /\ Rejected(p, x) = Rejected(q, y) => x = y
                      /\ Destroyed(x).id = x /\ Rejected(p, x).id = x
                      /\ Before(Destroyed(x)) = {NoParent} /\ After(Destroyed(x)) = {}
                      /\ Before(Rejected(p, x)) = {p} /\ After(Rejected(p, x)) = {NoParent}
                      /\ Rejected(p, x).type # "destroy"
  BY DEF Destroyed, Rejected, Before, After
<1>8. \A k \in 1 .. n : \A x :
          /\ Gone(k + 1, x) <=> Gone(k, x) \/ m[k] = Destroyed(x)
          /\ Left(k + 1, x) <=> Left(k, x) \/ m[k] = Rejected(parent[x], x)
  <2> TAKE k \in 1 .. n
  <2>1. \A i : i \in 1 .. (k + 1) - 1 <=> i \in 1 .. k - 1 \/ i = k
    BY <1>3
  <2> QED BY <2>1
(* Destroyed(x) comes once, after Rejected(parent[x], x).                  *)
<1>9. ASSUME NEW x \in T, NEW k \in 1 .. n, m[k] = Destroyed(x)
      PROVE  ~Gone(k, x) /\ (parent[x] # NoParent => Left(k, x))
  <2>1. \A i \in 1 .. k - 1 : i \in 1 .. n /\ i # k
    BY <1>3
  <2>2. ~Gone(k, x)
    BY <2>1, <1>3, <1>9
  <2>3. ASSUME parent[x] # NoParent PROVE Left(k, x)
    <3>1. PICK last \in 1 .. n, i \in 1 .. n :
              m[last] = Destroyed(x) /\ i <= last /\ m[i] = Rejected(parent[x], x)
      BY <1>3, <2>3
    <3>2. last = k
      BY <3>1, <1>3, <1>9
    <3>3. i # k
      BY <3>1, <1>7, <1>9
    <3>4. i \in 1 .. k - 1
      BY <1>3, <3>1, <3>2, <3>3
    <3> QED BY <3>1, <3>4
  <2> QED BY <2>2, <2>3
(* Nothing that concerns what hangs below x comes after Destroyed(x).      *)
<1>10. ASSUME NEW x \in T, NEW k \in 1 .. n, m[k].id \in Subtree(x)
       PROVE  ~Gone(k, x)
  <2> SUFFICES ASSUME NEW i \in 1 .. k - 1, m[i] = Destroyed(x)
               PROVE  FALSE
    OBVIOUS
  <2>1. PICK last \in 1 .. n : m[last] = Destroyed(x) /\ k <= last
    BY <1>3, <1>10
  <2>2. i \in 1 .. n /\ i < k
    BY <1>3
  <2>3. i = last
    BY <2>1, <2>2, <1>3
  <2> QED BY <2>1, <2>2, <2>3, <1>3
<1>11. ASSUME NEW x \in T, NEW k \in 1 .. n, m[k] = Rejected(parent[x], x)
       PROVE  ~Gone(k, x) /\ ~Left(k, x)
  <2>1. \A i \in 1 .. k - 1 : i \in 1 .. n /\ i # k
    BY <1>3
  <2>2. ~Left(k, x)
    BY <2>1, <1>3, <1>11
  <2>3. m[k].id \in Subtree(x)
    BY <1>1, <1>4, <1>7, <1>11
  <2> QED BY <2>2, <2>3, <1>10
<1>12. /\ \A x : ~Gone(1, x) /\ ~Left(1, x)
       /\ \A x \in T : Gone(n + 1, x)
       /\ \A k, j \in 1 .. n + 1 : \A x : k <= j /\ Gone(k, x) => Gone(j, x)
  <2>1. \A x \in T : Gone(n + 1, x)
    <3>1. (n + 1) - 1 = n
      BY <1>3
    <3> QED BY <3>1, <1>3
  <2>2. \A k, j \in 1 .. n + 1 : k <= j => \A i \in 1 .. k - 1 : i \in 1 .. j - 1
    BY <1>3
  <2>3. \A i \in 1 .. 1 - 1 : FALSE
    OBVIOUS
  <2> QED BY <2>1, <2>2, <2>3
(* An owner that goes as well goes later than what it owns.                *)
<1>13. ASSUME NEW k \in 1 .. n + 1, NEW e \in T, parent[e] \in T, ~Left(k, e)
       PROVE  ~Gone(k, parent[e])
  <2>0. parent[e] # NoParent
    BY <1>1, <1>13, IdsAssumption
  <2>1. PICK j \in 1 .. n : m[j] = Rejected(parent[e], e)
    BY <1>3, <2>0
  <2>2. k <= j
    <3> SUFFICES ASSUME ~(k <= j) PROVE j \in 1 .. k - 1
      BY <2>1, <1>13
    <3> QED BY <1>3
  <2>3. m[j].id \in Subtree(parent[e])
    BY <1>4, <1>7, <1>13, <2>1
  <2>4. ~Gone(j, parent[e])
    BY <1>10, <1>13, <2>3
  <2>5. j \in 1 .. n + 1
    BY <1>3
  <2> QED BY <1>12, <2>2, <2>4, <2>5
<1> HIDE DEF Gone, Left
<1> DEFINE U == [k \in 1 .. n + 1 |-> [x \in Ids |-> At(k, x)]]
<1>14. \A k \in 1 .. n + 1 : \A x \in Ids :
           U[k][x] = IF x \notin T THEN ServerTable[x]
                     ELSE IF Gone(k, x) THEN {}
                     ELSE IF Left(k, x) THEN {NoParent} ELSE {parent[x]}
  OBVIOUS
<1>15. U \in [1 .. n + 1 -> TableOf]
  <2>1. ASSUME NEW k \in 1 .. n + 1 PROVE [x \in Ids |-> At(k, x)] \in TableOf
    <3>1. \A x \in Ids : At(k, x) \in SUBSET (Ids \cup {NoParent})
      BY <1>4, <1>5 DEF TableOf
    <3> HIDE DEF At
    <3> QED BY <3>1 DEF TableOf
  <2> HIDE DEF At
  <2> QED BY <2>1
<1> HIDE DEF U
<1>16. \A k \in 1 .. n + 1 : OwnersThere(U[k])
  <2> SUFFICES ASSUME NEW k \in 1 .. n + 1, NEW e \in Ids, NEW p \in Ids, U[k][e] = {p}
               PROVE  U[k][p] # {}
    BY DEF OwnersThere
  <2>1. CASE e \notin T
    <3>1. ServerTable[e] = {p}
      BY <1>14, <2>1
    <3>2. parent[e] = p
      BY <3>1 DEF ServerTable, TableFor
    <3>3. p \notin T
      BY <1>2, <2>1, <3>2
    <3> QED BY <1>5, <1>14, <3>1, <3>3 DEF OwnersThere
  <2>2. CASE e \in T
    <3>1. ~Left(k, e) /\ parent[e] = p
      BY <1>14, <2>2, IdsAssumption
    <3>2. CASE p \in T
      <4>1. ~Gone(k, p)
        BY <1>13, <2>2, <3>1, <3>2
      <4> QED BY <1>14, <3>2, <4>1
    <3>3. CASE p \notin T
      BY <1>5, <1>14, <2>2, <3>1, <3>3 DEF OwnersThere
    <3> QED BY <3>2, <3>3
  <2> QED BY <2>1, <2>2
<1>17. ASSUME NEW k \in 1 .. n
       PROVE  /\ U[k][m[k].id] = Before(m[k])
              /\ U[k + 1] = [U[k] EXCEPT ![m[k].id] = After(m[k])]
  <2>0. k \in 1 .. n + 1 /\ k + 1 \in 1 .. n + 1
    BY <1>3
  <2>1. PICK x \in T : m[k] = Destroyed(x) \/ m[k] = Rejected(parent[x], x)
    BY <1>6
  <2>2. m[k].id = x /\ x \in Ids
    BY <1>1, <1>7, <2>1
  <2>3. U[k] \in [Ids -> SUBSET (Ids \cup {NoParent})] /\ U[k + 1] \in [Ids -> SUBSET (Ids \cup {NoParent})]
    BY <1>15, <2>0 DEF TableOf
  <2>4. ASSUME NEW y \in Ids, y # x PROVE U[k + 1][y] = U[k][y]
    <3>1. m[k] # Destroyed(y) /\ m[k] # Rejected(parent[y], y)
      BY <1>7, <2>1, <2>4
    <3>2. (Gone(k + 1, y) <=> Gone(k, y)) /\ (Left(k + 1, y) <=> Left(k, y))
      BY <1>8, <3>1
    <3> QED BY <1>14, <2>0, <3>2
  <2>5. U[k][x] = Before(m[k]) /\ U[k + 1][x] = After(m[k])
    <3>1. CASE m[k] = Destroyed(x)
      <4>1. ~Gone(k, x) /\ (parent[x] # NoParent => Left(k, x)) /\ Gone(k + 1, x)
        BY <1>8, <1>9, <3>1
      <4>2. Before(m[k]) = {NoParent} /\ After(m[k]) = {}
        BY <1>7, <3>1
      <4> QED BY <1>14, <2>0, <2>2, <4>1, <4>2
    <3>2. CASE m[k] = Rejected(parent[x], x)
      <4>1. ~Gone(k, x) /\ ~Left(k, x)
        BY <1>11, <3>2
      <4>2. m[k] # Destroyed(x)
        BY <1>7, <3>2
      <4>3. ~Gone(k + 1, x) /\ Left(k + 1, x)
        BY <1>8, <3>2, <4>1, <4>2
      <4>4. Before(m[k]) = {parent[x]} /\ After(m[k]) = {NoParent}
        BY <1>7, <3>2
      <4> QED BY <1>14, <2>0, <2>2, <4>1, <4>3, <4>4
    <3> QED BY <2>1, <3>1, <3>2
  <2>6. U[k + 1] = [U[k] EXCEPT ![x] = After(m[k])]
    BY <2>2, <2>3, <2>4, <2>5
  <2> QED BY <2>2, <2>5, <2>6
<1>18. Views(U, m)
  BY <1>15, <1>16, <1>17 DEF Views, n
<1>19. 1 \in 1 .. n + 1 /\ n + 1 \in 1 .. n + 1
  BY <1>3
<1>20. U[1] = ServerTable
  <2>1. U[1] \in [Ids -> SUBSET (Ids \cup {NoParent})] /\ ServerTable \in [Ids -> SUBSET (Ids \cup {NoParent})]
    BY <1>5, <1>15, <1>19 DEF TableOf
  <2>2. \A x \in Ids : U[1][x] = ServerTable[x]
    BY <1>5, <1>12, <1>14, <1>19
  <2> QED BY <2>1, <2>2
<1>21. U[n + 1] = TableFor(entities \ T, parent)
  <2>1. U[n + 1] \in [Ids -> SUBSET (Ids \cup {NoParent})]
    BY <1>15, <1>19 DEF TableOf
  <2>2. ASSUME NEW x \in Ids PROVE U[n + 1][x] = IF x \in entities \ T THEN {parent[x]} ELSE {}
    BY <1>12, <1>14, <1>19 DEF ServerTable, TableFor
  <2> QED BY <2>1, <2>2 DEF TableFor
<1>22. ASSUME NEW k \in 1 .. n, m[k].type = "destroy", NEW l \in k + 1 .. n + 1
       PROVE  U[l][m[k].id] = {}
  <2>1. PICK x \in T : m[k] = Destroyed(x)
    BY <1>6, <1>7, <1>22
  <2>2. k + 1 \in 1 .. n + 1 /\ l \in 1 .. n + 1 /\ k + 1 <= l
    BY <1>3
  <2>3. Gone(l, x)
    BY <1>8, <1>12, <2>1, <2>2
  <2>4. m[k].id = x
    BY <1>7, <2>1
  <2> QED BY <1>1, <1>14, <2>1, <2>2, <2>3, <2>4
<1>23. ASSUME NEW c \in Ids, ServerTable[c] = {}, NEW l \in 1 .. n + 1
       PROVE  U[l][c] = {}
  <2>1. c \notin T
    BY <1>5, <1>23
  <2> QED BY <1>14, <1>23, <2>1
<1> QED BY <1>18, <1>20, <1>21, <1>22, <1>23 DEF n, T

(* Nothing but a subtree goes, and all of it.                              *)
LEMMA SyncedFarewells ==
    ASSUME Forest, Accounted, NEW r \in Ids, r \in entities, NEW m,
           m \in Dismantled(r) \cup TakenApart(r),
           NEW Q \in Seq(Message), NEW al, NEW dy \in SUBSET Ids, NEW ho, NEW reuse,
           Synced(Q, ServerTable, al, dy, ho, reuse)
    PROVE  /\ Synced(Q \o m, TableFor(entities \ Subtree(r), parent), al, dy, ho, reuse)
           /\ m \in Seq(Message)
           /\ \A k \in 1 .. Len(m) : m[k].id \in Subtree(r)
           /\ \A x \in Subtree(r) : DestructionAwaited(m, x)
           /\ \A k \in 1 .. Len(m) : m[k].type # "spawn"
<1>1. InOrder(m, Subtree(r))
  BY DismantledInOrder DEF Forest
<1>2. PICK U : /\ Views(U, m)
               /\ U[1] = ServerTable
               /\ U[Len(m) + 1] = TableFor(entities \ Subtree(r), parent)
               /\ \A k \in 1 .. Len(m) : m[k].type = "destroy" =>
                        \A l \in k + 1 .. Len(m) + 1 : U[l][m[k].id] = {}
               /\ \A c \in Ids : ServerTable[c] = {} =>
                        \A l \in 1 .. Len(m) + 1 : U[l][c] = {}
  BY <1>1, FarewellsTold
<1>3. m \in Seq(Message)
  BY <1>1 DEF InOrder
<1>4. ~reuse => /\ \A k \in 1 .. Len(m) : m[k].type = "destroy" =>
                      \A l \in k + 1 .. Len(m) + 1 : U[l][m[k].id] = {}
                /\ \A c \in Ids : ServerTable[c] = {} /\ (c \in dy \/ DestructionAwaited(Q, c)) =>
                      \A l \in 1 .. Len(m) + 1 : U[l][c] = {}
  BY <1>2
<1>5. Synced(Q \o m, U[Len(m) + 1], al, dy, ho, reuse)
  <2>1. Views(U, m) /\ U[1] = ServerTable
    BY <1>2
  <2> QED BY ONLY <2>1, <1>3, <1>4, SyncedWithMore, Q \in Seq(Message),
             dy \in SUBSET Ids,
                  Synced(Q, ServerTable, al, dy, ho, reuse)
<1>6. \A k \in 1 .. Len(m) : m[k].id \in Subtree(r) /\ m[k].type # "spawn"
  <2> TAKE k \in 1 .. Len(m)
  <2>1. m[k] \in Farewells(Subtree(r))
    BY <1>1 DEF InOrder
  <2> QED BY <2>1 DEF Farewells, Destroyed, Rejected
<1>7. \A x \in Subtree(r) : DestructionAwaited(m, x)
  <2> TAKE x \in Subtree(r)
  <2>1. PICK last \in 1 .. Len(m) : m[last] = Destroyed(x)
    BY <1>1 DEF InOrder
  <2>2. m[last].type = "destroy" /\ m[last].id = x
    BY <2>1 DEF Destroyed
  <2> QED BY <2>2 DEF DestructionAwaited
<1> QED BY <1>2, <1>3, <1>5, <1>6, <1>7

-----------------------------------------------------------------------------
(* The messages of AddOnline for o and its items in the order c.           *)
Arrivals(o, c) == <<Spawned(o, NoParent)>> \o [n \in DOMAIN c |-> Spawned(c[n], o)]

(* The spawns of an object and of what it owns: each one once, the owner   *)
(* first.                                                                  *)
LEMMA SpawnsInOrder ==
    ASSUME Forest, NEW o \in Ids, parent[o] = NoParent, NEW c \in SetToSeqs(Kids(o)),
           NEW m, m = Arrivals(o, c)
    PROVE  /\ m \in Seq(Message) /\ Len(m) \in Nat /\ Len(m) >= 1 /\ m[1].id = o
           /\ \A k \in 1 .. Len(m) : /\ m[k].id \in {o} \cup Kids(o)
                                     /\ m[k] = Spawned(m[k].id, parent[m[k].id])
           /\ \A j, k \in 1 .. Len(m) : j # k => m[j].id # m[k].id
           /\ \A x \in {o} \cup Kids(o) : \E k \in 1 .. Len(m) : m[k].id = x
<1> DEFINE K == Kids(o)
           n == Cardinality(K)
           d == [i \in DOMAIN c |-> Spawned(c[i], o)]
<1>1. K \in SUBSET Ids /\ (\A x \in K : parent[x] = o) /\ o \notin K
  BY IdsAssumption DEF Kids, Forest, TypeOK, Linked
<1>2. IsFiniteSet(K) /\ n \in Nat
  BY <1>1, IdsAssumption, FS_Subset, FS_CardinalityType
<1>3. c \in [1 .. n -> K] /\ \A i, j \in 1 .. n : i # j => c[i] # c[j]
  BY DEF SetToSeqs
<1>4. c \in Injection(1 .. n, K)
  BY <1>3 DEF Injection, IsInjective
<1>5. Cardinality(1 .. n) = Cardinality(K)
  BY <1>2, FS_Interval
<1>6. c \in Surjection(1 .. n, K)
  BY <1>2, <1>4, <1>5, FS_Injection
<1>7. \A x \in K : \E i \in 1 .. n : c[i] = x
  BY <1>6 DEF Surjection
<1> HIDE DEF n, K
<1>8. \A x \in Ids : \A p \in Ids \cup {NoParent} :
          Spawned(x, p) \in Message /\ Spawned(x, p).id = x
  BY AreMessages DEF Spawned
<1>9. d = [i \in 1 .. n |-> Spawned(c[i], o)]
  BY <1>3
<1>10. d \in Seq(Message) /\ Len(d) = n /\ \A i \in 1 .. n : d[i] = Spawned(c[i], o)
  <2>1. \A i \in 1 .. n : Spawned(c[i], o) \in Message
    BY <1>1, <1>3, <1>8
  <2> HIDE DEF d
  <2> QED BY <1>2, <1>9, <2>1
<1> HIDE DEF d
<1>11. m = <<Spawned(o, NoParent)>> \o d
  BY DEF d, Arrivals
<1>12. /\ m \in Seq(Message) /\ Len(m) = n + 1 /\ m[1] = Spawned(o, NoParent)
       /\ \A i \in 1 .. n : m[i + 1] = d[i]
  <2>1. Spawned(o, NoParent) \in Message
    BY <1>8
  <2> QED BY <1>2, <1>10, <1>11, <2>1
<1>13. \A k \in 1 .. n + 1 : k = 1 \/ \E i \in 1 .. n : k = i + 1
  <2> TAKE k \in 1 .. n + 1
  <2>1. k # 1 => k - 1 \in 1 .. n /\ k = (k - 1) + 1
    BY <1>2
  <2> QED BY <2>1
<1>14. \A i \in 1 .. n : m[i + 1] = Spawned(c[i], o) /\ m[i + 1].id = c[i] /\ i + 1 \in 1 .. n + 1
  BY <1>1, <1>2, <1>3, <1>8, <1>10, <1>12
<1>15. m[1].id = o /\ 1 \in 1 .. n + 1
  BY <1>2, <1>8, <1>12
<1>16. ASSUME NEW k \in 1 .. n + 1
       PROVE  m[k].id \in {o} \cup K /\ m[k] = Spawned(m[k].id, parent[m[k].id])
  <2>1. CASE k = 1
    BY <1>12, <1>15, <2>1
  <2>2. CASE k # 1
    <3>1. PICK i \in 1 .. n : k = i + 1
      BY <1>13, <2>2
    <3> QED BY <1>1, <1>3, <1>14, <3>1
  <2> QED BY <2>1, <2>2
<1>17. ASSUME NEW j \in 1 .. n + 1, NEW k \in 1 .. n + 1, j # k
       PROVE  m[j].id # m[k].id
  <2>1. CASE j = 1 \/ k = 1
    <3>1. PICK i \in 1 .. n : j = i + 1 \/ k = i + 1
      BY <1>13, <1>17, <2>1
    <3>2. c[i] # o
      BY <1>1, <1>3
    <3> QED BY <1>14, <1>15, <1>17, <2>1, <3>1, <3>2
  <2>2. CASE j # 1 /\ k # 1
    <3>1. PICK a \in 1 .. n, b \in 1 .. n : j = a + 1 /\ k = b + 1
      BY <1>13, <2>2
    <3> QED BY <1>3, <1>14, <1>17, <3>1
  <2> QED BY <2>1, <2>2
<1>18. \A x \in {o} \cup K : \E k \in 1 .. n + 1 : m[k].id = x
  BY <1>7, <1>14, <1>15
<1>19. Len(m) = n + 1 /\ n + 1 \in Nat /\ n + 1 >= 1
  BY <1>2, <1>12
<1>20. \A k \in 1 .. Len(m) : m[k].id \in {o} \cup K /\ m[k] = Spawned(m[k].id, parent[m[k].id])
  BY <1>16, <1>19
<1>21. \A j, k \in 1 .. Len(m) : j # k => m[j].id # m[k].id
  BY <1>17, <1>19
<1>22. \A x \in {o} \cup K : \E k \in 1 .. Len(m) : m[k].id = x
  BY <1>18, <1>19
<1> QED BY <1>12, <1>15, <1>19, <1>20, <1>21, <1>22 DEF K

(* An object comes online with what it owns, announced owner first.        *)
LEMMA SyncedOnline ==
    ASSUME Disciplined, Forest, Accounted, Forest', Accounted', NEW o \in Ids,
           AddOnline(o),
           NEW c \in SetToSeqs(Kids(o)),
           NEW m, m = Arrivals(o, c),
           NEW Q \in Seq(Message), NEW al, NEW dy \in SUBSET Ids, NEW ho, NEW reuse,
           Synced(Q, ServerTable, al, dy, ho, reuse),
           ~reuse => \A x \in {o} \cup Kids(o) : x \notin dy /\ ~DestructionAwaited(Q, x)
    PROVE  Synced(Q \o m, ServerTable', al, dy, ho, reuse) /\ m \in Seq(Message)
<1> DEFINE G == {o} \cup Kids(o)
           n == Len(m)
           Done(k, x) == \E i \in 1 .. k - 1 : m[i].id = x
           At(k, x) == IF x \in G THEN IF Done(k, x) THEN {parent[x]} ELSE {}
                       ELSE ServerTable[x]
<1>1. parent[o] = NoParent /\ o \notin entities
  BY DEF AddOnline, Accounted
<1>2. /\ m \in Seq(Message) /\ n \in Nat /\ n >= 1 /\ m[1].id = o
      /\ \A k \in 1 .. n : m[k].id \in G /\ m[k] = Spawned(m[k].id, parent[m[k].id])
      /\ \A j, k \in 1 .. n : j # k => m[j].id # m[k].id
      /\ \A x \in G : \E k \in 1 .. n : m[k].id = x
  <2> HIDE DEF G, n
  <2>1. /\ m \in Seq(Message) /\ Len(m) \in Nat /\ Len(m) >= 1 /\ m[1].id = o
        /\ \A k \in 1 .. Len(m) : /\ m[k].id \in {o} \cup Kids(o)
                                   /\ m[k] = Spawned(m[k].id, parent[m[k].id])
        /\ \A j, k \in 1 .. Len(m) : j # k => m[j].id # m[k].id
        /\ \A x \in {o} \cup Kids(o) : \E k \in 1 .. Len(m) : m[k].id = x
    BY <1>1, SpawnsInOrder
  <2> QED BY <2>1 DEF G, n
<1>3. /\ G \subseteq Ids
      /\ \A x \in G : x # o => parent[x] = o
      /\ \A x \in G : x \notin entities
      /\ entities' = entities \cup G /\ parent' = parent
  <2>1. Kids(o) \subseteq Ids /\ \A x \in Kids(o) : parent[x] = o
    BY DEF Kids, Forest, Linked
  <2>2. \A x \in Kids(o) : x \notin entities
    BY <1>1, <2>1, IdsAssumption DEF Accounted, LinksInside
  <2>3. ASSUME NEW x \in Kids(o) PROVE o \in Boxes
    <3>1. <<o, x>> \in MayHold /\ x \in used
      BY <2>1, IdsAssumption DEF Forest, Allocated
    <3>2. x \in Savable
      BY <2>2, <3>1 DEF Accounted, IdsAccounted
    <3> QED BY <2>1, <3>1, <3>2 DEF Disciplined
  <2>4. EntersMap(o) = G
    BY <2>3 DEF EntersMap
  <2>5. entities' = entities \cup EntersMap(o) /\ parent' = parent
    BY DEF AddOnline
  <2> QED BY <1>1, <2>1, <2>2, <2>4, <2>5
<1>4. /\ ServerTable \in TableOf /\ OwnersThere(ServerTable)
      /\ ServerTable' = TableFor(entities', parent')
  BY ServerTableOK DEF ServerTable, TableFor
<1>5. parent \in [Ids -> Ids \cup {NoParent}] /\ entities \subseteq Ids
  BY DEF Forest, TypeOK
<1> HIDE DEF G, n
<1>6. \A x, p : Before(Spawned(x, p)) = {} /\ After(Spawned(x, p)) = {p}
                /\ Spawned(x, p).type # "destroy"
  BY DEF Spawned, Before, After
<1>7. \A k \in 1 .. n : \A x : Done(k + 1, x) <=> Done(k, x) \/ m[k].id = x
  <2> TAKE k \in 1 .. n
  <2>1. \A i : i \in 1 .. (k + 1) - 1 <=> i \in 1 .. k - 1 \/ i = k
    BY <1>2
  <2> QED BY <2>1
<1>8. \A k \in 1 .. n : ~Done(k, m[k].id)
  <2> TAKE k \in 1 .. n
  <2>1. \A i \in 1 .. k - 1 : i \in 1 .. n /\ i # k
    BY <1>2
  <2> QED BY <1>2, <2>1
<1>9. \A x : ~Done(1, x)
  <2>1. \A i \in 1 .. 1 - 1 : FALSE
    OBVIOUS
  <2> QED BY <2>1
<1>10. \A x \in G : Done(n + 1, x)
  <2>1. (n + 1) - 1 = n
    BY <1>2
  <2> QED BY <1>2, <2>1
<1>11. \A k \in 1 .. n + 1 : \A x : Done(k, x) => Done(k, o)
  <2> TAKE k \in 1 .. n + 1
  <2>1. \A i \in 1 .. k - 1 : 1 \in 1 .. k - 1
    BY <1>2
  <2> QED BY <1>2, <2>1
<1> HIDE DEF Done
<1> DEFINE U == [k \in 1 .. n + 1 |-> [x \in Ids |-> At(k, x)]]
<1>12. \A k \in 1 .. n + 1 : \A x \in Ids :
           U[k][x] = IF x \in G THEN IF Done(k, x) THEN {parent[x]} ELSE {}
                     ELSE ServerTable[x]
  OBVIOUS
<1>13. U \in [1 .. n + 1 -> TableOf]
  <2>1. ASSUME NEW k \in 1 .. n + 1 PROVE [x \in Ids |-> At(k, x)] \in TableOf
    <3>1. \A x \in Ids : At(k, x) \in SUBSET (Ids \cup {NoParent})
      BY <1>4, <1>5 DEF TableOf
    <3> HIDE DEF At
    <3> QED BY <3>1 DEF TableOf
  <2> HIDE DEF At
  <2> QED BY <2>1
<1> HIDE DEF U
<1>14. \A k \in 1 .. n + 1 : OwnersThere(U[k])
  <2> SUFFICES ASSUME NEW k \in 1 .. n + 1, NEW e \in Ids, NEW p \in Ids, U[k][e] = {p}
               PROVE  U[k][p] # {}
    BY DEF OwnersThere
  <2>1. CASE e \in G
    <3>1. Done(k, e) /\ parent[e] = p
      BY <1>12, <2>1
    <3>2. p = o /\ Done(k, o)
      BY <1>1, <1>3, <1>11, <2>1, <3>1, IdsAssumption
    <3>3. o \in G
      BY DEF G
    <3> QED BY <1>12, <3>2, <3>3
  <2>2. CASE e \notin G
    <3>1. ServerTable[e] = {p}
      BY <1>12, <2>2
    <3>2. ServerTable[p] # {}
      BY <1>4, <3>1 DEF OwnersThere
    <3>3. p \notin G
      BY <1>3, <3>2 DEF ServerTable, TableFor
    <3> QED BY <1>12, <3>2, <3>3
  <2> QED BY <2>1, <2>2
<1>15. ASSUME NEW k \in 1 .. n
       PROVE  /\ U[k][m[k].id] = Before(m[k])
              /\ U[k + 1] = [U[k] EXCEPT ![m[k].id] = After(m[k])]
  <2> DEFINE x == m[k].id
  <2>0. k \in 1 .. n + 1 /\ k + 1 \in 1 .. n + 1
    BY <1>2
  <2>1. x \in G /\ x \in Ids /\ Before(m[k]) = {} /\ After(m[k]) = {parent[x]}
    <3>1. m[k] = Spawned(x, parent[x]) /\ x \in G
      BY <1>2
    <3> HIDE DEF x
    <3> QED BY <1>3, <1>6, <3>1
  <2>2. U[k] \in [Ids -> SUBSET (Ids \cup {NoParent})] /\ U[k + 1] \in [Ids -> SUBSET (Ids \cup {NoParent})]
    BY <1>13, <2>0 DEF TableOf
  <2>3. ~Done(k, x) /\ Done(k + 1, x)
    BY <1>7, <1>8
  <2> HIDE DEF x
  <2>4. ASSUME NEW y \in Ids, y # x PROVE U[k + 1][y] = U[k][y]
    <3>1. Done(k + 1, y) <=> Done(k, y)
      BY <1>7, <2>4 DEF x
    <3> QED BY <1>12, <2>0, <3>1
  <2>5. U[k][x] = {} /\ U[k + 1][x] = {parent[x]}
    BY <1>12, <2>0, <2>1, <2>3
  <2>6. U[k + 1] = [U[k] EXCEPT ![x] = {parent[x]}]
    BY <2>1, <2>2, <2>4, <2>5
  <2> QED BY <2>1, <2>5, <2>6 DEF x
<1>16. Views(U, m)
  BY <1>13, <1>14, <1>15 DEF Views, n
<1>17. 1 \in 1 .. n + 1 /\ n + 1 \in 1 .. n + 1
  BY <1>2
<1>18. U[1] = ServerTable
  <2>1. U[1] \in [Ids -> SUBSET (Ids \cup {NoParent})] /\ ServerTable \in [Ids -> SUBSET (Ids \cup {NoParent})]
    BY <1>4, <1>13, <1>17 DEF TableOf
  <2>2. ASSUME NEW x \in Ids PROVE U[1][x] = ServerTable[x]
    <3>1. x \in G => ServerTable[x] = {}
      BY <1>3 DEF ServerTable, TableFor
    <3> QED BY <1>9, <1>12, <1>17, <3>1
  <2> QED BY <2>1, <2>2
<1>19. U[n + 1] = ServerTable'
  <2>1. U[n + 1] \in [Ids -> SUBSET (Ids \cup {NoParent})]
    BY <1>13, <1>17 DEF TableOf
  <2>2. ASSUME NEW x \in Ids
        PROVE  U[n + 1][x] = IF x \in entities \cup G THEN {parent[x]} ELSE {}
    BY <1>10, <1>12, <1>17 DEF ServerTable, TableFor
  <2> QED BY <1>3, <1>4, <2>1, <2>2 DEF TableFor
<1>20. ASSUME NEW x \in Ids, x \notin G, ServerTable[x] = {}, NEW l \in 1 .. n + 1
       PROVE  U[l][x] = {}
  BY <1>12, <1>20
<1>21. ~reuse => /\ \A k \in 1 .. Len(m) : m[k].type = "destroy" =>
                      \A l \in k + 1 .. Len(m) + 1 : U[l][m[k].id] = {}
                 /\ \A x \in Ids : ServerTable[x] = {} /\ (x \in dy \/ DestructionAwaited(Q, x)) =>
                      \A l \in 1 .. Len(m) + 1 : U[l][x] = {}
  <2>1. ASSUME NEW k \in 1 .. n PROVE m[k].type # "destroy"
    <3>1. m[k] = Spawned(m[k].id, parent[m[k].id])
      BY <1>2
    <3> QED BY <1>6, <3>1
  <2>2. ASSUME NEW x \in Ids, ~reuse, x \in dy \/ DestructionAwaited(Q, x) PROVE x \notin G
    BY <2>2 DEF G
  <2> QED BY <1>20, <2>1, <2>2 DEF n
<1>22. m \in Seq(Message) /\ U[1] = ServerTable
  BY <1>2, <1>18
<1>23. Synced(Q \o m, U[Len(m) + 1], al, dy, ho, reuse)
  BY ONLY <1>16, <1>21, <1>22, SyncedWithMore, Q \in Seq(Message), dy \in SUBSET Ids,
          Synced(Q, ServerTable, al, dy, ho, reuse)
<1> QED BY <1>19, <1>22, <1>23 DEF n

-----------------------------------------------------------------------------
(* What is below a client object: the object, and nothing that is being    *)
(* destroyed or of no concern to it.                                       *)
LEMMA BelowAlive ==
    ASSUME NEW r \in Ids, r \in Alive, Alive \subseteq Ids
    PROVE  /\ r \in Below(r) /\ Below(r) \subseteq Alive
           /\ (\A i \in Alive : holder[i] = r => i = r) => Below(r) = {r}
<1>1. r \in Below(r)
  BY DEF Below
<1>2. Below(r) \subseteq Alive
  BY DEF Below
<1>3. ASSUME \A i \in Alive : holder[i] = r => i = r, NEW x \in Below(r)
      PROVE  x = r
  <2>1. {r} \in SUBSET Ids
    OBVIOUS
  <2> QED BY <1>3, <2>1 DEF Below
<1> QED BY <1>1, <1>2, <1>3

(* Queues joined are a queue.                                              *)
LEMMA Chained ==
    ASSUME NEW Q \in Seq(Message), NEW R \in Seq(Message)
    PROVE  Q \o R \in Seq(Message)
OBVIOUS

(* All that the server sends are sequences of messages.                    *)
LEMMA SentTyped ==
    ASSUME TypeOK
    PROVE  /\ \A id \in Ids : \A p \in Ids \cup {NoParent} :
                 /\ <<Spawned(id, p)>> \in Seq(Message) /\ <<Taken(p, id)>> \in Seq(Message)
           /\ \A e \in Ids : Detached(e) \in Seq(Message)
           /\ \A r \in Ids : \A m \in Dismantled(r) \cup TakenApart(r) : m \in Seq(Message)
<1>1. \A id \in Ids : \A p \in Ids \cup {NoParent} :
          <<Spawned(id, p)>> \in Seq(Message) /\ <<Taken(p, id)>> \in Seq(Message)
  BY AreMessages
<1>2. ASSUME NEW e \in Ids PROVE Detached(e) \in Seq(Message)
  <2>1. CASE parent[e] = NoParent
    BY <2>1 DEF Detached
  <2>2. CASE parent[e] # NoParent
    <3>1. Rejected(parent[e], e) \in Message
      BY AreMessages DEF TypeOK
    <3> QED BY <2>2, <3>1 DEF Detached
  <2> QED BY <2>1, <2>2
<1>3. ASSUME NEW r \in Ids,
             NEW m \in Dismantled(r) \cup TakenApart(r) PROVE m \in Seq(Message)
  BY DismantledInOrder DEF InOrder
<1> QED BY <1>1, <1>2, <1>3

(* The part of the types the server knows nothing of.                      *)
ClientTypeOK ==
    /\ quickReuse \in Reuse
    /\ wire \in Seq(Message)
    /\ events \in Seq(Message)
    /\ phase \in {"play", "drain"}
    /\ switched \subseteq Ids
    /\ justDestroyed \subseteq Ids
    /\ dying \subseteq present
    /\ present \subseteq Ids
    /\ holder \in [Ids -> Ids \cup {NoParent}]
    /\ failed \in {"none", "no new owner", "another owner", "no such item",
                   "not held", "has a parent", "registered twice"}

(* Types after a step that only sends.                                     *)
LEMMA SentTypeOK ==
    ASSUME ClientTypeOK, NEW m \in Seq(Message), Broadcast(m),
           UNCHANGED <<quickReuse, events, phase, present, dying, holder, failed>>,
           switched' \subseteq Ids, justDestroyed' \subseteq Ids
    PROVE  ClientTypeOK'
<1>1. wire \o m \in Seq(Message)
  BY Chained DEF ClientTypeOK
<1> QED BY <1>1 DEF ClientTypeOK, Broadcast

(* Types after an assertion that fails.                                    *)
LEMMA FailTypeOK ==
    ASSUME ClientTypeOK, UNCHANGED quickReuse,
           NEW what \in {"no new owner", "another owner", "no such item",
                         "not held", "has a parent", "registered twice"}, Fail(what)
    PROVE  ClientTypeOK'
BY DEF ClientTypeOK, Fail, client

(* The first event is a message, and the others remain ones.               *)
LEMMA IncomingTyped ==
    ASSUME ClientTypeOK, events # <<>>
    PROVE  /\ Incoming \in Message /\ Incoming.id \in Ids
           /\ Incoming.owner \in Ids \cup {NoParent}
           /\ Tail(events) \in Seq(Message)
BY TailFacts, MessageFields DEF ClientTypeOK, Incoming

(* Types of what the server sends when p refuses e.                        *)
LEMMA RefusalTyped ==
    ASSUME ClientTypeOK, TypeOK, NEW p, NEW e \in Ids, RejectAtServer(p, e)
    PROVE  wire' \in Seq(Message)
<1>1. wire \o Detached(e) \in Seq(Message)
  BY SentTyped, Chained DEF ClientTypeOK
<1> QED BY <1>1 DEF RejectAtServer, Broadcast, ClientTypeOK

(* Types after the client gave e to p, or did not.                         *)
LEMMA GivenTyped ==
    ASSUME ClientTypeOK, TypeOK, NEW p \in Ids \cup {NoParent}, NEW e \in Ids,
           NEW holders \in [Ids -> Ids \cup {NoParent}], GivenTo(p, e, holders)
    PROVE  wire' \in Seq(Message) /\ holder' \in [Ids -> Ids \cup {NoParent}]
<1>1. CASE holder' = [holders EXCEPT ![e] = p] /\ UNCHANGED wire
  BY <1>1 DEF ClientTypeOK
<1>2. CASE holder' = holders /\ RejectAtServer(p, e)
  BY <1>2, RefusalTyped
<1> QED BY <1>1, <1>2 DEF GivenTo

(* Types after an assertion of giving that fails.                          *)
LEMMA GivingFailsTyped ==
    ASSUME ClientTypeOK, NEW p, NEW e, NEW holders, GivingFails(p, e, holders),
           UNCHANGED quickReuse
    PROVE  ClientTypeOK'
BY FailTypeOK DEF GivingFails

(* Types after a step of the game code.                                    *)
LEMMA GameCodeTyped ==
    ASSUME ClientTypeOK, TypeOK, GameCode, UNCHANGED quickReuse
    PROVE  ClientTypeOK'
<1>1. ASSUME NEW id \in Ids, NEW p \in Ids \cup {NoParent}, ServerSpawn(id, p)
      PROVE  ClientTypeOK'
  <2>1. <<Spawned(id, p)>> \in Seq(Message)
    BY SentTyped
  <2> QED BY <1>1, <2>1, SentTypeOK DEF ServerSpawn, client, ClientTypeOK
<1>2. ASSUME NEW p \in Ids, NEW e \in Ids, RequestTake(p, e)
      PROVE  ClientTypeOK'
  <2>1. CASE NewOwnerGone(p, e)
    BY <1>2, <2>1, FailTypeOK DEF RequestTake, ServerTake
  <2>2. CASE ~NewOwnerGone(p, e)
    <3>1. <<Taken(p, e)>> \in Seq(Message)
      BY SentTyped
    <3> QED BY <1>2, <2>2, <3>1, SentTypeOK DEF RequestTake, ServerTake, client,
               ClientTypeOK
  <2> QED BY <2>1, <2>2
<1>3. ASSUME NEW p \in Ids, NEW e \in Ids, RequestReject(p, e)
      PROVE  ClientTypeOK'
  <2>1. CASE OwnedByAnother(p, e)
    BY <1>3, <2>1, FailTypeOK DEF RequestReject, ServerReject
  <2>2. CASE ~OwnedByAnother(p, e)
    <3>1. Detached(e) \in Seq(Message)
      BY SentTyped
    <3> QED BY <1>3, <2>2, <3>1, SentTypeOK DEF RequestReject, ServerReject, client,
               ClientTypeOK
  <2> QED BY <2>1, <2>2
<1>4. ASSUME NEW r \in Ids, ServerDestroy(r)
      PROVE  ClientTypeOK'
  <2>1. PICK m \in Dismantled(r) : Broadcast(m)
    BY <1>4 DEF ServerDestroy
  <2>2. m \in Seq(Message)
    BY SentTyped
  <2>3. Subtree(r) \subseteq Ids
    BY DEF Subtree
  <2> QED BY <1>4, <2>1, <2>2, <2>3, SentTypeOK DEF ServerDestroy, ClientTypeOK
<1> QED BY <1>1, <1>2, <1>3, <1>4 DEF GameCode

(* Types after a step of ALife.                                            *)
LEMMA ALifeTyped ==
    ASSUME ClientTypeOK, Forest, ALife, UNCHANGED quickReuse
    PROVE  ClientTypeOK'
<1>1. ASSUME NEW o \in Ids, SwitchOnline(o)
      PROVE  ClientTypeOK'
  <2>1. PICK c \in SetToSeqs(Kids(o)) : Broadcast(Arrivals(o, c))
    BY <1>1 DEF SwitchOnline, Arrivals
  <2>2. Arrivals(o, c) \in Seq(Message)
    BY <1>1, SpawnsInOrder DEF SwitchOnline, AddOnline
  <2> QED BY <1>1, <2>1, <2>2, SentTypeOK DEF SwitchOnline, LookedAt, ClientTypeOK
<1>2. ASSUME NEW o \in Ids, SwitchOffline(o)
      PROVE  ClientTypeOK'
  <2>1. PICK m \in TakenApart(o) : Broadcast(m)
    BY <1>2 DEF SwitchOffline
  <2>2. m \in Seq(Message)
    BY SentTyped DEF Forest
  <2> QED BY <1>2, <2>1, <2>2, SentTypeOK DEF SwitchOffline, LookedAt, ClientTypeOK
<1>3. CASE ALifeOffline
  BY <1>3 DEF ALifeOffline, ClientTypeOK, client
<1> QED BY <1>1, <1>2, <1>3 DEF ALife

(* Types after a step of the client's frame.                               *)
LEMMA FrameTyped ==
    ASSUME ClientTypeOK, TypeOK, Frame, UNCHANGED quickReuse
    PROVE  ClientTypeOK'
<1>1. CASE ClientReceive
  <2>1. events \o wire \in Seq(Message)
    BY Chained DEF ClientTypeOK
  <2>2. <<>> \in Seq(Message)
    OBVIOUS
  <2> QED BY <1>1, <2>1, <2>2 DEF ClientReceive, Forgotten, ClientTypeOK
<1>2. CASE SpawnSkipped
  BY <1>2, IncomingTyped DEF SpawnSkipped, Handles, Handled, ClientTypeOK
<1>3. CASE HandleSpawn
  <2> DEFINE id == Incoming.id
             p == Incoming.owner
             gone == Flushed(id)
             holders == HoldersWithout(gone)
  <2>1. /\ id \in Ids /\ p \in Ids \cup {NoParent} /\ Tail(events) \in Seq(Message)
        /\ gone \subseteq dying
        /\ holders \in [Ids -> Ids \cup {NoParent}]
    BY <1>3, IncomingTyped DEF HandleSpawn, Handles, Flushed, HoldersWithout,
       ClientTypeOK
  <2>2. ASSUME present' = (present \ gone) \cup {id}, dying' = dying \ gone,
               IF p \in present' THEN GivenTo(p, id, holders)
               ELSE holder' = holders /\ UNCHANGED <<vars, wire>>,
               Handled, UNCHANGED justDestroyed
        PROVE  ClientTypeOK'
    <3>1. wire' \in Seq(Message) /\ holder' \in [Ids -> Ids \cup {NoParent}]
      BY <2>1, <2>2, GivenTyped DEF ClientTypeOK
    <3> HIDE DEF id, p, gone, holders
    <3> QED BY <2>1, <2>2, <3>1 DEF Handled, ClientTypeOK
  <2> QED BY <1>3, <2>1, <2>2, FailTypeOK, GivingFailsTyped DEF HandleSpawn
<1>4. CASE HandleTake
  <2> DEFINE e == Incoming.id
             p == Incoming.owner
  <2>1. e \in Ids /\ p \in Ids \cup {NoParent} /\ Tail(events) \in Seq(Message)
    BY <1>4, IncomingTyped DEF HandleTake, Handles
  <2>2. ASSUME UNCHANGED <<present, dying, justDestroyed>>,
               GivenTo(p, e, holder) \/ UNCHANGED <<vars, wire, holder>>, Handled
        PROVE  ClientTypeOK'
    <3>1. wire' \in Seq(Message) /\ holder' \in [Ids -> Ids \cup {NoParent}]
      BY <2>1, <2>2, GivenTyped DEF ClientTypeOK
    <3> QED BY <2>1, <2>2, <3>1 DEF Handled, ClientTypeOK
  <2> QED BY <1>4, <2>1, <2>2, FailTypeOK, GivingFailsTyped DEF HandleTake
<1>5. CASE HandleReject
  <2>1. Tail(events) \in Seq(Message)
    BY <1>5, IncomingTyped DEF HandleReject, Handles
  <2>2. ASSUME holder' \in {holder, [holder EXCEPT ![Incoming.id] = NoParent]},
               Handled, UNCHANGED <<vars, wire, justDestroyed, present, dying>>
        PROVE  ClientTypeOK'
    BY <2>1, <2>2 DEF Handled, ClientTypeOK
  <2> QED BY <1>5, <2>2, FailTypeOK DEF HandleReject
<1>6. CASE HandleDestroy
  <2>1. Tail(events) \in Seq(Message) /\ Incoming.id \in Ids
    BY <1>6, IncomingTyped DEF HandleDestroy, Handles
  <2>2. Doomed(Incoming.id) \subseteq present
    BY <2>1, BelowAlive DEF Doomed, Alive, ClientTypeOK
  <2> QED BY <1>6, <2>1, <2>2 DEF HandleDestroy, Handled, ClientTypeOK
<1>7. CASE EndFrame
  <2>1. HoldersWithout(dying) \in [Ids -> Ids \cup {NoParent}]
    BY DEF HoldersWithout, ClientTypeOK
  <2> QED BY <1>7, <2>1 DEF EndFrame, ClientTypeOK
<1> QED BY <1>1, <1>2, <1>3, <1>4, <1>5, <1>6, <1>7 DEF Frame, Drain

(* The session, its messages and what the client has are well typed,       *)
(* whatever the classes allow and however soon ids are given out again.    *)
LEMMA SessionTypedStep ==
    ASSUME Forest, ClientTypeOK, [SessionNext]_sessionVars
    PROVE  Forest' /\ ClientTypeOK'
<1>1. Forest'
  BY SessionStep, ForestStep
<1>2. CASE UNCHANGED sessionVars
  <2>1. UNCHANGED <<quickReuse, wire, events, phase, switched, justDestroyed, present, dying,
                    holder, failed>>
    BY <1>2 DEF sessionVars, client
  <2> QED BY <1>1, <2>1 DEF ClientTypeOK
<1>3. CASE SessionNext
  <2>1. TypeOK /\ UNCHANGED quickReuse /\ (GameCode \/ ALife \/ Frame)
    BY <1>3 DEF SessionNext, Forest
  <2>2. CASE GameCode
    BY <1>1, <2>1, <2>2, GameCodeTyped
  <2>3. CASE ALife
    BY <1>1, <2>1, <2>3, ALifeTyped
  <2>4. CASE Frame
    BY <1>1, <2>1, <2>4, FrameTyped
  <2> QED BY <2>1, <2>2, <2>3, <2>4
<1> QED BY <1>1, <1>2, <1>3

(* The session starts well typed.                                          *)
LEMMA SessionStart == SessionInit => Forest /\ ClientTypeOK
<1> SUFFICES ASSUME SessionInit PROVE Forest /\ ClientTypeOK
  OBVIOUS
<1>1. Forest
  BY IdsAssumption DEF SessionInit, Init, Forest, TypeOK, Linked, Allocated, NoKids
<1>2. <<>> \in Seq(Message)
  OBVIOUS
<1> QED BY <1>1, <1>2 DEF SessionInit, ClientTypeOK

(* Server, messages and client are well typed in every session, whatever   *)
(* the classes allow and however soon ids are given out again.             *)
THEOREM SessionTyped == SessionSpec => []SessionTypeOK
<1>1. Forest /\ ClientTypeOK => SessionTypeOK
  BY DEF Forest, ClientTypeOK, SessionTypeOK
<1>2. Forest /\ ClientTypeOK /\ [SessionNext]_sessionVars => Forest' /\ ClientTypeOK'
  BY SessionTypedStep
<1> QED BY <1>1, <1>2, SessionStart, PTL DEF SessionSpec

-----------------------------------------------------------------------------
(* The messages under way lead from what the client has to what the server *)
(* has.                                                                    *)
InSync == Synced(Pending, ServerTable, Alive, dying, holder, quickReuse)

(* Between two frames the client has handled all it received.              *)
BetweenFrames == phase = "play" => dying = {} /\ events = <<>>

(* An object that is not there has no owner.                               *)
FreeUnlessPresent == \A e \in Ids \ present : holder[e] = NoParent

(* What is spawned in E and skipped by S is destroyed later in Q.          *)
SkipsIn(E, Q, S) ==
    \A k \in 1 .. Len(E) : E[k].type = "spawn" /\ E[k].id \in S =>
        \E l \in k + 1 .. Len(Q) : Q[l].type = "destroy" /\ Q[l].id = E[k].id

SkipsEnd == SkipsIn(events, Pending, justDestroyed)

(* What ALife has again after it went was switched in this update.         *)
LookedAtGone ==
    ~quickReuse =>
        \A c \in objects : DestructionAwaited(wire, c) =>
            IF parent[c] = NoParent THEN c \in switched ELSE parent[c] \in switched

(* The inductive invariant of the session, with its hypothesis             *)
(* Disciplined. The last three are what it is for.                         *)
ClientInv ==
    /\ ClientTypeOK
    /\ InSync
    /\ BetweenFrames
    /\ FreeUnlessPresent
    /\ SkipsEnd
    /\ LookedAtGone
    /\ HolderExists
    /\ RegisteredOnce
    /\ TakenWhenFree
-----------------------------------------------------------------------------
(* A destruction waits in one of two queues or in the other.               *)
LEMMA AwaitedJoined ==
    ASSUME NEW Q \in Seq(Message), NEW m \in Seq(Message), NEW c
    PROVE  DestructionAwaited(Q \o m, c) <=> DestructionAwaited(Q, c) \/ DestructionAwaited(m, c)
<1> DEFINE q == Len(Q)
           n == Len(m)
           R == Q \o m
<1>1. /\ q \in Nat /\ n \in Nat /\ Len(R) = q + n
      /\ \A k \in 1 .. q : R[k] = Q[k]
      /\ \A k \in 1 .. n : R[q + k] = m[k]
  OBVIOUS
<1> HIDE DEF R
<1>2. \A k \in 1 .. q + n : k \in 1 .. q \/ \E j \in 1 .. n : k = q + j
  <2> SUFFICES ASSUME NEW k \in 1 .. q + n, k \notin 1 .. q
               PROVE  \E j \in 1 .. n : k = q + j
    OBVIOUS
  <2>1. k - q \in 1 .. n /\ k = q + (k - q)
    BY <1>1
  <2> QED BY <2>1
<1>3. \A k \in 1 .. q : k \in 1 .. q + n
  BY <1>1
<1>4. \A k \in 1 .. n : q + k \in 1 .. q + n
  BY <1>1
<1>5. DestructionAwaited(Q, c) => DestructionAwaited(R, c)
  BY <1>1, <1>3 DEF DestructionAwaited
<1>6. ASSUME DestructionAwaited(m, c) PROVE DestructionAwaited(R, c)
  <2>1. PICK k \in 1 .. n : m[k].type = "destroy" /\ m[k].id = c
    BY <1>6 DEF DestructionAwaited
  <2>2. q + k \in 1 .. Len(R) /\ R[q + k] = m[k]
    BY <1>1, <1>4
  <2> QED BY <2>1, <2>2 DEF DestructionAwaited
<1>7. ASSUME DestructionAwaited(R, c) PROVE DestructionAwaited(Q, c) \/ DestructionAwaited(m, c)
  <2>1. PICK k \in 1 .. q + n : R[k].type = "destroy" /\ R[k].id = c
    BY <1>1, <1>7 DEF DestructionAwaited
  <2>2. CASE k \in 1 .. q
    BY <1>1, <2>1, <2>2 DEF DestructionAwaited
  <2>3. CASE \E j \in 1 .. n : k = q + j
    BY <1>1, <2>1, <2>3 DEF DestructionAwaited
  <2> QED BY <1>2, <2>2, <2>3
<1> QED BY <1>5, <1>6, <1>7 DEF R

(* What is skipped is still destroyed later when more is sent.             *)
LEMMA SkipsJoined ==
    ASSUME NEW E \in Seq(Message), NEW Q \in Seq(Message), NEW m \in Seq(Message),
           Len(E) <= Len(Q), NEW S, SkipsIn(E, Q, S),
           NEW S2, \A x \in S2 : x \in S \/ DestructionAwaited(m, x)
    PROVE  SkipsIn(E, Q \o m, S2)
<1> DEFINE q == Len(Q)
           n == Len(m)
           R == Q \o m
<1>1. /\ q \in Nat /\ n \in Nat /\ Len(R) = q + n /\ Len(E) \in Nat
      /\ \A k \in 1 .. q : R[k] = Q[k]
      /\ \A k \in 1 .. n : R[q + k] = m[k]
  OBVIOUS
<1> HIDE DEF R
<1> SUFFICES ASSUME NEW k \in 1 .. Len(E), E[k].type = "spawn", E[k].id \in S2
             PROVE  \E l \in k + 1 .. q + n : R[l].type = "destroy" /\ R[l].id = E[k].id
  BY <1>1 DEF SkipsIn, R
<1>2. CASE E[k].id \in S
  <2>1. PICK l \in k + 1 .. q : Q[l].type = "destroy" /\ Q[l].id = E[k].id
    BY <1>2 DEF SkipsIn
  <2>2. l \in 1 .. q /\ l \in k + 1 .. q + n
    BY <1>1
  <2> QED BY <1>1, <2>1, <2>2
<1>3. CASE DestructionAwaited(m, E[k].id)
  <2>1. PICK j \in 1 .. n : m[j].type = "destroy" /\ m[j].id = E[k].id
    BY <1>3 DEF DestructionAwaited
  <2>2. q + j \in k + 1 .. q + n
    BY <1>1
  <2> QED BY <1>1, <2>1, <2>2
<1> QED BY <1>2, <1>3

(* Types of what is under way, of what the client has and destroys.        *)
LEMMA PendingFacts ==
    ASSUME ClientTypeOK
    PROVE  /\ events \in Seq(Message) /\ wire \in Seq(Message) /\ Pending \in Seq(Message)
           /\ Len(events) \in Nat /\ Len(events) <= Len(Pending)
           /\ \A c : DestructionAwaited(wire, c) => DestructionAwaited(Pending, c)
           /\ Alive \in SUBSET Ids /\ dying \in SUBSET Ids
<1>1. events \in Seq(Message) /\ wire \in Seq(Message)
  BY DEF ClientTypeOK
<1>2. Pending \in Seq(Message) /\ Len(events) \in Nat /\ Len(events) <= Len(Pending)
  BY <1>1 DEF Pending
<1>3. \A c : DestructionAwaited(wire, c) => DestructionAwaited(Pending, c)
  BY <1>1, AwaitedJoined DEF Pending
<1> QED BY <1>1, <1>2, <1>3 DEF ClientTypeOK, Alive

(* What is to be destroyed on the client is not on the server, unless its  *)
(* id is new again.                                                        *)
LEMMA GoneFromServer ==
    ASSUME ClientTypeOK, InSync, Accounted, ~quickReuse, NEW c \in Ids,
           c \in dying \/ DestructionAwaited(Pending, c)
    PROVE  c \notin entities
<1>1. PICK V : SyncedBy(V, Pending, ServerTable, Alive, dying, holder, quickReuse)
  BY DEF InSync, Synced
<1>2. Buried(V, Pending, dying) /\ V[Len(Pending) + 1] = ServerTable
  BY <1>1 DEF SyncedBy
<1>3. Len(Pending) \in Nat
  BY PendingFacts
<1>4. ServerTable[c] = {}
  <2>1. CASE c \in dying
    <3>1. Len(Pending) + 1 \in 1 .. Len(Pending) + 1
      BY <1>3
    <3> QED BY <1>2, <2>1, <3>1 DEF Buried
  <2>2. CASE DestructionAwaited(Pending, c)
    <3>1. PICK k \in 1 .. Len(Pending) : Pending[k].type = "destroy" /\ Pending[k].id = c
      BY <2>2 DEF DestructionAwaited
    <3>2. Len(Pending) + 1 \in k + 1 .. Len(Pending) + 1
      BY <1>3
    <3> QED BY <1>2, <3>1, <3>2 DEF Buried
  <2> QED BY <2>1, <2>2
<1> QED BY <1>4 DEF ServerTable, TableFor

(* The server tells the client of a step; the client has not read it yet.  *)
LEMMA SentStep ==
    ASSUME ClientInv, ClientTypeOK', NEW m \in Seq(Message), Broadcast(m),
           UNCHANGED <<quickReuse, events, phase, present, dying, holder, failed>>,
           Synced(Pending \o m, ServerTable', Alive, dying, holder, quickReuse),
           \A x \in justDestroyed' : x \in justDestroyed \/ DestructionAwaited(m, x),
           LookedAtGone'
    PROVE  ClientInv'
<1>1. /\ Pending' = Pending \o m /\ Pending \in Seq(Message) /\ Len(events) <= Len(Pending)
      /\ events \in Seq(Message)
  <2>1. Pending' = events \o (wire \o m)
    BY DEF Pending, Broadcast
  <2>2. wire \in Seq(Message) /\ events \in Seq(Message)
    BY PendingFacts DEF ClientInv
  <2>3. events \o (wire \o m) = (events \o wire) \o m
    BY <2>2, Joined
  <2> QED BY <2>1, <2>3, PendingFacts DEF ClientInv, Pending
<1>2. InSync'
  BY <1>1 DEF InSync, Alive
<1>3. SkipsEnd'
  <2>1. SkipsIn(events, Pending, justDestroyed)
    BY DEF ClientInv, SkipsEnd
  <2>2. SkipsIn(events, Pending \o m, justDestroyed')
    BY <1>1, <2>1, SkipsJoined
  <2>3. events' = events
    OBVIOUS
  <2> QED BY <1>1, <2>2, <2>3 DEF SkipsEnd
<1>4. /\ BetweenFrames' /\ FreeUnlessPresent' /\ HolderExists' /\ RegisteredOnce'
      /\ TakenWhenFree'
  BY DEF ClientInv, BetweenFrames, FreeUnlessPresent, HolderExists, RegisteredOnce,
     TakenWhenFree
<1> QED BY <1>2, <1>3, <1>4 DEF ClientInv

(* The same when nothing is noted in justDestroyed.                        *)
LEMMA SentStepAlone ==
    ASSUME ClientInv, ClientTypeOK', NEW m \in Seq(Message), Broadcast(m),
           UNCHANGED <<quickReuse, events, phase, present, dying, holder, failed>>,
           UNCHANGED justDestroyed,
           Synced(Pending \o m, ServerTable', Alive, dying, holder, quickReuse),
           LookedAtGone'
    PROVE  ClientInv'
<1>1. \A x \in justDestroyed' : x \in justDestroyed \/ DestructionAwaited(m, x)
  OBVIOUS
<1> QED BY <1>1, SentStep

(* The assertion that fails is another one than those of the invariant.    *)
LEMMA FailStep ==
    ASSUME ClientInv, ClientTypeOK', UNCHANGED quickReuse, NEW what, Fail(what),
           what # "registered twice", what = "has a parent" => quickReuse
    PROVE  ClientInv'
<1>1. /\ entities' = entities /\ objects' = objects /\ parent' = parent
      /\ quickReuse' = quickReuse /\ wire' = wire /\ events' = events
      /\ phase' = phase /\ switched' = switched /\ justDestroyed' = justDestroyed
      /\ present' = present /\ dying' = dying /\ holder' = holder
  BY DEF Fail, vars, client
<1>2. Pending' = Pending /\ ServerTable' = ServerTable /\ Alive' = Alive
  BY <1>1 DEF Pending, ServerTable, TableFor, Alive
<1>3. InSync' /\ SkipsEnd'
  BY <1>1, <1>2 DEF ClientInv, InSync, SkipsEnd
<1>4. BetweenFrames'
  <2>1. BetweenFrames
    BY DEF ClientInv
  <2> QED BY <1>1, <2>1 DEF BetweenFrames
<1>5. FreeUnlessPresent' /\ HolderExists'
  <2>1. FreeUnlessPresent /\ HolderExists
    BY DEF ClientInv
  <2>2. quickReuse' = quickReuse /\ present' = present /\ holder' = holder
    BY <1>1
  <2> QED BY ONLY <2>1, <2>2 DEF FreeUnlessPresent, HolderExists
<1>6. LookedAtGone'
  <2>1. LookedAtGone
    BY DEF ClientInv
  <2>2. /\ quickReuse' = quickReuse /\ objects' = objects /\ wire' = wire
        /\ parent' = parent /\ switched' = switched
    BY <1>1
  <2> QED BY ONLY <2>1, <2>2 DEF LookedAtGone
<1>7. RegisteredOnce'
  BY DEF Fail, RegisteredOnce
<1>8. TakenWhenFree'
  BY DEF Fail, TakenWhenFree
<1> QED BY <1>3, <1>4, <1>5, <1>6, <1>7, <1>8 DEF ClientInv
-----------------------------------------------------------------------------
(* The game code spawns an object: the id is free, so nothing of it waits. *)
LEMMA SpawnStep ==
    ASSUME Forest, Accounted, Forest', Accounted', ClientInv, ClientTypeOK',
           UNCHANGED quickReuse,
           NEW id \in Ids, NEW p \in Ids \cup {NoParent}, ServerSpawn(id, p)
    PROVE  ClientInv'
<1> DEFINE m == <<Spawned(id, p)>>
<1>1. /\ ProcessSpawn(id, p) /\ Broadcast(m) /\ m \in Seq(Message)
      /\ UNCHANGED <<events, phase, switched, justDestroyed, present, dying, holder, failed>>
      /\ Rested(id)
  BY SentTyped DEF ServerSpawn, client, Forest
<1>2. ~quickReuse => id \notin dying /\ ~DestructionAwaited(wire, id) /\ ~DestructionAwaited(Pending, id)
  <2>1. wire \in Seq(Message) /\ events \in Seq(Message) /\ dying \subseteq present
    BY DEF ClientInv, ClientTypeOK
  <2>2. ASSUME id \notin KnownToClient
        PROVE  id \notin dying /\ ~DestructionAwaited(wire, id) /\ ~DestructionAwaited(events, id)
    BY <2>1, <2>2 DEF KnownToClient, DestructionAwaited
  <2> QED BY <1>1, <2>1, <2>2, AwaitedJoined DEF Rested, Pending
<1>3. Synced(Pending \o m, ServerTable', Alive, dying, holder, quickReuse)
  BY <1>1, <1>2, PendingFacts, SyncedSpawn DEF ClientInv, InSync
<1>4. LookedAtGone'
  <2> SUFFICES ASSUME ~quickReuse, NEW c \in objects', DestructionAwaited(wire', c)
               PROVE  IF parent'[c] = NoParent THEN c \in switched ELSE parent'[c] \in switched
    BY <1>1 DEF LookedAtGone
  <2>1. DestructionAwaited(wire, c)
    <3>1. ~DestructionAwaited(m, c)
      BY DEF DestructionAwaited, Spawned
    <3> QED BY <1>1, <3>1, AwaitedJoined DEF Broadcast, ClientInv, ClientTypeOK
  <2>2. c # id
    BY <1>2, <2>1
  <2>3. c \in objects /\ parent'[c] = parent[c]
    BY <1>1, <2>2 DEF ProcessSpawn, Link, Forest, TypeOK
  <2> QED BY <2>1, <2>3 DEF ClientInv, LookedAtGone
<1> HIDE DEF m
<1> QED BY <1>1, <1>3, <1>4, SentStepAlone

(* The handlers that answer the client leave what is to go alone.          *)
LEMMA GoneUntouched ==
    ASSUME Forest, Accounted, ClientInv, UNCHANGED <<quickReuse, switched>>,
           NEW e \in entities, objects' \subseteq objects \cup {e},
           \A c \in Ids \ {e} : parent'[c] = parent[c],
           NEW m \in Seq(Message), Broadcast(m),
           \A c \in Ids : ~DestructionAwaited(m, c),
           objects' \subseteq Ids
    PROVE  LookedAtGone'
<1> SUFFICES ASSUME ~quickReuse, NEW c \in objects', DestructionAwaited(wire', c)
             PROVE  IF parent'[c] = NoParent THEN c \in switched ELSE parent'[c] \in switched
  BY DEF LookedAtGone
<1>1. DestructionAwaited(wire, c)
  BY AwaitedJoined DEF Broadcast, ClientInv, ClientTypeOK
<1>2. c # e
  BY <1>1, PendingFacts, GoneFromServer DEF ClientInv
<1>3. c \in objects /\ parent'[c] = parent[c]
  BY <1>2
<1> QED BY <1>1, <1>3 DEF ClientInv, LookedAtGone

(* A rejection destroys nothing.                                           *)
LEMMA DetachedGone ==
    ASSUME NEW e, NEW c
    PROVE  ~DestructionAwaited(Detached(e), c) /\ ~DestructionAwaited(<<>>, c)
BY DEF DestructionAwaited, Detached, Rejected

(* The game code gives an item away.                                       *)
LEMMA TakeStep ==
    ASSUME Forest, Accounted, Forest', Accounted', ClientInv, ClientTypeOK',
           UNCHANGED quickReuse,
           NEW p \in Ids, NEW e \in Ids, ServerTake(p, e)
    PROVE  ClientInv'
<1>1. CASE NewOwnerGone(p, e)
  BY <1>1, FailStep DEF ServerTake
<1>2. CASE ~NewOwnerGone(p, e)
  <2> DEFINE m == <<Taken(p, e)>>
  <2>1. /\ ProcessOwnership(p, e) /\ Broadcast(m) /\ m \in Seq(Message)
        /\ UNCHANGED <<events, phase, switched, justDestroyed, present, dying, holder, failed>>
    BY <1>2, SentTyped DEF ServerTake, client, Forest
  <2>2. Synced(Pending \o m, ServerTable', Alive, dying, holder, quickReuse)
    BY <2>1, PendingFacts, SyncedTake DEF ClientInv, InSync
  <2>3. LookedAtGone'
    <3>1. \A c : ~DestructionAwaited(m, c)
      BY DEF DestructionAwaited, Taken
    <3>2. /\ e \in entities /\ objects' = objects /\ objects \subseteq Ids
          /\ \A c \in Ids \ {e} : parent'[c] = parent[c]
      BY <2>1 DEF ProcessOwnership, Ownable, Link, Forest, TypeOK
    <3> HIDE DEF m
    <3> QED BY <2>1, <3>1, <3>2, GoneUntouched
  <2> QED BY <2>1, <2>2, <2>3, SentStepAlone
<1> QED BY <1>1, <1>2

(* The game code takes an item back.                                       *)
LEMMA RejectStep ==
    ASSUME Forest, Accounted, Forest', Accounted', ClientInv, ClientTypeOK',
           UNCHANGED quickReuse,
           NEW p \in Ids, NEW e \in Ids, ServerReject(p, e)
    PROVE  ClientInv'
<1>1. CASE OwnedByAnother(p, e)
  BY <1>1, FailStep DEF ServerReject
<1>2. CASE ~OwnedByAnother(p, e)
  <2> DEFINE m == Detached(e)
  <2>1. /\ ProcessReject(p, e) /\ Broadcast(m) /\ m \in Seq(Message)
        /\ UNCHANGED <<events, phase, switched, justDestroyed, present, dying, holder, failed>>
    BY <1>2, SentTyped DEF ServerReject, client, Forest
  <2>2. Synced(Pending \o m, ServerTable', Alive, dying, holder, quickReuse)
    BY <2>1, PendingFacts, SyncedReject DEF ClientInv, InSync
  <2>3. LookedAtGone'
    <3>1. \A c : ~DestructionAwaited(m, c)
      BY DetachedGone
    <3>2. /\ e \in entities /\ objects' \subseteq objects \cup {e} /\ objects' \subseteq Ids
          /\ \A c \in Ids \ {e} : parent'[c] = parent[c]
      BY <2>1 DEF ProcessReject, Forest, TypeOK
    <3> HIDE DEF m
    <3> QED BY <2>1, <3>1, <3>2, GoneUntouched
  <2> QED BY <2>1, <2>2, <2>3, SentStepAlone
<1> QED BY <1>1, <1>2

(* The game code destroys an object with all below it.                     *)
LEMMA DestroyStep ==
    ASSUME Forest, Accounted, Forest', Accounted', ClientInv, ClientTypeOK',
           UNCHANGED quickReuse,
           NEW r \in Ids, ServerDestroy(r)
    PROVE  ClientInv'
<1> DEFINE T == Subtree(r)
<1>1. PICK m \in Dismantled(r) : Broadcast(m)
  BY DEF ServerDestroy
<1>2. /\ r \in entities /\ Forget(r) /\ justDestroyed' = justDestroyed \cup T
      /\ UNCHANGED <<events, phase, switched, present, dying, holder, failed>>
  BY DEF ServerDestroy, ProcessDestroy
<1>3. /\ Synced(Pending \o m, TableFor(entities \ T, parent), Alive, dying, holder, quickReuse)
      /\ m \in Seq(Message)
      /\ \A k \in 1 .. Len(m) : m[k].id \in T
      /\ \A x \in T : DestructionAwaited(m, x)
  BY <1>2, PendingFacts, SyncedFarewells DEF ClientInv, InSync
<1>4. ServerTable' = TableFor(entities \ T, parent)
  <2>1. entities' = entities \ T /\ parent' = [i \in Ids |-> IF i \in T THEN NoParent ELSE parent[i]]
    BY <1>2 DEF Forget
  <2> QED BY <2>1 DEF ServerTable, TableFor
<1>5. LookedAtGone'
  <2> SUFFICES ASSUME ~quickReuse, NEW c \in objects', DestructionAwaited(wire', c)
               PROVE  IF parent'[c] = NoParent THEN c \in switched ELSE parent'[c] \in switched
    BY <1>2 DEF LookedAtGone
  <2>1. c \in objects /\ c \notin T /\ parent'[c] = parent[c]
    BY <1>2 DEF Forget, Forest, TypeOK
  <2>2. ~DestructionAwaited(m, c)
    BY <1>3, <2>1 DEF DestructionAwaited
  <2>3. DestructionAwaited(wire, c)
    BY <1>1, <1>3, <2>2, AwaitedJoined DEF Broadcast, ClientInv, ClientTypeOK
  <2> QED BY <2>1, <2>3 DEF ClientInv, LookedAtGone
<1>6. \A x \in justDestroyed' : x \in justDestroyed \/ DestructionAwaited(m, x)
  BY <1>2, <1>3
<1> HIDE DEF T
<1>7. Synced(Pending \o m, ServerTable', Alive, dying, holder, quickReuse)
  BY <1>3, <1>4
<1>8. UNCHANGED <<quickReuse, events, phase, present, dying, holder, failed>>
  BY <1>2
<1>9. m \in Seq(Message)
  BY <1>3
<1> QED BY ONLY <1>1, <1>5, <1>6, <1>7, <1>8, <1>9, ClientInv, ClientTypeOK', SentStep

-----------------------------------------------------------------------------
(* No message before changes no queue either.                              *)
LEMMA NothingBefore ==
    ASSUME NEW Q \in Seq(Message)
    PROVE  <<>> \o Q = Q
OBVIOUS

(* ALife brings an object online that was not just destroyed.              *)
LEMMA OnlineStep ==
    ASSUME Disciplined, Forest, Accounted, Forest', Accounted', ClientInv,
           ClientTypeOK',
           UNCHANGED quickReuse, phase = "play", NEW o \in Ids, SwitchOnline(o)
    PROVE  ClientInv'
<1>1. /\ AddOnline(o) /\ LookedAt(o) /\ parent[o] = NoParent /\ o \in objects /\ o \notin entities
      /\ objects' = objects /\ parent' = parent
  BY DEF SwitchOnline, AddOnline, Accounted
<1>2. PICK c \in SetToSeqs(Kids(o)) : Broadcast(Arrivals(o, c))
  BY DEF SwitchOnline, Arrivals
<1> DEFINE m == Arrivals(o, c)
<1>3. /\ m \in Seq(Message)
      /\ \A k \in 1 .. Len(m) : m[k].type # "destroy"
  <2>1. m \in Seq(Message) /\ \A k \in 1 .. Len(m) : m[k] = Spawned(m[k].id, parent[m[k].id])
    BY <1>1, SpawnsInOrder
  <2> HIDE DEF m
  <2>2. \A x, y : Spawned(x, y).type # "destroy"
    BY DEF Spawned
  <2>3. \A k \in 1 .. Len(m) : m[k].type # "destroy"
    BY ONLY <2>1, <2>2
  <2> QED BY <2>1, <2>3
<1> HIDE DEF m
<1>4. ~quickReuse => \A x \in {o} \cup Kids(o) : x \notin dying /\ ~DestructionAwaited(Pending, x)
  <2> SUFFICES ASSUME ~quickReuse, NEW x \in {o} \cup Kids(o)
               PROVE  x \notin dying /\ ~DestructionAwaited(Pending, x)
    OBVIOUS
  <2>1. dying = {} /\ Pending = wire
    <3>1. dying = {} /\ events = <<>>
      BY DEF ClientInv, BetweenFrames
    <3>2. wire \in Seq(Message)
      BY DEF ClientInv, ClientTypeOK
    <3> QED BY <3>1, <3>2, NothingBefore DEF Pending
  <2>2. x \in objects /\ (x = o \/ parent[x] = o)
    <3>1. CASE x = o
      BY <1>1, <3>1
    <3>2. CASE x \in Kids(o)
      <4>1. x \in Ids /\ parent[x] = o /\ o # NoParent
        BY <3>2, IdsAssumption DEF Kids, Forest, Linked
      <4>2. x \in used /\ x \notin entities
        BY <1>1, <4>1 DEF Forest, Allocated, Accounted, LinksInside
      <4> QED BY <4>1, <4>2 DEF Accounted, IdsAccounted
    <3> QED BY <3>1, <3>2
  <2>3. o \notin switched /\ parent[o] = NoParent /\ o # NoParent
    BY <1>1, IdsAssumption DEF LookedAt
  <2>4. ~DestructionAwaited(wire, x)
    <3>1. LookedAtGone
      BY DEF ClientInv
    <3> QED BY <2>2, <2>3, <3>1 DEF LookedAtGone
  <2> QED BY <2>1, <2>4
<1>5. Synced(Pending \o m, ServerTable', Alive, dying, holder, quickReuse)
  <2>1. Synced(Pending, ServerTable, Alive, dying, holder, quickReuse)
    BY DEF ClientInv, InSync
  <2>2. Pending \in Seq(Message) /\ dying \in SUBSET Ids
    BY PendingFacts DEF ClientInv
  <2>3. m = Arrivals(o, c)
    BY DEF m
  <2> QED BY <1>1, <1>4, <2>1, <2>2, <2>3, SyncedOnline
<1>6. LookedAtGone'
  <2> SUFFICES ASSUME ~quickReuse, NEW x \in objects', DestructionAwaited(wire', x)
               PROVE  IF parent'[x] = NoParent THEN x \in switched' ELSE parent'[x] \in switched'
    BY DEF LookedAtGone
  <2>1. DestructionAwaited(wire, x)
    <3>1. ~DestructionAwaited(m, x)
      BY <1>3 DEF DestructionAwaited
    <3>2. wire' = wire \o m
      BY <1>2 DEF Broadcast, m
    <3> QED BY <1>3, <3>1, <3>2, AwaitedJoined DEF ClientInv, ClientTypeOK
  <2>2. IF parent[x] = NoParent THEN x \in switched ELSE parent[x] \in switched
    BY <1>1, <2>1 DEF ClientInv, LookedAtGone
  <2>3. switched \subseteq switched'
    BY <1>1 DEF LookedAt
  <2> QED BY <1>1, <2>2, <2>3
<1>7. UNCHANGED <<quickReuse, events, phase, present, dying, holder, failed>> /\ UNCHANGED justDestroyed
  BY <1>1 DEF LookedAt
<1>8. Broadcast(m)
  BY <1>2 DEF m
<1> QED BY ONLY <1>3, <1>5, <1>6, <1>7, <1>8, ClientInv, ClientTypeOK', SentStepAlone

(* ALife takes an object offline.                                          *)
LEMMA OfflineStep ==
    ASSUME Disciplined, Forest, Accounted, Forest', Accounted', ClientInv,
           ClientTypeOK',
           UNCHANGED quickReuse, NEW o \in Ids, SwitchOffline(o)
    PROVE  ClientInv'
<1> DEFINE T == Subtree(o)
           S == SavedChildren(o)
<1>1. /\ LookedAt(o) /\ parent[o] = NoParent /\ o \in entities /\ T \subseteq Ids /\ o \in T
      /\ S = (T \ {o}) \cap Savable
      /\ entities' = entities \ T
      /\ objects' = objects \cup ((T \ {o}) \cap Savable)
      /\ parent' = [i \in Ids |-> IF i \in S THEN o ELSE IF i \in T THEN NoParent ELSE parent[i]]
  BY SubtreeRoot, SavedIsSavable DEF SwitchOffline, RemoveOnline, Accounted, Subtree
<1>2. PICK m \in TakenApart(o) : Broadcast(m)
  BY DEF SwitchOffline
<1>3. /\ Synced(Pending \o m, TableFor(entities \ T, parent), Alive, dying, holder, quickReuse)
      /\ m \in Seq(Message)
      /\ \A k \in 1 .. Len(m) : m[k].id \in T
  <2>1. Synced(Pending, ServerTable, Alive, dying, holder, quickReuse)
    BY DEF ClientInv, InSync
  <2>2. Pending \in Seq(Message) /\ dying \in SUBSET Ids
    BY PendingFacts DEF ClientInv
  <2> QED BY <1>1, <1>2, <2>1, <2>2, SyncedFarewells
<1> HIDE DEF T, S
<1>4. ServerTable' = TableFor(entities \ T, parent)
  <2>1. \A e \in Ids : e \in entities \ T => parent'[e] = parent[e]
    BY <1>1
  <2> QED BY <1>1, <2>1 DEF ServerTable, TableFor
<1>5. LookedAtGone'
  <2> SUFFICES ASSUME ~quickReuse, NEW x \in objects', DestructionAwaited(wire', x)
               PROVE  IF parent'[x] = NoParent THEN x \in switched' ELSE parent'[x] \in switched'
    BY DEF LookedAtGone
  <2>1. switched' = switched \cup {o} /\ x \in Ids /\ o # NoParent /\ objects \subseteq Savable
    BY <1>1, IdsAssumption DEF LookedAt, Forest, TypeOK, Accounted
  <2>2. CASE x \in T
    <3>1. CASE x = o
      BY <1>1, <2>1, <3>1
    <3>2. CASE x # o
      BY <1>1, <2>1, <2>2, <3>2
    <3> QED BY <3>1, <3>2
  <2>3. CASE x \notin T
    <3>1. x \in objects /\ parent'[x] = parent[x]
      BY <1>1, <2>1, <2>3
    <3>2. ~DestructionAwaited(m, x)
      BY <1>3, <2>3 DEF DestructionAwaited
    <3>3. DestructionAwaited(wire, x)
      BY <1>2, <1>3, <3>2, AwaitedJoined DEF Broadcast, ClientInv, ClientTypeOK
    <3>4. IF parent[x] = NoParent THEN x \in switched ELSE parent[x] \in switched
      BY <3>1, <3>3 DEF ClientInv, LookedAtGone
    <3> QED BY <2>1, <3>1, <3>4
  <2> QED BY <2>2, <2>3
<1>6. UNCHANGED <<quickReuse, events, phase, present, dying, holder, failed>> /\ UNCHANGED justDestroyed
  BY <1>1 DEF LookedAt
<1>7. Synced(Pending \o m, ServerTable', Alive, dying, holder, quickReuse)
  BY <1>3, <1>4
<1>8. m \in Seq(Message) /\ Broadcast(m)
  BY <1>2, <1>3
<1> QED BY ONLY <1>5, <1>6, <1>7, <1>8, ClientInv, ClientTypeOK', SentStepAlone

(* What ALife does with offline objects, the client does not hear of.      *)
LEMMA UnheardStep ==
    ASSUME ClientInv, ClientTypeOK', UNCHANGED quickReuse,
           UNCHANGED <<wire, events, client, failed>>,
           ServerTable' = ServerTable, LookedAtGone'
    PROVE  ClientInv'
<1> DEFINE m == <<>>
<1>1. m \in Seq(Message) /\ Broadcast(m)
  <2>1. wire \in Seq(Message)
    BY DEF ClientInv, ClientTypeOK
  <2>2. wire \o <<>> = wire
    BY <2>1, NothingMore
  <2>3. wire' = wire
    OBVIOUS
  <2> QED BY <2>2, <2>3 DEF Broadcast
<1>2. Synced(Pending \o m, ServerTable', Alive, dying, holder, quickReuse)
  BY PendingFacts, NothingMore DEF ClientInv, InSync
<1>3. UNCHANGED <<quickReuse, events, phase, present, dying, holder, failed>> /\ UNCHANGED justDestroyed
  BY DEF client
<1> HIDE DEF m
<1> QED BY ONLY <1>1, <1>2, <1>3, LookedAtGone', ClientInv, ClientTypeOK', SentStepAlone

(* ALife makes a new offline object.                                       *)
LEMMA SpawnItemStep ==
    ASSUME Forest, Accounted, ClientInv, ClientTypeOK', UNCHANGED quickReuse,
           UNCHANGED <<wire, events, client, failed>>,
           NEW id \in Ids, NEW p \in Ids \cup {NoParent}, Rested(id), SpawnItem(id, p)
    PROVE  ClientInv'
<1>1. /\ entities' = entities /\ objects' = objects \cup {id} /\ id \notin entities
      /\ \A c \in Ids : c # id => parent'[c] = parent[c]
  BY DEF SpawnItem, Link, Forest, TypeOK, Allocated
<1>2. ServerTable' = ServerTable
  BY <1>1 DEF ServerTable, TableFor
<1>3. LookedAtGone'
  <2> SUFFICES ASSUME ~quickReuse, NEW c \in objects', DestructionAwaited(wire, c)
               PROVE  IF parent'[c] = NoParent THEN c \in switched ELSE parent'[c] \in switched
    BY DEF LookedAtGone, client
  <2>1. c # id
    <3>1. id \notin KnownToClient
      BY DEF Rested
    <3>2. wire \in Seq(Message)
      BY DEF ClientInv, ClientTypeOK
    <3> QED BY <3>1, <3>2 DEF KnownToClient, DestructionAwaited
  <2>2. c \in objects /\ parent'[c] = parent[c]
    BY <1>1, <2>1 DEF Forest, TypeOK
  <2> QED BY <2>2 DEF ClientInv, LookedAtGone
<1> QED BY <1>2, <1>3, UnheardStep

(* ALife forgets offline objects.                                          *)
LEMMA ReleaseStep ==
    ASSUME Forest, Accounted, ClientInv, ClientTypeOK', UNCHANGED quickReuse,
           UNCHANGED <<wire, events, client, failed>>, NEW r \in Ids, Release(r)
    PROVE  ClientInv'
<1> DEFINE T == Subtree(r)
<1>1. /\ r \notin entities /\ T \subseteq Ids
      /\ entities' = entities \ T /\ objects' = objects \ T
      /\ \A c \in Ids : c \notin T => parent'[c] = parent[c]
  BY DEF Release, Forget, Accounted, Subtree
<1>2. \A x \in T : x \notin entities
  <2> DEFINE S == {x \in T : x \notin entities}
  <2>1. r \in S /\ S \in SUBSET Ids
    BY <1>1, SubtreeRoot
  <2>2. Closed(S)
    <3>1. \A x \in S : Kids(x) \subseteq T
      BY SubtreeClosed DEF Closed
    <3>2. \A x \in S : \A c \in Kids(x) : c \in Ids /\ parent[c] = x /\ x # NoParent
      BY <2>1, IdsAssumption DEF Kids, Forest, Linked
    <3>3. \A x \in S : \A c \in Kids(x) : c \notin entities
      BY <3>2 DEF Accounted, LinksInside
    <3> QED BY <3>1, <3>3 DEF Closed
  <2>3. \A x \in T : x \in S
    <3> HIDE DEF S
    <3> QED BY <2>1, <2>2 DEF Subtree
  <2> QED BY <2>3
<1> HIDE DEF T
<1>3. ServerTable' = ServerTable
  <2>1. entities' = entities /\ \A e \in entities : e \notin T
    BY <1>1, <1>2
  <2> QED BY <1>1, <2>1 DEF ServerTable, TableFor
<1>4. LookedAtGone'
  <2> SUFFICES ASSUME ~quickReuse, NEW c \in objects', DestructionAwaited(wire, c)
               PROVE  IF parent'[c] = NoParent THEN c \in switched ELSE parent'[c] \in switched
    BY DEF LookedAtGone, client
  <2>1. c \in objects /\ parent'[c] = parent[c]
    BY <1>1 DEF Forest, TypeOK
  <2> QED BY <2>1 DEF ClientInv, LookedAtGone
<1> QED BY <1>3, <1>4, UnheardStep

(* Each step of ALife.                                                     *)
LEMMA ALifeStep ==
    ASSUME Disciplined, Forest, Accounted, Forest', Accounted', ClientInv,
           ClientTypeOK',
           UNCHANGED quickReuse, ALife
    PROVE  ClientInv'
<1>1. CASE ALifeOffline
  <2>1. UNCHANGED <<wire, events, client, failed>>
    BY <1>1 DEF ALifeOffline
  <2> QED BY <1>1, <2>1, SpawnItemStep, ReleaseStep DEF ALifeOffline
<1> QED BY <1>1, OnlineStep, OfflineStep DEF ALife

(* Each step of the game code.                                             *)
LEMMA GameCodeStep ==
    ASSUME Disciplined, Forest, Accounted, Forest', Accounted', ClientInv,
           ClientTypeOK',
           UNCHANGED quickReuse, GameCode
    PROVE  ClientInv'
BY SpawnStep, TakeStep, RejectStep, DestroyStep DEF GameCode, RequestTake, RequestReject

-----------------------------------------------------------------------------
(* The client has handled the first event; m was sent meanwhile.           *)
LEMMA DrainedPending ==
    ASSUME ClientTypeOK, events # <<>>, events' = Tail(events),
           NEW m \in Seq(Message), Broadcast(m)
    PROVE  /\ Pending \o m \in Seq(Message) /\ Pending \o m # <<>>
           /\ Head(Pending \o m) = Incoming
           /\ Pending' = Tail(Pending \o m)
<1>1. events \in Seq(Message) /\ wire \in Seq(Message) /\ Tail(events) \in Seq(Message)
  BY TailFacts DEF ClientTypeOK
<1>2. Pending \in Seq(Message) /\ Pending # <<>> /\ Head(Pending) = Head(events)
      /\ Tail(Pending) = Tail(events) \o wire
  BY <1>1, Joined DEF Pending
<1>3. /\ Pending \o m \in Seq(Message) /\ Pending \o m # <<>>
      /\ Head(Pending \o m) = Head(Pending)
      /\ Tail(Pending \o m) = Tail(Pending) \o m
  BY <1>2, Joined
<1>4. Pending' = Tail(events) \o (wire \o m)
  BY DEF Pending, Broadcast
<1>5. Tail(events) \o (wire \o m) = (Tail(events) \o wire) \o m
  BY <1>1, Joined
<1> QED BY <1>2, <1>3, <1>4, <1>5 DEF Incoming

(* What is skipped is destroyed later, seen from the next event too.       *)
LEMMA SkipsTail ==
    ASSUME NEW E \in Seq(Message), NEW Q \in Seq(Message), E # <<>>, Q # <<>>,
           NEW S, SkipsIn(E, Q, S), NEW S2 \in SUBSET S
    PROVE  SkipsIn(Tail(E), Tail(Q), S2)
<1> SUFFICES ASSUME NEW k \in 1 .. Len(Tail(E)), Tail(E)[k].type = "spawn",
                    Tail(E)[k].id \in S2
             PROVE  \E l \in k + 1 .. Len(Tail(Q)) :
                        Tail(Q)[l].type = "destroy" /\ Tail(Q)[l].id = Tail(E)[k].id
  BY DEF SkipsIn
<1>1. /\ k \in Nat /\ k + 1 \in 1 .. Len(E) /\ Tail(E)[k] = E[k + 1]
      /\ Len(Q) \in Nat /\ Len(Tail(Q)) = Len(Q) - 1
      /\ \A l \in 1 .. Len(Q) - 1 : Tail(Q)[l] = Q[l + 1]
  BY TailFacts
<1>2. PICK l \in k + 1 + 1 .. Len(Q) : Q[l].type = "destroy" /\ Q[l].id = E[k + 1].id
  BY <1>1 DEF SkipsIn
<1>3. /\ l - 1 \in 1 .. Len(Q) - 1 /\ l - 1 \in k + 1 .. Len(Tail(Q)) /\ l - 1 + 1 = l
  BY <1>1
<1>4. Tail(Q)[l - 1] = Q[l]
  BY <1>1, <1>3
<1> QED BY <1>1, <1>2, <1>3, <1>4

(* The client handled one event of its queue.                              *)
LEMMA DrainStep ==
    ASSUME ClientInv, ClientTypeOK', UNCHANGED quickReuse, phase = "drain",
           events # <<>>,
           UNCHANGED <<phase, failed>>, events' = Tail(events),
           justDestroyed' \subseteq justDestroyed, NEW m \in Seq(Message), Broadcast(m),
           Synced(Pending', ServerTable', Alive', dying', holder', quickReuse),
           FreeUnlessPresent', HolderExists', LookedAtGone'
    PROVE  ClientInv'
<1>1. InSync'
  <2>1. quickReuse' = quickReuse
    OBVIOUS
  <2> QED BY <2>1 DEF InSync
<1>2. BetweenFrames'
  BY DEF BetweenFrames
<1>3. SkipsEnd'
  <2>1. /\ Pending \o m \in Seq(Message) /\ Pending \o m # <<>>
        /\ Pending' = Tail(Pending \o m)
    BY DrainedPending DEF ClientInv
  <2>2. events \in Seq(Message) /\ Pending \in Seq(Message) /\ Len(events) <= Len(Pending)
    BY PendingFacts DEF ClientInv
  <2>3. SkipsIn(events, Pending, justDestroyed)
    BY DEF ClientInv, SkipsEnd
  <2>5. SkipsIn(events, Pending \o m, justDestroyed)
    BY <2>2, <2>3, SkipsJoined
  <2>6. SkipsIn(Tail(events), Tail(Pending \o m), justDestroyed')
    BY <2>1, <2>2, <2>5, SkipsTail
  <2> QED BY <2>1, <2>6 DEF SkipsEnd
<1>4. RegisteredOnce' /\ TakenWhenFree'
  BY DEF ClientInv, RegisteredOnce, TakenWhenFree
<1> QED BY <1>1, <1>2, <1>3, <1>4 DEF ClientInv

(* What the server does not take part in.                                  *)
LEMMA DrainStepAlone ==
    ASSUME ClientInv, ClientTypeOK', UNCHANGED quickReuse, phase = "drain",
           events # <<>>,
           UNCHANGED <<phase, failed>>, events' = Tail(events), UNCHANGED switched,
           justDestroyed' \subseteq justDestroyed, UNCHANGED vars, UNCHANGED wire,
           Synced(Tail(Pending), ServerTable, Alive', dying', holder', quickReuse),
           FreeUnlessPresent', HolderExists'
    PROVE  ClientInv'
<1> DEFINE m == <<>>
<1>1. m \in Seq(Message) /\ Broadcast(m) /\ Pending \o m = Pending
  <2>1. wire \in Seq(Message) /\ Pending \in Seq(Message)
    BY PendingFacts DEF ClientInv
  <2>2. wire \o <<>> = wire /\ Pending \o <<>> = Pending
    BY <2>1, NothingMore
  <2> QED BY <2>2 DEF Broadcast
<1> HIDE DEF m
<1>2. Pending' = Tail(Pending)
  BY <1>1, DrainedPending DEF ClientInv
<1>3. ServerTable' = ServerTable
  BY DEF vars, ServerTable, TableFor
<1>4. LookedAtGone'
  <2>1. LookedAtGone
    BY DEF ClientInv
  <2>2. /\ quickReuse' = quickReuse /\ objects' = objects /\ wire' = wire
        /\ parent' = parent /\ switched' = switched
    BY DEF vars
  <2> QED BY ONLY <2>1, <2>2 DEF LookedAtGone
<1>5. Synced(Pending', ServerTable', Alive', dying', holder', quickReuse)
  BY <1>2, <1>3
<1> QED BY <1>1, <1>4, <1>5, DrainStep

(* Facts about what is to be handled.                                      *)
LEMMA IncomingFacts ==
    ASSUME ClientInv, NEW type, Handles(type)
    PROVE  /\ phase = "drain" /\ events # <<>>
           /\ Pending \in Seq(Message) /\ Pending # <<>> /\ Head(Pending) = Incoming
           /\ Incoming.id \in Ids /\ Incoming.owner \in Ids \cup {NoParent}
           /\ Incoming.type = type
           /\ Synced(Pending, ServerTable, Alive, dying, holder, quickReuse)
           /\ Alive \in SUBSET Ids /\ dying \in SUBSET Ids /\ dying \subseteq present
           /\ holder \in [Ids -> Ids \cup {NoParent}]
           /\ quickReuse \in BOOLEAN
<1>1. phase = "drain" /\ events # <<>> /\ Incoming.type = type
  BY DEF Handles
<1>2. events \in Seq(Message) /\ wire \in Seq(Message)
  BY DEF ClientInv, ClientTypeOK
<1>3. Pending \in Seq(Message) /\ Pending # <<>> /\ Head(Pending) = Incoming
  BY <1>1, <1>2, Joined DEF Pending, Incoming
<1>4. Alive \in SUBSET Ids /\ dying \in SUBSET Ids
  BY PendingFacts DEF ClientInv
<1>5. quickReuse \in BOOLEAN
  BY SessionAssumption DEF ClientInv, ClientTypeOK
<1>6. Incoming.id \in Ids /\ Incoming.owner \in Ids \cup {NoParent}
  BY <1>1, IncomingTyped DEF ClientInv
<1> QED BY <1>1, <1>3, <1>4, <1>5, <1>6 DEF ClientInv, ClientTypeOK, InSync
-----------------------------------------------------------------------------
(* The spawn of what was just destroyed is skipped.                        *)
LEMMA SpawnSkippedStep ==
    ASSUME ClientInv, ClientTypeOK', UNCHANGED quickReuse, SpawnSkipped
    PROVE  ClientInv'
<1>1. /\ Handles("spawn") /\ Incoming.id \in justDestroyed
      /\ justDestroyed' \subseteq justDestroyed
      /\ UNCHANGED <<phase, failed>> /\ UNCHANGED switched /\ events' = Tail(events)
      /\ UNCHANGED vars /\ UNCHANGED wire
      /\ present' = present /\ dying' = dying /\ holder' = holder
  BY DEF SpawnSkipped, SkipsSpawn, Handled
<1>2. /\ phase = "drain" /\ events # <<>>
      /\ Pending \in Seq(Message) /\ Pending # <<>> /\ Head(Pending) = Incoming
      /\ Incoming.type = "spawn"
      /\ Synced(Pending, ServerTable, Alive, dying, holder, quickReuse)
      /\ Alive \in SUBSET Ids
  BY <1>1, IncomingFacts
<1>3. DestructionAwaited(Tail(Pending), Incoming.id)
  <2>1. /\ Len(Pending) \in Nat /\ Len(Tail(Pending)) = Len(Pending) - 1
        /\ \A k \in 1 .. Len(Pending) - 1 : Tail(Pending)[k] = Pending[k + 1]
    BY <1>2, TailFacts
  <2>2. events[1] = Incoming /\ 1 \in 1 .. Len(events)
    <3>1. events \in Seq(Message)
      BY DEF ClientInv, ClientTypeOK
    <3>2. Len(events) \in Nat /\ Len(events) >= 1 /\ Head(events) = events[1]
      BY <1>2, <3>1, TailFacts
    <3> QED BY <3>2 DEF Incoming
  <2>3. PICK l \in 1 + 1 .. Len(Pending) : Pending[l].type = "destroy" /\ Pending[l].id = Incoming.id
    BY <1>1, <1>2, <2>2 DEF ClientInv, SkipsEnd, SkipsIn
  <2>4. l - 1 \in 1 .. Len(Pending) - 1 /\ l - 1 + 1 = l
    BY <2>1
  <2>5. Tail(Pending)[l - 1] = Pending[l]
    BY <2>1, <2>4
  <2> QED BY <2>1, <2>3, <2>4, <2>5 DEF DestructionAwaited
<1>4. Synced(Tail(Pending), ServerTable, Alive, dying, holder, quickReuse)
  BY <1>2, <1>3, SkippingSeen
<1>5. Synced(Tail(Pending), ServerTable, Alive', dying', holder', quickReuse)
  BY <1>1, <1>4 DEF Alive
<1>6. FreeUnlessPresent' /\ HolderExists'
  <2>1. FreeUnlessPresent /\ HolderExists
    BY DEF ClientInv
  <2>2. quickReuse' = quickReuse /\ present' = present /\ holder' = holder
    BY <1>1
  <2> QED BY ONLY <2>1, <2>2 DEF FreeUnlessPresent, HolderExists
<1> QED BY <1>1, <1>2, <1>5, <1>6, DrainStepAlone

(* The client handles a rejection.                                         *)
LEMMA HandleRejectStep ==
    ASSUME ClientInv, ClientTypeOK', UNCHANGED quickReuse, HandleReject
    PROVE  ClientInv'
<1> DEFINE e == Incoming.id
           p == Incoming.owner
           drops == OwnerPresent /\ e \in present
<1>1. Handles("reject")
  BY DEF HandleReject
<1>2. /\ phase = "drain" /\ events # <<>>
      /\ Pending \in Seq(Message) /\ Pending # <<>> /\ Head(Pending) = Incoming
      /\ Head(Pending).type = "reject"
      /\ Synced(Pending, ServerTable, Alive, dying, holder, quickReuse)
      /\ Alive \in SUBSET Ids
      /\ holder \in [Ids -> Ids \cup {NoParent}]
      /\ e \in Ids /\ p \in Ids \cup {NoParent}
      /\ e = Head(Pending).id /\ p = Head(Pending).owner
      /\ FreeUnlessPresent /\ HolderExists
  BY <1>1, IncomingFacts DEF ClientInv
<1>3. CASE /\ holder' = IF drops /\ ~(p \in Stalkers /\ e \in dying)
                        THEN [holder EXCEPT ![e] = NoParent] ELSE holder
           /\ Handled
           /\ UNCHANGED <<vars, wire, justDestroyed, present, dying>>
  <2>1. /\ UNCHANGED <<phase, failed>> /\ UNCHANGED switched /\ events' = Tail(events)
        /\ UNCHANGED vars /\ UNCHANGED wire
        /\ justDestroyed' \subseteq justDestroyed
        /\ present' = present /\ dying' = dying
    BY <1>3 DEF Handled
  <2>2. \A x \in Ids : holder'[x] = holder[x] \/ (x = e /\ holder'[x] = NoParent)
    <3>1. holder' = holder \/ holder' = [holder EXCEPT ![e] = NoParent]
      BY <1>3
    <3>2. holder \in [Ids -> Ids \cup {NoParent}]
      BY <1>2
    <3> HIDE DEF e, p, drops
    <3> QED BY ONLY <3>1, <3>2
  <2>3. ~quickReuse /\ e \in Alive /\ holder[e] = p => holder'[e] = NoParent
    <3> SUFFICES ASSUME ~quickReuse, e \in Alive, holder[e] = p, p # NoParent
                 PROVE  holder'[e] = NoParent
      BY <1>3
    <3>1. e \in present /\ e \notin dying
      BY DEF Alive
    <3>2. p \in present
      BY <1>2, <3>1 DEF HolderExists
    <3> QED BY <1>2, <1>3, <3>1, <3>2 DEF OwnerPresent
  <2> HIDE DEF e, p, drops
  <2>4. Synced(Tail(Pending), ServerTable, Alive, dying, holder', quickReuse)
    BY <1>2, <2>2, <2>3, RejectionSeen
  <2>5. Synced(Tail(Pending), ServerTable, Alive', dying', holder', quickReuse)
    BY <2>1, <2>4 DEF Alive
  <2>7. FreeUnlessPresent' /\ HolderExists'
    <3>1. quickReuse' = quickReuse /\ present' = present /\ present \subseteq Ids
      BY <2>1 DEF ClientInv, ClientTypeOK
    <3> QED BY <1>2, <2>2, <3>1 DEF FreeUnlessPresent, HolderExists
  <2> QED BY <1>2, <2>1, <2>5, <2>7, DrainStepAlone
<1>4. CASE \E what \in {"no such item", "not held"} : Fail(what)
  BY <1>4, FailStep
<1> QED BY <1>3, <1>4 DEF HandleReject

(* The client handles a destruction.                                       *)
LEMMA HandleDestroyStep ==
    ASSUME ClientInv, ClientTypeOK', UNCHANGED quickReuse, HandleDestroy
    PROVE  ClientInv'
<1> DEFINE e == Incoming.id
<1>1. /\ Handles("destroy")
      /\ dying' = dying \cup Doomed(e)
      /\ UNCHANGED <<phase, failed>> /\ UNCHANGED switched /\ events' = Tail(events)
      /\ UNCHANGED vars /\ UNCHANGED wire
      /\ justDestroyed' \subseteq justDestroyed
      /\ present' = present /\ holder' = holder
  BY DEF HandleDestroy, Handled
<1>2. /\ phase = "drain" /\ events # <<>>
      /\ Pending \in Seq(Message) /\ Pending # <<>> /\ Head(Pending) = Incoming
      /\ Head(Pending).type = "destroy"
      /\ Synced(Pending, ServerTable, Alive, dying, holder, quickReuse)
      /\ Alive \in SUBSET Ids
      /\ e \in Ids /\ e = Head(Pending).id
      /\ FreeUnlessPresent /\ HolderExists /\ quickReuse \in BOOLEAN
  BY <1>1, IncomingFacts DEF ClientInv
<1>3. /\ Alive' = Alive \ Doomed(e)
      /\ e \in Alive => e \in Doomed(e)
      /\ e \notin Alive => Doomed(e) = {}
  BY <1>1, <1>2, BelowAlive DEF Doomed, Alive
<1>4. ~quickReuse => Alive' = Alive \ {e} /\ dying' \subseteq dying \cup {e}
  <2> SUFFICES ASSUME ~quickReuse
               PROVE  Alive' = Alive \ {e} /\ dying' \subseteq dying \cup {e}
    OBVIOUS
  <2>2. \A x \in Alive : holder[x] = e => x = e
    BY <1>2, NothingHeld
  <2>3. e \in Alive => Doomed(e) = {e}
    BY <1>2, <2>2, BelowAlive DEF Doomed
  <2> QED BY <1>1, <1>3, <2>3
<1> HIDE DEF e
<1>5. Alive' \subseteq Alive \ {e}
  BY <1>3
<1>6. Synced(Tail(Pending), ServerTable, Alive', dying', holder, quickReuse)
  BY <1>2, <1>4, <1>5, DestructionSeen
<1>7. FreeUnlessPresent' /\ HolderExists'
  <2>1. quickReuse' = quickReuse /\ present' = present /\ holder' = holder
    BY <1>1
  <2> QED BY ONLY <1>2, <2>1 DEF FreeUnlessPresent, HolderExists
<1>8. Synced(Tail(Pending), ServerTable, Alive', dying', holder', quickReuse)
  BY <1>1, <1>6
<1> QED BY <1>1, <1>2, <1>7, <1>8, DrainStepAlone

-----------------------------------------------------------------------------
(* p gets e, or it refuses e and the server is told to take it back.       *)
LEMMA GivenSent ==
    ASSUME Forest, Accounted, Forest', Accounted', ClientInv,
           UNCHANGED <<quickReuse, switched>>,
           NEW p \in Ids, NEW e \in Ids,
           NEW holders \in [Ids -> Ids \cup {NoParent}], GivenTo(p, e, holders)
    PROVE  \E m \in Seq(Message) :
               /\ Broadcast(m)
               /\ Synced(Pending \o m, ServerTable', Alive, dying, holder, quickReuse)
               /\ LookedAtGone'
               /\ \A i \in Ids \ {e} : holder'[i] = holders[i]
               /\ holder'[e] = p \/ (holder'[e] = holders[e] /\ ServerTable'[e] # {p})
<1>1. /\ Pending \in Seq(Message) /\ wire \in Seq(Message) /\ dying \in SUBSET Ids
      /\ Synced(Pending, ServerTable, Alive, dying, holder, quickReuse)
  BY PendingFacts DEF ClientInv, InSync
<1>2. CASE UNCHANGED <<vars, wire>>
  <2>1. <<>> \in Seq(Message) /\ wire \o <<>> = wire /\ Pending \o <<>> = Pending
    BY <1>1, NothingMore
  <2>2. wire' = wire
    BY <1>2
  <2>3. Broadcast(<<>>)
    BY <2>1, <2>2 DEF Broadcast
  <2>4. ServerTable' = ServerTable
    BY <1>2 DEF vars, ServerTable, TableFor
  <2>5. Synced(Pending \o <<>>, ServerTable', Alive, dying, holder, quickReuse)
    BY <1>1, <2>1, <2>4
  <2>6. LookedAtGone'
    <3>1. LookedAtGone
      BY DEF ClientInv
    <3>2. /\ quickReuse' = quickReuse /\ objects' = objects /\ wire' = wire
          /\ parent' = parent /\ switched' = switched
      BY <1>2 DEF vars
    <3> QED BY ONLY <3>1, <3>2 DEF LookedAtGone
  <2>8. holder' = [holders EXCEPT ![e] = p] \/ (holder' = holders /\ ServerTable'[e] # {p})
    <3>1. CASE RejectAtServer(p, e) /\ holder' = holders
      <4>1. p \notin entities \/ e \notin entities \/ ProcessReject(p, e)
        BY <3>1 DEF RejectAtServer
      <4>2. CASE ProcessReject(p, e)
        <5>1. ServerTable'[e] = {NoParent}
          BY <1>1, <4>2, SyncedReject
        <5> QED BY <3>1, <5>1, IdsAssumption
      <4>3. CASE p \notin entities \/ e \notin entities
        <5>1. ServerTable[p] = {} \/ ServerTable[e] = {}
          BY <4>3 DEF ServerTable, TableFor
        <5>2. OwnersThere(ServerTable)
          BY ServerTableOK
        <5>3. ServerTable[e] # {p}
          BY <5>1, <5>2 DEF OwnersThere
        <5> QED BY <2>4, <3>1, <5>3
      <4> QED BY <4>1, <4>2, <4>3
    <3> QED BY <3>1 DEF GivenTo
  <2>7. /\ \A i \in Ids \ {e} : holder'[i] = holders[i]
        /\ holder'[e] = p \/ (holder'[e] = holders[e] /\ ServerTable'[e] # {p})
    BY <2>8
  <2> QED BY ONLY <2>1, <2>3, <2>5, <2>6, <2>7
<1>3. CASE ProcessReject(p, e) /\ Broadcast(Detached(e)) /\ holder' = holders
  <2>1. /\ Synced(Pending \o Detached(e), ServerTable', Alive, dying, holder, quickReuse)
        /\ Detached(e) \in Seq(Message)
        /\ ServerTable'[e] = {NoParent}
    BY <1>1, <1>3, SyncedReject
  <2>2. /\ e \in entities /\ objects' \subseteq objects \cup {e} /\ objects' \subseteq Ids
        /\ \A c \in Ids \ {e} : parent'[c] = parent[c]
    BY <1>3 DEF ProcessReject, Forest, TypeOK
  <2>3. \A c \in Ids : ~DestructionAwaited(Detached(e), c)
    BY DetachedGone
  <2> DEFINE m == Detached(e)
  <2>4. m \in Seq(Message) /\ Broadcast(m) /\ \A c \in Ids : ~DestructionAwaited(m, c)
    BY <1>3, <2>1, <2>3
  <2> HIDE DEF m
  <2>5. LookedAtGone'
    BY <2>2, <2>4, GoneUntouched
  <2>6. ServerTable'[e] # {p}
    BY <2>1, IdsAssumption
  <2> QED BY <1>3, <2>1, <2>5, <2>6
<1> QED BY <1>2, <1>3 DEF GivenTo, RejectAtServer

(* What the client has or is about to destroy is free when it is given.    *)
LEMMA FreeWhenGiven ==
    ASSUME NEW Q \in Seq(Message), Q # <<>>, NEW sv, NEW al, NEW dy, NEW ho, NEW reuse,
           ~reuse,
           Synced(Q, sv, al, dy, ho, reuse), Head(Q).type = "take"
    PROVE  Head(Q).id \in al \cup dy => ho[Head(Q).id] = NoParent
<1> DEFINE e == Head(Q).id
<1>0. PICK V : SyncedBy(V, Q, sv, al, dy, ho, reuse)
  BY DEF Synced
<1>1. e \in Ids
  BY TailFacts, MessageFields
<1>2. V[1][e] = {NoParent}
  BY <1>0, FirstMessage DEF SyncedBy, Before
<1>3. e \notin dy
  <2>1. 1 \in 1 .. Len(Q) + 1
    BY TailFacts
  <2> QED BY <1>0, <1>2, <2>1 DEF SyncedBy, Buried
<1>4. FollowedAt(V[1], Q, al, ho, e)
  BY <1>0, <1>1 DEF SyncedBy, Followed
<1> QED BY <1>2, <1>3, <1>4 DEF FollowedAt

(* What is spawned is not there, not even on its way out while ids rest.   *)
LEMMA NewWhenSpawned ==
    ASSUME NEW Q \in Seq(Message), Q # <<>>, NEW sv, NEW al, NEW dy, NEW ho, NEW reuse,
           Synced(Q, sv, al, dy, ho, reuse), Head(Q).type = "spawn"
    PROVE  Head(Q).id \notin al /\ (~reuse => Head(Q).id \notin dy)
<1> DEFINE e == Head(Q).id
<1>0. PICK V : SyncedBy(V, Q, sv, al, dy, ho, reuse)
  BY DEF Synced
<1>1. V[1][e] = {} /\ V[2][e] # {}
  BY <1>0, FirstMessage DEF SyncedBy, Before, After
<1>2. e \notin al
  BY <1>0, <1>1 DEF SyncedBy
<1>3. ASSUME ~reuse PROVE e \notin dy
  <2>1. 2 \in 1 .. Len(Q) + 1
    BY TailFacts
  <2> QED BY <1>0, <1>1, <1>3, <2>1 DEF SyncedBy, Buried
<1> QED BY <1>2, <1>3
-----------------------------------------------------------------------------
(* The client handles a take.                                              *)
LEMMA HandleTakeStep ==
    ASSUME Forest, Accounted, Forest', Accounted', ClientInv, ClientTypeOK',
           UNCHANGED quickReuse,
           HandleTake
    PROVE  ClientInv'
<1> DEFINE e == Incoming.id
           p == Incoming.owner
<1>1. Handles("take")
  BY DEF HandleTake
<1>2. /\ phase = "drain" /\ events # <<>>
      /\ Pending \in Seq(Message) /\ Pending # <<>>
      /\ Head(Pending) = Incoming
      /\ Head(Pending).type = "take"
      /\ Synced(Pending, ServerTable, Alive, dying, holder, quickReuse)
      /\ Alive \in SUBSET Ids
      /\ holder \in [Ids -> Ids \cup {NoParent}]
      /\ e \in Ids /\ p \in Ids \cup {NoParent}
      /\ e = Head(Pending).id /\ p = Head(Pending).owner
      /\ FreeUnlessPresent /\ HolderExists
  BY <1>1, IncomingFacts DEF ClientInv
<1>3. CASE /\ UNCHANGED <<present, dying, justDestroyed>>
           /\ Handled
           /\ p \in present /\ e \in present /\ GivenTo(p, e, holder)
  <2>1. p \in Ids /\ UNCHANGED <<quickReuse, switched>> /\ events' = Tail(events)
        /\ UNCHANGED <<phase, failed>> /\ present' = present /\ dying' = dying
        /\ justDestroyed' \subseteq justDestroyed /\ Alive' = Alive
    BY <1>3 DEF ClientInv, ClientTypeOK, Handled, Alive
  <2> HIDE DEF e, p
  <2>2. PICK m \in Seq(Message) :
            /\ Broadcast(m)
            /\ Synced(Pending \o m, ServerTable', Alive, dying, holder, quickReuse)
            /\ LookedAtGone'
            /\ \A i \in Ids \ {e} : holder'[i] = holder[i]
            /\ holder'[e] = p \/ (holder'[e] = holder[e] /\ ServerTable'[e] # {p})
    BY <1>2, <1>3, <2>1, GivenSent
  <2>3. /\ Pending \o m \in Seq(Message) /\ Pending \o m # <<>>
        /\ Head(Pending \o m) = Incoming
        /\ Pending' = Tail(Pending \o m)
    BY <1>2, <2>1, <2>2, DrainedPending DEF ClientInv
  <2> DEFINE Q == Pending \o m
  <2>8. /\ Q \in Seq(Message) /\ Q # <<>> /\ e = Head(Q).id /\ p = Head(Q).owner
        /\ Head(Q).type = "take"
        /\ Synced(Q, ServerTable', Alive, dying, holder, quickReuse)
    BY <1>2, <2>2, <2>3
  <2> HIDE DEF Q
  <2>10. /\ Receives(Head(Q), ServerTable', Alive, dying, holder, Alive, dying, holder')
         /\ Head(Q).type \in {"spawn", "take"}
    BY <2>2, <2>8 DEF Receives
  <2>9. Synced(Tail(Q), ServerTable', Alive, dying, holder', quickReuse)
    BY <1>2, <2>8, <2>10, GivingSeen
  <2>4. Synced(Tail(Pending \o m), ServerTable', Alive, dying, holder', quickReuse)
    BY <2>9 DEF Q
  <2>5. Synced(Pending', ServerTable', Alive', dying', holder', quickReuse)
    BY <2>1, <2>3, <2>4
  <2>6. \A i \in Ids : holder'[i] = holder[i] \/ (i = e /\ holder'[i] = p)
    BY <1>2, <2>2
  <2>7. FreeUnlessPresent' /\ HolderExists'
    <3>1. quickReuse' = quickReuse /\ present' = present /\ present \subseteq Ids
      BY <2>1 DEF ClientInv, ClientTypeOK
    <3> QED BY <1>2, <1>3, <2>6, <3>1 DEF FreeUnlessPresent, HolderExists
  <2> QED BY <1>2, <2>1, <2>2, <2>5, <2>7, DrainStep
<1>4. CASE /\ UNCHANGED <<present, dying, justDestroyed>>
           /\ Handled
           /\ p \notin present /\ UNCHANGED <<vars, wire, holder>>
  <2>1. /\ UNCHANGED <<phase, failed>> /\ UNCHANGED switched /\ events' = Tail(events)
        /\ UNCHANGED vars /\ UNCHANGED wire
        /\ justDestroyed' \subseteq justDestroyed
        /\ present' = present /\ dying' = dying /\ holder' = holder
        /\ Alive' = Alive /\ p \notin Alive
    BY <1>4 DEF Handled, Alive
  <2> HIDE DEF e, p
  <2>5. /\ Receives(Head(Pending), ServerTable, Alive, dying, holder, Alive, dying, holder)
        /\ Head(Pending).type \in {"spawn", "take"}
    BY <1>2, <2>1 DEF Receives
  <2>2. Synced(Tail(Pending), ServerTable, Alive, dying, holder, quickReuse)
    BY <1>2, <2>5, GivingSeen
  <2>3. Synced(Tail(Pending), ServerTable, Alive', dying', holder', quickReuse)
    BY <2>1, <2>2
  <2>4. FreeUnlessPresent' /\ HolderExists'
    <3>1. quickReuse' = quickReuse /\ present' = present /\ holder' = holder
      BY <2>1
    <3> QED BY ONLY <1>2, <3>1 DEF FreeUnlessPresent, HolderExists
  <2> QED BY <1>2, <2>1, <2>3, <2>4, DrainStepAlone
<1>5. CASE Fail("no such item")
  BY <1>5, FailStep
<1>6. CASE e \in present /\ GivingFails(p, e, holder)
  <2>1. ~quickReuse => holder[e] = NoParent
    BY <1>2, <1>6, FreeWhenGiven DEF Alive
  <2> HIDE DEF e, p
  <2> QED BY <1>6, <2>1, FailStep DEF GivingFails
<1> QED BY <1>3, <1>4, <1>5, <1>6 DEF HandleTake, OwnerPresent

(* The client handles a spawn.                                             *)
LEMMA HandleSpawnStep ==
    ASSUME Forest, Accounted, Forest', Accounted', ClientInv, ClientTypeOK',
           UNCHANGED quickReuse,
           HandleSpawn
    PROVE  ClientInv'
<1> DEFINE e == Incoming.id
           p == Incoming.owner
           gone == Flushed(e)
           holders == HoldersWithout(gone)
<1>1. Handles("spawn")
  BY DEF HandleSpawn
<1>2. /\ phase = "drain" /\ events # <<>>
      /\ Pending \in Seq(Message) /\ Pending # <<>>
      /\ Head(Pending) = Incoming
      /\ Head(Pending).type = "spawn"
      /\ Synced(Pending, ServerTable, Alive, dying, holder, quickReuse)
      /\ Alive \in SUBSET Ids /\ dying \subseteq present
      /\ holder \in [Ids -> Ids \cup {NoParent}]
      /\ e \in Ids /\ p \in Ids \cup {NoParent}
      /\ e = Head(Pending).id /\ p = Head(Pending).owner
      /\ FreeUnlessPresent /\ HolderExists
  BY <1>1, IncomingFacts DEF ClientInv
<1>3. e \notin Alive /\ (~quickReuse => e \notin dying)
  BY <1>2, NewWhenSpawned
<1>4. /\ gone \in {{}, dying} /\ e \notin present \ gone
      /\ ~quickReuse => gone = {} /\ e \notin present
  BY <1>3 DEF Flushed, Alive
<1>5. /\ \A i \in Ids : holders[i] = holder[i] \/ (i \in gone /\ holders[i] = NoParent)
      /\ \A i \in Ids : i \in gone => holders[i] = NoParent
      /\ holders \in [Ids -> Ids \cup {NoParent}]
      /\ ~quickReuse => holders = holder
  <2>1. holders = [i \in Ids |-> IF i \in gone THEN NoParent ELSE holder[i]]
    BY DEF HoldersWithout
  <2> HIDE DEF gone, holders, e, p
  <2>2. gone = {} => holders = holder
    BY <1>2, <2>1
  <2> QED BY <1>2, <1>4, <2>1, <2>2
<1>6. ~quickReuse => holder[e] = NoParent /\ holders[e] = NoParent
  BY <1>2, <1>4, <1>5 DEF FreeUnlessPresent
<1>7. ASSUME present' = (present \ gone) \cup {e}, dying' = dying \ gone,
             IF p \in present' THEN GivenTo(p, e, holders)
             ELSE holder' = holders /\ UNCHANGED <<vars, wire>>,
             Handled, UNCHANGED justDestroyed
      PROVE  ClientInv'
  <2>1. /\ UNCHANGED <<quickReuse, switched>> /\ events' = Tail(events)
        /\ UNCHANGED <<phase, failed>>
        /\ justDestroyed' \subseteq justDestroyed
    BY <1>7 DEF Handled
  <2> HIDE DEF e, p, gone, holders
  <2>2. Alive' = Alive \cup {e} /\ dying' \subseteq dying
    <3>1. CASE gone = {}
      <4>1. e \notin dying
        BY <1>2, <1>4, <3>1
      <4> QED BY <1>7, <3>1, <4>1 DEF Alive
    <3>2. CASE gone = dying
      BY <1>7, <3>2 DEF Alive
    <3> QED BY <1>4, <3>1, <3>2
  <2>3. \E m \in Seq(Message) :
            /\ Broadcast(m)
            /\ Synced(Pending \o m, ServerTable', Alive, dying, holder, quickReuse)
            /\ LookedAtGone'
            /\ \A i \in Ids \ {e} : holder'[i] = holders[i]
            /\ \/ holder'[e] = p /\ p \in present'
               \/ holder'[e] = holders[e] /\ (p \in Alive' => ServerTable'[e] # {p})
    <3>1. CASE p \in present'
      <4>1. p \in Ids
        BY <3>1 DEF ClientTypeOK
      <4>2. GivenTo(p, e, holders)
        BY <1>7, <3>1
      <4>3. PICK m \in Seq(Message) :
                /\ Broadcast(m)
                /\ Synced(Pending \o m, ServerTable', Alive, dying, holder, quickReuse)
                /\ LookedAtGone'
                /\ \A i \in Ids \ {e} : holder'[i] = holders[i]
                /\ holder'[e] = p \/ (holder'[e] = holders[e] /\ ServerTable'[e] # {p})
        <5>1. e \in Ids /\ holders \in [Ids -> Ids \cup {NoParent}]
              /\ UNCHANGED <<quickReuse, switched>>
          BY <1>2, <1>5, <2>1
        <5> QED BY <4>1, <4>2, <5>1, GivenSent
      <4>4. \/ holder'[e] = p /\ p \in present'
            \/ holder'[e] = holders[e] /\ (p \in Alive' => ServerTable'[e] # {p})
        BY <3>1, <4>3
      <4> QED BY <4>3, <4>4
    <3>2. CASE p \notin present'
      <4>1. holder' = holders /\ UNCHANGED <<vars, wire>> /\ p \notin Alive'
        BY <1>7, <3>2 DEF Alive
      <4>2. <<>> \in Seq(Message) /\ wire \o <<>> = wire /\ Pending \o <<>> = Pending
        <5>1. wire \in Seq(Message)
          BY DEF ClientInv, ClientTypeOK
        <5> QED BY <1>2, <5>1, NothingMore
      <4>3. wire' = wire
        BY <4>1
      <4>4. Broadcast(<<>>)
        BY <4>2, <4>3 DEF Broadcast
      <4>5. ServerTable' = ServerTable
        BY <4>1 DEF vars, ServerTable, TableFor
      <4>6. Synced(Pending \o <<>>, ServerTable', Alive, dying, holder, quickReuse)
        BY <1>2, <4>2, <4>5
      <4>7. LookedAtGone'
        <5>1. LookedAtGone
          BY DEF ClientInv
        <5>2. /\ quickReuse' = quickReuse /\ objects' = objects /\ wire' = wire
              /\ parent' = parent /\ switched' = switched
          BY <2>1, <4>1 DEF vars
        <5> QED BY ONLY <5>1, <5>2 DEF LookedAtGone
      <4> QED BY ONLY <4>1, <4>2, <4>4, <4>6, <4>7
    <3> QED BY <3>1, <3>2
  <2>4. PICK m \in Seq(Message) :
            /\ Broadcast(m)
            /\ Synced(Pending \o m, ServerTable', Alive, dying, holder, quickReuse)
            /\ LookedAtGone'
            /\ \A i \in Ids \ {e} : holder'[i] = holders[i]
            /\ \/ holder'[e] = p /\ p \in present'
               \/ holder'[e] = holders[e] /\ (p \in Alive' => ServerTable'[e] # {p})
    BY <2>3
  <2>5. /\ Pending \o m \in Seq(Message) /\ Pending \o m # <<>>
        /\ Head(Pending \o m) = Incoming
        /\ Pending' = Tail(Pending \o m)
    BY <1>2, <2>1, <2>4, DrainedPending DEF ClientInv
  <2>6. ~quickReuse =>
            /\ \A i \in Ids \ {e} : holder'[i] = holder[i]
            /\ holder'[e] = p \/ (holder'[e] = holder[e] /\ (p \in Alive' => ServerTable'[e] # {p}))
    BY <1>5, <2>4
  <2> DEFINE Q == Pending \o m
  <2>11. /\ Q \in Seq(Message) /\ Q # <<>> /\ e = Head(Q).id /\ p = Head(Q).owner
         /\ Head(Q).type = "spawn"
         /\ Synced(Q, ServerTable', Alive, dying, holder, quickReuse)
    BY <1>2, <2>4, <2>5
  <2> HIDE DEF Q
  <2>13. /\ ~quickReuse =>
               Receives(Head(Q), ServerTable', Alive, dying, holder, Alive', dying', holder')
         /\ Head(Q).type \in {"spawn", "take"}
         /\ \A x \in Alive' : x \in Alive \/ x = Head(Q).id
    BY <1>6, <2>2, <2>6, <2>11 DEF Receives
  <2>12. Synced(Tail(Q), ServerTable', Alive', dying', holder', quickReuse)
    BY <1>2, <2>11, <2>13, GivingSeen
  <2>7. Synced(Tail(Pending \o m), ServerTable', Alive', dying', holder', quickReuse)
    BY <2>12 DEF Q
  <2>8. Synced(Pending', ServerTable', Alive', dying', holder', quickReuse)
    BY <2>5, <2>7
  <2>9. FreeUnlessPresent'
    <3>1. \A i \in Ids \ present' : i # e /\ (i \in gone \/ i \notin present)
      BY <1>7
    <3>2. \A i \in Ids : i # e => holder'[i] = holders[i]
      BY <1>5, <2>4
    <3> QED BY <1>2, <1>5, <3>1, <3>2 DEF FreeUnlessPresent
  <2>10. HolderExists'
    <3> SUFFICES ASSUME ~quickReuse, NEW i \in present', holder'[i] # NoParent
                 PROVE  holder'[i] \in present'
      BY DEF HolderExists
    <3>1. present' = present \cup {e} /\ i \in Ids
      BY <1>4, <1>7 DEF ClientTypeOK
    <3>2. CASE i = e
      BY <1>2, <1>5, <1>6, <2>4, <3>2
    <3>3. CASE i # e
      <4>1. i \in present /\ holder'[i] = holder[i]
        BY <1>5, <2>4, <3>1, <3>3
      <4> QED BY <1>2, <3>1, <4>1 DEF HolderExists
    <3> QED BY <3>2, <3>3
  <2> QED BY <1>2, <2>1, <2>4, <2>8, <2>9, <2>10, DrainStep
<1>8. CASE e \in present \ gone
  BY <1>4, <1>8
<1>9. CASE GivingFails(p, e, holders)
  <2>1. ~quickReuse => holders[e] = NoParent
    BY <1>6
  <2> HIDE DEF e, p, gone, holders
  <2> QED BY <1>9, <2>1, FailStep DEF GivingFails
<1> QED BY <1>7, <1>8, <1>9 DEF HandleSpawn

-----------------------------------------------------------------------------
(* The client receives what was sent since its last frame, and notes what  *)
(* of it is destroyed.                                                     *)
LEMMA ReceiveStep ==
    ASSUME ClientInv, ClientTypeOK', UNCHANGED quickReuse, ClientReceive
    PROVE  ClientInv'
<1>1. /\ phase' = "drain" /\ events' = events \o wire /\ wire' = <<>>
      /\ justDestroyed' = {}
      /\ quickReuse' = quickReuse /\ present' = present /\ dying' = dying /\ holder' = holder
      /\ failed' = failed /\ entities' = entities /\ parent' = parent
  BY DEF ClientReceive, Forgotten, vars
<1>2. Pending' = Pending
  <2>1. (events \o wire) \o <<>> = events \o wire
    <3>1. events \o wire \in Seq(Message)
      BY Chained DEF ClientInv, ClientTypeOK
    <3> QED BY <3>1, NothingMore
  <2> QED BY <1>1, <2>1 DEF Pending
<1>3. InSync'
  <2>1. InSync
    BY DEF ClientInv
  <2> QED BY ONLY <1>1, <1>2, <2>1 DEF InSync, ServerTable, TableFor, Alive
<1>4. BetweenFrames' /\ SkipsEnd' /\ LookedAtGone'
  <2>1. BetweenFrames' /\ SkipsEnd'
    BY <1>1 DEF BetweenFrames, SkipsEnd, SkipsIn
  <2>2. \A c : ~DestructionAwaited(<<>>, c)
    BY DEF DestructionAwaited
  <2> QED BY <1>1, <2>1, <2>2 DEF LookedAtGone
<1>5. FreeUnlessPresent' /\ HolderExists'
  <2>1. FreeUnlessPresent /\ HolderExists
    BY DEF ClientInv
  <2> QED BY ONLY <1>1, <2>1 DEF FreeUnlessPresent, HolderExists
<1>6. RegisteredOnce' /\ TakenWhenFree'
  <2>1. RegisteredOnce /\ TakenWhenFree
    BY DEF ClientInv
  <2> QED BY ONLY <1>1, <2>1 DEF RegisteredOnce, TakenWhenFree
<1> QED BY <1>3, <1>4, <1>5, <1>6 DEF ClientInv

(* The frame ends: what is dying goes.                                     *)
LEMMA EndFrameStep ==
    ASSUME ClientInv, ClientTypeOK', UNCHANGED quickReuse, EndFrame
    PROVE  ClientInv'
<1>1. /\ phase' = "play" /\ events = <<>> /\ events' = <<>> /\ wire' = wire
      /\ present' = present \ dying /\ holder' = HoldersWithout(dying) /\ dying' = {}
      /\ justDestroyed' = justDestroyed /\ switched' = switched
      /\ quickReuse' = quickReuse /\ failed' = failed
      /\ entities' = entities /\ objects' = objects /\ parent' = parent
  BY DEF EndFrame, vars
<1>2. /\ Pending' = Pending /\ ServerTable' = ServerTable /\ Alive' = Alive
  BY <1>1 DEF Pending, ServerTable, TableFor, Alive
<1>3. \A i \in Ids : holder'[i] = IF i \in dying THEN NoParent ELSE holder[i]
  BY <1>1 DEF HoldersWithout
<1>4. /\ Pending \in Seq(Message) /\ Alive \in SUBSET Ids /\ present \subseteq Ids
      /\ Synced(Pending, ServerTable, Alive, dying, holder, quickReuse)
      /\ FreeUnlessPresent /\ HolderExists
      /\ holder \in [Ids -> Ids \cup {NoParent}]
  BY PendingFacts DEF ClientInv, InSync, ClientTypeOK
<1>5. InSync'
  <2>1. \A e \in Alive : holder'[e] = holder[e]
    BY <1>3, <1>4 DEF Alive
  <2>2. Synced(Pending, ServerTable, Alive, {}, holder', quickReuse)
    BY <1>4, <2>1, FlushSeen
  <2>3. Synced(Pending', ServerTable', Alive', dying', holder', quickReuse)
    BY <1>1, <1>2, <2>2
  <2> QED BY <1>1, <2>3 DEF InSync
<1>6. BetweenFrames'
  BY <1>1 DEF BetweenFrames
<1>7. SkipsEnd'
  BY <1>1 DEF SkipsEnd, SkipsIn
<1>8. LookedAtGone'
  <2>1. LookedAtGone
    BY DEF ClientInv
  <2> QED BY ONLY <1>1, <2>1 DEF LookedAtGone
<1>9. FreeUnlessPresent'
  BY <1>1, <1>3, <1>4 DEF FreeUnlessPresent
<1>10. HolderExists'
  <2> SUFFICES ASSUME ~quickReuse, NEW i \in present', holder'[i] # NoParent
               PROVE  holder'[i] \in present'
    BY <1>1 DEF HolderExists
  <2>1. i \in present /\ i \in Alive /\ i \in Ids /\ holder'[i] = holder[i]
    BY <1>1, <1>3, <1>4 DEF Alive
  <2>2. holder[i] \in present /\ holder[i] \in Ids
    BY <1>4, <2>1 DEF HolderExists
  <2>3. holder[i] \notin dying
    BY <1>4, <2>1, <2>2, OwnerStays
  <2> QED BY <1>1, <2>1, <2>2, <2>3
<1>11. RegisteredOnce' /\ TakenWhenFree'
  <2>1. RegisteredOnce /\ TakenWhenFree
    BY DEF ClientInv
  <2> QED BY ONLY <1>1, <2>1 DEF RegisteredOnce, TakenWhenFree
<1> QED BY <1>5, <1>6, <1>7, <1>8, <1>9, <1>10, <1>11 DEF ClientInv

(* Each step of the client's frame.                                        *)
LEMMA FrameStep ==
    ASSUME Forest, Accounted, Forest', Accounted', ClientInv, ClientTypeOK',
           UNCHANGED quickReuse,
           Frame
    PROVE  ClientInv'
BY ReceiveStep, EndFrameStep, SpawnSkippedStep, HandleSpawnStep, HandleTakeStep,
   HandleRejectStep, HandleDestroyStep DEF Frame, Drain

(* A step that changes nothing keeps it.                                   *)
LEMMA UnchangedStep ==
    ASSUME ClientInv, UNCHANGED sessionVars
    PROVE  ClientInv'
<1>1. /\ entities' = entities /\ objects' = objects /\ parent' = parent
      /\ quickReuse' = quickReuse /\ wire' = wire /\ events' = events
      /\ phase' = phase /\ switched' = switched /\ justDestroyed' = justDestroyed
      /\ present' = present /\ dying' = dying /\ holder' = holder /\ failed' = failed
  BY DEF sessionVars, vars, client
<1> QED BY ONLY <1>1, ClientInv
        DEF ClientInv, ClientTypeOK, InSync, Pending, ServerTable, TableFor, Alive, BetweenFrames,
            FreeUnlessPresent, SkipsEnd, LookedAtGone, HolderExists, RegisteredOnce, TakenWhenFree

(* Every step of the session keeps the three parts of the invariant.       *)
LEMMA ClientInvStep ==
    ASSUME Disciplined, Forest, Accounted, ClientInv, [SessionNext]_sessionVars
    PROVE  Forest' /\ Accounted' /\ ClientInv'
<1>1. Forest' /\ ClientTypeOK'
  BY SessionTypedStep DEF ClientInv
<1>2. Accounted'
  BY SessionStep, AccountedStep
<1>3. CASE UNCHANGED sessionVars
  BY <1>1, <1>2, <1>3, UnchangedStep
<1>4. CASE SessionNext
  <2>1. UNCHANGED quickReuse /\ (GameCode \/ ALife \/ Frame)
    BY <1>4 DEF SessionNext
  <2> QED BY <1>1, <1>2, <2>1, GameCodeStep, ALifeStep, FrameStep
<1> QED BY <1>1, <1>2, <1>3, <1>4

(* They hold at the start.                                                 *)
LEMMA ClientStart == SessionInit => Forest /\ Accounted /\ ClientInv
<1> SUFFICES ASSUME SessionInit PROVE Accounted /\ ClientInv
  BY SessionStart
<1> DEFINE v == [e \in Ids |-> {}]
           V == [k \in 1 .. 1 |-> v]
<1>1. Accounted
  BY DEF SessionInit, Init, Accounted, LinksInside, IdsAccounted
<1>2. /\ entities = {} /\ objects = {} /\ wire = <<>> /\ events = <<>> /\ dying = {} /\ present = {}
      /\ holder = [i \in Ids |-> NoParent] /\ justDestroyed = {} /\ failed = "none"
  BY DEF SessionInit, Init
<1>3. Pending = <<>> /\ Alive = {} /\ ServerTable = v
  BY <1>2 DEF Pending, Alive, ServerTable, TableFor
<1>4. SyncedBy(V, <<>>, v, {}, {}, holder, quickReuse)
  <2>1. /\ v \in TableOf /\ OwnersThere(v) /\ \A e \in Ids : v[e] = {}
    BY DEF TableOf, OwnersThere
  <2>2. /\ V[1] = v /\ V \in [1 .. 1 -> TableOf] /\ \A k \in 1 .. 1 : V[k] = v
    BY <2>1
  <2> HIDE DEF v, V
  <2>3. Len(<<>>) = 0 /\ 0 + 1 = 1 /\ \A k \in 1 .. 0 : FALSE
    OBVIOUS
  <2>4. Views(V, <<>>)
    BY <2>1, <2>2, <2>3 DEF Views
  <2>5. Followed(V[1], <<>>, {}, holder)
    BY <2>1, <2>2 DEF Followed, FollowedAt
  <2>6. Buried(V, <<>>, {})
    BY <2>3 DEF Buried
  <2> QED BY <2>2, <2>3, <2>4, <2>5, <2>6 DEF SyncedBy
<1> HIDE DEF v, V
<1>5. InSync
  BY <1>2, <1>3, <1>4 DEF InSync, Synced
<1>6. ClientTypeOK
  BY SessionStart
<1> QED BY <1>1, <1>2, <1>5, <1>6
        DEF ClientInv, BetweenFrames, FreeUnlessPresent, SkipsEnd, SkipsIn, LookedAtGone,
            HolderExists, RegisteredOnce, TakenWhenFree

(* What the client has and what is under way explain what the server has,  *)
(* in every reachable state.                                               *)
LEMMA ClientInvariant == Disciplined => (SessionSpec => []ClientInv)
<1> SUFFICES ASSUME Disciplined
             PROVE  SessionSpec => []ClientInv
  OBVIOUS
<1> DEFINE All == Forest /\ Accounted /\ ClientInv
<1>1. SessionInit => All
  BY ClientStart
<1>2. All /\ [SessionNext]_sessionVars => All'
  BY ClientInvStep
<1>3. All => ClientInv
  OBVIOUS
<1> QED BY <1>1, <1>2, <1>3, PTL DEF SessionSpec

(* The client never registers two objects under one id, however soon ids   *)
(* are given out again and however many messages are under way.            *)
THEOREM NoDoubleRegistration == Disciplined => (SessionSpec => []RegisteredOnce)
<1> ClientInv => RegisteredOnce
  BY DEF ClientInv
<1> QED BY ClientInvariant, PTL

(* While ids rest, no object is given to a second owner before the first   *)
(* one let it go.                                                          *)
THEOREM NoTakeOfHeld == Disciplined => (SessionSpec => []TakenWhenFree)
<1> ClientInv => TakenWhenFree
  BY DEF ClientInv
<1> QED BY ClientInvariant, PTL

(* While ids rest, no client object has an owner that is gone.             *)
THEOREM NoDanglingHolder == Disciplined => (SessionSpec => []HolderExists)
<1> ClientInv => HolderExists
  BY DEF ClientInv
<1> QED BY ClientInvariant, PTL

(* While ids rest, a client that has read everything has the objects of    *)
(* the server with the same owners.                                        *)
THEOREM ClientAgreesWithServer == Disciplined => (SessionSpec => []ClientAgrees)
<1>1. Forest /\ ClientInv => ClientAgrees
  <2> SUFFICES ASSUME Forest, ClientInv, Quiet, ~quickReuse
               PROVE  present = entities /\ \A i \in present : holder[i] = parent[i]
    BY DEF ClientAgrees
  <2>1. wire = <<>> /\ events = <<>> /\ dying = {}
    BY DEF Quiet, ClientInv, BetweenFrames
  <2>2. Pending = <<>> /\ Alive = present /\ Len(<<>>) + 1 = 1
    BY <2>1 DEF Pending, Alive
  <2>3. PICK V : SyncedBy(V, Pending, ServerTable, Alive, dying, holder, quickReuse)
    BY DEF ClientInv, InSync, Synced
  <2>4. /\ V[1] = ServerTable
        /\ \A e \in present : ServerTable[e] # {}
        /\ \A e \in Ids : FollowedAt(ServerTable, <<>>, present, holder, e)
    BY <2>2, <2>3 DEF SyncedBy, Followed
  <2>5. \A e : ~DestructionAwaited(<<>>, e) /\ \A m : ~Awaits(<<>>, m)
    BY DEF DestructionAwaited, Awaits
  <2>6. /\ present \subseteq Ids /\ entities \subseteq Ids
        /\ parent \in [Ids -> Ids \cup {NoParent}] /\ holder \in [Ids -> Ids \cup {NoParent}]
    BY DEF ClientInv, ClientTypeOK, Forest, TypeOK
  <2>7. \A e \in Ids : /\ e \in entities => ServerTable[e] = {parent[e]}
                       /\ e \notin entities => ServerTable[e] = {}
    BY DEF ServerTable, TableFor
  <2>8. present = entities
    <3>1. ASSUME NEW e \in present PROVE e \in entities
      BY <2>4, <2>6, <2>7
    <3>2. ASSUME NEW e \in entities PROVE e \in present
      <4>1. ServerTable[e] # {}
        BY <2>6, <2>7
      <4> QED BY <2>4, <2>5, <2>6, <4>1 DEF FollowedAt
    <3> QED BY <3>1, <3>2
  <2>9. ASSUME NEW i \in present PROVE holder[i] = parent[i]
    <3>1. ServerTable[i] = {parent[i]} /\ i \in Ids
      BY <2>6, <2>7, <2>8
    <3>2. FollowedAt(ServerTable, <<>>, present, holder, i)
      BY <2>4, <3>1
    <3>3. holder[i] # NoParent => holder[i] = parent[i]
      BY <3>1, <3>2 DEF FollowedAt
    <3>4. parent[i] \in Ids => holder[i] = parent[i]
      BY <2>5, <3>1, <3>2 DEF FollowedAt
    <3> QED BY <2>6, <3>1, <3>3, <3>4
  <2> QED BY <2>8, <2>9
<1>2. SessionSpec => []Forest
  BY SessionServed, ForestInvariant, PTL
<1> QED BY <1>1, <1>2, ClientInvariant, PTL
=============================================================================
