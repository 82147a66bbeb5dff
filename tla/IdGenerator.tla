----------------------------- MODULE IdGenerator -----------------------------
(***************************************************************************)
(* CID_Generator, the generator behind xrServer::PerformIDgen and FreeID.  *)
(* The ids 0 .. MaxValue lie in blocks of BlockSize; a block is a stack of *)
(* the ids in it that are free, each as its offset in the block (TYPE_ID), *)
(* and the time an id of it was freed last.  A new id comes from the top   *)
(* of the stack of the block with the oldest time.                         *)
(*                                                                         *)
(* The callers are the server and ALife, which free the ids of objects     *)
(* with the server's time, and the map manager, which frees the ids of     *)
(* user markers with the time 0, as scripts do with an id they take again. *)
(***************************************************************************)
EXTENDS Integers, Sequences, FiniteSets

CONSTANTS MaxValue,     \* the last id: 65534
          BlockSize,    \* 256
          MaxTime       \* bound: the last time of the server's clock

ASSUME GeneratorAssumption ==
    /\ MaxValue \in Nat
    /\ BlockSize \in Nat \ {0}
    /\ MaxTime \in Nat

Ids == 0 .. MaxValue

Blocks == 0 .. MaxValue \div BlockSize

Offsets == 0 .. BlockSize - 1

BlockOf(id) == id \div BlockSize
OffsetOf(id) == id % BlockSize
Value(b, o) == o + b * BlockSize

VARIABLES
    free,       \* m_tpIDs[0 .. m_tCount - 1] of each block, the top at the end
    stamp,      \* m_tTimeID of each block
    available,  \* m_available_count: how many blocks have a free id
    clock,      \* Device.TimerAsync()
    held,       \* the ids in the hands of callers
    hurried,    \* history: the blocks that got the id of a user marker last
    ahead       \* history: ahead[x] is what has been free for longer than x

vars == <<free, stamp, available, clock, held, hurried, ahead>>

TypeOK ==
    /\ free \in [Blocks -> Seq(Offsets)]
    /\ stamp \in [Blocks -> 0..MaxTime]
    /\ available \in Nat
    /\ clock \in 0..MaxTime
    /\ held \subseteq Ids
    /\ hurried \subseteq Blocks
    /\ ahead \in [Ids -> SUBSET Ids]

Size_Whole(b) == BlockSize

(* The last block may be short: 65535 is tInvalidValueID and no id.        *)
Size(b) ==
    IF (b + 1) * BlockSize <= MaxValue + 1 THEN BlockSize ELSE MaxValue + 1 - b * BlockSize

(* The constructor frees all ids in turn and reverses every block.         *)
Init ==
    /\ free = [b \in Blocks |-> [k \in 1..Size(b) |-> Size(b) - k]]
    /\ stamp = [b \in Blocks |-> 0]
    /\ available = MaxValue \div BlockSize + 1
    /\ clock = 0
    /\ held = {}
    /\ hurried = {}
    /\ ahead = [x \in Ids |-> {}]

-----------------------------------------------------------------------------
Older_IgnoresTime(a, b) == free[a] # <<>> /\ free[b] = <<>>

(* operator < of SID_Block: empty blocks come last.                        *)
Older(a, b) == free[a] # <<>> /\ (stamp[a] < stamp[b] \/ free[b] = <<>>)

(* std::min_element: the first of the blocks that no block is older than.  *)
Oldest(b) ==
    /\ \A c \in Blocks : ~Older(c, b)
    /\ \A c \in Blocks : c < b => Older(b, c)

Removed_DropsLast(ids, n) == [k \in 1 .. Len(ids) - 1 |-> ids[k]]

(* The last id of the block takes the place of the n-th.                   *)
Removed(ids, n) == [k \in 1 .. Len(ids) - 1 |-> IF k = n THEN ids[Len(ids)] ELSE ids[k]]

(* tfGetFromBlock for the n-th free id of the block b.                     *)
GetFromBlock(b, n) ==
    LET id == Value(b, free[b][n]) IN
    /\ free' = [free EXCEPT ![b] = Removed(@, n)]
    /\ available' = IF Len(free[b]) = 1 THEN available - 1 ELSE available
    /\ held' = held \cup {id}
    /\ ahead' = [x \in Ids |-> ahead[x] \ {id}]
    /\ UNCHANGED <<clock, hurried>>

(* tfGetID(tInvalidValueID): a new id.                                     *)
Fresh(b) ==
    /\ available # 0
    /\ Oldest(b)
    /\ GetFromBlock(b, Len(free[b]))

GetFresh(b) == Fresh(b) /\ UNCHANGED stamp

(* CALifeSimulator__spawn_item2 for an owner that is online: a new id is   *)
(* freed with the time 0 and then asked for by Process_spawn.              *)
SpawnIntoOnline(b) == Fresh(b) /\ stamp' = [stamp EXCEPT ![b] = 0]

(* tfGetID(id): an object of a saved game, one that goes offline and the   *)
(* like get an id they have had.                                           *)
GetGiven(id) ==
    \E n \in DOMAIN free[BlockOf(id)] :
        /\ free[BlockOf(id)][n] = OffsetOf(id)
        /\ GetFromBlock(BlockOf(id), n)
        /\ UNCHANGED stamp

IsFree(id) == \E n \in DOMAIN free[BlockOf(id)] : free[BlockOf(id)][n] = OffsetOf(id)

Counted_Always(b) == available' = available + 1

Counted(b) == available' = IF free[b] = <<>> THEN available + 1 ELSE available

(* vfFreeID.                                                               *)
Free(id, time) ==
    LET b == BlockOf(id) IN
    /\ id \in held
    /\ Counted(b)
    /\ free' = [free EXCEPT ![b] = Append(@, OffsetOf(id))]
    /\ stamp' = [stamp EXCEPT ![b] = time]
    /\ held' = held \ {id}
    /\ ahead' = [x \in Ids |->
                   IF x = id
                   THEN {y \in Ids : IsFree(y) /\ BlockOf(y) # b /\ stamp[BlockOf(y)] < clock}
                   ELSE {y \in ahead[x] : BlockOf(y) # b}]
    /\ UNCHANGED clock

(* xrServer::entity_Destroy.                                               *)
FreeObject(id) == Free(id, clock) /\ hurried' = hurried \ {BlockOf(id)}

(* SLocationKey::destroy.                                                  *)
FreeMarker(id) == Free(id, 0) /\ hurried' = hurried \cup {BlockOf(id)}

Tick ==
    /\ clock < MaxTime
    /\ clock' = clock + 1
    /\ UNCHANGED <<free, stamp, available, held, hurried, ahead>>

Next ==
    \/ \E b \in Blocks : GetFresh(b) \/ SpawnIntoOnline(b)
    \/ \E id \in Ids : GetGiven(id) \/ FreeObject(id) \/ FreeMarker(id)
    \/ Tick

Spec == Init /\ [][Next]_vars

-----------------------------------------------------------------------------
(* The generator has exactly the ids no caller has, each of them once:     *)
(* "Requesting ID has already been used!" fails only for an id in use.     *)
EachIdOnce ==
    /\ \A id \in Ids : IsFree(id) <=> id \notin held
    /\ \A b \in Blocks : \A m, n \in DOMAIN free[b] :
          free[b][m] = free[b][n] => m = n

(* "Not enough IDs" fails only when all ids are in use.                    *)
AvailableCounts == available = Cardinality({b \in Blocks : free[b] # <<>>})

Left == {id \in Ids : IsFree(id)}

Pool == INSTANCE IdPool WITH left <- Left

(* Blocks, stacks and times are no more than a set of ids to the callers.  *)
PoolImplemented == Pool!Spec

(* A freed id rests: it is new again only after every id that had been     *)
(* free for longer was handed out, or had an id of its block freed after   *)
(* it.  So the client has long forgotten the object that had it before.    *)
(* Not so in a block that got the id of a user marker last.                *)
RestsLongest ==
    [][\A b \in Blocks \ hurried, x \in Ids :
          Fresh(b) /\ x \in held' \ held => ahead[x] = {}]_vars
=============================================================================
