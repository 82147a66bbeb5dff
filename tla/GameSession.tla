---------------------------- MODULE GameSession -----------------------------
(***************************************************************************)
(* The single player session: the server's entities (ServerEntities), the  *)
(* local client (CLevel and its CObjectList) and the messages between      *)
(* them.  What the client sends is handled by the server inside the call;  *)
(* what the server sends waits in the client's net queue until             *)
(* ClientReceive moves it to game_events, which ProcessGameEvents drains   *)
(* once a frame.  So the client acts on a view that lags behind.           *)
(*                                                                         *)
(* Game code runs between the steps of a drain (event handlers and their   *)
(* script callbacks) and outside of it (updates).  Client objects that got *)
(* GE_DESTROY remain until ProcessDestroyQueue at the end of the frame.    *)
(*                                                                         *)
(* An assertion that fails ends the program: failed names it.              *)
(***************************************************************************)
EXTENDS ServerEntities, Sequences, SequencesExt

CONSTANTS Stalkers,  \* CAI_Stalker objects; every other owner is an IInventoryBox
          Reuse,     \* whether an id may be new again before the client forgot it
          MaxQueue   \* bound: messages under way, for either case

ASSUME SessionAssumption ==
    Stalkers \subseteq Ids /\ Reuse \subseteq BOOLEAN /\ MaxQueue \in [BOOLEAN -> Nat]

VARIABLES
    quickReuse,     \* what Reuse allows
    wire,           \* packets for the client, not yet received
    events,         \* NET_Queue_Event game_events
    switched,       \* objects whose m_switch_counter is of this ALife update
    phase,          \* "drain" from ClientReceive to the end of the frame
    justDestroyed,  \* CLevel::m_just_destroyed
    present,        \* keys of CObjectList::map_NETID
    dying,          \* client objects in destroy_queue
    holder,         \* CObject::Parent
    failed          \* the assertion that stopped the program, or "none"

client == <<phase, switched, justDestroyed, present, dying, holder>>
sessionVars == <<vars, quickReuse, wire, events, client, failed>>

SessionInit ==
    /\ Init
    /\ quickReuse \in Reuse
    /\ wire = <<>> /\ events = <<>> /\ phase = "play" /\ switched = {}
    /\ justDestroyed = {} /\ present = {} /\ dying = {} /\ holder = [i \in Ids |-> NoParent]
    /\ failed = "none"

-----------------------------------------------------------------------------
Spawned(id, p) == [type |-> "spawn", id |-> id, owner |-> p]
Taken(p, e) == [type |-> "take", id |-> e, owner |-> p]
Rejected(p, e) == [type |-> "reject", id |-> e, owner |-> p]
Destroyed(id) == [type |-> "destroy", id |-> id, owner |-> NoParent]

Message == [type : {"spawn", "take", "reject", "destroy"}, id : Ids,
            owner : Ids \cup {NoParent}]

SessionTypeOK ==
    /\ TypeOK
    /\ quickReuse \in Reuse
    /\ wire \in Seq(Message)
    /\ events \in Seq(Message)
    /\ phase \in {"play", "drain"}
    /\ switched \subseteq Ids
    /\ justDestroyed \subseteq Ids
    /\ dying \subseteq present
    /\ present \subseteq Ids
    /\ holder \in [Ids -> Ids \cup {NoParent}]
    /\ failed \in {"none", "no new owner", "another owner", "no such item",
                   "not held", "has a parent", "registered twice"}

Broadcast(msgs) == wire' = wire \o msgs

(* The bound on what is under way; a refusal needs no room of its own.     *)
Room == Len(wire') + Len(events) <= MaxQueue[quickReuse]

Fail(what) ==
    /\ failed' = what
    /\ UNCHANGED <<vars, wire, events, client>>

Running == failed = "none"

-----------------------------------------------------------------------------
(* What the server does, with what it tells the client.                   *)

Detached(x) == IF parent[x] = NoParent THEN <<>> ELSE <<Rejected(parent[x], x)>>

(* What is sent of the objects of T when they go.                          *)
Farewells(T) ==
    {Rejected(parent[x], x) : x \in {y \in T : parent[y] # NoParent}}
        \cup {Destroyed(x) : x \in T}

(* The messages of T, x and what hangs below it, come in one piece, x goes *)
(* last.                                                                   *)
InOnePiece(m, x, T, first, last) ==
    /\ m[last] = Destroyed(x)
    /\ {k \in DOMAIN m : m[k].id \in T} = first .. last

(* The event packs of Process_event_destroy: each child is destroyed, then *)
(* the object is rejected and destroyed.                                   *)
Dismantled(r) ==
    {m \in SetToSeqs(Farewells(Subtree(r))) : \A x \in Subtree(r) :
        LET T == Subtree(x) IN
        \E first, last \in DOMAIN m :
            /\ InOnePiece(m, x, T, first, last)
            /\ parent[x] # NoParent => first < last /\ m[last - 1] = Rejected(parent[x], x)}

(* Perform_destroy: each child is rejected first and then taken apart.     *)
TakenApart(o) ==
    {m \in SetToSeqs(Farewells(Subtree(o))) : \A x \in Subtree(o) :
        LET T == Subtree(x) IN
        \E first, last \in DOMAIN m :
            /\ InOnePiece(m, x, T, first, last)
            /\ parent[x] # NoParent => m[first] = Rejected(parent[x], x)}

KnownToClient ==
    present \cup {wire[n].id : n \in DOMAIN wire} \cup {events[n].id : n \in DOMAIN events}

Rested_AtOnce(id) == TRUE

(* A new id comes from the block of the generator that rested longest.     *)
Rested(id) == quickReuse \/ id \notin KnownToClient

ServerSpawn(id, p) ==
    /\ Rested(id)
    /\ ProcessSpawn(id, p)
    /\ Broadcast(<<Spawned(id, p)>>)
    /\ UNCHANGED <<events, client, failed>>

NewOwnerGone(p, e) == e \in entities /\ p \notin entities

ServerTake(p, e) ==
    IF NewOwnerGone(p, e) THEN Fail("no new owner")
    ELSE /\ ProcessOwnership(p, e)
         /\ Broadcast(<<Taken(p, e)>>)
         /\ UNCHANGED <<events, client, failed>>

OwnedByAnother(p, e) ==
    p \in entities /\ e \in entities /\ parent[e] \notin {p, NoParent}

ServerReject(p, e) ==
    IF OwnedByAnother(p, e) THEN Fail("another owner")
    ELSE /\ ProcessReject(p, e)
         /\ Broadcast(Detached(e))
         /\ UNCHANGED <<events, client, failed>>

(* OnDestroyObject is called for everything that goes.                     *)
ServerDestroy(r) ==
    /\ ProcessDestroy(r)
    /\ \E m \in Dismantled(r) : Broadcast(m)
    /\ justDestroyed' = justDestroyed \cup Subtree(r)
    /\ UNCHANGED <<events, phase, switched, present, dying, holder, failed>>

(* The ALife update looks at an object once.                               *)
LookedAt(o) ==
    /\ o \notin switched
    /\ switched' = switched \cup {o}
    /\ UNCHANGED <<events, phase, justDestroyed, present, dying, holder, failed>>

SwitchOnline(o) ==
    /\ AddOnline(o)
    /\ \E c \in SetToSeqs(Kids(o)) :
           Broadcast(<<Spawned(o, NoParent)>> \o [n \in DOMAIN c |-> Spawned(c[n], o)])
    /\ LookedAt(o)

SwitchOffline(o) ==
    /\ RemoveOnline(o)
    /\ \E m \in TakenApart(o) : Broadcast(m)
    /\ LookedAt(o)

ALifeOffline ==
    /\ \/ \E id \in Ids, p \in Ids \cup {NoParent} : Rested(id) /\ SpawnItem(id, p)
       \/ \E r \in Ids : Release(r)
    /\ UNCHANGED <<wire, events, client, failed>>

-----------------------------------------------------------------------------
(* What game code on the client asks for, by the client's view.            *)

Alive == present \ dying

RequestTake(p, e) ==
    /\ p \in Alive /\ e \in Alive
    /\ <<p, e>> \in MayHold
    /\ ServerTake(p, e)

RequestReject(p, e) ==
    /\ e \in Alive
    /\ holder[e] = p
    /\ ServerReject(p, e)

GameCode ==
    /\ Running
    /\ \/ \E id \in Ids, p \in Ids \cup {NoParent} : ServerSpawn(id, p)
       \/ \E p, e \in Ids : RequestTake(p, e)
       \/ \E p, e \in Ids : RequestReject(p, e)
       \/ \E r \in Ids : ServerDestroy(r)
    /\ Room

(* The ALife simulator is updated by the scheduler, outside of the drain.  *)
ALife ==
    /\ Running
    /\ phase = "play"
    /\ \/ \E o \in Ids : SwitchOnline(o)
       \/ \E o \in Ids : SwitchOffline(o)
       \/ ALifeOffline
    /\ Room

-----------------------------------------------------------------------------
(* ClientReceive, and the start of ProcessGameEvents.                      *)

Forgotten_Keeps == UNCHANGED justDestroyed

Forgotten == justDestroyed' = {}

ClientReceive ==
    /\ Running
    /\ phase = "play"
    /\ phase' = "drain"
    /\ events' = events \o wire
    /\ wire' = <<>>
    /\ Forgotten
    /\ switched' = {}
    /\ UNCHANGED <<vars, present, dying, holder, failed>>

Incoming == Head(events)

(* The first event is taken from the queue; an event for an owner the      *)
(* client does not have is ignored.                                        *)
Handles(type) ==
    Running /\ phase = "drain" /\ events # <<>> /\ Incoming.type = type

Handled == events' = Tail(events) /\ UNCHANGED <<phase, switched, failed>>

OwnerPresent == Incoming.owner \in present

(* CanTakeItem of a stalker: never for an object being destroyed, perhaps  *)
(* for another one, by its weight.                                         *)
Accepts(p, e) == p \in Stalkers => e \notin dying'

Refuses(p) == p \in Stalkers

(* Process_event_reject on behalf of a stalker that refused.               *)
RejectAtServer(p, e) ==
    IF p \in entities /\ e \in entities
    THEN ProcessReject(p, e) /\ Broadcast(Detached(e))
    ELSE UNCHANGED <<vars, wire>>

(* p gets e, or refuses it and sends GE_OWNERSHIP_REJECT; holders is       *)
(* CObject::Parent at that time.                                           *)
GivenTo(p, e, holders) ==
    \/ /\ Accepts(p, e)
       /\ holders[e] = NoParent
       /\ holder' = [holders EXCEPT ![e] = p]
       /\ UNCHANGED <<vars, wire>>
    \/ /\ Refuses(p)
       /\ ~OwnedByAnother(p, e)
       /\ holder' = holders
       /\ RejectAtServer(p, e)

GivingFails(p, e, holders) ==
    \/ holders[e] # NoParent /\ Fail("has a parent") /\ Accepts(p, e)
    \/ Refuses(p) /\ OwnedByAnother(p, e) /\ Fail("another owner")

(* cl_Process_Spawn: the object this spawn is for is gone already.         *)
SkipsSpawn(id) == id \in justDestroyed

(* ProcessDestroyQueue: what is left of Parent when S is gone.             *)
HoldersWithout(S) == [i \in Ids |-> IF i \in S THEN NoParent ELSE holder[i]]

Flushed_Never(id) == {}

(* g_sv_Spawn destroys the queued objects first if one has the new id.     *)
Flushed(id) == IF id \in dying THEN dying ELSE {}

SpawnSkipped ==
    /\ Handles("spawn")
    /\ SkipsSpawn(Incoming.id)
    /\ justDestroyed' = justDestroyed \ {Incoming.id}
    /\ Handled
    /\ UNCHANGED <<vars, wire, present, dying, holder>>

HandleSpawn ==
    /\ Handles("spawn")
    /\ ~SkipsSpawn(Incoming.id)
    /\ LET id == Incoming.id
           p == Incoming.owner
           gone == Flushed(id)
           holders == HoldersWithout(gone)
       IN
       \/ /\ id \notin present \ gone
          /\ present' = (present \ gone) \cup {id}
          /\ dying' = dying \ gone
          /\ IF p \in present' THEN GivenTo(p, id, holders)
             ELSE holder' = holders /\ UNCHANGED <<vars, wire>>
          /\ Handled
          /\ UNCHANGED justDestroyed
       \/ id \in present \ gone /\ Fail("registered twice")
       \/ id \notin present \ gone /\ p \in present \ gone /\ GivingFails(p, id, holders)

HandleTake ==
    /\ Handles("take")
    /\ LET e == Incoming.id
           p == Incoming.owner
       IN
       \/ /\ UNCHANGED <<present, dying, justDestroyed>>
          /\ IF OwnerPresent THEN e \in present /\ GivenTo(p, e, holder)
             ELSE UNCHANGED <<vars, wire, holder>>
          /\ Handled
       \/ OwnerPresent /\ e \notin present /\ Fail("no such item")
       \/ OwnerPresent /\ e \in present /\ GivingFails(p, e, holder)

(* A stalker lets the rejection of an object it cannot find pass; a box    *)
(* does not look.  A stalker keeps the parent of an object being destroyed.*)
HandleReject ==
    /\ Handles("reject")
    /\ LET e == Incoming.id
           p == Incoming.owner
           drops == OwnerPresent /\ e \in present
       IN
       \/ /\ drops => holder[e] = p
          /\ OwnerPresent /\ ~drops => p \in Stalkers
          /\ holder' = IF drops /\ ~(p \in Stalkers /\ e \in dying)
                       THEN [holder EXCEPT ![e] = NoParent] ELSE holder
          /\ Handled
          /\ UNCHANGED <<vars, wire, justDestroyed, present, dying>>
       \/ OwnerPresent /\ ~drops /\ p \notin Stalkers /\ Fail("no such item")
       \/ drops /\ holder[e] # p /\ Fail("not held")

(* What hangs below a client object and is not being destroyed yet.        *)
Below(r) ==
    {x \in Ids : \A S \in SUBSET Ids :
        (r \in S /\ \A i \in Alive : holder[i] \in S => i \in S) => x \in S}

Doomed_Unknown(id) == Below(id)

(* setDestroy: the object and whatever it still holds are queued, once.    *)
Doomed(id) == IF id \in Alive THEN Below(id) ELSE {}

HandleDestroy ==
    /\ Handles("destroy")
    /\ dying' = dying \cup Doomed(Incoming.id)
    /\ Handled
    /\ UNCHANGED <<vars, wire, justDestroyed, present, holder>>

(* ProcessDestroyQueue at the end of CObjectList::Update.                  *)
EndFrame ==
    /\ Running
    /\ phase = "drain"
    /\ events = <<>>
    /\ phase' = "play"
    /\ present' = present \ dying
    /\ holder' = HoldersWithout(dying)
    /\ dying' = {}
    /\ UNCHANGED <<vars, wire, events, switched, justDestroyed, failed>>

-----------------------------------------------------------------------------
Drain == SpawnSkipped \/ HandleSpawn \/ HandleTake \/ HandleReject \/ HandleDestroy

(* CLevel::OnFrame and the end of CObjectList::Update.                     *)
Frame == ClientReceive \/ Drain \/ EndFrame

SessionNext == (GameCode \/ ALife \/ Frame) /\ UNCHANGED quickReuse

SessionSpec == SessionInit /\ [][SessionNext]_sessionVars

(* The main loop runs CLevel::OnFrame for ever, and a drain goes on until  *)
(* game_events is empty.                                                   *)
FairSessionSpec == SessionSpec /\ WF_sessionVars(Frame /\ UNCHANGED quickReuse)
-----------------------------------------------------------------------------
Quiet == Running /\ phase = "play" /\ wire = <<>>

(* When nothing is under way, the client has the objects of the server,    *)
(* with the same owners, however the destroyed, refused, skipped and       *)
(* switched objects were interleaved; as long as ids rest.                 *)
ClientAgrees ==
    Quiet /\ ~quickReuse =>
             /\ present = entities
             /\ \A i \in present : holder[i] = parent[i]

(* CObject::Parent never dangles: an object's owner outlives its items'    *)
(* ties to it, in the middle of a frame as well, as long as ids rest.      *)
HolderExists ==
    ~quickReuse => \A i \in present : holder[i] # NoParent => holder[i] \in present

(* Whatever the server has and the client lacks, or the other way round,   *)
(* the client catches up, while game code goes on on both sides and ids    *)
(* rest.                                                                   *)
ClientCatchesUp ==
    \A x \in Ids :
        (x \in present) # (x \in entities)
            ~> (x \in present) = (x \in entities) \/ quickReuse \/ ~Running

(* "already registered" of CObjectList::net_Register: the client never     *)
(* gets two objects with one id.                                           *)
RegisteredOnce == failed # "registered twice"

(* "Before set parent - execute H_SetParent(0)" of CObject::H_SetParent:   *)
(* no take reaches the client before the reject it follows, as long as ids *)
(* rest; a take for an object whose id is new again may.                   *)
TakenWhenFree == failed = "has a parent" => quickReuse

(* The assertions of CInventory::DropItem: what a stalker is told to drop  *)
(* is in its inventory.                                                    *)
DroppedByHolder == failed # "not held"
=============================================================================
