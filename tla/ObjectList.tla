----------------------------- MODULE ObjectList -----------------------------
(***************************************************************************)
(* CObjectList and what CObject tells it: which objects are active, which  *)
(* sleep, which of the active ones get an UpdateCL in the next frame (the  *)
(* "crows") and which are to be destroyed.                                 *)
(*                                                                         *)
(* The crows are in two lists.  Update takes the one that was current as   *)
(* its workload, empties the other one and makes it current; whoever is    *)
(* made a crow from then on is updated in the next frame.  Props.crow says *)
(* that an object is in a list already, but emptying a list resets it for  *)
(* objects that are in the other one too.                                  *)
(*                                                                         *)
(* Game code runs between two Updates, and inside of an Update in the      *)
(* UpdateCL of an object: the object handler of a stalker, when it is not  *)
(* left to the second thread, moves items between the slots and the ruck,  *)
(* which wakes them or puts them to sleep.  An entry that outlives its     *)
(* object is memory that was freed: what the program does with it is not   *)
(* modelled any further ("undefined").                                     *)
(***************************************************************************)
EXTENDS Integers, Sequences, SequencesExt, Subsequences

CONSTANTS Objects,   \* what may exist, by its id
          Holders,   \* may be the parent of the others
          Handlers,  \* holders whose UpdateCL moves their items
          Nobody,    \* no parent
          Freed      \* an entry whose object does not exist any more

(* An id is a u16.                                                         *)
ASSUME ObjectListAssumption ==
    /\ IsFiniteSet(Objects)
    /\ Handlers \subseteq Holders /\ Holders \subseteq Objects
    /\ Nobody \notin Objects /\ Freed \notin Objects

VARIABLES
    list,     \* CObjectList and the fields of its objects
    pc,       \* "frame" between two Updates, "update" inside, or "undefined"
    work,     \* what is left of objects_dup
    removing, \* rsDisableObjectsAsCrows: remove_objects runs
    updated,  \* objects whose dwFrame_UpdateCL is this frame
    asked,    \* active objects that had a shedule_Update since the last Update
    missed,   \* how many Updates in a row left such an object out
    moved     \* whether an UpdateCL has woken or put to sleep another object

vars == <<list, pc, work, removing, updated, asked, missed, moved>>

List == [
    live : SUBSET Objects,
    counter : [Objects -> 0 .. 1],  \* bActiveCounter
    active : SUBSET Objects,        \* objects_active
    sleeping : SUBSET Objects,      \* objects_sleeping
    crow : SUBSET Objects,          \* Props.crow
    vec : [0 .. 1 -> Seq(Objects \cup {Freed})],  \* crows_0 and crows_1
    current : 0 .. 1,               \* crows
    doomed : SUBSET Objects,        \* Props.bDestroy
    queue : Seq(Objects),           \* destroy_queue
    parent : [Objects -> Holders \cup {Nobody}]]

Init ==
    /\ list = [live |-> {}, counter |-> [o \in Objects |-> 0], active |-> {}, sleeping |-> {},
               crow |-> {}, vec |-> [v \in 0 .. 1 |-> <<>>], current |-> 0, doomed |-> {},
               queue |-> <<>>, parent |-> [o \in Objects |-> Nobody]]
    /\ pc = "frame"
    /\ work = <<>>
    /\ removing = FALSE
    /\ updated = {}
    /\ asked = {}
    /\ missed = [o \in Objects |-> 0]
    /\ moved = FALSE

-----------------------------------------------------------------------------
(* What becomes of the list l.                                             *)

Enabled(l, o) == l.counter[o] > 0

(* MakeMeCrow and o_crow.                                                  *)
MadeCrow(l, o) ==
    IF o \in l.crow \/ ~Enabled(l, o) THEN l
    ELSE [l EXCEPT !.crow = @ \cup {o}, !.vec[l.current] = Append(@, o)]

Activated_StaysAsleep(l, o) ==
    MadeCrow([l EXCEPT !.counter[o] = 1, !.active = @ \cup {o}], o)

(* processing_activate and o_activate.                                     *)
Activated(l, o) ==
    MadeCrow([l EXCEPT !.counter[o] = 1, !.sleeping = @ \ {o}, !.active = @ \cup {o}], o)

(* processing_deactivate and o_sleep, whose MakeMeCrow does nothing.       *)
Deactivated(l, o) ==
    [l EXCEPT !.counter[o] = 0, !.active = @ \ {o}, !.sleeping = @ \cup {o}]

Toggled(l, o) == IF Enabled(l, o) THEN Deactivated(l, o) ELSE Activated(l, o)

SetParent(l, o, p) == MadeCrow([l EXCEPT !.parent[o] = p], o)

Children(l, p) == {c \in l.live : l.parent[c] = p}

Doomed_ChildrenFirst(l, o) ==
    LET kids == Children(l, o) \ l.doomed
    IN  {[l EXCEPT !.doomed = @ \cup {o} \cup kids, !.queue = @ \o c \o <<o>>] :
            c \in SetToSeqs(kids)}

(* setDestroy and register_object_to_destroy: the children that were not   *)
(* marked yet are queued behind their parent, as they are in the lists.    *)
Doomed(l, o) ==
    IF o \in l.doomed THEN {l}
    ELSE LET kids == Children(l, o) \ l.doomed
         IN  {[l EXCEPT !.doomed = @ \cup {o} \cup kids, !.queue = @ \o <<o>> \o c] :
                 c \in SetToSeqs(kids)}

Erased_Never(s, gone) == {}

(* Destroy erases the first entry of its object in each list.              *)
Erased(s, gone) ==
    {k \in DOMAIN s : s[k] \in gone /\ \A j \in 1 .. k - 1 : s[j] # s[k]}

(* What becomes of a list of crows when the objects of gone are destroyed. *)
CrowsWithout(s, gone) ==
    {[k \in DOMAIN t |-> IF t[k] \in gone THEN Freed ELSE t[k]] :
        t \in Remainders(s, DOMAIN s \ Erased(s, gone))}

(* Destroy of the objects of gone, with which they and all they knew are   *)
(* gone.                                                                   *)
Cleared(l, gone, crows) ==
    [l EXCEPT !.live = @ \ gone, !.active = @ \ gone, !.sleeping = @ \ gone,
              !.crow = @ \ gone, !.doomed = @ \ gone,
              !.counter = [o \in Objects |-> IF o \in gone THEN 0 ELSE @[o]],
              !.parent = [o \in Objects |-> IF o \in gone THEN Nobody ELSE @[o]],
              !.vec = crows, !.queue = <<>>]

Destroyed(l, gone) ==
    LET left(v) == CrowsWithout(l.vec[v], gone)
    IN  {Cleared(l, gone, crows) :
            crows \in {c \in [0 .. 1 -> left(0) \cup left(1)] : \A v \in 0 .. 1 : c[v] \in left(v)}}

(* ProcessDestroyQueue.  No object is in the queue twice, so what is left  *)
(* does not depend on the order.                                           *)
DestroyQueueProcessed(l) == Destroyed(l, ToSet(l.queue))

(* Create and net_Spawn: an object begins asleep and is woken.             *)
Created(l, o) ==
    Activated([l EXCEPT !.live = @ \cup {o}, !.sleeping = @ \cup {o}], o)

Emptied_KeepsFlag(l, v) == [l EXCEPT !.vec[v] = <<>>]

(* clear_crow_vec.                                                         *)
Emptied(l, v) == [l EXCEPT !.crow = @ \ ToSet(l.vec[v]), !.vec[v] = <<>>]

-----------------------------------------------------------------------------
(* Update.                                                                 *)

Becomes(l) == \E m \in {l} : list' = m

(* The lists change roles; while remove_objects runs, both are emptied and *)
(* all active objects are updated.                                         *)
BeginUpdate ==
    LET other == 1 - list.current
        emptied == IF removing THEN {0, 1} ELSE {other}
    IN
    /\ pc = "frame"
    /\ IF \E v \in emptied : Contains(list.vec[v], Freed)
       THEN pc' = "undefined" /\ UNCHANGED <<list, work>>
       ELSE /\ pc' = "update"
            /\ IF removing
               THEN /\ work' \in SetToSeqs(list.active)
                    /\ Becomes(Emptied(Emptied(list, 0), 1))
               ELSE /\ work' = list.vec[list.current]
                    /\ Becomes([Emptied(list, other) EXCEPT !.current = other])
    /\ updated' = {}
    /\ UNCHANGED <<removing, asked, missed, moved>>

(* The outcomes of UpdateCL of o: it makes itself a crow again, or is too  *)
(* far from the camera; a handler may move an item.                        *)
UpdateCL(l, o) ==
    LET self == {l, MadeCrow(l, o)}
    IN  [list : self, moved : {moved}]
            \cup {[list |-> Toggled(m, x), moved |-> TRUE] :
                     m \in self, x \in {c \in Children(l, o) : o \in Handlers}}

NotACrow(l, o) == [l EXCEPT !.crow = @ \ {o}]

Due(l, o) == Enabled(l, o) /\ o \notin updated

(* SingleUpdate: the parent first.  Who is updated is not a crow any more. *)
SingleUpdate(o) ==
    LET p == list.parent[o]
        first == IF p # Nobody /\ Due(list, p) THEN {p} ELSE {}
        before == IF first = {} THEN [list : {list}, moved : {moved}]
                  ELSE UpdateCL(NotACrow(list, p), p)
    IN  IF Due(list, o)
        THEN /\ updated' = updated \cup first \cup {o}
             /\ \E b \in before : \E a \in UpdateCL(NotACrow(b.list, o), o) :
                    list' = a.list /\ moved' = (a.moved \/ b.moved)
        ELSE UNCHANGED <<list, updated, moved>>

(* An object that is put to sleep or destroyed has missed nothing.         *)
WhileActive(m) == [o \in Objects |-> IF o \in list'.active THEN m[o] ELSE 0]

UpdateStep ==
    /\ pc = "update"
    /\ work # <<>>
    /\ IF Head(work) = Freed
       THEN pc' = "undefined" /\ UNCHANGED <<list, work, updated, moved>>
       ELSE /\ work' = Tail(work)
            /\ SingleUpdate(Head(work))
            /\ UNCHANGED pc
    /\ asked' = asked \cap list'.active
    /\ missed' = WhileActive(missed)
    /\ UNCHANGED removing

(* Whoever was asked for and left out has missed one more Update.          *)
Counted ==
    [o \in Objects |-> IF o \in updated \/ o \in list.doomed THEN 0
                       ELSE IF o \in asked THEN missed[o] + 1 ELSE missed[o]]

EndUpdate ==
    /\ pc = "update"
    /\ work = <<>>
    /\ pc' = "frame"
    /\ list' \in DestroyQueueProcessed(list)
    /\ asked' = {}
    /\ missed' = WhileActive(Counted)
    /\ UNCHANGED <<work, removing, updated, moved>>

(* Update while the game is paused or no time has passed.                  *)
UpdatePaused ==
    /\ pc = "frame"
    /\ list.queue # <<>>
    /\ list' \in DestroyQueueProcessed(list)
    /\ asked' = asked \cap list'.live
    /\ missed' = WhileActive(missed)
    /\ UNCHANGED <<pc, work, removing, updated, moved>>

(* CLevel::remove_objects sets and restores rsDisableObjectsAsCrows.       *)
RemoveObjects ==
    /\ pc = "frame"
    /\ removing' = ~removing
    /\ UNCHANGED <<list, pc, work, updated, asked, missed, moved>>

-----------------------------------------------------------------------------
(* Between two Updates.                                                    *)

Between(o) == pc = "frame" /\ o \in list.live

Rest == UNCHANGED <<pc, work, removing, updated, missed, moved>>

(* g_sv_Spawn: an object of this id that is still queued goes first.       *)
Spawn(o) ==
    /\ pc = "frame"
    /\ \E l \in (IF o \in list.doomed THEN DestroyQueueProcessed(list) ELSE {list}) :
           /\ o \notin l.live
           /\ Becomes(Created(l, o))
           /\ asked' = asked \cap l.live
    /\ missed' = WhileActive([missed EXCEPT ![o] = 0])
    /\ UNCHANGED <<pc, work, removing, updated, moved>>

(* CObject::shedule_Update, of objects that are not to be destroyed.       *)
SheduleUpdate(o) ==
    /\ Between(o) /\ ~removing
    /\ o \notin list.doomed /\ o \notin asked
    /\ Becomes(MadeCrow(list, o))
    /\ asked' = IF Enabled(list, o) THEN asked \cup {o} ELSE asked
    /\ Rest

(* renderable_Render.                                                      *)
Render(o) ==
    /\ Between(o) /\ ~removing
    /\ Becomes(MadeCrow(list, o))
    /\ UNCHANGED asked
    /\ Rest

(* processing_activate or processing_deactivate by game code.              *)
Toggle(o) ==
    /\ Between(o)
    /\ Becomes(Toggled(list, o))
    /\ asked' = asked \cap list'.active
    /\ missed' = WhileActive(missed)
    /\ UNCHANGED <<pc, work, removing, updated, moved>>

(* GE_OWNERSHIP_TAKE and GE_OWNERSHIP_REJECT, which leaves the parent of   *)
(* an object that is to be destroyed.                                      *)
Take(p, o) ==
    /\ Between(o) /\ Between(p)
    /\ o \notin Holders /\ list.parent[o] = Nobody
    /\ {o, p} \cap list.doomed = {}
    /\ Becomes(SetParent(list, o, p))
    /\ UNCHANGED asked
    /\ Rest

Reject(o) ==
    /\ Between(o)
    /\ list.parent[o] # Nobody
    /\ o \notin list.doomed
    /\ Becomes(SetParent(list, o, Nobody))
    /\ UNCHANGED asked
    /\ Rest

(* GE_DESTROY; for an object with a parent, GE_DESTROY_REJECT.             *)
DestroyEvent(o) ==
    /\ Between(o)
    /\ o \notin list.doomed
    /\ list' \in Doomed(IF list.parent[o] = Nobody THEN list ELSE SetParent(list, o, Nobody), o)
    /\ UNCHANGED asked
    /\ Rest

-----------------------------------------------------------------------------
Update == BeginUpdate \/ UpdateStep \/ EndUpdate

GameCode(o) ==
    \/ Spawn(o) \/ SheduleUpdate(o) \/ Render(o) \/ Toggle(o)
    \/ Reject(o) \/ DestroyEvent(o)
    \/ \E p \in Holders : Take(p, o)

Next == Update \/ UpdatePaused \/ RemoveObjects \/ \E o \in Objects : GameCode(o)

Spec == Init /\ [][Next]_vars

-----------------------------------------------------------------------------
Occurrences(s, x) == Cardinality({k \in DOMAIN s : s[k] = x})

(* The asserts of o_remove and of "Unregistered object being destroyed":   *)
(* an object is in objects_active or in objects_sleeping, as its counter   *)
(* says; and who is marked for destruction is queued once.                 *)
ListsExact ==
    /\ list.active = {o \in list.live : Enabled(list, o)}
    /\ list.sleeping = list.live \ list.active
    /\ ToSet(list.queue) = list.doomed
    /\ IsInjective(list.queue)
    /\ list.doomed \subseteq list.live

(* The fields have their types and the lists of objects agree with them.   *)
TypeOK ==
    /\ list \in List
    /\ ListsExact
    /\ pc \in {"frame", "update", "undefined"}
    /\ work \in Seq(Objects \cup {Freed})
    /\ removing \in BOOLEAN /\ moved \in BOOLEAN
    /\ updated \subseteq Objects /\ asked \subseteq list.active
    /\ missed \in [Objects -> Nat]

(* As long as no UpdateCL wakes another object or puts it to sleep, neither *)
(* list of crows has an object twice or one that was destroyed, whatever   *)
(* wakes, sleeps, changes hands or is destroyed between two Updates.       *)
NoStaleCrow ==
    ~moved => \A v \in 0 .. 1 : \A o \in ToSet(list.vec[v]) :
                 o # Freed /\ Occurrences(list.vec[v], o) = 1

(* "Makes sure that update-cl called at least with freq of shedule-update" *)
(* (CObject::shedule_Update) does not hold as it is said: the mark may be  *)
(* that of an entry in the list which is emptied next, and that Update     *)
(* leaves the object out.  It is never left out of two in a row while it   *)
(* stays awake.                                                            *)
AnsweredInTwo == \A o \in Objects : missed[o] <= 1

(* Whoever is in the destroy queue has its children behind it: the queue   *)
(* is worked off from the back, and H_Parent of a child never dangles.     *)
DestroyedBottomUp ==
    \A k \in DOMAIN list.queue : \A c \in Children(list, list.queue[k]) :
        \E n \in DOMAIN list.queue : n > k /\ list.queue[n] = c
=============================================================================
