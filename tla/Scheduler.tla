----------------------------- MODULE Scheduler ------------------------------
(***************************************************************************)
(* CSheduler: the once-a-frame loop that calls shedule_Update of whatever  *)
(* is registered.  Real time objects are updated every frame in the order  *)
(* of ItemsRT; the others wait in a heap ordered by dwTimeForExecute and   *)
(* are updated when due, as long as the frame's time budget lasts.         *)
(*                                                                         *)
(* Register and Unregister are called by the owners, between frames or     *)
(* from a shedule_Update, and are queued in Registration; an Unregister    *)
(* during the loop takes effect at once where it can.  An object keeps one *)
(* kind (RT or not) throughout.                                            *)
(*                                                                         *)
(* The heap is a sequence sorted by dwTimeForExecute.  Time appears as the *)
(* number of frames after which an item is due (wait); 0 is due now.       *)
(***************************************************************************)
EXTENDS Integers, Sequences, FiniteSets, SequencesExt

CONSTANTS Objs, None,
          Kinds,       \* the sets of objects that may be the real time ones
          Period,      \* iterations between two looks at the time budget: 3
          MaxWait,     \* bound: frames an item may have to wait
          MaxPending   \* bound: length of Registration

ASSUME SchedulerAssumption ==
    /\ None \notin Objs
    /\ Kinds \subseteq SUBSET Objs
    /\ Period \in Nat \ {0}
    /\ MaxWait \in Nat \ {0}
    /\ MaxPending \in Nat

VARIABLES
    realTime,    \* the objects that are registered with RT = TRUE
    itemsRT,     \* CSheduler::ItemsRT
    items,       \* CSheduler::Items, sorted; an item's obj may be None (NULL)
    processed,   \* CSheduler::ItemsProcessed
    pending,     \* CSheduler::Registration
    pc,          \* where Update stands
    it,          \* the index of the real time loop
    i,           \* the iteration counter of ProcessStep, modulo Period
    current,     \* the object whose shedule_Update runs, or None
    needed,      \* the objects whose shedule_Needed() is true
    owned,       \* history: what the owners registered and did not unregister
    dropped,     \* history: what the loop dropped while owned
    updated      \* history: what this frame has updated

loop == <<pc, it, i, current>>
history == <<owned, dropped, updated>>
vars == <<realTime, itemsRT, items, processed, pending, loop, needed, history>>

Item == [obj : Objs \cup {None}, wait : 0..MaxWait]

Op == [reg : BOOLEAN, obj : Objs]

TypeOK ==
    /\ realTime \in Kinds
    /\ itemsRT \in Seq(realTime)
    /\ items \in Seq(Item)
    /\ processed \in Seq(Item)
    /\ pending \in Seq(Op)
    /\ pc \in {"idle", "realtime", "normal", "pushback"}
    /\ it \in Nat \ {0}
    /\ i \in 0 .. Period - 1
    /\ current \in Objs \cup {None}
    /\ needed \subseteq Objs
    /\ owned \subseteq Objs
    /\ dropped \subseteq owned
    /\ updated \subseteq Objs

Init ==
    /\ realTime \in Kinds
    /\ itemsRT = <<>> /\ items = <<>> /\ processed = <<>> /\ pending = <<>>
    /\ pc = "idle" /\ it = 1 /\ i = 0 /\ current = None
    /\ needed = {} /\ owned = {} /\ dropped = {} /\ updated = {}

-----------------------------------------------------------------------------
HasObj(seq, o) == \E k \in DOMAIN seq : seq[k].obj = o

(* Items[k].Object = NULL for the members of S.                            *)
Nulled(seq, S) ==
    [k \in DOMAIN seq |-> IF seq[k].obj \in S THEN [seq[k] EXCEPT !.obj = None] ELSE seq[k]]

(* The elements of seq with an index in I, in their order.  SelectSeq would *)
(* do for TLC, but nothing could be proved of it.                          *)
Kept(seq, I) ==
    LET kept[n \in 0 .. Len(seq)] ==
            IF n = 0 THEN <<>>
            ELSE IF n \in I THEN Append(kept[n - 1], seq[n])
            ELSE kept[n - 1]
    IN  kept[Len(seq)]

Only(seq, S) == Kept(seq, {k \in DOMAIN seq : seq[k] \in S})

Without(seq, S) == Kept(seq, {k \in DOMAIN seq : seq[k] \notin S})

(* Game code runs between frames and inside a shedule_Update.              *)
GameCodeRuns == pc = "idle" \/ current # None

Processing == pc # "idle"  \* m_processing_now

-----------------------------------------------------------------------------
(* What an owner does.                                                     *)

Register(o) ==
    /\ GameCodeRuns
    /\ o \notin owned
    /\ Len(pending) < MaxPending
    /\ pending' = Append(pending, [reg |-> TRUE, obj |-> o])
    /\ needed' = needed \cup {o}
    /\ owned' = owned \cup {o}
    /\ UNCHANGED <<itemsRT, items, processed, loop, dropped, updated>>

FoundNow_NotWhileUpdating(o) == FALSE

(* internal_Unregister finds the object in the container of its kind.      *)
FoundNow(o) ==
    Processing /\ IF o \in realTime THEN Contains(itemsRT, o) ELSE HasObj(items, o)

Unregister(o) ==
    /\ GameCodeRuns
    /\ o \in owned
    /\ IF FoundNow(o)
       THEN /\ itemsRT' = Without(itemsRT, {o})
            /\ items' = Nulled(items, {o})
            /\ UNCHANGED pending
       ELSE /\ Len(pending) < MaxPending
            /\ pending' = Append(pending, [reg |-> FALSE, obj |-> o])
            /\ UNCHANGED <<itemsRT, items>>
    /\ owned' = owned \ {o}
    /\ dropped' = dropped \ {o}
    /\ UNCHANGED <<processed, loop, needed, updated>>

(* The owner is marked for destruction: shedule_Needed() turns false.      *)
SetDestroy(o) ==
    /\ GameCodeRuns
    /\ o \in owned \cap needed
    /\ needed' = needed \ {o}
    /\ UNCHANGED <<itemsRT, items, processed, pending, loop, history>>

-----------------------------------------------------------------------------
(* internal_Registration.  A registration followed by an unregistration of *)
(* the same object is skipped together with it, so that an object that is  *)
(* already gone is not touched.                                            *)

Paired_Never(ops, k) == FALSE

Paired(ops, k) ==
    \E n \in k + 1 .. Len(ops) : ~ops[n].reg /\ ops[n].obj = ops[k].obj

(* The registrations that are carried out, in their order.                 *)
Carried(ops) == Kept(ops, {k \in DOMAIN ops : ops[k].reg /\ ~Paired(ops, k)})

Fresh(ops) == [n \in DOMAIN Carried(ops) |-> Carried(ops)[n].obj]

(* The unregistrations that are carried out: those before any registration *)
(* of the object.                                                          *)
Gone(ops) ==
    {o \in Objs : \E k \in DOMAIN ops :
        /\ ops[k] = [reg |-> FALSE, obj |-> o]
        /\ \A n \in 1..k - 1 : ops[n].obj # o}

DuePrefix(seq) == Kept(seq, {k \in DOMAIN seq : seq[k].wait = 0})
NotDue(seq) == Kept(seq, {k \in DOMAIN seq : seq[k].wait > 0})

(* A new item has dwTimeForExecute = now: after all that is due, before    *)
(* all that is not, and not due in this frame.                             *)
NewItem(o) == [obj |-> o, wait |-> 1]

Joined_InFront(seq, new) == new \o seq

(* push_back of the new real time items.                                   *)
Joined(seq, new) == seq \o new

Registration(queue) ==
    LET fresh == Fresh(pending)
        rest == Nulled(queue, Gone(pending))
        normal == Without(fresh, realTime)
    IN  /\ itemsRT' = Joined(Without(itemsRT, Gone(pending)), Only(fresh, realTime))
        /\ items' = DuePrefix(rest) \o [n \in DOMAIN normal |-> NewItem(normal[n])]
                                    \o NotDue(rest)
        /\ pending' = <<>>

Aged_Underflow(seq) ==
    [k \in DOMAIN seq |-> [seq[k] EXCEPT !.wait = IF @ = 0 THEN MaxWait + 1 ELSE @ - 1]]

(* The clock has moved on by a frame.                                      *)
Aged(seq) ==
    [k \in DOMAIN seq |-> [seq[k] EXCEPT !.wait = IF @ = 0 THEN 0 ELSE @ - 1]]

(* Update, up to the real time loop.                                       *)
BeginFrame ==
    /\ pc = "idle"
    /\ Registration(Aged(items))
    /\ pc' = "realtime"
    /\ it' = 1
    /\ updated' = {}
    /\ UNCHANGED <<processed, i, current, needed, owned, dropped>>

-----------------------------------------------------------------------------
BeginUpdate(o) ==
    /\ current' = o
    /\ updated' = updated \cup {o}

(* An object that is not needed stays in ItemsRT and is passed over.       *)
SkipRealTime == it' = it + 1

RealTimeStep ==
    /\ pc = "realtime"
    /\ current = None
    /\ it <= Len(itemsRT)
    /\ IF itemsRT[it] \in needed
       THEN BeginUpdate(itemsRT[it]) /\ UNCHANGED it
       ELSE SkipRealTime /\ UNCHANGED <<current, updated>>
    /\ UNCHANGED <<itemsRT, items, processed, pending, pc, i, needed, owned, dropped>>

RealTimeReturn ==
    /\ pc = "realtime"
    /\ current # None
    /\ current' = None
    /\ it' = it + 1
    /\ UNCHANGED <<itemsRT, items, processed, pending, pc, i, needed, history>>

RealTimeDone ==
    /\ pc = "realtime"
    /\ current = None
    /\ it > Len(itemsRT)
    /\ pc' = "normal"
    /\ i' = 0
    /\ UNCHANGED <<itemsRT, items, processed, pending, it, current, needed, history>>

-----------------------------------------------------------------------------
(* ProcessStep.                                                            *)

Due == items # <<>> /\ Head(items).wait = 0

(* The handler of ProcessStep around shedule_Needed: NULL is written into  *)
(* the copy T, and Top() stays what it is and where it is.                 *)
NeededFault ==
    /\ pc = "normal"
    /\ current = None
    /\ Due
    /\ i' = (i + 1) % Period
    /\ UNCHANGED <<itemsRT, items, processed, pending, pc, it, current, needed, history>>

(* Top() is due: it is popped, and dropped if it is not needed any more.   *)
NormalStep ==
    /\ pc = "normal"
    /\ current = None
    /\ Due
    /\ items' = Tail(items)
    /\ LET o == Head(items).obj IN
       IF o \in needed
       THEN BeginUpdate(o) /\ UNCHANGED <<i, dropped>>
       ELSE /\ i' = (i + 1) % Period
            /\ dropped' = dropped \cup ({o} \cap owned)
            /\ UNCHANGED <<current, updated>>
    /\ UNCHANGED <<itemsRT, processed, pending, pc, it, needed, owned>>

Requeued(o, w) ==
    processed' = Append(processed, [obj |-> o, wait |-> w]) /\ UNCHANGED items

(* shedule_Update returns.  After every Period iterations the time budget  *)
(* is looked at.                                                              *)
NormalReturn ==
    /\ pc = "normal"
    /\ current # None
    /\ \E w \in 1..MaxWait : Requeued(current, w)
    /\ current' = None
    /\ i' = (i + 1) % Period
    /\ pc' \in IF i = Period - 1 THEN {"normal", "pushback"} ELSE {"normal"}
    /\ UNCHANGED <<itemsRT, pending, it, needed, history>>

(* An owned object leaves the loop for good unless it was registered anew. *)
Abandoned(o) == {o} \cap (owned \ {pending[k].obj : k \in DOMAIN pending})

(* The handler of ProcessStep around shedule_Update: an object that raises *)
(* an exception is dropped.                                                *)
NormalFault ==
    /\ pc = "normal"
    /\ current # None
    /\ current' = None
    /\ i' = (i + 1) % Period
    /\ dropped' = dropped \cup Abandoned(current)
    /\ UNCHANGED <<itemsRT, items, processed, pending, pc, it, needed, owned, updated>>

NormalDone ==
    /\ pc = "normal"
    /\ current = None
    /\ ~Due
    /\ pc' = "pushback"
    /\ UNCHANGED <<itemsRT, items, processed, pending, it, i, current, needed, history>>

Ordered(seq) == \A m, n \in DOMAIN seq : m < n => seq[m].wait <= seq[n].wait

(* "Push processed back": the heap takes the item where its time belongs.  *)
PushBack ==
    /\ pc = "pushback"
    /\ processed # <<>>
    /\ \E k \in 1 .. Len(items) + 1 :
          /\ Ordered(InsertAt(items, k, Last(processed)))
          /\ items' = InsertAt(items, k, Last(processed))
    /\ processed' = Front(processed)
    /\ UNCHANGED <<itemsRT, pending, loop, needed, history>>

(* The rest of Update.                                                     *)
EndFrame ==
    /\ pc = "pushback"
    /\ processed = <<>>
    /\ Registration(items)
    /\ pc' = "idle"
    /\ UNCHANGED <<processed, it, i, current, needed, history>>

-----------------------------------------------------------------------------
Engine ==
    \/ BeginFrame \/ RealTimeStep \/ RealTimeReturn \/ RealTimeDone
    \/ NormalStep \/ NormalReturn \/ NormalFault \/ NormalDone
    \/ PushBack \/ EndFrame

Owners == \E o \in Objs : Register(o) \/ Unregister(o) \/ SetDestroy(o)

Next == (Engine \/ NeededFault \/ Owners) /\ UNCHANGED realTime

Spec == Init /\ [][Next]_vars

(* The main loop calls Update for ever and every shedule_Update returns.   *)
(* NeededFault gets no fairness and may come any number of times, but not  *)
(* for ever: an item that raises it each time would hold the loop of       *)
(* ProcessStep, which leaves by nothing but a Pop or the time budget.      *)
FairSpec == Spec /\ WF_vars(Engine /\ UNCHANGED realTime)

-----------------------------------------------------------------------------
(* A container has the object.                                             *)
Held(o) == Contains(itemsRT, o) \/ HasObj(items, o) \/ HasObj(processed, o)

(* Or it is the local T of ProcessStep that has it, during its update.     *)
InLoop(o) == Held(o) \/ (current = o /\ pc = "normal")

Queued(o, op) == Cardinality({k \in DOMAIN pending : pending[k] = [reg |-> op, obj |-> o]})

(* The count of CSheduler::Registered: one for the containers, one more    *)
(* for each registration in the queue and one less for each removal.       *)
Count(o) == (IF Held(o) THEN 1 ELSE 0) + Queued(o, TRUE) - Queued(o, FALSE)

Registered(o) == Count(o) = 1

(* What Registered counts one short: no container has the object, but it   *)
(* is being updated, or its queue begins with a removal all the same.      *)
Unheld(o) == ~Held(o) /\ (InLoop(o) \/ o \in Gone(pending))

OpsOf(o) == Kept(pending, {k \in DOMAIN pending : pending[k].obj = o})

(* Who takes part in the loop once the queue is worked off, T included:    *)
(* this, and not what Registered counts, is what the owners rely on.       *)
Effective ==
    {o \in Objs : IF OpsOf(o) = <<>> THEN InLoop(o) ELSE Last(OpsOf(o)).reg}

Registry == INSTANCE ScheduleRegistry
                WITH registered <- Effective, running <- current, done <- updated

(* Seen from the owners, the queues, the heap and the loop are one set of  *)
(* registered objects: ScheduleRegistry.                                   *)
RegistryImplemented == Registry!Spec

(* The VERIFY(!count) of Registered: an object is in one container, once.  *)
InLoopOnce ==
    LET all == itemsRT \o [k \in DOMAIN items |-> items[k].obj]
                       \o [k \in DOMAIN processed |-> processed[k].obj]
    IN  /\ \A m, n \in DOMAIN all : m # n /\ all[m] = all[n] => all[m] = None
        /\ pc = "normal" => ~Contains(all, current) \/ current = None

(* CSheduler::Registered, at any time: an object is in one place, and it   *)
(* counts as registered if the owners registered it and the loop did not   *)
(* drop it, unless it is Unheld.  So VERIFY(!Registered(A)) of Register    *)
(* holds, and VERIFY(Registered(A)) of Unregister fails for what was       *)
(* dropped and for what is Unheld only.                                    *)
RegistryKept ==
    /\ InLoopOnce
    /\ \A o \in Objs : Registered(o) <=> o \in owned \ dropped /\ ~Unheld(o)

(* VERIFY(Registered(A)) of Unregister, for all that the loop did not drop *)
(* behind the owner's back.                                                *)
UnregisterVerified ==
    [][\A o \in Objs \ dropped : Unregister(o) => Registered(o)]_vars

(* An object that stays registered and needed is updated again and again:  *)
(* neither the time budget, nor the heap, nor a neighbour erased from      *)
(* ItemsRT under the running index starves it for ever.                    *)
NobodyStarves ==
    \A o \in Objs :
        o \in Effective \cap needed ~> current = o \/ o \notin Effective \cap needed
=============================================================================
