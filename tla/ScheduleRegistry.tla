-------------------------- MODULE ScheduleRegistry --------------------------
(* What CSheduler promises to the owner of an ISheduled: between Register   *)
(* and Unregister the object is updated, at most once a frame, and outside  *)
(* of it never; it may be forgotten when it fails or is no longer needed.   *)
CONSTANTS Objs, None

VARIABLES
    registered,  \* what is to be updated
    running,     \* the object whose shedule_Update runs, or None
    done         \* the objects this frame has updated

vars == <<registered, running, done>>

Init == registered = {} /\ running = None /\ done = {}

Register(o) ==
    o \notin registered /\ registered' = registered \cup {o} /\ UNCHANGED <<running, done>>

Unregister(o) ==
    o \in registered /\ registered' = registered \ {o} /\ UNCHANGED <<running, done>>

BeginFrame == running = None /\ done' = {} /\ UNCHANGED <<registered, running>>

BeginUpdate(o) ==
    /\ running = None
    /\ o \in registered \ done
    /\ running' = o
    /\ done' = done \cup {o}
    /\ UNCHANGED registered

EndUpdate ==
    /\ running # None
    /\ running' = None
    /\ registered' \in {registered, registered \ {running}}
    /\ UNCHANGED done

Forget(o) == running = None /\ Unregister(o)

Next ==
    \/ \E o \in Objs : Register(o) \/ Unregister(o) \/ BeginUpdate(o) \/ Forget(o)
    \/ BeginFrame
    \/ EndUpdate

Spec == Init /\ [][Next]_vars
=============================================================================
