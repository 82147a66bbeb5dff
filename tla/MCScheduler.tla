---------------------------- MODULE MCScheduler -----------------------------
(* Three objects: two wait in the heap and one is updated every frame, or   *)
(* all are updated every frame, enough of them for one to be passed over    *)
(* when a second erases a third.  The time budget may end a frame after     *)
(* each item of the heap.                                                   *)
EXTENDS Scheduler

CONSTANTS o1, o2, o3

MCObjs == {o1, o2, o3}

MCKinds == {{o3}, MCObjs}
=============================================================================
