----------------------------- MODULE MCFrameLoop -----------------------------
(* The application's frame, a level and the cursor that are drawn, and the  *)
(* sound on the second thread.                                              *)
EXTENDS FrameLoop, TLC

CONSTANTS app, level, cursor, sound

MCPriority == [frame  |-> (app :> 3),
               render |-> (level :> 2 @@ cursor :> -3),
               mt     |-> (sound :> 2)]

MCMaxEntries == [frame |-> 2, render |-> 3, mt |-> 1]
=============================================================================
