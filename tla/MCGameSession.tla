--------------------------- MODULE MCGameSession ----------------------------
(* GameSession with a stalker, a stash and an item.                         *)
EXTENDS GameSession

CONSTANTS npc, stash, item

MCIds == {npc, stash, item}

MCMayHold == {npc, stash} \X {item}

MCBoxes == {npc, stash}

MCStalkers == {npc}

ASSUME DisciplineHolds == Disciplined

MCMaxQueue == [quick \in BOOLEAN |-> IF quick THEN 3 ELSE 5]
=============================================================================
