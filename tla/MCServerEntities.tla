-------------------------- MODULE MCServerEntities --------------------------
(* ServerEntities with three owners: a stalker and a stash ALife saves and  *)
(* a monster it does not; a launcher that loads a rocket; and a bolt, which *)
(* can_save() excludes, as it does the rocket.                              *)
EXTENDS ServerEntities

CONSTANTS npc, stash, stray, launcher, rocket, bolt

MCIds == {npc, stash, stray, launcher, rocket, bolt}

MCMayHold == ({npc, stash, stray} \X {launcher, bolt}) \cup {<<launcher, rocket>>}

MCSavable == {npc, stash, launcher}

MCBoxes == {npc, stash, stray}

ASSUME DisciplineHolds == MayHold = MCMayHold => Disciplined
=============================================================================
