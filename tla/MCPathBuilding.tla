--------------------------- MODULE MCPathBuilding ---------------------------
(* PathBuilding with a stalker, which may clear its path, and a monster,    *)
(* which may want one at once.                                              *)
EXTENDS PathBuilding, TLC

CONSTANTS stalker, monster

MCManagers == {stalker, monster}

MCMonsters == {monster}

MCTypes == stalker :> {"game", "level", "patrol"} @@ monster :> {"level"}
=============================================================================
