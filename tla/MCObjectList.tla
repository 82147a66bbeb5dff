---------------------------- MODULE MCObjectList ----------------------------
(* A stalker, whose object handler moves its item, and the item.            *)
EXTENDS ObjectList

CONSTANTS npc, rifle

MCObjects == {npc, rifle}

MCHolders == {npc}
=============================================================================
