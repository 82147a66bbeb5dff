------------------------- MODULE MCNestedContainers -------------------------
(* ServerEntities where a stash holds a container (CInventoryContainer) and *)
(* the container a savable item: one level more than Disciplined allows.    *)
(* The car body window moves a filled container into a stash unchecked.     *)
EXTENDS ServerEntities

CONSTANTS stash, backpack, medkit

MCIds == {stash, backpack, medkit}

MCMayHold == {<<stash, backpack>>, <<backpack, medkit>>}

MCBoxes == {stash, backpack}
=============================================================================
