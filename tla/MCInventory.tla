----------------------------- MODULE MCInventory ----------------------------
(* A rifle that goes into either of two slots, a device that goes into the  *)
(* second of them or on the belt, and an artefact for the belt.             *)
EXTENDS Inventory

CONSTANTS rifle, device, artefact

MCSlotsOf == [i \in Items |-> CASE i = rifle    -> <<1, 2>>
                                [] i = device   -> <<2>>
                                [] i = artefact -> <<>>]
=============================================================================
