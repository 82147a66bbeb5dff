------------------------------ MODULE MCWeapon ------------------------------
(* Weapon with both features or neither.                                    *)
EXTENDS Weapon

MCFeatures == {[autoreload |-> b, unjams |-> b] : b \in BOOLEAN}
=============================================================================
