----------------------------- MODULE MCRepair -------------------------------
(* The values of the constants of Repair that a .cfg cannot write.         *)
EXTENDS Repair

MCHoles == {<<1, 1>>}
MCRanges == {<<1, 4>>}
=============================================================================
