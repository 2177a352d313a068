------------------------------ MODULE MCDevice ------------------------------
(* An instance of Device for TLC: two images, of one piece each.             *)
EXTENDS Device

CONSTANTS f1, f2

MCFirmware == {f1, f2}
MCSize     == [f \in MCFirmware |-> 1]
=============================================================================
