-------------------------------- MODULE MCOta --------------------------------
(* Instances of Ota for TLC: two images, one of three pieces, a file that   *)
(* is no image and an empty one.                                            *)
EXTENDS Ota

CONSTANTS f1, f2, text, empty

MCFirmware == {f1, f2}
MCJunk     == {text, empty}
MCSize     == [f \in File |-> CASE f = f1 -> 3 [] f = empty -> 0 [] OTHER -> 2]
=============================================================================
