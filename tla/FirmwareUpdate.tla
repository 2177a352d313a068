--------------------------- MODULE FirmwareUpdate ---------------------------
(***************************************************************************)
(* What the update feature promises to the owner of the device, with no    *)
(* flash layout, no upload protocol and no boot selection: the installed   *)
(* firmware is always one whole image, it is replaced in one step and only *)
(* by the file that is on offer at that moment, and the image that runs is *)
(* the one that was installed when the device was switched on.             *)
(***************************************************************************)
CONSTANTS
  Firmware,  \* the files that are valid firmware images
  Junk,      \* the other files a user may pick in the upload form
  Shipped,   \* the image the device leaves the factory with
  Nothing    \* no file, no image

VARIABLES
  installed,  \* the image the next boot runs
  active,     \* the image that is running, Nothing while the device is off
  offered     \* the file being uploaded, Nothing between uploads

vars == <<installed, active, offered>>

Init ==
  /\ installed = Shipped
  /\ active = Nothing
  /\ offered = Nothing

Offer(f) ==
  /\ active # Nothing
  /\ offered = Nothing
  /\ offered' = f
  /\ UNCHANGED <<installed, active>>

Withdraw ==
  /\ offered' = Nothing
  /\ UNCHANGED <<installed, active>>

Install ==
  /\ offered \in Firmware
  /\ installed' = offered
  /\ UNCHANGED <<active, offered>>

SwitchOff ==
  /\ active' = Nothing
  /\ offered' = Nothing
  /\ UNCHANGED installed

SwitchOn ==
  /\ active = Nothing
  /\ active' = installed
  /\ UNCHANGED <<installed, offered>>

Next ==
  \/ \E f \in Firmware \cup Junk : Offer(f)
  \/ Withdraw
  \/ Install
  \/ SwitchOff
  \/ SwitchOn

Spec == Init /\ [][Next]_vars
=============================================================================
