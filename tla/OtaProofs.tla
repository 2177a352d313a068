------------------------------ MODULE OtaProofs ------------------------------
(***************************************************************************)
(* Proofs about Ota for every set of files and every length of theirs.     *)
(* TypeOK alone is not enough for any of them: what keeps the boot         *)
(* selection bootable is where the httpd task is when it writes, so IInv   *)
(* ties the flash to the task's place in _ota_post_handler.                *)
(***************************************************************************)
EXTENDS Ota, TLAPS

Serving == {"no_server", "idle", "begin", "recv", "end", "set_boot",
            "return_failure"}

Writing == {"recv", "end", "set_boot"}

\* The file on the way to the target, as far as it has been written.
Progress ==
  /\ upload \in File
  /\ remaining <= Size[upload]
  /\ update_partition = NextUpdate(running)
  /\ Written > 0 => slot[update_partition] = [file |-> upload, len |-> Written]

IInv ==
  /\ TypeOK
  /\ Whole(slot[boot])
  /\ Whole(slot[running])
  /\ pc \in Serving => boot = running
  /\ pc = "begin" => upload \in File /\ remaining = Size[upload]
  /\ pc \in Writing => Progress
  /\ pc \in {"end", "set_boot"} => remaining = 0
  /\ pc = "set_boot" => ImageIn(update_partition) = upload
  /\ pc \in {"reply", "restart"} => upload = Nothing \/ ImageIn(boot) = upload
  /\ pc \in {"off", "no_server", "idle"} => upload = Nothing
  /\ page = "accepted" => upload = Nothing \/ pc = "restart"
  /\ pc \in {"off", "no_server", "idle", "begin"} => ~session
  /\ session => update_handle

-----------------------------------------------------------------------------
(* What the bootloader selects next is never what runs now.                *)
LEMMA NextUpdateDiffers ==
  ASSUME NEW p \in Partition
  PROVE  NextUpdate(p) \in Partition /\ NextUpdate(p) # p
BY DEF Partition, NextUpdate

(* A filled target is a well-formed flash that keeps every other slot.     *)
LEMMA FilledFlash ==
  ASSUME TypeOK, Progress, NEW n \in 0..remaining
  PROVE  /\ Filled(n) \in [Partition -> [file : File \cup {Nothing}, len : Nat]]
         /\ Filled(n)[update_partition] = [file |-> upload, len |-> Written + n]
         /\ \A p \in Partition \ {update_partition} : Filled(n)[p] = slot[p]
<1>1. Size[upload] \in Nat /\ remaining \in Nat
  BY OtaAssumption DEF Progress, TypeOK
<1>2. Written + n \in Nat
  BY <1>1 DEF Progress, Written
<1>3. [file |-> upload, len |-> Written + n] \in [file : File \cup {Nothing}, len : Nat]
  BY <1>2 DEF Progress
<1> QED
  BY <1>3 DEF Filled, TypeOK

(* Writing leaves the running and the selected partition alone.            *)
LEMMA KeepsLiveSlots ==
  ASSUME IInv, pc \in Writing, NEW n \in 0..remaining
  PROVE  /\ Filled(n)[boot] = slot[boot]
         /\ Filled(n)[running] = slot[running]
<1>1. TypeOK /\ Progress /\ boot = running
  BY DEF IInv, Writing, Serving
<1>2. update_partition # running
  BY <1>1, NextUpdateDiffers DEF Progress, TypeOK
<1> QED
  BY <1>1, <1>2, FilledFlash DEF TypeOK

-----------------------------------------------------------------------------
LEMMA InitIInv == Init => IInv
<1> SUFFICES ASSUME Init PROVE IInv
  OBVIOUS
<1>1. Size[Shipped] \in Nat /\ Shipped \in File
  BY OtaAssumption DEF File
<1>2. TypeOK
  BY <1>1 DEF Init, TypeOK, Partition
<1>3. Whole(slot["factory"])
  BY OtaAssumption DEF Init, Whole, Partition
<1> QED
  BY <1>2, <1>3 DEF Init, IInv, Serving, Writing

(* Switching off, whatever a torn write did to the target.                 *)
LEMMA GoDownIInv ==
  ASSUME IInv, GoDown,
         slot' \in [Partition -> [file : File \cup {Nothing}, len : Nat]],
         slot'[boot] = slot[boot], slot'[running] = slot[running]
  PROVE  IInv'
<1>1. TypeOK'
  BY DEF IInv, TypeOK, GoDown, HandlerGone, Broken
<1>2. Whole(slot[boot])' /\ Whole(slot[running])'
  BY DEF IInv, GoDown, Whole
<1>3. pc' = "off" /\ upload' = Nothing /\ ~session'
  BY DEF GoDown, HandlerGone
<1> QED
  BY <1>1, <1>2, <1>3 DEF IInv, Serving, Writing

LEMMA PowerLossIInv == ASSUME IInv, PowerLoss PROVE IInv'
<1>1. CASE UNCHANGED slot
  BY <1>1, GoDownIInv DEF PowerLoss, IInv, TypeOK
<1>2. CASE pc = "recv" /\ remaining > 0 /\ slot' = Filled(0)
  <2>1. TypeOK /\ Progress /\ pc \in Writing
    BY <1>2 DEF IInv, Writing
  <2>5. remaining \in Nat
    BY <2>1 DEF TypeOK
  <2>2. 0 \in 0..remaining
    BY <2>5
  <2>3. slot' \in [Partition -> [file : File \cup {Nothing}, len : Nat]]
    BY <1>2, <2>1, <2>2, FilledFlash
  <2>4. slot'[boot] = slot[boot] /\ slot'[running] = slot[running]
    BY <1>2, <2>1, <2>2, KeepsLiveSlots
  <2> QED
    BY <2>3, <2>4, GoDownIInv DEF PowerLoss
<1> QED
  BY <1>1, <1>2 DEF PowerLoss

(* The target is never the selected partition, and nothing is written yet. *)
LEMMA BeginIInv == ASSUME IInv, Begin PROVE IInv'
<1>1. TypeOK /\ boot = running /\ upload \in File /\ remaining = Size[upload]
  BY DEF IInv, Begin, Serving
<1>2. Size[upload] \in Nat
  BY <1>1, OtaAssumption
<1>3. NextUpdate(running) \in Partition
  BY <1>1, NextUpdateDiffers DEF TypeOK
<1>4. UNCHANGED <<slot, boot, running, upload, remaining, peer, page>>
  BY DEF Begin, flash, request, client
<1>5. TypeOK'
  BY <1>1, <1>3, <1>4 DEF Begin, TypeOK, updating
<1>6. pc' = "recv" => Progress'
  <2> SUFFICES ASSUME pc' = "recv" PROVE Progress'
    OBVIOUS
  <2>1. update_partition' = NextUpdate(running)
    BY DEF Begin
  <2>2. Written' = 0
    BY <1>1, <1>2, <1>4 DEF Written
  <2> QED
    BY <1>1, <1>2, <1>4, <2>1, <2>2 DEF Progress, NextUpdate
<1>7. session' => update_handle'
  BY DEF Begin, updating, IInv
<1>8. Whole(slot[boot])' /\ Whole(slot[running])'
  BY <1>4 DEF IInv, Whole
<1>9. pc' \in {"recv", "return_failure"} /\ page' # "accepted"
  BY <1>1, <1>4, OtaAssumption DEF Begin, IInv
<1> QED
  BY <1>1, <1>4, <1>5, <1>6, <1>7, <1>8, <1>9 DEF IInv, Serving, Writing

\* One turn of the receive loop that got n pieces, written or not.
Received(n) ==
  /\ pc = "recv"
  /\ remaining' = remaining - n
  /\ slot' = slot \/ slot' = Filled(0) \/ slot' = Filled(n)
  /\ pc' = "return_failure" \/ (pc' = "recv" /\ slot' = Filled(n))
  /\ UNCHANGED <<boot, running, upload, update_partition, update_handle, session,
                 peer, page>>

LEMMA ReceiveIInv == ASSUME IInv, NEW n \in 1..remaining, Received(n) PROVE IInv'
<1> USE DEF Received
<1>1. TypeOK /\ Progress /\ pc \in Writing /\ boot = running
  BY DEF IInv, Writing, Serving
<1>0. remaining \in Nat /\ remaining <= Size[upload] /\ Size[upload] \in Nat
  BY <1>1, OtaAssumption DEF TypeOK, Progress
<1>2. remaining' \in Nat /\ remaining' <= Size[upload]
  BY <1>0
<1>9. n \in 0..remaining /\ 0 \in 0..remaining
  BY <1>0
<1>3. slot' \in [Partition -> [file : File \cup {Nothing}, len : Nat]]
  BY <1>1, <1>9, FilledFlash DEF TypeOK
<1>4. slot'[boot] = slot[boot] /\ slot'[running] = slot[running]
  BY <1>1, <1>9, KeepsLiveSlots
<1>5. TypeOK'
  BY <1>1, <1>2, <1>3 DEF TypeOK
<1>6. Whole(slot[boot])' /\ Whole(slot[running])'
  BY <1>4 DEF IInv, Whole
<1>7. pc' = "recv" => Progress'
  <2> SUFFICES ASSUME pc' = "recv" PROVE Progress'
    OBVIOUS
  <2>1. slot'[update_partition] = [file |-> upload, len |-> Written + n]
    BY <1>1, <1>9, FilledFlash
  <2>2. Written' = Written + n
    BY <1>0 DEF Written
  <2> QED
    BY <1>1, <1>2, <2>1, <2>2 DEF Progress, NextUpdate
<1>8. page' # "accepted"
  BY <1>1, OtaAssumption DEF IInv, Progress
<1> QED
  BY <1>1, <1>5, <1>6, <1>7, <1>8 DEF IInv, Serving, Writing

LEMMA RecvChunkIInv == ASSUME IInv, RecvChunk PROVE IInv'
<1>1. PICK n \in 1..remaining : remaining' = remaining - n /\ slot' = Filled(n)
  BY DEF RecvChunk
<1>2. Received(n)
  BY <1>1 DEF RecvChunk, Received, updating, client
<1> QED
  BY <1>2, ReceiveIInv

LEMMA RecvWriteFailsIInv == ASSUME IInv, RecvWriteFails PROVE IInv'
<1>1. PICK n \in 1..remaining : remaining' = remaining - n
  BY DEF RecvWriteFails
<1>2. Received(n)
  BY <1>1 DEF RecvWriteFails, Received, updating, client
<1> QED
  BY <1>2, ReceiveIInv

(* The library accepts only what this update wrote: a non-empty body that  *)
(* is in the target from its first to its last piece.                      *)
LEMMA EndIInv == ASSUME IInv, End PROVE IInv'
<1>1. TypeOK /\ Progress /\ boot = running /\ remaining = 0
  BY DEF IInv, End, Serving, Writing
<1>2. UNCHANGED <<slot, boot, running, upload, remaining, update_partition,
                  update_handle, peer, page>> /\ ~session'
  BY DEF End, flash, request, client
<1>3. pc' \in {"set_boot", "return_failure"}
  BY DEF End
<1>4. TypeOK'
  BY <1>1, <1>2, <1>3 DEF TypeOK, End
<1>5. Whole(slot[boot])' /\ Whole(slot[running])'
  BY <1>2 DEF IInv, Whole
<1>6. Progress'
  BY <1>1, <1>2 DEF Progress, Written, NextUpdate
<1>7. pc' = "set_boot" => (ImageIn(update_partition) = upload)'
  BY <1>1, <1>2 DEF End, Progress, ImageIn, Whole
<1>8. page' # "accepted"
  BY <1>1, <1>2, OtaAssumption DEF IInv, End, Progress
<1> QED
  BY <1>1, <1>2, <1>3, <1>4, <1>5, <1>6, <1>7, <1>8 DEF IInv, Serving, Writing

LEMMA SetBootIInv == ASSUME IInv, SetBoot PROVE IInv'
<1>1. /\ TypeOK /\ boot = running /\ upload \in File
      /\ ImageIn(update_partition) = upload
  BY DEF IInv, SetBoot, Serving, Writing, Progress
<1>2. UNCHANGED <<slot, running, upload, remaining, update_partition,
                  update_handle, session, peer, page>>
  BY DEF SetBoot, request, updating, client
<1>3. TypeOK'
  BY <1>1, <1>2 DEF TypeOK, SetBoot
<1>4. Whole(slot[update_partition])
  BY <1>1, OtaAssumption DEF ImageIn
<1>5. Whole(slot[boot])' /\ Whole(slot[running])'
  BY <1>2, <1>4 DEF SetBoot, IInv, Whole
<1>6. page' # "accepted"
  BY <1>1, <1>2, OtaAssumption DEF IInv, SetBoot
<1>7. CASE pc' = "reply" /\ boot' = update_partition
  <2>1. (ImageIn(boot) = upload)'
    BY <1>1, <1>2, <1>7 DEF ImageIn, Whole
  <2>2. session' => update_handle'
    BY <1>2 DEF IInv
  <2> QED
    BY <1>3, <1>5, <1>6, <1>7, <2>1, <2>2 DEF IInv, Serving, Writing
<1>8. CASE pc' = "return_failure" /\ UNCHANGED boot
  <2>1. session' => update_handle'
    BY <1>2 DEF IInv
  <2> QED
    BY <1>1, <1>2, <1>3, <1>5, <1>6, <1>8, <2>1 DEF IInv, Serving, Writing
<1> QED
  BY <1>7, <1>8 DEF SetBoot

LEMMA UnchangedIInv == ASSUME IInv, UNCHANGED vars PROVE IInv'
<1>1. /\ UNCHANGED <<slot, boot, running, pc, upload, remaining, peer, page>>
      /\ UNCHANGED <<update_partition, update_handle, session>>
  BY DEF vars, flash, request, updating, client
<1>2. TypeOK'
  BY <1>1 DEF IInv, TypeOK
<1>3. pc \in Writing => Progress'
  BY <1>1 DEF IInv, Progress, Written, NextUpdate
<1> QED
  BY <1>1, <1>2, <1>3 DEF IInv, Whole, ImageIn

-----------------------------------------------------------------------------
(* One step per action of Next.                                            *)
LEMMA StepIInv == IInv /\ [Next]_vars => IInv'
<1> SUFFICES ASSUME IInv, [Next]_vars PROVE IInv'
  OBVIOUS
<1>1. CASE PowerLoss
  BY <1>1, PowerLossIInv
<1>2. CASE Begin
  BY <1>2, BeginIInv
<1>3. CASE RecvChunk
  BY <1>3, RecvChunkIInv
<1>4. CASE RecvWriteFails
  BY <1>4, RecvWriteFailsIInv
<1>5. CASE End
  BY <1>5, EndIInv
<1>6. CASE SetBoot
  BY <1>6, SetBootIInv
<1>7. CASE Restart
  BY <1>7, GoDownIInv DEF Restart, IInv, TypeOK
<1> USE DEF IInv, TypeOK, Serving, Writing, flash, request, updating, client,
            Progress, Written, Whole, ImageIn
<1>20. CASE UNCHANGED vars
  BY <1>20, UnchangedIInv
<1>8. CASE SwitchOn
  BY <1>8 DEF SwitchOn
<1>9. CASE ServerUp
  BY <1>9 DEF ServerUp
<1>10. CASE ServerDown
  BY <1>10 DEF ServerDown
<1>11. ASSUME NEW f \in File, PostOta(f) PROVE IInv'
  <2>1. Size[f] \in Nat
    BY OtaAssumption
  <2> QED
    BY <1>11, <2>1 DEF PostOta
<1>12. CASE PostReset
  BY <1>12 DEF PostReset
<1>13. CASE RecvError
  BY <1>13 DEF RecvError
<1>14. CASE RecvDone
  BY <1>14 DEF RecvDone
<1>15. CASE Reply
  BY <1>15 DEF Reply
<1>16. CASE ReturnFailure
  BY <1>16 DEF ReturnFailure, HandlerGone, Broken
<1>17. CASE PeerStalls
  BY <1>17 DEF PeerStalls
<1>18. CASE PeerResumes
  BY <1>18 DEF PeerResumes
<1>19. CASE PeerLost
  BY <1>19 DEF PeerLost, Broken
<1> QED
  BY <1>1, <1>2, <1>3, <1>4, <1>5, <1>6, <1>7, <1>8, <1>9, <1>10, <1>11, <1>12,
     <1>13, <1>14, <1>15, <1>16, <1>17, <1>18, <1>19, <1>20
     DEF Next, Handler, Receive, Peer, RecvTimeout

(* IInv holds in every state of every behaviour.                           *)
THEOREM Invariance == Spec => []IInv
BY InitIInv, StepIInv, PTL DEF Spec

-----------------------------------------------------------------------------
(* The device's variables keep their types.                                *)
THEOREM TypeCorrect == Spec => []TypeOK
<1>1. IInv => TypeOK
  BY DEF IInv
<1> QED
  BY <1>1, Invariance, PTL

(* Power may fail at any moment: the boot selection is a whole image.      *)
THEOREM BootIsSafe == Spec => []BootSafe
<1>1. IInv => BootSafe
  BY DEF IInv, BootSafe
<1> QED
  BY <1>1, Invariance, PTL

(* "Upload accepted" means that the file is what the next boot runs.       *)
THEOREM AcceptanceIsRight == Spec => []AcceptedIsInstalled
<1>1. IInv => AcceptedIsInstalled
  BY DEF IInv, AcceptedIsInstalled
<1> QED
  BY <1>1, Invariance, PTL

(* Requests are served only while the boot selection is the running image. *)
THEOREM ServerServesWhatBoots == Spec => []ServesWhatBoots
<1>1. IInv => ServesWhatBoots
  BY DEF IInv, ServesWhatBoots, Serving
<1> QED
  BY <1>1, Invariance, PTL

(* No way out of the upload handler leaves an update open.                 *)
THEOREM SessionsAreClosed == Spec => []NoSessionLeak
<1>1. IInv => NoSessionLeak
  BY DEF IInv, NoSessionLeak
<1> QED
  BY <1>1, Invariance, PTL

-----------------------------------------------------------------------------
LEMMA StepKeepsLiveSlots ==
  ASSUME IInv, [Next]_vars
  PROVE  slot'[boot] = slot[boot] /\ slot'[running] = slot[running]
<1>1. CASE UNCHANGED slot
  BY <1>1
<1>2. CASE \E n \in 0..remaining : pc = "recv" /\ slot' = Filled(n)
  BY <1>2, KeepsLiveSlots DEF Writing
<1>3. UNCHANGED slot \/ \E n \in 0..remaining : pc = "recv" /\ slot' = Filled(n)
  <2>1. remaining \in Nat
    BY DEF IInv, TypeOK
  <2>2. CASE PowerLoss
    BY <2>1, <2>2 DEF PowerLoss
  <2>3. CASE RecvChunk
    BY <2>1, <2>3 DEF RecvChunk
  <2>4. CASE RecvWriteFails
    BY <2>1, <2>4 DEF RecvWriteFails
  <2>5. ASSUME ~PowerLoss, ~RecvChunk, ~RecvWriteFails PROVE UNCHANGED slot
    BY <2>5 DEF Next, Handler, Receive, Peer, SwitchOn, ServerUp, ServerDown,
       PostOta, PostReset, Begin, RecvTimeout, RecvError, RecvDone, End,
       SetBoot,
       Reply, Restart, ReturnFailure, PeerStalls, PeerResumes, PeerLost, vars,
       flash
  <2> QED
    BY <2>2, <2>3, <2>4, <2>5
<1> QED
  BY <1>1, <1>2, <1>3

(* No step writes to the running partition or to the one selected to boot. *)
THEOREM LiveSlotsAreUntouched == Spec => LiveSlotsUntouched
<1>1. IInv /\ [Next]_vars => [\A p \in {running, boot} : slot'[p] = slot[p]]_vars
  BY StepKeepsLiveSlots
<1> QED
  BY <1>1, Invariance, PTL DEF Spec, LiveSlotsUntouched

-----------------------------------------------------------------------------
(* The refinement of FirmwareUpdate.                                       *)
LEMMA InitRefines == Init => Update!Init
BY OtaAssumption DEF Init, Update!Init, ImageIn, Whole, Partition

LEMMA LiveImages ==
  ASSUME IInv, [Next]_vars
  PROVE  /\ (boot' = boot => ImageIn(boot)' = ImageIn(boot))
         /\ (running' = running => ImageIn(running)' = ImageIn(running))
BY StepKeepsLiveSlots DEF ImageIn, Whole

(* Only the end of an upload, the boot selection, a failed upload and      *)
(* power are visible; every other step is a stutter.                       *)
LEMMA StepRefines == IInv /\ [Next]_vars => [Update!Next]_(Update!vars)
<1> SUFFICES ASSUME IInv, [Next]_vars PROVE [Update!Next]_(Update!vars)
  OBVIOUS
<1> USE LiveImages DEF flash, request, updating, client
<1>1. CASE SwitchOn
  <2>1. Update!SwitchOn
    BY <1>1 DEF SwitchOn, Update!SwitchOn, ImageIn, Whole
  <2> QED
    BY <2>1 DEF Update!Next
<1>2. CASE PowerLoss \/ Restart
  <2>1. Update!SwitchOff
    BY <1>2 DEF PowerLoss, Restart, GoDown, HandlerGone, Update!SwitchOff
  <2> QED
    BY <2>1 DEF Update!Next
<1>3. ASSUME NEW f \in File, PostOta(f) PROVE Update!Next
  <2>1. ImageIn(running) # Nothing
    BY OtaAssumption DEF IInv, ImageIn, Whole, File
  <2>2. Update!Offer(f)
    BY <1>3, <2>1 DEF PostOta, IInv, Update!Offer
  <2> QED
    BY <2>2 DEF Update!Next, File
<1>4. CASE SetBoot
  <2>1. upload \in Firmware
    BY <1>4, OtaAssumption DEF SetBoot, IInv, Writing, Progress, ImageIn, Whole
  <2>2. CASE pc' = "reply" /\ boot' = update_partition
    <3>1. ImageIn(boot)' = upload
      BY <1>4, <2>2 DEF SetBoot, IInv, ImageIn, Whole
    <3>2. Update!Install
      BY <1>4, <2>1, <2>2, <3>1 DEF SetBoot, Update!Install
    <3> QED
      BY <3>2 DEF Update!Next
  <2>3. CASE UNCHANGED boot /\ pc' = "return_failure"
    BY <1>4, <2>3 DEF SetBoot, Update!vars
  <2> QED
    BY <1>4, <2>2, <2>3 DEF SetBoot
<1>5. CASE ReturnFailure
  <2>1. Update!Withdraw
    BY <1>5 DEF ReturnFailure, HandlerGone, Update!Withdraw
  <2> QED
    BY <2>1 DEF Update!Next
<1>6. CASE ServerUp \/ ServerDown \/ PostReset \/ Peer
  BY <1>6 DEF ServerUp, ServerDown, PostReset, Peer, PeerStalls, PeerResumes,
     PeerLost, Update!vars
<1>7. CASE Begin \/ Receive \/ RecvDone \/ End \/ Reply
  BY <1>7 DEF Begin, Receive, RecvChunk, RecvWriteFails, RecvTimeout, RecvError,
     RecvDone, End, Reply, vars, Update!vars
<1>8. CASE UNCHANGED vars
  BY <1>8 DEF vars, Update!vars
<1> QED
  BY <1>1, <1>2, <1>3, <1>4, <1>5, <1>6, <1>7, <1>8 DEF Next, Handler

(* The handlers and the flash implement FirmwareUpdate: the installed      *)
(* firmware is always one whole image, replaced in one step by the file    *)
(* on offer.                                                               *)
THEOREM Refinement == Spec => UpdatesAtomically
BY InitRefines, StepRefines, Invariance, PTL
DEF Spec, UpdatesAtomically, Update!Spec
=============================================================================
