-------------------------------- MODULE Ota ---------------------------------
(***************************************************************************)
(* The over-the-air update of main/http.c: the POST handlers of the httpd  *)
(* task, the application partitions they write, the boot selection they    *)
(* change, and the device's restarts and power losses.                     *)
(*                                                                         *)
(* httpd runs every handler in one task, so one request is served at a     *)
(* time and pc is the place of that task.  Files are counted in pieces, a  *)
(* piece being what one httpd_req_recv returns: Size[f] pieces make f.     *)
(* The uploader is the page the GET handler of /ota serves, in a browser.  *)
(* Operators named Bug... are defects the properties are tested against;   *)
(* no other definition uses them.                                          *)
(***************************************************************************)
EXTENDS Integers

CONSTANTS
  Firmware,  \* the files that are valid firmware images
  Junk,      \* the other files a user may pick in the upload form
  Size,      \* Size[f] is the length of f in pieces
  Shipped,   \* the image the device leaves the factory with
  Nothing    \* no file

File == Firmware \cup Junk

ASSUME OtaAssumption ==
  /\ Shipped \in Firmware
  /\ Nothing \notin File
  /\ Size \in [File -> Nat]
  /\ \A f \in Firmware : Size[f] > 0

Partition == {"factory", "ota_0", "ota_1"}

VARIABLES
  slot,              \* what each application partition holds
  boot,              \* the partition the bootloader selects
  running,           \* the partition the device runs, or ran last
  pc,                \* where the httpd task is; "off" or "no_server" without it
  upload,            \* the file of the POST /ota being served, or Nothing
  remaining,         \* pieces of the body still to receive
  update_partition,  \* the partition being written
  update_handle,     \* whether the handler's update_handle is non-zero
  session,           \* whether the OTA library has an update open
  peer,              \* the uploader's connection
  page               \* what the upload page shows

flash    == <<slot, boot>>
request  == <<upload, remaining>>
updating == <<update_partition, update_handle, session>>
client   == <<peer, page>>
vars     == <<flash, running, pc, request, updating, client>>

TypeOK ==
  /\ slot \in [Partition -> [file : File \cup {Nothing}, len : Nat]]
  /\ boot \in Partition
  /\ running \in Partition
  /\ pc \in {"off", "no_server", "idle", "begin", "recv", "end", "set_boot",
             "reply", "restart", "return_failure"}
  /\ upload \in File \cup {Nothing}
  /\ remaining \in Nat
  /\ update_partition \in Partition
  /\ update_handle \in BOOLEAN
  /\ session \in BOOLEAN
  /\ peer \in {"none", "sending", "stalled", "lost"}
  /\ page \in {"blank", "in progress", "accepted", "rejected"}

-----------------------------------------------------------------------------
(* Flash contents.                                                         *)

\* A partition is bootable when it holds one image from first to last piece.
Whole(s) == s.file \in Firmware /\ s.len = Size[s.file]

ImageIn(p) == IF Whole(slot[p]) THEN slot[p].file ELSE Nothing

\* esp_ota_get_next_update_partition(NULL): the OTA slot after the running
\* one, the first OTA slot when the factory image runs.
NextUpdate(p) == IF p = "ota_0" THEN "ota_1" ELSE "ota_0"

Written == Size[upload] - remaining

\* The target after n more pieces are written.  The first write erases what
\* the partition held: OTA_WITH_SEQUENTIAL_WRITES erases as it goes.
Filled(n) ==
  [slot EXCEPT ![update_partition] = [file |-> upload, len |-> Written + n]]

-----------------------------------------------------------------------------
Init ==
  /\ slot = [p \in Partition |->
               IF p = "factory" THEN [file |-> Shipped, len |-> Size[Shipped]]
                                ELSE [file |-> Nothing, len |-> 0]]
  /\ boot = "factory"
  /\ running = "factory"
  /\ pc = "off"
  /\ upload = Nothing
  /\ remaining = 0
  /\ update_partition = "factory"
  /\ update_handle = FALSE
  /\ session = FALSE
  /\ peer = "none"
  /\ page = "blank"

-----------------------------------------------------------------------------
(* Power, and the web server's start and stop.                             *)

\* An unanswered upload page whose connection breaks shows a rejection.
Broken == IF page = "in progress" THEN "rejected" ELSE page

\* The locals of _ota_post_handler are gone once it has returned.
HandlerGone ==
  /\ upload' = Nothing
  /\ remaining' = 0
  /\ update_handle' = FALSE
  /\ peer' = "none"
  /\ page' = Broken

GoDown ==
  /\ pc' = "off"
  /\ session' = FALSE
  /\ HandlerGone
  /\ UNCHANGED <<boot, running, update_partition>>

\* The bootloader runs what otadata selects; http_init then changes nothing,
\* since sdkconfig leaves BOOTLOADER_APP_ROLLBACK_ENABLE off.
SwitchOn ==
  /\ pc = "off"
  /\ pc' = "no_server"
  /\ running' = boot
  /\ UNCHANGED <<flash, request, updating, client>>

\* http_start_webserver, called when the station has an address.
ServerUp ==
  /\ pc = "no_server"
  /\ pc' = "idle"
  /\ UNCHANGED <<flash, running, request, updating, client>>

\* http_stop_webserver: httpd_stop waits for the running handler.
ServerDown ==
  /\ pc = "idle"
  /\ pc' = "no_server"
  /\ UNCHANGED <<flash, running, request, updating, client>>

\* Power may fail anywhere, half-way through a flash write too.
PowerLoss ==
  /\ pc # "off"
  /\ \/ UNCHANGED slot
     \/ pc = "recv" /\ peer = "sending" /\ remaining > 0 /\ slot' = Filled(0)
  /\ GoDown

-----------------------------------------------------------------------------
(* _ota_post_handler.                                                      *)

\* A page posts f.  The page sends the whole file: content_len is its size.
PostOta(f) ==
  /\ pc = "idle"
  /\ pc' = "begin"
  /\ upload' = f
  /\ remaining' = Size[f]
  /\ peer' = "sending"
  /\ page' = "in progress"
  /\ UNCHANGED <<flash, running, updating>>

\* The target is the partition that runs.
BugBegin ==
  /\ pc = "begin"
  /\ pc' = "recv"
  /\ update_partition' = running
  /\ update_handle' = TRUE
  /\ session' = TRUE
  /\ UNCHANGED <<flash, running, request, client>>

\* Choose the target and open the update; the library may find no target,
\* or refuse the update, in which case update_handle stays 0.
Begin ==
  /\ pc = "begin"
  /\ \/ /\ pc' = "recv"
        /\ update_partition' = NextUpdate(running)
        /\ update_handle' = TRUE
        /\ session' = TRUE
     \/ /\ pc' = "return_failure"
        /\ UNCHANGED updating
  /\ UNCHANGED <<flash, running, request, client>>

\* A chunk may be longer than what is left to receive.
BugRecvChunk ==
  /\ pc = "recv"
  /\ peer = "sending"
  /\ remaining > 0
  /\ \E n \in 1..(remaining + 1) :
       /\ remaining' = remaining - n
       /\ slot' = Filled(n)
  /\ UNCHANGED <<boot, running, pc, upload, updating, client>>

\* One turn of the receive loop that gets data and writes it.
RecvChunk ==
  /\ pc = "recv"
  /\ peer = "sending"
  /\ \E n \in 1..remaining :
       /\ remaining' = remaining - n
       /\ slot' = Filled(n)
  /\ UNCHANGED <<boot, running, pc, upload, updating, client>>

\* The same, with esp_ota_write failing before or after it erased.
RecvWriteFails ==
  /\ pc = "recv"
  /\ peer = "sending"
  /\ \E n \in 1..remaining : remaining' = remaining - n
  /\ slot' \in {slot, Filled(0)}
  /\ pc' = "return_failure"
  /\ UNCHANGED <<boot, running, upload, updating, client>>

\* HTTPD_SOCK_ERR_TIMEOUT: the loop tries again, for ever if need be.
RecvTimeout ==
  /\ pc = "recv"
  /\ peer = "stalled"
  /\ remaining > 0
  /\ UNCHANGED vars

\* Every error is retried, not only a timeout.
BugRecvError ==
  /\ pc = "recv"
  /\ peer = "lost"
  /\ remaining > 0
  /\ UNCHANGED vars

\* Any other result that is not data, the peer's orderly close included.
RecvError ==
  /\ pc = "recv"
  /\ peer = "lost"
  /\ remaining > 0
  /\ pc' = "return_failure"
  /\ UNCHANGED <<flash, running, request, updating, client>>

RecvDone ==
  /\ pc = "recv"
  /\ remaining = 0
  /\ pc' = "end"
  /\ UNCHANGED <<flash, running, request, updating, client>>

\* The result of esp_ota_end is ignored.
BugEnd ==
  /\ pc = "end"
  /\ pc' = "set_boot"
  /\ session' = FALSE
  /\ UNCHANGED <<flash, running, request, update_partition, update_handle,
                 client>>

\* esp_ota_end succeeds only on a whole image that this update wrote; it
\* closes the update whatever it returns.
End ==
  /\ pc = "end"
  /\ \/ pc' = "set_boot" /\ Written > 0 /\ Whole(slot[update_partition])
     \/ pc' = "return_failure"
  /\ session' = FALSE
  /\ UNCHANGED <<flash, running, request, update_partition, update_handle,
                 client>>

\* The result of esp_ota_set_boot_partition is ignored.
BugSetBoot ==
  /\ pc = "set_boot"
  /\ pc' = "reply"
  /\ boot' \in {boot, update_partition}
  /\ UNCHANGED <<slot, running, request, updating, client>>

SetBoot ==
  /\ pc = "set_boot"
  /\ \/ pc' = "reply" /\ boot' = update_partition
     \/ pc' = "return_failure" /\ UNCHANGED boot
  /\ UNCHANGED <<slot, running, request, updating, client>>

\* The new image waits for the next restart, whenever that is.
BugReply ==
  /\ pc = "reply"
  /\ pc' = "idle"
  /\ upload' = Nothing
  /\ remaining' = 0
  /\ update_handle' = FALSE
  /\ page' = IF peer = "sending" THEN "accepted" ELSE page
  /\ UNCHANGED <<flash, running, update_partition, session, peer>>

\* Send status 200; nobody may be left to read it.
Reply ==
  /\ pc = "reply"
  /\ pc' = "restart"
  /\ page' = IF peer = "sending" THEN "accepted" ELSE page
  /\ UNCHANGED <<flash, running, request, updating, peer>>

\* esp_restart, two seconds after the reply.
Restart ==
  /\ pc = "restart"
  /\ UNCHANGED slot
  /\ GoDown

\* Without the call of esp_ota_abort.
BugReturnFailure ==
  /\ pc = "return_failure"
  /\ pc' = "idle"
  /\ HandlerGone
  /\ UNCHANGED <<flash, running, update_partition, session>>

\* return_failure: abort the update if a handle was taken, send status 500,
\* and let httpd close the connection.  After esp_ota_end the handle is
\* unknown to the library and the abort does nothing.
ReturnFailure ==
  /\ pc = "return_failure"
  /\ pc' = "idle"
  /\ session' = (session /\ ~update_handle)
  /\ HandlerGone
  /\ UNCHANGED <<flash, running, update_partition>>

\* _reset_post_handler answers and restarts the same way.
PostReset ==
  /\ pc = "idle"
  /\ pc' = "restart"
  /\ UNCHANGED <<flash, running, request, updating, client>>

-----------------------------------------------------------------------------
(* The uploader's connection.                                              *)

PeerStalls ==
  /\ peer = "sending"
  /\ peer' = "stalled"
  /\ UNCHANGED <<flash, running, pc, request, updating, page>>

\* A reply sent meanwhile arrives late.
PeerResumes ==
  /\ peer = "stalled"
  /\ peer' = "sending"
  /\ page' = IF pc = "restart" THEN "accepted" ELSE page
  /\ UNCHANGED <<flash, running, pc, request, updating>>

PeerLost ==
  /\ peer \in {"sending", "stalled"}
  /\ peer' = "lost"
  /\ page' = Broken
  /\ UNCHANGED <<flash, running, pc, request, updating>>

-----------------------------------------------------------------------------
Receive == RecvChunk \/ RecvWriteFails \/ RecvTimeout \/ RecvError

Handler ==
  \/ Begin \/ Receive \/ RecvDone \/ End \/ SetBoot \/ Reply \/ Restart
  \/ ReturnFailure

Peer == PeerStalls \/ PeerResumes \/ PeerLost

Next ==
  \/ SwitchOn \/ ServerUp \/ ServerDown \/ PowerLoss
  \/ \E f \in File : PostOta(f)
  \/ PostReset
  \/ Handler
  \/ Peer

Spec == Init /\ [][Next]_vars

\* The httpd task runs whenever it can and a switched-on device boots.  The
\* client side: a connection that is up again and again delivers (TCP).  One
\* that stalls may stay so for ever.
FairSpec ==
  /\ Spec
  /\ WF_vars(Handler)
  /\ WF_vars(SwitchOn)
  /\ SF_vars(Receive)

-----------------------------------------------------------------------------
(* Properties.                                                             *)

(* Whenever the power fails, the partition the bootloader will select      *)
(* holds a whole image: no order of uploads, failed writes and restarts    *)
(* lets _ota_post_handler leave a boot selection it cannot boot.           *)
BootSafe == Whole(slot[boot])

(* No step writes to the partition that runs or the one that will boot.    *)
LiveSlotsUntouched ==
  [][\A p \in {running, boot} : slot'[p] = slot[p]]_vars

(* A page that says "Upload accepted. Device will reboot." is right: the   *)
(* boot selection already is the very file it sent.                        *)
AcceptedIsInstalled ==
  (page = "accepted" /\ upload # Nothing) => ImageIn(boot) = upload

(* Outside its two-second wait the server never serves with a boot         *)
(* selection other than the running image, so the next update cannot pick  *)
(* the selected partition as its target.                                   *)
ServesWhatBoots == pc \in {"no_server", "idle", "begin", "recv"} => boot = running

(* Every way out of _ota_post_handler closes the library's update.         *)
NoSessionLeak == pc \in {"no_server", "idle", "begin"} => ~session

(* An accepted file is the one the device comes up with, whenever and      *)
(* however often the power fails before the restart.                       *)
AcceptedRuns ==
  \A f \in Firmware :
    (page = "accepted" /\ upload = f) ~> (pc = "no_server" /\ ImageIn(running) = f)

(* The endless retry of a receive time-out (main/http.c:204) is the only   *)
(* way for the upload handler to hang: every upload ends, however often it *)
(* stalls and whatever fails, unless its uploader falls silent for good.   *)
HandlerReturns ==
  pc = "begin" ~> (pc \in {"idle", "off"} \/ [](peer = "stalled"))

(* What the page says of a rejected upload, and what main/http.c:131 tells *)
(* the user: the device keeps the image it runs.                           *)
RejectedMeansKept == (page = "rejected" /\ upload # Nothing) => boot = running

(* The flash layout and the upload protocol implement FirmwareUpdate: the  *)
(* installed firmware is replaced in one step, by the file on offer.       *)
Update == INSTANCE FirmwareUpdate WITH
  installed <- ImageIn(boot),
  active    <- IF pc = "off" THEN Nothing ELSE ImageIn(running),
  offered   <- upload

UpdatesAtomically == Update!Spec
=============================================================================
