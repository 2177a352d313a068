------------------------------- MODULE Device -------------------------------
(***************************************************************************)
(* The whole way of an update: the network connection of main/wifi.c       *)
(* (Connection) and the upload handlers of main/http.c (Ota) as one        *)
(* device.  The wifi task starts and stops the web server and, stopping    *)
(* it, waits for the handler that runs; uploads come over the network the  *)
(* connection keeps; a restart by the handler, or a power loss, ends both  *)
(* tasks, and only the flash and the credentials outlive it.               *)
(*                                                                         *)
(* The two modules meet in http_pc, the place of the httpd task: whether   *)
(* there is a server and whether it is in a handler follow from it.        *)
(***************************************************************************)
EXTENDS Integers, Sequences

CONSTANTS
  Firmware, Junk, Size, Shipped, Nothing,  \* of Ota
  MaxRetry, Faults,                        \* of Connection
  MaxLosses,  \* bound on the losses of the network
  MaxCuts     \* bound on the losses of power

\* What Ota and Connection assume of their constants.
ASSUME DeviceAssumption ==
  /\ Shipped \in Firmware
  /\ Nothing \notin Firmware \cup Junk
  /\ Size \in [Firmware \cup Junk -> Nat]
  /\ \A f \in Firmware : Size[f] > 0
  /\ MaxRetry \in Nat \ {0}
  /\ Faults \subseteq {"fast", "failed_try", "start_fails"}
  /\ MaxLosses \in Nat /\ MaxCuts \in Nat

VARIABLES
  slot, boot, running, upload, remaining, update_partition, update_handle,
  session, peer, page,
  http_pc,    \* pc of Ota
  wifi_pc,    \* pc of Connection
  link, events, credentials, portal, retries, provisioned,
  provisioning_in_progress, handle_event_got_ip_address,
  handle_event_disconnected, faults,
  losses,     \* ghost: within MaxLosses
  cuts        \* ghost: within MaxCuts

httpd == <<slot, boot, running, upload, remaining, update_partition,
           update_handle, session, peer, page, http_pc>>
wifi == <<wifi_pc, link, events, credentials, portal, retries, provisioned,
          provisioning_in_progress, handle_event_got_ip_address,
          handle_event_disconnected, faults>>
counts == <<losses, cuts>>
vars == <<httpd, wifi, counts>>

HasServer == http_pc \notin {"off", "no_server"}
InHandler == HasServer /\ http_pc # "idle"

O == INSTANCE Ota WITH pc <- http_pc

C == INSTANCE Connection WITH
       pc <- wifi_pc, http_server <- HasServer, handling <- InHandler

TypeOK ==
  /\ O!TypeOK /\ C!TypeOK
  /\ losses \in 0 .. MaxLosses /\ cuts \in 0 .. MaxCuts

Init == O!Init /\ C!Init /\ losses = 0 /\ cuts = 0

-----------------------------------------------------------------------------
(* Power.                                                                  *)

\* s_task of main/wifi.c is zero again; the driver and the manager begin
\* anew, with the credentials in the flash.
ConnectionGone ==
  /\ wifi_pc' = "prepare"
  /\ link' = "idle" /\ events' = << >>
  /\ portal' = "closed"
  /\ retries' = 0
  /\ provisioned' = FALSE /\ provisioning_in_progress' = FALSE
  /\ handle_event_got_ip_address' = FALSE
  /\ handle_event_disconnected' = FALSE
  /\ UNCHANGED <<credentials, faults>>

SwitchOn == O!SwitchOn /\ UNCHANGED <<wifi, counts>>

PowerLoss ==
  /\ cuts < MaxCuts
  /\ O!PowerLoss
  /\ ConnectionGone
  /\ cuts' = cuts + 1 /\ UNCHANGED losses

Restart == O!Restart /\ ConnectionGone /\ UNCHANGED counts

-----------------------------------------------------------------------------
(* The tasks of main/wifi.c.                                               *)

Alone(Step) == http_pc # "off" /\ UNCHANGED <<httpd, counts>> /\ Step

EventTask == Alone(C!EventTask)

\* http_start_webserver, unless there is a server already; httpd_start may fail
\* (ClearGotIp of Connection says when).
StartServer ==
  /\ http_pc # "off"
  /\ O!ServerUp \/ UNCHANGED httpd
  /\ C!ClearGotIp
  /\ UNCHANGED counts

\* http_stop_webserver: httpd_stop waits for the handler.
StopServer == O!ServerDown /\ C!Stop /\ UNCHANGED counts

WifiTask ==
  \/ Alone(C!Prepare) \/ Alone(C!Wait)
  \/ Alone(C!ReadGotIp) \/ StartServer
  \/ Alone(C!ReadDisconnected) \/ Alone(C!ClearDisconnected) \/ StopServer

-----------------------------------------------------------------------------
(* The handlers of main/http.c.                                            *)

Upload(f) == O!PostOta(f) /\ C!Request /\ UNCHANGED counts
PostReset == O!PostReset /\ C!Request /\ UNCHANGED counts

Receive ==
  (O!RecvChunk \/ O!RecvWriteFails \/ O!RecvError) /\ UNCHANGED <<wifi, counts>>

Handler ==
  \/ Receive
  \/ /\ O!Begin \/ O!RecvDone \/ O!End \/ O!SetBoot \/ O!Reply
     /\ UNCHANGED <<wifi, counts>>
  \/ (O!ReturnFailure /\ C!Respond /\ UNCHANGED counts)
  \/ Restart

-----------------------------------------------------------------------------
(* The network, the owner and the uploader.                                *)

Driver == Alone(C!Driver)

\* With the network goes the upload that was coming over it.
LinkLost ==
  /\ losses < MaxLosses
  /\ \/ O!PeerStalls
     \/ peer # "sending" /\ UNCHANGED httpd
  /\ C!LinkLost
  /\ losses' = losses + 1 /\ UNCHANGED cuts

PeerStalls == O!PeerStalls /\ UNCHANGED <<wifi, counts>>
PeerResumes == link = "ip" /\ O!PeerResumes /\ UNCHANGED <<wifi, counts>>
PeerLost == O!PeerLost /\ UNCHANGED <<wifi, counts>>

Owner == Alone(C!Configure) \/ Alone(C!ResetProvisioning)
PortalCloses == Alone(C!PortalCloses)

Next ==
  \/ SwitchOn \/ PowerLoss
  \/ EventTask \/ WifiTask
  \/ \E f \in Firmware \cup Junk : Upload(f)
  \/ PostReset \/ Handler
  \/ Driver \/ LinkLost
  \/ PeerStalls \/ PeerResumes \/ PeerLost
  \/ Owner \/ PortalCloses

Spec == Init /\ [][Next]_vars

\* What Ota and Connection assume; and an attempt to join, made again and
\* again with the right credentials, succeeds in the end.  An uploader that
\* stalls may stay so for ever.
FairSpec ==
  /\ Spec
  /\ WF_vars(SwitchOn)
  /\ WF_vars(EventTask) /\ WF_vars(WifiTask)
  /\ WF_vars(Handler) /\ SF_vars(Receive)
  /\ SF_vars(Driver) /\ SF_vars(Alone(C!JoinSucceeds))
  /\ WF_vars(PortalCloses)

-----------------------------------------------------------------------------
(* Properties.                                                             *)

(* The server and the portal, which a device that restarts may open again, *)
(* never want port 80 at once, wherever a restart or a power loss comes.   *)
PortFree == C!PortFree

(* From the page's "Upload accepted" to the new image on the network: the  *)
(* handler restarts the device, the bootloader finds the image, the wifi   *)
(* task joins again and starts the server, through whatever losses of      *)
(* network and power come in between.  A server that fails to start, or an *)
(* address that comes before the last loss of it is noted, may keep the    *)
(* device away, and so may an owner who resets the provisioning; but it    *)
(* runs the image then too.                                                *)
Arrived(f) ==
  /\ http_pc # "off" /\ O!ImageIn(running) = f
  /\ HasServer \/ faults # {} \/ credentials # "right"

UpdateArrives ==
  \A f \in Firmware : (page = "accepted" /\ upload = f) ~> Arrived(f)

(* http_stop_webserver waits for the handler, and the wifi task with it.   *)
(* If it waits for ever, then for an uploader that has fallen silent for   *)
(* good: whatever else becomes of the upload, the network and the power,   *)
(* the wifi task goes on.                                                  *)
StopReturns == <>[](wifi_pc = "stop") => <>[](peer = "stalled")
=============================================================================
