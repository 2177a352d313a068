---------------------------- MODULE DeviceProofs ----------------------------
(***************************************************************************)
(* Proofs about Device.  What OtaProofs and ConnectionProofs prove of each *)
(* half is used of the whole: their theorems, instantiated as Device       *)
(* instantiates the modules they are about, need the steps of Device to be *)
(* steps of the halves.  Of Ota all are.  Of Connection all are but a      *)
(* restart and a loss of power, which Connection does not know and which   *)
(* take it back to where it began.                                         *)
(***************************************************************************)
EXTENDS Device, TLAPS

OP == INSTANCE OtaProofs WITH pc <- http_pc

CP == INSTANCE ConnectionProofs WITH
        pc <- wifi_pc, http_server <- HasServer, handling <- InHandler

Bounds == losses \in 0 .. MaxLosses /\ cuts \in 0 .. MaxCuts

-----------------------------------------------------------------------------
(* The web server, the handlers and the flash.                             *)

(* Every step of the device is one of Ota, or leaves Ota alone.            *)
LEMMA StepOfOta == [Next]_vars => [O!Next]_(O!vars)
<1> SUFFICES ASSUME [Next]_vars PROVE [O!Next]_(O!vars)
  OBVIOUS
<1>1. ASSUME UNCHANGED httpd PROVE UNCHANGED O!vars
  BY <1>1 DEF httpd, O!vars, O!flash, O!request, O!updating, O!client
<1>2. CASE UNCHANGED vars
  BY <1>1, <1>2 DEF vars
<1>3. CASE SwitchOn \/ PowerLoss \/ Restart
  BY <1>3 DEF SwitchOn, PowerLoss, Restart, O!Next, O!Handler
<1>4. CASE EventTask \/ Driver \/ Owner \/ PortalCloses
  BY <1>1, <1>4 DEF EventTask, Driver, Owner, PortalCloses, Alone
<1>5. CASE WifiTask
  BY <1>1, <1>5 DEF WifiTask, Alone, StartServer, StopServer, O!Next
<1>6. CASE (\E f \in Firmware \cup Junk : Upload(f)) \/ PostReset
  BY <1>6 DEF Upload, PostReset, O!Next, O!File
<1>7. CASE Handler
  BY <1>3, <1>7 DEF Handler, Receive, O!Next, O!Handler, O!Receive
<1>8. CASE LinkLost \/ PeerStalls \/ PeerResumes \/ PeerLost
  BY <1>1, <1>8 DEF LinkLost, PeerStalls, PeerResumes, PeerLost, O!Next, O!Peer
<1> QED
  BY <1>2, <1>3, <1>4, <1>5, <1>6, <1>7, <1>8 DEF Next

(* Whatever the wifi task, the driver, the owner and the power do, the     *)
(* server, its handlers and the flash do only what Ota allows.             *)
LEMMA ImplementsOta == Spec => O!Spec
<1>1. Init => O!Init
  BY DEF Init
<1> QED
  BY <1>1, StepOfOta, PTL DEF Spec, O!Spec

(* OtaProofs speaks of the same Ota: its definitions are spelt out.        *)
LEMMA SameOta ==
  /\ O!Init => OP!Init
  /\ [O!Next]_(O!vars) => [OP!Next]_(OP!vars)
<1>1. O!vars = OP!vars /\ (O!vars)' = (OP!vars)'
  BY
  DEF O!vars, OP!vars, O!flash, OP!flash, O!request, OP!request, O!updating,
      OP!updating, O!client, OP!client
<1>2. O!Init => OP!Init
  BY DEF O!Init, OP!Init, O!Partition, OP!Partition
<1> USE
  DEF O!vars, OP!vars, O!flash, OP!flash, O!request, OP!request, O!updating,
      OP!updating, O!client, OP!client
<1>3. /\ O!SwitchOn => OP!SwitchOn
      /\ O!ServerUp => OP!ServerUp
      /\ O!ServerDown => OP!ServerDown
      /\ O!PostReset => OP!PostReset
  BY
  DEF O!SwitchOn, OP!SwitchOn, O!ServerUp, OP!ServerUp, O!ServerDown,
      OP!ServerDown, O!PostReset, OP!PostReset
<1>4. (O!PowerLoss => OP!PowerLoss) /\ (O!Restart => OP!Restart)
  BY
  DEF O!PowerLoss, OP!PowerLoss, O!Restart, OP!Restart, O!GoDown, OP!GoDown,
      O!HandlerGone, OP!HandlerGone, O!Broken, OP!Broken, O!Filled, OP!Filled,
      O!Written, OP!Written
<1>5. (\E f \in O!File : O!PostOta(f)) => \E f \in OP!File : OP!PostOta(f)
  BY
  DEF O!File, OP!File, O!PostOta, OP!PostOta
<1>6. O!Receive => OP!Receive
  BY
  DEF O!Receive, OP!Receive, O!RecvChunk, OP!RecvChunk, O!RecvWriteFails,
      OP!RecvWriteFails, O!RecvTimeout, OP!RecvTimeout, O!RecvError,
      OP!RecvError, O!Filled, OP!Filled, O!Written, OP!Written
<1>7. O!Handler => OP!Handler
  BY <1>4, <1>6
  DEF O!Handler, OP!Handler, O!Begin, OP!Begin, O!NextUpdate, OP!NextUpdate,
      O!RecvDone, OP!RecvDone, O!End, OP!End, O!Whole, OP!Whole, O!Written,
      OP!Written, O!SetBoot, OP!SetBoot, O!Reply, OP!Reply, O!ReturnFailure,
      OP!ReturnFailure, O!HandlerGone, OP!HandlerGone, O!Broken, OP!Broken
<1>8. O!Peer => OP!Peer
  BY
  DEF O!Peer, OP!Peer, O!PeerStalls, OP!PeerStalls, O!PeerResumes,
      OP!PeerResumes, O!PeerLost, OP!PeerLost, O!Broken, OP!Broken
<1>9. O!Next => OP!Next
  BY <1>3, <1>4, <1>5, <1>7, <1>8 DEF O!Next, OP!Next
<1> QED
  BY <1>1, <1>2, <1>9

LEMMA OtaKeepsItsInvariant == Spec => []OP!IInv
<1>1. Init => O!Init
  BY DEF Init
<1>2. OP!Spec => []OP!IInv
  BY DeviceAssumption, OP!Invariance DEF OP!File
<1> QED
  BY <1>1, <1>2, StepOfOta, SameOta, PTL DEF Spec, OP!Spec

-----------------------------------------------------------------------------
(* The network connection.                                                 *)

\* Connection begins anew, without a server.
Gone == ConnectionGone /\ http_pc' = "off"

\* The steps of a handler that neither end it nor restart the device.
Inside ==
  \/ Receive
  \/ /\ O!Begin \/ O!RecvDone \/ O!End \/ O!SetBoot \/ O!Reply
     /\ UNCHANGED <<wifi, counts>>

(* They do not change whether there is a server, or whether it is in a     *)
(* handler; nor does switching on, or what becomes of the uploader.        *)
LEMMA ServerStays ==
  ASSUME SwitchOn \/ Inside \/ PeerStalls \/ PeerResumes \/ PeerLost
  PROVE  UNCHANGED C!vars
<1>1. HasServer' = HasServer /\ InHandler' = InHandler
  <2>1. CASE SwitchOn
    BY <2>1 DEF SwitchOn, O!SwitchOn, HasServer, InHandler
  <2>2. CASE Receive
    BY <2>2
    DEF Receive, O!RecvChunk, O!RecvWriteFails, O!RecvError, HasServer,
        InHandler
  <2>3. CASE O!Begin \/ O!RecvDone \/ O!End \/ O!SetBoot \/ O!Reply
    BY <2>3
    DEF O!Begin, O!RecvDone, O!End, O!SetBoot, O!Reply, HasServer, InHandler
  <2>4. CASE PeerStalls \/ PeerResumes \/ PeerLost
    BY <2>4
    DEF PeerStalls, PeerResumes, PeerLost, O!PeerStalls, O!PeerResumes,
        O!PeerLost, HasServer, InHandler
  <2> QED
    BY <2>1, <2>2, <2>3, <2>4 DEF Inside
<1>2. UNCHANGED wifi
  BY DEF SwitchOn, Inside, Receive, PeerStalls, PeerResumes, PeerLost
<1> QED
  BY <1>1, <1>2 DEF wifi, C!vars, C!driver, C!manager, C!prov, C!flags, C!server

LEMMA StepOfConnection == [Next]_vars => [C!Next]_(C!vars) \/ Gone
<1> SUFFICES ASSUME [Next]_vars PROVE [C!Next]_(C!vars) \/ Gone
  OBVIOUS
<1>1. CASE UNCHANGED vars
  BY <1>1 DEF vars, httpd, wifi, HasServer, InHandler, C!vars, C!driver,
              C!manager, C!prov, C!flags, C!server
<1>2. CASE SwitchOn \/ Inside \/ PeerStalls \/ PeerResumes \/ PeerLost
  BY <1>2, ServerStays
<1>3. CASE PowerLoss \/ Restart
  BY <1>3 DEF PowerLoss, Restart, O!PowerLoss, O!Restart, O!GoDown, Gone
<1>4. CASE EventTask \/ Driver \/ Owner \/ PortalCloses \/ LinkLost
  BY <1>4
  DEF EventTask, Driver, Owner, PortalCloses, LinkLost, Alone, C!Next
<1>5. CASE WifiTask
  BY <1>5 DEF WifiTask, Alone, StartServer, StopServer, C!Next, C!WifiTask
<1>6. CASE (\E f \in Firmware \cup Junk : Upload(f)) \/ PostReset
  BY <1>6 DEF Upload, PostReset, C!Next
<1>7. CASE Handler
  BY <1>2, <1>3, <1>7 DEF Handler, Inside, C!Next
<1> QED
  BY <1>1, <1>2, <1>3, <1>4, <1>5, <1>6, <1>7 DEF Next

(* ConnectionProofs speaks of the same Connection.                         *)
LEMMA SameConnection ==
  /\ C!Init => CP!Init
  /\ [C!Next]_(C!vars) => [CP!Next]_(CP!vars)
<1>1. C!vars = CP!vars /\ (C!vars)' = (CP!vars)'
  BY
  DEF C!vars, CP!vars, C!driver, CP!driver, C!manager, CP!manager, C!prov,
      CP!prov, C!flags, CP!flags, C!server, CP!server
<1>2. C!Init => CP!Init
  BY DEF C!Init, CP!Init
<1> USE
  DEF C!vars, CP!vars, C!driver, CP!driver, C!manager, CP!manager, C!prov,
      CP!prov, C!flags, CP!flags, C!server, CP!server
<1>3. (C!Driver \/ C!LinkLost) => (CP!Driver \/ CP!LinkLost)
  BY
  DEF C!Driver, CP!Driver, C!JoinFails, CP!JoinFails, C!JoinSucceeds,
      CP!JoinSucceeds, C!LinkLost, CP!LinkLost, C!Noted, CP!Noted, C!Post,
      CP!Post
<1>4. /\ C!Configure => CP!Configure
      /\ C!ResetProvisioning => CP!ResetProvisioning
      /\ C!PortalCloses => CP!PortalCloses
  BY
  DEF C!Configure, CP!Configure, C!ResetProvisioning, CP!ResetProvisioning,
      C!PortalCloses, CP!PortalCloses, C!Post, CP!Post
<1>5. C!EventTask => CP!EventTask
  BY
  DEF C!EventTask, CP!EventTask, C!StaStart, CP!StaStart, C!Disconnected,
      CP!Disconnected, C!GotIp, CP!GotIp, C!CredFail, CP!CredFail,
      C!CredSuccess, CP!CredSuccess, C!ProvEnd, CP!ProvEnd, C!Dispatch,
      CP!Dispatch, C!Forward, CP!Forward, C!Connect, CP!Connect
<1>6. C!WifiTask => CP!WifiTask
  BY
  DEF C!WifiTask, CP!WifiTask, C!Prepare, CP!Prepare, C!Wait, CP!Wait,
      C!ReadGotIp, CP!ReadGotIp, C!ClearGotIp, CP!ClearGotIp,
      C!ReadDisconnected, CP!ReadDisconnected, C!ClearDisconnected,
      CP!ClearDisconnected, C!Stop, CP!Stop, C!Post, CP!Post
<1>7. (C!Request => CP!Request) /\ (C!Respond => CP!Respond)
  BY
  DEF C!Request, CP!Request, C!Respond, CP!Respond
<1>8. C!Next => CP!Next
  BY <1>3, <1>4, <1>5, <1>6, <1>7 DEF C!Next, CP!Next
<1> QED
  BY <1>1, <1>2, <1>8

(* A device that is off has closed the portal and stopped the server.      *)
LEMMA GoneIInv == ASSUME CP!IInv, Gone PROVE CP!IInv'
<1>1. CP!TypeOK' /\ ~HasServer'
  <2>1. << >> \in Seq(CP!Event) /\ 0 \in 0 .. (MaxRetry - 1)
    BY DeviceAssumption
  <2>2. HasServer' = FALSE /\ InHandler' = FALSE
    BY DEF Gone, HasServer, InHandler
  <2> QED
    BY <2>1, <2>2 DEF Gone, ConnectionGone, CP!IInv, CP!TypeOK
<1>2. ~CP!Ends(events)'
  BY DEF CP!Ends, Gone, ConnectionGone
<1> QED
  BY <1>1, <1>2 DEF CP!IInv, CP!Polling, Gone, ConnectionGone

LEMMA ConnectionKeepsItsInvariant == Spec => []CP!IInv
<1>1. Init => CP!IInv
  <2>1. CP!Init => CP!IInv
    BY DeviceAssumption, CP!InitIInv
  <2> QED
    BY <2>1, SameConnection DEF Init
<1>2. CP!IInv /\ [Next]_vars => CP!IInv'
  <2>1. CP!IInv /\ [CP!Next]_(CP!vars) => CP!IInv'
    BY DeviceAssumption, CP!NextIInv
  <2> QED
    BY <2>1, StepOfConnection, SameConnection, GoneIInv
<1> QED
  BY <1>1, <1>2, PTL DEF Spec

-----------------------------------------------------------------------------
LEMMA BoundsKept == Spec => []Bounds
<1>1. Init => Bounds
  BY DeviceAssumption DEF Init, Bounds
<1>2. Bounds /\ [Next]_vars => Bounds'
  <2> SUFFICES ASSUME Bounds, [Next]_vars PROVE Bounds'
    OBVIOUS
  <2>1. /\ UNCHANGED losses \/ (losses < MaxLosses /\ losses' = losses + 1)
        /\ UNCHANGED cuts \/ (cuts < MaxCuts /\ cuts' = cuts + 1)
    BY DEF Next, vars, counts, SwitchOn, PowerLoss, EventTask, WifiTask, Alone,
           StartServer, StopServer, Upload, PostReset, Handler, Receive,
           Restart,
           Driver, LinkLost, PeerStalls, PeerResumes, PeerLost, Owner,
           PortalCloses
  <2> QED
    BY <2>1, DeviceAssumption DEF Bounds
<1> QED
  BY <1>1, <1>2, PTL DEF Spec

(* Every variable of both halves keeps its type, across restarts and       *)
(* losses of power and of the network.                                     *)
THEOREM TypeCorrect == Spec => []TypeOK
<1>1. OP!IInv => O!TypeOK
  BY DEF OP!IInv, OP!TypeOK, O!TypeOK, O!Partition, OP!Partition, O!File,
         OP!File
<1>2. CP!IInv => C!TypeOK
  BY DEF CP!IInv, CP!TypeOK, C!TypeOK, C!Event, CP!Event
<1> QED
  BY <1>1, <1>2, OtaKeepsItsInvariant, ConnectionKeepsItsInvariant, BoundsKept,
     PTL DEF TypeOK, Bounds

(* Whatever the wifi task, the driver and the owner do while an update is  *)
(* written, power lost at any moment finds a partition that boots.         *)
THEOREM FlashIsSafe == Spec => []O!BootSafe
<1>1. OP!IInv => O!BootSafe
  BY DEF OP!IInv, O!BootSafe, O!Whole, OP!Whole
<1> QED
  BY <1>1, OtaKeepsItsInvariant, PTL

(* The whole device, the network included, updates in one step.            *)
THEOREM UpdatesInOneStep == Spec => OP!UpdatesAtomically
<1>1. Init => O!Init
  BY DEF Init
<1>2. OP!Spec => OP!UpdatesAtomically
  BY DeviceAssumption, OP!Refinement DEF OP!File
<1> QED
  BY <1>1, <1>2, StepOfOta, SameOta, PTL DEF Spec, OP!Spec

(* The server and the portal never want port 80 at once, though restarts   *)
(* take the connection back to its beginning at any moment.                *)
THEOREM PortStaysFree == Spec => []PortFree
<1>1. CP!IInv => PortFree
  BY DEF CP!IInv, PortFree, C!PortFree
<1> QED
  BY <1>1, ConnectionKeepsItsInvariant, PTL
=============================================================================
