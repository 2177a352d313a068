-------------------------- MODULE ConnectionProofs --------------------------
(***************************************************************************)
(* Proofs about Connection for every MaxRetry and every set of Faults.     *)
(* PortFree alone is not enough: what keeps the server off port 80 while   *)
(* the portal listens is that the wifi task gets past its wait only when   *)
(* provisioned is set, by _prepare_provisioning before the portal opens or *)
(* by a WIFI_PROV_END that is posted after it closed.                      *)
(***************************************************************************)
EXTENDS Connection, TLAPS

Polling == {"read_got_ip", "clear_got_ip", "read_disconnected",
            "clear_disconnected", "stop"}

\* Whether a queue holds the end of provisioning.
Ends(queue) == \E i \in 1..Len(queue) : queue[i] = "prov_end"

IInv ==
  /\ TypeOK
  /\ pc = "prepare" => /\ portal = "closed" /\ link = "idle"
                       /\ events = << >> /\ ~provisioned
  /\ Ends(events) => portal = "closed" /\ pc # "prepare"
  /\ provisioned => portal = "closed"
  /\ pc \in Polling => provisioned
  /\ http_server => provisioned

-----------------------------------------------------------------------------
(* Posting another event puts no end of provisioning into the queue.       *)
LEMMA PostEnds ==
  ASSUME NEW queue \in Seq(Event), NEW e \in Event
  PROVE  /\ Append(queue, e) \in Seq(Event)
         /\ e # "prov_end" => (Ends(Append(queue, e)) => Ends(queue))
<1>1. Append(queue, e) \in Seq(Event)
  OBVIOUS
<1>2. ASSUME e # "prov_end", NEW i \in 1..Len(Append(queue, e)),
             Append(queue, e)[i] = "prov_end"
      PROVE  i \in 1..Len(queue) /\ queue[i] = "prov_end"
  BY <1>2
<1> QED
  BY <1>1, <1>2 DEF Ends

(* Neither does taking the next event out of it.                           *)
LEMMA TakeEnds ==
  ASSUME NEW queue \in Seq(Event), queue # << >>
  PROVE  /\ Tail(queue) \in Seq(Event)
         /\ Head(queue) = "prov_end" => Ends(queue)
         /\ Ends(Tail(queue)) => Ends(queue)
<1>1. Len(queue) \in Nat /\ Len(queue) >= 1
  OBVIOUS
<1>2. Tail(queue) \in Seq(Event) /\ Len(Tail(queue)) = Len(queue) - 1
  BY <1>1
<1>3. Head(queue) = "prov_end" => Ends(queue)
  BY <1>1 DEF Ends
<1>4. ASSUME NEW i \in 1..Len(Tail(queue)), Tail(queue)[i] = "prov_end"
      PROVE  i + 1 \in 1..Len(queue) /\ queue[i + 1] = "prov_end"
  BY <1>1, <1>2, <1>4
<1> QED
  BY <1>2, <1>3, <1>4 DEF Ends

-----------------------------------------------------------------------------
LEMMA InitIInv == Init => IInv
<1> SUFFICES ASSUME Init PROVE IInv
  OBVIOUS
<1>1. MaxRetry \in Nat \ {0} /\ 0 \in 0..(MaxRetry - 1)
  BY ConnectionAssumption
<1>2. TypeOK
  <2>1. events \in Seq(Event)
    BY DEF Init
  <2> QED
    BY <1>1, <2>1 DEF Init, TypeOK
<1>3. ~Ends(events)
  BY DEF Init, Ends
<1> QED
  BY <1>2, <1>3 DEF Init, IInv, Polling

(* A step that posts at most an event other than the end of provisioning,  *)
(* moves neither the wifi task nor the portal and has no part in           *)
(* provisioned and http_server.                                            *)
LEMMA DriverStep ==
  ASSUME IInv, TypeOK', pc # "prepare",
         UNCHANGED <<pc, portal, provisioned, http_server>>,
         Ends(events') => Ends(events)
  PROVE  IInv'
BY DEF IInv, Ends

LEMMA DriverIInv ==
  ASSUME IInv, Driver \/ LinkLost \/ Configure \/ ResetProvisioning
  PROVE  IInv'
<1>1. TypeOK /\ pc # "prepare"
  BY DEF IInv, Driver, JoinFails, JoinSucceeds, LinkLost, Configure,
         ResetProvisioning
<1>2. events' \in Seq(Event) /\ (Ends(events') => Ends(events))
  <2>1. CASE Driver \/ LinkLost
    <3>1. \E e \in {"disconnected", "got_ip"} : events' = Append(events, e)
      BY <2>1 DEF Driver, JoinFails, JoinSucceeds, LinkLost, Post
    <3> QED
      BY <1>1, <3>1, PostEnds DEF TypeOK, Event
  <2>2. CASE Configure \/ ResetProvisioning
    BY <1>1, <2>2 DEF Configure, ResetProvisioning, driver, TypeOK
  <2> QED
    BY <2>1, <2>2
<1>3. UNCHANGED <<pc, portal, provisioned, http_server>>
  BY DEF Driver, JoinFails, JoinSucceeds, LinkLost, Configure,
         ResetProvisioning, manager, prov, server
<1>4. TypeOK'
  BY <1>1, <1>2, <1>3 DEF TypeOK, Driver, JoinFails, JoinSucceeds, LinkLost,
         Configure, ResetProvisioning, manager, prov, flags, server, driver
<1> QED
  BY <1>1, <1>2, <1>3, <1>4, DriverStep

(* The one event that ends provisioning is posted by a portal that closes. *)
LEMMA PortalClosesIInv == ASSUME IInv, PortalCloses PROVE IInv'
<1>1. TypeOK /\ pc # "prepare"
  BY DEF IInv, PortalCloses
<1>2. events' \in Seq(Event)
  BY <1>1, PostEnds DEF TypeOK, Event, PortalCloses, Post
<1>3. TypeOK'
  BY <1>1, <1>2 DEF TypeOK, PortalCloses, prov, flags, server
<1> QED
  BY <1>1, <1>3 DEF IInv, PortalCloses, prov, server

-----------------------------------------------------------------------------
(* What every handler of the event task does to the queue.                 *)
LEMMA Dispatched ==
  ASSUME IInv, NEW e \in Event, Dispatch(e), NEW forwarded \in Event \ {"prov_end"},
         events' = Tail(events) \/ events' = Append(Tail(events), forwarded)
  PROVE  /\ TypeOK /\ pc # "prepare"
         /\ e = "prov_end" => portal = "closed"
         /\ events' \in Seq(Event)
         /\ Ends(events') => Ends(events)
<1>1. TypeOK /\ events \in Seq(Event) /\ events # << >> /\ Head(events) = e
  BY DEF IInv, TypeOK, Dispatch
<1>2. /\ Tail(events) \in Seq(Event)
      /\ e = "prov_end" => Ends(events)
      /\ Ends(Tail(events)) => Ends(events)
  BY <1>1, TakeEnds
<1>3. events' \in Seq(Event) /\ (Ends(events') => Ends(events))
  BY <1>2, PostEnds
<1> QED
  BY <1>1, <1>2, <1>3 DEF IInv

LEMMA StaStartIInv == ASSUME IInv, StaStart PROVE IInv'
<1>1. /\ TypeOK /\ pc # "prepare"
      /\ events' \in Seq(Event) /\ (Ends(events') => Ends(events))
  BY Dispatched DEF StaStart, Event
<1>2. TypeOK'
  BY <1>1 DEF TypeOK, StaStart, Connect, manager, prov, flags, server
<1> QED
  BY <1>1, <1>2, DriverStep DEF StaStart, manager, prov, server

LEMMA DisconnectedIInv == ASSUME IInv, Disconnected PROVE IInv'
<1>1. /\ TypeOK /\ pc # "prepare"
      /\ events' \in Seq(Event) /\ (Ends(events') => Ends(events))
  BY Dispatched DEF Disconnected, Forward, Event
<1>2. TypeOK'
  BY <1>1 DEF TypeOK, Disconnected, Connect, manager, prov, server
<1> QED
  BY <1>1, <1>2, DriverStep DEF Disconnected, manager, prov, server

(* An address closes no portal: one that was open waits for its end.       *)
LEMMA GotIpIInv == ASSUME IInv, GotIp PROVE IInv'
<1>1. /\ TypeOK /\ pc # "prepare"
      /\ events' \in Seq(Event) /\ (Ends(events') => Ends(events))
  BY Dispatched DEF GotIp, Forward, Event
<1>2. TypeOK'
  BY <1>1 DEF TypeOK, GotIp, prov, server
<1>3. portal = "closed" => portal' = "closed"
  BY DEF GotIp
<1>4. UNCHANGED <<pc, provisioned, http_server>>
  BY DEF GotIp, prov, server
<1> QED
  BY <1>1, <1>2, <1>3, <1>4 DEF IInv, Ends

(* The count of failures starts anew before it gets to MaxRetry.           *)
LEMMA CredFailIInv == ASSUME IInv, CredFail PROVE IInv'
<1>1. /\ TypeOK /\ pc # "prepare"
      /\ events' \in Seq(Event) /\ (Ends(events') => Ends(events))
  BY Dispatched DEF CredFail, Event
<1>2. retries' \in 0..(MaxRetry - 1)
  BY <1>1, ConnectionAssumption DEF CredFail, TypeOK
<1>3. TypeOK'
  BY <1>1, <1>2 DEF TypeOK, CredFail, flags, server
<1> QED
  BY <1>1, <1>3, DriverStep DEF CredFail, server

LEMMA CredSuccessIInv == ASSUME IInv, CredSuccess PROVE IInv'
<1>1. /\ TypeOK /\ pc # "prepare"
      /\ events' \in Seq(Event) /\ (Ends(events') => Ends(events))
  BY Dispatched DEF CredSuccess, Event
<1>2. retries' \in 0..(MaxRetry - 1)
  BY ConnectionAssumption DEF CredSuccess
<1>3. TypeOK'
  BY <1>1, <1>2 DEF TypeOK, CredSuccess, manager, flags, server
<1> QED
  BY <1>1, <1>3, DriverStep DEF CredSuccess, manager, server

(* The handler that sets provisioned runs after the portal closed.         *)
LEMMA ProvEndIInv == ASSUME IInv, ProvEnd PROVE IInv'
<1>1. /\ TypeOK /\ pc # "prepare" /\ portal = "closed"
      /\ events' \in Seq(Event) /\ (Ends(events') => Ends(events))
  BY Dispatched DEF ProvEnd, Event
<1>2. TypeOK'
  BY <1>1 DEF TypeOK, ProvEnd, manager, flags, server
<1> QED
  BY <1>1, <1>2 DEF IInv, ProvEnd, manager, server

LEMMA EventTaskIInv == ASSUME IInv, EventTask PROVE IInv'
BY StaStartIInv, DisconnectedIInv, GotIpIInv, CredFailIInv, CredSuccessIInv,
   ProvEndIInv DEF EventTask

-----------------------------------------------------------------------------
(* The portal opens, or provisioned is set, and never both.                *)
LEMMA PrepareIInv == ASSUME IInv, Prepare PROVE IInv'
<1>1. /\ TypeOK /\ portal = "closed" /\ ~provisioned /\ ~http_server
      /\ events = << >>
  BY DEF IInv, Prepare
<1>2. events' \in Seq(Event) /\ ~Ends(events')
  <2>1. ~Ends(events)
    BY DEF IInv, Prepare
  <2> QED
    BY <1>1, <2>1, PostEnds DEF TypeOK, Event, Prepare, Post
<1>3. TypeOK'
  BY <1>1, <1>2 DEF TypeOK, Prepare, flags, server
<1> QED
  BY <1>1, <1>2, <1>3 DEF IInv, Prepare, Polling, server

\* The steps of the wifi task's loop.
Loop == ReadGotIp \/ ClearGotIp \/ ReadDisconnected \/ ClearDisconnected \/ Stop

(* The loop is entered, and its steps are made, with provisioned set.      *)
LEMMA LoopIInv == ASSUME IInv, Wait \/ Loop PROVE IInv'
<1>1. TypeOK /\ provisioned /\ portal = "closed" /\ pc # "prepare"
  BY DEF IInv, Wait, Loop, ReadGotIp, ClearGotIp, ReadDisconnected,
         ClearDisconnected, Stop, Polling
<1>2. pc' \in Polling
  BY DEF Wait, Loop, ReadGotIp, ClearGotIp, ReadDisconnected,
         ClearDisconnected, Stop, Polling
<1>3. UNCHANGED <<link, events, credentials, portal, retries, provisioned,
                  provisioning_in_progress, handling, faults>>
  BY DEF Wait, Loop, ReadGotIp, ClearGotIp, ReadDisconnected,
         ClearDisconnected, Stop, driver, manager, prov, server
<1>4. handle_event_got_ip_address' \in BOOLEAN
  BY <1>1 DEF TypeOK, Wait, Loop, ReadGotIp, ClearGotIp, ReadDisconnected,
              ClearDisconnected, Stop, flags
<1>5. handle_event_disconnected' \in BOOLEAN
  BY <1>1 DEF TypeOK, Wait, Loop, ReadGotIp, ClearGotIp, ReadDisconnected,
              ClearDisconnected, Stop, flags
<1>6. http_server' \in BOOLEAN
  BY <1>1 DEF TypeOK, Wait, Loop, ReadGotIp, ClearGotIp, ReadDisconnected,
              ClearDisconnected, Stop, server
<1>7. TypeOK'
  BY <1>1, <1>2, <1>3, <1>4, <1>5, <1>6 DEF TypeOK, Polling
<1> QED
  BY <1>1, <1>2, <1>3, <1>7 DEF IInv, Polling, Ends

LEMMA WebServerIInv == ASSUME IInv, Request \/ Respond PROVE IInv'
<1>1. /\ handling' \in BOOLEAN
      /\ UNCHANGED <<pc, link, events, manager, prov, flags, http_server, faults>>
  BY DEF Request, Respond, driver
<1>2. TypeOK'
  BY <1>1 DEF IInv, TypeOK, manager, prov, flags
<1> QED
  BY <1>1, <1>2 DEF IInv, Ends, manager, prov

-----------------------------------------------------------------------------
(* IInv is inductive.                                                      *)
LEMMA NextIInv == ASSUME IInv, [Next]_vars PROVE IInv'
<1>1. CASE UNCHANGED vars
  BY <1>1 DEF vars, driver, manager, prov, flags, server, IInv, TypeOK, Ends
<1>2. CASE Next
  BY <1>2, DriverIInv, PortalClosesIInv, EventTaskIInv, PrepareIInv, LoopIInv,
     WebServerIInv DEF Next, WifiTask, Loop
<1> QED
  BY <1>1, <1>2

LEMMA IInvAlways == Spec => []IInv
BY InitIInv, NextIInv, PTL DEF Spec

(* Every variable keeps its type: the retries of _provisioning_event_handler *)
(* never reach MaxRetry.                                                   *)
THEOREM TypeCorrect == Spec => []TypeOK
<1>1. IInv => TypeOK
  BY DEF IInv
<1> QED
  BY <1>1, IInvAlways, PTL

(* The web server and the provisioning service never share port 80.        *)
THEOREM PortIsFree == Spec => []PortFree
<1>1. IInv => PortFree
  BY DEF IInv, PortFree
<1> QED
  BY <1>1, IInvAlways, PTL
=============================================================================
