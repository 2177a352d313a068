----------------------------- MODULE Connection -----------------------------
(***************************************************************************)
(* The network connection of main/wifi.c, from power-on: the Wi-Fi driver  *)
(* and the provisioning manager, which post events; the event task, which  *)
(* runs the handlers; and the wifi task, which polls the flags they set    *)
(* and starts and stops the web server.                                    *)
(*                                                                         *)
(* A flag is read in one step and cleared in a later one, since the event  *)
(* task, of higher priority, may run in between.  Init starts with         *)
(* whatever credentials an earlier power-on left in the flash.             *)
(***************************************************************************)
EXTENDS Naturals, Sequences

CONSTANTS
  MaxRetry,  \* CONFIG_EXAMPLE_PROV_MGR_MAX_RETRY_CNT
  Faults     \* what may go wrong, out of
             \*   "fast":        an attempt to join ends before the wifi task
             \*                  has noted that the last one did
             \*   "failed_try":  joining fails while provisioning
             \*   "start_fails": httpd_start returns an error

ASSUME ConnectionAssumption ==
  /\ MaxRetry \in Nat \ {0}
  /\ Faults \subseteq {"fast", "failed_try", "start_fails"}

VARIABLES
  pc,           \* where the wifi task is
  link,         \* the station: "idle", "joining" the access point, or "ip"
  events,       \* posted and not yet handled
  credentials,  \* the access point's, as the provisioning manager holds them
  portal,       \* the provisioning service, which listens on port 80 as well
  retries,
  provisioned,
  provisioning_in_progress,
  handle_event_got_ip_address,
  handle_event_disconnected,
  http_server,  \* whether s_task.http_server is not NULL
  handling,     \* whether the server is in a handler
  faults        \* what goes wrong in this behaviour

driver  == <<link, events>>
manager == <<credentials, portal>>
prov    == <<retries, provisioned, provisioning_in_progress>>
flags   == <<handle_event_got_ip_address, handle_event_disconnected>>
server  == <<http_server, handling>>
vars    == <<pc, driver, manager, prov, flags, server, faults>>

Event == {"sta_start", "disconnected", "got_ip", "cred_fail", "cred_success",
          "prov_end"}

TypeOK ==
  /\ pc \in {"prepare", "wait", "read_got_ip", "clear_got_ip",
             "read_disconnected", "clear_disconnected", "stop"}
  /\ link \in {"idle", "joining", "ip"}
  /\ events \in Seq(Event)
  /\ credentials \in {"none", "right", "wrong"}
  /\ portal \in {"closed", "open", "proven"}
  /\ retries \in 0..(MaxRetry - 1)
  /\ provisioned \in BOOLEAN
  /\ provisioning_in_progress \in BOOLEAN
  /\ handle_event_got_ip_address \in BOOLEAN
  /\ handle_event_disconnected \in BOOLEAN
  /\ http_server \in BOOLEAN
  /\ handling \in BOOLEAN
  /\ faults \subseteq Faults

Init ==
  /\ pc = "prepare"
  /\ link = "idle"
  /\ events = << >>
  /\ credentials \in {"none", "right", "wrong"}
  /\ portal = "closed"
  /\ retries = 0
  /\ provisioned = FALSE
  /\ provisioning_in_progress = FALSE
  /\ handle_event_got_ip_address = FALSE
  /\ handle_event_disconnected = FALSE
  /\ http_server = FALSE
  /\ handling = FALSE
  /\ faults \in SUBSET Faults

-----------------------------------------------------------------------------
(* The Wi-Fi driver and the provisioning manager.                          *)

Post(e) == events' = Append(events, e)

\* Without "fast" the wifi task has noted the last disconnection before an
\* attempt to join ends.  While the portal waits for credentials the
\* wifi task notes nothing.
Noted ==
  "fast" \in faults \/ portal = "open" \/ ~handle_event_disconnected

JoinFails ==
  /\ link = "joining"
  /\ portal = "open" => credentials # "none" /\ "failed_try" \in faults
  /\ Noted
  /\ link' = "idle"
  /\ Post("disconnected")
  /\ UNCHANGED <<pc, manager, prov, flags, server, faults>>

JoinSucceeds ==
  /\ link = "joining"
  /\ credentials = "right"
  /\ Noted
  /\ link' = "ip"
  /\ Post("got_ip")
  /\ UNCHANGED <<pc, manager, prov, flags, server, faults>>

LinkLost ==
  /\ link = "ip"
  /\ link' = "idle"
  /\ Post("disconnected")
  /\ UNCHANGED <<pc, manager, prov, flags, server, faults>>

\* The owner sends credentials to the portal, and the manager joins.  The
\* owner is slower than the event task.
Configure ==
  /\ portal = "open"
  /\ credentials = "none"
  /\ events = << >>
  /\ link # "ip"
  /\ link' = "joining"
  /\ \/ credentials' = "right"
     \/ credentials' = "wrong" /\ "failed_try" \in faults
  /\ UNCHANGED <<pc, events, portal, prov, flags, server, faults>>

\* Some time after the credentials worked the manager ends its service.
PortalCloses ==
  /\ portal = "proven"
  /\ portal' = "closed"
  /\ Post("prov_end")
  /\ UNCHANGED <<pc, link, credentials, prov, flags, server, faults>>

\* wifi_reset_provisioning, the button held for ten seconds: the driver
\* forgets the credentials and keeps its connection, if it has one.  A reset
\* in the middle of provisioning is left out: the manager's answer to it is
\* not in this repository.
ResetProvisioning ==
  /\ pc # "prepare"
  /\ portal # "open"
  /\ credentials' = "none"
  /\ UNCHANGED <<pc, driver, portal, prov, flags, server, faults>>

-----------------------------------------------------------------------------
(* The event task: _wifi_event_handler, _ip_event_handler and, after them, *)
(* the manager's own handler of the same event;                            *)
(* _provisioning_event_handler.                                            *)

Dispatch(e) == events # << >> /\ Head(events) = e

\* The manager, while its portal is open, tells of the outcome of a join.
Forward(e) ==
  events' = IF portal = "open" THEN Append(Tail(events), e) ELSE Tail(events)

\* esp_wifi_connect fails without credentials.
Connect == link' = IF credentials = "none" THEN "idle" ELSE "joining"

\* WIFI_EVENT_STA_START.
StaStart ==
  /\ Dispatch("sta_start")
  /\ events' = Tail(events)
  /\ Connect
  /\ UNCHANGED <<pc, manager, prov, flags, server, faults>>

\* WIFI_EVENT_STA_DISCONNECTED: try again, and tell the wifi task.
Disconnected ==
  /\ Dispatch("disconnected")
  /\ Forward("cred_fail")
  /\ Connect
  /\ handle_event_disconnected' = TRUE
  /\ UNCHANGED <<pc, manager, prov, handle_event_got_ip_address, server,
                 faults>>

\* The handler takes the service for finished when the credentials work.
BugGotIp ==
  /\ Dispatch("got_ip")
  /\ Forward("cred_success")
  /\ portal' = IF portal = "open" THEN "proven" ELSE portal
  /\ handle_event_got_ip_address' = TRUE
  /\ provisioned' = TRUE
  /\ provisioning_in_progress' = FALSE
  /\ UNCHANGED <<pc, link, credentials, retries, handle_event_disconnected,
                 server, faults>>

\* IP_EVENT_STA_GOT_IP.
GotIp ==
  /\ Dispatch("got_ip")
  /\ Forward("cred_success")
  /\ portal' = IF portal = "open" THEN "proven" ELSE portal
  /\ handle_event_got_ip_address' = TRUE
  /\ UNCHANGED <<pc, link, credentials, prov, handle_event_disconnected,
                 server, faults>>

\* The failures are counted, the manager is never reset.
BugCredFail ==
  /\ Dispatch("cred_fail")
  /\ events' = Tail(events)
  /\ retries' = IF retries + 1 >= MaxRetry THEN 0 ELSE retries + 1
  /\ UNCHANGED <<pc, link, manager, provisioned, provisioning_in_progress,
                 flags, server, faults>>

\* One failure too many is counted.
BugCredFailLate ==
  /\ Dispatch("cred_fail")
  /\ events' = Tail(events)
  /\ IF retries >= MaxRetry
       THEN retries' = 0 /\ credentials' = "none"
       ELSE retries' = retries + 1 /\ UNCHANGED credentials
  /\ UNCHANGED <<pc, link, portal, provisioned, provisioning_in_progress,
                 flags, server, faults>>

\* WIFI_PROV_CRED_FAIL: after MaxRetry of them the manager is reset, and
\* waits for credentials again.
CredFail ==
  /\ Dispatch("cred_fail")
  /\ events' = Tail(events)
  /\ IF retries + 1 >= MaxRetry
       THEN retries' = 0 /\ credentials' = "none"
       ELSE retries' = retries + 1 /\ UNCHANGED credentials
  /\ UNCHANGED <<pc, link, portal, provisioned, provisioning_in_progress,
                 flags, server, faults>>

\* WIFI_PROV_CRED_SUCCESS.
CredSuccess ==
  /\ Dispatch("cred_success")
  /\ events' = Tail(events)
  /\ retries' = 0
  /\ UNCHANGED <<pc, link, manager, provisioned, provisioning_in_progress,
                 flags, server, faults>>

\* WIFI_PROV_END.
ProvEnd ==
  /\ Dispatch("prov_end")
  /\ events' = Tail(events)
  /\ provisioning_in_progress' = FALSE
  /\ provisioned' = TRUE
  /\ UNCHANGED <<pc, link, manager, retries, flags, server, faults>>

-----------------------------------------------------------------------------
(* The wifi task.                                                          *)

\* _prepare_provisioning: open the portal, unless there are credentials.
\* Both ways start the station.
Prepare ==
  /\ pc = "prepare"
  /\ pc' = "wait"
  /\ Post("sta_start")
  /\ provisioned' = (credentials # "none")
  /\ provisioning_in_progress' = (credentials = "none")
  /\ portal' = IF credentials = "none" THEN "open" ELSE portal
  /\ UNCHANGED <<link, credentials, retries, flags, server, faults>>

Wait ==
  /\ pc = "wait"
  /\ provisioned
  /\ pc' = "read_got_ip"
  /\ UNCHANGED <<driver, manager, prov, flags, server, faults>>

\* Both halves of _handle_wifi_connection_changes, each a read of its flag,
\* then its clearing and the action.
ReadGotIp ==
  /\ pc = "read_got_ip"
  /\ pc' = IF ~provisioning_in_progress /\ handle_event_got_ip_address
             THEN "clear_got_ip" ELSE "read_disconnected"
  /\ UNCHANGED <<driver, manager, prov, flags, server, faults>>

\* http_start_webserver is called only when no server runs.
ClearGotIp ==
  /\ pc = "clear_got_ip"
  /\ pc' = "read_disconnected"
  /\ handle_event_got_ip_address' = FALSE
  /\ \/ http_server' = TRUE
     \/ "start_fails" \in faults /\ UNCHANGED http_server
  /\ UNCHANGED <<driver, manager, prov, handle_event_disconnected, handling,
                 faults>>

ReadDisconnected ==
  /\ pc = "read_disconnected"
  /\ pc' = IF handle_event_disconnected THEN "clear_disconnected" ELSE "read_got_ip"
  /\ UNCHANGED <<driver, manager, prov, flags, server, faults>>

\* The server is left running.
BugClearDisconnected ==
  /\ pc = "clear_disconnected"
  /\ pc' = "read_got_ip"
  /\ handle_event_disconnected' = FALSE
  /\ UNCHANGED <<driver, manager, prov, handle_event_got_ip_address, server,
                 faults>>

ClearDisconnected ==
  /\ pc = "clear_disconnected"
  /\ pc' = IF http_server THEN "stop" ELSE "read_got_ip"
  /\ handle_event_disconnected' = FALSE
  /\ UNCHANGED <<driver, manager, prov, handle_event_got_ip_address, server,
                 faults>>

\* Both flags are cleared once the server is down.
BugStop ==
  /\ pc = "stop"
  /\ ~handling
  /\ pc' = "read_got_ip"
  /\ http_server' = FALSE
  /\ handle_event_got_ip_address' = FALSE
  /\ handle_event_disconnected' = FALSE
  /\ UNCHANGED <<driver, manager, prov, handling, faults>>

\* http_stop_webserver returns when the server's task has ended.
Stop ==
  /\ pc = "stop"
  /\ ~handling
  /\ pc' = "read_got_ip"
  /\ http_server' = FALSE
  /\ UNCHANGED <<driver, manager, prov, flags, handling, faults>>

-----------------------------------------------------------------------------
(* The web server, as far as stopping it depends on it.                    *)

Request ==
  /\ http_server
  /\ link = "ip"
  /\ pc # "stop"
  /\ ~handling
  /\ handling' = TRUE
  /\ UNCHANGED <<pc, driver, manager, prov, flags, http_server, faults>>

Respond ==
  /\ handling
  /\ handling' = FALSE
  /\ UNCHANGED <<pc, driver, manager, prov, flags, http_server, faults>>

-----------------------------------------------------------------------------
Driver == JoinFails \/ JoinSucceeds

EventTask ==
  \/ StaStart \/ Disconnected \/ GotIp \/ CredFail \/ CredSuccess \/ ProvEnd

WifiTask ==
  \/ Prepare \/ Wait
  \/ ReadGotIp \/ ClearGotIp \/ ReadDisconnected \/ ClearDisconnected \/ Stop

Next ==
  \/ Driver \/ LinkLost
  \/ Configure \/ PortalCloses
  \/ ResetProvisioning
  \/ EventTask
  \/ WifiTask
  \/ Request \/ Respond

Spec == Init /\ [][Next]_vars

\* Both tasks always run again, an attempt to join ends one way or the other,
\* and the manager ends its service.  Whether a handler returns is up to its
\* client (HandlerReturns of Ota).
FairSpec ==
  /\ Spec
  /\ WF_vars(EventTask)
  /\ WF_vars(WifiTask)
  /\ SF_vars(Driver)
  /\ WF_vars(PortalCloses)

-----------------------------------------------------------------------------
(* Properties.                                                             *)

(* The web server and the provisioning service both want port 80: the      *)
(* wifi task never starts the one while the other runs.                    *)
PortFree == http_server => portal = "closed"

(* A station that keeps its address gets its web server.                   *)
AlwaysServed == link = "ip" ~> (http_server \/ link # "ip")

(* It does when nothing goes wrong on the way, over any number of losses   *)
(* of the network and resets of the provisioning.                          *)
Served == (faults = {} /\ link = "ip") ~> (http_server \/ link # "ip")

(* A station that lost its address loses its web server, so that the next  *)
(* address finds it restarted, unless it is to join no network any more or *)
(* httpd_stop waits for a handler that never returns.                      *)
Stopped ==
  link # "ip" ~>
    \/ ~http_server \/ link = "ip" \/ credentials = "none"
    \/ [](pc = "stop" /\ handling)

(* Provisioning never hangs: credentials sent to the portal work, or are   *)
(* given up and asked for again.                                           *)
ProvisioningRecovers ==
  (portal = "open" /\ credentials # "none") ~> (portal # "open" \/ credentials = "none")
=============================================================================
