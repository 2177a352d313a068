# Verification of the ESP32 "Ota-via-HTTP" firmware

TLA+ models of the firmware in `src/main`, the TLC configurations that check
them on small instances, and TLAPS proofs of what matters most. Every definition
is translated from the C source; `PROJECT.json` maps it to its lines. Paths below
are relative to `src/`.

## 1. Inventory

The firmware runs on an ESP32 under FreeRTOS with a 10 ms tick. Its tasks share
memory and call each other's functions directly. `app_main` (`main/main.c:31`)
starts the debug task, the nvm task, the wifi task and the application task, and
then polls the button itself. The ESP-IDF adds the event task, which runs the
event handlers of `wifi.c`, and the httpd task, which runs every handler of
`http.c`, one at a time.

| part | code | state | operations |
|---|---|---|---|
| over-the-air update | `main/http.c`, `partitions.csv` | three application partitions, the boot selection, the update in progress | POST /ota, POST /reset, `http_init`, start and stop of the server |
| network connection | `main/wifi.c` 89-329, 524-527 | provisioning state, two event flags, `http_server` | Wi-Fi, IP and provisioning events; `_prepare_provisioning`; `_handle_wifi_connection_changes` |
| log ring | `main/debug.c` | a 4096-byte ring, a read index per drain, `drains[]` | `print`, `debug_reserve`, `debug_rewind`, `debug_release`, `debug_clear`, a round of `_debug_task` |
| remote log | `main/wifi.c` 332-498 | nine sockets, a drain handle per socket, a queue of ten messages | accept and serve a socket, queue a message, send the queue |
| parameters | `main/nvm.c` | values, the flag `nvm_params_updated`, the flash | get and set, a pass of `_nvm_task` |
| button | `main/main.c` 47-73 | since when the button is down | a pass of the loop of `app_main` |
| utilities | `main/utils.c` | static buffers | delays, durations, string replacement |
| web pages | `main/http.c` 45-170, `main/application.c` | static buffers | GET and POST of `/`, GET of `/ota` and `/reset` |
| application, hardware | `main/application.c`, `main/hardware.c` | - | blink a LED |
| MQTT | `main/mqtt.c` | - | none: `mqtt_init` and `mqtt_do_work` are commented out |

How they interact:

- the wifi task starts and stops the web server (`wifi.c:257`, `268`) on flags
  the event task sets (`wifi.c:161`, `181`); stopping waits for the running handler;
- every task calls `print`, which fills the ring under the mutex; the debug task
  drains it under the same mutex, and calls `_debug_drain` of `wifi.c` for a socket,
  which queues messages that only the wifi task takes out;
- the wifi task reserves and releases drains; release takes no mutex;
- the button resets the credentials the network connection will start from;
- the pages read parameters and time strings.

What is hard, and what makes each part correct:

| part | hard behaviour | correct when |
|---|---|---|
| over-the-air update | any call fails after earlier ones succeeded; power loss at any step; stalled and broken connections; a lost reply | a whole image always boots; an update happens entirely or not at all; what is served is what boots; no update is left open |
| network connection | flags that keep no order; reads and clears with the event task in between; a wifi task blocked in `httpd_stop`; failed provisioning | a connected device serves, a disconnected one stops, port 80 has one owner, provisioning never hangs |
| log ring | wrap and overrun, with readers coming and going; release without the mutex | a reader gets the bytes in order, and misses only what was overwritten; rewinding loses nothing kept; only drains are called |
| remote log | slots, handles and sockets out of step; orderly close; full queue and send buffers | an open socket has one handle of its own and gets its own bytes; a closed one frees both |
| parameters | failed open, write or commit; power loss before the flush | a set value reaches the flash and is what the next start reads |
| button | long presses, presses between two looks | a ten-second hold resets provisioning, nothing else does, and not again for an hour |
| utilities | sleeping in whole ticks | delays last as long as asked, and at most a tick longer |

`PROJECT.json` lists the hazards one by one, at their lines, each with the
properties that watch it, or with the reason why none does.

## 2. The modules

| module | what it is | lines of code it stands for |
|---|---|---|
| `FirmwareUpdate` | abstract: what an update promises | - |
| `Ota` | the upload and reset handlers, the partitions, power | `main/http.c` 113-137, 172-251, 284-296, 330-418 |
| `MCOta` | a small instance of `Ota` | - |
| `OtaProofs` | proofs about `Ota` | - |
| `Connection` | driver, provisioning manager, event task and wifi task | `main/wifi.c` 89-272, 275-329, 524-527 |
| `ConnectionProofs` | proofs about `Connection` | - |
| `Device` | `Ota` and `Connection` as one device | `main/http.c` 330-401, `main/wifi.c` 45-70, 205-272 |
| `MCDevice` | a small instance of `Device` | - |
| `DeviceProofs` | proofs about `Device` | - |
| `LogStream` | abstract: what a reader of the log is promised | - |
| `LogRing` | the ring, its drains and the debug task | `main/debug.c` 15-305 |
| `LogRingProofs` | proofs about `LogRing` | - |
| `Telnet` | the log's TCP clients: wifi task, debug task, the queue between them | `main/wifi.c` 224-237, 332-498, `main/debug.c` 78-195 |
| `TelnetProofs` | proofs about `Telnet` | - |
| `Parameters` | abstract: a store that is written and later durable | - |
| `Nvm` | the parameter table, its mutex and flags, the nvm task, the flash | `main/nvm.c` 38-304 |
| `MCNvm` | a small instance of `Nvm` | - |
| `NvmProofs` | proofs about `Nvm` | - |
| `Button` | the loop of `app_main`, and `delay_ms` | `main/main.c` 45-72, `main/utils.c` 132-162 |
| `ButtonProofs` | proofs about `Button` | - |

Definitions named `Bug...` are plausible defects. No definition uses them; the
mutants in `PROJECT.json` put one in the place of the definition next to it, and
the property it stands for must then fail.

### Ota

`pc` is the place of the httpd task in `_ota_post_handler`, from `"begin"`
(`esp_ota_get_next_update_partition`, `esp_ota_begin`) through the receive loop
to `esp_ota_end`, `esp_ota_set_boot_partition`, the reply and `esp_restart`, or
to `return_failure`. Every call that can fail is a disjunct of its action. The
OTA library, the bootloader and the peer's TCP connection are external: `slot`
is what a partition holds, `boot` what otadata selects, `session` whether the
library has an update open. `PowerLoss` may come at any step, and loses what RAM
held. `sdkconfig` leaves rollback off, so that `http_init` has no effect.

### Connection

One action per event the handlers react to, and one per step of the wifi task.
Reading a flag and clearing it are separate steps, because the event task has the
higher priority and may run in between. `link`, `portal` and `credentials` are
the driver and the manager as the code depends on them. `Faults` says which of
the misfortunes the environment may produce.

### LogRing

A step handles one byte. `left > 0` means that a `print` holds the mutex; `pc` in
`"check"` or `"take"` means that the debug task does. `debug_release` runs in
between, as it does in the code. A byte is its number since start-up, so the
ring's contents show whether a reader gets the right one. Waiting for the mutex
takes as long as it takes here; the 10-tick time-outs are in `Telnet`. Before
`debug_clear` the ring has length 0, and what is printed is lost: that window is
in the model.

### Telnet

`wifi` is the place of the wifi task in a round of its loop: accept, reserve a
drain and store its handle (two steps, since the debug task may run in between),
serve the sockets, closing the broken ones in three steps, then send what is
queued. `debug` is the place of the debug task in a round of its own, which holds
the mutex from `"pick"` on: find the slot of a drain, read its socket, queue the
message. `sockets` and `debug_handles` are shared without a lock, as in the code.
Of the ring only `unread` is left, whether a drain has something to read; what
the ring does is `LogRing`'s. A wait for the mutex or the queue ends after ten
ticks (`Expired`): `print` then prints nothing to the drains, `debug_reserve`
returns -1, and a message that finds no room is dropped. A client may stop
reading (`"stalled"`: `send` finds its buffer full), close in order (`"left"`:
`recv` returns 0 and nothing happens, until something is sent and answered with a
reset) or break. Descriptors are numbers that are given out again, lowest first.

### Nvm and Parameters

One action per call of `_update_nvm` to the flash, each with its errors: open,
read an entry, write back one that is missing or differs, commit. `pc` is the place
of the nvm task. `Set` is any other task's set of a parameter, under the mutex.
NVS keeps what `nvs_set` wrote once the call returns, so the flash survives a
power loss with whatever was written. `Parameters` is the store the interface of
`nvm.h` suggests: a value that is set is what is read from then on, and at some later
moment becomes durable. It excuses the starts in which a call to the flash failed.

Two things the model makes plain, beyond the violation below: a failed write is
not tried again until some other parameter is set, and the value of a key that was
never written is then overwritten by its default, in RAM too.

### Button

Time passes a unit at a time, and may pass while the task waits for the processor
(`late`). `delay_ms` sleeps for whole ticks, rounded down but at least one, and
looks again. The loop reads the button, not its history: a release and a press
between two looks is one long press to it, so `since` counts looks. The floats
hold seconds, exactly as long as their 24 bits reach (half a year to the second).

### Device

`Ota` and `Connection` are instances over one set of variables. Starting the
server, stopping it, the start and end of a handler, and a restart are joint steps;
everything else is a step of one of them. `http_server` of `Connection` and
whether a handler runs follow from the place of the httpd task. Losing the network
stalls the upload that was coming over it, and power loss and `esp_restart` put
`Connection` back to its start, except for the credentials in the flash.
`httpd_start` may fail here too (`StartServer`): the device then goes on without a
server.

## 3. The runs

| run | specification | checks | result |
|---|---|---|---|
| `ota` | `FairSpec` | `TypeOK`, `BootSafe`, `AcceptedIsInstalled`, `ServesWhatBoots`, `NoSessionLeak`, `LiveSlotsUntouched`, that `Ota` implements `FirmwareUpdate` (`UpdatesAtomically`), `AcceptedRuns`, `HandlerReturns` | holds |
| `ota_rejected` | `Spec` | `RejectedMeansKept`: "Upload rejected!" means that the device keeps its image | violated |
| `connection` | `FairSpec`, every set of faults | `TypeOK`, `PortFree`, `ProvisioningRecovers`, `Stopped`; without faults `Served` | holds |
| `connection_failed_try` | `FairSpec`, `"failed_try"` | `AlwaysServed` | violated |
| `device` | `FairSpec`, `"start_fails"` | `TypeOK`, `PortFree`, `UpdateArrives`, `StopReturns` | holds |
| `log_ring` | `FairSpec` | `TypeOK`, `NullIsLast`, `Intact`, that `LogRing` implements `LogStream` (`ReadersGetTheStream`), `UartCatchesUp` | holds |
| `log_ring_null` | `Spec` | `NoNullCall` | violated |
| `telnet` | `FairSpec` | `TypeOK`, `MatchingSocket`, `DrainsOwned`, `OwnConnection`, `Rounds`, `NoClientStarves`, `Reclaimed` | holds |
| `telnet_stalled` | `TasksRun` | `Rounds` | violated |
| `nvm` | `Spec` | `TypeOK`, `NotOvercounted`, `NoStartLost`, `CleanMeansSaved`, `Saved`, and that `Nvm` implements `Parameters` (`ImplementsParameters`) | holds |
| `nvm_open_fails` | `Spec` | `BootCountKept` | violated |
| `button` | `Spec` | `TypeOK`, `DelaysAsAsked`, `HoldingResets`, `ResetsRarely` | holds |

### What the violations show

- `ota_rejected`: the boot selection changes before the reply is sent
  (`main/http.c:227`, `233`). If the connection breaks in between, the page says
  "Upload rejected!" (`main/http.c:131`) of an image the device restarts into.
- `connection_failed_try`: a failed attempt during provisioning leaves
  `handle_event_disconnected` set. Once provisioned, one pass of
  `_handle_wifi_connection_changes` starts the server and then stops it for the
  old disconnection; a connected device is without its web server until it loses
  the network again. The same comes of a disconnection and a reconnection between
  two passes of the wifi task (`"fast"`), and of an error of `httpd_start`, which
  nothing retries (`"start_fails"`).
- `log_ring_null`: `debug_release` clears `drains[idx]` between the debug task's
  check (`main/debug.c:94`) and its call (`main/debug.c:99`).
- `telnet_stalled`: the clients' sockets are non-blocking, but `_write_to_socket`
  tries again at once for as long as a client's buffer is full. A client that
  stays connected and does not read keeps the wifi task there for ever. Each try
  also moves the start of what is sent one byte back, before the message.
- `nvm_open_fails`: one start has counted itself, and the flash holds its 1.
  At the next start `nvs_open` fails once; the parameters keep the compiled-in -1
  (`main/nvm.c:44`), the first pass counts as done all the same (`main/nvm.c:201`),
  the start counts itself as number 0 (`main/nvm.c:277`), and the next update
  writes the 0 over the 1 (`main/nvm.c:161-164`).

Two more that no run shows, because the properties of the passing runs leave them
out on purpose:

- Without the exception of a stalled peer `StopReturns` is violated
  (`wifi_pc = "stop" ~> ~HasServer`), even with no faults. An uploader falls silent in
  the middle of an upload, its connection neither delivers nor breaks, and the
  network goes. The handler retries its receive without limit
  (`main/http.c:204`), `httpd_stop` waits for the handler, and the wifi task waits in
  `httpd_stop` (`main/wifi.c:268`) for ever: it handles no address, no disconnection
  and no client of the log any more.
- A message of the log may reach the wrong client. `_debug_drain` reads the number
  of a client's socket and queues it (`main/wifi.c:395`, `405`). If the wifi task
  closes that socket before the message is queued, but after it has emptied the
  queue in that round, its next round accepts a client first (`main/wifi.c:442`) and
  sends afterwards: the new client may have been given the same number. No time-out
  is needed, only a debug task that is held up between reading the number and
  queueing it. In `Telnet`, a step may take a number in `queue` from `"free"` to
  `"up"` in `conn`.

Read, but not run: the comment at `main/utils.c:137` promises a yield for a delay
of 0, which the `while` below it does not give; `delay_blocking_s` multiplies by
100 * 100 for microseconds. Nothing calls either.

### Bounds

- `MCOta`: two images, of three and two pieces, a file that is no image and an
  empty one. Two images tell the running one from the uploaded one, different
  lengths tell a longer image's remains from a whole one, and nothing in `Ota`
  counts further.
  Uploads and restarts are not bounded: the state space is finite without.
- `Connection`: `MaxRetry = 5` as in the code. The event queue is bounded
  without a constant: a new attempt to join starts only when the last one's event is
  handled, and the owner who sends new credentials (`Configure`) is slower than the
  event task.
- `LogRing`: `Size = 4`, so that `MaxBytes = 7` wraps the ring and overruns a
  reader by a whole round; four drains, for the null drain, the UART and two
  sockets; chunks of two bytes and messages of up to two, so that chunks and
  messages both straddle the wrap. The proofs below have none of these bounds.
- `Nvm`: two ints, one of them the boot count, and a float; at most two starts
  (`MaxStarts`) and one set in each (`MaxSets`). Two starts are what it takes
  to count one in the other's flash; the errors of the flash are not bounded.
- `Telnet`: two slots for two clients, two descriptors, a queue of one message,
  so that slots, descriptors and queue are all full at times; four drains, of which
  two are for sockets. Clients stop reading once (`MaxStalls`), and `to_write`
  grows by one at most (`MaxBack`): it has no part in the control flow but whether
  it reaches 0. The other tasks print once in a round of the wifi task (`printed`).
- `Device`: two images of one piece each, because what a longer one leaves behind
  is `Ota`'s; the network and the power are each lost once; `MaxRetry = 1`. Of the
  faults only `"start_fails"` is in the run: `"fast"` and `"failed_try"`, which end
  in the same place, a connected device without a server, are in that of
  `Connection`.
- `Button`: a delay of two ticks and a half, so that it is cut off at either end; a
  hold of a delay and a half, and an hour of six delays, so that two resets in one
  hold, and a release in the hour after one, fit into `MaxUptime`.

Deadlock is checked in every run.

### Fairness

- `Ota`: the httpd task goes on, because FreeRTOS shares the processor and every
  call of the handler but the receive returns. A receive that times out is
  retried without limit (`main/http.c:204`), and nothing makes a stalled peer
  resume or break: `HandlerReturns` says that an upload ends unless its uploader
  is silent for good, and so that nothing else can hang the handler. `Receive`
  is strongly fair: a connection that keeps stalling and resuming still delivers.
- `Connection`: both tasks go on; an attempt to join ends one way or the other,
  and succeeds if it may succeed again and again (strong fairness: the driver
  retries on every disconnection); the manager ends its service. Nothing makes
  a handler return, the network fail or the owner act: `Stopped` excepts the
  `httpd_stop` that waits for a handler for ever.
- `Device`: as `Ota` and `Connection`; and an attempt to join, made again and
  again with the right credentials, succeeds in the end (`UpdateArrives` asks for
  the network to be there). A stalled uploader may stay stalled here too:
  `StopReturns` says that this is all that can hold the wifi task in `httpd_stop`
  for ever. `UpdateArrives` begins with the
  reply, when nothing is left to receive. It asks that the device runs the image in
  any case, and that it serves unless `httpd_start` failed, an address came before
  the loss of the last one was noted, or the owner changed the credentials.
- `Telnet`: both tasks go on (`TasksRun`). `FairSpec` adds that a client that
  stalls reads on or breaks, which nothing in the code ensures: `telnet_stalled`
  is the run without. A task that prints without pause could keep the wifi task
  from ever finding the queue empty (`main/wifi.c:231`); the model assumes that
  nobody does (`printed`).
- `Nvm`: the nvm task goes on.
- `LogRing`: the debug task goes on and a `print` is finished. Nothing makes
  anyone print, connect or disconnect.

## 4. What is proved

All proofs are for every value of the constants, under the named assumptions of
the modules (`OtaAssumption`, `ConnectionAssumption`, `LogRingAssumption`,
`NvmAssumption`, `TelnetAssumption`, `ButtonAssumption`, `DeviceAssumption`),
which say no more than what kind of thing each constant is and which of them are
not zero, and which TLC evaluates. Every invariant and every action property that
a passing run checks is a theorem. Each `IInv` below was checked by TLC on the
run's instance, and on others, before it was proved.

**`OtaProofs`** proves `TypeOK`, `BootSafe`, `AcceptedIsInstalled`,
`ServesWhatBoots`, `NoSessionLeak`, `LiveSlotsUntouched`, and that `Ota`
implements `FirmwareUpdate`: all the `ota` run checks, for any set of files of any
length. None of the invariants is inductive alone. That the image about to be
selected is whole needs to know what each place of the handler has established:
the target is the slot beside the running one, nothing else writes to it, and it
holds as many pieces as were received. The inductive invariant says so place by
place, and each action is one step of the proof.

**`ConnectionProofs`** proves `TypeOK` and `PortFree` for every limit of retries and
every set of faults. `PortFree` is not inductive: `http_start_webserver` does not
ask whether the portal is there. What keeps them apart is that the wifi task
leaves its wait only with `provisioned` set, and that `provisioned` is set either
before a portal could open or by a `WIFI_PROV_END`, which no queue holds before
the portal has closed. The invariant is about the queue as well, hence the two
lemmas on posting to it and taking from it.

**`LogRingProofs`** proves `TypeOK`, `NullIsLast`, `Intact` and the implementation
of `LogStream`, for every buffer size, number of drains and chunk size. The
argument measures every index by how far it is behind `fill_idx` (`Behind`,
`Gap`). Filling in a byte puts everyone one further behind, up to `Size - 1`
(`GapPush`); taking one puts the reader one nearer (`GapTake`). `NullIsLast` is
not inductive: that a rewind goes to the oldest byte kept needs `NullIsOldest`,
how far the null drain is behind in terms of the bytes written, and that the
debug task never takes on behalf of the null drain. The refinement maps `next` of
a reader to `written` less the distance, so that overrun and rewind become those
of the stream.

**`NvmProofs`** proves `TypeOK`, `NotOvercounted`, `NoStartLost` and
`CleanMeansSaved`, for any table of parameters, any set of faults and any number of
starts, and that `Nvm` implements `Parameters` but for its fairness. A power loss
may come between any two lines of `_update_nvm`, and the flash then holds any of
the values written since the last commit (`possible`); so the invariants speak of
all of them, at every place of the loop. `Place` says which flags hold where, among
them that every update but the first runs with the mutex. `Counting` and `Settled`
bound what `possible` may hold for the boot counter, from above and from below: the
counter is loaded, counted up in RAM and written back by different passes, and a
start settles only when a commit follows its write. `Faithful` is what
`CleanMeansSaved` needs: as long as no call failed, the entries the loop has passed
are what RAM holds, those before it what they were, and an update set meanwhile
leaves the flag up. In the refinement a flush is a step of the promise where it
writes and a stutter elsewhere.

**`TelnetProofs`** proves `TypeOK`, `MatchingSocket`, `DrainsOwned` and
`OwnConnection` for any number of slots, drains, descriptors and messages.
`debug_handles` is never cleared, so a closed slot goes on naming a drain that
`debug_reserve` may have given to another client since; `_debug_drain` takes the
first slot that names it. `MatchingSocket` says that this is the slot of the client it reads for, at
the moment it looks. What it does with it afterwards is not covered, and cannot be
(section 3). It holds for two reasons, the inductive
`Distinct` and `AtSlot`: clients that are served never share a drain, and a handle
is stored in the first free slot, below which every slot is open and so names
another drain. `InTransit` covers the two moments at which a drain is in no slot:
between `debug_reserve` and the store of its result, and between close and
`debug_release`. The debug task, the clients and the tasks that print take part in
none of it (`QuietStep`), although they run between any two of these steps.

**`ButtonProofs`** proves `TypeOK`, `DelaysAsAsked`, `HoldingResets` and
`ResetsRarely`, for any length of a tick, a delay, the hold and the pause, whatever
they divide, and any lateness of the processor. The delay rests on what the two
divisions drop being less than a tick (`TicksFit`): the tick a sleep ends in begins
at most a tick after the delay should end, and only time the processor was
elsewhere comes on top (`Sleeps`). From that follows how far two looks are apart,
`Gap`; hence that a press is answered within `Hold` and `Gap` (`OnTime`), and that
a reset moves `button_down_time` to no less than `Rearm - Hold - Gap` after itself
(`Paused`). With a `Rearm` shorter than `Gap`, which the constants allow, the
second half of `ResetsRarely` says only that a reset is later than the last one.

**`DeviceProofs`** proves `TypeOK` and takes the theorems of the parts over to the
device. Every step of `Device` is one of `Ota` or leaves it alone, by the way
`Device` is written (the lemma `ImplementsOta`); so the theorems of `OtaProofs` hold
for the device: `FlashIsSafe` is `BootSafe`, and `UpdatesInOneStep` is that the
device as a whole implements `FirmwareUpdate`, the wifi task, the driver and the
power included.
`Device` does not implement `Connection`, which knows neither restarts nor power
losses. `PortStaysFree`, the `PortFree` of the run, takes its inductive invariant
all the same: every step of the device is one of `Connection`, leaves it alone, or
takes it back to its beginning (`StepOfConnection`), where the invariant holds,
because a device that is off has no server (`GoneIInv`).

Only model-checked:

- the liveness properties (`AcceptedRuns`, `HandlerReturns`, `Served`, `Stopped`,
  `ProvisioningRecovers`, `UartCatchesUp`, `UpdateArrives`, `StopReturns`, `Rounds`,
  `NoClientStarves`, `Reclaimed`, `Saved`), which are beyond the prover;
- the fairness of `Parameters` in `ImplementsParameters`, for the same reason: its
  initial states and its steps are proved.

## 5. Plan

Modelled and checked: every part of the firmware with state of its own. Left:

1. What `print` does when the mutex is not to be had (`main/debug.c:189-195`): the
   message goes to stdout past the ring, from a static buffer two tasks may be
   filling.
2. What the remote log promises a client, as an abstract specification of `Telnet`
   beside `LogStream`, and that `Telnet` implements it.

## 6. Not modelled

- The web pages (GET and POST of `/`, GET of `/ota` and `/reset`): they format text
  and compare a header, and leave no state for the next request. The static
  buffers they fill are the httpd task's alone, but for the one of
  `get_system_time_str` (`main/utils.c:27`), which the NTP callback fills too.
- MQTT: `mqtt_init` and `mqtt_do_work` are commented out in `main/wifi.c`.
- The LED and the application task: they keep no state but the LED's.
- `nvm_reset`, `print_no_ts`, `str_replace_inplace`, the offset functions, and the
  delays other than `delay_ms`: nothing calls them.
- NTP and mDNS: started once, and asked for nothing but the time of day.
- The ESP-IDF itself, which appears only as the environment of the code.
