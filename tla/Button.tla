------------------------------- MODULE Button -------------------------------
(***************************************************************************)
(* The user button: the loop of app_main in main/main.c, which looks at    *)
(* the button every 100 ms and forgets the network when it was held for    *)
(* ten seconds, and delay_ms of main/utils.c, which it waits with.         *)
(*                                                                         *)
(* Time is the uptime, one unit at a time; floats of seconds are the same  *)
(* number.  The processor may be busy elsewhere whenever the loop could    *)
(* go on.                                                                  *)
(***************************************************************************)
EXTENDS Integers

CONSTANTS
  Ms,         \* a millisecond
  TickMs,     \* milliseconds in a tick of the system
  DelayMs,    \* task_delay_ms
  Hold,       \* ten seconds
  Rearm,      \* an hour
  MaxLate,    \* bound on the time the processor is elsewhere in a round
  MaxUptime   \* bound on the uptime

ASSUME ButtonAssumption ==
  /\ Ms \in Nat \ {0} /\ TickMs \in Nat \ {0} /\ DelayMs \in Nat \ {0}
  /\ Hold \in Nat /\ Rearm \in Nat /\ MaxLate \in Nat /\ MaxUptime \in Nat

Tick == TickMs * Ms
Never == -1

VARIABLES
  uptime,
  pc,          \* "start" and "wait" of the delay, "asleep" in it, then "look"
  stop_time,   \* stop_time_usec of the delay
  wake_tick,   \* the tick vTaskDelay sleeps for
  pressed,     \* the button itself
  button_down_time,
  late,        \* ghost: how long this round had to wait for the processor
  since,       \* ghost: the first of the unbroken looks that saw it down
  last_reset   \* ghost: when provisioning was last reset

ghosts == <<late, since, last_reset>>
delay == <<stop_time, wake_tick>>
vars == <<uptime, pc, delay, pressed, button_down_time, ghosts>>

Time == 0 .. MaxUptime

TypeOK ==
  /\ uptime \in Time
  /\ pc \in {"start", "wait", "asleep", "look"}
  /\ stop_time \in 0 .. MaxUptime + DelayMs * Ms
  /\ wake_tick \in 0 .. (MaxUptime + DelayMs * Ms) \div Tick + 1
  /\ pressed \in BOOLEAN
  /\ button_down_time \in 0 .. MaxUptime + Rearm
  /\ late \in 0 .. MaxLate
  /\ since \in Time \cup {Never} /\ last_reset \in Time \cup {Never}

Init ==
  /\ uptime = 0
  /\ pc = "start"
  /\ stop_time = 0 /\ wake_tick = 0
  /\ pressed \in BOOLEAN
  /\ button_down_time = 0
  /\ late = 0 /\ since = Never /\ last_reset = Never

-----------------------------------------------------------------------------
(* delay_ms.                                                               *)

StartDelay ==
  /\ pc = "start"
  /\ pc' = "wait"
  /\ stop_time' = uptime + DelayMs * Ms
  /\ late' = 0
  /\ UNCHANGED <<uptime, wake_tick, pressed, button_down_time, since,
                 last_reset>>

\* Milliseconds for ticks.
BugDelayTicks == (stop_time - uptime) \div Ms

\* Both divisions drop the rest.
DelayTicks == ((stop_time - uptime) \div Ms) \div TickMs

\* A wait of less than a tick ends at once.
BugSleep ==
  /\ pc = "wait"
  /\ IF uptime < stop_time /\ DelayTicks > 0
       THEN pc' = "asleep" /\ wake_tick' = uptime \div Tick + DelayTicks
       ELSE pc' = "look" /\ UNCHANGED wake_tick
  /\ UNCHANGED <<uptime, stop_time, pressed, button_down_time, ghosts>>

\* Sleep for what is left, at least a tick, and look at the time again.
Sleep ==
  /\ pc = "wait"
  /\ IF uptime < stop_time
       THEN /\ pc' = "asleep"
            /\ wake_tick' = uptime \div Tick
                              + (IF DelayTicks > 0 THEN DelayTicks ELSE 1)
       ELSE pc' = "look" /\ UNCHANGED wake_tick
  /\ UNCHANGED <<uptime, stop_time, pressed, button_down_time, ghosts>>

Due == pc = "asleep" => uptime \div Tick >= wake_tick

Wake ==
  /\ pc = "asleep" /\ Due
  /\ pc' = "wait" /\ wake_tick' = 0
  /\ UNCHANGED <<uptime, stop_time, pressed, button_down_time, ghosts>>

-----------------------------------------------------------------------------
(* The loop of app_main.                                                   *)

Round ==
  /\ pc = "look"
  /\ pc' = "start"
  /\ stop_time' = 0
  /\ since' = CASE ~pressed -> Never
                [] pressed /\ since = Never -> uptime
                [] OTHER -> since
  /\ UNCHANGED <<uptime, wake_tick, pressed, late>>

Press ==
  /\ Round
  /\ pressed
  /\ button_down_time = 0
  /\ button_down_time' = uptime
  /\ UNCHANGED last_reset

\* The press is not moved on: the next look resets again.
BugReset ==
  /\ Round
  /\ pressed
  /\ button_down_time # 0 /\ uptime > button_down_time + Hold
  /\ last_reset' = uptime
  /\ UNCHANGED button_down_time

\* "Resetting provisioning", and not again for an hour.
Reset ==
  /\ Round
  /\ pressed
  /\ button_down_time # 0 /\ uptime > button_down_time + Hold
  /\ button_down_time' = button_down_time + Rearm
  /\ last_reset' = uptime

Held ==
  /\ Round
  /\ pressed
  /\ button_down_time # 0 /\ uptime <= button_down_time + Hold
  /\ UNCHANGED <<button_down_time, last_reset>>

\* An hour's lead is kept over the release.
BugRelease ==
  /\ Round
  /\ ~pressed
  /\ button_down_time' = IF button_down_time > uptime THEN button_down_time
                                                      ELSE 0
  /\ UNCHANGED last_reset

Release ==
  /\ Round
  /\ ~pressed
  /\ button_down_time' = 0
  /\ UNCHANGED last_reset

-----------------------------------------------------------------------------
\* The user presses and releases at will, between two looks too.
Push ==
  /\ pressed' = ~pressed
  /\ UNCHANGED <<uptime, pc, delay, button_down_time, ghosts>>

TimePasses ==
  /\ uptime < MaxUptime
  /\ uptime' = uptime + 1
  /\ IF Due THEN late < MaxLate /\ late' = late + 1 ELSE UNCHANGED late
  /\ UNCHANGED <<pc, delay, pressed, button_down_time, since, last_reset>>

Next ==
  \/ StartDelay \/ Sleep \/ Wake
  \/ Press \/ Reset \/ Held \/ Release
  \/ Push
  \/ TimePasses

Spec == Init /\ [][Next]_vars

-----------------------------------------------------------------------------
(* Properties.                                                             *)

(* delay_ms lasts as long as it was asked to, and no more than a tick      *)
(* longer, as main/utils.h:54 has it, but for the time the processor was   *)
(* busy elsewhere: sleeping for whole ticks, cut off on either side, adds  *)
(* up.                                                                     *)
DelaysAsAsked ==
  pc = "look" => stop_time <= uptime /\ uptime <= stop_time + Tick + late

\* The longest time between two looks.
Gap == DelayMs * Ms + Tick + 2 * MaxLate

(* Provisioning is reset only when every look for more than ten seconds    *)
(* saw the button down, and, while it stays so, not again for an hour less *)
(* the time between two looks.                                             *)
ResetsRarely ==
  [][last_reset' # last_reset =>
       /\ since # Never /\ uptime - since > Hold
       /\ last_reset >= since => uptime - last_reset > Rearm - Gap]_vars

(* A button held long enough does reset it, whatever was pressed, held and *)
(* released before.                                                        *)
HoldingResets ==
  (since # Never /\ uptime - since > Hold + Gap) => last_reset >= since
=============================================================================
