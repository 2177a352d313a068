---------------------------- MODULE ButtonProofs ----------------------------
(***************************************************************************)
(* Proofs about Button for every length of a tick, a delay, the hold and   *)
(* the pause, and however long the processor is elsewhere.                 *)
(*                                                                         *)
(* The delay: a sleep for whole ticks ends no more than a tick after the   *)
(* delay should, because what the divisions drop is less than a tick       *)
(* (Sleeps).  The loop: a look comes at most Gap after the one before, so  *)
(* a press is never older than Hold and Gap and still not answered         *)
(* (OnTime), and a reset moves button_down_time on by all of Rearm but     *)
(* what the look was late (Paused).                                        *)
(***************************************************************************)
EXTENDS Button, TLAPS

Asked == DelayMs * Ms

Delaying == {"wait", "asleep", "look"}

\* The delay that runs.
Sleeps ==
  /\ pc \in Delaying => /\ uptime <= stop_time + Tick + late
                        /\ Asked <= stop_time
  /\ pc = "asleep" => wake_tick * Tick <= stop_time + Tick
  /\ pc = "look" => stop_time <= uptime

\* A reset is older than the delay that runs.
ResetBefore ==
  /\ last_reset <= uptime
  /\ pc \in Delaying => last_reset + Asked <= stop_time

\* button_down_time is the first look that saw the button down, until a reset.
Presses ==
  /\ since = Never <=> button_down_time = 0
  /\ since # Never => since <= button_down_time /\ since <= uptime
  /\ since # Never /\ last_reset < since => button_down_time = since

\* The last look was no later than ten seconds after button_down_time.
OnTime ==
  since # Never /\ (last_reset < since \/ Gap <= Rearm) =>
    /\ pc = "start" => uptime <= button_down_time + Hold + late
    /\ pc \in Delaying =>
         stop_time <= button_down_time + Hold + MaxLate + Asked

\* Since a reset button_down_time is ahead of it.
Paused ==
  since # Never /\ last_reset >= since /\ Gap <= Rearm =>
    last_reset + Rearm <= button_down_time + Hold + Gap

IInv == TypeOK /\ Sleeps /\ ResetBefore /\ Presses /\ OnTime /\ Paused

-----------------------------------------------------------------------------
(* Division drops a rest that is less than the divisor.                    *)
LEMMA Division ==
  ASSUME NEW x \in Nat, NEW y \in Nat \ {0}
  PROVE  /\ x \div y \in Nat
         /\ (x \div y) * y <= x
         /\ x < (x \div y) * y + y
OBVIOUS

LEMMA Multiples ==
  ASSUME NEW a \in Int, NEW b \in Int, NEW c \in Nat \ {0}
  PROVE  /\ a <= b => a * c <= b * c
         /\ a * c < b * c => a < b
OBVIOUS

LEMMA Constants ==
  /\ Tick \in Nat \ {0} /\ Asked \in Nat \ {0}
  /\ Gap = Asked + Tick + 2 * MaxLate /\ Gap \in Nat
  /\ Hold \in Nat /\ Rearm \in Nat /\ MaxLate \in Nat /\ MaxUptime \in Nat
<1>1. \A a, b \in Nat \ {0} : a * b \in Nat \ {0}
  OBVIOUS
<1>2. Tick \in Nat \ {0} /\ Asked \in Nat \ {0}
  BY <1>1, ButtonAssumption DEF Tick, Asked
<1> QED
  BY <1>2, ButtonAssumption DEF Gap, Asked

(* The ticks of a sleep are no longer than what is left of the delay.      *)
LEMMA TicksFit ==
  ASSUME uptime \in Nat, stop_time \in Nat, uptime <= stop_time
  PROVE  DelayTicks \in Nat /\ DelayTicks * Tick <= stop_time - uptime
<1> DEFINE left == stop_time - uptime
           ms == left \div Ms
<1>1. left \in Nat
  OBVIOUS
<1>2. ms \in Nat /\ ms * Ms <= left
  BY <1>1, Division, ButtonAssumption
<1>3. DelayTicks \in Nat /\ DelayTicks * TickMs <= ms
  <2> HIDE DEF ms
  <2>1. DelayTicks = ms \div TickMs
    BY DEF DelayTicks, ms
  <2> QED
    BY <1>2, <2>1, Division, ButtonAssumption
<1> HIDE DEF ms, left
<1>4. (DelayTicks * TickMs) * Ms <= ms * Ms
  BY <1>2, <1>3, Multiples, ButtonAssumption
<1>5. (DelayTicks * TickMs) * Ms = DelayTicks * Tick
  BY <1>3, ButtonAssumption DEF Tick
<1>6. DelayTicks * Tick \in Int /\ ms * Ms \in Int
  BY <1>2, <1>3, ButtonAssumption, Constants
<1> QED
  BY <1>1, <1>2, <1>3, <1>4, <1>5, <1>6 DEF left

(* The bounds of TypeOK.                                                   *)
WakeBound == (MaxUptime + Asked) \div Tick + 1

LEMMA WakeFits ==
  ASSUME NEW n \in Nat, n * Tick <= MaxUptime + Asked + Tick
  PROVE  n \in 0 .. WakeBound
<1> DEFINE most == (MaxUptime + Asked) \div Tick
<1>1. MaxUptime + Asked \in Nat
  BY Constants
<1>2. most \in Nat /\ MaxUptime + Asked < most * Tick + Tick
  BY <1>1, Division, Constants
<1> HIDE DEF most
<1>3. (most + 2) * Tick = most * Tick + Tick + Tick
  BY <1>2, Constants
<1>4. n * Tick < (most + 2) * Tick
  <2>1. n * Tick \in Int /\ most * Tick \in Int
    BY <1>2, Constants
  <2> QED
    BY <1>1, <1>2, <1>3, <2>1, Constants
<1>5. n < most + 2
  BY <1>2, <1>4, Multiples, Constants
<1> QED
  BY <1>2, <1>5 DEF WakeBound, most

Typed ==
  /\ uptime \in 0 .. MaxUptime
  /\ pc \in {"start", "wait", "asleep", "look"}
  /\ stop_time \in 0 .. MaxUptime + Asked
  /\ wake_tick \in 0 .. WakeBound
  /\ pressed \in BOOLEAN
  /\ button_down_time \in 0 .. MaxUptime + Rearm
  /\ late \in 0 .. MaxLate
  /\ since \in (0 .. MaxUptime) \cup {Never}
  /\ last_reset \in (0 .. MaxUptime) \cup {Never}

LEMMA Types ==
  /\ TypeOK <=> Typed
  /\ TypeOK' <=> Typed'
BY DEF TypeOK, Typed, Time, WakeBound, Asked

LEMMA InitIInv == Init => IInv
<1> SUFFICES ASSUME Init PROVE IInv
  OBVIOUS
<1>1. TypeOK
  <2>1. 0 \in 0 .. WakeBound
    BY WakeFits, Constants
  <2> QED
    BY <2>1, Types, Constants DEF Init, Typed
<1> QED
  BY <1>1, Constants
  DEF Init, IInv, Sleeps, ResetBefore, Presses, OnTime, Paused, Delaying, Never

-----------------------------------------------------------------------------
(* The delay.                                                              *)

LEMMA StartDelayIInv == ASSUME IInv, StartDelay PROVE IInv'
<1>1. /\ pc = "start" /\ pc' = "wait" /\ stop_time' = uptime + Asked /\ late' = 0
      /\ UNCHANGED <<uptime, wake_tick, pressed, button_down_time, since,
                     last_reset>>
  BY DEF StartDelay, Asked
<1>2. TypeOK'
  BY <1>1, Types, Constants DEF IInv, Typed
<1>3. Sleeps' /\ ResetBefore'
  BY <1>1, Types, Constants
  DEF IInv, Typed, Sleeps, ResetBefore, Delaying, Never
<1>4. Presses' /\ Paused'
  BY <1>1 DEF IInv, Presses, Paused
<1>5. OnTime'
  BY <1>1, Types, Constants DEF IInv, Typed, OnTime, Delaying
<1> QED
  BY <1>2, <1>3, <1>4, <1>5 DEF IInv

LEMMA SleepIInv == ASSUME IInv, Sleep PROVE IInv'
<1>1. /\ pc = "wait" /\ pc' \in {"asleep", "look"}
      /\ UNCHANGED <<uptime, stop_time, pressed, button_down_time, late, since,
                     last_reset>>
  BY DEF Sleep, ghosts
<1>2. /\ uptime \in 0 .. MaxUptime /\ stop_time \in 0 .. MaxUptime + Asked
      /\ wake_tick \in 0 .. WakeBound
  BY Types DEF IInv, Typed
<1>3. pc' = "asleep" => wake_tick' \in Nat /\ wake_tick' * Tick <= stop_time + Tick
  <2> SUFFICES ASSUME uptime < stop_time,
                      wake_tick' = uptime \div Tick
                                     + (IF DelayTicks > 0 THEN DelayTicks ELSE 1)
               PROVE  wake_tick' \in Nat /\ wake_tick' * Tick <= stop_time + Tick
    BY DEF Sleep
  <2>1. DelayTicks \in Nat /\ DelayTicks * Tick <= stop_time - uptime
    BY <1>2, TicksFit
  <2> DEFINE now == uptime \div Tick
  <2>2. now \in Nat /\ now * Tick <= uptime
    BY <1>2, Division, Constants
  <2> HIDE DEF now
  <2>3. PICK ticks \in Nat : /\ wake_tick' = now + ticks
                            /\ ticks * Tick <= stop_time - uptime + Tick
    <3>1. CASE DelayTicks > 0
      <4>1. DelayTicks * Tick \in Int
        BY <2>1, Constants
      <4>2. DelayTicks * Tick <= stop_time - uptime + Tick
        BY <1>2, <2>1, <4>1, Constants
      <4> QED
        BY <2>1, <3>1, <4>2 DEF now
    <3>2. CASE ~(DelayTicks > 0)
      <4>1. 1 * Tick <= stop_time - uptime + Tick
        BY <1>2, Constants
      <4> QED
        BY <2>1, <3>2, <4>1 DEF now
    <3> QED
      BY <3>1, <3>2
  <2>4. wake_tick' * Tick = now * Tick + ticks * Tick
    BY <2>2, <2>3, Constants
  <2>5. now * Tick \in Int /\ ticks * Tick \in Int
    BY <2>2, <2>3, Constants
  <2> QED
    BY <1>2, <2>2, <2>3, <2>4, <2>5, Constants
<1>4. wake_tick' \in 0 .. WakeBound
  <2>1. CASE pc' = "asleep"
    <3>1. wake_tick' * Tick <= MaxUptime + Asked + Tick
      <4>1. wake_tick' * Tick \in Int
        BY <1>3, <2>1, Constants
      <4> QED
        BY <1>2, <1>3, <2>1, <4>1, Constants
    <3> QED
      BY <1>3, <2>1, <3>1, WakeFits
  <2>2. CASE pc' # "asleep"
    BY <1>2, <2>2 DEF Sleep
  <2> QED
    BY <2>1, <2>2
<1>5. pc' = "look" => stop_time <= uptime
  BY <1>2 DEF Sleep
<1>6. TypeOK'
  BY <1>1, <1>4, Types DEF IInv, Typed
<1>7. Sleeps'
  BY <1>1, <1>3, <1>5 DEF IInv, Sleeps, Delaying
<1>8. ResetBefore' /\ Presses' /\ OnTime' /\ Paused'
  BY <1>1 DEF IInv, ResetBefore, Presses, OnTime, Paused, Delaying
<1> QED
  BY <1>6, <1>7, <1>8 DEF IInv

LEMMA WakeIInv == ASSUME IInv, Wake PROVE IInv'
<1>1. /\ pc = "asleep" /\ pc' = "wait" /\ wake_tick' = 0
      /\ UNCHANGED <<uptime, stop_time, pressed, button_down_time, late, since,
                     last_reset>>
  BY DEF Wake, ghosts
<1>2. 0 \in 0 .. WakeBound
  BY WakeFits, Constants
<1>3. TypeOK'
  BY <1>1, <1>2, Types DEF IInv, Typed
<1>4. Sleeps' /\ ResetBefore' /\ Presses' /\ OnTime' /\ Paused'
  BY <1>1 DEF IInv, Sleeps, ResetBefore, Presses, OnTime, Paused, Delaying
<1> QED
  BY <1>3, <1>4 DEF IInv

LEMMA PushIInv == ASSUME IInv, Push PROVE IInv'
<1>1. /\ pressed \in BOOLEAN => pressed' \in BOOLEAN
      /\ UNCHANGED <<uptime, pc, stop_time, wake_tick, button_down_time, late,
                     since, last_reset>>
  BY DEF Push, delay, ghosts
<1>2. TypeOK'
  BY <1>1, Types DEF IInv, Typed
<1>3. Sleeps' /\ ResetBefore' /\ Presses' /\ OnTime' /\ Paused'
  BY <1>1 DEF IInv, Sleeps, ResetBefore, Presses, OnTime, Paused, Delaying
<1> QED
  BY <1>2, <1>3 DEF IInv

(* Who sleeps and is not due is within the delay and a tick; else the time *)
(* counts as late.                                                         *)
LEMMA TimePassesIInv == ASSUME IInv, TimePasses PROVE IInv'
<1>1. /\ uptime < MaxUptime /\ uptime' = uptime + 1
      /\ UNCHANGED <<pc, stop_time, wake_tick, pressed, button_down_time, since,
                     last_reset>>
      /\ \/ late < MaxLate /\ late' = late + 1
         \/ ~Due /\ late' = late
  BY DEF TimePasses, delay
<1>2. /\ uptime \in 0 .. MaxUptime /\ stop_time \in 0 .. MaxUptime + Asked
      /\ wake_tick \in Nat /\ late \in 0 .. MaxLate
      /\ wake_tick \in 0 .. WakeBound
  <2>1. wake_tick \in 0 .. WakeBound => wake_tick \in Nat
    OBVIOUS
  <2> QED
    BY <2>1, Types DEF IInv, Typed
<1>3. TypeOK'
  BY <1>1, <1>2, Types, Constants DEF IInv, Typed
<1>4. ~Due => uptime + 1 <= stop_time + Tick
  <2> SUFFICES ASSUME ~Due PROVE uptime + 1 <= stop_time + Tick
    OBVIOUS
  <2> DEFINE now == uptime \div Tick
  <2>1. /\ pc = "asleep" /\ now < wake_tick
    <3>1. now \in Nat
      BY <1>2, Division, Constants
    <3> QED
      BY <1>2, <3>1 DEF Due
  <2>2. now \in Nat /\ uptime < now * Tick + Tick
    BY <1>2, Division, Constants
  <2> HIDE DEF now
  <2>3. now + 1 <= wake_tick
    BY <1>2, <2>1, <2>2
  <2>4. (now + 1) * Tick <= wake_tick * Tick
    BY <1>2, <2>2, <2>3, Multiples, Constants
  <2>5. (now + 1) * Tick = now * Tick + Tick /\ now * Tick \in Int
        /\ wake_tick * Tick \in Int
    BY <1>2, <2>2, Constants
  <2>6. wake_tick * Tick <= stop_time + Tick
    BY <2>1 DEF IInv, Sleeps
  <2> QED
    BY <1>2, <2>2, <2>4, <2>5, <2>6, Constants
<1>5. Sleeps'
  <2>1. ~Due => pc = "asleep"
    BY DEF Due
  <2>2. pc \in Delaying => uptime' <= stop_time + Tick + late'
    BY <1>1, <1>2, <1>4, Constants DEF IInv, Sleeps
  <2>3. pc = "look" => stop_time <= uptime'
    BY <1>1, <1>2, Constants DEF IInv, Sleeps
  <2> QED
    BY <1>1, <2>2, <2>3 DEF IInv, Sleeps
<1>6. ~Due => pc # "start"
  BY DEF Due
<1>7. /\ button_down_time \in 0 .. MaxUptime + Rearm
      /\ since \in (0 .. MaxUptime) \cup {Never}
      /\ last_reset \in (0 .. MaxUptime) \cup {Never}
  BY Types DEF IInv, Typed
<1>8. ResetBefore' /\ Presses'
  BY <1>1, <1>2, <1>7, Constants DEF IInv, ResetBefore, Presses, Never
<1>9. OnTime'
  BY <1>1, <1>2, <1>6, <1>7, Constants DEF IInv, OnTime
<1>10. Paused'
  BY <1>1 DEF IInv, Paused
<1> QED
  BY <1>3, <1>5, <1>8, <1>9, <1>10 DEF IInv

-----------------------------------------------------------------------------
(* The loop.                                                               *)

\* What a look finds.
Looking ==
  /\ uptime \in Nat /\ uptime <= MaxUptime /\ uptime # 0
  /\ button_down_time \in Nat /\ late \in Nat /\ late <= MaxLate
  /\ since \in Nat \/ since = Never
  /\ last_reset \in Nat \/ last_reset = Never
  /\ last_reset < uptime
  /\ since # Never /\ (last_reset < since \/ Gap <= Rearm) =>
       uptime <= button_down_time + Hold + Gap

LEMMA LookingNow == ASSUME IInv, pc = "look" PROVE Looking
<1>1. /\ uptime \in 0 .. MaxUptime /\ stop_time \in 0 .. MaxUptime + Asked
      /\ button_down_time \in 0 .. MaxUptime + Rearm /\ late \in 0 .. MaxLate
      /\ since \in (0 .. MaxUptime) \cup {Never}
      /\ last_reset \in (0 .. MaxUptime) \cup {Never}
  BY Types DEF IInv, Typed
<1>2. /\ Asked <= stop_time /\ stop_time <= uptime
      /\ uptime <= stop_time + Tick + late
      /\ last_reset + Asked <= stop_time
  BY DEF IInv, Sleeps, ResetBefore, Delaying
<1>3. since # Never /\ (last_reset < since \/ Gap <= Rearm) =>
        stop_time <= button_down_time + Hold + MaxLate + Asked
  BY DEF IInv, OnTime, Delaying
<1>4. \/ last_reset \in Nat
      \/ last_reset = -1 /\ last_reset = Never
  BY <1>1, Constants DEF Never
<1>5. last_reset < uptime
  BY <1>1, <1>2, <1>4, Constants
<1>6. \A b \in Nat :
        stop_time <= b + Hold + MaxLate + Asked => uptime <= b + Hold + Gap
  BY <1>1, <1>2, Constants
<1> QED
  BY <1>1, <1>2, <1>3, <1>4, <1>5, <1>6, Constants DEF Looking

(* What all four ways of a look share.                                     *)
LEMMA RoundIInv ==
  ASSUME IInv, Round,
         button_down_time' \in 0 .. MaxUptime + Rearm,
         last_reset' = last_reset \/ last_reset' = uptime,
         Presses', OnTime', Paused'
  PROVE  IInv'
<1>1. /\ pc = "look" /\ pc' = "start" /\ stop_time' = 0
      /\ UNCHANGED <<uptime, wake_tick, pressed, late>>
      /\ since' \in {Never, uptime, since}
  BY DEF Round
<1>2. Looking
  BY <1>1, LookingNow
<1>3. TypeOK'
  <2>1. uptime \in 0 .. MaxUptime /\ 0 \in 0 .. MaxUptime + Asked
    BY <1>2, Constants DEF Looking
  <2>2. /\ since' \in (0 .. MaxUptime) \cup {Never}
        /\ last_reset' \in (0 .. MaxUptime) \cup {Never}
    BY <1>1, <2>1, Types DEF IInv, Typed
  <2> QED
    BY <1>1, <2>1, <2>2, Types DEF IInv, Typed
<1>4. Sleeps' /\ ResetBefore'
  BY <1>1, <1>2 DEF Sleeps, ResetBefore, Delaying, Looking, Never
<1> QED
  BY <1>3, <1>4 DEF IInv

LEMMA PressIInv == ASSUME IInv, Press PROVE IInv'
<1>1. /\ Round /\ pc = "look" /\ pc' = "start" /\ since = Never
      /\ button_down_time' = uptime /\ since' = uptime
      /\ UNCHANGED <<uptime, late, last_reset>>
  BY DEF Press, Round, IInv, Presses
<1>2. Looking
  BY <1>1, LookingNow
<1>3. Presses' /\ OnTime' /\ Paused'
  BY <1>1, <1>2, Constants
  DEF Looking, Presses, OnTime, Paused, Delaying, Never
<1>4. button_down_time' \in 0 .. MaxUptime + Rearm
  BY <1>1, <1>2, Constants DEF Looking
<1> QED
  BY <1>1, <1>3, <1>4, RoundIInv

LEMMA HeldIInv == ASSUME IInv, Held PROVE IInv'
<1>1. /\ Round /\ pc = "look" /\ pc' = "start"
      /\ since # Never /\ since' = since
      /\ uptime <= button_down_time + Hold
      /\ UNCHANGED <<uptime, late, button_down_time, last_reset>>
  BY DEF Held, Round, IInv, Presses
<1>2. Looking
  BY <1>1, LookingNow
<1>3. OnTime'
  BY <1>1, <1>2, Constants DEF Looking, OnTime, Delaying
<1>4. Presses' /\ Paused'
  BY <1>1 DEF IInv, Presses, Paused
<1>5. button_down_time' \in 0 .. MaxUptime + Rearm
  BY <1>1, Types DEF IInv, Typed
<1> QED
  BY <1>1, <1>3, <1>4, <1>5, RoundIInv

LEMMA ResetIInv == ASSUME IInv, Reset PROVE IInv'
<1>1. /\ Round /\ pc = "look" /\ pc' = "start"
      /\ since # Never /\ since' = since /\ since <= uptime
      /\ since <= button_down_time
      /\ uptime > button_down_time + Hold
      /\ button_down_time' = button_down_time + Rearm
      /\ last_reset' = uptime
      /\ UNCHANGED <<uptime, late>>
  BY DEF Reset, Round, IInv, Presses
<1>2. Looking
  BY <1>1, LookingNow
<1>3. button_down_time' \in 0 .. MaxUptime + Rearm
  BY <1>1, <1>2, Constants DEF Looking
<1>4. Presses'
  <2>1. button_down_time # 0
    BY <1>1 DEF IInv, Presses
  <2> QED
    BY <1>1, <1>2, <2>1, Constants DEF Looking, Presses, Never
<1>5. OnTime'
  BY <1>1, <1>2, Constants DEF Looking, OnTime, Delaying, Never
<1>6. Paused'
  BY <1>1, <1>2, Constants DEF Looking, Paused, Never
<1> QED
  BY <1>1, <1>3, <1>4, <1>5, <1>6, RoundIInv

LEMMA ReleaseIInv == ASSUME IInv, Release PROVE IInv'
<1>1. /\ Round /\ since' = Never /\ button_down_time' = 0
      /\ last_reset' = last_reset
  BY DEF Release, Round
<1>2. Presses' /\ OnTime' /\ Paused'
  BY <1>1 DEF Presses, OnTime, Paused
<1> QED
  BY <1>1, <1>2, RoundIInv, Constants

LEMMA NextIInv == IInv /\ [Next]_vars => IInv'
<1>1. ASSUME IInv, UNCHANGED vars PROVE IInv'
  BY <1>1 DEF vars, delay, ghosts, IInv, TypeOK, Sleeps, ResetBefore, Presses,
              OnTime, Paused
<1> QED
  BY <1>1, StartDelayIInv, SleepIInv, WakeIInv, PressIInv, ResetIInv, HeldIInv,
     ReleaseIInv, PushIInv, TimePassesIInv DEF Next

THEOREM Invariance == Spec => []IInv
BY InitIInv, NextIInv, PTL DEF Spec

-----------------------------------------------------------------------------
(* Times and ticks stay within their bounds, button_down_time within an    *)
(* hour of the uptime though every reset moves it on.                      *)
THEOREM TypeCorrect == Spec => []TypeOK
<1>1. IInv => TypeOK
  BY DEF IInv
<1> QED
  BY <1>1, Invariance, PTL

(* delay_ms takes what it is asked for and at most a tick more, however    *)
(* long a tick is and however often the sleep is cut short and resumed.    *)
THEOREM DelaysKeepTime == Spec => []DelaysAsAsked
<1>1. IInv => DelaysAsAsked
  BY DEF IInv, Sleeps, Delaying, DelaysAsAsked
<1> QED
  BY <1>1, Invariance, PTL

(* A button held for ten seconds and the time between two looks has reset  *)
(* the provisioning.                                                       *)
THEOREM HoldingIsSeen == Spec => []HoldingResets
<1>1. IInv => HoldingResets
  <2> SUFFICES ASSUME IInv, since # Never, uptime - since > Hold + Gap,
                      ~(last_reset >= since)
               PROVE  FALSE
    BY DEF HoldingResets
  <2>1. /\ uptime \in 0 .. MaxUptime /\ stop_time \in 0 .. MaxUptime + Asked
        /\ since \in 0 .. MaxUptime /\ late \in 0 .. MaxLate
        /\ last_reset \in (0 .. MaxUptime) \cup {Never}
        /\ pc \in Delaying \cup {"start"}
    BY Types DEF IInv, Typed, Delaying
  <2>2. last_reset < since
    BY <2>1 DEF Never
  <2>3. button_down_time = since
    BY <2>2 DEF IInv, Presses
  <2>4. pc = "start" => uptime <= since + Hold + late
    BY <2>2, <2>3 DEF IInv, OnTime
  <2>5. pc \in Delaying => /\ uptime <= stop_time + Tick + late
                           /\ stop_time <= since + Hold + MaxLate + Asked
    BY <2>2, <2>3 DEF IInv, OnTime, Sleeps
  <2> QED
    BY <2>1, <2>4, <2>5, Constants
<1> QED
  BY <1>1, Invariance, PTL

(* Provisioning is reset only by a button that was down for more than ten  *)
(* seconds, and not again for an hour less the time between two looks.     *)
THEOREM ResetsAreRare == Spec => ResetsRarely
<1> DEFINE Rarely ==
      last_reset' # last_reset =>
        /\ since # Never /\ uptime - since > Hold
        /\ last_reset >= since => uptime - last_reset > Rearm - Gap
<1>1. IInv /\ [Next]_vars => [Rarely]_vars
  <2> SUFFICES ASSUME IInv, Next, last_reset' # last_reset
               PROVE  /\ since # Never /\ uptime - since > Hold
                      /\ last_reset >= since => uptime - last_reset > Rearm - Gap
    OBVIOUS
  <2>1. Reset
    BY DEF Next, StartDelay, Sleep, Wake, Press, Held, Release, Push,
       TimePasses,
           ghosts
  <2>2. /\ pc = "look" /\ since # Never /\ since <= button_down_time
        /\ uptime > button_down_time + Hold
    BY <2>1 DEF Reset, Round, IInv, Presses
  <2>3. Looking
    BY <2>2, LookingNow
  <2>4. uptime - since > Hold
    BY <2>2, <2>3, Constants DEF Looking
  <2>5. ASSUME last_reset >= since PROVE uptime - last_reset > Rearm - Gap
    <3>1. since \in Nat /\ last_reset \in Nat
      BY <2>2, <2>3, <2>5 DEF Looking, Never
    <3>2. CASE Gap <= Rearm
      <4>1. last_reset + Rearm <= button_down_time + Hold + Gap
        BY <2>2, <2>5, <3>2 DEF IInv, Paused
      <4> QED
        BY <2>2, <2>3, <3>1, <4>1, Constants DEF Looking
    <3>3. CASE ~(Gap <= Rearm)
      BY <2>3, <3>1, <3>3, Constants DEF Looking
    <3> QED
      BY <3>2, <3>3
  <2> QED
    BY <2>2, <2>4, <2>5
<1> QED
  BY <1>1, Invariance, PTL DEF Spec, ResetsRarely
=============================================================================
