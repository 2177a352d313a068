----------------------------- MODULE Parameters -----------------------------
(***************************************************************************)
(* What the parameter store of nvm.h promises, without the flash: a start  *)
(* finds each parameter as a save left it or, if the power went while one  *)
(* was being saved, as it was before; and what is set is saved in the end. *)
(* After a call to the flash that fails nothing is promised until the next *)
(* start, which keeps the promise with what it then finds.                 *)
(***************************************************************************)
EXTENDS Naturals

CONSTANTS Param,    \* the parameters
          Value,    \* their values
          Default,  \* Default[p]: the value of a parameter never saved
          Off       \* what a parameter is while the device is not up

VARIABLES value,  \* value[p]: what nvm_get_param returns
          kept,   \* kept[p]: the values a start may find
          calls,  \* calls to nvm_set_param since the start
          sound   \* the flash has not failed since the start

vars == <<value, kept, calls, sound>>

AllOff == [p \in Param |-> Off]
AllSaved == [p \in Param |-> {value[p]}]

Up == value # AllOff /\ sound

Init ==
  /\ value = AllOff
  /\ kept = [p \in Param |-> {Default[p]}]
  /\ calls = 0
  /\ sound = TRUE

Start ==
  /\ value = AllOff /\ sound
  /\ value' \in [Param -> Value]
  /\ \A p \in Param : kept[p] = {value'[p]}
  /\ UNCHANGED <<kept, calls, sound>>

Set(p, v) ==
  /\ Up
  /\ value' = [value EXCEPT ![p] = v]
  /\ calls' = calls + 1
  /\ UNCHANGED <<kept, sound>>

\* From here on a power loss may leave the new value.
Write(p) ==
  /\ Up
  /\ kept' = [kept EXCEPT ![p] = @ \cup {value[p]}]
  /\ UNCHANGED <<value, calls, sound>>

\* All the parameters are saved at once, as they are at one moment.
Save ==
  /\ Up
  /\ kept' = AllSaved
  /\ UNCHANGED <<value, calls, sound>>

Fail ==
  /\ sound' = FALSE
  /\ value' \in [Param -> Value \cup {Off}]
  /\ kept' \in [Param -> SUBSET Value]

PowerLoss ==
  /\ value' = AllOff
  /\ kept' \in [Param -> { {v} : v \in Value }]
  /\ \A p \in Param : kept'[p] \subseteq kept[p]
  /\ calls' = 0
  /\ sound' = TRUE

Next ==
  \/ Start
  \/ \E p \in Param, v \in Value : Set(p, v)
  \/ \E p \in Param : Write(p)
  \/ Save
  \/ Fail
  \/ PowerLoss

Spec == Init /\ [][Next]_vars /\ WF_vars(Save)
=============================================================================
