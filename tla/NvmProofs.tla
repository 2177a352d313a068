------------------------------ MODULE NvmProofs ------------------------------
(***************************************************************************)
(* Proofs about Nvm for every table of parameters, every set of faults and *)
(* any number of starts and sets.                                          *)
(*                                                                         *)
(* Three arguments share one inductive invariant: where the task is in its *)
(* update (Place), what is known of the boot count (Counting), and what    *)
(* the flash holds as long as no call failed (Faithful).                   *)
(***************************************************************************)
EXTENDS Nvm, TLAPS

Passing == {"open", "read", "write", "commit", "return"}

\* The start has counted itself.
Counted == initialized /\ pc \notin {"get", "increment"}

\* The boot count has been loaded from the flash.
Loaded ==
  \/ initialized
  \/ pc \in {"write", "commit", "return"}
  \/ pc = "read" /\ idx # Counter

\* The first update runs before nvm_init returns and without the mutex, the
\* later ones with it.
Place ==
  /\ initialized <=> ~first_pass
  /\ locked => initialized /\ pc \in Passing /\ ~updated
  /\ initialized /\ pc \in Passing => locked
  /\ pc = "init" => ~initialized
  /\ pc \in {"get", "increment", "wait", "take"} => initialized
  /\ pc \notin {"read", "write", "commit"} => idx = 0 /\ ~dirty
  /\ pc = "commit" => idx = Count
  /\ blank => pc = "write"

\* A boot count, in RAM or to be found in the flash, is one of a start so far.
Counting ==
  /\ ~Counted => starts < MaxStarts /\ ~owed
  /\ ram[Counter] \in Compiled .. starts
  /\ got \in Compiled .. starts
  /\ possible[Counter] \subseteq {Absent} \cup Compiled .. starts
  /\ pc = "increment" => ram[Counter] = got
  /\ Counted => got < starts
  /\ owed => settled < starts

\* The settled starts are in the count, and stay in it while it is counted up.
Settled ==
  ~doubt =>
    /\ SettledCount
    /\ Loaded => settled <= ram[Counter]
    /\ Counted /\ flash[Counter] = got + 1 => ram[Counter] = got + 1
    /\ owed => settled <= got

\* Entries below n have been seen to by the update that runs.
Present(n) == \A p \in Param : p < n => flash[p] # Absent
Copied(n)  == \A p \in Param : p < n => flash[p] = ram[p]

Norm(v) == IF v = Absent THEN Default ELSE v

\* In an update that no call of failed, every entry is what it was or what
\* the update means it to be.
Faithful ==
  ~failed =>
    /\ ~dirty => \A p \in Param : possible[p] = {flash[p]}
    /\ initialized => Present(Count)
    /\ first_pass /\ pc \in {"read", "write"} => Present(idx)
    /\ first_pass /\ pc \in {"commit", "return"} => Present(Count)
    /\ locked /\ pc \in {"read", "write", "commit"} => Copied(idx)
    /\ locked /\ pc = "return" => Copied(Count)
    /\ blank => first_pass
    /\ pc = "wait" /\ ~updated => Copied(Count)

\* What a start loads of the int parameters.
Loading ==
  ~failed /\ first_pass =>
    /\ \A p \in Ints : \A v \in possible[p] : Norm(v) = Norm(flash[p])
    /\ pc \in {"read", "write"} =>
         \A p \in Ints : p < idx => ram[p] = Norm(flash[p])
    /\ pc \in {"commit", "return"} =>
         \A p \in Ints : ram[p] = Norm(flash[p])
    /\ pc = "write" => flash[idx] = Absent /\ blank
    /\ pc = "write" /\ idx \in Ints => ram[idx] = Default

IInv ==
  TypeOK /\ Place /\ Counting /\ Settled /\ Faithful /\ Loading

-----------------------------------------------------------------------------
LEMMA Constants ==
  /\ Counter \in Param /\ Counter \in Ints
  /\ Param \subseteq Nat
  /\ Default \in Value /\ Compiled \in Value /\ Garbage \in Value
  /\ Client \subseteq Value
  /\ Compiled .. MaxStarts \subseteq Value
  /\ Absent \notin Value
BY NvmAssumption DEF Counter, Param, Ints, Default, Compiled, Value

(* The loop of _update_nvm goes through the table once.                    *)
LEMMA NextEntryIndex ==
  ASSUME idx \in Param, NextEntry
  PROVE  /\ idx' = idx + 1 /\ idx' \in 0 .. Count /\ idx' # Counter
         /\ pc' \in {"read", "commit"}
         /\ pc' = "read" => idx' \in Param
         /\ pc' = "commit" => idx' = Count
BY NvmAssumption DEF NextEntry, Param, Counter

LEMMA InitIInv == Init => IInv
<1> SUFFICES ASSUME Init PROVE IInv
  OBVIOUS
<1>1. MaxStarts \in Nat /\ MaxStarts > 0 /\ MaxSets \in Nat /\ Count \in Nat
  BY NvmAssumption
<1>2. TypeOK
  <2>1. possible \in [Param -> SUBSET (Value \cup {Absent})]
    BY DEF Init
  <2>2. flash \in [Param -> Value \cup {Absent}]
    BY DEF Init
  <2>3. \A p \in Param : flash[p] \in possible[p]
    BY DEF Init
  <2>4. ram \in [Param -> Value] /\ got \in Value
    BY Constants DEF Init
  <2>5. idx \in 0 .. Count /\ starts \in 0 .. MaxStarts /\ settled \in 0 .. starts
        /\ sets \in 0 .. MaxSets
    BY <1>1 DEF Init
  <2> QED
    BY <2>1, <2>2, <2>3, <2>4, <2>5 DEF Init, TypeOK
<1>3. Place
  BY DEF Init, Place
<1>4. Counting
  BY <1>1, Constants DEF Init, Counting, Counted, Compiled
<1>5. Settled
  BY Constants DEF Init, Settled, Counted, Loaded, SettledCount
<1>6. Faithful
  BY DEF Init, Faithful
<1>7. Loading
  BY DEF Init, Loading, Ints
<1> QED
  BY <1>2, <1>3, <1>4, <1>5, <1>6, <1>7 DEF IInv

LEMMA PowerLossIInv == ASSUME IInv, PowerLoss PROVE IInv'
<1>1. TypeOK /\ Counting /\ Settled
  BY DEF IInv
<1>2. /\ flash' \in [Param -> Value \cup {Absent}]
      /\ \A p \in Param : flash'[p] \in possible[p]
      /\ \A p \in Param : possible'[p] = {flash'[p]}
  BY DEF PowerLoss
<1>3. possible'[Counter] \subseteq possible[Counter]
  BY <1>2, Constants
<1>4. TypeOK'
  <2>1. possible' \in [Param -> SUBSET (Value \cup {Absent})]
    BY <1>2 DEF PowerLoss
  <2>2. ram' \in [Param -> Value]
    BY Constants DEF PowerLoss
  <2>3. got' \in Value /\ sets' \in 0 .. MaxSets /\ idx' \in 0 .. Count
    BY Constants, NvmAssumption DEF PowerLoss
  <2> QED
    BY <1>1, <1>2, <2>1, <2>2, <2>3 DEF PowerLoss, TypeOK
<1>5. Place'
  BY DEF PowerLoss, Place
<1>6. Counting'
  BY <1>1, <1>3, Constants DEF PowerLoss, Counting, Counted, TypeOK, Compiled
<1>7. Settled'
  BY <1>1, <1>3 DEF PowerLoss, Settled, Counted, Loaded, SettledCount
<1>8. Faithful'
  BY <1>2 DEF PowerLoss, Faithful
<1>9. Loading'
  BY <1>2 DEF PowerLoss, Loading, Ints
<1> QED
  BY <1>4, <1>5, <1>6, <1>7, <1>8, <1>9 DEF IInv

LEMMA InitFlashIInv == ASSUME IInv, InitFlash PROVE IInv'
<1>1. TypeOK /\ Place /\ Counting /\ Settled
  BY DEF IInv
<1>2. pc = "init" /\ pc' = "open" /\ UNCHANGED <<table, update, count, sets>>
  BY DEF InitFlash
<1>3. CASE Works /\ UNCHANGED nvs
  <2>1. UNCHANGED <<flash, possible, failed, doubt>>
    BY <1>3 DEF Works, nvs, trouble
  <2>2. TypeOK'
    BY <1>1, <1>2, <2>1 DEF TypeOK, table, update, count
  <2>3. Place' /\ Counting' /\ Settled'
    BY <1>1, <1>2, <2>1 DEF Place, Passing, Counting, Counted, Settled, Loaded,
       SettledCount, table, update, count
  <2>4. Faithful' /\ Loading'
    BY <1>1, <1>2, <2>1 DEF IInv, Faithful, Loading, Present, Copied, Place,
       Passing, table, update, count
  <2> QED
    BY <2>2, <2>3, <2>4 DEF IInv
<1>4. CASE /\ Fails("init")
           /\ flash' = [p \in Param |-> Absent]
           /\ possible' = [p \in Param |-> {Absent}]
  <2>1. failed' /\ doubt'
    BY <1>4 DEF Fails
  <2>2. /\ flash' \in [Param -> Value \cup {Absent}]
        /\ possible' \in [Param -> SUBSET (Value \cup {Absent})]
        /\ \A p \in Param : flash'[p] \in possible'[p]
    BY <1>4
  <2>3. TypeOK'
    BY <1>1, <1>2, <1>4, <2>1, <2>2 DEF TypeOK, Fails, table, update, count
  <2>4. possible'[Counter] = {Absent}
    BY <1>4, Constants
  <2>5. Place' /\ Counting'
    BY <1>1, <1>2, <2>4 DEF Place, Passing, Counting, Counted, table, update,
       count
  <2> QED
    BY <2>1, <2>3, <2>5 DEF IInv, Settled, Faithful, Loading
<1> QED
  BY <1>3, <1>4 DEF InitFlash

LEMMA OpenIInv == ASSUME IInv, Open PROVE IInv'
<1>1. TypeOK /\ Place /\ Counting /\ Settled /\ Faithful /\ Loading
  BY DEF IInv
<1>2. /\ pc = "open" /\ idx = 0 /\ ~dirty
      /\ UNCHANGED <<table, nvs, update, count, sets>>
  BY <1>1 DEF Open, Place
<1>3. idx \in Param /\ idx = Counter /\ \A p \in Param : ~(p < idx)
  BY <1>2, Constants DEF Counter
<1>4. TypeOK'
  BY <1>1, <1>2, <1>3 DEF Open, Fails, Works, TypeOK, table, nvs, update, count,
     trouble
<1>5. Place' /\ Counting'
  BY <1>1, <1>2 DEF Open, Place, Passing, Counting, Counted, table, nvs, update,
     count
<1>6. CASE Works /\ pc' = "read"
  <2>1. UNCHANGED <<failed, doubt>>
    BY <1>6 DEF Works, trouble
  <2>2. Settled'
    BY <1>1, <1>2, <1>3, <1>6, <2>1 DEF Settled, SettledCount, Counted, Loaded,
       table, nvs, update, count
  <2>3. Faithful' /\ Loading'
    BY <1>1, <1>2, <1>3, <1>6, <2>1 DEF Faithful, Loading, Present, Copied,
       table, nvs, update, Ints
  <2> QED
    BY <1>4, <1>5, <2>2, <2>3 DEF IInv
<1>7. CASE Fails("open") /\ pc' = "return"
  BY <1>4, <1>5, <1>7 DEF IInv, Fails, Settled, Faithful, Loading
<1> QED
  BY <1>6, <1>7 DEF Open

LEMMA ReadEntryIInv == ASSUME IInv, ReadEntry PROVE IInv'
<1>1. TypeOK /\ Place /\ Counting /\ Settled /\ Faithful /\ Loading
  BY DEF IInv
<1>2. /\ pc = "read" /\ idx \in Param /\ flash[idx] # Absent
      /\ flash[idx] \in Value /\ flash[idx] \in possible[idx]
      /\ UNCHANGED <<updated, initialized, locked, flash, possible, first_pass,
                     blank, dirty, count, sets, failed, doubt>>
  BY <1>1 DEF ReadEntry, TypeOK, Works, nvs, trouble
<1>3. /\ ram' \in [Param -> Value]
      /\ \A p \in Param : p # idx => ram'[p] = ram[p]
      /\ ram'[idx] = IF first_pass THEN flash[idx] ELSE ram[idx]
  BY <1>1, <1>2 DEF ReadEntry, TypeOK
<1>4. /\ Differs => pc' = "write" /\ idx' = idx
      /\ ~Differs => /\ idx' = idx + 1 /\ idx' \in 0 .. Count /\ idx' # Counter
                     /\ pc' \in {"read", "commit"}
                     /\ pc' = "read" => idx' \in Param
                     /\ pc' = "commit" => idx' = Count
  BY <1>2, NextEntryIndex DEF ReadEntry
<1>5. idx \in 0 .. Count /\ idx' \in 0 .. Count /\ (pc' \in {"read", "write"} => idx' \in Param)
  BY <1>1, <1>2, <1>4 DEF TypeOK
<1>6. pc' \in {"read", "write", "commit"}
  BY <1>4
<1>7. TypeOK'
  BY <1>1, <1>2, <1>3, <1>5, <1>6 DEF TypeOK, count
<1>8. Place'
  BY <1>1, <1>2, <1>4, <1>6 DEF Place, Passing
<1>9. Counting'
  <2>1. ram'[Counter] \in Compiled .. starts
    <3>1. CASE idx = Counter
      BY <1>1, <1>2, <1>3, <3>1 DEF Counting
    <3>2. CASE idx # Counter
      BY <1>1, <1>3, <3>2, Constants DEF Counting
    <3> QED
      BY <3>1, <3>2
  <2> QED
    BY <1>1, <1>2, <1>6, <2>1 DEF Counting, Counted, count
<1>10. Settled'
  <2> SUFFICES ASSUME ~doubt PROVE (Settled!2)'
    BY <1>2 DEF Settled
  <2>1. SettledCount'
    BY <1>1, <1>2 DEF Settled, SettledCount, count
  <2>2. settled <= ram'[Counter]
    <3>1. CASE idx = Counter /\ first_pass
      BY <1>1, <1>2, <1>3, <3>1 DEF Settled, SettledCount
    <3>2. CASE ~(idx = Counter /\ first_pass)
      <4>1. ram'[Counter] = ram[Counter]
        BY <1>3, <3>2, Constants
      <4>2. Loaded
        BY <1>1, <1>2, <3>2 DEF Loaded, Place
      <4> QED
        BY <1>1, <4>1, <4>2 DEF Settled
    <3> QED
      BY <3>1, <3>2
  <2>3. Counted' /\ flash'[Counter] = got' + 1 => ram'[Counter] = got' + 1
    BY <1>1, <1>2, <1>3, Constants DEF Counted, Settled, Place, count
  <2> QED
    BY <1>1, <1>2, <2>1, <2>2, <2>3 DEF Settled, Counted, count
<1>11. Faithful'
  BY <1>1, <1>2, <1>3, <1>4, <1>6 DEF Faithful, Present, Copied, Place, Differs,
     Param
<1>12. Loading'
  BY <1>1, <1>2, <1>3, <1>4, <1>6, Constants DEF Loading, Norm, Differs, Ints,
     Param
<1> QED
  BY <1>7, <1>8, <1>9, <1>10, <1>11, <1>12 DEF IInv

LEMMA ReadFailsIInv == ASSUME IInv, ReadFails PROVE IInv'
<1>1. TypeOK /\ Place /\ Counting /\ Settled /\ Faithful /\ Loading
  BY DEF IInv
<1>2. /\ pc = "read" /\ idx \in Param /\ idx \in 0 .. Count
      /\ pc' = "write" /\ blank' = TRUE
      /\ UNCHANGED <<updated, initialized, locked, first_pass, idx, dirty,
                     got, starts, settled, owed, sets>>
  BY <1>1 DEF ReadFails, TypeOK, count
<1>3. /\ ram' \in [Param -> Value]
      /\ \A p \in Param : p # idx => ram'[p] = ram[p]
      /\ Kind[idx] # "blob" => ram'[idx] = Default
  BY <1>1, <1>2, Constants DEF ReadFails, TypeOK
<1>4. \/ /\ flash[idx] = Absent
         /\ UNCHANGED <<flash, possible, failed, doubt>>
      \/ failed' /\ doubt'
  BY DEF ReadFails, Works, Fails, nvs, trouble
<1>5. /\ flash' \in [Param -> Value \cup {Absent}]
      /\ possible' \in [Param -> SUBSET (Value \cup {Absent})]
      /\ \A p \in Param : flash'[p] \in possible'[p]
      /\ possible'[Counter] \subseteq possible[Counter] \cup {Absent}
  <2>1. CASE UNCHANGED nvs
    BY <1>1, <2>1 DEF TypeOK, nvs
  <2>2. CASE /\ flash' = [flash EXCEPT ![idx] = Absent]
             /\ possible' = [possible EXCEPT ![idx] = @ \cup {Absent}]
    BY <1>1, <1>2, <2>2, Constants DEF TypeOK
  <2> QED
    BY <2>1, <2>2 DEF ReadFails
<1>6. failed' \in BOOLEAN /\ doubt' \in BOOLEAN
  BY <1>1 DEF ReadFails, Works, Fails, trouble, TypeOK
<1>7. TypeOK'
  BY <1>1, <1>2, <1>3, <1>5, <1>6 DEF TypeOK
<1>8. Place'
  BY <1>1, <1>2 DEF Place, Passing
<1>9. Counting'
  <2>1. ram'[Counter] \in Compiled .. starts
    <3>1. CASE idx = Counter
      <4>1. ram'[Counter] = Default
        BY <1>3, <3>1, NvmAssumption
      <4> QED
        BY <1>1, <4>1 DEF TypeOK, Default, Compiled
    <3>2. CASE idx # Counter
      BY <1>1, <1>3, <3>2, Constants DEF Counting
    <3> QED
      BY <3>1, <3>2
  <2> QED
    BY <1>1, <1>2, <1>5, <2>1 DEF Counting, Counted
<1>10. Settled'
  <2> SUFFICES ASSUME ~doubt' PROVE (Settled!2)'
    BY DEF Settled
  <2>1. ~doubt /\ flash[idx] = Absent /\ UNCHANGED <<flash, possible>>
    BY <1>4
  <2>2. SettledCount'
    BY <1>1, <1>2, <2>1 DEF Settled, SettledCount
  <2>3. settled <= ram'[Counter]
    <3>1. CASE idx = Counter
      <4>1. ram'[Counter] = 0
        BY <1>3, <3>1, NvmAssumption DEF Default
      <4>2. Absent \in possible[Counter]
        BY <1>1, <1>2, <2>1, <3>1 DEF TypeOK
      <4> QED
        BY <1>1, <2>1, <4>1, <4>2 DEF Settled, SettledCount
    <3>2. CASE idx # Counter
      <4>1. ram'[Counter] = ram[Counter] /\ Loaded
        BY <1>2, <1>3, <3>2, Constants DEF Loaded
      <4> QED
        BY <1>1, <2>1, <4>1 DEF Settled
    <3> QED
      BY <3>1, <3>2
  <2>4. Counted' /\ flash'[Counter] = got' + 1 => ram'[Counter] = got' + 1
    <3> SUFFICES ASSUME Counted, flash[Counter] = got + 1
                 PROVE  ram'[Counter] = got + 1
      BY <1>2, <2>1 DEF Counted
    <3>1. got + 1 \in Value
      BY <1>1, Constants, NvmAssumption DEF Counting, TypeOK, Compiled
    <3>2. idx # Counter
      BY <2>1, <3>1, Constants
    <3> QED
      BY <1>1, <1>3, <2>1, <3>2, Constants DEF Settled
  <2> QED
    BY <1>1, <1>2, <2>1, <2>2, <2>3, <2>4 DEF Settled
<1>11. Faithful'
  <2> SUFFICES ASSUME ~failed' PROVE Faithful'
    BY DEF Faithful
  <2>1. ~failed /\ flash[idx] = Absent /\ UNCHANGED <<flash, possible>>
    BY <1>4
  <2>2. ~initialized
    BY <1>1, <1>2, <2>1, NvmAssumption DEF Faithful, Present, Param
  <2>3. first_pass /\ ~locked
    BY <1>1, <2>2 DEF Place
  <2> QED
    BY <1>1, <1>2, <2>1, <2>2, <2>3 DEF Faithful, Present
<1>12. Loading'
  <2> SUFFICES ASSUME ~failed', first_pass PROVE (Loading!2)'
    BY <1>2 DEF Loading
  <2>1. ~failed /\ flash[idx] = Absent /\ UNCHANGED <<flash, possible>>
    BY <1>4
  <2>2. \A p \in Ints : p < idx => ram'[p] = Norm(flash[p])
    BY <1>1, <1>2, <1>3, <2>1, Constants DEF Loading, Ints
  <2>3. idx \in Ints => ram'[idx] = Default
    BY <1>3 DEF Ints
  <2> QED
    BY <1>1, <1>2, <2>1, <2>2, <2>3 DEF Loading, Norm
<1> QED
  BY <1>7, <1>8, <1>9, <1>10, <1>11, <1>12 DEF IInv

(* What is written is a value, and of the boot count it is the one in RAM. *)
LEMMA WrittenValue ==
  ASSUME TypeOK, idx \in Param
  PROVE  /\ Written \in Value
         /\ idx = Counter => Written = ram[Counter]
         /\ ~blank => Written = ram[idx]
         /\ idx \in Ints => Written = ram[idx]
<1>1. ram[idx] \in Value /\ Garbage \in Value /\ Default \in Value
  BY Constants DEF TypeOK
<1> QED
  BY <1>1, NvmAssumption DEF Written, Ints

LEMMA WriteEntryIInv == ASSUME IInv, WriteEntry PROVE IInv'
<1>1. TypeOK /\ Place /\ Counting /\ Settled /\ Faithful /\ Loading
  BY DEF IInv
<1>2. /\ pc = "write" /\ idx \in Param
      /\ dirty' = TRUE /\ blank' = FALSE
      /\ UNCHANGED <<ram, updated, initialized, locked, first_pass,
                     got, starts, settled, owed, sets>>
  BY <1>1 DEF WriteEntry, TypeOK, table, count
<1>3. /\ idx' = idx + 1 /\ idx' \in 0 .. Count /\ idx' # Counter
      /\ pc' \in {"read", "commit"}
      /\ pc' = "read" => idx' \in Param
      /\ pc' = "commit" => idx' = Count
  BY <1>2, NextEntryIndex DEF WriteEntry
<1>4. Place'
  BY <1>1, <1>2, <1>3 DEF Place, Passing
<1>5. CASE Fails("write") /\ UNCHANGED nvs
  <2>1. failed' /\ (doubt' <=> doubt) /\ UNCHANGED <<flash, possible>>
    BY <1>5 DEF Fails, nvs
  <2>2. doubt' \in BOOLEAN /\ failed' \in BOOLEAN
    BY <1>5 DEF Fails
  <2>3. TypeOK'
    BY <1>1, <1>2, <1>3, <2>1, <2>2 DEF TypeOK
  <2>4. Counting'
    BY <1>1, <1>2, <1>3, <2>1 DEF Counting, Counted
  <2>5. Settled'
    BY <1>1, <1>2, <1>3, <2>1 DEF Settled, SettledCount, Counted, Loaded
  <2> QED
    BY <1>4, <2>1, <2>3, <2>4, <2>5 DEF IInv, Faithful, Loading
<1>6. CASE /\ Works
           /\ flash' = [flash EXCEPT ![idx] = Written]
           /\ possible' = [possible EXCEPT ![idx] = @ \cup {Written}]
  <2>1. UNCHANGED <<failed, doubt>>
    BY <1>6 DEF Works, trouble
  <2>2. /\ Written \in Value /\ Written # Absent
        /\ idx = Counter => Written = ram[Counter]
        /\ ~blank => Written = ram[idx]
        /\ idx \in Ints => Written = ram[idx]
    BY <1>1, <1>2, WrittenValue, Constants
  <2>3. /\ flash' \in [Param -> Value \cup {Absent}]
        /\ possible' \in [Param -> SUBSET (Value \cup {Absent})]
    BY <1>1, <1>6, <2>2 DEF TypeOK
  <2>4. /\ flash'[idx] = Written /\ possible'[idx] = possible[idx] \cup {Written}
        /\ \A p \in Param : p # idx => flash'[p] = flash[p] /\ possible'[p] = possible[p]
    BY <1>1, <1>2, <1>6 DEF TypeOK
  <2>5. TypeOK'
    BY <1>1, <1>2, <1>3, <2>1, <2>3, <2>4 DEF TypeOK
  <2>6. /\ flash'[Counter] = flash[Counter] \/ flash'[Counter] = ram[Counter]
        /\ possible'[Counter] \subseteq possible[Counter] \cup {ram[Counter]}
        /\ Absent \in possible'[Counter] => Absent \in possible[Counter]
    BY <2>2, <2>4, Constants
  <2>7. Counting'
    BY <1>1, <1>2, <1>3, <2>6 DEF Counting, Counted
  <2>8. Settled'
    BY <1>1, <1>2, <1>3, <2>1, <2>6 DEF Settled, SettledCount, Counted, Loaded
  <2>9. Faithful'
    <3> SUFFICES ASSUME ~failed PROVE (Faithful!2)'
      BY <2>1 DEF Faithful
    <3>1. \A p \in Param : p < idx + 1 => p < idx \/ p = idx
      BY <1>2 DEF Param
    <3>2. initialized => \A p \in Param : p < Count => flash'[p] # Absent
      BY <1>1, <2>2, <2>4 DEF Faithful, Present
    <3>3. first_pass => \A p \in Param : p < idx + 1 => flash'[p] # Absent
      BY <1>1, <1>2, <2>2, <2>4, <3>1 DEF Faithful, Present
    <3>4. locked => \A p \in Param : p < idx + 1 => flash'[p] = ram[p]
      BY <1>1, <1>2, <2>2, <2>4, <3>1 DEF Faithful, Place, Copied
    <3> QED
      BY <1>2, <1>3, <3>2, <3>3, <3>4 DEF Present, Copied
  <2>10. Loading'
    <3> SUFFICES ASSUME ~failed, first_pass PROVE (Loading!2)'
      BY <1>2, <2>1 DEF Loading
    <3>1. flash[idx] = Absent /\ (idx \in Ints => ram[idx] = Default)
      BY <1>1, <1>2 DEF Loading
    <3>2. idx \in Ints => \A v \in possible'[idx] : Norm(v) = Norm(flash'[idx])
      BY <1>1, <2>2, <2>4, <3>1, Constants DEF Loading, Norm
    <3>3. \A p \in Ints : p <= idx => ram[p] = Norm(flash'[p])
      BY <1>1, <1>2, <2>2, <2>4, <3>1, Constants DEF Loading, Norm, Ints
    <3>4. \A p \in Ints : \A v \in possible'[p] : Norm(v) = Norm(flash'[p])
      BY <1>1, <2>4, <3>2 DEF Loading, Ints
    <3> QED
      BY <1>2, <1>3, <3>3, <3>4 DEF Ints, Param
  <2> QED
    BY <1>4, <2>5, <2>7, <2>8, <2>9, <2>10 DEF IInv
<1> QED
  BY <1>5, <1>6 DEF WriteEntry

(* A start settles when what it counted is what the commit made certain.   *)
LEMMA CommitIInv == ASSUME IInv, Commit PROVE IInv'
<1>1. TypeOK /\ Place /\ Counting /\ Settled /\ Faithful /\ Loading
  BY DEF IInv
<1>2. /\ pc = "commit" /\ idx = Count /\ pc' = "return" /\ idx' = 0 /\ dirty' = FALSE
      /\ UNCHANGED <<ram, updated, initialized, locked, flash, first_pass, blank,
                     got, starts, sets>>
  BY <1>1 DEF Commit, Place, table
<1>3. Place'
  BY <1>1, <1>2 DEF Place, Passing
<1>4. idx' \in 0 .. Count
  BY <1>2, NvmAssumption
<1>5. CASE ~dirty /\ Works /\ UNCHANGED <<possible, settled, owed>>
  <2>1. UNCHANGED <<failed, doubt>>
    BY <1>5 DEF Works, trouble
  <2>2. TypeOK'
    BY <1>1, <1>2, <1>4, <1>5, <2>1 DEF TypeOK
  <2>3. Counting' /\ Settled'
    BY <1>1, <1>2, <1>5, <2>1
    DEF Counting, Settled, SettledCount, Counted, Loaded
  <2>4. Faithful' /\ Loading'
    BY <1>1, <1>2, <1>5, <2>1 DEF Faithful, Loading, Present, Copied, Place
  <2> QED
    BY <1>3, <2>2, <2>3, <2>4 DEF IInv
<1>6. CASE dirty /\ Fails("commit") /\ UNCHANGED <<possible, settled, owed>>
  <2>1. failed' /\ (doubt' <=> doubt) /\ doubt' \in BOOLEAN /\ failed' \in BOOLEAN
    BY <1>6 DEF Fails
  <2>2. TypeOK'
    BY <1>1, <1>2, <1>4, <1>6, <2>1 DEF TypeOK
  <2>3. Counting' /\ Settled'
    BY <1>1, <1>2, <1>6, <2>1
    DEF Counting, Settled, SettledCount, Counted, Loaded
  <2> QED
    BY <1>3, <2>1, <2>2, <2>3 DEF IInv, Faithful, Loading
<1>7. CASE /\ dirty /\ Works
           /\ possible' = [p \in Param |-> {flash[p]}]
           /\ IF owed /\ flash[Counter] = got + 1
                THEN owed' = FALSE /\ settled' = settled + 1
                ELSE UNCHANGED <<owed, settled>>
  <2>1. UNCHANGED <<failed, doubt>>
    BY <1>7 DEF Works, trouble
  <2>2. /\ possible' \in [Param -> SUBSET (Value \cup {Absent})]
        /\ \A p \in Param : possible'[p] = {flash[p]}
    BY <1>1, <1>7 DEF TypeOK
  <2>3. possible'[Counter] = {flash[Counter]} /\ flash[Counter] \in possible[Counter]
    BY <1>1, <2>2, Constants DEF TypeOK
  <2>4. settled' \in 0 .. starts /\ owed' \in BOOLEAN
    <3>1. starts \in Nat /\ settled \in Nat /\ settled <= starts
      BY <1>1, NvmAssumption DEF TypeOK
    <3>2. CASE owed /\ flash[Counter] = got + 1
      <4>1. settled < starts
        BY <1>1, <3>2 DEF Counting
      <4>2. owed' = FALSE /\ settled' = settled + 1
        BY <1>7, <3>2
      <4>3. settled' \in 0 .. starts
        BY <3>1, <4>1, <4>2
      <4>4. owed' \in BOOLEAN
        BY <4>2
      <4> QED
        BY <4>3, <4>4
    <3>3. CASE UNCHANGED <<owed, settled>>
      BY <1>1, <3>3 DEF TypeOK
    <3> QED
      BY <1>7, <3>2, <3>3
  <2>5. TypeOK'
    BY <1>1, <1>2, <1>4, <2>1, <2>2, <2>4 DEF TypeOK
  <2>6. Counting'
    BY <1>1, <1>2, <1>7, <2>3 DEF Counting, Counted
  <2>7. Settled'
    <3> SUFFICES ASSUME ~doubt PROVE (Settled!2)'
      BY <2>1 DEF Settled
    <3>1. CASE owed /\ flash[Counter] = got + 1
      <4>1. owed' = FALSE /\ settled' = settled + 1 /\ settled <= got
        BY <1>1, <1>7, <3>1 DEF Settled
      <4>2. Counted /\ got < starts
        BY <1>1, <3>1 DEF Counting
      <4>3. got + 1 \in Value /\ ram[Counter] = got + 1
        BY <1>1, <3>1, <4>2, Constants DEF Settled, Counting, TypeOK, Compiled
      <4>4. settled \in Int /\ got \in Int
        BY <1>1 DEF TypeOK, Counting, Compiled
      <4> QED
        BY <1>2, <2>3, <3>1, <4>1, <4>3, <4>4, Constants DEF SettledCount
    <3>2. CASE UNCHANGED <<owed, settled>>
      BY <1>1, <1>2, <2>3, <3>2 DEF Settled, SettledCount, Counted, Loaded
    <3> QED
      BY <1>7, <3>1, <3>2
  <2>8. Faithful' /\ Loading'
    BY <1>1, <1>2, <2>1, <2>2
    DEF Faithful, Loading, Present, Copied, Place, Ints
  <2> QED
    BY <1>3, <2>5, <2>6, <2>7, <2>8 DEF IInv
<1> QED
  BY <1>5, <1>6, <1>7 DEF Commit

LEMMA ReturnIInv == ASSUME IInv, Return PROVE IInv'
<1>1. TypeOK /\ Place /\ Counting /\ Settled /\ Faithful /\ Loading
  BY DEF IInv
<1>2. TypeOK'
  BY <1>1, Constants DEF Return, TypeOK, table, nvs, update, count, trouble
<1>3. Place'
  BY <1>1, Constants
  DEF Return, Place, Passing, table, nvs, update, count, trouble
<1>4. Counting'
  BY <1>1, Constants DEF Return, Counting, Counted, Compiled, Place, Passing,
     table, nvs, update, count, trouble
<1>5. Settled'
  BY <1>1, Constants
  DEF Return, Settled, Counted, Loaded, SettledCount, Place, Passing,
     table, nvs, update, count, trouble
<1>6. Faithful'
  BY <1>1 DEF Return, Faithful, Present, Copied, Place, Passing, table, nvs,
     update, count, trouble
<1>7. Loading'
  BY <1>1 DEF Return, Loading, Place, Ints, table, nvs, update, count, trouble
<1> QED
  BY <1>2, <1>3, <1>4, <1>5, <1>6, <1>7 DEF IInv

LEMMA GetIInv == ASSUME IInv, Get PROVE IInv'
<1>1. TypeOK /\ Place /\ Counting /\ Settled /\ Faithful /\ Loading
  BY DEF IInv
<1>2. TypeOK'
  BY <1>1, Constants DEF Get, TypeOK, table, nvs, update, count, trouble
<1>3. Place'
  BY <1>1, Constants DEF Get, Place, Passing, table, nvs, update, count, trouble
<1>4. Counting'
  BY <1>1, Constants DEF Get, Counting, Counted, Compiled, Place, Passing,
     table, nvs, update, count, trouble
<1>5. Settled'
  BY <1>1, Constants
  DEF Get, Settled, Counted, Loaded, SettledCount, Place, Passing,
     table, nvs, update, count, trouble
<1>6. Faithful'
  BY <1>1 DEF Get, Faithful, Present, Copied, Place, Passing, table, nvs,
     update, count, trouble
<1>7. Loading'
  BY <1>1 DEF Get, Loading, Place, Ints, table, nvs, update, count, trouble
<1> QED
  BY <1>2, <1>3, <1>4, <1>5, <1>6, <1>7 DEF IInv

LEMMA IncrementIInv == ASSUME IInv, Increment PROVE IInv'
<1>1. TypeOK /\ Place /\ Counting /\ Settled /\ Faithful /\ Loading
  BY DEF IInv
<1>2. /\ pc = "increment" /\ pc' = "wait" /\ starts' = starts + 1 /\ owed' = TRUE
      /\ updated' = TRUE
      /\ UNCHANGED <<initialized, locked, flash, possible, first_pass, idx, blank,
                     dirty, got, settled, sets, failed, doubt>>
  BY DEF Increment, nvs, update, trouble
<1>3. initialized /\ ~first_pass /\ ~locked /\ starts < MaxStarts
  BY <1>1, <1>2 DEF Place, Passing, Counting, Counted
<1>4. starts \in Nat /\ MaxStarts \in Nat /\ settled \in 0 .. starts /\ got \in Compiled .. starts
  BY <1>1, NvmAssumption DEF TypeOK, Counting
<1>5. got + 1 \in Value /\ starts' \in 0 .. MaxStarts /\ settled \in 0 .. starts'
      /\ got + 1 \in Compiled .. starts' /\ got \in Compiled .. starts' /\ got < starts'
      /\ settled < starts'
  BY <1>2, <1>3, <1>4, Constants DEF Compiled
<1>6. /\ ram' \in [Param -> Value] /\ ram'[Counter] = got + 1
      /\ \A p \in Param : p # Counter => ram'[p] = ram[p]
  BY <1>1, <1>5, Constants DEF Increment, TypeOK
<1>7. TypeOK'
  BY <1>1, <1>2, <1>5, <1>6 DEF TypeOK
<1>8. Place'
  BY <1>1, <1>2, <1>3 DEF Place, Passing
<1>9. Counting'
  <2>1. possible[Counter] \subseteq {Absent} \cup Compiled .. starts'
    BY <1>1, <1>2, <1>4 DEF Counting, Compiled
  <2> QED
    BY <1>2, <1>3, <1>5, <1>6, <2>1 DEF Counting, Counted
<1>10. Settled'
  <2> SUFFICES ASSUME ~doubt PROVE (Settled!2)'
    BY <1>2 DEF Settled
  <2>1. settled <= got
    BY <1>1, <1>2, <1>3 DEF Settled, Counting, Loaded
  <2> QED
    BY <1>1, <1>2, <1>4, <1>6, <2>1 DEF Settled, SettledCount, Compiled
<1>11. Faithful' /\ Loading'
  BY <1>1, <1>2, <1>3 DEF Faithful, Loading, Present
<1> QED
  BY <1>7, <1>8, <1>9, <1>10, <1>11 DEF IInv

LEMMA CheckUpdatedIInv == ASSUME IInv, CheckUpdated PROVE IInv'
<1>1. TypeOK /\ Place /\ Counting /\ Settled /\ Faithful /\ Loading
  BY DEF IInv
<1>2. TypeOK'
  BY <1>1, Constants
  DEF CheckUpdated, TypeOK, table, nvs, update, count, trouble
<1>3. Place'
  BY <1>1, Constants
  DEF CheckUpdated, Place, Passing, table, nvs, update, count, trouble
<1>4. Counting'
  BY <1>1, Constants DEF CheckUpdated, Counting, Counted, Compiled, Place,
     Passing, table, nvs, update, count, trouble
<1>5. Settled'
  BY <1>1, Constants
  DEF CheckUpdated, Settled, Counted, Loaded, SettledCount, Place, Passing,
     table, nvs, update, count, trouble
<1>6. Faithful'
  BY <1>1 DEF CheckUpdated, Faithful, Present, Copied, Place, Passing, table,
     nvs, update, count, trouble
<1>7. Loading'
  BY <1>1
  DEF CheckUpdated, Loading, Place, Ints, table, nvs, update, count, trouble
<1> QED
  BY <1>2, <1>3, <1>4, <1>5, <1>6, <1>7 DEF IInv

LEMMA TakeIInv == ASSUME IInv, Take PROVE IInv'
<1>1. TypeOK /\ Place /\ Counting /\ Settled /\ Faithful /\ Loading
  BY DEF IInv
<1>2. TypeOK'
  BY <1>1, Constants DEF Take, TypeOK, table, nvs, update, count, trouble
<1>3. Place'
  BY <1>1, Constants
  DEF Take, Place, Passing, table, nvs, update, count, trouble
<1>4. Counting'
  BY <1>1, Constants DEF Take, Counting, Counted, Compiled, Place, Passing,
     table, nvs, update, count, trouble
<1>5. Settled'
  BY <1>1, Constants
  DEF Take, Settled, Counted, Loaded, SettledCount, Place, Passing,
     table, nvs, update, count, trouble
<1>6. Faithful'
  BY <1>1 DEF Take, Faithful, Present, Copied, Place, Passing, table, nvs,
     update, count, trouble
<1>7. Loading'
  BY <1>1 DEF Take, Loading, Place, Ints, table, nvs, update, count, trouble
<1> QED
  BY <1>2, <1>3, <1>4, <1>5, <1>6, <1>7 DEF IInv

LEMMA OtherTasksIInv == ASSUME IInv, OtherTasks PROVE IInv'
<1> PICK p \in Param \ {Counter}, v \in Client : Set(p, v)
  BY DEF OtherTasks
<1>1. TypeOK /\ Place /\ Counting /\ Settled /\ Faithful /\ Loading
  BY DEF IInv
<1>2. /\ initialized /\ ~locked /\ updated' = TRUE
      /\ sets < MaxSets /\ sets' = sets + 1
      /\ UNCHANGED <<initialized, locked, flash, possible, pc, first_pass, idx,
                     blank, dirty, got, starts, settled, owed, failed, doubt>>
  BY DEF Set, nvs, update, count, trouble
<1>3. ~first_pass /\ pc \notin Passing
  BY <1>1, <1>2 DEF Place
<1>4. ram' \in [Param -> Value] /\ ram'[Counter] = ram[Counter]
  BY <1>1, Constants DEF Set, TypeOK
<1>5. sets' \in 0 .. MaxSets
  BY <1>1, <1>2, NvmAssumption DEF TypeOK
<1>6. TypeOK'
  BY <1>1, <1>2, <1>4, <1>5 DEF TypeOK
<1>7. Place'
  BY <1>1, <1>2 DEF Place, Passing
<1>8. Counting' /\ Settled'
  BY <1>1, <1>2, <1>4 DEF Counting, Settled, SettledCount, Counted, Loaded
<1>9. Faithful' /\ Loading'
  BY <1>1, <1>2, <1>3 DEF Faithful, Loading, Present, Passing
<1> QED
  BY <1>6, <1>7, <1>8, <1>9 DEF IInv

-----------------------------------------------------------------------------
(* IInv is inductive.                                                      *)
LEMMA NextIInv == ASSUME IInv, [Next]_vars PROVE IInv'
<1>1. CASE UNCHANGED vars
  BY <1>1 DEF vars, table, nvs, update, count, trouble, IInv, TypeOK, Place,
     Counting, Settled, Faithful, Loading, Counted, Loaded, SettledCount,
     Present, Copied
<1>2. CASE NvmTask
  BY <1>2, InitFlashIInv, OpenIInv, ReadEntryIInv, ReadFailsIInv,
     WriteEntryIInv, CommitIInv, ReturnIInv, GetIInv, IncrementIInv,
     CheckUpdatedIInv, TakeIInv DEF NvmTask
<1>3. CASE OtherTasks \/ PowerLoss
  BY <1>3, OtherTasksIInv, PowerLossIInv
<1> QED
  BY <1>1, <1>2, <1>3 DEF Next

LEMMA Invariance == Spec => []IInv
BY InitIInv, NextIInv, PTL DEF Spec

(* Every variable keeps its type; in particular no boot count, in RAM or   *)
(* in the flash, leaves the range of the starts.                           *)
THEOREM TypeCorrect == Spec => []TypeOK
<1>1. IInv => TypeOK
  BY DEF IInv
<1> QED
  BY <1>1, Invariance, PTL

(* The boot count a start may find is at most the number of starts that    *)
(* counted themselves, whatever _update_nvm was doing when the power went. *)
THEOREM NoneCountsTwice == Spec => []NotOvercounted
<1>1. IInv => NotOvercounted
  BY DEF IInv, TypeOK, Counting, NotOvercounted, Compiled
<1> QED
  BY <1>1, Invariance, PTL

(* Unless the flash refused to be read, no start whose count a commit      *)
(* confirmed is ever lost from it.                                         *)
THEOREM CommittedStartsCount == Spec => []NoStartLost
<1>1. IInv => NoStartLost
  BY DEF IInv, Settled, NoStartLost
<1> QED
  BY <1>1, Invariance, PTL

(* When the task waits with no update noted and nothing has failed, the    *)
(* flash holds every parameter as it is.                                   *)
THEOREM WaitingMeansSaved == Spec => []CleanMeansSaved
<1>1. IInv => CleanMeansSaved
  <2> SUFFICES ASSUME IInv, pc = "wait", ~updated, ~failed, NEW p \in Param
               PROVE  possible[p] = {ram[p]}
    BY DEF CleanMeansSaved
  <2>1. p < Count
    BY NvmAssumption DEF Param
  <2>2. possible[p] = {flash[p]} /\ flash[p] = ram[p]
    BY <2>1 DEF IInv, Faithful, Place, Copied
  <2> QED
    BY <2>2
<1> QED
  BY <1>1, Invariance, PTL

-----------------------------------------------------------------------------
(* The int parameters as the store of Parameters: what Promise puts for    *)
(* value, kept and calls.                                                  *)
Values == [p \in Ints |-> IF initialized THEN ram[p] ELSE Off]
Kept   == [p \in Ints |-> {Norm(v) : v \in possible[p]}]
Calls  == IF Counted THEN sets + 1 ELSE sets

LEMMA PromiseStutter ==
  ASSUME UNCHANGED <<Values, Kept, Calls, failed>>
  PROVE  UNCHANGED Promise!vars
BY DEF Promise!vars, Values, Kept, Calls, Norm, Counted

(* The device is up once nvm_init has returned, as nothing set is Off.     *)
LEMMA PromiseUp ==
  ASSUME TypeOK, initialized, ~failed
  PROVE  Promise!Up
<1>1. Values[Counter] = ram[Counter] /\ ram[Counter] \in Value
  BY Constants DEF Values, TypeOK
<1>2. Promise!AllOff[Counter] = Off
  BY Constants DEF Promise!AllOff
<1>3. Values # Promise!AllOff
  BY <1>1, <1>2, NvmAssumption
<1> QED
  BY <1>3 DEF Promise!Up, Values

(* Whatever a call that failed left behind, the store promised nothing.    *)
LEMMA PromiseFails ==
  ASSUME TypeOK', failed'
  PROVE  Promise!Fail
<1>1. Values' \in [Ints -> Value \cup {Off}]
  BY DEF Values, TypeOK, Ints
<1>2. Kept' \in [Ints -> SUBSET Value]
  <2>1. \A p \in Ints : \A v \in possible'[p] : Norm(v) \in Value
    BY Constants DEF TypeOK, Ints, Norm
  <2> QED
    BY <2>1 DEF Kept
<1> QED
  BY <1>1, <1>2 DEF Promise!Fail, Values, Kept, Norm

LEMMA PowerLossKeeps == ASSUME IInv, PowerLoss PROVE Promise!PowerLoss
<1>1. /\ \A p \in Ints : possible'[p] = {flash'[p]} /\ flash'[p] \in possible[p]
      /\ \A p \in Ints : flash'[p] \in Value \cup {Absent}
      /\ initialized' = FALSE /\ sets' = 0 /\ failed' = FALSE
  BY DEF PowerLoss, Ints
<1>2. Values' = Promise!AllOff
  BY <1>1 DEF Values, Promise!AllOff
<1>3. \A p \in Ints : Kept'[p] = {Norm(flash'[p])} /\ Norm(flash'[p]) \in Value
  BY <1>1, Constants DEF Kept, Norm
<1>4. Kept' \in [Ints -> { {v} : v \in Value }]
  BY <1>3 DEF Kept
<1>5. \A p \in Ints : Kept'[p] \subseteq Kept[p]
  BY <1>1, <1>3 DEF Kept
<1>6. Calls' = 0
  BY <1>1 DEF Calls, Counted
<1> QED
  BY <1>1, <1>2, <1>4, <1>5, <1>6
  DEF Promise!PowerLoss, Values, Kept, Calls, Norm, Counted

(* An entry that is written becomes one of those a start may find; at the  *)
(* first update it is the default, which an absent entry stood for.        *)
LEMMA WriteEntryKeeps ==
  ASSUME IInv, WriteEntry, ~failed'
  PROVE  UNCHANGED Promise!vars \/ \E p \in Ints : Promise!Write(p)
<1>1. TypeOK /\ Place /\ Faithful /\ Loading /\ ~failed
  BY DEF IInv, WriteEntry, Works, Fails, trouble
<1>2. /\ pc = "write" /\ idx \in Param
      /\ possible' = [possible EXCEPT ![idx] = @ \cup {Written}]
      /\ UNCHANGED <<ram, initialized, sets, failed>>
  BY <1>1 DEF WriteEntry, TypeOK, Works, Fails, trouble, table
<1>3. pc' \in {"read", "commit"}
  BY <1>2, NextEntryIndex DEF WriteEntry
<1>4. UNCHANGED <<Values, Calls>>
  BY <1>2, <1>3 DEF Values, Calls, Counted
<1>5. \A p \in Ints : possible'[p] = IF p = idx THEN possible[p] \cup {Written}
                                                ELSE possible[p]
  BY <1>1, <1>2 DEF TypeOK, Ints
<1>6. CASE idx \notin Ints
  BY <1>2, <1>4, <1>5, <1>6, PromiseStutter DEF Kept
<1>7. CASE idx \in Ints
  <2>1. Written = ram[idx] /\ Norm(ram[idx]) = ram[idx]
    BY <1>1, <1>2, <1>7, WrittenValue, Constants DEF Norm
  <2>2. Kept'[idx] = Kept[idx] \cup {ram[idx]}
    BY <1>5, <1>7, <2>1 DEF Kept
  <2>3. \A p \in Ints : p # idx => Kept'[p] = Kept[p]
    BY <1>5 DEF Kept
  <2>4. CASE initialized
    <3>1. Kept' = [Kept EXCEPT ![idx] = @ \cup {Values[idx]}]
      BY <1>7, <2>2, <2>3, <2>4 DEF Kept, Values
    <3>2. Promise!Up
      BY <1>1, <2>4, PromiseUp
    <3>3. PICK p \in Ints : p = idx
      BY <1>7
    <3>4. Promise!Write(p)
      BY <1>2, <1>4, <3>1, <3>2, <3>3
      DEF Promise!Write, Values, Kept, Calls, Norm, Counted
    <3> QED
      BY <3>4
  <2>5. CASE ~initialized
    <3>1. flash[idx] = Absent /\ ram[idx] = Default
          /\ flash[idx] \in possible[idx]
      BY <1>1, <1>2, <1>7, <2>5 DEF Loading, Place, TypeOK
    <3>2. ram[idx] \in Kept[idx]
      BY <1>7, <3>1 DEF Kept, Norm
    <3>3. Kept' = Kept
      BY <2>2, <2>3, <3>2 DEF Kept
    <3> QED
      BY <1>2, <1>4, <3>3, PromiseStutter
  <2> QED
    BY <2>4, <2>5
<1> QED
  BY <1>6, <1>7

(* A commit saves the table as it is; the first one, which only fills in   *)
(* defaults, changes nothing for the store.                                *)
LEMMA CommitKeeps ==
  ASSUME IInv, Commit, ~failed'
  PROVE  UNCHANGED Promise!vars \/ Promise!Save
<1>1. TypeOK /\ Place /\ Faithful /\ Loading /\ ~failed /\ ~failed'
  BY DEF IInv, Commit, Works, Fails, trouble
<1>2. /\ pc = "commit" /\ pc' = "return" /\ idx = Count
      /\ UNCHANGED <<ram, initialized, sets, failed>>
  BY <1>1 DEF Commit, Works, Fails, trouble, table, Place
<1>3. UNCHANGED <<Values, Calls>>
  BY <1>2 DEF Values, Calls, Counted
<1>4. CASE UNCHANGED possible
  BY <1>2, <1>3, <1>4, PromiseStutter DEF Kept
<1>5. CASE possible' = [p \in Param |-> {flash[p]}]
  <2>1. \A p \in Ints : Kept'[p] = {Norm(flash[p])}
    BY <1>5 DEF Kept, Ints
  <2>2. CASE initialized
    <3>1. \A p \in Param : p < Count
      BY NvmAssumption DEF Param
    <3>2. \A p \in Ints : flash[p] = ram[p] /\ ram[p] \in Value
      BY <1>1, <1>2, <2>2, <3>1
      DEF Faithful, Copied, Place, Passing, TypeOK, Ints
    <3>3. \A p \in Ints : Kept'[p] = {Values[p]}
      BY <2>1, <2>2, <3>2, Constants DEF Norm, Values
    <3>4. Kept' = [p \in Ints |-> {Values[p]}]
      BY <3>3 DEF Kept
    <3>5. Promise!Up
      BY <1>1, <2>2, PromiseUp
    <3>6. Promise!Save
      BY <1>2, <1>3, <3>4, <3>5
      DEF Promise!Save, Promise!AllSaved, Values, Kept, Calls, Norm, Counted
    <3> QED
      BY <3>6
  <2>3. CASE ~initialized
    <3>1. \A p \in Ints : /\ flash[p] \in possible[p]
                          /\ \A v \in possible[p] : Norm(v) = Norm(flash[p])
      BY <1>1, <2>3 DEF Loading, Place, TypeOK, Ints
    <3>2. \A p \in Ints : Kept[p] = {Norm(flash[p])}
      BY <3>1 DEF Kept
    <3>3. Kept' = Kept
      BY <2>1, <3>2 DEF Kept
    <3> QED
      BY <1>2, <1>3, <3>3, PromiseStutter
  <2> QED
    BY <2>2, <2>3
<1> QED
  BY <1>4, <1>5 DEF Commit

(* nvm_init returns with what the flash held.                              *)
LEMMA ReturnKeeps ==
  ASSUME IInv, Return, ~failed
  PROVE  UNCHANGED Promise!vars \/ Promise!Start
<1>1. TypeOK /\ Place /\ Loading /\ ~failed
  BY DEF IInv
<1>2. /\ pc = "return" /\ initialized' = TRUE
      /\ pc' = IF initialized THEN "wait" ELSE "get"
      /\ UNCHANGED <<ram, possible, sets, failed>>
  BY DEF Return, nvs, trouble
<1>3. Kept' = Kept
  BY <1>2 DEF Kept
<1>4. CASE initialized
  <2>1. UNCHANGED <<Values, Calls>>
    BY <1>2, <1>4 DEF Values, Calls, Counted
  <2> QED
    BY <1>2, <1>3, <2>1, PromiseStutter
<1>5. CASE ~initialized
  <2>1. Values = Promise!AllOff
    BY <1>5 DEF Values, Promise!AllOff
  <2>2. UNCHANGED Calls
    BY <1>2, <1>5 DEF Calls, Counted
  <2>3. Values' \in [Ints -> Value] /\ \A p \in Ints : Values'[p] = ram[p]
    BY <1>1, <1>2 DEF Values, TypeOK, Ints
  <2>4. \A p \in Ints :
          /\ flash[p] \in possible[p] /\ ram[p] = Norm(flash[p])
          /\ \A v \in possible[p] : Norm(v) = Norm(flash[p])
    BY <1>1, <1>2, <1>5 DEF Loading, Place, TypeOK, Ints
  <2>5. \A p \in Ints : Kept[p] = {Values'[p]}
    BY <2>3, <2>4 DEF Kept
  <2>6. Promise!Start
    BY <1>1, <1>2, <1>3, <2>1, <2>2, <2>3, <2>5
    DEF Promise!Start, Values, Kept, Calls, Norm, Counted
  <2> QED
    BY <2>6
<1> QED
  BY <1>4, <1>5

(* A set is a call to nvm_set_param: the task's own, of the boot count, and *)
(* those of other tasks.  One of a float or a blob is not seen.            *)
LEMMA SetKeeps ==
  ASSUME IInv, Increment \/ OtherTasks, ~failed
  PROVE  \E p \in Ints, v \in Value : Promise!Set(p, v)
<1>1. TypeOK /\ Place /\ Counting
  BY DEF IInv
<1>2. PICK p \in Param, v \in Value : ram' = [ram EXCEPT ![p] = v]
  <2>1. CASE Increment
    <3>1. ~Counted /\ got \in Compiled .. starts /\ starts < MaxStarts
      BY <1>1, <2>1 DEF Counting, Counted, Increment
    <3>2. got + 1 \in Value
      BY <1>1, <3>1, Constants, NvmAssumption DEF TypeOK, Compiled
    <3> QED
      BY <2>1, <3>2, Constants DEF Increment
  <2>2. CASE OtherTasks
    BY <2>2, Constants DEF OtherTasks, Set
  <2> QED
    BY <2>1, <2>2
<1>3. initialized /\ UNCHANGED <<initialized, possible, failed>>
  BY <1>1 DEF Increment, OtherTasks, Set, Place, nvs, trouble
<1>4. Kept' = Kept
  BY <1>3 DEF Kept
<1>5. Calls' = Calls + 1
  <2>1. CASE Increment
    BY <1>3, <2>1 DEF Calls, Counted, Increment
  <2>2. CASE OtherTasks
    <3>1. sets' = sets + 1 /\ pc' = pc
      BY <2>2 DEF OtherTasks, Set
    <3> QED
      BY <1>3, <3>1 DEF Calls, Counted
  <2> QED
    BY <2>1, <2>2
<1>6. Promise!Up
  BY <1>1, <1>3, PromiseUp
<1>7. CASE p \in Ints
  <2>1. Values' = [Values EXCEPT ![p] = v]
    BY <1>1, <1>2, <1>3, <1>7 DEF Values, TypeOK, Ints
  <2>2. Promise!Set(p, v)
    BY <1>3, <1>4, <1>5, <1>6, <2>1
    DEF Promise!Set, Values, Kept, Calls, Norm, Counted
  <2> QED
    BY <1>7, <2>2
<1>8. CASE p \notin Ints
  <2>1. PICK w \in Value : w = ram[Counter]
    BY <1>1, Constants DEF TypeOK
  <2>2. Values' = [Values EXCEPT ![Counter] = w]
    BY <1>1, <1>2, <1>3, <1>8, <2>1, Constants DEF Values, TypeOK, Ints
  <2>3. Promise!Set(Counter, w)
    BY <1>3, <1>4, <1>5, <1>6, <2>2
    DEF Promise!Set, Values, Kept, Calls, Norm, Counted
  <2> QED
    BY <2>3, Constants
<1> QED
  BY <1>7, <1>8

(* What the remaining steps of the task do is not seen.                    *)
LEMMA OtherStepsKeep ==
  ASSUME IInv, ~failed',
         \/ InitFlash \/ Open \/ ReadEntry \/ ReadFails
         \/ Get \/ CheckUpdated \/ Take
         \/ UNCHANGED vars
  PROVE  UNCHANGED Promise!vars
<1>1. TypeOK /\ Place
  BY DEF IInv
<1>2. UNCHANGED <<initialized, possible, sets, failed>>
  BY DEF InitFlash, Open, ReadEntry, ReadFails, Get, CheckUpdated, Take, vars,
     Works, Fails, table, nvs, trouble
<1>3. UNCHANGED Values
  <2>1. CASE initialized
    <3>1. UNCHANGED ram
      <4>1. CASE ReadFails
        <5>1. idx \in Param /\ idx < Count
          BY <1>1, <4>1, NvmAssumption DEF ReadFails, TypeOK, Param
        <5>2. flash[idx] = Absent
          BY <4>1 DEF ReadFails, Fails
        <5> QED
          BY <1>2, <2>1, <5>1, <5>2 DEF IInv, Faithful, Present
      <4>2. CASE ~ReadFails
        BY <1>1, <2>1, <4>2 DEF InitFlash, Open, ReadEntry, Get, CheckUpdated,
           Take, vars, table, Place
      <4> QED
        BY <4>1, <4>2
    <3> QED
      BY <1>2, <3>1 DEF Values
  <2>2. CASE ~initialized
    BY <1>2, <2>2 DEF Values
  <2> QED
    BY <2>1, <2>2
<1>4. UNCHANGED Calls
  <2>1. Counted' <=> Counted
    BY <1>1, <1>2
    DEF Counted, Place, InitFlash, Open, ReadEntry, ReadFails, Get,
       CheckUpdated, Take, NextEntry, vars
  <2> QED
    BY <1>2, <2>1 DEF Calls
<1> QED
  BY <1>2, <1>3, <1>4, PromiseStutter DEF Kept

LEMMA PromiseInit == Init => Promise!Init
<1> SUFFICES ASSUME Init PROVE Promise!Init
  OBVIOUS
<1>1. Values = Promise!AllOff
  BY DEF Init, Values, Promise!AllOff
<1>2. Kept = [p \in Ints |-> {Default}]
  BY DEF Init, Kept, Norm, Ints
<1>3. Calls = 0
  BY DEF Init, Calls, Counted
<1> QED
  BY <1>1, <1>2, <1>3
  DEF Promise!Init, Init, Values, Kept, Calls, Norm, Counted

LEMMA PromiseStep == IInv /\ [Next]_vars => [Promise!Next]_(Promise!vars)
<1> SUFFICES ASSUME IInv, [Next]_vars PROVE Promise!Next \/ UNCHANGED Promise!vars
  BY DEF Promise!vars
<1>1. CASE PowerLoss
  BY <1>1, PowerLossKeeps DEF Promise!Next
<1>2. CASE failed'
  <2>1. TypeOK'
    BY NextIInv DEF IInv
  <2> QED
    BY <1>2, <2>1, PromiseFails DEF Promise!Next
<1>3. CASE ~PowerLoss /\ ~failed'
  <2>1. ~failed
    BY <1>3 DEF Next, NvmTask, OtherTasks, Set, InitFlash, Open, ReadEntry,
       ReadFails, WriteEntry, Commit, Return, Get, Increment, CheckUpdated,
       Take,
       Works, Fails, trouble, vars
  <2>2. CASE WriteEntry
    BY <1>3, <2>2, WriteEntryKeeps DEF Promise!Next
  <2>3. CASE Commit
    BY <1>3, <2>3, CommitKeeps DEF Promise!Next
  <2>4. CASE Return
    BY <2>1, <2>4, ReturnKeeps DEF Promise!Next
  <2>5. CASE Increment \/ OtherTasks
    BY <2>1, <2>5, SetKeeps DEF Promise!Next
  <2>6. CASE \/ InitFlash \/ Open \/ ReadEntry \/ ReadFails
             \/ Get \/ CheckUpdated \/ Take
             \/ UNCHANGED vars
    BY <1>3, <2>6, OtherStepsKeep
  <2> QED
    BY <1>3, <2>2, <2>3, <2>4, <2>5, <2>6 DEF Next, NvmTask
<1> QED
  BY <1>1, <1>2, <1>3

(* nvm.c keeps what nvm.h promises of the int parameters, but for the      *)
(* promise that what is set is saved in the end, which is a liveness       *)
(* property: it is ImplementsParameters without its fairness.              *)
THEOREM Refinement == Spec => Promise!Init /\ [][Promise!Next]_(Promise!vars)
BY PromiseInit, PromiseStep, Invariance, PTL DEF Spec
=============================================================================
