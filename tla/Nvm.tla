-------------------------------- MODULE Nvm --------------------------------
(***************************************************************************)
(* The non-volatile parameters: nvm.c, and the flash library (NVS) as it   *)
(* uses it.  One task loads the table, counts the start, and then copies   *)
(* what other tasks set to the flash, once a second at most.  A parameter  *)
(* is read, compared and written in a step each, and between any two steps *)
(* the power may go.                                                       *)
(***************************************************************************)
EXTENDS Integers

CONSTANTS Count,      \* NVM_PARAM_COUNT
          Kind,       \* Kind[p]: the parameter's nvm_parameter_type_t
          Client,     \* the values other tasks set
          Faults,     \* the calls to the flash that may fail
          MaxStarts,  \* bound on starts of the device
          MaxSets,    \* bound on sets by other tasks, per start
          Absent,     \* a key the flash does not have
          Garbage,    \* what an uninitialised buffer holds
          Off

Param == 0 .. Count - 1
Counter == 0              \* NVM_PARAM_RESET_COUNTER

\* Counting begins at one.
BugDefault == 1

Default == 0              \* default_value of every parameter
Compiled == -1            \* value_int before the table is loaded

Value == {Compiled, Garbage} \cup Client \cup 0 .. MaxStarts

ASSUME NvmAssumption ==
  /\ Count \in Nat \ {0}
  /\ Kind \in [Param -> {"int", "float", "blob"}]
  /\ Kind[Counter] = "int"
  /\ Client \subseteq Int
  /\ Faults \subseteq {"init", "open", "read", "erase", "write", "commit"}
  /\ MaxStarts \in Nat \ {0} /\ MaxSets \in Nat
  /\ Absent \notin Value /\ Garbage \notin Int /\ Off \notin Value

VARIABLES ram,          \* nvm_params[p].value
          updated,      \* nvm_params_updated
          initialized,  \* s_initialized
          locked,       \* _nvm_task holds s_access_mutex
          flash,        \* flash[p]: what nvs_get finds
          possible,     \* possible[p]: what it may find after a power loss
          pc,           \* the task's next step
          first_pass,   \* first_pass of _update_nvm
          idx,          \* the loop of _update_nvm
          blank,        \* the entry could not be read: temp_blob is not filled
          dirty,        \* table_dirty
          got,          \* the count read to be incremented
          starts,       \* ghost: starts that counted themselves
          settled,      \* ghost: those whose count a commit confirmed
          owed,         \* ghost: this start counted itself and is not settled
          sets,         \* ghost: sets by other tasks since the start
          failed,       \* ghost: a call has failed since the start
          doubt         \* ghost: the flash has ever refused to be read

table == <<ram, updated, initialized, locked>>
nvs == <<flash, possible>>
update == <<first_pass, idx, blank, dirty>>
count == <<got, starts, settled, owed>>
trouble == <<failed, doubt>>
vars == <<table, nvs, pc, update, count, sets, trouble>>

TypeOK ==
  /\ ram \in [Param -> Value]
  /\ updated \in BOOLEAN /\ initialized \in BOOLEAN /\ locked \in BOOLEAN
  /\ flash \in [Param -> Value \cup {Absent}]
  /\ possible \in [Param -> SUBSET (Value \cup {Absent})]
  /\ \A p \in Param : flash[p] \in possible[p]
  /\ pc \in {"init", "open", "read", "write", "commit", "return", "get",
             "increment", "wait", "take"}
  /\ first_pass \in BOOLEAN /\ blank \in BOOLEAN /\ dirty \in BOOLEAN
  /\ idx \in 0 .. Count
  /\ pc \in {"read", "write"} => idx \in Param
  /\ got \in Value
  /\ starts \in 0 .. MaxStarts /\ settled \in 0 .. starts /\ owed \in BOOLEAN
  /\ sets \in 0 .. MaxSets
  /\ failed \in BOOLEAN /\ doubt \in BOOLEAN

-----------------------------------------------------------------------------
\* A start finds in RAM the .data and .bss of nvm.c.
Init ==
  /\ ram = [p \in Param |-> Compiled]
  /\ updated = FALSE /\ initialized = FALSE /\ locked = FALSE
  /\ pc = "init"
  /\ first_pass = TRUE /\ idx = 0 /\ blank = FALSE /\ dirty = FALSE
  /\ got = Compiled /\ owed = FALSE
  /\ sets = 0 /\ failed = FALSE /\ doubt = FALSE
  /\ flash = [p \in Param |-> Absent]
  /\ possible = [p \in Param |-> {Absent}]
  /\ starts = 0 /\ settled = 0

\* The flash holds what some call left in each entry; RAM starts anew.
PowerLoss ==
  /\ starts < MaxStarts
  /\ flash' \in [Param -> Value \cup {Absent}]
  /\ \A p \in Param : flash'[p] \in possible[p]
  /\ possible' = [p \in Param |-> {flash'[p]}]
  /\ ram' = [p \in Param |-> Compiled]
  /\ updated' = FALSE /\ initialized' = FALSE /\ locked' = FALSE
  /\ pc' = "init"
  /\ first_pass' = TRUE /\ idx' = 0 /\ blank' = FALSE /\ dirty' = FALSE
  /\ got' = Compiled /\ owed' = FALSE
  /\ sets' = 0 /\ failed' = FALSE
  /\ UNCHANGED <<starts, settled, doubt>>

Fails(call) ==
  /\ call \in Faults
  /\ failed' = TRUE
  /\ doubt' = (doubt \/ call \in {"init", "open", "read"})

Works == UNCHANGED trouble

-----------------------------------------------------------------------------
\* The flash is erased whether or not nvs_flash_init fails.
BugInitFlash ==
  /\ pc = "init"
  /\ Works
  /\ flash' = [p \in Param |-> Absent]
  /\ possible' = [p \in Param |-> {Absent}]
  /\ pc' = "open"
  /\ UNCHANGED <<table, update, count, sets>>

\* _nvm_task: a partition with no free page or of another version is erased.
InitFlash ==
  /\ pc = "init"
  /\ \/ Works /\ UNCHANGED nvs
     \/ /\ Fails("init")
        /\ flash' = [p \in Param |-> Absent]
        /\ possible' = [p \in Param |-> {Absent}]
  /\ pc' = "open"
  /\ UNCHANGED <<table, update, count, sets>>

(* _update_nvm *)

Open ==
  /\ pc = "open"
  /\ \/ Works /\ pc' = "read"
     \/ Fails("open") /\ pc' = "return"
  /\ UNCHANGED <<table, nvs, update, count, sets>>

\* One entry past the table.
BugNextEntryPast ==
  /\ idx' = idx + 1
  /\ pc' = IF idx = Count THEN "commit" ELSE "read"

\* The last entry is left out.
BugNextEntryShort ==
  /\ idx' = idx + 1
  /\ pc' = IF idx + 2 >= Count THEN "commit" ELSE "read"

NextEntry ==
  /\ idx' = idx + 1
  /\ pc' = IF idx + 1 = Count THEN "commit" ELSE "read"

Differs == ~first_pass /\ ram[idx] # flash[idx]

\* The entry is loaded at the start; later it is written if it differs.
ReadEntry ==
  /\ pc = "read"
  /\ flash[idx] # Absent
  /\ Works
  /\ ram' = IF first_pass THEN [ram EXCEPT ![idx] = flash[idx]] ELSE ram
  /\ IF Differs THEN pc' = "write" /\ UNCHANGED idx ELSE NextEntry
  /\ UNCHANGED <<updated, initialized, locked, nvs, first_pass, blank, dirty,
                 count, sets>>

\* The key is erased and the default loaded, but a blob stays as it is.
ReadFails ==
  /\ pc = "read"
  /\ \/ flash[idx] = Absent /\ Works /\ UNCHANGED nvs
     \/ /\ flash[idx] # Absent
        /\ Fails("read")
        /\ \/ /\ flash' = [flash EXCEPT ![idx] = Absent]
              /\ possible' = [possible EXCEPT ![idx] = @ \cup {Absent}]
           \/ "erase" \in Faults /\ UNCHANGED nvs
  /\ ram' = IF Kind[idx] = "blob" THEN ram ELSE [ram EXCEPT ![idx] = Default]
  /\ blank' = TRUE
  /\ pc' = "write"
  /\ UNCHANGED <<updated, initialized, locked, first_pass, idx, dirty, count,
                 sets>>

\* nvs_set_blob writes temp_blob: zeros for a blob that could not be read,
\* and for such a float whatever the stack held.
Written ==
  CASE Kind[idx] = "float" /\ blank -> Garbage
    [] Kind[idx] = "blob" /\ blank -> Default
    [] OTHER -> ram[idx]

\* table_dirty is not set.
BugWriteEntry ==
  /\ pc = "write"
  /\ \/ /\ Works
        /\ flash' = [flash EXCEPT ![idx] = Written]
        /\ possible' = [possible EXCEPT ![idx] = @ \cup {Written}]
     \/ Fails("write") /\ UNCHANGED nvs
  /\ blank' = FALSE
  /\ NextEntry
  /\ UNCHANGED <<table, first_pass, dirty, count, sets>>

WriteEntry ==
  /\ pc = "write"
  /\ \/ /\ Works
        /\ flash' = [flash EXCEPT ![idx] = Written]
        /\ possible' = [possible EXCEPT ![idx] = @ \cup {Written}]
     \/ Fails("write") /\ UNCHANGED nvs
  /\ dirty' = TRUE
  /\ blank' = FALSE
  /\ NextEntry
  /\ UNCHANGED <<table, first_pass, count, sets>>

\* A commit that works makes certain what was written.
Commit ==
  /\ pc = "commit"
  /\ \/ ~dirty /\ Works /\ UNCHANGED <<possible, settled, owed>>
     \/ dirty /\ Fails("commit") /\ UNCHANGED <<possible, settled, owed>>
     \/ /\ dirty
        /\ Works
        /\ possible' = [p \in Param |-> {flash[p]}]
        /\ IF owed /\ flash[Counter] = got + 1
             THEN owed' = FALSE /\ settled' = settled + 1
             ELSE UNCHANGED <<owed, settled>>
  /\ pc' = "return"
  /\ idx' = 0 /\ dirty' = FALSE
  /\ UNCHANGED <<table, flash, first_pass, blank, got, starts, sets>>

\* first_pass is not cleared.
BugReturn ==
  /\ pc = "return"
  /\ initialized' = TRUE
  /\ locked' = FALSE
  /\ pc' = IF initialized THEN "wait" ELSE "get"
  /\ UNCHANGED <<ram, updated, nvs, update, count, sets, trouble>>

\* Back in _nvm_task: on to the count, or, after a later update, to the loop.
Return ==
  /\ pc = "return"
  /\ first_pass' = FALSE
  /\ initialized' = TRUE
  /\ locked' = FALSE
  /\ pc' = IF initialized THEN "wait" ELSE "get"
  /\ UNCHANGED <<ram, updated, nvs, idx, blank, dirty, count, sets, trouble>>

-----------------------------------------------------------------------------
(* _nvm_task: the start counts itself, and the loop begins. *)

Get ==
  /\ pc = "get"
  /\ got' = ram[Counter]
  /\ pc' = "increment"
  /\ UNCHANGED <<table, nvs, update, starts, settled, owed, sets,
                 trouble>>

Increment ==
  /\ pc = "increment"
  /\ ram' = [ram EXCEPT ![Counter] = got + 1]
  /\ updated' = TRUE
  /\ starts' = starts + 1 /\ owed' = TRUE
  /\ pc' = "wait"
  /\ UNCHANGED <<initialized, locked, nvs, update, got, settled, sets,
                 trouble>>

\* Once a second, the flag is read before the mutex is taken.
CheckUpdated ==
  /\ pc = "wait"
  /\ pc' = IF updated THEN "take" ELSE "wait"
  /\ UNCHANGED <<table, nvs, update, count, sets, trouble>>

Take ==
  /\ pc = "take"
  /\ locked' = TRUE
  /\ updated' = FALSE
  /\ pc' = "open"
  /\ UNCHANGED <<ram, initialized, nvs, update, count, sets, trouble>>

NvmTask ==
  \/ InitFlash \/ Open \/ ReadEntry \/ ReadFails \/ WriteEntry \/ Commit
  \/ Return \/ Get \/ Increment \/ CheckUpdated \/ Take

-----------------------------------------------------------------------------
(* Other tasks, once nvm_init has returned.  Only _nvm_task holds the      *)
(* mutex for longer than an assignment.                                    *)

Set(p, v) ==
  /\ initialized /\ ~locked
  /\ sets < MaxSets
  /\ ram' = [ram EXCEPT ![p] = v]
  /\ updated' = TRUE
  /\ sets' = sets + 1
  /\ UNCHANGED <<initialized, locked, nvs, pc, update, count, trouble>>

OtherTasks == \E p \in Param \ {Counter}, v \in Client : Set(p, v)

Next == NvmTask \/ OtherTasks \/ PowerLoss

Spec == Init /\ [][Next]_vars /\ WF_vars(NvmTask)

-----------------------------------------------------------------------------
(* Properties *)

\* The boot count is at least the number of starts whose count a commit
\* confirmed.
SettledCount ==
  /\ \A c \in possible[Counter] \ {Absent} : settled <= c
  /\ Absent \in possible[Counter] => settled = 0

\* The boot count a start may find is at most the number of starts that
\* counted themselves, whatever fails and wherever the power goes: the count
\* is written more than once for a start, and none of them counts twice.
NotOvercounted == \A c \in possible[Counter] \ {Absent} : c <= starts

\* As long as the flash could be read at every start, it is at least the
\* number of starts whose count a commit confirmed: no update or failing save
\* takes one back.
NoStartLost == ~doubt => SettledCount

\* The boot count of the starts before is never lowered: once the flash is sure
\* to hold a count, no step of the task or of the flash puts it at risk.
BootCountKept ==
  [][\A n \in 0 .. MaxStarts :
       possible[Counter] = {n} =>
         \A c \in possible'[Counter] : c # Absent /\ n <= c]_vars

\* While no update is noted and the task waits, the flash holds what the
\* parameters are, whatever the power does: the flag read without the mutex,
\* and cleared before the flash is written, loses no set unless a call fails.
CleanMeansSaved ==
  pc = "wait" /\ ~updated /\ ~failed => \A p \in Param : possible[p] = {ram[p]}

\* What is set reaches the flash, unless a call fails or the power goes first.
Saved ==
  updated ~> \/ \A p \in Param : possible[p] = {ram[p]}
             \/ failed
             \/ ~initialized

\* The int parameters implement the store that nvm.h promises.
Ints == {p \in Param : Kind[p] = "int"}

Promise == INSTANCE Parameters WITH
  Param <- Ints,
  Default <- [p \in Ints |-> Default],
  value <- [p \in Ints |-> IF initialized THEN ram[p] ELSE Off],
  kept <- [p \in Ints |->
             {IF v = Absent THEN Default ELSE v : v \in possible[p]}],
  calls <- IF initialized /\ pc \notin {"get", "increment"} THEN sets + 1
                                                         ELSE sets,
  sound <- ~failed

ImplementsParameters == Promise!Spec
=============================================================================
