------------------------------ MODULE LogRing -------------------------------
(***************************************************************************)
(* The log of main/debug.c: the ring buffer that print fills and that      *)
(* _debug_task drains to the UART and to the remote readers.               *)
(*                                                                         *)
(* A step handles one byte.  The buffer's mutex is held while a message is *)
(* filled in (left > 0) and during a round of _debug_task (pc from "check" *)
(* on); debug_release takes no mutex.  A byte is its number in the log, so *)
(* that data shows which byte a reader gets.  Operators named Bug... are   *)
(* defects the properties are tested against; no other definition uses     *)
(* them.                                                                   *)
(***************************************************************************)
EXTENDS Integers, Sequences

CONSTANTS
  Size,       \* _DEBUG_BUFFER_SIZE
  DRAIN_CNT,
  ChunkSize,  \* what io_buffer takes
  MaxPrint,   \* bound: bytes of one message
  MaxBytes    \* bound: bytes printed since start-up

ASSUME LogRingAssumption ==
  /\ Size \in Nat /\ Size > 1
  /\ DRAIN_CNT \in Nat /\ DRAIN_CNT > 1
  /\ ChunkSize \in Nat \ {0}
  /\ MaxPrint \in Nat
  /\ MaxBytes \in Nat

Handle == 0..(DRAIN_CNT - 1)

\* debug_reserve gives out the lowest handle, and _debug_task reserves these
\* first; null_handle is 0 before that, too.
null_handle == 0
uart_handle == 1

VARIABLES
  pc,             \* where _debug_task is
  idx,            \* the drain its loop is at
  chunk,          \* io_buffer
  left,           \* bytes of a message still to be filled in
  data,           \* p_debug_data
  buffer_length,
  fill_idx,
  drains,         \* who reads through each handle
  drain_idx,
  written         \* bytes filled in since debug_clear

round == <<pc, idx, chunk>>
ring  == <<data, buffer_length, fill_idx, written>>
vars  == <<round, left, ring, drains, drain_idx>>

TypeOK ==
  /\ pc \in {"clear", "reserve_null", "reserve_uart", "sleep", "check", "take",
             "crashed"}
  /\ idx \in Handle
  /\ chunk \in Seq(Nat)
  /\ left \in Nat
  /\ data \in [0..(Size - 1) -> Nat]
  /\ buffer_length \in {0, Size}
  /\ fill_idx \in 0..(Size - 1)
  /\ drains \in [Handle -> {"NULL", "null", "uart", "socket"}]
  /\ drain_idx \in [Handle -> 0..(Size - 1)]
  /\ written \in Nat

\* What .bss holds when _debug_task sets initialized.
Init ==
  /\ pc = "clear"
  /\ idx = 0
  /\ chunk = << >>
  /\ left = 0
  /\ data = [i \in 0..(Size - 1) |-> 0]
  /\ buffer_length = 0
  /\ fill_idx = 0
  /\ drains = [h \in Handle |-> "NULL"]
  /\ drain_idx = [h \in Handle |-> 0]
  /\ written = 0

\* Nobody holds the buffer's mutex.
Unlocked == left = 0 /\ pc \notin {"check", "take", "crashed"}

\* The index wraps one byte late.
BugAfter(i) == IF i >= buffer_length THEN 0 ELSE i + 1

\* The index after i.
After(i) == IF i + 1 >= buffer_length THEN 0 ELSE i + 1

-----------------------------------------------------------------------------
(* print.                                                                  *)

WriteStdout(n) ==
  /\ Unlocked
  /\ written + n <= MaxBytes
  /\ left' = n
  /\ UNCHANGED <<round, ring, drains, drain_idx>>

\* The index moves before the byte is stored.
BugBufferFill ==
  /\ left > 0
  /\ left' = left - 1
  /\ fill_idx' = After(fill_idx)
  /\ data' = [data EXCEPT ![fill_idx'] = written]
  /\ drain_idx' = [h \in Handle |->
       IF drain_idx[h] = fill_idx' THEN After(drain_idx[h]) ELSE drain_idx[h]]
  /\ written' = IF buffer_length = 0 THEN written ELSE written + 1
  /\ UNCHANGED <<round, buffer_length, drains>>

\* One turn of the outer loop of _buffer_fill.  Whoever would read the byte
\* that is overwritten next is pushed on.
BufferFill ==
  /\ left > 0
  /\ left' = left - 1
  /\ data' = [data EXCEPT ![fill_idx] = written]
  /\ fill_idx' = After(fill_idx)
  /\ drain_idx' = [h \in Handle |->
       IF drain_idx[h] = fill_idx' THEN After(drain_idx[h]) ELSE drain_idx[h]]
  /\ written' = IF buffer_length = 0 THEN written ELSE written + 1
  /\ UNCHANGED <<round, buffer_length, drains>>

-----------------------------------------------------------------------------
(* debug_clear, debug_reserve, debug_rewind and debug_release.             *)

\* _debug_task clears what it takes for an invalid buffer, at every start-up.
\* The drain indices are not touched.
Clear ==
  /\ pc = "clear"
  /\ Unlocked
  /\ pc' = "reserve_null"
  /\ buffer_length' = Size
  /\ fill_idx' = 0
  /\ written' = 0
  /\ UNCHANGED <<idx, chunk, left, data, drains, drain_idx>>

Free(h) == drains[h] = "NULL" /\ \A g \in Handle : drains[g] = "NULL" => h <= g

\* A new reader starts with what is printed from now on.
BugReserve(drain_func) ==
  /\ Unlocked
  /\ \E h \in Handle :
       /\ Free(h)
       /\ drains' = [drains EXCEPT ![h] = drain_func]
       /\ drain_idx' = [drain_idx EXCEPT ![h] = fill_idx]
  /\ UNCHANGED <<left, ring>>

Reserve(drain_func) ==
  /\ Unlocked
  /\ \E h \in Handle :
       /\ Free(h)
       /\ drains' = [drains EXCEPT ![h] = drain_func]
       /\ drain_idx' = [drain_idx EXCEPT ![h] = drain_idx[null_handle]]
  /\ UNCHANGED <<left, ring>>

ReserveNull ==
  /\ pc = "reserve_null"
  /\ pc' = "reserve_uart"
  /\ Reserve("null")
  /\ UNCHANGED <<idx, chunk>>

ReserveUart ==
  /\ pc = "reserve_uart"
  /\ pc' = "sleep"
  /\ Reserve("uart")
  /\ UNCHANGED <<idx, chunk>>

\* The wifi task, for a socket; it starts long after _debug_task.
ReserveSocket ==
  /\ pc = "sleep"
  /\ Reserve("socket")
  /\ UNCHANGED round

\* The wifi task, at any moment.
Release(h) ==
  /\ drains[h] = "socket"
  /\ pc # "crashed"
  /\ drains' = [drains EXCEPT ![h] = "NULL"]
  /\ UNCHANGED <<round, left, ring, drain_idx>>

-----------------------------------------------------------------------------
(* A round of _debug_task.                                                 *)

Round ==
  /\ pc = "sleep"
  /\ Unlocked
  /\ pc' = "check"
  /\ idx' = 0
  /\ UNCHANGED <<chunk, left, ring, drains, drain_idx>>

\* After the last drain the mutex is given back.
Advance ==
  IF idx + 1 < DRAIN_CNT THEN pc' = "check" /\ idx' = idx + 1
                         ELSE pc' = "sleep" /\ idx' = 0

\* The null drain is drained like the others.
BugCheck ==
  /\ pc = "check"
  /\ IF drains[idx] # "NULL" THEN pc' = "take" /\ UNCHANGED idx ELSE Advance
  /\ UNCHANGED <<chunk, left, ring, drains, drain_idx>>

Check ==
  /\ pc = "check"
  /\ IF drains[idx] # "NULL" /\ idx # null_handle
       THEN pc' = "take" /\ UNCHANGED idx
       ELSE Advance
  /\ UNCHANGED <<chunk, left, ring, drains, drain_idx>>

More == Len(chunk) < ChunkSize /\ drain_idx[idx] # fill_idx

\* One turn of the loop of _debug_drain.
TakeByte ==
  /\ pc = "take"
  /\ More
  /\ chunk' = Append(chunk, data[drain_idx[idx]])
  /\ drain_idx' = [drain_idx EXCEPT ![idx] = After(@)]
  /\ UNCHANGED <<pc, idx, left, ring, drains>>

\* io_buffer is not emptied.
BugDeliver ==
  /\ pc = "take"
  /\ ~More
  /\ Advance
  /\ UNCHANGED <<chunk, left, ring, drains, drain_idx>>

\* Call the drain with what was taken, if anything was.
Deliver ==
  /\ pc = "take"
  /\ ~More
  /\ chunk' = << >>
  /\ IF chunk # << >> /\ drains[idx] = "NULL"
       THEN pc' = "crashed" /\ UNCHANGED idx
       ELSE Advance
  /\ UNCHANGED <<left, ring, drains, drain_idx>>

\* A call through a null pointer restarts the device.
Restart ==
  /\ pc = "crashed"
  /\ pc' = "clear"
  /\ idx' = 0
  /\ left' = 0
  /\ data' = [i \in 0..(Size - 1) |-> 0]
  /\ buffer_length' = 0
  /\ fill_idx' = 0
  /\ drains' = [h \in Handle |-> "NULL"]
  /\ drain_idx' = [h \in Handle |-> 0]
  /\ written' = 0
  /\ UNCHANGED chunk

-----------------------------------------------------------------------------
DebugTask ==
  \/ Clear \/ ReserveNull \/ ReserveUart
  \/ Round \/ Check \/ TakeByte \/ Deliver

Next ==
  \/ \E n \in 1..MaxPrint : WriteStdout(n)
  \/ BufferFill
  \/ ReserveSocket
  \/ \E h \in Handle : Release(h)
  \/ DebugTask
  \/ Restart

Spec == Init /\ [][Next]_vars

\* FreeRTOS shares the processor among the tasks, and nobody keeps the mutex
\* after printing one message.
FairSpec == Spec /\ WF_vars(BufferFill) /\ WF_vars(DebugTask)

-----------------------------------------------------------------------------
(* Properties.                                                             *)

\* How many bytes a reader at index i has still to read.
Behind(i) == IF i <= fill_idx THEN fill_idx - i ELSE fill_idx - i + Size

(* "The null drain keeps track of the lowest fill idx" (main/debug.c:93):  *)
(* nobody is further behind, so rewinding to it loses nothing kept.        *)
NullIsLast ==
  \A h \in Handle : Behind(drain_idx[h]) <= Behind(drain_idx[null_handle])

(* Every byte a reader has still to read is in the buffer, unharmed.       *)
Intact ==
  \A h \in Handle : \A i \in 0..(Size - 1) :
    (0 < Behind(i) /\ Behind(i) <= Behind(drain_idx[h])) =>
       data[i] = written - Behind(i)

(* The ring implements the stream: readers get the bytes in order, and     *)
(* miss some only by falling Size - 1 bytes behind.                        *)
Stream == INSTANCE LogStream WITH
  Reader <- Handle,
  Kept   <- Size - 1,
  next   <- [h \in Handle |-> written - Behind(drain_idx[h])]

ReadersGetTheStream == Stream!Spec

(* The UART catches up with whatever was printed, unless it is overrun.    *)
UartCatchesUp ==
  \A b \in 1..MaxBytes :
    (pc # "clear" /\ written = b) ~>
       (pc = "crashed" \/ written - Behind(drain_idx[uart_handle]) >= b)

(* "if drains[idx] != NULL" (main/debug.c:94): what is called is a drain.  *)
NoNullCall == pc # "crashed"
=============================================================================
