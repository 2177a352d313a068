--------------------------- MODULE LogRingProofs ----------------------------
(***************************************************************************)
(* Proofs about LogRing for every buffer size and every number of drains.  *)
(* Everything about the ring is said with one number, how far an index is  *)
(* behind fill_idx; the first lemmas are its arithmetic.                   *)
(***************************************************************************)
EXTENDS LogRing, TLAPS

Index == 0..(Size - 1)

\* Behind and After as functions of the indices alone, in a buffer in use.
Gap(f, i) == IF i <= f THEN f - i ELSE f - i + Size
Succ(i)   == IF i + 1 >= Size THEN 0 ELSE i + 1

LEMMA SuccIndex == ASSUME NEW i \in Index PROVE Succ(i) \in Index /\ Succ(i) # i
BY LogRingAssumption DEF Succ, Index

LEMMA GapRange ==
  ASSUME NEW f \in Index, NEW i \in Index
  PROVE  Gap(f, i) \in 0..(Size - 1) /\ (Gap(f, i) = 0 <=> i = f)
BY LogRingAssumption DEF Gap, Index

(* Filling in a byte puts everyone one further behind, except that the     *)
(* byte to be overwritten next is the newest one from there on.            *)
LEMMA GapFill ==
  ASSUME NEW f \in Index, NEW i \in Index
  PROVE  /\ i = Succ(f) <=> Gap(f, i) = Size - 1
         /\ i = Succ(f) => Gap(Succ(f), i) = 0
         /\ i # Succ(f) => Gap(Succ(f), i) = Gap(f, i) + 1
BY LogRingAssumption DEF Gap, Succ, Index

(* A reader that would get to the front is pushed on to the oldest byte.   *)
LEMMA GapPush ==
  ASSUME NEW f \in Index, NEW d \in Index
  PROVE  Gap(Succ(f), IF d = Succ(f) THEN Succ(d) ELSE d)
           = IF Gap(f, d) = Size - 1 THEN Size - 1 ELSE Gap(f, d) + 1
BY LogRingAssumption DEF Gap, Succ, Index

LEMMA GapTake ==
  ASSUME NEW f \in Index, NEW i \in Index, i # f
  PROVE  Gap(f, Succ(i)) = Gap(f, i) - 1
BY LogRingAssumption DEF Gap, Succ, Index

-----------------------------------------------------------------------------
\* Before debug_clear the buffer has no length and keeps nothing.
Unused ==
  /\ buffer_length = 0
  /\ fill_idx = 0
  /\ drains = [h \in Handle |-> "NULL"]
  /\ drain_idx = [h \in Handle |-> 0]
  /\ written = 0

\* The null drain is where the oldest byte kept is.
NullIsOldest ==
  Behind(drain_idx[null_handle]) = IF written > Size - 1 THEN Size - 1 ELSE written

IInv ==
  /\ TypeOK
  /\ pc = "clear" => Unused
  /\ pc # "clear" => buffer_length = Size
  /\ NullIsOldest
  /\ NullIsLast
  /\ Intact
  /\ pc = "take" => idx # null_handle
  /\ pc # "take" => chunk = << >>

LEMMA BehindIsGap ==
  ASSUME TypeOK, NEW i \in Index
  PROVE  Behind(i) = Gap(fill_idx, i) /\ Behind(i) \in 0..(Size - 1)
BY GapRange DEF Behind, Gap, TypeOK, Index

LEMMA AfterIsSucc ==
  ASSUME buffer_length = Size, NEW i \in Index
  PROVE  After(i) = Succ(i)
BY DEF After, Succ

LEMMA NullHandle == null_handle \in Handle
BY LogRingAssumption DEF null_handle, Handle

LEMMA InitIInv == Init => IInv
<1> SUFFICES ASSUME Init PROVE IInv
  OBVIOUS
<1>1. TypeOK
  BY LogRingAssumption DEF Init, TypeOK, Handle
<1>2. \A h \in Handle : Behind(drain_idx[h]) = 0
  BY DEF Init, Behind
<1>3. NullIsOldest
  BY <1>2, NullHandle, LogRingAssumption DEF NullIsOldest, Init
<1>4. NullIsLast
  BY <1>2, NullHandle DEF NullIsLast
<1>5. Intact
  <2> SUFFICES ASSUME NEW h \in Handle, NEW i \in 0..(Size - 1),
                      0 < Behind(i), Behind(i) <= Behind(drain_idx[h])
               PROVE  FALSE
    BY DEF Intact
  <2>1. Behind(i) \in 0..(Size - 1)
    BY <1>1, BehindIsGap DEF Index
  <2> QED
    BY <1>2, <2>1
<1> QED
  BY <1>1, <1>3, <1>4, <1>5 DEF IInv, Unused, Init

-----------------------------------------------------------------------------
(* What a byte filled in does to the indices of a buffer in use.           *)
LEMMA FillGaps ==
  ASSUME IInv, BufferFill, buffer_length = Size
  PROVE  /\ TypeOK'
         /\ fill_idx' = Succ(fill_idx)
         /\ written' = written + 1
         /\ \A h \in Handle : Behind(drain_idx[h])' =
              IF Behind(drain_idx[h]) = Size - 1 THEN Size - 1
                                                 ELSE Behind(drain_idx[h]) + 1
<1>1. TypeOK
  BY DEF IInv
<1>2. fill_idx \in Index /\ \A h \in Handle : drain_idx[h] \in Index
  BY <1>1 DEF TypeOK, Index
<1>3. fill_idx' = Succ(fill_idx)
  BY <1>2, AfterIsSucc DEF BufferFill
<1>4. drain_idx' = [h \in Handle |->
        IF drain_idx[h] = Succ(fill_idx) THEN Succ(drain_idx[h]) ELSE drain_idx[h]]
  BY <1>2, <1>3, AfterIsSucc DEF BufferFill
<1>5. written' = written + 1
  BY LogRingAssumption DEF BufferFill
<1>6. fill_idx' \in Index /\ drain_idx' \in [Handle -> Index]
  BY <1>2, <1>3, <1>4, SuccIndex
<1>7. TypeOK'
  <2>1. left' \in Nat /\ written' \in Nat
    BY <1>1, <1>5 DEF BufferFill, TypeOK
  <2>2. data' \in [0..(Size - 1) -> Nat]
    BY <1>1 DEF BufferFill, TypeOK
  <2>3. UNCHANGED <<pc, idx, chunk, buffer_length, drains>>
    BY DEF BufferFill, round
  <2> QED
    BY <1>1, <1>6, <2>1, <2>2, <2>3 DEF TypeOK, Index
<1>8. ASSUME NEW h \in Handle
      PROVE  Behind(drain_idx[h])' =
               IF Behind(drain_idx[h]) = Size - 1 THEN Size - 1
                                                  ELSE Behind(drain_idx[h]) + 1
  <2>1. Behind(drain_idx[h]) = Gap(fill_idx, drain_idx[h])
    BY <1>1, <1>2, BehindIsGap
  <2>2. Behind(drain_idx[h])' = Gap(fill_idx', drain_idx'[h])
    BY DEF Behind, Gap
  <2> QED
    BY <1>2, <1>3, <1>4, <2>1, <2>2, GapPush
<1> QED
  BY <1>3, <1>5, <1>7, <1>8

LEMMA FillIInv == ASSUME IInv, BufferFill PROVE IInv'
<1>1. CASE pc = "clear"
  <2>1. Unused
    BY <1>1 DEF IInv
  <2>2. fill_idx' = 0 /\ drain_idx' = drain_idx /\ written' = 0
    BY <2>1 DEF BufferFill, Unused, After
  <2>3. UNCHANGED <<pc, idx, chunk, buffer_length, drains>> /\ left' \in Nat
    BY DEF BufferFill, round, IInv, TypeOK
  <2>4. data' \in [0..(Size - 1) -> Nat]
    BY DEF BufferFill, IInv, TypeOK
  <2>5. TypeOK'
    BY <2>1, <2>2, <2>3, <2>4 DEF IInv, TypeOK, Unused
  <2>6. \A h \in Handle : Behind(drain_idx[h])' = 0
    BY <2>1, <2>2 DEF Unused, Behind
  <2>7. NullIsOldest'
    BY <2>2, <2>6, NullHandle, LogRingAssumption DEF NullIsOldest
  <2>8. NullIsLast'
    BY <2>6, NullHandle DEF NullIsLast
  <2>9. Intact'
    <3> SUFFICES ASSUME NEW h \in Handle, NEW i \in 0..(Size - 1),
                        0 < Behind(i)', Behind(i)' <= Behind(drain_idx[h])'
                 PROVE  FALSE
      BY DEF Intact
    <3>1. Behind(i)' \in Int
      BY <2>2, LogRingAssumption DEF Behind
    <3> QED
      BY <2>6, <3>1
  <2> QED
    BY <1>1, <2>1, <2>2, <2>3, <2>5, <2>7, <2>8, <2>9 DEF IInv, Unused
<1>2. CASE pc # "clear"
  <2>1. TypeOK /\ buffer_length = Size
    BY <1>2 DEF IInv
  <2> DEFINE G(h) == Behind(drain_idx[h])
  <2>2. /\ TypeOK' /\ fill_idx' = Succ(fill_idx) /\ written' = written + 1
        /\ \A h \in Handle : Behind(drain_idx[h])' =
              IF G(h) = Size - 1 THEN Size - 1 ELSE G(h) + 1
    BY <2>1, FillGaps
  <2>3. \A h \in Handle : G(h) \in 0..(Size - 1) /\ G(h) <= G(null_handle)
    BY <2>1, BehindIsGap DEF IInv, NullIsLast, TypeOK, Index
  <2>4. written \in Nat /\ Size \in Nat /\ Size > 1
    BY <2>1, LogRingAssumption DEF TypeOK
  <2>5. UNCHANGED <<pc, idx, chunk, buffer_length>>
    BY DEF BufferFill, round
  <2>6. NullIsOldest'
    <3>1. G(null_handle) = IF written > Size - 1 THEN Size - 1 ELSE written
      BY DEF IInv, NullIsOldest
    <3>2. null_handle' = null_handle
      BY DEF null_handle
    <3> HIDE DEF G
    <3>3. Behind(drain_idx[null_handle])' =
            IF G(null_handle) = Size - 1 THEN Size - 1 ELSE G(null_handle) + 1
      BY <2>2, <3>2, NullHandle
    <3>4. Behind(drain_idx[null_handle])' =
            IF written + 1 > Size - 1 THEN Size - 1 ELSE written + 1
      BY <2>4, <3>1, <3>3
    <3> QED
      BY <2>2, <3>4 DEF NullIsOldest
  <2>7. NullIsLast'
    <3> SUFFICES ASSUME NEW h \in Handle
                 PROVE  Behind(drain_idx[h])' <= Behind(drain_idx[null_handle])'
      BY DEF NullIsLast
    <3> HIDE DEF G
    <3>1. Behind(drain_idx[null_handle])' =
            IF G(null_handle) = Size - 1 THEN Size - 1 ELSE G(null_handle) + 1
      BY <2>2, NullHandle
    <3> QED
      BY <2>2, <2>3, <2>4, <3>1, NullHandle
  <2>8. Intact'
    <3> SUFFICES ASSUME NEW h \in Handle, NEW i \in Index,
                        0 < Behind(i)', Behind(i)' <= Behind(drain_idx[h])'
                 PROVE  data'[i] = written' - Behind(i)'
      BY DEF Intact, Index
    <3>1. fill_idx \in Index /\ drain_idx[h] \in Index
      BY <2>1 DEF TypeOK, Index
    <3>2. Behind(i)' = Gap(Succ(fill_idx), i) /\ Behind(i) = Gap(fill_idx, i)
      BY <2>1, <2>2, BehindIsGap DEF Behind, Gap
    <3>3. Gap(fill_idx, i) \in 0..(Size - 1) /\ (Gap(fill_idx, i) = 0 <=> i = fill_idx)
      BY <3>1, GapRange
    <3>4. i # Succ(fill_idx) /\ Behind(i)' = Behind(i) + 1
      BY <3>1, <3>2, <3>3, GapFill
    <3>5. CASE i = fill_idx
      <4>1. data'[i] = written
        BY <2>1, <3>5 DEF BufferFill, TypeOK, Index
      <4> QED
        BY <2>2, <2>4, <3>2, <3>3, <3>4, <3>5, <4>1
    <3>6. CASE i # fill_idx
      <4>1. data'[i] = data[i]
        BY <2>1, <3>6 DEF BufferFill, TypeOK, Index
      <4>2. 0 < Behind(i) /\ Behind(i) <= Behind(drain_idx[h])
        BY <2>2, <2>3, <2>4, <3>2, <3>3, <3>4, <3>6
      <4>3. data[i] = written - Behind(i)
        BY <4>2 DEF IInv, Intact, Index
      <4> QED
        BY <2>2, <2>4, <3>2, <3>3, <3>4, <4>1, <4>3
    <3> QED
      BY <3>5, <3>6
  <2> QED
    BY <1>2, <2>1, <2>2, <2>5, <2>6, <2>7, <2>8 DEF IInv
<1> QED
  BY <1>1, <1>2

-----------------------------------------------------------------------------
(* A reader that takes a byte gets the one it is to get next.              *)
LEMMA TakeGaps ==
  ASSUME IInv, TakeByte
  PROVE  /\ TypeOK'
         /\ idx # null_handle /\ buffer_length = Size
         /\ 0 < Behind(drain_idx[idx])
         /\ chunk' = Append(chunk, written - Behind(drain_idx[idx]))
         /\ \A h \in Handle : Behind(drain_idx[h])' =
              IF h = idx THEN Behind(drain_idx[h]) - 1 ELSE Behind(drain_idx[h])
<1>1. TypeOK /\ idx # null_handle /\ buffer_length = Size
  BY DEF IInv, TakeByte
<1>2. fill_idx \in Index /\ idx \in Handle /\ \A h \in Handle : drain_idx[h] \in Index
  BY <1>1 DEF TypeOK, Index
<1>3. drain_idx[idx] # fill_idx
  BY DEF TakeByte, More
<1>4. 0 < Behind(drain_idx[idx])
  BY <1>1, <1>2, <1>3, BehindIsGap, GapRange
<1>5. data[drain_idx[idx]] = written - Behind(drain_idx[idx])
  BY <1>1, <1>2, <1>4, BehindIsGap DEF IInv, Intact, Index
<1>6. drain_idx' = [drain_idx EXCEPT ![idx] = Succ(drain_idx[idx])]
  BY <1>1, <1>2, AfterIsSucc DEF TakeByte
<1>7. UNCHANGED <<pc, idx, left, data, buffer_length, fill_idx, written, drains>>
  BY DEF TakeByte, ring
<1>8. TypeOK'
  <2>1. drain_idx' \in [Handle -> Index]
    BY <1>1, <1>2, <1>6, SuccIndex DEF TypeOK, Index
  <2>2. data[drain_idx[idx]] \in Nat
    BY <1>1, <1>2 DEF TypeOK, Index
  <2>3. chunk' \in Seq(Nat)
    BY <1>1, <2>2 DEF TakeByte, TypeOK
  <2> QED
    BY <1>1, <1>7, <2>1, <2>3 DEF TypeOK, Index
<1>9. ASSUME NEW h \in Handle
      PROVE  Behind(drain_idx[h])' =
               IF h = idx THEN Behind(drain_idx[h]) - 1 ELSE Behind(drain_idx[h])
  <2>1. Behind(drain_idx[h])' = Gap(fill_idx, drain_idx'[h])
    BY <1>7 DEF Behind, Gap
  <2>2. Behind(drain_idx[h]) = Gap(fill_idx, drain_idx[h])
    BY <1>1, <1>2, BehindIsGap
  <2>3. drain_idx'[h] = IF h = idx THEN Succ(drain_idx[h]) ELSE drain_idx[h]
    BY <1>1, <1>2, <1>6 DEF TypeOK
  <2> QED
    BY <1>2, <1>3, <2>1, <2>2, <2>3, GapTake
<1> QED
  BY <1>1, <1>4, <1>5, <1>8, <1>9 DEF TakeByte

LEMMA TakeIInv == ASSUME IInv, TakeByte PROVE IInv'
<1> DEFINE G(h) == Behind(drain_idx[h])
<1>1. /\ TypeOK' /\ idx # null_handle /\ buffer_length = Size /\ 0 < G(idx)
      /\ \A h \in Handle : Behind(drain_idx[h])' =
           IF h = idx THEN G(h) - 1 ELSE G(h)
  BY TakeGaps
<1>2. pc = "take" /\ UNCHANGED <<pc, idx, data, buffer_length, fill_idx, written>>
  BY DEF TakeByte, ring
<1>3. \A h \in Handle : G(h) \in 0..(Size - 1) /\ G(h) <= G(null_handle)
  BY BehindIsGap DEF IInv, NullIsLast, TypeOK, Index
<1>4. Behind(drain_idx[null_handle])' = G(null_handle)
  BY <1>1, NullHandle DEF null_handle
<1>5. NullIsOldest'
  BY <1>2, <1>4 DEF IInv, NullIsOldest
<1>6. NullIsLast'
  <2> SUFFICES ASSUME NEW h \in Handle
               PROVE  Behind(drain_idx[h])' <= Behind(drain_idx[null_handle])'
    BY DEF NullIsLast
  <2> HIDE DEF G
  <2> QED
    BY <1>1, <1>3, <1>4, NullHandle
<1>7. Intact'
  <2> SUFFICES ASSUME NEW h \in Handle, NEW i \in Index,
                      0 < Behind(i)', Behind(i)' <= Behind(drain_idx[h])'
               PROVE  data'[i] = written' - Behind(i)'
    BY DEF Intact, Index
  <2>1. Behind(i)' = Behind(i) /\ Behind(i) \in 0..(Size - 1)
    BY <1>2, BehindIsGap DEF Behind, IInv
  <2>2. Behind(i) <= G(h)
    <3> HIDE DEF G
    <3> QED
      BY <1>1, <1>3, <2>1
  <2> QED
    BY <1>2, <2>1, <2>2 DEF IInv, Intact, Index
<1> QED
  BY <1>1, <1>2, <1>5, <1>6, <1>7 DEF IInv

-----------------------------------------------------------------------------
LEMMA ReserveGaps ==
  ASSUME IInv, buffer_length = Size, NEW f \in {"null", "uart", "socket"}, Reserve(f)
  PROVE  /\ UNCHANGED <<left, data, buffer_length, fill_idx, written>>
         /\ drains' \in [Handle -> {"NULL", "null", "uart", "socket"}]
         /\ drain_idx' \in [Handle -> Index]
         /\ \E r \in Handle : \A h \in Handle : Behind(drain_idx[h])' =
              IF h = r THEN Behind(drain_idx[null_handle]) ELSE Behind(drain_idx[h])
<1>1. UNCHANGED <<left, data, buffer_length, fill_idx, written>>
  BY DEF Reserve, ring
<1>2. PICK r \in Handle :
        /\ drains' = [drains EXCEPT ![r] = f]
        /\ drain_idx' = [drain_idx EXCEPT ![r] = drain_idx[null_handle]]
  BY DEF Reserve
<1>3. drain_idx \in [Handle -> Index] /\ null_handle \in Handle
  BY NullHandle DEF IInv, TypeOK, Index
<1>4. drains' \in [Handle -> {"NULL", "null", "uart", "socket"}]
  BY <1>2 DEF IInv, TypeOK
<1>5. drain_idx' \in [Handle -> Index]
  BY <1>2, <1>3
<1>6. \A h \in Handle : Behind(drain_idx[h])' =
        IF h = r THEN Behind(drain_idx[null_handle]) ELSE Behind(drain_idx[h])
  BY <1>1, <1>2, <1>3 DEF Behind
<1> QED
  BY <1>1, <1>4, <1>5, <1>6

\* The steps of _debug_task and the wifi task that reserve a handle.
Reserving == ReserveNull \/ ReserveUart \/ ReserveSocket

LEMMA ReservingReserves ==
  ASSUME IInv, Reserving
  PROVE  /\ \E f \in {"null", "uart", "socket"} : Reserve(f)
         /\ buffer_length = Size
         /\ pc' \in {"reserve_uart", "sleep"} /\ pc # "take"
         /\ UNCHANGED <<idx, chunk>>
BY DEF Reserving, ReserveNull, ReserveUart, ReserveSocket, IInv, round

LEMMA ReserveIInv == ASSUME IInv, Reserving PROVE IInv'
<1> DEFINE G(h) == Behind(drain_idx[h])
<1>1. /\ buffer_length = Size /\ UNCHANGED <<idx, chunk>>
      /\ pc' \in {"reserve_uart", "sleep"} /\ pc # "take"
  BY ReservingReserves
<1>2. PICK f \in {"null", "uart", "socket"} : Reserve(f)
  BY ReservingReserves
<1>3. /\ UNCHANGED <<left, data, buffer_length, fill_idx, written>>
      /\ drains' \in [Handle -> {"NULL", "null", "uart", "socket"}]
      /\ drain_idx' \in [Handle -> Index]
  BY <1>1, <1>2, ReserveGaps
<1>4. PICK r \in Handle : \A h \in Handle : Behind(drain_idx[h])' =
        IF h = r THEN G(null_handle) ELSE G(h)
  BY <1>1, <1>2, ReserveGaps
<1>5. TypeOK'
  BY <1>1, <1>3 DEF IInv, TypeOK, Index
<1>6. Behind(drain_idx[null_handle])' = G(null_handle)
  BY <1>4, NullHandle DEF null_handle
<1>7. NullIsOldest'
  BY <1>3, <1>6 DEF IInv, NullIsOldest
<1>8. NullIsLast'
  <2>1. \A h \in Handle : G(h) \in 0..(Size - 1) /\ G(h) <= G(null_handle)
    BY BehindIsGap DEF IInv, NullIsLast, TypeOK, Index
  <2> SUFFICES ASSUME NEW h \in Handle
               PROVE  Behind(drain_idx[h])' <= Behind(drain_idx[null_handle])'
    BY DEF NullIsLast
  <2> HIDE DEF G
  <2> QED
    BY <1>4, <1>6, <2>1, NullHandle
<1>9. Intact'
  <2> SUFFICES ASSUME NEW h \in Handle, NEW i \in Index,
                      0 < Behind(i)', Behind(i)' <= Behind(drain_idx[h])'
               PROVE  data'[i] = written' - Behind(i)'
    BY DEF Intact, Index
  <2>1. Behind(i)' = Behind(i)
    BY <1>3 DEF Behind
  <2>2. \E g \in Handle : Behind(i) <= G(g)
    BY <1>4, <2>1, NullHandle
  <2> QED
    BY <1>3, <2>1, <2>2 DEF IInv, Intact, Index
<1> QED
  BY <1>1, <1>3, <1>5, <1>7, <1>8, <1>9 DEF IInv

-----------------------------------------------------------------------------
(* Steps that leave the ring and its indices alone.                        *)
LEMMA SameRingIInv ==
  ASSUME IInv, TypeOK',
         UNCHANGED <<data, buffer_length, fill_idx, drain_idx, written>>,
         pc # "clear", pc' # "clear",
         pc' = "take" => idx' # null_handle,
         pc' # "take" => chunk' = << >>
  PROVE  IInv'
<1>1. NullIsOldest' /\ NullIsLast' /\ Intact'
  BY DEF IInv, NullIsOldest, NullIsLast, Intact, Behind, null_handle
<1> QED
  BY <1>1 DEF IInv

LEMMA ClearedIInv ==
  ASSUME TypeOK', pc' # "take", chunk' = << >>,
         fill_idx' = 0, written' = 0, drain_idx' = [h \in Handle |-> 0],
         pc' = "clear" => Unused',
         pc' # "clear" => buffer_length' = Size
  PROVE  IInv'
<1>1. \A h \in Handle : Behind(drain_idx[h])' = 0
  BY DEF Behind
<1>2. NullIsOldest'
  BY <1>1, NullHandle, LogRingAssumption DEF NullIsOldest
<1>3. NullIsLast'
  BY <1>1, NullHandle DEF NullIsLast
<1>4. Intact'
  <2> SUFFICES ASSUME NEW h \in Handle, NEW i \in 0..(Size - 1),
                      0 < Behind(i)', Behind(i)' <= Behind(drain_idx[h])'
               PROVE  FALSE
    BY DEF Intact
  <2>1. Behind(i)' \in Int
    BY LogRingAssumption DEF Behind
  <2> QED
    BY <1>1, <2>1
<1> QED
  BY <1>2, <1>3, <1>4 DEF IInv

(* One step per action of Next.                                            *)
LEMMA StepIInv == IInv /\ [Next]_vars => IInv'
<1> SUFFICES ASSUME IInv, [Next]_vars PROVE IInv'
  OBVIOUS
<1>0. TypeOK
  BY DEF IInv
<1>1. CASE BufferFill
  BY <1>1, FillIInv
<1>2. CASE TakeByte
  BY <1>2, TakeIInv
<1>3. CASE ReserveNull \/ ReserveUart \/ ReserveSocket
  BY <1>3, ReserveIInv DEF Reserving
<1>4. ASSUME NEW n \in 1..MaxPrint, WriteStdout(n) PROVE IInv'
  <2>1. UNCHANGED <<pc, idx, chunk, data, buffer_length, fill_idx, drain_idx,
                    written, drains>> /\ left' \in Nat
    BY <1>4 DEF WriteStdout, round, ring
  <2>2. TypeOK'
    BY <1>0, <2>1 DEF TypeOK
  <2>3. CASE pc = "clear"
    BY <1>0, <2>1, <2>2, <2>3, ClearedIInv DEF IInv, Unused
  <2>4. CASE pc # "clear"
    BY <2>1, <2>2, <2>4, SameRingIInv DEF IInv
  <2> QED
    BY <2>3, <2>4
<1>5. CASE Clear
  <2>1. Unused /\ chunk = << >>
    BY <1>5 DEF Clear, IInv
  <2>2. TypeOK'
    BY <1>0, <1>5, LogRingAssumption DEF Clear, TypeOK
  <2> QED
    BY <1>5, <2>1, <2>2, ClearedIInv DEF Clear, Unused
<1>6. ASSUME NEW h \in Handle, Release(h) PROVE IInv'
  <2>1. pc # "clear"
    <3>1. pc = "clear" => drains[h] = "NULL"
      BY DEF IInv, Unused
    <3> QED
      BY <1>6, <3>1 DEF Release
  <2>2. UNCHANGED <<pc, idx, chunk, left, data, buffer_length, fill_idx, written,
                    drain_idx>>
    BY <1>6 DEF Release, round, ring
  <2>3. TypeOK'
    BY <1>0, <1>6, <2>2 DEF Release, TypeOK
  <2> QED
    BY <2>1, <2>2, <2>3, SameRingIInv DEF IInv
<1>7. CASE Round \/ Check \/ Deliver
  <2>1. /\ pc \in {"sleep", "check", "take"} /\ pc' \in {"sleep", "check", "take", "crashed"}
        /\ UNCHANGED <<left, data, buffer_length, fill_idx, written, drains, drain_idx>>
    BY <1>7 DEF Round, Check, Deliver, Advance, ring
  <2>2. idx' \in Handle
    <3>1. idx \in Handle /\ (Advance => idx' \in Handle)
      BY <1>0, LogRingAssumption DEF Advance, TypeOK, Handle
    <3>2. 0 \in Handle
      BY LogRingAssumption DEF Handle
    <3> QED
      BY <1>7, <3>1, <3>2 DEF Round, Check, Deliver
  <2>3. chunk' = << >> /\ (pc' = "take" => idx' # null_handle)
    <3>1. Advance => pc' # "take"
      BY DEF Advance
    <3> QED
      BY <1>7, <3>1 DEF Round, Check, Deliver, IInv
  <2>4. TypeOK'
    BY <1>0, <2>1, <2>2, <2>3 DEF TypeOK
  <2> QED
    BY <2>1, <2>3, <2>4, SameRingIInv
<1>8. CASE Restart
  <2>1. TypeOK'
    BY <1>0, <1>8, LogRingAssumption DEF Restart, TypeOK, Handle
  <2>2. chunk' = << >> /\ Unused' /\ pc' = "clear"
    BY <1>8 DEF Restart, Unused, IInv
  <2> QED
    BY <2>1, <2>2, ClearedIInv DEF Unused
<1>9. CASE UNCHANGED vars
  <2>1. UNCHANGED <<pc, idx, chunk, left, data, buffer_length, fill_idx, written,
                    drains, drain_idx>>
    BY <1>9 DEF vars, round, ring
  <2>2. NullIsOldest' /\ NullIsLast' /\ Intact'
    BY <2>1 DEF IInv, NullIsOldest, NullIsLast, Intact, Behind, null_handle
  <2> QED
    BY <2>1, <2>2 DEF IInv, TypeOK, Unused
<1> QED
  BY <1>1, <1>2, <1>3, <1>4, <1>5, <1>6, <1>7, <1>8, <1>9 DEF Next, DebugTask

(* IInv holds in every state of every behaviour.                           *)
THEOREM Invariance == Spec => []IInv
BY InitIInv, StepIInv, PTL DEF Spec

\* The indices of the ring, the lengths and the handles are of their types.
THEOREM TypeCorrect == Spec => []TypeOK
BY Invariance, PTL DEF IInv

\* No reader is further behind than the null drain, which _debug_task skips.
THEOREM NullDrainIsLast == Spec => []NullIsLast
BY Invariance, PTL DEF IInv

\* Whatever print overwrites, what a reader has still to read is unharmed.
THEOREM UnreadBytesAreIntact == Spec => []Intact
BY Invariance, PTL DEF IInv

-----------------------------------------------------------------------------
(* The ring implements the stream, step by step.                           *)

\* next of Stream.
NextByte == [h \in Handle |-> written - Behind(drain_idx[h])]

LEMMA GapBounds ==
  ASSUME IInv, NEW h \in Handle
  PROVE  /\ Behind(drain_idx[h]) \in 0..(Size - 1)
         /\ Behind(drain_idx[h]) <= written
<1>1. /\ Behind(drain_idx[h]) \in 0..(Size - 1)
      /\ Behind(drain_idx[null_handle]) \in 0..(Size - 1)
  BY BehindIsGap, NullHandle DEF IInv, TypeOK, Index
<1>2. Behind(drain_idx[h]) <= Behind(drain_idx[null_handle])
  BY DEF IInv, NullIsLast
<1>3. Behind(drain_idx[null_handle]) <= written
  BY LogRingAssumption DEF IInv, NullIsOldest, TypeOK
<1> QED
  BY <1>1, <1>2, <1>3 DEF IInv, TypeOK

LEMMA StreamInit == Init => Stream!Init
<1> SUFFICES ASSUME Init PROVE Stream!Init
  OBVIOUS
<1>1. NextByte = [h \in Handle |-> 0]
  BY DEF Init, NextByte, Behind
<1> QED
  BY <1>1 DEF Stream!Init, Init, NextByte

LEMMA FillWrites ==
  ASSUME IInv, BufferFill
  PROVE  Stream!Write \/ UNCHANGED Stream!vars
<1>1. CASE pc = "clear"
  <2>1. Unused
    BY <1>1 DEF IInv
  <2>2. fill_idx' = 0 /\ drain_idx' = drain_idx /\ written' = written /\ chunk' = chunk
    BY <2>1 DEF BufferFill, Unused, After, round
  <2>3. NextByte' = NextByte
    BY <2>1, <2>2 DEF Unused, NextByte, Behind
  <2> QED
    BY <2>2, <2>3 DEF Stream!vars, NextByte
<1>2. CASE pc # "clear"
  <2> DEFINE G(h) == Behind(drain_idx[h])
  <2>1. /\ written' = written + 1
        /\ \A h \in Handle : Behind(drain_idx[h])' =
             IF G(h) = Size - 1 THEN Size - 1 ELSE G(h) + 1
    BY <1>2, FillGaps DEF IInv
  <2>2. chunk' = chunk
    BY DEF BufferFill, round
  <2>3. ASSUME NEW h \in Handle
        PROVE  written' - Behind(drain_idx[h])' =
                 IF NextByte[h] < Stream!Oldest(written + 1)
                   THEN Stream!Oldest(written + 1) ELSE NextByte[h]
    <3>1. /\ G(h) \in 0..(Size - 1) /\ G(h) <= written
          /\ written \in Nat /\ Size \in Nat /\ Size > 1
      BY GapBounds, LogRingAssumption DEF IInv, TypeOK
    <3>2. NextByte[h] = written - G(h)
      BY DEF NextByte
    <3>3. Behind(drain_idx[h])' = IF G(h) = Size - 1 THEN Size - 1 ELSE G(h) + 1
      BY <2>1
    <3> HIDE DEF G
    <3> QED
      BY <2>1, <3>1, <3>2, <3>3 DEF Stream!Oldest
  <2> QED
    BY <2>1, <2>2, <2>3 DEF Stream!Write, NextByte
<1> QED
  BY <1>1, <1>2

LEMMA TakeTakes ==
  ASSUME IInv, TakeByte
  PROVE  \E r \in Handle : Stream!Take(r)
<1> DEFINE G(h) == Behind(drain_idx[h])
<1>1. /\ 0 < G(idx)
      /\ chunk' = Append(chunk, written - G(idx))
      /\ \A h \in Handle : Behind(drain_idx[h])' = IF h = idx THEN G(h) - 1 ELSE G(h)
  BY TakeGaps
<1>2. written' = written /\ idx \in Handle /\ written \in Nat
  BY DEF TakeByte, ring, IInv, TypeOK
<1>3. \A h \in Handle : G(h) \in Int
  BY GapBounds
<1>4. NextByte[idx] = written - G(idx) /\ NextByte[idx] < written
  <2>1. NextByte[idx] = written - G(idx)
    BY <1>2 DEF NextByte
  <2> HIDE DEF G
  <2> QED
    BY <1>1, <1>2, <1>3, <2>1
<1>5. NextByte' = [NextByte EXCEPT ![idx] = @ + 1]
  <2>1. NextByte' = [h \in Handle |-> written - (IF h = idx THEN G(h) - 1 ELSE G(h))]
    BY <1>1, <1>2 DEF NextByte
  <2>2. NextByte = [h \in Handle |-> written - G(h)]
    BY DEF NextByte
  <2> HIDE DEF G
  <2> QED
    BY <1>2, <1>3, <2>1, <2>2
<1>6. Stream!Take(idx)
  BY <1>1, <1>2, <1>4, <1>5 DEF Stream!Take, NextByte
<1> QED
  BY <1>2, <1>6

LEMMA ReserveRewinds ==
  ASSUME IInv, Reserving
  PROVE  \E r \in Handle : Stream!Rewind(r)
<1> DEFINE G(h) == Behind(drain_idx[h])
<1>1. buffer_length = Size /\ UNCHANGED chunk
  BY ReservingReserves
<1>2. PICK f \in {"null", "uart", "socket"} : Reserve(f)
  BY ReservingReserves
<1>3. written' = written
  BY <1>1, <1>2, ReserveGaps
<1>4. PICK r \in Handle : \A h \in Handle : Behind(drain_idx[h])' =
        IF h = r THEN G(null_handle) ELSE G(h)
  BY <1>1, <1>2, ReserveGaps
<1>5. written - G(null_handle) = Stream!Oldest(written)
  BY LogRingAssumption DEF IInv, TypeOK, NullIsOldest, Stream!Oldest
<1>6. NextByte' = [NextByte EXCEPT ![r] = Stream!Oldest(written)]
  <2>1. NextByte' = [h \in Handle |->
                       written - (IF h = r THEN G(null_handle) ELSE G(h))]
    BY <1>3, <1>4 DEF NextByte
  <2>2. NextByte = [h \in Handle |-> written - G(h)]
    BY DEF NextByte
  <2> HIDE DEF G
  <2> QED
    BY <1>5, <2>1, <2>2
<1>7. Stream!Rewind(r)
  BY <1>1, <1>3, <1>6 DEF Stream!Rewind, NextByte
<1> QED
  BY <1>7

LEMMA StreamStep == IInv /\ [Next]_vars => [Stream!Next]_(Stream!vars)
<1> SUFFICES ASSUME IInv, [Next]_vars PROVE Stream!Next \/ UNCHANGED Stream!vars
  BY DEF Stream!vars
<1>1. CASE BufferFill
  BY <1>1, FillWrites DEF Stream!Next
<1>2. CASE TakeByte
  BY <1>2, TakeTakes DEF Stream!Next
<1>3. CASE Reserving
  BY <1>3, ReserveRewinds DEF Stream!Next
<1>4. CASE Deliver
  <2>1. chunk' = << >> /\ UNCHANGED <<written, fill_idx, drain_idx>>
    BY <1>4 DEF Deliver, ring
  <2>2. NextByte' = NextByte
    BY <2>1 DEF NextByte, Behind
  <2> QED
    BY <2>1, <2>2 DEF Stream!Next, Stream!Deliver, NextByte
<1>5. CASE Clear
  <2>1. Unused
    BY <1>5 DEF Clear, IInv
  <2>2. fill_idx' = fill_idx /\ UNCHANGED <<written, chunk, drain_idx>>
    BY <1>5, <2>1 DEF Clear, Unused
  <2>3. NextByte' = NextByte
    BY <2>2 DEF NextByte, Behind
  <2> QED
    BY <2>2, <2>3 DEF Stream!vars, NextByte
<1>6. CASE Restart
  <2>1. chunk' = << >> /\ written' = 0 /\ fill_idx' = 0
        /\ drain_idx' = [h \in Handle |-> 0]
    BY <1>6 DEF Restart, IInv
  <2>2. NextByte' = [h \in Handle |-> 0]
    BY <2>1 DEF NextByte, Behind
  <2> QED
    BY <2>1, <2>2 DEF Stream!Next, Stream!Restart, NextByte
<1>7. CASE \/ \E n \in 1..MaxPrint : WriteStdout(n)
           \/ \E h \in Handle : Release(h)
           \/ Round \/ Check
           \/ UNCHANGED vars
  <2>1. UNCHANGED <<written, chunk, fill_idx, drain_idx>>
    BY <1>7 DEF WriteStdout, Release, Round, Check, vars, round, ring
  <2>2. NextByte' = NextByte
    BY <2>1 DEF NextByte, Behind
  <2> QED
    BY <2>1, <2>2 DEF Stream!vars, NextByte
<1> QED
  BY <1>1, <1>2, <1>3, <1>4, <1>5, <1>6, <1>7 DEF Next, DebugTask, Reserving

\* Whatever is printed, reserved and released, in whatever order, each reader
\* gets the bytes of the log once and in order, or skips to the oldest kept.
THEOREM Refinement == Spec => ReadersGetTheStream
<1>1. Init /\ [][Next]_vars => Stream!Init /\ [][Stream!Next]_(Stream!vars)
  BY StreamInit, StreamStep, Invariance, PTL DEF Spec
<1> QED
  BY <1>1 DEF Spec, ReadersGetTheStream, Stream!Spec
=============================================================================
