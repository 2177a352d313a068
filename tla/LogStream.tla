----------------------------- MODULE LogStream ------------------------------
(***************************************************************************)
(* What the log promises to whoever reads it, with no buffer to wrap: the  *)
(* bytes printed since start-up form one stream, of which the last Kept    *)
(* are kept.  A reader gets them in order, misses some only when it falls  *)
(* behind by more than Kept, and gets one again only after a rewind, which *)
(* takes it to the oldest byte kept.  A byte is its number in the stream.  *)
(***************************************************************************)
EXTENDS Integers, Sequences

CONSTANTS
  Reader,
  Kept

VARIABLES
  written,  \* how many bytes the stream has
  next,     \* next[r] is the byte that reader r gets next
  chunk     \* the bytes on their way to a reader

vars == <<written, next, chunk>>

Oldest(n) == IF n > Kept THEN n - Kept ELSE 0

Init ==
  /\ written = 0
  /\ next = [r \in Reader |-> 0]
  /\ chunk = << >>

Write ==
  /\ written' = written + 1
  /\ next' = [r \in Reader |->
                IF next[r] < Oldest(written + 1) THEN Oldest(written + 1) ELSE next[r]]
  /\ UNCHANGED chunk

Take(r) ==
  /\ next[r] < written
  /\ next' = [next EXCEPT ![r] = @ + 1]
  /\ chunk' = Append(chunk, next[r])
  /\ UNCHANGED written

Deliver ==
  /\ chunk' = << >>
  /\ UNCHANGED <<written, next>>

Rewind(r) ==
  /\ next' = [next EXCEPT ![r] = Oldest(written)]
  /\ UNCHANGED <<written, chunk>>

Restart ==
  /\ written' = 0
  /\ next' = [r \in Reader |-> 0]
  /\ chunk' = << >>

Next ==
  \/ Write
  \/ \E r \in Reader : Take(r) \/ Rewind(r)
  \/ Deliver
  \/ Restart

Spec == Init /\ [][Next]_vars
=============================================================================
