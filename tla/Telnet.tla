------------------------------- MODULE Telnet -------------------------------
(***************************************************************************)
(* The log over TCP port 23: _handle_stdout_sockets, _write_to_socket and  *)
(* _debug_drain of main/wifi.c, with the tasks they run in.  The wifi task *)
(* accepts clients, reserves a drain for each, and sends what is queued;   *)
(* the debug task, holding the mutex of main/debug.c, looks up the socket  *)
(* of a drain and queues its bytes.  The two share sockets and             *)
(* debug_handles without a lock.                                           *)
(*                                                                         *)
(* Of the log ring (LogRing) only this is left: whether a drain has        *)
(* something to read.  A chunk of 31 bytes fits one message of 48.         *)
(***************************************************************************)
EXTENDS Integers, Sequences

CONSTANTS SlotCnt,     \* MAX_OPEN_SOCKETS
          DRAIN_CNT,
          QueueDepth,  \* DEBUG_MSG_QUEUE_DEPTH
          FdCnt,       \* descriptors httpd and the listener leave
          MsgLen,      \* the pieces of a message that send takes one by one
          MaxBack,     \* bound on the steps to_write goes past MsgLen
          MaxStalls    \* bound on the times clients stop reading

ASSUME TelnetAssumption ==
  /\ SlotCnt \in Nat \ {0} /\ DRAIN_CNT \in Nat /\ DRAIN_CNT >= 2
  /\ QueueDepth \in Nat \ {0} /\ FdCnt \in Nat \ {0}
  /\ MsgLen \in Nat \ {0} /\ MaxBack \in Nat /\ MaxStalls \in Nat

Slot == 0 .. SlotCnt - 1
Handle == 0 .. DRAIN_CNT - 1
None == -1                    \* no handle, and INVALID_SOCKET
null_handle == 0
uart_handle == 1
Fd == 0 .. FdCnt - 1

VARIABLES
  sockets,        \* sockets[s]: the descriptor in slot s
  debug_handles,  \* debug_handles[s]: the drain of slot s or its last client
  drains,         \* drains[h]: "none", "own" (null and UART) or "socket"
  unread,         \* unread[h]: there is something to drain
  queue,          \* debug_msg_queue: the destination of each message
  locked,         \* the debug task holds buffer_mutex
  wifi,           \* where the wifi task is
  slot,           \* new_sock_index, then the i of the serving loop
  got,            \* what debug_reserve returned
  dest,           \* the socket _write_to_socket writes to
  to_write,
  debug,          \* where the debug task is
  idx,            \* its drain
  found,          \* the slot _debug_drain found
  socket_dest,    \* debug_msg.socket_dest
  conn,           \* conn[f]: the connection of descriptor f
  stalls,         \* ghost: within MaxStalls
  printed         \* other tasks have printed in this round of the wifi task

shared == <<sockets, debug_handles, drains, unread, queue, locked>>
wifi_vars == <<wifi, slot, got, dest, to_write>>
debug_vars == <<debug, idx, found, socket_dest>>
network == <<conn, stalls, printed>>
vars == <<shared, wifi_vars, debug_vars, network>>

\* "left": the client closed in order.
Connection == {"free", "up", "stalled", "left", "broken"}

TypeOK ==
  /\ sockets \in [Slot -> Fd \cup {None}]
  /\ debug_handles \in [Slot -> Handle \cup {None}]
  /\ drains \in [Handle -> {"none", "own", "socket"}]
  /\ unread \in [Handle -> BOOLEAN]
  /\ queue \in Seq(Fd \cup {None}) /\ Len(queue) <= QueueDepth
  /\ locked \in BOOLEAN
  /\ wifi \in {"accept", "greet", "reserve", "assign", "serve", "close",
               "invalidate", "release", "receive", "send"}
  /\ slot \in IF wifi = "serve" THEN 0 .. SlotCnt ELSE Slot
  /\ got \in Handle \cup {None}
  /\ dest \in Fd \cup {None}
  /\ to_write \in 0 .. MsgLen + MaxBack
  /\ debug \in {"take", "pick", "find", "read", "enqueue"}
  /\ locked <=> debug # "take"
  /\ idx \in 0 .. DRAIN_CNT
  /\ debug \in {"find", "read", "enqueue"} => idx \in Handle
  /\ found \in Slot
  /\ socket_dest \in Fd \cup {None}
  /\ conn \in [Fd -> Connection]
  /\ printed \in BOOLEAN
  /\ stalls \in 0 .. MaxStalls

Init ==
  /\ sockets = [s \in Slot |-> None]
  /\ debug_handles = [s \in Slot |-> 0]
  /\ drains = [h \in Handle |->
                 IF h \in {null_handle, uart_handle} THEN "own" ELSE "none"]
  /\ unread = [h \in Handle |-> FALSE]
  /\ queue = << >> /\ locked = FALSE
  /\ wifi = "accept" /\ slot = 0 /\ got = None /\ dest = None /\ to_write = 0
  /\ debug = "take" /\ idx = 0 /\ found = 0 /\ socket_dest = None
  /\ conn = [f \in Fd |-> "free"]
  /\ printed = FALSE /\ stalls = 0

-----------------------------------------------------------------------------
(* buffer_mutex and print.  Every wait ends after ten ticks.               *)

Expired == locked

\* Print: one more message for every drain; on a timeout none.
PrintTo(readers) == [h \in Handle |-> unread[h] \/ h \in readers]

Sockets == {h \in Handle : drains[h] = "socket"}

PrintOrExpire ==
  \/ ~locked /\ unread' = PrintTo(Sockets)
  \/ Expired /\ UNCHANGED unread

-----------------------------------------------------------------------------
(* The wifi task: _handle_stdout_sockets, accepting.                       *)

FreeSlots == {s \in Slot : sockets[s] = None}
FreeFds == {f \in Fd : conn[f] = "free"}
Least(S) == CHOOSE x \in S : \A y \in S : x <= y

BugFreeSlot == CHOOSE s \in FreeSlots : \A t \in FreeSlots : t <= s

FreeSlot == Least(FreeSlots)

Go(where) == wifi' = where

\* A free slot and a client: accept gives it the lowest free descriptor.
Accept ==
  /\ wifi = "accept"
  /\ FreeSlots # {} /\ FreeFds # {}
  /\ slot' = FreeSlot
  /\ sockets' = [sockets EXCEPT ![FreeSlot] = Least(FreeFds)]
  /\ conn' = [conn EXCEPT ![Least(FreeFds)] = "up"]
  /\ Go("greet")
  /\ UNCHANGED <<debug_handles, drains, unread, queue, locked, got, dest,
                 to_write, debug_vars, stalls, printed>>

\* No free slot, no client, or no descriptor, which is printed as an error.
AcceptNobody ==
  /\ wifi = "accept"
  /\ \/ UNCHANGED unread
     \/ FreeSlots # {} /\ FreeFds = {} /\ PrintOrExpire
  /\ Go("serve")
  /\ UNCHANGED <<sockets, debug_handles, drains, queue, locked, slot, got,
                 dest, to_write, debug_vars, network>>

\* "New connection on socket".  A socket that stays blocking is closed; it
\* never had a drain.
Greet ==
  /\ wifi = "greet"
  /\ PrintOrExpire
  /\ \/ Go("reserve") /\ UNCHANGED <<sockets, slot, conn>>
     \/ /\ conn' = [conn EXCEPT ![sockets[slot]] = "free"]
        /\ sockets' = [sockets EXCEPT ![slot] = None]
        /\ slot' = 0
        /\ Go("serve")
  /\ UNCHANGED <<debug_handles, drains, queue, locked, got, dest, to_write,
                 debug_vars, stalls, printed>>

FreeDrains == {h \in Handle : drains[h] = "none"}

\* debug_reserve: the lowest free drain, rewound; -1 if there is none, or
\* after ten ticks without the mutex.
Reserve ==
  /\ wifi = "reserve"
  /\ \/ /\ ~locked /\ FreeDrains # {}
        /\ got' = Least(FreeDrains)
        /\ drains' = [drains EXCEPT ![Least(FreeDrains)] = "socket"]
        /\ unread' = [unread EXCEPT ![Least(FreeDrains)] = TRUE]
     \/ /\ Expired \/ FreeDrains = {}
        /\ got' = None
        /\ UNCHANGED <<drains, unread>>
  /\ Go("assign")
  /\ UNCHANGED <<sockets, debug_handles, queue, locked, slot, dest, to_write,
                 debug_vars, network>>

Assign ==
  /\ wifi = "assign"
  /\ debug_handles' = [debug_handles EXCEPT ![slot] = got]
  /\ got' = None /\ slot' = 0
  /\ Go("serve")
  /\ UNCHANGED <<sockets, drains, unread, queue, locked, dest, to_write,
                 debug_vars, network>>

-----------------------------------------------------------------------------
(* The wifi task: _handle_stdout_sockets, serving.                         *)

BugBroken == {s \in Slot : s > slot /\ sockets[s] # None
                           /\ conn[sockets[s]] = "broken"}

Broken == {s \in Slot : s >= slot /\ sockets[s] # None
                        /\ conn[sockets[s]] = "broken"}

\* recv from each: an error is printed and closes the socket, anything else
\* does nothing, the zero of a client that left in order among it.
Serve ==
  /\ wifi = "serve"
  /\ IF Broken = {}
       THEN slot' = 0 /\ Go("receive") /\ UNCHANGED unread
       ELSE slot' = Least(Broken) /\ Go("close") /\ PrintOrExpire
  /\ UNCHANGED <<sockets, debug_handles, drains, queue, locked, got, dest,
                 to_write, debug_vars, network>>

\* The descriptor is free for others as soon as close returns.
Close ==
  /\ wifi = "close"
  /\ conn' = [conn EXCEPT ![sockets[slot]] = "free"]
  /\ Go("invalidate")
  /\ UNCHANGED <<shared, slot, got, dest, to_write, debug_vars, stalls,
                 printed>>

\* The slot keeps the number of the closed descriptor.
BugInvalidate ==
  /\ wifi = "invalidate"
  /\ Go("release")
  /\ UNCHANGED <<shared, slot, got, dest, to_write, debug_vars, network>>

Invalidate ==
  /\ wifi = "invalidate"
  /\ sockets' = [sockets EXCEPT ![slot] = None]
  /\ Go("release")
  /\ UNCHANGED <<debug_handles, drains, unread, queue, locked, slot, got, dest,
                 to_write, debug_vars, network>>

\* The drain is kept.
BugRelease ==
  /\ wifi = "release"
  /\ slot' = slot + 1
  /\ Go("serve")
  /\ UNCHANGED <<sockets, debug_handles, drains, unread, queue, locked, got,
                 dest, to_write, debug_vars, network>>

\* debug_release takes no mutex, and ignores a handle of -1.
Release ==
  /\ wifi = "release"
  /\ LET h == debug_handles[slot] IN
       IF h \in Handle
         THEN /\ drains' = [drains EXCEPT ![h] = "none"]
              /\ unread' = [unread EXCEPT ![h] = FALSE]
         ELSE UNCHANGED <<drains, unread>>
  /\ slot' = slot + 1
  /\ Go("serve")
  /\ UNCHANGED <<sockets, debug_handles, queue, locked, got, dest, to_write,
                 debug_vars, network>>

-----------------------------------------------------------------------------
(* The wifi task: sending what is queued, _write_to_socket.                *)

ReceiveMsg ==
  /\ wifi = "receive"
  /\ queue # << >>
  /\ queue' = Tail(queue)
  /\ IF Head(queue) = None
       THEN UNCHANGED <<wifi, dest, to_write>>
       ELSE Go("send") /\ dest' = Head(queue) /\ to_write' = MsgLen
  /\ UNCHANGED <<sockets, debug_handles, drains, unread, locked, slot, got,
                 debug_vars, network>>

\* Ten milliseconds later the loop begins anew.
QueueEmpty ==
  /\ wifi = "receive"
  /\ queue = << >>
  /\ Go("accept")
  /\ printed' = FALSE
  /\ UNCHANGED <<shared, slot, got, dest, to_write, debug_vars, conn, stalls>>

WriteDone ==
  /\ dest' = None /\ to_write' = 0
  /\ Go("receive")

\* The network stack takes some of it.  A client that left resets the
\* connection it gets data on.
Send ==
  /\ wifi = "send"
  /\ conn[dest] \in {"up", "left"}
  /\ \E written \in 1 .. to_write :
       IF written = to_write
         THEN WriteDone
         ELSE to_write' = to_write - written /\ UNCHANGED <<wifi, dest>>
  /\ conn' = IF conn[dest] = "left" THEN [conn EXCEPT ![dest] = "broken"]
                                    ELSE conn
  /\ UNCHANGED <<shared, slot, got, debug_vars, stalls, printed>>

\* Its buffer is full: -1 is subtracted, and the loop goes on at once.
SendAgain ==
  /\ wifi = "send"
  /\ conn[dest] = "stalled"
  /\ to_write' = IF to_write < MsgLen + MaxBack THEN to_write + 1 ELSE to_write
  /\ UNCHANGED <<shared, wifi, slot, got, dest, debug_vars, network>>

\* Every error is taken for a full buffer.
BugSendFails ==
  /\ wifi = "send"
  /\ conn[dest] \in {"free", "broken"}
  /\ to_write' = IF to_write < MsgLen + MaxBack THEN to_write + 1 ELSE to_write
  /\ UNCHANGED <<shared, wifi, slot, got, dest, debug_vars, network>>

SendFails ==
  /\ wifi = "send"
  /\ conn[dest] \in {"free", "broken"}
  /\ WriteDone
  /\ UNCHANGED <<shared, slot, got, debug_vars, network>>

WifiTask ==
  \/ Accept \/ AcceptNobody \/ Greet \/ Reserve \/ Assign
  \/ Serve \/ Close \/ Invalidate \/ Release
  \/ ReceiveMsg \/ QueueEmpty \/ Send \/ SendAgain \/ SendFails

-----------------------------------------------------------------------------
(* The debug task: a round of its loop, and _debug_drain of main/wifi.c.   *)

Take ==
  /\ debug = "take"
  /\ locked' = TRUE
  /\ debug' = "pick" /\ idx' = 0
  /\ UNCHANGED <<sockets, debug_handles, drains, unread, queue, wifi_vars,
                 found, socket_dest, network>>

Readable == {h \in Sockets : h >= idx /\ unread[h]}

\* Drain the next socket that has something to read.
Pick ==
  /\ debug = "pick"
  /\ Readable # {}
  /\ idx' = Least(Readable)
  /\ unread' = [unread EXCEPT ![idx'] = FALSE]
  /\ debug' = "find"
  /\ UNCHANGED <<sockets, debug_handles, drains, queue, locked, wifi_vars,
                 found, socket_dest, network>>

\* The mutex is not given back.
BugGive ==
  /\ debug = "pick"
  /\ Readable = {}
  /\ debug' = "take" /\ idx' = 0
  /\ UNCHANGED <<shared, wifi_vars, found, socket_dest, network>>

Give ==
  /\ debug = "pick"
  /\ Readable = {}
  /\ locked' = FALSE
  /\ debug' = "take" /\ idx' = 0
  /\ UNCHANGED <<sockets, debug_handles, drains, unread, queue, wifi_vars,
                 found, socket_dest, network>>

SlotsOf(h) == {s \in Slot : debug_handles[s] = h}

\* The first slot with this handle; without one the bytes are lost.
Find ==
  /\ debug = "find"
  /\ IF SlotsOf(idx) = {}
       THEN debug' = "pick" /\ idx' = idx + 1 /\ UNCHANGED found
       ELSE debug' = "read" /\ found' = Least(SlotsOf(idx)) /\ UNCHANGED idx
  /\ UNCHANGED <<shared, wifi_vars, socket_dest, network>>

ReadSocket ==
  /\ debug = "read"
  /\ socket_dest' = sockets[found]
  /\ found' = 0
  /\ debug' = "enqueue"
  /\ UNCHANGED <<shared, wifi_vars, idx, network>>

\* A round of the task ends with the first drain that had something.
BugEnqueue ==
  /\ debug = "enqueue"
  /\ \/ Len(queue) < QueueDepth /\ queue' = Append(queue, socket_dest)
     \/ Len(queue) = QueueDepth /\ Expired /\ UNCHANGED queue
  /\ socket_dest' = None /\ locked' = FALSE
  /\ debug' = "take" /\ idx' = 0
  /\ UNCHANGED <<sockets, debug_handles, drains, unread, wifi_vars, found,
                 network>>

\* The queue is waited for ten ticks, with the mutex held; then the message
\* is dropped.
Enqueue ==
  /\ debug = "enqueue"
  /\ \/ Len(queue) < QueueDepth /\ queue' = Append(queue, socket_dest)
     \/ Len(queue) = QueueDepth /\ Expired /\ UNCHANGED queue
  /\ socket_dest' = None
  /\ debug' = "pick" /\ idx' = idx + 1
  /\ UNCHANGED <<sockets, debug_handles, drains, unread, locked, wifi_vars,
                 found, network>>

DebugTask == Take \/ Pick \/ Give \/ Find \/ ReadSocket \/ Enqueue

-----------------------------------------------------------------------------
(* The clients, and the other tasks that print.                            *)

ClientDoes(f, from, to) ==
  /\ conn[f] \in from
  /\ conn' = [conn EXCEPT ![f] = to]
  /\ UNCHANGED <<shared, wifi_vars, debug_vars, printed>>

Stall(f) ==
  /\ stalls < MaxStalls
  /\ stalls' = stalls + 1
  /\ ClientDoes(f, {"up"}, "stalled")

Resume(f) == ClientDoes(f, {"stalled"}, "up") /\ UNCHANGED stalls
Leave(f) == ClientDoes(f, {"up"}, "left") /\ UNCHANGED stalls
Break(f) ==
  ClientDoes(f, {"up", "stalled", "left"}, "broken") /\ UNCHANGED stalls

ReadsOnOrBreaks(f) == conn[f] = "stalled" /\ (Resume(f) \/ Break(f))

\* Other tasks print less often than the wifi task comes round: what prints
\* without pause keeps it from finding the queue empty.
OtherPrint ==
  /\ ~locked
  /\ ~printed
  /\ printed' = TRUE
  /\ unread' = PrintTo(Sockets)
  /\ UNCHANGED <<sockets, debug_handles, drains, queue, locked, wifi_vars,
                 debug_vars, conn, stalls>>

Environment ==
  \/ \E f \in Fd : Stall(f) \/ Resume(f) \/ Leave(f) \/ Break(f)
  \/ OtherPrint

Next == WifiTask \/ DebugTask \/ Environment

Spec == Init /\ [][Next]_vars

\* Both tasks always run again.
TasksRun == Spec /\ WF_vars(WifiTask) /\ WF_vars(DebugTask)

\* And, which nothing in the code ensures, a client that stalls reads on or
\* breaks.
FairSpec == TasksRun /\ \A f \in Fd : WF_vars(ReadsOnOrBreaks(f))

-----------------------------------------------------------------------------
(* Properties.                                                             *)

Accepting(s) == wifi \in {"greet", "reserve", "assign"} /\ slot = s

Owner(h, s) ==
  sockets[s] # None /\ debug_handles[s] = h /\ ~Accepting(s)

(* _debug_drain takes the first slot with its handle, and closed slots     *)
(* keep the handle of their last client: of the slots that hold the handle *)
(* of an accepted client, the client's is the first.  A slot may close,    *)
(* and be accepted anew, after the look-up: this says nothing of the use   *)
(* of what was found.                                                      *)
MatchingSocket ==
  \A s \in Slot, h \in Sockets :
    Owner(h, s) => s = Least(SlotsOf(h))

(* Every drain that is reserved belongs to exactly one client, the one     *)
(* being accepted or released included: no order of clients coming, going  *)
(* and being turned away loses a drain or shares one.                      *)
DrainsOwned ==
  \A h \in Sockets :
    \/ \E s \in Slot : Owner(h, s) /\ \A t \in Slot : Owner(h, t) => s = t
    \/ wifi = "assign" /\ got = h /\ \A s \in Slot : ~Owner(h, s)
    \/ wifi = "release" /\ debug_handles[slot] = h

(* Every slot in use has a connection of its own: a number that close gave *)
(* back, and accept gives out again, is in no other slot, so that recv and *)
(* close of the wifi task never take one client for another.               *)
OwnConnection ==
  \A s \in Slot :
    sockets[s] # None =>
      /\ conn[sockets[s]] = "free" => wifi = "invalidate" /\ slot = s
      /\ \A t \in Slot : sockets[t] = sockets[s] => t = s

(* The wifi task always comes back to accept the next client and to handle *)
(* the network: the mutex, the queue and print, each waiting for the       *)
(* other's task, come to an end.                                           *)
Rounds == []<>(wifi = "accept")

(* The debug task drains every client in turn: none waits for ever behind  *)
(* one that always has something to read.                                  *)
NoClientStarves ==
  \A h \in Handle \ {null_handle, uart_handle} :
    (h \in Sockets /\ unread[h]) ~> (h \notin Sockets \/ ~unread[h])

(* A client whose connection broke gives back its descriptor.              *)
Reclaimed ==
  \A f \in Fd : (conn[f] = "broken") ~> (conn[f] # "broken")
=============================================================================
