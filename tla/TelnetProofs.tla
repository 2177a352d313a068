---------------------------- MODULE TelnetProofs ----------------------------
(***************************************************************************)
(* Proofs about Telnet for any number of slots, drains and descriptors.    *)
(*                                                                         *)
(* debug_handles is never cleared: a closed slot keeps the handle of its   *)
(* last client, which debug_reserve may have given to another slot since.  *)
(* That _debug_drain finds the right slot all the same rests on two facts. *)
(* Open slots never share a handle (Distinct), and a handle is stored in a *)
(* slot below which all the others are open (Accept takes the first free   *)
(* one): so none of the slots before an open one holds its handle.         *)
(***************************************************************************)
EXTENDS Telnet, TLAPS, WellFoundedInduction

\* A client that has been given what debug_reserve had for it.
Served(s) == sockets[s] # None /\ ~Accepting(s)

\* Where the wifi task holds a slot that is open.
Holding == {"greet", "reserve", "assign", "close", "invalidate"}

\* The drains of null and UART are never given out or taken back.
OwnDrains ==
  \A h \in Handle : drains[h] = "own" <=> h \in {null_handle, uart_handle}

\* A client that is served has a drain of its own, or none at all.
Distinct ==
  \A s \in Slot :
    Served(s) /\ debug_handles[s] # None =>
      /\ debug_handles[s] \in Sockets
      /\ \A t \in Slot : t < s => debug_handles[t] # debug_handles[s]

\* The handle on its way from debug_reserve to debug_handles, and the one on
\* its way to debug_release, are reserved and nobody else's.
InTransit ==
  /\ wifi = "assign" /\ got # None =>
       got \in Sockets /\ \A s \in Slot : ~Owner(got, s)
  /\ wifi = "release" /\ debug_handles[slot] # None =>
       /\ debug_handles[slot] \in Sockets
       /\ \A s \in Slot : ~Owner(debug_handles[slot], s)

\* The slot the wifi task is at.
AtSlot ==
  /\ wifi \in Holding => sockets[slot] # None
  /\ wifi = "release" => sockets[slot] = None
  /\ wifi \in {"greet", "reserve", "assign"} =>
       \A s \in Slot : s < slot => sockets[s] # None

Slots == OwnDrains /\ Distinct /\ InTransit /\ AtSlot /\ DrainsOwned

IInv == TypeOK /\ Slots

-----------------------------------------------------------------------------
(* Least is the smallest of a set of slots, of handles or of descriptors.  *)
LEMMA LeastIsLeast ==
  ASSUME NEW S \in SUBSET Nat, S # {}
  PROVE  Least(S) \in S /\ \A y \in S : Least(S) <= y
<1>1. PICK x \in S : \A y \in S : ~ (<<y, x>> \in OpToRel(<, Nat))
  BY NatLessThanWellFounded, WFMin, Zenon
<1>2. \A y \in S : y < x => <<y, x>> \in OpToRel(<, Nat)
  BY Zenon DEF OpToRel
<1>3. \A y \in S : x <= y
  <2>1. \A y \in S : ~(y < x)
    BY <1>1, <1>2
  <2> QED
    BY <2>1
<1> QED
  BY <1>1, <1>3 DEF Least

LEMMA Constants ==
  /\ Slot \subseteq Nat /\ Handle \subseteq Nat /\ Fd \subseteq Nat
  /\ null_handle \in Handle /\ uart_handle \in Handle
  /\ 0 \in Slot /\ 0 \in 0 .. SlotCnt /\ 0 \in 0 .. DRAIN_CNT
  /\ None \notin Slot /\ None \notin Handle /\ None \notin Fd
  /\ \A s \in Slot : s + 1 \in 0 .. SlotCnt
  /\ \A h \in Handle : h \in 0 .. DRAIN_CNT /\ h + 1 \in 0 .. DRAIN_CNT
BY TelnetAssumption
DEF Slot, Handle, Fd, None, null_handle, uart_handle

LEMMA OwnerIsServed ==
  \A s \in Slot : \A h : Owner(h, s) <=> Served(s) /\ debug_handles[s] = h
BY DEF Owner, Served

LEMMA InitIInv == Init => IInv
<1> SUFFICES ASSUME Init PROVE IInv
  OBVIOUS
<1>1. TypeOK
  <2>1. queue \in Seq(Fd \cup {None}) /\ Len(queue) <= QueueDepth
    BY TelnetAssumption DEF Init
  <2>2. 0 \in 0 .. MsgLen + MaxBack /\ 0 \in 0 .. MaxStalls
    BY TelnetAssumption
  <2>3. /\ sockets \in [Slot -> Fd \cup {None}]
        /\ debug_handles \in [Slot -> Handle \cup {None}]
    BY Constants DEF Init, null_handle
  <2>4. /\ drains \in [Handle -> {"none", "own", "socket"}]
        /\ unread \in [Handle -> BOOLEAN]
        /\ conn \in [Fd -> Connection]
    BY DEF Init, Connection
  <2>5. /\ wifi = "accept" /\ slot \in Slot /\ debug = "take" /\ ~locked
        /\ got \in Handle \cup {None} /\ dest \in Fd \cup {None}
        /\ to_write \in 0 .. MsgLen + MaxBack /\ stalls \in 0 .. MaxStalls
        /\ idx \in 0 .. DRAIN_CNT /\ found \in Slot
        /\ socket_dest \in Fd \cup {None} /\ printed \in BOOLEAN
    BY <2>2, Constants DEF Init
  <2> QED
    BY <2>1, <2>3, <2>4, <2>5 DEF Init, TypeOK
<1>2. OwnDrains /\ Sockets = {}
  BY Constants DEF Init, OwnDrains, Sockets
<1>3. \A s \in Slot : ~Served(s)
  BY DEF Init, Served
<1> QED
  BY <1>1, <1>2, <1>3
  DEF IInv, Slots, Distinct, InTransit, AtSlot, DrainsOwned, Init, Holding

-----------------------------------------------------------------------------
(* The steps by which the slots, the handles and the drains stay as they   *)
(* are: all of the debug task, of the clients and of printing, and those   *)
(* with which the wifi task goes from one part of its round to the next.   *)
Calm == {"accept", "serve", "receive", "send"}

LEMMA QuietStep ==
  ASSUME Slots,
         UNCHANGED <<sockets, debug_handles, drains>>,
         \/ UNCHANGED <<wifi, slot, got>>
         \/ wifi \in Calm /\ wifi' \in Calm
  PROVE  Slots'
<1>1. UNCHANGED Sockets
  BY DEF Sockets
<1>2. CASE UNCHANGED <<wifi, slot, got>>
  BY <1>1, <1>2 DEF Slots, OwnDrains, Distinct, InTransit, AtSlot, DrainsOwned,
     Served, Owner, Accepting
<1>3. CASE wifi \in Calm /\ wifi' \in Calm
  <2>1. \A s \in Slot : Served(s)' <=> Served(s)
    BY <1>3 DEF Served, Accepting, Calm
  <2>2. \A s \in Slot, h \in Sockets : Owner(h, s)' <=> Owner(h, s)
    BY <1>3 DEF Owner, Accepting, Calm
  <2>3. OwnDrains' /\ Distinct'
    BY <1>1, <2>1 DEF Slots, OwnDrains, Distinct
  <2>4. InTransit' /\ AtSlot'
    BY <1>3 DEF InTransit, AtSlot, Calm, Holding
  <2>5. DrainsOwned'
    BY <1>1, <1>3, <2>2 DEF Slots, DrainsOwned, Calm
  <2> QED
    BY <2>3, <2>4, <2>5 DEF Slots
<1> QED
  BY <1>2, <1>3

(* The steps that open and close a slot nobody is served in.               *)
LEMMA SameOwners ==
  ASSUME Slots, AtSlot',
         UNCHANGED <<debug_handles, drains>>,
         \A s \in Slot : Served(s)' <=> Served(s),
         wifi \notin {"assign", "release"}, wifi' \notin {"assign", "release"}
  PROVE  Slots'
<1>1. UNCHANGED Sockets
  BY DEF Sockets
<1>2. \A s \in Slot, h \in Sockets : Owner(h, s)' <=> Owner(h, s)
  BY DEF Owner, Served
<1>3. OwnDrains' /\ Distinct'
  BY <1>1 DEF Slots, OwnDrains, Distinct
<1>4. InTransit'
  BY DEF InTransit
<1>5. DrainsOwned'
  BY <1>1, <1>2 DEF Slots, DrainsOwned
<1> QED
  BY <1>3, <1>4, <1>5 DEF Slots

-----------------------------------------------------------------------------
(* The wifi task, accepting.                                               *)

LEMMA PrintKeepsType ==
  ASSUME TypeOK, PrintOrExpire
  PROVE  unread' \in [Handle -> BOOLEAN]
BY DEF PrintOrExpire, PrintTo, TypeOK

(* Every slot below the first free one is open.                            *)
LEMMA AcceptIInv == ASSUME IInv, Accept PROVE IInv'
<1>1. TypeOK /\ Slots
  BY DEF IInv
<1>2. /\ FreeSlot \in FreeSlots /\ \A s \in FreeSlots : FreeSlot <= s
      /\ Least(FreeFds) \in Fd
  <2>1. FreeSlots \in SUBSET Nat /\ FreeFds \in SUBSET Nat
    BY Constants DEF FreeSlots, FreeFds
  <2> QED
    BY <2>1, LeastIsLeast DEF Accept, FreeSlot, FreeFds
<1> DEFINE new == FreeSlot
<1>3. /\ new \in Slot /\ sockets[new] = None
      /\ \A s \in Slot : s < new => sockets[s] # None
  BY <1>2, Constants DEF FreeSlots
<1>4. /\ wifi = "accept" /\ wifi' = "greet" /\ slot' = new
      /\ UNCHANGED <<debug_handles, drains, unread, queue, locked, got, dest,
                     to_write, debug, idx, found, socket_dest, stalls, printed>>
  BY DEF Accept, Go, debug_vars
<1>5. /\ sockets' \in [Slot -> Fd \cup {None}] /\ sockets'[new] \in Fd
      /\ \A s \in Slot : s # new => sockets'[s] = sockets[s]
      /\ conn' \in [Fd -> Connection]
  BY <1>1, <1>2, <1>3 DEF Accept, TypeOK, Connection
<1>6. TypeOK'
  BY <1>1, <1>3, <1>4, <1>5 DEF TypeOK
<1>7. AtSlot'
  BY <1>3, <1>4, <1>5, Constants DEF AtSlot
<1>8. \A s \in Slot : Served(s)' <=> Served(s)
  BY <1>3, <1>4, <1>5 DEF Served, Accepting
<1> QED
  BY <1>1, <1>4, <1>6, <1>7, <1>8, SameOwners DEF IInv

LEMMA AcceptNobodyIInv == ASSUME IInv, AcceptNobody PROVE IInv'
<1>1. TypeOK /\ Slots
  BY DEF IInv
<1>2. /\ wifi = "accept" /\ wifi' = "serve"
      /\ UNCHANGED <<sockets, debug_handles, drains, queue, locked, slot, got,
                     dest, to_write, debug, idx, found, socket_dest, conn,
                     stalls, printed>>
  BY DEF AcceptNobody, Go, debug_vars, network
<1>3. unread' \in [Handle -> BOOLEAN]
  BY <1>1, PrintKeepsType DEF AcceptNobody, TypeOK
<1>4. slot \in 0 .. SlotCnt
  BY <1>1, <1>2, TelnetAssumption DEF TypeOK, Slot
<1>5. TypeOK'
  BY <1>1, <1>2, <1>3, <1>4 DEF TypeOK
<1> QED
  BY <1>1, <1>2, <1>5, QuietStep DEF IInv, Calm

LEMMA GreetIInv == ASSUME IInv, Greet PROVE IInv'
<1>1. TypeOK /\ Slots /\ slot \in Slot
  BY DEF IInv, TypeOK, Greet
<1>2. /\ wifi = "greet"
      /\ UNCHANGED <<debug_handles, drains, queue, locked, got, dest, to_write,
                     debug, idx, found, socket_dest, stalls, printed>>
  BY DEF Greet, debug_vars
<1>3. unread' \in [Handle -> BOOLEAN]
  BY <1>1, PrintKeepsType DEF Greet
<1>4. CASE Go("reserve") /\ UNCHANGED <<sockets, slot, conn>>
  <2>1. TypeOK'
    BY <1>1, <1>2, <1>3, <1>4 DEF TypeOK, Go
  <2>2. AtSlot'
    BY <1>1, <1>2, <1>4 DEF Slots, AtSlot, Go, Holding
  <2>3. \A s \in Slot : Served(s)' <=> Served(s)
    BY <1>2, <1>4 DEF Served, Accepting, Go
  <2> QED
    BY <1>1, <1>2, <1>4, <2>1, <2>2, <2>3, SameOwners DEF IInv, Go
<1>5. CASE /\ conn' = [conn EXCEPT ![sockets[slot]] = "free"]
           /\ sockets' = [sockets EXCEPT ![slot] = None]
           /\ slot' = 0
           /\ Go("serve")
  <2>1. /\ conn' \in [Fd -> Connection] /\ sockets' \in [Slot -> Fd \cup {None}]
        /\ sockets'[slot] = None
        /\ \A s \in Slot : s # slot => sockets'[s] = sockets[s]
    BY <1>1, <1>5 DEF TypeOK, Connection
  <2>2. TypeOK'
    BY <1>1, <1>2, <1>3, <1>5, <2>1, Constants DEF TypeOK, Go
  <2>3. AtSlot'
    BY <1>5 DEF AtSlot, Holding, Go
  <2>4. \A s \in Slot : Served(s)' <=> Served(s)
    BY <1>1, <1>2, <1>5, <2>1 DEF Served, Accepting, Go
  <2> QED
    BY <1>1, <1>2, <1>5, <2>2, <2>3, <2>4, SameOwners DEF IInv, Go
<1> QED
  BY <1>4, <1>5 DEF Greet

(* A free drain is nobody's, as whoever is served has a reserved one.      *)
LEMMA ReserveIInv == ASSUME IInv, Reserve PROVE IInv'
<1>1. TypeOK /\ OwnDrains /\ Distinct /\ AtSlot /\ DrainsOwned
  BY DEF IInv, Slots
<1>2. /\ wifi = "reserve" /\ wifi' = "assign" /\ slot \in Slot
      /\ UNCHANGED <<sockets, debug_handles, queue, locked, slot, dest, to_write,
                     debug, idx, found, socket_dest, conn, stalls, printed>>
  BY <1>1 DEF Reserve, Go, debug_vars, network, TypeOK
<1>3. \A s \in Slot : \A h : /\ Served(s)' <=> Served(s)
                             /\ Owner(h, s)' <=> Owner(h, s)
  BY <1>2 DEF Served, Owner, Accepting
<1>4. AtSlot'
  BY <1>1, <1>2 DEF AtSlot, Holding
<1>5. \A h \in Sockets : \E s \in Slot :
        Owner(h, s) /\ \A t \in Slot : Owner(h, t) => s = t
  BY <1>1, <1>2 DEF DrainsOwned
<1>6. CASE FreeDrains # {} /\ got' = Least(FreeDrains)
           /\ drains' = [drains EXCEPT ![Least(FreeDrains)] = "socket"]
           /\ unread' = [unread EXCEPT ![Least(FreeDrains)] = TRUE]
  <2>1. FreeDrains \in SUBSET Nat
    BY Constants DEF FreeDrains
  <2>2. got' \in Handle /\ drains[got'] = "none"
    BY <1>6, <2>1, LeastIsLeast DEF FreeDrains
  <2>3. /\ drains' \in [Handle -> {"none", "own", "socket"}]
        /\ unread' \in [Handle -> BOOLEAN]
        /\ drains'[got'] = "socket"
        /\ \A h \in Handle : h # got' => drains'[h] = drains[h]
    BY <1>1, <1>6, <2>2 DEF TypeOK
  <2>4. Sockets' = Sockets \cup {got'} /\ got' \notin Sockets
    BY <2>2, <2>3 DEF Sockets
  <2>5. \A s \in Slot : ~Owner(got', s)
    BY <1>1, <2>2, <2>4, Constants, OwnerIsServed DEF Distinct
  <2>6. TypeOK'
    BY <1>1, <1>2, <2>2, <2>3 DEF TypeOK
  <2>7. OwnDrains' /\ Distinct'
    BY <1>1, <1>2, <1>3, <2>2, <2>3, <2>4 DEF OwnDrains, Distinct
  <2>8. InTransit' /\ DrainsOwned'
    BY <1>2, <1>3, <1>5, <2>4, <2>5 DEF InTransit, DrainsOwned
  <2> QED
    BY <1>4, <2>6, <2>7, <2>8 DEF IInv, Slots
<1>7. CASE got' = None /\ UNCHANGED <<drains, unread>>
  <2>1. Sockets' = Sockets
    BY <1>7 DEF Sockets
  <2>2. TypeOK'
    BY <1>1, <1>2, <1>7 DEF TypeOK
  <2>3. OwnDrains' /\ Distinct'
    BY <1>1, <1>2, <1>3, <1>7, <2>1 DEF OwnDrains, Distinct
  <2>4. InTransit' /\ DrainsOwned'
    BY <1>2, <1>3, <1>5, <1>7, <2>1 DEF InTransit, DrainsOwned
  <2> QED
    BY <1>4, <2>2, <2>3, <2>4 DEF IInv, Slots
<1> QED
  BY <1>6, <1>7 DEF Reserve

(* The handle is stored above nothing but open slots, whose handles differ *)
(* from it.                                                                *)
LEMMA AssignIInv == ASSUME IInv, Assign PROVE IInv'
<1>1. TypeOK /\ OwnDrains /\ Distinct /\ InTransit /\ AtSlot /\ DrainsOwned
  BY DEF IInv, Slots
<1>2. /\ wifi = "assign" /\ wifi' = "serve" /\ slot \in Slot
      /\ slot' = 0 /\ got' = None
      /\ UNCHANGED <<sockets, drains, unread, queue, locked, dest, to_write,
                     debug, idx, found, socket_dest, conn, stalls, printed>>
  BY <1>1 DEF Assign, Go, debug_vars, network, TypeOK
<1>3. /\ debug_handles' \in [Slot -> Handle \cup {None}]
      /\ debug_handles'[slot] = got
      /\ \A s \in Slot : s # slot => debug_handles'[s] = debug_handles[s]
  BY <1>1, <1>2 DEF Assign, TypeOK
<1>4. UNCHANGED Sockets
  BY <1>2 DEF Sockets
<1>5. TypeOK'
  BY <1>1, <1>2, <1>3, Constants DEF TypeOK
<1>6. /\ \A s \in Slot : s = slot => ~Served(s) /\ Served(s)'
      /\ \A s \in Slot : s # slot => (Served(s)' <=> Served(s))
      /\ \A s \in Slot : s < slot => Served(s)
  BY <1>1, <1>2, Constants DEF AtSlot, Holding, Served, Accepting
<1>7. got # None => got \in Sockets
                    /\ \A s \in Slot : ~(Served(s) /\ debug_handles[s] = got)
  BY <1>1, <1>2, OwnerIsServed DEF InTransit
<1>8. OwnDrains' /\ InTransit' /\ AtSlot'
  BY <1>1, <1>2 DEF OwnDrains, InTransit, AtSlot, Holding
<1>9. Distinct'
  <2> SUFFICES ASSUME NEW s \in Slot, Served(s)', debug_handles'[s] # None
               PROVE  /\ debug_handles'[s] \in Sockets
                      /\ \A t \in Slot : t < s => debug_handles'[t] # debug_handles'[s]
    BY <1>4 DEF Distinct
  <2>1. CASE s = slot
    BY <1>3, <1>6, <1>7, <2>1, Constants
  <2>2. CASE s # slot
    <3>1. Served(s) /\ debug_handles'[s] = debug_handles[s]
      BY <1>3, <1>6, <2>2
    <3>2. debug_handles[s] \in Sockets
          /\ \A t \in Slot : t < s => debug_handles[t] # debug_handles[s]
      BY <1>1, <3>1 DEF Distinct
    <3>3. debug_handles[s] # got
      BY <1>7, <3>1
    <3> QED
      BY <1>3, <3>1, <3>2, <3>3
  <2> QED
    BY <2>1, <2>2
<1>10. DrainsOwned'
  <2> SUFFICES ASSUME NEW h \in Sockets
               PROVE  \E s \in Slot : Owner(h, s)' /\ \A t \in Slot : Owner(h, t)' => s = t
    BY <1>4 DEF DrainsOwned
  <2>1. \A s \in Slot : Owner(h, s)' <=> Served(s)' /\ debug_handles'[s] = h
    BY DEF Owner, Served
  <2>2. CASE h = got
    <3>1. got # None
      BY <2>2, Constants DEF Sockets
    <3>2. \A s \in Slot : s # slot => ~(Served(s)' /\ debug_handles'[s] = h)
      BY <1>3, <1>6, <1>7, <2>2, <3>1
    <3>3. PICK at \in Slot : at = slot
      BY <1>2
    <3>4. Owner(h, at)'
      BY <1>3, <1>6, <2>1, <2>2, <3>3
    <3> QED
      BY <2>1, <3>2, <3>3, <3>4
  <2>3. CASE h # got
    <3>1. PICK s \in Slot : Owner(h, s) /\ \A t \in Slot : Owner(h, t) => s = t
      BY <1>1, <1>2, <2>3 DEF DrainsOwned
    <3>2. \A t \in Slot : Owner(h, t)' <=> Owner(h, t)
      BY <1>2, <1>3, <1>6, <2>1, <2>3, OwnerIsServed
    <3> QED
      BY <3>1, <3>2
  <2> QED
    BY <2>2, <2>3
<1> QED
  BY <1>5, <1>8, <1>9, <1>10 DEF IInv, Slots

-----------------------------------------------------------------------------
(* The wifi task, serving.                                                 *)

LEMMA ServeIInv == ASSUME IInv, Serve PROVE IInv'
<1>1. TypeOK /\ Slots
  BY DEF IInv
<1>2. /\ wifi = "serve"
      /\ UNCHANGED <<sockets, debug_handles, drains, queue, locked, got, dest,
                     to_write, debug, idx, found, socket_dest, conn, stalls,
                     printed>>
  BY DEF Serve, debug_vars, network
<1>3. CASE Broken = {}
  <2>1. wifi' = "receive" /\ slot' \in Slot /\ unread' = unread
    BY <1>3, Constants DEF Serve, Go
  <2>2. TypeOK'
    BY <1>1, <1>2, <2>1 DEF TypeOK
  <2> QED
    BY <1>1, <1>2, <2>1, <2>2, QuietStep DEF IInv, Calm
<1>4. CASE Broken # {}
  <2>1. wifi' = "close" /\ unread' \in [Handle -> BOOLEAN]
    BY <1>1, <1>4, PrintKeepsType DEF Serve, Go
  <2>2. slot' \in Slot /\ sockets[slot'] # None
    <3>1. Broken \in SUBSET Nat
      BY Constants DEF Broken
    <3>2. slot' \in Broken
      BY <1>4, <3>1, LeastIsLeast DEF Serve
    <3> QED
      BY <3>2 DEF Broken
  <2>3. TypeOK'
    BY <1>1, <1>2, <2>1, <2>2 DEF TypeOK
  <2>4. AtSlot'
    BY <1>2, <2>1, <2>2 DEF AtSlot
  <2>5. \A s \in Slot : Served(s)' <=> Served(s)
    BY <1>2, <2>1 DEF Served, Accepting
  <2> QED
    BY <1>1, <1>2, <2>1, <2>3, <2>4, <2>5, SameOwners DEF IInv
<1> QED
  BY <1>3, <1>4

LEMMA CloseIInv == ASSUME IInv, Close PROVE IInv'
<1>1. TypeOK /\ Slots
  BY DEF IInv
<1>2. /\ wifi = "close" /\ wifi' = "invalidate"
      /\ UNCHANGED <<sockets, debug_handles, drains, unread, queue, locked, slot,
                     got, dest, to_write, debug, idx, found, socket_dest,
                     stalls,
                     printed>>
  BY DEF Close, Go, shared, debug_vars
<1>3. conn' \in [Fd -> Connection]
  BY <1>1 DEF Close, TypeOK, Connection
<1>4. TypeOK'
  BY <1>1, <1>2, <1>3 DEF TypeOK
<1>5. AtSlot'
  BY <1>1, <1>2 DEF Slots, AtSlot, Holding
<1>6. \A s \in Slot : Served(s)' <=> Served(s)
  BY <1>2 DEF Served, Accepting
<1> QED
  BY <1>1, <1>2, <1>4, <1>5, <1>6, SameOwners DEF IInv

(* The slot was the only one whose client had its drain.                   *)
LEMMA InvalidateIInv == ASSUME IInv, Invalidate PROVE IInv'
<1>1. TypeOK /\ OwnDrains /\ Distinct /\ AtSlot /\ DrainsOwned
  BY DEF IInv, Slots
<1>2. /\ wifi = "invalidate" /\ wifi' = "release" /\ slot \in Slot
      /\ UNCHANGED <<debug_handles, drains, unread, queue, locked, slot, got,
                     dest, to_write, debug, idx, found, socket_dest, conn,
                     stalls, printed>>
  BY <1>1 DEF Invalidate, Go, debug_vars, network, TypeOK
<1>3. /\ sockets' \in [Slot -> Fd \cup {None}] /\ sockets'[slot] = None
      /\ \A s \in Slot : s # slot => sockets'[s] = sockets[s]
  BY <1>1, <1>2 DEF Invalidate, TypeOK
<1>4. /\ Served(slot)
      /\ \A s \in Slot : Served(s)' <=> Served(s) /\ s # slot
  BY <1>1, <1>2, <1>3 DEF AtSlot, Holding, Served, Accepting
<1>5. UNCHANGED Sockets
  BY <1>2 DEF Sockets
<1>6. TypeOK'
  BY <1>1, <1>2, <1>3 DEF TypeOK
<1>7. OwnDrains' /\ Distinct' /\ AtSlot'
  BY <1>1, <1>2, <1>3, <1>4, <1>5 DEF OwnDrains, Distinct, AtSlot, Holding
<1>8. \A s \in Slot : \A h : Owner(h, s)' <=> Owner(h, s) /\ s # slot
  BY <1>2, <1>4 DEF Owner, Served
<1>9. InTransit'
  <2> SUFFICES ASSUME debug_handles[slot] # None
               PROVE  /\ debug_handles[slot] \in Sockets
                      /\ \A s \in Slot : ~(Served(s) /\ s # slot
                                          /\ debug_handles[s] = debug_handles[slot])
    BY <1>2, <1>5, <1>8, OwnerIsServed DEF InTransit
  <2>1. \A s \in Slot : s < slot => debug_handles[s] # debug_handles[slot]
    BY <1>1, <1>2, <1>4 DEF Distinct
  <2>2. \A s \in Slot : Served(s) /\ debug_handles[s] # None /\ slot < s =>
          debug_handles[s] # debug_handles[slot]
    BY <1>1, <1>2 DEF Distinct
  <2>3. \A s \in Slot : s < slot \/ s = slot \/ slot < s
    BY <1>2, Constants
  <2> QED
    BY <1>1, <1>2, <1>4, <2>1, <2>2, <2>3 DEF Distinct
<1>10. DrainsOwned'
  <2> SUFFICES ASSUME NEW h \in Sockets
               PROVE  \/ \E s \in Slot : /\ Owner(h, s) /\ s # slot
                                        /\ \A t \in Slot : Owner(h, t) => s = t
                      \/ debug_handles[slot] = h
    BY <1>2, <1>5, <1>8 DEF DrainsOwned
  <2>1. PICK s \in Slot : Owner(h, s) /\ \A t \in Slot : Owner(h, t) => s = t
    BY <1>1, <1>2 DEF DrainsOwned
  <2> QED
    BY <2>1 DEF Owner
<1> QED
  BY <1>6, <1>7, <1>9, <1>10 DEF IInv, Slots

LEMMA ReleaseIInv == ASSUME IInv, Release PROVE IInv'
<1>1. TypeOK /\ OwnDrains /\ Distinct /\ InTransit /\ DrainsOwned
  BY DEF IInv, Slots
<1>2. /\ wifi = "release" /\ wifi' = "serve" /\ slot \in Slot
      /\ slot' \in 0 .. SlotCnt
      /\ UNCHANGED <<sockets, debug_handles, queue, locked, got, dest, to_write,
                     debug, idx, found, socket_dest, conn, stalls, printed>>
  BY <1>1, Constants DEF Release, Go, debug_vars, network, TypeOK
<1>3. \A s \in Slot : \A h : /\ Served(s)' <=> Served(s)
                             /\ Owner(h, s)' <=> Owner(h, s)
  BY <1>2 DEF Served, Owner, Accepting
<1>4. AtSlot'
  BY <1>2 DEF AtSlot, Holding
<1>5. PICK old \in Handle \cup {None} : old = debug_handles[slot]
  BY <1>1, <1>2 DEF TypeOK
<1>6. \A h \in Sockets : h # old =>
        \E s \in Slot : Owner(h, s) /\ \A t \in Slot : Owner(h, t) => s = t
  BY <1>1, <1>2, <1>5 DEF DrainsOwned
<1>7. /\ drains' \in [Handle -> {"none", "own", "socket"}]
      /\ unread' \in [Handle -> BOOLEAN]
      /\ \A h \in Handle : drains'[h] = IF h = old THEN "none" ELSE drains[h]
  BY <1>1, <1>5, Constants DEF Release, TypeOK
<1>8. Sockets' = Sockets \ {old}
  BY <1>7 DEF Sockets
<1>9. old # None => old \in Sockets /\ \A s \in Slot : ~Owner(old, s)
  BY <1>1, <1>2, <1>5 DEF InTransit
<1>10. TypeOK'
  BY <1>1, <1>2, <1>7 DEF TypeOK
<1>11. OwnDrains'
  BY <1>1, <1>7, <1>9, Constants DEF OwnDrains, Sockets
<1>12. Distinct'
  BY <1>1, <1>2, <1>3, <1>8, <1>9, OwnerIsServed DEF Distinct
<1>13. InTransit' /\ DrainsOwned'
  BY <1>2, <1>3, <1>6, <1>8 DEF InTransit, DrainsOwned
<1> QED
  BY <1>4, <1>10, <1>11, <1>12, <1>13 DEF IInv, Slots

-----------------------------------------------------------------------------
(* The wifi task, sending.                                                 *)

LEMMA ReceiveMsgIInv == ASSUME IInv, ReceiveMsg PROVE IInv'
<1>1. TypeOK /\ Slots
  BY DEF IInv
<1>2. /\ wifi = "receive" /\ wifi' \in {"receive", "send"}
      /\ UNCHANGED <<sockets, debug_handles, drains, unread, locked, slot, got,
                     debug, idx, found, socket_dest, conn, stalls, printed>>
  BY DEF ReceiveMsg, Go, debug_vars, network
<1>3. /\ queue' \in Seq(Fd \cup {None}) /\ Len(queue') <= QueueDepth
      /\ Head(queue) \in Fd \cup {None}
  BY <1>1, TelnetAssumption DEF ReceiveMsg, TypeOK
<1>4. dest' \in Fd \cup {None} /\ to_write' \in 0 .. MsgLen + MaxBack
  BY <1>1, <1>3, TelnetAssumption DEF ReceiveMsg, TypeOK
<1>5. TypeOK'
  BY <1>1, <1>2, <1>3, <1>4 DEF TypeOK
<1> QED
  BY <1>1, <1>2, <1>5, QuietStep DEF IInv, Calm

LEMMA QueueEmptyIInv == ASSUME IInv, QueueEmpty PROVE IInv'
<1>1. TypeOK /\ Slots
  BY DEF IInv
<1>2. /\ wifi = "receive" /\ wifi' = "accept" /\ printed' = FALSE
      /\ UNCHANGED <<sockets, debug_handles, drains, unread, queue, locked, slot,
                     got, dest, to_write, debug, idx, found, socket_dest, conn,
                     stalls>>
  BY DEF QueueEmpty, Go, shared, debug_vars
<1>3. TypeOK'
  BY <1>1, <1>2 DEF TypeOK
<1> QED
  BY <1>1, <1>2, <1>3, QuietStep DEF IInv, Calm

LEMMA SendIInv == ASSUME IInv, Send \/ SendAgain \/ SendFails PROVE IInv'
<1>1. TypeOK /\ Slots
  BY DEF IInv
<1>2. /\ wifi = "send" /\ wifi' \in {"receive", "send"}
      /\ UNCHANGED <<sockets, debug_handles, drains, unread, queue, locked, slot,
                     got, debug, idx, found, socket_dest, stalls, printed>>
  BY DEF Send, SendAgain, SendFails, WriteDone, Go, shared, debug_vars, network
<1>3. to_write' \in 0 .. MsgLen + MaxBack
  BY <1>1, TelnetAssumption DEF Send, SendAgain, SendFails, WriteDone, TypeOK
<1>4. dest' \in Fd \cup {None} /\ conn' \in [Fd -> Connection]
  BY <1>1 DEF Send, SendAgain, SendFails, WriteDone, network, TypeOK, Connection
<1>5. TypeOK'
  BY <1>1, <1>2, <1>3, <1>4 DEF TypeOK
<1> QED
  BY <1>1, <1>2, <1>5, QuietStep DEF IInv, Calm

LEMMA WifiTaskIInv == ASSUME IInv, WifiTask PROVE IInv'
BY AcceptIInv, AcceptNobodyIInv, GreetIInv, ReserveIInv, AssignIInv, ServeIInv,
   CloseIInv, InvalidateIInv, ReleaseIInv, ReceiveMsgIInv, QueueEmptyIInv,
   SendIInv
DEF WifiTask

-----------------------------------------------------------------------------
(* The debug task.                                                         *)

LEMMA DebugStep ==
  ASSUME IInv, DebugTask, TypeOK'
  PROVE  IInv'
<1>1. UNCHANGED <<sockets, debug_handles, drains, wifi, slot, got>>
  BY DEF DebugTask, Take, Pick, Give, Find, ReadSocket, Enqueue, shared,
     wifi_vars
<1> QED
  BY <1>1, QuietStep DEF IInv

LEMMA TakeGiveIInv == ASSUME IInv, Take \/ Give PROVE IInv'
<1>1. /\ UNCHANGED <<sockets, debug_handles, drains, unread, queue, wifi, slot,
                     got, dest, to_write, found, socket_dest, conn, stalls,
                     printed>>
      /\ idx' = 0
      /\ \/ locked' = TRUE /\ debug' = "pick"
         \/ locked' = FALSE /\ debug' = "take"
  BY DEF Take, Give, wifi_vars, network
<1>2. TypeOK'
  BY <1>1, Constants DEF IInv, TypeOK
<1> QED
  BY <1>2, DebugStep DEF DebugTask

LEMMA PickIInv == ASSUME IInv, Pick PROVE IInv'
<1>1. /\ UNCHANGED <<sockets, debug_handles, drains, queue, locked, wifi, slot,
                     got, dest, to_write, found, socket_dest, conn, stalls,
                     printed>>
      /\ debug = "pick" /\ debug' = "find"
      /\ unread' = [unread EXCEPT ![Least(Readable)] = FALSE]
  BY DEF Pick, wifi_vars, network
<1>2. Readable \in SUBSET Nat /\ Readable \subseteq Handle
  BY Constants DEF Readable, Sockets
<1>3. idx' \in Handle
  BY <1>2, LeastIsLeast DEF Pick
<1>4. unread' \in [Handle -> BOOLEAN]
  BY <1>1 DEF IInv, TypeOK
<1>5. TypeOK'
  BY <1>1, <1>3, <1>4, Constants DEF IInv, TypeOK
<1> QED
  BY <1>5, DebugStep DEF DebugTask

LEMMA FindIInv == ASSUME IInv, Find PROVE IInv'
<1>1. /\ UNCHANGED <<sockets, debug_handles, drains, unread, queue, locked, wifi,
                     slot, got, dest, to_write, socket_dest, conn, stalls,
                     printed>>
      /\ debug = "find" /\ idx \in Handle
  BY DEF IInv, TypeOK, Find, shared, wifi_vars, network
<1>2. CASE SlotsOf(idx) = {}
  <2>1. debug' = "pick" /\ idx' \in 0 .. DRAIN_CNT /\ found' = found
    BY <1>1, <1>2, Constants DEF Find
  <2>2. TypeOK'
    BY <1>1, <2>1 DEF IInv, TypeOK
  <2> QED
    BY <2>2, DebugStep DEF DebugTask
<1>3. CASE SlotsOf(idx) # {}
  <2>1. SlotsOf(idx) \in SUBSET Nat /\ SlotsOf(idx) \subseteq Slot
    BY Constants DEF SlotsOf
  <2>2. debug' = "read" /\ idx' = idx /\ found' \in Slot
    BY <1>3, <2>1, LeastIsLeast DEF Find
  <2>3. TypeOK'
    BY <1>1, <2>2 DEF IInv, TypeOK
  <2> QED
    BY <2>3, DebugStep DEF DebugTask
<1> QED
  BY <1>2, <1>3

LEMMA ReadSocketIInv == ASSUME IInv, ReadSocket PROVE IInv'
<1>1. /\ UNCHANGED <<sockets, debug_handles, drains, unread, queue, locked, wifi,
                     slot, got, dest, to_write, idx, conn, stalls, printed>>
      /\ debug = "read" /\ debug' = "enqueue" /\ found' = 0
      /\ socket_dest' \in Fd \cup {None}
  BY DEF IInv, TypeOK, ReadSocket, shared, wifi_vars, network
<1>2. TypeOK'
  BY <1>1, Constants DEF IInv, TypeOK
<1> QED
  BY <1>2, DebugStep DEF DebugTask

LEMMA EnqueueIInv == ASSUME IInv, Enqueue PROVE IInv'
<1>1. /\ UNCHANGED <<sockets, debug_handles, drains, unread, locked, wifi, slot,
                     got, dest, to_write, found, conn, stalls, printed>>
      /\ debug = "enqueue" /\ debug' = "pick" /\ socket_dest' = None
  BY DEF Enqueue, wifi_vars, network
<1>2. idx' \in 0 .. DRAIN_CNT
  BY Constants DEF IInv, TypeOK, Enqueue
<1>3. queue' \in Seq(Fd \cup {None}) /\ Len(queue') <= QueueDepth
  <2>1. /\ queue \in Seq(Fd \cup {None}) /\ Len(queue) <= QueueDepth
        /\ socket_dest \in Fd \cup {None} /\ QueueDepth \in Nat
    BY TelnetAssumption DEF IInv, TypeOK
  <2> QED
    BY <2>1 DEF Enqueue
<1>4. TypeOK'
  BY <1>1, <1>2, <1>3 DEF IInv, TypeOK
<1> QED
  BY <1>4, DebugStep DEF DebugTask

LEMMA DebugTaskIInv == ASSUME IInv, DebugTask PROVE IInv'
BY TakeGiveIInv, PickIInv, FindIInv, ReadSocketIInv, EnqueueIInv DEF DebugTask

-----------------------------------------------------------------------------
(* The clients and the other tasks; steps that change nothing.             *)

LEMMA EnvironmentIInv == ASSUME IInv, Environment PROVE IInv'
<1>1. UNCHANGED <<sockets, debug_handles, drains, queue, locked, wifi, slot, got,
                  dest, to_write, debug, idx, found, socket_dest>>
  BY DEF Environment, Stall, Resume, Leave, Break, ClientDoes, OtherPrint,
     shared, wifi_vars, debug_vars
<1>2. /\ stalls \in 0 .. MaxStalls /\ printed \in BOOLEAN
      /\ \/ UNCHANGED stalls
         \/ stalls < MaxStalls /\ stalls' = stalls + 1
      /\ UNCHANGED printed \/ printed' = TRUE
  BY DEF IInv, TypeOK, Environment, Stall, Resume, Leave, Break, ClientDoes,
     OtherPrint
<1>3. conn' \in [Fd -> Connection]
  BY DEF IInv, TypeOK, Connection, Environment, Stall, Resume, Leave, Break,
     ClientDoes, OtherPrint
<1>4. unread' \in [Handle -> BOOLEAN]
  BY DEF IInv, TypeOK, Environment, Stall, Resume, Leave, Break, ClientDoes,
     OtherPrint, PrintTo, shared
<1>5. stalls' \in 0 .. MaxStalls
  BY <1>2, TelnetAssumption
<1>6. printed' \in BOOLEAN
  BY <1>2
<1>7. TypeOK'
  BY <1>1, <1>3, <1>4, <1>5, <1>6 DEF IInv, TypeOK
<1> QED
  BY <1>1, <1>7, QuietStep DEF IInv

LEMMA StutterIInv == ASSUME IInv, UNCHANGED vars PROVE IInv'
<1>1. TypeOK'
  BY DEF IInv, TypeOK, vars, shared, wifi_vars, debug_vars, network
<1>2. Slots'
  BY QuietStep DEF IInv, vars, shared, wifi_vars
<1> QED
  BY <1>1, <1>2 DEF IInv

LEMMA NextIInv == IInv /\ [Next]_vars => IInv'
BY WifiTaskIInv, DebugTaskIInv, EnvironmentIInv, StutterIInv DEF Next

THEOREM Invariance == Spec => []IInv
BY InitIInv, NextIInv, PTL DEF Spec

-----------------------------------------------------------------------------
(* Neither task ever holds a slot, a drain or a message that is not one,   *)
(* and the queue never holds more than its depth.                          *)
THEOREM TypeCorrect == Spec => []TypeOK
<1>1. IInv => TypeOK
  BY DEF IInv
<1> QED
  BY <1>1, Invariance, PTL

(* However many clients come, go and are turned away, in whatever order:   *)
(* the first slot with the handle of an open one is that slot, so that     *)
(* _debug_drain sends a client's log to that client.                       *)
THEOREM FirstSlotIsOpen == Spec => []MatchingSocket
<1>1. IInv => MatchingSocket
  <2> SUFFICES ASSUME IInv, NEW s \in Slot, NEW h \in Sockets, Owner(h, s)
               PROVE  s = Least(SlotsOf(h))
    BY DEF MatchingSocket
  <2>1. SlotsOf(h) \in SUBSET Nat /\ s \in SlotsOf(h)
    BY Constants DEF SlotsOf, Owner
  <2>2. PICK first \in SlotsOf(h) : first = Least(SlotsOf(h)) /\ first <= s
    BY <2>1, LeastIsLeast
  <2>3. \A t \in Slot : t < s => debug_handles[t] # h
    BY Constants, OwnerIsServed DEF IInv, Slots, Distinct, Sockets
  <2>4. first \in Slot /\ first \in Nat /\ s \in Nat /\ debug_handles[first] = h
    BY <2>2, Constants DEF SlotsOf
  <2> QED
    BY <2>2, <2>3, <2>4
<1> QED
  BY <1>1, Invariance, PTL

(* No order of accepting, reserving and releasing loses a drain or gives   *)
(* it to two clients.                                                      *)
THEOREM EveryDrainHasItsClient == Spec => []DrainsOwned
<1>1. IInv => DrainsOwned
  BY DEF IInv, Slots
<1> QED
  BY <1>1, Invariance, PTL

-----------------------------------------------------------------------------
(* The descriptors.                                                        *)

(* Nothing but accept and close gives out a number or takes it back.       *)
LEMMA NumbersStay ==
  ASSUME TypeOK, OwnConnection, UNCHANGED sockets,
         \A f \in Fd : conn'[f] = "free" <=> conn[f] = "free",
         wifi # "invalidate" \/ UNCHANGED <<wifi, slot>>
  PROVE  OwnConnection'
<1>1. \A s \in Slot : sockets[s] # None => sockets[s] \in Fd
  BY DEF TypeOK
<1>2. CASE UNCHANGED <<wifi, slot>>
  BY <1>1, <1>2 DEF OwnConnection
<1>3. CASE wifi # "invalidate"
  BY <1>1, <1>3 DEF OwnConnection
<1> QED
  BY <1>2, <1>3

LEMMA WifiKeepsConnections ==
  ASSUME IInv, OwnConnection, WifiTask
  PROVE  OwnConnection'
<1>1. TypeOK /\ AtSlot
  BY DEF IInv, Slots
<1>2. CASE Accept
  <2>1. FreeSlots \in SUBSET Nat /\ FreeFds \in SUBSET Nat
    BY Constants DEF FreeSlots, FreeFds
  <2>2. PICK s \in Slot, f \in Fd :
          /\ conn[f] = "free" /\ sockets' = [sockets EXCEPT ![s] = f]
          /\ conn' = [conn EXCEPT ![f] = "up"]
    BY <1>2, <2>1, LeastIsLeast DEF Accept, FreeSlot, FreeSlots, FreeFds
  <2>3. \A t \in Slot : sockets[t] # None =>
          sockets[t] \in Fd /\ conn[sockets[t]] # "free"
    BY <1>1, <1>2 DEF Accept, OwnConnection, TypeOK
  <2>4. \A t \in Slot : sockets'[t] # None =>
          sockets'[t] \in Fd /\ conn'[sockets'[t]] # "free"
    BY <1>1, <2>2, <2>3 DEF TypeOK
  <2>5. \A t, u \in Slot : sockets'[t] # None /\ sockets'[t] = sockets'[u] => t = u
    BY <1>1, <2>2, <2>3 DEF OwnConnection, TypeOK
  <2> QED
    BY <2>4, <2>5 DEF OwnConnection
<1>3. CASE Greet
  <2>1. CASE UNCHANGED <<sockets, slot, conn>>
    BY <1>1, <1>3, <2>1, NumbersStay DEF Greet
  <2>2. CASE /\ conn' = [conn EXCEPT ![sockets[slot]] = "free"]
             /\ sockets' = [sockets EXCEPT ![slot] = None]
    <3>1. slot \in Slot /\ wifi = "greet"
      BY <1>1, <1>3 DEF Greet, TypeOK
    <3>2. \A t \in Slot : sockets'[t] # None =>
            t # slot /\ sockets'[t] = sockets[t] /\ sockets[t] # sockets[slot]
      BY <1>1, <2>2, <3>1 DEF TypeOK, OwnConnection
    <3> QED
      BY <1>1, <2>2, <3>1, <3>2 DEF OwnConnection, TypeOK
  <2> QED
    BY <1>3, <2>1, <2>2 DEF Greet
<1>4. CASE Close
  <2>1. /\ slot \in Slot /\ wifi = "close" /\ wifi' = "invalidate"
        /\ slot' = slot /\ sockets' = sockets /\ sockets[slot] # None
        /\ conn' = [conn EXCEPT ![sockets[slot]] = "free"]
    BY <1>1, <1>4 DEF Close, Go, shared, TypeOK, AtSlot, Holding
  <2> QED
    BY <1>1, <2>1 DEF OwnConnection, TypeOK
<1>5. CASE Invalidate
  <2>1. /\ slot \in Slot /\ conn' = conn
        /\ sockets' = [sockets EXCEPT ![slot] = None]
    BY <1>1, <1>5 DEF Invalidate, network, TypeOK
  <2>2. \A t \in Slot : sockets'[t] # None => t # slot /\ sockets'[t] = sockets[t]
    BY <1>1, <2>1 DEF TypeOK
  <2> QED
    BY <2>1, <2>2 DEF OwnConnection
<1>6. CASE Send
  <2>1. \A f \in Fd : conn'[f] = "free" <=> conn[f] = "free"
    BY <1>1, <1>6 DEF Send, TypeOK
  <2> QED
    BY <1>1, <1>6, <2>1, NumbersStay DEF Send, shared
<1>7. CASE AcceptNobody \/ Reserve \/ Assign \/ Serve \/ Release \/ ReceiveMsg
             \/ QueueEmpty \/ SendAgain \/ SendFails
  <2>1. UNCHANGED <<sockets, conn>> /\ wifi # "invalidate"
    BY <1>7 DEF AcceptNobody, Reserve, Assign, Serve, Release, ReceiveMsg,
       QueueEmpty, SendAgain, SendFails, shared, network
  <2> QED
    BY <1>1, <2>1, NumbersStay
<1> QED
  BY <1>2, <1>3, <1>4, <1>5, <1>6, <1>7 DEF WifiTask

(* However often clients come and go and descriptors are used again, no    *)
(* slot ever holds the number of another slot's client or of a descriptor  *)
(* that is not its own any more.                                           *)
THEOREM EverySlotHasItsConnection == Spec => []OwnConnection
<1>1. Init => OwnConnection
  BY DEF Init, OwnConnection
<1>2. IInv /\ OwnConnection /\ [Next]_vars => OwnConnection'
  <2> SUFFICES ASSUME IInv, OwnConnection, [Next]_vars PROVE OwnConnection'
    OBVIOUS
  <2>1. TypeOK
    BY DEF IInv
  <2>2. CASE DebugTask \/ UNCHANGED vars
    <3>1. UNCHANGED <<sockets, conn, wifi, slot>>
      BY <2>2 DEF DebugTask, Take, Pick, Give, Find, ReadSocket, Enqueue, vars,
         shared, wifi_vars, network
    <3> QED
      BY <2>1, <3>1, NumbersStay
  <2>3. CASE Environment
    <3>1. UNCHANGED <<sockets, wifi, slot>>
      BY <2>3 DEF Environment, Stall, Resume, Leave, Break, ClientDoes,
         OtherPrint, shared, wifi_vars
    <3>2. \A f \in Fd : conn'[f] = "free" <=> conn[f] = "free"
      BY <2>1, <2>3 DEF TypeOK, Environment, Stall, Resume, Leave, Break,
         ClientDoes, OtherPrint
    <3> QED
      BY <2>1, <3>1, <3>2, NumbersStay
  <2> QED
    BY <2>2, <2>3, WifiKeepsConnections DEF Next
<1> QED
  BY <1>1, <1>2, Invariance, PTL DEF Spec
=============================================================================
