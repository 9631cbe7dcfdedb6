--------------------------- MODULE PresenceProofs ---------------------------
(***************************************************************************)
(* Presence is exact where no race of the code has blurred it, contacts    *)
(* know unless announcements crossed, and who is away gets the push: for   *)
(* every number of sockets and devices and every TTL, whatever heartbeats  *)
(* are missed and whichever servers stop.                                  *)
(***************************************************************************)
EXTENDS Presence, FiniteSetTheorems, TLAPS

-----------------------------------------------------------------------------
(* The inductive invariant.                                                *)

\* A handler will run SET of the presence key.
Setting == \E s \in Sockets : socket[s].connect \in {"expireFirst", "set"}

\* The handler of s has announced nothing while its connection is open.
ClosedOK == \A s \in Sockets : socket[s].open => socket[s].close = "idle"

\* A connection that is not due has its keys renewed in this tick, or will.
RenewedBy(s) ==
    /\ counter.ttl >= TTL \/ socket[s].connect \in {"expire", "expireFirst"}
    /\ presence = TTL \/ socket[s].connect \in {"expire", "renew"} \/ Setting

\* What the keys are, while handlers are at work.
KeysOK ==
    /\ counter.n = Cardinality(Open)
    /\ IF Open = {}
       THEN counter = NoKey /\ presence = 0 /\ ~Setting
       ELSE counter.ttl > 0 /\ (presence > 0 \/ Setting)
    /\ \A s \in Open : ~socket[s].due => RenewedBy(s)

ComesOnline(s) == socket[s].connect \in {"expireFirst", "set", "online"}

\* One announcement is pending at most, and it is of what is the case.
Lone ==
    /\ \A s, r \in Sockets : Announcing(s) /\ Announcing(r) => s = r
    /\ \A s \in Sockets :
         /\ ComesOnline(s) => Open # {} /\ socket[s].close = "idle"
         /\ socket[s].close # "idle" => Open = {}
         /\ socket[s].close = "lastSeen" => contacts.heard = "offline"

\* What contacts have heard, once the announcement is out.
Heard ==
    IF Open = {} THEN contacts.heard = "offline" /\ contacts.lastSeen # "due"
    ELSE contacts.heard = "online"

AnnouncedOK == Lone /\ (~Crossing => Heard)

\* A push that owes something finds the account away and its devices there.
PushOK ==
    /\ push.owed # {} => Open = {} /\ presence = 0 /\ ~Setting
    /\ push.owed \subseteq Working
    /\ push.pc = "idle" => push.owed \subseteq push.sent
    /\ push.pc = "send" => push.owed \subseteq push.found
    /\ push.pc = "cleanup" =>
         /\ push.owed \subseteq push.sent
         /\ \A d \in push.found : ~device[d].works

Inv ==
    /\ TypeOK /\ ClosedOK /\ PushOK
    /\ ~history.blurred => KeysOK
    /\ history.blurred => history.crossed
    /\ ~history.crossed => AnnouncedOK

-----------------------------------------------------------------------------
(* Counting connections.                                                   *)

LEMMA SocketCount ==
    ASSUME NEW S \in SUBSET Sockets, NEW s \in Sockets
    PROVE  /\ Cardinality(S) \in Nat /\ Cardinality(S) <= Cardinality(Sockets)
           /\ Cardinality(S) = 0 <=> S = {}
           /\ s \notin S => Cardinality(S \union {s}) = Cardinality(S) + 1
           /\ s \in S => Cardinality(S \ {s}) = Cardinality(S) - 1
<1>1. IsFiniteSet(S) /\ Cardinality(S) <= Cardinality(Sockets)
  BY SocketsAssumption, FS_Subset
<1>2. QED
  BY <1>1, FS_CardinalityType, FS_EmptySet, FS_AddElement, FS_RemoveElement

LEMMA SocketsFinite == Cardinality(Sockets) \in Nat
  BY SocketsAssumption, FS_CardinalityType

-----------------------------------------------------------------------------
(* Types, and that a connection that is open has announced nothing.        *)

LEMMA InitInv == Init => Inv
<1>. SUFFICES ASSUME Init PROVE Inv
  OBVIOUS
<1>1. Open = {} /\ ~Setting
  BY DEF Init, Open, Setting, NoSocket
<1>2. Cardinality(Open) = 0
  BY <1>1, FS_EmptySet
<1>3. TypeOK /\ ClosedOK
  BY SocketsFinite, TTLAssumption
     DEF Init, TypeOK, ClosedOK, NoSocket, NoKey, NoPush, Seen, SocketRecords, ConnectPCs,
         ClosePCs, Lives, Forever, DeviceRecords, PushRecords, PushPCs
<1>4. KeysOK
  BY <1>1, <1>2 DEF Init, KeysOK, NoKey
<1>5. AnnouncedOK
  BY <1>1 DEF Init, AnnouncedOK, Lone, Heard, Announcing, ComesOnline, NoSocket
<1>6. PushOK
  BY DEF Init, PushOK, NoPush
<1>. QED
  BY <1>3, <1>4, <1>5, <1>6 DEF Init, Inv

\* What each handler does to the sockets, field by field.
Others(s) == \A r \in Sockets \ {s} : socket'[r] = socket[r]
Typed == socket \in [Sockets -> SocketRecords]

LEMMA ConnectMoves ==
    ASSUME NEW s \in Sockets, Typed, Connect(s)
    PROVE  /\ Typed' /\ Others(s) /\ s \notin Open /\ Open' = Open \union {s}
           /\ socket[s] = NoSocket
           /\ socket'[s].open /\ socket'[s].close = "idle" /\ ~socket'[s].due
           /\ socket'[s].connect = IF counter.n = 0 THEN "expireFirst" ELSE "expire"
<1>. DEFINE connect == IF counter.n = 0 THEN "expireFirst" ELSE "expire"
            new == [open |-> TRUE, due |-> FALSE, close |-> "idle", connect |-> connect]
<1>2. socket' = [socket EXCEPT ![s] = new] /\ socket[s] = NoSocket
  BY DEF Connect
<1>3. new \in SocketRecords
  BY DEF SocketRecords, ConnectPCs, ClosePCs
<1>4. socket'[s] = new /\ Others(s) /\ Typed'
  BY <1>2, <1>3 DEF Typed, Others
<1>. HIDE DEF connect
<1>5. QED
  BY <1>2, <1>4 DEF Others, Typed, Open, NoSocket, connect

LEMMA DisconnectMoves ==
    ASSUME NEW s \in Sockets, Typed, Disconnect(s)
    PROVE  /\ Typed' /\ Others(s) /\ s \in Open /\ Open' = Open \ {s}
           /\ ~socket'[s].open /\ ~socket'[s].due
           /\ socket'[s].connect = socket[s].connect
           /\ socket'[s].close = IF counter.n <= 1 THEN "offline" ELSE "idle"
<1>. DEFINE close == IF counter.n <= 1 THEN "offline" ELSE "idle"
            new == [open |-> FALSE, due |-> FALSE,
                    connect |-> socket[s].connect, close |-> close]
<1>1. socket[s] \in SocketRecords /\ close \in ClosePCs
  BY DEF Typed, ClosePCs
<1>3. socket' = [socket EXCEPT ![s] = new] /\ socket[s].open
  BY DEF Disconnect
<1>4. new \in SocketRecords
  BY <1>1 DEF SocketRecords
<1>5. socket'[s] = new /\ Others(s) /\ Typed'
  BY <1>3, <1>4 DEF Typed, Others
<1>. HIDE DEF close
<1>6. QED
  BY <1>3, <1>5 DEF Others, Typed, Open, close

LEMMA HandlerMoves ==
    ASSUME NEW s \in Sockets, Typed, Heartbeat(s) \/ SocketStep(s)
    PROVE  /\ Typed' /\ Others(s) /\ Open' = Open
           /\ socket'[s].open = socket[s].open
           /\ Heartbeat(s) => /\ s \in Open /\ socket[s].connect = "idle"
                              /\ socket'[s].connect = "renew"
                              /\ socket'[s].close = socket[s].close
           /\ SocketStep(s) => socket'[s].due = socket[s].due
           /\ ConnectExpire(s) =>
                /\ socket'[s].connect = IF socket[s].connect = "expire" THEN "renew" ELSE "set"
                /\ socket'[s].close = socket[s].close
           /\ ConnectSet(s) => socket'[s].connect = "online" /\ socket'[s].close = socket[s].close
           /\ RenewPresence(s) \/ BroadcastOnline(s) =>
                socket'[s].connect = "idle" /\ socket'[s].close = socket[s].close
           /\ BroadcastOffline(s) =>
                socket'[s].connect = socket[s].connect /\ socket'[s].close = "lastSeen"
           /\ UpdateLastSeen(s) =>
                socket'[s].connect = socket[s].connect /\ socket'[s].close = "idle"
<1>. USE DEF Typed, Others, Open, SocketRecords, ConnectPCs, ClosePCs
<1>1. CASE Heartbeat(s)
  BY <1>1 DEF Heartbeat, SocketStep, ConnectExpire, ConnectSet, RenewPresence,
              BroadcastOnline, BroadcastOffline, UpdateLastSeen
<1>2. CASE SocketStep(s)
  BY <1>2 DEF Heartbeat, SocketStep, ConnectExpire, ConnectSet, RenewPresence,
              BroadcastOnline, BroadcastOffline, UpdateLastSeen
<1>. QED
  BY <1>1, <1>2

LEMMA DeviceFields ==
    ASSUME NEW r \in DeviceRecords
    PROVE  /\ \A who \in {"nobody", "account", "other"} :
                [r EXCEPT !.registered = who] \in DeviceRecords
           /\ [r EXCEPT !.works = FALSE] \in DeviceRecords
  BY DEF DeviceRecords

LEMMA TypeStep ==
    ASSUME TypeOK, ClosedOK, [Next]_vars
    PROVE  TypeOK' /\ ClosedOK'
<1>. USE SocketsFinite, TTLAssumption DEF ClosedOK
<1>. DEFINE Rest == /\ counter' \in [n : 0 .. 2 * Cardinality(Sockets), ttl : Lives]
                    /\ presence' \in 0 .. TTL
                    /\ contacts' \in [heard : {"online", "offline"}, lastSeen : Seen]
                    /\ history' \in [blurred : BOOLEAN, crossed : BOOLEAN]
                    /\ device' \in [Devices -> DeviceRecords]
                    /\ push' \in PushRecords
<1>0. Typed /\ counter.ttl \in Lives /\ TTL \in Lives /\ Forever \in Lives
  BY DEF TypeOK, Typed, Lives, Forever
<1>1. ASSUME NEW s \in Sockets, Connect(s) PROVE TypeOK' /\ ClosedOK'
  <2>1. counter' \in [n : 0 .. 2 * Cardinality(Sockets), ttl : Lives]
    BY <1>0, <1>1 DEF Connect, TypeOK
  <2>2. contacts' \in [heard : {"online", "offline"}, lastSeen : Seen]
    BY <1>1 DEF Connect, TypeOK, Seen
  <2>3. history' \in [blurred : BOOLEAN, crossed : BOOLEAN]
    BY <1>1 DEF Connect, TypeOK, Crossing
  <2>4. push' \in PushRecords
    BY <1>1 DEF Connect, TypeOK, PushRecords
  <2>5. Rest
    BY <1>1, <2>1, <2>2, <2>3, <2>4 DEF Connect, TypeOK
  <2>6. Typed' /\ ClosedOK'
    BY <1>0, <1>1, ConnectMoves DEF Others
  <2>. QED
    BY <2>5, <2>6 DEF TypeOK, Typed
<1>2. ASSUME NEW s \in Sockets, Disconnect(s) PROVE TypeOK' /\ ClosedOK'
  <2>1. counter' \in [n : 0 .. 2 * Cardinality(Sockets), ttl : Lives]
    BY <1>2 DEF Disconnect, NoKey, Lives, Forever, TypeOK
  <2>2. Rest
    BY <1>2, <2>1 DEF Disconnect, TypeOK, Crossing, Announcing
  <2>3. Typed' /\ ClosedOK'
    BY <1>0, <1>2, DisconnectMoves DEF Others, Open
  <2>. QED
    BY <2>2, <2>3 DEF TypeOK, Typed
<1>3. ASSUME NEW s \in Sockets, Heartbeat(s) \/ SocketStep(s) PROVE TypeOK' /\ ClosedOK'
  <2>1. CASE Heartbeat(s) \/ ConnectExpire(s)
    <3>1. counter' = [counter EXCEPT !.ttl = Renewed(@)]
      BY <2>1 DEF Heartbeat, ConnectExpire
    <3>2. counter' \in [n : 0 .. 2 * Cardinality(Sockets), ttl : Lives]
      BY <1>0, <3>1 DEF Renewed, TypeOK
    <3>3. UNCHANGED <<presence, contacts, history, device, push>>
      BY <2>1 DEF Heartbeat, ConnectExpire
    <3>4. Typed' /\ ClosedOK'
      BY <1>0, <2>1, HandlerMoves DEF SocketStep, Others
    <3>. QED
      BY <3>2, <3>3, <3>4 DEF TypeOK, Typed
  <2>2. CASE ConnectSet(s) \/ RenewPresence(s)
    BY <1>0, <2>2, HandlerMoves DEF SocketStep, ConnectSet, RenewPresence, Renewed, TypeOK, Typed, Others
  <2>3. CASE BroadcastOnline(s) \/ BroadcastOffline(s) \/ UpdateLastSeen(s)
    <3>1. Rest
      BY <2>3 DEF BroadcastOnline, BroadcastOffline, Broadcast, UpdateLastSeen, TypeOK, Seen
    <3>2. Typed' /\ ClosedOK'
      BY <1>0, <2>3, HandlerMoves
         DEF SocketStep, BroadcastOffline, UpdateLastSeen, Others
    <3>. QED
      BY <3>1, <3>2 DEF TypeOK, Typed
  <2>. QED
    BY <1>3, <2>1, <2>2, <2>3 DEF SocketStep
<1>5. CASE Tick
  <2>1. Aged(counter.ttl) \in Lives /\ Aged(presence) \in 0 .. TTL
    BY DEF Aged, Lives, Forever, TypeOK
  <2>2. Rest
    BY <1>5, <2>1 DEF Tick, NoKey, TypeOK
  <2>. QED
    BY <1>5, <2>2 DEF Tick, TypeOK, SocketRecords
<1>6. CASE ServerStops
  BY <1>6 DEF ServerStops, TypeOK, NoSocket, SocketRecords, ConnectPCs, ClosePCs
<1>7. CASE PushFindParticipants
  BY <1>7 DEF PushFindParticipants, Owed, Working, TypeOK, PushRecords, PushPCs, online
<1>8. CASE PushStep \/ PushCrash
  <2>1. push' \in PushRecords
    <3>. USE DEF TypeOK, PushRecords, PushPCs
    <3>1. CASE PushMget
      BY <3>1 DEF PushMget
    <3>2. CASE PushFindDevices
      BY <3>2 DEF PushFindDevices
    <3>3. CASE PushSend
      BY <3>3 DEF PushSend
    <3>4. CASE PushCleanup
      BY <3>4 DEF PushCleanup
    <3>5. CASE PushCrash
      BY <3>5 DEF PushCrash, NoPush
    <3>. QED
      BY <1>8, <3>1, <3>2, <3>3, <3>4, <3>5 DEF PushStep
  <2>2. device' \in [Devices -> DeviceRecords]
    <3>1. CASE PushCleanup
      BY <3>1, DeviceFields DEF PushCleanup, TypeOK
    <3>2. CASE ~PushCleanup
      BY <1>8, <3>2 DEF PushStep, PushMget, PushFindDevices, PushSend, PushCrash, TypeOK
    <3>. QED
      BY <3>1, <3>2
  <2>3. UNCHANGED online
    BY <1>8 DEF PushStep, PushMget, PushFindDevices, PushSend, PushCleanup, PushCrash
  <2>. QED
    BY <2>1, <2>2, <2>3 DEF TypeOK, online
<1>9. ASSUME NEW d \in Devices, RegisterDevice(d) \/ RemoveDevice(d) \/ AppRemoved(d)
      PROVE  TypeOK' /\ ClosedOK'
  <2>1. push' \in PushRecords
    BY <1>9 DEF RegisterDevice, RemoveDevice, AppRemoved, TypeOK, PushRecords
  <2>2. device' \in [Devices -> DeviceRecords]
    <3>1. device[d] \in DeviceRecords
      BY DEF TypeOK
    <3>2. PICK new \in DeviceRecords : device' = [device EXCEPT ![d] = new]
      <4>1. CASE RegisterDevice(d)
        BY <3>1, <4>1, DeviceFields DEF RegisterDevice
      <4>2. CASE RemoveDevice(d)
        BY <3>1, <4>2, DeviceFields DEF RemoveDevice
      <4>3. CASE AppRemoved(d)
        BY <3>1, <4>3, DeviceFields DEF AppRemoved
      <4>. QED
        BY <1>9, <4>1, <4>2, <4>3
    <3>. QED
      BY <3>2 DEF TypeOK
  <2>3. UNCHANGED online
    BY <1>9 DEF RegisterDevice, RemoveDevice, AppRemoved
  <2>. QED
    BY <2>1, <2>2, <2>3 DEF TypeOK, online
<1>10. CASE UNCHANGED vars
  BY <1>10 DEF vars, online, TypeOK
<1>. QED
  BY <1>1, <1>2, <1>3, <1>5, <1>6, <1>7, <1>8, <1>9, <1>10 DEF Next

-----------------------------------------------------------------------------
(* The keys.                                                               *)

LEMMA KeysOnConnect ==
    ASSUME TypeOK, KeysOK, NEW s \in Sockets, Connect(s)
    PROVE  KeysOK'
<1>. USE TTLAssumption
<1>1. /\ Others(s) /\ s \notin Open /\ Open' = Open \union {s} /\ socket[s] = NoSocket
      /\ socket'[s].connect = IF counter.n = 0 THEN "expireFirst" ELSE "expire"
  BY ConnectMoves DEF TypeOK, Typed
<1>2. (counter.n = 0 <=> Open = {}) /\ Cardinality(Open') = counter.n + 1
  BY <1>1, SocketCount DEF KeysOK, Open
<1>3. /\ counter'.n = counter.n + 1 /\ presence' = presence
      /\ counter'.ttl = IF counter.n = 0 THEN Forever ELSE counter.ttl
  BY DEF Connect
<1>4. (Setting => Setting') /\ (counter.n = 0 => Setting')
  BY <1>1 DEF Setting, Others, NoSocket
<1>5. counter'.ttl > 0 /\ (presence' > 0 \/ Setting') /\ Open' # {}
  BY <1>1, <1>2, <1>3, <1>4 DEF KeysOK, Forever
<1>6. ASSUME NEW r \in Open', ~socket'[r].due PROVE RenewedBy(r)'
  <2>1. CASE r = s
    BY <1>1, <1>4, <2>1 DEF RenewedBy
  <2>2. CASE r # s
    <3>1. r \in Open /\ socket'[r] = socket[r] /\ RenewedBy(r)
      BY <1>1, <1>6, <2>2 DEF Others, KeysOK, Open
    <3>2. counter'.ttl = counter.ttl
      BY <1>2, <1>3, <3>1
    <3>. QED
      BY <1>3, <1>4, <3>1, <3>2 DEF RenewedBy
  <2>. QED
    BY <2>1, <2>2
<1>. QED
  BY <1>2, <1>3, <1>5, <1>6 DEF KeysOK

LEMMA KeysOnDisconnect ==
    ASSUME TypeOK, KeysOK, NEW s \in Sockets, Disconnect(s), ~history'.blurred
    PROVE  KeysOK'
<1>1. /\ Others(s) /\ s \in Open /\ Open' = Open \ {s}
      /\ socket'[s].connect = socket[s].connect
  BY DisconnectMoves DEF TypeOK, Typed
<1>2. counter.n \in Nat /\ Cardinality(Open') = counter.n - 1 /\ (Cardinality(Open') = 0 <=> Open' = {})
  <2>1. Cardinality(Open') = Cardinality(Open) - 1 /\ Cardinality(Open) \in Nat
    BY <1>1, SocketCount DEF Open
  <2>2. Cardinality(Open') = 0 <=> Open' = {}
    BY <1>1, SocketCount DEF Open
  <2>. QED
    BY <2>1, <2>2 DEF KeysOK
<1>3. Setting' <=> Setting
  BY <1>1 DEF Setting, Others
<1>4. CASE counter.n <= 1
  <2>1. Open' = {} /\ counter' = NoKey /\ presence' = 0
    BY <1>1, <1>2, <1>4, SocketCount DEF Disconnect, KeysOK, Open
  <2>2. ~Setting
    BY <1>4 DEF Disconnect, Setting
  <2>. QED
    BY <1>2, <1>3, <2>1, <2>2 DEF KeysOK, NoKey
<1>5. CASE ~(counter.n <= 1)
  <2>1. counter'.n = counter.n - 1 /\ counter'.ttl = counter.ttl /\ presence' = presence
    BY <1>5 DEF Disconnect, TypeOK
  <2>2. Open' # {}
    BY <1>2, <1>5
  <2>3. ASSUME NEW r \in Open', ~socket'[r].due PROVE RenewedBy(r)'
    <3>1. r \in Open /\ socket'[r] = socket[r] /\ RenewedBy(r)
      BY <1>1, <2>3 DEF Others, KeysOK, Open
    <3>. QED
      BY <1>3, <2>1, <3>1 DEF RenewedBy
  <2>. QED
    BY <1>1, <1>2, <1>3, <2>1, <2>2, <2>3 DEF KeysOK
<1>. QED
  BY <1>4, <1>5

LEMMA KeysOnHandler ==
    ASSUME TypeOK, KeysOK, NEW s \in Sockets, Heartbeat(s) \/ SocketStep(s)
    PROVE  KeysOK'
<1>. USE TTLAssumption
<1>0. counter.ttl \in Nat /\ presence \in Nat /\ counter.n \in Nat
  BY SocketsFinite DEF TypeOK, Lives, Forever
<1>1. /\ Others(s) /\ Open' = Open
      /\ SocketStep(s) => socket'[s].due = socket[s].due
      /\ Heartbeat(s) => /\ s \in Open /\ socket[s].connect = "idle"
                         /\ socket'[s].connect = "renew"
      /\ ConnectExpire(s) =>
           socket'[s].connect = IF socket[s].connect = "expire" THEN "renew" ELSE "set"
      /\ ConnectSet(s) => socket'[s].connect = "online"
      /\ RenewPresence(s) \/ BroadcastOnline(s) => socket'[s].connect = "idle"
      /\ BroadcastOffline(s) \/ UpdateLastSeen(s) => socket'[s].connect = socket[s].connect
  BY HandlerMoves DEF TypeOK, Typed
<1>2. CASE Heartbeat(s)
  <2>1. /\ counter'.n = counter.n /\ counter'.ttl = Renewed(counter.ttl)
        /\ presence' = presence /\ counter.ttl > 0 /\ Open # {}
        /\ presence > 0 \/ Setting
    BY <1>1, <1>2 DEF Heartbeat, TypeOK, KeysOK
  <2>2. counter'.ttl = TTL
    BY <1>0, <2>1 DEF Renewed
  <2>3. Setting' <=> Setting
    BY <1>1, <1>2 DEF Setting, Others
  <2>4. ASSUME NEW r \in Open, ~socket'[r].due PROVE RenewedBy(r)'
    BY <1>0, <1>1, <1>2, <2>1, <2>2, <2>3, <2>4 DEF RenewedBy, Others, KeysOK, Open
  <2>. QED
    BY <1>1, <2>1, <2>2, <2>3, <2>4 DEF KeysOK
<1>3. CASE ConnectExpire(s)
  <2>1. /\ counter' = [counter EXCEPT !.ttl = Renewed(counter.ttl)] /\ presence' = presence
        /\ counter'.n = counter.n /\ counter'.ttl = Renewed(counter.ttl)
        /\ socket[s].connect \in {"expire", "expireFirst"}
    BY <1>3 DEF ConnectExpire, TypeOK
  <2>2. Setting' <=> Setting
    BY <1>1, <1>3, <2>1 DEF Setting, Others
  <2>3. CASE Open = {}
    <3>1. counter'.ttl = 0 /\ counter' = NoKey
      BY <2>1, <2>3 DEF KeysOK, Renewed, NoKey
    <3>. QED
      BY <1>1, <2>1, <2>2, <2>3, <3>1 DEF KeysOK
  <2>4. CASE Open # {}
    <3>1. counter'.ttl = TTL
      BY <1>0, <2>1, <2>4 DEF KeysOK, Renewed
    <3>2. ASSUME NEW r \in Open, ~socket'[r].due PROVE RenewedBy(r)'
      <4>1. RenewedBy(r)
        BY <1>1, <1>3, <3>2 DEF Others, KeysOK, Open, SocketStep
      <4>2. CASE r = s
        BY <1>1, <1>3, <2>1, <2>2, <3>1, <4>1, <4>2 DEF RenewedBy, Setting
      <4>3. CASE r # s
        BY <1>1, <2>1, <2>2, <3>1, <4>1, <4>3 DEF RenewedBy, Others, Open
      <4>. QED
        BY <4>2, <4>3
    <3>. QED
      BY <1>1, <2>1, <2>2, <2>4, <3>1, <3>2 DEF KeysOK
  <2>. QED
    BY <2>3, <2>4
<1>4. CASE ConnectSet(s)
  <2>1. counter' = counter /\ presence' = TTL /\ Open # {}
    BY <1>4 DEF ConnectSet, KeysOK, Setting
  <2>2. ASSUME NEW r \in Open, ~socket'[r].due PROVE RenewedBy(r)'
    <3>1. RenewedBy(r)
      BY <1>1, <1>4, <2>2 DEF Others, KeysOK, Open, SocketStep
    <3>. QED
      BY <1>1, <1>4, <2>1, <3>1 DEF RenewedBy, Others, Open, ConnectSet
  <2>. QED
    BY <1>1, <2>1, <2>2 DEF KeysOK
<1>5. CASE RenewPresence(s)
  <2>1. counter' = counter /\ presence' = Renewed(presence) /\ socket[s].connect = "renew"
    BY <1>5 DEF RenewPresence
  <2>2. Setting' <=> Setting
    BY <1>1, <1>5, <2>1 DEF Setting, Others
  <2>3. presence' = IF presence = 0 THEN 0 ELSE TTL
    BY <2>1 DEF Renewed
  <2>4. ASSUME NEW r \in Open, ~socket'[r].due PROVE RenewedBy(r)'
    <3>1. RenewedBy(r) /\ Open # {}
      BY <1>1, <1>5, <2>4 DEF Others, KeysOK, Open, SocketStep
    <3>2. presence' = TTL \/ Setting'
      BY <1>0, <2>2, <2>3, <3>1 DEF KeysOK
    <3>3. counter'.ttl >= TTL \/ socket'[r].connect \in {"expire", "expireFirst"}
      BY <1>1, <2>1, <3>1 DEF RenewedBy, Others, Open
    <3>. QED
      BY <3>2, <3>3 DEF RenewedBy
  <2>. QED
    BY <1>0, <1>1, <2>1, <2>2, <2>3, <2>4 DEF KeysOK
<1>6. CASE BroadcastOnline(s) \/ BroadcastOffline(s) \/ UpdateLastSeen(s)
  <2>1. /\ counter' = counter /\ presence' = presence
        /\ BroadcastOnline(s) => socket[s].connect = "online"
    BY <1>6 DEF BroadcastOnline, BroadcastOffline, UpdateLastSeen
  <2>2. Setting' <=> Setting
    BY <1>1, <1>6, <2>1 DEF Setting, Others
  <2>3. ASSUME NEW r \in Open, ~socket'[r].due PROVE RenewedBy(r)'
    <3>1. RenewedBy(r)
      BY <1>1, <1>6, <2>3 DEF Others, KeysOK, Open, SocketStep
    <3>. QED
      BY <1>1, <1>6, <2>1, <2>2, <3>1 DEF RenewedBy, Others, Open
  <2>. QED
    BY <1>1, <2>1, <2>2, <2>3 DEF KeysOK
<1>. QED
  BY <1>2, <1>3, <1>4, <1>5, <1>6 DEF SocketStep

LEMMA KeysOnTick ==
    ASSUME TypeOK, ~history.blurred => KeysOK, Tick, ~history'.blurred
    PROVE  KeysOK'
<1>. USE TTLAssumption
<1>. DEFINE ttl == Aged(counter.ttl)
<1>0. counter.ttl \in Lives /\ counter.n \in Nat /\ presence \in 0 .. TTL
  BY SocketsFinite DEF TypeOK
<1>1. /\ Open' = Open /\ ~Setting' /\ ~Setting
      /\ \A s \in Open : socket[s].connect = "idle" /\ socket'[s].due
  BY DEF Tick, Settled, Open, Setting, TypeOK, SocketRecords
<1>2. presence' = Aged(presence) /\ counter' = IF ttl = 0 THEN NoKey ELSE [counter EXCEPT !.ttl = ttl]
  BY DEF Tick
<1>3. CASE Open = {}
  <2>1. ttl = 0 /\ Aged(presence) = 0
    <3>1. CASE history.blurred
      BY <1>3, <3>1 DEF Tick
    <3>2. CASE ~history.blurred
      BY <1>3, <3>2 DEF KeysOK, NoKey, Aged
    <3>. QED
      BY <3>1, <3>2
  <2>. QED
    BY <1>1, <1>2, <1>3, <2>1, FS_EmptySet DEF KeysOK, NoKey
<1>4. CASE Open # {}
  <2>1. ~history.blurred /\ KeysOK
    BY <1>4 DEF Tick
  <2>2. ttl > 0 /\ Aged(presence) > 0
    <3>1. CASE \A s \in Open : socket[s].due
      <4>1. ttl # 0 /\ Aged(presence) # 0
        BY <1>4, <3>1 DEF Tick
      <4>2. ttl \in Nat /\ Aged(presence) \in Nat
        BY <1>0 DEF Aged, Lives, Forever
      <4>. QED
        BY <4>1, <4>2
    <3>2. CASE \E s \in Open : ~socket[s].due
      <4>1. counter.ttl >= TTL /\ presence = TTL
        BY <1>1, <2>1, <3>2 DEF KeysOK, RenewedBy
      <4>. QED
        BY <1>0, <4>1 DEF Aged, Lives, Forever
    <3>. QED
      BY <3>1, <3>2
  <2>3. counter'.n = counter.n /\ counter'.ttl = ttl
    BY <1>2, <2>2 DEF TypeOK
  <2>. QED
    BY <1>1, <1>2, <1>4, <2>1, <2>2, <2>3 DEF KeysOK
<1>. QED
  BY <1>3, <1>4

\* Pushes and devices leave the keys and what is announced alone.
LEMMA PushFrame ==
    ASSUME PushFindParticipants \/ PushStep \/ PushCrash
             \/ (\E d \in Devices : RegisterDevice(d) \/ RemoveDevice(d) \/ AppRemoved(d))
             \/ UNCHANGED vars
    PROVE  UNCHANGED online
  BY DEF PushFindParticipants, PushStep, PushMget, PushFindDevices, PushSend, PushCleanup,
         PushCrash, RegisterDevice, RemoveDevice, AppRemoved, vars

LEMMA OnlineFrame ==
    ASSUME UNCHANGED online
    PROVE  /\ KeysOK => KeysOK'
           /\ AnnouncedOK => AnnouncedOK'
           /\ Open' = Open /\ (Setting' <=> Setting)
  BY DEF online, KeysOK, RenewedBy, Setting, Open, AnnouncedOK, Lone, Crossing, Heard,
         Announcing, ComesOnline

LEMMA KeysStep ==
    ASSUME Inv, [Next]_vars
    PROVE  (~history.blurred => KeysOK)'
<1>. SUFFICES ASSUME ~history'.blurred PROVE KeysOK'
  OBVIOUS
<1>. USE DEF Inv
<1>1. ASSUME NEW s \in Sockets, Connect(s) PROVE KeysOK'
  <2>1. ~history.blurred
    BY <1>1 DEF Connect, TypeOK
  <2>. QED
    BY <1>1, <2>1, KeysOnConnect
<1>2. ASSUME NEW s \in Sockets, Disconnect(s) PROVE KeysOK'
  <2>1. ~history.blurred
    BY <1>2 DEF Disconnect, TypeOK
  <2>. QED
    BY <1>2, <2>1, KeysOnDisconnect
<1>3. ASSUME NEW s \in Sockets, Heartbeat(s) \/ SocketStep(s) PROVE KeysOK'
  <2>1. ~history.blurred
    BY <1>3 DEF Heartbeat, SocketStep, ConnectExpire, ConnectSet, RenewPresence,
                BroadcastOnline, BroadcastOffline, Broadcast, UpdateLastSeen, TypeOK
  <2>. QED
    BY <1>3, <2>1, KeysOnHandler
<1>4. CASE Tick
  BY <1>4, KeysOnTick
<1>5. CASE ServerStops
  BY <1>5 DEF ServerStops
<1>6. CASE UNCHANGED online
  BY <1>6, OnlineFrame DEF online
<1>. QED
  BY <1>1, <1>2, <1>3, <1>4, <1>5, <1>6, PushFrame DEF Next

-----------------------------------------------------------------------------
(* What contacts hear.                                                     *)

LEMMA CrossedStep ==
    ASSUME Inv, [Next]_vars
    PROVE  (history.blurred => history.crossed)'
<1>. USE DEF Inv, TypeOK
<1>1. ASSUME NEW s \in Sockets, Connect(s) PROVE (history.blurred => history.crossed)'
  BY <1>1 DEF Connect
<1>2. ASSUME NEW s \in Sockets, Disconnect(s) PROVE (history.blurred => history.crossed)'
  BY <1>2 DEF Disconnect
<1>3. ASSUME NEW s \in Sockets, Heartbeat(s) \/ SocketStep(s)
      PROVE  (history.blurred => history.crossed)'
  BY <1>3 DEF Heartbeat, SocketStep, ConnectExpire, ConnectSet, RenewPresence,
              BroadcastOnline, BroadcastOffline, Broadcast, UpdateLastSeen
<1>4. CASE Tick
  BY <1>4 DEF Tick
<1>5. CASE ServerStops
  BY <1>5 DEF ServerStops
<1>6. CASE UNCHANGED online
  BY <1>6 DEF online
<1>. QED
  BY <1>1, <1>2, <1>3, <1>4, <1>5, <1>6, PushFrame DEF Next

\* Announcing, of another socket than the one that moves, and the count of
\* connections a handler reads: it is right when nothing has crossed.
LEMMA OthersAnnounce ==
    ASSUME NEW s \in Sockets, Others(s), NEW r \in Sockets \ {s}
    PROVE  /\ Announcing(r)' <=> Announcing(r)
           /\ ComesOnline(r)' <=> ComesOnline(r)
           /\ socket'[r].close = socket[r].close
  BY DEF Others, Announcing, ComesOnline

LEMMA AnnouncedOnConnect ==
    ASSUME Inv, NEW s \in Sockets, Connect(s), ~history'.crossed
    PROVE  AnnouncedOK'
<1>1. /\ Others(s) /\ s \notin Open /\ Open' = Open \union {s} /\ socket[s] = NoSocket
      /\ socket'[s].close = "idle"
      /\ socket'[s].connect = IF counter.n = 0 THEN "expireFirst" ELSE "expire"
  BY ConnectMoves DEF Inv, TypeOK, Typed
<1>2. ~history.blurred /\ (counter.n = 0 => ~Crossing) /\ (counter.n # 0 => ~history.crossed)
  BY DEF Connect, Inv, TypeOK
<1>3. (counter.n = 0 <=> Open = {}) /\ contacts'.heard = contacts.heard
  BY <1>1, <1>2, SocketCount DEF Inv, KeysOK, Open, Connect, TypeOK
<1>4. CASE counter.n = 0
  <2>1. ASSUME NEW r \in Sockets PROVE /\ socket'[r].close = "idle" /\ (Announcing(r)' <=> r = s)
                                       /\ ComesOnline(r)' => r = s
    BY <1>1, <1>2, <1>4, OthersAnnounce DEF Crossing, Announcing, ComesOnline
  <2>2. Crossing' /\ Open' # {}
    BY <1>1, <2>1 DEF Crossing
  <2>. QED
    BY <2>1, <2>2 DEF AnnouncedOK, Lone
<1>5. CASE counter.n # 0
  <2>1. AnnouncedOK /\ Open # {}
    BY <1>2, <1>3, <1>5 DEF Inv
  <2>2. ~Announcing(s)' /\ ~ComesOnline(s)' /\ ~Announcing(s)
    BY <1>1, <1>5 DEF Announcing, ComesOnline, NoSocket
  <2>3. ASSUME NEW r \in Sockets PROVE /\ Announcing(r)' <=> Announcing(r)
                                       /\ ComesOnline(r)' => ComesOnline(r)
                                       /\ socket'[r].close = "idle"
    BY <1>1, <2>1, <2>2, OthersAnnounce DEF AnnouncedOK, Lone
  <2>4. Lone' /\ (Crossing' <=> Crossing)
    BY <1>1, <2>1, <2>3 DEF AnnouncedOK, Lone, Crossing
  <2>5. Heard => Heard'
    BY <1>1, <1>3, <2>1 DEF Heard
  <2>. QED
    BY <2>1, <2>4, <2>5 DEF AnnouncedOK
<1>. QED
  BY <1>4, <1>5

LEMMA AnnouncedOnDisconnect ==
    ASSUME Inv, NEW s \in Sockets, Disconnect(s), ~history'.crossed
    PROVE  AnnouncedOK'
<1>1. /\ Others(s) /\ s \in Open /\ Open' = Open \ {s} /\ contacts' = contacts
      /\ socket'[s].connect = socket[s].connect
      /\ socket'[s].close = IF counter.n <= 1 THEN "offline" ELSE "idle"
  BY DisconnectMoves DEF Inv, TypeOK, Typed, Disconnect
<1>2. ~history.blurred /\ (counter.n <= 1 => ~Crossing) /\ (~(counter.n <= 1) => ~history.crossed)
  BY DEF Disconnect, Inv, TypeOK
<1>3. counter.n \in Nat /\ (counter.n <= 1 <=> Open' = {})
  <2>1. Cardinality(Open') = Cardinality(Open) - 1 /\ Cardinality(Open) \in Nat
    BY <1>1, SocketCount DEF Open
  <2>2. (Cardinality(Open') = 0 <=> Open' = {}) /\ Cardinality(Open') \in Nat
    BY <1>1, SocketCount DEF Open
  <2>. QED
    BY <1>2, <2>1, <2>2 DEF Inv, KeysOK
<1>4. CASE counter.n <= 1
  <2>1. ASSUME NEW r \in Sockets PROVE /\ ~ComesOnline(r)' /\ (Announcing(r)' <=> r = s)
                                       /\ socket'[r].close # "lastSeen"
    BY <1>1, <1>2, <1>4, OthersAnnounce DEF Crossing, Announcing, ComesOnline
  <2>2. Crossing'
    BY <2>1 DEF Crossing
  <2>. QED
    BY <1>3, <1>4, <2>1, <2>2 DEF AnnouncedOK, Lone
<1>5. CASE ~(counter.n <= 1)
  <2>1. AnnouncedOK /\ Open # {} /\ Open' # {}
    BY <1>1, <1>2, <1>3, <1>5 DEF Inv
  <2>2. ASSUME NEW r \in Sockets PROVE /\ Announcing(r)' <=> Announcing(r)
                                       /\ ComesOnline(r)' <=> ComesOnline(r)
                                       /\ socket'[r].close = "idle"
    BY <1>1, <1>5, <2>1, OthersAnnounce DEF AnnouncedOK, Lone, Announcing, ComesOnline
  <2>3. Lone' /\ (Crossing' <=> Crossing)
    BY <2>1, <2>2 DEF AnnouncedOK, Lone, Crossing
  <2>4. Heard => Heard'
    BY <1>1, <2>1 DEF Heard
  <2>. QED
    BY <2>1, <2>3, <2>4 DEF AnnouncedOK
<1>. QED
  BY <1>4, <1>5

LEMMA AnnouncedOnHandler ==
    ASSUME Inv, NEW s \in Sockets, Heartbeat(s) \/ SocketStep(s), ~history'.crossed
    PROVE  AnnouncedOK'
<1>1. /\ Others(s) /\ Open' = Open
      /\ Heartbeat(s) => socket[s].connect = "idle" /\ socket'[s].connect = "renew"
      /\ ConnectExpire(s) =>
           socket'[s].connect = IF socket[s].connect = "expire" THEN "renew" ELSE "set"
      /\ ConnectSet(s) => socket'[s].connect = "online"
      /\ RenewPresence(s) \/ BroadcastOnline(s) => socket'[s].connect = "idle"
      /\ Heartbeat(s) \/ ConnectExpire(s) \/ ConnectSet(s) \/ RenewPresence(s)
            \/ BroadcastOnline(s) => socket'[s].close = socket[s].close
      /\ BroadcastOffline(s) =>
           socket'[s].connect = socket[s].connect /\ socket'[s].close = "lastSeen"
      /\ UpdateLastSeen(s) =>
           socket'[s].connect = socket[s].connect /\ socket'[s].close = "idle"
  BY HandlerMoves DEF Inv, TypeOK, Typed
<1>2. AnnouncedOK
  BY DEF Heartbeat, SocketStep, ConnectExpire, ConnectSet, RenewPresence,
         BroadcastOnline, BroadcastOffline, Broadcast, UpdateLastSeen, Inv, TypeOK
<1>3. CASE Heartbeat(s) \/ ConnectExpire(s) \/ ConnectSet(s) \/ RenewPresence(s)
  <2>1. /\ contacts' = contacts
        /\ (Announcing(s)' <=> Announcing(s)) /\ (ComesOnline(s)' <=> ComesOnline(s))
        /\ socket'[s].close = socket[s].close
    BY <1>1, <1>3 DEF Heartbeat, ConnectExpire, ConnectSet, RenewPresence, Announcing, ComesOnline
  <2>2. ASSUME NEW r \in Sockets PROVE /\ Announcing(r)' <=> Announcing(r)
                                       /\ ComesOnline(r)' <=> ComesOnline(r)
                                       /\ socket'[r].close = socket[r].close
    BY <1>1, <2>1, OthersAnnounce
  <2>. QED
    BY <1>1, <1>2, <2>1, <2>2 DEF AnnouncedOK, Lone, Heard, Crossing
<1>4. CASE BroadcastOnline(s)
  <2>1. Announcing(s) /\ ComesOnline(s) /\ contacts'.heard = "online"
    BY <1>4 DEF BroadcastOnline, Broadcast, Announcing, ComesOnline, Inv, TypeOK
  <2>2. Open # {} /\ socket[s].close = "idle"
    BY <1>2, <2>1 DEF AnnouncedOK, Lone
  <2>3. ASSUME NEW r \in Sockets
        PROVE  ~Announcing(r)' /\ ~ComesOnline(r)' /\ socket'[r].close = "idle"
    BY <1>1, <1>2, <1>4, <2>1, <2>2, OthersAnnounce DEF AnnouncedOK, Lone, Announcing, ComesOnline
  <2>. QED
    BY <1>1, <2>1, <2>2, <2>3 DEF AnnouncedOK, Lone, Heard
<1>5. CASE BroadcastOffline(s)
  <2>1. Announcing(s) /\ contacts'.heard = "offline" /\ socket[s].close = "offline"
    BY <1>5 DEF BroadcastOffline, Broadcast, Announcing, Inv, TypeOK
  <2>2. Open = {} /\ ~ComesOnline(s)
    BY <1>2, <2>1 DEF AnnouncedOK, Lone
  <2>3. Announcing(s)' /\ ~ComesOnline(s)'
    BY <1>1, <1>5, <2>2 DEF Announcing, ComesOnline
  <2>4. ASSUME NEW r \in Sockets
        PROVE  (Announcing(r)' <=> r = s) /\ ~ComesOnline(r)'
    BY <1>1, <1>2, <2>1, <2>3, OthersAnnounce DEF AnnouncedOK, Lone, Announcing, ComesOnline
  <2>5. Crossing'
    BY <2>3 DEF Crossing
  <2>. QED
    BY <1>1, <2>1, <2>2, <2>4, <2>5 DEF AnnouncedOK, Lone
<1>6. CASE UpdateLastSeen(s)
  <2>1. /\ Announcing(s) /\ contacts'.heard = contacts.heard /\ contacts'.lastSeen # "due"
        /\ socket[s].close = "lastSeen"
    BY <1>6 DEF UpdateLastSeen, Announcing, Inv, TypeOK
  <2>2. Open = {} /\ ~ComesOnline(s) /\ contacts.heard = "offline"
    BY <1>2, <2>1 DEF AnnouncedOK, Lone
  <2>3. ASSUME NEW r \in Sockets
        PROVE  ~Announcing(r)' /\ ~ComesOnline(r)' /\ socket'[r].close = "idle"
    BY <1>1, <1>2, <1>6, <2>1, <2>2, OthersAnnounce DEF AnnouncedOK, Lone, Announcing, ComesOnline
  <2>. QED
    BY <1>1, <2>1, <2>2, <2>3 DEF AnnouncedOK, Lone, Heard
<1>. QED
  BY <1>3, <1>4, <1>5, <1>6 DEF SocketStep

LEMMA AnnouncedStep ==
    ASSUME Inv, [Next]_vars
    PROVE  (~history.crossed => AnnouncedOK)'
<1>. SUFFICES ASSUME ~history'.crossed PROVE AnnouncedOK'
  OBVIOUS
<1>1. CASE \E s \in Sockets : Connect(s) \/ Disconnect(s) \/ Heartbeat(s) \/ SocketStep(s)
  BY <1>1, AnnouncedOnConnect, AnnouncedOnDisconnect, AnnouncedOnHandler
<1>2. CASE Tick
  <2>1. AnnouncedOK /\ contacts' = contacts
    BY <1>2 DEF Tick, Inv, TypeOK
  <2>2. ASSUME NEW r \in Sockets PROVE /\ socket'[r].open = socket[r].open
                                       /\ socket'[r].connect = socket[r].connect
                                       /\ socket'[r].close = socket[r].close
    BY <1>2 DEF Tick, Inv, TypeOK, SocketRecords
  <2>3. Open' = Open
    BY <2>2 DEF Open
  <2>. QED
    BY <2>1, <2>2, <2>3 DEF AnnouncedOK, Lone, Crossing, Heard, Announcing, ComesOnline
<1>3. CASE ServerStops
  BY <1>3 DEF ServerStops
<1>4. CASE UNCHANGED online
  BY <1>4, OnlineFrame DEF Inv, online
<1>. QED
  BY <1>1, <1>2, <1>3, <1>4, PushFrame DEF Next

-----------------------------------------------------------------------------
(* What a push owes.                                                       *)

LEMMA PushOnKeys ==
    ASSUME Inv,
           NEW s \in Sockets, Connect(s) \/ Disconnect(s) \/ Heartbeat(s) \/ SocketStep(s)
    PROVE  PushOK'
<1>1. CASE Connect(s)
  BY <1>1 DEF Connect, PushOK, Working, Inv, TypeOK, PushRecords
<1>2. CASE push.owed = {} /\ ~Connect(s)
  <2>1. push' = push /\ device' = device
    BY <1>2 DEF Disconnect, Heartbeat, SocketStep, ConnectExpire, ConnectSet, RenewPresence,
                BroadcastOnline, BroadcastOffline, UpdateLastSeen
  <2>. QED
    BY <1>2, <2>1 DEF Inv, PushOK, Working
<1>3. CASE push.owed # {} /\ ~Connect(s)
  <2>1. Open = {} /\ presence = 0 /\ ~Setting
    BY <1>3 DEF Inv, PushOK
  <2>2. ~Disconnect(s) /\ ~Heartbeat(s) /\ ~ConnectSet(s) /\ socket[s].connect # "expireFirst"
    BY <2>1 DEF Disconnect, Heartbeat, ConnectSet, Open, Setting
  <2>3. /\ Others(s) /\ Open' = {}
        /\ ConnectExpire(s) => socket'[s].connect = "renew"
        /\ RenewPresence(s) \/ BroadcastOnline(s) => socket'[s].connect = "idle"
        /\ BroadcastOffline(s) \/ UpdateLastSeen(s) => socket'[s].connect = socket[s].connect
    BY <1>3, <2>1, <2>2, HandlerMoves DEF Inv, TypeOK, Typed, ConnectExpire
  <2>4. push' = push /\ device' = device /\ presence' = 0
    BY <1>3, <2>1, <2>2 DEF SocketStep, ConnectExpire, RenewPresence, Renewed,
                            BroadcastOnline, BroadcastOffline, UpdateLastSeen
  <2>5. ~Setting'
    BY <1>3, <2>1, <2>2, <2>3 DEF Setting, Others, SocketStep
  <2>. QED
    BY <2>3, <2>4, <2>5 DEF Inv, PushOK, Working
<1>. QED
  BY <1>1, <1>2, <1>3

LEMMA PushOnTime ==
    ASSUME Inv, Tick \/ ServerStops
    PROVE  PushOK'
<1>1. push' = push /\ device' = device
  BY DEF Tick, ServerStops
<1>2. Open' \subseteq Open /\ (Setting' => Setting) /\ (presence = 0 => presence' = 0)
  <2>1. CASE Tick
    <3>1. Open' = Open /\ ~Setting'
      BY <2>1 DEF Tick, Settled, Open, Setting, Inv, TypeOK, SocketRecords
    <3>2. presence' = Aged(presence)
      BY <2>1 DEF Tick
    <3>3. presence = 0 => Aged(presence) = 0
      BY DEF Aged
    <3>. QED
      BY <3>1, <3>2, <3>3
  <2>2. CASE ServerStops
    BY <2>2 DEF ServerStops, Open, Setting, NoSocket
  <2>. QED
    BY <2>1, <2>2
<1>. QED
  BY <1>1, <1>2 DEF Inv, PushOK, Working

LEMMA PushOnDevice ==
    ASSUME Inv, NEW d \in Devices, RegisterDevice(d) \/ RemoveDevice(d) \/ AppRemoved(d)
    PROVE  PushOK'
<1>1. /\ push'.owed = push.owed \ {d} /\ push'.pc = push.pc
      /\ push'.found = push.found /\ push'.sent = push.sent
  BY DEF RegisterDevice, RemoveDevice, AppRemoved, Inv, TypeOK, PushRecords
<1>2. /\ \A e \in Devices \ {d} : device'[e] = device[e]
      /\ device'[d].works => device[d].works
  BY DEF RegisterDevice, RemoveDevice, AppRemoved, Inv, TypeOK, DeviceRecords
<1>3. UNCHANGED online
  BY DEF RegisterDevice, RemoveDevice, AppRemoved
<1>4. push.found \subseteq Devices /\ push.owed \subseteq Devices
  BY DEF Inv, TypeOK, PushRecords
<1>5. push'.owed \subseteq Working'
  BY <1>1, <1>2 DEF Inv, PushOK, Working
<1>6. push'.pc = "cleanup" => \A e \in push'.found : ~device'[e].works
  BY <1>1, <1>2, <1>4 DEF Inv, PushOK
<1>7. push'.owed # {} => Open' = {} /\ presence' = 0 /\ ~Setting'
  BY <1>1, <1>3, OnlineFrame DEF Inv, PushOK, online
<1>. QED
  BY <1>1, <1>5, <1>6, <1>7 DEF Inv, PushOK

LEMMA PushOnPush ==
    ASSUME Inv, PushFindParticipants \/ PushStep \/ PushCrash
    PROVE  PushOK'
<1>0. UNCHANGED online /\ Open' = Open /\ (Setting' <=> Setting) /\ presence' = presence
  BY PushFrame, OnlineFrame DEF online
<1>. USE DEF Inv, TypeOK, PushRecords
<1>1. CASE PushFindParticipants
  <2>1. PICK muted \in BOOLEAN :
          push' = [pc |-> IF muted THEN "idle" ELSE "mget",
                   found |-> {}, owed |-> Owed(muted), sent |-> {}]
    BY <1>1 DEF PushFindParticipants
  <2>2. Owed(muted) # {} => Open = {} /\ presence = 0 /\ ~Setting
    BY DEF Owed, KeysOK
  <2>3. Owed(muted) \subseteq Working /\ (muted => Owed(muted) = {})
    BY DEF Owed
  <2>4. Working' = Working
    BY <1>1 DEF PushFindParticipants, Working
  <2>. QED
    BY <1>0, <2>1, <2>2, <2>3, <2>4 DEF PushOK
<1>2. CASE PushMget
  <2>1. push'.owed = push.owed /\ push'.sent = push.sent /\ device' = device
        /\ push'.pc = IF presence > 0 THEN "idle" ELSE "find"
    BY <1>2 DEF PushMget
  <2>. QED
    BY <1>0, <2>1 DEF PushOK, Working
<1>3. CASE PushFindDevices
  <2>. DEFINE found == {d \in Devices : device[d].registered = "account"}
  <2>1. /\ push'.owed = push.owed /\ push'.sent = push.sent /\ device' = device
        /\ push'.found = found /\ push'.pc = IF found = {} THEN "idle" ELSE "send"
    BY <1>3 DEF PushFindDevices
  <2>2. push.owed \subseteq found
    BY DEF PushOK, Working
  <2>. QED
    BY <1>0, <2>1, <2>2 DEF PushOK, Working
<1>4. CASE PushSend
  <2>1. /\ push'.owed = push.owed /\ push'.sent = push.found /\ device' = device
        /\ push'.found = {d \in push.found : ~device[d].works} /\ push'.pc = "cleanup"
        /\ push.pc = "send"
    BY <1>4 DEF PushSend
  <2>. QED
    BY <1>0, <2>1 DEF PushOK, Working
<1>5. CASE PushCleanup
  <2>1. /\ push'.owed = push.owed /\ push'.sent = push.sent /\ push'.pc = "idle"
        /\ push.pc = "cleanup"
    BY <1>5 DEF PushCleanup
  <2>2. ASSUME NEW d \in Working PROVE d \in Working'
    BY <1>5, <2>1, <2>2 DEF PushCleanup, PushOK, Working
  <2>. QED
    BY <1>0, <2>1, <2>2 DEF PushOK
<1>6. CASE PushCrash
  BY <1>0, <1>6 DEF PushCrash, NoPush, PushOK
<1>. QED
  BY <1>1, <1>2, <1>3, <1>4, <1>5, <1>6 DEF PushStep

LEMMA PushOKStep ==
    ASSUME Inv, [Next]_vars
    PROVE  PushOK'
<1>1. CASE UNCHANGED vars
  BY <1>1 DEF vars, online, Inv, PushOK, Working, Open, Setting
<1>. QED
  BY <1>1, PushOnKeys, PushOnTime, PushOnDevice, PushOnPush DEF Next

-----------------------------------------------------------------------------
(* The theorems.                                                           *)

\* Every reachable state of Presence satisfies the inductive invariant: no
\* connection, heartbeat, disconnection, push or failure leaves it.
THEOREM Invariance == Spec => []Inv
<1>1. Inv /\ [Next]_vars => Inv'
  BY TypeStep, KeysStep, CrossedStep, AnnouncedStep, PushOKStep DEF Inv
<1>2. QED
  BY InitInv, <1>1, PTL DEF Spec

\* Every variable keeps its type, for every number of sockets and devices and
\* every TTL.
THEOREM TypeCorrect == Spec => []TypeOK
  BY Invariance, PTL DEF Inv

\* When no handler of onClientConnected, onClientDisconnected or
\* onClientHeartbeat is at work, the counter counts the connections and the
\* presence key is there if and only if there are some, unless it is blurred.
THEOREM PresenceIsExact == Spec => []PresenceExact
<1>1. Inv => PresenceExact
  BY DEF Inv, PresenceExact, KeysOK, Setting, Settled
<1>2. QED
  BY Invariance, <1>1, PTL

\* When no handler is at work, what broadcastPresenceToContacts has told last,
\* and updateLastSeen recorded, is the case, unless announcements crossed.
THEOREM ContactsAreInformed == Spec => []ContactsInformed
<1>1. Inv => ContactsInformed
  BY DEF Inv, ContactsInformed, AnnouncedOK, Heard, Crossing, Announcing, Settled
<1>2. QED
  BY Invariance, <1>1, PTL

\* A push of sendPushToOfflineParticipants has reached, when it is over, every
\* device that the account, away and unmuted, had all the while.
THEOREM PushReaches == Spec => []AwayIsPushed
<1>1. Inv => AwayIsPushed
  BY DEF Inv, PushOK, AwayIsPushed
<1>2. QED
  BY Invariance, <1>1, PTL
=============================================================================
