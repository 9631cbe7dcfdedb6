------------------------------ MODULE Presence ------------------------------
(***************************************************************************)
(* Whether one account is online, and who hears of it:                     *)
(* ChatService.onClientConnected, onClientDisconnected, onClientHeartbeat  *)
(* and broadcastPresenceToContacts over the Redis keys of the connection   *)
(* counter and of presence, and the push notifications that FcmService     *)
(* sends to those who are not.                                             *)
(*                                                                         *)
(* Both keys live for TTL ticks after they are renewed; clients send a     *)
(* heartbeat in every tick.  A handler is over well within a tick.         *)
(***************************************************************************)
EXTENDS Naturals, Integers, FiniteSets

CONSTANTS
    Sockets,      \* the connections the account can have at the same time
    Devices,      \* the device tokens it can have
    TTL,          \* PRESENCE_TTL_SECONDS, in ticks
    MissedBeats,  \* whether clients may leave out heartbeats
    Crashes       \* whether servers may stop

\* Keys outlive a tick, or a heartbeat in every tick would not keep them.
ASSUME TTLAssumption == TTL \in Nat /\ TTL > 1
ASSUME SocketsAssumption == IsFiniteSet(Sockets)
ASSUME FaultsAssumption == MissedBeats \in BOOLEAN /\ Crashes \in BOOLEAN

VARIABLES
    socket,     \* the account's connections, with their handlers
    counter,    \* Redis connection count: its value and remaining life
    presence,   \* Redis presence key: its remaining life, 0 when there is none
    contacts,   \* what friends and partners heard last, and lastSeen
    history,    \* what has happened that presence cannot know of
    device,     \* device_tokens
    push        \* the handler that pushes a message to the account

online == <<socket, counter, presence, contacts, history>>
vars == <<online, device, push>>

-----------------------------------------------------------------------------
\* A key that INCR has created lives for ever until EXPIRE is called on it.
Forever == TTL + 1
Lives == 0 .. Forever

\* connect: handleConnection or a heartbeat at work; close: handleDisconnect.
\* due: the client has not sent a heartbeat in this tick.
ConnectPCs == {"idle", "expire", "expireFirst", "set", "renew", "online"}
ClosePCs == {"idle", "offline", "lastSeen"}
SocketRecords ==
    [open : BOOLEAN, due : BOOLEAN, connect : ConnectPCs, close : ClosePCs]
NoSocket == [open |-> FALSE, due |-> FALSE, connect |-> "idle", close |-> "idle"]

NoKey == [n |-> 0, ttl |-> 0]

\* registered: whose the token is; works: FCM knows it.
DeviceRecords == [registered : {"nobody", "account", "other"}, works : BOOLEAN]

\* owed, history: the devices the account had and kept, while it was away; sent:
\* those the push went out to.
PushPCs == {"idle", "mget", "find", "send", "cleanup"}
PushRecords ==
    [pc : PushPCs, found : SUBSET Devices, owed : SUBSET Devices, sent : SUBSET Devices]
NoPush == [pc |-> "idle", found |-> {}, owed |-> {}, sent |-> {}]

\* Whether lastSeen says when the account was there last: not yet, or it was
\* recorded, or (history) the update that was to record it failed.
Seen == {"due", "recorded", "failed"}

TypeOK ==
    /\ socket \in [Sockets -> SocketRecords]
    /\ counter \in [n : 0 .. 2 * Cardinality(Sockets), ttl : Lives]
    /\ presence \in 0 .. TTL
    /\ contacts \in [heard : {"online", "offline"}, lastSeen : Seen]
    /\ history \in [blurred : BOOLEAN, crossed : BOOLEAN]
    /\ device \in [Devices -> DeviceRecords]
    /\ push \in PushRecords

Init ==
    /\ socket = [s \in Sockets |-> NoSocket]
    /\ counter = NoKey
    /\ presence = 0
    /\ contacts = [heard |-> "offline", lastSeen |-> "recorded"]
    /\ history = [blurred |-> FALSE, crossed |-> FALSE]
    /\ device = [d \in Devices |-> [registered |-> "nobody", works |-> TRUE]]
    /\ push = NoPush

-----------------------------------------------------------------------------
Open == {s \in Sockets : socket[s].open}
Settled == \A s \in Sockets : socket[s].connect = "idle" /\ socket[s].close = "idle"

\* A handler that has seen the account come or go, and has still to say so.
Announcing(s) ==
    \/ socket[s].connect \in {"expireFirst", "set", "online"}
    \/ socket[s].close # "idle"

\* Somebody comes or goes, seen by the handler of s: the broadcasts cross when
\* another has not been sent yet.
Crossing == \E s \in Sockets : Announcing(s)

Renewed(life) == IF life = 0 THEN 0 ELSE TTL

-----------------------------------------------------------------------------
(* onClientConnected: INCR, EXPIRE, then SET and a broadcast for the first *)
(* connection and EXPIRE for another.                                      *)

Connect(s) ==
    /\ socket[s] = NoSocket
    /\ counter.n < 2 * Cardinality(Sockets)
    /\ LET first == counter.n = 0
       IN /\ socket' = [socket EXCEPT ![s] =
                          [open |-> TRUE, due |-> FALSE, close |-> "idle",
                           connect |-> IF first THEN "expireFirst" ELSE "expire"]]
          /\ counter' = [n |-> counter.n + 1, ttl |-> IF first THEN Forever ELSE counter.ttl]
          /\ contacts' = [contacts EXCEPT !.lastSeen = IF first THEN "due" ELSE @]
          /\ history' = [history EXCEPT !.crossed = IF first THEN Crossing \/ history.blurred
                                                    ELSE @]
    /\ push' = [push EXCEPT !.owed = {}]
    /\ UNCHANGED <<presence, device>>

ConnectExpire(s) ==
    /\ socket[s].connect \in {"expire", "expireFirst"}
    /\ counter' = [counter EXCEPT !.ttl = Renewed(@)]
    /\ socket' = [socket EXCEPT ![s].connect = IF @ = "expire" THEN "renew" ELSE "set"]
    /\ UNCHANGED <<presence, contacts, history, device, push>>

\* Mutant of ConnectSet: SET without EX.
ConnectSetForever(s) ==
    /\ socket[s].connect = "set"
    /\ presence' = Forever
    /\ socket' = [socket EXCEPT ![s].connect = "online"]
    /\ UNCHANGED <<counter, contacts, history, device, push>>

ConnectSet(s) ==
    /\ socket[s].connect = "set"
    /\ presence' = TTL
    /\ socket' = [socket EXCEPT ![s].connect = "online"]
    /\ UNCHANGED <<counter, contacts, history, device, push>>

RenewPresence(s) ==
    /\ socket[s].connect = "renew"
    /\ presence' = Renewed(presence)
    /\ socket' = [socket EXCEPT ![s].connect = "idle"]
    /\ UNCHANGED <<counter, contacts, history, device, push>>

\* broadcastPresenceToContacts: two queries, then one event to each contact; an
\* error is logged and nobody hears anything.
Broadcast(status) ==
    \/ contacts' = [contacts EXCEPT !.heard = status] /\ UNCHANGED history
    \/ Crashes /\ history' = [history EXCEPT !.crossed = TRUE] /\ UNCHANGED contacts

BroadcastOnline(s) ==
    /\ socket[s].connect = "online"
    /\ Broadcast("online")
    /\ socket' = [socket EXCEPT ![s].connect = "idle"]
    /\ UNCHANGED <<counter, presence, device, push>>

-----------------------------------------------------------------------------
(* onClientDisconnected: the Lua script, which decrements the counter and  *)
(* deletes both keys at zero, then the broadcast and updateLastSeen.       *)

\* Mutant of Disconnect: the script deletes the presence key alone.
DisconnectKeepsCounter(s) ==
    /\ socket[s].open
    /\ LET last == counter.n <= 1
       IN /\ counter' = [counter EXCEPT !.n = @ - 1]
          /\ presence' = IF last THEN 0 ELSE presence
          /\ socket' = [socket EXCEPT ![s] =
                          [open |-> FALSE, due |-> FALSE, connect |-> @.connect,
                           close |-> IF last THEN "offline" ELSE "idle"]]
    /\ UNCHANGED <<contacts, history, device, push>>

\* Mutant of Disconnect: every connection that closes is announced.
DisconnectAnnounced(s) ==
    /\ socket[s].open
    /\ LET last == counter.n <= 1
       IN /\ counter' = IF last THEN NoKey ELSE [counter EXCEPT !.n = @ - 1]
          /\ presence' = IF last THEN 0 ELSE presence
          /\ socket' = [socket EXCEPT ![s].open = FALSE, ![s].due = FALSE, ![s].close = "offline"]
    /\ UNCHANGED <<contacts, history, device, push>>

\* The connection may close while its own handleConnection is still at work,
\* which then sets a key that nothing deletes.
Disconnect(s) ==
    /\ socket[s].open
    /\ LET last == counter.n <= 1
           overtakes == \E r \in Sockets : socket[r].connect \in {"expireFirst", "set"}
       IN /\ counter' = IF last THEN NoKey ELSE [counter EXCEPT !.n = @ - 1]
          /\ presence' = IF last THEN 0 ELSE presence
          /\ socket' = [socket EXCEPT ![s] =
                          [open |-> FALSE, due |-> FALSE, connect |-> @.connect,
                           close |-> IF last THEN "offline" ELSE "idle"]]
          /\ history' = IF last
                        THEN [blurred |-> history.blurred \/ overtakes,
                              crossed |-> Crossing \/ history.blurred \/ overtakes]
                        ELSE history
    /\ UNCHANGED <<contacts, device, push>>

BroadcastOffline(s) ==
    /\ socket[s].close = "offline"
    /\ Broadcast("offline")
    /\ socket' = [socket EXCEPT ![s].close = "lastSeen"]
    /\ UNCHANGED <<counter, presence, device, push>>

\* A failed update is caught and logged.
UpdateLastSeen(s) ==
    /\ socket[s].close = "lastSeen"
    /\ \/ contacts' = [contacts EXCEPT !.lastSeen = "recorded"]
       \/ Crashes /\ contacts' = [contacts EXCEPT !.lastSeen = "failed"]
    /\ socket' = [socket EXCEPT ![s].close = "idle"]
    /\ UNCHANGED <<counter, presence, history, device, push>>

-----------------------------------------------------------------------------
(* onClientHeartbeat, time, and servers that stop                          *)

\* Mutant of Heartbeat: the counter alone is renewed.
HeartbeatCounter(s) ==
    /\ socket[s].open /\ socket[s].due /\ socket[s].connect = "idle"
    /\ counter' = [counter EXCEPT !.ttl = Renewed(@)]
    /\ socket' = [socket EXCEPT ![s].due = FALSE]
    /\ UNCHANGED <<presence, contacts, history, device, push>>

Heartbeat(s) ==
    /\ socket[s].open /\ socket[s].due /\ socket[s].connect = "idle"
    /\ counter' = [counter EXCEPT !.ttl = Renewed(@)]
    /\ socket' = [socket EXCEPT ![s].due = FALSE, ![s].connect = "renew"]
    /\ UNCHANGED <<presence, contacts, history, device, push>>

Aged(life) == IF life \in 1 .. TTL THEN life - 1 ELSE life

\* What a fault blurs is set right when both keys are gone and nobody is there.
Tick ==
    /\ Settled
    /\ MissedBeats \/ \A s \in Open : ~socket[s].due
    /\ LET ttl == Aged(counter.ttl)
           missed == Open # {} /\ (\A s \in Open : socket[s].due)
                     /\ (ttl = 0 \/ Aged(presence) = 0)
           clear == ttl = 0 /\ Aged(presence) = 0 /\ Open = {}
       IN /\ counter' = IF ttl = 0 THEN NoKey ELSE [counter EXCEPT !.ttl = ttl]
          /\ presence' = Aged(presence)
          /\ history' = [blurred |-> (history.blurred \/ missed) /\ ~clear,
                         crossed |-> history.crossed \/ missed]
    /\ socket' = [s \in Sockets |-> [socket[s] EXCEPT !.due = socket[s].open]]
    /\ UNCHANGED <<contacts, device, push>>

\* A server stops: its connections are gone without a disconnect.
ServerStops ==
    /\ Crashes
    /\ \E S \in SUBSET Sockets :
         /\ S # {} /\ \A s \in S : socket[s] # NoSocket
         /\ socket' = [s \in Sockets |-> IF s \in S THEN NoSocket ELSE socket[s]]
    /\ history' = [blurred |-> TRUE, crossed |-> TRUE]
    /\ UNCHANGED <<counter, presence, contacts, device, push>>

-----------------------------------------------------------------------------
(* FcmService.  A message in a conversation of the account that someone    *)
(* else sends is pushed to its devices, unless it is muted or online.      *)

Working == {d \in Devices : device[d].registered = "account" /\ device[d].works}

\* An upsert by token: the token of a phone follows whoever registers it.
RegisterDevice(d) ==
    /\ device[d].works
    /\ \E who \in {"account", "other"} :
         /\ device' = [device EXCEPT ![d].registered = who]
         /\ push' = [push EXCEPT !.owed = @ \ {d}]
    /\ UNCHANGED online

RemoveDevice(d) ==
    /\ device' = [device EXCEPT ![d].registered = "nobody"]
    /\ push' = [push EXCEPT !.owed = @ \ {d}]
    /\ UNCHANGED online

\* External: the app is gone from the phone, and its token with it.
AppRemoved(d) ==
    /\ device[d].works
    /\ device' = [device EXCEPT ![d].works = FALSE]
    /\ push' = [push EXCEPT !.owed = @ \ {d}]
    /\ UNCHANGED online

\* What a push that begins now must reach.
Owed(muted) == IF ~muted /\ Open = {} /\ ~history.blurred THEN Working ELSE {}

\* Mutant of PushFindParticipants: a row with a mutedUntil is muted for ever.
PushFindParticipantsMuted ==
    /\ push.pc = "idle"
    /\ \E mutedUntil \in {"null", "past", "future"} :
         push' = [pc |-> IF mutedUntil # "null" THEN "idle" ELSE "mget",
                  found |-> {}, owed |-> Owed(mutedUntil = "future"), sent |-> {}]
    /\ UNCHANGED <<online, device>>

\* The participants but the sender, and of them those who have not muted.
PushFindParticipants ==
    /\ push.pc = "idle"
    /\ \E mutedUntil \in {"null", "past", "future"} :
         push' = [pc |-> IF mutedUntil = "future" THEN "idle" ELSE "mget",
                  found |-> {}, owed |-> Owed(mutedUntil = "future"), sent |-> {}]
    /\ UNCHANGED <<online, device>>

PushMget ==
    /\ push.pc = "mget"
    /\ push' = [push EXCEPT !.pc = IF presence > 0 THEN "idle" ELSE "find"]
    /\ UNCHANGED <<online, device>>

PushFindDevices ==
    /\ push.pc = "find"
    /\ LET found == {d \in Devices : device[d].registered = "account"}
       IN push' = [push EXCEPT !.pc = IF found = {} THEN "idle" ELSE "send", !.found = found]
    /\ UNCHANGED <<online, device>>

\* FCM answers for each token; other errors than an invalid token are ignored.
PushSend ==
    /\ push.pc = "send"
    /\ push' = [push EXCEPT !.pc = "cleanup", !.sent = push.found,
                            !.found = {d \in push.found : ~device[d].works}]
    /\ UNCHANGED <<online, device>>

\* removeDevice of each invalid token.
PushCleanup ==
    /\ push.pc = "cleanup"
    /\ device' = [d \in Devices |->
                    IF d \in push.found THEN [device[d] EXCEPT !.registered = "nobody"]
                    ELSE device[d]]
    /\ push' = [push EXCEPT !.pc = "idle", !.found = {}]
    /\ UNCHANGED online

PushCrash ==
    /\ Crashes
    /\ push.pc # "idle"
    /\ push' = NoPush
    /\ UNCHANGED <<online, device>>

-----------------------------------------------------------------------------
SocketStep(s) ==
    \/ ConnectExpire(s) \/ ConnectSet(s) \/ RenewPresence(s) \/ BroadcastOnline(s)
    \/ BroadcastOffline(s) \/ UpdateLastSeen(s)

PushStep == PushMget \/ PushFindDevices \/ PushSend \/ PushCleanup

Next ==
    \/ \E s \in Sockets : Connect(s) \/ Disconnect(s) \/ Heartbeat(s) \/ SocketStep(s)
    \/ Tick \/ ServerStops
    \/ PushFindParticipants \/ PushStep \/ PushCrash
    \/ \E d \in Devices : RegisterDevice(d) \/ RemoveDevice(d) \/ AppRemoved(d)

Spec == Init /\ [][Next]_vars

\* Handlers run to their end, and time passes.
FairSpec ==
    /\ Spec
    /\ \A s \in Sockets : WF_vars(SocketStep(s))
    /\ WF_vars(Tick)

-----------------------------------------------------------------------------
(* Properties                                                              *)

\* When no handler is at work, the counter counts the connections and the
\* presence key is there if and only if there are some; unless a server has
\* stopped, all heartbeats of a tick were missed or a connection was closed
\* before it was announced, and both keys have not been gone since.
PresenceExact ==
    Settled /\ ~history.blurred
      => counter.n = Cardinality(Open) /\ (presence > 0 <=> Open # {})

\* When no handler is at work, the contacts have heard last what is the case,
\* and of an account that is away it is recorded when it was there, or the
\* update of lastSeen failed, which does not keep the contacts from hearing;
\* unless the last two announcements crossed, or as above.
ContactsInformed ==
    Settled /\ ~history.blurred /\ ~history.crossed
      => IF Open = {} THEN contacts.heard = "offline" /\ contacts.lastSeen # "due"
         ELSE contacts.heard = "online"

\* When a push is over, it has gone out to every device the account had all the
\* while, if the account was away and had not muted the conversation.
AwayIsPushed == push.pc = "idle" => push.owed \subseteq push.sent

\* Whatever servers and clients fail to do, an account with no connection does
\* not stay online.
PresenceEnds == Open = {} ~> (presence = 0 \/ Open # {})
=============================================================================
