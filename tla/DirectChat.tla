----------------------------- MODULE DirectChat -----------------------------
(***************************************************************************)
(* The direct conversations of two accounts and the messages they send in  *)
(* them: createOrGetDirectConversation, hideDirectConversation,            *)
(* resetHiddenAt, updateTimestamp and markAsRead of ConversationsService,  *)
(* ChatService.sendMessage, and the rooms of the ChatGateway through which *)
(* the messages reach the clients.                                         *)
(*                                                                         *)
(* Nobody leaves a direct conversation, so the checks that an account is a *)
(* participant are made of what never changes and take no step.  Of the    *)
(* conversations of the two the first is followed; of others, which there  *)
(* should not be, only how they came to be.                                *)
(***************************************************************************)
EXTENDS Naturals, FiniteSets

CONSTANTS
    Accounts,     \* the two accounts
    Listeners,    \* bound: those of them whose client is followed
    MaxMessages,  \* bound: messages ever stored
    Workers,      \* handlers that can be in flight at the same time
    Calls,        \* the operations the clients of this instance invoke
    Crashes       \* whether a handler may be cut off between two steps

AllCalls == {"createOrGet", "hide", "sendMessage", "markRead", "joinRoom",
             "leaveRoom", "rejoinRooms", "block"}

ASSUME AccountsAssumption == Cardinality(Accounts) = 2 /\ Listeners \subseteq Accounts
ASSUME BoundsAssumption == MaxMessages \in Nat
ASSUME CallsAssumption == Calls \subseteq AllCalls /\ Crashes \in BOOLEAN

VARIABLES
    conv,      \* the conversation, its participants and how many messages it has
    others,    \* history: how other conversations of the two were created
    blocked,   \* whether one of the two has blocked the other
    client,    \* whether the socket of an account is in the room, what it has got
    call,      \* the handler each worker is running
    cut        \* history: messages whose handler was cut off

vars == <<conv, others, blocked, client, call, cut>>

-----------------------------------------------------------------------------
Messages == 1 .. MaxMessages

\* Messages are numbered as they are stored, and times counted in messages.
\* hidden is hiddenAt of each participant (NotHidden for null), touched is
\* updatedAt, read holds the lastReadMessageId of each listener.  asked and
\* raced are history: the marker a client asked for last, and whose calls for
\* that overlapped.
NotHidden == MaxMessages + 1
Rows ==
    [there : BOOLEAN, stored : 0 .. MaxMessages, touched : 0 .. MaxMessages,
     hidden : [Accounts -> 0 .. NotHidden], read : [Listeners -> 0 .. MaxMessages],
     asked : [Listeners -> 0 .. MaxMessages], raced : SUBSET Listeners]
NoRow ==
    [there |-> FALSE, stored |-> 0, touched |-> 0,
     hidden |-> [a \in Accounts |-> NotHidden], read |-> [a \in Listeners |-> 0],
     asked |-> [a \in Listeners |-> 0], raced |-> {}]

\* caught: since it is in the room the client has read the newest page; got:
\* the messages it then has.
Clients == [joined : BOOLEAN, caught : BOOLEAN, got : SUBSET Messages]
Outside == [joined |-> FALSE, caught |-> FALSE, got |-> {}]

NoAccount == ""
PCs == {"idle", "find", "unhide", "create", "save", "touch", "show", "emit",
        "mark", "join"}
Idle == [pc |-> "idle", account |-> NoAccount, msg |-> 0, late |-> FALSE]
CallRecords ==
    [pc : PCs, account : Accounts \union {NoAccount}, msg : 0 .. MaxMessages,
     late : BOOLEAN]   \* history: what it checked has changed since

TypeOK ==
    /\ conv \in Rows
    /\ others \subseteq {"overlapping", "alone"}
    /\ blocked \in BOOLEAN
    /\ client \in [Listeners -> Clients]
    /\ call \in [Workers -> CallRecords]
    /\ cut \subseteq Messages

Init ==
    /\ conv = NoRow
    /\ others = {}
    /\ blocked \in BOOLEAN
    /\ client = [a \in Listeners |-> Outside]
    /\ call = [w \in Workers |-> Idle]
    /\ cut = {}

-----------------------------------------------------------------------------
At(w, pc) == call[w].pc = pc
Start(w, op, r) ==
    /\ op \in Calls
    /\ call[w] = Idle
    /\ call' = [call EXCEPT ![w] = r]
    /\ UNCHANGED <<conv, others, blocked, client, cut>>
Goto(w, pc) == call' = [call EXCEPT ![w].pc = pc]
Return(w) == call' = [call EXCEPT ![w] = Idle]

\* What w does makes the checks of the handlers in S old, and w returns.
ReturnOvertaking(w, S) ==
    call' = [v \in Workers |->
               IF v = w THEN Idle ELSE IF v \in S THEN [call[v] EXCEPT !.late = TRUE]
               ELSE call[v]]

-----------------------------------------------------------------------------
(* createOrGetDirectConversation                                           *)

StartCreateOrGet(w, a) ==
    /\ ~blocked
    /\ Start(w, "createOrGet", [Idle EXCEPT !.pc = "find", !.account = a])

\* Mutant of FindDirect: only a conversation that the caller has not hidden.
FindDirectShown(w) ==
    /\ At(w, "find")
    /\ Goto(w, IF conv.there /\ conv.hidden[call[w].account] = NotHidden
               THEN "unhide" ELSE "create")
    /\ UNCHANGED <<conv, others, blocked, client, cut>>

\* findFirst: any direct conversation of the two, hidden or not; of several
\* perhaps one that is not followed.
FindDirect(w) ==
    /\ At(w, "find")
    /\ \/ Goto(w, IF conv.there THEN "unhide" ELSE "create")
       \/ others # {} /\ Return(w)
    /\ UNCHANGED <<conv, others, blocked, client, cut>>

\* One transaction: shown again to the caller, and moved up the list.
Unhide(w) ==
    /\ At(w, "unhide")
    /\ conv' = [conv EXCEPT !.hidden[call[w].account] = NotHidden, !.touched = conv.stored]
    /\ Return(w)
    /\ UNCHANGED <<others, blocked, client, cut>>

\* Mutant of CreateDirect: the partner is not made a participant.
CreateDirectAlone(w) ==
    /\ At(w, "create")
    /\ conv' = [conv EXCEPT !.there = TRUE, !.hidden = [a \in {call[w].account} |-> NotHidden]]
    /\ Return(w)
    /\ UNCHANGED <<others, blocked, client, cut>>

\* One transaction; no unique index stands in the way of a second conversation.
CreateDirect(w) ==
    /\ At(w, "create")
    /\ IF conv.there
       THEN /\ others' = others \union {IF call[w].late THEN "overlapping" ELSE "alone"}
            /\ UNCHANGED conv
       ELSE /\ conv' = [conv EXCEPT !.there = TRUE]
            /\ UNCHANGED others
    /\ ReturnOvertaking(w, {v \in Workers : At(v, "create")})
    /\ UNCHANGED <<blocked, client, cut>>

-----------------------------------------------------------------------------
(* hideDirectConversation, markAsRead                                      *)

Hide(a) ==
    /\ "hide" \in Calls
    /\ conv.there
    /\ conv' = [conv EXCEPT !.hidden[a] = conv.stored]
    /\ UNCHANGED <<others, blocked, client, call, cut>>

Marking(a) == {w \in Workers : At(w, "mark") /\ call[w].account = a}

\* A client marks the messages it shows as read, up to m.
StartMarkRead(w, a, m) ==
    /\ "markRead" \in Calls
    /\ call[w] = Idle
    /\ m \in client[a].got
    /\ call' = [call EXCEPT ![w] = [Idle EXCEPT !.pc = "mark", !.account = a, !.msg = m]]
    /\ conv' = IF Marking(a) = {}
               THEN [conv EXCEPT !.asked[a] = m, !.raced = @ \ {a}]
               ELSE [conv EXCEPT !.asked[a] = 0, !.raced = @ \union {a}]
    /\ UNCHANGED <<others, blocked, client, cut>>

\* Mutant of MarkAsRead: a marker is set once.
MarkAsReadOnce(w) ==
    /\ At(w, "mark")
    /\ conv' = [conv EXCEPT !.read[call[w].account] = IF @ = 0 THEN call[w].msg ELSE @]
    /\ Return(w)
    /\ UNCHANGED <<others, blocked, client, cut>>

MarkAsRead(w) ==
    /\ At(w, "mark")
    /\ conv' = [conv EXCEPT !.read[call[w].account] = call[w].msg]
    /\ Return(w)
    /\ UNCHANGED <<others, blocked, client, cut>>

-----------------------------------------------------------------------------
(* sendMessage: the block check, the message, updatedAt, hiddenAt, the     *)
(* notifications of those who are mentioned, and the event to the room     *)

\* Mutant of StartSendMessage: blocks are not looked at.
StartSendMessageAnyway(w) ==
    /\ conv.there
    /\ Start(w, "sendMessage", [Idle EXCEPT !.pc = "save"])

StartSendMessage(w) ==
    /\ conv.there
    /\ ~blocked
    /\ Start(w, "sendMessage", [Idle EXCEPT !.pc = "save"])

SaveMessage(w) ==
    /\ At(w, "save")
    /\ conv.stored < MaxMessages
    /\ conv' = [conv EXCEPT !.stored = @ + 1]
    /\ call' = [call EXCEPT ![w] = [Idle EXCEPT !.pc = "touch", !.msg = conv'.stored]]
    /\ UNCHANGED <<others, blocked, client, cut>>

\* Mutant of UpdateTimestamp: nothing is shown again.
UpdateTimestampOnly(w) ==
    /\ At(w, "touch")
    /\ conv' = [conv EXCEPT !.touched = conv.stored]
    /\ Goto(w, "emit")
    /\ UNCHANGED <<others, blocked, client, cut>>

UpdateTimestamp(w) ==
    /\ At(w, "touch")
    /\ conv' = [conv EXCEPT !.touched = conv.stored]
    /\ Goto(w, "show")
    /\ UNCHANGED <<others, blocked, client, cut>>

ResetHiddenAt(w) ==
    /\ At(w, "show")
    /\ conv' = [conv EXCEPT !.hidden = [a \in Accounts |-> NotHidden]]
    /\ Goto(w, "emit")
    /\ UNCHANGED <<others, blocked, client, cut>>

\* The clients in S that have caught up with the room get the message.
Deliver(w, S) ==
    client' = [a \in Listeners |->
                 IF a \in S /\ client[a].caught
                 THEN [client[a] EXCEPT !.got = @ \union {call[w].msg}] ELSE client[a]]

\* Mutant of Emit: only those hear of it who may still see it in the list.
EmitToShown(w) ==
    /\ At(w, "emit")
    /\ Deliver(w, {a \in Listeners : conv.hidden[a] = NotHidden})
    /\ Return(w)
    /\ UNCHANGED <<conv, others, blocked, cut>>

Emit(w) ==
    /\ At(w, "emit")
    /\ Deliver(w, Listeners)
    /\ Return(w)
    /\ UNCHANGED <<conv, others, blocked, cut>>

-----------------------------------------------------------------------------
(* Sockets and rooms                                                       *)

\* With the socket, or the server it is connected to, its rooms are gone.  The
\* client connects again with a new one.
Disconnect(a) ==
    /\ client' = [client EXCEPT ![a] = Outside]
    /\ call' = [w \in Workers |->
                  IF At(w, "join") /\ call[w].account = a THEN Idle ELSE call[w]]
    /\ UNCHANGED <<conv, others, blocked, cut>>

JoinRoom(a) ==
    /\ "joinRoom" \in Calls
    /\ conv.there
    /\ client' = [client EXCEPT ![a].joined = TRUE]
    /\ UNCHANGED <<conv, others, blocked, call, cut>>

LeaveRoom(a) ==
    /\ "leaveRoom" \in Calls
    /\ client' = [client EXCEPT ![a] = Outside]
    /\ UNCHANGED <<conv, others, blocked, call, cut>>

\* The list of conversations has those that the account has not hidden.
StartRejoinRooms(w, a) ==
    /\ conv.there /\ conv.hidden[a] = NotHidden
    /\ Start(w, "rejoinRooms", [Idle EXCEPT !.pc = "join", !.account = a])

RejoinRooms(w) ==
    /\ At(w, "join")
    /\ client' = [client EXCEPT ![call[w].account].joined = TRUE]
    /\ Return(w)
    /\ UNCHANGED <<conv, others, blocked, cut>>

\* findByConversation, for a client that is in the room.
ReadNewestPage(a) ==
    /\ client[a].joined
    /\ client' = [client EXCEPT ![a] = [@ EXCEPT !.caught = TRUE, !.got = 1 .. conv.stored]]
    /\ UNCHANGED <<conv, others, blocked, call, cut>>

-----------------------------------------------------------------------------
(* Blocks and failures                                                     *)

\* blockUser and unblockUser of either of the two commit.
Block ==
    /\ "block" \in Calls
    /\ blocked' = ~blocked
    /\ call' = [v \in Workers |->
                  IF ~blocked /\ call[v].pc \in {"find", "create", "save"}
                  THEN [call[v] EXCEPT !.late = TRUE] ELSE call[v]]
    /\ UNCHANGED <<conv, others, client, cut>>

\* The process stops, or the next call to a database or to Redis rejects.
Crash(w) ==
    /\ Crashes
    /\ call[w] # Idle
    /\ cut' = IF call[w].pc \in {"touch", "show", "emit"} THEN cut \union {call[w].msg} ELSE cut
    /\ conv' = IF At(w, "mark")
               THEN [conv EXCEPT !.asked[call[w].account] = 0,
                                 !.raced = @ \union {call[w].account}] ELSE conv
    /\ Return(w)
    /\ UNCHANGED <<others, blocked, client>>

Begin(w) ==
    \/ \E a \in Accounts : StartCreateOrGet(w, a)
    \/ StartSendMessage(w)
    \/ \E a \in Listeners :
         StartRejoinRooms(w, a) \/ \E m \in Messages : StartMarkRead(w, a, m)

Step(w) ==
    \/ FindDirect(w) \/ Unhide(w) \/ CreateDirect(w) \/ MarkAsRead(w)
    \/ SaveMessage(w) \/ UpdateTimestamp(w) \/ ResetHiddenAt(w) \/ Emit(w)
    \/ RejoinRooms(w)

Next ==
    \/ \E w \in Workers : Begin(w) \/ Step(w) \/ Crash(w)
    \/ \E a \in Accounts : Hide(a)
    \/ \E a \in Listeners : Disconnect(a) \/ JoinRoom(a) \/ LeaveRoom(a) \/ ReadNewestPage(a)
    \/ Block

Spec == Init /\ [][Next]_vars

-----------------------------------------------------------------------------
(* Properties                                                              *)

\* The handler of message m is still at work, or was cut off.
Unfinished(m) == m \in cut \/ \E w \in Workers : call[w].msg = m /\ ~At(w, "mark")

\* A second direct conversation of the same two accounts comes only of two
\* get-or-create calls that overlapped: hiding a conversation, blocking and
\* sending never split the history of the two.
OneConversation == "alone" \notin others

\* A message brings its conversation up in the list and back to everyone who
\* had hidden it before, once its handler is done.
Reappears ==
    \A m \in 1 .. conv.stored :
        \/ conv.touched >= m /\ \A a \in Accounts : conv.hidden[a] >= m
        \/ Unfinished(m)

\* Nobody opens a conversation or stores a message across a block that was
\* there when the handler began.
NoContactAcrossBlock ==
    [][blocked /\ (conv'.stored # conv.stored \/ conv'.there # conv.there \/ others' # others)
         => \E w \in Workers : call[w].late /\ call'[w] # call[w]]_vars

\* A client that has joined a room and then read the newest page has every
\* message of the conversation, except those whose event is still to come or
\* was lost with the handler: no message falls between the page and the events.
NoGap ==
    \A a \in Listeners, m \in 1 .. conv.stored :
        client[a].caught => m \in client[a].got \/ Unfinished(m)

\* When its calls are done the read marker of an account is the one its client
\* asked for last, unless two such calls overlapped or one was cut off.
MarkerFollows ==
    \A a \in Listeners :
        Marking(a) = {} /\ a \notin conv.raced => conv.read[a] = conv.asked[a]
=============================================================================
