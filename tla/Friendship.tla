----------------------------- MODULE Friendship -----------------------------
(***************************************************************************)
(* Friend requests, friendships and blocks: FriendsService and             *)
(* BlockService over the tables friend_requests, friends and blocks, the   *)
(* friends_list cache in Redis and the notifications the handlers write.   *)
(*                                                                         *)
(* Every HTTP request is served by a handler that gives up the event loop  *)
(* at each await, and several server processes share the databases, so a   *)
(* handler is a worker that takes one step per await: a query, an atomic   *)
(* statement or a committed transaction, a Redis command.  What it read    *)
(* before is kept in its call record and may be stale when it is used.     *)
(*                                                                         *)
(* Time is two flags.  aged on a PENDING request says that expiredAt has   *)
(* passed, on a REJECTED one that the cooldown counted from updatedAt is   *)
(* over; both statements that set such a status also set the time anew.    *)
(***************************************************************************)
EXTENDS Naturals, FiniteSets

CONSTANTS
    Accounts,   \* account ids; sort() orders them, so they are numbers here
    Workers,    \* handlers that can be in flight at the same time
    Ids,        \* row ids (uuid); an id is reused only when nobody holds it
    NoId,       \* "no such row"
    Calls,      \* the operations the clients of this instance invoke
    Crashes     \* whether a handler may be cut off between two steps

AllCalls == {"sendRequest", "respondToRequest", "cancelRequest", "removeFriend",
             "cleanupExpiredRequests", "blockUser", "unblockUser", "getFriends"}

ASSUME AccountsAssumption == Accounts \subseteq Nat
ASSUME IdsAssumption == NoId \notin Ids
ASSUME CallsAssumption == Calls \subseteq AllCalls /\ Crashes \in BOOLEAN

VARIABLES
    request,    \* friend_requests, unique on (senderId, receiverId)
    friend,     \* friends, unique on (accountId1, accountId2)
    blocks,     \* blocks, unique on (blockerId, blockedId)
    cache,      \* Redis friends_list:<account>: {} (a miss) or {list}
    notices,    \* notifications written: <<accountId, actorId, type>>
    call,       \* the handler each worker is running
    wants,      \* history: <<a, b>> when a asked for, or agreed to, being
                \* friends with b since the last removeFriend between them
    cut,        \* history: the pairs a handler of which was cut off between
                \* its commit and the last of what it does after it
    breached,   \* history: the pairs between which a handler made contact
                \* that a block had overtaken, since the last block
    stale       \* history: the accounts whose cached list was stored by a
                \* handler that a change of it had overtaken

vars == <<request, friend, blocks, cache, notices, call, wants, cut, breached, stale>>

-----------------------------------------------------------------------------
Pairs == {p \in Accounts \X Accounts : p[1] # p[2]}
Rev(p) == <<p[2], p[1]>>

NoRow == [status |-> "none", id |-> NoId, aged |-> FALSE]
Rows  == [status : {"PENDING", "ACCEPTED", "REJECTED"}, id : Ids, aged : BOOLEAN]

\* A request row as the statement that set its status has just left it.
Written(status, id) == [status |-> status, id |-> id, aged |-> FALSE]

PCs == {"idle", "blocked?", "pending?", "previous?", "upsert", "received",
        "accept", "reject", "delAccepted", "accepted", "cancel",
        "remove", "delRemoved", "block", "readFriends", "setCache"}

Miss == {}
Hit(list) == {list}

\* What can overtake a handler: the block of a pair, the request of the other
\* account, a change of a friends list.
Events == {"block", "request", "friends"}

Idle == [pc |-> "idle", me |-> 0, other |-> 0, id |-> NoId, keys |-> {}, missed |-> {}]

\* missed is history: the events that have overtaken the handler.
CallRecords ==
    [pc : PCs, me : Accounts \union {0}, other : Accounts \union {0},
     id : Ids \union {NoId}, keys : SUBSET Accounts, missed : SUBSET Events]

TypeOK ==
    /\ request \in [Pairs -> Rows \union {NoRow}]
    /\ friend \in [Pairs -> Ids \union {NoId}]
    /\ blocks \subseteq Pairs
    /\ cache \in [Accounts -> SUBSET SUBSET Accounts]
    /\ notices \subseteq (Pairs \X {"received", "accepted"})
    /\ call \in [Workers -> CallRecords]
    /\ wants \subseteq Pairs
    /\ cut \subseteq Pairs
    /\ breached \subseteq Pairs
    /\ stale \subseteq Accounts

Init ==
    /\ request = [p \in Pairs |-> NoRow]
    /\ friend = [p \in Pairs |-> NoId]
    /\ blocks = {}
    /\ cache = [a \in Accounts |-> Miss]
    /\ notices = {}
    /\ call = [w \in Workers |-> Idle]
    /\ wants = {}
    /\ cut = {}
    /\ breached = {}
    /\ stale = {}

-----------------------------------------------------------------------------
(* What the queries return.                                                *)

Exists(p) == request[p].status # "none"
LivePending(p) == request[p].status = "PENDING" /\ ~request[p].aged
Friends(a, b) == friend[<<a, b>>] # NoId \/ friend[<<b, a>>] # NoId
FriendsOf(a) == {b \in Accounts \ {a} : Friends(a, b)}
Blocked(a, b) == <<a, b>> \in blocks \/ <<b, a>> \in blocks

\* Mutant of Sorted: the ids as they come, the sender's first.
SenderFirst(a, b) == <<a, b>>

Sorted(a, b) == IF a < b THEN <<a, b>> ELSE <<b, a>>

Held == {call[w].id : w \in Workers}
FreshRequestIds == Ids \ (Held \union {request[p].id : p \in Pairs})
FreshFriendIds == Ids \ (Held \union {friend[p] : p \in Pairs})

\* A handler starts, moves on, or returns (a response or an error).
Start(w, pc, a, b, id) ==
    /\ call[w] = Idle
    /\ call' = [call EXCEPT ![w] = [pc |-> pc, me |-> a, other |-> b,
                                    id |-> id, keys |-> {}, missed |-> {}]]
At(w, pc) == call[w].pc = pc
Overtakable == {"pending?", "previous?", "upsert", "accept", "setCache"}
Later(w, pc, id, keys) ==
    [pc |-> pc, me |-> call[w].me, other |-> call[w].other, id |-> id, keys |-> keys,
     missed |-> IF pc \in Overtakable THEN call[w].missed ELSE {}]
Move(w, pc, id, keys) == call' = [call EXCEPT ![w] = Later(w, pc, id, keys)]
Goto(w, pc) == Move(w, pc, NoId, {})
Return(w) == call' = [call EXCEPT ![w] = Idle]

Mine(w) == <<call[w].me, call[w].other>>

\* Whether event e of pair p overtakes handler v: v has checked the block, has
\* looked for the other's request, or has read the list, and will act on it.
Overtakes(e, p, v) ==
    \/ /\ e = "block" /\ Mine(v) \in {p, Rev(p)}
       /\ call[v].pc \in {"pending?", "previous?", "upsert", "accept"}
    \/ /\ e = "request" /\ Mine(v) = Rev(p)
       /\ call[v].pc \in {"previous?", "upsert"}
    \/ /\ e = "friends" /\ call[v].me \in {p[1], p[2]}
       /\ call[v].pc = "setCache"

\* Handler w commits, and goes on as c; the others have missed the events.
Commit(w, c, events) ==
    call' = [v \in Workers |->
               IF v = w THEN c
               ELSE [call[v] EXCEPT !.missed =
                       @ \union {e \in events : Overtakes(e, Mine(w), v)}]]

\* The steps that are left when a handler has committed.
Committed == {"received", "delAccepted", "accepted", "delRemoved"}

-----------------------------------------------------------------------------
(* sendRequest                                                             *)

StartSend(w, a, b) ==
    /\ "sendRequest" \in Calls
    /\ ~Friends(a, b)
    /\ Start(w, "blocked?", a, b, NoId)
    /\ UNCHANGED <<request, friend, blocks, cache, notices, wants, cut, breached, stale>>

SendCheckBlocked(w) ==
    /\ At(w, "blocked?")
    /\ IF Blocked(call[w].me, call[w].other)
       THEN Return(w)
       ELSE Goto(w, "pending?")
    /\ UNCHANGED <<request, friend, blocks, cache, notices, wants, cut, breached, stale>>

\* Mutant of SendFindPending: it does not look for the other's request.
SendFindOwnPending(w) ==
    /\ At(w, "pending?")
    /\ IF LivePending(Mine(w)) THEN Return(w) ELSE Goto(w, "previous?")
    /\ UNCHANGED <<request, friend, blocks, cache, notices, wants, cut, breached, stale>>

\* findFirst returns any one of the live PENDING requests of the pair: the
\* other's leads to autoAccept, the sender's own to an error.
SendFindPending(w) ==
    /\ At(w, "pending?")
    /\ \/ /\ LivePending(Rev(Mine(w)))
          /\ Move(w, "accept", request[Rev(Mine(w))].id, {})
       \/ /\ LivePending(Mine(w))
          /\ Return(w)
       \/ /\ ~LivePending(Mine(w)) /\ ~LivePending(Rev(Mine(w)))
          /\ Goto(w, "previous?")
    /\ UNCHANGED <<request, friend, blocks, cache, notices, wants, cut, breached, stale>>

CoolingDown(p) == request[p].status = "REJECTED" /\ ~request[p].aged

SendFindPrevious(w) ==
    /\ At(w, "previous?")
    /\ IF CoolingDown(Mine(w)) THEN Return(w) ELSE Goto(w, "upsert")
    /\ UNCHANGED <<request, friend, blocks, cache, notices, wants, cut, breached, stale>>

\* What a handler breaches that makes contact although a block has overtaken it.
Breach(w) ==
    IF "block" \in call[w].missed /\ Blocked(call[w].me, call[w].other)
    THEN breached \union {Mine(w), Rev(Mine(w))} ELSE breached

\* INSERT ... ON CONFLICT (sender_id, receiver_id) DO UPDATE.
SendUpsert(w) ==
    /\ At(w, "upsert")
    /\ LET p == Mine(w) IN
       /\ \E id \in IF Exists(p) THEN {request[p].id} ELSE FreshRequestIds :
            request' = [request EXCEPT ![p] = Written("PENDING", id)]
       /\ wants' = wants \union {p}
    /\ Commit(w, Later(w, "received", NoId, {}), {"request"})
    /\ breached' = Breach(w)
    /\ UNCHANGED <<friend, blocks, cache, notices, cut, stale>>

\* Mutant of Notify: actor and recipient swapped.
NotifyOneself(w, pc) ==
    /\ At(w, pc)
    /\ notices' = notices \union {<<Mine(w), pc>>}
    /\ Return(w)
    /\ UNCHANGED <<request, friend, blocks, cache, wants, cut, breached, stale>>

Notify(w, pc) ==
    /\ At(w, pc)
    /\ notices' = notices \union {<<Rev(Mine(w)), pc>>}
    /\ Return(w)
    /\ UNCHANGED <<request, friend, blocks, cache, wants, cut, breached, stale>>

-----------------------------------------------------------------------------
(* respondToRequest, and the transaction it shares with autoAccept.  The   *)
(* request is read by id, then updated by id whatever became of it: a row  *)
(* that is gone aborts (P2025), and so does a second friends row (P2002).  *)

StartRespond(w, a, b, pc) ==
    /\ "respondToRequest" \in Calls
    /\ request[<<b, a>>].status = "PENDING"
    /\ Start(w, pc, a, b, request[<<b, a>>].id)
    /\ UNCHANGED <<request, friend, blocks, cache, notices, wants, cut, breached, stale>>

\* Mutant of RowHeld: an upsert by id, which restores a row that is gone.
RowPresumed(w, p) == call[w].id # NoId

RowHeld(w, p) == Exists(p) /\ request[p].id = call[w].id

AcceptTx(w) ==
    /\ At(w, "accept")
    /\ LET p == Rev(Mine(w))
           f == Sorted(call[w].me, call[w].other)
       IN IF RowHeld(w, p) /\ friend[f] = NoId
          THEN /\ request' = [request EXCEPT ![p] = Written("ACCEPTED", call[w].id)]
               /\ \E id \in FreshFriendIds : friend' = [friend EXCEPT ![f] = id]
               /\ wants' = wants \union {Mine(w)}
               /\ Commit(w, Later(w, "delAccepted", NoId, {call[w].me, call[w].other}),
                         {"friends"})
               /\ breached' = Breach(w)
          ELSE Return(w) /\ UNCHANGED <<request, friend, wants, breached>>
    /\ UNCHANGED <<blocks, cache, notices, cut, stale>>

Reject(w) ==
    /\ At(w, "reject")
    /\ LET p == Rev(Mine(w)) IN
       request' = IF RowHeld(w, p)
                  THEN [request EXCEPT ![p] = Written("REJECTED", call[w].id)]
                  ELSE request
    /\ Return(w)
    /\ UNCHANGED <<friend, blocks, cache, notices, wants, cut, breached, stale>>

\* Mutant of Invalidate: only one of the two entries is deleted.
InvalidateOne(w, pc, next) ==
    /\ At(w, pc)
    /\ \E a \in call[w].keys :
         /\ cache' = [cache EXCEPT ![a] = Miss]
         /\ stale' = stale \ {a}
    /\ IF next = "idle" THEN Return(w) ELSE Goto(w, next)
    /\ UNCHANGED <<request, friend, blocks, notices, wants, cut, breached>>

\* The two redis.del of a Promise.all, in either order.
Invalidate(w, pc, next) ==
    /\ At(w, pc)
    /\ \E a \in call[w].keys :
         /\ cache' = [cache EXCEPT ![a] = Miss]
         /\ stale' = stale \ {a}
         /\ IF call[w].keys # {a}
            THEN Move(w, pc, NoId, call[w].keys \ {a})
            ELSE IF next = "idle" THEN Return(w) ELSE Goto(w, next)
    /\ UNCHANGED <<request, friend, blocks, notices, wants, cut, breached>>

-----------------------------------------------------------------------------
(* cancelRequest, removeFriend and the nightly cleanup                     *)

StartCancel(w, a, b) ==
    /\ "cancelRequest" \in Calls
    /\ request[<<a, b>>].status = "PENDING"
    /\ Start(w, "cancel", a, b, request[<<a, b>>].id)
    /\ UNCHANGED <<request, friend, blocks, cache, notices, wants, cut, breached, stale>>

\* Mutant of CancelDelete: a soft delete with a status the enum does not have.
CancelMark(w) ==
    /\ At(w, "cancel")
    /\ request' = IF RowHeld(w, Mine(w))
                  THEN [request EXCEPT ![Mine(w)].status = "CANCELLED"] ELSE request
    /\ Return(w)
    /\ UNCHANGED <<friend, blocks, cache, notices, wants, cut, breached, stale>>

CancelDelete(w) ==
    /\ At(w, "cancel")
    /\ request' = IF RowHeld(w, Mine(w))
                  THEN [request EXCEPT ![Mine(w)] = NoRow] ELSE request
    /\ Return(w)
    /\ UNCHANGED <<friend, blocks, cache, notices, wants, cut, breached, stale>>

StartRemove(w, a, b) ==
    /\ "removeFriend" \in Calls
    /\ \E p \in {<<a, b>>, <<b, a>>} :
         /\ friend[p] # NoId
         /\ Start(w, "remove", a, b, friend[p])
    /\ UNCHANGED <<request, friend, blocks, cache, notices, wants, cut, breached, stale>>

\* One transaction: the friends row that was read, and every request of the
\* pair; when that row is gone (P2025) nothing is deleted.
RemoveTx(w) ==
    /\ At(w, "remove")
    /\ LET pair == {Mine(w), Rev(Mine(w))}
           row  == {p \in pair : friend[p] = call[w].id}
       IN IF row # {}
          THEN /\ friend' = [p \in Pairs |-> IF p \in row THEN NoId ELSE friend[p]]
               /\ request' = [p \in Pairs |-> IF p \in pair THEN NoRow ELSE request[p]]
               /\ wants' = wants \ pair
               /\ Commit(w, Later(w, "delRemoved", NoId, {call[w].me, call[w].other}),
                         {"friends"})
          ELSE Return(w) /\ UNCHANGED <<request, friend, wants>>
    /\ UNCHANGED <<blocks, cache, notices, cut, breached, stale>>

CleanupExpiredRequests ==
    /\ "cleanupExpiredRequests" \in Calls
    /\ \E p \in Pairs : request[p].status = "PENDING" /\ request[p].aged
    /\ request' = [p \in Pairs |->
                     IF request[p].status = "PENDING" /\ request[p].aged
                     THEN NoRow ELSE request[p]]
    /\ UNCHANGED <<friend, blocks, cache, notices, call, wants, cut, breached, stale>>

-----------------------------------------------------------------------------
(* blockUser and unblockUser.  The user_profile cache they clear holds     *)
(* nothing of this module's state.                                         *)

StartBlock(w, a, b) ==
    /\ "blockUser" \in Calls
    /\ <<a, b>> \notin blocks
    /\ Start(w, "block", a, b, NoId)
    /\ UNCHANGED <<request, friend, blocks, cache, notices, wants, cut, breached, stale>>

\* Mutant of BlockTx: the requests of the pair are left alone.
BlockTxKeepsRequests(w) ==
    /\ At(w, "block")
    /\ LET pair == {Mine(w), Rev(Mine(w))} IN
       IF Mine(w) \notin blocks
       THEN /\ blocks' = blocks \union {Mine(w)}
            /\ friend' = [p \in Pairs |-> IF p \in pair THEN NoId ELSE friend[p]]
            /\ Commit(w, Idle, {"block", "friends"})
            /\ breached' = breached \ pair
       ELSE Return(w) /\ UNCHANGED <<blocks, friend, breached>>
    /\ UNCHANGED <<request, cache, notices, wants, cut, stale>>

\* One transaction: the block, the PENDING requests of the pair and its
\* friendship; a second blocks row (P2002) aborts it.
BlockTx(w) ==
    /\ At(w, "block")
    /\ LET pair == {Mine(w), Rev(Mine(w))} IN
       IF Mine(w) \notin blocks
       THEN /\ blocks' = blocks \union {Mine(w)}
            /\ request' = [p \in Pairs |->
                             IF p \in pair /\ request[p].status = "PENDING"
                             THEN NoRow ELSE request[p]]
            /\ friend' = [p \in Pairs |-> IF p \in pair THEN NoId ELSE friend[p]]
            /\ Commit(w, Idle, {"block", "friends"})
            /\ breached' = breached \ pair
       ELSE Return(w) /\ UNCHANGED <<blocks, request, friend, breached>>
    /\ UNCHANGED <<cache, notices, wants, cut, stale>>

UnblockUser(p) ==
    /\ "unblockUser" \in Calls
    /\ p \in blocks
    /\ blocks' = blocks \ {p}
    /\ UNCHANGED <<request, friend, cache, notices, call, wants, cut, breached, stale>>

-----------------------------------------------------------------------------
(* getFriends: a read-through cache of the first page.                     *)

StartGetFriends(w, a) ==
    /\ "getFriends" \in Calls
    /\ cache[a] = Miss
    /\ Start(w, "readFriends", a, a, NoId)
    /\ UNCHANGED <<request, friend, blocks, cache, notices, wants, cut, breached, stale>>

ReadFriends(w) ==
    /\ At(w, "readFriends")
    /\ Move(w, "setCache", NoId, FriendsOf(call[w].me))
    /\ UNCHANGED <<request, friend, blocks, cache, notices, wants, cut, breached, stale>>

SetCache(w) ==
    /\ At(w, "setCache")
    /\ cache' = [cache EXCEPT ![call[w].me] = Hit(call[w].keys)]
    /\ stale' = IF "friends" \in call[w].missed
                THEN stale \union {call[w].me} ELSE stale \ {call[w].me}
    /\ Return(w)
    /\ UNCHANGED <<request, friend, blocks, notices, wants, cut, breached>>

CacheExpires(a) ==
    /\ cache[a] # Miss
    /\ cache' = [cache EXCEPT ![a] = Miss]
    /\ stale' = stale \ {a}
    /\ UNCHANGED <<request, friend, blocks, notices, call, wants, cut, breached>>

-----------------------------------------------------------------------------
(* The clock and failures                                                  *)

Age(p) ==
    /\ request[p].status \in {"PENDING", "REJECTED"}
    /\ ~request[p].aged
    /\ request' = [request EXCEPT ![p].aged = TRUE]
    /\ UNCHANGED <<friend, blocks, cache, notices, call, wants, cut, breached, stale>>

\* The process stops, or the next call to a database or to Redis rejects.
Crash(w) ==
    /\ Crashes
    /\ call[w] # Idle
    /\ cut' = IF call[w].pc \in Committed
              THEN cut \union {Mine(w), Rev(Mine(w))} ELSE cut
    /\ Return(w)
    /\ UNCHANGED <<request, friend, blocks, cache, notices, wants, breached, stale>>

Step(w) ==
    \/ SendCheckBlocked(w) \/ SendFindPending(w) \/ SendFindPrevious(w)
    \/ SendUpsert(w) \/ Notify(w, "received")
    \/ AcceptTx(w) \/ Invalidate(w, "delAccepted", "accepted") \/ Notify(w, "accepted")
    \/ Reject(w) \/ CancelDelete(w)
    \/ RemoveTx(w) \/ Invalidate(w, "delRemoved", "idle")
    \/ BlockTx(w)
    \/ ReadFriends(w) \/ SetCache(w)

Begin(w) ==
    \/ \E p \in Pairs :
         \/ StartSend(w, p[1], p[2])
         \/ StartRespond(w, p[1], p[2], "accept")
         \/ StartRespond(w, p[1], p[2], "reject")
         \/ StartCancel(w, p[1], p[2])
         \/ StartRemove(w, p[1], p[2])
         \/ StartBlock(w, p[1], p[2])
    \/ \E a \in Accounts : StartGetFriends(w, a)

Next ==
    \/ \E w \in Workers : Begin(w) \/ Step(w) \/ Crash(w)
    \/ CleanupExpiredRequests
    \/ \E p \in Pairs : UnblockUser(p) \/ Age(p)
    \/ \E a \in Accounts : CacheExpires(a)

Spec == Init /\ [][Next]_vars

-----------------------------------------------------------------------------
(* Properties                                                              *)

\* Two accounts share at most one friends row.  The unique index is on the
\* ordered pair, so this rests on every accept sorting the two ids, whichever
\* of them sent the request and however many accepts are in flight.
FriendshipsUnique ==
    \A p \in Pairs : friend[p] = NoId \/ friend[Rev(p)] = NoId

\* Two accounts are friends only if each of them asked for it or agreed to it
\* since the last time one of them removed the other: no handler that read a
\* request before removeFriend can bring the friendship back after it.
FriendsConsented ==
    \A p \in Pairs : friend[p] # NoId => {p, Rev(p)} \subseteq wants

\* Across a block there is neither a friendship nor a pending request:
\* blockUser deletes both, and sendRequest refuses to make new ones.  Only a
\* handler that the block overtook after its check, or after it had read the
\* request it answers, makes contact; the next block of the pair ends it.
NoContactWhileBlocked ==
    \A p \in Pairs \ breached : Blocked(p[1], p[2]) =>
        ~Friends(p[1], p[2]) /\ request[p].status # "PENDING"

\* Two live pending requests never come to cross each other, since a request
\* that is sent while the other's is live accepts that one; but when the other's
\* was stored after the handler had looked for it.
Crossing(p) == LivePending(p) /\ LivePending(Rev(p))

CrossingResolved ==
    [][\A p \in Pairs : Crossing(p)' =>
         \/ Crossing(p)
         \/ \E w \in Workers : /\ At(w, "upsert") /\ call'[w].pc # "upsert"
                              /\ Mine(w) \in {p, Rev(p)}
                              /\ "request" \in call[w].missed]_vars

\* A pending request has been announced to its receiver and a friendship to
\* the one who asked first, or the handler that stored it is still on its way
\* to do so, or one that served the pair was cut off after its commit: nothing
\* but such a failure loses an announcement, and only to the pair it hits.
Announcing(p, pcs) == \E w \in Workers : call[w].pc \in pcs /\ Mine(w) = p

Announced ==
    \A p \in Pairs \ cut :
        /\ request[p].status = "PENDING" =>
             <<Rev(p), "received">> \in notices \/ Announcing(p, {"received"})
        /\ friend[p] # NoId =>
             \E q \in {p, Rev(p)} : \/ <<q, "accepted">> \in notices
                                  \/ Announcing(q, {"delAccepted", "accepted"})

\* A cached friends list is right about every account, or a handler that has
\* changed the friendship is about to delete the entry, or one was cut off
\* before it could, or the friendship was removed by blockUser, which deletes
\* no entry (it takes the friendship away and not the consent to it), or the
\* list was read before a change and stored after it.
Listed(a, b) == \E list \in cache[a] : b \in list
Wrong(a, b) == cache[a] # Miss /\ Listed(a, b) # Friends(a, b)
Blockaded(a, b) == Listed(a, b) /\ {<<a, b>>, <<b, a>>} \subseteq wants

CacheCurrent ==
    \A p \in Pairs \ cut : Wrong(p[1], p[2]) =>
        \/ \E w \in Workers : p[1] \in call[w].keys
                             /\ call[w].pc \in {"delAccepted", "delRemoved"}
        \/ Blockaded(p[1], p[2])
        \/ p[1] \in stale
=============================================================================
