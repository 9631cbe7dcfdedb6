# A TLA+ verification of swift-chat-backend

swift-chat-backend is a NestJS server for a chat application.  Accounts make
friends and block each other, talk in direct and group conversations, and see
who is online.  PostgreSQL (through Prisma) holds accounts, friend requests,
friendships, blocks, conversations, participants and tokens; MongoDB (through
Mongoose) holds messages; Redis holds caches, presence and the adapter of the
sockets.  Several server processes may share these databases.

Every operation is an `async` handler.  A handler gives up the event loop at
each `await`, and another process may be running at any time, so the unit of
interleaving is one query, one statement or transaction, one Redis command.
The services check first and write later, and nearly nothing is locked.  That
is where this system can go wrong, and it is what the models are about.

The modules are read with `src/src/...`, the TypeScript sources.

## 1. Inventory

| Component | State | Operations | Hard behaviour | Correct when |
|---|---|---|---|---|
| Friend requests and friendships (`friends/friends.service.ts`) | `friend_requests` (unique sender, receiver), `friends` (unique ordered pair) | `sendRequest` (+ `autoAccept`), `respondToRequest`, `cancelRequest`, `removeFriend`, nightly `cleanupExpiredRequests` | crossing requests, rows read by one handler and changed by another before it updates them, expiry and cooldown | one row per pair; friendship only by consent; crossing requests resolve; everything is announced |
| Blocks (`block/block.service.ts`) | `blocks` | `blockUser`, `unblockUser` | a request or accept that passed its checks before the block commits | no friendship and no pending request across a block |
| Friends list cache (`friends.service.ts`, Redis) | `friends_list:<account>` | filled by `getFriends`, deleted by accept and remove, TTL | a fill that races an invalidation, a writer that forgets to invalidate | the cached list is the list, or about to be deleted |
| Group membership (`conversations/group-member.service.ts`) | `participants.role`, `conversations.deletedAt` | `addMembers`, `kickMember`, `leaveGroup`, `disbandGroup`, `transferLeadership`, `updateMemberRole` | roles that change between the check and the write | one leader, and one as long as there is anyone; deputies kick members only; a disbanded group freezes |
| Messages (`messages/messages.service.ts`) | `messages`, `messages_archive` | `create`, `unsendMessage`, `editMessage`, `deleteForMe`, `pinMessage`, `unpinMessage`, `toggleReaction`, `findByConversation`, `globalSearch`, `getLastMessagesForConversations`, `countUnreadInConversations` | two collections without a transaction, replies that carry snapshots, find and update apart | pages complete; no page or search quotes what was unsent; one reaction per account; previews and counts are of the right messages |
| Archiver (`messages/message-archiving.service.ts`) | the two collections | nightly `handleArchiving` | runs next to every handler and in every server at once, may fail between insert and delete | no message lost, brought back or un-unsent; every old message archived |
| Direct conversations and settings (`conversations/conversations.service.ts`) | `conversations`, `participants` | `createOrGetDirectConversation`, `hideDirectConversation`, `resetHiddenAt`, `updateTimestamp`, `markAsRead`, mute | get-or-create without a unique index; markers that go back | one conversation per pair; a message brings it back; the marker is the client's |
| Chat over sockets (`chat/chat.gateway.ts`, `chat.service.ts`) | rooms | `sendMessage`, join, leave, `rejoinRooms`, typing | a send that races a block; pages that race events; sockets and servers that are gone | no contact across a block; no message falls between page and events |
| Presence (`chat/chat.service.ts`, Redis) | connection counter and presence key, with TTLs | connect, heartbeat, disconnect, broadcast | separate commands on two keys, servers that stop, TTLs, broadcasts that cross | online exactly while connected; contacts know; presence ends |
| Push (`fcm/fcm.service.ts`) | `device_tokens` | `registerDevice`, `removeDevice`, `sendPushToOfflineParticipants` | presence and devices read before they change | who is away gets a push |
| Sessions (`auth/auth.service.ts`, `auth-password.service.ts`) | refresh tokens, reset tokens, password | `login`, `googleLogin`, `refreshToken`, `logout`, `forgotPassword`, `resetPassword`, `changePassword`, purge | a rotation that races another or a revocation; a reset that is cut off half-way | a session never forks; none outlives a revocation; a reset token works once |
| Registration, OTP (`auth/auth.service.ts`, `token-cleanup.service.ts`) | accounts, `auth_providers`, OTP rows | `register`, `verifyEmail`, `resendVerificationOtp`, `googleLogin`, purge | everything is checked on rows read earlier; several people register one address | the password was confirmed; limits hold; a signed-in account stays |
| User profiles and their cache (`user/user.service.ts`) | `user_profile:<account>` | `getUserProfile`, `updateProfile`, `updateLastSeen` | as the friends list | the cached profile is the row, or about to be deleted |
| Notifications (`notifications/`) | `notifications` | `create`, read markers | lost with the handler that should write them | every event announced |
| Mail, uploads, health, wiring, controllers, DTOs, guards | none of their own | I/O and validation | - | - |

How they interact: controllers and the gateway call one service method per
request; `BlockService` deletes rows of the friends component;
`FriendsService` and the groups write notifications; `sendMessage` reads
participants and blocks before it writes a message, then touches the
conversation, its participants and the room, and a push follows to those who
presence says are away; revocation of sessions is part of resetting and changing
a password; logging out and disconnecting write `lastSeen`, which the cached
profile shows; the cron jobs (cleanup of
requests, archiver, purge of tokens and accounts) run next to everything else
and share only the databases with it.

`PROJECT.json` lists each component with its status, and every hazard with its
line and the properties that would catch it.

## 2. Modules

| Module | What it is |
|---|---|
| `Friendship` | friend requests, friendships, blocks, the friends list cache, the notifications about them |
| `FriendshipProofs` | theorems about it |
| `GroupMembership` | participants and roles of one group |
| `GroupMembershipProofs` | theorems about it |
| `MessageArchive` | the two message collections of one conversation, the handlers on them and the archiver |
| `MessageArchiveProofs` | theorems about it |
| `MessageLog` | what the two collections promise together: one log |
| `MessageLogProofs` | `MessageArchive` implements `MessageLog` |
| `DirectChat` | the direct conversation of two accounts, its messages, rooms and read markers, and blocks |
| `DirectChatProofs` | theorems about it |
| `Sessions` | sessions, passwords and the cached profile of one account |
| `SessionsProofs` | theorems about it |
| `Registration` | the account of one address: registration, codes, Google, purge |
| `RegistrationProofs` | theorems about it |
| `Presence` | presence of one account, what its contacts hear, and pushes to it |
| `PresenceProofs` | theorems about it |
| `MC...` | instances for TLC |

Conventions shared by the specifications:

* `Workers` are the handlers that can be in flight at once, of one process or
  of several.  `call[w]` is the handler's place in its code (`pc`, named for the
  query or the statement that comes next) and what it has read so far.
  `Begin(w)` starts one, `Step(w)` takes it to its next `await`, `Crash(w)`
  cuts it off: the process stops, or the next database call rejects.
* A Prisma transaction and a single SQL statement are one step, at its commit.
  Serialisation below that is PostgreSQL's: an update by id of a row that is
  gone fails (P2025), an insert that hits a unique index fails (P2002), and a
  failed transaction has no effect.  MongoDB is atomic for one document;
  `updateMany` and `insertMany` each are one step here, too (their interleaving
  document by document is not modelled).
* `Calls` says which operations the clients of an instance invoke.  The
  specification always has them all, and the theorems hold for every choice.
* An operator commented `Mutant of X` is X with a plausible bug.  No
  specification uses it; `PROJECT.json` says which property notices when it
  takes the place of X.
* Validation, formatting and logging are left out, and read-only queries and
  emitted events that no property is about.  An early return for a missing row, a self-reference or
  a duplicate is either a guard of the `Start` action (the call then changes
  nothing) or a branch that returns.

### Friendship

`request` and `friend` map ordered pairs of accounts to rows, as the unique
indexes do; `blocks` is a set of pairs; `cache[a]` is `{}` or `{list}`.
`sendRequest` is the longest handler: `StartSend` (the friendship check),
`SendCheckBlocked`, `SendFindPending` (one `findFirst` over both directions,
which may return either row), `SendFindPrevious` (the cooldown), `SendUpsert`,
`Notify`.  `autoAccept` and `respondToRequest` share the transaction
`AcceptTx`, the two `redis.del` (`Invalidate`) and the notification, as in the
code.  `RemoveTx` and `BlockTx` are the transactions of `removeFriend` and
`blockUser`.

Time is the flag `aged` of a request: on a PENDING one, `expiredAt` has
passed; on a REJECTED one, its cooldown is over.  Row ids are taken from a
finite set, and one is reused only when no row and no handler holds it, so the
model has as few ids as the instance needs and no accidental reuse.

`wants` is history: `<<a, b>>` while a has asked b, or agreed, since the last
`removeFriend` between the two.  So are `cut`, the pairs a handler of which was
cut off between its commit and the last thing it does after it, and what tells
the races the code leaves open from everything else: `call[w].missed` has the
events (a block, the other's request, a change of the list) that have overtaken a
handler since it looked for them, `breached` the pairs between which a handler
made contact that a block had overtaken, until they are blocked again, and
`stale` the accounts whose list was stored by a fill that a change had overtaken,
until the entry is written or deleted again.

### GroupMembership

`role[a]` is the participant row or `"none"`.  `Init` is any state
`createGroupConversation` leaves.  Each operation is `Start` (with
`ensureGroupConversation`), one check per query, and the write.

Any handlers may be in flight together, also several of one account: the server
does not make a client wait.  `call[w].missed` is history, the operations that have changed roles
since the handler read the role of its caller; `split` says that a transfer
that another one had overtaken was committed, and `after` counts the changes
of roles since the group was disbanded.

### MessageArchive

`hot` and `archive` map message numbers, in the order of their ObjectIds, to
documents, of which the model keeps the marks (unsent, edited, deleted for the
reader, pinned), the reactions of the reader and the reply snapshot.  `cutoff`
is the age limit: messages `1..cutoff` are older than `MESSAGE_ARCHIVE_DAYS`.
Each of `Archivers` is the nightly job of a server process: `@Cron` starts it in
every one and nothing locks it.  The find of the archiver has no sort.
`OldestFirst` says in which order MongoDB returns the messages and which of a
batch it inserts first: with TRUE in the order of the ids, which is what a scan of
the collection in the order of insertion gives and what MongoDB does not promise;
with FALSE in any.  `PageComplete` and `ListExact` are only claimed with TRUE.

`updateInBothCollections`, `findInBothCollections`, `findByConversation`,
`globalSearch` and `maskDeletedReplies` are two steps each, one per collection.
`toggleReaction` is a find, a pull and a push in each collection (`ReactFind`,
`ToggleHot`, `PushHot`, ...).  The archiver is `ArchiverFinds`,
`ArchiverInserts`, `ArchiverDeletes` in a loop.  `LastMessage` and `Unread` are
what `getLastMessagesForConversations` and `countUnreadInConversations` answer
at one moment: which messages, and not the text the list makes of them.  The list
takes the raw content of its last message, also of one that was unsent
(`messages.service.ts:536-567`, `conversation-list.helpers.ts:141`); no
property here speaks of that content.

A reply is refused if its sender has deleted the original for himself.  The
model has the deletions of the reader alone, and the sender may be the
reader or not, so `CreateFindOriginal` may refuse a reply to a message the reader
has deleted, and may go on.

Mongoose refuses `""` for a required string when it validates a document
(`save`, `insertMany`) and does not look when it updates (`updateMany`).
`Valid` is that rule, for `reply_to.content`; it is how Mongoose's `required`
validator treats strings, and is not code of this repository.

`Age` does not let a message become old while it is being unsent, nor during a
call that was there before it (`since` is how many messages there were when the call
began): that would take a handler that runs for a month
(`MESSAGE_ARCHIVE_DAYS` is 30 by default).

`due` (the page a single query would give), `gone` (messages unsent before the
call), `late` (what a toggle found is out of date) and `unsent` are history.

### MessageLog

The abstract specification of the two collections: a log to which messages are
added at the end, never removed, and in which unsending is final.
`MessageArchive!Contents` is the refinement mapping: a message has the content
of its hot document, or of its archived one when there is no hot one, as
`findInBothCollections` looks them up.

### DirectChat

`conv` is the first direct conversation of two accounts, with `hiddenAt` of each
participant, `updatedAt` and read markers; times are counted in messages, which
is all that is compared.  A second conversation of the two shows in `others`,
with how it came to be.  `sendMessage` is `StartSendMessage` (the participant and
the block check), `SaveMessage`, `UpdateTimestamp`, `ResetHiddenAt`, `Emit`, in the order of
`ChatService.sendMessage` and of the gateway that emits last.  A client joins a
room (`JoinRoom`, or `RejoinRooms` when it connects), reads the newest page and
gets events from then on; `got` is what it then shows.  `Block` is the commit of
`blockUser` or `unblockUser`; a handler between its check and its write becomes
`late`, which is history, as are `asked`, `raced` and `cut`.

### Sessions

One account.  `token` maps refresh tokens to their rows; `refreshToken` is the
lookup, the `delete` by token that fails when the row is gone, and the row of the
new token.  `DeleteTokens` is the `deleteMany` that resetting or changing the password and logging
out everywhere have in common; `Revoke` is the step that does it.  Its history
marks whatever it leaves: a token whose row is still there, and a handler that has been let in,
are `old` from then on, and a handler is `late` only if it has nothing left to
check before it stores a token (it is at `issue`).  A refresh that is
between its lookup and its `delete` is old and not late: it is the failing
`delete` that has to stop it.  `forgotPassword` is a transaction of two
statements between which another may commit; `resetPassword` uses the token up
in one statement and changes the password in a transaction after it.  `profile` is
the `user_profile` entry, which fills, `updateProfile`, `updateLastSeen` (called
by `logout`) and `changePassword` write or delete.  `old`, `late`, `applied` and `cut` are
history.

### Registration

One email address.  `account` is its row with its providers, `otp` the
OTP row (unique on the account), `call[w].id` the account that a handler has
read.  A password is identified by the code that was made together with it:
`account.password \in confirmed` says that someone who could read the mail
entered the code that went out for this password.  Time is two flags of the OTP row (`cooling`,
`over`) that the environment ends.  `cooling` is counted from `updatedAt`, which
every write of the row renews, also that of a wrong attempt.  `tried` and
`resent` are history: the guesses at the present code that have been answered, and the
codes that resends have stored since the row was last free to be replaced.

### Presence

One account with several sockets.  The counter and the presence key have lives in
ticks; a heartbeat belongs into every tick, and handlers end within one.
`Disconnect` is the Lua script, one step; the commands of `onClientConnected` are
a step each.  `history.blurred` says that Redis cannot be right (a server stopped,
all heartbeats of a tick were missed, or a connection was closed before its own
handler had set the key) and is cleared when both keys are gone and nobody is
there.  The update of `lastSeen` may fail, which the code catches
(`contacts.lastSeen` is then `"failed"`); `history.crossed` says that two announcements were under way together.
`push` is one `sendPushToOfflineParticipants`, for one account as participant.

## 3. Runs

| Run | Properties | What it shows |
|---|---|---|
| `friendship_concurrent` | `TypeOK`, `FriendshipsUnique`, `FriendsConsented`, `Announced`, `NoContactWhileBlocked`, `CrossingResolved` | with two handlers in flight, either of which may be cut off: one row per pair; no accept on a request read before `removeFriend` restores the friendship; requests and friendships are notified, their handler is on its way to do so, or it was cut off; nothing makes contact across a block but a handler the block overtook; requests cross only if one was stored after the other looked for it |
| `friendship_cache` | `CacheCurrent` | with two handlers that read, change and invalidate friends lists: accepts and removals delete the right entries, and a wrong list is about to be deleted, or comes from a fill that a change overtook or from a block |
| `group` | `SplitOnlyByTransfers`, `FrozenAfterDisband`, `LeaderKept`, `RolesKeptByAdd`, `DeputiesKickOnlyMembers` | two handlers, also of one account, either of which may be cut off: only overtaken transfers make two leaders, only the named steps take a group its leader, `addMembers` resets no role, nobody but the leader and an overtaken kick removes a deputy, and after disbanding each handler in flight writes once at most |
| `archive_pages` | `NothingLost`, `PageComplete`, `ListExact`, `ArchivedUnlessCutOff` | the archiver runs, and may be cut off, between the two queries of a page or search, and messages are unsent: a message is always in one of the two collections, the page is complete, previews and counts are exact where the hot collection reaches, and everything old is archived unless a run was cut off between insert and delete or an old reply has an emptied snapshot |
| `archive_unsend` | `NoUnsentQuoted`, `ImplementsMessageLog` | two handlers, and an archiver that takes old messages in any order: no page or search quotes a message that was unsent before it was asked for, whatever is cut off; the two collections implement one log |
| `archive_marks` | `OneReaction` | two handlers and the archivers of two servers, in any order of messages: one reaction per account and message, but for toggles that overlapped another or an archiver |
| `sessions` | `TypeOK`, `RotatedOnce`, `SessionsRevoked`, `ResetExactlyOnce`, `ProfileCurrent` | any two of all session and password operations interleave and may be cut off: a session never forks, revoking ends all sessions, also one whose refresh it overtakes between its queries, but those of handlers with nothing left to check, a reset token sets one password, the cached profile is the row |
| `registration` | `TypeOK`, `PasswordConfirmed`, `GuessesBounded`, `ResendsBounded`, `SignedInKept` | several people register one address, the owner comes with codes or through Google, the purge runs: the password was confirmed, guesses and resends exceed their limits by the handlers in flight and no more, who is signed in stays |
| `presence` | `TypeOK`, `PresenceExact`, `ContactsInformed`, `AwayIsPushed`, `PresenceEnds` | two sockets come and go, heartbeats are missed, servers stop: presence is right where no race of the code blurs it, contacts know, who is away gets the push, and presence ends |
| `direct_chat` | `TypeOK`, `OneConversation`, `Reappears`, `NoGap`, `MarkerFollows`, `NoContactAcrossBlock` | two handlers with hiding, blocking, reconnects and failures: one conversation unless get-or-create calls overlap, messages that bring it back, no gap between page and events, a marker that follows the client, no contact across a block but by handlers it overtook |

Two runs end in a violation, a disagreement between the code and what the
repository says of it (quoted in `PROJECT.json`, `findings`).  `archive_stuck`,
`OldMessagesArchived`: after one failure between insert and delete every later
run meets its own duplicates, and the rest is never archived.  `group_swap`,
`AtMostOneLeader`: two transfers of one leader, both past their checks, promote
two accounts, since the "atomic swap" does not include the check of the role.

Many properties name the races that the code leaves open as an exception, so
that everything outside of them is checked.  The exceptions are needed: each of
these changes makes TLC find a behaviour the code has.

| Run, property | Change | What happens |
|---|---|---|
| `friendship_concurrent`, `NoContactWhileBlocked` | without `breached` | a `sendRequest` or accept that passed its checks writes after `blockUser` committed, though `block.service.ts:59-60` says that blocking deletes requests and friendships |
| `friendship_concurrent`, `CrossingResolved` | without `missed` | two crossing `sendRequest` both find nothing pending and both store a request |
| `friendship_cache`, `CacheCurrent` | without `stale` | a fill read before an invalidation is stored after it, for the TTL |
| `friendship_cache`, `CacheCurrent` | without `Blockaded` | `blockUser` deletes the friendship and not the cached lists |
| `group`, `SplitOnlyByTransfers` | without `split` (the run `group_swap`) | two transfers of one leader, both past their checks, promote two |
| `group`, `LeaderKept` | without `missed` | a leader leaves on a stale count of the others, or on a role read before he became the leader; an account that has become the leader since is kicked, or demoted; `addMembers` of a leader who has left since puts members into an empty group |
| `group`, `LeaderKept` | without `~split` | two leaders kick each other |
| `group`, `LeaderKept` | without the leader who demotes himself | `updateMemberRole` lets the leader demote himself (`conversations.controller.ts:262` speaks of members and deputies), and no operation makes a leader after that |
| `group`, `DeputiesKickOnlyMembers` | without `missed` | a kick goes on after its caller has lost the rank, or its target has got one |
| `group`, `FrozenAfterDisband` | `after = 0` | an operation that looked before `disbandGroup` writes after it |
| `archive_pages`, `PageComplete` | without `~UsesArchive` | a cursor older than the cutoff hides old messages that are still in the hot collection |
| `archive_pages`, `PageComplete` | `deleteForMe` in `Calls` | a message deleted while the archiver holds it comes back in the archive, and in a page that is read then; with two workers one deleted between the two queries is missing in the page |
| `archive_pages`, `ArchivedUnlessCutOff` | without `Refused` | the snapshot in a reply is cleared to `""`, which `insertMany` refuses, so that batch and all that follow stay |
| `archive_pages`, `PageComplete` and `ListExact` | `OldestFirst = FALSE` | the archiver takes a newer message before an older one: the page that lacks it has not filled up and reads the archive below its oldest message, and the list shows an older message as the last |
| `archive_marks`, `OneReaction` | `late` not set for messages in the batch | a reaction pulled from the hot document after the archiver read it comes back, next to the new one.  Edits, pins and deletions are lost the same way between the archiver's find and its `deleteMany` |
| `sessions`, `SessionsRevoked` | without `late` | a refresh that has deleted its token, or a login that has compared the password, before a revocation issues its token after it |
| `sessions`, `ResetExactlyOnce` | without `cut` | a reset that is cut off after the token was used up leaves neither the token nor the password |
| `sessions`, `ProfileCurrent` | with `"late"`, too | a fill that read before an update is stored after its deletion, for the TTL |
| `registration`, `PasswordConfirmed` | without `late` | a registration overwrites the password between the check of an older code and the transaction that verifies |
| `registration`, `GuessesBounded` | `tried <= MaxAttempts` | two guesses that read the attempts before the last of them was counted are both compared with the code |
| `registration`, `ResendsBounded` | `resent <= 1` | two resends that found the cooldown over each store and mail a code |
| `presence`, `PresenceExact` | without `blurred`, no faults | a socket closes before its own `onClientConnected` has run `SET`: the key stays for its TTL |
| `presence`, `ContactsInformed` | without `crossed`, no faults | OFFLINE awaits two queries and is emitted after the ONLINE of a later connection |
| `presence`, `ContactsInformed` | `lastSeen = "recorded"` | the update of `lastSeen` fails, is logged, and leaves the time of an earlier visit |
| `direct_chat`, `OneConversation` | `others = {}` | two get-or-create calls both find nothing and both create |
| `direct_chat`, `NoContactAcrossBlock` | without `late` | `sendMessage` stores a message after a block its check did not see |

More that differs from what the repository says or one would expect, and breaks no property above:

* `respondToRequest` accepts a request whose `expiredAt` has passed until the
  nightly job has removed it (`StartRespond` looks at the status alone, as the code does).
* A reply to an unsent message is refused by `save`, because its snapshot is
  `""` (`CreateSave`; `messages.service.spec.ts:308`, with a mocked model,
  expects it to be stored).
* Whoever registers with the address of an account that was made through Google
  is asked to verify the address; `verifyEmail` refuses, because the account is
  verified, and the password is stored but no password provider
  (`RegisterOverwrite`), so that nobody can log in with it.
* `INCR` of a connection without the `EXPIRE` that follows (the server stopped
  in between) leaves a counter without TTL: later connections are never the
  first, so `SET` of the presence key is never run until the counter has gone
  down to zero.  `PresenceExact` calls such a state blurred.

### Bounds

* `Friendship`: two accounts, because every statement is about one pair (the
  cache of an account lists all its friends, but each entry changes with its
  own pair); two handlers, which is what every race of two operations takes;
  three ids, for two requests or one friendship and the stale one a handler
  holds.  `friendship_cache` leaves out the calls that change no list
  (`cancelRequest`, `unblockUser`, the cleanup) and failures, which put the pair
  into `cut`, to keep it small; the theorem has them.
* `GroupMembership`: three accounts (a leader, a deputy, a target), two
  handlers, every call.
* `MessageArchive`: three messages and pages of two, so that a page takes one
  from each collection and leaves one out; batches of two there, so that the
  archiver loops and inserts some of a batch; otherwise two messages, enough for a reply and its
  original and for one message after a batch that is stuck, and one for
  reactions, which never relate two messages; one or two handlers; at most one failure.
  `archive_unsend` has a reply being stored while its original is unsent and archived.
  Two servers run their job in `archive_marks`, and one in the other runs,
  which are too large with two: the theorems about them hold for any number of servers.
  `archive_pages` has one handler, so that what comes between the queries of a
  page is the archiver; the theorem has any number.  `insertMany` and `deleteMany` are one
  step each, also for two archivers: that two of them interleave document by document is
  not modelled.
* `Sessions`: three refresh tokens (one, the one it is rotated to, and another
  session), two reset tokens, two passwords, two handlers.
* `Registration`: four codes and two accounts (one that is purged and the next),
  two handlers; codes lock after two attempts instead of five, so that a
  locked code, and one attempt that races the last, are reached; both limits are
  reached exactly.
* `Presence`: two sockets, a TTL of two ticks (one may be missed), one device.
* `DirectChat`: two messages, one of the two clients followed (they do not
  interact), two handlers.
* Symmetry: handlers, row ids, passwords and the accounts of a group are
  interchangeable; no liveness run uses it.
* Deadlock is not checked in the group runs: a group without participants, or
  disbanded, accepts no operation, and that is as it should be.

### Fairness

Only the liveness properties assume any.  `MessageArchive!FairSpec`: the archiver
of each server starts every night (the cron job) and goes on while it can (Node
keeps resolving promises).  `Presence!FairSpec`: the handlers
of a socket run to their end, and time passes.  All of it is weak fairness, and
clients owe nothing: no start of a call, no heartbeat and no disconnect is fair.

## 4. Proofs

All of these hold for every value of the constants: any accounts, any number of
handlers in flight, any number of servers that archive, and with failures.

| Theorem | Statement |
|---|---|
| `FriendshipProofs!TypeCorrect` | `Spec => []TypeOK` |
| `FriendshipProofs!UniqueFriendships` | `Spec => []FriendshipsUnique` |
| `FriendshipProofs!ConsentedFriendships` | `Spec => []FriendsConsented` |
| `FriendshipProofs!NothingUnannounced` | `Spec => []Announced` |
| `FriendshipProofs!BlocksHold` | `Spec => []NoContactWhileBlocked` |
| `FriendshipProofs!CrossingsResolve` | `Spec => CrossingResolved` |
| `FriendshipProofs!CacheFollows` | `Spec => []CacheCurrent` |
| `GroupMembershipProofs!TypeCorrect` | `Spec => []TypeOK` |
| `GroupMembershipProofs!LeadershipSplit` | `Spec => []SplitOnlyByTransfers` |
| `GroupMembershipProofs!AddKeepsRoles` | `Spec => RolesKeptByAdd` |
| `GroupMembershipProofs!LastLeaderKept` | `Spec => LeaderKept` |
| `GroupMembershipProofs!DeputiesKickMembers` | `Spec => DeputiesKickOnlyMembers` |
| `GroupMembershipProofs!DisbandedFrozen` | `Spec => []FrozenAfterDisband` |
| `MessageArchiveProofs!TypeCorrect` | `Spec => []TypeOK` |
| `MessageArchiveProofs!MessagesKept` | `Spec => []NothingLost` |
| `MessageArchiveProofs!ListIsExact` | `Spec => []ListExact` if `OldestFirst` |
| `MessageArchiveProofs!ReactsOnce` | `Spec => []OneReaction` |
| `MessageLogProofs!RefinesLog` | `Spec => ImplementsMessageLog`: `MessageArchive` implements `MessageLog` |
| `MessageLogProofs!UnsentNeverQuoted` | `Spec => []NoUnsentQuoted` |
| `MessageLogProofs!PagesComplete` | `Spec => []PageComplete` if `OldestFirst` and `Calls` has no `deleteForMe` |
| `SessionsProofs!TypeCorrect` | `Spec => []TypeOK` |
| `SessionsProofs!NeverForked` | `Spec => []RotatedOnce` |
| `SessionsProofs!Revoked` | `Spec => []SessionsRevoked` |
| `SessionsProofs!AppliedOnce` | `Spec => []ResetExactlyOnce` |
| `SessionsProofs!ProfileDeleted` | `Spec => []ProfileCurrent` |
| `DirectChatProofs!TypeCorrect` | `Spec => []TypeOK` |
| `DirectChatProofs!NeverSplit` | `Spec => []OneConversation` |
| `DirectChatProofs!ComesBack` | `Spec => []Reappears` |
| `DirectChatProofs!NothingMissed` | `Spec => []NoGap` |
| `DirectChatProofs!MarkerRight` | `Spec => []MarkerFollows` |
| `DirectChatProofs!BlockRespected` | `Spec => NoContactAcrossBlock` |
| `RegistrationProofs!TypeCorrect` | `Spec => []TypeOK` |
| `RegistrationProofs!ConfirmedPassword` | `Spec => []PasswordConfirmed` |
| `RegistrationProofs!GuessesAreBounded` | `Spec => []GuessesBounded` |
| `RegistrationProofs!ResendsAreBounded` | `Spec => []ResendsBounded` |
| `RegistrationProofs!SignedInStays` | `Spec => SignedInKept` |
| `PresenceProofs!TypeCorrect` | `Spec => []TypeOK` |
| `PresenceProofs!PresenceIsExact` | `Spec => []PresenceExact` |
| `PresenceProofs!ContactsAreInformed` | `Spec => []ContactsInformed` |
| `PresenceProofs!PushReaches` | `Spec => []AwayIsPushed` |

Each rests on an inductive invariant, since none of the properties is
inductive by itself:

* *Friendship.*  `FriendshipsUnique` follows from `FriendsSorted`: a row is
  stored with its ids in order, which needs that a handler at `accept` is about
  two different accounts (`CallsOK`).  `FriendsConsented` needs
  `RequestsWanted`: every request row, of any status, stands for a wish no
  `removeFriend` has ended.  That is kept because `removeFriend` deletes every
  request of the pair in its transaction, so a handler that still holds the id
  of one finds no row to update.  `Announced` is inductive together with these:
  each step adds a row only along with the duty to announce it, hands the duty
  on until `Notify`, or is a crash, which puts the pair into `cut`.
  The other three each say what a handler still knows of what it
  has seen, as long as nothing it missed could have changed it.  `Unseen`: a
  handler that is past its block check, or holds a request to answer, is about two accounts
  without a block, unless a block has overtaken it.  `UpsertClear`: from
  `SendFindPrevious` to `SendUpsert` the other's request is not live, unless it
  was stored since.  `ListRead`: the list that `getFriends` is about to store
  is still the list, unless a change was committed since; with `CacheOK`, which names
  the handler that will delete a wrong entry, so that cutting it off is seen to
  put the pair into `cut`.
* *GroupMembership.*  `Knows(w)` says what a handler still knows of the roles it
  has read, as long as the operations that could falsify it are not among those
  it has missed.  `TransferKnows`: nobody but the caller of a transfer
  is a leader, unless another transfer came in between; so one transfer keeps one
  leader, whatever else is in flight.  `KickKnows`, `LeaveKnows`, `RoleKnows`
  and `AddKnows` are the same for what would take a group its leader.
  `DisbandedFrozen` counts: the changes after disbanding and the handlers still
  in flight are together fewer than the workers (`LateWrites`), because each change ends a handler
  and none begins, and the handler that disbanded the group is done.
* *MessageArchive.*  `BatchStored`: at `delete` the batch is in the archive,
  because an `insertMany` that fails ends the run; `BatchKnown`: the batch has
  only messages that exist; and `CallsOK`, for the ids of updates.  All three are about each
  archiver by itself: none takes a document out of the archive, so what one
  has inserted is there when another deletes it from the hot collection.
  `ListIsExact` rests on the order in which archivers work, hence on `OldestFirst`: the hot
  collection has every message after its oldest (`HotSuffix`), and a batch
  has, with a message, all older ones that are still hot (`BatchDown`), so that deleting it keeps a
  suffix, also when a run is cut off or two overlap.
  `ReactsOnce` rests on `Found`: where a toggle that is not late has looked for
  a reaction there is none, in either collection or in any batch, up to its
  push.  Every other step either adds no reaction to that message (`Calm`), or
  makes the toggle late.
* *MessageLog.*  The archiver carries old copies of documents, so deleting the
  hot one must not change what the log says.  `OnlyOldMoved`: what is in
  the batch or the archive is older than the cutoff; `UnsendsOK`: a handler that
  is past the 24 hours check is about a message that is not; hence
  `CopiesAgree`: the copies of a message agree on whether it is unsent.  This is
  where the day in which a message may be unsent and the month after which it
  is archived meet.
  `UnsentNeverQuoted` builds on it: a message in `unsent` is marked in every
  copy (`UnsentMarked`), so a page masks its snapshots whichever collection has
  it when `maskDeletedReplies` asks, even if it moves between the two queries,
  because it is asked for in the archive last (`MaskingIn`).
  `PagesComplete` adds `PInv`: when the hot collection has not filled a page,
  what it lacks (`Low`) is in the archive already, and nothing that the archiver adds
  there until the second query belongs to it: it is newer than the oldest
  message of the page, or unsent and thus not for a search.  An unsend that comes in
  between changes nothing, because it never reaches what is in the archive
  (`LogKept`).  The lemmas about `Newest`, `Oldest`, `Min` and the cardinality of
  finite sets say that the newest of a union are the newest of its upper part
  and as many of the rest.  A message that is created after the query of a
  page does not get old before its end (the guard of `Age`), and this is
  needed: without it TLC finds, with two handlers, such a message archived and in the page.
* *Sessions.*  `RotatedGone`: a token that has been rotated has no row;
  `IssuesAlone`: of the handlers that have deleted a token and are about to issue
  the next, no two are about the same token.  So no rotation finds the row
  again.  `AppliesAlone` is the same for reset tokens at `apply`.
  For revocation, `HoldersOK`: a refresh that a revocation has overtaken
  between its lookup and its `delete` finds its row gone, because the
  revocation deleted it and row ids are never used again; so what is old and gets
  to `IssueToken` was there already when the revocation came.
* *DirectChat.*  `Created`: a handler about to create although the
  conversation is there has been overtaken; `Checked`: so has one that is past
  its block check while there is a block; `Shown`: between `UpdateTimestamp` and
  `Emit` the conversation comes back in two steps, and hiding it again, at the newest
  message, undoes none for that message; `Heard`: a client has only messages
  that are stored; `Marked`: unless calls raced, the one that marks for an
  account is alone and has what its client asked for last.
* *Registration.*  `AccountOK`: until the address is verified, the password is the
  one whose code is in the OTP row, and that code has not been entered.  `CallOK`
  says what a handler holds: of an account that is still there, whatever
  happened (`HolderOK`: its OTP row is there; an account that was read as verified
  still is), and as long as nobody has overtaken it, also what it had checked
  (`FreshOK`: the code it found to be right is the one in the row).  Account ids and codes grow, so
  a handler never meets another account under the id it holds.
  The limits are counted.  `TriesOK`: the guesses answered and those that have been
  compared and wait for their answer are together at most the attempts, less
  one, and the number of handlers; while the code is not locked, no more
  were answered than were counted.  `ResendsOK` says the same of the resends that have found
  the cooldown over; a new one gets in only when the row is free
  (`Free`), and then none has been stored yet.  Both count sets of handlers and use the library's facts
  about cardinality, and assume that there are finitely many.
* *Presence.*  `KeysOK`, unless blurred: the count is that of the open
  connections, and the key is there or a handler will `SET` it.  Time keeps this
  because a connection that is not due has had both its keys renewed in this
  tick, or will have by the end of its handler (`RenewedBy`).  `AnnouncedOK`,
  unless crossed: at most one announcement is pending, it is of what is
  the case, and once it is out the contacts know.  That rests on `KeysOK`: the count
  alone decides what a handler announces.  `PushOK`: while a push owes a
  device something the account is away, no handler will set its key, and the
  device is registered; so `mget` finds no presence and the query finds the
  device.

Assumptions on the constants are the `ASSUME`s of the modules, which TLC
evaluates on the instances.  `Presence` assumes a TTL of more than one tick, without
which a heartbeat in every tick would not keep the keys.

Two theorems have hypotheses of their own, `OldestFirst` and that nobody calls
`deleteForMe`.  They cannot be dropped: the table of exceptions above has the behaviour TLC finds
without each.  They are hypotheses of theorems and not assumptions of the modules, whose
other theorems do without them.

Only model-checked: the liveness properties (`ArchivedUnlessCutOff`, with one
archiver, and `PresenceEnds`), which are out of this prover's reach.
Every invariant and every safety property of steps that a run checks is a
theorem.

## 5. Not modelled, and why

* The text of previews in the conversation list: the content of an unsent last message is
  read as it is stored (see MessageArchive), and which text is shown is a matter of mapping.
* Read-only queries (lists of requests and of blocked users, members, media,
  read receipts, profiles of others): no state changes, and a stale answer is
  the only thing that can go wrong.  Those where it matters, pages, search,
  previews, counts, the friends list and the own profile, are modelled.
* The cursor of the conversation list and of notifications (a timestamp that two rows
  may share, so that a page may skip one): the model has no clock that two
  rows can read the same.
* `updateGroupInfo`, message forwarding, media, muting (an input of
  `Presence`): data the properties do not tell apart.
* Sends and pages in groups: `sendMessage` checks participants there, too, and
  the race with a kick or a disbanding is the one of `FrozenAfterDisband` and
  `NoContactAcrossBlock`; `DirectChat` and `GroupMembership` are not composed.
* Typing indicators (no state), read markers of notifications (single updates),
  uploads and mail (external services whose results nothing depends on; a
  mail that fails is a `Crash` of its handler), the emitter, the Redis
  adapter, database modules, health checks, controllers, DTOs, guards and
  filters (wiring, validation, formatting; what they refuse is not an input of the models).

## 6. Plan

1. An abstract `Consent` (a friendship is a pair of wishes) implemented by
   `Friendship`, and a `Leadership` in which transfers are one step, implemented by `GroupMembership` up to `split`.
2. `GroupChat`, the composition of `GroupMembership` with sends and rooms.
