--------------------------- MODULE GroupMembership ---------------------------
(***************************************************************************)
(* The participants of one group conversation and their roles:             *)
(* GroupMemberService over the tables conversations and participants.      *)
(*                                                                         *)
(* Each operation checks that the group is not disbanded, reads the roles  *)
(* that give the caller the right to act, and then writes, with an await   *)
(* between any two of these: a handler writes on the strength of roles     *)
(* that may have changed since it read them.                               *)
(***************************************************************************)
EXTENDS Naturals, FiniteSets

CONSTANTS
    Accounts,
    Workers,           \* handlers that can be in flight at the same time
    NoOne,             \* the accounts of a handler that is not running
    Calls              \* the operations the clients of this instance invoke

AllCalls == {"addMembers", "kickMember", "leaveGroup", "disbandGroup",
             "transferLeadership", "updateMemberRole"}

ASSUME NoOneAssumption == NoOne \notin Accounts
ASSUME CallsAssumption == Calls \subseteq AllCalls
ASSUME WorkersAssumption == IsFiniteSet(Workers)

VARIABLES
    role,       \* participants: the role of each account, or "none"
    disbanded,  \* conversations.deletedAt is set
    call,       \* the handler each worker is running
    split,      \* history: a transfer that another one had overtaken has
                \* been committed
    after       \* history: the number of changes of roles since the group
                \* was disbanded

vars == <<role, disbanded, call, split, after>>
data == <<role, disbanded, split, after>>

-----------------------------------------------------------------------------
Ranks == {"MEMBER", "DEPUTY", "LEADER"}
PCs == {"idle", "actor?", "target?", "others?", "existing?", "write"}

Idle == [op |-> "none", pc |-> "idle", actor |-> NoOne, target |-> NoOne,
         rank |-> "MEMBER", users |-> {}, missed |-> {}]

\* missed is history: the operations of other handlers that have changed roles
\* since this one read the role of its caller.
CallRecords ==
    [op : AllCalls \union {"none"}, pc : PCs,
     actor : Accounts \union {NoOne}, target : Accounts \union {NoOne},
     rank : {"MEMBER", "DEPUTY"}, users : SUBSET Accounts,
     missed : SUBSET AllCalls]

TypeOK ==
    /\ role \in [Accounts -> Ranks \union {"none"}]
    /\ disbanded \in BOOLEAN
    /\ call \in [Workers -> CallRecords]
    /\ split \in BOOLEAN
    /\ after \in Nat

Participants == {a \in Accounts : role[a] # "none"}
Leaders == {a \in Accounts : role[a] = "LEADER"}

\* createGroupConversation: one transaction makes the creator LEADER and the
\* others MEMBER; a member list that names only the creator leaves it alone.
Init ==
    /\ \E creator \in Accounts, members \in SUBSET Accounts :
         role = [a \in Accounts |-> IF a = creator THEN "LEADER"
                                    ELSE IF a \in members THEN "MEMBER" ELSE "none"]
    /\ disbanded = FALSE
    /\ call = [w \in Workers |-> Idle]
    /\ split = FALSE
    /\ after = 0

-----------------------------------------------------------------------------
(* Every operation starts with ensureGroupConversation.                    *)

\* Mutant of Start: ensureGroupConversation does not look at deletedAt.
StartAnyway(w, op, a, b, rank, users) ==
    /\ op \in Calls
    /\ call[w] = Idle
    /\ call' = [call EXCEPT ![w] = [op |-> op, pc |-> "actor?", actor |-> a,
                                    target |-> b, rank |-> rank, users |-> users,
                                    missed |-> {}]]
    /\ UNCHANGED data

Start(w, op, a, b, rank, users) ==
    /\ op \in Calls
    /\ call[w] = Idle
    /\ ~disbanded
    /\ call' = [call EXCEPT ![w] = [op |-> op, pc |-> "actor?", actor |-> a,
                                    target |-> b, rank |-> rank, users |-> users,
                                    missed |-> {}]]
    /\ UNCHANGED data

At(w, op, pc) == call[w].op = op /\ call[w].pc = pc
Goto(w, pc) == call' = [call EXCEPT ![w].pc = pc]
Return(w) == call' = [call EXCEPT ![w] = Idle]

\* A check that only reads: the handler goes on, or returns an error.
Check(w, ok, next) ==
    /\ IF ok THEN Goto(w, next) ELSE Return(w)
    /\ UNCHANGED data

ActorRole(w) == role[call[w].actor]
TargetRole(w) == role[call[w].target]

\* What handler v has missed when op has changed roles.
Overtaken(v, op) ==
    IF call[v].pc \in {"idle", "actor?"} THEN call[v]
    ELSE [call[v] EXCEPT !.missed = @ \union {op}]

\* The last statement of a handler, which leaves the participants as newRole.
Write(w, op, newRole) ==
    /\ At(w, op, "write")
    /\ role' = newRole
    /\ call' = [v \in Workers |-> IF v = w THEN Idle
                                  ELSE IF newRole = role THEN call[v]
                                  ELSE Overtaken(v, op)]
    /\ after' = IF disbanded /\ newRole # role THEN after + 1 ELSE after

-----------------------------------------------------------------------------
AddCheckActor(w) ==
    /\ At(w, "addMembers", "actor?")
    /\ Check(w, ActorRole(w) # "none", "existing?")

AddFindExisting(w) ==
    /\ At(w, "addMembers", "existing?")
    /\ LET newIds == call[w].users \ Participants IN
       IF newIds = {}
       THEN Return(w)
       ELSE call' = [call EXCEPT ![w] = [@ EXCEPT !.pc = "write", !.users = newIds]]
    /\ UNCHANGED data

\* Mutant of AddMembers: an upsert that resets the role of a row that exists.
UpsertMembers(w) ==
    /\ Write(w, "addMembers",
             [a \in Accounts |-> IF a \in call[w].users THEN "MEMBER" ELSE role[a]])
    /\ UNCHANGED <<disbanded, split>>

\* createMany is one INSERT: a row that exists by now (P2002) fails it whole.
AddMembers(w) ==
    /\ Write(w, "addMembers",
             IF call[w].users \cap Participants = {}
             THEN [a \in Accounts |-> IF a \in call[w].users THEN "MEMBER" ELSE role[a]]
             ELSE role)
    /\ UNCHANGED <<disbanded, split>>

-----------------------------------------------------------------------------
KickCheckActor(w) ==
    /\ At(w, "kickMember", "actor?")
    /\ Check(w, ActorRole(w) \in {"DEPUTY", "LEADER"},
             IF ActorRole(w) = "DEPUTY" THEN "target?" ELSE "write")

\* Mutant of KickCheckTarget: a deputy may kick whoever is not the leader.
KickCheckNotLeader(w) ==
    /\ At(w, "kickMember", "target?")
    /\ Check(w, TargetRole(w) \in {"MEMBER", "DEPUTY"}, "write")

KickCheckTarget(w) ==
    /\ At(w, "kickMember", "target?")
    /\ Check(w, TargetRole(w) = "MEMBER", "write")

\* The delete of a row that is gone (P2025) changes nothing.
KickMember(w) ==
    /\ Write(w, "kickMember", [role EXCEPT ![call[w].target] = "none"])
    /\ UNCHANGED <<disbanded, split>>

-----------------------------------------------------------------------------
LeaveCheckActor(w) ==
    /\ At(w, "leaveGroup", "actor?")
    /\ Check(w, ActorRole(w) # "none",
             IF ActorRole(w) = "LEADER" THEN "others?" ELSE "write")

\* Mutant of LeaveCheckAlone: the leader may leave the others behind.
LeaveAnyway(w) ==
    /\ At(w, "leaveGroup", "others?")
    /\ Check(w, TRUE, "write")

LeaveCheckAlone(w) ==
    /\ At(w, "leaveGroup", "others?")
    /\ Check(w, Participants \subseteq {call[w].actor}, "write")

LeaveGroup(w) ==
    /\ Write(w, "leaveGroup", [role EXCEPT ![call[w].actor] = "none"])
    /\ UNCHANGED <<disbanded, split>>

-----------------------------------------------------------------------------
DisbandCheckActor(w) ==
    /\ At(w, "disbandGroup", "actor?")
    /\ Check(w, ActorRole(w) = "LEADER", "write")

DisbandGroup(w) ==
    /\ Write(w, "disbandGroup", role)
    /\ disbanded' = TRUE
    /\ UNCHANGED split

-----------------------------------------------------------------------------
TransferCheckActor(w) ==
    /\ At(w, "transferLeadership", "actor?")
    /\ Check(w, ActorRole(w) = "LEADER", "target?")

TransferCheckTarget(w) ==
    /\ At(w, "transferLeadership", "target?")
    /\ Check(w, TargetRole(w) # "none", "write")

\* Mutant of TransferLeadership: the old leader is not demoted.
ShareLeadership(w) ==
    /\ Write(w, "transferLeadership",
             IF ActorRole(w) # "none" /\ TargetRole(w) # "none"
             THEN [role EXCEPT ![call[w].target] = "LEADER"] ELSE role)
    /\ split' = (split \/ "transferLeadership" \in call[w].missed)
    /\ UNCHANGED disbanded

\* Two updates in one transaction: it aborts when either row is gone.
TransferLeadership(w) ==
    /\ Write(w, "transferLeadership",
             IF ActorRole(w) # "none" /\ TargetRole(w) # "none"
             THEN [role EXCEPT ![call[w].actor] = "MEMBER", ![call[w].target] = "LEADER"]
             ELSE role)
    /\ split' = (split \/ "transferLeadership" \in call[w].missed)
    /\ UNCHANGED disbanded

-----------------------------------------------------------------------------
RoleCheckActor(w) ==
    /\ At(w, "updateMemberRole", "actor?")
    /\ Check(w, ActorRole(w) = "LEADER", "target?")

RoleCheckTarget(w) ==
    /\ At(w, "updateMemberRole", "target?")
    /\ Check(w, TargetRole(w) # "none", "write")

UpdateMemberRole(w) ==
    /\ Write(w, "updateMemberRole",
             IF TargetRole(w) # "none"
             THEN [role EXCEPT ![call[w].target] = call[w].rank] ELSE role)
    /\ UNCHANGED <<disbanded, split>>

-----------------------------------------------------------------------------
(* kickMember and transferLeadership refuse the caller as the target;      *)
(* updateMemberRole does not.                                              *)

Begin(w) ==
    \E a \in Accounts :
      \/ \E users \in SUBSET Accounts \ {{}} :
           Start(w, "addMembers", a, NoOne, "MEMBER", users)
      \/ \E b \in Accounts \ {a} : Start(w, "kickMember", a, b, "MEMBER", {})
      \/ \E b \in Accounts \ {a} : Start(w, "transferLeadership", a, b, "MEMBER", {})
      \/ \E b \in Accounts, rank \in {"MEMBER", "DEPUTY"} :
           Start(w, "updateMemberRole", a, b, rank, {})
      \/ Start(w, "leaveGroup", a, NoOne, "MEMBER", {})
      \/ Start(w, "disbandGroup", a, NoOne, "MEMBER", {})

\* The process stops, or the database rejects the next call.
Crash(w) ==
    /\ call[w] # Idle
    /\ Return(w)
    /\ UNCHANGED data

Step(w) ==
    \/ AddCheckActor(w) \/ AddFindExisting(w) \/ AddMembers(w)
    \/ KickCheckActor(w) \/ KickCheckTarget(w) \/ KickMember(w)
    \/ LeaveCheckActor(w) \/ LeaveCheckAlone(w) \/ LeaveGroup(w)
    \/ DisbandCheckActor(w) \/ DisbandGroup(w)
    \/ TransferCheckActor(w) \/ TransferCheckTarget(w) \/ TransferLeadership(w)
    \/ RoleCheckActor(w) \/ RoleCheckTarget(w) \/ UpdateMemberRole(w)

Next == \E w \in Workers : Begin(w) \/ Step(w) \/ Crash(w)

Spec == Init /\ [][Next]_vars

-----------------------------------------------------------------------------
(* Properties.  Any number of handlers is in flight, also of one account:  *)
(* each says what holds, and which overtaken handlers break it.            *)

\* What transferLeadership's comment claims of the swap: it demotes the old
\* leader in the transaction that promotes the new one, so there is never a
\* second leader.  Two transfers of one leader break it.
AtMostOneLeader == \A a, b \in Leaders : a = b

\* A group gets a second leader only by a transfer that another transfer has
\* overtaken: neither promotions, leaves and kicks that come in between, nor
\* adding members again, make one.
SplitOnlyByTransfers == split \/ AtMostOneLeader

\* A group that has participants has a leader: a leader hands over or
\* disbands before leaving, and nobody but a leader removes a leader.
HasLeader == ~disbanded /\ Participants # {} => Leaders # {}

\* The steps that may take a group its last leader: the leader who demotes
\* himself; a kick, a leave or a role update of someone who has been made the
\* leader since the handler looked; a leader who leaves alone when others have
\* come in since he was; and an add to a group that has become empty.
TakesLeader(w) ==
    /\ call[w].pc = "write" /\ call'[w] = Idle
    /\ \/ call[w].op = "updateMemberRole" /\ call[w].target = call[w].actor
       \/ /\ call[w].op \in {"kickMember", "leaveGroup", "updateMemberRole"}
          /\ "transferLeadership" \in call[w].missed
       \/ call[w].op = "leaveGroup" /\ "addMembers" \in call[w].missed
       \/ /\ call[w].op = "addMembers"
          /\ {"leaveGroup", "kickMember"} \cap call[w].missed # {}

\* As long as leadership was not split, a group that has a leader keeps one
\* but for these steps.
LeaderKept ==
    [][~split /\ HasLeader => HasLeader' \/ \E w \in Workers : TakesLeader(w)]_vars

\* Adding accounts never changes the role of one that is already in the
\* group, even when it came in after addMembers looked: only a role change or
\* a transfer does.
RolesKeptByAdd ==
    [][\A a \in Accounts :
         role[a] # "none" /\ role'[a] \notin {role[a], "none"} =>
           \E w \in Workers : /\ call[w].op \in {"transferLeadership", "updateMemberRole"}
                              /\ call'[w] = Idle]_vars

\* The operations that take the caller the right to kick, or give the target
\* a rank.
RankChanges == {"transferLeadership", "updateMemberRole", "kickMember", "leaveGroup"}

\* Someone who outranks a member is removed by the leader, by leaving, or by a
\* kick during which another handler has changed ranks.
DeputiesKickOnlyMembers ==
    [][\A a \in Accounts : role[a] \in {"DEPUTY", "LEADER"} /\ role'[a] = "none" =>
         \E w \in Workers :
           /\ call[w].pc = "write" /\ call'[w] = Idle
           /\ \/ role[call[w].actor] = "LEADER"
              \/ call[w].actor = a
              \/ call[w].op = "kickMember" /\ call[w].missed \cap RankChanges # {}]_vars

\* Disbanding freezes the group, but not at once: each handler in flight at
\* that moment may still change roles, one time, and no other does.
FrozenAfterDisband == after = 0 \/ after < Cardinality(Workers)
=============================================================================
