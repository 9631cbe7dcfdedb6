------------------------ MODULE GroupMembershipProofs ------------------------
(***************************************************************************)
(* Proofs about GroupMembership, for every set of accounts and any number  *)
(* of handlers in flight, also of one account.  The invariant says what a  *)
(* handler still knows of the roles it has read, as long as the operations *)
(* that could falsify it are not among those it has missed.                *)
(***************************************************************************)
EXTENDS GroupMembership, FiniteSetTheorems, TLAPS

-----------------------------------------------------------------------------
(* The inductive invariant.                                                *)

Missed(w, op) == op \in call[w].missed

\* Who the handler acts for and on: kickMember and transferLeadership have
\* refused the caller as the target.
CallerKnown(w) ==
    /\ call[w] # Idle => call[w].actor \in Accounts
    /\ call[w].op \in {"kickMember", "transferLeadership"}
         => call[w].target \in Accounts \ {call[w].actor}
    /\ call[w].op = "updateMemberRole" => call[w].target \in Accounts

\* The caller of addMembers is in the group unless it has been removed since.
AddKnows(w) ==
    /\ At(w, "addMembers", "existing?") \/ At(w, "addMembers", "write")
    /\ ~Missed(w, "leaveGroup") /\ ~Missed(w, "kickMember")
    => ActorRole(w) # "none"

\* The ranks that allow a kick are as they were read, unless others changed
\* ranks since; and the leader is not kicked, unless leadership was handed over.
KickKnows(w) ==
    /\ At(w, "kickMember", "target?") /\ call[w].missed \cap RankChanges = {}
         => ActorRole(w) = "DEPUTY"
    /\ At(w, "kickMember", "write") /\ call[w].missed \cap RankChanges = {}
         => ActorRole(w) = "LEADER" \/ TargetRole(w) = "MEMBER"
    /\ At(w, "kickMember", "write") /\ ~split /\ ~Missed(w, "transferLeadership")
         => TargetRole(w) # "LEADER"

\* Who leaves is not the leader or is alone, unless leadership was handed over
\* or members came in since.
LeaveKnows(w) ==
    /\ At(w, "leaveGroup", "write")
    /\ ~Missed(w, "transferLeadership") /\ ~Missed(w, "addMembers")
    => ActorRole(w) # "LEADER" \/ Participants \subseteq {call[w].actor}

\* While a transfer is in flight nobody else becomes the leader but through
\* another transfer.
TransferKnows(w) ==
    /\ At(w, "transferLeadership", "target?") \/ At(w, "transferLeadership", "write")
    /\ ~split /\ ~Missed(w, "transferLeadership")
    => Leaders \subseteq {call[w].actor}

\* The leader changes the role of somebody who is not the leader, or his own.
RoleKnows(w) ==
    /\ At(w, "updateMemberRole", "target?") \/ At(w, "updateMemberRole", "write")
    /\ ~split /\ ~Missed(w, "transferLeadership") /\ call[w].target # call[w].actor
    => TargetRole(w) # "LEADER"

Knows(w) == /\ CallerKnown(w) /\ AddKnows(w) /\ KickKnows(w) /\ LeaveKnows(w)
            /\ TransferKnows(w) /\ RoleKnows(w)

IInv == TypeOK /\ SplitOnlyByTransfers /\ \A w \in Workers : Knows(w)

-----------------------------------------------------------------------------
LEMMA IdleCall ==
    /\ Idle \in CallRecords
    /\ Idle.op = "none" /\ Idle.pc = "idle"
BY NoOneAssumption DEF Idle, CallRecords, PCs

\* A handler that has read nothing yet knows only whom it acts for.
LEMMA NothingRead ==
    ASSUME NEW w \in Workers, CallerKnown(w), call[w].pc \in {"idle", "actor?"}
    PROVE  Knows(w)
BY DEF Knows, AddKnows, KickKnows, LeaveKnows, TransferKnows, RoleKnows, At

LEMMA IdleKnows ==
    ASSUME NEW w \in Workers, call[w] = Idle
    PROVE  Knows(w)
BY IdleCall, NothingRead DEF CallerKnown

LEMMA InitIInv == Init => IInv
<1> SUFFICES ASSUME Init PROVE IInv
  OBVIOUS
<1>1. PICK creator \in Accounts, members \in SUBSET Accounts :
         role = [a \in Accounts |-> IF a = creator THEN "LEADER"
                                    ELSE IF a \in members THEN "MEMBER" ELSE "none"]
  BY DEF Init
<1>2. TypeOK
  BY <1>1, IdleCall DEF Init, TypeOK, Ranks
<1>3. SplitOnlyByTransfers
  BY <1>1 DEF SplitOnlyByTransfers, AtMostOneLeader, Leaders
<1>4. \A w \in Workers : Knows(w)
  BY IdleKnows DEF Init
<1> QED
  BY <1>2, <1>3, <1>4 DEF IInv

-----------------------------------------------------------------------------
(* Type correctness.                                                       *)

LEMMA GotoType ==
    ASSUME TypeOK, NEW w \in Workers, NEW pc \in PCs, Goto(w, pc)
    PROVE  /\ call' \in [Workers -> CallRecords]
           /\ call'[w] = [call[w] EXCEPT !.pc = pc]
           /\ \A v \in Workers \ {w} : call'[v] = call[v]
<1>1. call[w] \in CallRecords /\ call' = [call EXCEPT ![w] = [call[w] EXCEPT !.pc = pc]]
  BY DEF Goto, TypeOK
<1>2. [call[w] EXCEPT !.pc = pc] \in CallRecords
  BY <1>1 DEF CallRecords
<1> QED
  BY <1>1, <1>2 DEF TypeOK

LEMMA ReturnType ==
    ASSUME TypeOK, NEW w \in Workers, Return(w)
    PROVE  /\ call' \in [Workers -> CallRecords] /\ call'[w] = Idle
           /\ \A v \in Workers \ {w} : call'[v] = call[v]
BY IdleCall DEF Return, TypeOK

\* A committed handler is done, and the others have missed it.
LEMMA WriteType ==
    ASSUME TypeOK, NEW w \in Workers, NEW op \in AllCalls, NEW newRole,
           Write(w, op, newRole)
    PROVE  /\ call' \in [Workers -> CallRecords] /\ call'[w] = Idle
           /\ \A v \in Workers \ {w} :
                call'[v] = IF newRole = role THEN call[v] ELSE Overtaken(v, op)
           /\ after' \in Nat
<1>1. \A v \in Workers : Overtaken(v, op) \in CallRecords
  <2> SUFFICES ASSUME NEW v \in Workers PROVE Overtaken(v, op) \in CallRecords
    OBVIOUS
  <2>1. call[v] \in CallRecords
    BY DEF TypeOK
  <2>2. [call[v] EXCEPT !.missed = @ \union {op}] \in CallRecords
    BY <2>1 DEF CallRecords
  <2> QED
    BY <2>1, <2>2 DEF Overtaken
<1>2. /\ call'[w] = Idle
      /\ \A v \in Workers \ {w} :
                call'[v] = IF newRole = role THEN call[v] ELSE Overtaken(v, op)
  BY DEF Write
<1>3. call' \in [Workers -> CallRecords]
  BY <1>1, IdleCall DEF Write, TypeOK
<1>4. after' \in Nat
  BY DEF Write, TypeOK
<1> QED
  BY <1>2, <1>3, <1>4

LEMMA TypeStep == TypeOK /\ [Next]_vars => TypeOK'
<1> SUFFICES ASSUME TypeOK, [Next]_vars PROVE TypeOK'
  OBVIOUS
<1>1. ASSUME NEW w \in Workers, Begin(w)  PROVE TypeOK'
  <2>1. PICK op \in AllCalls, a \in Accounts, b \in Accounts \union {NoOne},
             rank \in {"MEMBER", "DEPUTY"}, users \in SUBSET Accounts :
               Start(w, op, a, b, rank, users)
    BY <1>1 DEF Begin, AllCalls
  <2>2. [op |-> op, pc |-> "actor?", actor |-> a, target |-> b,
         rank |-> rank, users |-> users, missed |-> {}] \in CallRecords
    BY DEF CallRecords, PCs
  <2> QED
    BY <2>1, <2>2 DEF Start, TypeOK, data
<1>2. ASSUME NEW w \in Workers, Crash(w)  PROVE TypeOK'
  BY <1>2, ReturnType DEF Crash, TypeOK, data
<1>3. ASSUME NEW w \in Workers,
             \/ AddCheckActor(w) \/ KickCheckActor(w) \/ KickCheckTarget(w)
             \/ LeaveCheckActor(w) \/ LeaveCheckAlone(w) \/ DisbandCheckActor(w)
             \/ TransferCheckActor(w) \/ TransferCheckTarget(w)
             \/ RoleCheckActor(w) \/ RoleCheckTarget(w)
      PROVE  TypeOK'
  <2>1. /\ (\E pc \in PCs : Goto(w, pc)) \/ Return(w)
        /\ UNCHANGED data
    BY <1>3 DEF AddCheckActor, KickCheckActor, KickCheckTarget, LeaveCheckActor,
       LeaveCheckAlone, DisbandCheckActor, TransferCheckActor, TransferCheckTarget,
       RoleCheckActor, RoleCheckTarget, PCs, Check
  <2> QED
    BY <2>1, GotoType, ReturnType DEF TypeOK, data
<1>4. ASSUME NEW w \in Workers, AddFindExisting(w)  PROVE TypeOK'
  <2> DEFINE newIds == call[w].users \ Participants
             r == [call[w] EXCEPT !.pc = "write", !.users = newIds]
  <2>1. call[w] \in CallRecords
    BY DEF TypeOK
  <2>2. r \in CallRecords
    BY <2>1 DEF CallRecords, PCs
  <2>3. CASE call' = [call EXCEPT ![w] = r]
    BY <1>4, <2>2, <2>3 DEF AddFindExisting, TypeOK, data
  <2>4. CASE Return(w)
    BY <1>4, <2>4, ReturnType DEF AddFindExisting, TypeOK, data
  <2> QED
    BY <1>4, <2>3, <2>4 DEF AddFindExisting
<1>5. ASSUME NEW w \in Workers,
             \/ AddMembers(w) \/ KickMember(w) \/ LeaveGroup(w) \/ DisbandGroup(w)
             \/ TransferLeadership(w) \/ UpdateMemberRole(w)
      PROVE  TypeOK'
  <2>1. call[w].rank \in Ranks
    BY DEF TypeOK, CallRecords, Ranks
  <2>2. \E op \in AllCalls, newRole \in [Accounts -> Ranks \union {"none"}] :
          Write(w, op, newRole) /\ role' = newRole
    <3>1. CASE AddMembers(w)
      BY <3>1 DEF AddMembers, Write, TypeOK, AllCalls, Ranks
    <3>2. CASE KickMember(w)
      BY <3>2 DEF KickMember, Write, TypeOK, AllCalls, Ranks
    <3>3. CASE LeaveGroup(w)
      BY <3>3 DEF LeaveGroup, Write, TypeOK, AllCalls, Ranks
    <3>4. CASE DisbandGroup(w)
      BY <3>4 DEF DisbandGroup, Write, TypeOK, AllCalls, Ranks
    <3>5. CASE TransferLeadership(w)
      BY <3>5 DEF TransferLeadership, Write, TypeOK, AllCalls, Ranks
    <3>6. CASE UpdateMemberRole(w)
      BY <2>1, <3>6 DEF UpdateMemberRole, Write, TypeOK, AllCalls, Ranks
    <3> QED
      BY <1>5, <3>1, <3>2, <3>3, <3>4, <3>5, <3>6
  <2>3. disbanded' \in BOOLEAN /\ split' \in BOOLEAN
    BY <1>5 DEF AddMembers, KickMember, LeaveGroup, DisbandGroup,
       TransferLeadership, UpdateMemberRole, TypeOK
  <2> QED
    BY <2>2, <2>3, WriteType DEF TypeOK
<1>6. CASE UNCHANGED vars
  BY <1>6 DEF vars, TypeOK
<1> QED
  BY <1>1, <1>2, <1>3, <1>4, <1>5, <1>6 DEF Next, Step

\* Roles, the disbanded flag and the call records keep their types.
THEOREM TypeCorrect == Spec => []TypeOK
<1>1. Init => TypeOK
  BY InitIInv DEF IInv
<1> QED
  BY <1>1, TypeStep, PTL DEF Spec

-----------------------------------------------------------------------------
(* What a handler knows outlasts the steps of the others.                  *)

\* What a change of roles by an operation can be, by its name.
ChangesAs(op) ==
    /\ op # "transferLeadership" => Leaders' \subseteq Leaders
    /\ op \notin {"leaveGroup", "kickMember"} => Participants \subseteq Participants'
    /\ op # "addMembers" => Participants' \subseteq Participants
    /\ op \notin RankChanges => \A a \in Participants : role'[a] = role[a]

LEMMA OvertakenKnows ==
    ASSUME TypeOK, NEW v \in Workers, Knows(v), NEW op \in AllCalls,
           call'[v] = Overtaken(v, op), split => split', ChangesAs(op)
    PROVE  Knows(v)'
<1>1. CASE call[v].pc \in {"idle", "actor?"}
  <2>1. call'[v] = call[v]
    BY <1>1 DEF Overtaken
  <2>2. CallerKnown(v)' /\ (call[v].pc \in {"idle", "actor?"})'
    BY <1>1, <2>1 DEF Knows, CallerKnown
  <2> QED
    BY <2>1, <2>2 DEF Knows, AddKnows, KickKnows, LeaveKnows, TransferKnows, RoleKnows, At
<1>2. CASE call[v].pc \notin {"idle", "actor?"}
  <2>1. /\ call'[v].pc = call[v].pc /\ call'[v].op = call[v].op
        /\ call'[v].actor = call[v].actor /\ call'[v].target = call[v].target
        /\ call'[v].missed = call[v].missed \union {op}
    <3>1. call[v] \in CallRecords /\ call'[v] = [call[v] EXCEPT !.missed = @ \union {op}]
      BY <1>2 DEF TypeOK, Overtaken
    <3> QED
      BY <3>1 DEF CallRecords
  <2>2. call[v] # Idle /\ call'[v] # Idle
    BY <1>2, <2>1, IdleCall
  <2>3. call[v].actor \in Accounts
    BY <2>2 DEF Knows, CallerKnown
  <2>4. \A a \in Accounts : /\ op # "transferLeadership" /\ role[a] # "LEADER" => role'[a] # "LEADER"
                            /\ op \notin {"leaveGroup", "kickMember"} /\ role[a] # "none"
                                 => role'[a] # "none"
                            /\ op # "addMembers" /\ role[a] = "none" => role'[a] = "none"
                            /\ op \notin RankChanges /\ role[a] # "none" => role'[a] = role[a]
    BY DEF ChangesAs, Leaders, Participants
  <2>5. CallerKnown(v)'
    BY <2>1, <2>2 DEF Knows, CallerKnown
  <2>6. AddKnows(v)'
    BY <2>1, <2>3, <2>4 DEF Knows, AddKnows, At, Missed, ActorRole
  <2>7. KickKnows(v)'
    <3>1. CASE call[v].op = "kickMember"
      <4>1. call[v].target \in Accounts
        BY <3>1 DEF Knows, CallerKnown
      <4> QED
        BY <2>1, <2>3, <2>4, <4>1 DEF Knows, KickKnows, At, Missed, ActorRole, TargetRole
    <3> QED
      BY <2>1, <3>1 DEF KickKnows, At
  <2>8. LeaveKnows(v)'
    BY <2>1, <2>3, <2>4 DEF Knows, LeaveKnows, At, Missed, ActorRole, Participants
  <2>9. TransferKnows(v)'
    BY <2>1 DEF Knows, TransferKnows, At, Missed, ChangesAs
  <2>10. RoleKnows(v)'
    <3>1. CASE call[v].op = "updateMemberRole"
      <4>1. call[v].target \in Accounts
        BY <3>1 DEF Knows, CallerKnown
      <4> QED
        BY <2>1, <2>3, <2>4, <4>1 DEF Knows, RoleKnows, At, Missed, ActorRole, TargetRole
    <3> QED
      BY <2>1, <3>1 DEF RoleKnows, At
  <2> QED
    BY <2>5, <2>6, <2>7, <2>8, <2>9, <2>10 DEF Knows
<1> QED
  BY <1>1, <1>2

\* A step that changes no roles and not the handler's record.
LEMMA UntouchedKnows ==
    ASSUME NEW v \in Workers, Knows(v), call'[v] = call[v], role' = role, split => split'
    PROVE  Knows(v)'
BY DEF Knows, CallerKnown, AddKnows, KickKnows, LeaveKnows, TransferKnows, RoleKnows,
   At, Missed, ActorRole, TargetRole, Participants, Leaders

-----------------------------------------------------------------------------
(* A handler that returns or commits.                                      *)

\* Each committed operation changes roles as its name allows.
LEMMA WriteShape ==
    ASSUME TypeOK, NEW w \in Workers, CallerKnown(w),
           \/ AddMembers(w) \/ KickMember(w) \/ LeaveGroup(w) \/ DisbandGroup(w)
           \/ TransferLeadership(w) \/ UpdateMemberRole(w)
    PROVE  /\ call[w].op \in AllCalls
           /\ Write(w, call[w].op, role') /\ ChangesAs(call[w].op)
           /\ split => split'
           /\ call[w].op # "transferLeadership" => split' = split
<1>1. CASE AddMembers(w)
  <2>1. At(w, "addMembers", "write") /\ Write(w, "addMembers", role')
    BY <1>1 DEF AddMembers, Write
  <2>2. \/ role' = role
        \/ /\ role' = [a \in Accounts |-> IF a \in call[w].users THEN "MEMBER" ELSE role[a]]
           /\ call[w].users \cap Participants = {}
    BY <1>1 DEF AddMembers, Write
  <2>3. ChangesAs("addMembers")
    BY <2>2 DEF ChangesAs, Leaders, Participants, TypeOK, RankChanges
  <2> QED
    BY <1>1, <2>1, <2>3 DEF AddMembers, At, AllCalls
<1>2. CASE KickMember(w)
  <2>1. At(w, "kickMember", "write") /\ Write(w, "kickMember", role')
        /\ role' = [role EXCEPT ![call[w].target] = "none"]
    BY <1>2 DEF KickMember, Write
  <2>2. ChangesAs("kickMember")
    BY <2>1 DEF ChangesAs, Leaders, Participants, TypeOK, RankChanges
  <2> QED
    BY <1>2, <2>1, <2>2 DEF KickMember, At, AllCalls
<1>3. CASE LeaveGroup(w)
  <2>1. At(w, "leaveGroup", "write") /\ Write(w, "leaveGroup", role')
        /\ role' = [role EXCEPT ![call[w].actor] = "none"]
    BY <1>3 DEF LeaveGroup, Write
  <2>2. ChangesAs("leaveGroup")
    BY <2>1 DEF ChangesAs, Leaders, Participants, TypeOK, RankChanges
  <2> QED
    BY <1>3, <2>1, <2>2 DEF LeaveGroup, At, AllCalls
<1>4. CASE DisbandGroup(w)
  <2>1. At(w, "disbandGroup", "write") /\ Write(w, "disbandGroup", role') /\ role' = role
    BY <1>4 DEF DisbandGroup, Write
  <2>2. ChangesAs("disbandGroup")
    BY <2>1 DEF ChangesAs, Leaders, Participants, TypeOK, RankChanges
  <2> QED
    BY <1>4, <2>1, <2>2 DEF DisbandGroup, At, AllCalls
<1>5. CASE TransferLeadership(w)
  <2>1. At(w, "transferLeadership", "write") /\ Write(w, "transferLeadership", role')
    BY <1>5 DEF TransferLeadership, Write
  <2>2. call[w].actor \in Accounts /\ call[w].target \in Accounts
    BY <2>1, IdleCall DEF CallerKnown, At
  <2>3. Participants' = Participants
    BY <1>5, <2>2 DEF TransferLeadership, Write, Participants, TypeOK, ActorRole, TargetRole
  <2>4. ChangesAs("transferLeadership")
    BY <2>3 DEF ChangesAs, RankChanges
  <2> QED
    BY <1>5, <2>1, <2>4 DEF TransferLeadership, At, AllCalls
<1>6. CASE UpdateMemberRole(w)
  <2>1. At(w, "updateMemberRole", "write") /\ Write(w, "updateMemberRole", role')
    BY <1>6 DEF UpdateMemberRole, Write
  <2>2. call[w].target \in Accounts /\ call[w].rank \in {"MEMBER", "DEPUTY"}
    BY <2>1 DEF CallerKnown, At, TypeOK, CallRecords
  <2>3. Participants' = Participants /\ Leaders' \subseteq Leaders
    BY <1>6, <2>2 DEF UpdateMemberRole, Write, Participants, Leaders, TypeOK, TargetRole
  <2>4. ChangesAs("updateMemberRole")
    BY <2>3 DEF ChangesAs, RankChanges
  <2> QED
    BY <1>6, <2>1, <2>4 DEF UpdateMemberRole, At, AllCalls
<1> QED
  BY <1>1, <1>2, <1>3, <1>4, <1>5, <1>6

\* Everyone still knows what it knew, after a handler has committed.
LEMMA WriteKnows ==
    ASSUME TypeOK, NEW w \in Workers, NEW op \in AllCalls, Write(w, op, role'),
           ChangesAs(op), split => split', \A v \in Workers : Knows(v)
    PROVE  \A v \in Workers : Knows(v)'
<1>1. Knows(w)'
  <2>1. call'[w] = Idle
    BY WriteType
  <2> QED
    BY <2>1, IdleCall DEF Knows, CallerKnown, AddKnows, KickKnows, LeaveKnows, TransferKnows,
       RoleKnows, At
<1>2. ASSUME NEW v \in Workers \ {w}  PROVE Knows(v)'
  <2>1. call'[v] = IF role' = role THEN call[v] ELSE Overtaken(v, op)
    BY WriteType
  <2> QED
    BY <2>1, OvertakenKnows, UntouchedKnows
<1> QED
  BY <1>1, <1>2

-----------------------------------------------------------------------------
(* A handler that starts or goes on from a check.                          *)

LEMMA BeginKnows ==
    ASSUME TypeOK, NEW w \in Workers, Begin(w), \A v \in Workers : Knows(v)
    PROVE  \A v \in Workers : Knows(v)'
<1>1. PICK op \in AllCalls, a \in Accounts, b \in Accounts \union {NoOne},
           rank \in {"MEMBER", "DEPUTY"}, users \in SUBSET Accounts :
             /\ Start(w, op, a, b, rank, users)
             /\ op \in {"kickMember", "transferLeadership"} => b \in Accounts \ {a}
             /\ op = "updateMemberRole" => b \in Accounts
  BY DEF Begin, AllCalls
<1> DEFINE r == [op |-> op, pc |-> "actor?", actor |-> a, target |-> b,
                 rank |-> rank, users |-> users, missed |-> {}]
<1>2. call'[w] = r /\ UNCHANGED data /\ \A v \in Workers \ {w} : call'[v] = call[v]
  BY <1>1 DEF Start, TypeOK
<1>3. r.pc = "actor?" /\ r.op = op /\ r.actor = a /\ r.target = b
  OBVIOUS
<1> HIDE DEF r
<1>4. Knows(w)'
  BY <1>1, <1>2, <1>3 DEF Knows, CallerKnown, AddKnows, KickKnows, LeaveKnows,
     TransferKnows, RoleKnows, At
<1>5. \A v \in Workers \ {w} : Knows(v)'
  BY <1>2, UntouchedKnows DEF data
<1> QED
  BY <1>4, <1>5

LEMMA ReturnKnows ==
    ASSUME TypeOK, NEW w \in Workers, Return(w), UNCHANGED data, \A v \in Workers : Knows(v)
    PROVE  \A v \in Workers : Knows(v)'
<1>1. call'[w] = Idle /\ \A v \in Workers \ {w} : call'[v] = call[v]
  BY ReturnType
<1>2. Knows(w)'
  BY <1>1, IdleCall DEF Knows, CallerKnown, AddKnows, KickKnows, LeaveKnows, TransferKnows,
     RoleKnows, At
<1> QED
  BY <1>1, <1>2, UntouchedKnows DEF data

\* What the check of a handler that goes on has read.
Checked(w, pc) ==
    \/ At(w, "addMembers", "actor?") /\ pc = "existing?" /\ ActorRole(w) # "none"
    \/ At(w, "addMembers", "existing?") /\ pc = "write"
    \/ At(w, "kickMember", "actor?") /\ pc = "target?" /\ ActorRole(w) = "DEPUTY"
    \/ At(w, "kickMember", "actor?") /\ pc = "write" /\ ActorRole(w) = "LEADER"
    \/ At(w, "kickMember", "target?") /\ pc = "write" /\ TargetRole(w) = "MEMBER"
    \/ At(w, "leaveGroup", "actor?") /\ pc = "others?"
    \/ At(w, "leaveGroup", "actor?") /\ pc = "write" /\ ActorRole(w) # "LEADER"
    \/ At(w, "leaveGroup", "others?") /\ pc = "write" /\ Participants \subseteq {call[w].actor}
    \/ At(w, "disbandGroup", "actor?") /\ pc = "write"
    \/ At(w, "transferLeadership", "actor?") /\ pc = "target?" /\ ActorRole(w) = "LEADER"
    \/ At(w, "transferLeadership", "target?") /\ pc = "write"
    \/ At(w, "updateMemberRole", "actor?") /\ pc = "target?" /\ ActorRole(w) = "LEADER"
    \/ At(w, "updateMemberRole", "target?") /\ pc = "write"

LEMMA CheckKnows ==
    ASSUME IInv, NEW w \in Workers, NEW pc, Checked(w, pc), UNCHANGED data,
           call'[w].pc = pc, call'[w].op = call[w].op, call'[w].actor = call[w].actor,
           call'[w].target = call[w].target, call'[w].missed = call[w].missed,
           \A v \in Workers \ {w} : call'[v] = call[v]
    PROVE  \A v \in Workers : Knows(v)'
<1> USE DEF Missed
<1>1. \A v \in Workers \ {w} : Knows(v)'
  BY UntouchedKnows DEF data, IInv
<1>2. /\ ActorRole(w)' = ActorRole(w) /\ TargetRole(w)' = TargetRole(w)
      /\ Participants' = Participants /\ Leaders' = Leaders /\ split' = split
  BY DEF data, ActorRole, TargetRole, Participants, Leaders
<1>3. call[w] # Idle /\ Knows(w)
  BY IdleCall DEF Checked, At, IInv
<1>4. call[w].actor \in Accounts
  BY <1>3 DEF Knows, CallerKnown
<1>5. ActorRole(w) = "LEADER" /\ ~split => Leaders \subseteq {call[w].actor}
  BY <1>4 DEF IInv, SplitOnlyByTransfers, AtMostOneLeader, ActorRole, Leaders
<1>6. CallerKnown(w)'
  BY <1>3, <1>4 DEF Knows, CallerKnown
<1>7. AddKnows(w)'
  BY <1>2, <1>3 DEF Knows, AddKnows, Checked, At
<1>8. KickKnows(w)'
  <2>1. call[w].op = "kickMember" => call[w].target \in Accounts \ {call[w].actor}
    BY <1>3 DEF Knows, CallerKnown
  <2>2. call[w].op = "kickMember" /\ ActorRole(w) = "LEADER" /\ ~split
           => TargetRole(w) # "LEADER"
    BY <1>5, <2>1 DEF TargetRole, Leaders
  <2> QED
    BY <1>2, <1>3, <2>2 DEF Knows, KickKnows, Checked, At
<1>9. LeaveKnows(w)'
  BY <1>2, <1>3 DEF Knows, LeaveKnows, Checked, At
<1>10. TransferKnows(w)'
  BY <1>2, <1>3, <1>5 DEF Knows, TransferKnows, Checked, At
<1>11. RoleKnows(w)'
  <2>1. call[w].op = "updateMemberRole" => call[w].target \in Accounts
    BY <1>3 DEF Knows, CallerKnown
  <2>2. call[w].op = "updateMemberRole" /\ ActorRole(w) = "LEADER" /\ ~split
           => (call[w].target # call[w].actor => TargetRole(w) # "LEADER")
    BY <1>5, <2>1 DEF TargetRole, Leaders
  <2> QED
    BY <1>2, <1>3, <2>2 DEF Knows, RoleKnows, Checked, At
<1>12. Knows(w)'
  BY <1>6, <1>7, <1>8, <1>9, <1>10, <1>11 DEF Knows
<1> QED
  BY <1>1, <1>12

\* A check lets the handler go on, or ends it.
LEMMA CheckShape ==
    ASSUME TypeOK, NEW w \in Workers, CallerKnown(w), call[w] # Idle,
           \/ AddCheckActor(w) \/ AddFindExisting(w) \/ KickCheckActor(w) \/ KickCheckTarget(w)
           \/ LeaveCheckActor(w) \/ LeaveCheckAlone(w) \/ DisbandCheckActor(w)
           \/ TransferCheckActor(w) \/ TransferCheckTarget(w)
           \/ RoleCheckActor(w) \/ RoleCheckTarget(w)
    PROVE  /\ UNCHANGED data
           /\ \/ Return(w)
              \/ \E pc : /\ Checked(w, pc) /\ call'[w].pc = pc /\ call'[w].op = call[w].op
                         /\ call'[w].actor = call[w].actor /\ call'[w].target = call[w].target
                         /\ call'[w].missed = call[w].missed
                         /\ \A v \in Workers \ {w} : call'[v] = call[v]
<1>1. call[w] \in CallRecords
  BY DEF TypeOK
<1>2. CASE AddFindExisting(w)
  <2> DEFINE r == [call[w] EXCEPT !.pc = "write", !.users = call[w].users \ Participants]
  <2>1. r.pc = "write" /\ r.op = call[w].op /\ r.actor = call[w].actor
        /\ r.target = call[w].target /\ r.missed = call[w].missed
    BY <1>1 DEF CallRecords
  <2>2. Return(w) \/ call' = [call EXCEPT ![w] = r]
    BY <1>2 DEF AddFindExisting
  <2> HIDE DEF r
  <2>3. CASE call' = [call EXCEPT ![w] = r]
    <3>1. call'[w] = r /\ \A v \in Workers \ {w} : call'[v] = call[v]
      BY <2>3 DEF TypeOK
    <3> QED
      BY <1>2, <2>1, <3>1 DEF AddFindExisting, Checked
  <2> QED
    BY <1>2, <2>2, <2>3 DEF AddFindExisting
<1>3. CASE ~AddFindExisting(w)
  <2>1. UNCHANGED data /\ (Return(w) \/ \E pc : Goto(w, pc) /\ Checked(w, pc))
    BY <1>3 DEF AddCheckActor, KickCheckActor, KickCheckTarget, LeaveCheckActor,
       LeaveCheckAlone, DisbandCheckActor, TransferCheckActor, TransferCheckTarget,
       RoleCheckActor, RoleCheckTarget, Check, Checked
  <2>2. ASSUME NEW pc, Goto(w, pc)
        PROVE  /\ call'[w].pc = pc /\ call'[w].op = call[w].op
               /\ call'[w].actor = call[w].actor /\ call'[w].target = call[w].target
               /\ call'[w].missed = call[w].missed
               /\ \A v \in Workers \ {w} : call'[v] = call[v]
    <3>1. call'[w] = [call[w] EXCEPT !.pc = pc] /\ \A v \in Workers \ {w} : call'[v] = call[v]
      BY <2>2 DEF Goto, TypeOK
    <3> QED
      BY <1>1, <3>1 DEF CallRecords
  <2> QED
    BY <2>1, <2>2
<1> QED
  BY <1>2, <1>3

-----------------------------------------------------------------------------
(* The invariant holds.                                                    *)

\* The group keeps at most one leader unless it is split: the swap of a
\* transfer that no other has overtaken demotes the only leader there is.
LEMMA WriteSplit ==
    ASSUME IInv, NEW w \in Workers,
           \/ AddMembers(w) \/ KickMember(w) \/ LeaveGroup(w) \/ DisbandGroup(w)
           \/ TransferLeadership(w) \/ UpdateMemberRole(w)
    PROVE  SplitOnlyByTransfers'
<1>1. TypeOK /\ Knows(w)
  BY DEF IInv
<1>2. CASE TransferLeadership(w)
  <2>1. CASE split \/ Missed(w, "transferLeadership")
    BY <1>2, <2>1 DEF TransferLeadership, SplitOnlyByTransfers, Missed
  <2>2. CASE ~split /\ ~Missed(w, "transferLeadership")
    <3>1. Leaders \subseteq {call[w].actor}
      BY <1>1, <1>2, <2>2 DEF TransferLeadership, Write, Knows, TransferKnows
    <3>2. Leaders' \subseteq {call[w].target} \/ Leaders' = Leaders
      BY <1>1, <1>2, <3>1 DEF TransferLeadership, Write, Leaders, TypeOK
    <3> QED
      BY <2>2, <3>2 DEF IInv, SplitOnlyByTransfers, AtMostOneLeader
  <2> QED
    BY <2>1, <2>2
<1>3. CASE ~TransferLeadership(w)
  <2>1. split' = split /\ Leaders' \subseteq Leaders
    <3>1. call[w].op # "transferLeadership"
      BY <1>3 DEF AddMembers, KickMember, LeaveGroup, DisbandGroup, UpdateMemberRole, Write, At
    <3> QED
      BY <1>1, <3>1, WriteShape DEF ChangesAs, Knows
  <2> QED
    BY <2>1 DEF IInv, SplitOnlyByTransfers, AtMostOneLeader
<1> QED
  BY <1>2, <1>3

LEMMA IInvStep == IInv /\ [Next]_vars => IInv'
<1> SUFFICES ASSUME IInv, [Next]_vars PROVE IInv'
  OBVIOUS
<1>0. TypeOK /\ TypeOK' /\ \A v \in Workers : Knows(v) /\ CallerKnown(v)
  BY TypeStep DEF IInv, Knows
<1>1. ASSUME NEW w \in Workers,
             \/ AddMembers(w) \/ KickMember(w) \/ LeaveGroup(w) \/ DisbandGroup(w)
             \/ TransferLeadership(w) \/ UpdateMemberRole(w)
      PROVE  IInv'
  <2>1. /\ call[w].op \in AllCalls /\ Write(w, call[w].op, role') /\ ChangesAs(call[w].op)
        /\ split => split'
    BY <1>0, <1>1, WriteShape
  <2>2. \A v \in Workers : Knows(v)'
    BY <1>0, <2>1, WriteKnows
  <2> QED
    BY <1>0, <1>1, <2>2, WriteSplit DEF IInv
<1>2. ASSUME UNCHANGED data, \A v \in Workers : Knows(v)'
      PROVE  IInv'
  BY <1>0, <1>2 DEF IInv, data, SplitOnlyByTransfers, AtMostOneLeader, Leaders
<1>3. ASSUME NEW w \in Workers, Begin(w)  PROVE IInv'
  BY <1>0, <1>2, <1>3, BeginKnows DEF Begin, Start
<1>4. ASSUME NEW w \in Workers, Crash(w)  PROVE IInv'
  BY <1>0, <1>2, <1>4, ReturnKnows DEF Crash
<1>5. ASSUME NEW w \in Workers,
             \/ AddCheckActor(w) \/ AddFindExisting(w) \/ KickCheckActor(w)
             \/ KickCheckTarget(w) \/ LeaveCheckActor(w) \/ LeaveCheckAlone(w)
             \/ DisbandCheckActor(w) \/ TransferCheckActor(w) \/ TransferCheckTarget(w)
             \/ RoleCheckActor(w) \/ RoleCheckTarget(w)
      PROVE  IInv'
  <2>1. call[w] # Idle
    BY <1>5, IdleCall DEF AddCheckActor, AddFindExisting, KickCheckActor, KickCheckTarget,
       LeaveCheckActor, LeaveCheckAlone, DisbandCheckActor, TransferCheckActor,
       TransferCheckTarget, RoleCheckActor, RoleCheckTarget, At
  <2>2. UNCHANGED data /\ \A v \in Workers : Knows(v)'
    BY <1>0, <1>5, <2>1, CheckShape, CheckKnows, ReturnKnows
  <2> QED
    BY <1>2, <2>2
<1>6. CASE UNCHANGED vars
  BY <1>0, <1>2, <1>6, UntouchedKnows DEF vars, data
<1> QED
  BY <1>1, <1>3, <1>4, <1>5, <1>6 DEF Next, Step

LEMMA IInvHolds == Spec => []IInv
BY InitIInv, IInvStep, PTL DEF Spec

\* A group never gets a second leader but by a transfer that another transfer
\* has overtaken, whoever calls what and however often.
THEOREM LeadershipSplit == Spec => []SplitOnlyByTransfers
<1>1. IInv => SplitOnlyByTransfers
  BY DEF IInv
<1> QED
  BY <1>1, IInvHolds, PTL

-----------------------------------------------------------------------------
(* What the steps may do to the roles.                                     *)

\* Nothing but the last step of a handler changes roles or disbands.
LEMMA OnlyWrites ==
    ASSUME IInv, NEW w \in Workers, Begin(w) \/ Step(w) \/ Crash(w),
           ~UNCHANGED <<role, disbanded>>
    PROVE  /\ call[w].op \in AllCalls /\ At(w, call[w].op, "write") /\ call'[w] = Idle
           /\ \/ AddMembers(w) \/ KickMember(w) \/ LeaveGroup(w) \/ DisbandGroup(w)
              \/ TransferLeadership(w) \/ UpdateMemberRole(w)
<1>1. \/ AddMembers(w) \/ KickMember(w) \/ LeaveGroup(w) \/ DisbandGroup(w)
      \/ TransferLeadership(w) \/ UpdateMemberRole(w)
  BY DEF Begin, Start, Step, Crash, Check, AddCheckActor, AddFindExisting, KickCheckActor,
     KickCheckTarget, LeaveCheckActor, LeaveCheckAlone, DisbandCheckActor,
     TransferCheckActor, TransferCheckTarget, RoleCheckActor, RoleCheckTarget, data
<1>2. TypeOK /\ CallerKnown(w)
  BY DEF IInv, Knows
<1>3. call[w].op \in AllCalls /\ Write(w, call[w].op, role')
  BY <1>1, <1>2, WriteShape
<1> QED
  BY <1>1, <1>2, <1>3, WriteType DEF Write

\* A step that gives a participant another role is the last one of a transfer
\* or a role update: createMany inserts the rows that are missing or none.
THEOREM AddKeepsRoles == Spec => RolesKeptByAdd
<1> DEFINE Kept == \A a \in Accounts :
                     role[a] # "none" /\ role'[a] \notin {role[a], "none"} =>
                       \E w \in Workers :
                         /\ call[w].op \in {"transferLeadership", "updateMemberRole"}
                         /\ call'[w] = Idle
<1>1. IInv /\ [Next]_vars => [Kept]_vars
  <2> SUFFICES ASSUME IInv, Next, NEW a \in Accounts,
                      role[a] # "none", role'[a] \notin {role[a], "none"}
               PROVE  \E w \in Workers :
                        /\ call[w].op \in {"transferLeadership", "updateMemberRole"}
                        /\ call'[w] = Idle
    OBVIOUS
  <2>1. PICK w \in Workers : Begin(w) \/ Step(w) \/ Crash(w)
    BY DEF Next
  <2>2. TypeOK /\ role' # role
    BY DEF IInv
  <2>3. /\ call'[w] = Idle
        /\ \/ AddMembers(w) \/ KickMember(w) \/ LeaveGroup(w) \/ DisbandGroup(w)
           \/ TransferLeadership(w) \/ UpdateMemberRole(w)
    BY <2>1, <2>2, OnlyWrites
  <2>4. CASE AddMembers(w)
    BY <2>2, <2>4 DEF AddMembers, Write, Participants
  <2>5. CASE KickMember(w) \/ LeaveGroup(w) \/ DisbandGroup(w)
    BY <2>2, <2>5 DEF KickMember, LeaveGroup, DisbandGroup, Write, TypeOK
  <2>6. CASE TransferLeadership(w) \/ UpdateMemberRole(w)
    BY <2>3, <2>6 DEF TransferLeadership, UpdateMemberRole, Write, At
  <2> QED
    BY <2>3, <2>4, <2>5, <2>6
<1>2. Spec => [][Kept]_vars
  BY <1>1, IInvHolds, PTL DEF Spec
<1> QED
  BY <1>2 DEF RolesKeptByAdd

\* A kick removes someone of rank only if its caller is the leader, or ranks
\* have changed while it was in flight: otherwise the caller is still what it
\* was, and a deputy's target still a member.
THEOREM DeputiesKickMembers == Spec => DeputiesKickOnlyMembers
<1> DEFINE Rightly ==
             \A a \in Accounts : role[a] \in {"DEPUTY", "LEADER"} /\ role'[a] = "none" =>
               \E w \in Workers :
                 /\ call[w].pc = "write" /\ call'[w] = Idle
                 /\ \/ role[call[w].actor] = "LEADER"
                    \/ call[w].actor = a
                    \/ call[w].op = "kickMember" /\ call[w].missed \cap RankChanges # {}
<1>1. IInv /\ [Next]_vars => [Rightly]_vars
  <2> SUFFICES ASSUME IInv, Next, NEW a \in Accounts,
                      role[a] \in {"DEPUTY", "LEADER"}, role'[a] = "none"
               PROVE  \E w \in Workers :
                        /\ call[w].pc = "write" /\ call'[w] = Idle
                        /\ \/ role[call[w].actor] = "LEADER"
                           \/ call[w].actor = a
                           \/ call[w].op = "kickMember" /\ call[w].missed \cap RankChanges # {}
    OBVIOUS
  <2>1. PICK w \in Workers : Begin(w) \/ Step(w) \/ Crash(w)
    BY DEF Next
  <2>2. /\ call[w].pc = "write" /\ call'[w] = Idle
        /\ \/ AddMembers(w) \/ KickMember(w) \/ LeaveGroup(w) \/ DisbandGroup(w)
           \/ TransferLeadership(w) \/ UpdateMemberRole(w)
    BY <2>1, OnlyWrites DEF At
  <2>3. TypeOK /\ Knows(w) /\ role' # role
    BY DEF IInv
  <2>4. CASE KickMember(w)
    <3>1. a = call[w].target /\ At(w, "kickMember", "write")
      BY <2>3, <2>4 DEF KickMember, Write, TypeOK
    <3>2. call[w].missed \cap RankChanges = {} => role[call[w].actor] = "LEADER"
      BY <2>3, <3>1 DEF Knows, KickKnows, TargetRole, ActorRole
    <3> QED
      BY <2>2, <3>1, <3>2 DEF At
  <2>5. CASE LeaveGroup(w)
    BY <2>2, <2>3, <2>5 DEF LeaveGroup, Write, TypeOK
  <2>6. CASE AddMembers(w) \/ DisbandGroup(w)
    BY <2>6 DEF AddMembers, DisbandGroup, Write
  <2>7. CASE TransferLeadership(w)
    BY <2>3, <2>7 DEF TransferLeadership, Write, TypeOK
  <2>8. CASE UpdateMemberRole(w)
    <3>1. call[w].rank # "none"
      BY <2>3 DEF TypeOK, CallRecords
    <3> QED
      BY <2>3, <2>8, <3>1 DEF UpdateMemberRole, Write, TypeOK
  <2> QED
    BY <2>2, <2>4, <2>5, <2>6, <2>7, <2>8
<1>2. Spec => [][Rightly]_vars
  BY <1>1, IInvHolds, PTL DEF Spec
<1> QED
  BY <1>2 DEF DeputiesKickOnlyMembers

\* The write of a handler leaves a leader to the participants that stay, or is
\* one of those that may take the leader.
LEMMA LeaderStays ==
    ASSUME IInv, NEW w \in Workers, ~split, HasLeader, call'[w] = Idle,
           \/ AddMembers(w) \/ KickMember(w) \/ LeaveGroup(w) \/ DisbandGroup(w)
           \/ TransferLeadership(w) \/ UpdateMemberRole(w)
    PROVE  HasLeader' \/ TakesLeader(w)
<1>0. TypeOK /\ Knows(w) /\ CallerKnown(w)
  BY DEF IInv, Knows
<1>1. CASE DisbandGroup(w)
  BY <1>1 DEF DisbandGroup, HasLeader
<1>2. CASE TransferLeadership(w)
  <2>1. call[w].target \in Accounts
    BY <1>0, <1>2 DEF TransferLeadership, Write, At, CallerKnown
  <2>2. (role' = role /\ disbanded' = disbanded) \/ call[w].target \in Leaders'
    BY <1>0, <1>2, <2>1 DEF TransferLeadership, Write, TypeOK, Leaders
  <2> QED
    BY <2>2 DEF HasLeader, Participants, Leaders
<1> SUFFICES ASSUME ~TransferLeadership(w), ~DisbandGroup(w), ~TakesLeader(w),
                    ~disbanded', Participants' # {}
             PROVE  \E a \in Accounts : role'[a] = "LEADER"
  BY <1>1, <1>2 DEF HasLeader, Leaders
<1>3. ~disbanded
  BY DEF AddMembers, KickMember, LeaveGroup, UpdateMemberRole
<1>4. CASE AddMembers(w)
  <2>1. At(w, "addMembers", "write")
    BY <1>4 DEF AddMembers, Write
  <2>2. call[w].actor \in Participants
    BY <1>0, <2>1, IdleCall DEF Knows, CallerKnown, AddKnows, ActorRole, Missed, TakesLeader,
       Participants, At
  <2>3. PICK a \in Accounts : role[a] = "LEADER"
    BY <1>3, <2>2 DEF HasLeader, Leaders
  <2>4. role'[a] = role[a]
    BY <1>4, <2>3 DEF AddMembers, Write, Participants
  <2> QED
    BY <2>3, <2>4
<1>5. CASE KickMember(w)
  <2>1. At(w, "kickMember", "write") /\ role' = [role EXCEPT ![call[w].target] = "none"]
    BY <1>5 DEF KickMember, Write
  <2>2. TargetRole(w) # "LEADER"
    BY <1>0, <2>1 DEF Knows, KickKnows, Missed, TakesLeader, At
  <2>3. Participants # {}
    BY <1>0, <2>1 DEF Participants, TypeOK
  <2>4. PICK a \in Accounts : role[a] = "LEADER"
    BY <1>3, <2>3 DEF HasLeader, Leaders
  <2> QED
    BY <1>0, <2>1, <2>2, <2>4 DEF TargetRole, TypeOK
<1>6. CASE LeaveGroup(w)
  <2>1. At(w, "leaveGroup", "write") /\ role' = [role EXCEPT ![call[w].actor] = "none"]
    BY <1>6 DEF LeaveGroup, Write
  <2>2. ActorRole(w) # "LEADER" \/ Participants \subseteq {call[w].actor}
    BY <1>0, <2>1 DEF Knows, LeaveKnows, Missed, TakesLeader, At
  <2>3. ~(Participants \subseteq {call[w].actor})
    BY <1>0, <2>1 DEF Participants, TypeOK
  <2>4. PICK a \in Accounts : role[a] = "LEADER"
    BY <1>3, <2>3 DEF HasLeader, Leaders
  <2> QED
    BY <1>0, <2>1, <2>2, <2>3, <2>4 DEF ActorRole, TypeOK
<1>7. CASE UpdateMemberRole(w)
  <2>1. At(w, "updateMemberRole", "write") /\ call[w].target # call[w].actor
    BY <1>7 DEF UpdateMemberRole, Write, TakesLeader, At
  <2>2. TargetRole(w) # "LEADER" /\ call[w].target \in Accounts
    BY <1>0, <2>1 DEF Knows, RoleKnows, CallerKnown, Missed, TakesLeader, At
  <2>3. Participants # {}
    BY <1>0, <1>7, <2>2 DEF UpdateMemberRole, Write, Participants, TypeOK, TargetRole
  <2>4. PICK a \in Accounts : role[a] = "LEADER"
    BY <1>3, <2>3 DEF HasLeader, Leaders
  <2> QED
    BY <1>0, <1>7, <2>2, <2>4 DEF UpdateMemberRole, Write, TargetRole, TypeOK
<1> QED
  BY <1>1, <1>2, <1>4, <1>5, <1>6, <1>7

\* A group whose leadership was never split keeps its leader but for the
\* leader's own demotion and the overtaken handlers that TakesLeader names.
THEOREM LastLeaderKept == Spec => LeaderKept
<1> DEFINE Kept == ~split /\ HasLeader => HasLeader' \/ \E w \in Workers : TakesLeader(w)
<1>1. IInv /\ [Next]_vars => [Kept]_vars
  <2> SUFFICES ASSUME IInv, Next, ~split, HasLeader
               PROVE  HasLeader' \/ \E w \in Workers : TakesLeader(w)
    OBVIOUS
  <2>1. PICK w \in Workers : Begin(w) \/ Step(w) \/ Crash(w)
    BY DEF Next
  <2>2. CASE UNCHANGED <<role, disbanded>>
    BY <2>2 DEF HasLeader, Participants, Leaders
  <2>3. CASE ~UNCHANGED <<role, disbanded>>
    BY <2>1, <2>3, OnlyWrites, LeaderStays
  <2> QED
    BY <2>2, <2>3
<1>2. Spec => [][Kept]_vars
  BY <1>1, IInvHolds, PTL DEF Spec
<1> QED
  BY <1>2 DEF LeaderKept

-----------------------------------------------------------------------------
(* Disbanding: the handlers in flight and the writes they have made.       *)

InFlight == {w \in Workers : call[w] # Idle}

\* A handler in flight when the group is disbanded writes at most once, and
\* the one that disbanded it is done.
LateWrites ==
    /\ ~disbanded => after = 0
    /\ disbanded => after + Cardinality(InFlight) < Cardinality(Workers)

LEMMA InFlightFinite ==
    /\ InFlight \in SUBSET Workers /\ IsFiniteSet(InFlight) /\ Cardinality(InFlight) \in Nat
    /\ Cardinality(Workers) \in Nat
    /\ \A S \in SUBSET InFlight : Cardinality(S) \in Nat /\ Cardinality(S) <= Cardinality(InFlight)
    /\ \A w \in Workers : Cardinality(Workers \ {w}) = Cardinality(Workers) - 1
    /\ \A w \in InFlight : Cardinality(InFlight \ {w}) = Cardinality(InFlight) - 1
<1>1. InFlight \in SUBSET Workers /\ IsFiniteSet(InFlight)
  BY WorkersAssumption, FS_Subset DEF InFlight
<1> QED
  BY <1>1, WorkersAssumption, FS_Subset, FS_CardinalityType, FS_RemoveElement

\* Nobody joins the handlers in flight but through Start.
LEMMA NobodyJoins ==
    ASSUME TypeOK, NEW w \in Workers, Step(w) \/ Crash(w)
    PROVE  /\ w \in InFlight /\ InFlight' \subseteq InFlight
           /\ call'[w] = Idle => InFlight' \subseteq InFlight \ {w}
<1>1. call[w] # Idle
  BY IdleCall DEF Step, Crash, At, AddCheckActor, AddFindExisting, AddMembers, KickCheckActor,
     KickCheckTarget, KickMember, LeaveCheckActor, LeaveCheckAlone, LeaveGroup,
     DisbandCheckActor, DisbandGroup, TransferCheckActor, TransferCheckTarget,
     TransferLeadership, RoleCheckActor, RoleCheckTarget, UpdateMemberRole, Write
<1>2. \A v \in Workers \ {w} : call'[v] = call[v] \/ \E op : call'[v] = Overtaken(v, op)
  BY DEF Step, Crash, Check, Goto, Return, AddCheckActor, AddFindExisting, AddMembers,
     KickCheckActor, KickCheckTarget, KickMember, LeaveCheckActor, LeaveCheckAlone, LeaveGroup,
     DisbandCheckActor, DisbandGroup, TransferCheckActor, TransferCheckTarget,
     TransferLeadership, RoleCheckActor, RoleCheckTarget, UpdateMemberRole, Write, TypeOK
<1>3. \A v \in Workers \ {w} : call[v] = Idle => call'[v] = Idle
  BY <1>2, IdleCall DEF Overtaken
<1> QED
  BY <1>1, <1>3 DEF InFlight

LEMMA LateWritesStep == IInv /\ LateWrites /\ [Next]_vars => LateWrites'
<1> SUFFICES ASSUME IInv, LateWrites, [Next]_vars PROVE LateWrites'
  OBVIOUS
<1>0. TypeOK /\ after \in Nat
  BY DEF IInv, TypeOK
<1>1. CASE UNCHANGED vars
  BY <1>1 DEF vars, LateWrites, InFlight
<1>2. ASSUME NEW w \in Workers, Begin(w)  PROVE LateWrites'
  BY <1>2 DEF Begin, Start, data, LateWrites
<1>3. ASSUME NEW w \in Workers, Step(w) \/ Crash(w), UNCHANGED data  PROVE LateWrites'
  <2>1. InFlight' \subseteq InFlight
    BY <1>0, <1>3, NobodyJoins
  <2>2. Cardinality(InFlight') <= Cardinality(InFlight) /\ Cardinality(InFlight') \in Nat
    BY <2>1, InFlightFinite
  <2> QED
    BY <1>0, <1>3, <2>2, InFlightFinite DEF data, LateWrites
<1>4. ASSUME NEW w \in Workers, Step(w),
             \/ AddMembers(w) \/ KickMember(w) \/ LeaveGroup(w) \/ DisbandGroup(w)
             \/ TransferLeadership(w) \/ UpdateMemberRole(w)
      PROVE  LateWrites'
  <2>1. Write(w, call[w].op, role') /\ call[w].op \in AllCalls
    BY <1>0, <1>4, WriteShape DEF IInv, Knows
  <2>2. call'[w] = Idle
    BY <1>0, <2>1, WriteType
  <2>3. w \in InFlight /\ InFlight' \subseteq InFlight \ {w}
    BY <1>0, <1>4, <2>2, NobodyJoins
  <2>4. /\ Cardinality(InFlight') \in Nat
        /\ Cardinality(InFlight') <= Cardinality(InFlight) - 1
        /\ Cardinality(InFlight') <= Cardinality(Workers) - 1
    <3>1. IsFiniteSet(InFlight \ {w}) /\ IsFiniteSet(Workers \ {w})
          /\ InFlight' \subseteq Workers \ {w}
      BY <2>3, InFlightFinite, WorkersAssumption, FS_Subset DEF InFlight
    <3>2. /\ Cardinality(InFlight') <= Cardinality(InFlight \ {w})
          /\ Cardinality(InFlight') <= Cardinality(Workers \ {w})
          /\ IsFiniteSet(InFlight')
      BY <2>3, <3>1, FS_Subset
    <3> QED
      BY <2>3, <3>2, InFlightFinite, FS_CardinalityType
  <2>5. after' = (IF disbanded /\ role' # role THEN after + 1 ELSE after)
    BY <2>1 DEF Write
  <2>6. CASE disbanded
    <3>1. disbanded' = TRUE
      BY <1>4, <2>6 DEF AddMembers, KickMember, LeaveGroup, DisbandGroup,
         TransferLeadership, UpdateMemberRole
    <3> QED
      BY <1>0, <2>4, <2>5, <2>6, <3>1, InFlightFinite DEF LateWrites
  <2>7. CASE ~disbanded
    BY <1>0, <2>4, <2>5, <2>7, InFlightFinite DEF LateWrites
  <2> QED
    BY <2>6, <2>7
<1>5. ASSUME NEW w \in Workers, Step(w) \/ Crash(w)  PROVE LateWrites'
  <2>1. \/ UNCHANGED data
        \/ Step(w) /\ (\/ AddMembers(w) \/ KickMember(w) \/ LeaveGroup(w) \/ DisbandGroup(w)
                       \/ TransferLeadership(w) \/ UpdateMemberRole(w))
    BY <1>5 DEF Step, Crash, Check, AddCheckActor, AddFindExisting, KickCheckActor,
       KickCheckTarget, LeaveCheckActor, LeaveCheckAlone, DisbandCheckActor,
       TransferCheckActor, TransferCheckTarget, RoleCheckActor, RoleCheckTarget
  <2> QED
    BY <1>3, <1>4, <1>5, <2>1
<1> QED
  BY <1>1, <1>2, <1>5 DEF Next

\* After a group is disbanded its roles change at most once for each handler
\* that was in flight besides the one that disbanded it.
THEOREM DisbandedFrozen == Spec => []FrozenAfterDisband
<1>1. Init => LateWrites
  BY DEF Init, LateWrites
<1>2. IInv /\ LateWrites => FrozenAfterDisband
  <2> SUFFICES ASSUME IInv, LateWrites PROVE FrozenAfterDisband
    OBVIOUS
  <2>1. after \in Nat /\ Cardinality(InFlight) \in Nat /\ Cardinality(Workers) \in Nat
    BY InFlightFinite DEF IInv, TypeOK
  <2> QED
    BY <2>1 DEF LateWrites, FrozenAfterDisband
<1> QED
  BY <1>1, <1>2, IInvHolds, LateWritesStep, PTL DEF Spec

=============================================================================
