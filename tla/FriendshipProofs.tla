-------------------------- MODULE FriendshipProofs --------------------------
(***************************************************************************)
(* Proofs about Friendship for every set of accounts, every number of      *)
(* handlers in flight and every choice of the clients' operations.         *)
(***************************************************************************)
EXTENDS Friendship, TLAPS

-----------------------------------------------------------------------------
(* The inductive invariant.                                                *)

PairPCs == PCs \ {"idle", "readFriends", "setCache"}
RowPCs  == {"accept", "reject", "cancel", "remove"}

\* A handler past its first step knows the two accounts it is about, and one
\* that updates or deletes a row by id has read that id.
CallsOK ==
    \A w \in Workers :
        /\ call[w].pc \in PairPCs => Mine(w) \in Pairs
        /\ call[w].pc \in {"readFriends", "setCache"} => call[w].me \in Accounts
        /\ call[w].pc \in RowPCs => call[w].id \in Ids

\* Friendship rows are stored with their ids in order.
FriendsSorted == \A p \in Pairs : friend[p] # NoId => p[1] < p[2]

\* Every request row stands for a wish of its sender that no removeFriend has
\* ended since.
RequestsWanted == \A p \in Pairs : Exists(p) => p \in wants

IInv == TypeOK /\ CallsOK /\ FriendsSorted /\ RequestsWanted /\ FriendsConsented

-----------------------------------------------------------------------------
(* Facts about pairs.                                                      *)

LEMMA PairFacts ==
    /\ \A p \in Pairs : /\ p[1] \in Accounts /\ p[2] \in Accounts /\ p[1] # p[2]
                        /\ p = <<p[1], p[2]>>
                        /\ Rev(p) \in Pairs /\ Rev(Rev(p)) = p /\ Rev(p) # p
                        /\ Rev(p)[1] = p[2] /\ Rev(p)[2] = p[1]
    /\ \A a, b \in Accounts : a # b => <<a, b>> \in Pairs /\ <<b, a>> \in Pairs
BY DEF Pairs, Rev

LEMMA SortedFacts ==
    ASSUME NEW p \in Pairs
    PROVE  /\ Sorted(p[1], p[2]) \in {p, Rev(p)}
           /\ Sorted(p[1], p[2])[1] < Sorted(p[1], p[2])[2]
<1>1. /\ p[1] \in Nat /\ p[2] \in Nat /\ p[1] # p[2]
      /\ p = <<p[1], p[2]>> /\ Rev(p) = <<p[2], p[1]>>
  BY AccountsAssumption, PairFacts DEF Rev
<1>2. CASE p[1] < p[2]
  BY <1>1, <1>2 DEF Sorted
<1>3. CASE ~(p[1] < p[2])
  <2>1. p[2] < p[1]
    BY <1>1, <1>3
  <2>2. Sorted(p[1], p[2]) = Rev(p)
    BY <1>1, <1>3 DEF Sorted
  <2>3. Rev(p)[1] = p[2] /\ Rev(p)[2] = p[1]
    BY <1>1
  <2> QED
    BY <2>1, <2>2, <2>3
<1> QED
  BY <1>2, <1>3

\* Sorted rows are unique rows.
LEMMA FriendsSortedUnique == FriendsSorted => FriendshipsUnique
<1> SUFFICES ASSUME FriendsSorted, NEW p \in Pairs,
                    friend[p] # NoId, friend[Rev(p)] # NoId
             PROVE  FALSE
  BY DEF FriendshipsUnique
<1>1. p[1] < p[2] /\ p[2] < p[1]
  BY PairFacts DEF FriendsSorted
<1>2. p[1] \in Nat /\ p[2] \in Nat
  BY PairFacts, AccountsAssumption
<1> QED
  BY <1>1, <1>2

-----------------------------------------------------------------------------
LEMMA InitIInv == Init => IInv
<1> SUFFICES ASSUME Init PROVE IInv
  OBVIOUS
<1>0. Idle \in CallRecords
  BY DEF Idle, CallRecords, PCs
<1>1. TypeOK
  BY <1>0 DEF Init, TypeOK, Miss
<1>2. CallsOK
  BY DEF Init, CallsOK, Idle, PairPCs, RowPCs
<1>3. FriendsSorted /\ RequestsWanted /\ FriendsConsented
  BY DEF Init, FriendsSorted, RequestsWanted, FriendsConsented, Exists, NoRow
<1> QED
  BY <1>1, <1>2, <1>3 DEF IInv

\* A step that leaves the rows and wants alone keeps what is said of them.
LEMMA RowsUnchanged ==
    ASSUME IInv, UNCHANGED <<request, friend, wants>>
    PROVE  FriendsSorted' /\ RequestsWanted' /\ FriendsConsented'
BY DEF IInv, FriendsSorted, RequestsWanted, FriendsConsented, Exists

\* The other handlers are where they were; a commit may have overtaken them.
OthersStay(w) ==
    \A v \in Workers : v # w =>
        /\ call'[v].pc = call[v].pc /\ call'[v].me = call[v].me
        /\ call'[v].other = call[v].other /\ call'[v].id = call[v].id
        /\ call'[v].keys = call[v].keys
        /\ call[v].missed \subseteq call'[v].missed

\* What a step may do to the call records: handler w stays well formed.
LEMMA CallStep ==
    ASSUME IInv, NEW w \in Workers,
           call' \in [Workers -> CallRecords], OthersStay(w),
           call'[w].pc \in PairPCs => <<call'[w].me, call'[w].other>> \in Pairs,
           call'[w].pc \in {"readFriends", "setCache"} => call'[w].me \in Accounts,
           call'[w].pc \in RowPCs => call'[w].id \in Ids
    PROVE  CallsOK'
BY DEF OthersStay, IInv, CallsOK, Mine

\* The two ways in which a handler's record is replaced.
LEMMA Replaced ==
    ASSUME IInv, NEW w \in Workers, NEW r \in CallRecords,
           call' = [call EXCEPT ![w] = r]
    PROVE  /\ call' \in [Workers -> CallRecords]
           /\ call'[w] = r /\ OthersStay(w)
BY DEF IInv, TypeOK, OthersStay

LEMMA CommitFacts ==
    ASSUME IInv, NEW w \in Workers, NEW r \in CallRecords,
           NEW events \in SUBSET Events, Commit(w, r, events)
    PROVE  /\ call' \in [Workers -> CallRecords]
           /\ call'[w] = r /\ OthersStay(w)
<1>1. \A v \in Workers : call[v] \in CallRecords
  BY DEF IInv, TypeOK
<1>2. \A v \in Workers :
         call'[v] = IF v = w THEN r
                    ELSE [call[v] EXCEPT !.missed =
                            @ \union {e \in events : Overtakes(e, Mine(w), v)}]
  BY DEF Commit
<1>3. call' \in [Workers -> CallRecords]
  <2>1. ASSUME NEW v \in Workers, v # w  PROVE call'[v] \in CallRecords
    <3> DEFINE m == call[v].missed \union {e \in events : Overtakes(e, Mine(w), v)}
    <3>1. call'[v] = [call[v] EXCEPT !.missed = m]
      BY <1>2, <2>1
    <3>2. m \in SUBSET Events /\ call[v] \in CallRecords
      BY <1>1 DEF CallRecords
    <3> HIDE DEF m
    <3> QED
      BY <3>1, <3>2 DEF CallRecords
  <2>2. \A v \in Workers : call'[v] \in CallRecords
    BY <1>2, <2>1
  <2>3. DOMAIN call' = Workers /\ call' = [v \in Workers |-> call'[v]]
    BY DEF Commit
  <2> QED
    BY <2>2, <2>3
<1> QED
  BY <1>1, <1>2, <1>3 DEF OthersStay, CallRecords

\* The record a handler goes on with.
LEMMA LaterFacts ==
    ASSUME IInv, NEW w \in Workers, NEW pc \in PCs, NEW id \in Ids \union {NoId},
           NEW keys \in SUBSET Accounts
    PROVE  /\ Later(w, pc, id, keys) \in CallRecords
           /\ Later(w, pc, id, keys).pc = pc
           /\ Later(w, pc, id, keys).me = call[w].me
           /\ Later(w, pc, id, keys).other = call[w].other
           /\ Later(w, pc, id, keys).id = id
           /\ Later(w, pc, id, keys).keys = keys
           /\ pc \in Overtakable => Later(w, pc, id, keys).missed = call[w].missed
<1>1. call[w] \in CallRecords
  BY DEF IInv, TypeOK
<1> QED
  BY <1>1 DEF Later, CallRecords

LEMMA IdleFacts == Idle \in CallRecords /\ Idle.pc = "idle"
BY DEF Idle, PCs, CallRecords

\* A handler that returns leaves nothing to say about it.
LEMMA ReturnCalls ==
    ASSUME IInv, NEW w \in Workers, Return(w)
    PROVE  /\ call' \in [Workers -> CallRecords]
           /\ CallsOK'
<1>1. "idle" \notin PairPCs \union {"readFriends", "setCache"} \union RowPCs
  BY DEF PairPCs, RowPCs, PCs
<1>2. call' \in [Workers -> CallRecords] /\ call'[w].pc = "idle" /\ OthersStay(w)
  BY IdleFacts, Replaced DEF Return
<1> QED
  BY <1>1, <1>2, CallStep

-----------------------------------------------------------------------------
(* Steps that only move a handler on.                                      *)

LEMMA CallOnly ==
    ASSUME IInv, UNCHANGED <<request, friend, blocks, cache, notices, wants>>,
           cut' \in SUBSET Pairs, UNCHANGED <<breached, stale>>,
           call' \in [Workers -> CallRecords], CallsOK'
    PROVE  IInv'
<1>1. TypeOK'
  BY DEF IInv, TypeOK
<1> QED
  BY <1>1, RowsUnchanged DEF IInv

\* Such a step that cuts no handler off.
LEMMA CallOnlyUncut ==
    ASSUME IInv, UNCHANGED <<request, friend, blocks, cache, notices, wants, cut, breached, stale>>,
           call' \in [Workers -> CallRecords], CallsOK'
    PROVE  IInv'
<1>1. cut' \in SUBSET Pairs
  BY DEF IInv, TypeOK
<1> QED
  BY <1>1, CallOnly

\* Two ways to write a handler's next record.
LEMMA StartCalls ==
    ASSUME IInv, NEW w \in Workers, NEW pc \in PCs, NEW a \in Accounts,
           NEW b \in Accounts, NEW id \in Ids \union {NoId}, Start(w, pc, a, b, id),
           pc \in PairPCs => a # b, pc \in RowPCs => id \in Ids
    PROVE  call' \in [Workers -> CallRecords] /\ CallsOK'
<1> DEFINE r == [pc |-> pc, me |-> a, other |-> b, id |-> id, keys |-> {}, missed |-> {}]
<1>1. r \in CallRecords
  BY DEF CallRecords
<1>2. call' = [call EXCEPT ![w] = r]
  BY DEF Start
<1>3. /\ r.pc \in PairPCs => <<r.me, r.other>> \in Pairs
      /\ r.pc \in {"readFriends", "setCache"} => r.me \in Accounts
      /\ r.pc \in RowPCs => r.id \in Ids
  BY PairFacts
<1> HIDE DEF r
<1>4. call' \in [Workers -> CallRecords] /\ call'[w] = r /\ OthersStay(w)
  BY <1>1, <1>2, Replaced
<1> QED
  BY <1>3, <1>4, CallStep

\* A handler goes on, to where it is known what it needs to know.
LEMMA LaterCalls ==
    ASSUME IInv, NEW w \in Workers, NEW pc \in PCs, NEW id \in Ids \union {NoId},
           NEW keys \in SUBSET Accounts,
           call' \in [Workers -> CallRecords], OthersStay(w),
           call'[w] = Later(w, pc, id, keys),
           pc \in PairPCs => call[w].pc \in PairPCs,
           pc \in {"readFriends", "setCache"} =>
              call[w].pc \in {"readFriends", "setCache"},
           pc \in RowPCs => id \in Ids
    PROVE  CallsOK'
<1>1. /\ pc \in PairPCs => <<call[w].me, call[w].other>> \in Pairs
      /\ pc \in {"readFriends", "setCache"} => call[w].me \in Accounts
  BY DEF IInv, CallsOK, Mine
<1> QED
  BY <1>1, LaterFacts, CallStep

LEMMA MoveCalls ==
    ASSUME IInv, NEW w \in Workers, NEW pc \in PCs, NEW id \in Ids \union {NoId},
           NEW keys \in SUBSET Accounts, Move(w, pc, id, keys),
           pc \in PairPCs => call[w].pc \in PairPCs,
           pc \in {"readFriends", "setCache"} =>
              call[w].pc \in {"readFriends", "setCache"},
           pc \in RowPCs => id \in Ids
    PROVE  call' \in [Workers -> CallRecords] /\ CallsOK'
<1>1. call' \in [Workers -> CallRecords] /\ call'[w] = Later(w, pc, id, keys) /\ OthersStay(w)
  BY LaterFacts, Replaced DEF Move
<1> QED
  BY <1>1, LaterCalls

LEMMA CommitCalls ==
    ASSUME IInv, NEW w \in Workers, NEW pc \in PairPCs \ RowPCs,
           NEW keys \in SUBSET Accounts, NEW events \in SUBSET Events,
           Commit(w, Later(w, pc, NoId, keys), events), call[w].pc \in PairPCs
    PROVE  call' \in [Workers -> CallRecords] /\ CallsOK'
<1>1. pc \in PCs /\ pc \notin {"readFriends", "setCache"}
  BY DEF PairPCs
<1>2. /\ call' \in [Workers -> CallRecords] /\ OthersStay(w)
      /\ call'[w] = Later(w, pc, NoId, keys)
  BY <1>1, LaterFacts, CommitFacts
<1> QED
  BY <1>1, <1>2, LaterCalls

\* Goto is such a move for a step that holds no row.
LEMMA GotoCalls ==
    ASSUME IInv, NEW w \in Workers, NEW pc \in PairPCs \ RowPCs,
           call[w].pc \in PairPCs, Goto(w, pc)
    PROVE  call' \in [Workers -> CallRecords] /\ CallsOK'
<1>1. pc \in PCs /\ pc \notin {"readFriends", "setCache"}
  BY DEF PairPCs
<1> QED
  BY <1>1, MoveCalls DEF Goto

\* Every handler's first step.
LEMMA BeginStep ==
    ASSUME IInv, NEW w \in Workers, Begin(w)
    PROVE  IInv'
<1> USE DEF PairPCs, RowPCs, PCs
<1>0. NoId \in Ids \union {NoId}
  OBVIOUS
<1>1. ASSUME NEW p \in Pairs, StartSend(w, p[1], p[2])  PROVE IInv'
  BY <1>0, <1>1, PairFacts, StartCalls, CallOnlyUncut DEF StartSend
<1>2. ASSUME NEW p \in Pairs, NEW pc \in {"accept", "reject"},
             StartRespond(w, p[1], p[2], pc)
      PROVE  IInv'
  <2>1. <<p[2], p[1]>> \in Pairs
    BY PairFacts
  <2>2. request[<<p[2], p[1]>>].id \in Ids
    BY <1>2, <2>1 DEF StartRespond, IInv, TypeOK, Rows, NoRow
  <2> QED
    BY <1>2, <2>2, PairFacts, StartCalls, CallOnlyUncut DEF StartRespond
<1>3. ASSUME NEW p \in Pairs, StartCancel(w, p[1], p[2])  PROVE IInv'
  <2>1. request[<<p[1], p[2]>>].id \in Ids
    BY <1>3, PairFacts DEF StartCancel, IInv, TypeOK, Rows, NoRow
  <2> QED
    BY <1>3, <2>1, PairFacts, StartCalls, CallOnlyUncut DEF StartCancel
<1>4. ASSUME NEW p \in Pairs, StartRemove(w, p[1], p[2])  PROVE IInv'
  <2>1. PICK q \in {<<p[1], p[2]>>, <<p[2], p[1]>>} :
            friend[q] # NoId /\ Start(w, "remove", p[1], p[2], friend[q])
    BY <1>4 DEF StartRemove
  <2>2. friend[q] \in Ids
    BY <2>1, PairFacts DEF IInv, TypeOK
  <2>3. call' \in [Workers -> CallRecords] /\ CallsOK'
    BY <2>1, <2>2, PairFacts, StartCalls
  <2> QED
    BY <1>4, <2>3, CallOnlyUncut DEF StartRemove
<1>5. ASSUME NEW p \in Pairs, StartBlock(w, p[1], p[2])  PROVE IInv'
  BY <1>0, <1>5, PairFacts, StartCalls, CallOnlyUncut DEF StartBlock
<1>6. ASSUME NEW a \in Accounts, StartGetFriends(w, a)  PROVE IInv'
  BY <1>0, <1>6, StartCalls, CallOnlyUncut DEF StartGetFriends
<1> QED
  BY <1>1, <1>2, <1>3, <1>4, <1>5, <1>6 DEF Begin

\* The steps of a handler that only read.
LEMMA ReadStep ==
    ASSUME IInv, NEW w \in Workers,
           \/ SendCheckBlocked(w) \/ SendFindPending(w) \/ SendFindPrevious(w)
           \/ ReadFriends(w) \/ Crash(w)
    PROVE  IInv'
<1> USE DEF PairPCs, RowPCs, PCs
<1>0. call[w] \in CallRecords /\ CallsOK
  BY DEF IInv, TypeOK
<1>1. CASE SendCheckBlocked(w)
  BY <1>1, GotoCalls, ReturnCalls, CallOnlyUncut DEF SendCheckBlocked, At
<1>2. CASE SendFindPending(w)
  <2>1. call[w].pc = "pending?" /\ Rev(Mine(w)) \in Pairs
    BY <1>0, <1>2, PairFacts DEF SendFindPending, At, CallsOK
  <2>2. CASE Move(w, "accept", request[Rev(Mine(w))].id, {})
             /\ LivePending(Rev(Mine(w)))
    <3>1. request[Rev(Mine(w))].id \in Ids
      BY <2>1, <2>2 DEF LivePending, IInv, TypeOK, Rows, NoRow
    <3> QED
      BY <1>2, <2>1, <2>2, <3>1, MoveCalls, CallOnlyUncut DEF SendFindPending
  <2>3. CASE Return(w)
    BY <1>2, <2>3, ReturnCalls, CallOnlyUncut DEF SendFindPending
  <2>4. CASE Goto(w, "previous?")
    BY <1>2, <2>1, <2>4, GotoCalls, CallOnlyUncut DEF SendFindPending
  <2> QED
    BY <1>2, <2>2, <2>3, <2>4 DEF SendFindPending
<1>3. CASE SendFindPrevious(w)
  BY <1>3, GotoCalls, ReturnCalls, CallOnlyUncut DEF SendFindPrevious, At
<1>4. CASE ReadFriends(w)
  <2>1. FriendsOf(call[w].me) \in SUBSET Accounts
    BY DEF FriendsOf
  <2> QED
    BY <1>4, <2>1, MoveCalls, CallOnlyUncut DEF ReadFriends, At
<1>5. CASE Crash(w)
  <2>1. cut' \in SUBSET Pairs
    BY <1>0, <1>5, PairFacts DEF Crash, Committed, CallsOK, IInv, TypeOK
  <2> QED
    BY <1>5, <2>1, ReturnCalls, CallOnly DEF Crash
<1> QED
  BY <1>1, <1>2, <1>3, <1>4, <1>5

-----------------------------------------------------------------------------
(* Steps that write.                                                       *)

\* A statement that updates or deletes request rows and inserts none.
LEMMA RequestsOnly ==
    ASSUME IInv, UNCHANGED <<friend, blocks, cache, notices, wants, cut, breached, stale>>,
           request' \in [Pairs -> Rows \union {NoRow}],
           \A p \in Pairs : Exists(p)' => Exists(p),
           call' \in [Workers -> CallRecords], CallsOK'
    PROVE  IInv'
<1>1. TypeOK'
  BY DEF IInv, TypeOK
<1>2. RequestsWanted'
  BY DEF IInv, RequestsWanted
<1>3. FriendsSorted' /\ FriendsConsented'
  BY DEF IInv, FriendsSorted, FriendsConsented
<1> QED
  BY <1>1, <1>2, <1>3 DEF IInv

LEMMA UpsertStep ==
    ASSUME IInv, NEW w \in Workers, SendUpsert(w)
    PROVE  IInv'
<1> DEFINE p == Mine(w)
<1>1. p \in Pairs
  BY DEF SendUpsert, At, IInv, CallsOK, PairPCs, PCs
<1>2. PICK id \in IF Exists(p) THEN {request[p].id} ELSE FreshRequestIds :
        request' = [request EXCEPT ![p] = Written("PENDING", id)]
  BY DEF SendUpsert
<1>3. id \in Ids
  BY <1>1, <1>2 DEF FreshRequestIds, Exists, IInv, TypeOK, Rows, NoRow
<1>4. /\ wants' = wants \union {p} /\ breached' \in SUBSET Pairs
      /\ UNCHANGED <<friend, blocks, cache, notices, cut, stale>>
  BY <1>1, PairFacts DEF SendUpsert, Breach, IInv, TypeOK
<1>5. call' \in [Workers -> CallRecords] /\ CallsOK'
  BY CommitCalls DEF SendUpsert, At, PairPCs, RowPCs, PCs, Events
<1>6. TypeOK'
  BY <1>1, <1>2, <1>3, <1>4, <1>5 DEF IInv, TypeOK, Rows, Written
<1>7. RequestsWanted'
  BY <1>1, <1>2, <1>4 DEF IInv, TypeOK, RequestsWanted, Exists
<1>8. FriendsSorted' /\ FriendsConsented'
  BY <1>4 DEF IInv, FriendsSorted, FriendsConsented
<1> QED
  BY <1>5, <1>6, <1>7, <1>8 DEF IInv

\* An accept: the request row it holds still exists, so its sender wanted the
\* friendship, and the accepting account agrees to it now.
LEMMA AcceptStep ==
    ASSUME IInv, NEW w \in Workers, AcceptTx(w)
    PROVE  IInv'
<1> DEFINE p == Rev(Mine(w))
           f == Sorted(call[w].me, call[w].other)
<1>1. /\ Mine(w) \in Pairs /\ p \in Pairs /\ Rev(p) = Mine(w)
      /\ f \in {p, Rev(p)} /\ f[1] < f[2]
  <2>1. Mine(w) \in Pairs
    BY DEF AcceptTx, At, IInv, CallsOK, PairPCs, PCs
  <2>2. f = Sorted(Mine(w)[1], Mine(w)[2])
    BY DEF Mine
  <2> QED
    BY <2>1, <2>2, PairFacts, SortedFacts
<1>2. CASE Return(w) /\ UNCHANGED <<request, friend, wants, breached>>
  BY <1>2, ReturnCalls, CallOnlyUncut DEF AcceptTx
<1>3. CASE /\ RowHeld(w, p) /\ friend[f] = NoId
           /\ request' = [request EXCEPT ![p] = Written("ACCEPTED", call[w].id)]
           /\ \E id \in FreshFriendIds : friend' = [friend EXCEPT ![f] = id]
           /\ wants' = wants \union {Mine(w)}
           /\ Commit(w, Later(w, "delAccepted", NoId, {call[w].me, call[w].other}), {"friends"})
           /\ breached' = Breach(w)
  <2>1. PICK id \in FreshFriendIds : friend' = [friend EXCEPT ![f] = id]
    BY <1>3
  <2>2. id \in Ids
    BY DEF FreshFriendIds
  <2>3. request[p] \in Rows /\ p \in wants
    BY <1>1, <1>3 DEF RowHeld, Exists, IInv, TypeOK, Rows, NoRow, RequestsWanted
  <2>4. call' \in [Workers -> CallRecords] /\ CallsOK'
    <3>1. {call[w].me, call[w].other} \in SUBSET Accounts
      BY <1>1 DEF Mine, Pairs
    <3> QED
      BY <1>3, <3>1, CommitCalls DEF AcceptTx, At, PairPCs, RowPCs, PCs, Events
  <2>5. UNCHANGED <<blocks, cache, notices, cut, stale>> /\ breached' \in SUBSET Pairs
    BY <1>1, <1>3 DEF AcceptTx, Breach, IInv, TypeOK
  <2>6. \A q \in Pairs : /\ request'[q] \in Rows \union {NoRow}
                         /\ Exists(q)' => q \in wants
    BY <1>1, <1>3, <2>3 DEF IInv, TypeOK, Rows, RequestsWanted, Exists, Written, RowHeld
  <2>7. request' \in [Pairs -> Rows \union {NoRow}]
    BY <1>3, <2>6 DEF IInv, TypeOK
  <2>8. TypeOK'
    BY <1>1, <1>3, <2>1, <2>2, <2>4, <2>5, <2>7 DEF IInv, TypeOK
  <2>9. RequestsWanted'
    BY <1>3, <2>6 DEF RequestsWanted
  <2>10. FriendsSorted'
    BY <1>1, <2>1 DEF IInv, TypeOK, FriendsSorted
  <2>11. FriendsConsented'
    BY <1>1, <1>3, <2>1, <2>3, PairFacts DEF IInv, TypeOK, FriendsConsented
  <2> QED
    BY <2>4, <2>8, <2>9, <2>10, <2>11 DEF IInv
<1> QED
  BY <1>2, <1>3 DEF AcceptTx

\* A removal that finds its row deletes the pair's only friends row and all
\* its requests, so ending both wishes breaks nothing.
LEMMA RemoveStep ==
    ASSUME IInv, NEW w \in Workers, RemoveTx(w)
    PROVE  IInv'
<1> DEFINE pair == {Mine(w), Rev(Mine(w))}
           row  == {p \in pair : friend[p] = call[w].id}
<1>1. /\ Mine(w) \in Pairs /\ pair \subseteq Pairs /\ call[w].id \in Ids
      /\ \A p \in pair : pair = {p, Rev(p)}
      /\ \A p \in Pairs : Rev(p) \in pair => p \in pair
  <2>1. Mine(w) \in Pairs /\ call[w].id \in Ids
    BY DEF RemoveTx, At, IInv, CallsOK, PairPCs, RowPCs, PCs
  <2> QED
    BY <2>1, PairFacts
<1>2. CASE Return(w) /\ UNCHANGED <<request, friend, wants>>
  BY <1>2, ReturnCalls, CallOnlyUncut DEF RemoveTx
<1>3. CASE /\ row # {}
           /\ friend' = [p \in Pairs |-> IF p \in row THEN NoId ELSE friend[p]]
           /\ request' = [p \in Pairs |-> IF p \in pair THEN NoRow ELSE request[p]]
           /\ wants' = wants \ pair
           /\ Commit(w, Later(w, "delRemoved", NoId, {call[w].me, call[w].other}), {"friends"})
  <2>1. \A p \in pair : friend'[p] = NoId
    <3>1. PICK q \in pair : friend[q] = call[w].id
      BY <1>3
    <3>2. friend[q] # NoId /\ friend[Rev(q)] = NoId
      BY <1>1, <3>1, FriendsSortedUnique, IdsAssumption DEF IInv, FriendshipsUnique
    <3> QED
      BY <1>1, <1>3, <3>1, <3>2
  <2>2. call' \in [Workers -> CallRecords] /\ CallsOK'
    <3>1. {call[w].me, call[w].other} \in SUBSET Accounts
      BY <1>1 DEF Mine, Pairs
    <3> QED
      BY <1>3, <3>1, CommitCalls DEF RemoveTx, At, PairPCs, RowPCs, PCs, Events
  <2>3. UNCHANGED <<blocks, cache, notices, cut, breached, stale>>
    BY DEF RemoveTx
  <2>4. TypeOK'
    BY <1>1, <1>3, <2>2, <2>3 DEF IInv, TypeOK
  <2>5. RequestsWanted'
    BY <1>3 DEF IInv, RequestsWanted, Exists, NoRow
  <2>6. FriendsSorted'
    BY <1>3 DEF IInv, FriendsSorted
  <2>7. FriendsConsented'
    BY <1>1, <1>3, <2>1 DEF IInv, FriendsConsented
  <2> QED
    BY <2>2, <2>4, <2>5, <2>6, <2>7 DEF IInv
<1> QED
  BY <1>2, <1>3 DEF RemoveTx

\* The other statements a handler ends with.
LEMMA WriteStep ==
    ASSUME IInv, NEW w \in Workers,
           \/ Notify(w, "received") \/ Notify(w, "accepted")
           \/ Invalidate(w, "delAccepted", "accepted")
           \/ Invalidate(w, "delRemoved", "idle")
           \/ Reject(w) \/ CancelDelete(w) \/ BlockTx(w) \/ SetCache(w)
    PROVE  IInv'
<1>0. call[w] \in CallRecords /\ CallsOK
  BY DEF IInv, TypeOK
<1>1. ASSUME NEW pc \in {"received", "accepted"}, Notify(w, pc)  PROVE IInv'
  <2>1. Rev(Mine(w)) \in Pairs
    BY <1>0, <1>1, PairFacts DEF Notify, At, CallsOK, PairPCs, PCs
  <2>2. call' \in [Workers -> CallRecords] /\ CallsOK'
    BY <1>1, ReturnCalls DEF Notify
  <2>3. TypeOK'
    BY <1>1, <2>1, <2>2 DEF Notify, IInv, TypeOK
  <2> QED
    BY <1>1, <2>2, <2>3, RowsUnchanged DEF Notify, IInv
<1>2. ASSUME NEW pc \in {"delAccepted", "delRemoved"}, NEW next \in {"accepted", "idle"},
             Invalidate(w, pc, next)
      PROVE  IInv'
  <2>1. PICK a \in call[w].keys :
            /\ cache' = [cache EXCEPT ![a] = Miss]
            /\ stale' = stale \ {a}
            /\ IF call[w].keys # {a}
               THEN Move(w, pc, NoId, call[w].keys \ {a})
               ELSE IF next = "idle" THEN Return(w) ELSE Goto(w, next)
    BY <1>2 DEF Invalidate
  <2>2. call' \in [Workers -> CallRecords] /\ CallsOK'
    <3>1. call[w].pc = pc /\ call[w].keys \ {a} \in SUBSET Accounts
      BY <1>0, <1>2 DEF Invalidate, At, CallRecords
    <3>2. CASE Move(w, pc, NoId, call[w].keys \ {a})
      BY <3>1, <3>2, MoveCalls DEF PairPCs, RowPCs, PCs
    <3>3. CASE Return(w)
      BY <3>3, ReturnCalls
    <3>4. CASE Goto(w, next) /\ next = "accepted"
      BY <3>1, <3>4, GotoCalls DEF PairPCs, RowPCs, PCs
    <3> QED
      BY <2>1, <3>2, <3>3, <3>4
  <2>3. TypeOK'
    BY <1>2, <2>1, <2>2 DEF Invalidate, IInv, TypeOK, Miss
  <2> QED
    BY <1>2, <2>2, <2>3, RowsUnchanged DEF Invalidate, IInv
<1>3. CASE Reject(w)
  <2> DEFINE p == Rev(Mine(w))
  <2>1. p \in Pairs /\ call[w].id \in Ids
    BY <1>0, <1>3, PairFacts DEF Reject, At, CallsOK, PairPCs, RowPCs, PCs
  <2>2. request' = IF RowHeld(w, p)
                   THEN [request EXCEPT ![p] = Written("REJECTED", call[w].id)]
                   ELSE request
    BY <1>3 DEF Reject
  <2>3. request' \in [Pairs -> Rows \union {NoRow}]
    BY <2>1, <2>2 DEF IInv, TypeOK, Rows, Written
  <2>4. \A q \in Pairs : Exists(q)' => Exists(q)
    BY <2>1, <2>2 DEF IInv, TypeOK, Exists, RowHeld
  <2> QED
    BY <1>3, <2>3, <2>4, ReturnCalls, RequestsOnly DEF Reject
<1>4. CASE CancelDelete(w)
  <2>1. request' \in [Pairs -> Rows \union {NoRow}]
    BY <1>4 DEF CancelDelete, IInv, TypeOK
  <2>2. \A q \in Pairs : Exists(q)' => Exists(q)
    BY <1>4 DEF CancelDelete, IInv, TypeOK, Exists, RowHeld
  <2> QED
    BY <1>4, <2>1, <2>2, ReturnCalls, RequestsOnly DEF CancelDelete
<1>5. CASE BlockTx(w)
  <2>1. CASE Return(w) /\ UNCHANGED <<blocks, request, friend, breached>>
    BY <1>5, <2>1, ReturnCalls, CallOnlyUncut DEF BlockTx
  <2>2. CASE Mine(w) \notin blocks
    <3> DEFINE pair == {Mine(w), Rev(Mine(w))}
    <3>1. Mine(w) \in Pairs
      BY <1>0, <1>5 DEF BlockTx, At, CallsOK, PairPCs, PCs
    <3>2. /\ blocks' = blocks \union {Mine(w)}
          /\ request' = [p \in Pairs |->
                           IF p \in pair /\ request[p].status = "PENDING"
                           THEN NoRow ELSE request[p]]
          /\ friend' = [p \in Pairs |-> IF p \in pair THEN NoId ELSE friend[p]]
          /\ breached' = breached \ pair /\ Commit(w, Idle, {"block", "friends"})
          /\ UNCHANGED <<cache, notices, wants, cut, stale>>
      BY <1>5, <2>2 DEF BlockTx
    <3>3. call' \in [Workers -> CallRecords] /\ CallsOK'
      <4>1. /\ call' \in [Workers -> CallRecords] /\ OthersStay(w) /\ call'[w].pc = "idle"
        BY <3>2, IdleFacts, CommitFacts DEF Events
      <4> QED
        BY <4>1, CallStep DEF PairPCs, RowPCs, PCs
    <3>4. TypeOK'
      BY <3>1, <3>2, <3>3 DEF IInv, TypeOK
    <3>5. RequestsWanted'
      BY <3>2 DEF IInv, RequestsWanted, Exists, NoRow
    <3>6. FriendsSorted' /\ FriendsConsented'
      BY <3>2 DEF IInv, FriendsSorted, FriendsConsented
    <3> QED
      BY <3>3, <3>4, <3>5, <3>6 DEF IInv
  <2> QED
    BY <1>5, <2>1, <2>2 DEF BlockTx
<1>6. CASE SetCache(w)
  <2>1. call[w].keys \in SUBSET Accounts
    BY <1>0 DEF CallRecords
  <2>2. call' \in [Workers -> CallRecords] /\ CallsOK'
    BY <1>6, ReturnCalls DEF SetCache
  <2>3. stale' \in SUBSET Accounts
    BY <1>0, <1>6 DEF SetCache, At, CallsOK, IInv, TypeOK
  <2>4. TypeOK'
    BY <1>6, <2>1, <2>2, <2>3 DEF SetCache, IInv, TypeOK, Hit
  <2> QED
    BY <1>6, <2>2, <2>4, RowsUnchanged DEF SetCache, IInv
<1> QED
  BY <1>1, <1>2, <1>3, <1>4, <1>5, <1>6

\* What happens outside the handlers: the cron job, unblockUser, the clock.
LEMMA EnvironmentStep ==
    ASSUME IInv,
           \/ CleanupExpiredRequests
           \/ \E p \in Pairs : UnblockUser(p) \/ Age(p)
           \/ \E a \in Accounts : CacheExpires(a)
    PROVE  IInv'
<1>1. CASE CleanupExpiredRequests
  <2>1. /\ request' \in [Pairs -> Rows \union {NoRow}]
        /\ \A p \in Pairs : Exists(p)' => Exists(p)
    BY <1>1 DEF CleanupExpiredRequests, IInv, TypeOK, Exists, NoRow
  <2>2. call' \in [Workers -> CallRecords] /\ CallsOK'
    BY <1>1 DEF CleanupExpiredRequests, IInv, TypeOK, CallsOK, Mine
  <2> QED
    BY <1>1, <2>1, <2>2, RequestsOnly DEF CleanupExpiredRequests
<1>2. ASSUME NEW p \in Pairs, UnblockUser(p)  PROVE IInv'
  <2>1. TypeOK' /\ CallsOK'
    BY <1>2 DEF UnblockUser, IInv, TypeOK, CallsOK, Mine
  <2> QED
    BY <1>2, <2>1, RowsUnchanged DEF UnblockUser, IInv
<1>3. ASSUME NEW p \in Pairs, Age(p)  PROVE IInv'
  <2>1. request[p] \in Rows
    BY <1>3 DEF Age, IInv, TypeOK, NoRow
  <2>2. /\ request' \in [Pairs -> Rows \union {NoRow}]
        /\ \A q \in Pairs : Exists(q)' => Exists(q)
    BY <1>3, <2>1 DEF Age, IInv, TypeOK, Exists, Rows
  <2>3. call' \in [Workers -> CallRecords] /\ CallsOK'
    BY <1>3 DEF Age, IInv, TypeOK, CallsOK, Mine
  <2> QED
    BY <1>3, <2>2, <2>3, RequestsOnly DEF Age
<1>4. ASSUME NEW a \in Accounts, CacheExpires(a)  PROVE IInv'
  <2>1. TypeOK' /\ CallsOK'
    BY <1>4 DEF CacheExpires, IInv, TypeOK, CallsOK, Mine, Miss
  <2> QED
    BY <1>4, <2>1, RowsUnchanged DEF CacheExpires, IInv
<1> QED
  BY <1>1, <1>2, <1>3, <1>4

-----------------------------------------------------------------------------
LEMMA StutterStep == ASSUME IInv, UNCHANGED vars PROVE IInv'
<1>1. TypeOK' /\ CallsOK'
  BY DEF vars, IInv, TypeOK, CallsOK, Mine
<1> QED
  BY <1>1, RowsUnchanged DEF vars, IInv

\* Every reachable state of Friendship satisfies the inductive invariant: no
\* operation of the friends and block services leaves it.
THEOREM Invariance == Spec => []IInv
<1>1. IInv /\ [Next]_vars => IInv'
  <2> SUFFICES ASSUME IInv, [Next]_vars PROVE IInv'
    OBVIOUS
  <2>1. ASSUME NEW w \in Workers, Step(w) PROVE IInv'
    BY <2>1, ReadStep, WriteStep, UpsertStep, AcceptStep, RemoveStep DEF Step
  <2>2. ASSUME NEW w \in Workers, Begin(w) \/ Crash(w) PROVE IInv'
    BY <2>2, BeginStep, ReadStep
  <2> QED
    BY <2>1, <2>2, EnvironmentStep, StutterStep DEF Next
<1> QED
  BY <1>1, InitIInv, PTL DEF Spec

\* The tables, the cache and the call records keep their types.
THEOREM TypeCorrect == Spec => []TypeOK
<1>1. IInv => TypeOK
  BY DEF IInv
<1> QED
  BY <1>1, Invariance, PTL

\* Two accounts never share two friends rows, whichever of them sends and
\* accepts the requests (FriendsService sorts the ids of every row it inserts).
THEOREM UniqueFriendships == Spec => []FriendshipsUnique
<1>1. IInv => FriendshipsUnique
  BY FriendsSortedUnique DEF IInv
<1> QED
  BY <1>1, Invariance, PTL

\* Friends have both asked or agreed since the last removeFriend between
\* them, however many handlers act on requests they read earlier.
THEOREM ConsentedFriendships == Spec => []FriendsConsented
<1>1. IInv => FriendsConsented
  BY DEF IInv
<1> QED
  BY <1>1, Invariance, PTL

-----------------------------------------------------------------------------
(* A handler's step leaves the other handlers where they are.              *)

LEMMA Stays ==
    ASSUME IInv, NEW w \in Workers,
           \/ \E r : call' = [call EXCEPT ![w] = r]
           \/ \E r, events : Commit(w, r, events)
    PROVE  OthersStay(w)
<1>0. \A v \in Workers : call[v] \in CallRecords
  BY DEF IInv, TypeOK
<1>1. CASE \E r : call' = [call EXCEPT ![w] = r]
  <2>1. \A v \in Workers : v # w => call'[v] = call[v]
    BY <1>1 DEF IInv, TypeOK
  <2> QED
    BY <2>1 DEF OthersStay
<1>2. CASE \E r, events : Commit(w, r, events)
  <2>1. PICK r, events : Commit(w, r, events)
    BY <1>2
  <2>2. SUFFICES ASSUME NEW v \in Workers, v # w
                 PROVE  /\ call'[v].pc = call[v].pc /\ call'[v].me = call[v].me
                        /\ call'[v].other = call[v].other /\ call'[v].id = call[v].id
                        /\ call'[v].keys = call[v].keys
                        /\ call[v].missed \subseteq call'[v].missed
    BY DEF OthersStay
  <2> DEFINE m == call[v].missed \union {e \in events : Overtakes(e, Mine(w), v)}
  <2>3. call'[v] = [call[v] EXCEPT !.missed = m]
    BY <2>1, <2>2 DEF Commit
  <2>4. call[v].missed \subseteq m
    OBVIOUS
  <2> HIDE DEF m
  <2> QED
    BY <1>0, <2>3, <2>4 DEF CallRecords
<1> QED
  BY <1>1, <1>2

LEMMA StepStays ==
    ASSUME IInv, NEW w \in Workers, Begin(w) \/ Step(w) \/ Crash(w)
    PROVE  OthersStay(w)
<1>1. \/ \E r : call' = [call EXCEPT ![w] = r]
      \/ \E r, events : Commit(w, r, events)
  <2>1. CASE Begin(w)
    BY <2>1 DEF Begin, StartSend, StartRespond, StartCancel, StartRemove, StartBlock,
       StartGetFriends, Start
  <2>2. CASE Crash(w)
    BY <2>2 DEF Crash, Return
  <2>3. CASE \/ SendCheckBlocked(w) \/ SendFindPending(w) \/ SendFindPrevious(w)
             \/ Notify(w, "received") \/ Notify(w, "accepted")
             \/ Reject(w) \/ CancelDelete(w) \/ ReadFriends(w) \/ SetCache(w)
    BY <2>3 DEF SendCheckBlocked, SendFindPending, SendFindPrevious, Notify, Reject,
       CancelDelete, ReadFriends, SetCache, Goto, Move, Return
  <2>4. ASSUME NEW pc, NEW next, Invalidate(w, pc, next)
        PROVE  \E r : call' = [call EXCEPT ![w] = r]
    BY <2>4 DEF Invalidate, Goto, Move, Return
  <2>5. CASE SendUpsert(w) \/ AcceptTx(w) \/ RemoveTx(w) \/ BlockTx(w)
    BY <2>5 DEF SendUpsert, AcceptTx, RemoveTx, BlockTx, Return
  <2> QED
    BY <2>1, <2>2, <2>3, <2>4, <2>5 DEF Step
<1> QED
  BY <1>1, Stays

-----------------------------------------------------------------------------
(* Announcements.  Announced is inductive once the calls are well formed:  *)
(* what makes a request pending or inserts a friendship leaves its handler *)
(* on the way to the notification, and only the notification or a crash    *)
(* takes it off that way.                                                  *)

AnnouncedPCs == {"delAccepted", "accepted"}

\* What becomes of handler w's duty to announce in a step.
ReceivedKept(w) ==
    call[w].pc = "received" =>
        \/ call'[w].pc = "received" /\ Mine(w)' = Mine(w)
        \/ Mine(w) \in cut'
        \/ <<Rev(Mine(w)), "received">> \in notices'

AcceptedKept(w) ==
    call[w].pc \in AnnouncedPCs =>
        \/ call'[w].pc \in AnnouncedPCs /\ Mine(w)' = Mine(w)
        \/ {Mine(w), Rev(Mine(w))} \subseteq cut'
        \/ <<Rev(Mine(w)), "accepted">> \in notices'

LEMMA AnnouncedKept ==
    ASSUME IInv, Announced, notices \subseteq notices', cut \subseteq cut',
           \A w \in Workers : ReceivedKept(w) /\ AcceptedKept(w),
           \A p \in Pairs : request'[p].status = "PENDING" =>
              request[p].status = "PENDING" \/ Announcing(p, {"received"})',
           \A p \in Pairs : friend'[p] # NoId =>
              friend[p] # NoId \/ \E q \in {p, Rev(p)} : Announcing(q, AnnouncedPCs)'
    PROVE  Announced'
<1> SUFFICES ASSUME NEW p \in Pairs, p \notin cut'
             PROVE  /\ request'[p].status = "PENDING" =>
                         \/ <<Rev(p), "received">> \in notices'
                         \/ Announcing(p, {"received"})'
                    /\ friend'[p] # NoId =>
                         \E q \in {p, Rev(p)} : \/ <<q, "accepted">> \in notices'
                                              \/ Announcing(q, AnnouncedPCs)'
  BY DEF Announced, AnnouncedPCs
<1>1. ASSUME request'[p].status = "PENDING", ~Announcing(p, {"received"})'
      PROVE  <<Rev(p), "received">> \in notices'
  <2>1. <<Rev(p), "received">> \in notices \/ Announcing(p, {"received"})
    BY <1>1 DEF Announced
  <2>2. CASE Announcing(p, {"received"})
    <3>1. PICK w \in Workers : call[w].pc = "received" /\ Mine(w) = p
      BY <2>2 DEF Announcing
    <3> QED
      BY <1>1, <3>1 DEF ReceivedKept, Announcing
  <2> QED
    BY <2>1, <2>2
<1>2. ASSUME friend'[p] # NoId,
             ~\E q \in {p, Rev(p)} : Announcing(q, AnnouncedPCs)'
      PROVE  \E q \in {p, Rev(p)} : <<q, "accepted">> \in notices'
  <2>1. PICK q \in {p, Rev(p)} : <<q, "accepted">> \in notices \/ Announcing(q, AnnouncedPCs)
    BY <1>2 DEF Announced, AnnouncedPCs
  <2>2. CASE Announcing(q, AnnouncedPCs)
    <3>1. PICK w \in Workers : call[w].pc \in AnnouncedPCs /\ Mine(w) = q
      BY <2>2 DEF Announcing
    <3>2. Rev(q) \in {p, Rev(p)} /\ p \in {q, Rev(q)}
      BY PairFacts
    <3> QED
      BY <1>2, <3>1, <3>2 DEF AcceptedKept, Announcing
  <2> QED
    BY <2>1, <2>2
<1> QED
  BY <1>1, <1>2

\* A handler that is not on such a way has no duty.
LEMMA NoDuty ==
    ASSUME IInv, NEW w \in Workers, OthersStay(w),
           call[w].pc \notin {"received"} \union AnnouncedPCs
    PROVE  \A v \in Workers : ReceivedKept(v) /\ AcceptedKept(v)
BY DEF OthersStay, ReceivedKept, AcceptedKept, Mine

\* One that returns or crashes has done its duty or is cut off.
LEMMA DutyDone ==
    ASSUME IInv, NEW w \in Workers, OthersStay(w), ReceivedKept(w), AcceptedKept(w)
    PROVE  \A v \in Workers : ReceivedKept(v) /\ AcceptedKept(v)
BY DEF OthersStay, ReceivedKept, AcceptedKept, Mine

\* A step after which no other request is pending and no other pair friends.
NoNewRows ==
    \A p \in Pairs : /\ request'[p].status = "PENDING" => request[p].status = "PENDING"
                     /\ friend'[p] # NoId => friend[p] # NoId

LEMMA FewerRows ==
    ASSUME IInv, NEW w \in Workers,
           \/ Reject(w) \/ CancelDelete(w) \/ RemoveTx(w) \/ BlockTx(w)
    PROVE  NoNewRows
<1>1. CASE Reject(w)
  BY <1>1 DEF NoNewRows, Reject, Written, IInv, TypeOK
<1>2. CASE CancelDelete(w)
  BY <1>2 DEF NoNewRows, CancelDelete, NoRow, IInv, TypeOK
<1>3. CASE RemoveTx(w)
  BY <1>3 DEF NoNewRows, RemoveTx, NoRow
<1>4. CASE BlockTx(w)
  BY <1>4 DEF NoNewRows, BlockTx, NoRow
<1> QED
  BY <1>1, <1>2, <1>3, <1>4

LEMMA FewerRequests ==
    ASSUME IInv, CleanupExpiredRequests \/ (\E q \in Pairs : UnblockUser(q) \/ Age(q))
                 \/ (\E a \in Accounts : CacheExpires(a)) \/ UNCHANGED vars
    PROVE  NoNewRows
<1>1. CASE CleanupExpiredRequests
  BY <1>1 DEF NoNewRows, CleanupExpiredRequests, NoRow
<1>2. ASSUME NEW q \in Pairs, Age(q)  PROVE NoNewRows
  <2>1. request[q] \in Rows
    BY <1>2 DEF Age, IInv, TypeOK, NoRow
  <2> QED
    BY <1>2, <2>1 DEF NoNewRows, Age, IInv, TypeOK, Rows
<1> QED
  BY <1>1, <1>2 DEF NoNewRows, UnblockUser, CacheExpires, vars

LEMMA AnnouncedBegin ==
    ASSUME IInv, Announced, NEW w \in Workers, Begin(w)
    PROVE  Announced'
<1>1. /\ UNCHANGED <<request, friend, notices, cut>>
      /\ call[w] = Idle
  BY DEF Begin, StartSend, StartRespond, StartCancel, StartRemove, StartBlock,
     StartGetFriends, Start
<1>2. call[w].pc = "idle"
  BY <1>1 DEF Idle
<1> QED
  BY <1>1, <1>2, StepStays, NoDuty, AnnouncedKept DEF AnnouncedPCs

LEMMA AnnouncedUpsert ==
    ASSUME IInv, Announced, NEW w \in Workers, SendUpsert(w)
    PROVE  Announced'
<1>1. Mine(w) \in Pairs /\ call[w].pc = "upsert"
  BY DEF SendUpsert, At, IInv, CallsOK, PairPCs, PCs
<1>2. /\ \A p \in Pairs \ {Mine(w)} : request'[p] = request[p]
      /\ UNCHANGED <<friend, notices, cut>>
      /\ Commit(w, Later(w, "received", NoId, {}), {"request"})
  BY <1>1 DEF SendUpsert, IInv, TypeOK
<1>3. call'[w].pc = "received" /\ Mine(w)' = Mine(w) /\ OthersStay(w)
  <2>1. "received" \in PCs /\ {"request"} \in SUBSET Events
    BY DEF PCs, Events
  <2> QED
    BY <1>2, <2>1, LaterFacts, CommitFacts DEF Mine
<1>4. \A p \in Pairs : p = Mine(w) => Announcing(p, {"received"})'
  BY <1>3 DEF Announcing
<1>5. \A v \in Workers : ReceivedKept(v) /\ AcceptedKept(v)
  BY <1>1, <1>3, NoDuty DEF AnnouncedPCs
<1>6. \A p \in Pairs : request'[p].status = "PENDING" =>
         request[p].status = "PENDING" \/ Announcing(p, {"received"})'
  BY <1>2, <1>4
<1> QED
  BY <1>2, <1>5, <1>6, AnnouncedKept

LEMMA AnnouncedAccept ==
    ASSUME IInv, Announced, NEW w \in Workers, AcceptTx(w)
    PROVE  Announced'
<1> DEFINE f == Sorted(call[w].me, call[w].other)
<1>1. /\ Mine(w) \in Pairs /\ call[w].pc = "accept" /\ UNCHANGED <<notices, cut>>
      /\ Rev(Mine(w)) \in Pairs /\ f \in {Mine(w), Rev(Mine(w))}
  <2>1. Mine(w) \in Pairs
    BY DEF AcceptTx, At, IInv, CallsOK, PairPCs, PCs
  <2> QED
    BY <2>1, PairFacts DEF AcceptTx, At, Sorted, Mine, Rev
<1>2. CASE Return(w) /\ UNCHANGED <<request, friend>>
  BY <1>1, <1>2, StepStays, NoDuty, AnnouncedKept DEF AnnouncedPCs, Step
<1>3. CASE /\ request' = [request EXCEPT ![Rev(Mine(w))] = Written("ACCEPTED", call[w].id)]
           /\ \E id \in FreshFriendIds : friend' = [friend EXCEPT ![f] = id]
           /\ Commit(w, Later(w, "delAccepted", NoId, {call[w].me, call[w].other}), {"friends"})
  <2>1. call'[w].pc = "delAccepted" /\ Mine(w)' = Mine(w) /\ OthersStay(w)
    <3>1. /\ "delAccepted" \in PCs /\ {"friends"} \in SUBSET Events
          /\ {call[w].me, call[w].other} \in SUBSET Accounts
      BY <1>1 DEF PCs, Events, Mine, Pairs
    <3> QED
      BY <1>3, <3>1, LaterFacts, CommitFacts DEF Mine
  <2>2. \A p \in Pairs : p = Mine(w) => Announcing(p, AnnouncedPCs)'
    BY <2>1 DEF Announcing, AnnouncedPCs
  <2>3. \A p \in Pairs : request'[p].status = "PENDING" => request[p].status = "PENDING"
    BY <1>3 DEF Written, IInv, TypeOK
  <2>4. \A p \in Pairs : friend'[p] # NoId =>
           friend[p] # NoId \/ \E q \in {p, Rev(p)} : Announcing(q, AnnouncedPCs)'
    <3>1. \A p \in Pairs \ {f} : friend'[p] = friend[p]
      BY <1>3 DEF IInv, TypeOK
    <3>2. Mine(w) \in {f, Rev(f)}
      BY <1>1, PairFacts
    <3> QED
      BY <1>1, <2>2, <3>1, <3>2
  <2>5. \A v \in Workers : ReceivedKept(v) /\ AcceptedKept(v)
    BY <1>1, <2>1, NoDuty DEF AnnouncedPCs
  <2> QED
    BY <1>1, <2>3, <2>4, <2>5, AnnouncedKept
<1> QED
  BY <1>2, <1>3 DEF AcceptTx

LEMMA AnnouncedNotify ==
    ASSUME IInv, Announced, NEW w \in Workers, NEW pc \in {"received", "accepted"},
           Notify(w, pc)
    PROVE  Announced'
<1>1. /\ UNCHANGED <<request, friend, cut>> /\ Return(w) /\ call[w].pc = pc
      /\ notices' = notices \union {<<Rev(Mine(w)), pc>>}
  BY DEF Notify, At
<1>2. ReceivedKept(w) /\ AcceptedKept(w)
  BY <1>1 DEF ReceivedKept, AcceptedKept, AnnouncedPCs
<1> QED
  BY <1>1, <1>2, StepStays, DutyDone, AnnouncedKept DEF Step

LEMMA AnnouncedInvalidate ==
    ASSUME IInv, Announced, NEW w \in Workers,
           \/ Invalidate(w, "delAccepted", "accepted")
           \/ Invalidate(w, "delRemoved", "idle")
    PROVE  Announced'
<1>1. UNCHANGED <<request, friend, notices, cut>>
  BY DEF Invalidate
<1>2. CASE Invalidate(w, "delRemoved", "idle")
  <2>1. call[w].pc = "delRemoved" /\ OthersStay(w)
    BY <1>2, StepStays DEF Invalidate, At, Step
  <2> QED
    BY <1>1, <2>1, NoDuty, AnnouncedKept DEF AnnouncedPCs
<1>3. CASE Invalidate(w, "delAccepted", "accepted")
  <2>1. call[w].pc = "delAccepted"
        /\ \E pc \in AnnouncedPCs : \E keys : Move(w, pc, NoId, keys)
    BY <1>3 DEF Invalidate, At, Goto, AnnouncedPCs
  <2>2. call'[w].pc \in AnnouncedPCs /\ Mine(w)' = Mine(w) /\ OthersStay(w)
    BY <1>3, <2>1, StepStays DEF Move, Later, Mine, Step, IInv, TypeOK
  <2>3. \A v \in Workers : ReceivedKept(v) /\ AcceptedKept(v)
    BY <2>1, <2>2, DutyDone DEF ReceivedKept, AcceptedKept, AnnouncedPCs
  <2> QED
    BY <1>1, <2>3, AnnouncedKept
<1> QED
  BY <1>2, <1>3

LEMMA AnnouncedCrash ==
    ASSUME IInv, Announced, NEW w \in Workers, Crash(w)
    PROVE  Announced'
<1>1. /\ UNCHANGED <<request, friend, notices>> /\ Return(w) /\ cut \subseteq cut'
      /\ call[w].pc \in Committed => {Mine(w), Rev(Mine(w))} \subseteq cut'
  BY DEF Crash
<1>2. ReceivedKept(w) /\ AcceptedKept(w)
  BY <1>1 DEF ReceivedKept, AcceptedKept, AnnouncedPCs, Committed
<1> QED
  BY <1>1, <1>2, StepStays, DutyDone, AnnouncedKept DEF Step

\* The steps that have nothing to announce.
LEMMA AnnouncedOthers ==
    ASSUME IInv, Announced, NEW w \in Workers,
           \/ SendCheckBlocked(w) \/ SendFindPending(w) \/ SendFindPrevious(w)
           \/ Reject(w) \/ CancelDelete(w) \/ RemoveTx(w) \/ BlockTx(w)
           \/ ReadFriends(w) \/ SetCache(w)
    PROVE  Announced'
<1>1. /\ UNCHANGED <<notices, cut>>
      /\ call[w].pc \notin {"received"} \union AnnouncedPCs
      /\ OthersStay(w)
  BY StepStays DEF Step, SendCheckBlocked, SendFindPending, SendFindPrevious, Reject,
     CancelDelete, RemoveTx, BlockTx, ReadFriends, SetCache, At, AnnouncedPCs
<1>2. NoNewRows
  BY FewerRows DEF NoNewRows, SendCheckBlocked, SendFindPending, SendFindPrevious,
     ReadFriends, SetCache
<1> QED
  BY <1>1, <1>2, NoDuty, AnnouncedKept DEF NoNewRows

\* Nothing but a failure loses an announcement: every pending request and
\* every friendship has been announced, is about to be, or belongs to a pair a
\* handler of which was cut off (sendRequest, respondToRequest, autoAccept).
THEOREM NothingUnannounced == Spec => []Announced
<1>1. Init => Announced
  BY DEF Init, Announced, NoRow
<1>2. IInv /\ Announced /\ [Next]_vars => Announced'
  <2> SUFFICES ASSUME IInv, Announced, [Next]_vars PROVE Announced'
    OBVIOUS
  <2>1. ASSUME NEW w \in Workers, Begin(w) \/ Step(w) \/ Crash(w)
        PROVE  Announced'
    BY <2>1, AnnouncedBegin, AnnouncedUpsert, AnnouncedAccept, AnnouncedNotify,
       AnnouncedInvalidate, AnnouncedCrash, AnnouncedOthers DEF Step
  <2>2. ASSUME \/ CleanupExpiredRequests
               \/ \E p \in Pairs : UnblockUser(p) \/ Age(p)
               \/ \E a \in Accounts : CacheExpires(a)
               \/ UNCHANGED vars
        PROVE  Announced'
    <3>1. UNCHANGED <<call, notices, cut>>
      BY <2>2 DEF CleanupExpiredRequests, UnblockUser, Age, CacheExpires, vars
    <3>2. \A v \in Workers : ReceivedKept(v) /\ AcceptedKept(v)
      BY <3>1 DEF ReceivedKept, AcceptedKept, Mine
    <3> QED
      BY <2>2, <3>1, <3>2, FewerRequests, AnnouncedKept DEF NoNewRows
  <2> QED
    BY <2>1, <2>2 DEF Next
<1> QED
  BY <1>1, <1>2, Invariance, PTL DEF Spec

-----------------------------------------------------------------------------
(* Blocks.  A handler that has checked the block, or read a request that   *)
(* was pending, acts across no block unless one has overtaken it.          *)

CheckedPCs == {"pending?", "previous?", "upsert", "accept"}

Unseen ==
    \A w \in Workers : call[w].pc \in CheckedPCs /\ "block" \notin call[w].missed
        => ~Blocked(call[w].me, call[w].other) \/ Mine(w) \in breached

BreachedBoth == \A p \in breached : Rev(p) \in breached

BlockInv == NoContactWhileBlocked /\ Unseen /\ BreachedBoth

\* Steps that make no contact and block nobody.
LEMMA NoNewContact ==
    ASSUME NoContactWhileBlocked, blocks' \subseteq blocks, breached \subseteq breached',
           NoNewRows
    PROVE  NoContactWhileBlocked'
<1> SUFFICES ASSUME NEW p \in Pairs, p \notin breached', Blocked(p[1], p[2])'
             PROVE  ~Friends(p[1], p[2])' /\ request'[p].status # "PENDING"
  BY DEF NoContactWhileBlocked
<1>1. ~Friends(p[1], p[2]) /\ request[p].status # "PENDING"
  BY DEF NoContactWhileBlocked, Blocked
<1>2. <<p[1], p[2]>> \in Pairs /\ <<p[2], p[1]>> \in Pairs
  BY PairFacts
<1> QED
  BY <1>1, <1>2 DEF Friends, NoNewRows

LEMMA UnseenKept ==
    ASSUME Unseen, NEW w \in Workers, OthersStay(w),
           blocks' \subseteq blocks, breached \subseteq breached',
           call'[w].pc \in CheckedPCs /\ "block" \notin call'[w].missed
              => ~Blocked(call'[w].me, call'[w].other) \/ Mine(w)' \in breached
    PROVE  Unseen'
<1> SUFFICES ASSUME NEW v \in Workers, call'[v].pc \in CheckedPCs,
                    "block" \notin call'[v].missed
             PROVE  ~Blocked(call[v].me, call[v].other)' \/ Mine(v)' \in breached'
  BY DEF Unseen
<1>1. CASE v = w
  BY <1>1 DEF Blocked
<1>2. CASE v # w
  BY <1>2 DEF OthersStay, Unseen, Blocked, Mine
<1> QED
  BY <1>1, <1>2

\* A handler that leaves the checked steps says nothing about blocks.
LEMMA UnseenLeft ==
    ASSUME Unseen, NEW w \in Workers, OthersStay(w),
           blocks' \subseteq blocks, breached \subseteq breached',
           call'[w].pc \notin CheckedPCs
    PROVE  Unseen'
BY UnseenKept

\* One that moves between them carries on what it knows.
LEMMA UnseenMove ==
    ASSUME IInv, Unseen, NEW w \in Workers, OthersStay(w), UNCHANGED <<blocks, breached>>,
           NEW pc \in CheckedPCs, NEW id \in Ids \union {NoId}, NEW keys \in SUBSET Accounts,
           Move(w, pc, id, keys),
           call[w].pc \in CheckedPCs \/ ~Blocked(call[w].me, call[w].other)
    PROVE  Unseen'
<1>1. pc \in PCs /\ pc \in Overtakable
  BY DEF CheckedPCs, PCs, Overtakable
<1>2. call'[w] = Later(w, pc, id, keys)
  BY DEF Move, IInv, TypeOK
<1>3. /\ call'[w].me = call[w].me /\ call'[w].other = call[w].other
      /\ call'[w].missed = call[w].missed
  BY <1>1, <1>2, LaterFacts
<1>4. "block" \notin call'[w].missed
        => ~Blocked(call'[w].me, call'[w].other) \/ Mine(w)' \in breached
  BY <1>3 DEF Unseen, Mine
<1> QED
  BY <1>4, UnseenKept

LEMMA IdleMeans ==
    ASSUME IInv, NEW w \in Workers, Return(w)
    PROVE  call'[w].pc = "idle"
BY IdleFacts DEF Return, IInv, TypeOK

LEMMA MovedTo ==
    ASSUME IInv, NEW w \in Workers, NEW pc, NEW id, NEW keys, Move(w, pc, id, keys)
    PROVE  call'[w].pc = pc
BY DEF Move, Later, IInv, TypeOK

LEMMA StartedAt ==
    ASSUME IInv, NEW w \in Workers, NEW pc, NEW a, NEW b, NEW id, Start(w, pc, a, b, id)
    PROVE  call'[w].pc = pc /\ call'[w].me = a /\ call'[w].other = b
BY DEF Start, IInv, TypeOK

LEMMA BlockBegin ==
    ASSUME IInv, BlockInv, NEW w \in Workers, Begin(w)
    PROVE  BlockInv'
<1> USE DEF CheckedPCs
<1>1. UNCHANGED <<request, friend, blocks, breached>> /\ OthersStay(w)
  BY StepStays DEF Begin, StartSend, StartRespond, StartCancel, StartRemove, StartBlock,
     StartGetFriends
<1>2. NoContactWhileBlocked' /\ BreachedBoth'
  BY <1>1, NoNewContact DEF BlockInv, NoNewRows, BreachedBoth, Rev
<1>3. ASSUME NEW p \in Pairs, NEW pc \in {"accept", "reject"},
             StartRespond(w, p[1], p[2], pc)
      PROVE  Unseen'
  <2>1. /\ p = <<p[1], p[2]>> /\ Rev(p) = <<p[2], p[1]>> /\ Rev(p) \in Pairs
        /\ Rev(p)[1] = p[2] /\ Rev(p)[2] = p[1] /\ Rev(Rev(p)) = p
    BY PairFacts DEF Rev
  <2>2. request[Rev(p)].status = "PENDING" /\ Start(w, pc, p[1], p[2], request[Rev(p)].id)
    BY <1>3, <2>1 DEF StartRespond
  <2>3. ~Blocked(p[1], p[2]) \/ p \in breached
    BY <2>1, <2>2 DEF BlockInv, NoContactWhileBlocked, Blocked, BreachedBoth
  <2>4. call'[w].me = p[1] /\ call'[w].other = p[2]
    BY <2>2, StartedAt
  <2> QED
    BY <1>1, <2>1, <2>3, <2>4, UnseenKept DEF BlockInv, Mine
<1>4. ASSUME NEW p \in Pairs,
             \/ StartSend(w, p[1], p[2]) \/ StartCancel(w, p[1], p[2])
             \/ StartRemove(w, p[1], p[2]) \/ StartBlock(w, p[1], p[2])
      PROVE  Unseen'
  BY <1>1, <1>4, StartedAt, UnseenLeft
  DEF BlockInv, StartSend, StartCancel, StartRemove, StartBlock
<1>5. ASSUME NEW a \in Accounts, StartGetFriends(w, a)  PROVE Unseen'
  BY <1>1, <1>5, StartedAt, UnseenLeft DEF BlockInv, StartGetFriends
<1> QED
  BY <1>2, <1>3, <1>4, <1>5 DEF Begin, BlockInv

\* Storing or accepting a request makes contact across no block, or breaches
\* one that has overtaken the handler.
LEMMA BlockContact ==
    ASSUME IInv, BlockInv, NEW w \in Workers, SendUpsert(w) \/ AcceptTx(w)
    PROVE  BlockInv'
<1> DEFINE q == Mine(w)
           pair == {q, Rev(q)}
<1>1. q \in Pairs /\ Rev(q) \in Pairs /\ Rev(Rev(q)) = q /\ q = <<call[w].me, call[w].other>>
  <2>1. q \in Pairs
    BY DEF SendUpsert, AcceptTx, At, IInv, CallsOK, PairPCs, PCs
  <2> QED
    BY <2>1, PairFacts DEF Mine
<1>2. UNCHANGED blocks /\ (breached' = Breach(w) \/ UNCHANGED <<request, friend, breached>>)
  BY DEF SendUpsert, AcceptTx
<1>3. breached \subseteq breached' /\ BreachedBoth'
  <2>1. breached' = breached \/ breached' = breached \union pair
    BY <1>2 DEF Breach
  <2> QED
    BY <1>1, <2>1 DEF BlockInv, BreachedBoth, Rev
<1>4. \A r \in Pairs \ pair : request'[r] = request[r] /\ friend'[r] = friend[r]
  <2>1. CASE SendUpsert(w)
    BY <1>1, <2>1 DEF SendUpsert, IInv, TypeOK
  <2>2. CASE AcceptTx(w)
    <3>1. Sorted(call[w].me, call[w].other) \in pair
      BY DEF Sorted, Mine, Rev
    <3> QED
      BY <1>1, <2>2, <3>1 DEF AcceptTx, IInv, TypeOK
  <2> QED
    BY <2>1, <2>2
<1>5. Unseen'
  <2>1. OthersStay(w)
    BY StepStays DEF Step
  <2>2. call'[w].pc \notin CheckedPCs
    <3>1. CASE Return(w)
      BY <3>1, IdleMeans DEF CheckedPCs
    <3>2. ASSUME NEW pc, NEW id, NEW keys, NEW events, Commit(w, Later(w, pc, id, keys), events)
          PROVE  call'[w].pc = pc
      BY <3>2 DEF Commit, Later
    <3> QED
      BY <3>1, <3>2 DEF SendUpsert, AcceptTx, CheckedPCs
  <2> QED
    BY <1>2, <1>3, <2>1, <2>2, UnseenLeft DEF BlockInv
<1>6. NoContactWhileBlocked'
  <2> SUFFICES ASSUME NEW p \in Pairs, p \notin breached', Blocked(p[1], p[2])
               PROVE  ~Friends(p[1], p[2])' /\ request'[p].status # "PENDING"
    BY <1>2 DEF NoContactWhileBlocked, Blocked
  <2>1. /\ p = <<p[1], p[2]>> /\ Rev(p) = <<p[2], p[1]>> /\ Rev(p) \in Pairs
        /\ Rev(Rev(p)) = p
    BY PairFacts DEF Rev
  <2>2. ~Friends(p[1], p[2]) /\ request[p].status # "PENDING"
    BY <1>3 DEF BlockInv, NoContactWhileBlocked
  <2>3. CASE p \notin pair
    <3>1. Rev(p) \notin pair
      BY <1>1, <2>1, <2>3
    <3> QED
      BY <1>4, <2>1, <2>2, <2>3, <3>1 DEF Friends
  <2>4. CASE p \in pair /\ breached' = Breach(w)
    <3>1. Blocked(call[w].me, call[w].other)
      BY <1>1, <2>1, <2>4 DEF Blocked, Rev
    <3>2. "block" \notin call[w].missed
      BY <2>4, <3>1 DEF Breach
    <3>3. q \in breached
      BY <3>1, <3>2 DEF BlockInv, Unseen, CheckedPCs, SendUpsert, AcceptTx, At
    <3> QED
      BY <1>3, <2>4, <3>3 DEF BlockInv, BreachedBoth
  <2>5. CASE UNCHANGED <<request, friend, breached>>
    BY <2>2, <2>5 DEF Friends
  <2> QED
    BY <1>2, <2>3, <2>4, <2>5
<1> QED
  BY <1>3, <1>5, <1>6 DEF BlockInv

\* blockUser leaves no contact across the block it makes, and overtakes every
\* handler that is between its check and its write.
LEMMA BlockStep ==
    ASSUME IInv, BlockInv, NEW w \in Workers, BlockTx(w)
    PROVE  BlockInv'
<1> DEFINE q == Mine(w)
           pair == {q, Rev(q)}
<1>1. q \in Pairs /\ Rev(q) \in Pairs /\ Rev(Rev(q)) = q
  <2>1. q \in Pairs
    BY DEF BlockTx, At, IInv, CallsOK, PairPCs, PCs
  <2> QED
    BY <2>1, PairFacts
<1>2. CASE Return(w) /\ UNCHANGED <<blocks, request, friend, breached>>
  <2>1. OthersStay(w) /\ call'[w].pc \notin CheckedPCs
    BY <1>2, StepStays, IdleMeans DEF Step, CheckedPCs
  <2> QED
    BY <1>2, <2>1, NoNewContact, UnseenLeft DEF BlockInv, NoNewRows, BreachedBoth, Rev
<1>3. CASE Mine(w) \notin blocks
  <2>1. /\ blocks' = blocks \union {q} /\ breached' = breached \ pair
        /\ Commit(w, Idle, {"block", "friends"})
        /\ \A p \in Pairs :
             /\ request'[p] = IF p \in pair /\ request[p].status = "PENDING"
                             THEN NoRow ELSE request[p]
             /\ friend'[p] = IF p \in pair THEN NoId ELSE friend[p]
    BY <1>3 DEF BlockTx
  <2>2. BreachedBoth'
    <3> SUFFICES ASSUME NEW p \in breached'
                 PROVE  Rev(p) \in breached'
      BY DEF BreachedBoth, Rev
    <3>1. p \in Pairs /\ Rev(p) \in breached /\ p \notin pair
      BY <2>1 DEF BlockInv, BreachedBoth, IInv, TypeOK
    <3>2. Rev(p) \notin pair
      BY <1>1, <3>1, PairFacts
    <3> QED
      BY <2>1, <3>1, <3>2
  <2>3. NoContactWhileBlocked'
    <3> SUFFICES ASSUME NEW p \in Pairs, p \notin breached', Blocked(p[1], p[2])'
                 PROVE  ~Friends(p[1], p[2])' /\ request'[p].status # "PENDING"
      BY DEF NoContactWhileBlocked
    <3>1. /\ p = <<p[1], p[2]>> /\ Rev(p) = <<p[2], p[1]>> /\ Rev(p) \in Pairs
          /\ Rev(Rev(p)) = p
      BY PairFacts DEF Rev
    <3>2. CASE p \in pair
      <4>1. Rev(p) \in pair
        BY <1>1, <3>2
      <4> QED
        BY <2>1, <3>1, <3>2, <4>1 DEF Friends, NoRow
    <3>3. CASE p \notin pair
      <4>1. Rev(p) \notin pair
        BY <1>1, <3>1, <3>3
      <4>2. Blocked(p[1], p[2]) /\ p \notin breached
        BY <2>1, <3>1, <3>3, <4>1 DEF Blocked
      <4> QED
        BY <2>1, <3>1, <3>3, <4>1, <4>2 DEF BlockInv, NoContactWhileBlocked, Friends
    <3> QED
      BY <3>2, <3>3
  <2>4. Unseen'
    <3> SUFFICES ASSUME NEW v \in Workers, call'[v].pc \in CheckedPCs,
                        "block" \notin call'[v].missed
                 PROVE  ~Blocked(call[v].me, call[v].other)' \/ Mine(v)' \in breached'
      BY DEF Unseen
    <3>1. v # w /\ OthersStay(w)
      <4>1. call'[w].pc = "idle"
        BY <2>1, IdleFacts DEF Commit
      <4> QED
        BY <4>1, StepStays DEF Step, CheckedPCs
    <3>2. /\ call'[v].me = call[v].me /\ call'[v].other = call[v].other
          /\ call[v].pc \in CheckedPCs /\ "block" \notin call[v].missed
      BY <3>1 DEF OthersStay
    <3>3. Mine(v) \in Pairs /\ Mine(v) = <<call[v].me, call[v].other>>
      BY <3>2 DEF IInv, CallsOK, PairPCs, PCs, CheckedPCs, Mine
    <3>4. Mine(v) \notin pair
      <4>1. ASSUME Mine(v) \in pair  PROVE FALSE
        <5>1. Overtakes("block", q, v)
          BY <3>2, <4>1 DEF Overtakes, CheckedPCs
        <5>2. call'[v] = [call[v] EXCEPT !.missed =
                 @ \union {e \in {"block", "friends"} : Overtakes(e, q, v)}]
          BY <2>1, <3>1 DEF Commit
        <5>3. call[v] \in CallRecords
          BY DEF IInv, TypeOK
        <5>4. "block" \in call'[v].missed
          <6> DEFINE m == call[v].missed
                            \union {e \in {"block", "friends"} : Overtakes(e, q, v)}
          <6>1. "block" \in m
            BY <5>1
          <6>2. call'[v] = [call[v] EXCEPT !.missed = m]
            BY <5>2
          <6> HIDE DEF m
          <6> QED
            BY <5>3, <6>1, <6>2 DEF CallRecords
        <5> QED
          BY <5>4
      <4> QED
        BY <4>1
    <3>5. CASE ~Blocked(call[v].me, call[v].other)
      <4>1. <<call[v].me, call[v].other>> # q /\ <<call[v].other, call[v].me>> # q
        BY <1>1, <3>3, <3>4 DEF Rev
      <4> QED
        BY <2>1, <3>2, <3>5, <4>1 DEF Blocked
    <3>6. CASE Mine(v) \in breached
      BY <2>1, <3>2, <3>4, <3>6 DEF Mine
    <3> QED
      BY <3>2, <3>5, <3>6 DEF BlockInv, Unseen
  <2> QED
    BY <2>2, <2>3, <2>4 DEF BlockInv
<1> QED
  BY <1>2, <1>3 DEF BlockTx

LEMMA BlockOthers ==
    ASSUME IInv, BlockInv, NEW w \in Workers,
           \/ SendCheckBlocked(w) \/ SendFindPending(w) \/ SendFindPrevious(w)
           \/ ReadFriends(w) \/ Crash(w)
           \/ Reject(w) \/ CancelDelete(w) \/ RemoveTx(w) \/ SetCache(w)
           \/ Notify(w, "received") \/ Notify(w, "accepted")
           \/ Invalidate(w, "delAccepted", "accepted")
           \/ Invalidate(w, "delRemoved", "idle")
    PROVE  BlockInv'
<1>1. UNCHANGED <<blocks, breached>> /\ OthersStay(w)
  BY StepStays DEF Step, SendCheckBlocked, SendFindPending, SendFindPrevious, ReadFriends,
     Crash, Reject, CancelDelete, RemoveTx, SetCache, Notify, Invalidate
<1>2. NoNewRows
  BY FewerRows DEF NoNewRows, SendCheckBlocked, SendFindPending, SendFindPrevious,
     ReadFriends, Crash, SetCache, Notify, Invalidate
<1>3. NoContactWhileBlocked' /\ BreachedBoth'
  BY <1>1, <1>2, NoNewContact DEF BlockInv, BreachedBoth, Rev
<1>4. ASSUME NEW pc \in CheckedPCs, NEW id \in Ids \union {NoId}, Move(w, pc, id, {}),
             call[w].pc \in CheckedPCs \/ ~Blocked(call[w].me, call[w].other)
      PROVE  Unseen'
  BY <1>1, <1>4, UnseenMove DEF BlockInv
<1>5. ASSUME Return(w)  PROVE Unseen'
  BY <1>1, <1>5, IdleMeans, UnseenLeft DEF BlockInv, CheckedPCs
<1>6. ASSUME NEW pc, pc \notin CheckedPCs, NEW id, NEW keys, Move(w, pc, id, keys)
      PROVE  Unseen'
  BY <1>1, <1>6, MovedTo, UnseenLeft DEF BlockInv
<1> SUFFICES Unseen'
  BY <1>3 DEF BlockInv
<1>7. CASE SendCheckBlocked(w) \/ SendFindPrevious(w)
  BY <1>4, <1>5, <1>7 DEF SendCheckBlocked, SendFindPrevious, Goto, At, CheckedPCs
<1>8. CASE SendFindPending(w)
  <2>1. LivePending(Rev(Mine(w))) => request[Rev(Mine(w))].id \in Ids
    <3>1. Rev(Mine(w)) \in Pairs
      BY <1>8, PairFacts DEF SendFindPending, At, IInv, CallsOK, PairPCs, PCs
    <3> QED
      BY <3>1 DEF LivePending, IInv, TypeOK, Rows, NoRow
  <2> QED
    BY <1>4, <1>5, <1>8, <2>1 DEF SendFindPending, Goto, At, CheckedPCs
<1>9. CASE ReadFriends(w)
  BY <1>6, <1>9 DEF ReadFriends, CheckedPCs
<1>10. CASE RemoveTx(w)
  <2>1. CASE Return(w)
    BY <1>5, <2>1
  <2>2. CASE Commit(w, Later(w, "delRemoved", NoId, {call[w].me, call[w].other}), {"friends"})
    <3>1. call'[w].pc = "delRemoved"
      BY <2>2 DEF Commit, Later
    <3> QED
      BY <1>1, <3>1, UnseenLeft DEF BlockInv, CheckedPCs
  <2> QED
    BY <1>10, <2>1, <2>2 DEF RemoveTx
<1>11. ASSUME NEW pc \in {"delAccepted", "delRemoved"}, NEW next \in {"accepted", "idle"},
              Invalidate(w, pc, next)
       PROVE  Unseen'
  BY <1>5, <1>6, <1>11 DEF Invalidate, Goto, CheckedPCs
<1>12. CASE \/ Crash(w) \/ Reject(w) \/ CancelDelete(w) \/ SetCache(w)
            \/ Notify(w, "received") \/ Notify(w, "accepted")
  BY <1>5, <1>12 DEF Crash, Reject, CancelDelete, SetCache, Notify
<1> QED
  BY <1>7, <1>8, <1>9, <1>10, <1>11, <1>12

LEMMA BlockEnvironment ==
    ASSUME IInv, BlockInv,
           \/ CleanupExpiredRequests
           \/ \E p \in Pairs : UnblockUser(p) \/ Age(p)
           \/ \E a \in Accounts : CacheExpires(a)
           \/ UNCHANGED vars
    PROVE  BlockInv'
<1>1. UNCHANGED <<call, breached>> /\ blocks' \subseteq blocks
  BY DEF CleanupExpiredRequests, UnblockUser, Age, CacheExpires, vars
<1>2. NoContactWhileBlocked'
  BY <1>1, FewerRequests, NoNewContact DEF BlockInv
<1>3. Unseen' /\ BreachedBoth'
  BY <1>1 DEF BlockInv, Unseen, BreachedBoth, Blocked, Mine, Rev
<1> QED
  BY <1>2, <1>3 DEF BlockInv

\* Across a block there is no friendship and no pending request unless a
\* handler that checked or read before the block wrote after it, and then only
\* until the next block of the pair (sendRequest, respondToRequest, blockUser,
\* with any number of handlers in flight).
THEOREM BlocksHold == Spec => []NoContactWhileBlocked
<1>1. Init => BlockInv
  BY IdleFacts
  DEF Init, BlockInv, NoContactWhileBlocked, Unseen, BreachedBoth, CheckedPCs, Blocked
<1>2. IInv /\ BlockInv /\ [Next]_vars => BlockInv'
  BY BlockBegin, BlockContact, BlockStep, BlockOthers, BlockEnvironment DEF Next, Step
<1>3. BlockInv => NoContactWhileBlocked
  BY DEF BlockInv
<1> QED
  BY <1>1, <1>2, <1>3, Invariance, PTL DEF Spec

-----------------------------------------------------------------------------
(* Crossing requests.  A handler about to store its request stores it      *)
(* across no live one, unless the other's has overtaken it.                *)

UpsertClear ==
    \A w \in Workers :
        call[w].pc \in {"previous?", "upsert"} /\ "request" \notin call[w].missed
            => ~LivePending(Rev(Mine(w)))

\* No step but the upsert makes a request live.
LEMMA NothingRevived ==
    ASSUME IInv, [Next]_vars, \A w \in Workers : ~SendUpsert(w)
    PROVE  \A p \in Pairs : LivePending(p)' => LivePending(p)
<1>1. CASE UNCHANGED request
  BY <1>1 DEF LivePending
<1>2. ASSUME NEW w \in Workers, AcceptTx(w)
      PROVE  \A p \in Pairs : LivePending(p)' => LivePending(p)
  <2>1. \A p \in Pairs : request'[p] = request[p] \/ request'[p].status = "ACCEPTED"
    BY <1>2 DEF AcceptTx, Written, IInv, TypeOK
  <2> QED
    BY <2>1 DEF LivePending
<1>3. ASSUME NEW w \in Workers,
             Reject(w) \/ CancelDelete(w) \/ RemoveTx(w) \/ BlockTx(w)
      PROVE  \A p \in Pairs : LivePending(p)' => LivePending(p)
  <2>1. CASE Reject(w)
    BY <2>1 DEF Reject, Written, LivePending, IInv, TypeOK
  <2>2. CASE CancelDelete(w)
    BY <2>2 DEF CancelDelete, NoRow, LivePending, IInv, TypeOK
  <2>3. CASE RemoveTx(w)
    BY <2>3 DEF RemoveTx, NoRow, LivePending
  <2>4. CASE BlockTx(w)
    BY <2>4 DEF BlockTx, NoRow, LivePending
  <2> QED
    BY <1>3, <2>1, <2>2, <2>3, <2>4
<1>4. CASE CleanupExpiredRequests
  BY <1>4 DEF CleanupExpiredRequests, NoRow, LivePending
<1>5. ASSUME NEW q \in Pairs, Age(q)
      PROVE  \A p \in Pairs : LivePending(p)' => LivePending(p)
  <2>1. request[q] \in Rows
    BY <1>5 DEF Age, IInv, TypeOK, NoRow
  <2>2. \A p \in Pairs : request'[p] = request[p] \/ request'[p].aged
    BY <1>5, <2>1 DEF Age, IInv, TypeOK, Rows
  <2> QED
    BY <2>2 DEF LivePending
<1> QED
  BY <1>1, <1>2, <1>3, <1>4, <1>5
  DEF Next, vars, Begin, Step, Crash, StartSend, StartRespond, StartCancel, StartRemove,
      StartBlock, StartGetFriends, SendCheckBlocked, SendFindPending, SendFindPrevious,
      Notify, Invalidate, ReadFriends, SetCache, UnblockUser, CacheExpires

\* Only its own steps move a handler.
LEMMA WhoMoved ==
    ASSUME IInv, [Next]_vars, NEW w \in Workers, call'[w].pc # call[w].pc
    PROVE  Begin(w) \/ Step(w) \/ Crash(w)
<1>1. PICK v \in Workers : Begin(v) \/ Step(v) \/ Crash(v)
  BY DEF Next, vars, CleanupExpiredRequests, UnblockUser, Age, CacheExpires
<1>2. OthersStay(v)
  BY <1>1, StepStays
<1> QED
  BY <1>1, <1>2 DEF OthersStay

\* What a handler knows of the other's request when it goes on to store its own.
LEMMA UpsertReached ==
    ASSUME IInv, UpsertClear, NEW w \in Workers, Begin(w) \/ Step(w) \/ Crash(w),
           call'[w].pc \in {"previous?", "upsert"}, "request" \notin call'[w].missed
    PROVE  /\ UNCHANGED request /\ Mine(w)' = Mine(w)
           /\ ~LivePending(Rev(Mine(w)))
<1>1. ~Begin(w)
  <2>1. ASSUME NEW pc, pc \notin {"previous?", "upsert"}, NEW a, NEW b, NEW id
        PROVE  ~Start(w, pc, a, b, id)
    BY <2>1, StartedAt
  <2> QED
    BY <2>1 DEF Begin, StartSend, StartRespond, StartCancel, StartRemove, StartBlock,
       StartGetFriends
<1>2. ~Return(w)
  BY IdleMeans
<1>3. ASSUME NEW pc, pc \notin {"previous?", "upsert"}, NEW id, NEW keys
      PROVE  ~Move(w, pc, id, keys)
  BY <1>3, MovedTo
<1>4. ASSUME NEW r, r.pc \notin {"previous?", "upsert"}, NEW events
      PROVE  ~Commit(w, r, events)
  BY <1>4 DEF Commit
<1>5. /\ Later(w, "received", NoId, {}).pc = "received"
      /\ \A keys : /\ Later(w, "delAccepted", NoId, keys).pc = "delAccepted"
                   /\ Later(w, "delRemoved", NoId, keys).pc = "delRemoved"
  BY DEF Later
<1>6. SendFindPending(w) \/ SendFindPrevious(w)
  BY <1>1, <1>2, <1>3, <1>4, <1>5, IdleFacts
  DEF Step, Crash, SendCheckBlocked, SendUpsert, Notify, AcceptTx, Reject, CancelDelete,
      RemoveTx, BlockTx, Invalidate, ReadFriends, SetCache, Goto
<1>7. PICK pc \in {"previous?", "upsert"} : Goto(w, pc)
  BY <1>2, <1>3, <1>6 DEF SendFindPending, SendFindPrevious
<1>8. Mine(w)' = Mine(w) /\ call'[w].missed = call[w].missed
  <2>1. pc \in PCs /\ pc \in Overtakable
    BY DEF PCs, Overtakable
  <2>2. call'[w] = Later(w, pc, NoId, {})
    BY <1>7 DEF Goto, Move, IInv, TypeOK
  <2> QED
    BY <2>1, <2>2, LaterFacts DEF Mine
<1>9. ~LivePending(Rev(Mine(w)))
  <2>1. CASE SendFindPending(w)
    BY <1>2, <1>3, <2>1 DEF SendFindPending
  <2>2. CASE SendFindPrevious(w)
    BY <1>8, <2>2 DEF SendFindPrevious, At, UpsertClear
  <2> QED
    BY <1>6, <2>1, <2>2
<1> QED
  BY <1>6, <1>8, <1>9 DEF SendFindPending, SendFindPrevious

\* A request that is stored overtakes the handlers of the crossing one.
LEMMA UpsertOvertakes ==
    ASSUME IInv, NEW w \in Workers, SendUpsert(w), NEW v \in Workers, v # w,
           call[v].pc \in {"previous?", "upsert"}, Mine(v) = Rev(Mine(w))
    PROVE  "request" \in call'[v].missed
<1> DEFINE m == call[v].missed \union {e \in {"request"} : Overtakes(e, Mine(w), v)}
<1>1. call'[v] = [call[v] EXCEPT !.missed = m]
  BY DEF SendUpsert, Commit
<1>2. "request" \in m
  BY DEF Overtakes
<1>3. call[v] \in CallRecords
  BY DEF IInv, TypeOK
<1> HIDE DEF m
<1> QED
  BY <1>1, <1>2, <1>3 DEF CallRecords

LEMMA UpsertClearStep ==
    ASSUME IInv, UpsertClear, [Next]_vars
    PROVE  UpsertClear'
<1> SUFFICES ASSUME NEW v \in Workers, call'[v].pc \in {"previous?", "upsert"},
                    "request" \notin call'[v].missed
             PROVE  ~LivePending(Rev(Mine(v)))'
  BY DEF UpsertClear
<1>1. CASE Begin(v) \/ Step(v) \/ Crash(v)
  <2> DEFINE r == Rev(Mine(v))
  <2>1. UNCHANGED request /\ Mine(v)' = Mine(v) /\ ~LivePending(r)
    BY <1>1, UpsertReached
  <2> QED
    BY <2>1 DEF LivePending, Rev
<1>2. CASE ~(Begin(v) \/ Step(v) \/ Crash(v))
  <2>1. /\ call'[v].pc = call[v].pc /\ Mine(v)' = Mine(v)
        /\ call[v].missed \subseteq call'[v].missed
    <3>1. CASE \E w \in Workers : Begin(w) \/ Step(w) \/ Crash(w)
      BY <1>2, <3>1, StepStays DEF OthersStay, Mine
    <3>2. CASE UNCHANGED call
      BY <3>2 DEF Mine
    <3> QED
      BY <3>1, <3>2 DEF Next, vars, CleanupExpiredRequests, UnblockUser, Age, CacheExpires
  <2>2. PICK r \in Pairs : r = Rev(Mine(v)) /\ Mine(v) = Rev(r) /\ ~LivePending(r)
    <3>1. Mine(v) \in Pairs
      BY <2>1 DEF IInv, CallsOK, PairPCs, PCs
    <3> QED
      BY <2>1, <3>1, PairFacts DEF UpsertClear
  <2>3. Rev(Mine(v))' = r
    BY <2>1, <2>2 DEF Rev
  <2>4. ~LivePending(r)'
    <3>1. CASE \A w \in Workers : ~SendUpsert(w)
      BY <2>2, <3>1, NothingRevived
    <3>2. ASSUME NEW w \in Workers, SendUpsert(w)  PROVE ~LivePending(r)'
      <4>1. w # v
        BY <1>2, <3>2 DEF Step
      <4>2. Mine(w) # r
        BY <2>1, <2>2, <3>2, <4>1, UpsertOvertakes
      <4>3. Mine(w) \in Pairs /\ request'[r] = request[r]
        BY <2>2, <3>2, <4>2 DEF SendUpsert, At, IInv, TypeOK, CallsOK, PairPCs, PCs
      <4> QED
        BY <2>2, <4>3 DEF LivePending
    <3> QED
      BY <3>1, <3>2
  <2> QED
    BY <2>3, <2>4 DEF LivePending
<1> QED
  BY <1>1, <1>2

\* Two live requests come to cross each other only by a handler that stores one
\* when the other's was stored after it had looked for it (SendFindPending,
\* SendUpsert), with any number of handlers in flight.
THEOREM CrossingsResolve == Spec => CrossingResolved
<1> DEFINE Resolved ==
      \A p \in Pairs : Crossing(p)' =>
         \/ Crossing(p)
         \/ \E w \in Workers : /\ At(w, "upsert") /\ call'[w].pc # "upsert"
                              /\ Mine(w) \in {p, Rev(p)}
                              /\ "request" \in call[w].missed
<1>1. Init => UpsertClear
  BY IdleFacts DEF Init, UpsertClear
<1>2. IInv /\ UpsertClear /\ [Next]_vars => UpsertClear'
  BY UpsertClearStep
<1>3. IInv /\ UpsertClear /\ [Next]_vars => Resolved
  <2> SUFFICES ASSUME IInv, UpsertClear, [Next]_vars,
                      NEW p \in Pairs, Crossing(p)', ~Crossing(p)
               PROVE  \E w \in Workers : /\ At(w, "upsert") /\ call'[w].pc # "upsert"
                                        /\ Mine(w) \in {p, Rev(p)}
                                        /\ "request" \in call[w].missed
    OBVIOUS
  <2>1. Rev(p) \in Pairs /\ Rev(Rev(p)) = p /\ Rev(p) # p
    BY PairFacts
  <2>2. LivePending(p)' /\ (\A q \in Pairs : q = Rev(p) => LivePending(q)')
    BY DEF Crossing, Rev
  <2>3. PICK w \in Workers : SendUpsert(w)
    BY <2>1, <2>2, NothingRevived DEF Crossing
  <2>4. /\ Mine(w) \in Pairs
        /\ \A q \in Pairs : q # Mine(w) => (LivePending(q)' => LivePending(q))
    <3>1. Mine(w) \in Pairs
      BY <2>3 DEF SendUpsert, At, IInv, CallsOK, PairPCs, PCs
    <3>2. \A q \in Pairs : q # Mine(w) => request'[q] = request[q]
      BY <2>3, <3>1 DEF SendUpsert, IInv, TypeOK
    <3> QED
      BY <3>1, <3>2 DEF LivePending
  <2>5. Mine(w) \in {p, Rev(p)}
    BY <2>1, <2>2, <2>4 DEF Crossing
  <2>6. LivePending(Rev(Mine(w)))
    BY <2>1, <2>2, <2>4, <2>5
  <2>7. At(w, "upsert") /\ call'[w].pc # "upsert"
    <3>1. call'[w].pc = "received"
      BY <2>3 DEF SendUpsert, Commit, Later
    <3> QED
      BY <2>3, <3>1 DEF SendUpsert
  <2> QED
    BY <2>5, <2>6, <2>7 DEF UpsertClear, At
<1> QED
  BY <1>1, <1>2, <1>3, Invariance, PTL DEF Spec, CrossingResolved

-----------------------------------------------------------------------------
(* The friends list cache.                                                 *)

Clearing(w, p) ==
    /\ p[1] \in call[w].keys /\ call[w].pc \in {"delAccepted", "delRemoved"}
    /\ p \in {Mine(w), Rev(Mine(w))}

\* CacheCurrent, with the handler that is about to delete a wrong entry one
\* that serves the pair: a crash that stops it puts that pair into cut.
CacheOK ==
    \A p \in Pairs \ cut : Wrong(p[1], p[2]) =>
        \/ \E w \in Workers : Clearing(w, p)
        \/ Blockaded(p[1], p[2]) \/ p[1] \in stale

\* getFriends stores the list that the table still holds, unless a change has
\* overtaken it.
ListRead ==
    \A w \in Workers : call[w].pc = "setCache" /\ "friends" \notin call[w].missed
                         => call[w].keys = FriendsOf(call[w].me)

LEMMA WrongMeans ==
    ASSUME NEW a, NEW b
    PROVE  /\ Wrong(a, b) <=> cache[a] # Miss /\ ~(Listed(a, b) <=> Friends(a, b))
           /\ Wrong(a, b)' <=> cache'[a] # Miss /\ ~(Listed(a, b)' <=> Friends(a, b)')
BY DEF Wrong, Listed, Friends

\* Steps that leave the friendships and put nothing into the cache.
LEMMA CacheQuiet ==
    ASSUME CacheOK, UNCHANGED friend, wants \subseteq wants', cut \subseteq cut',
           \A a \in Accounts : cache'[a] # Miss =>
               cache'[a] = cache[a] /\ (a \in stale => a \in stale'),
           \A w \in Workers, p \in Pairs \ cut' :
              Clearing(w, p) => Clearing(w, p)' \/ cache'[p[1]] = Miss
    PROVE  CacheOK'
<1> SUFFICES ASSUME NEW p \in Pairs, p \notin cut', Wrong(p[1], p[2])'
             PROVE  \/ \E w \in Workers : Clearing(w, p)'
                    \/ Blockaded(p[1], p[2])' \/ p[1] \in stale'
  BY DEF CacheOK
<1>1. p[1] \in Accounts /\ cache'[p[1]] # Miss
  BY PairFacts DEF Wrong
<1>2. cache'[p[1]] = cache[p[1]] /\ (p[1] \in stale => p[1] \in stale')
  BY <1>1
<1>3. Wrong(p[1], p[2])
  BY <1>1, <1>2 DEF Wrong, Listed, Friends
<1>4. CASE Blockaded(p[1], p[2])
  BY <1>2, <1>4 DEF Blockaded, Listed
<1>5. CASE \E w \in Workers : Clearing(w, p)
  BY <1>1, <1>5
<1> QED
  BY <1>2, <1>3, <1>4, <1>5 DEF CacheOK

LEMMA NotClearing ==
    ASSUME NEW w \in Workers, OthersStay(w),
           call[w].pc \notin {"delAccepted", "delRemoved"}
    PROVE  \A v \in Workers, p \in Pairs : Clearing(v, p) => Clearing(v, p)'
BY DEF OthersStay, Clearing, Mine, Rev

LEMMA CacheBegin ==
    ASSUME IInv, CacheOK, NEW w \in Workers, Begin(w)
    PROVE  CacheOK'
<1>1. /\ UNCHANGED <<friend, cache, wants, cut, stale>> /\ OthersStay(w)
      /\ call[w] = Idle
  BY StepStays DEF Begin, StartSend, StartRespond, StartCancel, StartRemove, StartBlock,
     StartGetFriends, Start
<1>2. call[w].pc = "idle"
  BY <1>1 DEF Idle
<1> QED
  BY <1>1, <1>2, NotClearing, CacheQuiet

LEMMA CacheOthers ==
    ASSUME IInv, CacheOK, NEW w \in Workers,
           \/ SendCheckBlocked(w) \/ SendFindPending(w) \/ SendFindPrevious(w)
           \/ SendUpsert(w) \/ Notify(w, "received") \/ Notify(w, "accepted")
           \/ Reject(w) \/ CancelDelete(w) \/ ReadFriends(w)
    PROVE  CacheOK'
<1>1. /\ UNCHANGED <<friend, cache, cut, stale>> /\ wants \subseteq wants'
      /\ call[w].pc \notin {"delAccepted", "delRemoved"} /\ OthersStay(w)
  BY StepStays DEF Step, SendCheckBlocked, SendFindPending, SendFindPrevious, SendUpsert,
     Notify, Reject, CancelDelete, ReadFriends, At
<1> QED
  BY <1>1, NotClearing, CacheQuiet

LEMMA CacheInvalidate ==
    ASSUME IInv, CacheOK, NEW w \in Workers, NEW pc \in {"delAccepted", "delRemoved"},
           NEW next, Invalidate(w, pc, next), OthersStay(w)
    PROVE  CacheOK'
<1>1. PICK a \in call[w].keys :
         /\ cache' = [cache EXCEPT ![a] = Miss]
         /\ stale' = stale \ {a}
         /\ IF call[w].keys # {a}
            THEN Move(w, pc, NoId, call[w].keys \ {a})
            ELSE IF next = "idle" THEN Return(w) ELSE Goto(w, next)
  BY DEF Invalidate
<1>2. UNCHANGED <<friend, wants, cut>> /\ call[w].pc = pc /\ a \in Accounts
  BY DEF Invalidate, At, IInv, TypeOK, CallRecords
<1>3. \A b \in Accounts : /\ cache'[b] = IF b = a THEN Miss ELSE cache[b]
                          /\ b # a /\ b \in stale => b \in stale'
  BY <1>1, <1>2 DEF IInv, TypeOK
<1>5. ASSUME NEW p \in Pairs, Clearing(w, p), p[1] # a  PROVE Clearing(w, p)'
  <2>1. Move(w, pc, NoId, call[w].keys \ {a})
    BY <1>1, <1>5 DEF Clearing
  <2>2. /\ call'[w].pc = pc /\ call'[w].keys = call[w].keys \ {a}
        /\ Mine(w)' = Mine(w)
    BY <2>1 DEF Move, Later, Mine, IInv, TypeOK
  <2> QED
    BY <1>5, <2>2 DEF Clearing, Rev
<1>6. \A v \in Workers, p \in Pairs :
         Clearing(v, p) => Clearing(v, p)' \/ cache'[p[1]] = Miss
  <2> SUFFICES ASSUME NEW v \in Workers, NEW p \in Pairs, Clearing(v, p), p[1] # a
               PROVE  Clearing(v, p)'
    BY <1>2, <1>3
  <2> QED
    BY <1>5 DEF OthersStay, Clearing, Mine, Rev
<1> QED
  BY <1>2, <1>3, <1>6, CacheQuiet

\* A handler that is cut off serves the pair whose entry it was to delete.
LEMMA CacheCrash ==
    ASSUME IInv, CacheOK, NEW w \in Workers, Crash(w)
    PROVE  CacheOK'
<1>1. /\ UNCHANGED <<friend, cache, wants, stale>> /\ cut \subseteq cut'
      /\ call[w].pc \in Committed => {Mine(w), Rev(Mine(w))} \subseteq cut'
      /\ OthersStay(w)
  BY StepStays DEF Crash
<1>2. \A p \in Pairs \ cut' : ~Clearing(w, p)
  BY <1>1 DEF Clearing, Committed
<1>3. \A v \in Workers, p \in Pairs \ cut' : Clearing(v, p) => Clearing(v, p)'
  BY <1>1, <1>2 DEF OthersStay, Clearing, Mine, Rev
<1> QED
  BY <1>1, <1>3, CacheQuiet

\* The list that getFriends stores is right about every account, or stale.
LEMMA CacheStored ==
    ASSUME IInv, CacheOK, ListRead, NEW w \in Workers, SetCache(w)
    PROVE  CacheOK'
<1>1. PICK a \in Accounts : a = call[w].me
  BY DEF SetCache, At, IInv, CallsOK
<1>2. /\ UNCHANGED <<friend, wants, cut>> /\ call[w].pc = "setCache" /\ OthersStay(w)
      /\ cache' = [cache EXCEPT ![a] = {call[w].keys}]
      /\ a \in stale' \/ call[w].keys = FriendsOf(a)
      /\ stale \ {a} \subseteq stale'
  BY <1>1, StepStays DEF SetCache, At, ListRead, Step, Hit
<1>3. \A b \in Accounts : cache'[b] = IF b = a THEN {call[w].keys} ELSE cache[b]
  BY <1>2 DEF IInv, TypeOK
<1>4. \A v \in Workers, p \in Pairs : Clearing(v, p) => Clearing(v, p)'
  BY <1>2, NotClearing
<1> SUFFICES ASSUME NEW p \in Pairs, p \notin cut', Wrong(p[1], p[2])'
             PROVE  \/ \E v \in Workers : Clearing(v, p)'
                    \/ Blockaded(p[1], p[2])' \/ p[1] \in stale'
  BY DEF CacheOK
<1>5. p[1] \in Accounts /\ p[2] \in Accounts /\ p[1] # p[2]
  BY PairFacts
<1>6. CASE p[1] = a
  <2> SUFFICES ASSUME call[w].keys = FriendsOf(a)
               PROVE  FALSE
    BY <1>2, <1>6
  <2>1. Listed(p[1], p[2])' <=> p[2] \in FriendsOf(a)
    BY <1>3, <1>5, <1>6 DEF Listed
  <2>2. p[2] \in FriendsOf(a) <=> Friends(p[1], p[2])
    BY <1>5, <1>6 DEF FriendsOf
  <2>3. Friends(p[1], p[2])' <=> Friends(p[1], p[2])
    BY <1>2 DEF Friends
  <2> QED
    BY <2>1, <2>2, <2>3, WrongMeans
<1>7. CASE p[1] # a
  <2>1. cache'[p[1]] = cache[p[1]] /\ (p[1] \in stale => p[1] \in stale')
    BY <1>2, <1>3, <1>5, <1>7
  <2>2. Wrong(p[1], p[2])
    BY <1>2, <2>1 DEF Wrong, Listed, Friends
  <2>3. Blockaded(p[1], p[2]) => Blockaded(p[1], p[2])'
    BY <1>2, <2>1 DEF Blockaded, Listed
  <2> QED
    BY <1>2, <1>4, <2>1, <2>2, <2>3 DEF CacheOK
<1> QED
  BY <1>6, <1>7

\* The friendships of no other pair change with the handler's.
LEMMA OtherFriends ==
    ASSUME NEW q \in Pairs, NEW p \in Pairs, p \notin {q, Rev(q)},
           \A r \in Pairs \ {q, Rev(q)} : friend'[r] = friend[r]
    PROVE  Friends(p[1], p[2])' <=> Friends(p[1], p[2])
<1>1. p = <<p[1], p[2]>> /\ Rev(p) = <<p[2], p[1]>> /\ Rev(p) \in Pairs \ {q, Rev(q)}
  BY PairFacts DEF Rev
<1> QED
  BY <1>1 DEF Friends

\* Accepting and removing leave the handler about to delete both entries.
LEMMA CacheCommit ==
    ASSUME IInv, CacheOK, NEW w \in Workers, AcceptTx(w) \/ RemoveTx(w)
    PROVE  CacheOK'
<1>0. PICK q \in Pairs : q = Mine(w)
  BY DEF AcceptTx, RemoveTx, At, IInv, CallsOK, PairPCs, PCs
<1>1. /\ UNCHANGED <<cache, cut, stale>> /\ Rev(q) \in Pairs
      /\ \A v \in Workers, p \in Pairs : Clearing(v, p) => Clearing(v, p)'
  <2>1. OthersStay(w) /\ call[w].pc \in {"accept", "remove"}
    BY StepStays DEF AcceptTx, RemoveTx, At, Step
  <2> QED
    BY <2>1, NotClearing, PairFacts DEF AcceptTx, RemoveTx
<1>2. CASE Return(w) /\ UNCHANGED <<friend, wants>>
  BY <1>1, <1>2, CacheQuiet
<1>3. CASE ~(Return(w) /\ UNCHANGED <<friend, wants>>)
  <2>1. /\ \A r \in Pairs \ {q, Rev(q)} : friend'[r] = friend[r]
        /\ wants \ {q, Rev(q)} \subseteq wants'
        /\ \E pc \in {"delAccepted", "delRemoved"} : \E events :
              Commit(w, Later(w, pc, NoId, {call[w].me, call[w].other}), events)
    <3>1. CASE AcceptTx(w)
      <4>1. Sorted(call[w].me, call[w].other) \in {q, Rev(q)}
        BY <1>0 DEF Sorted, Mine, Rev
      <4> QED
        BY <1>0, <1>3, <3>1, <4>1 DEF AcceptTx, IInv, TypeOK
    <3>2. CASE RemoveTx(w)
      BY <1>0, <1>3, <3>2 DEF RemoveTx
    <3> QED
      BY <3>1, <3>2
  <2>2. /\ call'[w].pc \in {"delAccepted", "delRemoved"}
        /\ call'[w].keys = {q[1], q[2]} /\ Mine(w)' = q
    BY <1>0, <2>1 DEF Commit, Later, Mine
  <2>3. \A p \in {q, Rev(q)} : Clearing(w, p)'
    <3>1. \A p \in {q, Rev(q)} : p[1] \in {q[1], q[2]}
      BY DEF Rev
    <3>2. Rev(q) = Rev(Mine(w))'
      BY <2>2 DEF Rev
    <3> QED
      BY <2>2, <3>1, <3>2 DEF Clearing
  <2> SUFFICES ASSUME NEW p \in Pairs \ {q, Rev(q)}, p \notin cut, Wrong(p[1], p[2])'
               PROVE  \/ \E v \in Workers : Clearing(v, p)'
                      \/ Blockaded(p[1], p[2])' \/ p[1] \in stale'
    BY <1>1, <2>3 DEF CacheOK
  <2>4. Wrong(p[1], p[2])
    <3>1. Friends(p[1], p[2])' <=> Friends(p[1], p[2])
      BY <2>1, OtherFriends
    <3>2. Listed(p[1], p[2])' <=> Listed(p[1], p[2])
      BY <1>1 DEF Listed
    <3> QED
      BY <1>1, <3>1, <3>2, WrongMeans
  <2>5. Blockaded(p[1], p[2]) => Blockaded(p[1], p[2])'
    <3>1. p = <<p[1], p[2]>> /\ Rev(p) = <<p[2], p[1]>> /\ Rev(p) \notin {q, Rev(q)}
      <4>1. p = <<p[1], p[2]>> /\ Rev(p) = <<p[2], p[1]>>
        BY PairFacts DEF Rev
      <4>2. Rev(Rev(p)) = p /\ Rev(Rev(q)) = q
        BY PairFacts
      <4> QED
        BY <4>1, <4>2
    <3> QED
      BY <1>1, <2>1, <3>1 DEF Blockaded, Listed
  <2> QED
    BY <1>1, <2>4, <2>5 DEF CacheOK
<1> QED
  BY <1>2, <1>3

\* blockUser takes away a friendship both accounts had consented to.
LEMMA CacheBlock ==
    ASSUME IInv, CacheOK, NEW w \in Workers, BlockTx(w)
    PROVE  CacheOK'
<1>0. PICK q \in Pairs : q = Mine(w)
  BY DEF BlockTx, At, IInv, CallsOK, PairPCs, PCs
<1>1. /\ UNCHANGED <<cache, cut, wants, stale>> /\ Rev(q) \in Pairs
      /\ \A v \in Workers, p \in Pairs : Clearing(v, p) => Clearing(v, p)'
  <2>1. OthersStay(w) /\ call[w].pc = "block"
    BY StepStays DEF BlockTx, At, Step
  <2> QED
    BY <2>1, NotClearing, PairFacts DEF BlockTx
<1>2. CASE UNCHANGED friend
  BY <1>1, <1>2, CacheQuiet
<1>3. CASE friend' = [p \in Pairs |-> IF p \in {q, Rev(q)} THEN NoId ELSE friend[p]]
  <2> SUFFICES ASSUME NEW p \in Pairs, p \notin cut, Wrong(p[1], p[2])',
                      ~\E v \in Workers : Clearing(v, p)
               PROVE  Blockaded(p[1], p[2]) \/ p[1] \in stale
    BY <1>1 DEF CacheOK, Blockaded, Listed
  <2>1. CASE Wrong(p[1], p[2])
    BY <2>1 DEF CacheOK
  <2>2. CASE ~Wrong(p[1], p[2])
    <3>1. /\ Listed(p[1], p[2])' <=> Listed(p[1], p[2])
          /\ cache'[p[1]] = cache[p[1]]
      BY <1>1 DEF Listed
    <3>2. p \in {q, Rev(q)}
      <4>1. ~(Friends(p[1], p[2])' <=> Friends(p[1], p[2]))
        BY <2>2, <3>1, WrongMeans
      <4> QED
        BY <1>3, <4>1, OtherFriends
    <3>3. /\ p = <<p[1], p[2]>> /\ Rev(p) = <<p[2], p[1]>>
          /\ Rev(p) \in Pairs /\ Rev(p) \in {q, Rev(q)} /\ Rev(Rev(p)) = p
      BY <3>2, PairFacts DEF Rev
    <3>4. ~Friends(p[1], p[2])'
      BY <1>3, <3>2, <3>3 DEF Friends
    <3>5. Friends(p[1], p[2]) /\ Listed(p[1], p[2])
      BY <2>2, <3>1, <3>4, WrongMeans
    <3>6. {p, Rev(p)} \subseteq wants
      BY <3>3, <3>5 DEF Friends, IInv, FriendsConsented
    <3> QED
      BY <3>3, <3>5, <3>6 DEF Blockaded
  <2> QED
    BY <2>1, <2>2
<1> QED
  BY <1>0, <1>2, <1>3 DEF BlockTx

LEMMA CacheEnvironment ==
    ASSUME IInv, CacheOK,
           \/ CleanupExpiredRequests
           \/ \E p \in Pairs : UnblockUser(p) \/ Age(p)
           \/ \E a \in Accounts : CacheExpires(a)
           \/ UNCHANGED vars
    PROVE  CacheOK'
<1>1. /\ UNCHANGED <<friend, call, wants, cut>>
      /\ \A a \in Accounts : cache'[a] # Miss =>
               cache'[a] = cache[a] /\ (a \in stale => a \in stale')
  BY DEF CleanupExpiredRequests, UnblockUser, Age, CacheExpires, vars, IInv, TypeOK
<1>2. \A v \in Workers, p \in Pairs : Clearing(v, p) => Clearing(v, p)'
  BY <1>1 DEF Clearing, Mine
<1> QED
  BY <1>1, <1>2, CacheQuiet

\* What a reader of the list has in hand when it comes to store it.
LEMMA ListReached ==
    ASSUME IInv, NEW w \in Workers, Begin(w) \/ Step(w) \/ Crash(w),
           call'[w].pc = "setCache"
    PROVE  /\ UNCHANGED friend /\ call'[w].me = call[w].me
           /\ call'[w].keys = FriendsOf(call[w].me)
<1>1. ~Begin(w)
  <2>1. ASSUME NEW pc, pc # "setCache", NEW a, NEW b, NEW id
        PROVE  ~Start(w, pc, a, b, id)
    BY <2>1, StartedAt
  <2> QED
    BY <2>1 DEF Begin, StartSend, StartRespond, StartCancel, StartRemove, StartBlock,
       StartGetFriends
<1>2. ~Return(w)
  BY IdleMeans
<1>3. ASSUME NEW pc, pc # "setCache", NEW id, NEW keys
      PROVE  ~Move(w, pc, id, keys)
  BY <1>3, MovedTo
<1>4. ASSUME NEW r, r.pc # "setCache", NEW events
      PROVE  ~Commit(w, r, events)
  BY <1>4 DEF Commit
<1>5. /\ Later(w, "received", NoId, {}).pc = "received"
      /\ \A keys : /\ Later(w, "delAccepted", NoId, keys).pc = "delAccepted"
                   /\ Later(w, "delRemoved", NoId, keys).pc = "delRemoved"
  BY DEF Later
<1>6. ReadFriends(w)
  BY <1>1, <1>2, <1>3, <1>4, <1>5, IdleFacts
  DEF Step, Crash, SendCheckBlocked, SendFindPending, SendFindPrevious, SendUpsert, Notify,
      AcceptTx, Reject, CancelDelete, RemoveTx, BlockTx, Invalidate, SetCache, Goto
<1> QED
  BY <1>6 DEF ReadFriends, Move, Later, IInv, TypeOK

\* A change of the friends of a reader overtakes it.
LEMMA ChangeOvertakes ==
    ASSUME IInv, NEW w \in Workers, NEW r, NEW events, Commit(w, r, events),
           "friends" \in events, NEW v \in Workers, v # w, call[v].pc = "setCache",
           call[v].me \in {Mine(w)[1], Mine(w)[2]}
    PROVE  "friends" \in call'[v].missed
<1> DEFINE m == call[v].missed \union {e \in events : Overtakes(e, Mine(w), v)}
<1>1. call'[v] = [call[v] EXCEPT !.missed = m]
  BY DEF Commit
<1>2. "friends" \in m
  BY DEF Overtakes
<1>3. call[v] \in CallRecords
  BY DEF IInv, TypeOK
<1> HIDE DEF m
<1> QED
  BY <1>1, <1>2, <1>3 DEF CallRecords

LEMMA ListReadStep ==
    ASSUME IInv, ListRead, [Next]_vars
    PROVE  ListRead'
<1> SUFFICES ASSUME NEW v \in Workers, call'[v].pc = "setCache",
                    "friends" \notin call'[v].missed
             PROVE  call'[v].keys = FriendsOf(call[v].me)'
  BY DEF ListRead
<1>1. CASE Begin(v) \/ Step(v) \/ Crash(v)
  BY <1>1, ListReached DEF FriendsOf, Friends
<1>2. CASE ~(Begin(v) \/ Step(v) \/ Crash(v))
  <2>1. /\ call'[v].pc = call[v].pc /\ call'[v].me = call[v].me
        /\ call'[v].keys = call[v].keys /\ call[v].missed \subseteq call'[v].missed
    <3>1. CASE \E w \in Workers : Begin(w) \/ Step(w) \/ Crash(w)
      BY <1>2, <3>1, StepStays DEF OthersStay
    <3>2. CASE UNCHANGED call
      BY <3>2
    <3> QED
      BY <3>1, <3>2 DEF Next, vars, CleanupExpiredRequests, UnblockUser, Age, CacheExpires
  <2>2. call[v].keys = FriendsOf(call[v].me) /\ call[v].me \in Accounts
    BY <2>1 DEF ListRead, IInv, CallsOK
  <2>3. CASE UNCHANGED friend
    BY <2>1, <2>2, <2>3 DEF FriendsOf, Friends
  <2>4. ASSUME NEW w \in Workers, AcceptTx(w) \/ RemoveTx(w) \/ BlockTx(w),
               friend' # friend
        PROVE  call'[v].keys = FriendsOf(call[v].me)'
    <3>1. PICK q \in Pairs : q = Mine(w)
      BY <2>4 DEF AcceptTx, RemoveTx, BlockTx, At, IInv, CallsOK, PairPCs, PCs
    <3>2. /\ \A r \in Pairs \ {q, Rev(q)} : friend'[r] = friend[r]
          /\ \E r, events : "friends" \in events /\ Commit(w, r, events)
      <4>1. Sorted(call[w].me, call[w].other) \in {q, Rev(q)}
        BY <3>1 DEF Sorted, Mine, Rev
      <4> QED
        BY <2>4, <3>1, <4>1 DEF AcceptTx, RemoveTx, BlockTx, IInv, TypeOK
    <3>3. v # w
      BY <1>2, <2>4 DEF Step
    <3>4. call[v].me \notin {q[1], q[2]}
      BY <2>1, <3>1, <3>2, <3>3, ChangeOvertakes
    <3>5. ASSUME NEW b \in Accounts \ {call[v].me}
          PROVE  Friends(call[v].me, b)' <=> Friends(call[v].me, b)
      <4>1. PICK a \in Accounts : a = call[v].me
        BY <2>2
      <4>2. <<a, b>> \in Pairs /\ <<a, b>> \notin {q, Rev(q)}
        BY <3>4, <4>1 DEF Pairs, Rev
      <4>3. Friends(a, b)' <=> Friends(a, b)
        BY <3>2, <4>2, OtherFriends
      <4> QED
        BY <2>1, <4>1, <4>3 DEF Friends
    <3> QED
      BY <2>1, <2>2, <3>5 DEF FriendsOf
  <2> QED
    BY <2>3, <2>4
    DEF Next, Begin, StartSend, StartRespond, StartCancel, StartRemove, StartBlock,
        StartGetFriends, Step, SendCheckBlocked, SendFindPending, SendFindPrevious,
        SendUpsert, Notify, Reject, CancelDelete, Invalidate, ReadFriends, SetCache,
        Crash, CleanupExpiredRequests, UnblockUser, Age, CacheExpires, vars
<1> QED
  BY <1>1, <1>2

\* A cached list is wrong only for a pair of which a handler was cut off, while
\* the entry is about to be deleted, after a block, or when the list was read
\* before a change and stored after it: the cache survives every other
\* interleaving of getFriends with accepts and removals.
THEOREM CacheFollows == Spec => []CacheCurrent
<1>1. Init => CacheOK /\ ListRead
  BY IdleFacts DEF Init, CacheOK, ListRead, Wrong, Miss, Pairs
<1>2. IInv /\ CacheOK /\ ListRead /\ [Next]_vars => CacheOK' /\ ListRead'
  <2> SUFFICES ASSUME IInv, CacheOK, ListRead, [Next]_vars PROVE CacheOK'
    BY ListReadStep
  <2>1. ASSUME NEW w \in Workers, Begin(w) \/ Step(w) \/ Crash(w)  PROVE CacheOK'
    <3>1. OthersStay(w)
      BY <2>1, StepStays
    <3> QED
      BY <2>1, <3>1, CacheBegin, CacheOthers, CacheInvalidate, CacheCrash, CacheStored,
         CacheCommit, CacheBlock DEF Step
  <2> QED
    BY <2>1, CacheEnvironment DEF Next
<1>3. CacheOK => CacheCurrent
  BY DEF CacheOK, CacheCurrent, Clearing
<1> QED
  BY <1>1, <1>2, <1>3, Invariance, PTL DEF Spec
=============================================================================
