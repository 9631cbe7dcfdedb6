------------------------ MODULE MessageArchiveProofs ------------------------
(***************************************************************************)
(* The safety of the two collections, for every number of messages, batch  *)
(* size, number of handlers and number of servers that run the nightly     *)
(* job, whatever the handlers do and wherever they and the archivers are   *)
(* cut off: no message is lost, the hot collection has the newest ones if  *)
(* finds go in the order of the ids, and a toggle that is not late adds no *)
(* second reaction.                                                        *)
(***************************************************************************)
EXTENDS MessageArchive, FiniteSetTheorems, TLAPS

-----------------------------------------------------------------------------
(* The inductive invariant: what the calls know, and what is stored.       *)

Updates == {"unsend", "edit", "deleteForMe", "pin", "unpin"}

ReactPCs == {"reactHot", "reactArchive", "toggleHot", "toggleArchive", "pushHot",
             "pushHotOnly", "pushArchive"}

\* A call that updates a message has one, and only such a call reaches an
\* update.
CallOK(r) ==
    /\ r \in CallRecords
    /\ r.pc \in {"updateHot", "updateArchive"} => r.op \in Updates
    /\ r.op \in Updates \/ r.pc \in ReactPCs => r.id \in Ids

CallsOK == /\ call \in [Workers -> CallRecords]
           /\ \A w \in Workers : CallOK(call[w])

IsColl(coll) == coll \in [Ids -> Docs \union {NoDoc}]

StoreType ==
    /\ IsColl(hot) /\ IsColl(archive)
    /\ last \in 0 .. MaxMessages
    /\ cutoff \in 0 .. MaxMessages
    /\ archiver \in [Archivers -> ArchiverRecords]
    /\ crashes \in 0 .. MaxCrashes
    /\ unsent \subseteq Ids

\* An archiver moves messages that exist, and deletes only what is stored in
\* the archive.
BatchKnown == \A a \in Archivers : Batch(a) \subseteq 1 .. last
BatchStored ==
    \A a \in Archivers : archiver[a].pc = "delete" => Batch(a) \subseteq Stored(archive)

StoreOK == StoreType /\ BatchKnown /\ BatchStored /\ NothingLost

IInv == CallsOK /\ StoreOK

LEMMA TypeOfParts == CallsOK /\ StoreType => TypeOK
BY DEF CallsOK, StoreType, IsColl, TypeOK

-----------------------------------------------------------------------------
(* Documents and collections.                                              *)

LEMMA NoDocIsNone == NoDoc \notin Docs
BY BoundsAssumption DEF NoDoc, Docs

LEMMA KnownIds == ASSUME StoreType PROVE 1 .. last \subseteq Ids
BY BoundsAssumption DEF StoreType, Ids

\* Marking a stored document keeps the collection's type and what is stored.
LEMMA MarkKeeps ==
    ASSUME NEW coll, IsColl(coll), NEW i \in Ids, coll[i] # NoDoc,
           NEW op \in Updates
    PROVE  LET new == [coll EXCEPT ![i].marks = Mark(op, @)] IN
           IsColl(new) /\ Stored(new) = Stored(coll)
<1> DEFINE new == [coll EXCEPT ![i].marks = Mark(op, @)]
<1>1. coll[i] \in Docs
  BY DEF IsColl
<1>2. Mark(op, coll[i].marks) \subseteq Marks
  BY <1>1 DEF Mark, Marks, Docs, Updates
<1>3. [coll[i] EXCEPT !.marks = Mark(op, coll[i].marks)] \in Docs
  BY <1>1, <1>2 DEF Docs
<1>4. new = [coll EXCEPT ![i] = [coll[i] EXCEPT !.marks = Mark(op, coll[i].marks)]]
  BY DEF IsColl
<1>5. IsColl(new)
  BY <1>3, <1>4 DEF IsColl
<1>6. \A j \in Ids : new[j] # NoDoc <=> coll[j] # NoDoc
  BY <1>3, <1>4, NoDocIsNone DEF IsColl
<1> QED
  BY <1>5, <1>6 DEF Stored

\* So does clearing the snapshots of the replies to a message.
LEMMA ClearKeeps ==
    ASSUME NEW coll, IsColl(coll), NEW i
    PROVE  IsColl(Cleared(coll, i)) /\ Stored(Cleared(coll, i)) = Stored(coll)
<1>1. \A j \in Ids : coll[j] # NoDoc =>
         [coll[j] EXCEPT !.quote = FALSE] \in Docs
  BY DEF IsColl, Docs
<1>2. \A j \in Ids : Cleared(coll, i)[j] \in Docs \union {NoDoc}
  BY <1>1 DEF Cleared, IsColl
<1>3. \A j \in Ids : Cleared(coll, i)[j] # NoDoc <=> coll[j] # NoDoc
  BY <1>1, NoDocIsNone DEF Cleared
<1> QED
  BY <1>2, <1>3 DEF Cleared, IsColl, Stored

\* The quotes in a page are of messages.
LEMMA QuotesTyped ==
    ASSUME NEW coll, IsColl(coll), NEW S, S \subseteq Stored(coll)
    PROVE  Quotes(coll, S) \subseteq Ids \X Ids
<1>1. \A i \in S : i \in Ids /\ coll[i] \in Docs
  BY DEF IsColl, Stored
<1>2. \A i \in S : coll[i].reply # 0 => coll[i].reply \in Ids
  BY <1>1, BoundsAssumption DEF Docs, Ids
<1> QED
  BY <1>1, <1>2 DEF Quotes

\* A step that leaves what is stored where it is.
LEMMA SameStored ==
    ASSUME StoreOK, StoreType', Stored(hot') = Stored(hot),
           Stored(archive') = Stored(archive), last' = last,
           UNCHANGED archiver
    PROVE  StoreOK'
BY DEF StoreOK, BatchKnown, BatchStored, NothingLost, Batch

LEMMA ReadsOnlyStore == ASSUME StoreOK, ReadsOnly PROVE StoreOK'
BY DEF StoreOK, StoreType, BatchKnown, BatchStored, NothingLost, Batch,
       Stored, IsColl, ReadsOnly

-----------------------------------------------------------------------------
(* Calls.                                                                  *)

LEMMA IdleOK == CallOK(Idle)
BY BoundsAssumption DEF CallOK, Idle, CallRecords, PCs, Updates, ReactPCs

LEMMA SetCall ==
    ASSUME CallsOK, NEW w \in Workers, NEW r, CallOK(r), Set(w, r)
    PROVE  CallsOK'
BY DEF CallsOK, CallOK, Set

LEMMA ReturnCall == ASSUME CallsOK, NEW w \in Workers, Return(w) PROVE CallsOK'
BY IdleOK, SetCall DEF Return

LEMMA GotoCall ==
    ASSUME CallsOK, NEW w \in Workers, NEW pc \in PCs, Goto(w, pc),
           pc \in {"updateHot", "updateArchive"} => call[w].op \in Updates,
           pc \in ReactPCs => call[w].id \in Ids
    PROVE  CallsOK'
<1>1. CallOK(call[w])
  BY DEF CallsOK
<1>2. CallOK([call[w] EXCEPT !.pc = pc])
  BY <1>1 DEF CallOK, CallRecords
<1> QED
  BY <1>2, SetCall DEF Goto

LEMMA StartCall ==
    ASSUME CallsOK, NEW w \in Workers, NEW op \in AllCalls, NEW pc \in PCs,
           NEW i \in 0 .. MaxMessages, NEW cursor \in 0 .. (MaxMessages + 1),
           pc \in {"updateHot", "updateArchive"} => op \in Updates,
           op \in Updates \/ pc \in ReactPCs => i \in Ids, unsent \subseteq Ids,
           last \in 0 .. MaxMessages,
           Start(w, op, pc, i, cursor)
    PROVE  CallsOK' /\ ReadsOnly
<1> DEFINE r == [Idle EXCEPT !.op = op, !.pc = pc, !.id = i, !.cursor = cursor,
                             !.gone = unsent, !.since = last]
<1>1. CallOK(r)
  BY BoundsAssumption DEF CallOK, Idle, CallRecords
<1>2. Set(w, r)
  BY DEF Start, Set
<1> QED
  BY <1>1, <1>2, SetCall DEF Start, ReadsOnly

-----------------------------------------------------------------------------
(* The steps.                                                              *)

LEMMA InitIInv == Init => IInv
<1> SUFFICES ASSUME Init PROVE IInv
  OBVIOUS
<1>1. CallsOK
  BY IdleOK DEF Init, CallsOK, CallOK
<1>2. StoreType
  BY BoundsAssumption DEF Init, StoreType, IsColl, ArchiverRecords, ArchiverIdle, NoBatch, Ids
<1>3. BatchKnown /\ BatchStored /\ NothingLost
  BY DEF Init, BatchKnown, BatchStored, NothingLost, Batch, Stored, ArchiverIdle, NoBatch
<1> QED
  BY <1>1, <1>2, <1>3 DEF IInv, StoreOK

LEMMA BeginStep == ASSUME IInv, NEW w \in Workers, Begin(w) PROVE IInv'
<1> USE DEF AllCalls, PCs, Updates, ReactPCs
<1>0. /\ CallsOK /\ StoreOK /\ 1 .. last \subseteq Ids /\ MaxMessages \in Nat
      /\ unsent \subseteq Ids /\ last \in 0 .. MaxMessages
  BY KnownIds, BoundsAssumption DEF IInv, StoreOK, StoreType
<1>1. \A i \in Ids : i \in 0 .. MaxMessages /\ i \in 0 .. (MaxMessages + 1)
  BY <1>0 DEF Ids
<1>2. CallsOK' /\ ReadsOnly
  <2>1. CASE Start(w, "create", "save", 0, 0)
    BY <1>0, <2>1, StartCall
  <2>2. ASSUME NEW i \in 1 .. last, Start(w, "create", "findHot", i, 0)
        PROVE  CallsOK' /\ ReadsOnly
    BY <1>0, <1>1, <2>2, StartCall
  <2>3. ASSUME NEW i \in 1 .. last, Start(w, "unsend", "findHot", i, 0)
        PROVE  CallsOK' /\ ReadsOnly
    BY <1>0, <1>1, <2>3, StartCall
  <2>4. ASSUME NEW i \in 1 .. last, NEW op \in {"edit", "deleteForMe", "pin", "unpin"},
               Start(w, op, "updateHot", i, 0)
        PROVE  CallsOK' /\ ReadsOnly
    <3>1. op \in Updates /\ op \in AllCalls /\ i \in Ids
      BY <1>0
    <3> QED
      BY <1>0, <1>1, <2>4, <3>1, StartCall
  <2>5. ASSUME NEW i \in 1 .. last, Start(w, "react", "reactHot", i, 0)
        PROVE  CallsOK' /\ ReadsOnly
    BY <1>0, <1>1, <2>5, StartCall
  <2>6. ASSUME NEW op \in {"page", "search"}, NEW c \in 1 .. last \union {MaxMessages + 1},
               Start(w, op, "pageHot", 0, c)
        PROVE  CallsOK' /\ ReadsOnly
    <3>1. op \in AllCalls /\ c \in 0 .. (MaxMessages + 1)
      BY <1>0, <1>1
    <3> QED
      BY <1>0, <2>6, <3>1, StartCall
  <2> QED
    BY <2>1, <2>2, <2>3, <2>4, <2>5, <2>6 DEF Begin
<1> QED
  BY <1>0, <1>2, ReadsOnlyStore DEF IInv

\* The steps of the handlers that write.
LEMMA SaveStep == ASSUME IInv, NEW w \in Workers, CreateSave(w) PROVE IInv'
<1> DEFINE doc == [marks |-> {}, reactions |-> "none", reply |-> call[w].id, quote |-> call[w].quote]
<1>1. CallsOK'
  BY ReturnCall DEF IInv, CreateSave
<1>2. CASE ~Valid(doc)
  <2>1. ReadsOnly
    BY <1>2 DEF CreateSave, ReadsOnly
  <2> QED
    BY <1>1, <2>1, ReadsOnlyStore DEF IInv
<1>3. CASE Valid(doc)
  <2>1. /\ last' = last + 1 /\ hot' = [hot EXCEPT ![last + 1] = doc]
        /\ last < MaxMessages
        /\ UNCHANGED <<archive, cutoff, archiver, crashes, unsent>>
    BY <1>3 DEF CreateSave
  <2>2. doc \in Docs /\ doc # NoDoc
    BY NoDocIsNone DEF IInv, CallsOK, CallOK, CallRecords, Docs, Marks, Reactions
  <2>3. last + 1 \in Ids /\ last' \in 0 .. MaxMessages /\ 1 .. last' = 1 .. last \union {last + 1}
    BY <2>1, BoundsAssumption DEF IInv, StoreOK, StoreType, Ids
  <2>4. IsColl(hot')
    BY <2>1, <2>2 DEF IInv, StoreOK, StoreType, IsColl
  <2>5. StoreType'
    BY <2>1, <2>3, <2>4 DEF IInv, StoreOK, StoreType, IsColl
  <2>6. Stored(hot') = Stored(hot) \union {last + 1}
    BY <2>1, <2>2, <2>3 DEF IInv, StoreOK, StoreType, IsColl, Stored
  <2>7. NothingLost'
    BY <2>1, <2>3, <2>6 DEF IInv, StoreOK, NothingLost, Stored
  <2>8. BatchKnown' /\ BatchStored'
    BY <2>1, <2>3 DEF IInv, StoreOK, BatchKnown, BatchStored, Batch, Stored
  <2> QED
    BY <1>1, <2>5, <2>7, <2>8 DEF IInv, StoreOK
<1> QED
  BY <1>2, <1>3

LEMMA AfterUpdateCall ==
    ASSUME CallsOK, NEW w \in Workers, AfterUpdate(w), call[w].id \in Ids, unsent \subseteq Ids
    PROVE  CallsOK' /\ unsent' \subseteq Ids
BY ReturnCall, GotoCall DEF AfterUpdate, PCs, ReactPCs

LEMMA UpdateStep ==
    ASSUME IInv, NEW w \in Workers, UpdateHot(w) \/ UpdateArchive(w)
    PROVE  IInv'
<1> DEFINE i == call[w].id
           op == call[w].op
<1>1. CallsOK /\ StoreOK /\ StoreType /\ op \in Updates /\ i \in Ids
  BY DEF IInv, StoreOK, CallsOK, CallOK, UpdateHot, UpdateArchive, At
<1>2. CASE UpdateHot(w) /\ Matches(op, hot[i])
  <2>1. /\ hot' = [hot EXCEPT ![i].marks = Mark(op, @)]
        /\ AfterUpdate(w) /\ hot[i] # NoDoc
        /\ UNCHANGED <<archive, last, cutoff, archiver, crashes>>
    BY <1>2 DEF UpdateHot, Matches
  <2>2. IsColl(hot') /\ Stored(hot') = Stored(hot)
    BY <1>1, <2>1, MarkKeeps DEF StoreType
  <2>3. StoreType'
    BY <1>1, <2>1, <2>2, AfterUpdateCall DEF StoreType, IsColl
  <2> QED
    BY <1>1, <2>1, <2>2, <2>3, SameStored, AfterUpdateCall DEF IInv, StoreType
<1>3. CASE UpdateHot(w) /\ ~Matches(op, hot[i])
  <2>1. Goto(w, "updateArchive") /\ ReadsOnly
    BY <1>3 DEF UpdateHot, ReadsOnly
  <2> QED
    BY <1>1, <2>1, GotoCall, ReadsOnlyStore DEF IInv, PCs, ReactPCs
<1>4. CASE UpdateArchive(w) /\ Matches(op, archive[i])
  <2>1. /\ archive' = [archive EXCEPT ![i].marks = Mark(op, @)]
        /\ AfterUpdate(w) /\ archive[i] # NoDoc
        /\ UNCHANGED <<hot, last, cutoff, archiver, crashes>>
    BY <1>4 DEF UpdateArchive, Matches
  <2>2. IsColl(archive') /\ Stored(archive') = Stored(archive)
    BY <1>1, <2>1, MarkKeeps DEF StoreType
  <2>3. StoreType'
    BY <1>1, <2>1, <2>2, AfterUpdateCall DEF StoreType, IsColl
  <2> QED
    BY <1>1, <2>1, <2>2, <2>3, SameStored, AfterUpdateCall DEF IInv, StoreType
<1>5. CASE UpdateArchive(w) /\ ~Matches(op, archive[i])
  <2>1. Return(w) /\ ReadsOnly
    BY <1>5 DEF UpdateArchive, ReadsOnly
  <2> QED
    BY <1>1, <2>1, ReturnCall, ReadsOnlyStore DEF IInv
<1> QED
  BY <1>2, <1>3, <1>4, <1>5

\* So do the changes of a reaction.
LEMMA ReactionKeeps ==
    ASSUME NEW coll, IsColl(coll), NEW i \in Ids
    PROVE  /\ IsColl(Pulled(coll, i)) /\ Stored(Pulled(coll, i)) = Stored(coll)
           /\ \A late \in BOOLEAN : coll[i] # NoDoc =>
                IsColl(Pushed(coll, i, late)) /\ Stored(Pushed(coll, i, late)) = Stored(coll)
<1>1. ASSUME NEW r \in Reactions, coll[i] # NoDoc,
             NEW new, new = [coll EXCEPT ![i] = [coll[i] EXCEPT !.reactions = r]]
      PROVE  IsColl(new) /\ Stored(new) = Stored(coll)
  <2>1. coll[i] \in Docs /\ [coll[i] EXCEPT !.reactions = r] \in Docs
    BY <1>1 DEF IsColl, Docs
  <2>2. IsColl(new)
    BY <1>1, <2>1 DEF IsColl
  <2>3. \A j \in Ids : new[j] # NoDoc <=> coll[j] # NoDoc
    BY <1>1, <2>1, NoDocIsNone DEF IsColl
  <2> QED
    BY <2>2, <2>3 DEF Stored
<1>2. CASE coll[i] = NoDoc
  <2>1. Pulled(coll, i) = coll
    BY <1>2 DEF Pulled, IsColl
  <2> QED
    BY <1>2, <2>1
<1>3. CASE coll[i] # NoDoc
  <2>1. Pulled(coll, i) = [coll EXCEPT ![i] = [coll[i] EXCEPT !.reactions = "none"]]
    BY <1>3 DEF Pulled
  <2>2. \A late \in BOOLEAN : \E r \in Reactions :
          Pushed(coll, i, late) = [coll EXCEPT ![i] = [coll[i] EXCEPT !.reactions = r]]
    BY <1>3 DEF Pushed, Reactions
  <2>3. IsColl(Pulled(coll, i)) /\ Stored(Pulled(coll, i)) = Stored(coll)
    BY <1>1, <1>3, <2>1 DEF Reactions
  <2>4. ASSUME NEW late \in BOOLEAN
        PROVE  IsColl(Pushed(coll, i, late)) /\ Stored(Pushed(coll, i, late)) = Stored(coll)
    <3>1. PICK r \in Reactions :
            Pushed(coll, i, late) = [coll EXCEPT ![i] = [coll[i] EXCEPT !.reactions = r]]
      BY <2>2
    <3> QED
      BY <1>1, <1>3, <3>1
  <2> QED
    BY <2>3, <2>4
<1> QED
  BY <1>2, <1>3

LEMMA ReturnReactedCall ==
    ASSUME CallsOK, NEW w \in Workers, ReturnReacted(w) PROVE CallsOK'
<1>1. \A v \in Workers : CallOK([call[v] EXCEPT !.late = TRUE])
  BY DEF CallsOK, CallOK, CallRecords
<1>2. \A v \in Workers : CallOK(call'[v])
  BY <1>1, IdleOK DEF ReturnReacted, CallsOK
<1>3. call' \in [Workers -> CallRecords]
  BY <1>2 DEF ReturnReacted, CallOK
<1> QED
  BY <1>2, <1>3 DEF CallsOK

\* The steps of a toggle that write.
LEMMA ReactStep ==
    ASSUME IInv, NEW w \in Workers,
           ToggleHot(w) \/ ToggleArchive(w) \/ PushHot(w) \/ PushArchive(w)
    PROVE  IInv'
<1> DEFINE i == call[w].id
<1>0. /\ CallsOK /\ StoreOK /\ StoreType /\ CallOK(call[w]) /\ i \in Ids
      /\ call[w].late \in BOOLEAN
  BY DEF IInv, StoreOK, CallsOK, CallOK, CallRecords, ReactPCs, ToggleHot, ToggleArchive,
         PushHot, PushArchive, At
<1>1. /\ ReturnReacted(w) \/ Return(w) \/ Goto(w, "pushHotOnly") \/ Goto(w, "pushArchive")
      /\ UNCHANGED <<last, cutoff, archiver, crashes, unsent>>
  BY DEF ToggleHot, ToggleArchive, PushHot, PushArchive
<1>2. CallsOK'
  BY <1>0, <1>1, ReturnReactedCall, ReturnCall, GotoCall DEF PCs
<1>3. /\ \/ hot' = Pulled(hot, i)
         \/ hot[i] # NoDoc /\ hot' = Pushed(hot, i, call[w].late)
         \/ hot' = hot
      /\ \/ archive' = Pulled(archive, i)
         \/ archive[i] # NoDoc /\ archive' = Pushed(archive, i, call[w].late)
         \/ archive' = archive
  BY DEF ToggleHot, ToggleArchive, PushHot, PushArchive
<1>4. IsColl(hot') /\ Stored(hot') = Stored(hot)
  BY <1>0, <1>3, ReactionKeeps DEF StoreType
<1>5. IsColl(archive') /\ Stored(archive') = Stored(archive)
  BY <1>0, <1>3, ReactionKeeps DEF StoreType
<1>6. StoreType'
  BY <1>0, <1>1, <1>4, <1>5 DEF StoreType
<1> QED
  BY <1>0, <1>1, <1>2, <1>4, <1>5, <1>6, SameStored DEF IInv

LEMMA ClearStep ==
    ASSUME IInv, NEW w \in Workers, ClearHot(w) \/ ClearArchive(w)
    PROVE  IInv'
<1>0. CallsOK /\ StoreOK /\ StoreType
  BY DEF IInv, StoreOK
<1>1. CASE ClearHot(w)
  <2>1. /\ hot' = Cleared(hot, call[w].id) /\ Goto(w, "clearArchive")
        /\ UNCHANGED <<archive, last, cutoff, archiver, crashes, unsent>>
    BY <1>1 DEF ClearHot
  <2>2. IsColl(hot') /\ Stored(hot') = Stored(hot)
    BY <1>0, <2>1, ClearKeeps DEF StoreType
  <2>3. StoreType'
    BY <1>0, <2>1, <2>2 DEF StoreType, IsColl
  <2> QED
    BY <1>0, <2>1, <2>2, <2>3, SameStored, GotoCall DEF IInv, PCs, ReactPCs
<1>2. CASE ClearArchive(w)
  <2>1. /\ archive' = Cleared(archive, call[w].id) /\ Return(w)
        /\ UNCHANGED <<hot, last, cutoff, archiver, crashes, unsent>>
    BY <1>2 DEF ClearArchive
  <2>2. IsColl(archive') /\ Stored(archive') = Stored(archive)
    BY <1>0, <2>1, ClearKeeps DEF StoreType
  <2>3. StoreType'
    BY <1>0, <2>1, <2>2 DEF StoreType, IsColl
  <2> QED
    BY <1>0, <2>1, <2>2, <2>3, SameStored, ReturnCall DEF IInv
<1> QED
  BY <1>1, <1>2

\* The steps of the handlers that only read.
LEMMA ReadStep ==
    ASSUME IInv, NEW w \in Workers,
           \/ CreateFindOriginal(w)
           \/ UnsendFind(w, hot, "findHot", "findArchive")
           \/ UnsendFind(w, archive, "findArchive", "idle")
           \/ ReactFind(w, hot, "reactHot", "toggleHot", "reactArchive")
           \/ ReactFind(w, archive, "reactArchive", "toggleArchive", "pushHot")
           \/ PageHot(w) \/ PageArchive(w)
           \/ Mask(w, hot, "maskHot", "maskArchive") \/ Mask(w, archive, "maskArchive", "done")
           \/ PageDone(w)
    PROVE  IInv'
<1> USE DEF PCs, ReactPCs
<1>0. CallsOK /\ StoreOK /\ StoreType /\ CallOK(call[w]) /\ MaxMessages \in Nat
  BY BoundsAssumption DEF IInv, StoreOK, CallsOK
<1>1. ReadsOnly
  BY DEF CreateFindOriginal, UnsendFind, ReactFind, PageHot, PageArchive, Mask, PageDone
<1>2. CallsOK'
  <2>1. CASE CreateFindOriginal(w)
    <3> DEFINE doc == hot[call[w].id]
               found == [call[w] EXCEPT !.pc = "save", !.quote = "unsent" \notin doc.marks]
               none == [call[w] EXCEPT !.pc = "save", !.id = 0]
    <3>1. ASSUME NEW q \in BOOLEAN PROVE CallOK([call[w] EXCEPT !.pc = "save", !.quote = q])
      BY <1>0 DEF CallOK, CallRecords
    <3>2. CallOK(found)
      BY <3>1
    <3>3. ASSUME call[w].op = "create" PROVE CallOK(none)
      <4>1. none \in CallRecords
        BY <1>0, 0 \in 0 .. MaxMessages DEF CallOK, CallRecords
      <4>2. none.op = "create" /\ none.pc = "save"
        BY <1>0, <3>3 DEF CallOK, CallRecords
      <4> QED
        BY <4>1, <4>2 DEF CallOK, Updates
    <3>4. call[w].op = "create" /\ (Set(w, none) \/ Return(w) \/ Set(w, found))
      BY <2>1 DEF CreateFindOriginal
    <3> QED
      BY <1>0, <3>2, <3>3, <3>4, SetCall, ReturnCall
  <2>2. ASSUME NEW coll, NEW pc, NEW next \in {"findArchive", "idle"},
               UnsendFind(w, coll, pc, next)
        PROVE  CallsOK'
    <3>1. \/ Return(w) \/ Goto(w, next)
          \/ call[w].op = "unsend" /\ Goto(w, "updateHot")
      BY <2>2 DEF UnsendFind
    <3> QED
      BY <1>0, <3>1, ReturnCall, GotoCall DEF Updates
  <2>3. CASE PageHot(w)
    <3> DEFINE c == call[w].cursor
               op == call[w].op
               due == Newest(Visible(hot, c, op) \union Visible(archive, c, op), PageLimit)
               page == Newest(Visible(hot, c, op), PageLimit)
               quoting == Quotes(hot, page)
               old == [call[w] EXCEPT !.pc = "pageArchive", !.due = due]
               new == [call[w] EXCEPT
                  !.pc = IF Cardinality(page) < PageLimit THEN "pageArchive" ELSE "maskHot",
                  !.page = page, !.due = due, !.quoting = quoting]
    <3>1. page \subseteq Ids /\ due \subseteq Ids
      BY DEF Newest, Visible, Stored
    <3>2. quoting \subseteq Ids \X Ids
      BY <1>0, <3>1, QuotesTyped DEF StoreType, Newest, Visible
    <3> HIDE DEF page, due, quoting
    <3>3. CallOK(old) /\ CallOK(new)
      BY <1>0, <3>1, <3>2 DEF CallOK, CallRecords
    <3>4. Set(w, old) \/ Set(w, new)
      BY <2>3 DEF PageHot, page, due, quoting
    <3> QED
      BY <1>0, <3>3, <3>4, SetCall
  <2>4. CASE PageArchive(w)
    <3> DEFINE below == IF call[w].page = {} THEN call[w].cursor ELSE Min(call[w].page)
               rest == Newest(Visible(archive, below, call[w].op),
                              PageLimit - Cardinality(call[w].page))
               quoting == Quotes(archive, rest)
               new == [call[w] EXCEPT !.pc = "maskHot", !.page = @ \union rest,
                                      !.quoting = @ \union quoting]
    <3>1. rest \subseteq Ids
      BY DEF Newest, Visible, Stored
    <3>2. quoting \subseteq Ids \X Ids
      BY <1>0, <3>1, QuotesTyped DEF StoreType, Newest, Visible
    <3>3. Set(w, new)
      BY <2>4 DEF PageArchive
    <3> HIDE DEF rest, quoting
    <3>4. CallOK(new)
      BY <1>0, <3>1, <3>2 DEF CallOK, CallRecords
    <3> QED
      BY <1>0, <3>3, <3>4, SetCall
  <2>5. ASSUME NEW coll, NEW pc, NEW next \in {"maskArchive", "done"},
               Mask(w, coll, pc, next)
        PROVE  CallsOK'
    <3> DEFINE new == [call[w] EXCEPT !.pc = next, !.masked = @ \union Hidden(w, coll)]
    <3>1. Hidden(w, coll) \subseteq Ids
      BY <1>0 DEF Hidden, CallOK, CallRecords
    <3>2. CallOK(new)
      BY <1>0, <3>1 DEF CallOK, CallRecords
    <3> QED
      BY <1>0, <2>5, <3>2, SetCall DEF Mask
  <2>6. CASE PageDone(w)
    BY <1>0, <2>6, ReturnCall DEF PageDone
  <2>7. ASSUME NEW coll, NEW pc \in ReactPCs, NEW found \in ReactPCs, NEW next \in ReactPCs,
               ReactFind(w, coll, pc, found, next)
        PROVE  CallsOK'
    <3>1. PICK q \in {found, next}, l \in BOOLEAN :
            Set(w, [call[w] EXCEPT !.pc = q, !.late = l])
      BY <1>0, <2>7, call[w].late \in BOOLEAN DEF ReactFind, CallOK, CallRecords
    <3>2. call[w].id \in Ids
      BY <1>0, <2>7 DEF ReactFind, At, CallOK
    <3>3. CallOK([call[w] EXCEPT !.pc = q, !.late = l])
      BY <1>0, <3>2 DEF CallOK, CallRecords
    <3> QED
      BY <1>0, <3>1, <3>3, SetCall
  <2> QED
    BY <2>1, <2>2, <2>3, <2>4, <2>5, <2>6, <2>7
<1> QED
  BY <1>0, <1>1, <1>2, ReadsOnlyStore DEF IInv

-----------------------------------------------------------------------------
(* The archivers.                                                          *)

BatchOf(r) == {i \in Ids : r.batch[i] # NoDoc}

\* A step of one archiver leaves the others alone.
LEMMA SetOne ==
    ASSUME StoreType, NEW a \in Archivers, NEW r, SetArchiver(a, r)
    PROVE  /\ archiver'[a] = r /\ Batch(a)' = BatchOf(r)
           /\ \A b \in Archivers \ {a} : archiver'[b] = archiver[b] /\ Batch(b)' = Batch(b)
<1>1. archiver'[a] = r /\ \A b \in Archivers \ {a} : archiver'[b] = archiver[b]
  BY DEF SetArchiver, StoreType
<1> QED
  BY <1>1 DEF Batch, BatchOf

LEMMA IdleBatch ==
    /\ ArchiverIdle \in ArchiverRecords /\ ArchiverIdle.pc = "idle"
    /\ BatchOf(ArchiverIdle) = {}
BY BoundsAssumption DEF ArchiverIdle, ArchiverRecords, NoBatch, BatchOf

\* A step that leaves the collections alone and after which the batch of the
\* archiver holds messages that exist.
LEMMA ArchiverMoves ==
    ASSUME IInv, UNCHANGED <<hot, archive, last, cutoff, call, unsent>>,
           crashes' \in 0 .. MaxCrashes, NEW a \in Archivers,
           NEW r \in ArchiverRecords, r.pc # "delete", BatchOf(r) \subseteq 1 .. last,
           SetArchiver(a, r)
    PROVE  IInv'
<1>0. StoreType
  BY DEF IInv, StoreOK
<1>1. StoreType'
  BY <1>0 DEF StoreType, IsColl, SetArchiver
<1>2. BatchStored' /\ BatchKnown'
  BY <1>0, SetOne DEF IInv, StoreOK, BatchStored, BatchKnown
<1>3. NothingLost'
  BY DEF IInv, StoreOK, NothingLost, Stored
<1>4. CallsOK'
  BY DEF IInv, CallsOK, CallOK
<1> QED
  BY <1>1, <1>2, <1>3, <1>4 DEF IInv, StoreOK

\* A find returns some of the documents it is about.
LEMMA FoundOnes == ASSUME NEW S, NEW found \in Finds(S) PROVE found \subseteq S
BY DEF Finds, Oldest

\* The batch of an archiver is what its find returned.
LEMMA TakesBatch ==
    ASSUME StoreType, NEW a \in Archivers, NEW found, found \subseteq Stored(hot),
           TakeBatch(a, found)
    PROVE  \E r \in ArchiverRecords :
             /\ r.pc \in {"idle", "insert"} /\ r.cutoff <= archiver[a].cutoff /\ BatchOf(r) = found
             /\ \A i \in found : r.batch[i] = hot[i]
             /\ SetArchiver(a, r)
<1> DEFINE batch == [i \in Ids |-> IF i \in found THEN hot[i] ELSE NoDoc]
           taken == [archiver[a] EXCEPT !.pc = "insert", !.batch = batch]
<1>1. batch \in [Ids -> Docs \union {NoDoc}] /\ archiver[a] \in ArchiverRecords
  BY DEF StoreType, IsColl
<1>2. CASE found = {}
  <2>1. SetArchiver(a, ArchiverIdle)
    BY <1>2 DEF TakeBatch
  <2>2. ArchiverIdle.cutoff <= archiver[a].cutoff
    BY <1>1, BoundsAssumption DEF ArchiverIdle, ArchiverRecords
  <2> QED
    BY <1>2, <2>1, <2>2, IdleBatch
<1>3. CASE found # {}
  <2>1. SetArchiver(a, taken)
    BY <1>3 DEF TakeBatch
  <2> HIDE DEF batch
  <2>2. taken \in ArchiverRecords /\ taken.pc = "insert" /\ taken.batch = batch
        /\ taken.cutoff = archiver[a].cutoff
    BY <1>1 DEF ArchiverRecords
  <2> USE DEF batch
  <2>6. archiver[a].cutoff \in Nat
    BY <1>1, BoundsAssumption DEF ArchiverRecords
  <2>3. \A i \in found : batch[i] = hot[i] /\ i \in Ids /\ hot[i] # NoDoc
    BY DEF Stored
  <2>4. \A i \in Ids \ found : batch[i] = NoDoc
    OBVIOUS
  <2> HIDE DEF taken, batch
  <2>5. BatchOf(taken) = found
    BY <2>2, <2>3, <2>4 DEF BatchOf
  <2> QED
    BY <2>1, <2>2, <2>3, <2>5, <2>6
<1> QED
  BY <1>2, <1>3

LEMMA ArchiverStep1 ==
    ASSUME IInv, NEW a \in Archivers,
           ArchiverStarts(a) \/ ArchiverFinds(a) \/ ArchiverCrashes(a)
    PROVE  IInv'
<1>0. /\ StoreOK /\ StoreType /\ crashes \in 0 .. MaxCrashes /\ archiver[a] \in ArchiverRecords
      /\ cutoff \in 0 .. MaxMessages
  BY DEF IInv, StoreOK, StoreType
<1>1. CASE ArchiverStarts(a)
  <2> DEFINE r == [archiver[a] EXCEPT !.pc = "find", !.cutoff = cutoff]
  <2>1. r \in ArchiverRecords /\ r.pc = "find" /\ r.batch = archiver[a].batch
    BY <1>0 DEF ArchiverRecords
  <2>2. SetArchiver(a, r) /\ UNCHANGED <<hot, archive, last, cutoff, call, crashes, unsent>>
    BY <1>1 DEF ArchiverStarts
  <2> HIDE DEF r
  <2>3. BatchOf(r) \subseteq 1 .. last
    BY <1>0, <2>1 DEF StoreOK, BatchKnown, Batch, BatchOf
  <2> QED
    BY <1>0, <2>1, <2>2, <2>3, ArchiverMoves
<1>2. CASE ArchiverFinds(a)
  <2>1. PICK found \in Finds(Stored(hot) \cap 1 .. archiver[a].cutoff) : TakeBatch(a, found)
    BY <1>2 DEF ArchiverFinds
  <2>2. found \subseteq Stored(hot) /\ found \subseteq 1 .. last
    BY <1>0, <2>1, FoundOnes DEF StoreOK, NothingLost
  <2>3. PICK r \in ArchiverRecords :
          r.pc \in {"idle", "insert"} /\ BatchOf(r) = found /\ SetArchiver(a, r)
    BY <1>0, <2>1, <2>2, TakesBatch
  <2> QED
    BY <1>0, <2>1, <2>2, <2>3, ArchiverMoves DEF TakeBatch
<1>3. CASE ArchiverCrashes(a)
  <2>1. crashes' \in 0 .. MaxCrashes
    BY <1>0, <1>3, BoundsAssumption DEF ArchiverCrashes
  <2> QED
    BY <1>3, <2>1, IdleBatch, ArchiverMoves DEF ArchiverCrashes
<1> QED
  BY <1>1, <1>2, <1>3

\* insertMany stores a part of the batch that is not in the archive, all of it
\* if the archiver goes on to delete it.
LEMMA InsertsBatch ==
    ASSUME IInv, NEW a \in Archivers, ArchiverInserts(a)
    PROVE  \E done \in SUBSET (Batch(a) \ Stored(archive)), r \in ArchiverRecords :
             /\ Insert(a, done) /\ SetArchiver(a, r)
             /\ Stored(archive') = Stored(archive) \union done
             /\ IsColl(archive')
             /\ \/ r = ArchiverIdle
                \/ /\ r = [archiver[a] EXCEPT !.pc = "delete"] /\ done = Batch(a)
                   /\ BatchOf(r) = Batch(a) /\ r.batch = archiver[a].batch
                   /\ r.pc = "delete" /\ r.cutoff = archiver[a].cutoff
             /\ UNCHANGED <<hot, last, cutoff, call, crashes, unsent>>
<1> DEFINE valid == \A i \in Batch(a) : Valid(archiver[a].batch[i])
           clash == Batch(a) \cap Stored(archive)
           deleting == [archiver[a] EXCEPT !.pc = "delete"]
<1>0. /\ StoreType /\ archiver[a] \in ArchiverRecords /\ IsColl(archive)
      /\ UNCHANGED <<hot, last, cutoff, call, crashes, unsent>>
  BY DEF IInv, StoreOK, StoreType, ArchiverInserts
<1>1. PICK done \in SUBSET (Batch(a) \ Stored(archive)) :
        Insert(a, done) /\ (valid /\ clash = {} => done = Batch(a))
  <2>1. CASE valid
    <3>1. PICK done \in Preceding(Batch(a), clash) : Insert(a, done)
      BY <2>1 DEF ArchiverInserts
    <3>2. CASE clash = {}
      <4>1. done = Batch(a)
        BY <3>1, <3>2 DEF Preceding
      <4> QED
        BY <3>1, <3>2, <4>1
    <3>3. CASE clash # {}
      <4>1. done \subseteq Batch(a) \ clash
        BY <3>1, <3>3, BoundsAssumption DEF Preceding, Batch, Ids
      <4> QED
        BY <3>1, <3>3, <4>1
    <3> QED
      BY <3>2, <3>3
  <2>2. CASE ~valid
    <3>1. UNCHANGED archive
      BY <2>2 DEF ArchiverInserts
    <3>2. Insert(a, {})
      BY <1>0, <3>1 DEF Insert, IsColl
    <3> QED
      BY <2>2, <3>2
  <2> QED
    BY <2>1, <2>2
<1>2. SetArchiver(a, IF valid /\ clash = {} THEN deleting ELSE ArchiverIdle)
  BY DEF ArchiverInserts
<1>3. /\ deleting \in ArchiverRecords /\ deleting.batch = archiver[a].batch
      /\ deleting.pc = "delete" /\ deleting.cutoff = archiver[a].cutoff
  BY <1>0 DEF ArchiverRecords
<1> HIDE DEF valid, clash, deleting
<1>4. BatchOf(deleting) = Batch(a)
  BY <1>3 DEF BatchOf, Batch
<1>5. \A i \in done : archiver[a].batch[i] \in Docs /\ archiver[a].batch[i] # NoDoc /\ i \in Ids
  BY <1>0 DEF ArchiverRecords, Batch
<1>6. IsColl(archive')
  BY <1>0, <1>1, <1>5 DEF IsColl, Insert
<1>7. Stored(archive') = Stored(archive) \union done
  BY <1>0, <1>1, <1>5 DEF IsColl, Insert, Stored
<1>8. CASE valid /\ clash = {}
  BY <1>0, <1>1, <1>2, <1>3, <1>4, <1>6, <1>7, <1>8 DEF deleting
<1>9. CASE ~(valid /\ clash = {})
  BY <1>0, <1>1, <1>2, <1>6, <1>7, <1>9, IdleBatch
<1> QED
  BY <1>8, <1>9

LEMMA InsertStep == ASSUME IInv, NEW a \in Archivers, ArchiverInserts(a) PROVE IInv'
<1>0. StoreOK /\ StoreType
  BY DEF IInv, StoreOK
<1>1. PICK done \in SUBSET (Batch(a) \ Stored(archive)), r \in ArchiverRecords :
        /\ SetArchiver(a, r) /\ Stored(archive') = Stored(archive) \union done /\ IsColl(archive')
        /\ \/ r = ArchiverIdle
           \/ r.pc = "delete" /\ done = Batch(a) /\ BatchOf(r) = Batch(a)
        /\ UNCHANGED <<hot, last, cutoff, call, crashes, unsent>>
  BY InsertsBatch
<1>2. StoreType'
  BY <1>0, <1>1 DEF StoreType, IsColl, SetArchiver
<1>3. NothingLost'
  BY <1>0, <1>1 DEF StoreOK, NothingLost, BatchKnown, Stored
<1>4. BatchKnown' /\ BatchStored'
  <2>1. BatchOf(r) \subseteq Batch(a) /\ (r.pc = "delete" => BatchOf(r) \subseteq done)
    BY <1>1, IdleBatch
  <2> QED
    BY <1>0, <1>1, <2>1, SetOne DEF StoreOK, BatchKnown, BatchStored
<1>5. CallsOK'
  BY <1>1 DEF IInv, CallsOK, CallOK
<1> QED
  BY <1>2, <1>3, <1>4, <1>5 DEF IInv, StoreOK

\* deleteMany removes the batch, and the archiver goes on with none.
LEMMA DeletesBatch ==
    ASSUME IInv, NEW a \in Archivers, ArchiverDeletes(a)
    PROVE  /\ UNCHANGED <<archive, last, cutoff, call, crashes, unsent>>
           /\ Stored(hot') = Stored(hot) \ Batch(a) /\ Batch(a) \subseteq Stored(archive)
           /\ \A i \in Ids : hot'[i] = IF i \in Batch(a) THEN NoDoc ELSE hot[i]
           /\ IsColl(hot')
           /\ \E r \in ArchiverRecords :
                /\ r.pc = "find" /\ r.cutoff = archiver[a].cutoff /\ BatchOf(r) = {}
                /\ r.batch = NoBatch /\ SetArchiver(a, r)
<1> DEFINE r == [archiver[a] EXCEPT !.pc = "find", !.batch = NoBatch]
<1>0. archiver[a] \in ArchiverRecords /\ IsColl(hot) /\ Batch(a) \subseteq Stored(archive)
  BY DEF IInv, StoreOK, StoreType, BatchStored, ArchiverDeletes
<1>1. /\ hot' = [i \in Ids |-> IF i \in Batch(a) THEN NoDoc ELSE hot[i]] /\ SetArchiver(a, r)
      /\ UNCHANGED <<archive, last, cutoff, call, crashes, unsent>>
  BY DEF ArchiverDeletes
<1>2. NoBatch \in [Ids -> Docs \union {NoDoc}]
  BY DEF NoBatch
<1>3. r \in ArchiverRecords /\ r.pc = "find" /\ r.cutoff = archiver[a].cutoff /\ r.batch = NoBatch
  BY <1>0, <1>2 DEF ArchiverRecords
<1> HIDE DEF r
<1>4. BatchOf(r) = {}
  BY <1>3 DEF BatchOf, NoBatch
<1>5. Stored(hot') = Stored(hot) \ Batch(a) /\ IsColl(hot')
  BY <1>0, <1>1 DEF Stored, IsColl
<1> QED
  BY <1>0, <1>1, <1>3, <1>4, <1>5

LEMMA DeleteStep == ASSUME IInv, NEW a \in Archivers, ArchiverDeletes(a) PROVE IInv'
<1>0. StoreOK /\ StoreType
  BY DEF IInv, StoreOK
<1>1. PICK r \in ArchiverRecords : r.pc = "find" /\ BatchOf(r) = {} /\ SetArchiver(a, r)
  BY DeletesBatch
<1>2. /\ UNCHANGED <<archive, last, cutoff, call, crashes, unsent>> /\ IsColl(hot')
      /\ Stored(hot') = Stored(hot) \ Batch(a) /\ Batch(a) \subseteq Stored(archive)
  BY DeletesBatch
<1>3. StoreType'
  BY <1>0, <1>1, <1>2 DEF StoreType, IsColl, SetArchiver
<1>4. NothingLost'
  BY <1>0, <1>2 DEF StoreOK, NothingLost, Stored
<1>5. CallsOK'
  BY <1>2 DEF IInv, CallsOK, CallOK
<1>6. BatchKnown' /\ BatchStored'
  BY <1>0, <1>1, <1>2, SetOne DEF StoreOK, BatchKnown, BatchStored, Stored
<1> QED
  BY <1>3, <1>4, <1>5, <1>6 DEF IInv, StoreOK

-----------------------------------------------------------------------------
(* The clock and failures, and the theorems.                               *)

LEMMA EnvironmentStep ==
    ASSUME IInv, Age \/ \E w \in Workers : Crash(w)
    PROVE  IInv'
<1>0. CallsOK /\ StoreOK /\ StoreType
  BY DEF IInv, StoreOK
<1>1. StoreType'
  BY <1>0, BoundsAssumption DEF Age, Crash, StoreType, IsColl
<1>2. StoreOK'
  BY <1>0, <1>1, SameStored DEF Age, Crash, Stored
<1>3. CallsOK'
  <2>1. CASE Age
    BY <1>0, <2>1 DEF Age, CallsOK, CallOK
  <2>2. CASE \E w \in Workers : Crash(w)
    BY <1>0, <2>2, ReturnCall DEF Crash
  <2> QED
    BY <2>1, <2>2
<1> QED
  BY <1>2, <1>3 DEF IInv

LEMMA StutterStep == ASSUME IInv, UNCHANGED vars PROVE IInv'
<1>1. ReadsOnly /\ call' = call
  BY DEF vars, ReadsOnly
<1> QED
  BY <1>1, ReadsOnlyStore DEF IInv, CallsOK, CallOK

\* The inductive invariant holds in every reachable state.
THEOREM Invariance == Spec => []IInv
<1>1. IInv /\ [Next]_vars => IInv'
  <2> SUFFICES ASSUME IInv, [Next]_vars PROVE IInv'
    OBVIOUS
  <2>1. ASSUME NEW w \in Workers, Step(w) PROVE IInv'
    BY <2>1, SaveStep, UpdateStep, ReactStep, ClearStep, ReadStep DEF Step
  <2>2. ASSUME NEW a \in Archivers, ArchiverStep(a) PROVE IInv'
    BY <2>2, ArchiverStep1, InsertStep, DeleteStep DEF ArchiverStep
  <2>3. CASE \E w \in Workers : Begin(w)
    BY <2>3, BeginStep
  <2>4. CASE (\E w \in Workers : Crash(w)) \/ Age
    BY <2>4, EnvironmentStep
  <2>5. ASSUME NEW a \in Archivers, ArchiverStarts(a) \/ ArchiverCrashes(a) PROVE IInv'
    BY <2>5, ArchiverStep1
  <2>6. CASE UNCHANGED vars
    BY <2>6, StutterStep
  <2> QED
    BY <2>1, <2>2, <2>3, <2>4, <2>5, <2>6 DEF Next
<1> QED
  BY <1>1, InitIInv, PTL DEF Spec

\* Every variable keeps its type, for every bound and number of handlers.
THEOREM TypeCorrect == Spec => []TypeOK
<1>1. IInv => TypeOK
  BY TypeOfParts DEF IInv, StoreOK
<1> QED
  BY <1>1, Invariance, PTL

\* No message is ever in neither collection: the archiver deletes only what
\* it has inserted, also when insertMany fails half-way, and every update
\* leaves the documents where they are.
THEOREM MessagesKept == Spec => []NothingLost
<1>1. IInv => NothingLost
  BY DEF IInv, StoreOK
<1> QED
  BY <1>1, Invariance, PTL

-----------------------------------------------------------------------------
(* The newest and the oldest of a set of messages.                         *)

\* The cardinalities of sets of messages.
LEMMA Cards ==
    ASSUME NEW S, S \subseteq Ids
    PROVE  /\ IsFiniteSet(S) /\ Cardinality(S) \in Nat
           /\ \A T \in SUBSET S : IsFiniteSet(T) /\ Cardinality(T) \in Nat /\ Cardinality(T) <= Cardinality(S)
<1>1. IsFiniteSet(Ids)
  BY BoundsAssumption, FS_Interval, MaxMessages \in Int DEF Ids
<1>2. IsFiniteSet(S)
  BY <1>1, FS_Subset
<1>3. \A T \in SUBSET S : IsFiniteSet(T) /\ Cardinality(T) <= Cardinality(S)
  BY <1>2, FS_Subset
<1> QED
  BY <1>2, <1>3, FS_CardinalityType

LEMMA IdsAreNats == Ids \subseteq Nat
BY BoundsAssumption DEF Ids

LEMMA HasLeast ==
    ASSUME NEW S, S \subseteq Nat, S # {} PROVE \E x \in S : \A y \in S : x <= y
<1>1. PICK x \in S : \A y \in S : ~ (<<y, x>> \in OpToRel(<, Nat))
  BY NatLessThanWellFounded, WFMin
<1>2. ASSUME NEW y \in S PROVE ~ (y < x)
  <2>1. x \in Nat /\ y \in Nat
    OBVIOUS
  <2> QED
    BY <1>1, <2>1, Zenon DEF OpToRel
<1>3. \A y \in S : x <= y
  BY <1>2
<1> QED
  BY <1>3

\* A set of messages that is not empty has a newest one.
LEMMA HasNewest ==
    ASSUME NEW S, S \subseteq Ids, S # {}
    PROVE  \E i \in S : \A j \in S : j <= i
<1> DEFINE T == {MaxMessages - i : i \in S}
<1>1. \A i \in S : i \in Nat /\ i <= MaxMessages /\ MaxMessages - i \in Nat
  BY BoundsAssumption DEF Ids
<1>2. T \subseteq Nat /\ T # {}
  BY <1>1
<1> HIDE DEF T
<1>3. PICK x \in T : \A y \in T : x <= y
  BY <1>2, HasLeast
<1>5. PICK i \in S : x = MaxMessages - i
  BY <1>3 DEF T
<1>6. ASSUME NEW j \in S PROVE j <= i
  <2>1. MaxMessages - j \in T
    BY DEF T
  <2> QED
    BY <1>1, <1>3, <1>5, <2>1, BoundsAssumption
<1> QED
  BY <1>5, <1>6

LEMMA HasOldest ==
    ASSUME NEW S, S \subseteq Ids, S # {}
    PROVE  /\ Min(S) \in S /\ \A j \in S : Min(S) <= j
<1>1. S \subseteq Nat
  BY BoundsAssumption DEF Ids
<1>2. \E x \in S : \A y \in S : x <= y
  BY <1>1, HasLeast
<1> QED
  BY <1>2 DEF Min

\* The newest messages of a set: fewer than asked for are all there are.
LEMMA FewNewest ==
    ASSUME NEW S, S \subseteq Ids, NEW n \in Nat, Cardinality(Newest(S, n)) < n
    PROVE  Newest(S, n) = S
<1> DEFINE N == Newest(S, n)
<1>1. N \subseteq S
  BY DEF Newest
<1>2. SUFFICES ASSUME S \ N # {} PROVE FALSE
  BY <1>1
<1>3. PICK i \in S \ N : \A j \in S \ N : j <= i
  BY <1>2, HasNewest
<1>4. {j \in S : j > i} \subseteq N
  <2>1. ASSUME NEW j \in S, j > i PROVE j \in N
    <3> HIDE DEF N
    <3> QED
      BY <1>3, <2>1, IdsAreNats
  <2> QED
    BY <2>1
<1>5. Cardinality({j \in S : j > i}) <= Cardinality(N) /\ Cardinality({j \in S : j > i}) \in Nat
      /\ Cardinality(N) \in Nat
  BY <1>1, <1>4, Cards
<1>6. Cardinality({j \in S : j > i}) < n
  BY <1>5
<1> QED
  BY <1>3, <1>6 DEF Newest

\* Where there are enough above the others, the newest are among them.
LEMMA UpwardNewest ==
    ASSUME NEW T, T \subseteq Ids, NEW S, S \subseteq T, NEW n \in Nat,
           \A i \in S, j \in T : i < j => j \in S,
           n <= Cardinality(S)
    PROVE  Newest(T, n) = Newest(S, n)
<1>1. \A i \in S : {j \in T : j > i} = {j \in S : j > i}
  BY BoundsAssumption DEF Ids
<1>2. ASSUME NEW i \in T \ S PROVE i \notin Newest(T, n)
  <2>1. S \subseteq {j \in T : j > i}
    BY <1>2, BoundsAssumption DEF Ids
  <2>2. Cardinality(S) <= Cardinality({j \in T : j > i}) /\ Cardinality({j \in T : j > i}) \in Nat
        /\ Cardinality(S) \in Nat
    BY <2>1, Cards
  <2> QED
    BY <2>2 DEF Newest
<1> QED
  BY <1>1, <1>2 DEF Newest

\* Where they are all among the newest, the rest comes from the others.
LEMMA JoinNewest ==
    ASSUME NEW P, P \subseteq Ids, NEW R, R \subseteq Ids, NEW n \in Nat,
           \A i \in P, j \in R : j < i, Cardinality(P) < n
    PROVE  Newest(P \union R, n) = P \union Newest(R, n - Cardinality(P))
<1>0. /\ IsFiniteSet(P) /\ Cardinality(P) \in Nat /\ P \subseteq Nat /\ R \subseteq Nat
  BY Cards, IdsAreNats
<1>1. ASSUME NEW i \in P PROVE i \in Newest(P \union R, n)
  <2>1. ASSUME NEW j \in P \union R, j > i PROVE j \in P
    <3>1. CASE j \in R
      BY <1>0, <2>1, <3>1
    <3> QED
      BY <3>1
  <2>2. {j \in P \union R : j > i} \subseteq P
    BY <2>1
  <2>3. Cardinality({j \in P \union R : j > i}) < n
    <3> DEFINE A == {j \in P \union R : j > i}
    <3>1. A \subseteq P
      BY <2>2
    <3> HIDE DEF A
    <3>2. Cardinality(A) \in Nat /\ Cardinality(A) <= Cardinality(P)
      BY <1>0, <3>1, Cards
    <3>3. Cardinality(A) < n
      BY <1>0, <3>2
    <3> QED
      BY <3>3 DEF A
  <2> QED
    BY <2>3 DEF Newest
<1>2. ASSUME NEW i \in R
      PROVE  i \in Newest(P \union R, n) <=> i \in Newest(R, n - Cardinality(P))
  <2> DEFINE U == {j \in R : j > i}
             A == {j \in P \union R : j > i}
  <2>1. A = P \union U
    <3>1. \A j \in P : j > i
      BY <1>0
    <3> QED
      BY <3>1
  <2>2. P \intersect U = {}
    <3>1. ASSUME NEW j \in P, j \in R PROVE FALSE
      BY <1>0, <3>1
    <3> QED
      BY <3>1
  <2>3. IsFiniteSet(U) /\ Cardinality(U) \in Nat /\ U \subseteq Ids
    BY Cards
  <2>4. Cardinality(A) = Cardinality(P) + Cardinality(U)
    <3> HIDE DEF U, A
    <3>1. Cardinality(P \union U) = Cardinality(P) + Cardinality(U) - Cardinality(P \intersect U)
      BY <1>0, <2>3, FS_Union
    <3>2. Cardinality(P \intersect U) = 0
      BY <2>2, FS_EmptySet
    <3>3. Cardinality(A) = Cardinality(P \union U)
      BY <2>1
    <3> QED
      BY <1>0, <2>3, <3>1, <3>2, <3>3
  <2>5. i \in Newest(P \union R, n) <=> Cardinality(A) < n
    BY DEF Newest
  <2>6. i \in Newest(R, n - Cardinality(P)) <=> Cardinality(U) < n - Cardinality(P)
    BY DEF Newest
  <2> HIDE DEF U, A
  <2> QED
    BY <1>0, <2>3, <2>4, <2>5, <2>6
<1> QED
  BY <1>1, <1>2 DEF Newest

-----------------------------------------------------------------------------
(* What is stored before and after a step.                                 *)

\* The handlers only add the message they create.
Kept == /\ UNCHANGED archiver
        /\ Stored(archive') = Stored(archive)
        /\ \/ last' = last /\ Stored(hot') = Stored(hot)
           \/ last' = last + 1 /\ Stored(hot') = Stored(hot) \union {last + 1}

LEMMA UnchangedKept ==
    ASSUME UNCHANGED <<hot, archive, last, archiver>> PROVE Kept
BY DEF Kept

LEMMA HandlerKept ==
    ASSUME IInv, NEW w \in Workers, Begin(w) \/ Step(w) \/ Crash(w) PROVE Kept
<1> DEFINE i == call[w].id
           op == call[w].op
<1>0. /\ StoreType /\ CallOK(call[w]) /\ IsColl(hot) /\ IsColl(archive)
      /\ call[w].late \in BOOLEAN
  BY DEF IInv, StoreOK, StoreType, CallsOK, CallRecords
<1>1. CASE Begin(w) \/ Crash(w)
  BY <1>1, UnchangedKept DEF Begin, Start, Crash
<1>2. CASE \/ CreateFindOriginal(w)
           \/ UnsendFind(w, hot, "findHot", "findArchive")
           \/ UnsendFind(w, archive, "findArchive", "idle")
           \/ ReactFind(w, hot, "reactHot", "toggleHot", "reactArchive")
           \/ ReactFind(w, archive, "reactArchive", "toggleArchive", "pushHot")
           \/ PageHot(w) \/ PageArchive(w)
           \/ Mask(w, hot, "maskHot", "maskArchive") \/ Mask(w, archive, "maskArchive", "done")
           \/ PageDone(w)
  <2>1. ReadsOnly
    BY <1>2 DEF CreateFindOriginal, UnsendFind, ReactFind, PageHot, PageArchive, Mask, PageDone
  <2> QED
    BY <2>1, UnchangedKept DEF ReadsOnly
<1>3. CASE CreateSave(w)
  <2> DEFINE doc == [marks |-> {}, reactions |-> "none", reply |-> i, quote |-> call[w].quote]
  <2>1. \/ UNCHANGED <<hot, archive, last, archiver>>
        \/ /\ last' = last + 1 /\ hot' = [hot EXCEPT ![last + 1] = doc]
           /\ last < MaxMessages /\ UNCHANGED <<archive, archiver>>
    BY <1>3 DEF CreateSave
  <2>2. doc # NoDoc
    BY <1>0, NoDocIsNone DEF CallOK, CallRecords, Docs, Marks, Reactions
  <2>3. last < MaxMessages => last + 1 \in Ids
    BY <1>0, BoundsAssumption DEF StoreType, Ids
  <2> HIDE DEF doc
  <2>4. ASSUME last + 1 \in Ids, hot' = [hot EXCEPT ![last + 1] = doc]
        PROVE  Stored(hot') = Stored(hot) \union {last + 1}
    BY <1>0, <2>2, <2>4 DEF Stored, IsColl
  <2> QED
    BY <2>1, <2>3, <2>4, UnchangedKept DEF Kept
<1>4. CASE UpdateHot(w) \/ UpdateArchive(w)
  <2>1. op \in Updates /\ i \in Ids
    BY <1>0, <1>4 DEF CallOK, UpdateHot, UpdateArchive, At
  <2>2. /\ \/ hot' = hot
           \/ hot[i] # NoDoc /\ hot' = [hot EXCEPT ![i].marks = Mark(op, @)]
        /\ \/ archive' = archive
           \/ archive[i] # NoDoc /\ archive' = [archive EXCEPT ![i].marks = Mark(op, @)]
        /\ UNCHANGED <<last, archiver>>
    BY <1>4 DEF UpdateHot, UpdateArchive, Matches
  <2>3. Stored(hot') = Stored(hot)
    BY <1>0, <2>1, <2>2, MarkKeeps
  <2>4. Stored(archive') = Stored(archive)
    BY <1>0, <2>1, <2>2, MarkKeeps
  <2> QED
    BY <2>2, <2>3, <2>4 DEF Kept
<1>5. CASE ClearHot(w) \/ ClearArchive(w)
  <2>1. /\ hot' = hot \/ hot' = Cleared(hot, i)
        /\ archive' = archive \/ archive' = Cleared(archive, i)
        /\ UNCHANGED <<last, archiver>>
    BY <1>5 DEF ClearHot, ClearArchive
  <2> QED
    BY <1>0, <2>1, ClearKeeps DEF Kept
<1>6. CASE ToggleHot(w) \/ ToggleArchive(w) \/ PushHot(w) \/ PushArchive(w)
  <2>1. i \in Ids
    BY <1>0, <1>6 DEF CallOK, ReactPCs, ToggleHot, ToggleArchive, PushHot, PushArchive, At
  <2>2. /\ \/ hot' = Pulled(hot, i) \/ hot' = hot
           \/ hot[i] # NoDoc /\ hot' = Pushed(hot, i, call[w].late)
        /\ \/ archive' = Pulled(archive, i) \/ archive' = archive
           \/ archive[i] # NoDoc /\ archive' = Pushed(archive, i, call[w].late)
        /\ UNCHANGED <<last, archiver>>
    BY <1>6 DEF ToggleHot, ToggleArchive, PushHot, PushArchive
  <2>3. Stored(hot') = Stored(hot)
    BY <1>0, <2>1, <2>2, ReactionKeeps
  <2>4. Stored(archive') = Stored(archive)
    BY <1>0, <2>1, <2>2, ReactionKeeps
  <2> QED
    BY <2>2, <2>3, <2>4 DEF Kept
<1> QED
  BY <1>1, <1>2, <1>3, <1>4, <1>5, <1>6 DEF Step

\* A step of an archiver, for what it does to the batches: it takes one from
\* the hot collection, drops its own or keeps it.
LEMMA BatchStep ==
    ASSUME IInv, NEW a \in Archivers, ArchiverStarts(a) \/ ArchiverStep(a) \/ ArchiverCrashes(a)
    PROVE  /\ UNCHANGED <<last, cutoff, call, unsent>>
           /\ \A b \in Archivers : Batch(b)' = {} \/ Batch(b)' = Batch(b) \/
                (b = a /\ ArchiverFinds(a) /\ Batch(a)' \in Finds(Stored(hot) \cap 1 .. archiver[a].cutoff))
           /\ \A b \in Archivers : \A i \in Batch(b)' :
                archiver'[b].batch[i] = archiver[b].batch[i] \/ archiver'[b].batch[i] = hot[i]
           /\ hot' = hot \/ ArchiverDeletes(a)
           /\ archive' = archive \/ ArchiverInserts(a)
<1>0. StoreType /\ archiver[a] \in ArchiverRecords
  BY DEF IInv, StoreOK, StoreType
<1>1. ASSUME NEW r, SetArchiver(a, r), BatchOf(r) = {} \/ r.batch = archiver[a].batch
      PROVE  \A b \in Archivers :
               /\ Batch(b)' = {} \/ Batch(b)' = Batch(b)
               /\ \A i \in Batch(b)' : archiver'[b].batch[i] = archiver[b].batch[i]
  <2>1. BatchOf(r) = {} \/ BatchOf(r) = Batch(a)
    BY <1>1 DEF BatchOf, Batch
  <2> QED
    BY <1>0, <1>1, <2>1, SetOne
<1>2. CASE ArchiverStarts(a)
  <2> DEFINE r == [archiver[a] EXCEPT !.pc = "find", !.cutoff = cutoff]
  <2>1. SetArchiver(a, r) /\ UNCHANGED <<hot, archive, last, cutoff, call, unsent>>
    BY <1>2 DEF ArchiverStarts
  <2>2. r.batch = archiver[a].batch
    BY <1>0 DEF ArchiverRecords
  <2> HIDE DEF r
  <2> QED
    BY <1>1, <2>1, <2>2
<1>3. CASE ArchiverCrashes(a)
  BY <1>1, <1>3, IdleBatch DEF ArchiverCrashes
<1>4. CASE ArchiverInserts(a)
  <2>1. PICK r \in ArchiverRecords :
          SetArchiver(a, r) /\ (r = ArchiverIdle \/ r.batch = archiver[a].batch)
    BY <1>4, InsertsBatch
  <2> QED
    BY <1>1, <1>4, <2>1, IdleBatch DEF ArchiverInserts
<1>5. CASE ArchiverDeletes(a)
  <2>1. PICK r \in ArchiverRecords : SetArchiver(a, r) /\ BatchOf(r) = {}
    BY <1>5, DeletesBatch
  <2> QED
    BY <1>1, <1>5, <2>1 DEF ArchiverDeletes
<1>6. CASE ArchiverFinds(a)
  <2>1. PICK found \in Finds(Stored(hot) \cap 1 .. archiver[a].cutoff) : TakeBatch(a, found)
    BY <1>6 DEF ArchiverFinds
  <2>2. PICK r \in ArchiverRecords :
          /\ BatchOf(r) = found /\ SetArchiver(a, r) /\ \A i \in found : r.batch[i] = hot[i]
    BY <1>0, <2>1, FoundOnes, TakesBatch
  <2> QED
    BY <1>0, <1>6, <2>1, <2>2, SetOne DEF TakeBatch
<1> QED
  BY <1>2, <1>3, <1>4, <1>5, <1>6 DEF ArchiverStep

-----------------------------------------------------------------------------
(* The hot collection holds the newest messages.                           *)

\* Of the messages created, the hot collection has all those after its oldest,
\* and the archivers take it from below.
HotSuffix == \A i \in Stored(hot), j \in 1 .. last : i < j => j \in Stored(hot)
BatchDown ==
    \A a \in Archivers : \A i \in Batch(a), j \in Stored(hot) : j < i => j \in Batch(a)

OInv == HotSuffix /\ BatchDown

\* Of a set of messages, the oldest are those below some message.
LEMMA OldestDown ==
    ASSUME NEW T, T \subseteq Ids, NEW n \in Nat, NEW i \in Oldest(T, n), NEW j \in T, j < i
    PROVE  j \in Oldest(T, n)
<1> DEFINE Under(m) == {k \in T : k < m}
<1>1. i \in T /\ Cardinality(Under(i)) < n
  BY DEF Oldest
<1>2. T \subseteq Nat /\ Under(i) \subseteq Ids
  BY IdsAreNats
<1>3. ASSUME NEW k \in Under(j) PROVE k \in Under(i)
  BY <1>1, <1>2
<1> HIDE DEF Under
<1>4. /\ Cardinality(Under(j)) <= Cardinality(Under(i))
      /\ Cardinality(Under(j)) \in Nat /\ Cardinality(Under(i)) \in Nat
  BY <1>2, <1>3, Cards
<1>5. Cardinality(Under(j)) < n
  BY <1>1, <1>4
<1> QED
  BY <1>5 DEF Oldest, Under

LEMMA OrderStep == ASSUME IInv, OInv, OldestFirst, [Next]_vars PROVE OInv'
<1>0. /\ StoreOK /\ last \in Nat /\ Stored(hot) \subseteq 1 .. last
      /\ \A a \in Archivers : Batch(a) \subseteq 1 .. last
      /\ Stored(hot) \subseteq Ids
  BY DEF IInv, StoreOK, StoreType, NothingLost, BatchKnown, Stored
<1>1. CASE Kept
  <2>1. \A a \in Archivers : Batch(a)' = Batch(a)
    BY <1>1 DEF Kept, Batch
  <2>2. CASE last' = last /\ Stored(hot') = Stored(hot)
    BY <2>1, <2>2 DEF OInv, HotSuffix, BatchDown
  <2>3. CASE last' = last + 1 /\ Stored(hot') = Stored(hot) \union {last + 1}
    <3>1. 1 .. last' = 1 .. last \union {last + 1} /\ \A i \in 1 .. last : i \in Nat /\ i < last + 1
      BY <1>0, <2>3
    <3>2. HotSuffix'
      BY <1>0, <2>3, <3>1 DEF OInv, HotSuffix
    <3>3. BatchDown'
      <4> SUFFICES ASSUME NEW a \in Archivers, NEW i \in Batch(a), NEW j \in Stored(hot'), j < i
                   PROVE  j \in Batch(a)
        BY <2>1 DEF BatchDown
      <4>1. i \in Nat /\ i < last + 1
        BY <1>0, <3>1
      <4>2. j \in Stored(hot)
        BY <1>0, <2>3, <4>1
      <4> QED
        BY <4>2 DEF OInv, BatchDown
    <3> QED
      BY <3>2, <3>3 DEF OInv
  <2> QED
    BY <1>1, <2>2, <2>3 DEF Kept
<1>2. ASSUME NEW a \in Archivers, ArchiverStarts(a) \/ ArchiverStep(a) \/ ArchiverCrashes(a)
      PROVE  OInv'
  <2> DEFINE T == Stored(hot) \cap 1 .. archiver[a].cutoff
  <2>1. last' = last /\ (hot' = hot \/ ArchiverDeletes(a))
    BY <1>2, BatchStep
  <2>2. Stored(hot') \subseteq Stored(hot)
    BY <2>1, DeletesBatch DEF Stored
  <2>3. BatchDown'
    <3>1. \A i \in Oldest(T, BatchSize), j \in Stored(hot) : j < i => j \in Oldest(T, BatchSize)
      <4>1. \A i \in T, j \in Stored(hot) : j < i => j \in T
        <5>1. archiver[a].cutoff \in Nat
          BY DEF IInv, StoreOK, StoreType, ArchiverRecords
        <5> QED
          BY <1>0, <5>1
      <4>2. Oldest(T, BatchSize) \subseteq T /\ T \subseteq Ids
        BY <1>0 DEF Oldest
      <4> HIDE DEF T
      <4> QED
        BY <4>1, <4>2, BoundsAssumption, OldestDown
    <3>2. \A b \in Archivers : Batch(b)' \in {{}, Batch(b), Oldest(T, BatchSize)}
      BY <1>2, BatchStep DEF Finds
    <3> HIDE DEF T
    <3> QED
      BY <2>2, <3>1, <3>2 DEF OInv, BatchDown
  <2>4. HotSuffix'
    <3>1. CASE hot' = hot
      BY <2>1, <3>1 DEF OInv, HotSuffix, Stored
    <3>2. CASE ArchiverDeletes(a)
      <4>1. Stored(hot') = Stored(hot) \ Batch(a)
        BY <3>2, DeletesBatch
      <4> QED
        BY <2>1, <4>1 DEF OInv, HotSuffix, BatchDown
    <3> QED
      BY <2>1, <3>1, <3>2
  <2> QED
    BY <2>3, <2>4 DEF OInv
<1>3. CASE Age \/ UNCHANGED vars
  BY <1>1, <1>3, UnchangedKept DEF Age, vars
<1>4. CASE \E w \in Workers : Begin(w) \/ Step(w) \/ Crash(w)
  BY <1>1, <1>4, HandlerKept
<1> QED
  BY <1>2, <1>3, <1>4 DEF Next

LEMMA InitOrder == Init => OInv
BY DEF Init, OInv, HotSuffix, BatchDown, Stored, Batch, ArchiverIdle, NoBatch

Seen(op) == {i \in 1 .. last : /\ "deleted" \notin Current(i).marks
                               /\ op = "search" => "unsent" \notin Current(i).marks}

\* What is visible in the hot collection is the newest part of what is seen.
LEMMA VisibleSeen ==
    ASSUME IInv, OInv, NEW op
    PROVE  LET V == Visible(hot, MaxMessages + 1, op) IN
           /\ V \subseteq Seen(op) /\ Seen(op) \subseteq Ids
           /\ V = Seen(op) \cap Stored(hot)
           /\ \A i \in Stored(hot), j \in Seen(op) : i < j => j \in V
<1>0. /\ Stored(hot) \subseteq 1 .. last /\ 1 .. last \subseteq Ids /\ MaxMessages \in Nat
  BY KnownIds, BoundsAssumption DEF IInv, StoreOK, NothingLost
<1>1. \A i \in Ids : i < MaxMessages + 1
  BY <1>0 DEF Ids
<1>2. Visible(hot, MaxMessages + 1, op) = Seen(op) \cap Stored(hot)
  <2>1. \A i \in Stored(hot) : Current(i) = hot[i] /\ i < MaxMessages + 1
    BY <1>0, <1>1 DEF Stored, Current
  <2> QED
    BY <1>0, <2>1 DEF Visible, Seen
<1>3. \A i \in Stored(hot), j \in Seen(op) : i < j => j \in Stored(hot)
  BY DEF OInv, HotSuffix, Seen
<1> QED
  BY <1>0, <1>2, <1>3 DEF Seen

\* The list of conversations reads the hot collection alone and still finds the
\* last message and the unread ones, as long as the message it starts from is
\* there: the archivers move messages from the oldest on, if a find without a
\* sort goes in the order of the ids.
THEOREM ListIsExact == ASSUME OldestFirst PROVE Spec => []ListExact
<1>1. IInv /\ OInv => ListExact
  <2> SUFFICES ASSUME IInv, OInv PROVE ListExact
    OBVIOUS
  <2>0. /\ Stored(hot) \subseteq 1 .. last /\ 1 .. last \subseteq Ids /\ MaxMessages \in Nat
        /\ last \in 0 .. MaxMessages
    BY KnownIds, BoundsAssumption DEF IInv, StoreOK, StoreType, NothingLost
  <2>1. Visible(hot, MaxMessages + 1, "page") # {} => LastMessage = Newest(Seen("page"), 1)
    <3> DEFINE V == Visible(hot, MaxMessages + 1, "page")
    <3>1. /\ V \subseteq Seen("page") /\ Seen("page") \subseteq Ids /\ V \subseteq Stored(hot)
          /\ \A i \in Stored(hot), j \in Seen("page") : i < j => j \in V
      BY VisibleSeen
    <3> HIDE DEF V
    <3>2. IsFiniteSet(V) /\ Cardinality(V) \in Nat
      BY <3>1, Cards
    <3>3. ASSUME V # {} PROVE 1 <= Cardinality(V)
      <4>1. Cardinality(V) # 0
        BY <3>2, <3>3, FS_EmptySet
      <4> QED
        BY <3>2, <4>1
    <3>4. ASSUME V # {} PROVE Newest(Seen("page"), 1) = Newest(V, 1)
      BY <3>1, <3>3, <3>4, UpwardNewest
    <3> QED
      BY <3>4 DEF V, LastMessage
  <2>2. ASSUME NEW marker \in 0 .. last, hot[Min({marker + 1, MaxMessages})] # NoDoc
        PROVE  Unread(marker) = {i \in Seen("search") : i > marker}
    <3> DEFINE V == Visible(hot, MaxMessages + 1, "search")
    <3>1. /\ V \subseteq Seen("search") /\ V = Seen("search") \cap Stored(hot)
          /\ \A i \in Stored(hot), j \in Seen("search") : i < j => j \in V
      BY VisibleSeen
    <3>2. ASSUME NEW i \in Seen("search"), i > marker PROVE i \in V
      <4>1. marker + 1 <= MaxMessages /\ marker + 1 \in Ids /\ marker + 1 <= i /\ i \in Nat
        BY <2>0, <3>2 DEF Seen, Ids
      <4>2. Min({marker + 1, MaxMessages}) = marker + 1
        BY <2>0, <4>1 DEF Min
      <4>3. marker + 1 \in Stored(hot)
        BY <2>2, <4>1, <4>2 DEF Stored
      <4>4. CASE i = marker + 1
        BY <3>1, <4>3, <4>4
      <4>5. CASE marker + 1 < i
        BY <3>1, <4>3, <4>5
      <4> QED
        BY <4>1, <4>4, <4>5
    <3> HIDE DEF V
    <3>3. {i \in V : i > marker} = {i \in Seen("search") : i > marker}
      BY <3>1, <3>2
    <3> QED
      BY <3>3 DEF V, Unread
  <2> QED
    BY <2>1, <2>2 DEF ListExact, Seen
<1> QED
  BY <1>1, Invariance, InitOrder, OrderStep, PTL DEF Spec

-----------------------------------------------------------------------------
(* Reactions: what a toggle has found stays true, unless it is late.       *)

NoneIn(coll, i) == coll[i].reactions = "none"

\* A toggle r that is not late, where h is hot, a the archive, b the archivers
\* with their batches and n the number of messages.
FoundIn(r, h, a, b, n) ==
    r.pc \in ReactPCs =>
        /\ r.op = "react" /\ r.id \in 1 .. n
        /\ r.pc = "toggleArchive" => a[r.id] # NoDoc
        /\ ~r.late =>
             /\ r.pc \in {"reactArchive", "pushHot", "pushHotOnly"} => NoneIn(h, r.id)
             /\ r.pc \in {"reactArchive", "pushHot"} =>
                  \A c \in Archivers : NoneIn(b[c].batch, r.id)
             /\ r.pc \in {"pushHot", "pushArchive"} => NoneIn(a, r.id)
             /\ r.pc = "pushArchive" => a[r.id] # NoDoc

Found(r) == FoundIn(r, hot, archive, archiver, last)
StillFound(r) == FoundIn(r, hot', archive', archiver', last')

NoTwo(coll) == \A i \in Ids : coll[i].reactions # "two"
NoTwos == NoTwo(hot) /\ NoTwo(archive) /\ \A a \in Archivers : NoTwo(archiver[a].batch)

RInv == NoTwos /\ \A w \in Workers : Found(call[w])

\* A step that adds no reaction to message i.
Calm(i) ==
    /\ hot'[i].reactions \in {hot[i].reactions, "none"}
    /\ \A a \in Archivers : archiver'[a].batch[i].reactions \in
          {hot[i].reactions, archiver[a].batch[i].reactions, "none"}
    /\ archive'[i].reactions \in
          {archive[i].reactions, "none"} \union {archiver[a].batch[i].reactions : a \in Archivers}
    /\ archive[i] # NoDoc =>
          archive'[i] # NoDoc /\ archive'[i].reactions \in {archive[i].reactions, "none"}

LEMMA CalmFound ==
    ASSUME last \in Nat, last' \in {last, last + 1}, NEW r, Found(r),
           r.pc \in ReactPCs => Calm(r.id)
    PROVE  StillFound(r)
<1>1. \A i : i \in 1 .. last => i \in 1 .. last'
  OBVIOUS
<1> QED
  BY <1>1 DEF Found, StillFound, FoundIn, Calm, NoneIn

LEMMA CalmTwos == ASSUME NoTwos, \A i \in Ids : Calm(i) PROVE NoTwos'
BY DEF NoTwos, NoTwo, Calm

LEMMA NotToggling == ASSUME NEW r, r.pc \notin ReactPCs PROVE StillFound(r)
BY DEF StillFound, FoundIn

LEMMA LateFound ==
    ASSUME NEW r \in CallRecords, StillFound(r) PROVE StillFound([r EXCEPT !.late = TRUE])
BY DEF StillFound, FoundIn, CallRecords

LEMMA CalmSet ==
    ASSUME IInv, RInv, \A i \in Ids : Calm(i), last' \in {last, last + 1},
           NEW w \in Workers, NEW r, StillFound(r), Set(w, r)
    PROVE  RInv'
<1>0. CallsOK /\ last \in Nat /\ \A v \in Workers : call[v].pc \in ReactPCs => call[v].id \in Ids
  BY DEF IInv, CallsOK, CallOK, StoreOK, StoreType
<1>1. \A v \in Workers : StillFound(call[v])
  BY <1>0, CalmFound DEF RInv
<1>2. \A v \in Workers : call'[v] = r \/ call'[v] = call[v]
  BY <1>0 DEF Set, CallsOK
<1>3. \A v \in Workers : StillFound(call'[v])
  BY <1>1, <1>2
<1> QED
  BY <1>3, CalmTwos DEF RInv, Found, StillFound

LEMMA CalmCalls ==
    ASSUME IInv, RInv, \A i \in Ids : Calm(i), last' = last, UNCHANGED call
    PROVE  RInv'
<1>0. CallsOK /\ last \in Nat /\ \A v \in Workers : call[v].pc \in ReactPCs => call[v].id \in Ids
  BY DEF IInv, CallsOK, CallOK, StoreOK, StoreType
<1>1. \A v \in Workers : StillFound(call[v])
  BY <1>0, CalmFound DEF RInv
<1> QED
  BY <1>1, CalmTwos DEF RInv, Found, StillFound

LEMMA CalmReturn ==
    ASSUME IInv, RInv, \A i \in Ids : Calm(i), last' \in {last, last + 1},
           NEW w \in Workers, Return(w)
    PROVE  RInv'
<1>1. Idle.pc \notin ReactPCs
  BY DEF Idle, ReactPCs
<1> QED
  BY <1>1, NotToggling, CalmSet DEF Return

LEMMA CalmGoto ==
    ASSUME IInv, RInv, \A i \in Ids : Calm(i), last' \in {last, last + 1},
           NEW w \in Workers, NEW pc, pc \notin ReactPCs, Goto(w, pc)
    PROVE  RInv'
<1>1. [call[w] EXCEPT !.pc = pc].pc = pc
  BY DEF IInv, CallsOK, CallRecords
<1> QED
  BY <1>1, NotToggling, CalmSet DEF Goto

LEMMA CalmSame == ASSUME UNCHANGED <<hot, archive, archiver>> PROVE \A i \in Ids : Calm(i)
BY DEF Calm

\* A step of a handler that changes documents but adds no reaction.
LEMMA CalmDocs ==
    ASSUME Kept,
           \A i \in Ids : hot'[i].reactions \in {hot[i].reactions, "none"},
           \A i \in Ids : archive'[i].reactions \in {archive[i].reactions, "none"}
    PROVE  \A i \in Ids : Calm(i)
BY DEF Calm, Kept, Stored

-----------------------------------------------------------------------------
LEMMA InitReactions == Init => RInv
<1> SUFFICES ASSUME Init PROVE RInv
  OBVIOUS
<1>1. \A i \in Ids : NoDoc.reactions = "none"
  BY DEF NoDoc
<1>2. NoTwos
  BY <1>1 DEF NoTwos, NoTwo, Init, ArchiverIdle, NoBatch
<1>3. \A w \in Workers : Found(call[w])
  BY DEF Init, Found, FoundIn, Idle, ReactPCs
<1> QED
  BY <1>2, <1>3 DEF RInv

LEMMA BeginReactions == ASSUME IInv, RInv, NEW w \in Workers, Begin(w) PROVE RInv'
<1>1. ASSUME NEW op, NEW pc, NEW i, NEW cursor, Start(w, op, pc, i, cursor),
             pc \in ReactPCs => op = "react" /\ pc = "reactHot" /\ i \in 1 .. last
      PROVE  RInv'
  <2> DEFINE r == [Idle EXCEPT !.op = op, !.pc = pc, !.id = i, !.cursor = cursor,
                               !.gone = unsent, !.since = last]
  <2>1. Set(w, r) /\ UNCHANGED <<hot, archive, archiver, last>>
    BY <1>1 DEF Start, Set
  <2>2. r.op = op /\ r.pc = pc /\ r.id = i
    BY DEF Idle
  <2> HIDE DEF r
  <2>3. StillFound(r)
    BY <1>1, <2>1, <2>2 DEF StillFound, FoundIn
  <2> QED
    BY <2>1, <2>3, CalmSame, CalmSet
<1>2. "save" \notin ReactPCs /\ "findHot" \notin ReactPCs /\ "updateHot" \notin ReactPCs
      /\ "pageHot" \notin ReactPCs
  BY DEF ReactPCs
<1> QED
  BY <1>1, <1>2 DEF Begin

LEMMA FindReactions ==
    ASSUME IInv, RInv, NEW w \in Workers,
           \/ CreateFindOriginal(w)
           \/ UnsendFind(w, hot, "findHot", "findArchive")
           \/ UnsendFind(w, archive, "findArchive", "idle")
           \/ PageHot(w) \/ PageArchive(w)
           \/ Mask(w, hot, "maskHot", "maskArchive") \/ Mask(w, archive, "maskArchive", "done")
           \/ PageDone(w)
    PROVE  RInv'
<1>1. UNCHANGED <<hot, archive, archiver, last>>
  BY DEF CreateFindOriginal, UnsendFind, PageHot, PageArchive, Mask, PageDone, ReadsOnly
<1>2. PICK r : r.pc \notin ReactPCs /\ Set(w, r)
  <2>0. call[w] \in CallRecords
    BY DEF IInv, CallsOK
  <2>1. CASE CreateFindOriginal(w)
    <3>1. PICK q, i : Return(w) \/ Set(w, [call[w] EXCEPT !.pc = "save", !.id = i])
                      \/ Set(w, [call[w] EXCEPT !.pc = "save", !.quote = q])
      BY <2>1 DEF CreateFindOriginal
    <3> QED
      BY <2>0, <3>1 DEF CallRecords, ReactPCs, Return, Idle
  <2>2. ASSUME NEW coll, NEW pc, NEW next \in {"findArchive", "idle"},
               UnsendFind(w, coll, pc, next)
        PROVE  \E r : r.pc \notin ReactPCs /\ Set(w, r)
    <3>1. Return(w) \/ Goto(w, next) \/ Goto(w, "updateHot")
      BY <2>2 DEF UnsendFind
    <3> QED
      BY <2>0, <3>1 DEF CallRecords, ReactPCs, Return, Goto, Idle
  <2>3. CASE PageHot(w)
    <3>1. PICK q \in {"pageArchive", "maskHot"} : \E p, d, s :
            \/ Set(w, [call[w] EXCEPT !.pc = q, !.due = d])
            \/ Set(w, [call[w] EXCEPT !.pc = q, !.page = p, !.due = d, !.quoting = s])
      BY <2>3 DEF PageHot
    <3> QED
      BY <2>0, <3>1 DEF CallRecords, ReactPCs
  <2>4. CASE PageArchive(w)
    <3>1. PICK p, s : Set(w, [call[w] EXCEPT !.pc = "maskHot", !.page = p, !.quoting = s])
      BY <2>4 DEF PageArchive
    <3> QED
      BY <2>0, <3>1 DEF CallRecords, ReactPCs
  <2>5. ASSUME NEW coll, NEW pc, NEW next \in {"maskArchive", "done"}, Mask(w, coll, pc, next)
        PROVE  \E r : r.pc \notin ReactPCs /\ Set(w, r)
    <3>1. PICK m : Set(w, [call[w] EXCEPT !.pc = next, !.masked = m])
      BY <2>5 DEF Mask
    <3> QED
      BY <2>0, <3>1 DEF CallRecords, ReactPCs
  <2>6. CASE PageDone(w)
    BY <2>6 DEF PageDone, Return, Idle, ReactPCs
  <2> QED
    BY <2>1, <2>2, <2>3, <2>4, <2>5, <2>6
<1> QED
  BY <1>1, <1>2, CalmSame, CalmSet, NotToggling

LEMMA ReactFindReactions ==
    ASSUME IInv, RInv, NEW w \in Workers,
           \/ ReactFind(w, hot, "reactHot", "toggleHot", "reactArchive")
           \/ ReactFind(w, archive, "reactArchive", "toggleArchive", "pushHot")
    PROVE  RInv'
<1> DEFINE i == call[w].id
<1>0. /\ call[w] \in CallRecords /\ UNCHANGED <<hot, archive, archiver, last>>
      /\ Found(call[w]) /\ call[w].pc \in ReactPCs /\ i \in Ids
  BY DEF IInv, CallsOK, CallOK, RInv, ReactFind, ReadsOnly, ReactPCs, At
<1>1. PICK q, l : /\ Set(w, [call[w] EXCEPT !.pc = q, !.late = l])
                  /\ l = (call[w].late \/ \E a \in Archivers : i \in Batch(a))
                  /\ \/ At(w, "reactHot") /\ q = "toggleHot"
                     \/ At(w, "reactHot") /\ q = "reactArchive" /\ ~(hot[i] # NoDoc /\ Reacted(hot[i]))
                     \/ At(w, "reactArchive") /\ q = "toggleArchive" /\ archive[i] # NoDoc
                     \/ /\ At(w, "reactArchive") /\ q = "pushHot"
                        /\ ~(archive[i] # NoDoc /\ Reacted(archive[i]))
  BY DEF ReactFind
<1> DEFINE r == [call[w] EXCEPT !.pc = q, !.late = l]
<1>2. r.pc = q /\ r.late = l /\ r.op = call[w].op /\ r.id = i
  BY <1>0 DEF CallRecords
<1> HIDE DEF r
<1>3. \A coll : ~(coll[i] # NoDoc /\ Reacted(coll[i])) => NoneIn(coll, i)
  BY DEF Reacted, NoneIn, NoDoc
<1>4. ~l => \A a \in Archivers : NoneIn(archiver[a].batch, i)
  <2> SUFFICES ASSUME ~l, NEW a \in Archivers PROVE NoneIn(archiver[a].batch, i)
    OBVIOUS
  <2>1. i \notin Batch(a)
    BY <1>1
  <2>2. archiver[a].batch[i] = NoDoc
    BY <1>0, <2>1 DEF Batch
  <2> QED
    BY <2>2 DEF NoneIn, NoDoc
<1>5. StillFound(r)
  BY <1>0, <1>1, <1>2, <1>3, <1>4 DEF Found, StillFound, FoundIn, At
<1> QED
  BY <1>0, <1>1, <1>5, CalmSame, CalmSet DEF r

\* The steps that write, but for those of a toggle.
LEMMA WriteReactions ==
    ASSUME IInv, RInv, NEW w \in Workers,
           \/ CreateSave(w) \/ UpdateHot(w) \/ UpdateArchive(w)
           \/ ClearHot(w) \/ ClearArchive(w)
    PROVE  RInv'
<1> DEFINE i == call[w].id
<1>0. Kept /\ IsColl(hot) /\ IsColl(archive) /\ last' \in {last, last + 1}
  <2>1. Kept
    BY HandlerKept DEF Step
  <2> QED
    BY <2>1 DEF Kept, IInv, StoreOK, StoreType
<1>1. \A n \in Ids : hot'[n].reactions \in {hot[n].reactions, "none"}
  <2>1. CASE CreateSave(w)
    <3>1. hot' = hot \/ \E doc : doc.reactions = "none" /\ hot' = [hot EXCEPT ![last + 1] = doc]
      BY <2>1 DEF CreateSave
    <3> QED
      BY <1>0, <3>1 DEF IsColl
  <2>2. CASE UpdateHot(w) \/ UpdateArchive(w)
    <3>1. \/ hot' = hot
          \/ hot[i] # NoDoc /\ hot' = [hot EXCEPT ![i].marks = Mark(call[w].op, @)]
      BY <2>2 DEF UpdateHot, UpdateArchive, Matches
    <3>2. CASE hot' = hot
      BY <3>2
    <3>3. CASE hot[i] # NoDoc /\ hot' = [hot EXCEPT ![i].marks = Mark(call[w].op, @)]
      BY <1>0, <3>3 DEF IsColl, Docs
    <3> QED
      BY <3>1, <3>2, <3>3
  <2>3. CASE ClearHot(w) \/ ClearArchive(w)
    BY <1>0, <2>3 DEF ClearHot, ClearArchive, Cleared, IsColl, Docs
  <2> QED
    BY <2>1, <2>2, <2>3
<1>2. \A n \in Ids : archive'[n].reactions \in {archive[n].reactions, "none"}
  <2>1. CASE CreateSave(w)
    BY <2>1 DEF CreateSave
  <2>2. CASE UpdateHot(w) \/ UpdateArchive(w)
    <3>1. \/ archive' = archive
          \/ archive[i] # NoDoc /\ archive' = [archive EXCEPT ![i].marks = Mark(call[w].op, @)]
      BY <2>2 DEF UpdateHot, UpdateArchive, Matches
    <3>2. CASE archive' = archive
      BY <3>2
    <3>3. CASE archive[i] # NoDoc /\ archive' = [archive EXCEPT ![i].marks = Mark(call[w].op, @)]
      BY <1>0, <3>3 DEF IsColl, Docs
    <3> QED
      BY <3>1, <3>2, <3>3
  <2>3. CASE ClearHot(w) \/ ClearArchive(w)
    BY <1>0, <2>3 DEF ClearHot, ClearArchive, Cleared, IsColl, Docs
  <2> QED
    BY <2>1, <2>2, <2>3
<1>3. \A n \in Ids : Calm(n)
  BY <1>0, <1>1, <1>2, CalmDocs
<1>4. PICK pc \in {"updateArchive", "clearHot", "clearArchive"} : Return(w) \/ Goto(w, pc)
  BY DEF CreateSave, UpdateHot, UpdateArchive, AfterUpdate, ClearHot, ClearArchive
<1>5. pc \notin ReactPCs
  BY DEF ReactPCs
<1> QED
  BY <1>0, <1>3, <1>4, <1>5, CalmReturn, CalmGoto

\* A toggle takes its reaction back.
LEMMA PulledReactions ==
    ASSUME NEW coll, IsColl(coll), NEW i \in Ids
    PROVE  /\ NoneIn(Pulled(coll, i), i)
           /\ \A n \in Ids : Pulled(coll, i)[n].reactions \in {coll[n].reactions, "none"}
<1>1. \A n \in Ids \ {i} : Pulled(coll, i)[n] = coll[n]
  BY DEF Pulled, IsColl
<1>2. CASE coll[i] = NoDoc
  BY <1>1, <1>2 DEF Pulled, IsColl, NoneIn, NoDoc
<1>3. CASE coll[i] # NoDoc
  BY <1>1, <1>3 DEF Pulled, IsColl, NoneIn, Docs
<1> QED
  BY <1>2, <1>3

LEMMA ToggleReactions ==
    ASSUME IInv, RInv, NEW w \in Workers, ToggleHot(w) \/ ToggleArchive(w)
    PROVE  RInv'
<1> DEFINE i == call[w].id
           r(pc) == [call[w] EXCEPT !.pc = pc]
<1>0. /\ call[w] \in CallRecords /\ Found(call[w]) /\ call[w].pc \in ReactPCs /\ i \in Ids
      /\ IsColl(hot) /\ IsColl(archive) /\ last' = last /\ Kept
  <2>1. Kept
    BY HandlerKept DEF Step
  <2> QED
    BY <2>1 DEF IInv, StoreOK, StoreType, CallsOK, CallOK, RInv, ToggleHot, ToggleArchive,
                ReactPCs, At
<1>1. /\ \A n \in Ids : hot'[n].reactions \in {hot[n].reactions, "none"}
      /\ \A n \in Ids : archive'[n].reactions \in {archive[n].reactions, "none"}
  BY <1>0, PulledReactions DEF ToggleHot, ToggleArchive
<1>2. \A n \in Ids : Calm(n)
  BY <1>0, <1>1, CalmDocs
<1>3. ASSUME NEW pc PROVE r(pc).pc = pc /\ r(pc).id = i /\ r(pc).op = call[w].op
  BY <1>0 DEF CallRecords
<1>4. CASE ToggleHot(w) /\ Goto(w, "pushHotOnly")
  <2>1. NoneIn(hot', i)
    BY <1>0, <1>4, PulledReactions DEF ToggleHot
  <2>2. StillFound(r("pushHotOnly"))
    BY <1>0, <1>3, <2>1 DEF StillFound, Found, FoundIn
  <2> QED
    BY <1>0, <1>2, <1>4, <2>2, CalmSet DEF Goto
<1>5. CASE ToggleArchive(w) /\ Goto(w, "pushArchive")
  <2>1. NoneIn(archive', i)
    BY <1>0, <1>5, PulledReactions DEF ToggleArchive
  <2>2. archive[i] # NoDoc
    BY <1>0, <1>5 DEF ToggleArchive, At, Found, FoundIn
  <2>3. archive'[i] # NoDoc
    BY <1>0, <1>2, <2>2 DEF Calm
  <2>4. StillFound(r("pushArchive"))
    BY <1>0, <1>3, <2>1, <2>3 DEF StillFound, Found, FoundIn
  <2> QED
    BY <1>0, <1>2, <1>5, <2>4, CalmSet DEF Goto
<1>6. CASE Return(w)
  BY <1>0, <1>2, <1>6, CalmReturn
<1> QED
  BY <1>4, <1>5, <1>6 DEF ToggleHot, ToggleArchive

LEMMA PushedReactions ==
    ASSUME NEW coll, IsColl(coll), NEW i \in Ids, coll[i] # NoDoc, NEW late \in BOOLEAN,
           NoTwo(coll), ~late => NoneIn(coll, i)
    PROVE  /\ NoTwo(Pushed(coll, i, late))
           /\ \A n \in Ids \ {i} : Pushed(coll, i, late)[n] = coll[n]
<1> DEFINE old == coll[i].reactions
           new == IF old = "none" THEN "one" ELSE IF late \/ old = "raced" THEN "raced" ELSE "two"
<1>1. new # "two"
  BY DEF NoneIn
<1>2. Pushed(coll, i, late) = [coll EXCEPT ![i] = [coll[i] EXCEPT !.reactions = new]]
  BY DEF Pushed
<1> HIDE DEF new
<1>3. Pushed(coll, i, late)[i].reactions = new
  BY <1>2 DEF IsColl, Docs
<1>4. \A n \in Ids \ {i} : Pushed(coll, i, late)[n] = coll[n]
  BY <1>2 DEF IsColl
<1> QED
  BY <1>1, <1>3, <1>4 DEF NoTwo

\* After a push the other toggles on the message are late, and the rest have
\* found what they found.
LEMMA ReturnReactedFound ==
    ASSUME IInv, RInv, NEW w \in Workers, ReturnReacted(w), Kept, last' = last,
           \A n \in Ids \ {call[w].id} : Calm(n), NoTwos'
    PROVE  RInv'
<1>0. CallsOK /\ last \in Nat /\ \A v \in Workers : call[v].pc \in ReactPCs => call[v].id \in Ids
  BY DEF IInv, CallsOK, CallOK, StoreOK, StoreType
<1>1. ASSUME NEW v \in Workers PROVE StillFound(call'[v])
  <2> DEFINE late == [call[v] EXCEPT !.late = TRUE]
  <2>0. call[v] \in CallRecords /\ Found(call[v])
    BY <1>0 DEF CallsOK, RInv
  <2>1. CASE call'[v] = Idle
    BY <2>1, NotToggling DEF Idle, ReactPCs
  <2>2. CASE call'[v] = late /\ call[v].op = "react"
    <3>1. /\ late.pc = call[v].pc /\ late.op = call[v].op /\ late.id = call[v].id
          /\ late.late = TRUE
      BY <2>0 DEF CallRecords
    <3>2. \A i \in Ids : archive[i] # NoDoc => archive'[i] # NoDoc
      BY DEF Kept, Stored
    <3> HIDE DEF late
    <3>3. StillFound(late)
      BY <1>0, <2>0, <3>1, <3>2 DEF StillFound, Found, FoundIn
    <3> QED
      BY <2>2, <3>3
  <2>3. CASE call'[v] = call[v] /\ ~(call[v].op = "react" /\ call[v].id = call[w].id)
    <3>1. call[v].pc \in ReactPCs => Calm(call[v].id)
      BY <1>0, <2>0, <2>3 DEF Found, FoundIn
    <3> QED
      BY <1>0, <2>0, <2>3, <3>1, CalmFound
  <2> QED
    BY <2>1, <2>2, <2>3 DEF ReturnReacted
<1> QED
  BY <1>1 DEF RInv, Found, StillFound

LEMMA PushReactions ==
    ASSUME IInv, RInv, NEW w \in Workers, PushHot(w) \/ PushArchive(w)
    PROVE  RInv'
<1> DEFINE i == call[w].id
<1>0. /\ call[w] \in CallRecords /\ Found(call[w]) /\ call[w].pc \in ReactPCs /\ i \in Ids
      /\ IsColl(hot) /\ IsColl(archive) /\ last' = last /\ Kept /\ StoreOK
      /\ call[w].late \in BOOLEAN /\ UNCHANGED archiver
  <2>1. Kept
    BY HandlerKept DEF Step
  <2> QED
    BY <2>1 DEF IInv, StoreOK, StoreType, CallsOK, CallOK, RInv, PushHot, PushArchive,
                ReactPCs, At, CallRecords
<1>1. CASE PushHot(w) /\ hot[i] # NoDoc
  <2>1. hot' = Pushed(hot, i, call[w].late) /\ UNCHANGED archive /\ ReturnReacted(w)
    BY <1>1 DEF PushHot
  <2>2. ~call[w].late => NoneIn(hot, i)
    BY <1>0, <1>1 DEF PushHot, Found, FoundIn
  <2>3. NoTwo(hot') /\ \A n \in Ids \ {i} : hot'[n] = hot[n]
    BY <1>0, <1>1, <2>1, <2>2, PushedReactions DEF RInv, NoTwos
  <2>4. NoTwos' /\ \A n \in Ids \ {i} : Calm(n)
    BY <1>0, <2>1, <2>3 DEF RInv, NoTwos, NoTwo, Calm
  <2> QED
    BY <1>0, <2>1, <2>4, ReturnReactedFound
<1>2. CASE PushArchive(w) /\ archive[i] # NoDoc
  <2>1. archive' = Pushed(archive, i, call[w].late) /\ UNCHANGED hot /\ ReturnReacted(w)
    BY <1>2 DEF PushArchive
  <2>2. ~call[w].late => NoneIn(archive, i)
    BY <1>0, <1>2 DEF PushArchive, At, Found, FoundIn
  <2>3. NoTwo(archive') /\ \A n \in Ids \ {i} : archive'[n] = archive[n]
    BY <1>0, <1>2, <2>1, <2>2, PushedReactions DEF RInv, NoTwos
  <2>4. NoTwos' /\ \A n \in Ids \ {i} : Calm(n)
    BY <1>0, <2>1, <2>3 DEF RInv, NoTwos, NoTwo, Calm
  <2> QED
    BY <1>0, <2>1, <2>4, ReturnReactedFound
<1>3. CASE PushHot(w) /\ hot[i] = NoDoc
  <2>1. /\ UNCHANGED <<hot, archive, archiver, last>>
        /\ Return(w) \/ (At(w, "pushHot") /\ Goto(w, "pushArchive"))
    BY <1>0, <1>3 DEF PushHot
  <2>2. ASSUME At(w, "pushHot"), Goto(w, "pushArchive") PROVE RInv'
    <3> DEFINE r == [call[w] EXCEPT !.pc = "pushArchive"]
    <3>1. i \in 1 .. last
      BY <1>0 DEF Found, FoundIn
    <3>2. archive[i] # NoDoc
      BY <1>0, <1>3, <3>1 DEF StoreOK, NothingLost, Stored
    <3>3. r.pc = "pushArchive" /\ r.id = i /\ r.op = call[w].op /\ r.late = call[w].late
      BY <1>0 DEF CallRecords
    <3> HIDE DEF r
    <3>4. StillFound(r)
      BY <1>0, <2>1, <2>2, <3>2, <3>3 DEF StillFound, Found, FoundIn, At
    <3> QED
      BY <2>1, <2>2, <3>4, CalmSame, CalmSet DEF Goto, r
  <2> QED
    BY <2>1, <2>2, CalmSame, CalmReturn
<1>4. CASE PushArchive(w) /\ archive[i] = NoDoc
  <2>1. UNCHANGED <<hot, archive, archiver, last>> /\ Return(w)
    BY <1>0, <1>4 DEF PushArchive
  <2> QED
    BY <2>1, CalmSame, CalmReturn
<1> QED
  BY <1>1, <1>2, <1>3, <1>4

LEMMA ArchiverReactions ==
    ASSUME IInv, RInv, NEW a \in Archivers,
           ArchiverStarts(a) \/ ArchiverStep(a) \/ ArchiverCrashes(a)
    PROVE  RInv'
<1>0. /\ UNCHANGED <<last, call>>
      /\ \A b \in Archivers : \A i \in Ids \ Batch(b)' : archiver'[b].batch[i] = NoDoc
      /\ NoDoc.reactions = "none"
  BY BatchStep DEF Batch, NoDoc
<1>1. \A i \in Ids : hot'[i] = hot[i] \/ hot'[i] = NoDoc
  BY BatchStep, DeletesBatch
<1>2. \A i \in Ids : \/ archive'[i] = archive[i]
                     \/ archive[i] = NoDoc /\ archive'[i] = archiver[a].batch[i] /\ archive'[i] # NoDoc
  <2>1. CASE ArchiverInserts(a)
    <3>1. PICK done \in SUBSET (Batch(a) \ Stored(archive)) : Insert(a, done)
      BY <2>1, InsertsBatch
    <3>2. \A i \in done : archive[i] = NoDoc /\ archiver[a].batch[i] # NoDoc
      BY <3>1 DEF Batch, Stored
    <3> QED
      BY <3>1, <3>2 DEF Insert
  <2> QED
    BY <2>1, BatchStep
<1>3. \A b \in Archivers : \A i \in Ids :
        archiver'[b].batch[i] \in {hot[i], archiver[b].batch[i], NoDoc}
  BY <1>0, BatchStep
<1>4. \A i \in Ids : Calm(i)
  <2> SUFFICES ASSUME NEW i \in Ids PROVE Calm(i)
    OBVIOUS
  <2>1. hot'[i].reactions \in {hot[i].reactions, "none"}
    BY <1>0, <1>1
  <2>2. \A b \in Archivers : archiver'[b].batch[i].reactions \in
          {hot[i].reactions, archiver[b].batch[i].reactions, "none"}
    BY <1>0, <1>3
  <2>3. /\ archive'[i].reactions \in
             {archive[i].reactions, "none"} \union {archiver[b].batch[i].reactions : b \in Archivers}
        /\ archive[i] # NoDoc =>
             archive'[i] # NoDoc /\ archive'[i].reactions \in {archive[i].reactions, "none"}
    BY <1>2
  <2> QED
    BY <2>1, <2>2, <2>3 DEF Calm
<1> QED
  BY <1>0, <1>4, CalmCalls

\* An account has one reaction on a message at most, as long as no toggle was
\* late: a toggle that finds none pushes one, wherever the message has gone in
\* the meantime.
THEOREM ReactsOnce == Spec => []OneReaction
<1>1. IInv /\ RInv /\ [Next]_vars => RInv'
  <2> SUFFICES ASSUME IInv, RInv, [Next]_vars PROVE RInv'
    OBVIOUS
  <2>1. ASSUME NEW w \in Workers, Step(w) PROVE RInv'
    BY <2>1, FindReactions, ReactFindReactions, WriteReactions, ToggleReactions,
       PushReactions DEF Step
  <2>2. ASSUME NEW w \in Workers, Begin(w) PROVE RInv'
    BY <2>2, BeginReactions
  <2>3. ASSUME NEW w \in Workers, Crash(w) PROVE RInv'
    <3>1. UNCHANGED <<hot, archive, archiver, last>> /\ Return(w)
      BY <2>3 DEF Crash
    <3> QED
      BY <3>1, CalmSame, CalmReturn
  <2>4. ASSUME NEW a \in Archivers, ArchiverStarts(a) \/ ArchiverStep(a) \/ ArchiverCrashes(a)
        PROVE  RInv'
    BY <2>4, ArchiverReactions
  <2>5. CASE Age \/ UNCHANGED vars
    <3>1. UNCHANGED <<hot, archive, archiver, last, call>>
      BY <2>5 DEF Age, vars
    <3> QED
      BY <3>1, CalmSame, CalmCalls
  <2> QED
    BY <2>1, <2>2, <2>3, <2>4, <2>5 DEF Next
<1>2. IInv /\ RInv => OneReaction
  <2> SUFFICES ASSUME IInv, RInv, NEW i \in 1 .. last PROVE Current(i).reactions # "two"
    BY DEF OneReaction
  <2>1. i \in Ids
    BY KnownIds DEF IInv, StoreOK
  <2> QED
    BY <2>1 DEF RInv, NoTwos, NoTwo, Current
<1> QED
  BY <1>1, <1>2, InitReactions, Invariance, PTL DEF Spec
=============================================================================
