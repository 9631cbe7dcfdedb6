--------------------------- MODULE MessageLogProofs ---------------------------
(***************************************************************************)
(* The two collections with their handlers and the archivers implement     *)
(* MessageLog, and what is read from them shows it: no snapshot of an      *)
(* unsent message is sent, and a page is complete.  For every number of    *)
(* messages, batch size, number of handlers and of servers that archive,   *)
(* and wherever they are cut off.                                          *)
(***************************************************************************)
EXTENDS MessageArchiveProofs

-----------------------------------------------------------------------------
(* The invariant that makes a move invisible.                              *)

IsUnsent(doc) == "unsent" \in doc.marks

\* Only messages older than the cutoff are moved.
OnlyOldMoved ==
    /\ \A a \in Archivers : archiver[a].cutoff <= cutoff /\ Batch(a) \subseteq 1 .. cutoff
    /\ Stored(archive) \subseteq 1 .. cutoff

\* An unsend that has passed the 24 hours check is about a message that is
\* younger than the cutoff, and so it never reaches the archive.
UnsendOK(r) ==
    r.op = "unsend" =>
        /\ r.id \in 1 .. last
        /\ r.pc = "updateHot" => r.id > cutoff
        /\ r.pc # "updateArchive"

\* Two copies of one message agree on whether it is unsent.
CopiesAgree ==
    /\ \A i \in Stored(hot) \cap Stored(archive) : IsUnsent(hot[i]) <=> IsUnsent(archive[i])
    /\ \A a \in Archivers : \A i \in Batch(a) \cap Stored(hot) :
         IsUnsent(archiver[a].batch[i]) <=> IsUnsent(hot[i])

UnsendsOK == \A w \in Workers : UnsendOK(call[w])

LInv == OnlyOldMoved /\ UnsendsOK /\ CopiesAgree

\* What a step has to show.
LogStep == LInv' /\ [Log!Next]_Contents

-----------------------------------------------------------------------------
(* Collections that hold the same messages, unsent or not.                 *)

SameMarks(c, d) ==
    /\ Stored(d) = Stored(c)
    /\ \A i \in Stored(c) : IsUnsent(c[i]) <=> IsUnsent(d[i])

LEMMA SameContents ==
    ASSUME SameMarks(hot, hot'), SameMarks(archive, archive')
    PROVE  Contents' = Contents
<1>1. \A i \in Stored(hot) \union Stored(archive) :
         IsUnsent(Current(i)) <=> IsUnsent(Current(i)')
  BY DEF SameMarks, Current, Stored
<1>2. Stored(hot') \union Stored(archive') = Stored(hot) \union Stored(archive)
  BY DEF SameMarks
<1> QED
  BY <1>1, <1>2 DEF Contents, IsUnsent

\* Any mark but that of an unsend.
LEMMA MarkSame ==
    ASSUME NEW coll, IsColl(coll), NEW i \in Ids, coll[i] # NoDoc,
           NEW op \in Updates \ {"unsend"}
    PROVE  SameMarks(coll, [coll EXCEPT ![i].marks = Mark(op, @)])
<1> DEFINE new == [coll EXCEPT ![i].marks = Mark(op, @)]
<1>1. Stored(new) = Stored(coll)
  BY MarkKeeps
<1>2. coll[i] \in Docs
  BY DEF IsColl
<1>3. "unsent" \in Mark(op, coll[i].marks) <=> "unsent" \in coll[i].marks
  BY DEF Mark, Updates
<1>4. IsUnsent(new[i]) <=> IsUnsent(coll[i])
  BY <1>2, <1>3 DEF IsUnsent, IsColl, Docs
<1>5. \A j \in Ids : j # i => new[j] = coll[j]
  BY DEF IsColl
<1> QED
  BY <1>1, <1>4, <1>5 DEF SameMarks, Stored

LEMMA ClearSame ==
    ASSUME NEW coll, IsColl(coll), NEW i PROVE SameMarks(coll, Cleared(coll, i))
<1>1. Stored(Cleared(coll, i)) = Stored(coll)
  BY ClearKeeps
<1>2. \A j \in Stored(coll) : IsUnsent(Cleared(coll, i)[j]) <=> IsUnsent(coll[j])
  BY DEF Stored, Cleared, IsUnsent, IsColl, Docs
<1> QED
  BY <1>1, <1>2 DEF SameMarks

LEMMA ReactionSame ==
    ASSUME NEW coll, IsColl(coll), NEW i \in Ids
    PROVE  /\ SameMarks(coll, Pulled(coll, i))
           /\ \A late \in BOOLEAN : coll[i] # NoDoc => SameMarks(coll, Pushed(coll, i, late))
<1>1. \A j \in Stored(coll) : Pulled(coll, i)[j].marks = coll[j].marks
  BY DEF Stored, Pulled, IsColl, Docs
<1>2. \A late \in BOOLEAN, j \in Stored(coll) : Pushed(coll, i, late)[j].marks = coll[j].marks
  BY DEF Stored, Pushed, IsColl, Docs
<1> QED
  BY <1>1, <1>2, ReactionKeeps DEF SameMarks, IsUnsent

-----------------------------------------------------------------------------
(* Calls.                                                                  *)

LEMMA SetUnsend ==
    ASSUME CallsOK, UnsendsOK, last \in Nat, last' \in {last, last + 1}, cutoff' = cutoff,
           NEW w \in Workers, NEW r, UnsendOK(r), Set(w, r)
    PROVE  UnsendsOK'
<1>1. \A v \in Workers : UnsendOK(call'[v])
  BY DEF UnsendsOK, CallsOK, Set
<1>2. \A i : i \in 1 .. last => i \in 1 .. last'
  OBVIOUS
<1> QED
  BY <1>1, <1>2 DEF UnsendsOK, UnsendOK

LEMMA IdleUnsend == UnsendOK(Idle)
BY DEF UnsendOK, Idle

LEMMA GotoUnsend ==
    ASSUME CallsOK, UnsendsOK, last \in Nat, last' = last, cutoff' = cutoff,
           NEW w \in Workers, NEW pc, Goto(w, pc),
           call[w].op = "unsend" =>
              pc # "updateArchive" /\ (pc = "updateHot" => call[w].id > cutoff)
    PROVE  UnsendsOK'
<1>1. UnsendOK([call[w] EXCEPT !.pc = pc])
  BY DEF UnsendsOK, UnsendOK, CallsOK, CallRecords
<1> QED
  BY <1>1, SetUnsend DEF Goto

LEMMA ReturnUnsend ==
    ASSUME CallsOK, UnsendsOK, last \in Nat, last' \in {last, last + 1}, cutoff' = cutoff,
           NEW w \in Workers, Return(w)
    PROVE  UnsendsOK'
BY IdleUnsend, SetUnsend DEF Return

-----------------------------------------------------------------------------
(* The steps that the log does not see.                                    *)

LEMMA QuietStep ==
    ASSUME LInv, SameMarks(hot, hot'), SameMarks(archive, archive'),
           UNCHANGED <<last, cutoff, archiver>>, UnsendsOK'
    PROVE  LogStep
<1>1. Contents' = Contents
  BY SameContents
<1>2. \A a \in Archivers : Batch(a)' = Batch(a)
  BY DEF Batch
<1>3. OnlyOldMoved'
  BY <1>2 DEF LInv, OnlyOldMoved, SameMarks
<1>4. CopiesAgree'
  BY <1>2 DEF LInv, CopiesAgree, SameMarks
<1> QED
  BY <1>1, <1>3, <1>4 DEF LogStep, LInv

LEMMA ReadOnlyStep == ASSUME LInv, ReadsOnly, UnsendsOK' PROVE LogStep
BY QuietStep DEF ReadsOnly, SameMarks

LEMMA Basics ==
    ASSUME IInv, LInv
    PROVE  /\ CallsOK /\ StoreOK /\ StoreType /\ UnsendsOK /\ IsColl(hot) /\ IsColl(archive)
           /\ last \in Nat /\ cutoff \in Nat /\ MaxMessages \in Nat
           /\ \A a \in Archivers : archiver[a] \in ArchiverRecords /\ archiver[a].cutoff \in Nat
BY BoundsAssumption DEF IInv, LInv, StoreOK, StoreType, ArchiverRecords

LEMMA BeginLog == ASSUME IInv, LInv, NEW w \in Workers, Begin(w) PROVE LogStep
<1>0. CallsOK /\ UnsendsOK /\ last \in Nat
  BY Basics
<1>1. ASSUME NEW op, NEW pc, NEW i, NEW cursor, Start(w, op, pc, i, cursor),
             op = "unsend" => i \in 1 .. last /\ pc = "findHot"
      PROVE  LogStep
  <2> DEFINE r == [Idle EXCEPT !.op = op, !.pc = pc, !.id = i, !.cursor = cursor,
                               !.gone = unsent, !.since = last]
  <2>1. UnsendOK(r)
    BY <1>1 DEF UnsendOK, Idle
  <2>2. Set(w, r) /\ ReadsOnly
    BY <1>1 DEF Start, Set, ReadsOnly
  <2>3. UnsendsOK'
    BY <1>0, <2>1, <2>2, SetUnsend DEF ReadsOnly
  <2> QED
    BY <2>2, <2>3, ReadOnlyStep
<1>2. CASE Start(w, "create", "save", 0, 0)
  BY <1>1, <1>2
<1>3. ASSUME NEW i \in 1 .. last,
             \/ Start(w, "create", "findHot", i, 0) \/ Start(w, "unsend", "findHot", i, 0)
             \/ Start(w, "react", "reactHot", i, 0)
      PROVE  LogStep
  BY <1>1, <1>3
<1>4. ASSUME NEW i \in 1 .. last, NEW op \in {"edit", "deleteForMe", "pin", "unpin"},
             Start(w, op, "updateHot", i, 0)
      PROVE  LogStep
  <2>1. op # "unsend"
    OBVIOUS
  <2> QED
    BY <1>1, <1>4, <2>1
<1>5. ASSUME NEW op \in {"page", "search"}, NEW c, Start(w, op, "pageHot", 0, c)
      PROVE  LogStep
  <2>1. op # "unsend"
    OBVIOUS
  <2> QED
    BY <1>1, <1>5, <2>1
<1> QED
  BY <1>2, <1>3, <1>4, <1>5 DEF Begin

LEMMA ReadLog ==
    ASSUME IInv, LInv, NEW w \in Workers,
           \/ CreateFindOriginal(w)
           \/ UnsendFind(w, hot, "findHot", "findArchive")
           \/ UnsendFind(w, archive, "findArchive", "idle")
           \/ ReactFind(w, hot, "reactHot", "toggleHot", "reactArchive")
           \/ ReactFind(w, archive, "reactArchive", "toggleArchive", "pushHot")
           \/ PageHot(w) \/ PageArchive(w)
           \/ Mask(w, hot, "maskHot", "maskArchive") \/ Mask(w, archive, "maskArchive", "done")
           \/ PageDone(w)
    PROVE  LogStep
<1>0. /\ CallsOK /\ UnsendsOK /\ last \in Nat
      /\ call[w] \in CallRecords /\ UnsendOK(call[w])
  BY Basics DEF CallsOK, UnsendsOK
<1>1. ReadsOnly
  BY DEF CreateFindOriginal, UnsendFind, ReactFind, PageHot, PageArchive, Mask, PageDone
<1>2. UnsendsOK'
  <2>1. CASE CreateFindOriginal(w)
    <3>1. call[w].op = "create"
      BY <2>1 DEF CreateFindOriginal
    <3>2. PICK r : (r = Idle \/ r.op = call[w].op) /\ Set(w, r)
      BY <1>0, <2>1 DEF CreateFindOriginal, Return, CallRecords
    <3>3. UnsendOK(r)
      BY <3>1, <3>2 DEF UnsendOK, Idle
    <3> QED
      BY <1>0, <1>1, <3>2, <3>3, SetUnsend DEF ReadsOnly
  <2>2. ASSUME NEW coll, NEW pc, NEW next \in {"findArchive", "idle"},
               UnsendFind(w, coll, pc, next)
        PROVE  UnsendsOK'
    <3>1. Return(w) \/ Goto(w, next) \/ (call[w].id > cutoff /\ Goto(w, "updateHot"))
      BY <2>2 DEF UnsendFind
    <3> QED
      BY <1>0, <1>1, <3>1, ReturnUnsend, GotoUnsend DEF ReadsOnly
  <2>3. ASSUME NEW r, Set(w, r), r.op = call[w].op, r.id = call[w].id,
               r.pc # "updateHot", r.pc # "updateArchive"
        PROVE  UnsendsOK'
    <3>1. UnsendOK(r)
      BY <1>0, <2>3 DEF UnsendOK
    <3> QED
      BY <1>0, <1>1, <2>3, <3>1, SetUnsend DEF ReadsOnly
  <2>4. ASSUME NEW coll, NEW pc, NEW found \in ReactPCs, NEW next \in ReactPCs,
               ReactFind(w, coll, pc, found, next)
        PROVE  UnsendsOK'
    <3>1. PICK q \in {found, next} :
            \E l : Set(w, [call[w] EXCEPT !.pc = q, !.late = l])
      BY <2>4 DEF ReactFind
    <3>2. q # "updateHot" /\ q # "updateArchive"
      BY DEF ReactPCs
    <3> QED
      BY <1>0, <2>3, <3>1, <3>2 DEF CallRecords
  <2>5. CASE PageHot(w)
    <3>1. PICK q \in {"pageArchive", "maskHot"} : \E p, d, s :
            \/ Set(w, [call[w] EXCEPT !.pc = q, !.due = d])
            \/ Set(w, [call[w] EXCEPT !.pc = q, !.page = p, !.due = d, !.quoting = s])
      BY <2>5 DEF PageHot
    <3> QED
      BY <1>0, <2>3, <3>1 DEF CallRecords
  <2>6. CASE PageArchive(w)
    <3>1. PICK p, s : Set(w, [call[w] EXCEPT !.pc = "maskHot", !.page = p, !.quoting = s])
      BY <2>6 DEF PageArchive
    <3> QED
      BY <1>0, <2>3, <3>1 DEF CallRecords
  <2>7. ASSUME NEW coll, NEW pc, NEW next \in {"maskArchive", "done"}, Mask(w, coll, pc, next)
        PROVE  UnsendsOK'
    <3>1. PICK m : Set(w, [call[w] EXCEPT !.pc = next, !.masked = m])
      BY <2>7 DEF Mask
    <3> QED
      BY <1>0, <2>3, <3>1 DEF CallRecords
  <2>8. CASE PageDone(w)
    BY <1>0, <1>1, <2>8, ReturnUnsend DEF PageDone, ReadsOnly
  <2>9. /\ "reactHot" \in ReactPCs /\ "toggleHot" \in ReactPCs /\ "reactArchive" \in ReactPCs
        /\ "toggleArchive" \in ReactPCs /\ "pushHot" \in ReactPCs
    BY DEF ReactPCs
  <2> QED
    BY <2>1, <2>2, <2>4, <2>5, <2>6, <2>7, <2>8, <2>9
<1> QED
  BY <1>1, <1>2, ReadOnlyStep

LEMMA ClearLog ==
    ASSUME IInv, LInv, NEW w \in Workers, ClearHot(w) \/ ClearArchive(w) PROVE LogStep
<1>0. CallsOK /\ UnsendsOK /\ last \in Nat /\ IsColl(hot) /\ IsColl(archive)
  BY Basics
<1>1. /\ Goto(w, "clearArchive") \/ Return(w)
      /\ hot' = hot \/ hot' = Cleared(hot, call[w].id)
      /\ archive' = archive \/ archive' = Cleared(archive, call[w].id)
      /\ UNCHANGED <<last, cutoff, archiver>>
  BY DEF ClearHot, ClearArchive
<1>2. SameMarks(hot, hot') /\ SameMarks(archive, archive')
  BY <1>0, <1>1, ClearSame DEF SameMarks
<1>3. UnsendsOK'
  BY <1>0, <1>1, GotoUnsend, ReturnUnsend
<1> QED
  BY <1>1, <1>2, <1>3, QuietStep

LEMMA ReactLog ==
    ASSUME IInv, LInv, NEW w \in Workers,
           ToggleHot(w) \/ ToggleArchive(w) \/ PushHot(w) \/ PushArchive(w)
    PROVE  LogStep
<1> DEFINE i == call[w].id
<1>0. /\ CallsOK /\ UnsendsOK /\ last \in Nat /\ IsColl(hot) /\ IsColl(archive)
      /\ i \in Ids /\ call[w].late \in BOOLEAN
  BY Basics DEF CallsOK, CallOK, CallRecords, ReactPCs, ToggleHot, ToggleArchive,
                PushHot, PushArchive, At
<1>1. /\ ReturnReacted(w) \/ Return(w) \/ Goto(w, "pushHotOnly") \/ Goto(w, "pushArchive")
      /\ \/ hot' = Pulled(hot, i)
         \/ hot[i] # NoDoc /\ hot' = Pushed(hot, i, call[w].late)
         \/ hot' = hot
      /\ \/ archive' = Pulled(archive, i)
         \/ archive[i] # NoDoc /\ archive' = Pushed(archive, i, call[w].late)
         \/ archive' = archive
      /\ UNCHANGED <<last, cutoff, archiver>>
  BY DEF ToggleHot, ToggleArchive, PushHot, PushArchive
<1>2. SameMarks(hot, hot')
  BY <1>0, <1>1, ReactionSame DEF SameMarks
<1>3. SameMarks(archive, archive')
  BY <1>0, <1>1, ReactionSame DEF SameMarks
<1>4. UnsendsOK'
  <2>1. CASE ReturnReacted(w)
    <3>1. \A v \in Workers : UnsendOK(call'[v])
      BY <1>0, <2>1, IdleUnsend DEF ReturnReacted, UnsendsOK, UnsendOK, CallsOK, CallRecords
    <3> QED
      BY <1>1, <3>1 DEF UnsendsOK, UnsendOK
  <2> QED
    BY <1>0, <1>1, <2>1, GotoUnsend, ReturnUnsend
<1> QED
  BY <1>1, <1>2, <1>3, <1>4, QuietStep

-----------------------------------------------------------------------------
(* The steps that the log sees: a message is stored, or unsent.            *)

\* Each message created is in the log under its number.
LEMMA LogDomain ==
    ASSUME StoreOK PROVE DOMAIN Contents = 1 .. last
BY DEF StoreOK, NothingLost, Contents

LEMMA SaveLog == ASSUME IInv, LInv, NEW w \in Workers, CreateSave(w) PROVE LogStep
<1> DEFINE doc == [marks |-> {}, reactions |-> "none", reply |-> call[w].id,
                   quote |-> call[w].quote]
<1>0. CallsOK /\ StoreOK /\ UnsendsOK /\ last \in Nat /\ cutoff \in Nat /\ MaxMessages \in Nat
      /\ IsColl(hot) /\ IsColl(archive)
  BY Basics
<1>1. CASE ~Valid(doc)
  <2>1. ReadsOnly /\ Return(w)
    BY <1>1 DEF CreateSave, ReadsOnly
  <2> QED
    BY <1>0, <2>1, ReturnUnsend, ReadOnlyStep DEF ReadsOnly
<1>2. CASE Valid(doc)
  <2> DEFINE n == last + 1
  <2>1. /\ last' = n /\ hot' = [hot EXCEPT ![n] = doc] /\ last < MaxMessages
        /\ Return(w) /\ UNCHANGED <<archive, cutoff, archiver>>
    BY <1>2 DEF CreateSave
  <2>2. n \in Ids /\ n \notin 1 .. last /\ 1 .. n = 1 .. last \union {n}
    BY <1>0, <2>1 DEF Ids
  <2>3. doc # NoDoc /\ ~IsUnsent(doc)
    BY <1>0, NoDocIsNone, BoundsAssumption DEF NoDoc, IsUnsent, CallsOK, CallRecords
  <2>4. hot'[n] = doc /\ \A i \in Ids \ {n} : hot'[i] = hot[i]
    BY <2>1, <2>2, <1>0 DEF IsColl
  <2> DEFINE Copied == Stored(archive) \union UNION {Batch(a) : a \in Archivers}
  <2>5. n \notin Stored(hot) /\ n \notin Copied
    BY <1>0, <2>2 DEF StoreOK, NothingLost, BatchKnown
  <2>6. Stored(hot') = Stored(hot) \union {n}
    BY <2>2, <2>3, <2>4 DEF Stored
  <2>7. UnsendsOK'
    BY <1>0, <2>1, ReturnUnsend
  <2>8. OnlyOldMoved' /\ CopiesAgree'
    <3>1. (\A a \in Archivers : Batch(a)' = Batch(a)) /\ Stored(archive') = Stored(archive)
      BY <2>1 DEF Batch
    <3>2. OnlyOldMoved'
      BY <2>1, <3>1 DEF LInv, OnlyOldMoved
    <3>3. \A i \in Copied : hot'[i] = hot[i] /\ i # n
      BY <2>4, <2>5 DEF Stored, Batch
    <3>4. \A i \in Copied : i \in Stored(hot') <=> i \in Stored(hot)
      BY <2>6, <3>3
    <3> QED
      BY <2>1, <3>1, <3>2, <3>3, <3>4 DEF LInv, CopiesAgree
  <2>9. Contents' = [i \in 1 .. n |-> IF i = n THEN "sent" ELSE Contents[i]]
    <3>1. DOMAIN Contents = 1 .. last /\ DOMAIN Contents' = 1 .. n
      BY <1>0, <2>1, <2>2, <2>6 DEF StoreOK, NothingLost, Contents
    <3>2. Contents'[n] = "sent"
      BY <2>1, <2>2, <2>3, <2>4, <3>1 DEF Contents, Current, IsUnsent
    <3>3. \A i \in 1 .. last : Contents'[i] = Contents[i]
      <4>1. \A i \in 1 .. last : i \in Ids \ {n} /\ i \in 1 .. n
        BY <2>2, <1>0, KnownIds, Basics
      <4>2. \A i \in 1 .. last : Current(i)' = Current(i)
        BY <2>1, <2>4, <4>1 DEF Current
      <4> QED
        BY <2>1, <3>1, <4>1, <4>2 DEF Contents
    <3> QED
      BY <2>2, <3>1, <3>2, <3>3 DEF Contents
  <2>10. Log!Append
    <3>1. n \in 1 .. MaxMessages /\ 1 .. (n - 1) = 1 .. last
      BY <1>0, <2>2 DEF Ids
    <3> QED
      BY <1>0, <2>9, <3>1, LogDomain DEF Log!Append
  <2> QED
    BY <2>7, <2>8, <2>10 DEF LogStep, LInv, Log!Next
<1> QED
  BY <1>1, <1>2

\* An unsend finds its message in the hot collection, and has no other copy.
LEMMA UnsendLog ==
    ASSUME IInv, LInv, NEW w \in Workers, call[w].op = "unsend",
           UpdateHot(w) \/ UpdateArchive(w)
    PROVE  LogStep
<1> DEFINE i == call[w].id
<1>0. /\ CallsOK /\ StoreOK /\ UnsendsOK /\ last \in Nat /\ cutoff \in Nat
      /\ IsColl(hot) /\ IsColl(archive) /\ UnsendOK(call[w])
  BY Basics DEF UnsendsOK
<1>1. UpdateHot(w) /\ call[w].pc = "updateHot"
  BY <1>0 DEF UnsendOK, UpdateHot, UpdateArchive, At
<1>2. i \in 1 .. last /\ i > cutoff /\ i \in Ids
  BY <1>0, <1>1, KnownIds DEF UnsendOK, StoreOK
<1>3. i \notin Stored(archive) /\ (\A a \in Archivers : i \notin Batch(a)) /\ hot[i] # NoDoc
  BY <1>0, <1>2 DEF LInv, OnlyOldMoved, StoreOK, NothingLost, Stored
<1>4. /\ hot' = [hot EXCEPT ![i].marks = Mark("unsend", @)]
      /\ Goto(w, "clearHot") /\ UNCHANGED <<archive, last, cutoff, archiver>>
  BY <1>1, <1>3 DEF UpdateHot, Matches, AfterUpdate
<1>5. Stored(hot') = Stored(hot)
  BY <1>0, <1>2, <1>3, <1>4, MarkKeeps DEF Updates
<1>6. hot[i] \in Docs /\ IsUnsent(hot'[i])
  BY <1>0, <1>2, <1>3, <1>4 DEF IsColl, IsUnsent, Mark, Docs
<1>7. \A j \in Ids : j # i => hot'[j] = hot[j]
  BY <1>0, <1>4 DEF IsColl
<1>8. UnsendsOK'
  BY <1>0, <1>4, GotoUnsend
<1>9. OnlyOldMoved' /\ CopiesAgree'
  <2>1. (\A a \in Archivers : Batch(a)' = Batch(a)) /\ Stored(archive') = Stored(archive)
    BY <1>4 DEF Batch
  <2>2. \A j \in Stored(archive) \union UNION {Batch(a) : a \in Archivers} : hot'[j] = hot[j]
    BY <1>3, <1>7 DEF Stored, Batch
  <2> QED
    BY <1>4, <1>5, <2>1, <2>2 DEF LInv, OnlyOldMoved, CopiesAgree
<1>10. Contents' = [Contents EXCEPT ![i] = "unsent"]
  <2>1. DOMAIN Contents = 1 .. last /\ DOMAIN Contents' = 1 .. last
    BY <1>0, <1>4, <1>5 DEF StoreOK, NothingLost, Contents
  <2>2. hot'[i] # NoDoc
    BY <1>2, <1>3, <1>5 DEF Stored
  <2>3. Contents'[i] = "unsent"
    BY <1>2, <1>6, <2>1, <2>2 DEF Contents, Current, IsUnsent
  <2>4. \A j \in 1 .. last : j # i => Contents'[j] = Contents[j]
    <3>1. \A j \in 1 .. last : j # i => Current(j)' = Current(j)
      BY <1>0, <1>4, <1>7, KnownIds DEF Current, StoreOK
    <3> QED
      BY <2>1, <3>1 DEF Contents
  <2> QED
    BY <1>2, <2>1, <2>3, <2>4 DEF Contents
<1>11. Log!Unsend
  BY <1>0, <1>2, <1>10, LogDomain DEF Log!Unsend
<1> QED
  BY <1>8, <1>9, <1>11 DEF LogStep, LInv, Log!Next

LEMMA UpdateLog ==
    ASSUME IInv, LInv, NEW w \in Workers, UpdateHot(w) \/ UpdateArchive(w) PROVE LogStep
<1> DEFINE i == call[w].id
           op == call[w].op
<1>0. /\ CallsOK /\ UnsendsOK /\ last \in Nat /\ IsColl(hot) /\ IsColl(archive)
      /\ op \in Updates /\ i \in Ids
  BY Basics DEF CallsOK, CallOK, UpdateHot, UpdateArchive, At
<1>1. CASE op = "unsend"
  BY <1>1, UnsendLog
<1>2. CASE op # "unsend"
  <2>1. /\ Return(w) \/ Goto(w, "updateArchive")
        /\ hot' = hot \/ (hot[i] # NoDoc /\ hot' = [hot EXCEPT ![i].marks = Mark(op, @)])
        /\ \/ archive' = archive
           \/ archive[i] # NoDoc /\ archive' = [archive EXCEPT ![i].marks = Mark(op, @)]
        /\ UNCHANGED <<last, cutoff, archiver>>
    BY <1>2 DEF UpdateHot, UpdateArchive, AfterUpdate, Matches
  <2>2. op \in Updates \ {"unsend"}
    BY <1>0, <1>2
  <2> HIDE DEF i, op
  <2>3. SameMarks(hot, hot')
    <3>1. CASE hot' = hot
      BY <3>1 DEF SameMarks
    <3>2. CASE hot[i] # NoDoc /\ hot' = [hot EXCEPT ![i].marks = Mark(op, @)]
      <4>1. SameMarks(hot, [hot EXCEPT ![i].marks = Mark(op, @)])
        BY <1>0, <2>2, <3>2, MarkSame
      <4> QED
        BY <3>2, <4>1
    <3> QED
      BY <2>1, <3>1, <3>2
  <2>4. SameMarks(archive, archive')
    <3>1. CASE archive' = archive
      BY <3>1 DEF SameMarks
    <3>2. CASE archive[i] # NoDoc /\ archive' = [archive EXCEPT ![i].marks = Mark(op, @)]
      <4>1. SameMarks(archive, [archive EXCEPT ![i].marks = Mark(op, @)])
        BY <1>0, <2>2, <3>2, MarkSame
      <4> QED
        BY <3>2, <4>1
    <3> QED
      BY <2>1, <3>1, <3>2
  <2>5. UnsendsOK'
    BY <1>0, <1>2, <2>1, GotoUnsend, ReturnUnsend DEF op
  <2> QED
    BY <2>1, <2>3, <2>4, <2>5, QuietStep
<1> QED
  BY <1>1, <1>2

-----------------------------------------------------------------------------
(* The archivers and the clock.                                            *)

\* A step of an archiver keeps to old messages, if it adds none to the archive
\* that is not old.
LEMMA OldOnly ==
    ASSUME IInv, LInv, UNCHANGED cutoff, NEW a \in Archivers, NEW r, SetArchiver(a, r),
           r.cutoff <= cutoff, BatchOf(r) \subseteq 1 .. cutoff, Stored(archive') \subseteq 1 .. cutoff
    PROVE  OnlyOldMoved'
BY Basics, SetOne DEF LInv, OnlyOldMoved

LEMMA ArchiverLog1 ==
    ASSUME IInv, LInv, NEW a \in Archivers,
           ArchiverStarts(a) \/ ArchiverFinds(a) \/ ArchiverCrashes(a)
    PROVE  LogStep
<1>0. /\ CallsOK /\ StoreOK /\ StoreType /\ UnsendsOK /\ last \in Nat /\ cutoff \in Nat
      /\ archiver[a] \in ArchiverRecords /\ archiver[a].cutoff \in Nat
  BY Basics
<1>1. UNCHANGED <<hot, archive, last, cutoff, call>>
  BY DEF ArchiverStarts, ArchiverFinds, TakeBatch, ArchiverCrashes
<1>2. Contents' = Contents /\ Stored(archive') = Stored(archive)
  BY <1>1 DEF Contents, Current, Stored
<1>3. UnsendsOK'
  BY <1>0, <1>1 DEF UnsendsOK, UnsendOK
<1>4. CopiesAgree'
  <2>1. \A b \in Archivers : \A i \in Batch(b)' :
          \/ i \in Batch(b) /\ archiver'[b].batch[i] = archiver[b].batch[i]
          \/ archiver'[b].batch[i] = hot[i]
    <3>1. \A b \in Archivers : Batch(b)' \in {{}, Batch(b)} \/
            \A i \in Batch(b)' : archiver'[b].batch[i] = hot[i]
      <4>1. CASE ArchiverFinds(a)
        <5>1. PICK found \in Finds(Stored(hot) \cap 1 .. archiver[a].cutoff) : TakeBatch(a, found)
          BY <4>1 DEF ArchiverFinds
        <5>2. PICK r \in ArchiverRecords :
                BatchOf(r) = found /\ SetArchiver(a, r) /\ \A i \in found : r.batch[i] = hot[i]
          BY <1>0, <5>1, FoundOnes, TakesBatch
        <5> QED
          BY <1>0, <5>2, SetOne
      <4>2. CASE ~ArchiverFinds(a)
        BY <4>2, BatchStep DEF ArchiverStep
      <4> QED
        BY <4>1, <4>2
    <3>2. \A b \in Archivers : \A i \in Batch(b)' :
            \/ archiver'[b].batch[i] = archiver[b].batch[i]
            \/ archiver'[b].batch[i] = hot[i]
      BY BatchStep DEF ArchiverStep
    <3> QED
      BY <3>1, <3>2
  <2> QED
    BY <1>1, <2>1 DEF LInv, CopiesAgree, Stored
<1>5. OnlyOldMoved'
  <2>1. CASE ArchiverStarts(a)
    <3> DEFINE r == [archiver[a] EXCEPT !.pc = "find", !.cutoff = cutoff]
    <3>1. SetArchiver(a, r)
      BY <2>1 DEF ArchiverStarts
    <3>2. r.batch = archiver[a].batch /\ r.cutoff = cutoff
      BY <1>0 DEF ArchiverRecords
    <3> HIDE DEF r
    <3>3. BatchOf(r) \subseteq 1 .. cutoff
      BY <3>2 DEF BatchOf, Batch, LInv, OnlyOldMoved
    <3> QED
      BY <1>0, <1>1, <1>2, <3>1, <3>2, <3>3, OldOnly DEF LInv, OnlyOldMoved
  <2>2. CASE ArchiverFinds(a)
    <3>1. PICK found \in Finds(Stored(hot) \cap 1 .. archiver[a].cutoff) : TakeBatch(a, found)
      BY <2>2 DEF ArchiverFinds
    <3>2. found \subseteq Stored(hot) /\ found \subseteq 1 .. cutoff
      BY <1>0, <3>1, FoundOnes DEF LInv, OnlyOldMoved
    <3>3. PICK r \in ArchiverRecords :
            r.cutoff <= archiver[a].cutoff /\ BatchOf(r) = found /\ SetArchiver(a, r)
      BY <1>0, <3>1, <3>2, TakesBatch
    <3>4. r.cutoff <= cutoff
      BY <1>0, <3>3, BoundsAssumption DEF LInv, OnlyOldMoved, ArchiverRecords
    <3> QED
      BY <1>1, <1>2, <3>2, <3>3, <3>4, OldOnly DEF LInv, OnlyOldMoved
  <2>3. CASE ArchiverCrashes(a)
    <3>1. SetArchiver(a, ArchiverIdle) /\ ArchiverIdle.cutoff <= cutoff
      BY <1>0, <2>3 DEF ArchiverCrashes, ArchiverIdle
    <3> QED
      BY <1>1, <1>2, <3>1, IdleBatch, OldOnly DEF LInv, OnlyOldMoved
  <2> QED
    BY <2>1, <2>2, <2>3
<1> QED
  BY <1>2, <1>3, <1>4, <1>5 DEF LogStep, LInv

\* What insertMany stores is not in the archive, and so it has a copy in the hot
\* collection, which is the one findInBothCollections returns.
LEMMA InsertLog == ASSUME IInv, LInv, NEW a \in Archivers, ArchiverInserts(a) PROVE LogStep
<1>0. /\ CallsOK /\ StoreOK /\ StoreType /\ UnsendsOK /\ last \in Nat /\ cutoff \in Nat
      /\ archiver[a].cutoff \in Nat
  BY Basics
<1>1. PICK done \in SUBSET (Batch(a) \ Stored(archive)), r \in ArchiverRecords :
        /\ Insert(a, done) /\ SetArchiver(a, r)
        /\ Stored(archive') = Stored(archive) \union done
        /\ r = ArchiverIdle \/ (/\ BatchOf(r) = Batch(a) /\ r.batch = archiver[a].batch
                                /\ r.cutoff = archiver[a].cutoff)
        /\ UNCHANGED <<hot, last, cutoff, call, crashes, unsent>>
  BY InsertsBatch
<1>2. done \subseteq Stored(hot) /\ done \subseteq Ids
  BY <1>0, <1>1 DEF StoreOK, BatchKnown, NothingLost, Batch
<1>3. Stored(hot') = Stored(hot)
  BY <1>1 DEF Stored
<1>4. Contents' = Contents
  <2>1. Stored(hot') \union Stored(archive') = Stored(hot) \union Stored(archive)
    BY <1>1, <1>2, <1>3
  <2>2. \A i \in Stored(hot) \union Stored(archive) : Current(i)' = Current(i)
    BY <1>1, <1>2 DEF Current, Stored, Insert
  <2> QED
    BY <2>1, <2>2 DEF Contents
<1>5. UnsendsOK'
  BY <1>0, <1>1 DEF UnsendsOK, UnsendOK
<1>6. OnlyOldMoved'
  <2>1. r.cutoff <= cutoff /\ BatchOf(r) \subseteq 1 .. cutoff
    BY <1>0, <1>1, IdleBatch DEF LInv, OnlyOldMoved, ArchiverIdle
  <2>2. Stored(archive') \subseteq 1 .. cutoff
    BY <1>1 DEF LInv, OnlyOldMoved
  <2> QED
    BY <1>1, <2>1, <2>2, OldOnly
<1>7. CopiesAgree'
  <2>1. \A i \in Stored(hot) \cap Stored(archive') : IsUnsent(hot[i]) <=> IsUnsent(archive'[i])
    <3>1. \A i \in done : archive'[i] = archiver[a].batch[i]
      BY <1>1, <1>2 DEF Insert
    <3>2. \A i \in Ids \ done : archive'[i] = archive[i]
      BY <1>1 DEF Insert
    <3> QED
      BY <1>1, <1>2, <3>1, <3>2 DEF LInv, CopiesAgree, Stored
  <2>2. \A b \in Archivers : Batch(b)' \in {{}, Batch(b)} /\
          \A i \in Batch(b)' : archiver'[b].batch[i] = archiver[b].batch[i]
    BY <1>0, <1>1, SetOne, IdleBatch
  <2>3. \A b \in Archivers : \A i \in Batch(b)' \cap Stored(hot) :
          IsUnsent(archiver'[b].batch[i]) <=> IsUnsent(hot[i])
    BY <2>2 DEF LInv, CopiesAgree
  <2> QED
    BY <1>1, <1>3, <2>1, <2>3 DEF CopiesAgree
<1> QED
  BY <1>4, <1>5, <1>6, <1>7 DEF LogStep, LInv

\* The copy that remains is as unsent as the one that is deleted.
LEMMA DeleteLog == ASSUME IInv, LInv, NEW a \in Archivers, ArchiverDeletes(a) PROVE LogStep
<1>0. /\ StoreOK /\ StoreType /\ UnsendsOK /\ last \in Nat /\ cutoff \in Nat
      /\ archiver[a].cutoff \in Nat
  BY Basics
<1>1. /\ UNCHANGED <<archive, last, cutoff, call>>
      /\ Stored(hot') = Stored(hot) \ Batch(a) /\ Batch(a) \subseteq Stored(archive)
      /\ \A i \in Ids : hot'[i] = IF i \in Batch(a) THEN NoDoc ELSE hot[i]
  BY DeletesBatch
<1>2. PICK r \in ArchiverRecords :
        r.cutoff = archiver[a].cutoff /\ BatchOf(r) = {} /\ SetArchiver(a, r)
  BY DeletesBatch
<1>3. Stored(archive') = Stored(archive)
  BY <1>1 DEF Stored
<1>4. Contents' = Contents
  <2>1. Stored(hot') \union Stored(archive') = Stored(hot) \union Stored(archive)
    BY <1>1, <1>3
  <2>2. \A i \in Stored(hot) \union Stored(archive) :
           IsUnsent(Current(i)') <=> IsUnsent(Current(i))
    <3>1. ASSUME NEW i \in Ids \ Batch(a) PROVE Current(i)' = Current(i)
      BY <1>1 DEF Current
    <3>2. ASSUME NEW i \in Batch(a), i \in Stored(hot)
          PROVE  IsUnsent(Current(i)') <=> IsUnsent(Current(i))
      <4>1. Current(i)' = archive[i] /\ Current(i) = hot[i]
        BY <1>1, <3>2 DEF Current, Stored, Batch
      <4>2. IsUnsent(hot[i]) <=> IsUnsent(archive[i])
        BY <1>1, <3>2 DEF LInv, CopiesAgree
      <4> QED
        BY <4>1, <4>2
    <3>3. ASSUME NEW i \in Batch(a), i \notin Stored(hot) PROVE Current(i)' = Current(i)
      BY <1>1, <3>3 DEF Current, Stored, Batch
    <3> QED
      BY <3>1, <3>2, <3>3 DEF Stored
  <2> QED
    BY <2>1, <2>2 DEF Contents, IsUnsent
<1>5. UnsendsOK'
  BY <1>0, <1>1 DEF UnsendsOK, UnsendOK
<1>6. OnlyOldMoved'
  BY <1>0, <1>1, <1>2, <1>3, OldOnly DEF LInv, OnlyOldMoved
<1>7. CopiesAgree'
  <2>1. \A i \in Stored(hot') : hot'[i] = hot[i] /\ i \in Stored(hot)
    BY <1>1 DEF Stored
  <2>2. \A b \in Archivers : Batch(b)' = {} \/
          (Batch(b)' = Batch(b) /\ archiver'[b] = archiver[b])
    BY <1>0, <1>2, SetOne
  <2> QED
    BY <1>1, <1>3, <2>1, <2>2 DEF LInv, CopiesAgree
<1> QED
  BY <1>4, <1>5, <1>6, <1>7 DEF LogStep, LInv

\* No message becomes old while it is being unsent.
LEMMA AgeLog == ASSUME IInv, LInv, Age PROVE LogStep
<1>0. /\ CallsOK /\ UnsendsOK /\ last \in Nat /\ cutoff \in Nat
      /\ \A a \in Archivers : archiver[a].cutoff \in Nat
  BY Basics
<1>1. /\ cutoff' = cutoff + 1 /\ UNCHANGED <<hot, archive, last, archiver, call>>
      /\ \A w \in Workers : call[w].op = "unsend" => call[w].id # cutoff + 1
  BY DEF Age
<1>2. Contents' = Contents
  BY <1>1 DEF Contents, Current, Stored
<1>3. UnsendsOK'
  BY <1>0, <1>1 DEF UnsendsOK, UnsendOK
<1>4. OnlyOldMoved' /\ CopiesAgree'
  BY <1>0, <1>1 DEF LInv, OnlyOldMoved, CopiesAgree, Batch, Stored
<1> QED
  BY <1>2, <1>3, <1>4 DEF LogStep, LInv

LEMMA CrashLog == ASSUME IInv, LInv, NEW w \in Workers, Crash(w) PROVE LogStep
<1>1. UNCHANGED <<hot, archive, last, cutoff, archiver>> /\ Return(w)
  BY DEF Crash
<1>2. UnsendsOK'
  BY <1>1, Basics, ReturnUnsend
<1> QED
  BY <1>1, <1>2, QuietStep DEF SameMarks

LEMMA StutterLog == ASSUME LInv, UNCHANGED vars PROVE LogStep
<1>1. UNCHANGED <<hot, archive, last, cutoff, archiver, call>>
  BY DEF vars
<1>2. UnsendsOK'
  BY <1>1 DEF LInv, UnsendsOK, UnsendOK
<1> QED
  BY <1>1, <1>2, QuietStep DEF SameMarks

-----------------------------------------------------------------------------
LEMMA InitLog == Init => LInv /\ Log!Init
<1> SUFFICES ASSUME Init PROVE LInv /\ Log!Init
  OBVIOUS
<1>1. Stored(hot) = {} /\ Stored(archive) = {} /\ \A a \in Archivers : Batch(a) = {}
  BY DEF Init, Stored, Batch, ArchiverIdle, NoBatch
<1>2. OnlyOldMoved /\ CopiesAgree
  BY <1>1 DEF OnlyOldMoved, CopiesAgree, Init, ArchiverIdle
<1>3. UnsendsOK
  BY IdleUnsend DEF UnsendsOK, Init
<1>4. Contents = [i \in {} |-> "sent"]
  BY <1>1 DEF Contents
<1> QED
  BY <1>2, <1>3, <1>4 DEF LInv, Log!Init

LEMMA LogSteps == ASSUME IInv, LInv, [Next]_vars PROVE LogStep
<1>1. ASSUME NEW w \in Workers, Step(w) PROVE LogStep
  BY <1>1, SaveLog, UpdateLog, ReactLog, ClearLog, ReadLog DEF Step
<1>2. ASSUME NEW a \in Archivers, ArchiverStarts(a) \/ ArchiverStep(a) \/ ArchiverCrashes(a)
      PROVE  LogStep
  BY <1>2, ArchiverLog1, InsertLog, DeleteLog DEF ArchiverStep
<1>3. CASE \E w \in Workers : Begin(w) \/ Crash(w)
  BY <1>3, BeginLog, CrashLog
<1>4. CASE Age
  BY <1>4, AgeLog
<1>5. CASE UNCHANGED vars
  BY <1>5, StutterLog
<1> QED
  BY <1>1, <1>2, <1>3, <1>4, <1>5 DEF Next

\* The two collections are one log: every step of a handler or of an archiver
\* adds a message, unsends one, or leaves what findInBothCollections returns as
\* it is.
THEOREM RefinesLog == Spec => ImplementsMessageLog
<1>1. IInv /\ LInv /\ [Next]_vars => LInv' /\ [Log!Next]_Contents
  BY LogSteps DEF LogStep
<1> QED
  BY <1>1, InitLog, Invariance, PTL DEF Spec, ImplementsMessageLog, Log!Spec

LEMMA LogInvariance == Spec => []LInv
<1>1. IInv /\ LInv /\ [Next]_vars => LInv'
  BY LogSteps DEF LogStep
<1>2. Init => LInv
  BY InitLog
<1> QED
  BY <1>1, <1>2, Invariance, PTL DEF Spec

-----------------------------------------------------------------------------
(* What a step does to the calls that answer a page.                       *)

PagePCs == {"pageHot", "pageArchive", "maskHot", "maskArchive", "done"}

\* Call r, which was s, has returned, or has the page it had.
SamePage(r, s) ==
    \/ r = Idle
    \/ /\ s # Idle
       /\ r.op = s.op /\ r.cursor = s.cursor /\ r.page = s.page
       /\ r.due = s.due /\ r.gone = s.gone /\ r.since = s.since
       /\ \/ r.pc \notin PagePCs
          \/ r.pc = s.pc /\ r.quoting = s.quoting /\ r.masked = s.masked

SamePages == \A w \in Workers : SamePage(call'[w], call[w])

LEMMA PageKept == \A s : SamePage(s, s)
BY DEF SamePage

LEMMA CallsKept == call' = call => SamePages
BY PageKept DEF SamePages

LEMMA SetPage ==
    ASSUME CallsOK, NEW w \in Workers, NEW r, SamePage(r, call[w]), Set(w, r)
    PROVE  SamePages
<1>1. \A v \in Workers : call'[v] = call[v] \/ (v = w /\ call'[v] = r)
  BY DEF CallsOK, Set
<1> QED
  BY <1>1, PageKept DEF SamePages

LEMMA ReturnPage == ASSUME CallsOK, NEW w \in Workers, Return(w) PROVE SamePages
BY SetPage DEF Return, SamePage

LEMMA GotoPage ==
    ASSUME CallsOK, NEW w \in Workers, NEW pc, pc \notin PagePCs, call[w].pc # "idle", Goto(w, pc)
    PROVE  SamePages
<1>1. SamePage([call[w] EXCEPT !.pc = pc], call[w])
  BY DEF SamePage, CallsOK, CallRecords, Idle
<1> QED
  BY <1>1, SetPage DEF Goto

\* The steps of the other handlers.
LEMMA OtherPages ==
    ASSUME IInv, NEW w \in Workers,
           \/ CreateFindOriginal(w) \/ CreateSave(w)
           \/ UpdateHot(w) \/ UpdateArchive(w)
           \/ UnsendFind(w, hot, "findHot", "findArchive")
           \/ UnsendFind(w, archive, "findArchive", "idle")
           \/ ClearHot(w) \/ ClearArchive(w)
           \/ ReactFind(w, hot, "reactHot", "toggleHot", "reactArchive")
           \/ ReactFind(w, archive, "reactArchive", "toggleArchive", "pushHot")
           \/ ToggleHot(w) \/ ToggleArchive(w) \/ PushHot(w) \/ PushArchive(w)
           \/ PageDone(w) \/ Crash(w)
    PROVE  SamePages
<1>0. CallsOK /\ call[w] \in CallRecords
  BY DEF IInv, CallsOK
<1>1. ASSUME NEW pc \in {"updateArchive", "clearHot", "clearArchive", "findArchive", "updateHot",
                         "pushHotOnly", "pushArchive"},
             call[w].pc # "idle", Goto(w, pc)
      PROVE  SamePages
  BY <1>0, <1>1, GotoPage DEF PagePCs
<1>2. CASE CreateFindOriginal(w)
  <2>1. PICK q, i : Return(w) \/ Set(w, [call[w] EXCEPT !.pc = "save", !.id = i])
                    \/ Set(w, [call[w] EXCEPT !.pc = "save", !.quote = q])
    BY <1>2 DEF CreateFindOriginal
  <2>2. call[w] # Idle
    BY <1>2 DEF CreateFindOriginal, At, Idle
  <2>3. /\ SamePage([call[w] EXCEPT !.pc = "save", !.id = i], call[w])
        /\ SamePage([call[w] EXCEPT !.pc = "save", !.quote = q], call[w])
    BY <1>0, <2>2 DEF SamePage, CallRecords, PagePCs
  <2> QED
    BY <1>0, <2>1, <2>3, SetPage, ReturnPage
<1>3. CASE CreateSave(w) \/ PageDone(w) \/ Crash(w)
  BY <1>0, <1>3, ReturnPage DEF CreateSave, PageDone, Crash
<1>4. CASE UpdateHot(w) \/ UpdateArchive(w)
  BY <1>0, <1>1, <1>4, ReturnPage DEF UpdateHot, UpdateArchive, AfterUpdate, At
<1>5. ASSUME NEW coll, NEW pc \in {"findHot", "findArchive"}, NEW next \in {"findArchive", "idle"},
             UnsendFind(w, coll, pc, next)
      PROVE  SamePages
  <2>1. Return(w) \/ (next # "idle" /\ Goto(w, next)) \/ Goto(w, "updateHot")
    BY <1>5 DEF UnsendFind
  <2> QED
    BY <1>0, <1>1, <1>5, <2>1, ReturnPage DEF UnsendFind, At
<1>6. CASE ClearHot(w) \/ ClearArchive(w)
  BY <1>0, <1>1, <1>6, ReturnPage DEF ClearHot, ClearArchive, At
<1>7. ASSUME NEW coll, NEW pc \in ReactPCs, NEW found \in ReactPCs, NEW next \in ReactPCs,
             ReactFind(w, coll, pc, found, next)
      PROVE  SamePages
  <2>1. PICK q \in {found, next} : \E l : Set(w, [call[w] EXCEPT !.pc = q, !.late = l])
    BY <1>7 DEF ReactFind
  <2>2. call[w] # Idle /\ q \notin PagePCs
    BY <1>7 DEF ReactFind, At, Idle, ReactPCs, PagePCs
  <2>3. \A l : SamePage([call[w] EXCEPT !.pc = q, !.late = l], call[w])
    BY <1>0, <2>2 DEF SamePage, CallRecords
  <2> QED
    BY <1>0, <2>1, <2>3, SetPage
<1>8. CASE ToggleHot(w) \/ ToggleArchive(w)
  BY <1>0, <1>1, <1>8, ReturnPage DEF ToggleHot, ToggleArchive, At
<1>9. CASE PushHot(w) \/ PushArchive(w)
  <2>1. CASE ReturnReacted(w)
    <3>1. \A v \in Workers : call[v].op = "react" => call[v] # Idle
      BY DEF Idle
    <3>2. \A v \in Workers : call[v].op = "react" => SamePage([call[v] EXCEPT !.late = TRUE], call[v])
      BY <1>0, <3>1 DEF SamePage, CallsOK, CallRecords
    <3>3. \A v \in Workers : \/ call'[v] = Idle \/ call'[v] = call[v]
                             \/ call[v].op = "react" /\ call'[v] = [call[v] EXCEPT !.late = TRUE]
      BY <2>1 DEF ReturnReacted
    <3>4. \A v \in Workers : SamePage(Idle, call[v])
      BY DEF SamePage
    <3> QED
      BY <3>2, <3>3, <3>4, PageKept DEF SamePages
  <2> QED
    BY <1>0, <1>1, <1>9, <2>1, ReturnPage DEF PushHot, PushArchive, At
<1>10. /\ "reactHot" \in ReactPCs /\ "toggleHot" \in ReactPCs /\ "reactArchive" \in ReactPCs
       /\ "toggleArchive" \in ReactPCs /\ "pushHot" \in ReactPCs
  BY DEF ReactPCs
<1> QED
  BY <1>2, <1>3, <1>4, <1>5, <1>6, <1>7, <1>8, <1>9, <1>10

\* A step of an archiver, of the clock or of nobody.
Background ==
    \/ \E a \in Archivers : ArchiverStarts(a) \/ ArchiverStep(a) \/ ArchiverCrashes(a)
    \/ Age \/ UNCHANGED vars

LEMMA BackgroundKeeps ==
    ASSUME IInv, Background
    PROVE  UNCHANGED <<last, call, unsent>> /\ (cutoff' = cutoff \/ Age)
BY BatchStep DEF Background, Age, vars

LEMMA ArchiverPages == ASSUME IInv, Background PROVE SamePages
BY CallsKept, BackgroundKeeps

\* What is in the archive stays there.
LEMMA ArchiveGrows ==
    ASSUME IInv, [Next]_vars PROVE Stored(archive) \subseteq Stored(archive')
<1>1. CASE \E w \in Workers : Begin(w) \/ Step(w) \/ Crash(w)
  BY <1>1, HandlerKept DEF Kept
<1>2. ASSUME NEW a \in Archivers, ArchiverStarts(a) \/ ArchiverStep(a) \/ ArchiverCrashes(a)
      PROVE  Stored(archive) \subseteq Stored(archive')
  <2>1. archive' = archive \/ ArchiverInserts(a)
    BY <1>2, BatchStep
  <2> QED
    BY <2>1, InsertsBatch DEF Stored
<1>3. CASE Age \/ UNCHANGED vars
  BY <1>3 DEF Stored, Age, vars
<1> QED
  BY <1>1, <1>2, <1>3 DEF Next

-----------------------------------------------------------------------------
(* Masking.                                                                *)

\* What has been unsent is marked so in the log, and in every copy.
UnsentMarked == \A i \in unsent : i \in DOMAIN Contents /\ Contents[i] = "unsent"

\* A call r, where u has been unsent and a is the archive: an original that is
\* not masked by the hot collection will be by the archive.
MaskingIn(r, u, a) ==
    /\ r.gone \subseteq u
    /\ r.op = "search" => r.page \cap r.gone = {}
    /\ r.pc = "maskArchive" =>
         \A q \in r.quoting : q[2] \in r.gone => q[2] \in r.masked \union Stored(a)
    /\ r.pc = "done" => \A q \in r.quoting : q[2] \in r.gone => q[2] \in r.masked

MInv == UnsentMarked /\ \A w \in Workers : MaskingIn(call[w], unsent, archive)

LEMMA MarkedCopies ==
    ASSUME IInv, LInv, UnsentMarked
    PROVE  \A i \in unsent : /\ i \in 1 .. last
                             /\ i \in Stored(hot) => IsUnsent(hot[i])
                             /\ i \in Stored(archive) => IsUnsent(archive[i])
<1>1. DOMAIN Contents = 1 .. last /\ 1 .. last \subseteq Ids
  BY LogDomain, KnownIds DEF IInv, StoreOK
<1>2. ASSUME NEW i \in unsent PROVE i \in 1 .. last /\ IsUnsent(Current(i))
  <2>1. i \in 1 .. last /\ Contents[i] = "unsent"
    BY <1>1 DEF UnsentMarked
  <2>2. Contents[i] = IF "unsent" \in Current(i).marks THEN "unsent" ELSE "sent"
    BY <1>1, <2>1 DEF Contents
  <2> QED
    BY <2>1, <2>2 DEF IsUnsent
<1> QED
  BY <1>2 DEF Current, LInv, CopiesAgree, Stored

\* A message is unsent in the hot collection.
LEMMA UnsentGrows ==
    ASSUME IInv, LInv, [Next]_vars
    PROVE  \/ unsent' = unsent
           \/ \E i \in Ids : /\ unsent' = unsent \union {i}
                             /\ hot'[i] # NoDoc /\ IsUnsent(hot'[i])
<1>1. ASSUME NEW w \in Workers, UpdateHot(w)
      PROVE  \/ unsent' = unsent
             \/ \E i \in Ids : /\ unsent' = unsent \union {i}
                               /\ hot'[i] # NoDoc /\ IsUnsent(hot'[i])
  <2> DEFINE i == call[w].id
  <2>0. i \in Ids /\ IsColl(hot) /\ "unsend" \in Updates
    BY <1>1 DEF IInv, CallsOK, CallOK, StoreOK, StoreType, UpdateHot, At, Updates
  <2>1. CASE unsent' # unsent
    <3>1. /\ call[w].op = "unsend" /\ hot[i] # NoDoc /\ unsent' = unsent \union {i}
          /\ hot' = [hot EXCEPT ![i].marks = Mark("unsend", @)]
      BY <1>1, <2>1 DEF UpdateHot, AfterUpdate, Matches
    <3>2. hot[i] \in Docs
      BY <2>0, <3>1 DEF IsColl
    <3>3. IsUnsent(hot'[i])
      BY <2>0, <3>1, <3>2 DEF IsColl, IsUnsent, Mark, Docs
    <3>4. Stored(hot') = Stored(hot)
      BY <2>0, <3>1, MarkKeeps
    <3>5. hot'[i] # NoDoc
      BY <2>0, <3>1, <3>4 DEF Stored
    <3> QED
      BY <2>0, <3>1, <3>3, <3>5
  <2> QED
    BY <2>1
<1>2. ASSUME NEW w \in Workers, UpdateArchive(w) PROVE unsent' = unsent
  <2>1. call[w].op # "unsend"
    BY <1>2 DEF LInv, UnsendsOK, UnsendOK, UpdateArchive, At
  <2> QED
    BY <1>2, <2>1 DEF UpdateArchive, AfterUpdate
<1>3. ASSUME NEW w \in Workers, Step(w), ~UpdateHot(w), ~UpdateArchive(w) PROVE unsent' = unsent
  BY <1>3 DEF Step, CreateFindOriginal, CreateSave, UnsendFind, ClearHot, ClearArchive, ReactFind,
              ToggleHot, ToggleArchive, PushHot, PushArchive, PageHot, PageArchive, Mask,
              PageDone, ReadsOnly
<1>4. ASSUME NEW w \in Workers, Begin(w) \/ Crash(w) PROVE unsent' = unsent
  BY <1>4 DEF Begin, Start, Crash
<1>5. ASSUME Background PROVE unsent' = unsent
  BY <1>5, BackgroundKeeps
<1> QED
  BY <1>1, <1>2, <1>3, <1>4, <1>5 DEF Next, Background

LEMMA UnsentMarkedStep ==
    ASSUME IInv, IInv', LInv, UnsentMarked, [Next]_vars
    PROVE  UnsentMarked' /\ unsent \subseteq unsent'
<1>0. DOMAIN Contents = 1 .. last /\ DOMAIN Contents' = 1 .. last'
  BY LogDomain DEF IInv, StoreOK, NothingLost, Contents
<1>1. \A i \in unsent : i \in DOMAIN Contents' /\ Contents'[i] = "unsent"
  <2>1. [Log!Next]_Contents
    BY LogSteps DEF LogStep
  <2>2. ASSUME Log!Append, NEW i \in unsent PROVE i \in DOMAIN Contents' /\ Contents'[i] = "unsent"
    <3>1. PICK n \in 1 .. MaxMessages :
            /\ DOMAIN Contents = 1 .. (n - 1)
            /\ Contents' = [j \in 1 .. n |-> IF j = n THEN "sent" ELSE Contents[j]]
      BY <2>2 DEF Log!Append
    <3>2. i \in 1 .. (n - 1) /\ Contents[i] = "unsent"
      BY <3>1 DEF UnsentMarked
    <3>3. i \in 1 .. n /\ i # n
      BY <3>2
    <3> QED
      BY <3>1, <3>2, <3>3
  <2>3. ASSUME Log!Unsend, NEW i \in unsent PROVE i \in DOMAIN Contents' /\ Contents'[i] = "unsent"
    <3>1. PICK j \in DOMAIN Contents : Contents' = [Contents EXCEPT ![j] = "unsent"]
      BY <2>3 DEF Log!Unsend
    <3> QED
      BY <3>1 DEF UnsentMarked
  <2>4. ASSUME Contents' = Contents, NEW i \in unsent
        PROVE  i \in DOMAIN Contents' /\ Contents'[i] = "unsent"
    BY <2>4 DEF UnsentMarked
  <2> QED
    BY <2>1, <2>2, <2>3, <2>4 DEF Log!Next
<1>2. ASSUME NEW i \in Ids, hot'[i] # NoDoc, IsUnsent(hot'[i])
      PROVE  i \in DOMAIN Contents' /\ Contents'[i] = "unsent"
  <2>1. i \in Stored(hot') \union Stored(archive') /\ Current(i)' = hot'[i]
    BY <1>2 DEF Stored, Current
  <2>2. Contents'[i] = IF "unsent" \in Current(i)'.marks THEN "unsent" ELSE "sent"
    BY <2>1 DEF Contents
  <2> QED
    BY <1>2, <2>1, <2>2 DEF IsUnsent, Contents
<1> QED
  BY <1>1, <1>2, UnsentGrows DEF UnsentMarked

LEMMA MaskKept ==
    ASSUME unsent \subseteq unsent', Stored(archive) \subseteq Stored(archive'),
           NEW s, MaskingIn(s, unsent, archive), NEW r, SamePage(r, s)
    PROVE  MaskingIn(r, unsent', archive')
<1>1. CASE r = Idle
  BY <1>1 DEF MaskingIn, Idle
<1>2. CASE r # Idle
  BY <1>2 DEF MaskingIn, SamePage, PagePCs
<1> QED
  BY <1>1, <1>2

LEMMA MaskPages ==
    ASSUME MInv, UnsentMarked', unsent \subseteq unsent', Stored(archive) \subseteq Stored(archive'),
           SamePages
    PROVE  MInv'
<1>1. \A w \in Workers : MaskingIn(call'[w], unsent', archive')
  BY MaskKept DEF MInv, SamePages
<1> QED
  BY <1>1 DEF MInv

\* A step of a handler that reads.
LEMMA MaskSet ==
    ASSUME IInv, MInv, NEW w \in Workers, NEW r, ReadsOnly, Set(w, r),
           MaskingIn(r, unsent, archive)
    PROVE  MInv'
<1>1. UNCHANGED <<hot, archive, unsent>>
  BY DEF ReadsOnly
<1>2. UnsentMarked'
  BY <1>1 DEF MInv, UnsentMarked, Contents, Current, Stored
<1>3. \A v \in Workers : call'[v] = call[v] \/ call'[v] = r
  BY DEF IInv, CallsOK, Set
<1>4. \A v \in Workers : MaskingIn(call'[v], unsent, archive)
  BY <1>3 DEF MInv
<1> QED
  BY <1>1, <1>2, <1>4 DEF MInv

LEMMA InitMask == Init => MInv
BY DEF Init, MInv, UnsentMarked, MaskingIn, Idle

LEMMA BeginMask == ASSUME IInv, MInv, NEW w \in Workers, Begin(w) PROVE MInv'
<1>1. ASSUME NEW op, NEW pc, NEW i, NEW cursor, Start(w, op, pc, i, cursor),
             pc # "maskArchive", pc # "done"
      PROVE  MInv'
  <2> DEFINE r == [Idle EXCEPT !.op = op, !.pc = pc, !.id = i, !.cursor = cursor,
                               !.gone = unsent, !.since = last]
  <2>1. ReadsOnly /\ Set(w, r)
    BY <1>1 DEF Start, Set, ReadsOnly
  <2>2. r.gone = unsent /\ r.page = {} /\ r.pc = pc
    BY DEF Idle
  <2> HIDE DEF r
  <2>3. MaskingIn(r, unsent, archive)
    BY <1>1, <2>2 DEF MaskingIn
  <2> QED
    BY <2>1, <2>3, MaskSet
<1> QED
  BY <1>1 DEF Begin

LEMMA PageMask ==
    ASSUME IInv, LInv, MInv, NEW w \in Workers, PageHot(w) \/ PageArchive(w)
    PROVE  MInv'
<1>0. /\ call[w] \in CallRecords /\ ReadsOnly /\ MaskingIn(call[w], unsent, archive)
      /\ \A i \in unsent : /\ i \in Stored(hot) => IsUnsent(hot[i])
                           /\ i \in Stored(archive) => IsUnsent(archive[i])
  <2>1. \A i \in unsent : /\ i \in Stored(hot) => IsUnsent(hot[i])
                          /\ i \in Stored(archive) => IsUnsent(archive[i])
    BY MarkedCopies DEF MInv
  <2> QED
    BY <2>1 DEF IInv, CallsOK, MInv, PageHot, PageArchive
<1>1. ASSUME NEW c, NEW n
      PROVE  /\ call[w].op = "search" => Newest(Visible(hot, c, call[w].op), n) \cap unsent = {}
             /\ call[w].op = "search" => Newest(Visible(archive, c, call[w].op), n) \cap unsent = {}
  BY <1>0 DEF Newest, Visible, IsUnsent
<1>2. CASE PageHot(w)
  <2>1. PICK pc \in {"pageArchive", "maskHot"}, p \in {call[w].page} \union
               {Newest(Visible(hot, call[w].cursor, call[w].op), PageLimit)} :
          \E d, s : \/ Set(w, [call[w] EXCEPT !.pc = pc, !.due = d]) /\ p = call[w].page
                    \/ Set(w, [call[w] EXCEPT !.pc = pc, !.page = p, !.due = d, !.quoting = s])
    BY <1>2 DEF PageHot
  <2>2. PICK r : Set(w, r) /\ r.pc = pc /\ r.page = p /\ r.op = call[w].op /\ r.gone = call[w].gone
    <3> DEFINE old(d) == [call[w] EXCEPT !.pc = pc, !.due = d]
               new(d, s) == [call[w] EXCEPT !.pc = pc, !.page = p, !.due = d, !.quoting = s]
    <3>1. PICK d, s : (Set(w, old(d)) /\ p = call[w].page) \/ Set(w, new(d, s))
      BY <2>1
    <3>2. /\ old(d).pc = pc /\ old(d).page = call[w].page
          /\ old(d).op = call[w].op /\ old(d).gone = call[w].gone
      BY <1>0 DEF CallRecords
    <3>3. /\ new(d, s).pc = pc /\ new(d, s).page = p
          /\ new(d, s).op = call[w].op /\ new(d, s).gone = call[w].gone
      BY <1>0 DEF CallRecords
    <3> HIDE DEF old, new
    <3> QED
      BY <3>1, <3>2, <3>3
  <2>3. MaskingIn(r, unsent, archive)
    BY <1>0, <1>1, <2>1, <2>2 DEF MaskingIn
  <2> QED
    BY <1>0, <2>2, <2>3, MaskSet
<1>3. CASE PageArchive(w)
  <2>1. PICK b, n : \E s : Set(w, [call[w] EXCEPT !.pc = "maskHot",
             !.page = call[w].page \union Newest(Visible(archive, b, call[w].op), n), !.quoting = s])
    BY <1>3 DEF PageArchive
  <2> DEFINE p == call[w].page \union Newest(Visible(archive, b, call[w].op), n)
  <2>2. p \cap call[w].gone = {} \/ call[w].op # "search"
    BY <1>0, <1>1 DEF MaskingIn
  <2> HIDE DEF p
  <2>3. PICK s : Set(w, [call[w] EXCEPT !.pc = "maskHot", !.page = p, !.quoting = s])
    BY <2>1 DEF p
  <2>4. PICK r : /\ Set(w, r) /\ r.pc = "maskHot" /\ r.page = p
                 /\ r.op = call[w].op /\ r.gone = call[w].gone
    <3> DEFINE new == [call[w] EXCEPT !.pc = "maskHot", !.page = p, !.quoting = s]
    <3>1. /\ new.pc = "maskHot" /\ new.page = p
          /\ new.op = call[w].op /\ new.gone = call[w].gone
      BY <1>0 DEF CallRecords
    <3> HIDE DEF new
    <3>2. Set(w, new)
      BY <2>3 DEF new
    <3> QED
      BY <3>1, <3>2
  <2>5. MaskingIn(r, unsent, archive)
    BY <1>0, <2>2, <2>4 DEF MaskingIn
  <2> QED
    BY <1>0, <2>4, <2>5, MaskSet
<1> QED
  BY <1>2, <1>3

LEMMA MaskMask ==
    ASSUME IInv, LInv, MInv, NEW w \in Workers,
           Mask(w, hot, "maskHot", "maskArchive") \/ Mask(w, archive, "maskArchive", "done")
    PROVE  MInv'
<1>0. /\ call[w] \in CallRecords /\ ReadsOnly /\ MaskingIn(call[w], unsent, archive)
      /\ Stored(hot) \union Stored(archive) = 1 .. last /\ 1 .. last \subseteq Ids
  BY KnownIds DEF IInv, CallsOK, StoreOK, NothingLost, MInv, Mask
<1>1. \A i \in unsent : /\ i \in 1 .. last
                        /\ i \in Stored(hot) => IsUnsent(hot[i])
                        /\ i \in Stored(archive) => IsUnsent(archive[i])
  BY MarkedCopies DEF MInv
<1>2. /\ call[w].gone \subseteq unsent
      /\ call[w].op = "search" => call[w].page \cap call[w].gone = {}
  BY <1>0 DEF MaskingIn
<1>3. ASSUME NEW pc, NEW m,
             Set(w, [call[w] EXCEPT !.pc = pc, !.masked = m]),
             pc = "maskArchive" =>
                \A q \in call[w].quoting : q[2] \in call[w].gone => q[2] \in m \union Stored(archive),
             pc = "done" => \A q \in call[w].quoting : q[2] \in call[w].gone => q[2] \in m
      PROVE  MInv'
  <2>1. PICK r : /\ Set(w, r) /\ r.pc = pc /\ r.masked = m /\ r.op = call[w].op
                 /\ r.gone = call[w].gone /\ r.page = call[w].page /\ r.quoting = call[w].quoting
    <3> DEFINE new == [call[w] EXCEPT !.pc = pc, !.masked = m]
    <3>1. /\ new.pc = pc /\ new.masked = m /\ new.op = call[w].op
          /\ new.gone = call[w].gone /\ new.page = call[w].page /\ new.quoting = call[w].quoting
      BY <1>0 DEF CallRecords
    <3> HIDE DEF new
    <3>2. Set(w, new)
      BY <1>3 DEF new
    <3> QED
      BY <3>1, <3>2
  <2>2. MaskingIn(r, unsent, archive)
    BY <1>2, <1>3, <2>1 DEF MaskingIn
  <2> QED
    BY <1>0, <2>1, <2>2, MaskSet
<1>4. \A q \in call[w].quoting : q[2] \in call[w].gone /\ q[2] \in Stored(hot) => q[2] \in Hidden(w, hot)
  BY <1>1, <1>2 DEF Hidden, IsUnsent, Stored
<1>5. \A q \in call[w].quoting : q[2] \in call[w].gone /\ q[2] \in Stored(archive) => q[2] \in Hidden(w, archive)
  BY <1>1, <1>2 DEF Hidden, IsUnsent, Stored
<1>6. CASE Mask(w, hot, "maskHot", "maskArchive")
  <2> DEFINE m == call[w].masked \union Hidden(w, hot)
  <2>1. Set(w, [call[w] EXCEPT !.pc = "maskArchive", !.masked = m])
    BY <1>6 DEF Mask
  <2>2. \A q \in call[w].quoting : q[2] \in call[w].gone => q[2] \in m \union Stored(archive)
    BY <1>0, <1>1, <1>2, <1>4
  <2> HIDE DEF m
  <2> QED
    BY <1>3, <2>1, <2>2, "maskArchive" # "done", Zenon
<1>7. CASE Mask(w, archive, "maskArchive", "done")
  <2> DEFINE m == call[w].masked \union Hidden(w, archive)
  <2>1. Set(w, [call[w] EXCEPT !.pc = "done", !.masked = m])
    BY <1>7 DEF Mask
  <2>2. \A q \in call[w].quoting : q[2] \in call[w].gone => q[2] \in m
    BY <1>0, <1>5, <1>7 DEF Mask, At, MaskingIn
  <2> HIDE DEF m
  <2> QED
    BY <1>3, <2>1, <2>2
<1> QED
  BY <1>6, <1>7

\* No page and no search shows a snapshot of a message that had been unsent
\* when it was asked for, and no search finds one: whichever of the two
\* collections has the original when it is asked, its copy there is marked.
THEOREM UnsentNeverQuoted == Spec => []NoUnsentQuoted
<1>1. IInv /\ IInv' /\ LInv /\ MInv /\ [Next]_vars => MInv'
  <2> SUFFICES ASSUME IInv, IInv', LInv, MInv, [Next]_vars PROVE MInv'
    OBVIOUS
  <2>0. /\ UnsentMarked' /\ unsent \subseteq unsent'
        /\ Stored(archive) \subseteq Stored(archive')
    BY UnsentMarkedStep, ArchiveGrows DEF MInv
  <2>1. CASE SamePages
    BY <2>0, <2>1, MaskPages
  <2>2. ASSUME NEW w \in Workers, Step(w) PROVE MInv'
    BY <2>1, <2>2, OtherPages, PageMask, MaskMask DEF Step
  <2>3. ASSUME NEW w \in Workers, Begin(w) \/ Crash(w) PROVE MInv'
    BY <2>1, <2>3, OtherPages, BeginMask
  <2>4. CASE Background
    BY <2>1, <2>4, ArchiverPages
  <2> QED
    BY <2>2, <2>3, <2>4 DEF Next, Background
<1>2. MInv => NoUnsentQuoted
  BY DEF MInv, MaskingIn, NoUnsentQuoted, At
<1> QED
  BY <1>1, <1>2, InitMask, Invariance, LogInvariance, PTL DEF Spec

-----------------------------------------------------------------------------
(* Pages of a conversation of which the reader deletes nothing.            *)

Plain(coll) == \A i \in Ids : "deleted" \notin coll[i].marks
NoneDeleted ==
    Plain(hot) /\ Plain(archive) /\ \A a \in Archivers : Plain(archiver[a].batch)

OpsOK == \A w \in Workers : call[w].op \in Calls \union {"none"}

\* A call began when what is older than the cutoff c was there, of n messages.
RecentIn(r, c, n) == r # Idle => c <= r.since /\ r.since <= n

\* What a page that is not full has still to come from.
\* A search has only messages that are sent, where l is the log.
Below(r) == IF r.page = {} THEN r.cursor ELSE Min(r.page)
Sent(op, l, i) == op = "search" => l[i] = "sent"
Low(r, l) == {i \in 1 .. r.since : i < Below(r) /\ Sent(r.op, l, i)}

\* A page that reads the hot collection first, where l is the log, a the archive
\* and c the cutoff: what it lacks is in the archive, and the archiver adds
\* nothing to it.
PageIn(r, l, a, c) ==
    /\ r.pc = "pageHot" => r.page = {}
    /\ r.cursor > c =>
         /\ r.pc = "pageArchive" =>
              /\ Low(r, l) \subseteq Stored(a)
              /\ r.due = r.page \union Newest(Low(r, l), PageLimit - Cardinality(r.page))
         /\ r.pc \in {"maskHot", "maskArchive", "done"} => r.page = r.due

PInv ==
    /\ NoneDeleted /\ OpsOK /\ cutoff <= last
    /\ \A w \in Workers : /\ RecentIn(call[w], cutoff, last)
                          /\ PageIn(call[w], Contents, archive, cutoff)

-----------------------------------------------------------------------------
LEMMA PlainNoDoc == NoDoc.marks = {}
BY DEF NoDoc

\* The marks that are set are others.
LEMMA PlainMark ==
    ASSUME NEW coll, IsColl(coll), Plain(coll), NEW i \in Ids, coll[i] # NoDoc,
           NEW op \in Updates \ {"deleteForMe"}
    PROVE  Plain([coll EXCEPT ![i].marks = Mark(op, @)])
<1> DEFINE m == Mark(op, coll[i].marks)
<1>1. "deleted" \notin m
  BY DEF Plain, Mark, Updates
<1>2. [coll EXCEPT ![i].marks = Mark(op, @)] = [coll EXCEPT ![i] = [coll[i] EXCEPT !.marks = m]]
  BY DEF IsColl
<1> HIDE DEF m
<1>3. [coll[i] EXCEPT !.marks = m].marks = m
  BY DEF IsColl, Docs
<1> QED
  BY <1>1, <1>2, <1>3 DEF Plain, IsColl

LEMMA PlainSame ==
    ASSUME NEW c, NEW d, Plain(c), \A i \in Ids : d[i].marks \in {c[i].marks, {}}
    PROVE  Plain(d)
BY DEF Plain

LEMMA HandlerPlain ==
    ASSUME IInv, NoneDeleted, OpsOK, "deleteForMe" \notin Calls,
           NEW w \in Workers, Begin(w) \/ Step(w) \/ Crash(w)
    PROVE  NoneDeleted'
<1> DEFINE i == call[w].id
           op == call[w].op
<1>0. /\ IsColl(hot) /\ IsColl(archive) /\ CallOK(call[w]) /\ call[w].late \in BOOLEAN
      /\ UNCHANGED archiver /\ Plain(hot) /\ Plain(archive)
  BY HandlerKept DEF Kept, IInv, StoreOK, StoreType, CallsOK, CallRecords, NoneDeleted
<1>1. CASE UpdateHot(w) \/ UpdateArchive(w)
  <2>1. op \in Updates \ {"deleteForMe"} /\ i \in Ids
    BY <1>0, <1>1 DEF CallOK, UpdateHot, UpdateArchive, At, OpsOK, Updates
  <2>2. /\ \/ hot' = hot
           \/ hot[i] # NoDoc /\ hot' = [hot EXCEPT ![i].marks = Mark(op, @)]
        /\ \/ archive' = archive
           \/ archive[i] # NoDoc /\ archive' = [archive EXCEPT ![i].marks = Mark(op, @)]
    BY <1>1 DEF UpdateHot, UpdateArchive, Matches
  <2>3. Plain(hot')
    BY <1>0, <2>1, <2>2, PlainMark
  <2>4. Plain(archive')
    BY <1>0, <2>1, <2>2, PlainMark
  <2> QED
    BY <1>0, <2>3, <2>4 DEF NoneDeleted
<1>2. ASSUME \A n \in Ids : hot'[n].marks \in {hot[n].marks, {}},
             \A n \in Ids : archive'[n].marks \in {archive[n].marks, {}}
      PROVE  NoneDeleted'
  BY <1>0, <1>2, PlainSame DEF NoneDeleted
<1>3. CASE CreateSave(w)
  <2>1. /\ hot' = hot \/ \E doc : doc.marks = {} /\ hot' = [hot EXCEPT ![last + 1] = doc]
        /\ UNCHANGED archive
    BY <1>3 DEF CreateSave
  <2>2. \A n \in Ids : hot'[n].marks \in {hot[n].marks, {}}
    BY <1>0, <2>1 DEF IsColl
  <2> QED
    BY <1>2, <2>1, <2>2
<1>4. CASE ClearHot(w) \/ ClearArchive(w)
  <2>1. /\ hot' = hot \/ hot' = Cleared(hot, i)
        /\ archive' = archive \/ archive' = Cleared(archive, i)
    BY <1>4 DEF ClearHot, ClearArchive
  <2>2. ASSUME NEW coll, IsColl(coll), NEW n \in Ids PROVE Cleared(coll, i)[n].marks = coll[n].marks
    BY <2>2 DEF Cleared, IsColl, Docs
  <2> QED
    BY <1>0, <1>2, <2>1, <2>2
<1>5. CASE ToggleHot(w) \/ ToggleArchive(w) \/ PushHot(w) \/ PushArchive(w)
  <2>1. i \in Ids
    BY <1>0, <1>5 DEF CallOK, ReactPCs, ToggleHot, ToggleArchive, PushHot, PushArchive, At
  <2>2. /\ \/ hot' = Pulled(hot, i) \/ hot' = hot
           \/ hot[i] # NoDoc /\ hot' = Pushed(hot, i, call[w].late)
        /\ \/ archive' = Pulled(archive, i) \/ archive' = archive
           \/ archive[i] # NoDoc /\ archive' = Pushed(archive, i, call[w].late)
    BY <1>5 DEF ToggleHot, ToggleArchive, PushHot, PushArchive
  <2>3. ASSUME NEW coll, IsColl(coll), NEW n \in Ids
        PROVE  /\ Pulled(coll, i)[n].marks = coll[n].marks
               /\ coll[i] # NoDoc => Pushed(coll, i, call[w].late)[n].marks = coll[n].marks
    <3>1. CASE n = i /\ coll[i] = NoDoc
      BY <2>1, <2>3, <3>1 DEF Pulled, IsColl
    <3>2. CASE n = i /\ coll[i] # NoDoc
      BY <2>1, <2>3, <3>2 DEF Pulled, Pushed, IsColl, Docs
    <3>3. CASE n # i
      BY <2>1, <2>3, <3>3 DEF Pulled, Pushed, IsColl
    <3> QED
      BY <3>1, <3>2, <3>3
  <2> HIDE DEF i
  <2>4. \A n \in Ids : hot'[n].marks = hot[n].marks
    BY <1>0, <2>2, <2>3
  <2>5. \A n \in Ids : archive'[n].marks = archive[n].marks
    BY <1>0, <2>2, <2>3
  <2> QED
    BY <1>2, <2>4, <2>5
<1>6. CASE UNCHANGED <<hot, archive>>
  BY <1>2, <1>6
<1>7. CASE Begin(w) \/ Crash(w)
  BY <1>6, <1>7 DEF Begin, Start, Crash
<1> QED
  BY <1>1, <1>3, <1>4, <1>5, <1>6, <1>7
     DEF Step, CreateFindOriginal, UnsendFind, ReactFind, PageHot, PageArchive, Mask, PageDone,
         ReadsOnly

LEMMA PlainStep ==
    ASSUME IInv, NoneDeleted, OpsOK, "deleteForMe" \notin Calls, [Next]_vars
    PROVE  NoneDeleted'
<1>1. ASSUME NEW a \in Archivers, ArchiverStarts(a) \/ ArchiverStep(a) \/ ArchiverCrashes(a)
      PROVE  NoneDeleted'
  <2>1. \A i \in Ids : hot'[i] = hot[i] \/ hot'[i] = NoDoc
    BY <1>1, BatchStep, DeletesBatch
  <2>2. \A i \in Ids : archive'[i] = archive[i] \/ archive'[i] = archiver[a].batch[i]
    BY <1>1, BatchStep, InsertsBatch DEF Insert
  <2>3. \A b \in Archivers : \A i \in Ids :
          archiver'[b].batch[i] \in {hot[i], archiver[b].batch[i], NoDoc}
    <3>1. \A b \in Archivers : \A i \in Ids \ Batch(b)' : archiver'[b].batch[i] = NoDoc
      BY DEF Batch
    <3> QED
      BY <1>1, <3>1, BatchStep
  <2> QED
    BY <2>1, <2>2, <2>3, PlainNoDoc DEF NoneDeleted, Plain
<1>2. CASE Age \/ UNCHANGED vars
  BY <1>2 DEF Age, vars, NoneDeleted, Plain
<1> QED
  BY <1>1, <1>2, HandlerPlain DEF Next

\* Of the messages there are none becomes sent again, and none in the archive
\* is unsent.
LogKept ==
    /\ \A i \in 1 .. last : Contents'[i] = "sent" => Contents[i] = "sent"
    /\ \A i \in Stored(archive) : Contents[i] = "sent" => Contents'[i] = "sent"

LEMMA CopyInLog ==
    ASSUME LInv, NEW i \in Ids
    PROVE  /\ i \in Stored(hot) => (Contents[i] = "sent" <=> ~IsUnsent(hot[i]))
           /\ i \in Stored(archive) => (Contents[i] = "sent" <=> ~IsUnsent(archive[i]))
<1>1. i \in Stored(hot) \union Stored(archive)
        => (Contents[i] = "sent" <=> ~IsUnsent(Current(i)))
  BY DEF Contents, IsUnsent
<1> QED
  BY <1>1 DEF Current, LInv, CopiesAgree, Stored

LEMMA ArchiveMarks ==
    ASSUME IInv, LInv, [Next]_vars, NEW i \in Stored(archive), IsUnsent(archive'[i])
    PROVE  IsUnsent(archive[i])
<1>0. IsColl(archive) /\ i \in Ids
  BY Basics DEF Stored
<1>1. CASE SameMarks(archive, archive')
  BY <1>1 DEF SameMarks
<1>2. ASSUME NEW w \in Workers, UpdateArchive(w) PROVE SameMarks(archive, archive')
  <2> DEFINE n == call[w].id
             op == call[w].op
  <2>1. op \in Updates \ {"unsend"} /\ n \in Ids
    BY <1>2 DEF LInv, UnsendsOK, UnsendOK, IInv, CallsOK, CallOK, UpdateArchive, At, Updates
  <2>2. \/ archive' = archive
        \/ archive[n] # NoDoc /\ archive' = [archive EXCEPT ![n].marks = Mark(op, @)]
    BY <1>2 DEF UpdateArchive, Matches
  <2> HIDE DEF n, op
  <2>3. archive[n] # NoDoc => SameMarks(archive, [archive EXCEPT ![n].marks = Mark(op, @)])
    BY <1>0, <2>1, MarkSame
  <2> QED
    BY <2>2, <2>3 DEF SameMarks
<1>3. ASSUME NEW w \in Workers, ClearArchive(w) PROVE SameMarks(archive, archive')
  BY <1>0, <1>3, ClearSame DEF ClearArchive, SameMarks
<1>4. ASSUME NEW w \in Workers, ToggleArchive(w) \/ PushArchive(w)
      PROVE  SameMarks(archive, archive')
  <2>1. call[w].id \in Ids /\ call[w].late \in BOOLEAN
    BY <1>4, Basics DEF CallsOK, CallOK, CallRecords, ReactPCs, ToggleArchive, PushArchive, At
  <2>2. \/ archive' = archive \/ archive' = Pulled(archive, call[w].id)
        \/ /\ archive[call[w].id] # NoDoc
           /\ archive' = Pushed(archive, call[w].id, call[w].late)
    BY <1>4 DEF ToggleArchive, PushArchive
  <2> QED
    BY <1>0, <2>1, <2>2, ReactionSame DEF SameMarks
<1>5. ASSUME NEW a \in Archivers, ArchiverStarts(a) \/ ArchiverStep(a) \/ ArchiverCrashes(a)
      PROVE  archive'[i] = archive[i]
  <2>1. CASE ArchiverInserts(a)
    <3>1. PICK done \in SUBSET (Batch(a) \ Stored(archive)) : Insert(a, done)
      BY <2>1, InsertsBatch
    <3> QED
      BY <1>0, <3>1 DEF Insert
  <2> QED
    BY <1>5, <2>1, BatchStep
<1>6. CASE Age \/ UNCHANGED vars
  BY <1>6 DEF Age, vars
<1>7. ASSUME NEW w \in Workers, Begin(w) \/ Step(w) \/ Crash(w)
      PROVE  UNCHANGED archive \/ SameMarks(archive, archive')
  BY <1>2, <1>3, <1>4, <1>7
     DEF Begin, Start, Crash, Step, CreateFindOriginal, CreateSave, UpdateHot, UnsendFind, ClearHot,
         ReactFind, ToggleHot, PushHot, PageHot, PageArchive, Mask, PageDone, ReadsOnly
<1> QED
  BY <1>1, <1>5, <1>6, <1>7 DEF Next

LEMMA KeepsLog == ASSUME IInv, LInv, LInv', [Next]_vars PROVE LogKept
<1>0. DOMAIN Contents = 1 .. last /\ last \in Nat
  BY Basics, LogDomain
<1>1. ASSUME NEW i \in 1 .. last, Contents'[i] = "sent" PROVE Contents[i] = "sent"
  <2>1. [Log!Next]_Contents
    BY LogSteps DEF LogStep
  <2>2. CASE Log!Append
    <3>1. PICK n \in 1 .. MaxMessages :
            /\ DOMAIN Contents = 1 .. (n - 1)
            /\ Contents' = [j \in 1 .. n |-> IF j = n THEN "sent" ELSE Contents[j]]
      BY <2>2 DEF Log!Append
    <3>2. i \in 1 .. (n - 1) /\ i \in 1 .. n /\ i # n
      BY <1>0, <3>1
    <3> QED
      BY <1>1, <3>1, <3>2
  <2>3. CASE Log!Unsend
    <3>1. PICK j \in DOMAIN Contents : Contents' = [Contents EXCEPT ![j] = "unsent"]
      BY <2>3 DEF Log!Unsend
    <3>2. Contents'[i] = IF i = j THEN "unsent" ELSE Contents[i]
      BY <1>0, <3>1
    <3> QED
      BY <1>1, <3>2
  <2> QED
    BY <1>1, <2>1, <2>2, <2>3 DEF Log!Next
<1>2. ASSUME NEW i \in Stored(archive), Contents[i] = "sent" PROVE Contents'[i] = "sent"
  <2>1. i \in Ids /\ i \in Stored(archive')
    BY ArchiveGrows DEF Stored
  <2>2. ~IsUnsent(archive[i])
    BY <1>2, <2>1, CopyInLog
  <2>3. ~IsUnsent(archive'[i])
    BY <2>2, ArchiveMarks
  <2>4. i \in Stored(hot') \union Stored(archive')
          => (Contents'[i] = "sent" <=> ~IsUnsent(Current(i)'))
    BY DEF Contents, IsUnsent
  <2> QED
    BY <2>1, <2>3, <2>4 DEF Current, LInv, CopiesAgree, Stored
<1> QED
  BY <1>1, <1>2 DEF LogKept

\* Calls that keep their page.
LEMMA PageStays ==
    ASSUME Stored(archive) \subseteq Stored(archive'), cutoff \in Nat, cutoff' \in {cutoff, cutoff + 1},
           LogKept, last \in Nat, NEW s \in CallRecords, s # Idle => s.since <= last,
           PageIn(s, Contents, archive, cutoff), NEW r, SamePage(r, s)
    PROVE  PageIn(r, Contents', archive', cutoff')
<1>1. CASE r = Idle
  BY <1>1 DEF PageIn, Idle
<1>2. CASE r # Idle
  <2>1. /\ s # Idle /\ r.op = s.op /\ r.cursor = s.cursor /\ r.page = s.page
        /\ r.due = s.due /\ r.since = s.since
        /\ r.pc \notin PagePCs \/ r.pc = s.pc
    BY <1>2 DEF SamePage
  <2>2. r.cursor > cutoff' => s.cursor > cutoff
    BY <2>1, BoundsAssumption DEF CallRecords
  <2>3. ASSUME Low(s, Contents) \subseteq Stored(archive)
        PROVE  Low(r, Contents') = Low(s, Contents)
    <3>1. 1 .. s.since \subseteq 1 .. last
      BY <2>1, BoundsAssumption DEF CallRecords
    <3>2. Below(r) = Below(s)
      BY <2>1 DEF Below
    <3>3. \A i \in 1 .. s.since : Sent(s.op, Contents', i) => Sent(s.op, Contents, i)
      BY <3>1 DEF LogKept, Sent
    <3>4. \A i \in Low(s, Contents) : Sent(s.op, Contents', i)
      BY <2>3 DEF LogKept, Sent, Low
    <3> QED
      BY <2>1, <3>2, <3>3, <3>4 DEF Low
  <2> QED
    BY <2>1, <2>2, <2>3 DEF PageIn, PagePCs
<1> QED
  BY <1>1, <1>2

LEMMA PageFacts ==
    ASSUME IInv, PInv
    PROVE  /\ CallsOK /\ StoreOK /\ StoreType /\ last \in Nat /\ cutoff \in Nat
           /\ PageLimit \in Nat /\ MaxMessages \in Nat /\ IsColl(hot) /\ IsColl(archive)
           /\ \A w \in Workers : /\ call[w] \in CallRecords
                                 /\ call[w].since \in Nat /\ call[w].cursor \in Nat
BY BoundsAssumption DEF IInv, StoreOK, StoreType, CallsOK, CallRecords

\* The steps that keep the pages.
LEMMA PagesStay ==
    ASSUME IInv, PInv, NoneDeleted', LogKept, SamePages,
           Stored(archive) \subseteq Stored(archive'),
           \/ cutoff' = cutoff /\ last' \in {last, last + 1}
           \/ Age
    PROVE  PInv'
<1>0. /\ last \in Nat /\ cutoff \in Nat /\ cutoff' \in {cutoff, cutoff + 1} /\ cutoff' <= last'
      /\ \A w \in Workers : /\ call[w] \in CallRecords /\ call[w].since \in Nat
                            /\ call[w] # Idle => call[w].since <= last
  BY PageFacts DEF PInv, RecentIn, Age
<1>1. OpsOK'
  BY DEF PInv, OpsOK, SamePages, SamePage, Idle
<1>2. \A w \in Workers : PageIn(call'[w], Contents', archive', cutoff')
  BY <1>0, PageStays DEF PInv, SamePages
<1>3. ASSUME NEW w \in Workers PROVE RecentIn(call'[w], cutoff', last')
  <2>1. CASE Age
    BY <1>0, <2>1 DEF Age, PInv, RecentIn
  <2>2. CASE cutoff' = cutoff /\ last' \in {last, last + 1}
    <3>1. call'[w] # Idle => call[w] # Idle /\ call'[w].since = call[w].since
      BY DEF SamePages, SamePage
    <3> QED
      BY <1>0, <2>2, <3>1 DEF PInv, RecentIn
  <2> QED
    BY <2>1, <2>2
<1> QED
  BY <1>0, <1>1, <1>2, <1>3 DEF PInv

\* The steps that read a page.
LEMMA PageSet ==
    ASSUME IInv, PInv, NoneDeleted', NEW w \in Workers, NEW r, ReadsOnly, Set(w, r),
           r.op \in Calls \union {"none"}, RecentIn(r, cutoff, last), PageIn(r, Contents, archive, cutoff)
    PROVE  PInv'
<1>0. /\ UNCHANGED <<archive, cutoff, last>> /\ Contents' = Contents
      /\ \A v \in Workers : call'[v] = call[v] \/ call'[v] = r
  BY PageFacts DEF ReadsOnly, CallsOK, Set, Contents, Current
<1>1. OpsOK'
  BY <1>0 DEF PInv, OpsOK
<1>2. \A v \in Workers : RecentIn(call'[v], cutoff, last) /\ PageIn(call'[v], Contents, archive, cutoff)
  BY <1>0 DEF PInv
<1> QED
  BY <1>0, <1>1, <1>2 DEF PInv

LEMMA InitPage == Init => PInv
<1> SUFFICES ASSUME Init PROVE PInv
  OBVIOUS
<1>1. NoneDeleted
  BY PlainNoDoc DEF Init, NoneDeleted, Plain, ArchiverIdle, NoBatch
<1>2. OpsOK /\ cutoff <= last
  BY DEF Init, OpsOK, Idle
<1>3. \A w \in Workers : RecentIn(call[w], cutoff, last) /\ PageIn(call[w], Contents, archive, cutoff)
  BY DEF Init, RecentIn, PageIn, Idle
<1> QED
  BY <1>1, <1>2, <1>3 DEF PInv

LEMMA BeginPage == ASSUME IInv, PInv, NoneDeleted', NEW w \in Workers, Begin(w) PROVE PInv'
<1>1. ASSUME NEW op, NEW pc, NEW i, NEW cursor, Start(w, op, pc, i, cursor),
             pc \notin {"pageArchive", "maskHot", "maskArchive", "done"}
      PROVE  PInv'
  <2> DEFINE r == [Idle EXCEPT !.op = op, !.pc = pc, !.id = i, !.cursor = cursor,
                               !.gone = unsent, !.since = last]
  <2>1. ReadsOnly /\ Set(w, r) /\ op \in Calls
    BY <1>1 DEF Start, Set, ReadsOnly
  <2>2. r.since = last /\ r.page = {} /\ r.pc = pc /\ r.op = op
    BY DEF Idle
  <2> HIDE DEF r
  <2>3. RecentIn(r, cutoff, last) /\ PageIn(r, Contents, archive, cutoff)
    BY <1>1, <2>2, PageFacts DEF PInv, RecentIn, PageIn
  <2> QED
    BY <2>1, <2>2, <2>3, PageSet
<1> QED
  BY <1>1 DEF Begin

LEMMA PlainVisible ==
    ASSUME LInv, NoneDeleted, NEW below, NEW op
    PROVE  /\ Visible(hot, below, op) =
                {i \in Stored(hot) : i < below /\ Sent(op, Contents, i)}
           /\ Visible(archive, below, op) =
                {i \in Stored(archive) : i < below /\ Sent(op, Contents, i)}
<1>1. \A i \in Ids : "deleted" \notin hot[i].marks /\ "deleted" \notin archive[i].marks
  BY DEF NoneDeleted, Plain
<1>2. /\ Stored(hot) \subseteq Ids /\ Stored(archive) \subseteq Ids
      /\ \A i \in Stored(hot) : Sent(op, Contents, i) <=> (op = "search" => ~IsUnsent(hot[i]))
      /\ \A i \in Stored(archive) :
            Sent(op, Contents, i) <=> (op = "search" => ~IsUnsent(archive[i]))
  BY CopyInLog DEF Stored, Sent
<1> QED
  BY <1>1, <1>2 DEF Visible, IsUnsent

\* A page below c that the hot collection does not fill: the rest is in the
\* archive, and is of the first n messages.
Split(op, c, n) ==
    LET H == {i \in Stored(hot) : i < c /\ Sent(op, Contents, i)}
        L == {i \in 1 .. n : i < (IF H = {} THEN c ELSE Min(H)) /\ Sent(op, Contents, i)}
    IN  /\ L \subseteq Stored(archive)
        /\ H \union {i \in Stored(archive) : i < c /\ Sent(op, Contents, i)} = H \union L
        /\ \A i \in H, j \in L : j < i

LEMMA PageSplit ==
    ASSUME IInv, LInv, OInv, PInv, NEW op, NEW c \in Nat, NEW n \in Nat, cutoff <= n, n <= last
    PROVE  Split(op, c, n)
<1> DEFINE H == {i \in Stored(hot) : i < c /\ Sent(op, Contents, i)}
           B == IF H = {} THEN c ELSE Min(H)
           L == {i \in 1 .. n : i < B /\ Sent(op, Contents, i)}
<1>0. /\ Stored(hot) \union Stored(archive) = 1 .. last /\ Stored(archive) \subseteq 1 .. cutoff
      /\ H \subseteq Ids /\ H \subseteq Nat /\ 1 .. n \subseteq 1 .. last /\ 1 .. cutoff \subseteq 1 .. n
      /\ last \in Nat /\ cutoff \in Nat
  BY PageFacts, IdsAreNats DEF StoreOK, NothingLost, LInv, OnlyOldMoved, Stored
<1>1. (H = {} /\ B = c) \/ (B \in H /\ B < c /\ \A i \in H : B <= i)
  <2>1. CASE H = {}
    BY <2>1
  <2>2. CASE H # {}
    <3>1. B = Min(H)
      BY <2>2
    <3>2. B \in H /\ \A i \in H : B <= i
      BY <1>0, <2>2, <3>1, HasOldest
    <3> QED
      BY <3>2
  <2> QED
    BY <2>1, <2>2
<1>2. B \in Nat /\ B <= c
  BY <1>0, <1>1
<1>3. ASSUME NEW i \in L PROVE i \in Stored(archive) /\ i < c
  <2>1. i \in 1 .. last /\ i < B /\ i \in Nat /\ Sent(op, Contents, i)
    BY <1>0
  <2>2. i \notin Stored(hot)
    <3>1. i \in H => FALSE
      BY <1>1, <2>1, <1>0
    <3> QED
      BY <1>2, <2>1, <3>1
  <2> QED
    BY <1>0, <1>2, <2>1, <2>2
<1>4. ASSUME NEW i \in Stored(archive), i < c, Sent(op, Contents, i), i \notin L PROVE i \in H
  <2>1. i \in 1 .. n /\ i \in 1 .. last /\ i \in Nat
    BY <1>0
  <2>2. B <= i
    BY <1>2, <1>4, <2>1
  <2>3. B \in H
    BY <1>1, <1>4, <2>1, <2>2
  <2>4. CASE i = B
    BY <2>3, <2>4
  <2>5. CASE B < i
    <3>1. i \in Stored(hot)
      BY <2>1, <2>3, <2>5 DEF OInv, HotSuffix
    <3> QED
      BY <1>4, <3>1
  <2> QED
    BY <1>2, <2>1, <2>2, <2>4, <2>5
<1>5. ASSUME NEW i \in H, NEW j \in L PROVE j < i
  <2>1. j < B /\ B <= i /\ i \in Nat /\ j \in Nat
    BY <1>0, <1>1
  <2> QED
    BY <1>2, <2>1
<1> QED
  BY <1>3, <1>4, <1>5 DEF Split

LEMMA PageHotPage ==
    ASSUME IInv, LInv, OInv, PInv, NoneDeleted', NEW w \in Workers, PageHot(w)
    PROVE  PInv'
<1> DEFINE s == call[w]
           c == s.cursor
           n == s.since
           Hot == Visible(hot, c, s.op)
           Old == Visible(archive, c, s.op)
           page == Newest(Hot, PageLimit)
           due == Newest(Hot \union Old, PageLimit)
           quoting == Quotes(hot, page)
           next == IF Cardinality(page) < PageLimit THEN "pageArchive" ELSE "maskHot"
<1>0. /\ s \in CallRecords /\ s.pc = "pageHot" /\ s # Idle /\ s.page = {} /\ ReadsOnly
      /\ s.op \in Calls \union {"none"}
      /\ cutoff <= n /\ n <= last /\ c \in Nat /\ n \in Nat /\ last \in Nat /\ cutoff \in Nat
      /\ PageLimit \in Nat /\ c <= MaxMessages + 1 /\ MaxMessages \in Nat /\ cutoff <= MaxMessages
  <2>1. s.pc = "pageHot" /\ ReadsOnly
    BY DEF PageHot, At
  <2>2. s # Idle
    BY <2>1 DEF Idle
  <2>3. s \in CallRecords /\ c <= MaxMessages + 1 /\ cutoff <= MaxMessages
    BY PageFacts DEF CallRecords, StoreType
  <2> QED
    BY <2>1, <2>2, <2>3, PageFacts DEF PInv, OpsOK, RecentIn, PageIn
<1>1. /\ Hot = {i \in Stored(hot) : i < c /\ Sent(s.op, Contents, i)}
      /\ Old = {i \in Stored(archive) : i < c /\ Sent(s.op, Contents, i)}
  BY PlainVisible DEF PInv
<1>2. Hot \subseteq Ids /\ Old \subseteq Ids /\ page \subseteq Hot
  BY DEF Visible, Stored, Newest
<1>3. ASSUME NEW r, Set(w, r), r.op = s.op, r.since = n, r.cursor = c, r.pc # "pageHot",
             PageIn(r, Contents, archive, cutoff)
      PROVE  PInv'
  <2>1. RecentIn(r, cutoff, last)
    BY <1>0, <1>3 DEF RecentIn
  <2> QED
    BY <1>0, <1>3, <2>1, PageSet
<1>4. CASE UsesArchive(c)
  <2>1. Set(w, [s EXCEPT !.pc = "pageArchive", !.due = due])
    BY <1>4 DEF PageHot
  <2> DEFINE r == [s EXCEPT !.pc = "pageArchive", !.due = due]
  <2>2. r.op = s.op /\ r.since = n /\ r.cursor = c /\ r.pc = "pageArchive"
    BY <1>0 DEF CallRecords
  <2>3. ~(c > cutoff)
    BY <1>0, <1>4 DEF UsesArchive
  <2> HIDE DEF r, s, c, n
  <2>4. PageIn(r, Contents, archive, cutoff)
    BY <2>2, <2>3 DEF PageIn
  <2>5. Set(w, r)
    BY <2>1 DEF r
  <2> QED
    BY <1>3, <2>2, <2>4, <2>5
<1>5. CASE ~UsesArchive(c)
  <2> DEFINE r == [s EXCEPT !.pc = next, !.page = page, !.due = due, !.quoting = quoting]
  <2>1. Set(w, r)
    BY <1>5 DEF PageHot
  <2>2. /\ r.op = s.op /\ r.since = n /\ r.cursor = c /\ r.pc = next
        /\ r.page = page /\ r.due = due
    <3> HIDE DEF page, due, quoting, next
    <3> QED
      BY <1>0 DEF CallRecords
  <2>3. /\ IsFiniteSet(Hot) /\ Cardinality(Hot) \in Nat /\ Cardinality(page) \in Nat
        /\ Cardinality(page) <= Cardinality(Hot)
    BY <1>2, Cards
  <2>4. CASE Cardinality(page) < PageLimit
    <3>1. page = Hot
      BY <1>0, <1>2, <2>4, FewNewest
    <3> DEFINE B == IF Hot = {} THEN c ELSE Min(Hot)
               L == {i \in 1 .. n : i < B /\ Sent(s.op, Contents, i)}
    <3>2. L \subseteq Stored(archive) /\ Hot \union Old = Hot \union L /\ \A i \in Hot, j \in L : j < i
      <4>1. Split(s.op, c, n)
        BY <1>0, PageSplit
      <4> HIDE DEF s, c, n
      <4> QED
        BY <1>1, <4>1 DEF Split
    <3>3. L \subseteq Ids
      BY <3>2 DEF Stored
    <3> HIDE DEF Hot, Old, L, page
    <3>4. due = Hot \union Newest(L, PageLimit - Cardinality(Hot))
      BY <1>0, <1>2, <2>4, <3>1, <3>2, <3>3, JoinNewest
    <3> HIDE DEF due, r
    <3>5. Low(r, Contents) = L
      BY <2>2, <3>1 DEF Low, Below, L
    <3>6. r.pc = "pageArchive"
      BY <2>2, <2>4
    <3>7. PageIn(r, Contents, archive, cutoff)
      BY <2>2, <3>1, <3>2, <3>4, <3>5, <3>6 DEF PageIn
    <3> QED
      BY <1>3, <2>1, <2>2, <3>6, <3>7
  <2>5. CASE ~(Cardinality(page) < PageLimit)
    <3>1. PageLimit <= Cardinality(Hot)
      BY <1>0, <2>3, <2>5
    <3>2. \A i \in Hot, j \in Hot \union Old : i < j => j \in Hot
      <4>1. ASSUME NEW i \in Hot, NEW j \in Old, i < j PROVE j \in Hot
        <5>1. i \in Stored(hot) /\ j \in 1 .. last /\ j < c /\ Sent(s.op, Contents, j)
          BY <1>1, PageFacts DEF StoreOK, NothingLost
        <5> QED
          BY <1>1, <4>1, <5>1 DEF OInv, HotSuffix
      <4> QED
        BY <4>1
    <3> HIDE DEF Hot, Old
    <3>3. page = due
      BY <1>0, <1>2, <3>1, <3>2, UpwardNewest
    <3> HIDE DEF page, due, r
    <3>4. r.pc = "maskHot"
      BY <2>2, <2>5
    <3>5. PageIn(r, Contents, archive, cutoff)
      BY <2>2, <3>3, <3>4 DEF PageIn
    <3> QED
      BY <1>3, <2>1, <2>2, <3>4, <3>5
  <2> QED
    BY <2>4, <2>5
<1> QED
  BY <1>4, <1>5

LEMMA PageArchivePage ==
    ASSUME IInv, LInv, PInv, NoneDeleted', NEW w \in Workers, PageArchive(w)
    PROVE  PInv'
<1> DEFINE s == call[w]
           left == PageLimit - Cardinality(s.page)
           rest == Newest(Visible(archive, Below(s), s.op), left)
           page == s.page \union rest
           quoting == s.quoting \union Quotes(archive, rest)
           r == [s EXCEPT !.pc = "maskHot", !.page = page, !.quoting = quoting]
<1>0. /\ s \in CallRecords /\ s.pc = "pageArchive" /\ s # Idle /\ ReadsOnly
      /\ s.op \in Calls \union {"none"} /\ RecentIn(s, cutoff, last) /\ PageIn(s, Contents, archive, cutoff)
      /\ s.since \in Nat /\ cutoff \in Nat
  <2>1. s.pc = "pageArchive" /\ ReadsOnly
    BY DEF PageArchive, At
  <2>2. s # Idle
    BY <2>1 DEF Idle
  <2> QED
    BY <2>1, <2>2, PageFacts DEF PInv, OpsOK
<1>1. Set(w, r)
  BY DEF PageArchive, Below
<1>2. /\ r.op = s.op /\ r.since = s.since /\ r.cursor = s.cursor /\ r.pc = "maskHot"
      /\ r.page = page /\ r.due = s.due
  <2> HIDE DEF page, quoting
  <2> QED
    BY <1>0 DEF CallRecords
<1>3. ASSUME s.cursor > cutoff PROVE page = s.due
  <2>1. Visible(archive, Below(s), s.op) =
          {i \in Stored(archive) : i < Below(s) /\ Sent(s.op, Contents, i)}
    BY PlainVisible DEF PInv
  <2>2. Stored(archive) \subseteq 1 .. s.since /\ Low(s, Contents) \subseteq Stored(archive)
    <3>1. Stored(archive) \subseteq 1 .. cutoff /\ cutoff <= s.since
      BY <1>0 DEF LInv, OnlyOldMoved, RecentIn
    <3> QED
      BY <1>0, <1>3, <3>1 DEF PageIn
  <2>3. Visible(archive, Below(s), s.op) = Low(s, Contents)
    BY <2>1, <2>2 DEF Low
  <2> QED
    BY <1>0, <1>3, <2>3 DEF PageIn
<1> HIDE DEF r, page, s
<1>4. PageIn(r, Contents, archive, cutoff) /\ RecentIn(r, cutoff, last)
  BY <1>0, <1>2, <1>3 DEF PageIn, RecentIn
<1> QED
  BY <1>0, <1>1, <1>2, <1>4, PageSet

LEMMA MaskPage ==
    ASSUME IInv, PInv, NoneDeleted', NEW w \in Workers,
           Mask(w, hot, "maskHot", "maskArchive") \/ Mask(w, archive, "maskArchive", "done")
    PROVE  PInv'
<1> DEFINE s == call[w]
<1>0. /\ s \in CallRecords /\ s.pc \in {"maskHot", "maskArchive"} /\ s # Idle /\ ReadsOnly
      /\ s.op \in Calls \union {"none"} /\ RecentIn(s, cutoff, last) /\ PageIn(s, Contents, archive, cutoff)
  <2>1. s.pc \in {"maskHot", "maskArchive"} /\ ReadsOnly
    BY DEF Mask, At
  <2>2. s # Idle
    BY <2>1 DEF Idle
  <2> QED
    BY <2>1, <2>2, PageFacts DEF PInv, OpsOK
<1>1. PICK pc \in {"maskArchive", "done"} : \E m : Set(w, [s EXCEPT !.pc = pc, !.masked = m])
  BY DEF Mask
<1>2. PICK m : Set(w, [s EXCEPT !.pc = pc, !.masked = m])
  BY <1>1
<1> DEFINE r == [s EXCEPT !.pc = pc, !.masked = m]
<1>3. /\ r.op = s.op /\ r.since = s.since /\ r.cursor = s.cursor /\ r.pc = pc
      /\ r.page = s.page /\ r.due = s.due
  BY <1>0 DEF CallRecords
<1>4. Set(w, r)
  BY <1>2
<1> HIDE DEF r, s
<1>5. PageIn(r, Contents, archive, cutoff) /\ RecentIn(r, cutoff, last)
  BY <1>0, <1>3 DEF PageIn, RecentIn
<1> QED
  BY <1>0, <1>3, <1>4, <1>5, PageSet

LEMMA PageStep ==
    ASSUME IInv, LInv, LInv', OInv, PInv, "deleteForMe" \notin Calls, [Next]_vars
    PROVE  PInv'
<1>0. NoneDeleted' /\ LogKept /\ Stored(archive) \subseteq Stored(archive')
  BY PlainStep, KeepsLog, ArchiveGrows DEF PInv
<1>1. Age \/ (cutoff' = cutoff /\ last' \in {last, last + 1})
  <2>1. ASSUME NEW w \in Workers, Begin(w) \/ Step(w) \/ Crash(w)
        PROVE  cutoff' = cutoff /\ last' \in {last, last + 1}
    <3>1. last' \in {last, last + 1}
      BY <2>1, HandlerKept DEF Kept
    <3>2. cutoff' = cutoff
      BY <2>1 DEF Begin, Start, Crash, Step, CreateFindOriginal, CreateSave, UpdateHot,
                  UpdateArchive, UnsendFind, ClearHot, ClearArchive, ReactFind, ToggleHot,
                  ToggleArchive, PushHot, PushArchive, PageHot, PageArchive, Mask, PageDone,
                  ReadsOnly
    <3> QED
      BY <3>1, <3>2
  <2>2. CASE Background
    BY <2>2, BackgroundKeeps
  <2> QED
    BY <2>1, <2>2 DEF Next, Background
<1>2. CASE SamePages
  BY <1>0, <1>1, <1>2, PagesStay
<1>3. ASSUME NEW w \in Workers, Step(w) PROVE PInv'
  BY <1>0, <1>2, <1>3, OtherPages, PageHotPage, PageArchivePage, MaskPage DEF Step
<1>4. ASSUME NEW w \in Workers, Begin(w) \/ Crash(w) PROVE PInv'
  BY <1>0, <1>2, <1>4, OtherPages, BeginPage
<1>5. CASE Background
  BY <1>2, <1>5, ArchiverPages
<1> QED
  BY <1>3, <1>4, <1>5 DEF Next, Background

\* As long as the reader deletes nothing, a page or search is complete whatever
\* the archivers move between its two queries and whatever is unsent: messages
\* are moved from below what the page has, if a find without a sort goes in the
\* order of the ids, to the archive, which it asks last, and none that is old
\* enough for that is unsent.
THEOREM PagesComplete ==
    ASSUME "deleteForMe" \notin Calls, OldestFirst
    PROVE  Spec => []PageComplete
<1>1. IInv /\ LInv /\ LInv' /\ OInv /\ PInv /\ [Next]_vars => OInv' /\ PInv'
  BY PageStep, OrderStep
<1>2. IInv /\ PInv => PageComplete
  <2> SUFFICES ASSUME IInv, PInv, NEW w \in Workers, call[w].pc = "done",
                      ~UsesArchive(call[w].cursor)
               PROVE  call[w].page = call[w].due
    BY DEF PageComplete, At
  <2>1. call[w].cursor > cutoff
    BY PageFacts DEF UsesArchive, CallRecords, StoreType
  <2> QED
    BY <2>1 DEF PInv, PageIn
<1> QED
  BY <1>1, <1>2, InitOrder, InitPage, Invariance, LogInvariance, PTL DEF Spec
=============================================================================
