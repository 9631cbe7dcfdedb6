---------------------------- MODULE MessageArchive ----------------------------
(***************************************************************************)
(* The messages of one conversation in MongoDB: MessagesService and        *)
(* MessageArchivingService over the collections messages (hot) and         *)
(* messages_archive.                                                       *)
(*                                                                         *)
(* Messages are numbered in the order they are created, which is the order *)
(* of their ObjectIds.  MongoDB makes one operation on one document atomic *)
(* and nothing more, so every query or update of a handler and of an       *)
(* archiver is a step of its own.                                          *)
(*                                                                         *)
(* Of a document the model keeps the marks handlers set, and for a reply   *)
(* the message it answers and whether the snapshot of its content is still *)
(* there.  deleted_by and reactions are about one account, the reader of   *)
(* the pages.                                                              *)
(***************************************************************************)
EXTENDS Naturals, FiniteSets, FiniteSetsExt

CONSTANTS
    MaxMessages,  \* bound: messages ever created
    PageLimit,    \* the limit of findByConversation
    BatchSize,    \* how many messages the archiver moves at a time
    Workers,      \* handlers that can be in flight at the same time
    Archivers,    \* the server processes: each runs the nightly job
    OldestFirst,  \* a find without a sort, and an insert of what it returned,
                  \* go in the order of the ids; if not, in any order
    Calls,        \* the operations the clients of this instance invoke
    MaxCrashes    \* bound: how often a handler or the archiver is cut off

AllCalls == {"create", "unsend", "edit", "deleteForMe", "pin", "unpin", "react",
             "page", "search"}

ASSUME BoundsAssumption ==
    /\ MaxMessages \in Nat /\ PageLimit \in Nat
    /\ BatchSize \in Nat /\ MaxCrashes \in Nat
ASSUME CallsAssumption == Calls \subseteq AllCalls
ASSUME OrderAssumption == OldestFirst \in BOOLEAN

VARIABLES
    hot,       \* messages: id -> document
    archive,   \* messages_archive: id -> document
    last,      \* number of messages created
    cutoff,    \* messages 1..cutoff are older than MESSAGE_ARCHIVE_DAYS
    archiver,  \* the nightly run of each server: [pc, cutoff, batch]
    call,      \* the handler each worker is running
    crashes,
    unsent     \* history: the messages that have been unsent

vars == <<hot, archive, last, cutoff, archiver, call, crashes, unsent>>

-----------------------------------------------------------------------------
Ids == 1 .. MaxMessages
Marks == {"unsent", "edited", "deleted", "pinned"}

\* How many reactions of the reader there are; raced: two, the second of a
\* toggle that was late.
Reactions == {"none", "one", "two", "raced"}
Docs ==
    [marks : SUBSET Marks, reactions : Reactions, reply : 0 .. MaxMessages, quote : BOOLEAN]
NoDoc ==   \* none
    [marks |-> {}, reactions |-> "none", reply |-> MaxMessages + 1, quote |-> FALSE]

PCs == {"idle", "save", "findHot", "findArchive", "updateHot", "updateArchive",
        "clearHot", "clearArchive", "pageHot", "pageArchive", "maskHot",
        "maskArchive", "done", "reactHot", "reactArchive", "toggleHot",
        "toggleArchive", "pushHot", "pushHotOnly", "pushArchive"}

Idle == [op |-> "none", pc |-> "idle", id |-> 0, cursor |-> 0, quote |-> FALSE,
         page |-> {}, quoting |-> {}, masked |-> {}, due |-> {}, gone |-> {},
         late |-> FALSE, since |-> 0]

CallRecords ==
    [op : AllCalls \union {"none"}, pc : PCs,
     id : 0 .. MaxMessages,             \* the message, or the one replied to
     cursor : 0 .. (MaxMessages + 1),   \* MaxMessages + 1: no cursor
     quote : BOOLEAN,                   \* the reply keeps a snapshot
     page : SUBSET Ids,                 \* messages found
     quoting : SUBSET (Ids \X Ids),     \* <<reply, original>> with a snapshot
     masked : SUBSET Ids,               \* originals whose snapshot is hidden
     due : SUBSET Ids,                  \* history: what the page must be
     gone : SUBSET Ids,                 \* history: unsent before the call
     late : BOOLEAN,                    \* history: what a toggle found is outdated
     since : 0 .. MaxMessages]          \* history: messages created before the call

NoBatch == [i \in Ids |-> NoDoc]
ArchiverIdle == [pc |-> "idle", cutoff |-> 0, batch |-> NoBatch]

ArchiverRecords ==
    [pc : {"idle", "find", "insert", "delete"}, cutoff : 0 .. MaxMessages,
     batch : [Ids -> Docs \union {NoDoc}]]

Stored(coll) == {i \in Ids : coll[i] # NoDoc}
Batch(a) == {i \in Ids : archiver[a].batch[i] # NoDoc}

TypeOK ==
    /\ hot \in [Ids -> Docs \union {NoDoc}]
    /\ archive \in [Ids -> Docs \union {NoDoc}]
    /\ last \in 0 .. MaxMessages
    /\ cutoff \in 0 .. MaxMessages
    /\ archiver \in [Archivers -> ArchiverRecords]
    /\ call \in [Workers -> CallRecords]
    /\ crashes \in 0 .. MaxCrashes
    /\ unsent \subseteq Ids

Init ==
    /\ hot = [i \in Ids |-> NoDoc]
    /\ archive = [i \in Ids |-> NoDoc]
    /\ last = 0
    /\ cutoff = 0
    /\ archiver = [a \in Archivers |-> ArchiverIdle]
    /\ call = [w \in Workers |-> Idle]
    /\ crashes = 0
    /\ unsent = {}

-----------------------------------------------------------------------------
Start(w, op, pc, i, cursor) ==
    /\ op \in Calls
    /\ call[w] = Idle
    /\ call' = [call EXCEPT ![w] =
         [Idle EXCEPT !.op = op, !.pc = pc, !.id = i, !.cursor = cursor,
                      !.gone = unsent, !.since = last]]
    /\ UNCHANGED <<hot, archive, last, cutoff, archiver, crashes, unsent>>

At(w, pc) == call[w].pc = pc
Set(w, r) == call' = [call EXCEPT ![w] = r]
Goto(w, pc) == Set(w, [call[w] EXCEPT !.pc = pc])
Return(w) == Set(w, Idle)

ReadsOnly == UNCHANGED <<hot, archive, last, cutoff, archiver, crashes, unsent>>

-----------------------------------------------------------------------------
(* create: a reply takes a snapshot of the message it answers if that is   *)
(* still in the hot collection, and "" for its content if it is unsent.    *)
(* It is refused if its sender has deleted that message; the sender is the *)
(* reader or somebody else, who may not have deleted it.                   *)

\* reply_to.content is a required string and Mongoose takes "" for missing: a
\* document whose snapshot is empty does not validate.
Valid(doc) == doc.reply # 0 => doc.quote

CreateFindOriginal(w) ==
    /\ call[w].op = "create" /\ At(w, "findHot")
    /\ LET doc == hot[call[w].id] IN
       IF doc = NoDoc
       THEN Set(w, [call[w] EXCEPT !.pc = "save", !.id = 0])
       ELSE \/ "deleted" \in doc.marks /\ Return(w)
            \/ Set(w, [call[w] EXCEPT !.pc = "save",
                                      !.quote = "unsent" \notin doc.marks])
    /\ ReadsOnly

CreateSave(w) ==
    /\ At(w, "save")
    /\ last < MaxMessages
    /\ LET doc == [marks |-> {}, reactions |-> "none", reply |-> call[w].id,
                   quote |-> call[w].quote] IN
       IF Valid(doc)
       THEN last' = last + 1 /\ hot' = [hot EXCEPT ![last'] = doc]
       ELSE UNCHANGED <<last, hot>>
    /\ Return(w)
    /\ UNCHANGED <<archive, cutoff, archiver, crashes, unsent>>

-----------------------------------------------------------------------------
(* updateInBothCollections: the hot collection first, and the archive only *)
(* when nothing matched there.  An edit does not match an unsent message.  *)

Mark(op, marks) ==
    CASE op = "unsend" -> marks \union {"unsent"}
      [] op = "edit" -> marks \union {"edited"}
      [] op = "deleteForMe" -> marks \union {"deleted"}
      [] op = "pin" -> marks \union {"pinned"}
      [] op = "unpin" -> marks \ {"pinned"}

Matches(op, doc) == doc # NoDoc /\ (op = "edit" => "unsent" \notin doc.marks)

AfterUpdate(w) ==
    IF call[w].op = "unsend"
    THEN unsent' = unsent \union {call[w].id} /\ Goto(w, "clearHot")
    ELSE UNCHANGED unsent /\ Return(w)

UpdateHot(w) ==
    /\ At(w, "updateHot")
    /\ LET i == call[w].id IN
       IF Matches(call[w].op, hot[i])
       THEN /\ hot' = [hot EXCEPT ![i].marks = Mark(call[w].op, @)]
            /\ AfterUpdate(w)
       ELSE Goto(w, "updateArchive") /\ UNCHANGED <<hot, unsent>>
    /\ UNCHANGED <<archive, last, cutoff, archiver, crashes>>

UpdateArchive(w) ==
    /\ At(w, "updateArchive")
    /\ LET i == call[w].id IN
       IF Matches(call[w].op, archive[i])
       THEN /\ archive' = [archive EXCEPT ![i].marks = Mark(call[w].op, @)]
            /\ AfterUpdate(w)
       ELSE Return(w) /\ UNCHANGED <<archive, unsent>>
    /\ UNCHANGED <<hot, last, cutoff, archiver, crashes>>

-----------------------------------------------------------------------------
(* unsendMessage: findInBothCollections, the 24 hours check (an archived   *)
(* message is always too old, any other may be), the update, and then the  *)
(* snapshots in the replies, one collection after the other.               *)

\* Mutant of UnsendFind: a message of any age may be unsent.
UnsendFindAnyAge(w, coll, pc, next) ==
    /\ call[w].op = "unsend" /\ At(w, pc)
    /\ IF coll[call[w].id] # NoDoc
       THEN Goto(w, "updateHot")
       ELSE IF next = "idle" THEN Return(w) ELSE Goto(w, next)
    /\ ReadsOnly

UnsendFind(w, coll, pc, next) ==
    /\ call[w].op = "unsend" /\ At(w, pc)
    /\ IF coll[call[w].id] # NoDoc
       THEN \/ Return(w)
            \/ call[w].id > cutoff /\ Goto(w, "updateHot")
       ELSE IF next = "idle" THEN Return(w) ELSE Goto(w, next)
    /\ ReadsOnly

Cleared(coll, i) ==
    [j \in Ids |-> IF coll[j] # NoDoc /\ coll[j].reply = i
                   THEN [coll[j] EXCEPT !.quote = FALSE] ELSE coll[j]]

ClearHot(w) ==
    /\ At(w, "clearHot")
    /\ hot' = Cleared(hot, call[w].id)
    /\ Goto(w, "clearArchive")
    /\ UNCHANGED <<archive, last, cutoff, archiver, crashes, unsent>>

ClearArchive(w) ==
    /\ At(w, "clearArchive")
    /\ archive' = Cleared(archive, call[w].id)
    /\ Return(w)
    /\ UNCHANGED <<hot, last, cutoff, archiver, crashes, unsent>>

-----------------------------------------------------------------------------
(* toggleReaction: findOne for a reaction of the account, in one collection *)
(* and then the other.  Where there is one, it is pulled, and another emoji *)
(* pushed; where there is none, it is pushed where the message is.         *)

Reacted(doc) == doc.reactions # "none"

ReactFind(w, coll, pc, found, next) ==
    /\ At(w, pc)
    /\ LET i == call[w].id IN
       Set(w, [call[w] EXCEPT
                 !.pc = IF coll[i] # NoDoc /\ Reacted(coll[i]) THEN found ELSE next,
                 !.late = @ \/ \E a \in Archivers : i \in Batch(a)])
    /\ ReadsOnly

Pulled(coll, i) ==
    [coll EXCEPT ![i] = IF @ = NoDoc THEN @ ELSE [@ EXCEPT !.reactions = "none"]]

\* One more reaction, of a handler whose findOne is out of date if it is late:
\* another toggle pushed after it started, or the archiver had read the message.
Pushed(coll, i, late) ==
    [coll EXCEPT ![i].reactions =
       IF @ = "none" THEN "one" ELSE IF late \/ @ = "raced" THEN "raced" ELSE "two"]

\* w returns; what the other toggles on its message have found is out of date.
ReturnReacted(w) ==
    call' = [v \in Workers |->
               IF v = w THEN Idle
               ELSE IF call[v].op = "react" /\ call[v].id = call[w].id
                    THEN [call[v] EXCEPT !.late = TRUE] ELSE call[v]]

\* Mutant of ToggleHot: the old reaction stays when a new one is pushed.
ToggleHotNoPull(w) ==
    /\ At(w, "toggleHot")
    /\ \/ hot' = Pulled(hot, call[w].id) /\ Return(w)
       \/ UNCHANGED hot /\ Goto(w, "pushHotOnly")
    /\ UNCHANGED <<archive, last, cutoff, archiver, crashes, unsent>>

\* The same emoji, or another one.
ToggleHot(w) ==
    /\ At(w, "toggleHot")
    /\ hot' = Pulled(hot, call[w].id)
    /\ Return(w) \/ Goto(w, "pushHotOnly")
    /\ UNCHANGED <<archive, last, cutoff, archiver, crashes, unsent>>

ToggleArchive(w) ==
    /\ At(w, "toggleArchive")
    /\ archive' = Pulled(archive, call[w].id)
    /\ Return(w) \/ Goto(w, "pushArchive")
    /\ UNCHANGED <<hot, last, cutoff, archiver, crashes, unsent>>

PushHot(w) ==
    /\ call[w].pc \in {"pushHot", "pushHotOnly"}
    /\ IF hot[call[w].id] # NoDoc
       THEN hot' = Pushed(hot, call[w].id, call[w].late) /\ ReturnReacted(w)
       ELSE /\ IF At(w, "pushHot") THEN Goto(w, "pushArchive") ELSE Return(w)
            /\ UNCHANGED hot
    /\ UNCHANGED <<archive, last, cutoff, archiver, crashes, unsent>>

PushArchive(w) ==
    /\ At(w, "pushArchive")
    /\ IF archive[call[w].id] # NoDoc
       THEN archive' = Pushed(archive, call[w].id, call[w].late) /\ ReturnReacted(w)
       ELSE Return(w) /\ UNCHANGED archive
    /\ UNCHANGED <<hot, last, cutoff, archiver, crashes, unsent>>

-----------------------------------------------------------------------------
(* findByConversation: the newest messages below the cursor, from the hot  *)
(* collection and then the archive, or from the archive alone when the     *)
(* cursor is older than the cutoff.  globalSearch does the same with the   *)
(* messages that are not unsent.                                           *)

Newest(S, n) == {i \in S : Cardinality({j \in S : j > i}) < n}
Visible(coll, below, op) ==
    {i \in Stored(coll) :
        /\ i < below
        /\ "deleted" \notin coll[i].marks
        /\ op = "search" => "unsent" \notin coll[i].marks}
Quotes(coll, S) == {<<i, coll[i].reply>> : i \in {j \in S : coll[j].quote /\ coll[j].reply # 0}}

UsesArchive(cursor) == cursor <= MaxMessages /\ cursor <= cutoff

PageHot(w) ==
    /\ At(w, "pageHot")
    /\ LET c == call[w].cursor
           op == call[w].op
           due == Newest(Visible(hot, c, op) \union Visible(archive, c, op), PageLimit)
           page == Newest(Visible(hot, c, op), PageLimit)
       IN IF UsesArchive(c)
          THEN Set(w, [call[w] EXCEPT !.pc = "pageArchive", !.due = due])
          ELSE Set(w, [call[w] EXCEPT
                  !.pc = IF Cardinality(page) < PageLimit THEN "pageArchive" ELSE "maskHot",
                  !.page = page, !.due = due, !.quoting = Quotes(hot, page)])
    /\ ReadsOnly

\* Mutant of PageArchive: it starts from the cursor again.
PageArchiveFromCursor(w) ==
    /\ At(w, "pageArchive")
    /\ LET rest == Newest(Visible(archive, call[w].cursor, call[w].op),
                          PageLimit - Cardinality(call[w].page))
       IN Set(w, [call[w] EXCEPT !.pc = "maskHot", !.page = @ \union rest,
                                 !.quoting = @ \union Quotes(archive, rest)])
    /\ ReadsOnly

PageArchive(w) ==
    /\ At(w, "pageArchive")
    /\ LET below == IF call[w].page = {} THEN call[w].cursor ELSE Min(call[w].page)
           rest == Newest(Visible(archive, below, call[w].op), PageLimit - Cardinality(call[w].page))
       IN Set(w, [call[w] EXCEPT !.pc = "maskHot", !.page = @ \union rest,
                                 !.quoting = @ \union Quotes(archive, rest)])
    /\ ReadsOnly

\* Mutant of Hidden: only the hot collection is asked.
HiddenInHot(w, coll) ==
    {i \in {q[2] : q \in call[w].quoting} :
        hot[i] # NoDoc /\ hot[i].marks \cap {"unsent", "deleted"} # {}}

\* maskDeletedReplies: both collections are asked which of the originals are
\* unsent, or deleted by the reader.
Hidden(w, coll) ==
    {i \in {q[2] : q \in call[w].quoting} :
        coll[i] # NoDoc /\ coll[i].marks \cap {"unsent", "deleted"} # {}}

Mask(w, coll, pc, next) ==
    /\ At(w, pc)
    /\ Set(w, [call[w] EXCEPT !.pc = next, !.masked = @ \union Hidden(w, coll)])
    /\ ReadsOnly

\* getLastMessagesForConversations and countUnreadInConversations, which ask the
\* hot collection alone.
LastMessage == Newest(Visible(hot, MaxMessages + 1, "page"), 1)
Unread(marker) == {i \in Visible(hot, MaxMessages + 1, "search") : i > marker}

\* The response is sent: the page, with the snapshots that are not masked.
PageDone(w) ==
    /\ At(w, "done")
    /\ Return(w)
    /\ ReadsOnly

-----------------------------------------------------------------------------
(* handleArchiving: find a batch of old messages, insert it into the       *)
(* archive, delete it from the hot collection, until none is left; any     *)
(* error ends the run.  The job starts in every server process, and no run *)
(* keeps another from working on the same messages.                        *)

Oldest(S, n) == {i \in S : Cardinality({j \in S : j < i}) < n}

SetArchiver(a, r) == archiver' = [archiver EXCEPT ![a] = r]

ArchiverStarts(a) ==
    /\ archiver[a].pc = "idle"
    /\ SetArchiver(a, [archiver[a] EXCEPT !.pc = "find", !.cutoff = cutoff])
    /\ UNCHANGED <<hot, archive, last, cutoff, call, crashes, unsent>>

\* Which documents a find of BatchSize may return.
Finds(S) ==
    IF OldestFirst
    THEN {Oldest(S, BatchSize)}
    ELSE {T \in SUBSET S : Cardinality(T) = Min({BatchSize, Cardinality(S)})}

TakeBatch(a, found) ==
    /\ SetArchiver(a,
         IF found = {} THEN ArchiverIdle
         ELSE [archiver[a] EXCEPT
                 !.pc = "insert",
                 !.batch = [i \in Ids |-> IF i \in found THEN hot[i] ELSE NoDoc]])
    /\ UNCHANGED <<hot, archive, last, cutoff, call, crashes, unsent>>

\* Mutant of ArchiverFinds: the youngest of the old messages is left out.
ArchiverFindsButOne(a) ==
    /\ archiver[a].pc = "find"
    /\ \E found \in Finds({i \in Stored(hot) : i < archiver[a].cutoff}) : TakeBatch(a, found)

\* Mutant of ArchiverFinds: the newest of the old messages go first.
ArchiverFindsNewest(a) ==
    /\ archiver[a].pc = "find"
    /\ TakeBatch(a, Newest(Stored(hot) \cap 1 .. archiver[a].cutoff, BatchSize))

ArchiverFinds(a) ==
    /\ archiver[a].pc = "find"
    /\ \E found \in Finds(Stored(hot) \cap 1 .. archiver[a].cutoff) : TakeBatch(a, found)

Insert(a, done) ==
    archive' = [i \in Ids |-> IF i \in done THEN archiver[a].batch[i] ELSE archive[i]]

\* Mutant of ArchiverInserts: a duplicate does not end the run.
ArchiverInsertsOn(a) ==
    /\ archiver[a].pc = "insert"
    /\ LET clash == Batch(a) \cap Stored(archive) IN
       Insert(a, {i \in Batch(a) : \A j \in clash : i < j})
    /\ SetArchiver(a, [archiver[a] EXCEPT !.pc = "delete"])
    /\ UNCHANGED <<hot, last, cutoff, call, crashes, unsent>>

\* What of a batch precedes the first document that is in the archive already.
Preceding(batch, clash) ==
    IF clash = {} THEN {batch}
    ELSE IF OldestFirst THEN {{i \in batch : \A j \in clash : i < j}}
    ELSE SUBSET (batch \ clash)

\* insertMany validates every document before it stores one.  It is ordered:
\* what comes before the first duplicate _id is in the archive when it fails.
ArchiverInserts(a) ==
    /\ archiver[a].pc = "insert"
    /\ LET valid == \A i \in Batch(a) : Valid(archiver[a].batch[i])
           clash == Batch(a) \cap Stored(archive)
       IN /\ IF valid THEN \E done \in Preceding(Batch(a), clash) : Insert(a, done)
             ELSE UNCHANGED archive
          /\ SetArchiver(a, IF valid /\ clash = {}
                            THEN [archiver[a] EXCEPT !.pc = "delete"] ELSE ArchiverIdle)
    /\ UNCHANGED <<hot, last, cutoff, call, crashes, unsent>>

ArchiverDeletes(a) ==
    /\ archiver[a].pc = "delete"
    /\ hot' = [i \in Ids |-> IF i \in Batch(a) THEN NoDoc ELSE hot[i]]
    /\ SetArchiver(a, [archiver[a] EXCEPT !.pc = "find", !.batch = NoBatch])
    /\ UNCHANGED <<archive, last, cutoff, call, crashes, unsent>>

\* The process stops, or an operation fails before it has any effect.
ArchiverCrashes(a) ==
    /\ archiver[a].pc # "idle"
    /\ crashes < MaxCrashes
    /\ crashes' = crashes + 1
    /\ SetArchiver(a, ArchiverIdle)
    /\ UNCHANGED <<hot, archive, last, cutoff, call, unsent>>

ArchiverStep(a) == ArchiverFinds(a) \/ ArchiverInserts(a) \/ ArchiverDeletes(a)

\* A message becomes old.  A handler runs for seconds, a message may be unsent
\* for a day and is archived after many: none becomes old while it is being
\* unsent, nor during a call that was there before it.
Age ==
    /\ cutoff < last
    /\ \A w \in Workers : /\ call[w].op = "unsend" => call[w].id # cutoff + 1
                          /\ call[w] # Idle => cutoff < call[w].since
    /\ cutoff' = cutoff + 1
    /\ UNCHANGED <<hot, archive, last, archiver, call, crashes, unsent>>

-----------------------------------------------------------------------------
Begin(w) ==
    \/ Start(w, "create", "save", 0, 0)
    \/ \E i \in 1 .. last :
         \/ Start(w, "create", "findHot", i, 0)
         \/ Start(w, "unsend", "findHot", i, 0)
         \/ \E op \in {"edit", "deleteForMe", "pin", "unpin"} :
              Start(w, op, "updateHot", i, 0)
         \/ Start(w, "react", "reactHot", i, 0)
    \/ \E op \in {"page", "search"}, cursor \in 1 .. last \union {MaxMessages + 1} :
         Start(w, op, "pageHot", 0, cursor)

Step(w) ==
    \/ CreateFindOriginal(w) \/ CreateSave(w)
    \/ UpdateHot(w) \/ UpdateArchive(w)
    \/ UnsendFind(w, hot, "findHot", "findArchive")
    \/ UnsendFind(w, archive, "findArchive", "idle")
    \/ ClearHot(w) \/ ClearArchive(w)
    \/ ReactFind(w, hot, "reactHot", "toggleHot", "reactArchive")
    \/ ReactFind(w, archive, "reactArchive", "toggleArchive", "pushHot")
    \/ ToggleHot(w) \/ ToggleArchive(w) \/ PushHot(w) \/ PushArchive(w)
    \/ PageHot(w) \/ PageArchive(w)
    \/ Mask(w, hot, "maskHot", "maskArchive") \/ Mask(w, archive, "maskArchive", "done")
    \/ PageDone(w)

\* The process stops, or a database rejects the next call of a handler.
Crash(w) ==
    /\ call[w] # Idle
    /\ crashes < MaxCrashes
    /\ crashes' = crashes + 1
    /\ Return(w)
    /\ UNCHANGED <<hot, archive, last, cutoff, archiver, unsent>>

Next ==
    \/ \E w \in Workers : Begin(w) \/ Step(w) \/ Crash(w)
    \/ \E a \in Archivers : ArchiverStarts(a) \/ ArchiverStep(a) \/ ArchiverCrashes(a)
    \/ Age

Spec == Init /\ [][Next]_vars

\* The cron job starts every night in every process, and a run that can go on
\* does.
FairSpec == Spec /\ \A a \in Archivers : WF_vars(ArchiverStarts(a)) /\ WF_vars(ArchiverStep(a))

-----------------------------------------------------------------------------
(* Properties                                                              *)

Current(i) == IF hot[i] # NoDoc THEN hot[i] ELSE archive[i]

\* At every moment each message created is in one of the two collections:
\* whoever looks in the hot one and then in the archive finds it.
NothingLost == Stored(hot) \union Stored(archive) = 1 .. last

\* A page below a cursor that is not older than the cutoff, or below none, is
\* the newest messages the conversation had when it was read, although an
\* archiver may have moved some between its two queries; if these go in the
\* order of the ids.
PageComplete ==
    \A w \in Workers : At(w, "done") /\ ~UsesArchive(call[w].cursor)
                         => call[w].page = call[w].due

\* Neither a page nor a search shows a snapshot of a message that had been
\* unsent before it was asked for, even if the reply was stored after its
\* snapshots had been cleared or the original was on its way to the archive;
\* nor does a search find such a message.
NoUnsentQuoted ==
    \A w \in Workers : At(w, "done") =>
        /\ \A q \in call[w].quoting : q[2] \in call[w].gone => q[2] \in call[w].masked
        /\ call[w].op = "search" => call[w].page \cap call[w].gone = {}

\* An account has at most one reaction on a message, unless two of its toggles
\* overlapped, or an archiver had the message in its batch when the toggle
\* looked for a reaction; the next toggle then removes both.
OneReaction == \A i \in 1 .. last : Current(i).reactions # "two"

\* What the list of conversations takes from the hot collection alone is the
\* last message of the conversation, as long as any that the reader sees is
\* there, and all unread ones if those after the marker are; if archivers move
\* messages in the order of the ids.
ListExact ==
    LET seen(op) == {i \in 1 .. last : /\ "deleted" \notin Current(i).marks
                                       /\ op = "search" => "unsent" \notin Current(i).marks}
    IN /\ Visible(hot, MaxMessages + 1, "page") # {} => LastMessage = Newest(seen("page"), 1)
       /\ \A marker \in 0 .. last :
            hot[Min({marker + 1, MaxMessages})] # NoDoc
              => Unread(marker) = {i \in seen("search") : i > marker}

\* What the two collections hold together.
Contents ==
    [i \in Stored(hot) \union Stored(archive) |->
       IF "unsent" \in Current(i).marks THEN "unsent" ELSE "sent"]

\* The two collections are one log (findInBothCollections): the archivers move
\* messages without losing one, bringing one back, or undoing an unsend that
\* comes while they are at work.
Log == INSTANCE MessageLog WITH log <- Contents
ImplementsMessageLog == Log!Spec

\* Every old message leaves the hot collection, unless a run of the archiver
\* ended after it had inserted it and before it had deleted it, or an old reply
\* keeps an empty snapshot, which insertMany refuses with the batch it is in.
LeftInBoth ==
    \E i \in Stored(hot) \cap Stored(archive) :
        \A a \in Archivers : archiver[a].pc = "delete" => i \notin Batch(a)
Refused == \E i \in Stored(hot) : i <= cutoff /\ ~Valid(hot[i])
ArchivedUnlessCutOff ==
    \A i \in Ids : (i <= cutoff) ~> (hot[i] = NoDoc \/ LeftInBoth \/ Refused)

\* Every old message ends up out of the hot collection, also after a failure.
OldMessagesArchived == \A i \in Ids : (i <= cutoff) ~> (hot[i] = NoDoc)
=============================================================================
