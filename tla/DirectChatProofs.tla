--------------------------- MODULE DirectChatProofs ---------------------------
(***************************************************************************)
(* Two accounts have one direct conversation, a block is respected, a      *)
(* message brings the conversation back, a client that has caught up misses *)
(* nothing, and read markers follow their client: for every number of      *)
(* messages, listeners and handlers, wherever handlers are cut off.        *)
(***************************************************************************)
EXTENDS DirectChat, TLAPS

-----------------------------------------------------------------------------
(* The inductive invariant, in five parts and the types.                   *)

\* What a handler holds at each step.
CallType(r, stored) ==
    /\ r \in CallRecords
    /\ r.pc \in {"find", "unhide", "create"} => r.account \in Accounts
    /\ r.pc \in {"mark", "join"} => r.account \in Listeners
    /\ IF r.pc \in {"touch", "show", "emit", "mark"} THEN r.msg \in 1 .. stored
                                                     ELSE r.msg = 0

CallsOK == call \in [Workers -> CallRecords] /\ \A w \in Workers : CallType(call[w], conv.stored)

StoreType ==
    /\ conv \in Rows
    /\ others \subseteq {"overlapping", "alone"}
    /\ blocked \in BOOLEAN
    /\ client \in [Listeners -> Clients]
    /\ cut \subseteq Messages

\* Who is about to create a conversation although there is one has been
\* overtaken.
Created ==
    OneConversation /\ \A w \in Workers : At(w, "create") /\ conv.there => call[w].late

\* So has who is about to make contact across a block.
Checked ==
    blocked => \A w \in Workers : call[w].pc \in {"find", "create", "save"} => call[w].late

\* The conversation comes back in two steps.
UpAt(c, m) == c.touched >= m
ShownAt(c, m) == UpAt(c, m) /\ \A a \in Accounts : c.hidden[a] >= m
Shown ==
    /\ Reappears
    /\ \A w \in Workers : /\ At(w, "show") => UpAt(conv, call[w].msg)
                          /\ At(w, "emit") => ShownAt(conv, call[w].msg)

Heard == NoGap /\ \A a \in Listeners : client[a].got \subseteq 1 .. conv.stored

\* Unless its calls raced, the one that marks for an account is alone and has
\* what the client asked for last.
Marked ==
    /\ MarkerFollows
    /\ \A w \in Workers : At(w, "mark") /\ call[w].account \notin conv.raced =>
         /\ call[w].msg = conv.asked[call[w].account]
         /\ \A v \in Workers : At(v, "mark") /\ call[v].account = call[w].account => v = w

IInv == CallsOK /\ StoreType /\ Created /\ Checked /\ Shown /\ Heard /\ Marked

-----------------------------------------------------------------------------
(* Calls.  A handler is kept by a step that at most makes its checks old.  *)

Kept(v) ==
    /\ call'[v] \in CallRecords
    /\ call'[v].pc = call[v].pc /\ call'[v].account = call[v].account
    /\ call'[v].msg = call[v].msg
    /\ call[v].late => call'[v].late

Moves(w, r) ==
    /\ call' = [v \in Workers |-> call'[v]]
    /\ call'[w] = r
    /\ \A v \in Workers \ {w} : Kept(v)

LEMMA IdleType == (\A n : CallType(Idle, n)) /\ Idle.pc = "idle" /\ Idle.msg = 0
BY BoundsAssumption DEF CallType, Idle, CallRecords, PCs

LEMMA SetMoves ==
    ASSUME CallsOK, NEW w \in Workers, NEW r, call' = [call EXCEPT ![w] = r]
    PROVE  Moves(w, r)
BY DEF CallsOK, Moves, Kept

LEMMA GotoMoves ==
    ASSUME CallsOK, NEW w \in Workers, NEW pc, Goto(w, pc)
    PROVE  Moves(w, [call[w] EXCEPT !.pc = pc])
BY DEF CallsOK, Moves, Kept, Goto

LEMMA ReturnMoves ==
    ASSUME CallsOK, NEW w \in Workers, Return(w) PROVE Moves(w, Idle)
BY SetMoves DEF Return

LEMMA CallsStep ==
    ASSUME CallsOK, conv.stored \in Nat, conv'.stored \in Nat, conv'.stored >= conv.stored,
           call' = [v \in Workers |-> call'[v]],
           \A v \in Workers : Kept(v) \/ CallType(call'[v], conv'.stored)
    PROVE  CallsOK'
<1>1. \A i : i \in 1 .. conv.stored => i \in 1 .. conv'.stored
  OBVIOUS
<1>2. ASSUME NEW v \in Workers, Kept(v) PROVE CallType(call'[v], conv'.stored)
  BY <1>1, <1>2 DEF CallsOK, CallType, Kept
<1>3. \A v \in Workers : CallType(call'[v], conv'.stored)
  BY <1>2
<1>4. call' \in [Workers -> CallRecords]
  BY <1>3 DEF CallType
<1> QED
  BY <1>3, <1>4 DEF CallsOK

-----------------------------------------------------------------------------
(* What each part needs of a step.                                         *)

LEMMA CreatedStep ==
    ASSUME Created, others' = others, conv'.there = conv.there,
           \A v \in Workers : Kept(v) \/ call'[v].pc # "create" \/ ~conv.there
    PROVE  Created'
BY DEF Created, OneConversation, Kept, At

LEMMA CheckedStep ==
    ASSUME Checked, blocked' = blocked,
           \A v \in Workers : \/ Kept(v)
                              \/ call'[v].pc \notin {"find", "create", "save"}
                              \/ blocked => call'[v].late
    PROVE  Checked'
BY DEF Checked, Kept

\* Handler v has nothing to do any more for the message it had, or goes on.
GoesOn(v) ==
    \/ Kept(v)
    \/ call[v].msg \notin Messages \/ At(v, "mark") \/ call[v].msg \in cut'
    \/ call'[v].msg = call[v].msg /\ call'[v].pc # "mark"

LEMMA UnfinishedStays ==
    ASSUME NEW m \in Messages, Unfinished(m), cut \subseteq cut',
           \A v \in Workers : GoesOn(v)
    PROVE  Unfinished(m)'
BY DEF Unfinished, GoesOn, Kept, At

\* The conversation only moves up, and is hidden only at its newest message.
OnlyUp ==
    /\ conv'.touched = conv.touched \/ conv'.touched = conv.stored
    /\ \A a \in Accounts : \/ conv'.hidden[a] = conv.hidden[a]
                           \/ conv'.hidden[a] = conv.stored
                           \/ conv'.hidden[a] = NotHidden

LEMMA ConvType ==
    ASSUME StoreType
    PROVE  /\ conv.stored \in 0 .. MaxMessages /\ conv.touched \in 0 .. MaxMessages
           /\ \A a \in Accounts : conv.hidden[a] \in 0 .. NotHidden
           /\ conv.stored \in Nat /\ conv.touched \in Nat /\ NotHidden \in Nat
           /\ \A a \in Accounts : conv.hidden[a] \in Nat
           /\ 1 .. conv.stored \subseteq Messages /\ MaxMessages \in Nat
           /\ NotHidden = MaxMessages + 1
BY BoundsAssumption DEF StoreType, Rows, NotHidden, Messages

LEMMA UpStays ==
    ASSUME StoreType, StoreType', OnlyUp, NEW m \in 1 .. conv.stored
    PROVE  (UpAt(conv, m) => UpAt(conv', m)) /\ (ShownAt(conv, m) => ShownAt(conv', m))
<1>1. UpAt(conv, m) => UpAt(conv', m)
  BY ConvType DEF UpAt, OnlyUp
<1>2. \A a \in Accounts : conv.hidden[a] >= m => conv'.hidden[a] >= m
  BY ConvType DEF OnlyUp
<1> QED
  BY <1>1, <1>2 DEF ShownAt

LEMMA ShownStep ==
    ASSUME CallsOK, StoreType, StoreType', Shown, OnlyUp, conv'.stored = conv.stored,
           cut \subseteq cut',
           \A v \in Workers : GoesOn(v) \/ ShownAt(conv', call[v].msg),
           \A v \in Workers :
              \/ Kept(v)
              \/ /\ call'[v].pc = "show" => UpAt(conv', call'[v].msg)
                 /\ call'[v].pc = "emit" => ShownAt(conv', call'[v].msg)
    PROVE  Shown'
<1>1. ASSUME NEW m \in 1 .. conv.stored PROVE ShownAt(conv', m) \/ Unfinished(m)'
  <2>1. m \in Messages
    BY ConvType
  <2>2. CASE ShownAt(conv, m)
    BY <2>2, UpStays
  <2>3. CASE ~ShownAt(conv, m)
    <3>1. Unfinished(m)
      BY <2>3 DEF Shown, Reappears, ShownAt, UpAt
    <3>2. CASE m \in cut
      BY <3>2 DEF Unfinished
    <3>3. ASSUME NEW w \in Workers, call[w].msg = m, ~At(w, "mark")
          PROVE  ShownAt(conv', m) \/ Unfinished(m)'
      BY <2>1, <3>3 DEF GoesOn, Kept, Unfinished, At
    <3> QED
      BY <3>1, <3>2, <3>3 DEF Unfinished
  <2> QED
    BY <2>2, <2>3
<1>2. Reappears'
  BY <1>1 DEF Reappears, ShownAt, UpAt
<1>3. ASSUME NEW v \in Workers
      PROVE  /\ At(v, "show")' => UpAt(conv', call'[v].msg)
             /\ At(v, "emit")' => ShownAt(conv', call'[v].msg)
  <2>1. CASE Kept(v) /\ call[v].pc \in {"show", "emit"}
    <3>1. call[v].msg \in 1 .. conv.stored
      BY <2>1 DEF CallsOK, CallType
    <3> QED
      BY <2>1, <3>1, UpStays DEF Shown, Kept, At
  <2>2. CASE Kept(v) /\ call[v].pc \notin {"show", "emit"}
    BY <2>2 DEF Kept, At
  <2> QED
    BY <2>1, <2>2 DEF At
<1> QED
  BY <1>2, <1>3 DEF Shown

LEMMA HeardStep ==
    ASSUME StoreType, Heard, conv'.stored = conv.stored, cut \subseteq cut',
           \A v \in Workers : GoesOn(v),
           \A a \in Listeners : \/ client'[a] = client[a]
                                \/ client'[a].got = 1 .. conv.stored
                                \/ ~client'[a].caught /\ client'[a].got \subseteq 1 .. conv.stored
                                \/ client'[a].caught = client[a].caught /\ client'[a].got = client[a].got
    PROVE  Heard'
<1>1. NoGap'
  <2>1. ASSUME NEW a \in Listeners, NEW m \in 1 .. conv.stored, client'[a].caught
        PROVE  m \in client'[a].got \/ Unfinished(m)'
    <3>1. m \in Messages
      BY ConvType
    <3> QED
      BY <2>1, <3>1, UnfinishedStays DEF Heard, NoGap
  <2> QED
    BY <2>1 DEF NoGap
<1>2. \A a \in Listeners : client'[a].got \subseteq 1 .. conv'.stored
  BY DEF Heard
<1> QED
  BY <1>1, <1>2 DEF Heard

LEMMA MarkedStep ==
    ASSUME Marked,
           conv'.read = conv.read /\ conv'.asked = conv.asked /\ conv'.raced = conv.raced,
           \A v \in Workers : Kept(v) \/ (call[v].pc # "mark" /\ call'[v].pc # "mark")
    PROVE  Marked'
<1>1. \A v \in Workers : At(v, "mark")' <=> At(v, "mark")
  BY DEF Kept, At
<1>2. \A v \in Workers : At(v, "mark") =>
         call'[v].msg = call[v].msg /\ call'[v].account = call[v].account
  BY DEF Kept, At
<1>3. \A a : Marking(a)' = Marking(a)
  BY <1>1, <1>2 DEF Marking
<1> QED
  BY <1>1, <1>2, <1>3 DEF Marked, MarkerFollows

-----------------------------------------------------------------------------
(* The steps of handlers, but for those that store and deliver a message   *)
(* or create a conversation.                                               *)

SameClients == \A a \in Listeners :
    \/ client'[a] = client[a]
    \/ client'[a].caught = client[a].caught /\ client'[a].got = client[a].got

LEMMA Basics ==
    ASSUME IInv
    PROVE  /\ CallsOK /\ StoreType /\ Created /\ Checked /\ Shown /\ Heard /\ Marked
           /\ conv.stored \in Nat /\ 0 \notin Messages
BY ConvType DEF IInv, Messages

LEMMA HandlerStep ==
    ASSUME IInv, NEW w \in Workers, NEW r, Moves(w, r), CallType(r, conv.stored),
           StoreType', cut \subseteq cut', OnlyUp, SameClients, Marked',
           UNCHANGED <<others, blocked>>,
           conv'.stored = conv.stored, conv'.there = conv.there,
           r.pc = "create" => ~conv.there,
           r.pc \in {"find", "create", "save"} => (blocked => r.late),
           \/ call[w].msg = 0 \/ call[w].pc = "mark" \/ call[w].msg \in cut'
           \/ r.msg = call[w].msg /\ r.pc # "mark",
           r.pc = "show" => UpAt(conv', r.msg),
           r.pc = "emit" => ShownAt(conv', r.msg)
    PROVE  IInv'
<1>1. CallsOK'
  <2>1. \A v \in Workers : Kept(v) \/ CallType(call'[v], conv'.stored)
    BY DEF Moves
  <2> QED
    BY <2>1, Basics, CallsStep DEF Moves
<1>2. Created'
  <2>1. \A v \in Workers : Kept(v) \/ call'[v].pc # "create" \/ ~conv.there
    BY DEF Moves
  <2> QED
    BY <2>1, Basics, CreatedStep
<1>3. Checked'
  <2>1. \A v \in Workers : \/ Kept(v)
                           \/ call'[v].pc \notin {"find", "create", "save"}
                           \/ blocked => call'[v].late
    BY DEF Moves
  <2> QED
    BY <2>1, Basics, CheckedStep
<1>4. \A v \in Workers : GoesOn(v)
  <2>1. GoesOn(w)
    BY Basics DEF Moves, GoesOn, At
  <2> QED
    BY <2>1 DEF Moves, GoesOn
<1>5. Shown'
  <2>1. \A v \in Workers :
              \/ Kept(v)
              \/ /\ call'[v].pc = "show" => UpAt(conv', call'[v].msg)
                 /\ call'[v].pc = "emit" => ShownAt(conv', call'[v].msg)
    BY DEF Moves
  <2> QED
    BY <1>4, <2>1, Basics, ShownStep
<1>6. Heard'
  BY <1>4, Basics, HeardStep DEF SameClients
<1> QED
  BY <1>1, <1>2, <1>3, <1>5, <1>6 DEF IInv

LEMMA MarkedSame ==
    ASSUME IInv, NEW w \in Workers, NEW r, Moves(w, r), call[w].pc # "mark", r.pc # "mark",
           conv'.read = conv.read /\ conv'.asked = conv.asked /\ conv'.raced = conv.raced
    PROVE  Marked'
BY MarkedStep DEF Moves, IInv

\* A step of a handler that has no message and changes nothing but itself.
LEMMA QuietStep ==
    ASSUME IInv, NEW w \in Workers, NEW r, Moves(w, r), CallType(r, conv.stored),
           UNCHANGED <<conv, others, blocked, client, cut>>,
           call[w].pc \notin {"touch", "show", "emit", "mark"},
           r.pc \notin {"touch", "show", "emit", "mark"},
           r.pc = "create" => ~conv.there,
           r.pc \in {"find", "create", "save"} => (blocked => r.late)
    PROVE  IInv'
<1>1. StoreType'
  BY Basics DEF StoreType
<1>2. OnlyUp /\ SameClients
  BY DEF OnlyUp, SameClients
<1>3. Marked'
  BY MarkedSame
<1>4. call[w].msg = 0
  BY Basics DEF CallsOK, CallType
<1> QED
  BY <1>1, <1>2, <1>3, <1>4, HandlerStep

LEMMA StartQuiet ==
    ASSUME IInv, NEW w \in Workers, NEW op, NEW r, Start(w, op, r),
           CallType(r, conv.stored), r.pc \notin {"touch", "show", "emit", "mark", "create"},
           r.pc \in {"find", "save"} => ~blocked
    PROVE  IInv'
<1>1. /\ call[w] = Idle /\ call' = [call EXCEPT ![w] = r]
      /\ UNCHANGED <<conv, others, blocked, client, cut>>
  BY DEF Start
<1>2. Moves(w, r) /\ call[w].pc = "idle"
  BY <1>1, Basics, SetMoves, IdleType
<1> QED
  BY <1>1, <1>2, QuietStep

LEMMA QuietSteps ==
    ASSUME IInv, NEW w \in Workers,
           \/ FindDirect(w) \/ StartSendMessage(w)
           \/ \E a \in Accounts : StartCreateOrGet(w, a)
           \/ \E a \in Listeners : StartRejoinRooms(w, a)
    PROVE  IInv'
<1> USE DEF CallRecords, PCs
<1>0. /\ CallsOK /\ StoreType /\ Checked /\ CallType(call[w], conv.stored)
      /\ call[w] \in CallRecords /\ Idle \in CallRecords
  BY Basics, IdleType DEF CallsOK, CallType
<1>1. ASSUME NEW a \in Accounts, StartCreateOrGet(w, a) PROVE IInv'
  <2> DEFINE r == [Idle EXCEPT !.pc = "find", !.account = a]
  <2>1. CallType(r, conv.stored) /\ r.pc = "find"
    BY <1>0, IdleType DEF CallType, Idle
  <2> QED
    BY <1>1, <2>1, StartQuiet DEF StartCreateOrGet
<1>2. CASE StartSendMessage(w)
  <2> DEFINE r == [Idle EXCEPT !.pc = "save"]
  <2>1. CallType(r, conv.stored) /\ r.pc = "save"
    BY <1>0, IdleType DEF CallType, Idle
  <2> QED
    BY <1>2, <2>1, StartQuiet DEF StartSendMessage
<1>3. ASSUME NEW a \in Listeners, StartRejoinRooms(w, a) PROVE IInv'
  <2> DEFINE r == [Idle EXCEPT !.pc = "join", !.account = a]
  <2>1. CallType(r, conv.stored) /\ r.pc = "join"
    <3>1. a \in Accounts
      BY AccountsAssumption
    <3> QED
      BY <1>0, <3>1, IdleType DEF CallType, Idle
  <2> QED
    BY <1>3, <2>1, StartQuiet DEF StartRejoinRooms
<1>4. CASE FindDirect(w)
  <2>1. /\ call[w].pc = "find" /\ UNCHANGED <<conv, others, blocked, client, cut>>
        /\ Goto(w, IF conv.there THEN "unhide" ELSE "create") \/ Return(w)
    BY <1>4 DEF FindDirect, At
  <2>2. blocked => call[w].late
    BY <1>0, <2>1 DEF Checked
  <2>3. CASE Return(w)
    BY <1>0, <2>1, <2>3, IdleType, ReturnMoves, QuietStep
  <2>4. ASSUME NEW pc \in {"unhide", "create"}, Goto(w, pc), pc = "create" => ~conv.there
        PROVE  IInv'
    <3> DEFINE r == [call[w] EXCEPT !.pc = pc]
    <3>1. CallType(r, conv.stored) /\ r.pc = pc /\ r.late = call[w].late
      BY <1>0, <2>1 DEF CallType
    <3>2. Moves(w, r)
      BY <1>0, <2>4, GotoMoves
    <3> QED
      BY <2>1, <2>2, <2>4, <3>1, <3>2, QuietStep
  <2> QED
    BY <2>1, <2>3, <2>4
<1> QED
  BY <1>1, <1>2, <1>3, <1>4

LEMMA ConvSteps ==
    ASSUME IInv, NEW w \in Workers,
           Unhide(w) \/ UpdateTimestamp(w) \/ ResetHiddenAt(w) \/ RejoinRooms(w)
    PROVE  IInv'
<1> DEFINE a == call[w].account
<1>0. /\ CallsOK /\ StoreType /\ Shown /\ CallType(call[w], conv.stored)
      /\ call[w] \in CallRecords /\ conv \in Rows /\ conv.stored \in Nat
  BY Basics DEF CallsOK, CallType, StoreType
<1>1. CASE Unhide(w)
  <2>1. /\ a \in Accounts /\ call[w].pc = "unhide" /\ call[w].msg = 0
        /\ conv' = [conv EXCEPT !.hidden[a] = NotHidden, !.touched = conv.stored]
        /\ Moves(w, Idle) /\ UNCHANGED <<others, blocked, client, cut>>
    BY <1>0, <1>1, ReturnMoves DEF Unhide, At, CallType
  <2>2. conv' = [conv EXCEPT !.hidden = [conv.hidden EXCEPT ![a] = NotHidden],
                             !.touched = conv.stored]
    BY <1>0, <2>1 DEF Rows
  <2>3. [conv.hidden EXCEPT ![a] = NotHidden] \in [Accounts -> 0 .. NotHidden]
    <3>1. conv.hidden \in [Accounts -> 0 .. NotHidden]
      BY <1>0 DEF Rows
    <3>2. NotHidden \in 0 .. NotHidden
      BY <1>0, ConvType
    <3> QED
      BY <3>1, <3>2
  <2>4. conv' \in Rows /\ OnlyUp
    BY <1>0, <2>1, <2>2, <2>3 DEF Rows, OnlyUp
  <2>5. /\ conv'.stored = conv.stored /\ conv'.there = conv.there /\ conv'.read = conv.read
        /\ conv'.asked = conv.asked /\ conv'.raced = conv.raced
    BY <1>0, <2>2 DEF Rows
  <2>6. StoreType' /\ SameClients
    BY <1>0, <2>1, <2>4 DEF StoreType, SameClients
  <2>7. Marked'
    BY <2>1, <2>5, IdleType, MarkedSame
  <2> QED
    BY <2>1, <2>4, <2>5, <2>6, <2>7, IdleType, HandlerStep
<1>2. CASE UpdateTimestamp(w)
  <2> DEFINE r == [call[w] EXCEPT !.pc = "show"]
  <2>1. /\ call[w].pc = "touch" /\ call[w].msg \in 1 .. conv.stored
        /\ conv' = [conv EXCEPT !.touched = conv.stored]
        /\ Moves(w, r) /\ UNCHANGED <<others, blocked, client, cut>>
    BY <1>0, <1>2, GotoMoves DEF UpdateTimestamp, At, CallType
  <2>2. CallType(r, conv.stored) /\ r.pc = "show" /\ r.msg = call[w].msg
    BY <1>0, <2>1 DEF CallType, CallRecords, PCs
  <2>3. conv' \in Rows /\ OnlyUp /\ UpAt(conv', r.msg)
    BY <1>0, <2>1, <2>2 DEF Rows, OnlyUp, UpAt
  <2>4. /\ conv'.stored = conv.stored /\ conv'.there = conv.there /\ conv'.read = conv.read
        /\ conv'.asked = conv.asked /\ conv'.raced = conv.raced
    BY <1>0, <2>1 DEF Rows
  <2>5. StoreType' /\ SameClients
    BY <1>0, <2>1, <2>3 DEF StoreType, SameClients
  <2>6. Marked'
    BY <2>1, <2>2, <2>4, MarkedSame
  <2> QED
    BY <2>1, <2>2, <2>3, <2>4, <2>5, <2>6, HandlerStep
<1>3. CASE ResetHiddenAt(w)
  <2> DEFINE r == [call[w] EXCEPT !.pc = "emit"]
  <2>1. /\ call[w].pc = "show" /\ call[w].msg \in 1 .. conv.stored
        /\ conv' = [conv EXCEPT !.hidden = [b \in Accounts |-> NotHidden]]
        /\ Moves(w, r) /\ UNCHANGED <<others, blocked, client, cut>>
    BY <1>0, <1>3, GotoMoves DEF ResetHiddenAt, At, CallType
  <2>2. CallType(r, conv.stored) /\ r.pc = "emit" /\ r.msg = call[w].msg
    BY <1>0, <2>1 DEF CallType, CallRecords, PCs
  <2>3. conv' \in Rows /\ OnlyUp
    BY <1>0, <2>1, ConvType DEF Rows, OnlyUp
  <2>4. ShownAt(conv', r.msg)
    <3>1. UpAt(conv, call[w].msg)
      BY <1>0, <2>1 DEF Shown, At
    <3>2. NotHidden >= call[w].msg
      BY <1>0, <2>1, ConvType
    <3> QED
      BY <1>0, <2>1, <2>2, <3>1, <3>2 DEF ShownAt, UpAt, Rows
  <2>5. /\ conv'.stored = conv.stored /\ conv'.there = conv.there /\ conv'.read = conv.read
        /\ conv'.asked = conv.asked /\ conv'.raced = conv.raced
    BY <1>0, <2>1 DEF Rows
  <2>6. StoreType' /\ SameClients
    BY <1>0, <2>1, <2>3 DEF StoreType, SameClients
  <2>7. Marked'
    BY <2>1, <2>2, <2>5, MarkedSame
  <2> QED
    BY <2>1, <2>2, <2>3, <2>4, <2>5, <2>6, <2>7, HandlerStep
<1>4. CASE RejoinRooms(w)
  <2>1. /\ a \in Listeners /\ call[w].pc = "join" /\ call[w].msg = 0
        /\ client' = [client EXCEPT ![a].joined = TRUE]
        /\ Moves(w, Idle) /\ UNCHANGED <<conv, others, blocked, cut>>
    BY <1>0, <1>4, ReturnMoves DEF RejoinRooms, At, CallType
  <2>2. StoreType' /\ SameClients /\ OnlyUp
    BY <1>0, <2>1 DEF StoreType, SameClients, OnlyUp, Clients
  <2>3. Marked'
    BY <2>1, IdleType, MarkedSame
  <2> QED
    BY <2>1, <2>2, <2>3, IdleType, HandlerStep
<1> QED
  BY <1>1, <1>2, <1>3, <1>4

-----------------------------------------------------------------------------
(* Read markers and the end of a handler.                                  *)

LEMMA MarkSteps ==
    ASSUME IInv, NEW w \in Workers,
           MarkAsRead(w) \/ \E a \in Listeners, m \in Messages : StartMarkRead(w, a, m)
    PROVE  IInv'
<1>0. /\ CallsOK /\ StoreType /\ Marked /\ Heard /\ CallType(call[w], conv.stored)
      /\ call[w] \in CallRecords /\ conv \in Rows /\ conv.stored \in Nat
      /\ conv.read \in [Listeners -> 0 .. MaxMessages]
      /\ conv.asked \in [Listeners -> 0 .. MaxMessages] /\ conv.raced \subseteq Listeners
  BY Basics DEF CallsOK, CallType, StoreType, Rows
<1>1. CASE MarkAsRead(w)
  <2> DEFINE a == call[w].account
             m == call[w].msg
  <2>1. /\ a \in Listeners /\ call[w].pc = "mark" /\ m \in 1 .. conv.stored
        /\ conv' = [conv EXCEPT !.read[a] = m]
        /\ Moves(w, Idle) /\ UNCHANGED <<others, blocked, client, cut>>
    BY <1>0, <1>1, ReturnMoves DEF MarkAsRead, At, CallType
  <2>2. conv' = [conv EXCEPT !.read = [conv.read EXCEPT ![a] = m]]
    BY <1>0, <2>1 DEF Rows
  <2>3. m \in 0 .. MaxMessages
    BY <1>0, <2>1, ConvType
  <2>4. [conv.read EXCEPT ![a] = m] \in [Listeners -> 0 .. MaxMessages]
    BY <1>0, <2>3
  <2>5. /\ conv' \in Rows /\ conv'.read = [conv.read EXCEPT ![a] = m]
        /\ conv'.stored = conv.stored /\ conv'.there = conv.there
        /\ conv'.asked = conv.asked /\ conv'.raced = conv.raced
        /\ conv'.touched = conv.touched /\ conv'.hidden = conv.hidden
    BY <1>0, <2>2, <2>4 DEF Rows
  <2>6. StoreType' /\ SameClients /\ OnlyUp
    BY <1>0, <2>1, <2>5 DEF StoreType, SameClients, OnlyUp
  <2>7. Marked'
    <3>1. \A v \in Workers : At(v, "mark")' => v # w
      BY <2>1, IdleType DEF Moves, At
    <3>2. \A v \in Workers : v # w => /\ At(v, "mark")' <=> At(v, "mark")
                                      /\ call'[v].account = call[v].account
                                      /\ call'[v].msg = call[v].msg
      BY <2>1 DEF Moves, Kept, At
    <3>3. MarkerFollows'
      <4>1. ASSUME NEW b \in Listeners, Marking(b)' = {}, b \notin conv.raced
            PROVE  conv'.read[b] = conv.asked[b]
        <5>1. CASE b = a
          BY <1>0, <2>1, <2>5, <4>1, <5>1 DEF Marked, At
        <5>2. CASE b # a
          <6>1. Marking(b) = {}
            BY <3>2, <4>1, <5>2 DEF Marking
          <6> QED
            BY <1>0, <2>5, <4>1, <5>2, <6>1 DEF Marked, MarkerFollows
        <5> QED
          BY <5>1, <5>2
      <4> QED
        BY <2>5, <4>1 DEF MarkerFollows
    <3> QED
      BY <1>0, <2>5, <3>1, <3>2, <3>3 DEF Marked
  <2> QED
    BY <2>1, <2>5, <2>6, <2>7, IdleType, HandlerStep
<1>2. ASSUME NEW a \in Listeners, NEW m \in Messages, StartMarkRead(w, a, m) PROVE IInv'
  <2> DEFINE r == [Idle EXCEPT !.pc = "mark", !.account = a, !.msg = m]
  <2>1. /\ call[w] = Idle /\ m \in client[a].got /\ call' = [call EXCEPT ![w] = r]
        /\ conv' = IF Marking(a) = {}
                   THEN [conv EXCEPT !.asked[a] = m, !.raced = conv.raced \ {a}]
                   ELSE [conv EXCEPT !.asked[a] = 0, !.raced = conv.raced \union {a}]
        /\ UNCHANGED <<others, blocked, client, cut>>
    BY <1>0, <1>2 DEF StartMarkRead, Rows
  <2>2. m \in 1 .. conv.stored /\ m \in 0 .. MaxMessages /\ 0 \in 0 .. MaxMessages
    BY <1>0, <2>1, ConvType DEF Heard
  <2>3. CallType(r, conv.stored) /\ r.pc = "mark" /\ r.account = a /\ r.msg = m
    BY <2>2, AccountsAssumption DEF CallType, Idle, CallRecords, PCs
  <2>4. Moves(w, r) /\ call[w].pc = "idle" /\ call[w].msg = 0
    BY <1>0, <2>1, SetMoves, IdleType
  <2>5. PICK n \in 0 .. MaxMessages, R \in SUBSET Listeners :
          /\ conv' = [conv EXCEPT !.asked = [conv.asked EXCEPT ![a] = n], !.raced = R]
          /\ \/ Marking(a) = {} /\ n = m /\ R = conv.raced \ {a}
             \/ Marking(a) # {} /\ R = conv.raced \union {a}
    <3>1. CASE Marking(a) = {}
      <4>1. conv' = [conv EXCEPT !.asked = [conv.asked EXCEPT ![a] = m],
                                 !.raced = conv.raced \ {a}]
        BY <1>0, <2>1, <3>1 DEF Rows
      <4> QED
        BY <1>0, <2>2, <3>1, <4>1
    <3>2. CASE Marking(a) # {}
      <4>1. conv' = [conv EXCEPT !.asked = [conv.asked EXCEPT ![a] = 0],
                                 !.raced = conv.raced \union {a}]
        BY <1>0, <2>1, <3>2 DEF Rows
      <4> QED
        BY <1>0, <2>2, <3>2, <4>1
    <3> QED
      BY <3>1, <3>2
  <2>6. [conv.asked EXCEPT ![a] = n] \in [Listeners -> 0 .. MaxMessages]
    BY <1>0
  <2>7. /\ conv' \in Rows /\ conv'.asked = [conv.asked EXCEPT ![a] = n]
        /\ conv'.stored = conv.stored /\ conv'.there = conv.there
        /\ conv'.read = conv.read /\ conv'.raced = R
        /\ conv'.touched = conv.touched /\ conv'.hidden = conv.hidden
    BY <1>0, <2>5, <2>6 DEF Rows
  <2>8. StoreType' /\ SameClients /\ OnlyUp
    BY <1>0, <2>1, <2>7 DEF StoreType, SameClients, OnlyUp
  <2>9. Marked'
    <3>1. call'[w] = r /\ ~At(w, "mark") /\ At(w, "mark")'
      BY <2>3, <2>4 DEF Moves, At
    <3>2. \A v \in Workers : v # w => /\ At(v, "mark")' <=> At(v, "mark")
                                      /\ call'[v].account = call[v].account
                                      /\ call'[v].msg = call[v].msg
      BY <2>4 DEF Moves, Kept, At
    <3>3. MarkerFollows'
      <4>1. ASSUME NEW b \in Listeners, Marking(b)' = {}, b \notin R
            PROVE  conv'.read[b] = conv'.asked[b]
        <5>1. b # a
          BY <2>3, <3>1, <4>1 DEF Marking
        <5>2. Marking(b) = {}
          BY <3>1, <3>2, <4>1 DEF Marking
        <5>3. b \notin conv.raced
          BY <2>5, <4>1, <5>1
        <5> QED
          BY <1>0, <2>7, <5>1, <5>2, <5>3 DEF Marked, MarkerFollows
      <4> QED
        BY <2>7, <4>1 DEF MarkerFollows
    <3>4. ASSUME NEW v \in Workers, At(v, "mark")', call'[v].account \notin R
          PROVE  /\ call'[v].msg = conv'.asked[call'[v].account]
                 /\ \A u \in Workers :
                      At(u, "mark")' /\ call'[u].account = call'[v].account => u = v
      <4>1. CASE v = w
        <5>1. Marking(a) = {} /\ n = m
          BY <2>3, <2>5, <3>1, <3>4, <4>1
        <5>2. \A u \in Workers : At(u, "mark")' /\ call'[u].account = a => u = w
          BY <3>2, <5>1 DEF Marking
        <5>3. call'[v].msg = m /\ call'[v].account = a
          BY <2>3, <3>1, <4>1
        <5>4. conv'.asked[a] = m
          BY <1>0, <2>7, <5>1
        <5> QED
          BY <4>1, <5>2, <5>3, <5>4
      <4>2. CASE v # w
        <5>1. /\ At(v, "mark") /\ call'[v].account = call[v].account
              /\ call'[v].msg = call[v].msg
          BY <3>2, <3>4, <4>2
        <5>2. call[v].account # a
          BY <2>5, <3>4, <5>1 DEF Marking
        <5>3. call[v].account \notin conv.raced /\ call[v].account \in Listeners
          BY <1>0, <2>5, <3>4, <5>1, <5>2 DEF CallsOK, CallType, At
        <5>4. /\ call[v].msg = conv.asked[call[v].account]
              /\ \A u \in Workers : At(u, "mark") /\ call[u].account = call[v].account => u = v
          BY <1>0, <5>1, <5>3 DEF Marked
        <5>5. call'[w].account # call'[v].account
          BY <2>3, <3>1, <5>1, <5>2
        <5> QED
          <6>1. conv'.asked[call'[v].account] = conv.asked[call[v].account]
            BY <1>0, <2>7, <5>1, <5>2, <5>3
          <6>2. ASSUME NEW u \in Workers, At(u, "mark")', call'[u].account = call'[v].account
                PROVE  u = v
            BY <3>2, <5>1, <5>4, <5>5, <6>2
          <6> QED
            BY <5>1, <5>4, <6>1, <6>2
      <4> QED
        BY <4>1, <4>2
    <3> QED
      BY <2>7, <3>3, <3>4 DEF Marked
  <2> QED
    BY <2>1, <2>3, <2>4, <2>7, <2>8, <2>9, HandlerStep
<1> QED
  BY <1>1, <1>2

LEMMA CrashStep == ASSUME IInv, NEW w \in Workers, Crash(w) PROVE IInv'
<1> DEFINE a == call[w].account
<1>0. /\ CallsOK /\ StoreType /\ Marked /\ CallType(call[w], conv.stored)
      /\ call[w] \in CallRecords /\ conv \in Rows /\ conv.stored \in Nat
      /\ conv.asked \in [Listeners -> 0 .. MaxMessages] /\ conv.raced \subseteq Listeners
      /\ 1 .. conv.stored \subseteq Messages /\ MaxMessages \in Nat
  BY Basics, ConvType DEF CallsOK, CallType, StoreType, Rows
<1>1. /\ Moves(w, Idle) /\ UNCHANGED <<others, blocked, client>>
  BY <1>0, ReturnMoves DEF Crash
<1>2. CASE call[w].pc # "mark"
  <2>1. conv' = conv
    BY <1>2 DEF Crash, At
  <2>2. /\ cut \subseteq cut' /\ cut' \subseteq Messages
        /\ call[w].msg = 0 \/ call[w].msg \in cut'
    BY <1>0, <1>2 DEF Crash, CallType, StoreType
  <2>3. StoreType' /\ SameClients /\ OnlyUp
    BY <1>0, <1>1, <2>1, <2>2 DEF StoreType, SameClients, OnlyUp
  <2>4. Marked'
    BY <1>1, <1>2, <2>1, IdleType, MarkedSame
  <2> QED
    BY <1>1, <2>1, <2>2, <2>3, <2>4, IdleType, HandlerStep
<1>3. CASE call[w].pc = "mark"
  <2>1. a \in Listeners /\ cut' = cut
    BY <1>0, <1>3 DEF Crash, CallType
  <2>2. conv' = [conv EXCEPT !.asked = [conv.asked EXCEPT ![a] = 0],
                             !.raced = conv.raced \union {a}]
    BY <1>0, <1>3 DEF Crash, At, Rows
  <2>3. [conv.asked EXCEPT ![a] = 0] \in [Listeners -> 0 .. MaxMessages]
    <3>1. 0 \in 0 .. MaxMessages
      BY <1>0
    <3> QED
      BY <1>0, <3>1
  <2>4. /\ conv' \in Rows /\ conv'.asked = [conv.asked EXCEPT ![a] = 0]
        /\ conv'.stored = conv.stored /\ conv'.there = conv.there
        /\ conv'.read = conv.read /\ conv'.raced = conv.raced \union {a}
        /\ conv'.touched = conv.touched /\ conv'.hidden = conv.hidden
    BY <1>0, <2>1, <2>2, <2>3 DEF Rows
  <2>5. StoreType' /\ SameClients /\ OnlyUp
    BY <1>0, <1>1, <2>1, <2>4 DEF StoreType, SameClients, OnlyUp
  <2>6. Marked'
    <3>1. \A v \in Workers : At(v, "mark")' =>
             /\ v # w /\ At(v, "mark") /\ call'[v].account = call[v].account
             /\ call'[v].msg = call[v].msg
      BY <1>1, IdleType DEF Moves, Kept, At
    <3>2. \A v \in Workers : v # w /\ At(v, "mark") =>
             At(v, "mark")' /\ call'[v].account = call[v].account
      BY <1>1 DEF Moves, Kept, At
    <3>3. \A b \in Listeners : b # a => conv'.asked[b] = conv.asked[b]
      BY <1>0, <2>4
    <3>4. \A b \in Listeners : b # a /\ Marking(b)' = {} => Marking(b) = {}
      BY <3>2 DEF Marking
    <3>5. MarkerFollows'
      BY <1>0, <2>4, <3>3, <3>4 DEF Marked, MarkerFollows
    <3>6. ASSUME NEW v \in Workers, At(v, "mark")', call'[v].account \notin conv'.raced
          PROVE  /\ call'[v].msg = conv'.asked[call'[v].account]
                 /\ \A u \in Workers :
                      At(u, "mark")' /\ call'[u].account = call'[v].account => u = v
      <4>1. /\ At(v, "mark") /\ call'[v].account = call[v].account
            /\ call'[v].msg = call[v].msg
            /\ call[v].account # a /\ call[v].account \notin conv.raced
        BY <2>4, <3>1, <3>6
      <4>2. call[v].account \in Listeners
        BY <1>0, <4>1 DEF CallsOK, CallType, At
      <4>3. /\ call[v].msg = conv.asked[call[v].account]
            /\ \A u \in Workers : At(u, "mark") /\ call[u].account = call[v].account => u = v
        BY <1>0, <4>1 DEF Marked
      <4> QED
        BY <3>1, <3>3, <4>1, <4>2, <4>3
    <3> QED
      BY <3>5, <3>6 DEF Marked
  <2> QED
    BY <1>1, <1>3, <2>1, <2>4, <2>5, <2>6, IdleType, HandlerStep
<1> QED
  BY <1>2, <1>3

-----------------------------------------------------------------------------
(* The conversation is created, a message is stored and delivered.         *)

LEMMA CreateStep == ASSUME IInv, NEW w \in Workers, CreateDirect(w) PROVE IInv'
<1>0. /\ CallsOK /\ StoreType /\ Created /\ Checked /\ Shown /\ Heard /\ Marked
      /\ CallType(call[w], conv.stored) /\ call[w].pc = "create" /\ call[w].msg = 0
      /\ conv \in Rows /\ conv.stored \in Nat /\ 0 \notin Messages
  BY Basics DEF CallsOK, CallType, CreateDirect, At, StoreType
<1>1. /\ call' = [v \in Workers |-> IF v = w THEN Idle
                    ELSE IF At(v, "create") THEN [call[v] EXCEPT !.late = TRUE] ELSE call[v]]
      /\ UNCHANGED <<blocked, client, cut>>
      /\ IF conv.there
         THEN /\ others' = others \union {IF call[w].late THEN "overlapping" ELSE "alone"}
              /\ conv' = conv
         ELSE conv' = [conv EXCEPT !.there = TRUE] /\ others' = others
  BY DEF CreateDirect, ReturnOvertaking
<1>2. \A v \in Workers : [call[v] EXCEPT !.late = TRUE] \in CallRecords
  BY <1>0 DEF CallsOK, CallRecords
<1>3. Moves(w, Idle) /\ \A v \in Workers : call'[v].pc = "create" => call'[v].late
  <2>1. \A v \in Workers : v # w => Kept(v)
    BY <1>0, <1>1, <1>2 DEF CallsOK, Kept, CallRecords
  <2>2. \A v \in Workers : call'[v].pc = "create" => call'[v].late
    BY <1>0, <1>1, IdleType DEF CallsOK, CallRecords, At
  <2> QED
    BY <1>1, <2>1, <2>2 DEF Moves
<1>4. /\ conv' \in Rows /\ conv'.stored = conv.stored /\ conv'.touched = conv.touched
      /\ conv'.hidden = conv.hidden /\ conv'.read = conv.read /\ conv'.asked = conv.asked
      /\ conv'.raced = conv.raced
  BY <1>0, <1>1 DEF Rows
<1>5. others' \subseteq {"overlapping", "alone"} /\ "alone" \notin others'
  BY <1>0, <1>1 DEF Created, OneConversation, StoreType, At
<1>6. StoreType' /\ OnlyUp /\ SameClients
  BY <1>0, <1>1, <1>4, <1>5 DEF StoreType, OnlyUp, SameClients
<1>7. CallsOK'
  <2>1. \A v \in Workers : Kept(v) \/ CallType(call'[v], conv'.stored)
    BY <1>3, IdleType DEF Moves
  <2> QED
    BY <1>0, <1>3, <1>4, <2>1, CallsStep DEF Moves
<1>8. Created'
  BY <1>3, <1>5 DEF Created, OneConversation, At
<1>9. Checked'
  <2>1. \A v \in Workers : Kept(v) \/ call'[v].pc \notin {"find", "create", "save"}
    BY <1>3, IdleType DEF Moves
  <2> QED
    BY <1>0, <1>1, <2>1, CheckedStep
<1>10. \A v \in Workers : GoesOn(v)
  BY <1>0, <1>3 DEF Moves, GoesOn
<1>11. Shown'
  <2>1. \A v \in Workers : Kept(v) \/ call'[v].pc = "idle"
    BY <1>3, IdleType DEF Moves
  <2> QED
    BY <1>0, <1>1, <1>4, <1>6, <1>10, <2>1, ShownStep
<1>12. Heard'
  BY <1>0, <1>1, <1>4, <1>10, HeardStep
<1>13. Marked'
  BY <1>0, <1>3, <1>4, IdleType, MarkedSame
<1> QED
  BY <1>6, <1>7, <1>8, <1>9, <1>11, <1>12, <1>13 DEF IInv

LEMMA SaveStep == ASSUME IInv, NEW w \in Workers, SaveMessage(w) PROVE IInv'
<1>n. PICK n : n = conv.stored + 1
  OBVIOUS
<1> DEFINE r == [Idle EXCEPT !.pc = "touch", !.msg = n]
<1>0. /\ CallsOK /\ StoreType /\ Created /\ Checked /\ Shown /\ Heard /\ Marked
      /\ CallType(call[w], conv.stored) /\ call[w].pc = "save" /\ call[w].msg = 0
      /\ conv \in Rows /\ conv.stored \in Nat /\ conv.stored < MaxMessages
      /\ MaxMessages \in Nat
  BY Basics, ConvType DEF CallsOK, CallType, SaveMessage, At, StoreType
<1>1. /\ conv' = [conv EXCEPT !.stored = n] /\ n \in 0 .. MaxMessages
      /\ UNCHANGED <<others, blocked, client, cut>>
  BY <1>n, <1>0 DEF SaveMessage, Rows
<1>2. /\ conv' \in Rows /\ conv'.stored = n /\ conv'.touched = conv.touched
      /\ conv'.hidden = conv.hidden /\ conv'.read = conv.read /\ conv'.asked = conv.asked
      /\ conv'.raced = conv.raced /\ conv'.there = conv.there
  BY <1>0, <1>1 DEF Rows
<1>3. Moves(w, r)
  BY <1>0, <1>2, SetMoves DEF SaveMessage
<1>4. CallType(r, n) /\ r.pc = "touch" /\ r.msg = n
  <2>1. r.pc = "touch" /\ r.msg = n
    BY DEF Idle
  <2>2. Idle \in CallRecords
    BY IdleType DEF CallType
  <2>3. r \in CallRecords
    BY <1>1, <2>2 DEF CallRecords, PCs
  <2>4. n \in 1 .. n
    BY <1>n, <1>0
  <2> QED
    BY <2>1, <2>3, <2>4 DEF CallType
<1>5. /\ 1 .. n = 1 .. conv.stored \union {n} /\ 1 .. n \subseteq Messages
      /\ \A i \in 1 .. conv.stored : i # n
  BY <1>n, <1>0 DEF Messages
<1>6. StoreType'
  BY <1>0, <1>1, <1>2 DEF StoreType
<1>7. CallsOK'
  <2>1. \A v \in Workers : Kept(v) \/ CallType(call'[v], conv'.stored)
    BY <1>2, <1>3, <1>4 DEF Moves
  <2> QED
    BY <1>n, <1>0, <1>2, <1>3, <2>1, CallsStep DEF Moves
<1>8. Created' /\ Checked'
  <2>1. \A v \in Workers : Kept(v) \/ call'[v].pc = "touch"
    BY <1>3, <1>4 DEF Moves
  <2> QED
    BY <1>0, <1>1, <1>2, <2>1, CreatedStep, CheckedStep
<1>9. \A m \in 1 .. conv.stored : Unfinished(m) => Unfinished(m)'
  <2>1. \A v \in Workers : GoesOn(v)
    BY <1>0, <1>3 DEF Moves, GoesOn, Messages
  <2> QED
    BY <1>1, <1>5, <2>1, UnfinishedStays
<1>10. Unfinished(n)'
  BY <1>3, <1>4 DEF Unfinished, Moves, At
<1>11. Shown'
  <2>1. Reappears'
    BY <1>0, <1>2, <1>5, <1>9, <1>10 DEF Shown, Reappears
  <2>2. ASSUME NEW v \in Workers
        PROVE  /\ At(v, "show")' => UpAt(conv', call'[v].msg)
               /\ At(v, "emit")' => ShownAt(conv', call'[v].msg)
    <3>1. CASE v = w
      BY <1>3, <1>4, <3>1 DEF Moves, At
    <3>2. CASE v # w
      BY <1>0, <1>2, <1>3, <3>2 DEF Moves, Kept, At, Shown, UpAt, ShownAt
    <3> QED
      BY <3>1, <3>2
  <2> QED
    BY <2>1, <2>2 DEF Shown
<1>12. Heard'
  BY <1>0, <1>1, <1>2, <1>5, <1>9, <1>10 DEF Heard, NoGap
<1>13. Marked'
  BY <1>0, <1>2, <1>3, <1>4, MarkedSame
<1> QED
  BY <1>6, <1>7, <1>8, <1>11, <1>12, <1>13 DEF IInv

LEMMA EmitStep == ASSUME IInv, NEW w \in Workers, Emit(w) PROVE IInv'
<1> DEFINE m == call[w].msg
<1>0. /\ CallsOK /\ StoreType /\ Created /\ Checked /\ Shown /\ Heard /\ Marked
      /\ CallType(call[w], conv.stored) /\ call[w].pc = "emit" /\ m \in 1 .. conv.stored
      /\ conv.stored \in Nat /\ 1 .. conv.stored \subseteq Messages
  BY Basics, ConvType DEF CallsOK, CallType, Emit, At
<1>1. /\ client' = [a \in Listeners |->
                      IF client[a].caught
                      THEN [client[a] EXCEPT !.got = client[a].got \union {m}] ELSE client[a]]
      /\ Moves(w, Idle) /\ UNCHANGED <<conv, others, blocked, cut>>
  BY <1>0, ReturnMoves DEF Emit, Deliver
<1>2. \A a \in Listeners : client[a] \in Clients
  BY <1>0 DEF StoreType
<1>3. \A a \in Listeners :
         /\ client'[a] \in Clients /\ client'[a].caught = client[a].caught
         /\ client'[a].got = client[a].got
            \/ (client[a].caught /\ client'[a].got = client[a].got \union {m})
         /\ client[a].caught => m \in client'[a].got
  BY <1>0, <1>1, <1>2 DEF Clients
<1>4. StoreType' /\ OnlyUp
  BY <1>0, <1>1, <1>3 DEF StoreType, OnlyUp
<1>5. \A v \in Workers : Kept(v) \/ (v = w /\ call'[v] = Idle)
  BY <1>1 DEF Moves
<1>6. CallsOK'
  BY <1>0, <1>1, <1>5, IdleType, CallsStep DEF Moves
<1>7. Created' /\ Checked'
  BY <1>0, <1>1, <1>5, IdleType, CreatedStep, CheckedStep
<1>8. Shown'
  <2>1. ShownAt(conv', m)
    BY <1>0, <1>1 DEF Shown, At
  <2>2. \A v \in Workers : GoesOn(v) \/ ShownAt(conv', call[v].msg)
    BY <1>5, <2>1 DEF GoesOn
  <2> QED
    BY <1>0, <1>1, <1>4, <1>5, <2>2, IdleType, ShownStep
<1>9. Heard'
  <2>1. ASSUME NEW a \in Listeners, NEW k \in 1 .. conv.stored, client'[a].caught
        PROVE  k \in client'[a].got \/ Unfinished(k)'
    <3>1. CASE k = m
      BY <1>3, <2>1, <3>1
    <3>2. CASE k # m
      <4>1. k \in client[a].got \/ Unfinished(k)
        BY <1>0, <1>3, <2>1 DEF Heard, NoGap
      <4>2. Unfinished(k) => Unfinished(k)'
        BY <1>1, <1>5, <3>2 DEF Unfinished, Kept, At
      <4> QED
        BY <1>3, <4>1, <4>2
    <3> QED
      BY <3>1, <3>2
  <2>2. NoGap'
    BY <1>1, <2>1 DEF NoGap
  <2>3. \A a \in Listeners : client'[a].got \subseteq 1 .. conv'.stored
    BY <1>0, <1>1, <1>3 DEF Heard
  <2> QED
    BY <2>2, <2>3 DEF Heard
<1>10. Marked'
  BY <1>0, <1>1, IdleType, MarkedSame
<1> QED
  BY <1>4, <1>6, <1>7, <1>8, <1>9, <1>10 DEF IInv

-----------------------------------------------------------------------------
(* What accounts do outside these handlers: hide, the rooms, blocks.       *)

LEMMA OutsideStep ==
    ASSUME IInv, call' = [v \in Workers |-> call'[v]],
           \A v \in Workers : Kept(v) \/ (call[v].pc = "join" /\ call'[v] = Idle),
           StoreType', OnlyUp, Checked', UNCHANGED <<others, cut>>,
           conv'.stored = conv.stored, conv'.there = conv.there,
           conv'.read = conv.read /\ conv'.asked = conv.asked /\ conv'.raced = conv.raced,
           \A a \in Listeners : \/ client'[a] = client[a]
                                \/ client'[a].got = 1 .. conv.stored
                                \/ ~client'[a].caught /\ client'[a].got \subseteq 1 .. conv.stored
                                \/ client'[a].caught = client[a].caught /\ client'[a].got = client[a].got
    PROVE  IInv'
<1>0. /\ CallsOK /\ StoreType /\ Created /\ Checked /\ Shown /\ Heard /\ Marked
      /\ conv.stored \in Nat /\ 0 \notin Messages
  BY Basics
<1>1. \A v \in Workers : Kept(v) \/ (call[v].pc = "join" /\ call'[v] = Idle /\ call[v].msg = 0)
  BY <1>0 DEF CallsOK, CallType
<1>2. \A v \in Workers : GoesOn(v)
  BY <1>0, <1>1 DEF GoesOn
<1>3. CallsOK'
  BY <1>0, IdleType, CallsStep
<1>4. Created'
  BY <1>0, IdleType, CreatedStep
<1>5. Shown'
  BY <1>0, <1>1, <1>2, IdleType, ShownStep
<1>6. Heard'
  BY <1>0, <1>2, HeardStep
<1>7. Marked'
  BY <1>0, IdleType, MarkedStep
<1> QED
  BY <1>3, <1>4, <1>5, <1>6, <1>7 DEF IInv

LEMMA SameCalls ==
    ASSUME IInv, call' = call
    PROVE  call' = [v \in Workers |-> call'[v]] /\ \A v \in Workers : Kept(v)
BY DEF IInv, CallsOK, Kept

LEMMA RoomSteps ==
    ASSUME IInv, NEW a \in Listeners,
           Disconnect(a) \/ JoinRoom(a) \/ LeaveRoom(a) \/ ReadNewestPage(a)
    PROVE  IInv'
<1>0. /\ CallsOK /\ StoreType /\ Checked /\ client[a] \in Clients
      /\ 1 .. conv.stored \subseteq Messages
  BY Basics, ConvType DEF StoreType
<1>1. UNCHANGED <<conv, others, blocked, cut>>
  BY DEF Disconnect, JoinRoom, LeaveRoom, ReadNewestPage
<1>2. PICK c \in Clients :
         /\ client' = [client EXCEPT ![a] = c]
         /\ \/ c.got = 1 .. conv.stored
            \/ ~c.caught /\ c.got = {}
            \/ c.caught = client[a].caught /\ c.got = client[a].got
  <2>1. CASE Disconnect(a) \/ LeaveRoom(a)
    BY <2>1 DEF Disconnect, LeaveRoom, Outside, Clients
  <2>2. CASE JoinRoom(a)
    <3>1. client' = [client EXCEPT ![a] = [client[a] EXCEPT !.joined = TRUE]]
      BY <1>0, <2>2 DEF JoinRoom, StoreType
    <3>2. /\ [client[a] EXCEPT !.joined = TRUE] \in Clients
          /\ [client[a] EXCEPT !.joined = TRUE].caught = client[a].caught
          /\ [client[a] EXCEPT !.joined = TRUE].got = client[a].got
      BY <1>0 DEF Clients
    <3> QED
      BY <3>1, <3>2
  <2>3. CASE ReadNewestPage(a)
    <3> DEFINE c == [client[a] EXCEPT !.caught = TRUE, !.got = 1 .. conv.stored]
    <3>1. client' = [client EXCEPT ![a] = c]
      BY <1>0, <2>3 DEF ReadNewestPage, StoreType
    <3>2. c \in Clients /\ c.got = 1 .. conv.stored
      BY <1>0 DEF Clients
    <3> QED
      BY <3>1, <3>2
  <2> QED
    BY <2>1, <2>2, <2>3
<1>3. StoreType' /\ OnlyUp
  BY <1>0, <1>1, <1>2 DEF StoreType, OnlyUp
<1>4. client'[a] = c /\ \A b \in Listeners \ {a} : client'[b] = client[b]
  BY <1>0, <1>2 DEF StoreType
<1>5. /\ call' = [v \in Workers |-> call'[v]]
      /\ \A v \in Workers : Kept(v) \/ (call[v].pc = "join" /\ call'[v] = Idle)
  <2>1. CASE Disconnect(a)
    BY <1>0, <2>1 DEF Disconnect, At, CallsOK, Kept
  <2>2. CASE call' = call
    BY <2>2, SameCalls
  <2> QED
    BY <2>1, <2>2 DEF JoinRoom, LeaveRoom, ReadNewestPage
<1>6. Checked'
  BY <1>0, <1>1, <1>5, IdleType, CheckedStep
<1> QED
  BY <1>1, <1>2, <1>3, <1>4, <1>5, <1>6, OutsideStep

LEMMA HideStep == ASSUME IInv, NEW a \in Accounts, Hide(a) PROVE IInv'
<1>0. /\ StoreType /\ Checked /\ conv \in Rows /\ conv.stored \in 0 .. NotHidden
      /\ conv.hidden \in [Accounts -> 0 .. NotHidden]
  BY Basics, ConvType DEF StoreType, Rows
<1>1. /\ conv' = [conv EXCEPT !.hidden = [conv.hidden EXCEPT ![a] = conv.stored]]
      /\ UNCHANGED <<others, blocked, client, call, cut>>
  BY <1>0 DEF Hide, Rows
<1>2. [conv.hidden EXCEPT ![a] = conv.stored] \in [Accounts -> 0 .. NotHidden]
  BY <1>0
<1>3. /\ conv' \in Rows /\ conv'.hidden = [conv.hidden EXCEPT ![a] = conv.stored]
      /\ conv'.stored = conv.stored /\ conv'.there = conv.there
      /\ conv'.read = conv.read /\ conv'.asked = conv.asked /\ conv'.raced = conv.raced
      /\ conv'.touched = conv.touched
  BY <1>0, <1>1, <1>2 DEF Rows
<1>4. StoreType' /\ OnlyUp /\ Checked'
  BY <1>0, <1>1, <1>3 DEF StoreType, OnlyUp, Checked
<1> QED
  BY <1>1, <1>3, <1>4, SameCalls, OutsideStep

LEMMA BlockStep == ASSUME IInv, Block PROVE IInv'
<1> DEFINE S == {"find", "create", "save"}
<1>0. CallsOK /\ StoreType /\ Checked
  BY Basics
<1>1. /\ blocked' = ~blocked /\ UNCHANGED <<conv, others, client, cut>>
      /\ call' = [v \in Workers |-> IF ~blocked /\ call[v].pc \in S
                                    THEN [call[v] EXCEPT !.late = TRUE] ELSE call[v]]
  BY DEF Block
<1>2. \A v \in Workers : Kept(v)
  BY <1>0, <1>1 DEF CallsOK, CallRecords, Kept
<1>3. StoreType' /\ OnlyUp
  BY <1>0, <1>1 DEF StoreType, OnlyUp
<1>4. Checked'
  <2>1. ASSUME NEW v \in Workers, call'[v].pc \in S, ~blocked PROVE call'[v].late
    BY <1>0, <1>1, <1>2, <2>1 DEF CallsOK, CallRecords, Kept
  <2> QED
    BY <1>0, <1>1, <2>1 DEF Checked
<1> QED
  BY <1>1, <1>2, <1>3, <1>4, OutsideStep

LEMMA StutterStep == ASSUME IInv, UNCHANGED vars PROVE IInv'
<1>1. UNCHANGED <<conv, others, blocked, client, call, cut>>
  BY DEF vars
<1>2. StoreType' /\ OnlyUp /\ Checked'
  BY <1>1, Basics DEF StoreType, OnlyUp, Checked
<1> QED
  BY <1>1, <1>2, SameCalls, OutsideStep

LEMMA InitIInv == Init => IInv
<1> SUFFICES ASSUME Init PROVE IInv
  OBVIOUS
<1>1. CallsOK /\ \A w \in Workers : call[w].pc = "idle"
  BY IdleType DEF Init, CallsOK, CallType
<1>2. NoRow \in Rows /\ Outside \in Clients
  BY BoundsAssumption DEF NoRow, Rows, NotHidden, Outside, Clients
<1>3. StoreType
  BY <1>2 DEF Init, StoreType
<1>4. Created /\ Checked
  BY <1>1 DEF Init, Created, OneConversation, Checked, NoRow, At
<1>5. conv.stored = 0 /\ 1 .. conv.stored = {}
  BY DEF Init, NoRow
<1>6. Shown /\ Heard
  BY <1>1, <1>5 DEF Init, Shown, Reappears, Heard, NoGap, Outside, At
<1>7. Marked
  BY <1>1 DEF Init, Marked, MarkerFollows, NoRow, At
<1> QED
  BY <1>1, <1>3, <1>4, <1>6, <1>7 DEF IInv

-----------------------------------------------------------------------------
(* The theorems.                                                           *)

LEMMA NextStep == ASSUME IInv, [Next]_vars PROVE IInv'
<1>1. ASSUME NEW w \in Workers, Begin(w) PROVE IInv'
  BY <1>1, QuietSteps, MarkSteps DEF Begin
<1>2. ASSUME NEW w \in Workers, Step(w) PROVE IInv'
  BY <1>2, QuietSteps, ConvSteps, CreateStep, MarkSteps, SaveStep, EmitStep DEF Step
<1>3. ASSUME NEW w \in Workers, Crash(w) PROVE IInv'
  BY <1>3, CrashStep
<1>4. CASE UNCHANGED vars
  BY <1>4, StutterStep
<1> QED
  BY <1>1, <1>2, <1>3, <1>4, HideStep, RoomSteps, BlockStep DEF Next

\* The inductive invariant holds in every reachable state.
THEOREM Invariance == Spec => []IInv
<1>1. IInv /\ [Next]_vars => IInv'
  BY NextStep
<1> QED
  BY <1>1, InitIInv, PTL DEF Spec

\* Every variable keeps its type, for every bound and number of handlers.
THEOREM TypeCorrect == Spec => []TypeOK
<1>1. IInv => TypeOK
  BY DEF IInv, CallsOK, StoreType, TypeOK
<1> QED
  BY <1>1, Invariance, PTL

\* Only get-or-create calls that overlap create two conversations.
THEOREM NeverSplit == Spec => []OneConversation
<1>1. IInv => OneConversation
  BY DEF IInv, Created
<1> QED
  BY <1>1, Invariance, PTL

\* A message that has been sent brings its conversation back to everyone.
THEOREM ComesBack == Spec => []Reappears
<1>1. IInv => Reappears
  BY DEF IInv, Shown
<1> QED
  BY <1>1, Invariance, PTL

\* Joining the room before reading the page leaves no gap.
THEOREM NothingMissed == Spec => []NoGap
<1>1. IInv => NoGap
  BY DEF IInv, Heard
<1> QED
  BY <1>1, Invariance, PTL

\* Calls that do not overlap leave the marker where the client put it last.
THEOREM MarkerRight == Spec => []MarkerFollows
<1>1. IInv => MarkerFollows
  BY DEF IInv, Marked
<1> QED
  BY <1>1, Invariance, PTL

\* Only a handler that had begun before the block makes contact across it.
THEOREM BlockRespected == Spec => NoContactAcrossBlock
<1> DEFINE Contact == conv'.stored # conv.stored \/ conv'.there # conv.there \/ others' # others
           Overtaken == \E w \in Workers : call[w].late /\ call'[w] # call[w]
<1>1. ASSUME IInv, [Next]_vars, blocked, Contact PROVE Overtaken
  <2>1. CallsOK /\ Checked /\ conv \in Rows
    BY <1>1, Basics DEF StoreType
  <2>2. PICK w \in Workers : CreateDirect(w) \/ SaveMessage(w)
    <3>1. ~ UNCHANGED <<conv, others>>
      BY <1>1
    <3>2. ASSUME NEW w \in Workers,
                 \/ FindDirect(w) \/ RejoinRooms(w) \/ Emit(w) \/ StartSendMessage(w)
                 \/ \E a \in Accounts : StartCreateOrGet(w, a)
                 \/ \E a \in Listeners : StartRejoinRooms(w, a)
          PROVE  UNCHANGED <<conv, others>>
      BY <3>2 DEF FindDirect, RejoinRooms, Emit, StartSendMessage, StartCreateOrGet,
                  StartRejoinRooms, Start
    <3>3. ASSUME NEW w \in Workers,
                 \/ Unhide(w) \/ UpdateTimestamp(w) \/ ResetHiddenAt(w) \/ MarkAsRead(w)
                 \/ Crash(w) \/ \E a \in Listeners, m \in Messages : StartMarkRead(w, a, m)
          PROVE  ~Contact
      BY <2>1, <3>3 DEF Unhide, UpdateTimestamp, ResetHiddenAt, MarkAsRead, Crash,
                        StartMarkRead, Rows
    <3>4. ASSUME \/ \E a \in Accounts : Hide(a)
                 \/ \E a \in Listeners :
                      Disconnect(a) \/ JoinRoom(a) \/ LeaveRoom(a) \/ ReadNewestPage(a)
                 \/ Block \/ UNCHANGED vars
          PROVE  ~Contact
      BY <2>1, <3>4 DEF Hide, Disconnect, JoinRoom, LeaveRoom, ReadNewestPage, Block, vars, Rows
    <3> QED
      BY <1>1, <3>1, <3>2, <3>3, <3>4 DEF Next, Begin, Step
  <2>3. call[w].late
    BY <1>1, <2>1, <2>2 DEF Checked, CreateDirect, SaveMessage, At
  <2>4. call'[w].pc # call[w].pc
    <3>1. CASE CreateDirect(w)
      <4>1. call[w].pc = "create" /\ call'[w] = Idle
        BY <2>2, <3>1 DEF CreateDirect, ReturnOvertaking, At
      <4> QED
        BY <4>1, IdleType
    <3>2. CASE SaveMessage(w)
      <4>1. /\ call[w].pc = "save"
            /\ call' = [call EXCEPT ![w] = [Idle EXCEPT !.pc = "touch", !.msg = conv'.stored]]
        BY <3>2 DEF SaveMessage, At
      <4>2. call'[w].pc = "touch"
        BY <2>1, <2>2, <4>1 DEF CallsOK, Idle
      <4> QED
        BY <4>1, <4>2
    <3> QED
      BY <2>2, <3>1, <3>2
  <2> QED
    BY <2>2, <2>3, <2>4
<1>2. IInv /\ [Next]_vars => [blocked /\ Contact => Overtaken]_vars
  BY <1>1
<1> QED
  BY <1>2, Invariance, PTL DEF Spec, NoContactAcrossBlock
=============================================================================
