-------------------------- MODULE RegistrationProofs --------------------------
(***************************************************************************)
(* Nobody else's password becomes the password of an account, the limits of *)
(* codes hold, and who is signed in keeps the account: for every number of *)
(* accounts, codes, attempts and handlers, wherever handlers are cut off.  *)
(***************************************************************************)
EXTENDS Registration, FiniteSetTheorems, TLAPS

-----------------------------------------------------------------------------
(* The inductive invariant.                                                *)

\* The rows, and that nothing mentions an account or a code before it is made.
RowsOK ==
    /\ account \in Rows \union {NoAccount}
    /\ otp \in Otps \union {NoOtp}
    /\ issued \in [account : 0 .. MaxAccounts, code : 0 .. MaxCodes]
    /\ account.id <= issued.account /\ account.password <= issued.code
    /\ otp.code <= issued.code
    /\ confirmed \subseteq 1 .. issued.code

\* Until the address is verified the password is the one whose code is in the
\* OTP row, and that code has not been entered.
AccountOK ==
    /\ Exists /\ ~Verified =>
         /\ otp # NoOtp
         /\ account.password = otp.code /\ otp.code \notin confirmed
    /\ "google" \in account.providers => Verified
    /\ account.signedIn => Verified
    /\ PasswordConfirmed

\* What a handler holds of an account that is still there.
Named == {"overwrite", "findOtp", "count", "verify", "findRecord", "upsert", "issue"}
Verifying == {"findOtp", "count", "verify"}
Coded == Verifying \union {"findRecord", "upsert"}
HolderOK(r) ==
    /\ r \in CallRecords /\ r.id <= issued.account /\ r.code <= issued.code
    /\ r.pc \in Named \/ r.verified => r.id # 0
    /\ r.pc \in Verifying => r.code # 0
    /\ r.pc \in Coded /\ r.id = account.id => otp # NoOtp
    /\ (r.pc = "issue" \/ r.verified) /\ r.id = account.id => Verified

\* What a handler knows while no other has overtaken it.
FreshOK(r) ==
    /\ r.pc \in {"overwrite", "findRecord"} \union Verifying => r.id = account.id
    /\ r.pc \in Verifying => ~Verified
    /\ r.pc = "verify" => otp.code = r.code
    /\ r.pc = "overwrite" /\ Verified => "password" \notin account.providers

CallOK(r) == HolderOK(r) /\ (~r.late => FreshOK(r))
CallsOK == call \in [Workers -> CallRecords] /\ \A w \in Workers : CallOK(call[w])

IInv == RowsOK /\ AccountOK /\ CallsOK

-----------------------------------------------------------------------------
(* A handler that a step leaves where it is.                               *)

Kept(v) ==
    /\ call'[v] \in CallRecords
    /\ call'[v].pc = call[v].pc /\ call'[v].id = call[v].id
    /\ call'[v].code = call[v].code /\ call'[v].verified = call[v].verified
    /\ call[v].late => call'[v].late

LEMMA RowFacts ==
    ASSUME RowsOK
    PROVE  /\ account.id \in 0 .. MaxAccounts /\ account.id <= issued.account
           /\ Exists <=> account.id # 0
           /\ account.verified \in BOOLEAN /\ (Verified => account.id # 0)
           /\ issued.account \in 0 .. MaxAccounts /\ issued.code \in 0 .. MaxCodes
           /\ otp.code \in 0 .. MaxCodes /\ otp.attempts \in 0 .. MaxAttempts
           /\ (otp # NoOtp => otp.code # 0)
<1>1. CASE account = NoAccount
  BY <1>1, BoundsAssumption DEF RowsOK, NoAccount, Otps, NoOtp, Exists, Verified, Codes
<1>2. CASE account \in Rows /\ account # NoAccount
  BY <1>2, BoundsAssumption DEF RowsOK, Rows, AccountIds, Otps, NoOtp, Exists, Verified, Codes
<1> QED
  BY <1>1, <1>2 DEF RowsOK

LEMMA IdleOK ==
    ASSUME RowsOK, RowsOK' PROVE Idle \in CallRecords /\ CallOK(Idle) /\ CallOK(Idle)'
BY BoundsAssumption DEF CallOK, HolderOK, FreshOK, Idle, CallRecords, PCs, Named, Coded, Verifying, RowsOK

\* Numbers are never used twice, and an account that stays, stays verified.
GrowsOK ==
    /\ issued'.account >= issued.account /\ issued'.code >= issued.code
    /\ \/ /\ account'.id = account.id
          /\ Verified => Verified'
          /\ otp # NoOtp => (otp # NoOtp)'
       \/ account'.id = 0
       \/ account'.id > issued.account

\* Nothing has changed of what a handler has found.
SameOK ==
    /\ account'.id = account.id /\ account'.verified = account.verified
    /\ account'.providers = account.providers
    /\ otp'.code = otp.code

LEMMA HolderStays ==
    ASSUME RowsOK, RowsOK', GrowsOK, NEW v \in Workers, HolderOK(call[v]), Kept(v)
    PROVE  HolderOK(call[v])'
<1> DEFINE r == call[v]
<1>1. /\ r.id \in Nat /\ r.code \in Nat
      /\ issued.account \in Nat /\ issued.code \in Nat
      /\ issued'.account \in Nat /\ issued'.code \in Nat
  BY BoundsAssumption DEF HolderOK, CallRecords, RowsOK
<1>2. r.id <= issued'.account /\ r.code <= issued'.code
  BY <1>1 DEF HolderOK, GrowsOK
<1>3. account'.id = r.id /\ r.id # 0 => account'.id = account.id
  BY <1>1 DEF HolderOK, GrowsOK
<1>4. r.pc \in Coded => r.pc \in Named
  BY DEF Coded, Verifying, Named
<1>5. r.pc \in Coded /\ r.id = account'.id => (otp # NoOtp)'
  <2>1. SUFFICES ASSUME r.pc \in Coded, r.id = account'.id PROVE (otp # NoOtp)'
    OBVIOUS
  <2>2. r.id # 0 /\ account'.id = account.id
    BY <1>3, <1>4, <2>1 DEF HolderOK
  <2> QED
    BY <1>1, <2>1, <2>2 DEF HolderOK, GrowsOK
<1>6. (r.pc = "issue" \/ r.verified) /\ r.id = account'.id => Verified'
  <2>1. SUFFICES ASSUME r.pc = "issue" \/ r.verified, r.id = account'.id PROVE Verified'
    OBVIOUS
  <2>2. r.id # 0 /\ account'.id = account.id
    BY <1>3, <2>1 DEF HolderOK, Named
  <2> QED
    BY <1>1, <2>1, <2>2 DEF HolderOK, GrowsOK
<1> QED
  BY <1>2, <1>5, <1>6 DEF HolderOK, Kept

LEMMA FreshStays ==
    ASSUME RowsOK, SameOK, NEW v \in Workers, FreshOK(call[v]), Kept(v)
    PROVE  FreshOK(call[v])'
BY DEF FreshOK, SameOK, Kept, Verified, Locked

\* A step of handler w, or of none when all are kept: the others are overtaken,
\* or nothing they have found has changed.
LEMMA CallsStep ==
    ASSUME RowsOK, RowsOK', CallsOK, GrowsOK,
           call' \in [Workers -> CallRecords],
           \A v \in Workers :
             \/ CallOK(call[v])'
             \/ Kept(v) /\ (call'[v].late \/ SameOK)
    PROVE  CallsOK'
<1>1. ASSUME NEW v \in Workers PROVE CallOK(call[v])'
  <2>1. CASE Kept(v) /\ (call'[v].late \/ SameOK)
    <3>1. HolderOK(call[v])'
      BY <2>1, HolderStays DEF CallsOK, CallOK
    <3>2. ~call'[v].late => FreshOK(call[v])'
      BY <2>1, FreshStays DEF CallsOK, CallOK, Kept
    <3> QED
      BY <3>1, <3>2 DEF CallOK
  <2> QED
    BY <1>1, <2>1
<1> QED
  BY <1>1 DEF CallsOK

LEMMA SetKeeps ==
    ASSUME CallsOK, NEW w \in Workers, NEW r \in CallRecords, call' = [call EXCEPT ![w] = r]
    PROVE  /\ call' \in [Workers -> CallRecords] /\ call'[w] = r
           /\ \A v \in Workers \ {w} : Kept(v)
BY DEF CallsOK, Kept

LEMMA OvertakeKeeps ==
    ASSUME CallsOK, NEW w \in Workers, NEW pc \in PCs, Overtake(w, pc), RowsOK, RowsOK'
    PROVE  /\ call' \in [Workers -> CallRecords]
           /\ call'[w] = IF pc = "idle" THEN Idle ELSE [call[w] EXCEPT !.pc = pc]
           /\ \A v \in Workers \ {w} : CallOK(call[v])' \/ (Kept(v) /\ call'[v].late)
<1>1. call \in [Workers -> CallRecords] /\ Idle \in CallRecords
  BY IdleOK DEF CallsOK
<1>2. ASSUME NEW v \in Workers \ {w}
      PROVE  /\ call'[v] \in CallRecords
             /\ CallOK(call[v])' \/ (Kept(v) /\ call'[v].late)
  <2>1. CASE call[v] = Idle
    <3>1. call'[v] = Idle
      BY <2>1 DEF Overtake
    <3>2. CallOK(Idle)'
      BY IdleOK
    <3>3. CallOK(call[v])'
      BY <3>1, <3>2 DEF CallOK, HolderOK, FreshOK, Verified, Locked
    <3> QED
      BY <1>1, <3>1, <3>3
  <2>2. CASE call[v] # Idle
    <3>1. call'[v] = [call[v] EXCEPT !.late = TRUE]
      BY <2>2 DEF Overtake
    <3> QED
      BY <1>1, <3>1 DEF CallRecords, Kept
  <2> QED
    BY <2>1, <2>2
<1>3. call'[w] = IF pc = "idle" THEN Idle ELSE [call[w] EXCEPT !.pc = pc]
  BY DEF Overtake
<1>4. call'[w] \in CallRecords
  BY <1>1, <1>3 DEF CallRecords
<1>5. call' = [v \in Workers |-> call'[v]]
  BY DEF Overtake
<1> QED
  BY <1>2, <1>3, <1>4, <1>5

-----------------------------------------------------------------------------
(* Steps that only read.                                                   *)

LEMMA QuietStep ==
    ASSUME IInv, NEW w \in Workers, NEW r \in CallRecords, call' = [call EXCEPT ![w] = r],
           UNCHANGED <<account, otp, issued, confirmed>>, CallOK(r)
    PROVE  IInv'
<1>1. RowsOK' /\ AccountOK'
  BY DEF IInv, RowsOK, AccountOK, PasswordConfirmed, CanLogIn, Exists, Verified
<1>2. GrowsOK /\ SameOK
  BY BoundsAssumption DEF IInv, RowsOK, GrowsOK, SameOK, Verified
<1>3. /\ call' \in [Workers -> CallRecords] /\ call'[w] = r
      /\ \A v \in Workers \ {w} : Kept(v)
  BY SetKeeps DEF IInv
<1>4. CallOK(call[w])'
  BY <1>3 DEF CallOK, HolderOK, FreshOK, Verified, Locked
<1>5. CallsOK'
  BY <1>1, <1>2, <1>3, <1>4, CallsStep DEF IInv
<1> QED
  BY <1>1, <1>5 DEF IInv

LEMMA ReturnStep ==
    ASSUME IInv, NEW w \in Workers, Return(w), UNCHANGED <<account, otp, issued, confirmed>>
    PROVE  IInv'
<1>1. RowsOK'
  BY DEF IInv, RowsOK
<1>2. Idle \in CallRecords /\ CallOK(Idle)
  BY <1>1, IdleOK DEF IInv
<1> QED
  BY <1>2, QuietStep DEF Return

LEMMA NewRecord ==
    /\ 0 \in 0 .. MaxAccounts /\ 0 \in 0 .. MaxCodes
    /\ \A pc \in PCs, i \in 0 .. MaxAccounts :
         [Idle EXCEPT !.pc = pc, !.id = i] \in CallRecords
    /\ \A pc \in PCs : [Idle EXCEPT !.pc = pc] \in CallRecords
    /\ \A pc \in PCs, i \in 0 .. MaxAccounts, code \in 0 .. MaxCodes :
         [Idle EXCEPT !.pc = pc, !.id = i, !.code = code] \in CallRecords
<1>1. 0 \in 0 .. MaxAccounts /\ 0 \in 0 .. MaxCodes
  BY BoundsAssumption
<1> QED
  BY <1>1 DEF Idle, CallRecords

LEMMA StartStep ==
    ASSUME IInv, NEW w \in Workers, NEW op, NEW r \in CallRecords, Start(w, op, r), CallOK(r)
    PROVE  IInv'
BY QuietStep DEF Start

LEMMA GotoStep ==
    ASSUME IInv, NEW w \in Workers, NEW pc \in PCs, Goto(w, pc),
           UNCHANGED <<account, otp, issued, confirmed>>,
           [call[w] EXCEPT !.pc = pc] \in CallRecords => CallOK([call[w] EXCEPT !.pc = pc])
    PROVE  IInv'
<1>1. [call[w] EXCEPT !.pc = pc] \in CallRecords
  BY DEF IInv, CallsOK, CallRecords
<1>2. call' = [call EXCEPT ![w] = [call[w] EXCEPT !.pc = pc]]
  BY DEF Goto
<1> QED
  BY <1>1, <1>2, QuietStep

LEMMA StartSteps ==
    ASSUME IInv, NEW w \in Workers, Begin(w) PROVE IInv'
<1>1. /\ RowsOK /\ AccountOK
      /\ account.id \in 0 .. MaxAccounts /\ account.id <= issued.account
      /\ Exists <=> account.id # 0
      /\ Verified => account.id # 0
      /\ issued.account \in 0 .. MaxAccounts /\ issued.code \in 0 .. MaxCodes
  BY RowFacts DEF IInv
<1>2. CASE StartRegister(w)
  <2> DEFINE r == [Idle EXCEPT !.pc = IF Exists THEN "overwrite" ELSE "create", !.id = account.id]
  <2>1. r \in CallRecords
    BY <1>1, NewRecord DEF PCs
  <2>2. CallOK(r)
    BY <1>1, <1>2, <2>1 DEF StartRegister, CallOK, HolderOK, FreshOK, Idle, Named, Coded, Verifying,
       AccountIds, RowsOK
  <2> QED
    BY <1>2, <2>1, <2>2, StartStep DEF StartRegister
<1>3. CASE StartResend(w)
  <2> DEFINE r == [Idle EXCEPT !.pc = "findRecord", !.id = account.id]
  <2>1. r \in CallRecords
    BY <1>1, NewRecord DEF PCs
  <2>2. CallOK(r)
    BY <1>1, <1>3, <2>1 DEF AccountOK, StartResend, CallOK, HolderOK, FreshOK, Idle, Named, Coded, Verifying,
       AccountIds, RowsOK
  <2> QED
    BY <1>3, <2>1, <2>2, StartStep DEF StartResend
<1>4. CASE StartGoogle(w)
  <2> DEFINE r == IF "google" \in account.providers
                  THEN [Idle EXCEPT !.pc = "issue", !.id = account.id]
                  ELSE [Idle EXCEPT !.pc = "googleFind"]
  <2>1. r \in CallRecords
    BY <1>1, NewRecord DEF PCs
  <2>2. "google" \in account.providers => Verified
    BY <1>1 DEF AccountOK
  <2>3. CallOK(r)
    BY <1>1, <2>1, <2>2 DEF CallOK, HolderOK, FreshOK, Idle, Named, Coded, Verifying, AccountIds, RowsOK
  <2> QED
    BY <1>4, <2>1, <2>3, StartStep DEF StartGoogle
<1>5. ASSUME NEW code \in 1 .. issued.code, StartVerify(w, code) PROVE IInv'
  <2> DEFINE r == [Idle EXCEPT !.pc = "findOtp", !.id = account.id, !.code = code]
  <2>0. code \in 0 .. MaxCodes
    BY <1>1, BoundsAssumption
  <2>1. r \in CallRecords
    BY <1>1, <2>0, NewRecord DEF PCs
  <2>2. otp # NoOtp
    BY <1>1, <1>5 DEF StartVerify, AccountOK
  <2>3. CallOK(r)
    BY <1>1, <1>5, <2>1, <2>2 DEF StartVerify, CallOK, HolderOK, FreshOK, Idle, Named, Coded, Verifying,
       AccountIds, RowsOK
  <2> QED
    BY <1>5, <2>1, <2>3, StartStep DEF StartVerify
<1> QED
  BY <1>2, <1>3, <1>4, <1>5 DEF Begin

LEMMA ReadSteps ==
    ASSUME IInv, NEW w \in Workers,
           VerifyFindOtp(w) \/ ResendFindRecord(w) \/ GoogleFind(w) \/ Crash(w)
    PROVE  IInv'
<1>1. RowsOK /\ AccountOK /\ call[w] \in CallRecords /\ CallOK(call[w])
  BY DEF IInv, CallsOK
<1>2. CASE VerifyFindOtp(w)
  <2>1. CASE account.id # call[w].id \/ otp.over \/ Locked
    BY <1>2, <2>1, ReturnStep DEF VerifyFindOtp
  <2>2. CASE ~(account.id # call[w].id \/ otp.over \/ Locked)
    <3> DEFINE pc == IF otp.code = call[w].code THEN "verify" ELSE "count"
               r == [call[w] EXCEPT !.pc = pc, !.code = otp.code]
    <3>1. call' = [call EXCEPT ![w] = r]
      BY <1>2, <2>2 DEF VerifyFindOtp
    <3>2. /\ otp.code \in 0 .. MaxCodes /\ otp.code # 0 /\ otp.code <= issued.code
      BY <1>1, <1>2, <2>2, RowFacts
      DEF RowsOK, VerifyFindOtp, At, CallOK, HolderOK, Coded, Verifying
    <3>3. r \in CallRecords /\ r.pc = pc /\ r.id = call[w].id /\ r.code = otp.code
          /\ r.verified = call[w].verified /\ r.late = call[w].late
      BY <1>1, <3>2 DEF CallRecords, PCs
    <3>4. CallOK(r)
      BY <1>1, <1>2, <2>2, <3>2, <3>3
      DEF VerifyFindOtp, At, CallOK, HolderOK, FreshOK, Named, Coded, Verifying
    <3> QED
      BY <1>2, <3>1, <3>3, <3>4, QuietStep DEF VerifyFindOtp
  <2> QED
    BY <2>1, <2>2
<1>3. CASE ResendFindRecord(w)
  <2>1. CASE account.id = call[w].id /\ otp.cooling /\ ~Locked
    BY <1>3, <2>1, ReturnStep DEF ResendFindRecord
  <2>2. CASE ~(account.id = call[w].id /\ otp.cooling /\ ~Locked)
    <3>1. [call[w] EXCEPT !.pc = "upsert"] \in CallRecords
            => CallOK([call[w] EXCEPT !.pc = "upsert"])
      BY <1>1, <1>3, <2>2
      DEF ResendFindRecord, At, CallOK, HolderOK, FreshOK, Named, Coded, Verifying, CallRecords
    <3> QED
      BY <1>3, <2>2, <3>1, GotoStep DEF ResendFindRecord, PCs
  <2> QED
    BY <2>1, <2>2
<1>4. CASE GoogleFind(w)
  <2> DEFINE r == [call[w] EXCEPT !.pc = "googleTx", !.id = account.id, !.verified = Verified]
  <2>1. /\ account.id \in 0 .. MaxAccounts /\ account.id <= issued.account
        /\ Verified \in BOOLEAN /\ (Verified => account.id # 0)
    BY <1>1, RowFacts DEF Verified
  <2>2. r \in CallRecords
    BY <1>1, <2>1 DEF CallRecords, PCs
  <2>3. CallOK(r)
    BY <1>1, <2>1, <2>2 DEF CallOK, HolderOK, FreshOK, Named, Coded, Verifying, CallRecords
  <2> QED
    BY <1>4, <2>2, <2>3, QuietStep DEF GoogleFind
<1>5. CASE Crash(w)
  BY <1>5, ReturnStep DEF Crash
<1> QED
  BY <1>2, <1>3, <1>4, <1>5

-----------------------------------------------------------------------------
(* Steps that overtake the other handlers.                                 *)

LEMMA OvertakeStep ==
    ASSUME IInv, RowsOK', AccountOK', GrowsOK, NEW w \in Workers, NEW pc \in PCs,
           Overtake(w, pc), pc # "idle" => CallOK(call[w])'
    PROVE  IInv'
<1>1. /\ call' \in [Workers -> CallRecords]
      /\ call'[w] = IF pc = "idle" THEN Idle ELSE [call[w] EXCEPT !.pc = pc]
      /\ \A v \in Workers \ {w} : CallOK(call[v])' \/ (Kept(v) /\ call'[v].late)
  BY OvertakeKeeps DEF IInv
<1>2. CallOK(call[w])'
  <2>1. CASE pc = "idle"
    <3>1. CallOK(Idle)'
      BY IdleOK DEF IInv
    <3> QED
      BY <1>1, <2>1, <3>1 DEF CallOK, HolderOK, FreshOK, Verified, Locked
  <2> QED
    BY <2>1
<1> QED
  BY <1>1, <1>2, CallsStep DEF IInv

\* Handler w returns, and nothing has changed of what the others have found.
LEMMA SameCallsStep ==
    ASSUME IInv, RowsOK', AccountOK', GrowsOK, SameOK, NEW w \in Workers,
           call' = [call EXCEPT ![w] = Idle]
    PROVE  IInv'
<1>1. Idle \in CallRecords /\ CallOK(Idle)'
  BY IdleOK DEF IInv
<1>2. /\ call' \in [Workers -> CallRecords] /\ call'[w] = Idle
      /\ \A v \in Workers \ {w} : Kept(v)
  BY <1>1, SetKeeps DEF IInv
<1>3. CallOK(call[w])'
  BY <1>1, <1>2 DEF CallOK, HolderOK, FreshOK, Verified, Locked
<1>4. CallsOK'
  BY <1>2, <1>3, CallsStep DEF IInv
<1> QED
  BY <1>4 DEF IInv

LEMMA NewCodeOK ==
    ASSUME RowsOK, issued.code < MaxCodes
    PROVE  /\ NewCode \in Codes /\ NewCode \in 0 .. MaxCodes /\ NewCode > issued.code
           /\ NewCode \notin confirmed
           /\ NewOtp(NewCode) \in Otps /\ NewOtp(NewCode) # NoOtp /\ NewOtp(NewCode).code = NewCode
           /\ issued.code \in Nat
<1>1. issued.code \in Nat /\ issued.code + 1 \in 1 .. MaxCodes /\ issued.code + 1 > issued.code
  BY RowFacts, BoundsAssumption
<1>2. NewCode \notin confirmed
  BY <1>1 DEF RowsOK, NewCode
<1> QED
  BY <1>1, <1>2, BoundsAssumption DEF NewCode, NewOtp, Otps, NoOtp, Codes

LEMMA RegisterOverwriteStep ==
    ASSUME IInv, NEW w \in Workers, RegisterOverwrite(w) PROVE IInv'
<1>1. /\ RowsOK /\ AccountOK /\ call[w].pc = "overwrite" /\ call[w] \in CallRecords
      /\ call[w].id # 0 /\ CallOK(call[w])
  BY DEF IInv, CallsOK, RegisterOverwrite, At, CallOK, HolderOK, Named
<1>2. CASE account.id # call[w].id
  BY <1>2, ReturnStep DEF RegisterOverwrite
<1>3. CASE account.id = call[w].id
  <2>1. /\ account \in Rows /\ Exists
        /\ account' = [account EXCEPT !.password = NewCode, !.late = @ \/ call[w].late]
        /\ otp' = NewOtp(NewCode) /\ issued' = [issued EXCEPT !.code = NewCode]
        /\ Overtake(w, "idle") /\ confirmed' = confirmed /\ issued.code < MaxCodes
    BY <1>1, <1>3, RowFacts DEF RegisterOverwrite, RowsOK, NoAccount
  <2>2. /\ account' \in Rows /\ account'.id = account.id /\ account'.verified = account.verified
        /\ account'.providers = account.providers /\ account'.signedIn = account.signedIn
        /\ account'.password = NewCode /\ (account.late \/ call[w].late => account'.late)
        /\ issued'.code = NewCode /\ issued'.account = issued.account
        /\ issued' \in [account : 0 .. MaxAccounts, code : 0 .. MaxCodes]
    BY <1>1, <2>1, NewCodeOK DEF Rows, CallRecords, RowsOK
  <2>3. RowsOK'
    BY <1>1, <2>1, <2>2, NewCodeOK DEF RowsOK
  <2>4. GrowsOK
    BY <1>1, <2>1, <2>2, NewCodeOK, RowFacts, BoundsAssumption DEF GrowsOK, Verified
  <2>5. PasswordConfirmed'
    <3>1. CASE call[w].late
      BY <2>2, <3>1 DEF PasswordConfirmed
    <3>2. CASE ~call[w].late
      BY <1>1, <2>2, <3>2 DEF PasswordConfirmed, CanLogIn, Verified, CallOK, FreshOK
    <3> QED
      BY <3>1, <3>2
  <2>6. AccountOK'
    BY <1>1, <2>1, <2>2, <2>5, NewCodeOK DEF AccountOK, Verified
  <2> QED
    BY <2>1, <2>3, <2>4, <2>6, OvertakeStep DEF PCs
<1> QED
  BY <1>2, <1>3

LEMMA RegisterCreateStep ==
    ASSUME IInv, NEW w \in Workers, RegisterCreate(w) PROVE IInv'
<1>1. RowsOK /\ AccountOK /\ issued.code < MaxCodes /\ issued.account < MaxAccounts
  BY DEF IInv, RegisterCreate
<1>2. CASE Exists
  BY <1>2, ReturnStep DEF RegisterCreate
<1>3. CASE ~Exists
  <2>1. /\ account' = [NoAccount EXCEPT !.id = NewAccount, !.password = NewCode,
                                        !.providers = {"password"}]
        /\ otp' = NewOtp(NewCode)
        /\ issued' = [account |-> NewAccount, code |-> NewCode]
        /\ Overtake(w, "idle") /\ confirmed' = confirmed
    BY <1>3 DEF RegisterCreate
  <2>2. NewAccount \in AccountIds /\ NewAccount \in 0 .. MaxAccounts /\ NewAccount > issued.account
    BY <1>1, RowFacts, BoundsAssumption DEF NewAccount, AccountIds
  <2>3. /\ account' \in Rows /\ account'.id = NewAccount /\ account'.verified = FALSE
        /\ account'.providers = {"password"} /\ account'.signedIn = FALSE
        /\ account'.password = NewCode
        /\ issued'.code = NewCode /\ issued'.account = NewAccount
        /\ issued' \in [account : 0 .. MaxAccounts, code : 0 .. MaxCodes]
    BY <1>1, <2>1, <2>2, NewCodeOK DEF Rows, NoAccount, Providers
  <2>4. RowsOK'
    BY <1>1, <2>1, <2>2, <2>3, NewCodeOK, RowFacts DEF RowsOK
  <2>5. GrowsOK
    BY <1>1, <2>1, <2>2, <2>3, NewCodeOK, RowFacts, BoundsAssumption DEF GrowsOK
  <2>6. AccountOK'
    BY <1>1, <2>1, <2>3, NewCodeOK DEF AccountOK, Verified, PasswordConfirmed, CanLogIn
  <2> QED
    BY <2>1, <2>4, <2>5, <2>6, OvertakeStep DEF PCs, IInv
<1> QED
  BY <1>2, <1>3

LEMMA VerifyCountStep ==
    ASSUME IInv, NEW w \in Workers, VerifyCount(w) PROVE IInv'
<1>1. /\ RowsOK /\ AccountOK /\ UNCHANGED <<account, issued, confirmed>>
      /\ call' = [call EXCEPT ![w] = Idle]
      /\ call[w].id = account.id => otp # NoOtp
  BY DEF IInv, CallsOK, VerifyCount, Return, At, CallOK, HolderOK, Coded, Verifying
<1>2. otp' \in Otps \union {NoOtp} /\ otp'.code = otp.code
  <2>1. CASE account.id = call[w].id /\ ~Locked
    <3>1. otp \in Otps /\ otp' = [otp EXCEPT !.attempts = @ + 1, !.cooling = TRUE]
      BY <1>1, <2>1 DEF VerifyCount, RowsOK
    <3>2. otp.attempts + 1 \in 0 .. MaxAttempts
      BY <1>1, <2>1, RowFacts, BoundsAssumption DEF Locked
    <3> QED
      BY <3>1, <3>2 DEF Otps
  <2>2. CASE ~(account.id = call[w].id /\ ~Locked)
    BY <1>1, <2>2 DEF VerifyCount, RowsOK
  <2> QED
    BY <2>1, <2>2
<1>3. otp # NoOtp <=> otp' # NoOtp
  BY <1>1, <1>2 DEF RowsOK, Otps, NoOtp, Codes
<1>4. RowsOK'
  BY <1>1, <1>2 DEF RowsOK
<1>5. GrowsOK /\ SameOK
  BY <1>1, <1>2, <1>3, RowFacts, BoundsAssumption DEF GrowsOK, SameOK, Verified
<1>6. AccountOK'
  BY <1>1, <1>2, <1>3 DEF AccountOK, Exists, Verified, PasswordConfirmed, CanLogIn
<1> QED
  BY <1>1, <1>4, <1>5, <1>6, SameCallsStep

LEMMA VerifyTxStep ==
    ASSUME IInv, NEW w \in Workers, VerifyTx(w) PROVE IInv'
<1>1. /\ RowsOK /\ AccountOK /\ call[w].pc = "verify" /\ call[w] \in CallRecords
      /\ call[w].id # 0 /\ CallOK(call[w]) /\ call[w].code <= issued.code
      /\ call[w].id = account.id => otp # NoOtp
  BY DEF IInv, CallsOK, VerifyTx, At, CallOK, HolderOK, Named, Coded, Verifying
<1>2. CASE account.id # call[w].id
  BY <1>2, ReturnStep DEF VerifyTx
<1>3. CASE account.id = call[w].id
  <2>1. /\ account \in Rows /\ otp \in Otps
        /\ otp' = [otp EXCEPT !.over = TRUE, !.cooling = TRUE]
        /\ account' = [account EXCEPT !.verified = TRUE, !.late = @ \/ call[w].late]
        /\ confirmed' = confirmed \union {call[w].code}
        /\ Overtake(w, "issue") /\ issued' = issued
    BY <1>1, <1>3, RowFacts DEF VerifyTx, RowsOK, Exists
  <2>2. /\ account' \in Rows /\ account'.id = account.id /\ account'.verified = TRUE
        /\ account'.providers = account.providers /\ account'.signedIn = account.signedIn
        /\ account'.password = account.password
        /\ (account.late \/ call[w].late => account'.late)
        /\ otp' \in Otps /\ otp'.code = otp.code /\ otp' # NoOtp
    BY <1>1, <2>1 DEF Rows, CallRecords, Otps, NoOtp, Codes
  <2>3. call[w].code \in 1 .. issued.code
    <3>1. call[w].code \in 0 .. MaxCodes /\ issued.code \in Nat
      BY <1>1, RowFacts DEF CallRecords
    <3>2. call[w].code # 0
      BY <1>1 DEF HolderOK, CallOK, Verifying
    <3> QED
      BY <1>1, <3>1, <3>2
  <2>4. RowsOK'
    BY <1>1, <2>1, <2>2, <2>3 DEF RowsOK
  <2>5. GrowsOK
    BY <1>1, <2>1, <2>2, RowFacts, BoundsAssumption DEF GrowsOK, Verified
  <2>6. PasswordConfirmed'
    <3>1. CASE call[w].late
      BY <2>2, <3>1 DEF PasswordConfirmed
    <3>2. CASE ~call[w].late
      <4>1. ~Verified /\ otp.code = call[w].code /\ Exists
        BY <1>1, <1>3, <3>2, RowFacts DEF CallOK, FreshOK, Verifying
      <4> QED
        BY <1>1, <2>1, <2>2, <4>1 DEF PasswordConfirmed, AccountOK
    <3> QED
      BY <3>1, <3>2
  <2>7. AccountOK'
    BY <1>1, <2>2, <2>6 DEF AccountOK, Verified
  <2>8. CallOK(call[w])'
    <3>1. call'[w] = [call[w] EXCEPT !.pc = "issue"]
      BY <2>1 DEF Overtake
    <3> QED
      BY <1>1, <2>1, <2>2, <3>1
      DEF CallOK, HolderOK, FreshOK, Verified, Named, Coded, Verifying, CallRecords, PCs
  <2> QED
    BY <2>1, <2>4, <2>5, <2>7, <2>8, OvertakeStep DEF PCs
<1> QED
  BY <1>2, <1>3

LEMMA ResendUpsertStep ==
    ASSUME IInv, NEW w \in Workers, ResendUpsert(w) PROVE IInv'
<1>1. /\ RowsOK /\ AccountOK /\ call[w].id # 0
      /\ call[w].id = account.id => otp # NoOtp
  BY DEF IInv, CallsOK, ResendUpsert, At, CallOK, HolderOK, Named, Coded
<1>2. CASE account.id # call[w].id
  BY <1>2, ReturnStep DEF ResendUpsert
<1>3. CASE account.id = call[w].id
  <2> DEFINE renewed == account.password = otp.code /\ otp.code \notin confirmed
  <2>1. /\ account \in Rows
        /\ account' = IF renewed THEN [account EXCEPT !.password = NewCode] ELSE account
        /\ otp' = NewOtp(NewCode) /\ issued' = [issued EXCEPT !.code = NewCode]
        /\ Overtake(w, "idle") /\ confirmed' = confirmed /\ issued.code < MaxCodes
    BY <1>1, <1>3, RowFacts DEF ResendUpsert, RowsOK, Exists
  <2>2. /\ account' \in Rows /\ account'.id = account.id /\ account'.verified = account.verified
        /\ account'.providers = account.providers /\ account'.signedIn = account.signedIn
        /\ account'.password = IF renewed THEN NewCode ELSE account.password
        /\ account'.late = account.late
        /\ issued'.code = NewCode /\ issued'.account = issued.account
        /\ issued' \in [account : 0 .. MaxAccounts, code : 0 .. MaxCodes]
    BY <1>1, <2>1, NewCodeOK DEF Rows, RowsOK
  <2>3. account'.password <= issued'.code
    BY <1>1, <2>1, <2>2, NewCodeOK, BoundsAssumption DEF RowsOK, Rows
  <2>4. RowsOK'
    BY <1>1, <2>1, <2>2, <2>3, NewCodeOK DEF RowsOK
  <2>5. GrowsOK
    BY <1>1, <2>1, <2>2, NewCodeOK, RowFacts, BoundsAssumption DEF GrowsOK, Verified
  <2>6. PasswordConfirmed'
    <3>1. otp.code # 0
      BY <1>1, <1>3, RowFacts
    <3> QED
      BY <1>1, <2>1, <2>2, <3>1 DEF PasswordConfirmed, AccountOK, CanLogIn, Verified
  <2>7. AccountOK'
    BY <1>1, <1>3, <2>1, <2>2, <2>6, NewCodeOK, RowFacts DEF AccountOK, Verified
  <2> QED
    BY <2>1, <2>4, <2>5, <2>7, OvertakeStep DEF PCs
<1> QED
  BY <1>2, <1>3

LEMMA GoogleTxStep ==
    ASSUME IInv, NEW w \in Workers, GoogleTx(w) PROVE IInv'
<1>1. /\ RowsOK /\ AccountOK /\ call[w].pc = "googleTx" /\ CallOK(call[w])
      /\ otp' = otp /\ confirmed' = confirmed
  BY DEF IInv, CallsOK, GoogleTx, At
<1> DEFINE c == call[w]
           Linked == /\ c.id # 0 /\ c.id = account.id /\ "google" \notin account.providers
                     /\ \E row : /\ row = IF c.verified
                                          THEN [account EXCEPT !.providers = @ \union {"google"}]
                                          ELSE Upgraded
                                 /\ account' = [row EXCEPT !.signedIn = TRUE]
                     /\ Overtake(w, "idle") /\ issued' = issued
           Created == /\ c.id = 0 /\ ~Exists /\ issued.account < MaxAccounts
                      /\ account' = [[NoAccount EXCEPT !.id = NewAccount, !.verified = TRUE,
                                         !.providers = {"google"}] EXCEPT !.signedIn = TRUE]
                      /\ Overtake(w, "idle") /\ issued' = [issued EXCEPT !.account = NewAccount]
<1>2. Linked \/ Created \/ (Return(w) /\ UNCHANGED <<account, otp, issued, confirmed>>)
  BY DEF GoogleTx
<1>3. CASE Linked
  <2>1. account \in Rows /\ Exists
    BY <1>1, <1>3, RowFacts DEF RowsOK, Exists
  <2>2. c.verified => Verified
    BY <1>1, <1>3 DEF CallOK, HolderOK
  <2>3. /\ account' \in Rows /\ account'.id = account.id /\ account'.verified = TRUE
        /\ account'.late = account.late
        /\ \/ account'.password = 0
           \/ /\ account'.password = account.password /\ Verified
              /\ account'.providers = account.providers \union {"google"}
    <3>1. 0 \in 0 .. MaxCodes
      BY BoundsAssumption
    <3>2. CASE c.verified
      <4>1. account' = [[account EXCEPT !.providers = @ \union {"google"}] EXCEPT !.signedIn = TRUE]
        BY <1>3, <3>2
      <4> QED
        BY <2>1, <2>2, <3>2, <4>1 DEF Rows, Verified, Providers
    <3>3. CASE ~c.verified
      <4>1. account' = [Upgraded EXCEPT !.signedIn = TRUE]
        BY <1>3, <3>3
      <4> QED
        BY <2>1, <3>1, <4>1 DEF Rows, Upgraded, Providers
    <3> QED
      BY <3>2, <3>3
  <2>4. RowsOK'
    BY <1>1, <1>3, <2>3, RowFacts DEF RowsOK
  <2>5. GrowsOK
    BY <1>1, <1>3, <2>3, RowFacts, BoundsAssumption DEF GrowsOK, Verified
  <2>6. AccountOK'
    BY <1>1, <2>3 DEF AccountOK, PasswordConfirmed, CanLogIn, Verified
  <2> QED
    BY <1>3, <2>4, <2>5, <2>6, OvertakeStep DEF PCs
<1>4. CASE Created
  <2>1. NewAccount \in AccountIds /\ NewAccount \in 0 .. MaxAccounts /\ NewAccount > issued.account
    BY <1>1, <1>4, RowFacts, BoundsAssumption DEF NewAccount, AccountIds
  <2>2. /\ account' \in Rows /\ account'.id = NewAccount /\ account'.verified = TRUE
        /\ account'.password = 0
        /\ issued'.account = NewAccount /\ issued'.code = issued.code
        /\ issued' \in [account : 0 .. MaxAccounts, code : 0 .. MaxCodes]
    <3>1. 0 \in 0 .. MaxCodes
      BY BoundsAssumption
    <3>2. account' = [id |-> NewAccount, verified |-> TRUE, password |-> 0,
                      providers |-> {"google"}, signedIn |-> TRUE, late |-> FALSE]
      BY <1>4 DEF NoAccount
    <3>3. /\ account' \in Rows /\ account'.id = NewAccount /\ account'.verified = TRUE
          /\ account'.password = 0
      BY <2>1, <3>1, <3>2 DEF Rows, Providers
    <3> QED
      BY <1>1, <1>4, <2>1, <3>3 DEF RowsOK
  <2>3. RowsOK'
    BY <1>1, <2>1, <2>2, RowFacts DEF RowsOK
  <2>4. GrowsOK
    BY <1>1, <2>1, <2>2, RowFacts, BoundsAssumption DEF GrowsOK
  <2>5. AccountOK'
    BY <1>1, <2>2 DEF AccountOK, PasswordConfirmed, CanLogIn, Verified
  <2> QED
    BY <1>4, <2>3, <2>4, <2>5, OvertakeStep DEF PCs
<1> QED
  BY <1>2, <1>3, <1>4, ReturnStep

-----------------------------------------------------------------------------
(* The other steps.                                                        *)

LEMMA IssueTokenStep ==
    ASSUME IInv, NEW w \in Workers, IssueToken(w) PROVE IInv'
<1>1. /\ RowsOK /\ AccountOK /\ call[w].id # 0 /\ UNCHANGED <<otp, issued, confirmed>>
      /\ call[w].id = account.id => Verified
      /\ call' = [call EXCEPT ![w] = Idle]
  BY DEF IInv, CallsOK, IssueToken, Return, At, CallOK, HolderOK, Named
<1>2. /\ account' \in Rows \union {NoAccount}
      /\ account'.id = account.id /\ account'.verified = account.verified
      /\ account'.providers = account.providers /\ account'.password = account.password
      /\ account'.late = account.late /\ (account'.signedIn => Verified)
      /\ (Exists' => Exists)
  <2>1. CASE account.id = call[w].id
    <3>1. account \in Rows /\ account' = [account EXCEPT !.signedIn = TRUE] /\ Exists
      BY <1>1, <2>1, RowFacts DEF RowsOK, Exists, IssueToken
    <3> QED
      BY <1>1, <2>1, <3>1 DEF Rows
  <2>2. CASE account.id # call[w].id
    BY <1>1, <2>2 DEF IssueToken, RowsOK, AccountOK, Exists
  <2> QED
    BY <2>1, <2>2
<1>3. RowsOK'
  BY <1>1, <1>2 DEF RowsOK
<1>4. AccountOK'
  BY <1>1, <1>2 DEF AccountOK, Verified, PasswordConfirmed, CanLogIn
<1>5. GrowsOK /\ SameOK
  BY <1>1, <1>2, RowFacts, BoundsAssumption DEF GrowsOK, SameOK, Verified
<1> QED
  BY <1>1, <1>3, <1>4, <1>5, SameCallsStep

LEMMA PurgeStep ==
    ASSUME IInv, PurgeUnverifiedAccounts PROVE IInv'
<1>1. /\ RowsOK /\ call \in [Workers -> CallRecords]
      /\ account' = NoAccount /\ otp' = NoOtp /\ issued' = issued /\ confirmed' = confirmed
      /\ call' = [v \in Workers |->
                    IF call[v] = Idle THEN Idle ELSE [call[v] EXCEPT !.late = TRUE]]
  BY DEF IInv, CallsOK, PurgeUnverifiedAccounts
<1>2. RowsOK'
  BY <1>1, RowFacts, BoundsAssumption DEF RowsOK, NoAccount, NoOtp
<1>3. AccountOK'
  BY <1>1 DEF AccountOK, PasswordConfirmed, CanLogIn, Verified, Exists, NoAccount
<1>4. GrowsOK
  BY <1>1, RowFacts, BoundsAssumption DEF GrowsOK, NoAccount
<1>5. Idle \in CallRecords /\ CallOK(Idle)'
  BY <1>1, <1>2, IdleOK
<1>6. ASSUME NEW v \in Workers
      PROVE  /\ call'[v] \in CallRecords
             /\ CallOK(call[v])' \/ (Kept(v) /\ call'[v].late)
  <2>1. CASE call[v] = Idle
    <3>1. call'[v] = Idle
      BY <1>1, <2>1
    <3>2. CallOK(call[v])'
      BY <1>5, <3>1 DEF CallOK, HolderOK, FreshOK, Verified, Locked
    <3> QED
      BY <1>5, <3>1, <3>2
  <2>2. CASE call[v] # Idle
    <3>1. call'[v] = [call[v] EXCEPT !.late = TRUE]
      BY <1>1, <2>2
    <3> QED
      BY <1>1, <3>1 DEF CallRecords, Kept
  <2> QED
    BY <2>1, <2>2
<1>7. call' \in [Workers -> CallRecords]
  BY <1>1, <1>6
<1>8. CallsOK'
  BY <1>1, <1>2, <1>4, <1>6, <1>7, CallsStep DEF IInv
<1> QED
  BY <1>2, <1>3, <1>8 DEF IInv

LEMMA TimeStep ==
    ASSUME IInv, CooldownEnds \/ CodeExpires \/ UNCHANGED vars PROVE IInv'
<1>1. /\ RowsOK /\ AccountOK /\ UNCHANGED <<account, issued, call, confirmed>>
      /\ \/ otp' = otp
         \/ otp.cooling /\ otp' = [otp EXCEPT !.cooling = FALSE]
         \/ ~otp.over /\ otp' = [otp EXCEPT !.over = TRUE]
  BY DEF IInv, CooldownEnds, CodeExpires, vars
<1>2. /\ otp' \in Otps \union {NoOtp} /\ otp'.code = otp.code
      /\ otp # NoOtp => otp' # NoOtp
  <2>1. CASE otp' = otp
    BY <1>1, <2>1 DEF RowsOK
  <2>2. CASE otp' # otp
    <3>1. otp \in Otps
      BY <1>1, <2>2 DEF RowsOK, NoOtp
    <3>2. otp' \in Otps /\ otp'.code = otp.code
      BY <1>1, <2>2, <3>1 DEF Otps
    <3>3. otp' # NoOtp
      BY <3>2 DEF Otps, NoOtp, Codes
    <3> QED
      BY <3>2, <3>3
  <2> QED
    BY <2>1, <2>2
<1>3. RowsOK'
  BY <1>1, <1>2 DEF RowsOK
<1>4. AccountOK'
  BY <1>1, <1>2 DEF AccountOK, PasswordConfirmed, CanLogIn, Verified, Exists
<1>5. GrowsOK /\ SameOK
  BY <1>1, <1>2, RowFacts, BoundsAssumption DEF GrowsOK, SameOK, Verified
<1>6. call' \in [Workers -> CallRecords] /\ \A v \in Workers : Kept(v)
  BY <1>1 DEF IInv, CallsOK, Kept
<1>7. CallsOK'
  BY <1>1, <1>3, <1>5, <1>6, CallsStep DEF IInv
<1> QED
  BY <1>3, <1>4, <1>7 DEF IInv

-----------------------------------------------------------------------------
LEMMA InitIInv == Init => IInv
<1> SUFFICES ASSUME Init PROVE IInv
  OBVIOUS
<1>1. RowsOK
  BY BoundsAssumption DEF Init, RowsOK, NoAccount, NoOtp
<1>2. AccountOK
  BY DEF Init, AccountOK, PasswordConfirmed, CanLogIn, Verified, Exists, NoAccount
<1>3. Idle \in CallRecords
  BY BoundsAssumption DEF Idle, CallRecords, PCs
<1>4. CallOK(Idle)
  BY <1>3 DEF Init, CallOK, HolderOK, FreshOK, Idle, Named, Coded, Verifying, NoAccount
<1> QED
  BY <1>1, <1>2, <1>3, <1>4 DEF Init, IInv, CallsOK

LEMMA NextStep == ASSUME IInv, [Next]_vars PROVE IInv'
<1>1. ASSUME NEW w \in Workers, Begin(w) \/ Crash(w) PROVE IInv'
  BY <1>1, StartSteps, ReadSteps
<1>2. ASSUME NEW w \in Workers, Step(w) PROVE IInv'
  BY <1>2, ReadSteps, RegisterOverwriteStep, RegisterCreateStep, VerifyCountStep, VerifyTxStep,
     IssueTokenStep, ResendUpsertStep, GoogleTxStep DEF Step
<1>3. CASE PurgeUnverifiedAccounts
  BY <1>3, PurgeStep
<1>4. CASE CooldownEnds \/ CodeExpires \/ UNCHANGED vars
  BY <1>4, TimeStep
<1> QED
  BY <1>1, <1>2, <1>3, <1>4 DEF Next

\* The invariant holds in every reachable state.
THEOREM Invariance == Spec => []IInv
<1>1. IInv /\ [Next]_vars => IInv'
  BY NextStep
<1> QED
  BY <1>1, InitIInv, PTL DEF Spec

\* The password of an account is one whose code was entered, unless a handler
\* that had been overtaken wrote it or verified the account.
THEOREM ConfirmedPassword == Spec => []PasswordConfirmed
<1>1. IInv => PasswordConfirmed
  BY DEF IInv, AccountOK
<1> QED
  BY <1>1, Invariance, PTL

\* Nothing takes the account from who has been signed in.
THEOREM SignedInStays == Spec => SignedInKept
<1> DEFINE Stays == account.signedIn =>
                      account.verified /\ account'.signedIn /\ account'.id = account.id
<1>1. ASSUME IInv, [Next]_vars, account.signedIn PROVE Stays
  <2>1. /\ RowsOK /\ Verified /\ Exists /\ account \in Rows
    BY <1>1, RowFacts DEF IInv, AccountOK, RowsOK, Exists, NoAccount
  <2>2. ASSUME NEW w \in Workers, Begin(w) \/ Crash(w) \/ VerifyFindOtp(w) \/ VerifyCount(w)
                                   \/ ResendFindRecord(w) \/ GoogleFind(w)
        PROVE  account' = account
    BY <2>2 DEF Begin, Start, StartRegister, StartResend, StartGoogle, StartVerify, Crash,
                VerifyFindOtp, VerifyCount, ResendFindRecord, GoogleFind
  <2>3. ASSUME NEW w \in Workers, RegisterOverwrite(w) \/ VerifyTx(w) \/ ResendUpsert(w)
                                   \/ IssueToken(w)
        PROVE  account'.signedIn /\ account'.id = account.id
    BY <1>1, <2>1, <2>3 DEF RegisterOverwrite, VerifyTx, ResendUpsert, IssueToken, Rows
  <2>4. ASSUME NEW w \in Workers, RegisterCreate(w) PROVE account' = account
    BY <2>1, <2>4 DEF RegisterCreate
  <2>5. ASSUME NEW w \in Workers, GoogleTx(w)
        PROVE  account'.signedIn /\ account'.id = account.id
    <3>1. \/ account' = account
          \/ account' = [[account EXCEPT !.providers = @ \union {"google"}] EXCEPT !.signedIn = TRUE]
          \/ account' = [Upgraded EXCEPT !.signedIn = TRUE]
      BY <2>1, <2>5 DEF GoogleTx
    <3> QED
      BY <1>1, <2>1, <3>1 DEF Upgraded, Rows
  <2>6. CASE PurgeUnverifiedAccounts
    BY <2>1, <2>6 DEF PurgeUnverifiedAccounts
  <2>7. CASE CooldownEnds \/ CodeExpires \/ UNCHANGED vars
    BY <1>1, <2>1, <2>7 DEF CooldownEnds, CodeExpires, vars, Verified
  <2> QED
    BY <1>1, <2>1, <2>2, <2>3, <2>4, <2>5, <2>6, <2>7 DEF Next, Step, Verified
<1>2. IInv /\ [Next]_vars => [Stays]_vars
  BY <1>1
<1> QED
  BY <1>2, Invariance, PTL DEF Spec, SignedInKept

-----------------------------------------------------------------------------
(* The limits of codes.  Guesses are answered one by one, and each that is *)
(* answered while the code is open has been counted; so at the last        *)
(* attempt those in flight are all that can follow.  A resend that has     *)
(* looked at the row stays allowed until it stores its code, and only a    *)
(* row that is free lets another in.                                       *)

Guesses == {w \in Workers : Comparing(w)}
Sending == {w \in Workers : At(w, "upsert") /\ call[w].id = account.id}
Free == ~otp.cooling \/ Locked

TriesOK ==
    /\ tried \in Nat
    /\ ~Locked /\ ~otp.over => tried <= otp.attempts
    /\ tried + Cardinality(Guesses) <= MaxAttempts - 1 + Cardinality(Workers)

ResendsOK ==
    /\ resent \in Nat
    /\ Free => resent = 0
    /\ resent + Cardinality(Sending) <= Cardinality(Workers)

LimitsOK == TriesOK /\ ResendsOK

LEMMA Counts ==
    /\ Cardinality(Workers) \in Nat
    /\ \A S \in SUBSET Workers : IsFiniteSet(S) /\ Cardinality(S) \in Nat
                                 /\ Cardinality(S) <= Cardinality(Workers)
BY WorkersAssumption, FS_Subset, FS_CardinalityType

LEMMA Fewer ==
    ASSUME NEW S \in SUBSET Workers, NEW T \in SUBSET S
    PROVE  Cardinality(T) <= Cardinality(S)
BY Counts, FS_Subset

LEMMA OneFewer ==
    ASSUME NEW S \in SUBSET Workers, NEW w \in S, NEW T \in SUBSET (S \ {w})
    PROVE  Cardinality(T) + 1 <= Cardinality(S)
<1>1. Cardinality(S \ {w}) = Cardinality(S) - 1
  BY Counts, FS_RemoveElement
<1>2. Cardinality(T) <= Cardinality(S \ {w})
  BY Fewer
<1> QED
  BY <1>1, <1>2, Counts

\* A guess that is answered leaves those in flight.
LEMMA TriesStep ==
    ASSUME TriesOK, NEW w \in Workers, Guesses' \subseteq Guesses,
           \/ tried' = tried
           \/ w \in Guesses /\ w \notin Guesses' /\ tried' = tried + 1,
           ~Locked' /\ ~otp'.over => tried' <= otp'.attempts
    PROVE  TriesOK'
<1>1. Guesses \in SUBSET Workers /\ Guesses' \in SUBSET Guesses
  BY DEF Guesses
<1>2. Cardinality(Guesses) \in Nat /\ Cardinality(Guesses') \in Nat /\ Cardinality(Workers) \in Nat
  BY <1>1, Counts
<1>3. tried' + Cardinality(Guesses') <= tried + Cardinality(Guesses)
  <2>1. CASE tried' = tried
    BY <1>1, <1>2, <2>1, Fewer DEF TriesOK
  <2>2. CASE w \in Guesses /\ w \notin Guesses' /\ tried' = tried + 1
    BY <1>1, <1>2, <2>2, OneFewer DEF TriesOK
  <2> QED
    BY <2>1, <2>2
<1> QED
  BY <1>2, <1>3, BoundsAssumption DEF TriesOK

\* While the code is open the attempts bound the guesses answered.
LEMMA TriesOpen ==
    ASSUME RowsOK', tried' \in Nat, tried' <= otp'.attempts, ~Locked'
    PROVE  TriesOK'
<1>1. otp'.attempts \in Nat /\ otp'.attempts <= MaxAttempts - 1
  BY RowFacts, BoundsAssumption DEF Locked, RowsOK, Otps, NoOtp
<1>2. /\ Cardinality(Guesses') \in Nat /\ Cardinality(Workers) \in Nat
      /\ Cardinality(Guesses') <= Cardinality(Workers)
  BY Counts DEF Guesses
<1> QED
  BY <1>1, <1>2, BoundsAssumption DEF TriesOK

LEMMA ResendsStep ==
    ASSUME ResendsOK, NEW w \in Workers, Free' => resent' = 0,
           \/ resent' = 0
           \/ resent' = resent /\ Sending' \subseteq Sending
           \/ resent' = resent + 1 /\ w \in Sending /\ Sending' \subseteq Sending \ {w}
    PROVE  ResendsOK'
<1>1. Sending \in SUBSET Workers /\ Sending' \in SUBSET Workers
  BY DEF Sending
<1>2. /\ Cardinality(Sending) \in Nat /\ Cardinality(Sending') \in Nat
      /\ Cardinality(Workers) \in Nat /\ Cardinality(Sending') <= Cardinality(Workers)
  BY <1>1, Counts
<1>3. CASE resent' = 0
  BY <1>2, <1>3 DEF ResendsOK
<1>4. CASE resent' = resent /\ Sending' \subseteq Sending
  <2>1. Cardinality(Sending') <= Cardinality(Sending)
    BY <1>1, <1>4, Fewer
  <2> QED
    BY <1>2, <1>4, <2>1 DEF ResendsOK
<1>5. CASE resent' = resent + 1 /\ w \in Sending /\ Sending' \subseteq Sending \ {w}
  <2>1. Cardinality(Sending') + 1 <= Cardinality(Sending)
    BY <1>1, <1>5, OneFewer
  <2> QED
    BY <1>2, <1>5, <2>1 DEF ResendsOK
<1> QED
  BY <1>3, <1>4, <1>5

\* The other handlers stay at their steps, and an account that is new is none
\* of theirs.
OthersStay(w) ==
    \A v \in Workers \ {w} :
        call'[v].pc = call[v].pc /\ call'[v].id = call[v].id /\ call'[v].code = call[v].code
IdKept == account'.id = account.id \/ account'.id = 0 \/ account'.id > issued.account

LEMMA Stay ==
    ASSUME IInv, NEW w \in Workers, OthersStay(w), IdKept
    PROVE  /\ Sending' \subseteq Sending \union {w}
           /\ otp'.code = otp.code => Guesses' \subseteq Guesses \union {w}
<1>1. ASSUME NEW v \in Workers, call[v].pc \in {"upsert", "count", "verify"},
             call[v].id = account'.id
      PROVE  call[v].id = account.id
  <2>1. /\ call[v].id # 0 /\ call[v].id <= issued.account
        /\ call[v].id \in Nat /\ issued.account \in Nat
    BY <1>1, BoundsAssumption DEF IInv, CallsOK, CallOK, HolderOK, Named, CallRecords, RowsOK
  <2> QED
    BY <1>1, <2>1 DEF IdKept
<1> QED
  BY <1>1 DEF OthersStay, Sending, Guesses, Comparing, At

LEMMA SetStays ==
    ASSUME IInv, NEW w \in Workers, NEW r, call' = [call EXCEPT ![w] = r]
    PROVE  call'[w] = r /\ OthersStay(w)
BY DEF IInv, CallsOK, OthersStay

LEMMA OvertakeStays ==
    ASSUME IInv, NEW w \in Workers, NEW pc \in {"idle", "issue"}, Overtake(w, pc)
    PROVE  call'[w].pc = pc /\ OthersStay(w)
<1>1. Idle.pc = "idle" /\ call[w] \in CallRecords
  BY DEF Idle, IInv, CallsOK
<1>2. call'[w].pc = pc
  BY <1>1 DEF Overtake, CallRecords
<1>3. ASSUME NEW v \in Workers \ {w}
      PROVE  /\ call'[v].pc = call[v].pc /\ call'[v].id = call[v].id
             /\ call'[v].code = call[v].code
  <2>1. call[v] \in CallRecords
    BY DEF IInv, CallsOK
  <2>2. call'[v] = call[v] \/ call'[v] = [call[v] EXCEPT !.late = TRUE]
    BY DEF Overtake
  <2> QED
    BY <2>1, <2>2 DEF CallRecords
<1> QED
  BY <1>2, <1>3 DEF OthersStay

\* A handler that goes to a step that counts for neither limit.
Elsewhere(w) == call'[w].pc \notin {"count", "verify", "upsert"}

LEMMA Leaves ==
    ASSUME IInv, NEW w \in Workers, OthersStay(w), IdKept, Elsewhere(w)
    PROVE  /\ Sending' \subseteq Sending \ {w}
           /\ otp'.code = otp.code => Guesses' \subseteq Guesses \ {w}
BY Stay DEF Elsewhere, Sending, Guesses, Comparing, At

LEMMA LimitsSame ==
    ASSUME IInv, LimitsOK, NEW w \in Workers, OthersStay(w), IdKept, Elsewhere(w),
           UNCHANGED <<otp, tried, resent>>
    PROVE  LimitsOK'
<1>1. Sending' \subseteq Sending /\ Guesses' \subseteq Guesses
  BY Leaves
<1>2. TriesOK'
  BY <1>1, TriesStep DEF LimitsOK, TriesOK, Locked
<1>3. ResendsOK'
  BY <1>1, ResendsStep DEF LimitsOK, ResendsOK, Free, Locked
<1> QED
  BY <1>2, <1>3 DEF LimitsOK

LEMMA LimitsReturn ==
    ASSUME IInv, LimitsOK, NEW w \in Workers, Return(w), IdKept,
           UNCHANGED <<otp, tried, resent>>
    PROVE  LimitsOK'
<1>1. call'[w] = Idle /\ OthersStay(w)
  BY SetStays DEF Return
<1>2. Elsewhere(w)
  BY <1>1 DEF Elsewhere, Idle
<1> QED
  BY <1>1, <1>2, LimitsSame

\* A new code: nothing has been tried, and the row is not free.
LEMMA LimitsNewCode ==
    ASSUME IInv, IInv', LimitsOK, NEW w \in Workers, Overtake(w, "idle"), IdKept,
           otp' = NewOtp(NewCode), tried' = 0,
           \/ resent' = resent
           \/ w \in Sending /\ resent' = resent + 1
    PROVE  LimitsOK'
<1>1. OthersStay(w) /\ Elsewhere(w)
  BY OvertakeStays DEF Elsewhere
<1>2. Sending' \subseteq Sending \ {w}
  BY <1>1, Leaves
<1>3. otp'.attempts = 0 /\ otp'.cooling = TRUE /\ ~Locked' /\ ~Free'
  BY BoundsAssumption DEF NewOtp, Locked, Free
<1>4. TriesOK'
  BY <1>3, TriesOpen DEF IInv
<1>5. ResendsOK'
  BY <1>2, <1>3, ResendsStep DEF LimitsOK
<1> QED
  BY <1>4, <1>5 DEF LimitsOK

LEMMA LimitsVerify ==
    ASSUME IInv, IInv', LimitsOK, NEW w \in Workers,
           VerifyFindOtp(w) \/ VerifyCount(w) \/ VerifyTx(w)
    PROVE  LimitsOK'
<1>0. /\ RowsOK /\ call[w] \in CallRecords /\ otp.attempts \in Nat /\ otp'.attempts \in Nat
      /\ TriesOK /\ ResendsOK /\ tried \in Nat
  BY BoundsAssumption DEF IInv, RowsOK, Otps, NoOtp, CallsOK, LimitsOK, TriesOK
<1>1. CASE VerifyFindOtp(w)
  <2>1. UNCHANGED <<account, otp, tried, resent>> /\ IdKept
    BY <1>1 DEF VerifyFindOtp, IdKept
  <2>2. CASE Return(w)
    BY <2>1, <2>2, LimitsReturn
  <2>3. CASE ~Return(w)
    <3> DEFINE r == [call[w] EXCEPT !.pc = IF otp.code = call[w].code THEN "verify" ELSE "count",
                                    !.code = otp.code]
    <3>1. call' = [call EXCEPT ![w] = r] /\ ~otp.over /\ ~Locked
      BY <1>1, <2>3 DEF VerifyFindOtp
    <3>2. call'[w] = r /\ OthersStay(w)
      BY <3>1, SetStays
    <3>3. r.pc # "upsert"
      BY <1>0 DEF CallRecords
    <3>4. Sending' \subseteq Sending
      BY <2>1, <3>2, <3>3, Stay DEF Sending, At
    <3>5. TriesOK'
      BY <1>0, <2>1, <3>1, TriesOpen DEF TriesOK, Locked, IInv
    <3>6. ResendsOK'
      BY <1>0, <2>1, <3>4, ResendsStep DEF ResendsOK, Free, Locked
    <3> QED
      BY <3>5, <3>6 DEF LimitsOK
  <2> QED
    BY <2>2, <2>3
<1>2. CASE VerifyCount(w)
  <2>1. call'[w] = Idle /\ OthersStay(w) /\ account' = account /\ IdKept
    BY <1>2, SetStays DEF VerifyCount, Return, IdKept
  <2>2. Elsewhere(w)
    BY <2>1 DEF Elsewhere, Idle
  <2> DEFINE counted == account.id = call[w].id /\ ~Locked
  <2>3. /\ counted => /\ otp \in Otps
                      /\ otp' = [otp EXCEPT !.attempts = @ + 1, !.cooling = TRUE]
        /\ ~counted => otp' = otp
        /\ tried' = IF w \in Guesses THEN tried + 1 ELSE tried
        /\ resent' = IF Locked' THEN 0 ELSE resent
    <3>1. account.id = call[w].id => otp # NoOtp
      BY <1>2 DEF IInv, CallsOK, CallOK, HolderOK, Coded, Verifying, VerifyCount, At
    <3> QED
      BY <1>0, <1>2, <3>1 DEF VerifyCount, Answer, Guesses, RowsOK
  <2>4. /\ otp'.code = otp.code /\ otp'.over = otp.over
        /\ counted => otp'.attempts = otp.attempts + 1 /\ otp'.cooling
    BY <2>3 DEF Otps
  <2>5. Sending' \subseteq Sending \ {w} /\ Guesses' \subseteq Guesses \ {w}
    BY <2>1, <2>2, <2>4, Leaves
  <2>6. ~Locked' /\ ~otp'.over => tried' <= otp'.attempts
    <3>1. CASE counted
      BY <1>0, <2>3, <2>4, <3>1 DEF TriesOK
    <3>2. CASE ~counted
      <4>1. w \in Guesses => Locked
        BY <3>2 DEF Guesses, Comparing
      <4> QED
        BY <1>0, <2>3, <3>2, <4>1 DEF TriesOK, Locked
    <3> QED
      BY <3>1, <3>2
  <2>7. TriesOK'
    BY <1>0, <2>3, <2>5, <2>6, TriesStep
  <2>8. Free' => resent' = 0
    BY <1>0, <2>3, <2>4 DEF Free, ResendsOK, Locked
  <2>9. ResendsOK'
    BY <1>0, <2>3, <2>5, <2>8, ResendsStep
  <2> QED
    BY <2>7, <2>9 DEF LimitsOK
<1>3. CASE VerifyTx(w)
  <2>1. CASE account.id # call[w].id
    BY <1>3, <2>1, LimitsReturn DEF VerifyTx, IdKept
  <2>2. CASE account.id = call[w].id
    <3>1. otp \in Otps /\ account \in Rows
      BY <1>0, <1>3, <2>2, RowFacts
      DEF IInv, CallsOK, CallOK, HolderOK, Named, Coded, Verifying, VerifyTx, At, RowsOK, Exists
    <3>2. /\ otp' = [otp EXCEPT !.over = TRUE, !.cooling = TRUE]
          /\ account'.id = account.id /\ resent' = resent
          /\ tried' = IF w \in Guesses THEN tried + 1 ELSE tried
          /\ OthersStay(w) /\ Elsewhere(w)
      BY <1>3, <2>2, <3>1, OvertakeStays DEF VerifyTx, Rows, Answer, Guesses, Elsewhere
    <3>3. otp'.over /\ otp'.cooling /\ otp'.code = otp.code /\ (Locked' => Locked)
      BY <3>1, <3>2 DEF Otps, Locked
    <3>4. Sending' \subseteq Sending \ {w} /\ Guesses' \subseteq Guesses \ {w}
      BY <3>2, <3>3, Leaves DEF IdKept
    <3>5. TriesOK'
      BY <1>0, <3>2, <3>3, <3>4, TriesStep
    <3>6. ResendsOK'
      BY <1>0, <3>2, <3>3, <3>4, ResendsStep DEF Free, ResendsOK
    <3> QED
      BY <3>5, <3>6 DEF LimitsOK
  <2> QED
    BY <2>1, <2>2
<1> QED
  BY <1>1, <1>2, <1>3

LEMMA LimitsResend ==
    ASSUME IInv, IInv', LimitsOK, NEW w \in Workers, ResendFindRecord(w) \/ ResendUpsert(w)
    PROVE  LimitsOK'
<1>1. CASE ResendFindRecord(w)
  <2>1. UNCHANGED <<account, otp, tried, resent>> /\ IdKept
    BY <1>1 DEF ResendFindRecord, IdKept
  <2>2. CASE Return(w)
    BY <2>1, <2>2, LimitsReturn
  <2>3. CASE ~Return(w)
    <3>1. /\ call' = [call EXCEPT ![w] = [call[w] EXCEPT !.pc = "upsert"]]
          /\ call[w].id = account.id => Free
      BY <1>1, <2>3 DEF ResendFindRecord, Goto, Free
    <3>2. call'[w] = [call[w] EXCEPT !.pc = "upsert"] /\ OthersStay(w)
      BY <3>1, SetStays
    <3>3. call[w] \in CallRecords
      BY DEF IInv, CallsOK
    <3>4. Guesses' \subseteq Guesses
      BY <2>1, <3>2, <3>3, Stay DEF Guesses, Comparing, CallRecords
    <3>5. TriesOK'
      BY <2>1, <3>4, TriesStep DEF LimitsOK, TriesOK, Locked
    <3>6. resent' = 0 \/ Sending' \subseteq Sending
      <4>1. CASE call[w].id = account.id
        BY <2>1, <3>1, <4>1 DEF LimitsOK, ResendsOK
      <4>2. CASE call[w].id # account.id
        BY <2>1, <3>2, <3>3, <4>2, Stay DEF Sending, CallRecords
      <4> QED
        BY <4>1, <4>2
    <3>7. ResendsOK'
      BY <2>1, <3>6, ResendsStep DEF LimitsOK, ResendsOK, Free, Locked
    <3> QED
      BY <3>5, <3>7 DEF LimitsOK
  <2> QED
    BY <2>2, <2>3
<1>2. CASE ResendUpsert(w)
  <2>1. CASE account.id # call[w].id
    BY <1>2, <2>1, LimitsReturn DEF ResendUpsert, IdKept
  <2>2. CASE account.id = call[w].id
    <3>1. /\ otp' = NewOtp(NewCode) /\ tried' = 0 /\ resent' = resent + 1
          /\ Overtake(w, "idle") /\ w \in Sending
      BY <1>2, <2>2 DEF ResendUpsert, Sending
    <3>2. account \in Rows
      BY <1>2, <2>2, RowFacts
      DEF IInv, CallsOK, CallOK, HolderOK, Named, ResendUpsert, At, RowsOK, Exists
    <3>3. IdKept
      BY <1>2, <2>2, <3>2 DEF ResendUpsert, IdKept, Rows
    <3> QED
      BY <3>1, <3>3, LimitsNewCode
  <2> QED
    BY <2>1, <2>2
<1> QED
  BY <1>1, <1>2

LEMMA LimitsRegister ==
    ASSUME IInv, IInv', LimitsOK, NEW w \in Workers, RegisterOverwrite(w) \/ RegisterCreate(w)
    PROVE  LimitsOK'
<1>1. CASE UNCHANGED <<account, otp, tried, resent>>
  BY <1>1, LimitsReturn, LimitsNewCode DEF RegisterOverwrite, RegisterCreate, IdKept
<1>2. CASE ~UNCHANGED <<account, otp, tried, resent>>
  <2>1. /\ otp' = NewOtp(NewCode) /\ tried' = 0 /\ resent' = resent
        /\ Overtake(w, "idle")
    BY <1>2 DEF RegisterOverwrite, RegisterCreate
  <2>2. account'.id = account.id \/ account'.id = NewAccount
    <3>1. CASE RegisterOverwrite(w)
      <4>1. account.id = call[w].id /\ account \in Rows
        BY <1>2, <3>1, RowFacts
        DEF RegisterOverwrite, IInv, CallsOK, CallOK, HolderOK, Named, At, RowsOK, Exists
      <4> QED
        BY <3>1, <4>1 DEF RegisterOverwrite, Rows
    <3>2. CASE RegisterCreate(w)
      BY <1>2, <3>2 DEF RegisterCreate, NoAccount
    <3> QED
      BY <3>1, <3>2
  <2>3. IdKept
    BY <2>2, BoundsAssumption DEF IdKept, NewAccount, IInv, RowsOK
  <2> QED
    BY <2>1, <2>3, LimitsNewCode
<1> QED
  BY <1>1, <1>2

LEMMA LimitsOthers ==
    ASSUME IInv, LimitsOK, NEW w \in Workers,
           Begin(w) \/ IssueToken(w) \/ GoogleFind(w) \/ GoogleTx(w) \/ Crash(w)
    PROVE  LimitsOK'
<1>1. UNCHANGED <<otp, tried, resent>>
  BY DEF Begin, StartRegister, StartResend, StartGoogle, StartVerify, Start, IssueToken,
         GoogleFind, GoogleTx, Crash
<1>2. ASSUME NEW op, NEW r, Start(w, op, r), r.pc \notin {"count", "verify", "upsert"}
      PROVE  LimitsOK'
  <2>1. call'[w] = r /\ OthersStay(w) /\ IdKept
    BY <1>2, SetStays DEF Start, IdKept
  <2> QED
    BY <1>1, <1>2, <2>1, LimitsSame DEF Elsewhere
<1>3. CASE Begin(w)
  BY <1>2, <1>3 DEF Begin, StartRegister, StartResend, StartGoogle, StartVerify, Idle
<1>4. CASE IssueToken(w)
  <2>1. IdKept
    BY <1>4, RowFacts DEF IssueToken, IdKept, IInv, RowsOK, Rows, NoAccount
  <2> QED
    BY <1>1, <1>4, <2>1, LimitsReturn DEF IssueToken
<1>5. CASE GoogleFind(w)
  <2> DEFINE r == [call[w] EXCEPT !.pc = "googleTx", !.id = account.id, !.verified = Verified]
  <2>1. call'[w] = r /\ OthersStay(w) /\ IdKept
    BY <1>5, SetStays DEF GoogleFind, IdKept
  <2>2. r.pc = "googleTx"
    BY DEF IInv, CallsOK, CallRecords
  <2> QED
    BY <1>1, <2>1, <2>2, LimitsSame DEF Elsewhere
<1>6. CASE GoogleTx(w)
  <2>1. CASE Return(w) /\ account' = account
    BY <1>1, <2>1, LimitsReturn DEF IdKept
  <2>2. CASE ~(Return(w) /\ account' = account)
    <3>1. /\ Overtake(w, "idle")
          /\ \/ /\ call[w].id # 0 /\ call[w].id = account.id
                /\ \/ account' = [[account EXCEPT !.providers = @ \union {"google"}]
                                    EXCEPT !.signedIn = TRUE]
                   \/ account' = [Upgraded EXCEPT !.signedIn = TRUE]
             \/ account' = [[NoAccount EXCEPT !.id = NewAccount, !.verified = TRUE,
                                !.providers = {"google"}] EXCEPT !.signedIn = TRUE]
      BY <1>6, <2>2 DEF GoogleTx
    <3>2. account'.id = account.id \/ account'.id = NewAccount
      <4>1. call[w].id # 0 /\ call[w].id = account.id => account \in Rows
        BY RowFacts DEF IInv, RowsOK, Exists
      <4> QED
        BY <3>1, <4>1 DEF Upgraded, Rows, NoAccount
    <3>3. IdKept
      BY <3>2, BoundsAssumption DEF IdKept, NewAccount, IInv, RowsOK
    <3>4. OthersStay(w) /\ Elsewhere(w)
      BY <3>1, OvertakeStays DEF Elsewhere
    <3> QED
      BY <1>1, <3>3, <3>4, LimitsSame
  <2> QED
    BY <2>1, <2>2
<1>7. CASE Crash(w)
  BY <1>1, <1>7, LimitsReturn DEF Crash, IdKept
<1> QED
  BY <1>3, <1>4, <1>5, <1>6, <1>7

LEMMA LimitsTime ==
    ASSUME IInv, LimitsOK,
           PurgeUnverifiedAccounts \/ CooldownEnds \/ CodeExpires \/ UNCHANGED vars
    PROVE  LimitsOK'
<1>1. CASE PurgeUnverifiedAccounts
  <2>1. /\ tried' = 0 /\ resent' = 0
        /\ otp'.attempts = 0 /\ ~otp'.cooling
    BY <1>1 DEF PurgeUnverifiedAccounts, NoOtp
  <2>2. /\ Cardinality(Guesses') \in Nat /\ Cardinality(Guesses') <= Cardinality(Workers)
        /\ Cardinality(Sending') \in Nat /\ Cardinality(Sending') <= Cardinality(Workers)
        /\ Cardinality(Workers) \in Nat
    BY Counts DEF Guesses, Sending
  <2> QED
    BY <2>1, <2>2, BoundsAssumption DEF LimitsOK, TriesOK, ResendsOK
<1>2. CASE CooldownEnds \/ CodeExpires \/ UNCHANGED vars
  <2>1. /\ UNCHANGED <<account, call, tried>>
        /\ resent' = 0 \/ (resent' = resent /\ otp'.cooling = otp.cooling)
        /\ otp'.code = otp.code /\ otp'.attempts = otp.attempts /\ (otp.over => otp'.over)
    <3>1. CASE otp' = otp
      BY <1>2, <3>1 DEF CooldownEnds, CodeExpires, vars
    <3>2. CASE otp' # otp
      <4>1. otp \in Otps
        BY <1>2, <3>2 DEF CooldownEnds, CodeExpires, vars, IInv, RowsOK, NoOtp
      <4> QED
        BY <1>2, <3>2, <4>1 DEF CooldownEnds, CodeExpires, vars, Otps
    <3> QED
      BY <3>1, <3>2
  <2>2. Guesses' = Guesses /\ Sending' = Sending /\ (Locked' <=> Locked)
    BY <2>1 DEF Guesses, Comparing, Sending, At, Locked
  <2>3. /\ Cardinality(Sending) \in Nat /\ Cardinality(Workers) \in Nat
        /\ Cardinality(Sending) <= Cardinality(Workers)
    BY Counts DEF Sending
  <2>4. TriesOK'
    BY <2>1, <2>2 DEF LimitsOK, TriesOK
  <2>5. ResendsOK'
    BY <2>1, <2>2, <2>3 DEF LimitsOK, ResendsOK, Free
  <2> QED
    BY <2>4, <2>5 DEF LimitsOK
<1> QED
  BY <1>1, <1>2

LEMMA LimitsInit == Init => LimitsOK
<1>1. Cardinality(Workers) \in Nat /\ Guesses \in SUBSET Workers /\ Sending \in SUBSET Workers
  BY Counts DEF Guesses, Sending
<1>2. /\ Cardinality(Guesses) \in Nat /\ Cardinality(Guesses) <= Cardinality(Workers)
      /\ Cardinality(Sending) \in Nat /\ Cardinality(Sending) <= Cardinality(Workers)
  BY <1>1, Counts
<1> QED
  BY <1>1, <1>2, BoundsAssumption DEF Init, NoOtp, LimitsOK, TriesOK, ResendsOK

LEMMA LimitsKept == Spec => []LimitsOK
<1>1. IInv /\ IInv' /\ LimitsOK /\ [Next]_vars => LimitsOK'
  <2> SUFFICES ASSUME IInv, IInv', LimitsOK, [Next]_vars PROVE LimitsOK'
    OBVIOUS
  <2>1. ASSUME NEW w \in Workers, Begin(w) \/ Step(w) \/ Crash(w) PROVE LimitsOK'
    BY <2>1, LimitsVerify, LimitsResend, LimitsRegister, LimitsOthers DEF Step
  <2> QED
    BY <2>1, LimitsTime DEF Next
<1> QED
  BY <1>1, LimitsInit, Invariance, PTL DEF Spec

\* Every reachable state has the stated types.
THEOREM TypeCorrect == Spec => []TypeOK
<1>1. IInv /\ LimitsOK => TypeOK
  <2>1. SUFFICES ASSUME IInv, LimitsOK PROVE TypeOK
    OBVIOUS
  <2>2. confirmed \subseteq Codes
    BY <2>1, RowFacts, BoundsAssumption DEF IInv, RowsOK, Codes
  <2> QED
    BY <2>1, <2>2 DEF IInv, RowsOK, CallsOK, TypeOK, LimitsOK, TriesOK, ResendsOK
<1> QED
  BY <1>1, Invariance, LimitsKept, PTL

\* However many guesses at a code overlap, no more of them are answered than
\* the attempts, less one, and the handlers there are: verifyEmail counts each
\* wrong one, in the database.
THEOREM GuessesAreBounded == Spec => []GuessesBounded
<1>1. LimitsOK => GuessesBounded
  <2>1. SUFFICES ASSUME LimitsOK PROVE GuessesBounded
    OBVIOUS
  <2>2. Guesses \in SUBSET Workers
    BY DEF Guesses
  <2>3. Cardinality(Guesses) \in Nat /\ Cardinality(Workers) \in Nat
    BY <2>2, Counts
  <2> QED
    BY <2>1, <2>3, BoundsAssumption DEF LimitsOK, TriesOK, GuessesBounded
<1> QED
  BY <1>1, LimitsKept, PTL

\* However the resends of one cooldown overlap, each handler in flight stores at
\* most one code.
THEOREM ResendsAreBounded == Spec => []ResendsBounded
<1>1. LimitsOK => ResendsBounded
  <2>1. SUFFICES ASSUME LimitsOK PROVE ResendsBounded
    OBVIOUS
  <2>2. Sending \in SUBSET Workers
    BY DEF Sending
  <2>3. Cardinality(Sending) \in Nat /\ Cardinality(Workers) \in Nat
    BY <2>2, Counts
  <2> QED
    BY <2>1, <2>3 DEF LimitsOK, ResendsOK, ResendsBounded
<1> QED
  BY <1>1, LimitsKept, PTL
=============================================================================
