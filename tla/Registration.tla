---------------------------- MODULE Registration ----------------------------
(***************************************************************************)
(* How the account of one email address comes to be, is verified and gets  *)
(* its sign-in methods: AuthService.register, verifyEmail,                 *)
(* resendVerificationOtp and googleLogin, and the nightly purge of         *)
(* unverified accounts, over accounts, auth_providers and                  *)
(* email_verification_otps.                                                *)
(*                                                                         *)
(* Whoever registers chooses a password; the code goes to the owner of the *)
(* address.  Several people may register the same address before one of    *)
(* their codes is entered, and the owner may come through Google instead.  *)
(* Accounts, OTP rows and codes are numbered as they are created.          *)
(***************************************************************************)
EXTENDS Naturals, FiniteSets

CONSTANTS
    MaxAccounts,  \* bound: account rows ever created for the address
    MaxCodes,     \* bound: codes ever generated
    MaxAttempts,  \* wrong codes after which a code is locked (5)
    Workers,      \* handlers that can be in flight at the same time
    Calls,        \* the operations the clients of this instance invoke
    Crashes       \* whether a handler may be cut off between two steps

AllCalls == {"register", "verifyEmail", "resendVerificationOtp", "googleLogin",
             "purgeUnverifiedAccounts"}

ASSUME BoundsAssumption ==
    MaxAccounts \in Nat /\ MaxCodes \in Nat /\ MaxAttempts \in Nat \ {0}
ASSUME WorkersAssumption == IsFiniteSet(Workers)
ASSUME CallsAssumption == Calls \subseteq AllCalls /\ Crashes \in BOOLEAN

VARIABLES
    account,    \* the accounts row of the address and its auth_providers
    otp,        \* its email_verification_otps row (unique on accountId)
    issued,     \* the last account id and the last code
    call,       \* the handler each worker is running
    confirmed,  \* history: the codes that were entered and accepted
    tried,      \* history: the guesses at the code in the row that were answered
    resent      \* history: the codes that resends have stored since the row was
                \* last free to be replaced: not cooling, or locked

vars == <<account, otp, issued, call, confirmed, tried, resent>>

-----------------------------------------------------------------------------
AccountIds == 1 .. MaxAccounts
Codes == 1 .. MaxCodes
Providers == {"password", "google"}

\* password is the code that has to be entered for passwordHash, or was (0 for
\* none): it says whose registration the password is from.  late is
\* history: a handler that had been overtaken wrote the password or verified.
Rows ==
    [id : AccountIds, verified : BOOLEAN, password : 0 .. MaxCodes,
     providers : SUBSET Providers, signedIn : BOOLEAN, late : BOOLEAN]
NoAccount == [id |-> 0, verified |-> FALSE, password |-> 0, providers |-> {},
              signedIn |-> FALSE, late |-> FALSE]

\* cooling: less than 60 seconds since updatedAt; over: usedAt is set or
\* expiresAt has passed.
Otps == [code : Codes, attempts : 0 .. MaxAttempts, over : BOOLEAN, cooling : BOOLEAN]
NoOtp == [code |-> 0, attempts |-> 0, over |-> TRUE, cooling |-> FALSE]
NewOtp(code) == [code |-> code, attempts |-> 0, over |-> FALSE, cooling |-> TRUE]

PCs == {"idle", "overwrite", "create", "findOtp", "count", "verify", "findRecord",
        "upsert", "googleFind", "googleTx", "issue"}
Idle == [pc |-> "idle", id |-> 0, code |-> 0, verified |-> FALSE, late |-> FALSE]

CallRecords ==
    [pc : PCs, id : 0 .. MaxAccounts,   \* the account that was found (0: none)
     code : 0 .. MaxCodes,              \* the code that was entered, and from
                                        \* "count" on the one it was compared with
     verified : BOOLEAN,                \* what googleLogin read of it
     late : BOOLEAN]                    \* history: what it read has changed

TypeOK ==
    /\ account \in Rows \union {NoAccount}
    /\ otp \in Otps \union {NoOtp}
    /\ issued \in [account : 0 .. MaxAccounts, code : 0 .. MaxCodes]
    /\ call \in [Workers -> CallRecords]
    /\ confirmed \subseteq Codes
    /\ tried \in Nat /\ resent \in Nat

Init ==
    /\ account = NoAccount
    /\ otp = NoOtp
    /\ issued = [account |-> 0, code |-> 0]
    /\ call = [w \in Workers |-> Idle]
    /\ confirmed = {}
    /\ tried = 0 /\ resent = 0

-----------------------------------------------------------------------------
Exists == account # NoAccount
Verified == account.verified
Locked == otp.attempts >= MaxAttempts
CanLogIn == Verified /\ "password" \in account.providers /\ account.password # 0

At(w, pc) == call[w].pc = pc
Start(w, op, r) ==
    /\ op \in Calls
    /\ call[w] = Idle
    /\ call' = [call EXCEPT ![w] = r]
    /\ UNCHANGED <<account, otp, issued, confirmed, tried, resent>>
Goto(w, pc) == call' = [call EXCEPT ![w].pc = pc]
Return(w) == call' = [call EXCEPT ![w] = Idle]

\* A handler changes the account or the code that the others have read, and
\* goes on to pc.
Overtake(w, pc) ==
    call' = [v \in Workers |->
               IF v = w THEN IF pc = "idle" THEN Idle ELSE [call[w] EXCEPT !.pc = pc]
               ELSE IF call[v] = Idle THEN Idle ELSE [call[v] EXCEPT !.late = TRUE]]

NewCode == issued.code + 1
NewAccount == issued.account + 1

\* A guess has been compared with the code in the row and is to be answered.
Comparing(w) ==
    /\ call[w].pc \in {"count", "verify"}
    /\ call[w].code = otp.code /\ call[w].id = account.id
Answer(w) == tried' = IF Comparing(w) THEN tried + 1 ELSE tried

-----------------------------------------------------------------------------
(* register.  The username is free and stays so (a username taken by then  *)
(* is an error of the same transaction); code and password are new.        *)

\* Refused when the account is verified and has a password already.
StartRegister(w) ==
    /\ ~(Verified /\ "password" \in account.providers)
    /\ Start(w, "register", [Idle EXCEPT !.pc = IF Exists THEN "overwrite" ELSE "create",
                                         !.id = account.id])

\* One transaction: the account by id (P2025 when it is gone), and its OTP row.
RegisterOverwrite(w) ==
    /\ At(w, "overwrite")
    /\ issued.code < MaxCodes
    /\ IF account.id = call[w].id
       THEN /\ account' = [account EXCEPT !.password = NewCode, !.late = @ \/ call[w].late]
            /\ otp' = NewOtp(NewCode)
            /\ issued' = [issued EXCEPT !.code = NewCode]
            /\ tried' = 0
            /\ Overtake(w, "idle")
       ELSE Return(w) /\ UNCHANGED <<account, otp, issued, tried>>
    /\ UNCHANGED <<confirmed, resent>>

\* One transaction: the account with a password provider, and its OTP row; a
\* second account of the address is refused (P2002).
RegisterCreate(w) ==
    /\ At(w, "create")
    /\ issued.code < MaxCodes /\ issued.account < MaxAccounts
    /\ IF ~Exists
       THEN /\ account' = [NoAccount EXCEPT !.id = NewAccount, !.password = NewCode,
                                            !.providers = {"password"}]
            /\ otp' = NewOtp(NewCode)
            /\ issued' = [account |-> NewAccount, code |-> NewCode]
            /\ tried' = 0
            /\ Overtake(w, "idle")
       ELSE Return(w) /\ UNCHANGED <<account, otp, issued, tried>>
    /\ UNCHANGED <<confirmed, resent>>

-----------------------------------------------------------------------------
(* verifyEmail: the account, its OTP record, and then either one attempt   *)
(* more or the transaction that verifies                                   *)

StartVerify(w, code) ==
    /\ Exists /\ ~Verified
    /\ Start(w, "verifyEmail", [Idle EXCEPT !.pc = "findOtp", !.id = account.id,
                                            !.code = code])

VerifyFindOtp(w) ==
    /\ At(w, "findOtp")
    /\ IF account.id # call[w].id \/ otp.over \/ Locked
       THEN Return(w)
       ELSE call' = [call EXCEPT
                       ![w].pc = IF otp.code = call[w].code THEN "verify" ELSE "count",
                       ![w].code = otp.code]
    /\ UNCHANGED <<account, otp, issued, confirmed, tried, resent>>

\* Mutant of VerifyCount: it counts whatever the attempts are by now.
VerifyCountOn(w) ==
    /\ At(w, "count")
    /\ otp' = IF account.id = call[w].id
              THEN [otp EXCEPT !.attempts = @ + 1, !.cooling = TRUE] ELSE otp
    /\ Answer(w)
    /\ resent' = IF Locked' THEN 0 ELSE resent
    /\ Return(w)
    /\ UNCHANGED <<account, issued, confirmed>>

\* Mutant of VerifyCount: a read and a write of the attempts, so that guesses
\* that overlap count once.
VerifyCountLost(w) ==
    /\ At(w, "count")
    /\ otp' = IF /\ account.id = call[w].id /\ ~Locked
                 /\ \A v \in Workers : Comparing(v) => v = w
              THEN [otp EXCEPT !.attempts = @ + 1, !.cooling = TRUE] ELSE otp
    /\ Answer(w)
    /\ resent' = IF Locked' THEN 0 ELSE resent
    /\ Return(w)
    /\ UNCHANGED <<account, issued, confirmed>>

\* updateMany where attempts < 5: the wrong code counts against whatever code
\* the row holds by now, and the write renews updatedAt.
VerifyCount(w) ==
    /\ At(w, "count")
    /\ otp' = IF account.id = call[w].id /\ ~Locked
              THEN [otp EXCEPT !.attempts = @ + 1, !.cooling = TRUE] ELSE otp
    /\ Answer(w)
    /\ resent' = IF Locked' THEN 0 ELSE resent
    /\ Return(w)
    /\ UNCHANGED <<account, issued, confirmed>>

\* One transaction: the OTP row is used, the account verified (P2025 when they
\* are gone).  An unverified account always has its password provider, so the
\* third statement, for one that has not, is never part of it.
VerifyTx(w) ==
    /\ At(w, "verify")
    /\ IF account.id = call[w].id
       THEN /\ otp' = [otp EXCEPT !.over = TRUE, !.cooling = TRUE]
            /\ account' = [account EXCEPT !.verified = TRUE, !.late = @ \/ call[w].late]
            /\ confirmed' = confirmed \union {call[w].code}
            /\ Answer(w)
            /\ Overtake(w, "issue")
       ELSE Return(w) /\ UNCHANGED <<account, otp, confirmed, tried>>
    /\ UNCHANGED <<issued, resent>>

\* generateTokenPair (the foreign key refuses it when the account is gone).
IssueToken(w) ==
    /\ At(w, "issue")
    /\ account' = IF account.id = call[w].id THEN [account EXCEPT !.signedIn = TRUE]
                  ELSE account
    /\ Return(w)
    /\ UNCHANGED <<otp, issued, confirmed, tried, resent>>

-----------------------------------------------------------------------------
(* resendVerificationOtp                                                   *)

StartResend(w) ==
    /\ Exists /\ ~Verified
    /\ Start(w, "resendVerificationOtp", [Idle EXCEPT !.pc = "findRecord", !.id = account.id])

\* Mutant of ResendFindRecord: the cooldown is left out.
ResendFindAnyRecord(w) ==
    /\ At(w, "findRecord")
    /\ Goto(w, "upsert")
    /\ UNCHANGED <<account, otp, issued, confirmed, tried, resent>>

\* A locked code may be replaced at once.
ResendFindRecord(w) ==
    /\ At(w, "findRecord")
    /\ IF account.id = call[w].id /\ otp.cooling /\ ~Locked
       THEN Return(w)
       ELSE Goto(w, "upsert")
    /\ UNCHANGED <<account, otp, issued, confirmed, tried, resent>>

\* A new code for the same password, unless the old one was accepted meanwhile.
ResendUpsert(w) ==
    /\ At(w, "upsert")
    /\ issued.code < MaxCodes
    /\ IF account.id = call[w].id
       THEN /\ otp' = NewOtp(NewCode)
            /\ account' = IF account.password = otp.code /\ otp.code \notin confirmed
                          THEN [account EXCEPT !.password = NewCode] ELSE account
            /\ issued' = [issued EXCEPT !.code = NewCode]
            /\ tried' = 0 /\ resent' = resent + 1
            /\ Overtake(w, "idle")
       ELSE Return(w) /\ UNCHANGED <<account, otp, issued, tried, resent>>
    /\ UNCHANGED confirmed

-----------------------------------------------------------------------------
(* googleLogin: the google provider of the address, or the transaction     *)
(* resolveGoogleAccount, which finds the account and then links, upgrades  *)
(* or creates it; others may commit between its two statements.            *)

StartGoogle(w) ==
    Start(w, "googleLogin",
          IF "google" \in account.providers
          THEN [Idle EXCEPT !.pc = "issue", !.id = account.id]
          ELSE [Idle EXCEPT !.pc = "googleFind"])

GoogleFind(w) ==
    /\ At(w, "googleFind")
    /\ call' = [call EXCEPT ![w] = [@ EXCEPT !.pc = "googleTx", !.id = account.id,
                                             !.verified = Verified]]
    /\ UNCHANGED <<account, otp, issued, confirmed, tried, resent>>

\* Mutant of Upgraded: the password of the unverified account is kept.
UpgradedWithPassword == [account EXCEPT !.verified = TRUE, !.providers = @ \union {"google"}]

\* The account of someone who had not verified the address: its password and
\* password provider are dropped.
Upgraded == [account EXCEPT !.verified = TRUE, !.password = 0, !.providers = {"google"}]

\* The unique google provider, an account that is gone and a second account
\* of the address abort the transaction.
GoogleTx(w) ==
    /\ At(w, "googleTx")
    /\ LET c == call[w]
           done(row) == /\ account' = [row EXCEPT !.signedIn = TRUE]
                        /\ Overtake(w, "idle")
       IN \/ /\ c.id # 0 /\ c.id = account.id /\ "google" \notin account.providers
             /\ done(IF c.verified THEN [account EXCEPT !.providers = @ \union {"google"}]
                     ELSE Upgraded)
             /\ UNCHANGED issued
          \/ /\ c.id = 0 /\ ~Exists /\ issued.account < MaxAccounts
             /\ done([NoAccount EXCEPT !.id = NewAccount, !.verified = TRUE,
                                       !.providers = {"google"}])
             /\ issued' = [issued EXCEPT !.account = NewAccount]
          \/ /\ c.id # account.id \/ "google" \in account.providers
             /\ Return(w)
             /\ UNCHANGED <<account, issued>>
    /\ UNCHANGED <<otp, confirmed, tried, resent>>

-----------------------------------------------------------------------------
(* The nightly purge, time and failures                                    *)

\* Mutant of PurgeUnverifiedAccounts: every account of the day before.
PurgeAccounts ==
    /\ "purgeUnverifiedAccounts" \in Calls
    /\ Exists
    /\ account' = NoAccount
    /\ otp' = NoOtp
    /\ tried' = 0 /\ resent' = 0
    /\ call' = [v \in Workers |-> IF call[v] = Idle THEN Idle ELSE [call[v] EXCEPT !.late = TRUE]]
    /\ UNCHANGED <<issued, confirmed>>

\* An account that is a day old and not verified, with all that hangs on it.
PurgeUnverifiedAccounts ==
    /\ "purgeUnverifiedAccounts" \in Calls
    /\ Exists /\ ~Verified
    /\ account' = NoAccount
    /\ otp' = NoOtp
    /\ tried' = 0 /\ resent' = 0
    /\ call' = [v \in Workers |-> IF call[v] = Idle THEN Idle ELSE [call[v] EXCEPT !.late = TRUE]]
    /\ UNCHANGED <<issued, confirmed>>

CooldownEnds ==
    /\ otp.cooling
    /\ otp' = [otp EXCEPT !.cooling = FALSE]
    /\ resent' = 0
    /\ UNCHANGED <<account, issued, call, confirmed, tried>>

\* Ten minutes after the code was made, and so within the cooldown only of a
\* wrong attempt.
CodeExpires ==
    /\ ~otp.over /\ (otp.cooling => otp.attempts > 0)
    /\ otp' = [otp EXCEPT !.over = TRUE]
    /\ UNCHANGED <<account, issued, call, confirmed, tried, resent>>

\* The process stops, or the next call to the database or the mail rejects.
Crash(w) ==
    /\ Crashes
    /\ call[w] # Idle
    /\ Return(w)
    /\ UNCHANGED <<account, otp, issued, confirmed, tried, resent>>

Begin(w) ==
    \/ StartRegister(w) \/ StartResend(w) \/ StartGoogle(w)
    \/ \E code \in 1 .. issued.code : StartVerify(w, code)

Step(w) ==
    \/ RegisterOverwrite(w) \/ RegisterCreate(w)
    \/ VerifyFindOtp(w) \/ VerifyCount(w) \/ VerifyTx(w) \/ IssueToken(w)
    \/ ResendFindRecord(w) \/ ResendUpsert(w)
    \/ GoogleFind(w) \/ GoogleTx(w)

Next ==
    \/ \E w \in Workers : Begin(w) \/ Step(w) \/ Crash(w)
    \/ PurgeUnverifiedAccounts \/ CooldownEnds \/ CodeExpires

Spec == Init /\ [][Next]_vars

-----------------------------------------------------------------------------
(* Properties                                                              *)

\* The password one can log in with was chosen together with a code that was
\* entered, or a handler that another had overtaken between its read and its
\* transaction wrote the password or verified the account: whoever registers an
\* address first, and whoever upgrades it through Google, nobody else's
\* password becomes the password of the account.
PasswordConfirmed == CanLogIn => account.password \in confirmed \/ account.late

\* The attempts are read before a guess is compared and counted after it, so
\* guesses in flight together all see the attempts of before.  No more guesses
\* at one code are answered than the attempts, less one, and the guesses that
\* are in flight at the last of them: none is lost in the counting.
GuessesBounded == tried <= MaxAttempts - 1 + Cardinality(Workers)

\* The cooldown is read before the code is replaced, by an upsert that does not
\* look at it again.  In one cooldown, which every renewal of the row prolongs,
\* resends store one code for each handler in flight at its start and no more.
ResendsBounded == resent <= Cardinality(Workers)

\* Who has been signed in has a verified account and keeps it: no registration,
\* sign-in or purge, however they interleave, takes it away.
SignedInKept ==
    [][account.signedIn =>
         account.verified /\ account'.signedIn /\ account'.id = account.id]_vars
=============================================================================
