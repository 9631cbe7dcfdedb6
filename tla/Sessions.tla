------------------------------ MODULE Sessions ------------------------------
(***************************************************************************)
(* The sessions of one verified account: AuthService, AuthPasswordService, *)
(* UserService.changePassword and TokenCleanupService over accounts,       *)
(* refresh_tokens and password_reset_tokens, and the user_profile cache    *)
(* that signing out and editing the profile clear.                         *)
(*                                                                         *)
(* A session is a chain of refresh tokens: a sign-in issues the first, and *)
(* each refresh deletes a token and issues the next.  Revoking deletes     *)
(* every token: resetPassword, changePassword, and logout without a token. *)
(*                                                                         *)
(* bcrypt, the signing of JWTs and a query take time and nothing else, so  *)
(* what a handler does after an await with what it read before it is one   *)
(* step with the read, up to the next statement.                           *)
(***************************************************************************)
EXTENDS Naturals, FiniteSets

CONSTANTS
    Passwords,   \* what passwordHash may be the hash of
    MaxTokens,   \* bound: refresh tokens ever issued
    MaxResets,   \* bound: password reset tokens ever created
    Workers,     \* handlers that can be in flight at the same time
    Calls,       \* the operations the clients of this instance invoke
    Crashes      \* whether a handler may be cut off between two steps

AllCalls == {"login", "google", "refreshToken", "logout", "logoutAll",
             "forgotPassword", "resetPassword", "changePassword",
             "getUserProfile", "updateProfile", "purgeExpiredRefreshTokens"}

ASSUME BoundsAssumption == MaxTokens \in Nat /\ MaxResets \in Nat
ASSUME CallsAssumption == Calls \subseteq AllCalls /\ Crashes \in BOOLEAN

VARIABLES
    password,   \* accounts.passwordHash
    token,      \* refresh_tokens, by the order in which they were issued
    reset,      \* password_reset_tokens, likewise
    profile,    \* Redis user_profile:<account>
    call        \* the handler each worker is running

vars == <<password, token, reset, profile, call>>

-----------------------------------------------------------------------------
TokenIds == 1 .. MaxTokens
ResetIds == 1 .. MaxResets

\* Of a refresh token: whether its row is there, the token it was rotated from
\* (0 for a sign-in), and as history, while it is there, whether its session
\* was begun before the last revocation (old), and whether it was issued by a
\* handler that a revocation overtook between its last check and the row it
\* stored, or descends from one (late).
Tokens ==
    [st : {"none", "stored", "deleted"}, parent : 0 .. MaxTokens,
     old : BOOLEAN, late : BOOLEAN]
NoToken == [st |-> "none", parent |-> 0, old |-> FALSE, late |-> FALSE]
Gone(t) == [NoToken EXCEPT !.st = "deleted", !.parent = t.parent]

\* Of a reset token: unused, used or deleted, and as history how often it set
\* the password and whether a handler that had used it up was cut off.
Resets ==
    [st : {"none", "unused", "used", "deleted"}, applied : 0 .. 2, cut : BOOLEAN]
NoReset == [st |-> "none", applied |-> 0, cut |-> FALSE]

\* A cached profile is what the tables say, older than that (stale), or stale
\* because a fill that was overtaken by an update stored it (late).
ProfileStates == {"miss", "current", "stale", "late"}

PCs == {"idle", "delete", "issue", "lastSeen", "delProfile", "deleteUnused",
        "create", "mail", "claim", "apply", "change", "set"}

NoPassword == "none"
Idle == [pc |-> "idle", id |-> 0, pw |-> NoPassword, seen |-> {}, old |-> FALSE, late |-> FALSE]

CallRecords ==
    [pc : PCs,
     id : 0 .. MaxTokens \union 0 .. MaxResets,   \* the token presented or created
     pw : Passwords \union {NoPassword},          \* the new password
     seen : SUBSET ResetIds,                      \* unused tokens about to be deleted
     old : BOOLEAN, late : BOOLEAN]               \* history, as for tokens

TypeOK ==
    /\ password \in Passwords
    /\ token \in [TokenIds -> Tokens]
    /\ reset \in [ResetIds -> Resets]
    /\ profile \in ProfileStates
    /\ call \in [Workers -> CallRecords]

Init ==
    /\ password \in Passwords
    /\ token = [t \in TokenIds |-> NoToken]
    /\ reset = [r \in ResetIds |-> NoReset]
    /\ profile = "miss"
    /\ call = [w \in Workers |-> Idle]

-----------------------------------------------------------------------------
At(w, pc) == call[w].pc = pc
Set(w, r) == call' = [call EXCEPT ![w] = r]
Goto(w, pc) == Set(w, [call[w] EXCEPT !.pc = pc])
Return(w) == Set(w, Idle)

Start(w, op, r) ==
    /\ op \in Calls
    /\ call[w] = Idle
    /\ Set(w, r)
    /\ UNCHANGED <<password, token, reset, profile>>

\* Mutant of DeleteTokens: the newest session alone.
DeleteNewestToken ==
    [t \in TokenIds |->
       IF token[t].st = "stored" /\ \A s \in TokenIds : token[s].st = "stored" => s <= t
       THEN Gone(token[t]) ELSE token[t]]

\* deleteMany({ accountId }).
DeleteTokens ==
    [t \in TokenIds |-> IF token[t].st = "stored" THEN Gone(token[t]) ELSE token[t]]

\* Handler w revokes the sessions and goes on to pc.  What is left of the
\* tokens is old from now on, and so is what a handler holds that has been let
\* in; it is late if nothing is left for it to check before it stores a token.
Revoke(w, pc) ==
    /\ LET left == DeleteTokens
       IN  token' = [t \in TokenIds |-> IF left[t].st = "stored"
                                        THEN [left[t] EXCEPT !.old = TRUE] ELSE left[t]]
    /\ call' = [v \in Workers |->
                  IF v = w THEN IF pc = "idle" THEN Idle ELSE [call[w] EXCEPT !.pc = pc]
                  ELSE IF At(v, "issue") THEN [call[v] EXCEPT !.old = TRUE, !.late = TRUE]
                  ELSE IF At(v, "delete") THEN [call[v] EXCEPT !.old = TRUE]
                  ELSE call[v]]

-----------------------------------------------------------------------------
(* login, googleLogin of a linked account, refreshToken                    *)

StartLogin(w, pw) ==
    /\ pw = password
    /\ Start(w, "login", [Idle EXCEPT !.pc = "issue"])

StartGoogle(w) == Start(w, "google", [Idle EXCEPT !.pc = "issue"])

\* jwt.verify refuses a token after its seven days, so such a one is not
\* presented; findUnique finds the row.
StartRefresh(w, t) ==
    /\ token[t].st = "stored"
    /\ Start(w, "refreshToken",
             [Idle EXCEPT !.pc = "delete", !.id = t,
                          !.old = token[t].old, !.late = token[t].late])

\* Mutant of RefreshDelete: deleteMany, which does not mind a row that is gone.
RefreshDeleteMany(w) ==
    /\ At(w, "delete")
    /\ token' = [token EXCEPT ![call[w].id] = Gone(@)]
    /\ Goto(w, "issue")
    /\ UNCHANGED <<password, reset, profile>>

\* delete by token: the row that is gone by now is an error (P2025).  The
\* account, which is read next, is there: only unverified ones are deleted.
RefreshDelete(w) ==
    /\ At(w, "delete")
    /\ IF token[call[w].id].st = "stored"
       THEN token' = [token EXCEPT ![call[w].id] = Gone(@)] /\ Goto(w, "issue")
       ELSE Return(w) /\ UNCHANGED token
    /\ UNCHANGED <<password, reset, profile>>

\* generateTokenPair: the row of the new refresh token.
IssueToken(w) ==
    /\ At(w, "issue")
    /\ \E t \in TokenIds :
         /\ token[t].st = "none" /\ \A s \in 1 .. (t - 1) : token[s].st # "none"
         /\ token' = [token EXCEPT ![t] = [st |-> "stored", parent |-> call[w].id,
                                          old |-> call[w].old, late |-> call[w].late]]
    /\ Return(w)
    /\ UNCHANGED <<password, reset, profile>>

-----------------------------------------------------------------------------
(* logout, with a token or without, then updateLastSeen                    *)

\* Mutant of StartLogout: the row is kept and marked.
StartLogoutMark(w, t) ==
    /\ "logout" \in Calls
    /\ call[w] = Idle
    /\ token[t].st # "none"
    /\ token' = [token EXCEPT ![t].st = "revoked"]
    /\ Set(w, [Idle EXCEPT !.pc = "lastSeen"])
    /\ UNCHANGED <<password, reset, profile>>

StartLogout(w, t) ==
    /\ "logout" \in Calls
    /\ call[w] = Idle
    /\ token[t].st # "none"
    /\ token' = [token EXCEPT ![t] = Gone(@)]
    /\ Set(w, [Idle EXCEPT !.pc = "lastSeen"])
    /\ UNCHANGED <<password, reset, profile>>

StartLogoutAll(w) ==
    /\ "logoutAll" \in Calls
    /\ call[w] = Idle
    /\ Revoke(w, "lastSeen")
    /\ UNCHANGED <<password, reset, profile>>

\* What is in the cache once the row it was made from has changed.
Outdated == IF profile = "current" THEN "stale" ELSE profile

\* A write of a column the profile shows: fills that read before it are late.
WriteProfileRow(w) ==
    /\ profile' = Outdated
    /\ call' = [v \in Workers |->
                  IF v = w THEN [call[w] EXCEPT !.pc = "delProfile"]
                  ELSE IF call[v].pc = "set" THEN [call[v] EXCEPT !.late = TRUE]
                  ELSE call[v]]

UpdateLastSeen(w) ==
    /\ At(w, "lastSeen")
    /\ WriteProfileRow(w)
    /\ UNCHANGED <<password, token, reset>>

\* Mutant of DelProfile: a key that no reader uses is deleted.
DelOtherKey(w) ==
    /\ At(w, "delProfile")
    /\ Return(w)
    /\ UNCHANGED <<password, token, reset, profile>>

DelProfile(w) ==
    /\ At(w, "delProfile")
    /\ profile' = "miss"
    /\ Return(w)
    /\ UNCHANGED <<password, token, reset>>

-----------------------------------------------------------------------------
(* forgotPassword.  Its transaction deletes the unused tokens it sees and  *)
(* creates one; another transaction may commit between the two statements. *)

StartForgot(w) == Start(w, "forgotPassword", [Idle EXCEPT !.pc = "deleteUnused"])

ForgotDeleteUnused(w) ==
    /\ At(w, "deleteUnused")
    /\ Set(w, [call[w] EXCEPT !.pc = "create",
                              !.seen = {r \in ResetIds : reset[r].st = "unused"}])
    /\ UNCHANGED <<password, token, reset, profile>>

ForgotCreate(w) ==
    /\ At(w, "create")
    /\ \E r \in ResetIds :
         /\ reset[r].st = "none" /\ \A s \in 1 .. (r - 1) : reset[s].st # "none"
         /\ reset' = [s \in ResetIds |->
                        IF s = r THEN [NoReset EXCEPT !.st = "unused"]
                        ELSE IF s \in call[w].seen /\ reset[s].st = "unused"
                             THEN [reset[s] EXCEPT !.st = "deleted"] ELSE reset[s]]
         /\ Set(w, [call[w] EXCEPT !.pc = "mail", !.id = r, !.seen = {}])
    /\ UNCHANGED <<password, token, profile>>

\* The mail goes out, or fails and leaves a token nobody presents.
ForgotMail(w) ==
    /\ At(w, "mail")
    /\ Return(w)
    /\ UNCHANGED <<password, token, reset, profile>>

-----------------------------------------------------------------------------
(* resetPassword: look the token up, use it up, then change the password   *)
(* and revoke all sessions in a transaction of its own                     *)

\* A token that was mailed, found unused, presented in its 15 minutes.
StartReset(w, r, pw) ==
    /\ reset[r].st = "unused"
    /\ \A v \in Workers : At(v, "mail") => call[v].id # r
    /\ Start(w, "resetPassword", [Idle EXCEPT !.pc = "claim", !.id = r, !.pw = pw])

\* Mutant of ResetClaim: update by id, whatever became of the token.
ResetClaimAnyway(w) ==
    /\ At(w, "claim")
    /\ IF reset[call[w].id].st # "deleted"
       THEN reset' = [reset EXCEPT ![call[w].id].st = "used"] /\ Goto(w, "apply")
       ELSE Return(w) /\ UNCHANGED reset
    /\ UNCHANGED <<password, token, profile>>

\* updateMany where usedAt is null: a count of 0 is an error.
ResetClaim(w) ==
    /\ At(w, "claim")
    /\ IF reset[call[w].id].st = "unused"
       THEN reset' = [reset EXCEPT ![call[w].id].st = "used"] /\ Goto(w, "apply")
       ELSE Return(w) /\ UNCHANGED reset
    /\ UNCHANGED <<password, token, profile>>

ResetApply(w) ==
    /\ At(w, "apply")
    /\ password' = call[w].pw
    /\ reset' = [reset EXCEPT ![call[w].id].applied = @ + 1]
    /\ Revoke(w, "idle")
    /\ UNCHANGED profile

\* changePassword compares the current password with the hash it has read.
StartChange(w, current, pw) ==
    /\ current = password
    /\ Start(w, "changePassword", [Idle EXCEPT !.pc = "change", !.pw = pw])

ChangeApply(w) ==
    /\ At(w, "change")
    /\ password' = call[w].pw
    /\ Revoke(w, "delProfile")
    /\ UNCHANGED <<reset, profile>>

-----------------------------------------------------------------------------
(* The user_profile cache, and time                                        *)

StartGetUserProfile(w) ==
    /\ profile = "miss"
    /\ Start(w, "getUserProfile", [Idle EXCEPT !.pc = "set"])

SetProfile(w) ==
    /\ At(w, "set")
    /\ profile' = IF call[w].late THEN "late" ELSE "current"
    /\ Return(w)
    /\ UNCHANGED <<password, token, reset>>

StartUpdateProfile(w) ==
    /\ "updateProfile" \in Calls
    /\ call[w] = Idle
    /\ WriteProfileRow(w)
    /\ UNCHANGED <<password, token, reset>>

ProfileExpires ==
    /\ profile # "miss"
    /\ profile' = "miss"
    /\ UNCHANGED <<password, token, reset, call>>

\* The cron job deletes the tokens whose seven days are over, whichever they are.
PurgeExpiredRefreshTokens ==
    /\ "purgeExpiredRefreshTokens" \in Calls
    /\ \E expired \in SUBSET {t \in TokenIds : token[t].st = "stored"} :
         /\ expired # {}
         /\ token' = [t \in TokenIds |-> IF t \in expired THEN Gone(token[t]) ELSE token[t]]
    /\ UNCHANGED <<password, reset, profile, call>>

\* The process stops, or the next call to a database or to Redis rejects.
Crash(w) ==
    /\ Crashes
    /\ call[w] # Idle
    /\ reset' = IF At(w, "apply") THEN [reset EXCEPT ![call[w].id].cut = TRUE] ELSE reset
    /\ profile' = IF At(w, "delProfile") /\ profile = "stale" THEN "late" ELSE profile
    /\ Return(w)
    /\ UNCHANGED <<password, token>>

-----------------------------------------------------------------------------
Begin(w) ==
    \/ \E pw \in Passwords : StartLogin(w, pw)
    \/ StartGoogle(w)
    \/ \E t \in TokenIds : StartRefresh(w, t) \/ StartLogout(w, t)
    \/ StartLogoutAll(w) \/ StartForgot(w)
    \/ \E r \in ResetIds, pw \in Passwords : StartReset(w, r, pw)
    \/ \E current \in Passwords, pw \in Passwords : StartChange(w, current, pw)
    \/ StartGetUserProfile(w) \/ StartUpdateProfile(w)

Step(w) ==
    \/ RefreshDelete(w) \/ IssueToken(w)
    \/ UpdateLastSeen(w) \/ DelProfile(w)
    \/ ForgotDeleteUnused(w) \/ ForgotCreate(w) \/ ForgotMail(w)
    \/ ResetClaim(w) \/ ResetApply(w) \/ ChangeApply(w)
    \/ SetProfile(w)

Next ==
    \/ \E w \in Workers : Begin(w) \/ Step(w) \/ Crash(w)
    \/ ProfileExpires \/ PurgeExpiredRefreshTokens

Spec == Init /\ [][Next]_vars

-----------------------------------------------------------------------------
(* Properties                                                              *)

\* A refresh token is rotated at most once, even if two requests present it at
\* the same time: a session never forks.
RotatedOnce ==
    \A s, t \in TokenIds : token[s].parent = token[t].parent /\ token[s].parent # 0 => s = t

\* A session begun before the last revocation of the account is over, unless a
\* handler with nothing left to check (a sign-in that has compared the password,
\* a refresh that has deleted its token) issued its token after the revocation:
\* a refresh that the revocation overtakes between its two queries does not
\* bring the session back.
SessionsRevoked ==
    \A t \in TokenIds : token[t].st = "stored" /\ token[t].old => token[t].late

\* A used reset token has set the password exactly once, or the handler that
\* used it up is about to, or it was cut off before it could; no other reset
\* token has set it at all.
ResetExactlyOnce ==
    \A r \in ResetIds :
        /\ reset[r].st = "used" =>
             \/ reset[r].applied = 1
             \/ reset[r].applied = 0
                /\ (reset[r].cut \/ \E w \in Workers : At(w, "apply") /\ call[w].id = r)
        /\ reset[r].st # "used" => reset[r].applied = 0

\* A cached profile that is out of date is about to be deleted, or its entry
\* was stored by a fill that an update overtook, or left by a handler that was
\* cut off between the update and the deletion.
ProfileCurrent ==
    profile = "stale" => \E w \in Workers : At(w, "delProfile")
=============================================================================
