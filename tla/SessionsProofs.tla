---------------------------- MODULE SessionsProofs ----------------------------
(***************************************************************************)
(* A session never forks, a revocation ends every session begun before it, *)
(* a reset token sets the password exactly once, and an outdated profile   *)
(* is about to be deleted: for every number of tokens, passwords and       *)
(* handlers, whatever calls are made and wherever handlers are cut off.    *)
(***************************************************************************)
EXTENDS Sessions, TLAPS

-----------------------------------------------------------------------------
(* The inductive invariant.                                                *)

\* What a handler holds when it gets to a step.
CallOK(r) ==
    /\ r \in CallRecords
    /\ r.pc = "delete" => r.id \in TokenIds
    /\ r.pc = "issue" => r.id \in 0 .. MaxTokens
    /\ r.pc \in {"mail", "claim", "apply"} => r.id \in ResetIds
    /\ r.pc \in {"claim", "apply", "change"} => r.pw \in Passwords

CallsOK == call \in [Workers -> CallRecords] /\ \A w \in Workers : CallOK(call[w])

StoreType ==
    /\ password \in Passwords
    /\ token \in [TokenIds -> Tokens]
    /\ reset \in [ResetIds -> Resets]
    /\ profile \in ProfileStates

\* The token that a token was rotated from is deleted, and so is the one that a
\* handler is about to rotate; no other token or handler descends from it.
RotatedGone ==
    /\ \A t \in TokenIds : token[t].st = "none" => token[t].parent = 0
    /\ \A t \in TokenIds : token[t].parent # 0 => token[token[t].parent].st = "deleted"
    /\ \A w \in Workers : At(w, "delete") => token[call[w].id].st # "none"

IssuesAlone ==
    \A w \in Workers : At(w, "issue") /\ call[w].id # 0 =>
        /\ token[call[w].id].st = "deleted"
        /\ \A t \in TokenIds : token[t].parent # call[w].id
        /\ \A v \in Workers : At(v, "issue") /\ call[v].id = call[w].id => v = w

\* Of a handler that a revocation has overtaken, or whose token it has: it is
\* late, or the token it is about to rotate is gone.
HoldersOK ==
    /\ \A w \in Workers : At(w, "issue") /\ call[w].old => call[w].late
    /\ \A w \in Workers : At(w, "delete") /\ call[w].old /\ ~call[w].late
                           => token[call[w].id].st # "stored"

TokensOK == RotatedGone /\ IssuesAlone /\ HoldersOK /\ RotatedOnce /\ SessionsRevoked

\* One handler at most is between using a reset token up and setting the
\* password with it, and the token has not been applied yet.
AppliesAlone ==
    \A w \in Workers : At(w, "apply") =>
        /\ reset[call[w].id].st = "used" /\ reset[call[w].id].applied = 0
        /\ \A v \in Workers : At(v, "apply") /\ call[v].id = call[w].id => v = w

ResetsOK == AppliesAlone /\ ResetExactlyOnce

IInv == CallsOK /\ StoreType /\ TokensOK /\ ResetsOK /\ ProfileCurrent

-----------------------------------------------------------------------------
(* Calls: handler w becomes r, and the others stay where they are.         *)

Moves(w, r) ==
    /\ call' \in [Workers -> CallRecords]
    /\ call'[w] = r
    /\ \A v \in Workers \ {w} :
         /\ call'[v].pc = call[v].pc /\ call'[v].id = call[v].id /\ call'[v].pw = call[v].pw
         /\ call[v].late => call'[v].late
         /\ call'[v].old => \/ call[v].old \/ call'[v].late
                            \/ call[v].pc = "delete" /\ token'[call[v].id].st # "stored"

LEMMA IdleOK == CallOK(Idle)
BY BoundsAssumption DEF CallOK, Idle, CallRecords, PCs

LEMMA MovesOK ==
    ASSUME CallsOK, NEW w \in Workers, NEW r, CallOK(r), Moves(w, r) PROVE CallsOK'
BY DEF CallsOK, CallOK, Moves

LEMMA SetMoves ==
    ASSUME CallsOK, NEW w \in Workers, NEW r, CallOK(r), Set(w, r) PROVE Moves(w, r)
BY DEF CallsOK, CallOK, Set, Moves

\* A revocation leaves no token and takes nothing else away.
LEMMA RevokeEnds ==
    ASSUME StoreType, NEW w \in Workers, NEW pc, Revoke(w, pc)
    PROVE  /\ \A t \in TokenIds : token'[t].st # "stored"
           /\ token' = DeleteTokens
<1>1. \A t \in TokenIds : Gone(token[t]).st # "stored"
  BY DEF Gone, NoToken
<1>2. \A t \in TokenIds : DeleteTokens[t].st # "stored"
  BY <1>1 DEF DeleteTokens
<1>3. token' = [t \in TokenIds |-> DeleteTokens[t]]
  BY <1>2 DEF Revoke
<1>4. token' = DeleteTokens
  BY <1>3 DEF DeleteTokens
<1> QED
  BY <1>2, <1>4

LEMMA RevokeMoves ==
    ASSUME CallsOK, StoreType, NEW w \in Workers, NEW pc \in PCs, Revoke(w, pc),
           NEW r, r = (IF pc = "idle" THEN Idle ELSE [call[w] EXCEPT !.pc = pc]), CallOK(r)
    PROVE  Moves(w, r)
<1>1. \A v \in Workers : /\ [call[v] EXCEPT !.old = TRUE, !.late = TRUE] \in CallRecords
                         /\ [call[v] EXCEPT !.old = TRUE] \in CallRecords
  BY DEF CallsOK, CallRecords
<1>2. \A v \in Workers : call'[v] =
        IF v = w THEN r
        ELSE IF At(v, "issue") THEN [call[v] EXCEPT !.old = TRUE, !.late = TRUE]
        ELSE IF At(v, "delete") THEN [call[v] EXCEPT !.old = TRUE]
        ELSE call[v]
  BY DEF Revoke
<1>3. call' \in [Workers -> CallRecords]
  BY <1>1, <1>2 DEF Revoke, CallsOK, CallOK
<1>4. ASSUME NEW v \in Workers \ {w}
      PROVE  /\ call'[v].pc = call[v].pc /\ call'[v].id = call[v].id
             /\ call'[v].pw = call[v].pw
             /\ call[v].late => call'[v].late
             /\ call'[v].old => \/ call[v].old \/ call'[v].late
                                \/ call[v].pc = "delete" /\ token'[call[v].id].st # "stored"
  <2>1. call[v] \in CallRecords
    BY DEF CallsOK
  <2>2. CASE At(v, "issue")
    BY <1>2, <2>1, <2>2 DEF CallRecords
  <2>3. CASE At(v, "delete")
    <3>1. call'[v] = [call[v] EXCEPT !.old = TRUE]
      BY <1>2, <2>3 DEF At
    <3>2. token'[call[v].id].st # "stored"
      BY <2>3, RevokeEnds DEF CallsOK, CallOK, At
    <3> QED
      BY <2>1, <2>3, <3>1, <3>2 DEF CallRecords, At
  <2>4. CASE ~At(v, "issue") /\ ~At(v, "delete")
    BY <1>2, <2>4
  <2> QED
    BY <2>2, <2>3, <2>4
<1> QED
  BY <1>2, <1>3, <1>4 DEF Moves

LEMMA ProfileMoves ==
    ASSUME CallsOK, NEW w \in Workers, WriteProfileRow(w)
    PROVE  LET r == [call[w] EXCEPT !.pc = "delProfile"] IN CallOK(r) /\ Moves(w, r)
<1> DEFINE r == [call[w] EXCEPT !.pc = "delProfile"]
<1>1. CallOK(r)
  BY DEF CallsOK, CallOK, CallRecords, PCs
<1>2. \A v \in Workers : [call[v] EXCEPT !.late = TRUE] \in CallRecords
  BY DEF CallsOK, CallRecords
<1>3. \A v \in Workers : call'[v] =
        IF v = w THEN r
        ELSE IF call[v].pc = "set" THEN [call[v] EXCEPT !.late = TRUE] ELSE call[v]
  BY DEF WriteProfileRow
<1>4. call' \in [Workers -> CallRecords]
  BY <1>1, <1>2, <1>3 DEF WriteProfileRow, CallsOK, CallOK
<1> QED
  BY <1>1, <1>3, <1>4 DEF Moves, CallsOK, CallOK, CallRecords

-----------------------------------------------------------------------------
(* Tokens.                                                                 *)

\* Some stored tokens are gone, the rest is as it was.
Removes ==
    /\ token' \in [TokenIds -> Tokens]
    /\ \A t \in TokenIds :
         token'[t] = token[t] \/ (token[t].st # "none" /\ token'[t] = Gone(token[t]))

LEMMA GoneType ==
    ASSUME NEW t \in Tokens
    PROVE  /\ Gone(t) \in Tokens /\ Gone(t).st = "deleted" /\ Gone(t).parent = t.parent
BY BoundsAssumption DEF Gone, NoToken, Tokens

LEMMA RevokeRemoves ==
    ASSUME StoreType, NEW w \in Workers, NEW pc, Revoke(w, pc) PROVE Removes
BY GoneType, RevokeEnds DEF StoreType, DeleteTokens, Removes

LEMMA GoneRemoves ==
    ASSUME StoreType, NEW t \in TokenIds, token[t].st # "none",
           token' = [token EXCEPT ![t] = Gone(@)]
    PROVE  Removes
BY GoneType DEF StoreType, Removes

LEMMA RemovesKeeps ==
    ASSUME StoreType, Removes
    PROVE  /\ \A t \in TokenIds : /\ token'[t].parent = token[t].parent
                                  /\ token'[t].st = "none" <=> token[t].st = "none"
                                  /\ token[t].st = "deleted" => token'[t].st = "deleted"
                                  /\ token'[t].st = "stored" => token'[t] = token[t]
BY GoneType DEF StoreType, Removes, Tokens

\* No handler sets out to rotate a token but those that did before.
LEMMA RemovesTokens ==
    ASSUME CallsOK, StoreType, TokensOK, Removes, CallsOK', HoldersOK',
           \A v \in Workers : At(v, "delete")' => token[call'[v].id].st # "none",
           \A v \in Workers : At(v, "issue")' /\ call'[v].id # 0 =>
              At(v, "issue") /\ call'[v].id = call[v].id
    PROVE  TokensOK'
<1>1. RotatedGone'
  <2>1. \A t \in TokenIds : token[t].parent \in 0 .. MaxTokens
    BY DEF StoreType, Tokens
  <2>2. \A t \in TokenIds : token[t].parent # 0 => token[t].parent \in TokenIds
    BY <2>1, BoundsAssumption DEF TokenIds
  <2>3. \A v \in Workers : At(v, "delete")' => call'[v].id \in TokenIds
    BY DEF CallsOK, CallOK, At
  <2> QED
    BY <2>2, <2>3, RemovesKeeps DEF TokensOK, RotatedGone
<1>2. IssuesAlone'
  <2>1. \A v \in Workers : At(v, "issue") /\ call[v].id # 0 => call[v].id \in TokenIds
    BY BoundsAssumption DEF CallsOK, CallOK, At, TokenIds
  <2> QED
    BY <2>1, RemovesKeeps DEF TokensOK, IssuesAlone
<1>3. RotatedOnce'
  BY RemovesKeeps DEF TokensOK, RotatedOnce
<1>4. SessionsRevoked'
  BY RemovesKeeps DEF TokensOK, SessionsRevoked
<1> QED
  BY <1>1, <1>2, <1>3, <1>4 DEF TokensOK

\* The others hold what they held, and handler w holds nothing out of order.
LEMMA RemovesHolders ==
    ASSUME CallsOK, StoreType, TokensOK, Removes, NEW w \in Workers, NEW r, Moves(w, r),
           r.pc = "issue" /\ r.old => r.late,
           r.pc = "delete" /\ r.old => r.late
    PROVE  HoldersOK'
<1>1. \A v \in Workers : At(v, "delete") => call[v].id \in TokenIds
  BY DEF CallsOK, CallOK, At
<1>2. \A v \in Workers : At(v, "issue")' /\ call'[v].old => call'[v].late
  BY DEF Moves, At, TokensOK, HoldersOK
<1>3. \A v \in Workers \ {w} : At(v, "delete")' /\ call'[v].old /\ ~call'[v].late
                               => token'[call'[v].id].st # "stored"
  BY <1>1, RemovesKeeps DEF Moves, At, TokensOK, HoldersOK
<1>4. At(w, "delete")' /\ call'[w].old => call'[w].late
  BY DEF Moves, At
<1> QED
  BY <1>2, <1>3, <1>4 DEF HoldersOK

-----------------------------------------------------------------------------
(* Resets, the profile, and the steps that change neither of them oddly.   *)

LEMMA SameResets ==
    ASSUME ResetsOK, reset' = reset,
           \A v \in Workers : At(v, "apply")' <=> At(v, "apply"),
           \A v \in Workers : At(v, "apply") => call'[v].id = call[v].id
    PROVE  ResetsOK'
BY DEF ResetsOK, AppliesAlone, ResetExactlyOnce

LEMMA SameProfile ==
    ASSUME ProfileCurrent,
           \/ profile' # "stale"
           \/ \E v \in Workers : At(v, "delProfile")'
           \/ profile' = profile /\ \A v \in Workers : At(v, "delProfile") => At(v, "delProfile")'
    PROVE  ProfileCurrent'
BY DEF ProfileCurrent

LEMMA RemovingStep ==
    ASSUME IInv, NEW w \in Workers, NEW r, CallOK(r), Moves(w, r), Removes,
           r.pc = "delete" => token[r.id].st # "none" /\ (r.old => r.late),
           r.pc = "issue" => r.id = 0 /\ ~r.old,
           reset' \in [ResetIds -> Resets], ResetsOK',
           password' \in Passwords, profile' \in ProfileStates,
           \/ profile' # "stale"
           \/ r.pc = "delProfile"
           \/ profile' = profile /\ call[w].pc # "delProfile"
    PROVE  IInv'
<1>1. CallsOK'
  BY MovesOK DEF IInv
<1>2. StoreType'
  BY DEF IInv, StoreType, Removes
<1>3. TokensOK'
  <2>1. \A v \in Workers : At(v, "delete")' => token[call'[v].id].st # "none"
    BY DEF IInv, Moves, At, TokensOK, RotatedGone
  <2>2. \A v \in Workers : At(v, "issue")' /\ call'[v].id # 0 =>
           At(v, "issue") /\ call'[v].id = call[v].id
    BY DEF Moves, At
  <2>3. HoldersOK'
    BY RemovesHolders DEF IInv
  <2> QED
    BY <1>1, <2>1, <2>2, <2>3, RemovesTokens DEF IInv
<1>4. ProfileCurrent'
  <2>1. \A v \in Workers \ {w} : At(v, "delProfile") => At(v, "delProfile")'
    BY DEF Moves, At
  <2>2. r.pc = "delProfile" => At(w, "delProfile")'
    BY DEF Moves, At
  <2>3. \/ profile' # "stale"
        \/ \E v \in Workers : At(v, "delProfile")'
        \/ profile' = profile /\ \A v \in Workers : At(v, "delProfile") => At(v, "delProfile")'
    BY <2>1, <2>2 DEF At
  <2> QED
    BY <2>3, SameProfile DEF IInv
<1> QED
  BY <1>1, <1>2, <1>3, <1>4 DEF IInv

LEMMA PlainStep ==
    ASSUME IInv, NEW w \in Workers, NEW r, CallOK(r), Moves(w, r), Removes,
           r.pc = "delete" => token[r.id].st # "none" /\ (r.old => r.late),
           r.pc = "issue" => r.id = 0 /\ ~r.old,
           call[w].pc # "apply", r.pc # "apply", reset' = reset,
           password' \in Passwords, profile' \in ProfileStates,
           \/ profile' # "stale"
           \/ r.pc = "delProfile"
           \/ profile' = profile /\ call[w].pc # "delProfile"
    PROVE  IInv'
<1>1. \A v \in Workers : At(v, "apply")' <=> At(v, "apply")
  BY DEF Moves, At
<1>2. \A v \in Workers : At(v, "apply") => call'[v].id = call[v].id
  BY DEF Moves, At
<1>3. ResetsOK' /\ reset' \in [ResetIds -> Resets]
  BY <1>1, <1>2, SameResets DEF IInv, StoreType
<1> QED
  BY <1>3, RemovingStep

-----------------------------------------------------------------------------
(* Starting a handler.                                                     *)

LEMMA Basics ==
    ASSUME IInv
    PROVE  /\ CallsOK /\ StoreType /\ TokensOK /\ ResetsOK /\ ProfileCurrent
           /\ MaxTokens \in Nat /\ MaxResets \in Nat
BY BoundsAssumption DEF IInv

LEMMA SameRemoves == ASSUME StoreType, token' = token PROVE Removes
BY DEF StoreType, Removes

LEMMA StartStep ==
    ASSUME IInv, NEW w \in Workers, NEW op, NEW r, Start(w, op, r), CallOK(r),
           r.pc = "delete" => token[r.id].st # "none" /\ (r.old => r.late),
           r.pc = "issue" => r.id = 0 /\ ~r.old, r.pc # "apply"
    PROVE  IInv'
<1>1. /\ call[w] = Idle /\ Set(w, r) /\ UNCHANGED <<password, token, reset, profile>>
  BY DEF Start
<1>2. call[w].pc = "idle"
  BY <1>1 DEF Idle
<1>3. Moves(w, r) /\ Removes
  BY <1>1, Basics, SetMoves, SameRemoves
<1>4. password' \in Passwords /\ profile' \in ProfileStates
  BY <1>1 DEF IInv, StoreType
<1> QED
  BY <1>1, <1>2, <1>3, <1>4, PlainStep

LEMMA ProfileRowStep ==
    ASSUME IInv, NEW w \in Workers, WriteProfileRow(w), call[w].pc # "apply",
           UNCHANGED <<password, token, reset>>
    PROVE  IInv'
<1> DEFINE r == [call[w] EXCEPT !.pc = "delProfile"]
<1>1. CallOK(r) /\ Moves(w, r) /\ Removes
  BY Basics, ProfileMoves, SameRemoves
<1>2. r.pc = "delProfile"
  BY Basics DEF CallsOK, CallRecords
<1>3. password' \in Passwords /\ profile' \in ProfileStates
  BY DEF IInv, StoreType, WriteProfileRow, Outdated, ProfileStates
<1> QED
  BY <1>1, <1>2, <1>3, PlainStep

LEMMA BeginStep == ASSUME IInv, NEW w \in Workers, Begin(w) PROVE IInv'
<1> USE DEF CallRecords, PCs, Idle
<1>0. /\ CallsOK /\ StoreType /\ TokensOK /\ MaxTokens \in Nat /\ MaxResets \in Nat
      /\ Idle \in CallRecords
  BY Basics, IdleOK DEF CallOK
<1>1. ASSUME NEW pw \in Passwords, StartLogin(w, pw) \/ StartGoogle(w) PROVE IInv'
  <2> DEFINE r == [Idle EXCEPT !.pc = "issue"]
  <2>1. CallOK(r)
    <3>1. r \in CallRecords
      BY <1>0
    <3>2. r.id = 0 /\ r.pc = "issue" /\ ~r.old
      OBVIOUS
    <3>3. 0 \in 0 .. MaxTokens
      BY <1>0
    <3> QED
      BY <3>1, <3>2, <3>3 DEF CallOK
  <2>2. PICK op : Start(w, op, r)
    BY <1>1 DEF StartLogin, StartGoogle
  <2> QED
    BY <2>1, <2>2, StartStep
<1>2. ASSUME NEW t \in TokenIds, StartRefresh(w, t) PROVE IInv'
  <2> DEFINE r == [Idle EXCEPT !.pc = "delete", !.id = t, !.old = token[t].old,
                               !.late = token[t].late]
  <2>1. token[t] \in Tokens /\ token[t].st = "stored" /\ (token[t].old => token[t].late)
    BY <1>0, <1>2 DEF StoreType, StartRefresh, TokensOK, SessionsRevoked
  <2>2. CallOK(r)
    <3>1. t \in 0 .. MaxTokens
      BY <1>0 DEF TokenIds
    <3>2. r \in CallRecords
      BY <1>0, <2>1, <3>1 DEF Tokens
    <3>3. r.id = t /\ r.pc = "delete" /\ r.old = token[t].old /\ r.late = token[t].late
      OBVIOUS
    <3> QED
      BY <2>1, <3>2, <3>3 DEF CallOK
  <2>3. Start(w, "refreshToken", r)
    BY <1>2 DEF StartRefresh
  <2> QED
    BY <2>1, <2>2, <2>3, StartStep
<1>3. ASSUME NEW t \in TokenIds, StartLogout(w, t) PROVE IInv'
  <2> DEFINE r == [Idle EXCEPT !.pc = "lastSeen"]
  <2>1. CallOK(r) /\ call[w].pc = "idle"
    BY <1>0, <1>3 DEF CallOK, StartLogout
  <2>2. Moves(w, r) /\ Removes
    BY <1>0, <1>3, <2>1, SetMoves, GoneRemoves DEF StartLogout
  <2>3. password' \in Passwords /\ profile' \in ProfileStates
    BY <1>0, <1>3 DEF StartLogout, StoreType
  <2> QED
    BY <1>3, <2>1, <2>2, <2>3, PlainStep DEF StartLogout
<1>4. CASE StartLogoutAll(w)
  <2> DEFINE r == [call[w] EXCEPT !.pc = "lastSeen"]
  <2>1. CallOK(r) /\ call[w].pc = "idle" /\ r.pc = "lastSeen"
    BY <1>0, <1>4 DEF CallOK, StartLogoutAll
  <2>2. Moves(w, r) /\ Removes
    BY <1>0, <1>4, <2>1, RevokeMoves, RevokeRemoves DEF StartLogoutAll
  <2>3. password' \in Passwords /\ profile' \in ProfileStates
    BY <1>0, <1>4 DEF StartLogoutAll, StoreType
  <2> QED
    BY <1>4, <2>1, <2>2, <2>3, PlainStep DEF StartLogoutAll
<1>5. CASE StartForgot(w)
  <2>1. CallOK([Idle EXCEPT !.pc = "deleteUnused"])
    BY <1>0 DEF CallOK
  <2> QED
    BY <1>5, <2>1, StartStep DEF StartForgot
<1>6. ASSUME NEW i \in ResetIds, NEW pw \in Passwords, StartReset(w, i, pw) PROVE IInv'
  <2> DEFINE r == [Idle EXCEPT !.pc = "claim", !.id = i, !.pw = pw]
  <2>1. CallOK(r)
    <3>1. i \in 0 .. MaxResets
      BY <1>0 DEF ResetIds
    <3>2. r \in CallRecords
      BY <1>0, <3>1
    <3>3. r.id = i /\ r.pc = "claim" /\ r.pw = pw /\ ~r.old
      OBVIOUS
    <3> QED
      BY <3>2, <3>3 DEF CallOK
  <2> QED
    BY <1>6, <2>1, StartStep DEF StartReset
<1>7. ASSUME NEW old \in Passwords, NEW pw \in Passwords, StartChange(w, old, pw) PROVE IInv'
  <2>1. CallOK([Idle EXCEPT !.pc = "change", !.pw = pw])
    BY <1>0 DEF CallOK
  <2> QED
    BY <1>7, <2>1, StartStep DEF StartChange
<1>8. CASE StartGetUserProfile(w)
  <2>1. CallOK([Idle EXCEPT !.pc = "set"])
    BY <1>0 DEF CallOK
  <2> QED
    BY <1>8, <2>1, StartStep DEF StartGetUserProfile
<1>9. CASE StartUpdateProfile(w)
  BY <1>9, ProfileRowStep DEF StartUpdateProfile
<1>10. \E pw : pw \in Passwords
  BY <1>0 DEF StoreType
<1> QED
  BY <1>1, <1>2, <1>3, <1>4, <1>5, <1>6, <1>7, <1>8, <1>9, <1>10 DEF Begin

-----------------------------------------------------------------------------
(* The steps that change a token.                                          *)

\* What holds of the calls and of what is not about tokens.
LEMMA OtherwiseSame ==
    ASSUME IInv, NEW w \in Workers, NEW r, Set(w, r), CallOK(r),
           call[w].pc \notin {"apply", "delProfile"}, r.pc # "apply",
           UNCHANGED <<password, reset, profile>>
    PROVE  CallsOK' /\ ResetsOK' /\ ProfileCurrent' /\ Moves(w, r)
<1>1. Moves(w, r)
  BY Basics, SetMoves
<1>2. CallsOK'
  BY <1>1, Basics, MovesOK
<1>3. /\ \A v \in Workers : At(v, "apply")' <=> At(v, "apply")
      /\ \A v \in Workers : At(v, "apply") => call'[v].id = call[v].id
      /\ \A v \in Workers : At(v, "delProfile") => At(v, "delProfile")'
  BY <1>1 DEF Moves, At
<1>4. ResetsOK' /\ ProfileCurrent'
  BY <1>3, Basics, SameResets, SameProfile
<1> QED
  BY <1>1, <1>2, <1>4

LEMMA RefreshStep == ASSUME IInv, NEW w \in Workers, RefreshDelete(w) PROVE IInv'
<1> DEFINE i == call[w].id
<1>0. /\ CallsOK /\ StoreType /\ TokensOK /\ call[w] \in CallRecords
      /\ CallOK(call[w]) /\ call[w].pc = "delete" /\ i \in TokenIds
      /\ MaxTokens \in Nat
  BY Basics DEF CallsOK, CallOK, RefreshDelete, At
<1>1. CASE token[i].st # "stored"
  <2>1. Set(w, Idle) /\ UNCHANGED <<password, token, reset, profile>>
    BY <1>1 DEF RefreshDelete, Return
  <2>2. Moves(w, Idle) /\ Removes
    BY <1>0, <2>1, IdleOK, SetMoves, SameRemoves
  <2> QED
    BY <1>0, <2>1, <2>2, IdleOK, PlainStep DEF Idle, StoreType
<1>2. CASE token[i].st = "stored"
  <2> DEFINE r == [call[w] EXCEPT !.pc = "issue"]
  <2>1. /\ token' = [token EXCEPT ![i] = Gone(@)] /\ Set(w, r)
        /\ UNCHANGED <<password, reset, profile>>
    BY <1>2 DEF RefreshDelete, Goto
  <2>2. CallOK(r) /\ r.pc = "issue" /\ r.id = i /\ i # 0
    BY <1>0 DEF CallOK, CallRecords, PCs, TokenIds
  <2>3. CallsOK' /\ ResetsOK' /\ ProfileCurrent' /\ Moves(w, r)
    BY <1>0, <2>1, <2>2, OtherwiseSame
  <2>4. Removes
    BY <1>0, <1>2, <2>1, GoneRemoves
  <2>5. StoreType'
    BY <1>0, <2>1, <2>4 DEF StoreType, Removes
  <2>6. token'[i].st = "deleted"
    BY <1>0, <2>1, GoneType DEF StoreType
  <2>7. RotatedGone'
    <3>1. \A t \in TokenIds : token[t].parent # 0 => token[t].parent \in TokenIds
      BY <1>0 DEF StoreType, Tokens, TokenIds
    <3>2. \A v \in Workers : At(v, "delete")' =>
             At(v, "delete") /\ call'[v].id = call[v].id /\ call[v].id \in TokenIds
      BY <1>0, <2>2, <2>3 DEF Moves, At, CallsOK, CallOK
    <3> QED
      BY <1>0, <2>4, <3>1, <3>2, RemovesKeeps DEF TokensOK, RotatedGone
  <2>8. IssuesAlone'
    <3>1. \A t \in TokenIds : token[t].parent # i
      BY <1>0, <1>2, <2>2 DEF TokensOK, RotatedGone
    <3>2. \A v \in Workers \ {w} : At(v, "issue")' =>
             At(v, "issue") /\ call'[v].id = call[v].id
      BY <2>3 DEF Moves, At
    <3>3. \A v \in Workers \ {w} : At(v, "issue") /\ call[v].id # 0 =>
             call[v].id # i /\ call[v].id \in TokenIds
      BY <1>0, <1>2 DEF TokensOK, IssuesAlone, CallsOK, CallOK, At, TokenIds
    <3>4. call'[w] = r
      BY <2>3 DEF Moves
    <3>5. ASSUME NEW v \in Workers \ {w}, At(v, "issue")', call'[v].id # 0
          PROVE  /\ token'[call'[v].id].st = "deleted"
                 /\ \A t \in TokenIds : token'[t].parent # call'[v].id
                 /\ \A u \in Workers : At(u, "issue")' /\ call'[u].id = call'[v].id => u = v
      <4>1. /\ At(v, "issue") /\ call'[v].id = call[v].id
            /\ call[v].id # i /\ call[v].id \in TokenIds
        BY <3>2, <3>3, <3>5
      <4>2. /\ token[call[v].id].st = "deleted"
            /\ \A t \in TokenIds : token[t].parent # call[v].id
            /\ \A u \in Workers : At(u, "issue") /\ call[u].id = call[v].id => u = v
        BY <1>0, <3>5, <4>1 DEF TokensOK, IssuesAlone
      <4>3. \A u \in Workers \ {w} : At(u, "issue")' /\ call'[u].id = call'[v].id => u = v
        BY <3>2, <4>1, <4>2
      <4>4. call'[w].id # call'[v].id
        BY <2>2, <3>4, <4>1
      <4> QED
        BY <1>0, <2>4, <4>1, <4>2, <4>3, <4>4, RemovesKeeps
    <3>6. /\ \A t \in TokenIds : token'[t].parent # i
          /\ \A u \in Workers : At(u, "issue")' /\ call'[u].id = i => u = w
      BY <1>0, <2>2, <2>4, <3>1, <3>2, <3>3, RemovesKeeps
    <3> QED
      BY <2>2, <2>6, <3>4, <3>5, <3>6 DEF IssuesAlone
  <2>9. RotatedOnce' /\ SessionsRevoked'
    BY <1>0, <2>4, RemovesKeeps DEF TokensOK, RotatedOnce, SessionsRevoked
  <2>10. HoldersOK'
    <3>1. r.old = call[w].old /\ r.late = call[w].late
      BY <1>0 DEF CallRecords
    <3>2. call[w].old => call[w].late
      BY <1>0, <1>2 DEF TokensOK, HoldersOK, At
    <3> QED
      BY <1>0, <2>2, <2>3, <2>4, <3>1, <3>2, RemovesHolders
  <2> QED
    BY <2>3, <2>5, <2>7, <2>8, <2>9, <2>10 DEF IInv, TokensOK
<1> QED
  BY <1>1, <1>2

LEMMA IssueStep == ASSUME IInv, NEW w \in Workers, IssueToken(w) PROVE IInv'
<1> DEFINE i == call[w].id
           new == [st |-> "stored", parent |-> i, old |-> call[w].old, late |-> call[w].late]
<1>0. /\ CallsOK /\ StoreType /\ TokensOK /\ call[w] \in CallRecords
      /\ call[w].pc = "issue" /\ i \in 0 .. MaxTokens /\ (call[w].old => call[w].late)
      /\ MaxTokens \in Nat
  BY Basics DEF CallsOK, CallOK, IssueToken, At, TokensOK, HoldersOK
<1>1. PICK n \in TokenIds : token[n].st = "none" /\ token' = [token EXCEPT ![n] = new]
  BY DEF IssueToken
<1>2. Set(w, Idle) /\ UNCHANGED <<password, reset, profile>>
  BY DEF IssueToken, Return
<1>3. CallsOK' /\ ResetsOK' /\ ProfileCurrent' /\ Moves(w, Idle)
  BY <1>0, <1>2, IdleOK, OtherwiseSame DEF Idle
<1>4. new \in Tokens
  BY <1>0 DEF Tokens, CallRecords
<1>5. StoreType' /\ token'[n] = new /\ \A t \in TokenIds \ {n} : token'[t] = token[t]
  BY <1>0, <1>1, <1>2, <1>4 DEF StoreType
<1>6. \A v \in Workers : v # w => call'[v].pc = call[v].pc /\ call'[v].id = call[v].id
  BY <1>3 DEF Moves
<1>7. call'[w].pc = "idle"
  BY <1>3 DEF Moves, Idle
<1>8. /\ i # 0 => i \in TokenIds
      /\ \A t \in TokenIds : token[t].parent # 0 => token[t].parent \in TokenIds
      /\ \A v \in Workers : /\ At(v, "delete") => call[v].id \in TokenIds
                            /\ At(v, "issue") /\ call[v].id # 0 => call[v].id \in TokenIds
  BY <1>0 DEF StoreType, Tokens, TokenIds, CallsOK, CallOK, At
<1>9. \A t \in TokenIds : token[t].st = "deleted" => t # n /\ token'[t].st = "deleted"
  BY <1>1, <1>5
<1>10. i # 0 => /\ token[i].st = "deleted" /\ \A t \in TokenIds : token[t].parent # i
                /\ \A v \in Workers : At(v, "issue") /\ call[v].id = i => v = w
  BY <1>0 DEF TokensOK, IssuesAlone, At
<1>11. RotatedGone'
  <2>1. ASSUME NEW t \in TokenIds
        PROVE  /\ token'[t].st = "none" => token'[t].parent = 0
               /\ token'[t].parent # 0 => token'[token'[t].parent].st = "deleted"
    BY <1>0, <1>5, <1>8, <1>9, <1>10 DEF TokensOK, RotatedGone
  <2>2. ASSUME NEW v \in Workers, At(v, "delete")' PROVE token'[call'[v].id].st # "none"
    BY <1>0, <1>5, <1>6, <1>7, <1>8, <2>2 DEF TokensOK, RotatedGone, At
  <2> QED
    BY <2>1, <2>2 DEF RotatedGone
<1>12. IssuesAlone'
  <2>1. ASSUME NEW v \in Workers, At(v, "issue")', call'[v].id # 0
        PROVE  /\ token'[call'[v].id].st = "deleted"
               /\ \A t \in TokenIds : token'[t].parent # call'[v].id
               /\ \A u \in Workers : At(u, "issue")' /\ call'[u].id = call'[v].id => u = v
    <3>1. /\ v # w /\ At(v, "issue") /\ call'[v].id = call[v].id /\ call[v].id # i
      BY <1>0, <1>6, <1>7, <1>10, <2>1 DEF At
    <3>2. /\ token[call[v].id].st = "deleted" /\ call[v].id \in TokenIds
          /\ \A t \in TokenIds : token[t].parent # call[v].id
          /\ \A u \in Workers : At(u, "issue") /\ call[u].id = call[v].id => u = v
      BY <1>0, <1>8, <2>1, <3>1 DEF TokensOK, IssuesAlone
    <3>3. \A u \in Workers : At(u, "issue")' => u # w /\ At(u, "issue") /\ call'[u].id = call[u].id
      BY <1>6, <1>7 DEF At
    <3> QED
      BY <1>5, <1>9, <3>1, <3>2, <3>3
  <2> QED
    BY <2>1 DEF IssuesAlone
<1>13. RotatedOnce'
  <2>1. ASSUME NEW s \in TokenIds, NEW t \in TokenIds,
               token'[s].parent = token'[t].parent, token'[s].parent # 0
        PROVE  s = t
    BY <1>0, <1>5, <1>10, <2>1 DEF TokensOK, RotatedOnce
  <2> QED
    BY <2>1 DEF RotatedOnce
<1>14. SessionsRevoked'
  BY <1>0, <1>5 DEF TokensOK, SessionsRevoked
<1>15. HoldersOK'
  <2>1. \A v \in Workers : At(v, "delete") => call[v].id # n
    BY <1>0, <1>1 DEF TokensOK, RotatedGone
  <2>2. \A v \in Workers : v # w => /\ call'[v].old = call[v].old
                                     /\ call'[v].late = call[v].late
    BY <1>2 DEF Set, CallsOK
  <2> QED
    BY <1>0, <1>5, <1>6, <1>7, <1>8, <2>1, <2>2 DEF TokensOK, HoldersOK, At
<1> QED
  BY <1>3, <1>5, <1>11, <1>12, <1>13, <1>14, <1>15 DEF IInv, TokensOK

-----------------------------------------------------------------------------
(* The steps that change a reset token.                                    *)

LEMMA CreateStep == ASSUME IInv, NEW w \in Workers, ForgotCreate(w) PROVE IInv'
<1>0. /\ CallsOK /\ StoreType /\ ResetsOK /\ CallOK(call[w])
      /\ call[w] \in CallRecords /\ call[w].pc = "create"
      /\ MaxResets \in Nat
  BY Basics DEF CallsOK, CallOK, ForgotCreate, At
<1>1. PICK i \in ResetIds :
         /\ reset[i].st = "none"
         /\ reset' = [s \in ResetIds |->
                        IF s = i THEN [NoReset EXCEPT !.st = "unused"]
                        ELSE IF s \in call[w].seen /\ reset[s].st = "unused"
                             THEN [reset[s] EXCEPT !.st = "deleted"] ELSE reset[s]]
         /\ Set(w, [call[w] EXCEPT !.pc = "mail", !.id = i, !.seen = {}])
         /\ UNCHANGED <<password, token, profile>>
  BY DEF ForgotCreate
<1> DEFINE r == [call[w] EXCEPT !.pc = "mail", !.id = i, !.seen = {}]
<1>2. r.pc = "mail" /\ CallOK(r)
  <2>1. i \in 0 .. MaxResets
    BY <1>0 DEF ResetIds
  <2>2. r \in CallRecords /\ r.pc = "mail" /\ r.id = i /\ r.old = call[w].old /\ r.late = call[w].late
    BY <1>0, <2>1 DEF CallRecords, PCs
  <2> QED
    BY <1>0, <2>2 DEF CallOK
<1>3. Moves(w, r) /\ Removes
  BY <1>0, <1>1, <1>2, SetMoves, SameRemoves
<1> DEFINE fresh == [NoReset EXCEPT !.st = "unused"]
<1>4. fresh \in Resets /\ fresh.st = "unused" /\ fresh.applied = 0
  <2>1. NoReset \in Resets
    BY DEF NoReset, Resets
  <2> QED
    BY <2>1 DEF NoReset, Resets
<1>5. \A s \in ResetIds : reset[s] \in Resets /\ [reset[s] EXCEPT !.st = "deleted"] \in Resets
  BY <1>0 DEF StoreType, Resets
<1>6. reset' \in [ResetIds -> Resets]
  BY <1>1, <1>4, <1>5
<1>7. \A s \in ResetIds :
         \/ reset'[s] = reset[s] /\ s # i
         \/ reset[s].st # "used" /\ reset'[s].st # "used"
            /\ (reset'[s].applied = 0 \/ reset'[s].applied = reset[s].applied)
  BY <1>1, <1>4, <1>5 DEF Resets
<1>8. \A v \in Workers : At(v, "apply")' => At(v, "apply") /\ call'[v].id = call[v].id
  BY <1>2, <1>3 DEF Moves, At
<1>9. \A v \in Workers : At(v, "apply") => At(v, "apply")' /\ call'[v].id = call[v].id
                                            /\ call[v].id \in ResetIds
  BY <1>0, <1>3 DEF Moves, At, CallsOK, CallOK
<1>10. AppliesAlone'
  BY <1>0, <1>7, <1>8, <1>9 DEF ResetsOK, AppliesAlone
<1>11. ResetExactlyOnce'
  BY <1>0, <1>7, <1>9 DEF ResetsOK, ResetExactlyOnce
<1> QED
  BY <1>0, <1>1, <1>2, <1>3, <1>6, <1>10, <1>11, RemovingStep DEF ResetsOK, StoreType

LEMMA ClaimStep == ASSUME IInv, NEW w \in Workers, ResetClaim(w) PROVE IInv'
<1> DEFINE i == call[w].id
<1>0. /\ CallsOK /\ StoreType /\ ResetsOK /\ CallOK(call[w])
      /\ call[w] \in CallRecords /\ call[w].pc = "claim" /\ i \in ResetIds
      /\ reset[i] \in Resets
  BY Basics DEF CallsOK, CallOK, ResetClaim, At, StoreType
<1>1. CASE reset[i].st # "unused"
  <2>1. Set(w, Idle) /\ UNCHANGED <<password, token, reset, profile>>
    BY <1>1 DEF ResetClaim, Return
  <2>2. Moves(w, Idle) /\ Removes
    BY <1>0, <2>1, IdleOK, SetMoves, SameRemoves
  <2> QED
    BY <1>0, <2>1, <2>2, IdleOK, PlainStep DEF Idle, StoreType
<1>2. CASE reset[i].st = "unused"
  <2> DEFINE r == [call[w] EXCEPT !.pc = "apply"]
  <2>1. /\ reset' = [reset EXCEPT ![i].st = "used"] /\ Set(w, r)
        /\ UNCHANGED <<password, token, profile>>
    BY <1>2 DEF ResetClaim, Goto
  <2>2. CallOK(r) /\ r.pc = "apply" /\ r.id = i
    BY <1>0 DEF CallOK, CallRecords, PCs
  <2>3. Moves(w, r) /\ Removes
    BY <1>0, <2>1, <2>2, SetMoves, SameRemoves
  <2>4. reset' \in [ResetIds -> Resets]
    BY <1>0, <2>1 DEF StoreType, Resets
  <2>5. /\ reset'[i].st = "used" /\ reset'[i].applied = reset[i].applied
        /\ \A s \in ResetIds : s # i => reset'[s] = reset[s]
    BY <1>0, <2>1 DEF StoreType, Resets
  <2>6. reset[i].applied = 0
    BY <1>0, <1>2 DEF ResetsOK, ResetExactlyOnce
  <2>7. \A v \in Workers : v # w /\ At(v, "apply") =>
           call[v].id # i /\ call[v].id \in ResetIds
    BY <1>0, <1>2 DEF ResetsOK, AppliesAlone, CallsOK, CallOK, At
  <2>8. \A v \in Workers : v # w => call'[v].pc = call[v].pc /\ call'[v].id = call[v].id
    BY <2>3 DEF Moves
  <2>9. call'[w].pc = "apply" /\ call'[w].id = i
    BY <2>2, <2>3 DEF Moves
  <2>10. AppliesAlone'
    <3>1. ASSUME NEW v \in Workers, At(v, "apply")'
          PROVE  /\ reset'[call'[v].id].st = "used" /\ reset'[call'[v].id].applied = 0
                 /\ \A u \in Workers : At(u, "apply")' /\ call'[u].id = call'[v].id => u = v
      <4>1. CASE v = w
        BY <2>5, <2>6, <2>7, <2>8, <2>9, <4>1 DEF At
      <4>2. CASE v # w
        BY <1>0, <2>5, <2>7, <2>8, <2>9, <3>1, <4>2 DEF ResetsOK, AppliesAlone, At
      <4> QED
        BY <4>1, <4>2
    <3> QED
      BY <3>1 DEF AppliesAlone
  <2>11. ResetExactlyOnce'
    <3>1. \A v \in Workers : At(v, "apply") => At(v, "apply")' /\ call'[v].id = call[v].id
      BY <1>0, <2>8 DEF At
    <3>2. \A s \in ResetIds : s # i =>
            /\ reset'[s] = reset[s]
            /\ \A v \in Workers : At(v, "apply") /\ call[v].id = s
                                    => At(v, "apply")' /\ call'[v].id = s
      BY <2>5, <3>1
    <3>3. At(w, "apply")' /\ call'[w].id = i
      BY <2>9 DEF At
    <3> QED
      BY <1>0, <2>5, <2>6, <3>2, <3>3 DEF ResetsOK, ResetExactlyOnce
  <2> QED
    BY <1>0, <2>1, <2>2, <2>3, <2>4, <2>10, <2>11, RemovingStep DEF ResetsOK, StoreType
<1> QED
  BY <1>1, <1>2

\* A handler that leaves the apply step, with its token marked in one way or
\* the other.
LEMMA AppliedResets ==
    ASSUME IInv, NEW w \in Workers, NEW r, call[w].pc = "apply", Moves(w, r), r.pc = "idle",
           NEW new \in Resets, reset' = [reset EXCEPT ![call[w].id] = new],
           new.st = "used", new.applied = 1 \/ (new.applied = 0 /\ new.cut)
    PROVE  ResetsOK' /\ reset' \in [ResetIds -> Resets]
<1> DEFINE i == call[w].id
<1>0. CallsOK /\ StoreType /\ ResetsOK /\ i \in ResetIds
  BY Basics DEF CallsOK, CallOK
<1>1. /\ reset' \in [ResetIds -> Resets] /\ reset'[i] = new
      /\ \A s \in ResetIds : s # i => reset'[s] = reset[s]
  BY <1>0 DEF StoreType
<1>2. \A v \in Workers : At(v, "apply")' =>
         /\ v # w /\ At(v, "apply") /\ call'[v].id = call[v].id
         /\ call[v].id \in ResetIds /\ call[v].id # i
  <2>1. \A v \in Workers : At(v, "apply")' =>
           v # w /\ At(v, "apply") /\ call'[v].id = call[v].id
    BY DEF Moves, At
  <2>2. \A v \in Workers : v # w /\ At(v, "apply") => call[v].id \in ResetIds /\ call[v].id # i
    BY <1>0 DEF At, ResetsOK, AppliesAlone, CallsOK, CallOK
  <2> QED
    BY <2>1, <2>2
<1>3. \A v \in Workers : At(v, "apply") /\ call[v].id # i =>
         At(v, "apply")' /\ call'[v].id = call[v].id
  BY DEF Moves, At
<1>4. AppliesAlone'
  BY <1>0, <1>1, <1>2 DEF ResetsOK, AppliesAlone
<1>5. ResetExactlyOnce'
  <2>1. ASSUME NEW s \in ResetIds, s # i
        PROVE  /\ reset'[s].st = "used" =>
                    \/ reset'[s].applied = 1
                    \/ reset'[s].applied = 0
                       /\ (reset'[s].cut \/ \E v \in Workers : At(v, "apply")' /\ call'[v].id = s)
               /\ reset'[s].st # "used" => reset'[s].applied = 0
    BY <1>0, <1>1, <1>3, <2>1 DEF ResetsOK, ResetExactlyOnce
  <2> QED
    BY <1>0, <1>1, <2>1 DEF ResetExactlyOnce
<1> QED
  BY <1>1, <1>4, <1>5 DEF ResetsOK

LEMMA ApplyStep == ASSUME IInv, NEW w \in Workers, ResetApply(w) PROVE IInv'
<1> DEFINE i == call[w].id
           new == [reset[i] EXCEPT !.applied = reset[i].applied + 1]
<1>0. /\ CallsOK /\ StoreType /\ ResetsOK /\ call[w].pc = "apply" /\ i \in ResetIds
      /\ reset[i] \in Resets /\ call[w].pw \in Passwords
      /\ reset[i].st = "used" /\ reset[i].applied = 0
  BY Basics DEF CallsOK, CallOK, ResetApply, At, StoreType, ResetsOK, AppliesAlone
<1>1. /\ password' = call[w].pw /\ reset' = [reset EXCEPT ![i] = new]
      /\ Revoke(w, "idle") /\ UNCHANGED profile
  BY <1>0 DEF ResetApply, StoreType
<1>2. new \in Resets /\ new.st = "used" /\ new.applied = 1
  BY <1>0 DEF Resets
<1>3. Moves(w, Idle) /\ Removes
  BY <1>0, <1>1, IdleOK, RevokeMoves, RevokeRemoves DEF PCs
<1>4. Idle.pc = "idle"
  BY DEF Idle
<1>5. ResetsOK' /\ reset' \in [ResetIds -> Resets]
  BY <1>0, <1>1, <1>2, <1>3, <1>4, AppliedResets
<1> QED
  BY <1>0, <1>1, <1>3, <1>4, <1>5, IdleOK, RemovingStep DEF StoreType

LEMMA CrashStep == ASSUME IInv, NEW w \in Workers, Crash(w) PROVE IInv'
<1> DEFINE i == call[w].id
<1>0. /\ CallsOK /\ StoreType /\ ResetsOK /\ Set(w, Idle) /\ Idle.pc = "idle"
      /\ UNCHANGED <<password, token>>
  BY Basics DEF Crash, Return, Idle
<1>1. Moves(w, Idle) /\ Removes
  BY <1>0, IdleOK, SetMoves, SameRemoves
<1>2. /\ profile' \in ProfileStates
      /\ profile' # "stale" \/ (profile' = profile /\ call[w].pc # "delProfile")
  BY <1>0 DEF Crash, StoreType, ProfileStates, At
<1>3. CASE call[w].pc # "apply"
  <2>1. reset' = reset
    BY <1>3 DEF Crash, At
  <2> QED
    BY <1>0, <1>1, <1>2, <1>3, <2>1, IdleOK, PlainStep DEF StoreType
<1>4. CASE call[w].pc = "apply"
  <2> DEFINE new == [reset[i] EXCEPT !.cut = TRUE]
  <2>1. i \in ResetIds /\ reset[i] \in Resets /\ reset[i].st = "used" /\ reset[i].applied = 0
    BY <1>0, <1>4 DEF CallsOK, CallOK, StoreType, ResetsOK, AppliesAlone, At
  <2>2. reset' = [reset EXCEPT ![i] = new]
    BY <1>4, <2>1 DEF Crash, At
  <2>3. new \in Resets /\ new.st = "used" /\ new.applied = 0 /\ new.cut
    BY <2>1 DEF Resets
  <2>4. ResetsOK' /\ reset' \in [ResetIds -> Resets]
    BY <1>0, <1>1, <1>4, <2>2, <2>3, AppliedResets
  <2> QED
    BY <1>0, <1>1, <1>2, <2>4, IdleOK, RemovingStep DEF StoreType
<1> QED
  BY <1>3, <1>4

-----------------------------------------------------------------------------
(* The other steps.                                                        *)

LEMMA OtherStep ==
    ASSUME IInv, NEW w \in Workers,
           \/ UpdateLastSeen(w) \/ DelProfile(w) \/ ForgotDeleteUnused(w) \/ ForgotMail(w)
           \/ ChangeApply(w) \/ SetProfile(w)
    PROVE  IInv'
<1>0. /\ CallsOK /\ StoreType /\ CallOK(call[w]) /\ call[w] \in CallRecords
      /\ password \in Passwords /\ profile \in ProfileStates /\ Idle.pc = "idle"
  BY Basics DEF CallsOK, CallOK, StoreType, Idle
<1>1. CASE UpdateLastSeen(w)
  BY <1>0, <1>1, ProfileRowStep DEF UpdateLastSeen, At
<1>2. CASE DelProfile(w) \/ SetProfile(w) \/ ForgotMail(w)
  <2>1. /\ Set(w, Idle) /\ UNCHANGED <<password, token, reset>>
        /\ call[w].pc # "apply" /\ profile' \in ProfileStates
        /\ profile' # "stale" \/ (profile' = profile /\ call[w].pc # "delProfile")
    BY <1>0, <1>2 DEF DelProfile, SetProfile, ForgotMail, Return, At, ProfileStates
  <2>2. Moves(w, Idle) /\ Removes
    BY <1>0, <2>1, IdleOK, SetMoves, SameRemoves
  <2> QED
    BY <1>0, <2>1, <2>2, IdleOK, PlainStep
<1>3. CASE ForgotDeleteUnused(w)
  <2> DEFINE r == [call[w] EXCEPT !.pc = "create",
                                  !.seen = {i \in ResetIds : reset[i].st = "unused"}]
  <2>1. CallOK(r) /\ r.pc = "create"
    BY <1>0 DEF CallOK, CallRecords, PCs
  <2>2. /\ Set(w, r) /\ UNCHANGED <<password, token, reset, profile>>
        /\ call[w].pc = "deleteUnused"
    BY <1>3 DEF ForgotDeleteUnused, At
  <2>3. Moves(w, r) /\ Removes
    BY <1>0, <2>1, <2>2, SetMoves, SameRemoves
  <2> QED
    BY <1>0, <2>1, <2>2, <2>3, PlainStep
<1>4. CASE ChangeApply(w)
  <2> DEFINE r == [call[w] EXCEPT !.pc = "delProfile"]
  <2>1. CallOK(r) /\ r.pc = "delProfile"
    BY <1>0 DEF CallOK, CallRecords, PCs
  <2>2. /\ Revoke(w, "delProfile") /\ UNCHANGED <<reset, profile>> /\ password' = call[w].pw
        /\ call[w].pc = "change"
    BY <1>4 DEF ChangeApply, At
  <2>3. Moves(w, r) /\ Removes
    BY <1>0, <2>1, <2>2, RevokeMoves, RevokeRemoves DEF PCs
  <2>4. password' \in Passwords
    BY <1>0, <2>2 DEF CallOK
  <2> QED
    BY <1>0, <2>1, <2>2, <2>3, <2>4, PlainStep
<1> QED
  BY <1>1, <1>2, <1>3, <1>4

LEMMA EnvironmentStep ==
    ASSUME IInv, ProfileExpires \/ PurgeExpiredRefreshTokens \/ UNCHANGED vars PROVE IInv'
<1>0. CallsOK /\ StoreType /\ TokensOK /\ ResetsOK /\ ProfileCurrent
  BY Basics
<1>1. UNCHANGED <<password, reset, call>> /\ (profile' = profile \/ profile' = "miss")
  BY DEF ProfileExpires, PurgeExpiredRefreshTokens, vars
<1>2. Removes
  <2>1. CASE token' = token
    BY <1>0, <2>1, SameRemoves
  <2>2. CASE PurgeExpiredRefreshTokens
    <3>1. PICK S \in SUBSET {t \in TokenIds : token[t].st = "stored"} :
            token' = [t \in TokenIds |-> IF t \in S THEN Gone(token[t]) ELSE token[t]]
      BY <2>2 DEF PurgeExpiredRefreshTokens
    <3> QED
      BY <1>0, <3>1, GoneType DEF StoreType, Removes
  <2> QED
    BY <2>1, <2>2 DEF ProfileExpires, vars
<1>3. CallsOK' /\ ResetsOK' /\ ProfileCurrent'
  BY <1>0, <1>1 DEF CallsOK, ResetsOK, AppliesAlone, ResetExactlyOnce, ProfileCurrent, At
<1>4. StoreType'
  BY <1>0, <1>1, <1>2 DEF StoreType, Removes, ProfileStates
<1>5. HoldersOK'
  <2>1. \A v \in Workers : At(v, "delete") => call[v].id \in TokenIds
    BY <1>0 DEF CallsOK, CallOK, At
  <2> QED
    BY <1>0, <1>1, <1>2, <2>1, RemovesKeeps DEF At, TokensOK, HoldersOK
<1>6. TokensOK'
  BY <1>0, <1>1, <1>2, <1>3, <1>5, RemovesTokens DEF At, TokensOK, RotatedGone
<1> QED
  BY <1>3, <1>4, <1>6 DEF IInv

LEMMA InitIInv == Init => IInv
<1> SUFFICES ASSUME Init PROVE IInv
  OBVIOUS
<1>1. CallsOK /\ \A w \in Workers : call[w].pc = "idle"
  BY IdleOK DEF Init, CallsOK, CallOK, Idle
<1>2. NoToken \in Tokens /\ NoReset \in Resets
  BY BoundsAssumption DEF NoToken, Tokens, NoReset, Resets
<1>3. StoreType
  BY <1>2 DEF Init, StoreType, ProfileStates
<1>4. TokensOK
  BY <1>1 DEF Init, TokensOK, RotatedGone, IssuesAlone, HoldersOK, RotatedOnce,
              SessionsRevoked, NoToken, At
<1>5. ResetsOK /\ ProfileCurrent
  BY <1>1 DEF Init, ResetsOK, AppliesAlone, ResetExactlyOnce, ProfileCurrent, NoReset, At
<1> QED
  BY <1>1, <1>3, <1>4, <1>5 DEF IInv

-----------------------------------------------------------------------------
(* The theorems.                                                           *)

\* The inductive invariant holds in every reachable state.
THEOREM Invariance == Spec => []IInv
<1>1. IInv /\ [Next]_vars => IInv'
  <2> SUFFICES ASSUME IInv, [Next]_vars PROVE IInv'
    OBVIOUS
  <2>1. ASSUME NEW w \in Workers, Step(w) PROVE IInv'
    BY <2>1, RefreshStep, IssueStep, CreateStep, ClaimStep, ApplyStep, OtherStep DEF Step
  <2>2. ASSUME NEW w \in Workers, Begin(w) \/ Crash(w) PROVE IInv'
    BY <2>2, BeginStep, CrashStep
  <2>3. CASE ProfileExpires \/ PurgeExpiredRefreshTokens \/ UNCHANGED vars
    BY <2>3, EnvironmentStep
  <2> QED
    BY <2>1, <2>2, <2>3 DEF Next
<1> QED
  BY <1>1, InitIInv, PTL DEF Spec

\* Every variable keeps its type, for every bound and number of handlers.
THEOREM TypeCorrect == Spec => []TypeOK
<1>1. IInv => TypeOK
  BY DEF IInv, CallsOK, StoreType, TypeOK
<1> QED
  BY <1>1, Invariance, PTL

\* However many requests present one refresh token at a time, one of them
\* rotates it: refreshToken deletes the row before it issues the next.
THEOREM NeverForked == Spec => []RotatedOnce
<1>1. IInv => RotatedOnce
  BY DEF IInv, TokensOK
<1> QED
  BY <1>1, Invariance, PTL

\* However many handlers a revocation overtakes, the sessions begun before it
\* are over, but for the tokens of handlers with nothing left to check.
THEOREM Revoked == Spec => []SessionsRevoked
<1>1. IInv => SessionsRevoked
  BY DEF IInv, TokensOK
<1> QED
  BY <1>1, Invariance, PTL

\* The conditional update that uses a reset token up lets one handler of many
\* set the password.
THEOREM AppliedOnce == Spec => []ResetExactlyOnce
<1>1. IInv => ResetExactlyOnce
  BY DEF IInv, ResetsOK
<1> QED
  BY <1>1, Invariance, PTL

\* Whoever made the cached profile out of date is about to delete it.
THEOREM ProfileDeleted == Spec => []ProfileCurrent
<1>1. IInv => ProfileCurrent
  BY DEF IInv
<1> QED
  BY <1>1, Invariance, PTL
=============================================================================
