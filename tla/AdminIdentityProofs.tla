------------------------ MODULE AdminIdentityProofs ------------------------
(***************************************************************************)
(* Proofs about the administrators' identity, for any number of sessions,  *)
(* tokens, accounts, requests and factors.                                 *)
(***************************************************************************)
EXTENDS MCIdentity, Sequences, WellFoundedInduction, TLAPS

-----------------------------------------------------------------------------
(* Sessions.                                                                *)

(* A rotation works on an issued row that was not rotated when it was       *)
(* locked, and the row has no other holder.                                 *)
RotationsHold ==
    \A r \in Requests :
        /\ At(r, "looked") \/ At(r, "rotating") => request[r].sid \in Issued
        /\ At(r, "rotating") => ~session[request[r].sid].rotated
        /\ \A q \in Requests :
              At(r, "rotating") /\ At(q, "rotating") /\ request[r].sid = request[q].sid => r = q

(* A deactivation under way holds the account, alone, and ends an era.      *)
Suspending(r) == At(r, "revoking") /\ request[r].scope = "suspend"

SuspensionsHold ==
    /\ \A r, q \in Requests : Suspending(r) /\ Suspending(q) => r = q
    /\ \A r \in Requests : Suspending(r) => era < MaxSuspensions

FamiliesAreIssued == \A s \in Issued : session[s].family \in Issued

(* A hash of former options is the first one, and a login that writes one   *)
(* anew verified the first password.                                        *)
HashesHold ==
    /\ hash.salt = 0 => hash.password = 0
    /\ \A r \in Requests : At(r, "rehashing") => request[r].hash.password = 0

SessionsIInv ==
    /\ SessionsTypeOK
    /\ RotationsHold
    /\ SuspensionsHold
    /\ FamiliesAreIssued
    /\ HashesHold
    /\ SessionsProvePassword
    /\ OneLiveCredential

LEMMA FreshIsOneOfThem == ASSUME NEW rows, rows # {} PROVE Fresh(rows) \in rows
BY DEF Fresh

LEMMA HashesAreHashes ==
    /\ FirstHash \in Hash
    /\ \A n \in 0..MaxPasswords, h \in Hash : [password |-> n, salt |-> h.salt + 1] \in Hash
BY SessionsAssumption DEF FirstHash, Hash

LEMMA IdleIsARequest == Idle \in RequestState
BY SessionsAssumption, HashesAreHashes DEF Idle, RequestState

LEMMA StaleIsARequest ==
    ASSUME NEW x \in RequestState
    PROVE  [x EXCEPT !.stale = TRUE] \in RequestState
BY DEF RequestState

LEMMA RevokingIsARequest ==
    ASSUME NEW scope \in {"family", "all", "usable", "suspend"}, NEW rows \in SUBSET Sessions
    PROVE  [Idle EXCEPT !.pc = "revoking", !.scope = scope, !.seen = rows] \in RequestState
<1> DEFINE x == [Idle EXCEPT !.pc = "revoking"]
           y == [x EXCEPT !.scope = scope]
           z == [y EXCEPT !.seen = rows]
<1>1. x \in RequestState
  BY IdleIsARequest DEF RequestState
<1>2. y \in RequestState
  BY <1>1 DEF RequestState
<1>3. z \in RequestState
  BY <1>2 DEF RequestState
<1>4. z = [Idle EXCEPT !.pc = "revoking", !.scope = scope, !.seen = rows]
  OBVIOUS
<1> QED BY <1>3, <1>4

LEMMA LookingIsARequest ==
    ASSUME NEW s \in Sessions
    PROVE  [Idle EXCEPT !.pc = "looked", !.sid = s] \in RequestState
<1> DEFINE x == [Idle EXCEPT !.pc = "looked"]
           y == [x EXCEPT !.sid = s]
<1>1. x \in RequestState
  BY IdleIsARequest DEF RequestState
<1>2. y \in RequestState
  BY <1>1 DEF RequestState
<1>3. y = [Idle EXCEPT !.pc = "looked", !.sid = s]
  OBVIOUS
<1> QED BY <1>2, <1>3

LEMMA RowEnds ==
    ASSUME NEW x \in Row, NEW n \in 0..MaxPasswords
    PROVE  /\ [x EXCEPT !.ended = TRUE] \in Row
           /\ [x EXCEPT !.rotated = TRUE] \in Row
           /\ [x EXCEPT !.rotated = FALSE] \in Row
           /\ [x EXCEPT !.proof = n] \in Row
BY DEF Row

(* A request that commits goes on, and those it makes stale stay well        *)
(* formed.                                                                  *)
LEMMA CommitAsKeepsType ==
    ASSUME SessionsTypeOK, NEW r \in Requests, NEW x \in RequestState, CommitAs(r, x)
    PROVE  request' \in [Requests -> RequestState]
BY StaleIsARequest DEF CommitAs, SessionsTypeOK

LEMMA CommitKeepsType ==
    ASSUME SessionsTypeOK, NEW r \in Requests, Commit(r)
    PROVE  request' \in [Requests -> RequestState]
BY IdleIsARequest, CommitAsKeepsType DEF Commit

LEMMA PasswordSet ==
    ASSUME SessionsTypeOK, SetPassword
    PROVE  /\ password' \in 0..MaxPasswords /\ password' = password + 1
           /\ hash' \in Hash /\ hash'.password = password' /\ hash'.salt # 0
<1>1. password \in 0..MaxPasswords /\ password + 1 \in 0..MaxPasswords /\ hash \in Hash
  BY SessionsAssumption DEF SetPassword, SessionsTypeOK
<1>2. hash' = [password |-> password + 1, salt |-> hash.salt + 1] /\ password' = password + 1
  BY DEF SetPassword, NewHash
<1> QED BY <1>1, <1>2, HashesAreHashes DEF Hash

(* The hash and the request a rehash writes.                                *)
LEMMA RehashWrites ==
    ASSUME SessionsTypeOK, NEW r \in Requests, Rehash(r)
    PROVE  /\ hash' \in Hash /\ hash'.password = request[r].hash.password /\ hash'.salt # 0
           /\ \E x \in RequestState : x.pc = "verified" /\ CommitAs(r, x)
<1>1. request[r] \in RequestState /\ request[r].hash \in Hash /\ hash \in Hash
  BY DEF SessionsTypeOK, RequestState
<1>2. request[r].hash.password \in 0..MaxPasswords
  BY <1>1 DEF Hash
<1>3. hash' = [password |-> request[r].hash.password, salt |-> hash.salt + 1]
  BY DEF Rehash, NewHash
<1>4. hash' \in Hash /\ hash'.password = request[r].hash.password /\ hash'.salt # 0
  BY <1>1, <1>2, <1>3, HashesAreHashes DEF Hash
<1> DEFINE x == [request[r] EXCEPT !.pc = "verified"]
           y == [x EXCEPT !.hash = hash']
<1>5. x \in RequestState
  BY <1>1 DEF RequestState
<1>6. y \in RequestState /\ y.pc = "verified"
  BY <1>4, <1>5 DEF RequestState
<1>7. y = [request[r] EXCEPT !.pc = "verified", !.hash = hash']
  OBVIOUS
<1> HIDE DEF y
<1>8. CommitAs(r, y)
  BY <1>7 DEF Rehash
<1> QED BY <1>4, <1>6, <1>8

LEMMA BecomeKeepsType ==
    ASSUME SessionsTypeOK, NEW r \in Requests, NEW x \in RequestState, Become(r, x)
    PROVE  request' \in [Requests -> RequestState]
BY DEF Become, SessionsTypeOK

LEMMA SessionsTypeInit == SessionsInit => SessionsTypeOK
<1> SUFFICES ASSUME SessionsInit PROVE SessionsTypeOK
    OBVIOUS
<1>1. PICK salt \in {0, 1} : hash = [FirstHash EXCEPT !.salt = salt]
  BY DEF SessionsInit
<1>2. hash \in Hash
  BY <1>1, SessionsAssumption DEF FirstHash, Hash
<1> QED BY <1>2, SessionsAssumption, IdleIsARequest DEF SessionsInit, SessionsTypeOK, NoRow, Row

LEMMA SessionsTypeNext ==
    SessionsTypeOK /\ RotationsHold /\ SuspensionsHold /\ [SessionsNext]_sessionVars
        => SessionsTypeOK'
<1> SUFFICES ASSUME SessionsTypeOK, RotationsHold, SuspensionsHold, [SessionsNext]_sessionVars
             PROVE  SessionsTypeOK'
    OBVIOUS
<1> USE SessionsAssumption
<1>0. Issued \subseteq Sessions
  BY DEF Issued
<1>1. ASSUME NEW r \in Requests, Login(r) PROVE SessionsTypeOK'
  <2> DEFINE pc == IF NeedsRehash THEN "rehashing" ELSE "verified"
             x == [Idle EXCEPT !.pc = pc]
  <2>2. x \in RequestState
    BY IdleIsARequest DEF RequestState
  <2>3. [x EXCEPT !.hash = hash] \in RequestState
    BY <2>2 DEF RequestState, SessionsTypeOK
  <2>1. [Idle EXCEPT !.pc = IF NeedsRehash THEN "rehashing" ELSE "verified", !.hash = hash] \in RequestState
    BY <2>3
  <2> QED BY <1>1, <2>1, BecomeKeepsType DEF Login, SessionsTypeOK
<1>2. ASSUME NEW r \in Requests, PersistLogin(r) PROVE SessionsTypeOK'
  <2> DEFINE s == Fresh(Sessions \ Issued)
             row == [NoRow EXCEPT !.family = s, !.proof = request[r].hash.password, !.era = era]
  <2>1. s \in Sessions
    BY <1>2, FreshIsOneOfThem DEF PersistLogin, Issued
  <2>5. request[r].hash.password \in 0..MaxPasswords
    BY DEF SessionsTypeOK, RequestState, Hash
  <2>2. row \in Row
    BY <2>1, <2>5 DEF SessionsTypeOK, Row, NoRow
  <2>3. session' = [session EXCEPT ![s] = row]
    BY <1>2 DEF PersistLogin
  <2>4. session' \in [Sessions -> Row]
    BY <2>1, <2>2, <2>3 DEF SessionsTypeOK
  <2> QED BY <1>2, <2>4, CommitKeepsType DEF PersistLogin, SessionsTypeOK
<1>3. ASSUME NEW r \in Requests, RefuseLogin(r) PROVE SessionsTypeOK'
  BY <1>3, BecomeKeepsType, IdleIsARequest DEF RefuseLogin, SessionsTypeOK
<1>4. ASSUME NEW r \in Requests, NEW s \in Issued, Lookup(r, s) PROVE SessionsTypeOK'
  <2>1. [Idle EXCEPT !.pc = "looked", !.sid = s] \in RequestState
    BY <1>0, LookingIsARequest
  <2> QED BY <1>4, <2>1, BecomeKeepsType DEF Lookup, SessionsTypeOK
<1>5. ASSUME NEW r \in Requests, NEW s \in Issued, ChangePassword(r, s) PROVE SessionsTypeOK'
  <2> DEFINE x == [Idle EXCEPT !.pc = "hashing"]
             y == [x EXCEPT !.sid = s]
             z == [y EXCEPT !.hash = hash]
  <2>2. x \in RequestState
    BY IdleIsARequest DEF RequestState
  <2>3. y \in RequestState
    BY <1>0, <2>2 DEF RequestState
  <2>4. z \in RequestState
    BY <2>3 DEF RequestState, SessionsTypeOK
  <2>1. [Idle EXCEPT !.pc = "hashing", !.sid = s, !.hash = hash] \in RequestState
    BY <2>4
  <2> QED BY <1>5, <2>1, BecomeKeepsType DEF ChangePassword, SessionsTypeOK
<1>6. ASSUME NEW r \in Requests, Rotate(r) PROVE SessionsTypeOK'
  <2> DEFINE family == {s \in Issued : session[s].family = session[request[r].sid].family}
  <2>1. [request[r] EXCEPT !.pc = "rotating"] \in RequestState
    BY DEF SessionsTypeOK, RequestState
  <2>2. [Idle EXCEPT !.pc = "revoking", !.scope = "family", !.seen = family] \in RequestState
    BY <1>0, RevokingIsARequest
  <2>3. \E x \in RequestState : Become(r, x)
    BY <1>6, <2>1, <2>2, IdleIsARequest DEF Rotate
  <2> QED BY <1>6, <2>3, BecomeKeepsType DEF Rotate, SessionsTypeOK
<1>7. ASSUME NEW r \in Requests, CommitRotation(r) PROVE SessionsTypeOK'
  <2>1. request[r].sid \in Sessions
    BY <1>7, <1>0 DEF CommitRotation, RotationsHold
  <2>2. session' \in [Sessions -> Row]
    BY <1>7, <2>1, RowEnds DEF CommitRotation, SessionsTypeOK
  <2> QED BY <1>7, <2>2, CommitKeepsType DEF CommitRotation, SessionsTypeOK
<1>8. ASSUME NEW r \in Requests, AbortRotation(r) PROVE SessionsTypeOK'
  BY <1>8, BecomeKeepsType, IdleIsARequest DEF AbortRotation, SessionsTypeOK
<1>9. ASSUME NEW r \in Requests, LogoutAll(r) \/ RevokeSessions(r) \/ Deactivate(r)
      PROVE  SessionsTypeOK'
  <2>1. \A scope \in {"all", "usable", "suspend"} :
           [Idle EXCEPT !.pc = "revoking", !.scope = scope, !.seen = Issued] \in RequestState
    BY <1>0, RevokingIsARequest
  <2>2. \E x \in RequestState : Become(r, x)
    BY <1>9, <2>1 DEF LogoutAll, RevokeSessions, Deactivate, BeginRevoking
  <2> QED BY <1>9, <2>2, BecomeKeepsType DEF LogoutAll, RevokeSessions, Deactivate, SessionsTypeOK
<1>10. ASSUME NEW r \in Requests, FinishRevoking(r) PROVE SessionsTypeOK'
  <2>1. session' \in [Sessions -> Row]
    BY <1>10 DEF FinishRevoking, SessionsTypeOK, Row
  <2>2. status' \in {"ACTIVE", "INACTIVE"} /\ era' \in 0..MaxSuspensions
    BY <1>10 DEF FinishRevoking, SessionsTypeOK, SuspensionsHold, Suspending
  <2> QED BY <1>10, <2>1, <2>2, CommitKeepsType DEF FinishRevoking, SessionsTypeOK
<1>11. ASSUME NEW r \in Requests, Reactivate(r) PROVE SessionsTypeOK'
  BY <1>11, CommitKeepsType DEF Reactivate, SessionsTypeOK
<1>12. ASSUME NEW r \in Requests, ForgotPassword(r) PROVE SessionsTypeOK'
  <2>1. request' \in [Requests -> RequestState]
    BY <1>12, StaleIsARequest DEF ForgotPassword, SessionsTypeOK
  <2> QED BY <1>12, <2>1 DEF ForgotPassword, SessionsTypeOK
<1>13. ASSUME NEW r \in Requests, OpenSerial(r) PROVE SessionsTypeOK'
  <2>1. [request[r] EXCEPT !.pc = "serial"] \in RequestState
    BY DEF SessionsTypeOK, RequestState
  <2> QED BY <1>13, <2>1, BecomeKeepsType DEF OpenSerial, SessionsTypeOK
<1>14. ASSUME NEW r \in Requests, CommitReset(r) PROVE SessionsTypeOK'
  <2>1. session' \in [Sessions -> Row]
    BY <1>14 DEF CommitReset, SessionsTypeOK, Row
  <2>2. password' \in 0..MaxPasswords /\ hash' \in Hash
    BY <1>14, PasswordSet DEF CommitReset
  <2>3. reset' \in [Tokens -> {"none", "active", "spent"}]
    BY <1>14 DEF CommitReset, SessionsTypeOK
  <2> QED BY <1>14, <2>1, <2>2, <2>3, CommitKeepsType DEF CommitReset, SessionsTypeOK
<1>15. ASSUME NEW r \in Requests, CommitChange(r) PROVE SessionsTypeOK'
  <2>2. password' \in 0..MaxPasswords /\ password + 1 \in 0..MaxPasswords /\ hash' \in Hash
    BY <1>15, PasswordSet DEF CommitChange
  <2>1. session' \in [Sessions -> Row]
    BY <1>15, <2>2 DEF CommitChange, SessionsTypeOK, Row
  <2> QED BY <1>15, <2>1, <2>2, CommitKeepsType DEF CommitChange, SessionsTypeOK
<1>16. ASSUME NEW r \in Requests, AbortSerial(r) PROVE SessionsTypeOK'
  BY <1>16, BecomeKeepsType, IdleIsARequest DEF AbortSerial, SessionsTypeOK
<1>17. ASSUME NEW r \in Requests, NEW t \in Tokens, ResetPassword(r, t) PROVE SessionsTypeOK'
  <2> DEFINE x == [Idle EXCEPT !.pc = "hashing"]
             y == [x EXCEPT !.token = t]
             z == [y EXCEPT !.hash = hash]
  <2>2. x \in RequestState
    BY IdleIsARequest DEF RequestState
  <2>3. y \in RequestState
    BY <2>2 DEF RequestState
  <2>4. z \in RequestState
    BY <2>3 DEF RequestState, SessionsTypeOK
  <2>1. [Idle EXCEPT !.pc = "hashing", !.token = t, !.hash = hash] \in RequestState
    BY <2>4
  <2> QED BY <1>17, <2>1, BecomeKeepsType DEF ResetPassword, SessionsTypeOK
<1>18. ASSUME NEW s \in Issued, Logout(s) PROVE SessionsTypeOK'
  <2>1. session' \in [Sessions -> Row]
    BY <1>18 DEF Logout, SessionsTypeOK, Row, Issued
  <2>2. request' \in [Requests -> RequestState]
    BY <1>18, StaleIsARequest DEF Logout, SessionsTypeOK
  <2> QED BY <1>18, <2>1, <2>2 DEF Logout, SessionsTypeOK
<1>19. ASSUME NEW s \in Issued, ExpireSession(s) PROVE SessionsTypeOK'
  BY <1>19 DEF ExpireSession, SessionsTypeOK, Row, Issued
<1>20. ASSUME NEW t \in Tokens, ExpireToken(t) PROVE SessionsTypeOK'
  BY <1>20 DEF ExpireToken, SessionsTypeOK
<1>21. CASE UNCHANGED sessionVars
  BY <1>21 DEF sessionVars, SessionsTypeOK
<1>22. ASSUME NEW r \in Requests, Rehash(r) PROVE SessionsTypeOK'
  <2>1. hash' \in Hash /\ request' \in [Requests -> RequestState]
    BY <1>22, RehashWrites, CommitAsKeepsType
  <2> QED BY <1>22, <2>1 DEF Rehash, SessionsTypeOK
<1> QED
  BY <1>1, <1>2, <1>3, <1>4, <1>5, <1>6, <1>7, <1>8, <1>9, <1>10, <1>11, <1>12, <1>13, <1>14,
     <1>15, <1>16, <1>17, <1>18, <1>19, <1>20, <1>21, <1>22 DEF SessionsNext

(* What a step does to the requests: it takes one of them on, and may make  *)
(* others stale.                                                            *)
Keeps(q) == /\ request'[q].pc = request[q].pc
            /\ request'[q].sid = request[q].sid
            /\ request'[q].scope = request[q].scope

StartsLooking(r) == request'[r].pc = "looked" /\ request'[r].sid \in Issued

StartsRotating(r) ==
    /\ At(r, "looked") /\ ~Held(request[r].sid)
    /\ ~session[request[r].sid].rotated
    /\ request'[r].pc = "rotating" /\ request'[r].sid = request[r].sid

StartsSuspending(r) ==
    /\ ~AccountHeld /\ era < MaxSuspensions /\ era' = era
    /\ request'[r].pc = "revoking" /\ request'[r].scope = "suspend"

Ends(r) ==
    /\ request'[r].pc \notin {"looked", "rotating"}
    /\ ~Suspending(r)'
    /\ era' = era \/ Suspending(r)

RequestStep ==
    \/ \A q \in Requests : Keeps(q) /\ era' = era
    \/ \E r \in Requests :
          /\ \A q \in Requests \ {r} : Keeps(q)
          /\ \/ (StartsLooking(r) \/ StartsRotating(r)) /\ era' = era
             \/ StartsSuspending(r)
             \/ Ends(r)

LEMMA CommitAsGoesOn ==
    ASSUME SessionsTypeOK, NEW r \in Requests, NEW x, CommitAs(r, x)
    PROVE  /\ \A q \in Requests \ {r} : Keeps(q) /\ request'[q].hash = request[q].hash
           /\ request'[r] = x
<1>1. ASSUME NEW q \in Requests \ {r} PROVE Keeps(q) /\ request'[q].hash = request[q].hash
  <2>1. request[q] \in RequestState
    BY DEF SessionsTypeOK
  <2>2. request'[q] = request[q] \/ request'[q] = [request[q] EXCEPT !.stale = TRUE]
    BY DEF CommitAs
  <2> QED BY <2>1, <2>2 DEF Keeps, RequestState
<1> QED BY <1>1 DEF CommitAs

LEMMA CommitEnds ==
    ASSUME SessionsTypeOK, NEW r \in Requests, Commit(r)
    PROVE  /\ \A q \in Requests \ {r} : Keeps(q) /\ request'[q].hash = request[q].hash
           /\ request'[r] = Idle
BY CommitAsGoesOn DEF Commit

LEMMA BecomeTakesOn ==
    ASSUME SessionsTypeOK, NEW r \in Requests, NEW x, Become(r, x)
    PROVE  /\ \A q \in Requests \ {r} : Keeps(q)
           /\ request'[r] = x
BY DEF Become, SessionsTypeOK, Keeps

LEMMA RequestsStep == SessionsTypeOK /\ [SessionsNext]_sessionVars => RequestStep
<1> SUFFICES ASSUME SessionsTypeOK, [SessionsNext]_sessionVars PROVE RequestStep
    OBVIOUS
<1> USE DEF RequestStep
<1>0. Idle.pc = "idle"
  BY DEF Idle
<1>1. ASSUME NEW r \in Requests,
             PersistLogin(r) \/ CommitRotation(r) \/ Reactivate(r) \/ CommitReset(r) \/ CommitChange(r)
      PROVE  RequestStep
  <2>1. Commit(r) /\ era' = era
    BY <1>1 DEF PersistLogin, CommitRotation, Reactivate, CommitReset, CommitChange
  <2>2. Ends(r)
    BY <1>0, <2>1, CommitEnds DEF Ends, Suspending, At
  <2> QED BY <2>1, <2>2, CommitEnds
<1>2. ASSUME NEW r \in Requests, RefuseLogin(r) \/ AbortRotation(r) \/ AbortSerial(r)
      PROVE  RequestStep
  <2>1. Become(r, Idle) /\ era' = era
    BY <1>2 DEF RefuseLogin, AbortRotation, AbortSerial
  <2>2. Ends(r)
    BY <1>0, <2>1, BecomeTakesOn DEF Ends, Suspending, At
  <2> QED BY <2>1, <2>2, BecomeTakesOn
<1>3. ASSUME NEW r \in Requests, Login(r) \/ OpenSerial(r) PROVE RequestStep
  <2>1. era' = era /\ (\A q \in Requests \ {r} : Keeps(q))
    BY <1>3, BecomeTakesOn DEF Login, OpenSerial
  <2> DEFINE x == [Idle EXCEPT !.pc = IF NeedsRehash THEN "rehashing" ELSE "verified", !.hash = hash]
             y == [request[r] EXCEPT !.pc = "serial"]
  <2>a. request'[r] = x \/ request'[r] = y
    BY <1>3, BecomeTakesOn DEF Login, OpenSerial
  <2>b. x.pc \in {"rehashing", "verified"} /\ y.pc = "serial"
    BY DEF Idle, SessionsTypeOK, RequestState
  <2>2. request'[r].pc \in {"rehashing", "verified", "serial"}
    BY <2>a, <2>b
  <2>3. Ends(r)
    BY <2>1, <2>2 DEF Ends, Suspending, At
  <2> QED BY <2>1, <2>3
<1>4. ASSUME NEW r \in Requests, NEW s \in Issued, Lookup(r, s) PROVE RequestStep
  <2>1. era' = era /\ (\A q \in Requests \ {r} : Keeps(q))
    BY <1>4, BecomeTakesOn DEF Lookup
  <2> DEFINE x == [Idle EXCEPT !.pc = "looked", !.sid = s]
  <2>a. request'[r] = x
    BY <1>4, BecomeTakesOn DEF Lookup
  <2>b. x.pc = "looked" /\ x.sid = s
    BY DEF Idle
  <2>2. StartsLooking(r)
    BY <2>a, <2>b DEF StartsLooking
  <2> QED BY <2>1, <2>2
<1>5. ASSUME NEW r \in Requests,
             (\E s \in Issued : ChangePassword(r, s)) \/ (\E t \in Tokens : ResetPassword(r, t))
      PROVE  RequestStep
  <2>1. era' = era /\ (\A q \in Requests \ {r} : Keeps(q))
    BY <1>5, BecomeTakesOn DEF ChangePassword, ResetPassword
  <2> DEFINE x(s) == [Idle EXCEPT !.pc = "hashing", !.sid = s, !.hash = hash]
             y(t) == [Idle EXCEPT !.pc = "hashing", !.token = t, !.hash = hash]
  <2>a. (\E s \in Issued : request'[r] = x(s)) \/ (\E t \in Tokens : request'[r] = y(t))
    BY <1>5, BecomeTakesOn DEF ChangePassword, ResetPassword
  <2>b. \A v : x(v).pc = "hashing" /\ y(v).pc = "hashing"
    BY DEF Idle
  <2>2. request'[r].pc = "hashing"
    BY <2>a, <2>b
  <2>3. Ends(r)
    BY <2>1, <2>2 DEF Ends, Suspending, At
  <2> QED BY <2>1, <2>3
<1>6. ASSUME NEW r \in Requests, Rotate(r) PROVE RequestStep
  <2> DEFINE sid == request[r].sid
             family == {s \in Issued : session[s].family = session[sid].family}
             revoking == [Idle EXCEPT !.pc = "revoking", !.scope = "family", !.seen = family]
  <2>0. era' = era
    BY <1>6 DEF Rotate
  <2>1. CASE Become(r, Idle)
    <3>1. Ends(r)
      BY <1>0, <2>0, <2>1, BecomeTakesOn DEF Ends, Suspending, At
    <3> QED BY <2>1, <3>1, BecomeTakesOn
  <2>2. CASE Become(r, [request[r] EXCEPT !.pc = "rotating"]) /\ Rotatable(r)
    <3>1. request'[r] = [request[r] EXCEPT !.pc = "rotating"]
      BY <2>2, BecomeTakesOn
    <3>2. StartsRotating(r)
      BY <1>6, <2>2, <3>1 DEF Rotate, Rotatable, StartsRotating, SessionsTypeOK, RequestState
    <3> QED BY <2>0, <2>2, <3>2, BecomeTakesOn
  <2>3. CASE Become(r, revoking)
    <3>1. request'[r] = revoking
      BY <2>3, BecomeTakesOn
    <3>2. revoking.pc = "revoking" /\ revoking.scope = "family"
      BY DEF Idle
    <3>3. Ends(r)
      BY <2>0, <3>1, <3>2 DEF Ends, Suspending, At
    <3> QED BY <2>3, <3>3, BecomeTakesOn
  <2> QED BY <1>6, <2>1, <2>2, <2>3 DEF Rotate
<1>7. ASSUME NEW r \in Requests, NEW scope \in {"all", "usable"}, BeginRevoking(r, scope), era' = era
      PROVE  RequestStep
  <2>1. request'[r] = [Idle EXCEPT !.pc = "revoking", !.scope = scope, !.seen = Issued]
    BY <1>7, BecomeTakesOn DEF BeginRevoking
  <2>2. request'[r].pc = "revoking" /\ request'[r].scope = scope
    BY <2>1 DEF Idle
  <2>3. Ends(r)
    BY <1>7, <2>2 DEF Ends, Suspending, At
  <2> QED BY <1>7, <2>3, BecomeTakesOn DEF BeginRevoking
<1>8. ASSUME NEW r \in Requests, Deactivate(r) PROVE RequestStep
  <2>1. request'[r] = [Idle EXCEPT !.pc = "revoking", !.scope = "suspend", !.seen = Issued]
    BY <1>8, BecomeTakesOn DEF Deactivate, BeginRevoking
  <2>2. request'[r].pc = "revoking" /\ request'[r].scope = "suspend"
    BY <2>1 DEF Idle
  <2>3. StartsSuspending(r)
    BY <1>8, <2>2 DEF Deactivate, StartsSuspending
  <2> QED BY <1>8, <2>3, BecomeTakesOn DEF Deactivate, BeginRevoking
<1>9. ASSUME NEW r \in Requests, FinishRevoking(r) PROVE RequestStep
  <2>1. Commit(r) /\ (era' = era \/ Suspending(r))
    BY <1>9 DEF FinishRevoking, Suspending
  <2>2. Ends(r)
    BY <1>0, <2>1, CommitEnds DEF Ends, Suspending, At
  <2> QED BY <2>1, <2>2, CommitEnds
<1>10. ASSUME (\E r \in Requests : ForgotPassword(r)) \/ (\E s \in Issued : Logout(s) \/ ExpireSession(s))
              \/ (\E t \in Tokens : ExpireToken(t)) \/ UNCHANGED sessionVars
       PROVE  RequestStep
  <2>1. era' = era
    BY <1>10 DEF ForgotPassword, Logout, ExpireSession, ExpireToken, sessionVars
  <2>2. ASSUME NEW q \in Requests PROVE Keeps(q)
    <3>1. request[q] \in RequestState
      BY DEF SessionsTypeOK
    <3>2. request'[q] = request[q] \/ request'[q] = [request[q] EXCEPT !.stale = TRUE]
      BY <1>10 DEF ForgotPassword, Logout, ExpireSession, ExpireToken, sessionVars
    <3> QED BY <3>1, <3>2 DEF Keeps, RequestState
  <2> QED BY <2>1, <2>2
<1>11. ASSUME NEW r \in Requests, LogoutAll(r) \/ RevokeSessions(r) PROVE RequestStep
  BY <1>7, <1>11 DEF LogoutAll, RevokeSessions
<1>12. ASSUME NEW r \in Requests, Rehash(r) PROVE RequestStep
  <2>1. PICK x \in RequestState : x.pc = "verified" /\ CommitAs(r, x)
    BY <1>12, RehashWrites
  <2>2. era' = era
    BY <1>12 DEF Rehash
  <2>3. (\A q \in Requests \ {r} : Keeps(q)) /\ request'[r] = x
    BY <2>1, CommitAsGoesOn
  <2>4. Ends(r)
    BY <2>1, <2>2, <2>3 DEF Ends, Suspending, At
  <2> QED BY <2>3, <2>4
<1> QED
  BY <1>1, <1>2, <1>3, <1>4, <1>5, <1>6, <1>8, <1>9, <1>10, <1>11, <1>12 DEF SessionsNext

(* What a step does to the rows: it may end some, unless it adds a row,     *)
(* replaces the password or hashes one anew.                                *)
OnlyEnds ==
    /\ password' = password /\ hash' = hash
    /\ \A s \in Sessions : session'[s] \in {session[s], [session[s] EXCEPT !.ended = TRUE]}

LEMMA RowsStep ==
    ASSUME SessionsTypeOK, [SessionsNext]_sessionVars
    PROVE  \/ OnlyEnds
           \/ \E r \in Requests :
                 Rehash(r) \/ PersistLogin(r) \/ CommitRotation(r) \/ CommitReset(r) \/ CommitChange(r)
<1>1. CASE UNCHANGED <<password, hash, session>>
  BY <1>1 DEF OnlyEnds
<1>2. ASSUME NEW r \in Requests, FinishRevoking(r) PROVE OnlyEnds
  BY <1>2 DEF FinishRevoking, OnlyEnds
<1>3. ASSUME NEW s \in Issued, Logout(s) \/ ExpireSession(s) PROVE OnlyEnds
  BY <1>3 DEF Logout, ExpireSession, OnlyEnds, SessionsTypeOK, Issued
<1> QED
  BY <1>1, <1>2, <1>3
  DEF SessionsNext, sessionVars, Login, RefuseLogin, Lookup, ChangePassword, Rotate, AbortRotation,
      LogoutAll, RevokeSessions, Deactivate, Reactivate, ForgotPassword, OpenSerial, AbortSerial,
      ResetPassword, ExpireToken

(* The rows a login and a rotation write.                                   *)
LEMMA LoginRow ==
    ASSUME SessionsTypeOK, NEW r \in Requests, PersistLogin(r)
    PROVE  \E s \in Sessions \ Issued :
              /\ session'[s].family = s /\ session'[s].proof = hash.password
              /\ ~session'[s].rotated /\ ~session'[s].ended
              /\ \A u \in Sessions \ {s} : session'[u] = session[u]
<1> DEFINE s == Fresh(Sessions \ Issued)
           row == [NoRow EXCEPT !.family = s, !.proof = request[r].hash.password, !.era = era]
<1>1. s \in Sessions \ Issued
  BY FreshIsOneOfThem DEF PersistLogin, Issued
<1>2. session' = [session EXCEPT ![s] = row] /\ request[r].hash = hash
  BY DEF PersistLogin, Unchanged
<1>3. session'[s] = row /\ \A u \in Sessions \ {s} : session'[u] = session[u]
  BY <1>1, <1>2 DEF SessionsTypeOK
<1>4. row.family = s /\ row.proof = request[r].hash.password /\ row.rotated = FALSE /\ row.ended = FALSE
  BY DEF NoRow
<1> QED BY <1>1, <1>2, <1>3, <1>4

LEMMA RotationRows ==
    ASSUME SessionsTypeOK, RotationsHold, NEW r \in Requests, CommitRotation(r)
    PROVE  LET p == request[r].sid IN
           /\ p \in Issued /\ ~session[p].rotated
           /\ session'[p].rotated /\ session'[p].family = session[p].family
           /\ \E c \in Sessions \ Issued :
                 /\ session'[c].family = session[p].family /\ session'[c].proof = session[p].proof
                 /\ session'[c].ended = session[p].ended
                 /\ \A u \in Sessions \ {c, p} : session'[u] = session[u]
<1> DEFINE p == request[r].sid
           c == Fresh(Sessions \ Issued)
<1>1. p \in Issued /\ ~session[p].rotated /\ p \in Sessions /\ session[p] \in Row
  BY DEF CommitRotation, RotationsHold, Issued, SessionsTypeOK
<1>2. c \in Sessions \ Issued
  BY FreshIsOneOfThem DEF CommitRotation, Issued
<1>3. /\ session'[c] = [session[p] EXCEPT !.rotated = FALSE]
      /\ session'[p] = [session[p] EXCEPT !.rotated = TRUE]
      /\ \A u \in Sessions \ {c, p} : session'[u] = session[u]
  BY <1>1, <1>2 DEF CommitRotation
<1>4. /\ session'[c].family = session[p].family /\ session'[c].proof = session[p].proof
      /\ session'[c].ended = session[p].ended
      /\ session'[p].rotated /\ session'[p].family = session[p].family
  BY <1>1, <1>3 DEF Row
<1> QED BY <1>1, <1>2, <1>3, <1>4

(* No row is taken back, none changes its family, and only the request that *)
(* holds a row rotates it.                                                  *)
RowsAreKept ==
    \A s \in Issued :
        /\ s \in Issued' /\ session'[s].family = session[s].family
        /\ session'[s].rotated =>
              session[s].rotated \/ \E r \in Requests : CommitRotation(r) /\ request[r].sid = s

LEMMA RowsKept ==
    SessionsTypeOK /\ RotationsHold /\ [SessionsNext]_sessionVars => RowsAreKept
<1> SUFFICES ASSUME SessionsTypeOK, RotationsHold, [SessionsNext]_sessionVars,
                    NEW s \in Issued
             PROVE  /\ s \in Issued' /\ session'[s].family = session[s].family
                    /\ session'[s].rotated =>
                          session[s].rotated \/ \E r \in Requests : CommitRotation(r) /\ request[r].sid = s
    BY DEF RowsAreKept
<1>0. s \in Sessions /\ session[s].family # NoSession /\ session[s] \in Row
  BY DEF Issued, SessionsTypeOK
<1>1. CASE OnlyEnds
  BY <1>0, <1>1 DEF OnlyEnds, Issued, Row
<1>2. ASSUME NEW r \in Requests, PersistLogin(r)
      PROVE  session'[s] = session[s]
  BY <1>0, <1>2, LoginRow
<1>3. ASSUME NEW r \in Requests, CommitRotation(r)
      PROVE  /\ session'[s].family = session[s].family
             /\ session'[s].rotated => session[s].rotated \/ request[r].sid = s
  BY <1>0, <1>3, RotationRows
<1>4. ASSUME NEW r \in Requests, CommitReset(r) \/ CommitChange(r)
      PROVE  session'[s].family = session[s].family /\ session'[s].rotated = session[s].rotated
  BY <1>0, <1>4 DEF CommitReset, CommitChange, Row
<1>5. ASSUME NEW r \in Requests, Rehash(r) PROVE session' = session
  BY <1>5 DEF Rehash
<1> QED BY <1>0, <1>1, <1>2, <1>3, <1>4, <1>5, RowsStep DEF Issued

LEMMA RotationsHoldNext ==
    SessionsTypeOK /\ RotationsHold /\ [SessionsNext]_sessionVars => RotationsHold'
<1> SUFFICES ASSUME SessionsTypeOK, RotationsHold, [SessionsNext]_sessionVars PROVE RotationsHold'
    OBVIOUS
<1>1. RowsAreKept /\ RequestStep
  BY RowsKept, RequestsStep
<1>2. ASSUME NEW r \in Requests, Keeps(r), request[r].pc \in {"looked", "rotating"}
      PROVE  /\ request'[r].sid \in Issued'
             /\ request'[r].pc = "rotating" => ~session'[request'[r].sid].rotated
  <2>1. request[r].sid \in Issued
    BY <1>2 DEF RotationsHold, At
  <2>2. ASSUME request[r].pc = "rotating", session'[request[r].sid].rotated PROVE FALSE
    <3>1. PICK q \in Requests : CommitRotation(q) /\ request[q].sid = request[r].sid
      BY <1>1, <2>1, <2>2 DEF RowsAreKept, RotationsHold, At
    <3>2. q = r
      BY <2>2, <3>1 DEF RotationsHold, CommitRotation, At
    <3>3. request'[r] = Idle
      BY <3>1, <3>2, CommitEnds DEF CommitRotation
    <3> QED BY <1>2, <3>3 DEF Keeps, Idle
  <2> QED BY <1>1, <1>2, <2>1, <2>2 DEF RowsAreKept, Keeps
<1>3. CASE \A q \in Requests : Keeps(q)
  BY <1>2, <1>3 DEF RotationsHold, At, Keeps
<1>4. ASSUME NEW r \in Requests, \A q \in Requests \ {r} : Keeps(q), StartsLooking(r)
      PROVE  RotationsHold'
  BY <1>1, <1>2, <1>4 DEF RotationsHold, At, Keeps, StartsLooking, RowsAreKept
<1>5. ASSUME NEW r \in Requests, \A q \in Requests \ {r} : Keeps(q), StartsRotating(r)
      PROVE  RotationsHold'
  <2>1. request[r].sid \in Issued
    BY <1>5 DEF StartsRotating, RotationsHold
  <2>2. ~session'[request[r].sid].rotated
    <3> SUFFICES ASSUME session'[request[r].sid].rotated PROVE FALSE
        OBVIOUS
    <3>1. PICK q \in Requests : CommitRotation(q) /\ request[q].sid = request[r].sid
      BY <1>1, <1>5, <2>1 DEF RowsAreKept, StartsRotating
    <3> QED BY <1>5, <3>1 DEF StartsRotating, Held, CommitRotation, At
  <2>3. \A q \in Requests \ {r} : request'[q].pc = "rotating" => request'[q].sid # request[r].sid
    BY <1>5 DEF Keeps, StartsRotating, Held
  <2> QED BY <1>1, <1>2, <1>5, <2>1, <2>2, <2>3 DEF RotationsHold, At, Keeps, StartsRotating, RowsAreKept
<1>6. ASSUME NEW r \in Requests, \A q \in Requests \ {r} : Keeps(q),
             request'[r].pc \notin {"looked", "rotating"}
      PROVE  RotationsHold'
  BY <1>2, <1>6 DEF RotationsHold, At, Keeps
<1> QED BY <1>1, <1>3, <1>4, <1>5, <1>6 DEF RequestStep, StartsSuspending, Ends

LEMMA SuspensionsHoldNext ==
    SessionsTypeOK /\ SuspensionsHold /\ [SessionsNext]_sessionVars => SuspensionsHold'
<1> SUFFICES ASSUME SessionsTypeOK, SuspensionsHold, RequestStep PROVE SuspensionsHold'
    BY RequestsStep
<1>0. \A q \in Requests : Keeps(q) => (Suspending(q)' <=> Suspending(q))
  BY DEF Keeps, Suspending, At
<1>1. CASE \A q \in Requests : Keeps(q) /\ era' = era
  BY <1>0, <1>1 DEF SuspensionsHold
<1>2. ASSUME NEW r \in Requests, \A q \in Requests \ {r} : Keeps(q),
             ~Suspending(r)', era' = era \/ Suspending(r)
      PROVE  SuspensionsHold'
  BY <1>0, <1>2 DEF SuspensionsHold
<1>3. ASSUME NEW r \in Requests, \A q \in Requests \ {r} : Keeps(q), StartsSuspending(r)
      PROVE  SuspensionsHold'
  <2>1. \A q \in Requests : ~Suspending(q)
    BY <1>3 DEF StartsSuspending, AccountHeld, Suspending, At
  <2>2. \A q \in Requests : Suspending(q)' => q = r
    BY <1>0, <1>3, <2>1
  <2> QED BY <1>3, <2>2 DEF SuspensionsHold, StartsSuspending
<1>4. ASSUME NEW r \in Requests, StartsLooking(r) \/ StartsRotating(r) PROVE ~Suspending(r)'
  BY <1>4 DEF StartsLooking, StartsRotating, Suspending, At
<1> QED BY <1>1, <1>2, <1>3, <1>4 DEF RequestStep, Ends

LEMMA FamiliesNext ==
    SessionsTypeOK /\ RotationsHold /\ FamiliesAreIssued /\ [SessionsNext]_sessionVars
        => FamiliesAreIssued'
<1> SUFFICES ASSUME SessionsTypeOK, RotationsHold, FamiliesAreIssued, [SessionsNext]_sessionVars,
                    NEW s \in Sessions, session'[s].family # NoSession
             PROVE  session'[s].family \in Issued'
    BY DEF FamiliesAreIssued, Issued
<1>0. RowsAreKept
  BY RowsKept
<1>1. CASE s \in Issued
  BY <1>0, <1>1 DEF RowsAreKept, FamiliesAreIssued
<1>2. CASE s \notin Issued
  <2>1. session[s].family = NoSession /\ session[s] \in Row
    BY <1>2 DEF Issued, SessionsTypeOK
  <2>2. ~OnlyEnds
    BY <2>1 DEF OnlyEnds, Row
  <2>3. ASSUME NEW r \in Requests, PersistLogin(r) PROVE session'[s].family = s
    BY <2>1, <2>3, LoginRow
  <2>4. ASSUME NEW r \in Requests, CommitRotation(r)
        PROVE  session'[s].family = session[request[r].sid].family /\ request[r].sid \in Issued
    BY <2>1, <2>4, RotationRows DEF Issued
  <2>5. ASSUME NEW r \in Requests, CommitReset(r) \/ CommitChange(r)
        PROVE  session'[s].family = session[s].family
    BY <2>1, <2>5 DEF CommitReset, CommitChange, Row
  <2>6. ASSUME NEW r \in Requests, Rehash(r) PROVE session' = session
    BY <2>6 DEF Rehash
  <2> QED BY <1>0, <2>1, <2>2, <2>3, <2>4, <2>5, <2>6, RowsStep DEF RowsAreKept, FamiliesAreIssued, Issued
<1> QED BY <1>1, <1>2

(* A request hashes anew if it did before, or has just logged in.           *)
LEMMA OthersRehash ==
    ASSUME SessionsTypeOK, [SessionsNext]_sessionVars,
           NEW q \in Requests, request'[q].pc = "rehashing"
    PROVE  request'[q] \in {request[q], [request[q] EXCEPT !.stale = TRUE]} \/ Login(q)
<1> DEFINE Stays == request'[q] \in {request[q], [request[q] EXCEPT !.stale = TRUE]}
<1>0. Idle.pc = "idle"
  BY DEF Idle
<1>1. ASSUME NEW r \in Requests, NEW x, CommitAs(r, x) \/ Become(r, x), x.pc # "rehashing"
      PROVE  Stays
  BY <1>1 DEF CommitAs, Become, SessionsTypeOK
<1>2. ASSUME NEW r \in Requests,
             PersistLogin(r) \/ CommitRotation(r) \/ FinishRevoking(r) \/ Reactivate(r) \/ CommitReset(r)
             \/ CommitChange(r) \/ RefuseLogin(r) \/ AbortRotation(r) \/ AbortSerial(r)
      PROVE  Stays
  <2>1. CommitAs(r, Idle) \/ Become(r, Idle)
    BY <1>2 DEF PersistLogin, CommitRotation, FinishRevoking, Reactivate, CommitReset, CommitChange,
                RefuseLogin, AbortRotation, AbortSerial, Commit
  <2> QED BY <1>0, <1>1, <2>1
<1>3. ASSUME NEW r \in Requests, Rehash(r) PROVE Stays
  <2>1. PICK x \in RequestState : x.pc = "verified" /\ CommitAs(r, x)
    BY <1>3, RehashWrites
  <2> QED BY <1>1, <2>1
<1>4. ASSUME NEW r \in Requests, Login(r), r # q PROVE Stays
  BY <1>4 DEF Login, Become, SessionsTypeOK
<1>5. ASSUME NEW r \in Requests, NEW s \in Issued, Lookup(r, s) \/ ChangePassword(r, s) PROVE Stays
  <2> DEFINE x == [Idle EXCEPT !.pc = "looked", !.sid = s]
             y == [Idle EXCEPT !.pc = "hashing", !.sid = s, !.hash = hash]
  <2>1. x.pc = "looked" /\ y.pc = "hashing"
    BY DEF Idle
  <2>2. Become(r, x) \/ Become(r, y)
    BY <1>5 DEF Lookup, ChangePassword
  <2> HIDE DEF x, y
  <2> QED BY <1>1, <2>1, <2>2
<1>6. ASSUME NEW r \in Requests, NEW t \in Tokens, ResetPassword(r, t) PROVE Stays
  <2> DEFINE x == [Idle EXCEPT !.pc = "hashing", !.token = t, !.hash = hash]
  <2>1. x.pc = "hashing"
    BY DEF Idle
  <2>2. Become(r, x)
    BY <1>6 DEF ResetPassword
  <2> HIDE DEF x
  <2> QED BY <1>1, <2>1, <2>2
<1>7. ASSUME NEW r \in Requests, NEW scope, NEW rows,
             Become(r, [Idle EXCEPT !.pc = "revoking", !.scope = scope, !.seen = rows])
      PROVE  Stays
  <2> DEFINE x == [Idle EXCEPT !.pc = "revoking", !.scope = scope, !.seen = rows]
  <2>1. x.pc = "revoking"
    BY DEF Idle
  <2>2. Become(r, x)
    BY <1>7
  <2> HIDE DEF x
  <2> QED BY <1>1, <2>1, <2>2
<1>8. ASSUME NEW r \in Requests, LogoutAll(r) \/ RevokeSessions(r) \/ Deactivate(r) PROVE Stays
  BY <1>7, <1>8 DEF LogoutAll, RevokeSessions, Deactivate, BeginRevoking
<1>9. ASSUME NEW r \in Requests, OpenSerial(r) \/ Rotate(r) PROVE Stays
  <2>1. request[r] \in RequestState
    BY DEF SessionsTypeOK
  <2> DEFINE x == [request[r] EXCEPT !.pc = "serial"]
             y == [request[r] EXCEPT !.pc = "rotating"]
  <2>2. x.pc = "serial" /\ y.pc = "rotating"
    BY <2>1 DEF RequestState
  <2>3. Become(r, x) \/ Become(r, y) \/ Become(r, Idle) \/ Stays
    BY <1>7, <1>9 DEF OpenSerial, Rotate
  <2> HIDE DEF x, y
  <2> QED BY <1>0, <1>1, <2>2, <2>3
<1>10. ASSUME \/ \E r \in Requests : ForgotPassword(r)
              \/ \E s \in Issued : Logout(s) \/ ExpireSession(s)
              \/ \E t \in Tokens : ExpireToken(t)
              \/ UNCHANGED sessionVars
       PROVE  Stays
  BY <1>10 DEF ForgotPassword, Logout, ExpireSession, ExpireToken, sessionVars
<1> QED
  BY <1>2, <1>3, <1>4, <1>5, <1>6, <1>8, <1>9, <1>10 DEF SessionsNext

(* What the hash verifies, and the logins that hash anew.                   *)
LEMMA HashesNext ==
    SessionsTypeOK /\ HashesHold /\ [SessionsNext]_sessionVars => HashesHold'
<1> SUFFICES ASSUME SessionsTypeOK, HashesHold, [SessionsNext]_sessionVars PROVE HashesHold'
    OBVIOUS
<1>1. hash'.salt = 0 => hash'.password = 0
  <2>1. CASE OnlyEnds
    BY <2>1 DEF OnlyEnds, HashesHold
  <2>2. ASSUME NEW r \in Requests, Rehash(r) PROVE hash'.salt # 0
    BY <2>2, RehashWrites
  <2>3. ASSUME NEW r \in Requests, CommitReset(r) \/ CommitChange(r) PROVE hash'.salt # 0
    BY <2>3, PasswordSet DEF CommitReset, CommitChange
  <2>4. ASSUME NEW r \in Requests, PersistLogin(r) \/ CommitRotation(r) PROVE hash' = hash
    BY <2>4 DEF PersistLogin, CommitRotation
  <2> QED BY <2>1, <2>2, <2>3, <2>4, RowsStep DEF HashesHold
<1>2. ASSUME NEW q \in Requests, request'[q].pc = "rehashing" PROVE request'[q].hash.password = 0
  <2>0. request[q] \in RequestState
    BY DEF SessionsTypeOK
  <2>1. CASE request'[q] \in {request[q], [request[q] EXCEPT !.stale = TRUE]}
    BY <1>2, <2>0, <2>1 DEF HashesHold, At, RequestState
  <2>2. CASE Login(q)
    <3> DEFINE x == [Idle EXCEPT !.pc = IF NeedsRehash THEN "rehashing" ELSE "verified", !.hash = hash]
    <3>1. request'[q] = x
      BY <2>2, BecomeTakesOn DEF Login
    <3>2. x.hash = hash /\ (x.pc = "rehashing" => NeedsRehash)
      BY DEF Idle
    <3> QED BY <1>2, <3>1, <3>2 DEF NeedsRehash, HashesHold
  <2> QED BY <1>2, <2>1, <2>2, OthersRehash
<1> QED BY <1>1, <1>2 DEF HashesHold, At

(* The password a session that stays usable was opened with.                *)
LEMMA ProofStep ==
    ASSUME SessionsTypeOK, RotationsHold, HashesHold, SessionsProvePassword,
           [SessionsNext]_sessionVars, NEW s \in Sessions, Usable(s)'
    PROVE  session'[s].proof \in {password', hash'.password}
<1>0. /\ session[s] \in Row
      /\ session'[s].family # NoSession /\ ~session'[s].ended /\ ~session'[s].rotated
  BY DEF Usable, Issued, SessionsTypeOK
<1>1. ASSUME session'[s] = session[s], password' = password, hash' = hash
      PROVE  session'[s].proof \in {password', hash'.password}
  BY <1>0, <1>1 DEF SessionsProvePassword, Usable, Issued
<1>2. CASE OnlyEnds
  BY <1>0, <1>1, <1>2 DEF OnlyEnds, Row
<1>3. ASSUME NEW r \in Requests, Rehash(r)
      PROVE  session'[s].proof \in {password', hash'.password}
  <2>1. hash'.password = 0 /\ password' = password /\ session' = session
    BY <1>3, RehashWrites DEF Rehash, HashesHold
  <2>2. session[s].proof \in {password, hash.password} /\ hash.password \in {0, password}
    BY <1>0, <2>1 DEF SessionsProvePassword, Usable, Issued
  <2> QED BY <2>1, <2>2
<1>4. ASSUME NEW r \in Requests, PersistLogin(r)
      PROVE  session'[s].proof \in {password', hash'.password}
  BY <1>1, <1>4, LoginRow DEF PersistLogin
<1>5. ASSUME NEW r \in Requests, CommitRotation(r)
      PROVE  session'[s].proof \in {password', hash'.password}
  <2>0. password' = password /\ hash' = hash
    BY <1>5 DEF CommitRotation
  <2>1. PICK c \in Sessions \ Issued :
           /\ session'[c].proof = session[request[r].sid].proof
           /\ session'[c].ended = session[request[r].sid].ended
           /\ \A u \in Sessions \ {c, request[r].sid} : session'[u] = session[u]
    BY <1>5, RotationRows
  <2>2. request[r].sid \in Issued /\ ~session[request[r].sid].rotated /\ session'[request[r].sid].rotated
    BY <1>5, RotationRows
  <2>3. CASE s = c
    <3>1. Usable(request[r].sid) /\ request[r].sid \in Sessions
      BY <1>0, <2>1, <2>2, <2>3 DEF Usable, Issued
    <3> QED BY <2>0, <2>1, <2>3, <3>1 DEF SessionsProvePassword
  <2> QED BY <1>0, <1>1, <2>0, <2>1, <2>2, <2>3
<1>6. ASSUME NEW r \in Requests, CommitReset(r) PROVE FALSE
  <2>1. s \in Issued => session'[s].ended
    BY <1>6 DEF CommitReset, Row, SessionsTypeOK
  <2>2. s \notin Issued => session'[s] = session[s]
    BY <1>6 DEF CommitReset
  <2> QED BY <1>0, <2>1, <2>2 DEF Issued
<1>7. ASSUME NEW r \in Requests, CommitChange(r) PROVE session'[s].proof = password'
  <2>1. password' = password + 1
    BY <1>7, PasswordSet DEF CommitChange
  <2>2. CASE s = request[r].sid
    BY <1>0, <1>7, <2>1, <2>2 DEF CommitChange, Row
  <2>3. CASE s # request[r].sid
    <3>1. s \in Issued => session'[s].ended
      BY <1>7, <2>3 DEF CommitChange, Row, SessionsTypeOK
    <3>2. s \notin Issued => session'[s] = session[s]
      BY <1>7, <2>3 DEF CommitChange
    <3> QED BY <1>0, <3>1, <3>2 DEF Issued
  <2> QED BY <2>2, <2>3
<1> QED BY <1>2, <1>3, <1>4, <1>5, <1>6, <1>7, RowsStep

LEMMA ProofsNext ==
    SessionsTypeOK /\ RotationsHold /\ HashesHold /\ SessionsProvePassword /\ [SessionsNext]_sessionVars
        => SessionsProvePassword'
<1> SUFFICES ASSUME SessionsTypeOK, RotationsHold, HashesHold, SessionsProvePassword,
                    [SessionsNext]_sessionVars
             PROVE  SessionsProvePassword'
    OBVIOUS
<1>0. hash.password \in {0, password}
  BY DEF SessionsProvePassword
<1>1. hash'.password \in {0, password'}
  <2>1. CASE OnlyEnds
    BY <1>0, <2>1 DEF OnlyEnds
  <2>2. ASSUME NEW r \in Requests, Rehash(r) PROVE hash'.password = 0
    BY <2>2, RehashWrites DEF Rehash, HashesHold
  <2>3. ASSUME NEW r \in Requests, CommitReset(r) \/ CommitChange(r) PROVE hash'.password = password'
    BY <2>3, PasswordSet DEF CommitReset, CommitChange
  <2>4. ASSUME NEW r \in Requests, PersistLogin(r) \/ CommitRotation(r)
        PROVE  hash' = hash /\ password' = password
    BY <2>4 DEF PersistLogin, CommitRotation
  <2> QED BY <1>0, <2>1, <2>2, <2>3, <2>4, RowsStep
<1>2. ASSUME NEW s \in Sessions, Usable(s)' PROVE session'[s].proof \in {password', hash'.password}
  BY <1>2, ProofStep
<1> QED BY <1>1, <1>2 DEF SessionsProvePassword

(* At most one session of a family is usable.                               *)
OneLivePerFamily ==
    \A s, u \in Sessions :
        Usable(s) /\ Usable(u) /\ session[s].family = session[u].family => s = u

OneLiveToken == \A t, u \in Tokens : reset[t] = "active" /\ reset[u] = "active" => t = u

LEMMA FamiliesStayNext ==
    SessionsTypeOK /\ RotationsHold /\ FamiliesAreIssued /\ OneLivePerFamily
        /\ [SessionsNext]_sessionVars => OneLivePerFamily'
<1> SUFFICES ASSUME SessionsTypeOK, RotationsHold, FamiliesAreIssued, OneLivePerFamily,
                    [SessionsNext]_sessionVars,
                    NEW s \in Sessions, NEW u \in Sessions, Usable(s)', Usable(u)',
                    session'[s].family = session'[u].family, s # u
             PROVE  FALSE
    BY DEF OneLivePerFamily
<1>0. /\ session[s] \in Row /\ session[u] \in Row
      /\ session'[s].family # NoSession /\ ~session'[s].ended /\ ~session'[s].rotated
      /\ session'[u].family # NoSession /\ ~session'[u].ended /\ ~session'[u].rotated
  BY DEF Usable, Issued, SessionsTypeOK
<1>1. ASSUME session'[s] = session[s], session'[u] = session[u] PROVE FALSE
  BY <1>0, <1>1 DEF OneLivePerFamily, Usable, Issued
<1>2. CASE OnlyEnds
  BY <1>0, <1>1, <1>2 DEF OnlyEnds, Row
<1>3. ASSUME NEW r \in Requests, PersistLogin(r) PROVE FALSE
  <2>1. PICK c \in Sessions \ Issued :
           session'[c].family = c /\ \A v \in Sessions \ {c} : session'[v] = session[v]
    BY <1>3, LoginRow
  <2>2. \A v \in Sessions \ {c} : session[v].family # c
    BY <2>1, SessionsAssumption DEF FamiliesAreIssued, Issued
  <2> QED BY <1>0, <1>1, <2>1, <2>2
<1>4. ASSUME NEW r \in Requests, CommitRotation(r) PROVE FALSE
  <2> DEFINE p == request[r].sid
  <2>1. PICK c \in Sessions \ Issued :
           /\ session'[c].family = session[p].family
           /\ session'[c].ended = session[p].ended
           /\ \A v \in Sessions \ {c, p} : session'[v] = session[v]
    BY <1>4, RotationRows
  <2>2. p \in Issued /\ ~session[p].rotated /\ s # p /\ u # p
    BY <1>0, <1>4, RotationRows
  <2>3. ASSUME NEW v \in Sessions \ {c, p}, session'[v].family = session'[c].family,
               ~session'[v].ended, ~session'[v].rotated, ~session'[c].ended
        PROVE  FALSE
    <3>1. Usable(p)
      BY <2>1, <2>2, <2>3 DEF Usable
    <3>2. Usable(v) /\ session[v].family = session[p].family
      BY <2>1, <2>2, <2>3 DEF Usable, Issued
    <3> QED BY <2>2, <2>3, <3>1, <3>2 DEF OneLivePerFamily, Issued
  <2> QED BY <1>0, <1>1, <2>1, <2>2, <2>3
<1>5. ASSUME NEW r \in Requests, CommitReset(r) PROVE FALSE
  <2>1. s \in Issued => session'[s].ended
    BY <1>5 DEF CommitReset, Row, SessionsTypeOK
  <2>2. s \notin Issued => session'[s] = session[s]
    BY <1>5 DEF CommitReset
  <2> QED BY <1>0, <2>1, <2>2 DEF Issued
<1>6. ASSUME NEW r \in Requests, CommitChange(r) PROVE FALSE
  <2>1. \A v \in {s, u} \ {request[r].sid} : v \in Issued => session'[v].ended
    BY <1>6 DEF CommitChange, Row, SessionsTypeOK
  <2>2. \A v \in {s, u} \ {request[r].sid} : v \notin Issued => session'[v] = session[v]
    BY <1>6 DEF CommitChange
  <2> QED BY <1>0, <2>1, <2>2 DEF Issued
<1>7. ASSUME NEW r \in Requests, Rehash(r) PROVE session' = session
  BY <1>7 DEF Rehash
<1> QED BY <1>1, <1>2, <1>3, <1>4, <1>5, <1>6, <1>7, RowsStep

LEMMA TokensNext == SessionsTypeOK /\ OneLiveToken /\ [SessionsNext]_sessionVars => OneLiveToken'
<1> SUFFICES ASSUME SessionsTypeOK, OneLiveToken, [SessionsNext]_sessionVars PROVE OneLiveToken'
    OBVIOUS
<1>1. CASE UNCHANGED reset
  BY <1>1 DEF OneLiveToken
<1>2. ASSUME NEW r \in Requests, ForgotPassword(r) PROVE OneLiveToken'
  BY <1>2 DEF ForgotPassword, OneLiveToken
<1>3. ASSUME NEW r \in Requests, CommitReset(r) PROVE OneLiveToken'
  BY <1>3 DEF CommitReset, OneLiveToken, SessionsTypeOK
<1>4. ASSUME NEW t \in Tokens, ExpireToken(t) PROVE OneLiveToken'
  BY <1>4 DEF ExpireToken, OneLiveToken, SessionsTypeOK
<1> QED
  BY <1>1, <1>2, <1>3, <1>4
  DEF SessionsNext, sessionVars, Login, Rehash, PersistLogin, RefuseLogin, Lookup, ChangePassword, Rotate,
      CommitRotation, AbortRotation, LogoutAll, RevokeSessions, Deactivate, FinishRevoking, Reactivate,
      OpenSerial, CommitChange, AbortSerial, ResetPassword, Logout, ExpireSession

LEMMA SessionsInductive ==
    /\ SessionsInit => SessionsIInv
    /\ SessionsIInv /\ [SessionsNext]_sessionVars => SessionsIInv'
<1>1. ASSUME SessionsInit PROVE SessionsIInv
  <2>1. Issued = {}
    BY <1>1 DEF SessionsInit, Issued, NoRow
  <2>2. \A r \in Requests : request[r].pc = "idle"
    BY <1>1 DEF SessionsInit, Idle
  <2>3. RotationsHold /\ SuspensionsHold /\ FamiliesAreIssued
    BY <2>1, <2>2 DEF RotationsHold, SuspensionsHold, FamiliesAreIssued, Suspending, At
  <2>4. hash.password = 0 /\ password = 0
    BY <1>1 DEF SessionsInit, FirstHash
  <2>5. SessionsProvePassword /\ OneLiveCredential /\ HashesHold
    BY <1>1, <2>1, <2>2, <2>4
    DEF SessionsInit, SessionsProvePassword, OneLiveCredential, HashesHold, Usable, At
  <2> QED BY <1>1, <2>3, <2>5, SessionsTypeInit DEF SessionsIInv
<1>2. SessionsIInv /\ [SessionsNext]_sessionVars => SessionsIInv'
  <2>1. OneLiveCredential <=> OneLivePerFamily /\ OneLiveToken
    BY DEF OneLiveCredential, OneLivePerFamily, OneLiveToken
  <2>2. OneLiveCredential' <=> OneLivePerFamily' /\ OneLiveToken'
    BY DEF OneLiveCredential, OneLivePerFamily, OneLiveToken
  <2> QED
    BY <2>1, <2>2, SessionsTypeNext, RotationsHoldNext, SuspensionsHoldNext, FamiliesNext, HashesNext,
       ProofsNext, FamiliesStayNext, TokensNext DEF SessionsIInv
<1> QED BY <1>1, <1>2

-----------------------------------------------------------------------------
(* Accounts.                                                                *)

(* The official address names one account, and no other is privileged.      *)
RowsAreOfficial ==
    \A u \in Accounts :
        /\ account[u].email = AccountEmail <=> u = Official
        /\ account[u].email # RecoveryEmail
        /\ account[u].roles \intersect Privileged # {} => u = Official

OfficialStands == account[Official].status = "ACTIVE" /\ "SUPER_ADMIN" \in account[Official].roles

(* What a request was allowed when it read stays allowed until it writes.   *)
PolicyKept(x) ==
    /\ Exists(x.target)
    /\ x.op = "update" =>
          /\ x.email = AccountEmail <=> x.target = Official
          /\ x.email # RecoveryEmail
    /\ x.op = "suspend" => x.target # Official
    /\ x.op = "assign" /\ x.role \in Privileged => x.target = Official
    /\ x.op = "remove" /\ x.target = Official => x.role \notin Privileged

CallsKeepThePolicy == \A q \in Calls : PolicyKept(call[q])

AccountsIInv ==
    /\ AccountsTypeOK
    /\ RowsAreOfficial
    /\ OfficialStands
    /\ CallsKeepThePolicy
    /\ ThresholdLocks

LEMMA WaitingIsACall == Waiting \in CallState /\ Waiting.op = "idle" /\ Waiting.target = Official
BY AccountsAssumption DEF Waiting, CallState

(* A row of the account u that breaks none of the rules.                    *)
RowStands(u, row) ==
    /\ row \in Account
    /\ row.email = AccountEmail <=> u = Official
    /\ row.email # RecoveryEmail
    /\ row.roles \intersect Privileged # {} => u = Official
    /\ u = Official => row.status = "ACTIVE" /\ "SUPER_ADMIN" \in row.roles

Claimed(u) == \E q \in Calls : call[q].op = "claim" /\ call[q].target = u

LockedInTime(row, claimed) == row.fails >= MaxFailures => row.lock # "none" \/ claimed

LEMMA RowsStand ==
    ASSUME AccountsIInv, NEW u \in Accounts
    PROVE  RowStands(u, account[u]) /\ LockedInTime(account[u], Claimed(u))
BY DEF AccountsIInv, AccountsTypeOK, RowsAreOfficial, OfficialStands, ThresholdLocks, RowStands,
       LockedInTime, Claimed

(* Every operation writes one row; the requests it ends hold no claim on    *)
(* another row, and those it takes on keep to the policy.                   *)
LEMMA RowWritten ==
    ASSUME AccountsIInv, NEW u \in Accounts, NEW row,
           RowStands(u, row), Exists(u) => row.email # NoEmail,
           account' = [account EXCEPT ![u] = row],
           LockedInTime(row, Claimed(u)'),
           \A v \in Accounts \ {u} : Claimed(v) => Claimed(v)',
           \/ UNCHANGED call
           \/ \E q \in Calls : \E x \in CallState :
                 (x = Waiting \/ PolicyKept(x)) /\ call' = [call EXCEPT ![q] = x]
    PROVE  AccountsIInv'
<1>1. /\ account'[u] = row
      /\ \A v \in Accounts \ {u} : account'[v] = account[v]
  BY DEF AccountsIInv, AccountsTypeOK
<1>2. AccountsTypeOK'
  <2>1. account' \in [Accounts -> Account]
    BY DEF AccountsIInv, AccountsTypeOK, RowStands
  <2>2. call' \in [Calls -> CallState]
    BY DEF AccountsIInv, AccountsTypeOK
  <2> QED BY <2>1, <2>2 DEF AccountsTypeOK
<1>3. \A v \in Accounts : RowStands(v, account'[v])
  BY <1>1, RowsStand
<1>4. RowsAreOfficial' /\ OfficialStands'
  BY <1>3, AccountsAssumption DEF RowsAreOfficial, OfficialStands, RowStands
<1>5. \A v \in Accounts : Exists(v) => Exists(v)'
  BY <1>1 DEF Exists
<1>6. CallsKeepThePolicy'
  <2>1. Exists(Official)' /\ Official \in Accounts
    BY <1>4, AccountsAssumption DEF RowsAreOfficial, Exists
  <2>2. ASSUME NEW p \in Calls PROVE PolicyKept(call[p])'
    <3>1. ASSUME NEW y \in CallState, PolicyKept(y) PROVE PolicyKept(y)'
      BY <1>5, <3>1 DEF PolicyKept, CallState
    <3>2. CASE call'[p] = call[p]
      <4>1. PICK y \in CallState : y = call[p]
        BY DEF AccountsIInv, AccountsTypeOK
      <4>2. PolicyKept(y) /\ call'[p] = y
        BY <3>2, <4>1 DEF AccountsIInv, AccountsTypeOK, CallsKeepThePolicy
      <4> QED BY <3>1, <4>2 DEF PolicyKept, Exists
    <3>3. CASE call'[p] # call[p]
      <4>1. PICK x \in CallState : (x = Waiting \/ PolicyKept(x)) /\ call'[p] = x
        BY <3>3 DEF AccountsIInv, AccountsTypeOK
      <4>2. PolicyKept(x)'
        BY <2>1, <3>1, <4>1, WaitingIsACall DEF PolicyKept
      <4> QED BY <4>1, <4>2 DEF PolicyKept, Exists
    <3> QED BY <3>2, <3>3
  <2> QED BY <2>2 DEF CallsKeepThePolicy
<1>7. ThresholdLocks'
  <2>1. ASSUME NEW v \in Accounts PROVE LockedInTime(account'[v], Claimed(v)')
    <3>1. CASE v = u
      BY <1>1, <3>1
    <3>2. CASE v # u
      BY <1>1, <3>2, RowsStand DEF LockedInTime
    <3> QED BY <3>1, <3>2
  <2> QED BY <2>1 DEF ThresholdLocks, LockedInTime, Claimed
<1> QED BY <1>2, <1>4, <1>6, <1>7 DEF AccountsIInv

LEMMA CallIsTaken ==
    ASSUME AccountsIInv, NEW q \in Calls, call[q].op # "claim", UNCHANGED account,
           NEW x \in CallState, PolicyKept(x), call' = [call EXCEPT ![q] = x]
    PROVE  AccountsIInv'
<1>1. PICK row : row = account[Official]
  OBVIOUS
<1>2. Official \in Accounts
  BY AccountsAssumption
<1>3. account' = [account EXCEPT ![Official] = row]
  BY <1>1, <1>2 DEF AccountsIInv, AccountsTypeOK
<1>4. \A v \in Accounts : Claimed(v) => Claimed(v)'
  BY DEF Claimed, AccountsIInv, AccountsTypeOK
<1>5. RowStands(Official, row) /\ LockedInTime(row, Claimed(Official)')
  BY <1>1, <1>2, <1>4, RowsStand DEF LockedInTime
<1> QED BY <1>1, <1>2, <1>3, <1>4, <1>5, RowWritten DEF Exists

LEMMA CallReads ==
    ASSUME AccountsIInv, NEW q \in Calls, NEW a, NEW u \in Accounts,
           \E x \in CallState : Read(q, a, u, x) /\ PolicyKept(x)
    PROVE  AccountsIInv'
<1>1. PICK x \in CallState : Read(q, a, u, x) /\ PolicyKept(x)
  OBVIOUS
<1> QED BY <1>1, CallIsTaken DEF Read

(* Writing one field of a request, or of a row, keeps its type.             *)
LEMMA CallFields ==
    ASSUME NEW x \in CallState
    PROVE  /\ \A u \in Accounts : [x EXCEPT !.target = u] \in CallState
           /\ \A email \in Emails : [x EXCEPT !.email = email] \in CallState
           /\ \A role \in RoleNames : [x EXCEPT !.role = role] \in CallState
           /\ \A n \in 0..MaxVersion : [x EXCEPT !.version = n] \in CallState
           /\ \A n \in 0..MaxFailures + 1 : [x EXCEPT !.fails = n] \in CallState
           /\ \A lock \in {"none", "set", "past"} : [x EXCEPT !.lock = lock] \in CallState
           /\ \A op \in {"update", "suspend", "assign", "remove", "unlock", "expired", "count", "claim"} :
                 [x EXCEPT !.op = op] \in CallState
BY DEF CallState

LEMMA UpdateReads ==
    ASSUME AccountsIInv, NEW q \in Calls, NEW a \in Accounts, NEW u \in Accounts, NEW email \in Emails,
           UpdateUser(q, a, u, email)
    PROVE  AccountsIInv'
<1> DEFINE v == account[u].version
           x1 == [Waiting EXCEPT !.op = "update"]
           x2 == [x1 EXCEPT !.target = u]
           x3 == [x2 EXCEPT !.email = email]
           x4 == [x3 EXCEPT !.version = v]
           x == [Waiting EXCEPT !.op = "update", !.target = u, !.email = email, !.version = v]
<1>1. x = x4
  OBVIOUS
<1>2. account[u] \in Account /\ v \in 0..MaxVersion
  BY DEF AccountsIInv, AccountsTypeOK, Account
<1>3. x1 \in CallState
  BY WaitingIsACall, CallFields
<1>4. x2 \in CallState
  BY <1>3, CallFields
<1>5. x3 \in CallState
  BY <1>4, CallFields
<1>6. x4 \in CallState
  BY <1>2, <1>5, CallFields
<1>7. x.op = "update" /\ x.target = u /\ x.email = email
  BY DEF Waiting
<1>8. /\ Read(q, a, u, x) /\ Exists(u)
      /\ (account[u].email = AccountEmail) <=> (email = AccountEmail)
      /\ email # RecoveryEmail
  BY DEF UpdateUser, Read, MayChangeEmail
<1>9. PolicyKept(x)
  BY <1>7, <1>8 DEF PolicyKept, AccountsIInv, RowsAreOfficial
<1> QED BY <1>1, <1>6, <1>8, <1>9, CallReads

LEMMA SuspendReads ==
    ASSUME AccountsIInv, NEW q \in Calls, NEW a \in Accounts, NEW u \in Accounts, DeactivateUser(q, a, u)
    PROVE  AccountsIInv'
<1> DEFINE v == account[u].version
           x1 == [Waiting EXCEPT !.op = "suspend"]
           x2 == [x1 EXCEPT !.target = u]
           x3 == [x2 EXCEPT !.version = v]
           x == [Waiting EXCEPT !.op = "suspend", !.target = u, !.version = v]
<1>1. x = x3
  OBVIOUS
<1>2. account[u] \in Account /\ v \in 0..MaxVersion
  BY DEF AccountsIInv, AccountsTypeOK, Account
<1>3. x1 \in CallState
  BY WaitingIsACall, CallFields
<1>4. x2 \in CallState
  BY <1>3, CallFields
<1>5. x3 \in CallState
  BY <1>2, <1>4, CallFields
<1>6. x.op = "suspend" /\ x.target = u
  BY DEF Waiting
<1>7. Read(q, a, u, x) /\ Exists(u) /\ account[u].email # AccountEmail
  BY DEF DeactivateUser, Read, MayDeactivate
<1>8. PolicyKept(x)
  BY <1>6, <1>7 DEF PolicyKept, AccountsIInv, RowsAreOfficial
<1> QED BY <1>1, <1>5, <1>7, <1>8, CallReads

LEMMA RoleReads ==
    ASSUME AccountsIInv, NEW q \in Calls, NEW a \in Accounts, NEW u \in Accounts, NEW role \in RoleNames,
           AssignRole(q, a, u, role) \/ RemoveRole(q, a, u, role)
    PROVE  AccountsIInv'
<1>1. PICK op \in {"assign", "remove"} :
         /\ Read(q, a, u, [Waiting EXCEPT !.op = op, !.target = u, !.role = role])
         /\ op = "assign" => MayHold(account[u].email, role)
         /\ op = "remove" => MayRemove(account[u].email, role)
  BY DEF AssignRole, RemoveRole
<1> DEFINE x1 == [Waiting EXCEPT !.op = op]
           x2 == [x1 EXCEPT !.target = u]
           x3 == [x2 EXCEPT !.role = role]
           x == [Waiting EXCEPT !.op = op, !.target = u, !.role = role]
<1>2. x = x3
  OBVIOUS
<1>3. x1 \in CallState
  BY WaitingIsACall, CallFields
<1>4. x2 \in CallState
  BY <1>3, CallFields
<1>5. x3 \in CallState
  BY <1>4, CallFields
<1>6. x.op = op /\ x.target = u /\ x.role = role
  BY DEF Waiting
<1>7. Exists(u) /\ (account[u].email = AccountEmail <=> u = Official)
  BY <1>1 DEF Read, AccountsIInv, RowsAreOfficial
<1>8. PolicyKept(x)
  BY <1>1, <1>6, <1>7 DEF PolicyKept, MayHold, MayRemove
<1> QED BY <1>1, <1>2, <1>5, <1>8, CallReads

LEMMA LoginReads ==
    ASSUME AccountsIInv, NEW q \in Calls, NEW u \in Accounts, FailLogin(q, u)
    PROVE  AccountsIInv'
<1> DEFINE op == IF account[u].lock = "past" THEN "expired" ELSE "count"
           x1 == [Waiting EXCEPT !.op = op]
           x2 == [x1 EXCEPT !.target = u]
           x == [Waiting EXCEPT !.op = op, !.target = u]
<1>1. x = x2
  OBVIOUS
<1>2. x1 \in CallState
  BY WaitingIsACall, CallFields
<1>3. x2 \in CallState
  BY <1>2, CallFields
<1>4. x.op \in {"expired", "count"} /\ x.target = u
  BY DEF Waiting
<1>5. Read(q, u, u, x) /\ Exists(u)
  BY DEF FailLogin, Read
<1>6. PolicyKept(x)
  BY <1>4, <1>5 DEF PolicyKept
<1> QED BY <1>1, <1>3, <1>5, <1>6, CallReads

LEMMA UnlockReads ==
    ASSUME AccountsIInv, NEW q \in Calls, NEW a \in Accounts, NEW u \in Accounts, Unlock(q, a, u)
    PROVE  AccountsIInv'
<1> DEFINE row == account[u]
           x1 == [Waiting EXCEPT !.op = "unlock"]
           x2 == [x1 EXCEPT !.target = u]
           x3 == [x2 EXCEPT !.version = row.version]
           x4 == [x3 EXCEPT !.fails = row.fails]
           x5 == [x4 EXCEPT !.lock = row.lock]
           x == [Waiting EXCEPT !.op = "unlock", !.target = u, !.version = row.version,
                                !.fails = row.fails, !.lock = row.lock]
<1>1. x = x5
  OBVIOUS
<1>2. /\ row.version \in 0..MaxVersion /\ row.fails \in 0..MaxFailures + 1
      /\ row.lock \in {"none", "set", "past"}
  BY DEF AccountsIInv, AccountsTypeOK, Account
<1>3. x1 \in CallState
  BY WaitingIsACall, CallFields
<1>4. x2 \in CallState
  BY <1>3, CallFields
<1>5. x3 \in CallState
  BY <1>2, <1>4, CallFields
<1>6. x4 \in CallState
  BY <1>2, <1>5, CallFields
<1>7. x5 \in CallState
  BY <1>2, <1>6, CallFields
<1>8. x.op = "unlock" /\ x.target = u
  BY DEF Waiting
<1>9. Read(q, a, u, x) /\ Exists(u)
  BY DEF Unlock, Read
<1>10. PolicyKept(x)
  BY <1>8, <1>9 DEF PolicyKept
<1> QED BY <1>1, <1>7, <1>9, <1>10, CallReads

LEMMA RowFields ==
    ASSUME NEW x \in Account
    PROVE  /\ \A email \in Emails : [x EXCEPT !.email = email] \in Account
           /\ \A standing \in {"ACTIVE", "INACTIVE"} : [x EXCEPT !.status = standing] \in Account
           /\ \A roles \in SUBSET RoleNames : [x EXCEPT !.roles = roles] \in Account
           /\ \A n \in 0..MaxVersion : [x EXCEPT !.version = n] \in Account
           /\ \A n \in 0..MaxFailures + 1 : [x EXCEPT !.fails = n] \in Account
           /\ \A lock \in {"none", "set", "past"} : [x EXCEPT !.lock = lock] \in Account
BY DEF Account

(* A request that holds no claim writes a row that stands, and ends.        *)
LEMMA RowIsWritten ==
    ASSUME AccountsIInv, NEW u \in Accounts,
           \/ UNCHANGED account
           \/ \E row :
                 /\ account' = [account EXCEPT ![u] = row]
                 /\ RowStands(u, row)
                 /\ Exists(u) => row.email # NoEmail
                 /\ LockedInTime(row, Claimed(u)),
           \/ UNCHANGED call
           \/ \E q \in Calls : call[q].op # "claim" /\ Done(q)
    PROVE  AccountsIInv'
<1>1. PICK row :
         /\ account' = [account EXCEPT ![u] = row]
         /\ RowStands(u, row)
         /\ Exists(u) => row.email # NoEmail
         /\ LockedInTime(row, Claimed(u))
  <2>1. CASE UNCHANGED account
    <3>1. account' = [account EXCEPT ![u] = account[u]]
      BY <2>1 DEF AccountsIInv, AccountsTypeOK
    <3> QED BY <3>1, RowsStand DEF Exists
  <2> QED BY <2>1
<1>2. \A v \in Accounts : Claimed(v) => Claimed(v)'
  BY DEF Claimed, Done, AccountsIInv, AccountsTypeOK
<1>3. LockedInTime(row, Claimed(u)')
  BY <1>1, <1>2 DEF LockedInTime
<1>4. \/ UNCHANGED call
      \/ \E q \in Calls : \E x \in CallState :
            (x = Waiting \/ PolicyKept(x)) /\ call' = [call EXCEPT ![q] = x]
  BY WaitingIsACall DEF Done
<1> QED BY <1>1, <1>2, <1>3, <1>4, RowWritten

LEMMA Targets ==
    ASSUME AccountsIInv, NEW q \in Calls
    PROVE  /\ call[q].target \in Accounts /\ account[call[q].target] \in Account
           /\ call[q].email \in Emails /\ call[q].role \in RoleNames
           /\ PolicyKept(call[q])
BY DEF AccountsIInv, AccountsTypeOK, CallState, CallsKeepThePolicy

LEMMA RowEdits ==
    ASSUME NEW x \in Account, x.version < MaxVersion
    PROVE  /\ Edited(x) \in Account
           /\ Edited(x).email = x.email /\ Edited(x).status = x.status /\ Edited(x).roles = x.roles
           /\ Edited(x).fails = x.fails /\ Edited(x).lock = x.lock
<1>1. x.version + 1 \in 0..MaxVersion
  BY AccountsAssumption DEF Account
<1>2. Edited(x) = [x EXCEPT !.version = x.version + 1]
  BY DEF Edited
<1> QED BY <1>1, <1>2 DEF Account

LEMMA RowClears ==
    ASSUME NEW x \in Account
    PROVE  /\ Cleared(x) \in Account
           /\ Cleared(x).email = x.email /\ Cleared(x).status = x.status /\ Cleared(x).roles = x.roles
           /\ Cleared(x).version = x.version /\ Cleared(x).fails = 0 /\ Cleared(x).lock = "none"
<1> DEFINE y == [x EXCEPT !.fails = 0]
<1>1. 0 \in 0..MaxFailures + 1
  BY AccountsAssumption
<1>2. y \in Account
  BY <1>1, RowFields
<1>3. Cleared(x) = [y EXCEPT !.lock = "none"]
  BY DEF Cleared
<1>4. Cleared(x) \in Account
  BY <1>2, <1>3, RowFields
<1> QED BY <1>4 DEF Account, Cleared

(* The lockout is not touched, or is cleared.                               *)
LEMMA NotLocked ==
    ASSUME NEW x \in Account, NEW claimed, x.fails = 0
    PROVE  LockedInTime(x, claimed)
BY AccountsAssumption DEF LockedInTime

LEMMA UserWrites ==
    ASSUME AccountsIInv, NEW q \in Calls, WriteUser(q)
    PROVE  AccountsIInv'
<1> DEFINE u == call[q].target
           old == account[u]
           email == call[q].email
           named == [old EXCEPT !.email = email]
           row == Edited(named)
<1>1. u \in Accounts /\ old \in Account /\ email \in Emails /\ PolicyKept(call[q])
  BY Targets
<1>2. call[q].op = "update" /\ Done(q)
  BY DEF WriteUser
<1>3. \/ UNCHANGED account
      \/ old.version < MaxVersion /\ account' = [account EXCEPT ![u] = row]
  BY DEF WriteUser
<1>4. CASE UNCHANGED account
  BY <1>1, <1>2, <1>4, RowIsWritten
<1>5. CASE old.version < MaxVersion /\ account' = [account EXCEPT ![u] = row]
  <2>1. named \in Account
    BY <1>1, RowFields
  <2>2. /\ named.email = email /\ named.status = old.status /\ named.roles = old.roles
        /\ named.fails = old.fails /\ named.lock = old.lock /\ named.version = old.version
    BY <1>1 DEF Account
  <2>3. /\ row \in Account
        /\ row.email = email /\ row.status = old.status /\ row.roles = old.roles
        /\ row.fails = old.fails /\ row.lock = old.lock
    BY <1>5, <2>1, <2>2, RowEdits
  <2>4. RowStands(u, old) /\ LockedInTime(old, Claimed(u))
    BY <1>1, RowsStand
  <2>5. RowStands(u, row)
    BY <1>1, <1>2, <2>3, <2>4 DEF RowStands, PolicyKept
  <2>6. row.email # NoEmail
    BY <1>1, <2>3, AccountsAssumption
  <2>7. LockedInTime(row, Claimed(u))
    BY <2>3, <2>4 DEF LockedInTime
  <2> HIDE DEF row, u
  <2> QED BY <1>1, <1>2, <1>5, <2>5, <2>6, <2>7, RowIsWritten
<1> HIDE DEF row
<1> QED BY <1>3, <1>4, <1>5

(* A row that keeps its address, status and roles.                          *)
LEMMA SameIdentity ==
    ASSUME AccountsIInv, NEW u \in Accounts, NEW row \in Account,
           row.email = account[u].email, row.status = account[u].status, row.roles = account[u].roles
    PROVE  RowStands(u, row) /\ (Exists(u) => row.email # NoEmail)
BY RowsStand DEF RowStands, Exists

LEMMA StatusWrites ==
    ASSUME AccountsIInv,
           \/ \E q \in Calls : WriteStatus(q)
           \/ \E a, u \in Accounts : ReactivateUser(a, u)
    PROVE  AccountsIInv'
<1>1. PICK u \in Accounts, standing \in {"ACTIVE", "INACTIVE"} :
         /\ \/ UNCHANGED account
            \/ /\ account' = [account EXCEPT ![u] = Edited([account[u] EXCEPT !.status = standing])]
               /\ account[u].version < MaxVersion
               /\ u = Official => standing = "ACTIVE"
         /\ \/ UNCHANGED call
            \/ \E q \in Calls : call[q].op # "claim" /\ Done(q)
  <2>1. ASSUME NEW q \in Calls, WriteStatus(q)
        PROVE  /\ call[q].op # "claim" /\ Done(q) /\ call[q].target \in Accounts
               /\ call[q].target # Official
               /\ \/ UNCHANGED account
                  \/ /\ account[call[q].target].version < MaxVersion
                     /\ account' = [account EXCEPT ![call[q].target] =
                                      Edited([account[call[q].target] EXCEPT !.status = "INACTIVE"])]
    BY <2>1, Targets DEF WriteStatus, PolicyKept
  <2>2. ASSUME NEW a \in Accounts, NEW u \in Accounts, ReactivateUser(a, u)
        PROVE  /\ UNCHANGED call
               /\ account[u].version < MaxVersion
               /\ account' = [account EXCEPT ![u] = Edited([account[u] EXCEPT !.status = "ACTIVE"])]
    BY <2>2 DEF ReactivateUser
  <2> QED BY <2>1, <2>2
<1> DEFINE old == account[u]
           moved == [old EXCEPT !.status = standing]
           row == Edited(moved)
<1>2. CASE UNCHANGED account
  BY <1>1, <1>2, RowIsWritten
<1>3. CASE old.version < MaxVersion /\ account' = [account EXCEPT ![u] = row]
           /\ (u = Official => standing = "ACTIVE")
  <2>1. old \in Account /\ RowStands(u, old) /\ LockedInTime(old, Claimed(u))
    BY RowsStand DEF RowStands
  <2>2. moved \in Account
    BY <2>1, RowFields
  <2>3. /\ moved.email = old.email /\ moved.status = standing /\ moved.roles = old.roles
        /\ moved.fails = old.fails /\ moved.lock = old.lock /\ moved.version = old.version
    BY <2>1 DEF Account
  <2>4. /\ row \in Account
        /\ row.email = old.email /\ row.status = standing /\ row.roles = old.roles
        /\ row.fails = old.fails /\ row.lock = old.lock
    BY <1>3, <2>2, <2>3, RowEdits
  <2>5. RowStands(u, row) /\ LockedInTime(row, Claimed(u)) /\ (Exists(u) => row.email # NoEmail)
    BY <1>3, <2>1, <2>4 DEF RowStands, LockedInTime, Exists
  <2> HIDE DEF row
  <2> QED BY <1>1, <1>3, <2>5, RowIsWritten
<1> HIDE DEF row
<1> QED BY <1>1, <1>2, <1>3 DEF row

LEMMA UserIsCreated ==
    ASSUME AccountsIInv, NEW a \in Accounts, NEW u \in Accounts, NEW email \in Emails,
           NEW roles \in SUBSET RoleNames, CreateUser(a, u, email, roles)
    PROVE  AccountsIInv'
<1> DEFINE named == [Absent EXCEPT !.email = email]
           row == [Absent EXCEPT !.email = email, !.roles = roles]
<1>1. Absent \in Account
  BY AccountsAssumption DEF Absent, Account
<1>2. named \in Account
  BY <1>1, RowFields
<1>3. row = [named EXCEPT !.roles = roles]
  OBVIOUS
<1>4. row \in Account
  BY <1>2, <1>3, RowFields
<1>5. row.email = email /\ row.roles = roles /\ row.fails = 0
  BY DEF Absent
<1>6. account[Official].email = AccountEmail /\ Exists(Official) /\ Official \in Accounts
  BY AccountsAssumption DEF AccountsIInv, RowsAreOfficial, Exists
<1>7. u # Official /\ email # AccountEmail /\ email # RecoveryEmail /\ roles \intersect Privileged = {}
  BY <1>6 DEF CreateUser, MayAssign, MayHold, MayChangeEmail
<1>8. RowStands(u, row) /\ row.email # NoEmail
  BY <1>4, <1>5, <1>7, AccountsAssumption DEF RowStands
<1>9. LockedInTime(row, Claimed(u))
  BY <1>4, <1>5, AccountsAssumption DEF LockedInTime
<1> HIDE DEF row
<1>10. account' = [account EXCEPT ![u] = row] /\ UNCHANGED call
  BY DEF CreateUser, row
<1> QED BY <1>8, <1>9, <1>10, RowIsWritten

LEMMA RoleWrites ==
    ASSUME AccountsIInv, NEW q \in Calls, WriteRole(q) \/ DeleteRole(q)
    PROVE  AccountsIInv'
<1> DEFINE u == call[q].target
           old == account[u]
           role == call[q].role
<1>1. /\ u \in Accounts /\ old \in Account /\ role \in RoleNames /\ PolicyKept(call[q])
      /\ RowStands(u, old) /\ LockedInTime(old, Claimed(u))
  BY Targets, RowsStand
<1>2. call[q].op # "claim" /\ Done(q)
  BY DEF WriteRole, DeleteRole
<1>3. \/ UNCHANGED account
      \/ \E roles \in SUBSET RoleNames :
            /\ account' = [account EXCEPT ![u] = [old EXCEPT !.roles = roles]]
            /\ roles \intersect Privileged # {} => u = Official
            /\ u = Official => "SUPER_ADMIN" \in roles
  <2>1. old.roles \in SUBSET RoleNames
    BY <1>1 DEF Account
  <2>2. CASE WriteRole(q)
    <3>1. account' = [account EXCEPT ![u] = [old EXCEPT !.roles = old.roles \union {role}]]
      BY <1>1, <2>2 DEF WriteRole
    <3>2. role \in Privileged => u = Official
      BY <1>1, <2>2 DEF WriteRole, PolicyKept
    <3> DEFINE roles == old.roles \union {role}
    <3>3. roles \in SUBSET RoleNames
      BY <1>1, <2>1
    <3>4. roles \intersect Privileged # {} => old.roles \intersect Privileged # {} \/ role \in Privileged
      OBVIOUS
    <3>5. roles \intersect Privileged # {} => u = Official
      BY <1>1, <3>2, <3>4 DEF RowStands
    <3>6. u = Official => "SUPER_ADMIN" \in roles
      BY <1>1 DEF RowStands
    <3> HIDE DEF roles
    <3> QED BY <3>1, <3>3, <3>5, <3>6 DEF roles
  <2>3. CASE DeleteRole(q)
    <3>1. UNCHANGED account \/ account' = [account EXCEPT ![u] = [old EXCEPT !.roles = old.roles \ {role}]]
      BY <1>1, <2>3 DEF DeleteRole
    <3>2. u = Official => role \notin Privileged
      BY <1>1, <2>3 DEF DeleteRole, PolicyKept
    <3> DEFINE roles == old.roles \ {role}
    <3>3. roles \in SUBSET RoleNames
      BY <2>1
    <3>4. roles \intersect Privileged # {} => old.roles \intersect Privileged # {}
      OBVIOUS
    <3>5. roles \intersect Privileged # {} => u = Official
      BY <1>1, <3>4 DEF RowStands
    <3>6. u = Official => "SUPER_ADMIN" \in roles
      BY <1>1, <3>2 DEF RowStands, Privileged
    <3>7. CASE UNCHANGED account
      BY <3>7
    <3>8. CASE account' = [account EXCEPT ![u] = [old EXCEPT !.roles = roles]]
      <4> HIDE DEF roles
      <4> QED BY <3>3, <3>5, <3>6, <3>8
    <3> QED BY <3>1, <3>7, <3>8
  <2> QED BY <2>2, <2>3
<1>4. CASE UNCHANGED account
  BY <1>1, <1>2, <1>4, RowIsWritten
<1>5. ASSUME NEW roles \in SUBSET RoleNames,
             account' = [account EXCEPT ![u] = [old EXCEPT !.roles = roles]],
             roles \intersect Privileged # {} => u = Official,
             u = Official => "SUPER_ADMIN" \in roles
      PROVE  AccountsIInv'
  <2> DEFINE row == [old EXCEPT !.roles = roles]
  <2>1. row \in Account
    BY <1>1, RowFields
  <2>2. /\ row.email = old.email /\ row.status = old.status /\ row.roles = roles
        /\ row.fails = old.fails /\ row.lock = old.lock
    BY <1>1 DEF Account
  <2>3. RowStands(u, row) /\ LockedInTime(row, Claimed(u)) /\ (Exists(u) => row.email # NoEmail)
    BY <1>1, <1>5, <2>1, <2>2 DEF RowStands, LockedInTime, Exists
  <2> QED BY <1>1, <1>2, <1>5, <2>3, RowIsWritten
<1> QED BY <1>3, <1>4, <1>5

(* The writes of the lockout keep the identity of the row.                  *)
LEMMA LockoutWrites ==
    ASSUME AccountsIInv, NEW u \in Accounts, NEW row \in Account,
           row.email = account[u].email, row.status = account[u].status, row.roles = account[u].roles,
           LockedInTime(row, Claimed(u)),
           account' = [account EXCEPT ![u] = row],
           \/ UNCHANGED call
           \/ \E q \in Calls : call[q].op # "claim" /\ Done(q)
    PROVE  AccountsIInv'
BY SameIdentity, RowIsWritten

LEMMA LockIsCleared ==
    ASSUME AccountsIInv,
           (\E u \in Accounts : SucceedLogin(u)) \/ (\E q \in Calls : WriteUnlock(q))
    PROVE  AccountsIInv'
<1>1. ASSUME NEW u \in Accounts, SucceedLogin(u) PROVE AccountsIInv'
  <2>1. account' = [account EXCEPT ![u] = Cleared(account[u])] /\ UNCHANGED call
    BY <1>1 DEF SucceedLogin
  <2>2. account[u] \in Account
    BY RowsStand DEF RowStands
  <2> QED BY <2>1, <2>2, RowClears, NotLocked, LockoutWrites
<1>2. ASSUME NEW q \in Calls, WriteUnlock(q) PROVE AccountsIInv'
  <2> DEFINE u == call[q].target
             row == Edited(Cleared(account[u]))
  <2>1. u \in Accounts /\ account[u] \in Account /\ call[q].op # "claim" /\ Done(q)
    BY <1>2, Targets DEF WriteUnlock
  <2>2. \/ UNCHANGED account
        \/ account[u].version < MaxVersion /\ account' = [account EXCEPT ![u] = row]
    BY <1>2 DEF WriteUnlock
  <2>3. CASE UNCHANGED account
    BY <2>1, <2>3, RowIsWritten
  <2>4. CASE account[u].version < MaxVersion /\ account' = [account EXCEPT ![u] = row]
    <3>1. /\ row \in Account
          /\ row.email = account[u].email /\ row.status = account[u].status
          /\ row.roles = account[u].roles /\ row.fails = 0
      BY <2>1, <2>4, RowClears, RowEdits
    <3> HIDE DEF row
    <3> QED BY <2>1, <2>4, <3>1, NotLocked, LockoutWrites
  <2> HIDE DEF row
  <2> QED BY <2>2, <2>3, <2>4
<1> QED BY <1>1, <1>2

LEMMA LockPasses ==
    ASSUME AccountsIInv, NEW u \in Accounts, LockExpires(u)
    PROVE  AccountsIInv'
<1> DEFINE row == [account[u] EXCEPT !.lock = "past"]
<1>1. account[u] \in Account
  BY RowsStand DEF RowStands
<1>2. row \in Account
  BY <1>1, RowFields
<1>3. /\ row.email = account[u].email /\ row.status = account[u].status
      /\ row.roles = account[u].roles /\ row.lock = "past"
  BY <1>1 DEF Account
<1>4. account' = [account EXCEPT ![u] = row] /\ UNCHANGED call
  BY DEF LockExpires
<1>5. LockedInTime(row, Claimed(u))
  BY <1>3 DEF LockedInTime
<1> HIDE DEF row
<1> QED BY <1>2, <1>3, <1>4, <1>5, LockoutWrites

LEMMA ExpiredLockIsCleared ==
    ASSUME AccountsIInv, NEW q \in Calls, ClearExpiredLock(q)
    PROVE  AccountsIInv'
<1>0. PICK u \in Accounts : u = call[q].target
  BY Targets
<1> DEFINE x == [call[q] EXCEPT !.op = "count"]
<1>1. u \in Accounts /\ account[u] \in Account /\ PolicyKept(call[q]) /\ call[q] \in CallState
  BY <1>0, Targets DEF AccountsIInv, AccountsTypeOK
<1>2. x \in CallState
  BY <1>1, CallFields
<1>3. x.op = "count" /\ x.target = u
  BY <1>0, <1>1 DEF CallState
<1>4. call' = [call EXCEPT ![q] = x] /\ call[q].op = "expired"
  BY DEF ClearExpiredLock, AccountsIInv, AccountsTypeOK
<1>5. PolicyKept(x)
  BY <1>1, <1>3 DEF PolicyKept
<1>6. \A v \in Accounts : Claimed(v) => Claimed(v)'
  BY <1>4 DEF Claimed, AccountsIInv, AccountsTypeOK
<1>7. CASE UNCHANGED account
  BY <1>2, <1>4, <1>5, <1>7, CallIsTaken
<1>8. CASE account' = [account EXCEPT ![u] = Cleared(account[u])]
  <2>1. RowStands(u, Cleared(account[u])) /\ (Exists(u) => Cleared(account[u]).email # NoEmail)
    BY <1>1, RowClears, SameIdentity
  <2>2. LockedInTime(Cleared(account[u]), Claimed(u)')
    BY <1>1, RowClears, NotLocked
  <2>3. PICK row : row = Cleared(account[u])
    OBVIOUS
  <2>4. /\ RowStands(u, row) /\ (Exists(u) => row.email # NoEmail)
        /\ account' = [account EXCEPT ![u] = row]
        /\ LockedInTime(row, Claimed(u)')
    BY <1>8, <2>1, <2>2, <2>3
  <2>5. \E p \in Calls : \E y \in CallState :
           (y = Waiting \/ PolicyKept(y)) /\ call' = [call EXCEPT ![p] = y]
    BY <1>2, <1>4, <1>5
  <2> QED BY <1>1, <1>6, <2>4, <2>5, RowWritten
<1> QED BY <1>0, <1>7, <1>8 DEF ClearExpiredLock

LEMMA FailureIsCounted ==
    ASSUME AccountsIInv, NEW q \in Calls, CountFailure(q)
    PROVE  AccountsIInv'
<1>0. PICK u \in Accounts : u = call[q].target
  BY Targets
<1> DEFINE old == account[u]
           row == [old EXCEPT !.fails = old.fails + 1]
           x == [call[q] EXCEPT !.op = "claim"]
<1>1. u \in Accounts /\ old \in Account /\ PolicyKept(call[q]) /\ call[q] \in CallState
  BY <1>0, Targets DEF AccountsIInv, AccountsTypeOK
<1>2. old.fails + 1 \in 0..MaxFailures + 1
  BY <1>0, <1>1, AccountsAssumption DEF CountFailure, Account
<1>3. row \in Account
  BY <1>1, <1>2, RowFields
<1>4. /\ row.email = old.email /\ row.status = old.status /\ row.roles = old.roles
      /\ row.lock = old.lock /\ row.fails = old.fails + 1
  BY <1>1 DEF Account
<1>5. account' = [account EXCEPT ![u] = row] /\ call[q].op = "count"
  BY <1>0, <1>1 DEF CountFailure, AccountsIInv, AccountsTypeOK
<1>6. CASE old.lock = "none" /\ Exhausted(old.fails + 1)
  <2>1. x \in CallState
    BY <1>1, CallFields
  <2>2. x.op = "claim" /\ x.target = u
    BY <1>0, <1>1 DEF CallState
  <2>3. call' = [call EXCEPT ![q] = x] /\ call'[q] = x
    BY <1>0, <1>6 DEF CountFailure, AccountsIInv, AccountsTypeOK
  <2>4. PolicyKept(x)
    BY <1>1, <2>2 DEF PolicyKept
  <2>5. \A v \in Accounts : Claimed(v) => Claimed(v)'
    BY <1>5, <2>3 DEF Claimed, AccountsIInv, AccountsTypeOK
  <2>6. Claimed(u)'
    BY <2>2, <2>3 DEF Claimed
  <2>7. LockedInTime(row, Claimed(u)')
    BY <2>6 DEF LockedInTime
  <2>8. RowStands(u, row) /\ (Exists(u) => row.email # NoEmail)
    BY <1>1, <1>3, <1>4, SameIdentity
  <2>9. \E p \in Calls : \E y \in CallState :
           (y = Waiting \/ PolicyKept(y)) /\ call' = [call EXCEPT ![p] = y]
    BY <2>1, <2>3, <2>4
  <2> HIDE DEF row
  <2> QED BY <1>1, <1>5, <2>5, <2>7, <2>8, <2>9, RowWritten
<1>7. CASE ~(old.lock = "none" /\ Exhausted(old.fails + 1))
  <2>1. Done(q)
    BY <1>0, <1>7 DEF CountFailure
  <2>2. LockedInTime(row, Claimed(u))
    BY <1>4, <1>7 DEF LockedInTime, Exhausted
  <2> HIDE DEF row
  <2> QED BY <1>1, <1>3, <1>4, <1>5, <2>1, <2>2, LockoutWrites
<1> QED BY <1>6, <1>7

LEMMA LockIsSet ==
    ASSUME AccountsIInv, NEW q \in Calls, ClaimLock(q)
    PROVE  AccountsIInv'
<1>0. PICK u \in Accounts : u = call[q].target
  BY Targets
<1> DEFINE old == account[u]
           row == IF old.lock = "none" THEN [old EXCEPT !.lock = "set"] ELSE old
<1>1. u \in Accounts /\ old \in Account
  BY <1>0, Targets
<1>2. row \in Account
  BY <1>1, RowFields
<1>3. /\ row.email = old.email /\ row.status = old.status /\ row.roles = old.roles
      /\ row.lock # "none"
  BY <1>1 DEF Account
<1>4. account' = [account EXCEPT ![u] = row]
  BY <1>0, <1>1 DEF ClaimLock, AccountsIInv, AccountsTypeOK
<1>5. \A v \in Accounts \ {u} : Claimed(v) => Claimed(v)'
  BY <1>0 DEF ClaimLock, Done, Claimed, AccountsIInv, AccountsTypeOK
<1>6. RowStands(u, row) /\ (Exists(u) => row.email # NoEmail)
  BY <1>1, <1>2, <1>3, SameIdentity
<1>7. LockedInTime(row, Claimed(u)')
  BY <1>3 DEF LockedInTime
<1>8. Waiting \in CallState /\ call' = [call EXCEPT ![q] = Waiting]
  BY WaitingIsACall DEF ClaimLock, Done
<1>9. \E p \in Calls : \E y \in CallState :
         (y = Waiting \/ PolicyKept(y)) /\ call' = [call EXCEPT ![p] = y]
  BY <1>8
<1> HIDE DEF row
<1> QED BY <1>1, <1>4, <1>5, <1>6, <1>7, <1>9, RowWritten

LEMMA AccountsInductive ==
    /\ AccountsInit => AccountsIInv
    /\ AccountsIInv /\ [AccountsNext]_accountsVars => AccountsIInv'
<1>1. ASSUME AccountsInit PROVE AccountsIInv
  <2> DEFINE official == [Absent EXCEPT !.email = AccountEmail, !.roles = {"SUPER_ADMIN"}]
             named == [Absent EXCEPT !.email = AccountEmail]
  <2>1. Absent \in Account
    BY AccountsAssumption DEF Absent, Account
  <2>2. named \in Account
    BY <2>1, AccountsAssumption, RowFields
  <2>3. official = [named EXCEPT !.roles = {"SUPER_ADMIN"}]
    OBVIOUS
  <2>4. official \in Account
    BY <2>2, <2>3, AccountsAssumption, RowFields
  <2>5. /\ official.email = AccountEmail /\ official.roles = {"SUPER_ADMIN"}
        /\ official.status = "ACTIVE" /\ official.fails = 0
        /\ Absent.email = NoEmail /\ Absent.roles = {} /\ Absent.fails = 0
    BY DEF Absent
  <2> HIDE DEF official
  <2>6. \A u \in Accounts : account[u] = IF u = Official THEN official ELSE Absent
    BY <1>1 DEF AccountsInit, official
  <2>7. AccountsTypeOK
    BY <1>1, <2>1, <2>4, WaitingIsACall DEF AccountsInit, AccountsTypeOK, official
  <2>8. RowsAreOfficial /\ OfficialStands
    BY <2>5, <2>6, AccountsAssumption DEF RowsAreOfficial, OfficialStands
  <2>9. CallsKeepThePolicy
    BY <1>1, <2>5, <2>6, WaitingIsACall, AccountsAssumption
    DEF AccountsInit, CallsKeepThePolicy, PolicyKept, Exists
  <2>10. ThresholdLocks
    BY <2>5, <2>6, AccountsAssumption DEF ThresholdLocks
  <2> QED BY <2>7, <2>8, <2>9, <2>10 DEF AccountsIInv
<1>2. ASSUME AccountsIInv, AdministrationNext PROVE AccountsIInv'
  BY <1>2, UpdateReads, SuspendReads, RoleReads, UserWrites, StatusWrites, UserIsCreated, RoleWrites
  DEF AdministrationNext
<1>3. ASSUME AccountsIInv, LockoutNext PROVE AccountsIInv'
  BY <1>3, LoginReads, UnlockReads, ExpiredLockIsCleared, FailureIsCounted, LockIsSet, LockIsCleared,
     LockPasses DEF LockoutNext
<1>4. ASSUME AccountsIInv, UNCHANGED accountsVars PROVE AccountsIInv'
  <2>1. AccountsTypeOK' /\ RowsAreOfficial' /\ OfficialStands' /\ ThresholdLocks'
    BY <1>4 DEF AccountsIInv, accountsVars, AccountsTypeOK, RowsAreOfficial, OfficialStands, ThresholdLocks
  <2>2. CallsKeepThePolicy'
    BY <1>4 DEF AccountsIInv, accountsVars, CallsKeepThePolicy, PolicyKept, Exists
  <2> QED BY <2>1, <2>2 DEF AccountsIInv
<1> QED BY <1>1, <1>2, <1>3, <1>4 DEF AccountsNext

(* What no operation may undo follows from the invariant.                   *)
LEMMA AccountsSafe == AccountsIInv => PreflightHolds
BY AccountsAssumption DEF AccountsIInv, RowsAreOfficial, OfficialStands, PreflightHolds, Verified, Exists

-----------------------------------------------------------------------------
(* The second factor.                                                       *)

(* A factor accepted since the last enrolment can no longer be consumed.    *)
UsedUp(f) ==
    IF f.kind = "totp" THEN f.step <= credential.last
    ELSE f.batch <= batch.number /\ (f.batch = batch.number => f.code \notin batch.left)

AcceptedIsUsedUp ==
    /\ credential.status \in {"NONE", "PENDING"} => accepted = {}
    /\ \A f \in accepted : UsedUp(f)

(* A login in flight answers a challenge that, while it is open, is of the  *)
(* active secret.                                                           *)
LoginIsBound(p) ==
    /\ ceremony[p].id \in Challenges
    /\ challenge[ceremony[p].id].state # "none"
    /\ challenge[ceremony[p].id].state = "open" =>
          credential.status = "ACTIVE" /\ challenge[ceremony[p].id].gen = credential.gen

CeremoniesAreBound ==
    \A p \in Ceremonies :
        /\ Doing(p, "login") \/ Doing(p, "stepUp") => ceremony[p].factor \in Factors
        /\ Doing(p, "login") => LoginIsBound(p)

MfaIInv == MfaTypeOK /\ AcceptedIsUsedUp /\ CeremoniesAreBound

Credential == [status : {"NONE", "PENDING", "ACTIVE", "REVOKED"}, gen : 0..MaxGenerations, last : Steps]
Batch == [number : 0..MaxBatches, left : SUBSET Codes]
ChallengeRow == [state : {"none", "open", "used", "gone"}, gen : 0..MaxGenerations, attempts : 0..MaxAttempts]

LEMMA NoCeremonyIsOne ==
    NoCeremony \in CeremonyState /\ NoCeremony.pc = "idle" /\ NoCeremony.gen = 0
BY MfaAssumption DEF NoCeremony, CeremonyState, Steps

LEMMA CeremonyFields ==
    ASSUME NEW x \in CeremonyState
    PROVE  /\ \A pc \in {"begin", "confirm", "challenge", "login", "stepUp", "codes"} :
                 [x EXCEPT !.pc = pc] \in CeremonyState
           /\ \A n \in 0..MaxGenerations : [x EXCEPT !.gen = n] \in CeremonyState
           /\ \A n \in Steps : [x EXCEPT !.step = n] \in CeremonyState
           /\ \A c \in Challenges : [x EXCEPT !.id = c] \in CeremonyState
           /\ \A f \in Factors : [x EXCEPT !.factor = f] \in CeremonyState
BY DEF CeremonyState

LEMMA FactorKinds ==
    ASSUME NEW f \in Factors
    PROVE  \/ f.kind = "totp" /\ f.gen \in 0..MaxGenerations /\ f.step \in Steps
           \/ f.kind = "recovery" /\ f.batch \in 0..MaxBatches /\ f.code \in Codes
BY DEF Factors

(* Where a step takes a ceremony on, and what it may then be.               *)
Takes(p, x) ==
    /\ x \in CeremonyState
    /\ Continue(p, x)
    /\ x.pc \in {"login", "stepUp"} => x.factor \in Factors
    /\ x.pc = "login" =>
          x.id \in Challenges /\ Answerable(x.id) /\ UNCHANGED <<credential, challenge>>

LEMMA Reading ==
    ASSUME MfaTypeOK, NEW p \in Ceremonies,
           BeginEnrollment(p) \/ ConfirmEnrollment(p) \/ CreateLoginChallenge(p)
           \/ (\E c \in Challenges : CompleteLoginChallenge(p, c)) \/ VerifyStepUp(p)
           \/ RegenerateRecoveryCodes(p)
    PROVE  /\ UNCHANGED <<credential, batch, challenge, assured, failures, now, accepted>>
           /\ Doing(p, "idle")
           /\ \E x : Takes(p, x)
<1>1. CASE BeginEnrollment(p) \/ RegenerateRecoveryCodes(p)
  <2>1. PICK pc \in {"begin", "codes"} : Continue(p, [NoCeremony EXCEPT !.pc = pc])
    BY <1>1 DEF BeginEnrollment, RegenerateRecoveryCodes
  <2> DEFINE x == [NoCeremony EXCEPT !.pc = pc]
  <2>2. x \in CeremonyState /\ x.pc = pc
    BY NoCeremonyIsOne, CeremonyFields DEF NoCeremony
  <2>3. Takes(p, x)
    BY <2>1, <2>2 DEF Takes
  <2> QED BY <1>1, <2>3 DEF BeginEnrollment, RegenerateRecoveryCodes
<1>2. CASE ConfirmEnrollment(p)
  <2>1. PICK step \in now - 1..now + 1 :
           Continue(p, [NoCeremony EXCEPT !.pc = "confirm", !.gen = credential.gen, !.step = step])
    BY <1>2 DEF ConfirmEnrollment
  <2> DEFINE x1 == [NoCeremony EXCEPT !.pc = "confirm"]
             x2 == [x1 EXCEPT !.gen = credential.gen]
             x3 == [x2 EXCEPT !.step = step]
             x == [NoCeremony EXCEPT !.pc = "confirm", !.gen = credential.gen, !.step = step]
  <2>2. x = x3
    OBVIOUS
  <2>3. step \in Steps /\ credential.gen \in 0..MaxGenerations
    BY MfaAssumption DEF MfaTypeOK, Steps
  <2>4. x1 \in CeremonyState
    BY NoCeremonyIsOne, CeremonyFields
  <2>5. x2 \in CeremonyState
    BY <2>3, <2>4, CeremonyFields
  <2>6. x3 \in CeremonyState
    BY <2>3, <2>5, CeremonyFields
  <2>7. x.pc = "confirm"
    BY DEF NoCeremony
  <2>8. Takes(p, x)
    BY <2>1, <2>2, <2>6, <2>7 DEF Takes
  <2> QED BY <1>2, <2>8 DEF ConfirmEnrollment
<1>3. CASE CreateLoginChallenge(p)
  <2> DEFINE x1 == [NoCeremony EXCEPT !.pc = "challenge"]
             x2 == [x1 EXCEPT !.gen = credential.gen]
             x == [NoCeremony EXCEPT !.pc = "challenge", !.gen = credential.gen]
  <2>1. x = x2
    OBVIOUS
  <2>2. credential.gen \in 0..MaxGenerations
    BY DEF MfaTypeOK
  <2>3. x1 \in CeremonyState
    BY NoCeremonyIsOne, CeremonyFields
  <2>4. x2 \in CeremonyState
    BY <2>2, <2>3, CeremonyFields
  <2>5. x.pc = "challenge"
    BY DEF NoCeremony
  <2>6. Takes(p, x)
    BY <1>3, <2>1, <2>4, <2>5 DEF Takes, CreateLoginChallenge
  <2> QED BY <1>3, <2>6 DEF CreateLoginChallenge
<1>4. ASSUME NEW c \in Challenges, CompleteLoginChallenge(p, c)
      PROVE  \E x : Takes(p, x)
  <2>1. PICK f \in Presentable :
           Continue(p, [NoCeremony EXCEPT !.pc = "login", !.id = c, !.factor = f])
    BY <1>4 DEF CompleteLoginChallenge
  <2> DEFINE x1 == [NoCeremony EXCEPT !.pc = "login"]
             x2 == [x1 EXCEPT !.id = c]
             x3 == [x2 EXCEPT !.factor = f]
             x == [NoCeremony EXCEPT !.pc = "login", !.id = c, !.factor = f]
  <2>2. x = x3
    OBVIOUS
  <2>3. f \in Factors
    BY DEF Presentable
  <2>4. x1 \in CeremonyState
    BY NoCeremonyIsOne, CeremonyFields
  <2>5. x2 \in CeremonyState
    BY <2>4, CeremonyFields
  <2>6. x3 \in CeremonyState
    BY <2>3, <2>5, CeremonyFields
  <2>7. x.pc = "login" /\ x.id = c /\ x.factor = f
    BY DEF NoCeremony
  <2>8. Takes(p, x)
    BY <1>4, <2>1, <2>2, <2>3, <2>6, <2>7 DEF Takes, CompleteLoginChallenge
  <2> QED BY <2>8
<1>5. CASE VerifyStepUp(p)
  <2>1. PICK f \in Presentable : Continue(p, [NoCeremony EXCEPT !.pc = "stepUp", !.factor = f])
    BY <1>5 DEF VerifyStepUp
  <2> DEFINE x1 == [NoCeremony EXCEPT !.pc = "stepUp"]
             x2 == [x1 EXCEPT !.factor = f]
             x == [NoCeremony EXCEPT !.pc = "stepUp", !.factor = f]
  <2>2. x = x2
    OBVIOUS
  <2>3. f \in Factors
    BY DEF Presentable
  <2>4. x1 \in CeremonyState
    BY NoCeremonyIsOne, CeremonyFields
  <2>5. x2 \in CeremonyState
    BY <2>3, <2>4, CeremonyFields
  <2>6. x.pc = "stepUp" /\ x.factor = f
    BY DEF NoCeremony
  <2>7. Takes(p, x)
    BY <1>5, <2>1, <2>2, <2>3, <2>5, <2>6 DEF Takes, VerifyStepUp
  <2> QED BY <1>5, <2>7 DEF VerifyStepUp
<1> QED
  BY <1>1, <1>2, <1>3, <1>4, <1>5
  DEF BeginEnrollment, ConfirmEnrollment, CreateLoginChallenge, CompleteLoginChallenge, VerifyStepUp,
      RegenerateRecoveryCodes

(* A step that ends a ceremony, or takes none on, leaves the others bound:  *)
(* no challenge opens again, nor outlives the secret it was opened for.     *)
ChallengesKept ==
    \A c \in Challenges :
        challenge[c].state # "none" =>
            /\ challenge'[c].state # "none"
            /\ challenge'[c].state = "open" =>
                  /\ challenge[c].state = "open" /\ challenge'[c].gen = challenge[c].gen
                  /\ credential.status = "ACTIVE" =>
                        credential'.status = "ACTIVE" /\ credential'.gen = credential.gen

EndsSome == \A q \in Ceremonies : ceremony'[q] = ceremony[q] \/ ceremony'[q] = NoCeremony

LEMMA EndKeepsBound ==
    ASSUME MfaTypeOK, CeremoniesAreBound, ChallengesKept, EndsSome
    PROVE  CeremoniesAreBound'
<1> SUFFICES ASSUME NEW q \in Ceremonies
             PROVE  /\ Doing(q, "login")' \/ Doing(q, "stepUp")' => ceremony'[q].factor \in Factors
                    /\ Doing(q, "login")' => LoginIsBound(q)'
    BY DEF CeremoniesAreBound
<1>1. CASE ceremony'[q] = NoCeremony
  BY <1>1, NoCeremonyIsOne DEF Doing
<1>2. CASE ceremony'[q] = ceremony[q]
  <2>1. ceremony[q].id = ceremony'[q].id
    BY <1>2
  <2>2. ASSUME Doing(q, "login") PROVE LoginIsBound(q)'
    <3>1. LoginIsBound(q)
      BY <2>2 DEF CeremoniesAreBound
    <3> QED BY <1>2, <3>1 DEF LoginIsBound, ChallengesKept
  <2> QED BY <1>2, <2>2 DEF CeremoniesAreBound, Doing
<1> QED BY <1>1, <1>2 DEF EndsSome

LEMMA EndingKeepsType ==
    ASSUME MfaTypeOK, NEW p \in Ceremonies, End(p)
    PROVE  EndsSome /\ ceremony' \in [Ceremonies -> CeremonyState]
BY NoCeremonyIsOne DEF MfaTypeOK, End, Continue, EndsSome

LEMMA ReadingKeeps ==
    ASSUME MfaIInv, NEW p \in Ceremonies,
           BeginEnrollment(p) \/ ConfirmEnrollment(p) \/ CreateLoginChallenge(p)
           \/ (\E c \in Challenges : CompleteLoginChallenge(p, c)) \/ VerifyStepUp(p)
           \/ RegenerateRecoveryCodes(p)
    PROVE  MfaIInv'
<1>1. /\ UNCHANGED <<credential, batch, challenge, assured, failures, now, accepted>>
      /\ \E x : Takes(p, x)
  BY Reading DEF MfaIInv
<1>2. PICK x : Takes(p, x)
  BY <1>1
<1>3. ceremony' = [ceremony EXCEPT ![p] = x] /\ x \in CeremonyState
  BY <1>2 DEF Takes, Continue
<1>4. MfaTypeOK'
  BY <1>1, <1>3 DEF MfaIInv, MfaTypeOK
<1>5. AcceptedIsUsedUp'
  BY <1>1 DEF MfaIInv, AcceptedIsUsedUp, UsedUp
<1>6. CeremoniesAreBound'
  <2> SUFFICES ASSUME NEW q \in Ceremonies
               PROVE  /\ Doing(q, "login")' \/ Doing(q, "stepUp")' => ceremony'[q].factor \in Factors
                      /\ Doing(q, "login")' => LoginIsBound(q)'
      BY DEF CeremoniesAreBound
  <2>1. CASE q = p
    <3>1. ceremony'[q] = x
      BY <1>3, <2>1 DEF MfaIInv, MfaTypeOK
    <3> QED BY <1>1, <1>2, <3>1 DEF Takes, Doing, LoginIsBound, Answerable
  <2>2. CASE q # p
    <3>1. ceremony'[q] = ceremony[q]
      BY <1>3, <2>2 DEF MfaIInv, MfaTypeOK
    <3> QED BY <1>1, <3>1 DEF MfaIInv, CeremoniesAreBound, Doing, LoginIsBound
  <2> QED BY <2>1, <2>2
<1> QED BY <1>4, <1>5, <1>6 DEF MfaIInv

LEMMA ConsumingUsesUp ==
    ASSUME MfaTypeOK, AcceptedIsUsedUp, NEW f \in Factors, Consumable(f), Consume(f),
           credential.status = "ACTIVE", accepted' = accepted \union {f}
    PROVE  /\ credential' \in Credential /\ batch' \in Batch
           /\ credential'.status = "ACTIVE" /\ credential'.gen = credential.gen
           /\ accepted' \subseteq Factors
           /\ AcceptedIsUsedUp'
<1>1. accepted' \subseteq Factors
  BY DEF MfaTypeOK
<1>2. CASE f.kind = "totp"
  <2>1. f.step \in Steps /\ credential.last < f.step
    BY <1>2, FactorKinds DEF Consumable
  <2>2. credential' = [credential EXCEPT !.last = f.step] /\ batch' = batch
    BY <1>2 DEF Consume
  <2>3. /\ credential' \in Credential /\ credential'.last = f.step
        /\ credential'.status = credential.status /\ credential'.gen = credential.gen
    BY <2>1, <2>2 DEF MfaTypeOK, Credential
  <2>4. credential.last \in Int /\ f.step \in Int
    BY <2>1, MfaAssumption DEF MfaTypeOK, Steps
  <2>5. ASSUME NEW g \in accepted' PROVE UsedUp(g)'
    <3>1. CASE g \in accepted
      <4>1. UsedUp(g)
        BY <3>1 DEF AcceptedIsUsedUp
      <4>2. g.kind = "totp" => g.step \in Int
        BY <1>1, FactorKinds, MfaAssumption DEF Steps
      <4> QED BY <2>1, <2>2, <2>3, <2>4, <4>1, <4>2 DEF UsedUp
    <3>2. CASE g = f
      BY <1>2, <2>3, <2>4, <3>2 DEF UsedUp
    <3> QED BY <3>1, <3>2
  <2> QED BY <1>1, <2>2, <2>3, <2>5 DEF AcceptedIsUsedUp, MfaTypeOK, Batch
<1>3. CASE f.kind # "totp"
  <2>1. f.batch = batch.number /\ f.code \in batch.left
    BY <1>3 DEF Consumable
  <2>2. batch' = [batch EXCEPT !.left = batch.left \ {f.code}] /\ credential' = credential
    BY <1>3 DEF Consume
  <2>3. batch' \in Batch /\ batch'.number = batch.number /\ batch'.left = batch.left \ {f.code}
    BY <2>2 DEF MfaTypeOK, Batch
  <2>4. batch.number \in Int
    BY MfaAssumption DEF MfaTypeOK
  <2>5. ASSUME NEW g \in accepted' PROVE UsedUp(g)'
    <3>1. CASE g \in accepted
      <4>1. UsedUp(g)
        BY <3>1 DEF AcceptedIsUsedUp
      <4> QED BY <2>2, <2>3, <4>1 DEF UsedUp
    <3>2. CASE g = f
      BY <1>3, <2>1, <2>3, <2>4, <3>2 DEF UsedUp
    <3> QED BY <3>1, <3>2
  <2> QED BY <1>1, <2>2, <2>3, <2>5 DEF AcceptedIsUsedUp, MfaTypeOK, Credential
<1> QED BY <1>2, <1>3

(* The challenge rows after the ways a step writes them.                    *)
LEMMA OpenChallengesEnd ==
    ASSUME MfaTypeOK,
           challenge' = [c \in Challenges |->
              IF challenge[c].state = "open" THEN [challenge[c] EXCEPT !.state = "gone"] ELSE challenge[c]]
    PROVE  challenge' \in [Challenges -> ChallengeRow] /\ ChallengesKept
BY DEF MfaTypeOK, ChallengeRow, ChallengesKept

LEMMA ChallengeEnds ==
    ASSUME MfaTypeOK, NEW c \in Challenges, NEW row \in ChallengeRow,
           challenge' = [challenge EXCEPT ![c] = row],
           challenge[c].state = "none" \/ row.state \in {"used", "gone"}
           \/ (row.state = challenge[c].state /\ row.gen = challenge[c].gen),
           challenge[c].state = "none" \/ row.state # "none",
           UNCHANGED <<credential.status, credential.gen>>
    PROVE  challenge' \in [Challenges -> ChallengeRow] /\ ChallengesKept
BY DEF MfaTypeOK, ChallengeRow, ChallengesKept

(* What keeps every part of the invariant but the type of the fields a step *)
(* leaves alone.                                                            *)
LEMMA EndingKeeps ==
    ASSUME MfaIInv, ChallengesKept, EndsSome, AcceptedIsUsedUp',
           credential' \in Credential, batch' \in Batch,
           challenge' \in [Challenges -> ChallengeRow],
           assured' \in BOOLEAN, failures' \in 0..MaxAttempts, now' \in 0..MaxTime,
           ceremony' \in [Ceremonies -> CeremonyState], accepted' \subseteq Factors
    PROVE  MfaIInv'
<1>1. MfaTypeOK'
  BY DEF MfaTypeOK, Credential, Batch, ChallengeRow
<1>2. CeremoniesAreBound'
  BY EndKeepsBound DEF MfaIInv
<1> QED BY <1>1, <1>2 DEF MfaIInv

LEMMA TypesApart ==
    ASSUME MfaTypeOK
    PROVE  /\ credential \in Credential /\ batch \in Batch /\ challenge \in [Challenges -> ChallengeRow]
           /\ assured \in BOOLEAN /\ failures \in 0..MaxAttempts /\ now \in 0..MaxTime
           /\ ceremony \in [Ceremonies -> CeremonyState] /\ accepted \subseteq Factors
           /\ failures + 1 \in 0..MaxAttempts \/ ~ failures < MaxAttempts
BY MfaAssumption DEF MfaTypeOK, Credential, Batch, ChallengeRow

LEMMA EnrollmentKeeps ==
    ASSUME MfaIInv, NEW p \in Ceremonies,
           WriteEnrollment(p) \/ Activate(p) \/ ExpireEnrollment(p)
    PROVE  MfaIInv'
<1>1. EndsSome /\ ceremony' \in [Ceremonies -> CeremonyState]
  BY EndingKeepsType DEF MfaIInv, WriteEnrollment, Activate, ExpireEnrollment
<1>2. CASE WriteEnrollment(p) /\ Enrollable
  <2>1. /\ credential' = [status |-> "PENDING", gen |-> credential.gen + 1, last |-> -1]
        /\ batch' = [batch EXCEPT !.left = {}] /\ accepted' = {}
        /\ credential.gen < MaxGenerations /\ credential.status # "ACTIVE"
        /\ UNCHANGED <<challenge, assured, failures, now>>
    BY <1>2 DEF WriteEnrollment, Enrollable
  <2>2. credential' \in Credential
    BY <2>1, MfaAssumption DEF MfaIInv, MfaTypeOK, Credential, Steps
  <2>3. batch' \in Batch
    BY <2>1 DEF MfaIInv, MfaTypeOK, Batch
  <2>4. ChallengesKept
    BY <2>1 DEF ChallengesKept
  <2>5. AcceptedIsUsedUp'
    BY <2>1 DEF AcceptedIsUsedUp
  <2> QED BY <1>1, <2>1, <2>2, <2>3, <2>4, <2>5, TypesApart, EndingKeeps DEF MfaIInv
<1>3. CASE Activate(p) /\ credential.status = "PENDING" /\ credential.gen = ceremony[p].gen
  <2>1. /\ batch.number < MaxBatches
        /\ credential' = [credential EXCEPT !.status = "ACTIVE", !.last = ceremony[p].step]
        /\ batch' = [number |-> batch.number + 1, left |-> Codes]
        /\ challenge' = [c \in Challenges |->
              IF challenge[c].state = "open" THEN [challenge[c] EXCEPT !.state = "gone"] ELSE challenge[c]]
        /\ UNCHANGED <<assured, failures, now, accepted>>
    BY <1>3 DEF Activate
  <2>2. ceremony[p].step \in Steps
    BY DEF MfaIInv, MfaTypeOK, CeremonyState
  <2> DEFINE active == [credential EXCEPT !.status = "ACTIVE"]
             full == [active EXCEPT !.last = ceremony[p].step]
  <2>3. credential' = full
    BY <2>1
  <2>4. active \in Credential
    BY DEF MfaIInv, MfaTypeOK, Credential
  <2>5. full \in Credential
    BY <2>2, <2>4 DEF Credential
  <2>6. batch' \in Batch
    BY <2>1, MfaAssumption DEF MfaIInv, MfaTypeOK, Batch
  <2>7. challenge' \in [Challenges -> ChallengeRow] /\ ChallengesKept
    BY <2>1, OpenChallengesEnd DEF MfaIInv
  <2>8. accepted' = {}
    BY <1>3, <2>1 DEF MfaIInv, AcceptedIsUsedUp
  <2>9. AcceptedIsUsedUp'
    BY <2>8 DEF AcceptedIsUsedUp
  <2> QED BY <1>1, <2>1, <2>3, <2>5, <2>6, <2>7, <2>9, TypesApart, EndingKeeps DEF MfaIInv
<1>4. CASE UNCHANGED <<credential, batch, challenge, assured, failures, now, accepted>>
  <2>1. AcceptedIsUsedUp'
    BY <1>4 DEF MfaIInv, AcceptedIsUsedUp, UsedUp
  <2>2. ChallengesKept
    BY <1>4 DEF ChallengesKept
  <2> QED BY <1>1, <1>4, <2>1, <2>2, TypesApart, EndingKeeps DEF MfaIInv
<1> QED BY <1>2, <1>3, <1>4 DEF WriteEnrollment, Activate, ExpireEnrollment, Enrollable

RowStep ==
    \E c \in Challenges, row \in ChallengeRow :
        /\ challenge' = [challenge EXCEPT ![c] = row]
        /\ \/ challenge[c].state = "none" \/ row.state \in {"used", "gone"}
           \/ row.state = challenge[c].state /\ row.gen = challenge[c].gen
        /\ challenge[c].state = "none" \/ row.state # "none"

LEMMA ChallengeRowsKeep ==
    ASSUME MfaIInv,
           \/ \E p \in Ceremonies : InsertChallenge(p)
           \/ \E p \in Ceremonies : \E c \in Challenges : FailChallenge(p, c)
           \/ \E c \in Challenges : ExpireChallenge(c)
    PROVE  MfaIInv'
<1>1. RowStep
  <2>1. ASSUME NEW p \in Ceremonies, InsertChallenge(p)
        PROVE  RowStep
    <3>1. PICK c \in Challenges :
             /\ challenge[c].state = "none"
             /\ challenge' = [challenge EXCEPT ![c] = [NoRowYet EXCEPT !.state = "open", !.gen = ceremony[p].gen]]
      BY <2>1 DEF InsertChallenge
    <3>2. ceremony[p].gen \in 0..MaxGenerations
      BY DEF MfaIInv, MfaTypeOK, CeremonyState
    <3> DEFINE open == [NoRowYet EXCEPT !.state = "open"]
               row == [NoRowYet EXCEPT !.state = "open", !.gen = ceremony[p].gen]
    <3>3. open \in ChallengeRow
      BY MfaAssumption DEF NoRowYet, ChallengeRow
    <3>4. row = [open EXCEPT !.gen = ceremony[p].gen]
      OBVIOUS
    <3>5. row \in ChallengeRow
      BY <3>2, <3>3, <3>4 DEF ChallengeRow
    <3> QED BY <3>1, <3>5 DEF RowStep
  <2>2. ASSUME NEW p \in Ceremonies, NEW c \in Challenges, FailChallenge(p, c)
        PROVE  RowStep
    <3> DEFINE row == [challenge[c] EXCEPT !.attempts = challenge[c].attempts + 1]
    <3>1. challenge[c].state = "open" /\ challenge[c].attempts < MaxAttempts
      BY <2>2 DEF FailChallenge, Answerable
    <3>2. challenge[c] \in ChallengeRow
      BY TypesApart DEF MfaIInv
    <3>3. challenge[c].attempts + 1 \in 0..MaxAttempts
      BY <3>1, <3>2, MfaAssumption DEF ChallengeRow
    <3>4. row \in ChallengeRow /\ row.state = "open" /\ row.gen = challenge[c].gen
      BY <3>1, <3>2, <3>3 DEF ChallengeRow
    <3>5. challenge' = [challenge EXCEPT ![c] = row]
      BY <2>2 DEF FailChallenge
    <3> QED BY <3>1, <3>4, <3>5 DEF RowStep
  <2>3. ASSUME NEW c \in Challenges, ExpireChallenge(c)
        PROVE  RowStep
    <3> DEFINE row == [challenge[c] EXCEPT !.state = "gone"]
    <3>1. challenge[c] \in ChallengeRow
      BY TypesApart DEF MfaIInv
    <3>2. row \in ChallengeRow /\ row.state = "gone"
      BY <3>1 DEF ChallengeRow
    <3>3. challenge' = [challenge EXCEPT ![c] = row]
      BY <2>3 DEF ExpireChallenge
    <3> QED BY <3>2, <3>3 DEF RowStep
  <2> QED BY <2>1, <2>2, <2>3
<1>2. /\ UNCHANGED <<credential, batch, assured, now, accepted>>
      /\ failures' \in {failures, failures + 1} /\ (failures' # failures => failures < MaxAttempts)
  BY DEF InsertChallenge, FailChallenge, ExpireChallenge, Fail
<1>3. EndsSome /\ ceremony' \in [Ceremonies -> CeremonyState]
  <2>1. CASE \E p \in Ceremonies : End(p)
    BY <2>1, EndingKeepsType DEF MfaIInv
  <2>2. CASE UNCHANGED ceremony
    BY <2>2 DEF MfaIInv, MfaTypeOK, EndsSome
  <2> QED BY <2>1, <2>2 DEF InsertChallenge, FailChallenge, ExpireChallenge
<1>4. UNCHANGED <<credential.status, credential.gen>>
  BY <1>2
<1>5. challenge' \in [Challenges -> ChallengeRow] /\ ChallengesKept
  BY <1>1, <1>4, ChallengeEnds DEF MfaIInv, RowStep
<1>6. AcceptedIsUsedUp'
  BY <1>2 DEF MfaIInv, AcceptedIsUsedUp, UsedUp
<1>7. failures' \in 0..MaxAttempts
  BY <1>2, TypesApart DEF MfaIInv
<1> QED BY <1>2, <1>3, <1>5, <1>6, <1>7, TypesApart, EndingKeeps DEF MfaIInv

LEMMA LoginKeeps ==
    ASSUME MfaIInv, NEW p \in Ceremonies, WriteLogin(p)
    PROVE  MfaIInv'
<1>1. EndsSome /\ ceremony' \in [Ceremonies -> CeremonyState]
  BY EndingKeepsType DEF MfaIInv, WriteLogin
<1>2. PICK c, f : c = ceremony[p].id /\ f = ceremony[p].factor
  OBVIOUS
<1>3. Doing(p, "login") /\ UNCHANGED <<failures, now>>
  BY DEF WriteLogin
<1>4. c \in Challenges /\ challenge[c].state # "none" /\ f \in Factors
  BY <1>2, <1>3 DEF MfaIInv, CeremoniesAreBound, LoginIsBound
<1>5. CASE Completable(c) /\ credential.status = "ACTIVE" /\ Consumable(f)
  <2> DEFINE row == [state |-> "used", gen |-> challenge[c].gen, attempts |-> challenge[c].attempts + 1]
  <2>1. /\ Consume(f)
        /\ challenge' = [challenge EXCEPT ![c] = row]
        /\ assured' = TRUE /\ accepted' = accepted \union {f}
    BY <1>2, <1>5 DEF WriteLogin
  <2>2. challenge[c] \in ChallengeRow /\ challenge[c].attempts < MaxAttempts
    BY <1>4, <1>5, TypesApart DEF MfaIInv, Completable
  <2>3. row \in ChallengeRow /\ row.state = "used"
    BY <2>2, MfaAssumption DEF ChallengeRow
  <2>4. /\ credential' \in Credential /\ batch' \in Batch
        /\ credential'.status = "ACTIVE" /\ credential'.gen = credential.gen
        /\ accepted' \subseteq Factors /\ AcceptedIsUsedUp'
    BY <1>4, <1>5, <2>1, ConsumingUsesUp DEF MfaIInv
  <2>5. challenge' \in [Challenges -> ChallengeRow] /\ ChallengesKept
    <3>1. UNCHANGED <<credential.status, credential.gen>>
      BY <1>5, <2>4
    <3> HIDE DEF row
    <3> QED BY <1>4, <2>1, <2>3, <3>1, ChallengeEnds DEF MfaIInv
  <2> QED BY <1>1, <1>3, <2>1, <2>4, <2>5, TypesApart, EndingKeeps DEF MfaIInv
<1>6. CASE ~(Completable(c) /\ credential.status = "ACTIVE" /\ Consumable(f))
  <2>1. UNCHANGED <<credential, batch, challenge, assured, accepted>>
    BY <1>2, <1>6 DEF WriteLogin
  <2>2. AcceptedIsUsedUp' /\ ChallengesKept
    BY <2>1 DEF MfaIInv, AcceptedIsUsedUp, UsedUp, ChallengesKept
  <2> QED BY <1>1, <1>3, <2>1, <2>2, TypesApart, EndingKeeps DEF MfaIInv
<1> QED BY <1>5, <1>6

LEMMA StepUpKeeps ==
    ASSUME MfaIInv, NEW p \in Ceremonies, WriteStepUp(p)
    PROVE  MfaIInv'
<1>1. EndsSome /\ ceremony' \in [Ceremonies -> CeremonyState]
  BY EndingKeepsType DEF MfaIInv, WriteStepUp
<1>2. PICK f : f = ceremony[p].factor
  OBVIOUS
<1>3. Doing(p, "stepUp") /\ UNCHANGED <<challenge, failures, now>>
  BY DEF WriteStepUp
<1>4. f \in Factors
  BY <1>2, <1>3 DEF MfaIInv, CeremoniesAreBound
<1>5. CASE credential.status = "ACTIVE" /\ Consumable(f)
  <2>1. Consume(f) /\ assured' = TRUE /\ accepted' = accepted \union {f}
    BY <1>2, <1>5 DEF WriteStepUp
  <2>2. /\ credential' \in Credential /\ batch' \in Batch
        /\ credential'.status = "ACTIVE" /\ credential'.gen = credential.gen
        /\ accepted' \subseteq Factors /\ AcceptedIsUsedUp'
    BY <1>4, <1>5, <2>1, ConsumingUsesUp DEF MfaIInv
  <2>3. ChallengesKept
    BY <1>3, <1>5, <2>2 DEF ChallengesKept
  <2> QED BY <1>1, <1>3, <2>1, <2>2, <2>3, TypesApart, EndingKeeps DEF MfaIInv
<1>6. CASE ~(credential.status = "ACTIVE" /\ Consumable(f))
  <2>1. UNCHANGED <<credential, batch, assured, accepted>>
    BY <1>2, <1>6 DEF WriteStepUp
  <2>2. AcceptedIsUsedUp' /\ ChallengesKept
    BY <1>3, <2>1 DEF MfaIInv, AcceptedIsUsedUp, UsedUp, ChallengesKept
  <2> QED BY <1>1, <1>3, <2>1, <2>2, TypesApart, EndingKeeps DEF MfaIInv
<1> QED BY <1>5, <1>6

LEMMA CodesKeep ==
    ASSUME MfaIInv, NEW p \in Ceremonies, WriteRecoveryCodes(p)
    PROVE  MfaIInv'
<1>1. EndsSome /\ ceremony' \in [Ceremonies -> CeremonyState]
  BY EndingKeepsType DEF MfaIInv, WriteRecoveryCodes
<1>2. UNCHANGED <<credential, assured, failures, now, accepted>>
  BY DEF WriteRecoveryCodes
<1>3. CASE credential.status = "ACTIVE"
  <2>1. /\ batch.number < MaxBatches
        /\ batch' = [number |-> batch.number + 1, left |-> Codes]
        /\ challenge' = [c \in Challenges |->
              IF challenge[c].state = "open" THEN [challenge[c] EXCEPT !.state = "gone"] ELSE challenge[c]]
    BY <1>3 DEF WriteRecoveryCodes
  <2>2. batch' \in Batch
    BY <2>1, MfaAssumption DEF MfaIInv, MfaTypeOK, Batch
  <2>3. challenge' \in [Challenges -> ChallengeRow] /\ ChallengesKept
    BY <2>1, OpenChallengesEnd DEF MfaIInv
  <2>4. ASSUME NEW f \in accepted PROVE UsedUp(f)'
    <3>1. UsedUp(f) /\ f \in Factors
      BY DEF MfaIInv, MfaTypeOK, AcceptedIsUsedUp
    <3>2. f.kind = "totp" \/ f.batch \in Int
      BY <3>1, FactorKinds
    <3>3. batch.number \in Int
      BY DEF MfaIInv, MfaTypeOK
    <3> QED BY <1>2, <2>1, <3>1, <3>2, <3>3 DEF UsedUp
  <2>5. AcceptedIsUsedUp'
    BY <1>2, <2>4 DEF MfaIInv, AcceptedIsUsedUp
  <2> QED BY <1>1, <1>2, <2>2, <2>3, <2>5, TypesApart, EndingKeeps DEF MfaIInv
<1>4. CASE credential.status # "ACTIVE"
  <2>1. UNCHANGED <<batch, challenge>>
    BY <1>4 DEF WriteRecoveryCodes
  <2>2. AcceptedIsUsedUp' /\ ChallengesKept
    BY <1>2, <2>1 DEF MfaIInv, AcceptedIsUsedUp, UsedUp, ChallengesKept
  <2> QED BY <1>1, <1>2, <2>1, <2>2, TypesApart, EndingKeeps DEF MfaIInv
<1> QED BY <1>3, <1>4

LEMMA RevokingKeeps ==
    ASSUME MfaIInv, NEW p \in Ceremonies, Revoke(p)
    PROVE  MfaIInv'
<1>1. /\ credential' = [credential EXCEPT !.status = "REVOKED"]
      /\ batch' = [batch EXCEPT !.left = {}]
      /\ challenge' = [c \in Challenges |->
            IF challenge[c].state = "open" THEN [challenge[c] EXCEPT !.state = "gone"] ELSE challenge[c]]
      /\ assured' = FALSE
      /\ UNCHANGED <<failures, now, ceremony, accepted>>
  BY DEF Revoke
<1>2. credential' \in Credential /\ credential'.status = "REVOKED" /\ credential'.last = credential.last
  BY <1>1 DEF MfaIInv, MfaTypeOK, Credential
<1>3. batch' \in Batch /\ batch'.number = batch.number /\ batch'.left = {}
  BY <1>1 DEF MfaIInv, MfaTypeOK, Batch
<1>4. challenge' \in [Challenges -> ChallengeRow] /\ ChallengesKept
  BY <1>1, OpenChallengesEnd DEF MfaIInv
<1>5. AcceptedIsUsedUp'
  BY <1>1, <1>2, <1>3 DEF MfaIInv, AcceptedIsUsedUp, UsedUp
<1>6. EndsSome
  BY <1>1 DEF EndsSome
<1> QED BY <1>1, <1>2, <1>3, <1>4, <1>5, <1>6, TypesApart, EndingKeeps DEF MfaIInv

LEMMA OtherStepsKeep ==
    ASSUME MfaIInv,
           \/ \E p \in Ceremonies : WrongAnswer(p)
           \/ LoseAssurance \/ Tick \/ UNCHANGED mfaVars
    PROVE  MfaIInv'
<1>1. UNCHANGED <<credential, batch, challenge, ceremony, accepted>>
  BY DEF WrongAnswer, LoseAssurance, Tick, mfaVars
<1>2. assured' \in BOOLEAN
  BY DEF WrongAnswer, LoseAssurance, Tick, mfaVars, MfaIInv, MfaTypeOK
<1>3. failures' \in 0..MaxAttempts
  BY MfaAssumption DEF WrongAnswer, LoseAssurance, Tick, mfaVars, MfaIInv, MfaTypeOK, Fail
<1>4. now' \in 0..MaxTime
  BY MfaAssumption DEF WrongAnswer, LoseAssurance, Tick, mfaVars, MfaIInv, MfaTypeOK
<1>5. AcceptedIsUsedUp' /\ ChallengesKept /\ EndsSome
  BY <1>1 DEF MfaIInv, AcceptedIsUsedUp, UsedUp, ChallengesKept, EndsSome
<1> QED BY <1>1, <1>2, <1>3, <1>4, <1>5, TypesApart, EndingKeeps DEF MfaIInv

LEMMA MfaInductive ==
    /\ MfaInit => MfaIInv
    /\ MfaIInv /\ [MfaNext]_mfaVars => MfaIInv'
<1>1. ASSUME MfaInit PROVE MfaIInv
  <2>1. credential \in Credential /\ batch \in Batch /\ challenge \in [Challenges -> ChallengeRow]
    BY <1>1, MfaAssumption DEF MfaInit, Credential, Batch, ChallengeRow, NoRowYet, Steps
  <2>2. MfaTypeOK
    <3>1. ceremony \in [Ceremonies -> CeremonyState]
      BY <1>1, NoCeremonyIsOne DEF MfaInit
    <3>2. assured = FALSE /\ failures = 0 /\ now = 0 /\ accepted = {}
      BY <1>1 DEF MfaInit
    <3>3. failures \in 0..MaxAttempts /\ now \in 0..MaxTime
      BY <3>2, MfaAssumption
    <3>5. assured \in BOOLEAN
      BY <3>2
    <3>4. accepted \subseteq Factors
      BY <3>2
    <3> QED BY <2>1, <3>1, <3>3, <3>4, <3>5 DEF MfaTypeOK, Credential, Batch, ChallengeRow
  <2>3. AcceptedIsUsedUp /\ CeremoniesAreBound
    BY <1>1, NoCeremonyIsOne DEF MfaInit, AcceptedIsUsedUp, CeremoniesAreBound, Doing
  <2> QED BY <2>2, <2>3 DEF MfaIInv
<1>2. ASSUME MfaIInv, [MfaNext]_mfaVars PROVE MfaIInv'
  BY <1>2, ReadingKeeps, EnrollmentKeeps, ChallengeRowsKeep, LoginKeeps, StepUpKeeps, CodesKeep,
     RevokingKeeps, OtherStepsKeep
  DEF MfaNext
<1> QED BY <1>1, <1>2

Reads(p) ==
    \/ BeginEnrollment(p) \/ ConfirmEnrollment(p) \/ CreateLoginChallenge(p)
    \/ (\E c \in Challenges : CompleteLoginChallenge(p, c)) \/ VerifyStepUp(p)
    \/ RegenerateRecoveryCodes(p)

(* Ending a login or a step-up is one of the two writes.                    *)
LEMMA AcceptingEnds ==
    ASSUME MfaIInv, NEW p \in Ceremonies, [MfaNext]_mfaVars,
           Doing(p, "login") \/ Doing(p, "stepUp"), ceremony'[p].pc = "idle"
    PROVE  \/ WriteLogin(p)
           \/ WriteStepUp(p)
<1>1. ASSUME NEW q \in Ceremonies, q # p,
             (\E x : Continue(q, x)) \/ UNCHANGED ceremony
      PROVE  FALSE
  <2>1. ceremony'[p] = ceremony[p]
    BY <1>1 DEF Continue, MfaIInv, MfaTypeOK
  <2> QED BY <2>1 DEF Doing
<1>2. ceremony' # ceremony
  BY DEF Doing
<1>3. ASSUME NEW q \in Ceremonies, \E x : Continue(q, x) PROVE q = p
  BY <1>1, <1>3
<1>4. ASSUME NEW q \in Ceremonies,
             \/ Reads(q) \/ WriteEnrollment(q) \/ Activate(q) \/ ExpireEnrollment(q)
             \/ InsertChallenge(q) \/ WriteRecoveryCodes(q)
      PROVE  FALSE
  <2>1. (\E x : Continue(q, x)) /\ ~Doing(q, "login") /\ ~Doing(q, "stepUp")
    <3>1. CASE Reads(q)
      BY <3>1, Reading DEF Reads, MfaIInv, Takes, Doing
    <3>2. CASE ~Reads(q)
      BY <1>4, <3>2 DEF WriteEnrollment, Activate, ExpireEnrollment, InsertChallenge, WriteRecoveryCodes,
                        End, Doing
    <3> QED BY <3>1, <3>2
  <2> QED BY <1>3, <2>1
<1>5. ASSUME NEW q \in Ceremonies, WriteLogin(q) \/ WriteStepUp(q) PROVE q = p
  BY <1>3, <1>5 DEF WriteLogin, WriteStepUp, End
<1>6. /\ ~ UNCHANGED mfaVars /\ ~ LoseAssurance /\ ~ Tick
      /\ \A c \in Challenges : ~ ExpireChallenge(c)
      /\ \A q \in Ceremonies : ~ WrongAnswer(q) /\ ~ Revoke(q)
      /\ \A q \in Ceremonies, c \in Challenges : ~ FailChallenge(q, c)
  BY <1>2 DEF mfaVars, LoseAssurance, Tick, ExpireChallenge, WrongAnswer, Revoke, FailChallenge
<1> QED BY <1>4, <1>5, <1>6 DEF MfaNext, Reads

LEMMA FactorsStep ==
    ASSUME MfaIInv, [MfaNext]_mfaVars, NEW p \in Ceremonies,
           Doing(p, "login") \/ Doing(p, "stepUp"), ceremony'[p].pc = "idle",
           ceremony[p].factor \in accepted
    PROVE  UNCHANGED <<credential, batch, challenge, assured>>
<1>1. PICK f : f = ceremony[p].factor
  OBVIOUS
<1>2. UsedUp(f) /\ f \in Factors
  BY <1>1 DEF MfaIInv, MfaTypeOK, AcceptedIsUsedUp
<1>3. credential.last \in Int /\ (f.kind = "totp" => f.step \in Int)
  BY <1>2, FactorKinds, MfaAssumption DEF MfaIInv, MfaTypeOK, Steps
<1>4. ~ Consumable(f)
  BY <1>2, <1>3 DEF UsedUp, Consumable
<1>5. WriteLogin(p) \/ WriteStepUp(p)
  BY AcceptingEnds
<1> QED BY <1>1, <1>4, <1>5 DEF WriteLogin, WriteStepUp

FactorKept ==
    /\ credential.status = "ACTIVE" => credential'.status \in {"ACTIVE", "REVOKED"}
    /\ \A c \in Challenges :
          challenge[c].state = "open" /\ challenge'[c].state = "used"
          => credential.status = "ACTIVE" /\ challenge[c].gen = credential.gen

LEMMA FactorStands == MfaIInv /\ [MfaNext]_mfaVars => FactorKept
<1> SUFFICES ASSUME MfaIInv, [MfaNext]_mfaVars PROVE FactorKept
  OBVIOUS
<1>1. ASSUME NEW p \in Ceremonies, WriteLogin(p)
      PROVE  /\ credential.status = "ACTIVE" => credential'.status = "ACTIVE"
             /\ \A c \in Challenges :
                   challenge[c].state = "open" /\ challenge'[c].state = "used"
                   => credential.status = "ACTIVE" /\ challenge[c].gen = credential.gen
  <2>1. PICK d, f : d = ceremony[p].id /\ f = ceremony[p].factor
    OBVIOUS
  <2>2. LoginIsBound(p) /\ f \in Factors
    BY <1>1, <2>1 DEF MfaIInv, CeremoniesAreBound, WriteLogin
  <2>3. CASE Completable(d) /\ credential.status = "ACTIVE" /\ Consumable(f)
    <3>1. /\ Consume(f) /\ accepted' = accepted \union {f}
          /\ \A c \in Challenges : c # d => challenge'[c] = challenge[c]
      BY <1>1, <2>1, <2>3 DEF WriteLogin, MfaIInv, MfaTypeOK
    <3>2. credential'.status = "ACTIVE"
      BY <2>2, <2>3, <3>1, ConsumingUsesUp DEF MfaIInv
    <3> QED BY <2>1, <2>2, <2>3, <3>1, <3>2 DEF LoginIsBound
  <2>4. CASE ~(Completable(d) /\ credential.status = "ACTIVE" /\ Consumable(f))
    BY <1>1, <2>1, <2>4 DEF WriteLogin
  <2> QED BY <2>3, <2>4
<1>2. ASSUME NEW p \in Ceremonies, WriteStepUp(p)
      PROVE  (credential.status = "ACTIVE" => credential'.status = "ACTIVE") /\ UNCHANGED challenge
  <2>1. PICK f : f = ceremony[p].factor
    OBVIOUS
  <2>2. f \in Factors
    BY <1>2, <2>1 DEF MfaIInv, CeremoniesAreBound, WriteStepUp
  <2>3. CASE credential.status = "ACTIVE" /\ Consumable(f)
    BY <1>2, <2>1, <2>2, <2>3, ConsumingUsesUp DEF WriteStepUp, MfaIInv
  <2> QED BY <1>2, <2>1, <2>3 DEF WriteStepUp
<1>3. ASSUME UNCHANGED credential, UNCHANGED challenge
      PROVE  FactorKept
  BY <1>3 DEF FactorKept
<1>4. ASSUME NEW p \in Ceremonies, InsertChallenge(p) \/ (\E c \in Challenges : FailChallenge(p, c))
      PROVE  FactorKept
  BY <1>4 DEF FactorKept, InsertChallenge, FailChallenge, Answerable, NoRowYet, MfaIInv, MfaTypeOK
<1>5. ASSUME NEW c \in Challenges, ExpireChallenge(c)
      PROVE  FactorKept
  BY <1>5 DEF FactorKept, ExpireChallenge, MfaIInv, MfaTypeOK
<1>6. ASSUME NEW p \in Ceremonies, Activate(p) \/ WriteRecoveryCodes(p)
      PROVE  FactorKept
  BY <1>6 DEF FactorKept, Activate, WriteRecoveryCodes, MfaIInv, MfaTypeOK
<1>7. ASSUME NEW p \in Ceremonies, Revoke(p)
      PROVE  FactorKept
  <2>1. credential'.status = "REVOKED"
    BY <1>7 DEF Revoke, MfaIInv, MfaTypeOK
  <2> QED BY <1>7, <2>1 DEF FactorKept, Revoke
<1>8. ASSUME NEW p \in Ceremonies, WriteEnrollment(p)
      PROVE  FactorKept
  BY <1>8 DEF FactorKept, WriteEnrollment, Enrollable
<1>9. ASSUME NEW p \in Ceremonies, Reads(p) PROVE FactorKept
  BY <1>3, <1>9, Reading DEF Reads, MfaIInv
<1>10. ASSUME NEW p \in Ceremonies, WrongAnswer(p) \/ ExpireEnrollment(p) PROVE FactorKept
  BY <1>3, <1>10 DEF WrongAnswer, ExpireEnrollment
<1>11. ASSUME LoseAssurance \/ Tick \/ UNCHANGED mfaVars PROVE FactorKept
  BY <1>3, <1>11 DEF LoseAssurance, Tick, mfaVars
<1> QED
  BY <1>1, <1>2, <1>4, <1>5, <1>6, <1>7, <1>8, <1>9, <1>10, <1>11 DEF MfaNext, Reads, FactorKept

-----------------------------------------------------------------------------
(* Theorems.                                                                *)

(* Whatever logins, rotations, password changes, resets, suspensions and    *)
(* logouts are in flight together, a session that can be used was opened    *)
(* with, or itself set, the password last set or the one the hash verifies; *)
(* and these are the same, unless a login that had verified the first       *)
(* password of the account wrote its rehash later (auth.service.ts,         *)
(* password-recovery.service.ts).                                           *)
THEOREM SessionsProveThePassword == SessionsSpec => []SessionsProvePassword
<1>1. SessionsSpec => []SessionsIInv
  BY SessionsInductive, PTL DEF SessionsSpec
<1>2. SessionsIInv => SessionsProvePassword
  BY DEF SessionsIInv
<1> QED BY <1>1, <1>2, PTL

(* At most one session of a family of refresh tokens is usable, and at most *)
(* one reset token of the account active, however often tokens are          *)
(* presented (session.service.ts, password-reset-token.service.ts).         *)
THEOREM OneCredentialLives == SessionsSpec => []OneLiveCredential
<1>1. SessionsSpec => []SessionsIInv
  BY SessionsInductive, PTL DEF SessionsSpec
<1>2. SessionsIInv => OneLiveCredential
  BY DEF SessionsIInv
<1> QED BY <1>1, <1>2, PTL

(* Every row and every request of the sessions is one the schema and the    *)
(* code allow.                                                              *)
THEOREM SessionsTypeCorrect == SessionsSpec => []SessionsTypeOK
<1>1. SessionsSpec => []SessionsIInv
  BY SessionsInductive, PTL DEF SessionsSpec
<1>2. SessionsIInv => SessionsTypeOK
  BY DEF SessionsIInv
<1> QED BY <1>1, <1>2, PTL

(* What the preflight verified at start-up no operation undoes: the         *)
(* official account stays active and privileged, nobody else becomes        *)
(* privileged, and the recovery address never becomes an account            *)
(* (admin-identity.policy.ts).                                              *)
THEOREM PreflightCorrect == AccountsSpec => []PreflightHolds
<1>1. AccountsSpec => []AccountsIInv
  BY AccountsInductive, PTL DEF AccountsSpec
<1> QED BY <1>1, AccountsSafe, PTL

(* No failed login is lost: an account whose counter is at its limit is     *)
(* locked, or a request is about to lock it (registerFailedAttempt).        *)
THEOREM ThresholdCorrect == AccountsSpec => [](AccountsTypeOK /\ ThresholdLocks)
<1>1. AccountsSpec => []AccountsIInv
  BY AccountsInductive, PTL DEF AccountsSpec
<1>2. AccountsIInv => AccountsTypeOK /\ ThresholdLocks
  BY DEF AccountsIInv
<1> QED BY <1>1, <1>2, PTL

(* Every row of the second factor, and every request on it, is one the      *)
(* schema and the code allow.                                               *)
THEOREM MfaTypeCorrect == MfaSpec => []MfaTypeOK
<1>1. MfaSpec => []MfaIInv
  BY MfaInductive, PTL DEF MfaSpec
<1>2. MfaIInv => MfaTypeOK
  BY DEF MfaIInv
<1> QED BY <1>1, <1>2, PTL

(* No TOTP code and no recovery code opens or steps up a session twice,     *)
(* presented at the same time or later (consumePreparedStepUpFactor).       *)
THEOREM FactorsAreUsedOnceCorrect == MfaSpec => FactorsAreUsedOnce
<1>1. MfaSpec => []MfaIInv
  BY MfaInductive, PTL DEF MfaSpec
<1>2. MfaIInv /\ [MfaNext]_mfaVars =>
        [\A p \in Ceremonies : LET f == ceremony[p].factor IN
           /\ Doing(p, "login") \/ Doing(p, "stepUp")
           /\ ceremony'[p].pc = "idle"
           /\ f \in accepted
           /\ f.kind = "totp" => f.gen = credential.gen
           => UNCHANGED <<credential, batch, challenge, assured>>]_mfaVars
  BY FactorsStep
<1> QED BY <1>1, <1>2, PTL DEF MfaSpec, FactorsAreUsedOnce

(* A confirmed factor is revoked and never replaced by an enrolment begun   *)
(* before, and a challenge completes against the factor it was issued for   *)
(* (beginEnrollment, completeLoginChallenge).                               *)
THEOREM FactorIsNotReplacedCorrect == MfaSpec => FactorIsNotReplaced
<1>1. MfaSpec => []MfaIInv
  BY MfaInductive, PTL DEF MfaSpec
<1>2. MfaIInv /\ [MfaNext]_mfaVars =>
        [/\ credential.status = "ACTIVE" => credential'.status \in {"ACTIVE", "REVOKED"}
         /\ \A c \in Challenges :
               challenge[c].state = "open" /\ challenge'[c].state = "used"
               => credential.status = "ACTIVE" /\ challenge[c].gen = credential.gen]_mfaVars
  BY FactorStands DEF FactorKept
<1> QED BY <1>1, <1>2, PTL DEF MfaSpec, FactorIsNotReplaced

-----------------------------------------------------------------------------
(* The browser of an administrator.                                         *)

Cookies == Generations \union {NoSession}

FetchRow ==
    [kind : {"none", "page", "login", "logout", "logout-all"},
     pc : {"idle", "sent", "served", "waiting"}, cookie : Cookies, again : BOOLEAN, ok : BOOLEAN]

RefreshRow == [pc : {"idle", "sent", "served", "joined"}, cookie : Cookies, got : Cookies]

ServerRow ==
    [state : {"none", "live", "aged", "rotated", "revoked"}, family : Cookies]

BrowserTypes(ts, cs) ==
    /\ server \in [Generations -> ServerRow] /\ jar \in Cookies
    /\ fetch \in [ts -> [cs -> FetchRow]] /\ refresh \in [ts -> RefreshRow]
    /\ tale \in [replayed : BOOLEAN, excuse : BOOLEAN]

Rotated(g) == g \in Generations /\ server[g].state = "rotated"
Served(g) == g \in Generations => server[g].state # "none"

(* A login whose answer, with new cookies, is on its way.                   *)
Brings(t, c) == fetch[t][c].kind = "login" /\ fetch[t][c].pc = "served"

(* A waiting request waits for a refresh, a refresh ends with its cookie.   *)
RefreshStands(ts, cs) ==
    /\ \A t \in ts :
          /\ refresh[t].pc # "joined"
          /\ refresh[t].got # NoSession => refresh[t].pc = "served"
    /\ \A t \in ts, c \in cs :
          fetch[t][c].pc = "waiting" => refresh[t].pc \in {"sent", "served"}

CookiesAreServed(ts, cs) ==
    /\ Served(jar)
    /\ \A t \in ts : Served(refresh[t].cookie) /\ Served(refresh[t].got)
    /\ \A t \in ts, c \in cs : Served(fetch[t][c].cookie)

(* A token on its way to the browser is new to it.                          *)
New(ts, g) ==
    g # NoSession => /\ ~Rotated(g) /\ g # jar
                     /\ \A u \in ts : refresh[u].cookie # g

AnswersAreNew(ts, cs) ==
    /\ \A t \in ts : New(ts, refresh[t].got)
    /\ \A t \in ts, c \in cs : Brings(t, c) => New(ts, fetch[t][c].cookie)
    /\ \A t, u \in ts :
          t # u /\ refresh[t].got # NoSession => refresh[t].got # refresh[u].got
    /\ \A t, u \in ts, c \in cs :
          Brings(t, c) /\ refresh[u].got # NoSession => fetch[t][c].cookie # refresh[u].got
    /\ \A t, u \in ts, c, d \in cs :
          Brings(t, c) /\ Brings(u, d) /\ <<t, c>> # <<u, d>>
              => fetch[t][c].cookie # fetch[u][d].cookie \/ fetch[t][c].cookie = NoSession

(* Without an excuse, no two tabs refresh with one token, the browser holds *)
(* a rotated token only while the new one is on its way, and no refresh the *)
(* server has yet to answer carries one.                                    *)
Unexcused(ts) ==
    ~tale.excuse =>
        /\ ~tale.replayed
        /\ \A t, u \in ts :
              t # u /\ refresh[t].pc # "idle" /\ refresh[u].pc # "idle"
                  => refresh[t].cookie # refresh[u].cookie
        /\ Rotated(jar) =>
              \E t \in ts : refresh[t].cookie = jar /\ refresh[t].got # NoSession
        /\ \A t \in ts : refresh[t].pc = "sent" => ~Rotated(refresh[t].cookie)

BrowserIInv(ts, cs) ==
    /\ BrowserTypes(ts, cs) /\ RefreshStands(ts, cs) /\ CookiesAreServed(ts, cs)
    /\ AnswersAreNew(ts, cs) /\ Unexcused(ts)

LEMMA NoSessionIsNone == NoSession \notin Generations
  BY BrowsersAssumption DEF Browser!BrowserAssumption

LEMMA BrowserInitial ==
    ASSUME NEW ts, NEW cs, NEW ks, Browser(ts, cs, ks)!BrowserInit
    PROVE  BrowserIInv(ts, cs)
  <1> USE NoSessionIsNone DEF Browser!BrowserInit, Browser!NoRow, Browser!NoCall, Browser!NoRefresh
  <1>1. BrowserTypes(ts, cs)
    BY DEF BrowserTypes, ServerRow, FetchRow, RefreshRow, Cookies
  <1>2. RefreshStands(ts, cs) /\ CookiesAreServed(ts, cs)
    BY DEF RefreshStands, CookiesAreServed, Served
  <1>3. AnswersAreNew(ts, cs)
    BY DEF AnswersAreNew, New, Brings
  <1>4. Unexcused(ts)
    BY DEF Unexcused, Rotated
  <1> QED BY <1>1, <1>2, <1>3, <1>4 DEF BrowserIInv

LEMMA BrowserHoldsThen ==
    ASSUME NEW ts, NEW cs, NEW ks, BrowserIInv(ts, cs)
    PROVE  Browser(ts, cs, ks)!BrowserHolds
  BY DEF BrowserIInv, BrowserTypes, RefreshStands, Unexcused, Browser!BrowserHolds,
         Browser!NoReplayOfOwnTokens, Browser!WaitersAreServed

(* Sessions end and age, and no token is issued or rotated.                 *)
Quiet ==
    /\ server' \in [Generations -> ServerRow]
    /\ \A g \in Generations :
          /\ server[g].state # "none" => server'[g].state # "none"
          /\ server'[g].state = "rotated" => server[g].state = "rotated"

(* A request goes on without bringing new cookies.                          *)
GoesOn(t, c) ==
    \/ fetch'[t][c] = fetch[t][c]
    \/ /\ fetch'[t][c].cookie \in {NoSession, jar, fetch[t][c].cookie}
       /\ ~(fetch'[t][c].kind = "login" /\ fetch'[t][c].pc = "served")
       /\ fetch'[t][c].pc = "waiting" => refresh[t].pc \in {"sent", "served"}

LEMMA QuietStep ==
    ASSUME NEW ts, NEW cs, BrowserIInv(ts, cs), Quiet, jar' \in {jar, NoSession},
           fetch' \in [ts -> [cs -> FetchRow]], \A t \in ts, c \in cs : GoesOn(t, c),
           UNCHANGED <<refresh, tale>>
    PROVE  BrowserIInv(ts, cs)'
  <1>0. /\ BrowserTypes(ts, cs) /\ RefreshStands(ts, cs) /\ CookiesAreServed(ts, cs)
        /\ AnswersAreNew(ts, cs) /\ Unexcused(ts)
    BY DEF BrowserIInv
  <1>1. BrowserTypes(ts, cs)'
    BY <1>0 DEF BrowserTypes, Quiet, Cookies
  <1>2. RefreshStands(ts, cs)'
    BY <1>0 DEF RefreshStands, GoesOn
  <1>3. \A g : /\ Served(g) => (g \in Generations => server'[g].state # "none")
               /\ (g \in Generations /\ server'[g].state = "rotated") => Rotated(g)
    BY DEF Served, Rotated, Quiet
  <1>4. CookiesAreServed(ts, cs)'
    BY <1>0, <1>3, NoSessionIsNone DEF CookiesAreServed, Served, GoesOn
  <1>5. \A t \in ts, c \in cs : Brings(t, c)' => Brings(t, c) /\ fetch'[t][c] = fetch[t][c]
    BY DEF Brings, GoesOn
  <1>6. AnswersAreNew(ts, cs)'
    <2>1. \A g : New(ts, g) => (g # NoSession => /\ ~(g \in Generations /\ server'[g].state = "rotated")
                                                /\ g # jar' /\ \A u \in ts : refresh'[u].cookie # g)
      BY <1>3 DEF New, Rotated
    <2>2. \A t \in ts : New(ts, refresh[t].got)'
      BY <1>0, <2>1 DEF AnswersAreNew, New, Rotated
    <2>3. \A t \in ts, c \in cs : Brings(t, c)' => New(ts, fetch[t][c].cookie)'
      <3> SUFFICES ASSUME NEW t \in ts, NEW c \in cs, Brings(t, c)' PROVE New(ts, fetch[t][c].cookie)'
        OBVIOUS
      <3>1. New(ts, fetch[t][c].cookie) /\ fetch'[t][c] = fetch[t][c]
        BY <1>0, <1>5 DEF AnswersAreNew
      <3> QED BY <2>1, <3>1 DEF New, Rotated
    <2>4. \A t, u \in ts, c \in cs :
          Brings(t, c)' /\ refresh'[u].got # NoSession => fetch'[t][c].cookie # refresh'[u].got
      BY <1>0, <1>5 DEF AnswersAreNew
    <2>5. \A t, u \in ts, c, d \in cs :
          Brings(t, c)' /\ Brings(u, d)' /\ <<t, c>> # <<u, d>>
              => fetch'[t][c].cookie # fetch'[u][d].cookie \/ fetch'[t][c].cookie = NoSession
      BY <1>0, <1>5 DEF AnswersAreNew
    <2>6. \A t, u \in ts :
          t # u /\ refresh'[t].got # NoSession => refresh'[t].got # refresh'[u].got
      BY <1>0 DEF AnswersAreNew
    <2> QED BY <2>2, <2>3, <2>4, <2>5, <2>6 DEF AnswersAreNew
  <1>7. Unexcused(ts)'
    BY <1>0, <1>3, NoSessionIsNone DEF Unexcused, Rotated
  <1> QED BY <1>1, <1>2, <1>4, <1>6, <1>7 DEF BrowserIInv

(* A login is served with a token nobody has seen.                          *)
LEMMA LoginServed ==
    ASSUME NEW ts, NEW cs, BrowserIInv(ts, cs), NEW t \in ts, NEW c \in cs,
           NEW g \in Generations, server[g].state = "none", NEW row \in FetchRow, row.cookie = g,
           row.pc = "served",
           server' = [server EXCEPT ![g] = [state |-> "live", family |-> g]],
           fetch' = [fetch EXCEPT ![t] = [@ EXCEPT ![c] = row]],
           UNCHANGED <<jar, refresh, tale>>
    PROVE  BrowserIInv(ts, cs)'
  <1>0. /\ BrowserTypes(ts, cs) /\ RefreshStands(ts, cs) /\ CookiesAreServed(ts, cs)
        /\ AnswersAreNew(ts, cs) /\ Unexcused(ts)
    BY DEF BrowserIInv
  <1>1. BrowserTypes(ts, cs)'
    BY <1>0 DEF BrowserTypes, Cookies, ServerRow
  <1>2. /\ fetch'[t][c] = row
        /\ \A u \in ts, d \in cs : <<u, d>> # <<t, c>> => fetch'[u][d] = fetch[u][d]
    BY <1>0 DEF BrowserTypes
  <1>3. RefreshStands(ts, cs)'
    BY <1>0, <1>2 DEF RefreshStands
  <1>4. /\ server'[g].state = "live" /\ \A h \in Generations \ {g} : server'[h] = server[h]
        /\ g # NoSession
    BY <1>0, NoSessionIsNone DEF BrowserTypes
  <1>5. CookiesAreServed(ts, cs)'
    BY <1>0, <1>2, <1>4 DEF CookiesAreServed, Served
  <1>6. /\ g # jar
        /\ \A u \in ts : refresh[u].cookie # g /\ refresh[u].got # g
        /\ \A u \in ts, d \in cs : fetch[u][d].cookie # g
    BY <1>0 DEF CookiesAreServed, Served
  <1>7. AnswersAreNew(ts, cs)'
    <2>1. \A u \in ts : New(ts, refresh[u].got)'
      BY <1>0, <1>4 DEF AnswersAreNew, New, Rotated
    <2>2. \A u \in ts, d \in cs : Brings(u, d)' => New(ts, fetch[u][d].cookie)'
      <3> SUFFICES ASSUME NEW u \in ts, NEW d \in cs, Brings(u, d)' PROVE New(ts, fetch[u][d].cookie)'
        OBVIOUS
      <3>1. CASE <<u, d>> = <<t, c>>
        BY <3>1, <1>2, <1>4, <1>6 DEF New, Rotated
      <3>2. CASE <<u, d>> # <<t, c>>
        BY <3>2, <1>0, <1>2, <1>4 DEF AnswersAreNew, New, Rotated, Brings
      <3> QED BY <3>1, <3>2
    <2>3. \A u, v \in ts, d \in cs :
          Brings(u, d)' /\ refresh'[v].got # NoSession => fetch'[u][d].cookie # refresh'[v].got
      BY <1>0, <1>2, <1>6 DEF AnswersAreNew, Brings
    <2>4. \A u, v \in ts, d, e \in cs :
          Brings(u, d)' /\ Brings(v, e)' /\ <<u, d>> # <<v, e>>
              => fetch'[u][d].cookie # fetch'[v][e].cookie \/ fetch'[u][d].cookie = NoSession
      <3> SUFFICES ASSUME NEW u \in ts, NEW v \in ts, NEW d \in cs, NEW e \in cs,
                          Brings(u, d)', Brings(v, e)', <<u, d>> # <<v, e>>
                   PROVE  \/ fetch'[u][d].cookie # fetch'[v][e].cookie
                          \/ fetch'[u][d].cookie = NoSession
        OBVIOUS
      <3>1. CASE <<u, d>> = <<t, c>>
        BY <3>1, <1>2, <1>6
      <3>2. CASE <<v, e>> = <<t, c>>
        BY <3>2, <1>2, <1>6
      <3>3. CASE <<u, d>> # <<t, c>> /\ <<v, e>> # <<t, c>>
        BY <3>3, <1>0, <1>2 DEF AnswersAreNew, Brings
      <3> QED BY <3>1, <3>2, <3>3
    <2> QED BY <1>0, <2>1, <2>2, <2>3, <2>4 DEF AnswersAreNew
  <1>8. Unexcused(ts)'
    BY <1>0, <1>4 DEF Unexcused, Rotated
  <1> QED BY <1>1, <1>3, <1>5, <1>7, <1>8 DEF BrowserIInv

(* The cookies of a login arrive.                                           *)
LEMMA LoginArrives ==
    ASSUME NEW ts, NEW cs, BrowserIInv(ts, cs), NEW t \in ts, NEW c \in cs,
           Brings(t, c), NEW row \in FetchRow, row.cookie = jar', row.pc = "sent",
           jar' = fetch[t][c].cookie,
           fetch' = [fetch EXCEPT ![t] = [@ EXCEPT ![c] = row]],
           UNCHANGED <<server, refresh, tale>>
    PROVE  BrowserIInv(ts, cs)'
  <1>0. /\ BrowserTypes(ts, cs) /\ RefreshStands(ts, cs) /\ CookiesAreServed(ts, cs)
        /\ AnswersAreNew(ts, cs) /\ Unexcused(ts)
    BY DEF BrowserIInv
  <1>1. BrowserTypes(ts, cs)'
    BY <1>0 DEF BrowserTypes, FetchRow
  <1>2. /\ fetch'[t][c] = row
        /\ \A u \in ts, d \in cs : <<u, d>> # <<t, c>> => fetch'[u][d] = fetch[u][d]
    BY <1>0 DEF BrowserTypes
  <1>3. RefreshStands(ts, cs)'
    BY <1>0, <1>2 DEF RefreshStands
  <1>4. CookiesAreServed(ts, cs)'
    BY <1>0, <1>2 DEF CookiesAreServed, Served
  <1>5. New(ts, jar')
    BY <1>0 DEF AnswersAreNew
  <1>6. \A u \in ts, d \in cs : Brings(u, d)' =>
            /\ Brings(u, d) /\ <<u, d>> # <<t, c>> /\ fetch'[u][d] = fetch[u][d]
            /\ fetch[u][d].cookie # jar' \/ fetch[u][d].cookie = NoSession
    <2> SUFFICES ASSUME NEW u \in ts, NEW d \in cs, Brings(u, d)'
                 PROVE  /\ Brings(u, d) /\ <<u, d>> # <<t, c>> /\ fetch'[u][d] = fetch[u][d]
                        /\ fetch[u][d].cookie # jar' \/ fetch[u][d].cookie = NoSession
      OBVIOUS
    <2>1. <<u, d>> # <<t, c>>
      BY <1>2 DEF Brings
    <2>2. Brings(u, d) /\ fetch'[u][d] = fetch[u][d]
      BY <2>1, <1>2 DEF Brings
    <2> QED BY <1>0, <2>1, <2>2 DEF AnswersAreNew
  <1>7. AnswersAreNew(ts, cs)'
    <2>1. \A u \in ts : New(ts, refresh[u].got)'
      BY <1>0 DEF AnswersAreNew, New, Rotated
    <2>2. \A u \in ts, d \in cs : Brings(u, d)' => New(ts, fetch[u][d].cookie)'
      BY <1>0, <1>6 DEF AnswersAreNew, New, Rotated
    <2> QED BY <1>0, <1>6, <2>1, <2>2 DEF AnswersAreNew
  <1>8. Unexcused(ts)'
    BY <1>0, <1>5, NoSessionIsNone DEF Unexcused, Rotated, New
  <1> QED BY <1>1, <1>3, <1>4, <1>7, <1>8 DEF BrowserIInv

(* The first 401 of a tab starts its refresh.                               *)
LEMMA RefreshStarts ==
    ASSUME NEW ts, NEW cs, BrowserIInv(ts, cs), NEW t \in ts, NEW c \in cs,
           refresh[t].pc = "idle", fetch[t][c].ok = FALSE,
           fetch' = [fetch EXCEPT ![t] = [@ EXCEPT ![c] = [fetch[t][c] EXCEPT !.pc = "waiting"]]],
           refresh' = [refresh EXCEPT ![t] = [pc |-> "sent", cookie |-> jar, got |-> NoSession]],
           tale' = [tale EXCEPT !.excuse = @ \/
                  \E u \in ts \ {t} : refresh[u].pc # "idle" /\ refresh[u].cookie = jar],
           UNCHANGED <<server, jar>>
    PROVE  BrowserIInv(ts, cs)'
  <1>0. /\ BrowserTypes(ts, cs) /\ RefreshStands(ts, cs) /\ CookiesAreServed(ts, cs)
        /\ AnswersAreNew(ts, cs) /\ Unexcused(ts)
    BY DEF BrowserIInv
  <1> DEFINE row == [fetch[t][c] EXCEPT !.pc = "waiting"]
             new == [pc |-> "sent", cookie |-> jar, got |-> NoSession]
  <1>a. row \in FetchRow /\ row.pc = "waiting" /\ row.cookie = fetch[t][c].cookie
    <2>1. fetch[t][c] \in FetchRow
      BY <1>0 DEF BrowserTypes
    <2> QED BY <2>1 DEF FetchRow
  <1>b. new \in RefreshRow /\ new.pc = "sent" /\ new.cookie = jar /\ new.got = NoSession
    BY <1>0 DEF BrowserTypes, RefreshRow, Cookies
  <1>1. BrowserTypes(ts, cs)'
    <2>1. tale' \in [replayed : BOOLEAN, excuse : BOOLEAN]
      BY <1>0 DEF BrowserTypes
    <2> HIDE DEF row, new
    <2>2. fetch' \in [ts -> [cs -> FetchRow]] /\ refresh' \in [ts -> RefreshRow]
      BY <1>0, <1>a, <1>b DEF BrowserTypes, row, new
    <2> QED BY <1>0, <2>1, <2>2 DEF BrowserTypes
  <1>2. /\ fetch'[t][c] = row
        /\ \A u \in ts, d \in cs : <<u, d>> # <<t, c>> => fetch'[u][d] = fetch[u][d]
        /\ refresh'[t] = new
        /\ \A u \in ts \ {t} : refresh'[u] = refresh[u]
    BY <1>0 DEF BrowserTypes
  <1>3. /\ tale'.excuse = (tale.excuse \/
                  \E u \in ts \ {t} : refresh[u].pc # "idle" /\ refresh[u].cookie = jar)
        /\ tale'.replayed = tale.replayed
    BY <1>0 DEF BrowserTypes
  <1> HIDE DEF row, new
  <1>4. RefreshStands(ts, cs)'
    BY <1>0, <1>2, <1>b DEF RefreshStands
  <1>5. CookiesAreServed(ts, cs)'
    BY <1>0, <1>2, <1>a, <1>b, NoSessionIsNone DEF CookiesAreServed, Served
  <1>6. \A u \in ts, d \in cs : Brings(u, d)' => Brings(u, d) /\ fetch'[u][d] = fetch[u][d]
    BY <1>2, <1>a DEF Brings
  <1>7. AnswersAreNew(ts, cs)'
    <2>1. \A u \in ts : refresh'[u].got # NoSession => u # t /\ refresh'[u].got = refresh[u].got
      BY <1>2, <1>b
    <2>2. \A u \in ts : New(ts, refresh[u].got)'
      BY <1>0, <1>2, <1>b, <2>1 DEF AnswersAreNew, New, Rotated
    <2>3. \A u \in ts, d \in cs : Brings(u, d)' => New(ts, fetch[u][d].cookie)'
      BY <1>0, <1>2, <1>b, <1>6 DEF AnswersAreNew, New, Rotated
    <2>4. \A u, v \in ts :
          u # v /\ refresh'[u].got # NoSession => refresh'[u].got # refresh'[v].got
      BY <1>0, <1>2, <2>1 DEF AnswersAreNew
    <2> QED BY <1>0, <1>6, <2>1, <2>2, <2>3, <2>4 DEF AnswersAreNew
  <1>8. Unexcused(ts)'
    <2> SUFFICES ASSUME ~tale'.excuse
                 PROVE  /\ ~tale'.replayed
                        /\ \A u, v \in ts :
                              u # v /\ refresh'[u].pc # "idle" /\ refresh'[v].pc # "idle"
                                  => refresh'[u].cookie # refresh'[v].cookie
                        /\ Rotated(jar)' =>
                              \E u \in ts : refresh'[u].cookie = jar' /\ refresh'[u].got # NoSession
                        /\ \A u \in ts : refresh'[u].pc = "sent" => ~Rotated(refresh[u].cookie)'
      BY DEF Unexcused
    <2>1. ~tale.excuse /\ \A u \in ts \ {t} : refresh[u].pc # "idle" => refresh[u].cookie # jar
      BY <1>3
    <2>2. ~tale'.replayed
      BY <1>0, <1>3, <2>1 DEF Unexcused
    <2>3. \A u, v \in ts :
              u # v /\ refresh'[u].pc # "idle" /\ refresh'[v].pc # "idle"
                  => refresh'[u].cookie # refresh'[v].cookie
      BY <1>0, <1>2, <1>b, <2>1 DEF Unexcused
    <2>4. ~Rotated(jar)
      <3>1. \A u \in ts : refresh[u].got # NoSession => refresh[u].pc = "served"
        BY <1>0 DEF RefreshStands
      <3> QED BY <1>0, <2>1, <3>1 DEF Unexcused
    <2>5. ~Rotated(jar)'
      BY <2>4 DEF Rotated
    <2>6. \A u \in ts : refresh'[u].pc = "sent" => ~Rotated(refresh[u].cookie)'
      BY <1>0, <1>2, <1>b, <2>1, <2>4 DEF Unexcused, Rotated
    <2> QED BY <2>2, <2>3, <2>5, <2>6
  <1> QED BY <1>1, <1>4, <1>5, <1>7, <1>8 DEF BrowserIInv

(* The server rotates the token of a refresh.                               *)
LEMMA RefreshServed ==
    ASSUME NEW ts, NEW cs, BrowserIInv(ts, cs), NEW t \in ts, refresh[t].pc = "sent",
           NEW next \in Generations, server[next].state = "none",
           refresh[t].cookie \in Generations, server[refresh[t].cookie].state # "none",
           server' = [h \in Generations |->
                  IF h = refresh[t].cookie THEN [server[h] EXCEPT !.state = "rotated"]
                  ELSE IF h = next
                       THEN [state |-> "live", family |-> server[refresh[t].cookie].family]
                       ELSE server[h]],
           refresh' = [refresh EXCEPT ![t] =
               [pc |-> "served", cookie |-> refresh[t].cookie, got |-> next]],
           UNCHANGED <<jar, fetch, tale>>
    PROVE  BrowserIInv(ts, cs)'
  <1>0. /\ BrowserTypes(ts, cs) /\ RefreshStands(ts, cs) /\ CookiesAreServed(ts, cs)
        /\ AnswersAreNew(ts, cs) /\ Unexcused(ts)
    BY DEF BrowserIInv
  <1> DEFINE g == refresh[t].cookie
             new == [pc |-> "served", cookie |-> g, got |-> next]
  <1>b. new \in RefreshRow /\ new.pc = "served" /\ new.cookie = g /\ new.got = next
    BY <1>0 DEF RefreshRow, Cookies
  <1>2. /\ refresh'[t] = new
        /\ \A u \in ts \ {t} : refresh'[u] = refresh[u]
        /\ refresh' \in [ts -> RefreshRow]
    BY <1>0, <1>b DEF BrowserTypes
  <1>3. g # next /\ next # NoSession /\ g \in Generations
    BY NoSessionIsNone
  <1>4. /\ server'[g].state = "rotated" /\ server'[next].state = "live"
        /\ \A h \in Generations \ {g, next} : server'[h] = server[h]
    BY <1>0, <1>3 DEF BrowserTypes, ServerRow
  <1>1. BrowserTypes(ts, cs)'
    <2>1. \A h \in Generations : server[h] \in ServerRow
      BY <1>0 DEF BrowserTypes
    <2>2. [state |-> "live", family |-> server[g].family] \in ServerRow
      BY <1>3, <2>1 DEF ServerRow
    <2>3. \A h \in Generations : [server[h] EXCEPT !.state = "rotated"] \in ServerRow
      BY <2>1 DEF ServerRow
    <2>4. server' \in [Generations -> ServerRow]
      BY <2>1, <2>2, <2>3
    <2> QED BY <1>0, <1>2, <2>4 DEF BrowserTypes
  <1> HIDE DEF g, new
  <1>5. RefreshStands(ts, cs)'
    BY <1>0, <1>2, <1>b DEF RefreshStands
  <1>6. CookiesAreServed(ts, cs)'
    <2>1. \A h : Served(h) => (h \in Generations => server'[h].state # "none")
      <3> SUFFICES ASSUME NEW h \in Generations, server[h].state # "none"
                   PROVE  server'[h].state # "none"
        BY DEF Served
      <3> QED BY <1>4, h \in {g, next} \/ h \in Generations \ {g, next}
    <2>2. server'[next].state # "none" /\ server'[g].state # "none"
      BY <1>4
    <2>3. Served(jar)' /\ \A u \in ts, d \in cs : Served(fetch[u][d].cookie)'
      BY <1>0, <2>1 DEF CookiesAreServed, Served
    <2>4. \A u \in ts : Served(refresh[u].cookie)' /\ Served(refresh[u].got)'
      <3> TAKE u \in ts
      <3>1. CASE u = t
        BY <3>1, <2>2, <1>2, <1>b DEF Served
      <3>2. CASE u # t
        <4>1. Served(refresh[u].cookie) /\ Served(refresh[u].got) /\ refresh'[u] = refresh[u]
          BY <3>2, <1>0, <1>2 DEF CookiesAreServed
        <4> QED BY <4>1, <2>1 DEF Served
      <3> QED BY <3>1, <3>2
    <2> QED BY <2>3, <2>4 DEF CookiesAreServed
  <1>7. /\ next # jar
        /\ \A u \in ts : refresh[u].cookie # next /\ refresh[u].got # next
        /\ \A u \in ts, d \in cs : fetch[u][d].cookie # next
    BY <1>0 DEF CookiesAreServed, Served
  <1>8. \A h : New(ts, h) => (h # NoSession => /\ ~(h \in Generations /\ server'[h].state = "rotated")
                                               /\ h # jar' /\ \A u \in ts : refresh'[u].cookie # h)
    <2> SUFFICES ASSUME NEW h, New(ts, h), h # NoSession
                 PROVE  /\ ~(h \in Generations /\ server'[h].state = "rotated")
                        /\ h # jar' /\ \A u \in ts : refresh'[u].cookie # h
      OBVIOUS
    <2>1. h # g
      BY DEF New, g
    <2>2. ~(h \in Generations /\ server'[h].state = "rotated")
      BY <2>1, <1>4 DEF New, Rotated
    <2> QED BY <2>1, <2>2, <1>2, <1>b DEF New
  <1>9. AnswersAreNew(ts, cs)'
    <2>1. \A u \in ts : New(ts, refresh[u].got)'
      <3> TAKE u \in ts
      <3>1. CASE u = t
        <4>1. ~(next \in Generations /\ server'[next].state = "rotated")
          BY <1>4
        <4>2. \A v \in ts : refresh'[v].cookie # next
          BY <1>2, <1>b, <1>3, <1>7
        <4> QED BY <3>1, <1>2, <1>b, <1>7, <4>1, <4>2 DEF New, Rotated
      <3>2. CASE u # t
        <4>1. New(ts, refresh[u].got) /\ refresh'[u] = refresh[u]
          BY <3>2, <1>0, <1>2 DEF AnswersAreNew
        <4> QED BY <4>1, <1>8 DEF New, Rotated
      <3> QED BY <3>1, <3>2
    <2>2. \A u \in ts, d \in cs : Brings(u, d)' => New(ts, fetch[u][d].cookie)'
      <3> SUFFICES ASSUME NEW u \in ts, NEW d \in cs, Brings(u, d)' PROVE New(ts, fetch[u][d].cookie)'
        OBVIOUS
      <3>1. New(ts, fetch[u][d].cookie)
        BY <1>0 DEF AnswersAreNew, Brings
      <3> QED BY <3>1, <1>8 DEF New, Rotated
    <2>3. \A u, v \in ts :
          u # v /\ refresh'[u].got # NoSession => refresh'[u].got # refresh'[v].got
      BY <1>0, <1>2, <1>b, <1>7 DEF AnswersAreNew
    <2>4. \A u, v \in ts, d \in cs :
          Brings(u, d)' /\ refresh'[v].got # NoSession => fetch'[u][d].cookie # refresh'[v].got
      BY <1>0, <1>2, <1>b, <1>7 DEF AnswersAreNew, Brings
    <2>5. \A u, v \in ts, d, e \in cs :
          Brings(u, d)' /\ Brings(v, e)' /\ <<u, d>> # <<v, e>>
              => fetch'[u][d].cookie # fetch'[v][e].cookie \/ fetch'[u][d].cookie = NoSession
      BY <1>0 DEF AnswersAreNew, Brings
    <2> QED BY <2>1, <2>2, <2>3, <2>4, <2>5 DEF AnswersAreNew
  <1>10. Unexcused(ts)'
    <2> SUFFICES ASSUME ~tale'.excuse
                 PROVE  /\ ~tale'.replayed
                        /\ \A u, v \in ts :
                              u # v /\ refresh'[u].pc # "idle" /\ refresh'[v].pc # "idle"
                                  => refresh'[u].cookie # refresh'[v].cookie
                        /\ Rotated(jar)' =>
                              \E u \in ts : refresh'[u].cookie = jar' /\ refresh'[u].got # NoSession
                        /\ \A u \in ts : refresh'[u].pc = "sent" => ~Rotated(refresh[u].cookie)'
      BY DEF Unexcused
    <2>1. \A u, v \in ts :
              u # v /\ refresh'[u].pc # "idle" /\ refresh'[v].pc # "idle"
                  => refresh'[u].cookie # refresh'[v].cookie
      BY <1>0, <1>2, <1>b DEF Unexcused, g
    <2>2. Rotated(jar)' =>
              \E u \in ts : refresh'[u].cookie = jar' /\ refresh'[u].got # NoSession
      <3>1. CASE jar = g
        BY <3>1, <1>2, <1>b, <1>3
      <3>2. CASE jar # g
        <4> SUFFICES ASSUME Rotated(jar)'
                     PROVE  \E u \in ts : refresh'[u].cookie = jar' /\ refresh'[u].got # NoSession
          OBVIOUS
        <4>1. Rotated(jar)
          BY <3>2, <1>4, <1>7 DEF Rotated
        <4>2. PICK u \in ts : refresh[u].cookie = jar /\ refresh[u].got # NoSession
          BY <1>0, <4>1 DEF Unexcused
        <4>3. u # t
          BY <4>2, <3>2 DEF g
        <4> QED BY <4>2, <4>3, <1>2
      <3> QED BY <3>1, <3>2
    <2>3. \A u \in ts : refresh'[u].pc = "sent" => ~Rotated(refresh[u].cookie)'
      <3> SUFFICES ASSUME NEW u \in ts, refresh'[u].pc = "sent" PROVE ~Rotated(refresh[u].cookie)'
        OBVIOUS
      <3>1. u # t /\ refresh'[u] = refresh[u]
        BY <1>2, <1>b
      <3>2. refresh[u].cookie # g /\ ~Rotated(refresh[u].cookie)
        BY <3>1, <1>0 DEF Unexcused, g
      <3>3. refresh[u].cookie # next
        BY <1>7
      <3>4. refresh[u].cookie \in Generations => server'[refresh[u].cookie] = server[refresh[u].cookie]
        BY <3>2, <3>3, <1>4
      <3> QED BY <3>1, <3>2, <3>4 DEF Rotated
    <2> QED BY <1>0, <2>1, <2>2, <2>3 DEF Unexcused
  <1> QED BY <1>1, <1>5, <1>6, <1>9, <1>10 DEF BrowserIInv

(* The server refuses a refresh, and knows whether its token came back.     *)
LEMMA RefreshRefused ==
    ASSUME NEW ts, NEW cs, BrowserIInv(ts, cs), NEW t \in ts, refresh[t].pc = "sent",
           Quiet, UNCHANGED <<jar, fetch>>,
           refresh' = [refresh EXCEPT ![t] =
               [pc |-> "served", cookie |-> refresh[t].cookie, got |-> NoSession]],
           tale' = [tale EXCEPT !.replayed = @ \/ Rotated(refresh[t].cookie)]
    PROVE  BrowserIInv(ts, cs)'
  <1>0. /\ BrowserTypes(ts, cs) /\ RefreshStands(ts, cs) /\ CookiesAreServed(ts, cs)
        /\ AnswersAreNew(ts, cs) /\ Unexcused(ts)
    BY DEF BrowserIInv
  <1> DEFINE g == refresh[t].cookie
             new == [pc |-> "served", cookie |-> g, got |-> NoSession]
  <1>a. g \in Cookies /\ refresh[t].got = NoSession
    BY <1>0 DEF BrowserTypes, RefreshRow, RefreshStands
  <1>b. new \in RefreshRow /\ new.pc = "served" /\ new.cookie = g /\ new.got = NoSession
    BY <1>a DEF RefreshRow, Cookies
  <1>2. /\ refresh'[t] = new
        /\ \A u \in ts \ {t} : refresh'[u] = refresh[u]
        /\ refresh' \in [ts -> RefreshRow]
    BY <1>0, <1>b DEF BrowserTypes
  <1>c. \A u \in ts : refresh'[u].cookie = refresh[u].cookie /\ refresh'[u].got = refresh[u].got
    BY <1>2, <1>a, <1>b DEF g
  <1>d. /\ tale'.excuse = tale.excuse /\ tale'.replayed = (tale.replayed \/ Rotated(g))
        /\ tale' \in [replayed : BOOLEAN, excuse : BOOLEAN]
    BY <1>0 DEF BrowserTypes, Rotated
  <1> HIDE DEF g, new
  <1>1. BrowserTypes(ts, cs)'
    BY <1>0, <1>2, <1>d DEF BrowserTypes, Quiet
  <1>3. RefreshStands(ts, cs)'
    BY <1>0, <1>2, <1>b DEF RefreshStands
  <1>4. \A h \in Generations : /\ server[h].state # "none" => server'[h].state # "none"
                               /\ server'[h].state = "rotated" => server[h].state = "rotated"
    BY DEF Quiet
  <1>5. CookiesAreServed(ts, cs)'
    BY <1>0, <1>4, <1>c DEF CookiesAreServed, Served
  <1>6. AnswersAreNew(ts, cs)'
    <2>1. \A h : New(ts, h) => (h # NoSession => /\ ~(h \in Generations /\ server'[h].state = "rotated")
                                                 /\ h # jar' /\ \A u \in ts : refresh'[u].cookie # h)
      BY <1>4, <1>c DEF New, Rotated
    <2>2. \A u \in ts : New(ts, refresh[u].got)'
      <3> TAKE u \in ts
      <3>1. New(ts, refresh[u].got) /\ refresh'[u].got = refresh[u].got
        BY <1>0, <1>c DEF AnswersAreNew
      <3> QED BY <2>1, <3>1 DEF New, Rotated
    <2>3. \A u \in ts, d \in cs : Brings(u, d)' => New(ts, fetch[u][d].cookie)'
      <3> SUFFICES ASSUME NEW u \in ts, NEW d \in cs, Brings(u, d)' PROVE New(ts, fetch[u][d].cookie)'
        OBVIOUS
      <3>1. New(ts, fetch[u][d].cookie)
        BY <1>0 DEF AnswersAreNew, Brings
      <3> QED BY <2>1, <3>1 DEF New, Rotated
    <2>4. \A u, v \in ts :
          u # v /\ refresh'[u].got # NoSession => refresh'[u].got # refresh'[v].got
      BY <1>0, <1>c DEF AnswersAreNew
    <2>5. \A u, v \in ts, d \in cs :
          Brings(u, d)' /\ refresh'[v].got # NoSession => fetch'[u][d].cookie # refresh'[v].got
      BY <1>0, <1>c DEF AnswersAreNew, Brings
    <2>6. \A u, v \in ts, d, e \in cs :
          Brings(u, d)' /\ Brings(v, e)' /\ <<u, d>> # <<v, e>>
              => fetch'[u][d].cookie # fetch'[v][e].cookie \/ fetch'[u][d].cookie = NoSession
      BY <1>0 DEF AnswersAreNew, Brings
    <2> QED BY <2>2, <2>3, <2>4, <2>5, <2>6 DEF AnswersAreNew
  <1>7. Unexcused(ts)'
    <2>1. \A u \in ts : /\ refresh'[u].pc = "sent" => refresh[u].pc = "sent"
                        /\ refresh'[u].pc # "idle" => refresh[u].pc # "idle"
      BY <1>2, <1>b
    <2> QED BY <1>0, <1>4, <1>c, <1>d, <2>1 DEF Unexcused, Rotated, g
  <1> QED BY <1>1, <1>3, <1>5, <1>6, <1>7 DEF BrowserIInv

(* The new cookies of a refresh arrive, and who waited asks again.          *)
LEMMA RefreshArrives ==
    ASSUME NEW ts, NEW cs, BrowserIInv(ts, cs), NEW t \in ts,
           refresh[t].got # NoSession, jar' = refresh[t].got,
           fetch' \in [ts -> [cs -> FetchRow]],
           \A c \in cs : \/ fetch'[t][c] = fetch[t][c] /\ fetch[t][c].pc # "waiting"
                         \/ fetch'[t][c].pc = "sent" /\ fetch'[t][c].cookie = jar',
           \A u \in ts \ {t} : fetch'[u] = fetch[u],
           refresh' = [refresh EXCEPT ![t] = [pc |-> "idle", cookie |-> NoSession, got |-> NoSession]],
           UNCHANGED <<server, tale>>
    PROVE  BrowserIInv(ts, cs)'
  <1>0. /\ BrowserTypes(ts, cs) /\ RefreshStands(ts, cs) /\ CookiesAreServed(ts, cs)
        /\ AnswersAreNew(ts, cs) /\ Unexcused(ts)
    BY DEF BrowserIInv
  <1> DEFINE new == [pc |-> "idle", cookie |-> NoSession, got |-> NoSession]
  <1>b. new \in RefreshRow /\ new.pc = "idle" /\ new.cookie = NoSession /\ new.got = NoSession
    BY DEF RefreshRow, Cookies
  <1>2. /\ refresh'[t] = new
        /\ \A u \in ts \ {t} : refresh'[u] = refresh[u]
        /\ refresh' \in [ts -> RefreshRow]
    BY <1>0, <1>b DEF BrowserTypes
  <1> HIDE DEF new
  <1>1. BrowserTypes(ts, cs)'
    <2>1. refresh[t] \in RefreshRow
      BY <1>0 DEF BrowserTypes
    <2> QED BY <1>0, <1>2, <2>1 DEF BrowserTypes, RefreshRow
  <1>3. RefreshStands(ts, cs)'
    BY <1>0, <1>2, <1>b DEF RefreshStands
  <1>4. New(ts, jar')
    BY <1>0 DEF AnswersAreNew
  <1>5. CookiesAreServed(ts, cs)'
    BY <1>0, <1>2, <1>b, NoSessionIsNone DEF CookiesAreServed, Served
  <1>6. \A u \in ts, d \in cs : Brings(u, d)' =>
            Brings(u, d) /\ fetch'[u][d] = fetch[u][d] /\ fetch[u][d].cookie # jar'
    BY <1>0 DEF AnswersAreNew, Brings
  <1>7. \A u \in ts : refresh'[u].got # NoSession =>
            u # t /\ refresh'[u] = refresh[u] /\ refresh[u].got # jar'
    BY <1>0, <1>2, <1>b DEF AnswersAreNew
  <1>8. \A h : New(ts, h) /\ h # jar' =>
            (h # NoSession => ~Rotated(h) /\ \A u \in ts : refresh'[u].cookie # h)
    BY <1>2, <1>b DEF New
  <1>9. AnswersAreNew(ts, cs)'
    <2>1. \A u \in ts : New(ts, refresh[u].got)'
      <3> TAKE u \in ts
      <3>1. CASE refresh'[u].got = NoSession
        BY <3>1 DEF New
      <3>2. CASE refresh'[u].got # NoSession
        <4>1. New(ts, refresh[u].got) /\ refresh'[u] = refresh[u] /\ refresh[u].got # jar'
          BY <3>2, <1>0, <1>7 DEF AnswersAreNew
        <4> QED BY <4>1, <1>8 DEF New, Rotated
      <3> QED BY <3>1, <3>2
    <2>2. \A u \in ts, d \in cs : Brings(u, d)' => New(ts, fetch[u][d].cookie)'
      <3> SUFFICES ASSUME NEW u \in ts, NEW d \in cs, Brings(u, d)' PROVE New(ts, fetch[u][d].cookie)'
        OBVIOUS
      <3>1. New(ts, fetch[u][d].cookie) /\ fetch'[u][d] = fetch[u][d] /\ fetch[u][d].cookie # jar'
        BY <1>0, <1>6 DEF AnswersAreNew
      <3> QED BY <3>1, <1>8 DEF New, Rotated
    <2>3. \A u, v \in ts :
          u # v /\ refresh'[u].got # NoSession => refresh'[u].got # refresh'[v].got
      BY <1>0, <1>2, <1>b, <1>7 DEF AnswersAreNew
    <2>4. \A u, v \in ts, d \in cs :
          Brings(u, d)' /\ refresh'[v].got # NoSession => fetch'[u][d].cookie # refresh'[v].got
      BY <1>0, <1>6, <1>7 DEF AnswersAreNew
    <2>5. \A u, v \in ts, d, e \in cs :
          Brings(u, d)' /\ Brings(v, e)' /\ <<u, d>> # <<v, e>>
              => fetch'[u][d].cookie # fetch'[v][e].cookie \/ fetch'[u][d].cookie = NoSession
      BY <1>0, <1>6 DEF AnswersAreNew
    <2> QED BY <2>1, <2>2, <2>3, <2>4, <2>5 DEF AnswersAreNew
  <1>10. Unexcused(ts)'
    <2>1. ~Rotated(jar)'
      BY <1>4 DEF New, Rotated
    <2>2. \A u \in ts : refresh'[u].pc # "idle" => u # t /\ refresh'[u] = refresh[u]
      BY <1>2, <1>b
    <2> QED BY <1>0, <2>1, <2>2 DEF Unexcused, Rotated
  <1> QED BY <1>1, <1>3, <1>5, <1>9, <1>10 DEF BrowserIInv

(* A refresh ends without new cookies, and who waited gives up.             *)
LEMMA RefreshDropped ==
    ASSUME NEW ts, NEW cs, BrowserIInv(ts, cs), NEW t \in ts, jar' \in {jar, NoSession},
           fetch' \in [ts -> [cs -> FetchRow]],
           \A c \in cs : \/ (fetch'[t][c] = fetch[t][c] /\ fetch[t][c].pc # "waiting")
                         \/ (fetch'[t][c].pc = "idle" /\ fetch'[t][c].cookie = NoSession),
           \A u \in ts \ {t} : fetch'[u] = fetch[u],
           refresh' = [refresh EXCEPT ![t] = [pc |-> "idle", cookie |-> NoSession, got |-> NoSession]],
           tale' = [tale EXCEPT !.excuse = @ \/ refresh[t].got # NoSession],
           UNCHANGED server
    PROVE  BrowserIInv(ts, cs)'
  <1>0. /\ BrowserTypes(ts, cs) /\ RefreshStands(ts, cs) /\ CookiesAreServed(ts, cs)
        /\ AnswersAreNew(ts, cs) /\ Unexcused(ts)
    BY DEF BrowserIInv
  <1> DEFINE new == [pc |-> "idle", cookie |-> NoSession, got |-> NoSession]
  <1>b. new \in RefreshRow /\ new.pc = "idle" /\ new.cookie = NoSession /\ new.got = NoSession
    BY DEF RefreshRow, Cookies
  <1>2. /\ refresh'[t] = new
        /\ \A u \in ts \ {t} : refresh'[u] = refresh[u]
        /\ refresh' \in [ts -> RefreshRow]
    BY <1>0, <1>b DEF BrowserTypes
  <1>c. /\ tale'.excuse = (tale.excuse \/ refresh[t].got # NoSession)
        /\ tale'.replayed = tale.replayed /\ tale' \in [replayed : BOOLEAN, excuse : BOOLEAN]
    BY <1>0 DEF BrowserTypes
  <1> HIDE DEF new
  <1>1. BrowserTypes(ts, cs)'
    BY <1>0, <1>2, <1>c DEF BrowserTypes, Cookies
  <1>3. RefreshStands(ts, cs)'
    BY <1>0, <1>2, <1>b DEF RefreshStands
  <1>5. CookiesAreServed(ts, cs)'
    BY <1>0, <1>2, <1>b, NoSessionIsNone DEF CookiesAreServed, Served
  <1>6. \A u \in ts, d \in cs : Brings(u, d)' => Brings(u, d) /\ fetch'[u][d] = fetch[u][d]
    BY DEF Brings
  <1>7. \A u \in ts : refresh'[u].got # NoSession => u # t /\ refresh'[u] = refresh[u]
    BY <1>2, <1>b
  <1>8. \A h : New(ts, h) =>
            (h # NoSession => ~Rotated(h) /\ h # jar' /\ \A u \in ts : refresh'[u].cookie # h)
    BY <1>2, <1>b DEF New
  <1>9. AnswersAreNew(ts, cs)'
    <2>1. \A u \in ts : New(ts, refresh[u].got)'
      <3> TAKE u \in ts
      <3>1. CASE refresh'[u].got = NoSession
        BY <3>1 DEF New
      <3>2. CASE refresh'[u].got # NoSession
        <4>1. New(ts, refresh[u].got) /\ refresh'[u] = refresh[u]
          BY <3>2, <1>0, <1>7 DEF AnswersAreNew
        <4> QED BY <4>1, <1>8 DEF New, Rotated
      <3> QED BY <3>1, <3>2
    <2>2. \A u \in ts, d \in cs : Brings(u, d)' => New(ts, fetch[u][d].cookie)'
      <3> SUFFICES ASSUME NEW u \in ts, NEW d \in cs, Brings(u, d)' PROVE New(ts, fetch[u][d].cookie)'
        OBVIOUS
      <3>1. New(ts, fetch[u][d].cookie) /\ fetch'[u][d] = fetch[u][d]
        BY <1>0, <1>6 DEF AnswersAreNew
      <3> QED BY <3>1, <1>8 DEF New, Rotated
    <2>3. \A u, v \in ts :
          u # v /\ refresh'[u].got # NoSession => refresh'[u].got # refresh'[v].got
      BY <1>0, <1>2, <1>b, <1>7 DEF AnswersAreNew
    <2>4. \A u, v \in ts, d \in cs :
          Brings(u, d)' /\ refresh'[v].got # NoSession => fetch'[u][d].cookie # refresh'[v].got
      BY <1>0, <1>6, <1>7 DEF AnswersAreNew
    <2>5. \A u, v \in ts, d, e \in cs :
          Brings(u, d)' /\ Brings(v, e)' /\ <<u, d>> # <<v, e>>
              => fetch'[u][d].cookie # fetch'[v][e].cookie \/ fetch'[u][d].cookie = NoSession
      BY <1>0, <1>6 DEF AnswersAreNew
    <2> QED BY <2>1, <2>2, <2>3, <2>4, <2>5 DEF AnswersAreNew
  <1>10. Unexcused(ts)'
    <2>1. \A u \in ts : refresh'[u].pc # "idle" => u # t /\ refresh'[u] = refresh[u]
      BY <1>2, <1>b
    <2>2. ~tale'.excuse => ~tale.excuse /\ refresh[t].got = NoSession
      BY <1>c
    <2>3. ~Rotated(NoSession)
      BY NoSessionIsNone DEF Rotated
    <2>4. ~tale'.excuse /\ Rotated(jar)' =>
              \E u \in ts : refresh'[u].cookie = jar' /\ refresh'[u].got # NoSession
      <3> SUFFICES ASSUME ~tale'.excuse, Rotated(jar)'
                   PROVE  \E u \in ts : refresh'[u].cookie = jar' /\ refresh'[u].got # NoSession
        OBVIOUS
      <3>1. jar' = jar /\ Rotated(jar)
        BY <2>3 DEF Rotated
      <3>2. PICK u \in ts : refresh[u].cookie = jar /\ refresh[u].got # NoSession
        BY <1>0, <2>2, <3>1 DEF Unexcused
      <3>3. u # t
        BY <2>2, <3>2
      <3> QED BY <1>2, <3>1, <3>2, <3>3
    <2> QED BY <1>0, <1>c, <2>1, <2>2, <2>4 DEF Unexcused, Rotated
  <1> QED BY <1>1, <1>3, <1>5, <1>9, <1>10 DEF BrowserIInv

LEMMA NoCallIsQuiet ==
    ASSUME NEW ts, NEW cs, NEW ks
    PROVE  /\ Browser(ts, cs, ks)!NoCall \in FetchRow
           /\ Browser(ts, cs, ks)!NoCall.pc = "idle"
           /\ Browser(ts, cs, ks)!NoCall.cookie = NoSession
  BY DEF FetchRow, Cookies, Browser!NoCall

(* A request changes its row alone, and brings no cookies.                  *)
LEMMA RowChanges ==
    ASSUME NEW ts, NEW cs, BrowserIInv(ts, cs), NEW t \in ts, NEW c \in cs,
           NEW row \in FetchRow, row.cookie \in {NoSession, jar, fetch[t][c].cookie},
           ~(row.kind = "login" /\ row.pc = "served"),
           row.pc = "waiting" => refresh[t].pc \in {"sent", "served"},
           fetch' = [fetch EXCEPT ![t] = [@ EXCEPT ![c] = row]], Quiet,
           jar' \in {jar, NoSession}, UNCHANGED <<refresh, tale>>
    PROVE  BrowserIInv(ts, cs)'
  <1>1. BrowserTypes(ts, cs)
    BY DEF BrowserIInv
  <1>2. fetch' \in [ts -> [cs -> FetchRow]]
    BY <1>1 DEF BrowserTypes
  <1>3. \A u \in ts, d \in cs : GoesOn(u, d)
    BY <1>1 DEF BrowserTypes, GoesOn
  <1> QED BY <1>2, <1>3, QuietStep

(* Sessions end and the requests stay as they are.                          *)
LEMMA RowsStay ==
    ASSUME NEW ts, NEW cs, BrowserIInv(ts, cs), Quiet, UNCHANGED <<jar, fetch, refresh, tale>>
    PROVE  BrowserIInv(ts, cs)'
  <1>1. fetch' \in [ts -> [cs -> FetchRow]]
    BY DEF BrowserIInv, BrowserTypes
  <1>2. \A u \in ts, d \in cs : GoesOn(u, d)
    BY DEF GoesOn
  <1> QED BY <1>1, <1>2, QuietStep

LEMMA SameIsQuiet ==
    ASSUME NEW ts, NEW cs, BrowserIInv(ts, cs), UNCHANGED server
    PROVE  Quiet
  BY DEF BrowserIInv, BrowserTypes, Quiet

LEMMA RevokingIsQuiet ==
    ASSUME NEW ts, NEW cs, BrowserIInv(ts, cs),
           server' \in [Generations -> ServerRow],
           \A g \in Generations : \/ server'[g] = server[g]
                                  \/ (server[g].state # "none" /\ server'[g].state \in {"aged", "revoked"})
    PROVE  Quiet
  BY DEF Quiet

LEMMA BrowserStep ==
    ASSUME NEW ts, NEW cs, NEW ks \in SUBSET {"page", "login", "logout", "logout-all"},
           BrowserIInv(ts, cs), Browser(ts, cs, ks)!BrowserNext
    PROVE  BrowserIInv(ts, cs)'
  <1>0. BrowserTypes(ts, cs) /\ RefreshStands(ts, cs) /\ CookiesAreServed(ts, cs)
    BY DEF BrowserIInv
  <1>1. ASSUME NEW t \in ts, NEW c \in cs, NEW kind \in ks, Browser(ts, cs, ks)!Send(t, c, kind)
        PROVE  BrowserIInv(ts, cs)'
    <2>1. Quiet
      BY <1>1, SameIsQuiet DEF Browser!Send
    <2> DEFINE row == [Browser(ts, cs, ks)!NoCall EXCEPT !.kind = kind, !.pc = "sent", !.cookie = jar]
    <2>2. row \in FetchRow /\ row.pc = "sent" /\ row.cookie = jar
      BY <1>0, <1>1 DEF BrowserTypes, FetchRow, Browser!NoCall
    <2>3. /\ fetch' = [fetch EXCEPT ![t] = [@ EXCEPT ![c] = row]]
          /\ UNCHANGED <<jar, refresh, tale>>
      BY <1>1 DEF Browser!Send, Browser!Put
    <2> HIDE DEF row
    <2> QED BY <2>1, <2>2, <2>3, RowChanges
  <1>2. ASSUME NEW t \in ts, NEW c \in cs, Browser(ts, cs, ks)!Serve(t, c)
        PROVE  BrowserIInv(ts, cs)'
    <2> DEFINE old == fetch[t][c]
               good == Browser(ts, cs, ks)!Admitted(old.cookie)
               row == [old EXCEPT !.pc = "served", !.ok = good, !.cookie = NoSession]
    <2>1. old \in FetchRow /\ old.kind # "login"
      BY <1>0, <1>2 DEF BrowserTypes, Browser!Serve
    <2>2. row \in FetchRow /\ row.pc = "served" /\ row.kind = old.kind /\ row.cookie = NoSession
      BY <2>1 DEF FetchRow, Cookies, Browser!Admitted
    <2>3. /\ fetch' = [fetch EXCEPT ![t] = [@ EXCEPT ![c] = row]]
          /\ UNCHANGED <<jar, refresh, tale>>
      BY <1>2 DEF Browser!Serve, Browser!Put
    <2>4. Quiet
      <3>1. CASE UNCHANGED server
        BY <3>1, SameIsQuiet
      <3>2. CASE server' = Browser(ts, cs, ks)!RevokeWhere(LAMBDA g : TRUE)
        <4>1. server' \in [Generations -> ServerRow]
          BY <3>2, <1>0 DEF BrowserTypes, Browser!RevokeWhere, ServerRow
        <4>2. \A g \in Generations : \/ server'[g] = server[g]
                     \/ (server[g].state # "none" /\ server'[g].state \in {"aged", "revoked"})
          BY <3>2, <1>0 DEF BrowserTypes, Browser!RevokeWhere, Browser!Unissued, ServerRow
        <4> QED BY <4>1, <4>2, RevokingIsQuiet
      <3> QED BY <1>2, <3>1, <3>2 DEF Browser!Serve
    <2> HIDE DEF row, old
    <2> QED BY <2>1, <2>2, <2>3, <2>4, RowChanges DEF old
  <1>3. ASSUME NEW t \in ts, NEW c \in cs, Browser(ts, cs, ks)!ServeLogin(t, c)
        PROVE  BrowserIInv(ts, cs)'
    <2>1. CASE Browser(ts, cs, ks)!Unissued = {}
      <3>1. /\ fetch' = [fetch EXCEPT ![t] = [@ EXCEPT ![c] = Browser(ts, cs, ks)!NoCall]]
            /\ UNCHANGED <<server, jar, refresh, tale>>
        BY <1>3, <2>1 DEF Browser!ServeLogin, Browser!Put
      <3>2. Quiet
        BY <3>1, SameIsQuiet
      <3> QED BY <3>1, <3>2, NoCallIsQuiet, RowChanges
    <2>2. CASE Browser(ts, cs, ks)!Unissued # {}
      <3> DEFINE g == CHOOSE g \in Browser(ts, cs, ks)!Unissued : TRUE
                 old == fetch[t][c]
                 row == [old EXCEPT !.pc = "served", !.ok = TRUE, !.cookie = g]
      <3>1. g \in Browser(ts, cs, ks)!Unissued
        BY <2>2
      <3>2. g \in Generations /\ server[g].state = "none"
        BY <3>1 DEF Browser!Unissued
      <3>3. old \in FetchRow
        BY <1>0 DEF BrowserTypes
      <3>4. row \in FetchRow /\ row.cookie = g /\ row.pc = "served"
        BY <3>2, <3>3 DEF FetchRow, Cookies
      <3>5. /\ fetch' = [fetch EXCEPT ![t] = [@ EXCEPT ![c] = row]]
            /\ server' = [server EXCEPT ![g] = [state |-> "live", family |-> g]]
            /\ UNCHANGED <<jar, refresh, tale>>
        BY <1>3, <2>2 DEF Browser!ServeLogin, Browser!Put
      <3> HIDE DEF row, old, g
      <3> QED BY <3>2, <3>4, <3>5, LoginServed
    <2> QED BY <2>1, <2>2
  <1>4. ASSUME NEW t \in ts, NEW c \in cs, Browser(ts, cs, ks)!ServeLogout(t, c)
        PROVE  BrowserIInv(ts, cs)'
    <2> DEFINE old == fetch[t][c]
               row == [old EXCEPT !.pc = "served", !.ok = TRUE, !.cookie = NoSession]
    <2>1. old \in FetchRow /\ old.kind = "logout"
      BY <1>0, <1>4 DEF BrowserTypes, Browser!ServeLogout
    <2>2. row \in FetchRow /\ row.pc = "served" /\ row.kind = "logout" /\ row.cookie = NoSession
      BY <2>1 DEF FetchRow, Cookies
    <2>3. /\ fetch' = [fetch EXCEPT ![t] = [@ EXCEPT ![c] = row]]
          /\ UNCHANGED <<jar, refresh, tale>>
      BY <1>4 DEF Browser!ServeLogout, Browser!Put
    <2>4. Quiet
      <3>1. server' \in [Generations -> ServerRow]
        BY <1>4, <1>0 DEF BrowserTypes, Browser!ServeLogout, Browser!RevokeWhere, ServerRow
      <3>2. \A g \in Generations : \/ server'[g] = server[g]
                   \/ (server[g].state # "none" /\ server'[g].state \in {"aged", "revoked"})
        BY <1>4, <1>0 DEF BrowserTypes, Browser!ServeLogout, Browser!RevokeWhere, Browser!Unissued,
                          ServerRow
      <3> QED BY <3>1, <3>2, RevokingIsQuiet
    <2> HIDE DEF row, old
    <2> QED BY <2>1, <2>2, <2>3, <2>4, RowChanges DEF old
  <1>5. ASSUME NEW t \in ts, NEW c \in cs, Browser(ts, cs, ks)!Arrive(t, c)
        PROVE  BrowserIInv(ts, cs)'
    <2>0. Quiet /\ UNCHANGED <<server, refresh, tale>>
      BY <1>5, SameIsQuiet DEF Browser!Arrive
    <2>1. CASE fetch[t][c].kind # "login"
      <3>1. /\ fetch' = [fetch EXCEPT ![t] = [@ EXCEPT ![c] = Browser(ts, cs, ks)!NoCall]]
            /\ jar' \in {jar, NoSession}
        <4>1. CASE fetch[t][c].kind = "page"
          BY <4>1, <1>5 DEF Browser!Arrive, Browser!Put
        <4>2. CASE fetch[t][c].kind # "page"
          BY <4>2, <2>1, <1>5 DEF Browser!Arrive, Browser!Put
        <4> QED BY <4>1, <4>2
      <3> QED BY <2>0, <3>1, NoCallIsQuiet, RowChanges
    <2>2. CASE fetch[t][c].kind = "login"
      <3> DEFINE row == [Browser(ts, cs, ks)!NoCall EXCEPT !.kind = "page", !.pc = "sent",
                                                           !.cookie = fetch[t][c].cookie]
      <3>1. fetch[t][c] \in FetchRow /\ Brings(t, c)
        BY <1>0, <2>2, <1>5 DEF BrowserTypes, Brings, Browser!Arrive
      <3>2. row \in FetchRow /\ row.pc = "sent" /\ row.cookie = fetch[t][c].cookie
        BY <3>1 DEF FetchRow, Browser!NoCall
      <3>3. fetch' = [fetch EXCEPT ![t] = [@ EXCEPT ![c] = row]] /\ jar' = fetch[t][c].cookie
        BY <1>5, <2>2 DEF Browser!Arrive, Browser!Put
      <3> HIDE DEF row
      <3> QED BY <2>0, <3>1, <3>2, <3>3, LoginArrives
    <2> QED BY <2>1, <2>2
  <1>6. ASSUME NEW t \in ts, NEW c \in cs, Browser(ts, cs, ks)!Ask(t, c)
        PROVE  BrowserIInv(ts, cs)'
    <2>1. CASE refresh[t].pc = "idle"
      <3>1. /\ fetch' = [fetch EXCEPT ![t] = [@ EXCEPT ![c] = [fetch[t][c] EXCEPT !.pc = "waiting"]]]
            /\ refresh' = [refresh EXCEPT ![t] = [pc |-> "sent", cookie |-> jar, got |-> NoSession]]
            /\ tale' = [tale EXCEPT !.excuse = @ \/
                   \E u \in ts \ {t} : refresh[u].pc # "idle" /\ refresh[u].cookie = jar]
            /\ UNCHANGED <<server, jar>>
        BY <1>6, <2>1 DEF Browser!Ask, Browser!Put, Browser!MayStart, Browser!NoRefresh
      <3>2. fetch[t][c].ok = FALSE
        <4>1. fetch[t][c].ok \in BOOLEAN
          BY <1>0 DEF BrowserTypes, FetchRow
        <4> QED BY <4>1, <1>6 DEF Browser!Ask
      <3> QED BY <2>1, <3>1, <3>2, RefreshStarts
    <2>2. CASE refresh[t].pc # "idle"
      <3> DEFINE old == fetch[t][c]
                 row == [old EXCEPT !.pc = "waiting"]
      <3>1. old \in FetchRow
        BY <1>0 DEF BrowserTypes
      <3>2. row \in FetchRow /\ row.pc = "waiting" /\ row.cookie = old.cookie
        BY <3>1 DEF FetchRow
      <3>3. /\ fetch' = [fetch EXCEPT ![t] = [@ EXCEPT ![c] = row]]
            /\ UNCHANGED <<server, jar, refresh, tale>>
        BY <1>6, <2>2 DEF Browser!Ask, Browser!Put, Browser!MayStart
      <3>4. refresh[t].pc \in {"sent", "served"}
        BY <1>0, <2>2 DEF BrowserTypes, RefreshRow, RefreshStands
      <3>5. Quiet
        BY <3>3, SameIsQuiet
      <3> HIDE DEF row, old
      <3> QED BY <3>2, <3>3, <3>4, <3>5, RowChanges DEF old
    <2> QED BY <2>1, <2>2
  <1>7. ASSUME NEW t \in ts, NEW c \in cs,
               Browser(ts, cs, ks)!Fail(t, c) \/ Browser(ts, cs, ks)!Lose(t, c)
        PROVE  BrowserIInv(ts, cs)'
    <2>1. /\ fetch' = [fetch EXCEPT ![t] = [@ EXCEPT ![c] = Browser(ts, cs, ks)!NoCall]]
          /\ UNCHANGED <<server, jar, refresh, tale>>
      BY <1>7 DEF Browser!Fail, Browser!Lose, Browser!Put
    <2>2. Quiet
      BY <2>1, SameIsQuiet
    <2> QED BY <2>1, <2>2, NoCallIsQuiet, RowChanges
  <1>8. ASSUME NEW t \in ts, Browser(ts, cs, ks)!ServeRefresh(t)
        PROVE  BrowserIInv(ts, cs)'
    <2> DEFINE g == refresh[t].cookie
               state == IF g \in Generations THEN server[g].state ELSE "none"
               next == CHOOSE n \in Browser(ts, cs, ks)!Unissued : TRUE
    <2>0. refresh[t].pc = "sent" /\ UNCHANGED <<jar, fetch>>
      BY <1>8 DEF Browser!ServeRefresh
    <2>1. CASE state \in {"live", "aged"} /\ Browser(ts, cs, ks)!Unissued # {}
      <3>1. next \in Browser(ts, cs, ks)!Unissued
        BY <2>1
      <3>2. next \in Generations /\ server[next].state = "none"
        BY <3>1 DEF Browser!Unissued
      <3>3. g \in Generations /\ server[g].state # "none"
        BY <2>1
      <3>4. /\ server' = [h \in Generations |->
                  IF h = g THEN [server[h] EXCEPT !.state = "rotated"]
                  ELSE IF h = next
                       THEN [state |-> "live", family |-> server[g].family]
                       ELSE server[h]]
            /\ refresh' = [refresh EXCEPT ![t] = [pc |-> "served", cookie |-> g, got |-> next]]
            /\ tale' = tale
        BY <1>8, <2>1 DEF Browser!ServeRefresh
      <3> HIDE DEF next, state
      <3> QED BY <2>0, <3>2, <3>3, <3>4, RefreshServed DEF g
    <2>2. CASE ~(state \in {"live", "aged"} /\ Browser(ts, cs, ks)!Unissued # {})
      <3>1. /\ server' = IF state = "rotated"
                         THEN Browser(ts, cs, ks)!RevokeWhere(LAMBDA h : server[h].family = server[g].family)
                         ELSE server
            /\ refresh' = [refresh EXCEPT ![t] = [pc |-> "served", cookie |-> g, got |-> NoSession]]
            /\ tale' = [tale EXCEPT !.replayed = @ \/ state = "rotated"]
        BY <1>8, <2>2 DEF Browser!ServeRefresh
      <3>2. Quiet
        <4>1. CASE UNCHANGED server
          BY <4>1, SameIsQuiet
        <4>2. CASE server' = Browser(ts, cs, ks)!RevokeWhere(LAMBDA h : server[h].family = server[g].family)
          <5>1. server' \in [Generations -> ServerRow]
            BY <4>2, <1>0 DEF BrowserTypes, Browser!RevokeWhere, ServerRow
          <5>2. \A h \in Generations : \/ server'[h] = server[h]
                       \/ (server[h].state # "none" /\ server'[h].state \in {"aged", "revoked"})
            BY <4>2, <1>0 DEF BrowserTypes, Browser!RevokeWhere, Browser!Unissued, ServerRow
          <5> QED BY <5>1, <5>2, RevokingIsQuiet
        <4> QED BY <3>1, <4>1, <4>2
      <3>3. state = "rotated" <=> Rotated(g)
        BY DEF Rotated
      <3> HIDE DEF g, state, next
      <3> QED BY <2>0, <3>1, <3>2, <3>3, RefreshRefused DEF g
    <2> QED BY <2>1, <2>2
  <1>9. ASSUME NEW t \in ts, Browser(ts, cs, ks)!RefreshSucceeds(t)
        PROVE  BrowserIInv(ts, cs)'
    <2> DEFINE got == refresh[t].got
               row(c) == IF fetch[t][c].pc = "waiting"
                         THEN [fetch[t][c] EXCEPT !.pc = "sent", !.cookie = got, !.again = TRUE]
                         ELSE fetch[t][c]
    <2>1. /\ fetch' = [fetch EXCEPT ![t] = [c \in cs |-> row(c)]]
          /\ refresh' = [refresh EXCEPT ![t] = [pc |-> "idle", cookie |-> NoSession, got |-> NoSession]]
          /\ got # NoSession /\ jar' = got /\ UNCHANGED <<server, tale>>
      BY <1>9, <1>0 DEF Browser!RefreshSucceeds, Browser!NoRefresh, BrowserTypes
    <2>2. got \in Cookies /\ \A c \in cs : fetch[t][c] \in FetchRow
      BY <1>0 DEF BrowserTypes, RefreshRow
    <2>3. \A c \in cs : /\ row(c) \in FetchRow
                        /\ \/ row(c) = fetch[t][c] /\ fetch[t][c].pc # "waiting"
                           \/ row(c).pc = "sent" /\ row(c).cookie = got
      BY <2>2 DEF FetchRow
    <2> HIDE DEF row
    <2>4. fetch'[t] = [c \in cs |-> row(c)] /\ \A u \in ts \ {t} : fetch'[u] = fetch[u]
      BY <1>0, <2>1 DEF BrowserTypes
    <2>5. fetch' \in [ts -> [cs -> FetchRow]]
      BY <1>0, <2>1, <2>3 DEF BrowserTypes
    <2>6. \A c \in cs : \/ fetch'[t][c] = fetch[t][c] /\ fetch[t][c].pc # "waiting"
                        \/ fetch'[t][c].pc = "sent" /\ fetch'[t][c].cookie = jar'
      <3> TAKE c \in cs
      <3>1. fetch'[t][c] = row(c)
        BY <2>4
      <3> QED BY <2>1, <2>3, <3>1
    <2> HIDE DEF got
    <2> QED BY <2>1, <2>4, <2>5, <2>6, RefreshArrives DEF got
  <1>10. ASSUME NEW t \in ts, Browser(ts, cs, ks)!GiveUp(t), jar' \in {jar, NoSession},
                tale' = [tale EXCEPT !.excuse = @ \/ refresh[t].got # NoSession], UNCHANGED server
         PROVE  BrowserIInv(ts, cs)'
    <2> DEFINE none == Browser(ts, cs, ks)!NoCall
               row(c) == IF fetch[t][c].pc = "waiting" THEN none ELSE fetch[t][c]
    <2>1. /\ fetch' = [fetch EXCEPT ![t] = [c \in cs |-> row(c)]]
          /\ refresh' = [refresh EXCEPT ![t] = [pc |-> "idle", cookie |-> NoSession, got |-> NoSession]]
      BY <1>10, <1>0 DEF Browser!GiveUp, Browser!NoRefresh, BrowserTypes
    <2>2. \A c \in cs : /\ row(c) \in FetchRow
                        /\ \/ row(c) = fetch[t][c] /\ fetch[t][c].pc # "waiting"
                           \/ row(c).pc = "idle" /\ row(c).cookie = NoSession
      BY <1>0, NoCallIsQuiet DEF BrowserTypes
    <2> HIDE DEF row, none
    <2>3. fetch'[t] = [c \in cs |-> row(c)] /\ \A u \in ts \ {t} : fetch'[u] = fetch[u]
      BY <1>0, <2>1 DEF BrowserTypes
    <2>4. fetch' \in [ts -> [cs -> FetchRow]]
      BY <1>0, <2>1, <2>2 DEF BrowserTypes
    <2>5. \A c \in cs : \/ (fetch'[t][c] = fetch[t][c] /\ fetch[t][c].pc # "waiting")
                        \/ (fetch'[t][c].pc = "idle" /\ fetch'[t][c].cookie = NoSession)
      <3> TAKE c \in cs
      <3>1. fetch'[t][c] = row(c)
        BY <2>3
      <3> QED BY <2>2, <3>1
    <2> QED BY <1>10, <2>1, <2>3, <2>4, <2>5, RefreshDropped
  <1>11. ASSUME NEW t \in ts, Browser(ts, cs, ks)!RefreshRefused(t)
         PROVE  BrowserIInv(ts, cs)'
    <2>1. /\ Browser(ts, cs, ks)!GiveUp(t) /\ jar' = NoSession /\ refresh[t].got = NoSession
          /\ UNCHANGED <<server, tale>>
      BY <1>11 DEF Browser!RefreshRefused, Browser!Skipping
    <2>2. tale' = [tale EXCEPT !.excuse = @ \/ refresh[t].got # NoSession]
      BY <1>0, <2>1 DEF BrowserTypes
    <2> QED BY <2>1, <2>2, <1>10
  <1>12. ASSUME NEW t \in ts, Browser(ts, cs, ks)!RefreshLost(t)
         PROVE  BrowserIInv(ts, cs)'
    BY <1>10, <1>12 DEF Browser!RefreshLost
  <1>13. ASSUME NEW t \in ts, Browser(ts, cs, ks)!HearLogout(t)
         PROVE  BrowserIInv(ts, cs)'
    <2>1. UNCHANGED <<server, jar, fetch, refresh, tale>>
      BY <1>13 DEF Browser!HearLogout
    <2> QED BY <2>1, SameIsQuiet, RowsStay
  <1>14. ASSUME NEW t \in ts, Browser(ts, cs, ks)!Reload(t)
         PROVE  BrowserIInv(ts, cs)'
    <2> DEFINE none == Browser(ts, cs, ks)!NoCall
    <2>1. /\ fetch' = [fetch EXCEPT ![t] = [c \in cs |-> none]]
          /\ refresh' = [refresh EXCEPT ![t] = [pc |-> "idle", cookie |-> NoSession, got |-> NoSession]]
          /\ tale' = [tale EXCEPT !.excuse = @ \/ refresh[t].got # NoSession]
          /\ UNCHANGED <<server, jar>>
      BY <1>14 DEF Browser!Reload, Browser!NoRefresh
    <2>2. none \in FetchRow /\ none.pc = "idle" /\ none.cookie = NoSession
      BY NoCallIsQuiet
    <2> HIDE DEF none
    <2>3. fetch'[t] = [c \in cs |-> none] /\ \A u \in ts \ {t} : fetch'[u] = fetch[u]
      BY <1>0, <2>1 DEF BrowserTypes
    <2>4. fetch' \in [ts -> [cs -> FetchRow]]
      BY <1>0, <2>1, <2>2 DEF BrowserTypes
    <2> QED BY <2>1, <2>2, <2>3, <2>4, RefreshDropped
  <1>15. ASSUME NEW g \in Generations,
                Browser(ts, cs, ks)!ExpireAccess(g) \/ Browser(ts, cs, ks)!EndSession(g)
         PROVE  BrowserIInv(ts, cs)'
    <2>1. /\ server[g].state \in {"live", "aged"} /\ UNCHANGED <<jar, fetch, refresh, tale>>
          /\ \/ server' = [server EXCEPT ![g] = [@ EXCEPT !.state = "aged"]]
             \/ server' = [server EXCEPT ![g] = [@ EXCEPT !.state = "revoked"]]
      BY <1>15 DEF Browser!ExpireAccess, Browser!EndSession
    <2>2. /\ server' \in [Generations -> ServerRow]
          /\ \A h \in Generations : \/ server'[h] = server[h]
                \/ (server[h].state # "none" /\ server'[h].state \in {"aged", "revoked"})
      BY <1>0, <2>1 DEF BrowserTypes, ServerRow
    <2>3. Quiet
      BY <2>2, RevokingIsQuiet
    <2> QED BY <2>1, <2>3, RowsStay
  <1> QED
    BY <1>1, <1>2, <1>3, <1>4, <1>5, <1>6, <1>7, <1>8, <1>9, <1>11, <1>12, <1>13, <1>14, <1>15
    DEF Browser!BrowserNext, Browser!CallStep, Browser!RefreshStep

-----------------------------------------------------------------------------
(* The pages: what their operations change is what they renew.              *)

Words ==
    {"admin", "users", "list", "detail", "id", "auth", "me", "mfa", "status", "consent-records",
     "crm", "prospects", "leads", "opportunities", "filters", "companies", "partners", "legal",
     "documents", "dsr", "pqr", "knowledge", "item", "koral", "inbox", "sessions", "roles",
     "status-history", "timeline", "activities", "proposals", "agreements", "terms", "privacy",
     "security-events"}

Key == Seq(Words)

(* invalidateQueries takes every key that extends a prefix.                 *)
LEMMA PrefixesExtend ==
    ASSUME NEW s \in Key, NEW t \in Key
    PROVE  Pages!IsPrefix(s, s \o t) /\ s \o t \in Key
  <1>1. SubSeq(s, 1, Len(s)) = SubSeq(s \o t, 1, Len(s))
    BY DEF Key
  <1>2. Len(s) <= Len(s \o t) /\ s \o t \in Key
    BY DEF Key
  <1> QED BY <1>1, <1>2 DEF Pages!IsPrefix

LEMMA PrefixesHold == ASSUME NEW s \in Key PROVE Pages!IsPrefix(s, s)
  BY DEF Key, Words, Pages!IsPrefix

LEMMA KeysAreKeys ==
    /\ \A p \in Words : <<p>> \in Key
    /\ \A p, q \in Words : <<p, q>> \in Key
    /\ Pages!UserLists \in Key
    /\ Pages!UserDetail \in Key
    /\ Pages!Me \in Key
    /\ Pages!MfaStatus \in Key
    /\ Pages!MyConsents \in Key
    /\ Pages!Prospects \in Key
    /\ Pages!Leads \in Key
    /\ Pages!Opportunities \in Key
    /\ Pages!Companies \in Key
    /\ Pages!Partners \in Key
    /\ Pages!Documents \in Key
    /\ Pages!DataRequests \in Key
    /\ Pages!Cases \in Key
    /\ Pages!KnowledgeKeys \in Key
    /\ Pages!InboxKeys \in Key
  <1>1. \A p \in Words : <<p>> \in Key
    BY DEF Key
  <1>2. \A p, q \in Words : <<p, q>> \in Key
    BY DEF Key
  <1>3. Pages!UserLists \in Key
    BY DEF Key, Words, Pages!UserLists
  <1>4. Pages!UserDetail \in Key
    BY DEF Key, Words, Pages!UserDetail
  <1>5. Pages!Me \in Key
    BY DEF Key, Words, Pages!Me
  <1>6. Pages!MfaStatus \in Key
    BY DEF Key, Words, Pages!MfaStatus
  <1>7. Pages!MyConsents \in Key
    BY DEF Key, Words, Pages!MyConsents
  <1>8. Pages!Prospects \in Key
    BY DEF Key, Words, Pages!Prospects
  <1>9. Pages!Leads \in Key
    BY DEF Key, Words, Pages!Leads
  <1>10. Pages!Opportunities \in Key
    BY DEF Key, Words, Pages!Opportunities
  <1>11. Pages!Companies \in Key
    BY DEF Key, Words, Pages!Companies
  <1>12. Pages!Partners \in Key
    BY DEF Key, Words, Pages!Partners
  <1>13. Pages!Documents \in Key
    BY DEF Key, Words, Pages!Documents
  <1>14. Pages!DataRequests \in Key
    BY DEF Key, Words, Pages!DataRequests
  <1>15. Pages!Cases \in Key
    BY DEF Key, Words, Pages!Cases
  <1>16. Pages!KnowledgeKeys \in Key
    BY DEF Key, Words, Pages!KnowledgeKeys
  <1>17. Pages!InboxKeys \in Key
    BY DEF Key, Words, Pages!InboxKeys
  <1> QED BY <1>1, <1>2, <1>3, <1>4, <1>5, <1>6, <1>7, <1>8, <1>9, <1>10, <1>11, <1>12, <1>13, <1>14, <1>15, <1>16, <1>17

(* The last of some writes, or none.                                        *)
LEMMA LatestExists ==
    ASSUME NEW n \in Nat, NEW S \in SUBSET (1..n)
    PROVE  /\ Pages!Max({0} \union S) \in {0} \union S
           /\ \A i \in S : Pages!Max({0} \union S) >= i
  <1> DEFINE T == {0} \union S
             Gap == {n - i : i \in T}
  <1>1. Gap \in SUBSET Nat /\ Gap # {}
    OBVIOUS
  <1>2. PICK m \in Gap : \A x \in Gap : ~(<<x, m>> \in OpToRel(<, Nat))
    BY <1>1, WFMin, NatLessThanWellFounded
  <1>3. PICK j \in T : m = n - j
    OBVIOUS
  <1>4. \A i \in T : j >= i
    <2> TAKE i \in T
    <2>1. n - i \in Gap /\ n - i \in Nat /\ m \in Nat
      BY <1>1
    <2>2. ~(n - i < m)
      BY <1>2, <2>1 DEF OpToRel
    <2> QED BY <1>3, <2>2
  <1>5. \E x \in T : \A y \in T : x >= y
    BY <1>4
  <1> QED BY <1>5 DEF Pages!Max

(* What an operation changes is renewed, but for what its page overlooks;    *)
(* what it sees is read by its page.                                        *)
Covered(a, op) ==
    \A k \in op.changes \ Pages!Overlooked(a, op.changes) :
        \E prefix \in op.renews : Pages!IsPrefix(prefix, k)

Fits(a, op, reads, names) ==
    /\ Covered(a, op)
    /\ op.sees = Pages!NoKey \/ op.sees \in reads
    /\ op.next = "stay" \/ op.next \in names

FitsScreen(a, screen, names) == \A op \in screen.ops : Fits(a, op, screen.reads, names)


LEMMA PartsExtend ==
    ASSUME NEW s \in Key, NEW p \in Words, NEW q \in Words
    PROVE  /\ Pages!IsPrefix(s, s \o <<p>>) /\ s \o <<p>> \in Key
           /\ Pages!IsPrefix(s, (s \o <<p>>) \o <<q>>) /\ (s \o <<p>>) \o <<q>> \in Key
  <1>1. <<p>> \in Key /\ <<q>> \in Key
    BY KeysAreKeys
  <1>2. Pages!IsPrefix(s, s \o <<p>>) /\ s \o <<p>> \in Key
    BY <1>1, PrefixesExtend
  <1>3. <<p>> \o <<q>> \in Key
    BY <1>1 DEF Key
  <1>4. (s \o <<p>>) \o <<q>> = s \o (<<p>> \o <<q>>)
    BY <1>1 DEF Key
  <1> QED BY <1>2, <1>3, <1>4, PrefixesExtend

(* An operation that alters ch and renews rn, whatever else it is.          *)
Shapes(ch, rn, sees, next) ==
    [stepUp : BOOLEAN, sees : {sees}, changes : {ch}, bumps : BOOLEAN, renews : {rn}, next : {next}]

LEMMA OpsHaveShapes ==
    ASSUME NEW stepUp \in BOOLEAN, NEW ch, NEW rn
    PROVE  Pages!Op(stepUp, ch, rn) \in Shapes(ch, rn, Pages!NoKey, "stay")
  BY DEF Shapes, Pages!Op

LEMMA ShapesChange ==
    ASSUME NEW ch, NEW rn, NEW s, NEW n, NEW op \in Shapes(ch, rn, s, n)
    PROVE  /\ Pages!Bumping(op) \in Shapes(ch, rn, s, n)
           /\ \A key : Pages!Versioned(op, key) \in Shapes(ch, rn, key, n)
           /\ \A name : Pages!Then(op, name) \in Shapes(ch, rn, s, name)
  <1>1. Pages!Bumping(op) \in Shapes(ch, rn, s, n)
    BY DEF Shapes, Pages!Bumping
  <1>2. ASSUME NEW key PROVE Pages!Versioned(op, key) \in Shapes(ch, rn, key, n)
    BY DEF Shapes, Pages!Versioned
  <1>3. ASSUME NEW name PROVE Pages!Then(op, name) \in Shapes(ch, rn, s, name)
    BY DEF Shapes, Pages!Then
  <1> QED BY <1>1, <1>2, <1>3

LEMMA ShapesFit ==
    ASSUME NEW a, NEW ch, NEW rn, NEW reads, NEW names,
           \A k \in ch \ Pages!Overlooked(a, ch) : \E prefix \in rn : Pages!IsPrefix(prefix, k),
           NEW s, NEW n, s = Pages!NoKey \/ s \in reads, n = "stay" \/ n \in names,
           NEW op \in Shapes(ch, rn, s, n)
    PROVE  Fits(a, op, reads, names)
  BY DEF Fits, Covered, Shapes

LEMMA NestedKeys ==
    /\ \A p \in Words : /\ Pages!UserPart(p) \in Key
                        /\ Pages!IsPrefix(Pages!UserDetail, Pages!UserPart(p))
                        /\ Pages!OpportunityPart(p) \in Key
                        /\ Pages!IsPrefix(Pages!Opportunities, Pages!OpportunityPart(p))
                        /\ Pages!Document(p) \in Key
    /\ Pages!Board \in Key /\ Pages!IsPrefix(Pages!Opportunities, Pages!Board)
    /\ Pages!Opportunity \in Key /\ Pages!IsPrefix(Pages!Opportunities, Pages!Opportunity)
    /\ Pages!CompanyList \in Key /\ Pages!IsPrefix(Pages!Companies, Pages!CompanyList)
    /\ Pages!PartnerList \in Key /\ Pages!IsPrefix(Pages!Partners, Pages!PartnerList)
    /\ Pages!Partner \in Key
    /\ Pages!KnowledgeList \in Key /\ Pages!IsPrefix(Pages!KnowledgeKeys, Pages!KnowledgeList)
    /\ Pages!KnowledgeItem \in Key /\ Pages!IsPrefix(Pages!KnowledgeKeys, Pages!KnowledgeItem)
    /\ Pages!InboxList \in Key /\ Pages!IsPrefix(Pages!InboxKeys, Pages!InboxList)
    /\ Pages!InboxDetail \in Key /\ Pages!IsPrefix(Pages!InboxKeys, Pages!InboxDetail)
  <1>1. ASSUME NEW p \in Words
        PROVE  /\ Pages!UserPart(p) \in Key
               /\ Pages!IsPrefix(Pages!UserDetail, Pages!UserPart(p))
               /\ Pages!OpportunityPart(p) \in Key
               /\ Pages!IsPrefix(Pages!Opportunities, Pages!OpportunityPart(p))
               /\ Pages!Document(p) \in Key
    <2>1. "id" \in Words
      BY DEF Words
    <2> QED BY <2>1, KeysAreKeys, PartsExtend
            DEF Pages!UserPart, Pages!OpportunityPart, Pages!Opportunity, Pages!Document
  <1>2. \A s \in Key : /\ Pages!IsPrefix(s, s \o <<"filters">>) /\ s \o <<"filters">> \in Key
                       /\ Pages!IsPrefix(s, s \o <<"id">>) /\ s \o <<"id">> \in Key
                       /\ Pages!IsPrefix(s, s \o <<"list">>) /\ s \o <<"list">> \in Key
    <2>1. "filters" \in Words /\ "id" \in Words /\ "list" \in Words
      BY DEF Words
    <2> QED BY <2>1, PartsExtend
  <1>3. \A s \in Key :
           /\ Pages!IsPrefix(s, s \o <<"item", "id">>) /\ s \o <<"item", "id">> \in Key
           /\ Pages!IsPrefix(s, s \o <<"detail", "id">>) /\ s \o <<"detail", "id">> \in Key
    <2>1. "item" \in Words /\ "detail" \in Words /\ "id" \in Words
      BY DEF Words
    <2> QED BY <2>1, KeysAreKeys, PrefixesExtend
  <1>4. Pages!Board \in Key /\ Pages!IsPrefix(Pages!Opportunities, Pages!Board)
    BY <1>2, KeysAreKeys DEF Pages!Board
  <1>5. Pages!Opportunity \in Key /\ Pages!IsPrefix(Pages!Opportunities, Pages!Opportunity)
    BY <1>2, KeysAreKeys DEF Pages!Opportunity
  <1>6. Pages!CompanyList \in Key /\ Pages!IsPrefix(Pages!Companies, Pages!CompanyList)
    BY <1>2, KeysAreKeys DEF Pages!CompanyList
  <1>7. Pages!PartnerList \in Key /\ Pages!IsPrefix(Pages!Partners, Pages!PartnerList)
    BY <1>2, KeysAreKeys DEF Pages!PartnerList
  <1>8. Pages!Partner \in Key /\ Pages!IsPrefix(Pages!Partners, Pages!Partner)
    BY <1>2, KeysAreKeys DEF Pages!Partner
  <1>9. Pages!KnowledgeList \in Key /\ Pages!IsPrefix(Pages!KnowledgeKeys, Pages!KnowledgeList)
    BY <1>2, KeysAreKeys DEF Pages!KnowledgeList
  <1>10. Pages!KnowledgeItem \in Key /\ Pages!IsPrefix(Pages!KnowledgeKeys, Pages!KnowledgeItem)
    BY <1>3, KeysAreKeys DEF Pages!KnowledgeItem
  <1>11. Pages!InboxList \in Key /\ Pages!IsPrefix(Pages!InboxKeys, Pages!InboxList)
    BY <1>2, KeysAreKeys DEF Pages!InboxList
  <1>12. Pages!InboxDetail \in Key /\ Pages!IsPrefix(Pages!InboxKeys, Pages!InboxDetail)
    BY <1>3, KeysAreKeys DEF Pages!InboxDetail
  <1> QED BY <1>1, <1>4, <1>5, <1>6, <1>7, <1>8, <1>9, <1>10, <1>11, <1>12

LEMMA PlainOpsFit ==
    ASSUME NEW a, NEW stepUp \in BOOLEAN, NEW ch, NEW rn, NEW reads, NEW names,
           \A k \in ch : \E prefix \in rn : Pages!IsPrefix(prefix, k)
    PROVE  /\ Fits(a, Pages!Op(stepUp, ch, rn), reads, names)
           /\ Fits(a, Pages!Bumping(Pages!Op(stepUp, ch, rn)), reads, names)
           /\ \A key \in reads : Fits(a, Pages!Versioned(Pages!Op(stepUp, ch, rn), key), reads, names)
  <1>0. \A k \in ch \ Pages!Overlooked(a, ch) : \E prefix \in rn : Pages!IsPrefix(prefix, k)
    OBVIOUS
  <1>1. Fits(a, Pages!Op(stepUp, ch, rn), reads, names)
    BY <1>0, OpsHaveShapes, ShapesFit
  <1>2. Fits(a, Pages!Bumping(Pages!Op(stepUp, ch, rn)), reads, names)
    BY <1>0, OpsHaveShapes, ShapesChange, ShapesFit
  <1>3. ASSUME NEW key \in reads
        PROVE  Fits(a, Pages!Versioned(Pages!Op(stepUp, ch, rn), key), reads, names)
    <2> DEFINE op == Pages!Versioned(Pages!Op(stepUp, ch, rn), key)
    <2>1. op \in Shapes(ch, rn, key, "stay")
      BY OpsHaveShapes, ShapesChange
    <2> HIDE DEF op
    <2>2. Fits(a, op, reads, names)
      BY <1>0, <1>3, <2>1 DEF Fits, Covered, Shapes
    <2> QED BY <2>2 DEF op
  <1> QED BY <1>1, <1>2, <1>3

(* Every page of the routes renews what its operations change.              *)
LEMMA UserScreens ==
    ASSUME NEW a, NEW names, "user detail" \in names
    PROVE  /\ FitsScreen(a, Pages!UserDetailPage, names)
           /\ FitsScreen(a, Pages!CreateUserPage, names)
           /\ FitsScreen(a, Pages!EditUserPage, names)
  <1>1. FitsScreen(a, Pages!UserDetailPage, names)
    <2> DEFINE ch == Pages!UserAll \union {Pages!UserPart("sessions"), Pages!UserHistory}
               rn == Pages!UserAll
    <2>1. \A k \in ch : \E prefix \in rn : Pages!IsPrefix(prefix, k)
      BY NestedKeys, KeysAreKeys, PrefixesHold DEF Pages!UserAll, Words, Pages!UserHistory
    <2>2. Fits(a, Pages!Bumping(Pages!Op(TRUE, ch, rn)), {Pages!UserDetail}, names)
      BY <2>1, PlainOpsFit
    <2> QED BY <2>2 DEF FitsScreen, Pages!UserDetailPage, Pages!Screen
  <1>2. FitsScreen(a, Pages!CreateUserPage, names)
    <2> DEFINE ch == {Pages!UserLists}
               op == Pages!Then(Pages!Op(TRUE, ch, ch), "user detail")
    <2>1. \A k \in ch : \E prefix \in ch : Pages!IsPrefix(prefix, k)
      BY KeysAreKeys, PrefixesHold
    <2>2. op \in Shapes(ch, ch, Pages!NoKey, "user detail")
      BY OpsHaveShapes, ShapesChange
    <2>3. Fits(a, op, {}, names)
      BY <2>1, <2>2, ShapesFit
    <2> QED BY <2>3 DEF FitsScreen, Pages!CreateUserPage, Pages!Screen
  <1>3. FitsScreen(a, Pages!EditUserPage, names)
    <2> DEFINE ch == {Pages!UserLists, Pages!UserDetail, Pages!UserHistory}
               rn == {Pages!UserDetail, Pages!UserLists}
               op == Pages!Then(Pages!Versioned(Pages!Op(TRUE, ch, rn), Pages!UserDetail), "user detail")
    <2>1. \A k \in ch : \E prefix \in rn : Pages!IsPrefix(prefix, k)
      BY NestedKeys, KeysAreKeys, PrefixesHold DEF Words, Pages!UserHistory
    <2>2. op \in Shapes(ch, rn, Pages!UserDetail, "user detail")
      BY OpsHaveShapes, ShapesChange
    <2>3. Fits(a, op, {Pages!UserDetail}, names)
      BY <2>1, <2>2, ShapesFit
    <2> QED BY <2>3 DEF FitsScreen, Pages!EditUserPage, Pages!Screen
  <1> QED BY <1>1, <1>2, <1>3
LEMMA OtherScreens ==
    ASSUME NEW a, NEW names, NEW d \in Words
    PROVE  /\ FitsScreen(a, Pages!UserRolesPage, names)
           /\ FitsScreen(a, Pages!UserSessionsPage, names)
           /\ FitsScreen(a, Pages!MyAccountPage, names)
           /\ FitsScreen(a, Pages!ProspectsListPage, names)
           /\ FitsScreen(a, Pages!OpportunitiesBoardPage, names)
           /\ FitsScreen(a, Pages!CrmCompaniesPage, names)
           /\ FitsScreen(a, Pages!BusinessPartnerDetailPage, names)
           /\ FitsScreen(a, Pages!AdminLegalPage(d), names)
           /\ FitsScreen(a, Pages!DataSubjectRequestQueuePage, names)
           /\ FitsScreen(a, Pages!PqrQueuePage, names)
           /\ FitsScreen(a, Pages!KnowledgeAdminPage, names)
           /\ FitsScreen(a, Pages!KoralHumanInboxPage, names)
           /\ FitsScreen(a, Pages!UserListPage, names)
           /\ FitsScreen(a, Pages!UserSecurityPage, names)
           /\ FitsScreen(a, Pages!CompanyDetailPage, names)
           /\ FitsScreen(a, Pages!KoralConversationsPage, names)
           /\ FitsScreen(a, Pages!Elsewhere, names)
  <1>1. FitsScreen(a, Pages!UserRolesPage, names)
    <2>1. \A k \in {Pages!UserLists, Pages!UserDetail, Pages!UserPart("roles"), Pages!UserHistory} :
             \E prefix \in {Pages!UserPart("roles"), Pages!UserDetail, Pages!UserLists} : Pages!IsPrefix(prefix, k)
      BY NestedKeys, KeysAreKeys, PrefixesHold DEF Words, Pages!UserHistory
    <2>2. Fits(a, Pages!Op(TRUE, {Pages!UserLists, Pages!UserDetail, Pages!UserPart("roles"), Pages!UserHistory}, {Pages!UserPart("roles"), Pages!UserDetail, Pages!UserLists}),
              {Pages!UserDetail, Pages!UserPart("roles")}, names)
      BY <2>1, PlainOpsFit
    <2> QED BY <2>2 DEF FitsScreen, Pages!UserRolesPage, Pages!Screen
  <1>2. FitsScreen(a, Pages!UserSessionsPage, names)
    <2>1. \A k \in {Pages!UserDetail, Pages!UserPart("sessions"), Pages!UserHistory} :
             \E prefix \in {Pages!UserPart("sessions"), Pages!UserDetail} : Pages!IsPrefix(prefix, k)
      BY NestedKeys, KeysAreKeys, PrefixesHold DEF Words, Pages!UserHistory
    <2>2. Fits(a, Pages!Op(TRUE, {Pages!UserDetail, Pages!UserPart("sessions"), Pages!UserHistory}, {Pages!UserPart("sessions"), Pages!UserDetail}),
              {Pages!UserDetail, Pages!UserPart("sessions")}, names)
      BY <2>1, PlainOpsFit
    <2> QED BY <2>2 DEF FitsScreen, Pages!UserSessionsPage, Pages!Screen
  <1>5. FitsScreen(a, Pages!MyAccountPage, names)
    <2>1. \A k \in {Pages!MyConsents} :
             \E prefix \in {Pages!MyConsents} : Pages!IsPrefix(prefix, k)
      BY NestedKeys, KeysAreKeys, PrefixesHold DEF Words
    <2>2. Fits(a, Pages!Op(FALSE, {Pages!MyConsents}, {Pages!MyConsents}),
              {Pages!MyConsents}, names)
      BY <2>1, PlainOpsFit
    <2> QED BY <2>2 DEF FitsScreen, Pages!MyAccountPage, Pages!Screen
  <1>6. FitsScreen(a, Pages!ProspectsListPage, names)
    <2>1. \A k \in {Pages!Prospects, Pages!Leads} :
             \E prefix \in {Pages!Prospects, Pages!Leads} : Pages!IsPrefix(prefix, k)
      BY NestedKeys, KeysAreKeys, PrefixesHold DEF Words
    <2>2. Fits(a, Pages!Op(FALSE, {Pages!Prospects, Pages!Leads}, {Pages!Prospects, Pages!Leads}),
              {Pages!Prospects, Pages!Leads}, names)
      BY <2>1, PlainOpsFit
    <2>3. \A k \in {Pages!Board} :
             \E prefix \in {Pages!Opportunities} : Pages!IsPrefix(prefix, k)
      BY NestedKeys, KeysAreKeys, PrefixesHold DEF Words
    <2>4. Fits(a, Pages!Op(FALSE, {Pages!Board}, {Pages!Opportunities}),
              {Pages!Prospects, Pages!Leads}, names)
      BY <2>3, PlainOpsFit
    <2> QED BY <2>2, <2>4 DEF FitsScreen, Pages!ProspectsListPage, Pages!Screen
  <1>7. FitsScreen(a, Pages!OpportunitiesBoardPage, names)
    <2>1. \A k \in {Pages!Board, Pages!Opportunity, Pages!OpportunityPart("status-history"), Pages!OpportunityPart("timeline")} :
             \E prefix \in {Pages!Opportunities} : Pages!IsPrefix(prefix, k)
      BY NestedKeys, KeysAreKeys, PrefixesHold DEF Words
    <2>2. Fits(a, Pages!Versioned(Pages!Op(FALSE, {Pages!Board, Pages!Opportunity, Pages!OpportunityPart("status-history"), Pages!OpportunityPart("timeline")}, {Pages!Opportunities}), Pages!Board),
              {Pages!Board}, names)
      BY <2>1, PlainOpsFit
    <2> QED BY <2>2 DEF FitsScreen, Pages!OpportunitiesBoardPage, Pages!Screen
  <1>8. FitsScreen(a, Pages!CrmCompaniesPage, names)
    <2>1. \A k \in {Pages!CompanyList} :
             \E prefix \in {Pages!Companies} : Pages!IsPrefix(prefix, k)
      BY NestedKeys, KeysAreKeys, PrefixesHold DEF Words
    <2>2. Fits(a, Pages!Op(FALSE, {Pages!CompanyList}, {Pages!Companies}),
              {Pages!CompanyList, Pages!PartnerList}, names)
      BY <2>1, PlainOpsFit
    <2> QED BY <2>2 DEF FitsScreen, Pages!CrmCompaniesPage, Pages!Screen
  <1>9. FitsScreen(a, Pages!BusinessPartnerDetailPage, names)
    <2>1. \A k \in {Pages!Partner, Pages!PartnerList} :
             \E prefix \in {Pages!Partner, Pages!Partners} : Pages!IsPrefix(prefix, k)
      BY NestedKeys, KeysAreKeys, PrefixesHold DEF Words
    <2>2. Fits(a, Pages!Versioned(Pages!Op(FALSE, {Pages!Partner, Pages!PartnerList}, {Pages!Partner, Pages!Partners}), Pages!Partner),
              {Pages!Partner}, names)
      BY <2>1, PlainOpsFit
    <2> QED BY <2>2 DEF FitsScreen, Pages!BusinessPartnerDetailPage, Pages!Screen
  <1>10. FitsScreen(a, Pages!AdminLegalPage(d), names)
    <2>1. \A k \in {Pages!Documents, Pages!Document(d)} :
             \E prefix \in {Pages!Documents, Pages!Document(d)} : Pages!IsPrefix(prefix, k)
      BY NestedKeys, KeysAreKeys, PrefixesHold
    <2>2. Fits(a, Pages!Op(FALSE, {Pages!Documents, Pages!Document(d)}, {Pages!Documents, Pages!Document(d)}),
              {Pages!Documents, Pages!Document(d)}, names)
      BY <2>1, PlainOpsFit
    <2> QED BY <2>2 DEF FitsScreen, Pages!AdminLegalPage, Pages!Screen
  <1>11. FitsScreen(a, Pages!DataSubjectRequestQueuePage, names)
    <2>1. \A k \in {Pages!DataRequests} :
             \E prefix \in {Pages!DataRequests} : Pages!IsPrefix(prefix, k)
      BY NestedKeys, KeysAreKeys, PrefixesHold DEF Words
    <2>2. Fits(a, Pages!Op(FALSE, {Pages!DataRequests}, {Pages!DataRequests}),
              {Pages!DataRequests}, names)
      BY <2>1, PlainOpsFit
    <2> QED BY <2>2 DEF FitsScreen, Pages!DataSubjectRequestQueuePage, Pages!Screen
  <1>12. FitsScreen(a, Pages!PqrQueuePage, names)
    <2>1. \A k \in {Pages!Cases} :
             \E prefix \in {Pages!Cases} : Pages!IsPrefix(prefix, k)
      BY NestedKeys, KeysAreKeys, PrefixesHold DEF Words
    <2>2. Fits(a, Pages!Op(FALSE, {Pages!Cases}, {Pages!Cases}),
              {Pages!Cases}, names)
      BY <2>1, PlainOpsFit
    <2> QED BY <2>2 DEF FitsScreen, Pages!PqrQueuePage, Pages!Screen
  <1>13. FitsScreen(a, Pages!KnowledgeAdminPage, names)
    <2>1. \A k \in {Pages!KnowledgeList, Pages!KnowledgeItem} :
             \E prefix \in {Pages!KnowledgeKeys} : Pages!IsPrefix(prefix, k)
      BY NestedKeys, KeysAreKeys, PrefixesHold DEF Words
    <2>2. Fits(a, Pages!Versioned(Pages!Op(TRUE, {Pages!KnowledgeList, Pages!KnowledgeItem}, {Pages!KnowledgeKeys}), Pages!KnowledgeItem),
              {Pages!KnowledgeList, Pages!KnowledgeItem}, names)
      BY <2>1, PlainOpsFit
    <2> QED BY <2>2 DEF FitsScreen, Pages!KnowledgeAdminPage, Pages!Screen
  <1>14. FitsScreen(a, Pages!KoralHumanInboxPage, names)
    <2>1. \A k \in {Pages!InboxList, Pages!InboxDetail} :
             \E prefix \in {Pages!InboxKeys} : Pages!IsPrefix(prefix, k)
      BY NestedKeys, KeysAreKeys, PrefixesHold DEF Words
    <2>2. Fits(a, Pages!Versioned(Pages!Op(TRUE, {Pages!InboxList, Pages!InboxDetail}, {Pages!InboxKeys}), Pages!InboxDetail),
              {Pages!InboxList, Pages!InboxDetail}, names)
      BY <2>1, PlainOpsFit
    <2>3. \A k \in {Pages!InboxList, Pages!InboxDetail} :
             \E prefix \in {Pages!InboxKeys} : Pages!IsPrefix(prefix, k)
      BY NestedKeys, KeysAreKeys, PrefixesHold DEF Words
    <2>4. Fits(a, Pages!Op(FALSE, {Pages!InboxList, Pages!InboxDetail}, {Pages!InboxKeys}),
              {Pages!InboxList, Pages!InboxDetail}, names)
      BY <2>3, PlainOpsFit
    <2> QED BY <2>2, <2>4 DEF FitsScreen, Pages!KoralHumanInboxPage, Pages!Screen
  <1>15. FitsScreen(a, Pages!UserListPage, names)
    <2> QED BY DEF FitsScreen, Pages!UserListPage, Pages!Screen
  <1>16. FitsScreen(a, Pages!UserSecurityPage, names)
    <2> QED BY DEF FitsScreen, Pages!UserSecurityPage, Pages!Screen
  <1>17. FitsScreen(a, Pages!CompanyDetailPage, names)
    <2> QED BY DEF FitsScreen, Pages!CompanyDetailPage, Pages!Screen
  <1>18. FitsScreen(a, Pages!KoralConversationsPage, names)
    <2> QED BY DEF FitsScreen, Pages!KoralConversationsPage, Pages!Screen
  <1>19. FitsScreen(a, Pages!Elsewhere, names)
    <2> QED BY DEF FitsScreen, Pages!Elsewhere, Pages!Screen
  <1> QED BY <1>1, <1>2, <1>5, <1>6, <1>7, <1>8, <1>9, <1>10, <1>11, <1>12, <1>13, <1>14, <1>15, <1>16,
         <1>17, <1>18, <1>19

LEMMA OpportunityScreen ==
    ASSUME NEW a, NEW names
    PROVE  FitsScreen(a, Pages!OpportunityDetailPage, names)
  <1>1. Forms \subseteq Words
    BY PagesAssumption DEF Pages!ScreensAssumption, Words
  <1>2. ASSUME NEW p \in Forms, NEW reads
        PROVE  Fits(a, Pages!Op(FALSE, {Pages!OpportunityPart(p), Pages!OpportunityPart("timeline")},
                                    {Pages!OpportunityPart(p), Pages!OpportunityPart("timeline")}),
                    reads, names)
    <2> DEFINE ch == {Pages!OpportunityPart(p), Pages!OpportunityPart("timeline")}
    <2>1. "timeline" \in Words
      BY DEF Words
    <2>2. \A k \in ch : \E prefix \in ch : Pages!IsPrefix(prefix, k)
      BY <1>1, <2>1, NestedKeys, PrefixesHold
    <2> HIDE DEF ch
    <2>3. Fits(a, Pages!Op(FALSE, ch, ch), reads, names)
      BY <2>2, PlainOpsFit
    <2> QED BY <2>3 DEF ch
  <1> QED BY <1>2 DEF FitsScreen, Pages!OpportunityDetailPage, Pages!Screen

(* The two pages of one's own account overlook what they are said to.        *)
LEMMA OwnScreens ==
    ASSUME NEW names
    PROVE  /\ FitsScreen("account", Pages!OwnSecurityPage, names)
           /\ FitsScreen("factor", Pages!AdminMfaPanel, names)
  <1>1. FitsScreen("account", Pages!OwnSecurityPage, names)
    <2> DEFINE reads == {Pages!UserDetail, Pages!UserPart("sessions"), Pages!UserHistory}
               all == {Pages!Me, Pages!UserDetail, Pages!UserPart("sessions"), Pages!UserHistory}
               rn == {Pages!Me, Pages!UserDetail, Pages!UserPart("sessions")}
               ch == {Pages!UserDetail, Pages!UserPart("sessions"), Pages!UserHistory}
               few == {Pages!UserPart("sessions")}
    <2>1. \A k \in all : \E prefix \in rn : Pages!IsPrefix(prefix, k)
      BY NestedKeys, KeysAreKeys, PrefixesHold DEF Words, Pages!UserHistory
    <2>2. Fits("account", Pages!Bumping(Pages!Op(TRUE, all, rn)), reads, names)
      BY <2>1, PlainOpsFit
    <2>3. Pages!RevokeOthers = Pages!Op(TRUE, ch, few) /\ Pages!RevokeOthers.changes = ch
      BY DEF Pages!RevokeOthers, Pages!Op
    <2>4. Pages!Overlooked("account", ch) = {Pages!UserDetail, Pages!UserHistory}
      BY <2>3 DEF Pages!Overlooked
    <2>5. \A k \in ch \ Pages!Overlooked("account", ch) : \E prefix \in few : Pages!IsPrefix(prefix, k)
      BY <2>4, NestedKeys, PrefixesHold DEF Words
    <2> HIDE DEF ch, few
    <2>6. Fits("account", Pages!RevokeOthers, reads, names)
      BY <2>3, <2>5, OpsHaveShapes, ShapesFit
    <2> QED BY <2>2, <2>6 DEF FitsScreen, Pages!OwnSecurityPage, Pages!Screen
  <1>2. FitsScreen("factor", Pages!AdminMfaPanel, names)
    <2> DEFINE reads == {Pages!MfaStatus, Pages!UserHistory}
               told == {Pages!UserHistory}
               ch == {Pages!MfaStatus, Pages!UserHistory}
               rn == {Pages!MfaStatus}
    <2>1. \A changes : Pages!Overlooked("factor", changes) = told
      BY DEF Pages!Overlooked
    <2>2. \A k \in told \ Pages!Overlooked("factor", told) : \E prefix \in {} : Pages!IsPrefix(prefix, k)
      BY <2>1
    <2>3. \A k \in ch \ Pages!Overlooked("factor", ch) : \E prefix \in rn : Pages!IsPrefix(prefix, k)
      BY <2>1, KeysAreKeys, PrefixesHold
    <2> HIDE DEF ch, rn, told
    <2>4. Fits("factor", Pages!Op(FALSE, told, {}), reads, names)
      BY <2>2, OpsHaveShapes, ShapesFit
    <2>5. \A stepUp \in BOOLEAN : Fits("factor", Pages!Op(stepUp, ch, rn), reads, names)
      BY <2>3, OpsHaveShapes, ShapesFit
    <2> QED BY <2>4, <2>5 DEF FitsScreen, Pages!AdminMfaPanel, Pages!Screen, ch, rn, told
  <1> QED BY <1>1, <1>2

LEMMA RoutesFit ==
    ASSUME NEW a \in Areas, NEW n \in DOMAIN Pages!Routes[a]
    PROVE  FitsScreen(a, Pages!Routes[a][n], DOMAIN Pages!Routes[a])
  <1> DEFINE names == DOMAIN Pages!Pages(a)
  <1>0. Pages!Routes[a] = Pages!Pages(a)
    BY DEF Pages!Routes
  <1>1. a \in {"users", "access", "account", "factor", "consents", "crm", "opportunities",
               "companies", "legal", "requests", "knowledge", "inbox"}
    BY PagesAssumption DEF Pages!ScreensAssumption
  <1>2. n \in names
    BY <1>0
  <1>3. "terms" \in Words /\ "privacy" \in Words
    BY DEF Words
  <1>4. CASE a = "users"
    <2>1. Pages!Pages(a)[n] \in
             {Pages!UserListPage, Pages!UserDetailPage, Pages!CreateUserPage, Pages!EditUserPage}
      BY <1>2, <1>4 DEF Pages!Pages
    <2>2. "user detail" \in names
      BY <1>4 DEF Pages!Pages
    <2> HIDE DEF names
    <2>3. \A screen \in {Pages!UserListPage, Pages!UserDetailPage, Pages!CreateUserPage, Pages!EditUserPage} :
             FitsScreen(a, screen, names)
      BY OtherScreens, <1>3, UserScreens, <2>2
    <2> QED BY <1>0, <2>1, <2>3 DEF names
  <1>5. CASE a = "access"
    <2>1. Pages!Pages(a)[n] \in
             {Pages!UserListPage, Pages!UserRolesPage, Pages!UserSessionsPage, Pages!UserSecurityPage}
      BY <1>2, <1>5 DEF Pages!Pages
    <2> HIDE DEF names
    <2>2. \A screen \in {Pages!UserListPage, Pages!UserRolesPage, Pages!UserSessionsPage, Pages!UserSecurityPage} :
             FitsScreen(a, screen, names)
      BY OtherScreens, <1>3
    <2> QED BY <1>0, <2>1, <2>2 DEF names
  <1>6. CASE a = "account"
    <2>1. Pages!Pages(a)[n] \in
             {Pages!OwnSecurityPage, Pages!UserDetailPage}
      BY <1>2, <1>6 DEF Pages!Pages
    <2>2. "user detail" \in names
      BY <1>6 DEF Pages!Pages
    <2> HIDE DEF names
    <2>3. \A screen \in {Pages!OwnSecurityPage, Pages!UserDetailPage} :
             FitsScreen(a, screen, names)
      BY <1>6, OwnScreens, UserScreens, <2>2
    <2> QED BY <1>0, <2>1, <2>3 DEF names
  <1>7. CASE a = "factor"
    <2>1. Pages!Pages(a)[n] \in
             {Pages!AdminMfaPanel, Pages!Elsewhere}
      BY <1>2, <1>7 DEF Pages!Pages
    <2> HIDE DEF names
    <2>2. \A screen \in {Pages!AdminMfaPanel, Pages!Elsewhere} :
             FitsScreen(a, screen, names)
      BY <1>3, <1>7, OtherScreens, OwnScreens
    <2> QED BY <1>0, <2>1, <2>2 DEF names
  <1>8. CASE a = "consents"
    <2>1. Pages!Pages(a)[n] \in
             {Pages!MyAccountPage, Pages!Elsewhere}
      BY <1>2, <1>8 DEF Pages!Pages
    <2> HIDE DEF names
    <2>2. \A screen \in {Pages!MyAccountPage, Pages!Elsewhere} :
             FitsScreen(a, screen, names)
      BY OtherScreens, <1>3
    <2> QED BY <1>0, <2>1, <2>2 DEF names
  <1>9. CASE a = "crm"
    <2>1. Pages!Pages(a)[n] \in
             {Pages!ProspectsListPage, Pages!OpportunitiesBoardPage}
      BY <1>2, <1>9 DEF Pages!Pages
    <2> HIDE DEF names
    <2>2. \A screen \in {Pages!ProspectsListPage, Pages!OpportunitiesBoardPage} :
             FitsScreen(a, screen, names)
      BY OtherScreens, <1>3
    <2> QED BY <1>0, <2>1, <2>2 DEF names
  <1>10. CASE a = "opportunities"
    <2>1. Pages!Pages(a)[n] \in
             {Pages!OpportunitiesBoardPage, Pages!OpportunityDetailPage}
      BY <1>2, <1>10 DEF Pages!Pages
    <2> HIDE DEF names
    <2>2. \A screen \in {Pages!OpportunitiesBoardPage, Pages!OpportunityDetailPage} :
             FitsScreen(a, screen, names)
      BY OtherScreens, <1>3, OpportunityScreen
    <2> QED BY <1>0, <2>1, <2>2 DEF names
  <1>11. CASE a = "companies"
    <2>1. Pages!Pages(a)[n] \in
             {Pages!CrmCompaniesPage, Pages!CompanyDetailPage, Pages!BusinessPartnerDetailPage}
      BY <1>2, <1>11 DEF Pages!Pages
    <2> HIDE DEF names
    <2>2. \A screen \in {Pages!CrmCompaniesPage, Pages!CompanyDetailPage, Pages!BusinessPartnerDetailPage} :
             FitsScreen(a, screen, names)
      BY OtherScreens, <1>3
    <2> QED BY <1>0, <2>1, <2>2 DEF names
  <1>12. CASE a = "legal"
    <2>1. Pages!Pages(a)[n] \in
             {Pages!AdminLegalPage("terms"), Pages!AdminLegalPage("privacy")}
      BY <1>2, <1>12 DEF Pages!Pages
    <2> HIDE DEF names
    <2>2. \A screen \in {Pages!AdminLegalPage("terms"), Pages!AdminLegalPage("privacy")} :
             FitsScreen(a, screen, names)
      BY OtherScreens, <1>3
    <2> QED BY <1>0, <2>1, <2>2 DEF names
  <1>13. CASE a = "requests"
    <2>1. Pages!Pages(a)[n] \in
             {Pages!PqrQueuePage, Pages!DataSubjectRequestQueuePage}
      BY <1>2, <1>13 DEF Pages!Pages
    <2> HIDE DEF names
    <2>2. \A screen \in {Pages!PqrQueuePage, Pages!DataSubjectRequestQueuePage} :
             FitsScreen(a, screen, names)
      BY OtherScreens, <1>3
    <2> QED BY <1>0, <2>1, <2>2 DEF names
  <1>14. CASE a = "knowledge"
    <2>1. Pages!Pages(a)[n] \in
             {Pages!KnowledgeAdminPage, Pages!Elsewhere}
      BY <1>2, <1>14 DEF Pages!Pages
    <2> HIDE DEF names
    <2>2. \A screen \in {Pages!KnowledgeAdminPage, Pages!Elsewhere} :
             FitsScreen(a, screen, names)
      BY OtherScreens, <1>3
    <2> QED BY <1>0, <2>1, <2>2 DEF names
  <1>15. CASE a = "inbox"
    <2>1. Pages!Pages(a)[n] \in
             {Pages!KoralHumanInboxPage, Pages!KoralConversationsPage}
      BY <1>2, <1>15 DEF Pages!Pages
    <2> HIDE DEF names
    <2>2. \A screen \in {Pages!KoralHumanInboxPage, Pages!KoralConversationsPage} :
             FitsScreen(a, screen, names)
      BY OtherScreens, <1>3
    <2> QED BY <1>0, <2>1, <2>2 DEF names
  <1> QED BY <1>1, <1>4, <1>5, <1>6, <1>7, <1>8, <1>9, <1>10, <1>11, <1>12, <1>13, <1>14, <1>15

-----------------------------------------------------------------------------
(* The state of the pages.                                                  *)

Entry ==
    [has : BOOLEAN, at : Nat, stale : BOOLEAN, failed : BOOLEAN,
     fetch : {"no", "asked", "served"}, seen : Nat]

AreaOps ==
    {Pages!Idle.op} \union UNION {Pages!Screens[n].ops : n \in DOMAIN Pages!Screens}

Submission ==
    [phase : {"idle", "asked", "denied", "challenge", "verifying", "refused", "applied",
              "stranded"},
     op : AreaOps, mounted : BOOLEAN, sent : Nat, shown : Nat, retried : BOOLEAN,
     heard : BOOLEAN, wrote : Nat]

(* No write is blind: it is decided on what its page showed.                *)
LogRow ==
    [changes : {op.changes : op \in AreaOps}, bumps : {op.bumps : op \in AreaOps},
     blind : {FALSE}, acked : BOOLEAN]

ScreensTypes ==
    /\ area \in Areas /\ page \in DOMAIN Pages!Screens
    /\ cache \in [Pages!Keys -> Entry]
    /\ form \in [Submissions[area] -> Submission]
    /\ pending \in Submissions[area] \union {NoSession}
    /\ log \in Seq(LogRow)

(* The writes an administrator was told of and the answer k must show.      *)
Owed(writes, k) ==
    {i \in 1..Len(writes) : /\ writes[i].acked
                            /\ k \in writes[i].changes \ Pages!Overlooked(area, writes[i].changes)}

(* An answer that lacks one of them is marked stale,                        *)
Marked(e, owed) == \A i \in owed : e.has /\ e.at < i => e.stale

(* nothing is read for a page that is gone, what the server has read since  *)
(* shows them all, and a mounted page has asked again or says it failed.    *)
Stands(e, owed, k, mounted) ==
    /\ e.fetch # "no" => k \in mounted
    /\ e.fetch = "served" => \A i \in owed : e.seen >= i
    /\ Marked(e, owed)
    /\ k \in mounted => \A i \in owed : e.has /\ e.at < i => e.fetch # "no" \/ e.failed

(* Only a submission whose page was left before its first denial strands.   *)
Left(row) == row.phase = "stranded" => ~row.mounted /\ ~row.retried

SubmissionStands(row, writes) ==
    /\ row.sent = row.shown
    /\ row.phase = "applied" =>
          row.wrote \in 1..Len(writes) /\ writes[row.wrote].changes = row.op.changes
    /\ Left(row)

Challenged(row) == row.phase = "challenge" \/ (row.phase = "verifying" /\ row.heard)

ScreensIInv ==
    /\ ScreensTypes
    /\ \A k \in Pages!Keys : Stands(cache[k], Owed(log, k), k, Pages!Mounted)
    /\ \A c \in Submissions[area] : SubmissionStands(form[c], log)
    /\ \A c \in Submissions[area] : Challenged(form[c]) => pending = c

LEMMA AskingStands ==
    ASSUME NEW e \in Entry, NEW owed, Marked(e, owed), NEW mounted, NEW k \in mounted
    PROVE  Pages!Asking(e) \in Entry /\ Stands(Pages!Asking(e), owed, k, mounted)
  <1>1. /\ Pages!Asking(e) \in Entry /\ Pages!Asking(e).fetch = "asked"
        /\ Pages!Asking(e).has = e.has /\ Pages!Asking(e).at = e.at /\ Pages!Asking(e).stale = e.stale
    BY DEF Entry, Pages!Asking
  <1> QED BY <1>1 DEF Stands, Marked

LEMMA MountStands ==
    ASSUME NEW K, NEW entries \in [K -> Entry], NEW owed, \A k \in K : Marked(entries[k], owed[k]),
           NEW name, NEW aged \in BOOLEAN
    PROVE  /\ Pages!Mount(name, aged, entries) \in [K -> Entry]
           /\ \A k \in K : Stands(Pages!Mount(name, aged, entries)[k], owed[k], k, Pages!Screens[name].reads)
  <1> DEFINE left(k) == IF entries[k].fetch = "no" THEN entries[k]
                        ELSE [entries[k] EXCEPT !.fetch = "no", !.seen = 0]
             asks(k) == k \in Pages!Screens[name].reads
                          /\ (~left(k).has \/ left(k).stale \/ left(k).failed \/ aged)
             new(k) == IF asks(k) THEN Pages!Asking(left(k)) ELSE left(k)
  <1>1. Pages!Mount(name, aged, entries) = [k \in K |-> new(k)]
    BY DEF Pages!Mount
  <1>2. ASSUME NEW k \in K
        PROVE  new(k) \in Entry /\ Stands(new(k), owed[k], k, Pages!Screens[name].reads)
    <2>1. entries[k] \in Entry
      OBVIOUS
    <2>2. /\ left(k) \in Entry /\ left(k).fetch = "no" /\ left(k).has = entries[k].has
          /\ left(k).at = entries[k].at /\ left(k).stale = entries[k].stale
      BY <2>1 DEF Entry
    <2>3. Marked(left(k), owed[k])
      BY <2>2 DEF Marked
    <2> HIDE DEF left
    <2>4. CASE asks(k)
      BY <2>2, <2>3, <2>4, AskingStands
    <2>5. CASE ~asks(k)
      <3>1. k \in Pages!Screens[name].reads => left(k).has /\ ~left(k).stale
        BY <2>5
      <3> QED BY <2>2, <2>3, <2>5, <3>1 DEF Stands, Marked
    <2> QED BY <2>4, <2>5
  <1> HIDE DEF new
  <1> QED BY <1>1, <1>2

(* A write w is acknowledged, and an answer that stands lacks no other.      *)
Renewable(e, owed, op, k) ==
    \E before, w : /\ Stands(e, before, k, Pages!Mounted)
                   /\ owed \subseteq before \union {w}
                   /\ w \in owed => w \in before \/ k \in op.changes \ Pages!Overlooked(area, op.changes)

LEMMA RenewedStands ==
    ASSUME NEW K, NEW entries \in [K -> Entry], NEW owed, NEW op, Covered(area, op),
           \A k \in K : Renewable(entries[k], owed[k], op, k)
    PROVE  /\ Pages!Renewed(op, entries) \in [K -> Entry]
           /\ \A k \in K : Stands(Pages!Renewed(op, entries)[k], owed[k], k, Pages!Mounted)
  <1> DEFINE under(k) == \E prefix \in op.renews : Pages!IsPrefix(prefix, k)
             marked(k) == [entries[k] EXCEPT !.stale = entries[k].has]
             new(k) == IF under(k) THEN IF k \in Pages!Mounted THEN Pages!Asking(marked(k)) ELSE marked(k)
                       ELSE entries[k]
  <1>1. Pages!Renewed(op, entries) = [k \in K |-> new(k)]
    BY DEF Pages!Renewed
  <1>2. ASSUME NEW k \in K
        PROVE  new(k) \in Entry /\ Stands(new(k), owed[k], k, Pages!Mounted)
    <2>1. entries[k] \in Entry
      OBVIOUS
    <2>2. /\ marked(k) \in Entry /\ marked(k).has = entries[k].has /\ marked(k).stale = entries[k].has
          /\ marked(k).fetch = entries[k].fetch
      BY <2>1 DEF Entry
    <2>0. PICK before, w : /\ Stands(entries[k], before, k, Pages!Mounted)
                           /\ owed[k] \subseteq before \union {w}
                           /\ w \in owed[k] => w \in before \/ k \in op.changes \ Pages!Overlooked(area, op.changes)
      BY DEF Renewable
    <2> HIDE DEF marked
    <2>3. CASE under(k) /\ k \in Pages!Mounted
      <3>1. Marked(marked(k), owed[k])
        BY <2>2 DEF Marked
      <3> QED BY <2>2, <2>3, <3>1, AskingStands
    <2>4. CASE under(k) /\ k \notin Pages!Mounted
      <3>1. entries[k].fetch = "no"
        BY <2>0, <2>4 DEF Stands
      <3> QED BY <2>2, <2>4, <3>1 DEF Stands, Marked
    <2>5. CASE ~under(k)
      <3>1. k \notin op.changes \ Pages!Overlooked(area, op.changes)
        BY <2>5 DEF Covered
      <3>2. owed[k] \subseteq before
        BY <2>0, <3>1
      <3> HIDE DEF under
      <3> QED BY <2>0, <2>1, <2>5, <3>2 DEF Stands, Marked
    <2> QED BY <2>3, <2>4, <2>5
  <1> HIDE DEF new
  <1> QED BY <1>1, <1>2

-----------------------------------------------------------------------------
(* The routes and the log.                                                  *)

LEMMA OpsFit ==
    ASSUME area \in Areas
    PROVE  /\ \A op \in AreaOps : Covered(area, op) /\ (op.next = "stay" \/ op.next \in DOMAIN Pages!Screens)
           /\ \A n \in DOMAIN Pages!Screens : \A op \in Pages!Screens[n].ops :
                 /\ op \in AreaOps
                 /\ op.sees = Pages!NoKey \/ op.sees \in Pages!Screens[n].reads
  <1>1. \A n \in DOMAIN Pages!Screens : FitsScreen(area, Pages!Screens[n], DOMAIN Pages!Screens)
    BY RoutesFit DEF Pages!Screens
  <1>2. Covered(area, Pages!Idle.op) /\ Pages!Idle.op.next = "stay"
    <2>1. Pages!Idle.op = Pages!Op(FALSE, {}, {})
      BY DEF Pages!Idle
    <2> QED BY <2>1 DEF Covered, Pages!Op
  <1> QED BY <1>1, <1>2 DEF FitsScreen, Fits, AreaOps

LEMMA MountedAreKeys ==
    ASSUME NEW n \in DOMAIN Pages!Screens
    PROVE  Pages!Screens[n].reads \subseteq Pages!Keys
  BY DEF Pages!Keys

LEMMA LogRows ==
    ASSUME log \in Seq(LogRow)
    PROVE  /\ Len(log) \in Nat /\ \A i \in 1..Len(log) : log[i] \in LogRow
           /\ \A k : Owed(log, k) \subseteq 1..Len(log)
  BY DEF Owed

LEMMA LatestWrites ==
    ASSUME log \in Seq(LogRow)
    PROVE  /\ Pages!Version \in Nat
           /\ \A k : Pages!LastChange(k) \in Nat /\ \A i \in Owed(log, k) : Pages!LastChange(k) >= i
  <1>1. Len(log) \in Nat
    OBVIOUS
  <1>2. Pages!Version \in Nat
    <2> DEFINE S == {i \in 1..Len(log) : log[i].bumps}
    <2>1. S \in SUBSET (1..Len(log))
      OBVIOUS
    <2>2. Pages!Max({0} \union S) \in {0} \union S
      BY <1>1, <2>1, LatestExists
    <2> QED BY <1>1, <2>2 DEF Pages!Version, Pages!Now
  <1>3. ASSUME NEW k
        PROVE  Pages!LastChange(k) \in Nat /\ \A i \in Owed(log, k) : Pages!LastChange(k) >= i
    <2> DEFINE S == {i \in 1..Len(log) : k \in log[i].changes}
    <2>1. S \in SUBSET (1..Len(log)) /\ Owed(log, k) \subseteq S
      BY DEF Owed
    <2>2. Pages!Max({0} \union S) \in {0} \union S /\ \A i \in S : Pages!Max({0} \union S) >= i
      BY <1>1, <2>1, LatestExists
    <2>3. Pages!LastChange(k) = Pages!Max({0} \union S)
      BY DEF Pages!LastChange, Pages!Now
    <2> QED BY <1>1, <2>1, <2>2, <2>3
  <1> QED BY <1>2, <1>3

LEMMA IdleIsASubmission ==
    Pages!Idle \in Submission /\ ~Challenged(Pages!Idle)
      /\ \A writes : SubmissionStands(Pages!Idle, writes)
  <1> DEFINE op == Pages!Op(FALSE, {}, {})
  <1>1. Pages!Idle = [phase |-> "idle", op |-> op, mounted |-> FALSE, sent |-> 0,
                      shown |-> 0, retried |-> FALSE, heard |-> TRUE, wrote |-> 0]
    BY DEF Pages!Idle
  <1> HIDE DEF op
  <1>2. op \in AreaOps
    BY <1>1 DEF AreaOps
  <1> QED BY <1>1, <1>2 DEF Submission, Challenged, SubmissionStands, Left

LEMMA SameArea ==
    ASSUME UNCHANGED area
    PROVE  /\ Pages!Keys' = Pages!Keys /\ Pages!Screens' = Pages!Screens /\ AreaOps' = AreaOps
           /\ Submission' = Submission /\ LogRow' = LogRow
  BY DEF Pages!Keys, Pages!Screens, AreaOps, Submission, LogRow

-----------------------------------------------------------------------------
(* The steps.                                                               *)

LEMMA ScreensInitial == Pages!ScreensInit => ScreensIInv
  <1> SUFFICES ASSUME Pages!ScreensInit PROVE ScreensIInv
    OBVIOUS
  <1>1. /\ area \in Areas /\ page \in DOMAIN Pages!Screens /\ pending = NoSession /\ log = << >>
        /\ cache = [k \in Pages!Keys |-> IF k \in Pages!Mounted THEN Pages!Asking(Pages!NotCached)
                                         ELSE Pages!NotCached]
        /\ form = [c \in Submissions[area] |-> Pages!Idle]
    BY DEF Pages!ScreensInit, Pages!Screens, Pages!Keys, Pages!Mounted
  <1>2. /\ Pages!NotCached \in Entry /\ ~Pages!NotCached.has /\ Pages!NotCached.fetch = "no"
    BY DEF Pages!NotCached, Entry
  <1>3. \A k : Marked(Pages!NotCached, Owed(log, k))
    BY <1>2 DEF Marked
  <1>4. ASSUME NEW k \in Pages!Keys
        PROVE  cache[k] \in Entry /\ Stands(cache[k], Owed(log, k), k, Pages!Mounted)
    <2>1. CASE k \in Pages!Mounted
      BY <2>1, <1>1, <1>2, <1>3, AskingStands
    <2>2. CASE k \notin Pages!Mounted
      <3>1. cache[k] = Pages!NotCached
        BY <2>2, <1>1
      <3> QED BY <2>2, <3>1, <1>2 DEF Stands, Marked
    <2> QED BY <2>1, <2>2
  <1>5. cache \in [Pages!Keys -> Entry]
    BY <1>1, <1>4
  <1>6. log \in Seq(LogRow)
    BY <1>1
  <1> QED BY <1>1, <1>4, <1>5, <1>6, IdleIsASubmission DEF ScreensIInv, ScreensTypes

(* One answer of the cache changes.                                         *)
LEMMA EntryStep ==
    ASSUME ScreensIInv, UNCHANGED <<area, page, form, pending, log>>,
           NEW k \in Pages!Keys, NEW e \in Entry, Stands(e, Owed(log, k), k, Pages!Mounted),
           cache' = [cache EXCEPT ![k] = e]
    PROVE  ScreensIInv'
  <1>1. ScreensTypes
    BY DEF ScreensIInv
  <1>2. cache' \in [Pages!Keys -> Entry]
    BY <1>1 DEF ScreensTypes
  <1>3. ScreensTypes'
    BY <1>1, <1>2, SameArea DEF ScreensTypes
  <1>4. Pages!Mounted' = Pages!Mounted
    BY SameArea DEF Pages!Mounted
  <1>5. \A j \in Pages!Keys : Stands(cache'[j], Owed(log, j), j, Pages!Mounted)
    BY <1>1 DEF ScreensTypes, ScreensIInv
  <1>6. \A j \in Pages!Keys' : Stands(cache[j], Owed(log, j), j, Pages!Mounted)'
    BY <1>4, <1>5, SameArea DEF Stands, Marked, Owed
  <1>7. \A c \in Submissions[area]' :
           SubmissionStands(form[c], log)' /\ (Challenged(form[c])' => pending' = c)
    BY DEF ScreensIInv, SubmissionStands, Challenged
  <1> QED BY <1>3, <1>6, <1>7 DEF ScreensIInv

(* The log keeps what was written and acknowledged, and may grow.           *)
Grown ==
    /\ log' \in Seq(LogRow) /\ Len(log) <= Len(log')
    /\ \A i \in 1..Len(log) : log'[i].changes = log[i].changes
    /\ \A k : Owed(log', k) = Owed(log, k)

LEMMA LogStays == ASSUME log \in Seq(LogRow), UNCHANGED log PROVE Grown
  BY DEF Grown

LEMMA LogGrows ==
    ASSUME log \in Seq(LogRow), NEW r \in LogRow, ~r.acked, log' = Append(log, r)
    PROVE  /\ Grown /\ Len(log') = Len(log) + 1 /\ log'[Len(log) + 1] = r
  <1>1. /\ log' \in Seq(LogRow) /\ Len(log') = Len(log) + 1 /\ log'[Len(log) + 1] = r
        /\ \A i \in 1..Len(log) : log'[i] = log[i]
        /\ Len(log) \in Nat
    OBVIOUS
  <1>2. ASSUME NEW k PROVE Owed(log', k) = Owed(log, k)
    BY <1>1 DEF Owed
  <1> QED BY <1>1, <1>2 DEF Grown

LEMMA SubmissionsStay ==
    ASSUME log \in Seq(LogRow), Grown, NEW row, SubmissionStands(row, log)
    PROVE  SubmissionStands(row, log')
  <1>1. Len(log) \in Nat /\ Len(log') \in Nat
    BY DEF Grown
  <1> QED BY <1>1 DEF Grown, SubmissionStands

(* One submission goes on.                                                  *)
LEMMA FormStep ==
    ASSUME ScreensIInv, UNCHANGED <<area, page, cache>>, Grown,
           NEW c \in Submissions[area], NEW row \in Submission, SubmissionStands(row, log'),
           form' = [form EXCEPT ![c] = row],
           pending' \in Submissions[area] \union {NoSession},
           Challenged(row) => pending' = c,
           \A d \in Submissions[area] : d # c /\ Challenged(form[d]) => pending' = d
    PROVE  ScreensIInv'
  <1>1. ScreensTypes
    BY DEF ScreensIInv
  <1>2. form' \in [Submissions[area] -> Submission]
    BY <1>1 DEF ScreensTypes
  <1>3. ScreensTypes'
    BY <1>1, <1>2, SameArea DEF ScreensTypes, Grown
  <1>4. Pages!Mounted' = Pages!Mounted
    BY SameArea DEF Pages!Mounted
  <1>5. \A k : Owed(log, k)' = Owed(log, k)
    BY DEF Grown, Owed
  <1>6. \A j \in Pages!Keys' : Stands(cache[j], Owed(log, j), j, Pages!Mounted)'
    BY <1>4, <1>5, SameArea DEF ScreensIInv, Stands, Marked
  <1>7. ASSUME NEW d \in Submissions[area]
        PROVE  SubmissionStands(form'[d], log') /\ (Challenged(form'[d]) => pending' = d)
    <2>1. CASE d = c
      BY <2>1, <1>1 DEF ScreensTypes
    <2>2. CASE d # c
      <3>1. form'[d] = form[d]
        BY <2>2, <1>1 DEF ScreensTypes
      <3>2. SubmissionStands(form[d], log')
        BY <1>1, SubmissionsStay DEF ScreensIInv, ScreensTypes
      <3> QED BY <2>2, <3>1, <3>2
    <2> QED BY <2>1, <2>2
  <1>8. \A d \in Submissions[area]' :
           SubmissionStands(form[d], log)' /\ (Challenged(form[d])' => pending' = d)
    BY <1>7 DEF SubmissionStands, Challenged
  <1> QED BY <1>3, <1>6, <1>8 DEF ScreensIInv

LEMMA LeaveStands ==
    ASSUME ScreensIInv, NEW c \in Submissions[area]
    PROVE  /\ Pages!Leave(c) \in Submission /\ SubmissionStands(Pages!Leave(c), log)
           /\ ~Challenged(Pages!Leave(c))
  <1>1. form[c] \in Submission /\ SubmissionStands(form[c], log)
    BY DEF ScreensIInv, ScreensTypes
  <1> DEFINE gone == [form[c] EXCEPT !.mounted = FALSE]
             unheard == [form[c] EXCEPT !.mounted = FALSE, !.heard = FALSE]
  <1>2. /\ gone \in Submission /\ gone.phase = form[c].phase /\ gone.sent = form[c].sent
        /\ gone.shown = form[c].shown /\ gone.wrote = form[c].wrote /\ gone.op = form[c].op
        /\ ~gone.mounted /\ gone.retried = form[c].retried
    BY <1>1 DEF Submission
  <1>3. /\ unheard \in Submission /\ unheard.phase = form[c].phase /\ unheard.sent = form[c].sent
        /\ unheard.shown = form[c].shown /\ unheard.wrote = form[c].wrote /\ unheard.op = form[c].op
        /\ ~unheard.heard
    BY <1>1 DEF Submission
  <1> HIDE DEF gone, unheard
  <1>4. /\ form[c].phase = "challenge" => Pages!Leave(c) = Pages!Idle
        /\ form[c].phase = "verifying" => Pages!Leave(c) = unheard
        /\ form[c].phase \notin {"challenge", "verifying"} => Pages!Leave(c) = gone
    BY DEF Pages!Leave, gone, unheard
  <1> QED BY <1>1, <1>2, <1>3, <1>4, IdleIsASubmission DEF SubmissionStands, Challenged, Left

(* The page changes, and its submissions are left.                          *)
LEMMA LeaveStep ==
    ASSUME ScreensIInv, UNCHANGED area, NEW name \in DOMAIN Pages!Screens, page' = name,
           log' \in Seq(LogRow), Len(log) <= Len(log'),
           \A i \in 1..Len(log) : log'[i].changes = log[i].changes,
           NEW aged \in BOOLEAN, NEW entries \in [Pages!Keys -> Entry],
           \A k \in Pages!Keys : Marked(entries[k], Owed(log', k)),
           cache' = Pages!Mount(name, aged, entries),
           pending' = NoSession, form' \in [Submissions[area] -> Submission],
           \A c \in Submissions[area] :
               SubmissionStands(form'[c], log') /\ ~Challenged(form'[c])
    PROVE  ScreensIInv'
  <1>1. ScreensTypes
    BY DEF ScreensIInv
  <1> DEFINE owed == [k \in Pages!Keys |-> Owed(log', k)]
  <1>2. \A k \in Pages!Keys : Marked(entries[k], owed[k])
    OBVIOUS
  <1>3. /\ cache' \in [Pages!Keys -> Entry]
        /\ \A k \in Pages!Keys : Stands(cache'[k], owed[k], k, Pages!Screens[name].reads)
    <2> HIDE DEF owed
    <2> QED BY <1>2, MountStands
  <1>4. ScreensTypes'
    BY <1>1, <1>3, SameArea DEF ScreensTypes
  <1>5. Pages!Mounted' = Pages!Screens[name].reads
    BY SameArea DEF Pages!Mounted
  <1>6. \A k \in Pages!Keys' : Stands(cache[k], Owed(log, k), k, Pages!Mounted)'
    BY <1>3, <1>5, SameArea DEF Stands, Marked, Owed
  <1>7. \A d \in Submissions[area]' :
           SubmissionStands(form[d], log)' /\ (Challenged(form[d])' => pending' = d)
    BY DEF SubmissionStands, Challenged
  <1> QED BY <1>4, <1>6, <1>7 DEF ScreensIInv

LEMMA ReadsStep ==
    ASSUME ScreensIInv, NEW k \in Pages!Keys,
           Pages!Serve(k) \/ Pages!Answer(k) \/ Pages!FetchFails(k) \/ Pages!Refetch(k)
    PROVE  ScreensIInv'
  <1>1. /\ cache \in [Pages!Keys -> Entry] /\ cache[k] \in Entry /\ log \in Seq(LogRow)
        /\ Stands(cache[k], Owed(log, k), k, Pages!Mounted)
    BY DEF ScreensIInv, ScreensTypes
  <1>2. UNCHANGED <<area, page, form, pending, log>>
    BY DEF Pages!Serve, Pages!Answer, Pages!FetchFails, Pages!Refetch
  <1> DEFINE old == cache[k]
  <1>3. CASE Pages!Serve(k)
    <2> DEFINE last == Pages!LastChange(k)
               e == [old EXCEPT !.fetch = "served", !.seen = last]
    <2>1. last \in Nat /\ \A i \in Owed(log, k) : last >= i
      BY <1>1, LatestWrites
    <2>2. old.fetch = "asked" /\ cache' = [cache EXCEPT ![k] = e]
      BY <1>3 DEF Pages!Serve
    <2> HIDE DEF last
    <2>3. /\ e \in Entry /\ e.fetch = "served" /\ e.seen = last
          /\ e.has = old.has /\ e.at = old.at /\ e.stale = old.stale /\ e.failed = old.failed
      BY <1>1, <2>1 DEF Entry
    <2> HIDE DEF e
    <2>4. Stands(e, Owed(log, k), k, Pages!Mounted)
      BY <1>1, <2>1, <2>2, <2>3 DEF Stands, Marked
    <2> QED BY <1>2, <2>2, <2>3, <2>4, EntryStep
  <1>4. CASE Pages!Answer(k)
    <2> DEFINE e == [Pages!NotCached EXCEPT !.has = TRUE, !.at = old.seen]
    <2>1. old.fetch = "served" /\ cache' = [cache EXCEPT ![k] = e]
      BY <1>4 DEF Pages!Answer
    <2>2. e \in Entry /\ e.fetch = "no" /\ e.has /\ e.at = old.seen
      BY <1>1 DEF Entry, Pages!NotCached
    <2> HIDE DEF e
    <2>3. \A i \in Owed(log, k) : e.at >= i /\ i \in Nat /\ e.at \in Nat
      BY <1>1, <2>1, <2>2, LogRows DEF Stands, Entry
    <2>4. Stands(e, Owed(log, k), k, Pages!Mounted)
      BY <2>2, <2>3 DEF Stands, Marked
    <2> QED BY <1>2, <2>1, <2>2, <2>4, EntryStep
  <1>5. CASE Pages!FetchFails(k)
    <2> DEFINE e == [old EXCEPT !.fetch = "no", !.failed = TRUE]
    <2>1. old.fetch = "asked" /\ cache' = [cache EXCEPT ![k] = e]
      BY <1>5 DEF Pages!FetchFails
    <2>2. /\ e \in Entry /\ e.fetch = "no" /\ e.failed
          /\ e.has = old.has /\ e.at = old.at /\ e.stale = old.stale
      BY <1>1 DEF Entry
    <2> HIDE DEF e
    <2>3. Stands(e, Owed(log, k), k, Pages!Mounted)
      BY <1>1, <2>2 DEF Stands, Marked
    <2> QED BY <1>2, <2>1, <2>2, <2>3, EntryStep
  <1>6. CASE Pages!Refetch(k)
    <2>1. k \in Pages!Mounted /\ cache' = [cache EXCEPT ![k] = Pages!Asking(old)]
      BY <1>6 DEF Pages!Refetch
    <2>2. Marked(old, Owed(log, k))
      BY <1>1 DEF Stands
    <2>3. Pages!Asking(old) \in Entry /\ Stands(Pages!Asking(old), Owed(log, k), k, Pages!Mounted)
      BY <1>1, <2>1, <2>2, AskingStands
    <2> QED BY <1>2, <2>1, <2>3, EntryStep
  <1> QED BY <1>3, <1>4, <1>5, <1>6

LEMMA ReconnectStep == ASSUME ScreensIInv, Pages!Reconnect PROVE ScreensIInv'
  <1>1. ScreensTypes
    BY DEF ScreensIInv
  <1>2. /\ cache' = [k \in Pages!Keys |-> IF k \in Pages!Mounted /\ cache[k].fetch = "no"
                                          THEN Pages!Asking(cache[k]) ELSE cache[k]]
        /\ UNCHANGED <<area, page, form, pending, log>>
    BY <1>1 DEF Pages!Reconnect, ScreensTypes
  <1>3. ASSUME NEW k \in Pages!Keys
        PROVE  cache'[k] \in Entry /\ Stands(cache'[k], Owed(log, k), k, Pages!Mounted)
    <2>1. cache[k] \in Entry /\ Stands(cache[k], Owed(log, k), k, Pages!Mounted)
      BY <1>1 DEF ScreensTypes, ScreensIInv
    <2>2. Marked(cache[k], Owed(log, k))
      BY <2>1 DEF Stands
    <2> QED BY <1>2, <2>1, <2>2, AskingStands
  <1>4. cache' \in [Pages!Keys -> Entry]
    BY <1>2, <1>3
  <1>5. ScreensTypes'
    BY <1>1, <1>2, <1>4, SameArea DEF ScreensTypes
  <1>6. Pages!Mounted' = Pages!Mounted
    BY <1>2, SameArea DEF Pages!Mounted
  <1>7. \A j \in Pages!Keys' : Stands(cache[j], Owed(log, j), j, Pages!Mounted)'
    BY <1>2, <1>3, <1>6, SameArea DEF Stands, Marked, Owed
  <1>8. \A c \in Submissions[area]' :
           SubmissionStands(form[c], log)' /\ (Challenged(form[c])' => pending' = c)
    BY <1>2 DEF ScreensIInv, SubmissionStands, Challenged
  <1> QED BY <1>5, <1>7, <1>8 DEF ScreensIInv

LEMMA VisitStep ==
    ASSUME ScreensIInv, NEW name \in DOMAIN Pages!Screens, Pages!Visit(name)
    PROVE  ScreensIInv'
  <1>1. ScreensTypes
    BY DEF ScreensIInv
  <1>2. PICK aged \in BOOLEAN : cache' = Pages!Mount(name, aged, cache)
    BY DEF Pages!Visit
  <1>3. /\ UNCHANGED <<area, log>> /\ page' = name /\ pending' = NoSession
        /\ form' = [c \in Submissions[area] |-> Pages!Leave(c)]
    BY DEF Pages!Visit
  <1>4. \A k \in Pages!Keys : Marked(cache[k], Owed(log', k))
    BY <1>3 DEF ScreensIInv, Stands
  <1>5. \A c \in Submissions[area] :
            form'[c] \in Submission /\ SubmissionStands(form'[c], log') /\ ~Challenged(form'[c])
    BY <1>3, LeaveStands
  <1>6. form' \in [Submissions[area] -> Submission]
    BY <1>3, <1>5
  <1>7. /\ cache \in [Pages!Keys -> Entry] /\ log' \in Seq(LogRow) /\ Len(log) <= Len(log')
        /\ \A i \in 1..Len(log) : log'[i].changes = log[i].changes
    BY <1>1, <1>3 DEF ScreensTypes
  <1> QED BY <1>2, <1>3, <1>4, <1>5, <1>6, <1>7, LeaveStep

LEMMA WriteElsewhereStep ==
    ASSUME ScreensIInv, NEW op \in AreaOps, Pages!WriteElsewhere(op)
    PROVE  ScreensIInv'
  <1>1. ScreensTypes
    BY DEF ScreensIInv
  <1> DEFINE r == [changes |-> op.changes, bumps |-> op.bumps, blind |-> FALSE, acked |-> FALSE]
  <1>2. log' = Append(log, r) /\ UNCHANGED <<area, page, cache, form, pending>>
    BY DEF Pages!WriteElsewhere
  <1>3. r \in LogRow /\ ~r.acked
    BY DEF LogRow
  <1> HIDE DEF r
  <1>4. Grown
    BY <1>1, <1>2, <1>3, LogGrows DEF ScreensTypes
  <1>5. ScreensTypes'
    BY <1>1, <1>2, <1>4, SameArea DEF ScreensTypes, Grown
  <1>6. Pages!Mounted' = Pages!Mounted
    BY <1>2, SameArea DEF Pages!Mounted
  <1>7. \A k : Owed(log, k)' = Owed(log, k)
    BY <1>2, <1>4 DEF Grown, Owed
  <1>8. \A j \in Pages!Keys' : Stands(cache[j], Owed(log, j), j, Pages!Mounted)'
    BY <1>2, <1>6, <1>7, SameArea DEF ScreensIInv, Stands, Marked
  <1>9. \A c \in Submissions[area] : SubmissionStands(form[c], log')
    BY <1>1, <1>4, SubmissionsStay DEF ScreensIInv, ScreensTypes
  <1>10. \A c \in Submissions[area]' :
           SubmissionStands(form[c], log)' /\ (Challenged(form[c])' => pending' = c)
    BY <1>2, <1>9 DEF ScreensIInv, SubmissionStands, Challenged
  <1> QED BY <1>5, <1>8, <1>10 DEF ScreensIInv

LEMMA SubmitStep ==
    ASSUME ScreensIInv, NEW c \in Submissions[area], NEW op, Pages!Submit(c, op)
    PROVE  ScreensIInv'
  <1>1. ScreensTypes /\ area \in Areas /\ log \in Seq(LogRow) /\ page \in DOMAIN Pages!Screens
    BY DEF ScreensIInv, ScreensTypes
  <1> DEFINE shown == IF op.sees = Pages!NoKey THEN 0 ELSE cache[op.sees].at
             row == [Pages!Idle EXCEPT !.phase = "asked", !.op = op, !.mounted = TRUE,
                                       !.sent = shown, !.shown = shown]
  <1>2. /\ form' = [form EXCEPT ![c] = row] /\ UNCHANGED <<area, page, cache, pending, log>>
        /\ op \in Pages!Screens[page].ops
    BY DEF Pages!Submit
  <1>3. op \in AreaOps /\ (op.sees = Pages!NoKey \/ op.sees \in Pages!Keys)
    BY <1>1, <1>2, OpsFit, MountedAreKeys
  <1>4. shown \in Nat
    <2>1. \A k \in Pages!Keys : cache[k] \in Entry
      BY <1>1 DEF ScreensTypes
    <2> QED BY <1>3, <2>1 DEF Entry
  <1> HIDE DEF shown
  <1>5. row \in Submission /\ row.phase = "asked" /\ row.sent = row.shown
    BY <1>3, <1>4, IdleIsASubmission DEF Submission
  <1> HIDE DEF row
  <1>6. SubmissionStands(row, log') /\ ~Challenged(row)
    BY <1>5 DEF SubmissionStands, Challenged, Left
  <1>7. \A d \in Submissions[area] : Challenged(form[d]) => pending' = d
    BY <1>2 DEF ScreensIInv
  <1>8. pending' \in Submissions[area] \union {NoSession}
    BY <1>1, <1>2 DEF ScreensTypes
  <1>9. Grown
    BY <1>1, <1>2, LogStays
  <1> QED BY <1>2, <1>5, <1>6, <1>7, <1>8, <1>9, FormStep

(* A submission changes its phase and keeps what it sent.                   *)
LEMMA PhaseStep ==
    ASSUME ScreensIInv, UNCHANGED <<area, page, cache, log>>, NEW c \in Submissions[area],
           NEW row \in Submission, form' = [form EXCEPT ![c] = row],
           row = Pages!Idle \/ (/\ row.phase # "applied" /\ Left(row)
                               /\ row.sent = form[c].sent /\ row.shown = form[c].shown),
           Challenged(row) => pending' = c,
           pending' = pending \/ (pending' = c /\ pending = NoSession) \/ (pending' = NoSession /\ pending = c)
    PROVE  ScreensIInv'
  <1>1. ScreensTypes /\ log \in Seq(LogRow)
    BY DEF ScreensIInv, ScreensTypes
  <1>2. SubmissionStands(row, log')
    BY IdleIsASubmission DEF ScreensIInv, SubmissionStands
  <1>3. c # NoSession /\ \A d \in Submissions[area] : d # NoSession
    BY <1>1, PagesAssumption DEF Pages!ScreensAssumption, ScreensTypes
  <1>4. \A d \in Submissions[area] : d # c /\ Challenged(form[d]) => pending' = d
    BY <1>3 DEF ScreensIInv
  <1>5. pending' \in Submissions[area] \union {NoSession}
    BY <1>1 DEF ScreensTypes
  <1>6. Grown
    BY <1>1, LogStays
  <1> QED BY <1>2, <1>4, <1>5, <1>6, FormStep

LEMMA SubmissionsStep ==
    ASSUME ScreensIInv, NEW c \in Submissions[area],
           \/ Pages!Deny(c) \/ Pages!Refuse(c) \/ Pages!Challenge(c) \/ Pages!CancelChallenge(c)
           \/ Pages!SubmitChallenge(c) \/ Pages!WrongFactor(c) \/ Pages!Verified(c) \/ Pages!Rejected(c)
    PROVE  ScreensIInv'
  <1> DEFINE old == form[c]
             In(p) == [old EXCEPT !.phase = p]
             again == [old EXCEPT !.phase = "asked", !.retried = TRUE]
  <1>1. old \in Submission /\ (Challenged(old) => pending = c)
    BY DEF ScreensIInv, ScreensTypes
  <1>2. \A p \in {"denied", "refused", "challenge", "verifying", "stranded"} :
           /\ In(p) \in Submission /\ In(p).phase = p /\ In(p).sent = old.sent
           /\ In(p).shown = old.shown /\ In(p).heard = old.heard
           /\ p # "stranded" \/ (~old.mounted /\ ~old.retried) => Left(In(p))
    BY <1>1 DEF Submission, Left
  <1>3. /\ again \in Submission /\ again.phase = "asked" /\ again.sent = old.sent
        /\ again.shown = old.shown /\ Left(again)
    BY <1>1 DEF Submission, Left
  <1>4. UNCHANGED <<area, page, cache, log>>
    BY DEF Pages!Deny, Pages!Refuse, Pages!Challenge, Pages!CancelChallenge, Pages!SubmitChallenge,
           Pages!WrongFactor, Pages!Verified, Pages!Rejected
  <1>5. CASE Pages!Deny(c) \/ Pages!Refuse(c)
    <2>1. PICK p \in {"denied", "refused"} : form' = [form EXCEPT ![c] = In(p)] /\ pending' = pending
      BY <1>5 DEF Pages!Deny, Pages!Refuse
    <2>2. ~Challenged(In(p))
      BY <1>2 DEF Challenged
    <2> HIDE DEF In
    <2> QED BY <1>2, <1>4, <2>1, <2>2, PhaseStep
  <1>6. CASE Pages!Challenge(c)
    <2>1. \/ form' = [form EXCEPT ![c] = In("challenge")] /\ pending = NoSession /\ pending' = c
          \/ form' = [form EXCEPT ![c] = Pages!Idle] /\ pending' = pending
          \/ /\ form' = [form EXCEPT ![c] = In("stranded")] /\ pending' = pending
             /\ ~old.mounted /\ ~old.retried
      BY <1>6 DEF Pages!Challenge, Pages!Strand
    <2>2. ~Challenged(In("stranded"))
      BY <1>2 DEF Challenged
    <2> HIDE DEF In
    <2> QED BY <1>2, <1>4, <2>1, <2>2, IdleIsASubmission, PhaseStep
  <1>7. CASE Pages!CancelChallenge(c) \/ Pages!Rejected(c)
    <2>1. /\ form' = [form EXCEPT ![c] = Pages!Idle]
          /\ pending' = pending \/ (pending' = NoSession /\ pending = c)
      BY <1>7 DEF Pages!CancelChallenge, Pages!Rejected
    <2> QED BY <1>4, <2>1, IdleIsASubmission, PhaseStep
  <1>8. CASE Pages!SubmitChallenge(c)
    <2>1. form' = [form EXCEPT ![c] = In("verifying")] /\ pending' = pending /\ pending = c
      BY <1>8 DEF Pages!SubmitChallenge
    <2> HIDE DEF In
    <2> QED BY <1>2, <1>4, <2>1, PhaseStep
  <1>9. CASE Pages!WrongFactor(c)
    <2>1. old.phase = "verifying" /\ pending' = pending
      BY <1>9 DEF Pages!WrongFactor
    <2>2. CASE old.heard
      <3>1. form' = [form EXCEPT ![c] = In("challenge")] /\ pending = c
        BY <1>1, <1>9, <2>1, <2>2 DEF Pages!WrongFactor, Challenged
      <3> HIDE DEF In
      <3> QED BY <1>2, <1>4, <2>1, <3>1, PhaseStep
    <2>3. CASE ~old.heard
      <3>1. form' = [form EXCEPT ![c] = Pages!Idle]
        BY <1>9, <2>3 DEF Pages!WrongFactor
      <3> QED BY <1>4, <2>1, <3>1, IdleIsASubmission, PhaseStep
    <2> QED BY <2>2, <2>3
  <1>10. CASE Pages!Verified(c)
    <2>1. /\ form' = [form EXCEPT ![c] = again]
          /\ pending' = IF pending = c THEN NoSession ELSE pending
      BY <1>10 DEF Pages!Verified
    <2>2. ~Challenged(again)
      BY <1>3 DEF Challenged
    <2> HIDE DEF again
    <2> QED BY <1>3, <1>4, <2>1, <2>2, PhaseStep
  <1> QED BY <1>5, <1>6, <1>7, <1>8, <1>9, <1>10

LEMMA ApplyStep ==
    ASSUME ScreensIInv, NEW c \in Submissions[area], Pages!Apply(c)
    PROVE  ScreensIInv'
  <1>1. ScreensTypes /\ log \in Seq(LogRow) /\ form[c] \in Submission /\ form[c].sent = form[c].shown
    BY DEF ScreensIInv, ScreensTypes, SubmissionStands
  <1> DEFINE old == form[c]
             op == old.op
             late == op.sees # Pages!NoKey /\ Pages!Version > old.shown
             r == [changes |-> op.changes, bumps |-> op.bumps, blind |-> late, acked |-> FALSE]
             w == Len(log) + 1
             row == [old EXCEPT !.phase = "applied", !.wrote = w]
  <1>2. /\ log' = Append(log, r) /\ form' = [form EXCEPT ![c] = row]
        /\ op.sees # Pages!NoKey => Pages!Version <= old.sent
        /\ UNCHANGED <<area, page, cache, pending>>
    BY DEF Pages!Apply, Pages!Now
  <1>3. op \in AreaOps /\ old.sent \in Nat /\ Pages!Version \in Nat
    BY <1>1, LatestWrites DEF Submission
  <1>4. late = FALSE
    BY <1>1, <1>2, <1>3
  <1> HIDE DEF late
  <1>5. r \in LogRow /\ ~r.acked /\ r.changes = op.changes
    BY <1>3, <1>4 DEF LogRow
  <1> HIDE DEF r
  <1>6. Grown /\ Len(log') = Len(log) + 1 /\ log'[Len(log) + 1] = r
    BY <1>1, <1>2, <1>5, LogGrows
  <1>7. Len(log) \in Nat
    BY <1>1
  <1>8. /\ row \in Submission /\ row.phase = "applied" /\ row.wrote = w /\ row.op = op
        /\ row.sent = row.shown
    <2>1. old \in Submission /\ w \in Nat /\ old.sent = old.shown
      BY <1>1, <1>7
    <2> HIDE DEF old, w
    <2> QED BY <2>1 DEF Submission
  <1> HIDE DEF row
  <1>9. SubmissionStands(row, log') /\ ~Challenged(row)
    BY <1>5, <1>6, <1>7, <1>8 DEF SubmissionStands, Challenged, Left
  <1>10. /\ \A d \in Submissions[area] : Challenged(form[d]) => pending' = d
         /\ pending' \in Submissions[area] \union {NoSession}
    BY <1>1, <1>2 DEF ScreensIInv, ScreensTypes
  <1> QED BY <1>2, <1>6, <1>8, <1>9, <1>10, FormStep

LEMMA SucceedStep ==
    ASSUME ScreensIInv, NEW c \in Submissions[area], Pages!Succeed(c)
    PROVE  ScreensIInv'
  <1>1. /\ ScreensTypes /\ area \in Areas /\ log \in Seq(LogRow) /\ form[c] \in Submission
        /\ SubmissionStands(form[c], log) /\ form[c].phase = "applied" /\ UNCHANGED area
    BY DEF ScreensIInv, ScreensTypes, Pages!Succeed
  <1>2. CASE ~form[c].heard
    <2>1. form' = [form EXCEPT ![c] = Pages!Idle] /\ UNCHANGED <<page, cache, pending, log>>
      BY <1>2 DEF Pages!Succeed
    <2> QED BY <1>1, <2>1, IdleIsASubmission, PhaseStep
  <1>3. CASE form[c].heard
    <2> DEFINE op == form[c].op
               w == form[c].wrote
               moves == op.next # "stay" /\ op.next # page
               renewed == Pages!Renewed(op, cache)
               owed == [k \in Pages!Keys |-> Owed(log', k)]
    <2>1. /\ page' = IF moves THEN op.next ELSE page
          /\ cache' = IF moves THEN Pages!Mount(op.next, FALSE, renewed) ELSE renewed
          /\ form' = [d \in Submissions[area] |-> IF d = c THEN Pages!Idle
                                                  ELSE IF moves THEN Pages!Leave(d) ELSE form[d]]
          /\ pending' = IF moves THEN NoSession ELSE pending
          /\ log' = [log EXCEPT ![w].acked = TRUE]
      BY <1>3 DEF Pages!Succeed
    <2>2. op \in AreaOps /\ Covered(area, op) /\ (op.next = "stay" \/ op.next \in DOMAIN Pages!Screens)
      <3>1. op \in AreaOps
        BY <1>1 DEF Submission
      <3> QED BY <1>1, <3>1, OpsFit
    <2>3. w \in 1..Len(log) /\ log[w].changes = op.changes /\ log[w] \in LogRow /\ Len(log) \in Nat
      BY <1>1 DEF SubmissionStands
    <2> DEFINE r == [log[w] EXCEPT !.acked = TRUE]
    <2>4. r \in LogRow /\ r.changes = op.changes
      BY <2>3 DEF LogRow
    <2>5. log' = [log EXCEPT ![w] = r]
      BY <2>1
    <2> HIDE DEF r
    <2>6. /\ log' \in Seq(LogRow) /\ Len(log') = Len(log) /\ log'[w] = r
          /\ \A i \in 1..Len(log) : i # w => log'[i] = log[i]
      BY <1>1, <2>3, <2>4, <2>5
    <2>7. \A i \in 1..Len(log) : log'[i].changes = log[i].changes
      BY <2>3, <2>4, <2>6
    <2>8. \A k : /\ Owed(log', k) \subseteq Owed(log, k) \union {w}
                 /\ w \in Owed(log', k) => k \in op.changes \ Pages!Overlooked(area, op.changes)
      BY <2>3, <2>4, <2>6 DEF Owed
    <2>9. /\ \A k \in Pages!Keys : Renewable(cache[k], owed[k], op, k)
          /\ cache \in [Pages!Keys -> Entry]
      <3>1. \A k \in Pages!Keys : Stands(cache[k], Owed(log, k), k, Pages!Mounted)
        BY DEF ScreensIInv
      <3>2. \A k \in Pages!Keys : Renewable(cache[k], Owed(log', k), op, k)
        <4> HIDE DEF op, w
        <4> QED BY <2>8, <3>1 DEF Renewable
      <3> QED BY <1>1, <3>2 DEF ScreensTypes
    <2>10. /\ renewed \in [Pages!Keys -> Entry]
           /\ \A k \in Pages!Keys : Stands(renewed[k], owed[k], k, Pages!Mounted)
      <3> HIDE DEF owed, op
      <3> QED BY <2>2, <2>9, RenewedStands
    <2>11. \A k \in Pages!Keys : Stands(renewed[k], Owed(log', k), k, Pages!Mounted)
      <3> HIDE DEF renewed
      <3> QED BY <2>10
    <2>12. \A d \in Submissions[area] : /\ form[d] \in Submission /\ SubmissionStands(form[d], log')
                                        /\ Challenged(form[d]) => pending = d
      BY <1>1, <2>6, <2>7 DEF ScreensIInv, ScreensTypes, SubmissionStands
    <2>13. CASE moves
      <3>1. \A d \in Submissions[area] :
               form'[d] \in Submission /\ SubmissionStands(form'[d], log') /\ ~Challenged(form'[d])
        <4> TAKE d \in Submissions[area]
        <4>1. CASE d = c
          BY <2>1, <4>1, IdleIsASubmission
        <4>2. CASE d # c
          <5>1. form'[d] = Pages!Leave(d)
            BY <2>1, <2>13, <4>2
          <5>2. SubmissionStands(Pages!Leave(d), log')
            BY <2>6, <2>7, LeaveStands DEF SubmissionStands
          <5> QED BY <5>1, <5>2, LeaveStands
        <4> QED BY <4>1, <4>2
      <3>2. form' \in [Submissions[area] -> Submission]
        BY <2>1, <3>1
      <3>3. \A k \in Pages!Keys : Marked(renewed[k], Owed(log', k))
        BY <2>11 DEF Stands
      <3>4. /\ op.next \in DOMAIN Pages!Screens /\ page' = op.next /\ pending' = NoSession
            /\ cache' = Pages!Mount(op.next, FALSE, renewed)
        BY <2>1, <2>2, <2>13
      <3> DEFINE aged == FALSE
      <3>5. aged \in BOOLEAN /\ cache' = Pages!Mount(op.next, aged, renewed)
        BY <3>4
      <3>6. Len(log) <= Len(log')
        BY <2>3, <2>6
      <3> HIDE DEF renewed, op, aged
      <3> QED BY <1>1, <2>6, <2>7, <2>10, <3>1, <3>2, <3>3, <3>4, <3>5, <3>6, LeaveStep
    <2>14. CASE ~moves
      <3>1. page' = page /\ cache' = renewed /\ pending' = pending
        BY <2>1, <2>14
      <3>2. \A d \in Submissions[area] :
               /\ form'[d] \in Submission /\ SubmissionStands(form'[d], log')
               /\ Challenged(form'[d]) => pending' = d
        BY <2>1, <2>12, <2>14, <3>1, IdleIsASubmission
      <3>3. form' \in [Submissions[area] -> Submission]
        BY <2>1, <3>2
      <3>4. ScreensTypes'
        BY <1>1, <2>6, <2>10, <3>1, <3>3, SameArea DEF ScreensTypes
      <3>5. Pages!Mounted' = Pages!Mounted
        BY <1>1, <3>1, SameArea DEF Pages!Mounted
      <3>6. \A k \in Pages!Keys' : Stands(cache[k], Owed(log, k), k, Pages!Mounted)'
        BY <1>1, <2>11, <3>1, <3>5, SameArea DEF Stands, Marked, Owed
      <3>7. \A d \in Submissions[area]' :
              SubmissionStands(form[d], log)' /\ (Challenged(form[d])' => pending' = d)
        BY <1>1, <3>2 DEF SubmissionStands, Challenged
      <3> QED BY <3>4, <3>6, <3>7 DEF ScreensIInv
    <2> QED BY <2>13, <2>14
  <1> QED
    <2>1. form[c].heard \in BOOLEAN
      BY <1>1 DEF Submission
    <2> QED BY <1>2, <1>3, <2>1

LEMMA ScreensStep == ASSUME ScreensIInv, Pages!ScreensNext PROVE ScreensIInv'
  <1>1. ASSUME NEW k \in Pages!Keys,
               Pages!Serve(k) \/ Pages!Answer(k) \/ Pages!FetchFails(k) \/ Pages!Refetch(k)
        PROVE  ScreensIInv'
    BY <1>1, ReadsStep
  <1>2. CASE Pages!Reconnect
    BY <1>2, ReconnectStep
  <1>3. ASSUME NEW name \in DOMAIN Pages!Screens, Pages!Visit(name) PROVE ScreensIInv'
    BY <1>3, VisitStep
  <1>4. ASSUME NEW name \in DOMAIN Pages!Screens, NEW op \in Pages!Screens[name].ops,
               Pages!WriteElsewhere(op) \/ \E c \in Submissions[area] : Pages!Submit(c, op)
        PROVE  ScreensIInv'
    <2>1. op \in AreaOps
      BY DEF AreaOps
    <2> QED BY <1>4, <2>1, WriteElsewhereStep, SubmitStep
  <1>5. ASSUME NEW c \in Submissions[area],
               \/ Pages!Deny(c) \/ Pages!Refuse(c) \/ Pages!Challenge(c) \/ Pages!CancelChallenge(c)
               \/ Pages!SubmitChallenge(c) \/ Pages!WrongFactor(c) \/ Pages!Verified(c)
               \/ Pages!Rejected(c)
        PROVE  ScreensIInv'
    BY <1>5, SubmissionsStep
  <1>6. ASSUME NEW c \in Submissions[area], Pages!Apply(c) \/ Pages!Succeed(c) PROVE ScreensIInv'
    BY <1>6, ApplyStep, SucceedStep
  <1> QED BY <1>1, <1>2, <1>3, <1>4, <1>5, <1>6 DEF Pages!ScreensNext

LEMMA ScreensHoldThen == ASSUME ScreensIInv PROVE Pages!ScreensHold
  <1>1. ScreensTypes /\ log \in Seq(LogRow)
    BY DEF ScreensIInv, ScreensTypes
  <1>2. Pages!OwnWritesAreShown
    <2> SUFFICES ASSUME NEW i \in 1..Len(log), log[i].acked,
                        NEW k \in (log[i].changes \ Pages!Overlooked(area, log[i].changes))
                                     \intersect Pages!Keys,
                        cache[k].has /\ cache[k].at < i
                 PROVE  /\ cache[k].stale
                        /\ k \in Pages!Mounted => cache[k].fetch # "no" \/ cache[k].failed
      BY DEF Pages!OwnWritesAreShown, Pages!Now
    <2>1. i \in Owed(log, k)
      BY DEF Owed
    <2>2. Stands(cache[k], Owed(log, k), k, Pages!Mounted)
      BY DEF ScreensIInv
    <2> QED BY <2>1, <2>2 DEF Stands, Marked
  <1>3. Pages!DecidedOnWhatWasShown
    BY <1>1, LogRows DEF Pages!DecidedOnWhatWasShown, Pages!Now, LogRow
  <1>4. Pages!OnlyTheLeftAreStranded
    BY DEF ScreensIInv, Pages!OnlyTheLeftAreStranded, Challenged, SubmissionStands, Left
  <1> QED BY <1>2, <1>3, <1>4 DEF Pages!ScreensHold

-----------------------------------------------------------------------------
(* A browser with its tabs and pages.                                       *)

BrowsersIInv ==
    /\ part = "tab" => BrowserIInv(OneTab, Requests)
    /\ part = "tabs" => BrowserIInv(TwoTabs, Challenges)
    /\ part = "pages" => ScreensIInv

LEMMA BrowserStays ==
    ASSUME NEW ts, NEW cs, BrowserIInv(ts, cs), UNCHANGED browserVars
    PROVE  BrowserIInv(ts, cs)'
  BY SameIsQuiet, RowsStay DEF browserVars

LEMMA ScreensStay == ASSUME ScreensIInv, UNCHANGED screensVars PROVE ScreensIInv'
  <1>1. UNCHANGED <<area, page, cache, form, pending, log>>
    BY DEF screensVars
  <1>2. ScreensTypes'
    BY <1>1, SameArea DEF ScreensIInv, ScreensTypes
  <1>3. Pages!Mounted' = Pages!Mounted
    BY <1>1, SameArea DEF Pages!Mounted
  <1>4. \A k \in Pages!Keys' : Stands(cache[k], Owed(log, k), k, Pages!Mounted)'
    BY <1>1, <1>3, SameArea DEF ScreensIInv, Stands, Marked, Owed
  <1>5. \A c \in Submissions[area]' :
           SubmissionStands(form[c], log)' /\ (Challenged(form[c])' => pending' = c)
    BY <1>1 DEF ScreensIInv, SubmissionStands, Challenged
  <1> QED BY <1>2, <1>4, <1>5 DEF ScreensIInv

LEMMA BrowsersInductive ==
    /\ IdentityInit => BrowsersIInv
    /\ BrowsersIInv /\ [IdentityNext]_identityVars => BrowsersIInv'
    /\ BrowsersIInv => BrowsersBehave
  <1>1. IdentityInit => BrowsersIInv
    BY BrowserInitial, ScreensInitial DEF IdentityInit, BrowsersIInv
  <1>2. ASSUME BrowsersIInv, [IdentityNext]_identityVars PROVE BrowsersIInv'
    <2>0. part' = part
      BY <1>2 DEF IdentityNext, identityVars
    <2>1. CASE part = "tab"
      <3>1. OneTabKinds \in SUBSET {"page", "login", "logout", "logout-all"}
        BY DEF OneTabKinds
      <3>2. Browser(OneTab, Requests, OneTabKinds)!BrowserNext \/ UNCHANGED browserVars
        BY <1>2, <2>1 DEF IdentityNext, AccountNext, identityVars
      <3>3. BrowserIInv(OneTab, Requests)'
        BY <1>2, <2>1, <3>1, <3>2, BrowserStep, BrowserStays DEF BrowsersIInv
      <3> QED BY <2>0, <2>1, <3>3 DEF BrowsersIInv, OneTab
    <2>2. CASE part = "tabs"
      <3>1. TwoTabsKinds \in SUBSET {"page", "login", "logout", "logout-all"}
        BY DEF TwoTabsKinds
      <3>2. Browser(TwoTabs, Challenges, TwoTabsKinds)!BrowserNext \/ UNCHANGED browserVars
        BY <1>2, <2>2 DEF IdentityNext, AccountNext, identityVars
      <3>3. BrowserIInv(TwoTabs, Challenges)'
        BY <1>2, <2>2, <3>1, <3>2, BrowserStep, BrowserStays DEF BrowsersIInv
      <3> QED BY <2>0, <2>2, <3>3 DEF BrowsersIInv, TwoTabs
    <2>3. CASE part = "pages"
      <3>1. Pages!ScreensNext \/ UNCHANGED screensVars
        BY <1>2, <2>3 DEF IdentityNext, AccountNext, identityVars
      <3>2. ScreensIInv'
        BY <1>2, <2>3, <3>1, ScreensStep, ScreensStay DEF BrowsersIInv
      <3> QED BY <2>0, <2>3, <3>2 DEF BrowsersIInv
    <2>4. CASE part \notin {"tab", "tabs", "pages"}
      BY <2>0, <2>4 DEF BrowsersIInv
    <2> QED BY <2>1, <2>2, <2>3, <2>4
  <1>3. BrowsersIInv => BrowsersBehave
    BY BrowserHoldsThen, ScreensHoldThen DEF BrowsersIInv, BrowsersBehave
  <1> QED BY <1>1, <1>2, <1>3

-----------------------------------------------------------------------------
(* The composition the model checker runs: its parts hold the invariants of  *)
(* the three components, whichever part a behaviour follows.                 *)

LEMMA PartsStep ==
    [IdentityNext]_identityVars =>
        /\ [SessionsNext]_sessionVars
        /\ [MfaNext]_mfaVars
        /\ [AccountsNext]_accountsVars
<1> SUFFICES ASSUME [IdentityNext]_identityVars
             PROVE  /\ [SessionsNext]_sessionVars
                    /\ [MfaNext]_mfaVars
                    /\ [AccountsNext]_accountsVars
  OBVIOUS
<1>1. CASE UNCHANGED identityVars \/ UNCHANGED <<sessionVars, mfaVars, accountsVars, browserVars>>
  BY <1>1 DEF identityVars
<1>2. CASE AccountNext
  BY <1>2 DEF AccountNext, AccountsNext
<1> QED BY <1>1, <1>2 DEF IdentityNext

LEMMA IdentityInductive ==
    IdentitySpec => []SessionsIInv /\ []MfaIInv /\ []AccountsIInv
<1>1. IdentityInit => SessionsIInv /\ MfaIInv /\ AccountsIInv
  BY SessionsInductive, MfaInductive, AccountsInductive DEF IdentityInit
<1>2. SessionsIInv /\ MfaIInv /\ AccountsIInv /\ [IdentityNext]_identityVars
        => SessionsIInv' /\ MfaIInv' /\ AccountsIInv'
  BY SessionsInductive, MfaInductive, AccountsInductive, PartsStep
<1> QED BY <1>1, <1>2, PTL DEF IdentitySpec

(* A usable session rests on the password last set or on the one the hash   *)
(* verifies, which differ only where a late rehash brought the first back.  *)
THEOREM SessionsProvePasswordHolds == IdentitySpec => []SessionsProvePassword
<1>1. SessionsIInv => SessionsProvePassword
  BY DEF SessionsIInv
<1> QED BY <1>1, IdentityInductive, PTL

(* One usable session of a family, and one active reset token.              *)
THEOREM OneLiveCredentialHolds == IdentitySpec => []OneLiveCredential
<1>1. SessionsIInv => OneLiveCredential
  BY DEF SessionsIInv
<1> QED BY <1>1, IdentityInductive, PTL

(* No operation undoes what the preflight verified.                         *)
THEOREM PreflightHoldsAlways == IdentitySpec => []PreflightHolds
BY AccountsSafe, IdentityInductive, PTL

(* The rows of the three components are those the schema allows, and no     *)
(* failed login is lost on the way to a lock.                               *)
THEOREM LocksHoldAlways == IdentitySpec => []LocksHold
<1>1. SessionsIInv /\ MfaIInv /\ AccountsIInv => LocksHold
  BY DEF SessionsIInv, MfaIInv, AccountsIInv, LocksHold, IdentityTypeOK
<1> QED BY <1>1, IdentityInductive, PTL

(* A factor is used once, and a confirmed one is never replaced.            *)
THEOREM FactorsStandAlways == IdentitySpec => FactorsStand
<1>1. MfaIInv /\ [IdentityNext]_identityVars =>
        [\A p \in Ceremonies : LET f == ceremony[p].factor IN
           /\ Doing(p, "login") \/ Doing(p, "stepUp")
           /\ ceremony'[p].pc = "idle"
           /\ f \in accepted
           /\ f.kind = "totp" => f.gen = credential.gen
           => UNCHANGED <<credential, batch, challenge, assured>>]_mfaVars
  BY FactorsStep, PartsStep
<1>2. MfaIInv /\ [IdentityNext]_identityVars =>
        [/\ credential.status = "ACTIVE" => credential'.status \in {"ACTIVE", "REVOKED"}
         /\ \A c \in Challenges :
               challenge[c].state = "open" /\ challenge'[c].state = "used"
               => credential.status = "ACTIVE" /\ challenge[c].gen = credential.gen]_mfaVars
  BY FactorStands, PartsStep DEF FactorKept
<1> QED BY <1>1, <1>2, IdentityInductive, PTL DEF IdentitySpec, FactorsStand, FactorsAreUsedOnce, FactorIsNotReplaced

(* No tab plays back a refresh token of its own unless two presented it at   *)
(* once or the answer to a refresh was lost, nobody waits for a refresh that *)
(* waits for him, only a submission whose page was left waits for ever for   *)
(* its step-up, and the pages do not contradict what an administrator was    *)
(* told was done but for what his own account's pages overlook, for any      *)
(* number of tabs, requests, submissions and writes (refresh-orchestrator.ts, *)
(* use-step-up-action.tsx, the pages' invalidations).                        *)
THEOREM BrowsersBehaveCorrect == IdentitySpec => []BrowsersBehave
BY BrowsersInductive, PTL DEF IdentitySpec
=============================================================================
