--------------------------- MODULE AdminSessions ----------------------------
(* The sessions of one administrator account: login, refresh-token rotation, *)
(* logout, password change and recovery, deactivation and reactivation.      *)
(* Rows of different accounts never meet in these transactions.              *)
(*                                                                           *)
(* PostgreSQL is modelled by what the code relies on.  SELECT .. FOR UPDATE  *)
(* holds a row until its transaction ends (pc "rotating").  An UPDATE of     *)
(* many rows sees only the rows that existed when it began, waits for those  *)
(* another transaction holds and re-evaluates its condition on them (pc      *)
(* "revoking").  A Serializable transaction (pc "serial") fails if a row it  *)
(* writes was written after its snapshot ("stale").                          *)
(*                                                                           *)
(* Bounds: MaxPasswords password generations, MaxSuspensions deactivations   *)
(* and the sizes of Sessions and Tokens.                                     *)
EXTENDS Naturals, FiniteSets

CONSTANTS
    Sessions,       \* session rows
    Tokens,         \* password reset rows
    Requests,       \* HTTP requests in flight
    MaxPasswords,
    MaxSuspensions,
    NoSession,
    NoToken

ASSUME SessionsAssumption ==
    /\ MaxPasswords \in Nat
    /\ MaxSuspensions \in Nat
    /\ NoSession \notin Sessions
    /\ NoToken \notin Tokens

VARIABLES
    status,     \* User.status
    password,   \* resets and changes of the password so far (passwordChangedAt)
    hash,       \* User.passwordHash: the password it verifies, and its salt
    era,        \* deactivations of the account so far
    session,    \* Session rows
    reset,      \* PasswordReset rows; spent: used, superseded or expired
    request     \* what each request has read, and where it stands

sessionVars == <<status, password, hash, era, session, reset, request>>

\* A session row.  family is the first session of its chain; ended stands for a
\* revokedAt that is set or an expiresAt that has passed, which every reader
\* treats alike.  proof and era (history) are the password generation its
\* credentials were checked against and the deactivations before its login.
Row == [family : Sessions \union {NoSession}, ended : BOOLEAN, rotated : BOOLEAN,
        proof : 0..MaxPasswords, era : 0..MaxSuspensions]

\* Two hashes differ by their salt, even those of one password.
Hash == [password : 0..MaxPasswords, salt : Nat]

FirstHash == [password |-> 0, salt |-> 0]

NoRow == [family |-> NoSession, ended |-> FALSE, rotated |-> FALSE, proof |-> 0, era |-> 0]

RequestState ==
    [pc : {"idle", "rehashing", "verified", "looked", "rotating", "revoking", "hashing", "serial"},
     scope : {"none", "family", "all", "usable", "suspend"},
     sid : Sessions \union {NoSession}, token : Tokens \union {NoToken},
     hash : Hash, seen : SUBSET Sessions, stale : BOOLEAN]

Idle == [pc |-> "idle", scope |-> "none", sid |-> NoSession, token |-> NoToken,
         hash |-> FirstHash, seen |-> {}, stale |-> FALSE]

SessionsTypeOK ==
    /\ status \in {"ACTIVE", "INACTIVE"}
    /\ password \in 0..MaxPasswords
    /\ hash \in Hash
    /\ era \in 0..MaxSuspensions
    /\ session \in [Sessions -> Row]
    /\ reset \in [Tokens -> {"none", "active", "spent"}]
    /\ request \in [Requests -> RequestState]

Issued == {s \in Sessions : session[s].family # NoSession}

\* The next row: its identifier means nothing, so any free one will do.
Fresh(rows) == CHOOSE row \in rows : TRUE

\* The session accepted by findUsableByIdForUser.
Usable(s) == s \in Issued /\ ~session[s].ended /\ ~session[s].rotated

\* What JwtAuthGuard lets through: a usable session of an ACTIVE account.
Admitted(s) == status = "ACTIVE" /\ Usable(s)

\* Rows and account held by a transaction that has not committed.
Held(s) == \E r \in Requests : request[r].pc = "rotating" /\ request[r].sid = s
AccountHeld == \E r \in Requests : request[r].pc = "revoking" /\ request[r].scope = "suspend"

At(r, pc) == request[r].pc = pc
Become(r, state) == request' = [request EXCEPT ![r] = state]

\* A request that committed a write goes on from the given state: every
\* Serializable transaction already open on these rows will fail.
CommitAs(r, state) ==
    request' = [q \in Requests |->
        IF q = r THEN state
        ELSE IF request[q].pc = "serial" THEN [request[q] EXCEPT !.stale = TRUE]
        ELSE request[q]]

Commit(r) == CommitAs(r, Idle)

\* The first hash may have been made with other options than today's: salt 0.
SessionsInit ==
    /\ status = "ACTIVE"
    /\ password = 0
    /\ \E salt \in {0, 1} : hash = [FirstHash EXCEPT !.salt = salt]
    /\ era = 0
    /\ session = [s \in Sessions |-> NoRow]
    /\ reset = [t \in Tokens |-> "none"]
    /\ request = [r \in Requests |-> Idle]

-----------------------------------------------------------------------------
(* Login *)

\* A hash this code writes has today's options.
NeedsRehash == hash.salt = 0

NewHash(generation) == hash' = [password |-> generation, salt |-> hash.salt + 1]

\* The account is read without a lock and the password verified against it.
Login(r) ==
    /\ At(r, "idle")
    /\ status = "ACTIVE"
    /\ Become(r, [Idle EXCEPT !.pc = IF NeedsRehash THEN "rehashing" ELSE "verified",
                             !.hash = hash])
    /\ UNCHANGED <<status, password, hash, era, session, reset>>

\* The password it verified is hashed anew and written, whatever was written
\* meanwhile; the login goes on from the row this returns.
Rehash(r) ==
    /\ At(r, "rehashing")
    /\ ~AccountHeld
    /\ NewHash(request[r].hash.password)
    /\ CommitAs(r, [request[r] EXCEPT !.pc = "verified", !.hash = hash'])
    /\ UNCHANGED <<status, password, era, session, reset>>

\* Mutant: the password hash is not compared again.
StillActive(r) == status = "ACTIVE"

Unchanged(r) == status = "ACTIVE" /\ hash = request[r].hash

\* The account row is locked and re-read before the session is created.
PersistLogin(r) ==
    /\ At(r, "verified")
    /\ ~AccountHeld
    /\ Unchanged(r)
    /\ Sessions # Issued
    /\ LET s == Fresh(Sessions \ Issued) IN
          session' = [session EXCEPT ![s] =
              [NoRow EXCEPT !.family = s, !.proof = request[r].hash.password, !.era = era]]
    /\ Commit(r)
    /\ UNCHANGED <<status, password, hash, era, reset>>

RefuseLogin(r) ==
    /\ At(r, "verified")
    /\ ~AccountHeld
    /\ ~Unchanged(r)
    /\ Become(r, Idle)
    /\ UNCHANGED <<status, password, hash, era, session, reset>>

-----------------------------------------------------------------------------
(* Refresh: any token ever issued may be presented, any number of times *)

Lookup(r, s) ==
    /\ At(r, "idle")
    /\ status = "ACTIVE"
    /\ Become(r, [Idle EXCEPT !.pc = "looked", !.sid = s])
    /\ UNCHANGED <<status, password, hash, era, session, reset>>

\* Mutant: the row is not tested again under its lock.
RotatableAnyway(r) == TRUE

\* rotateSession decides from the row it locks, not from the row looked up.
Rotatable(r) == ~session[request[r].sid].rotated

Rotate(r) ==
    LET row == session[request[r].sid] IN
    /\ At(r, "looked")
    /\ ~Held(request[r].sid)
    /\ IF row.ended THEN Become(r, Idle)
       ELSE IF Rotatable(r) THEN Become(r, [request[r] EXCEPT !.pc = "rotating"])
       ELSE Become(r, [Idle EXCEPT !.pc = "revoking", !.scope = "family",
                          !.seen = {s \in Issued : session[s].family = row.family}])
    /\ UNCHANGED <<status, password, hash, era, session, reset>>

\* Parent and child commit together; the child carries on what the locked row
\* stood for.
CommitRotation(r) ==
    /\ At(r, "rotating")
    /\ Sessions # Issued
    /\ LET c == Fresh(Sessions \ Issued) IN
          session' = [s \in Sessions |->
              IF s = c THEN [session[request[r].sid] EXCEPT !.rotated = FALSE]
              ELSE IF s = request[r].sid THEN [session[s] EXCEPT !.rotated = TRUE]
              ELSE session[s]]
    /\ Commit(r)
    /\ UNCHANGED <<status, password, hash, era, reset>>

\* The mandatory event fails, or the process stops: nothing was written.
AbortRotation(r) ==
    /\ At(r, "rotating")
    /\ Become(r, Idle)
    /\ UNCHANGED <<status, password, hash, era, session, reset>>

-----------------------------------------------------------------------------
(* Revocation *)

Logout(s) ==
    /\ ~Held(s)
    /\ ~session[s].ended
    /\ session' = [session EXCEPT ![s].ended = TRUE]
    /\ request' = [q \in Requests |-> IF At(q, "serial") THEN [request[q] EXCEPT !.stale = TRUE]
                                      ELSE request[q]]
    /\ UNCHANGED <<status, password, hash, era, reset>>

\* An UPDATE of the account's sessions begins.
BeginRevoking(r, scope) ==
    Become(r, [Idle EXCEPT !.pc = "revoking", !.scope = scope, !.seen = Issued])

LogoutAll(r) ==
    /\ At(r, "idle")
    /\ status = "ACTIVE"
    /\ BeginRevoking(r, "all")
    /\ UNCHANGED <<status, password, hash, era, session, reset>>

RevokeSessions(r) ==
    /\ At(r, "idle")
    /\ BeginRevoking(r, "usable")
    /\ UNCHANGED <<status, password, hash, era, session, reset>>

\* Status and sessions change in one transaction, which holds the account.
Deactivate(r) ==
    /\ At(r, "idle")
    /\ status = "ACTIVE"
    /\ ~AccountHeld
    /\ era < MaxSuspensions
    /\ BeginRevoking(r, "suspend")
    /\ UNCHANGED <<status, password, hash, era, session, reset>>

Revokes(r, s) ==
    /\ s \in request[r].seen
    /\ ~session[s].ended
    /\ request[r].scope \in {"usable", "suspend"} => Usable(s)

FinishRevoking(r) ==
    /\ At(r, "revoking")
    /\ \A s \in request[r].seen : ~Held(s)
    /\ session' = [s \in Sessions |->
          IF Revokes(r, s) THEN [session[s] EXCEPT !.ended = TRUE] ELSE session[s]]
    /\ IF request[r].scope = "suspend"
         THEN status' = "INACTIVE" /\ era' = era + 1
         ELSE UNCHANGED <<status, era>>
    /\ Commit(r)
    /\ UNCHANGED <<password, hash, reset>>

Reactivate(r) ==
    /\ At(r, "idle")
    /\ status = "INACTIVE"
    /\ status' = "ACTIVE"
    /\ Commit(r)
    /\ UNCHANGED <<password, hash, era, session, reset>>

-----------------------------------------------------------------------------
(* Password recovery and change *)

\* One transaction under the account's lock: at most one token stays active.
ForgotPassword(r) ==
    /\ At(r, "idle")
    /\ status = "ACTIVE"
    /\ ~AccountHeld
    /\ \E t \in Tokens : reset[t] = "none"
    /\ LET t == Fresh({u \in Tokens : reset[u] = "none"}) IN
          reset' = [u \in Tokens |-> IF u = t THEN "active"
                                        ELSE IF reset[u] = "active" THEN "spent" ELSE reset[u]]
    /\ request' = [q \in Requests |->
          IF At(q, "serial") /\ request[q].token # NoToken /\ reset[request[q].token] = "active"
          THEN [request[q] EXCEPT !.stale = TRUE] ELSE request[q]]
    /\ UNCHANGED <<status, password, hash, era, session>>

\* Token, account and history are read and the new password hashed first.
ResetPassword(r, t) ==
    /\ At(r, "idle")
    /\ status = "ACTIVE"
    /\ reset[t] = "active"
    /\ Become(r, [Idle EXCEPT !.pc = "hashing", !.token = t, !.hash = hash])
    /\ UNCHANGED <<status, password, hash, era, session, reset>>

ChangePassword(r, s) ==
    /\ At(r, "idle")
    /\ Admitted(s)
    /\ Become(r, [Idle EXCEPT !.pc = "hashing", !.sid = s, !.hash = hash])
    /\ UNCHANGED <<status, password, hash, era, session, reset>>

OpenSerial(r) ==
    /\ At(r, "hashing")
    /\ Become(r, [request[r] EXCEPT !.pc = "serial"])
    /\ UNCHANGED <<status, password, hash, era, session, reset>>

\* The new password, with a hash of today's options.
SetPassword ==
    /\ password < MaxPasswords
    /\ password' = password + 1
    /\ NewHash(password + 1)

\* What the transaction's conditional statements require.
Claims(r) ==
    /\ ~request[r].stale
    /\ Unchanged(r)
    /\ IF request[r].token # NoToken THEN reset[request[r].token] = "active"
       ELSE Usable(request[r].sid)

Waits == AccountHeld \/ \E s \in Sessions : Held(s)

CommitReset(r) ==
    /\ At(r, "serial") /\ request[r].token # NoToken
    /\ ~Waits /\ Claims(r)
    /\ SetPassword
    /\ reset' = [reset EXCEPT ![request[r].token] = "spent"]
    /\ session' = [s \in Sessions |-> IF s \in Issued THEN [session[s] EXCEPT !.ended = TRUE]
                                      ELSE session[s]]
    /\ Commit(r)
    /\ UNCHANGED <<status, era>>

\* The acting session keeps its refresh token, every other one is revoked.
CommitChange(r) ==
    /\ At(r, "serial") /\ request[r].sid # NoSession
    /\ ~Waits /\ Claims(r)
    /\ SetPassword
    /\ session' = [s \in Sessions |->
          IF s = request[r].sid THEN [session[s] EXCEPT !.proof = password + 1]
          ELSE IF s \in Issued THEN [session[s] EXCEPT !.ended = TRUE] ELSE session[s]]
    /\ Commit(r)
    /\ UNCHANGED <<status, era, reset>>

AbortSerial(r) ==
    /\ At(r, "serial")
    /\ ~Waits /\ ~Claims(r)
    /\ Become(r, Idle)
    /\ UNCHANGED <<status, password, hash, era, session, reset>>

-----------------------------------------------------------------------------
(* Time *)

ExpireSession(s) ==
    /\ Usable(s)
    /\ session' = [session EXCEPT ![s].ended = TRUE]
    /\ UNCHANGED <<status, password, hash, era, reset, request>>

ExpireToken(t) ==
    /\ reset[t] = "active"
    /\ reset' = [reset EXCEPT ![t] = "spent"]
    /\ UNCHANGED <<status, password, hash, era, session, request>>

SessionsNext ==
    \/ \E r \in Requests :
          \/ Login(r) \/ Rehash(r) \/ PersistLogin(r) \/ RefuseLogin(r)
          \/ \E s \in Issued : Lookup(r, s) \/ ChangePassword(r, s)
          \/ Rotate(r) \/ CommitRotation(r) \/ AbortRotation(r)
          \/ LogoutAll(r) \/ RevokeSessions(r) \/ Deactivate(r)
          \/ FinishRevoking(r) \/ Reactivate(r)
          \/ ForgotPassword(r) \/ OpenSerial(r) \/ CommitReset(r) \/ CommitChange(r) \/ AbortSerial(r)
          \/ \E t \in Tokens : ResetPassword(r, t)
    \/ \E s \in Issued : Logout(s) \/ ExpireSession(s)
    \/ \E t \in Tokens : ExpireToken(t)

SessionsSpec == SessionsInit /\ [][SessionsNext]_sessionVars

-----------------------------------------------------------------------------
(* Properties *)

\* A usable session was opened with, or itself set, the account's last password
\* or the one its hash verifies, whatever login, refresh, reset and change were
\* in flight together; and the hash verifies the last password, unless a login
\* that had verified the first one wrote its rehash later (auth.service.ts login
\* and persistAuthenticatedLogin, password-recovery.service.ts resetPassword
\* and changePassword).
SessionsProvePassword ==
    /\ \A s \in Sessions : Usable(s) => session[s].proof \in {password, hash.password}
    /\ hash.password \in {0, password}

\* A refresh token has one live successor: however often the tokens of a family
\* are presented, at most one of its sessions is usable, and at most one reset
\* token of the account is active (session.service.ts rotateSession,
\* password-reset-token.service.ts createTokenFromRaw).
OneLiveCredential ==
    /\ \A s, u \in Sessions : Usable(s) /\ Usable(u) /\ session[s].family = session[u].family => s = u
    /\ \A t, u \in Tokens : reset[t] = "active" /\ reset[u] = "active" => t = u

\* A reactivated account gets none of its earlier sessions back
\* (admin-users.service.ts reactivateUser).
ReactivationRestoresNothing == \A s \in Sessions : Admitted(s) => session[s].era = era
=============================================================================
