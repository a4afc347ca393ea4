--------------------------- MODULE AdminAccounts ----------------------------
(* Administrator accounts: creation, edition, deactivation, roles, the       *)
(* lockout counter of failed logins, the manual unlock, and the identity     *)
(* policy that keeps one privileged account, which the start-up preflight    *)
(* verifies.  Every operation reads first and writes later; the reads are    *)
(* kept in the request.                                                      *)
(*                                                                           *)
(* Bounds: MaxVersion edits of an account, and the sizes of Accounts and     *)
(* Calls; MaxFailures stands for MAX_FAILED_LOGIN_ATTEMPTS, and a counter    *)
(* passes it by one at most.                                                 *)
EXTENDS Naturals, FiniteSets

CONSTANTS
    Accounts,       \* user rows
    Official,       \* the row of ADMIN_ACCOUNT_EMAIL
    Emails,         \* addresses, among them the two configured ones
    AccountEmail,   \* ADMIN_ACCOUNT_EMAIL
    RecoveryEmail,  \* ADMIN_RECOVERY_EMAIL
    NoEmail,
    RoleNames,      \* the role catalogue
    Calls,          \* requests in flight
    MaxVersion,
    MaxFailures

ASSUME AccountsAssumption ==
    /\ Official \in Accounts
    /\ AccountEmail \in Emails /\ RecoveryEmail \in Emails \ {AccountEmail}
    /\ NoEmail \notin Emails
    /\ "SUPER_ADMIN" \in RoleNames
    /\ MaxVersion \in Nat
    /\ MaxFailures \in Nat \ {0}

VARIABLES
    account,    \* User and UserRole rows
    call        \* what each request has read

accountsVars == <<account, call>>

Privileged == {"SUPER_ADMIN", "ADMIN"}

Account == [email : Emails \union {NoEmail}, status : {"ACTIVE", "INACTIVE"},
            roles : SUBSET RoleNames, version : 0..MaxVersion,
            fails : 0..MaxFailures + 1, lock : {"none", "set", "past"}]

\* Of the row it read a request keeps what it tests again when it writes.
CallState == [op : {"idle", "update", "suspend", "assign", "remove", "unlock", "expired", "count", "claim"},
              target : Accounts, email : Emails, role : RoleNames,
              version : 0..MaxVersion, fails : 0..MaxFailures + 1,
              lock : {"none", "set", "past"}]

Absent == [email |-> NoEmail, status |-> "ACTIVE", roles |-> {}, version |-> 0,
           fails |-> 0, lock |-> "none"]

Waiting == [op |-> "idle", target |-> Official, email |-> AccountEmail, role |-> "SUPER_ADMIN",
            version |-> 0, fails |-> 0, lock |-> "none"]

Exists(u) == account[u].email # NoEmail

AccountsTypeOK ==
    /\ account \in [Accounts -> Account]
    /\ call \in [Calls -> CallState]

AccountsInit ==
    /\ account = [u \in Accounts |->
          IF u = Official THEN [Absent EXCEPT !.email = AccountEmail, !.roles = {"SUPER_ADMIN"}]
          ELSE Absent]
    /\ call = [q \in Calls |-> Waiting]

-----------------------------------------------------------------------------
(* AdminIdentityPolicy *)

MayChangeEmail(current, next) ==
    /\ (current = AccountEmail) <=> (next = AccountEmail)
    /\ next # RecoveryEmail

\* Mutant: only the recovery address is kept out.
MayHoldUnlessRecovery(email, role) == role \in Privileged => email # RecoveryEmail

MayHold(email, role) == role \in Privileged => email = AccountEmail
MayRemove(email, role) == ~(email = AccountEmail /\ role \in Privileged)
MayDeactivate(email) == email # AccountEmail

\* The predicate AdminIdentityInvariantService verifies when the API starts.
Verified ==
    /\ account[Official].email = AccountEmail
    /\ account[Official].status = "ACTIVE"
    /\ "SUPER_ADMIN" \in account[Official].roles
    /\ \A u \in Accounts : Exists(u) =>
          /\ account[u].roles \intersect Privileged # {} => account[u].email = AccountEmail
          /\ account[u].email # RecoveryEmail

-----------------------------------------------------------------------------
(* Administration.  The actor's roles were read by JwtAuthGuard. *)

IsSuperAdmin(a) == "SUPER_ADMIN" \in account[a].roles
Acts(a) == Exists(a) /\ account[a].status = "ACTIVE"

\* assertActorMayManageTarget
MayManage(a, u) == a = u \/ IsSuperAdmin(a) \/ account[u].roles \intersect Privileged = {}

Read(q, a, u, state) ==
    /\ call[q].op = "idle"
    /\ Acts(a) /\ Exists(u)
    /\ call' = [call EXCEPT ![q] = state]
    /\ UNCHANGED account

Done(q) == call' = [call EXCEPT ![q] = Waiting]

\* An edit of a row advances its version; clearing its lockout does not.
Edited(row) == [row EXCEPT !.version = @ + 1]
Cleared(row) == [row EXCEPT !.fails = 0, !.lock = "none"]

\* assignInitialRolesRequired
MayAssign(a, email, roles) ==
    /\ roles # {} => IsSuperAdmin(a)
    /\ \A role \in roles : MayHold(email, role)

\* User, roles, event, setup token and invitation in one transaction.
CreateUser(a, u, email, roles) ==
    /\ Acts(a)
    /\ ~Exists(u)
    /\ MayAssign(a, email, roles)
    /\ MayChangeEmail(email, email)
    /\ \A v \in Accounts : Exists(v) => account[v].email # email
    /\ account' = [account EXCEPT ![u] = [Absent EXCEPT !.email = email, !.roles = roles]]
    /\ UNCHANGED call

UpdateUser(q, a, u, email) ==
    /\ MayManage(a, u)
    /\ MayChangeEmail(account[u].email, email)
    /\ Read(q, a, u, [Waiting EXCEPT !.op = "update", !.target = u, !.email = email,
                                     !.version = account[u].version])

DeactivateUser(q, a, u) ==
    /\ a # u
    /\ MayManage(a, u)
    /\ MayDeactivate(account[u].email)
    /\ account[u].status # "INACTIVE"
    /\ Read(q, a, u, [Waiting EXCEPT !.op = "suspend", !.target = u, !.version = account[u].version])

\* The write happens only on the version that was read.
Current(q) == account[call[q].target].version = call[q].version

WriteUser(q) ==
    LET u == call[q].target IN
    /\ call[q].op = "update"
    /\ IF Current(q) /\ \A v \in Accounts \ {u} : Exists(v) => account[v].email # call[q].email
         THEN /\ account[u].version < MaxVersion
              /\ account' = [account EXCEPT ![u] = Edited([account[u] EXCEPT !.email = call[q].email])]
         ELSE UNCHANGED account
    /\ Done(q)

WriteStatus(q) ==
    LET u == call[q].target IN
    /\ call[q].op = "suspend"
    /\ IF Current(q) /\ account[u].status = "ACTIVE"
         THEN /\ account[u].version < MaxVersion
              /\ account' = [account EXCEPT ![u] = Edited([account[u] EXCEPT !.status = "INACTIVE"])]
         ELSE UNCHANGED account
    /\ Done(q)

\* Conditional on version and status, so reading and writing are one step.
ReactivateUser(a, u) ==
    /\ Acts(a) /\ MayManage(a, u)
    /\ Exists(u) /\ account[u].status = "INACTIVE" /\ account[u].version < MaxVersion
    /\ account' = [account EXCEPT ![u] = Edited([account[u] EXCEPT !.status = "ACTIVE"])]
    /\ UNCHANGED call

AssignRole(q, a, u, role) ==
    /\ IsSuperAdmin(a)
    /\ MayHold(account[u].email, role)
    /\ role \notin account[u].roles
    /\ Read(q, a, u, [Waiting EXCEPT !.op = "assign", !.target = u, !.role = role])

\* The insert tests nothing again; a duplicate is absorbed by the primary key.
WriteRole(q) ==
    /\ call[q].op = "assign"
    /\ account' = [account EXCEPT ![call[q].target].roles = @ \union {call[q].role}]
    /\ Done(q)

RemoveRole(q, a, u, role) ==
    /\ IsSuperAdmin(a)
    /\ MayRemove(account[u].email, role)
    /\ ~(role = "SUPER_ADMIN" /\ a = u)
    /\ Read(q, a, u, [Waiting EXCEPT !.op = "remove", !.target = u, !.role = role])

\* Under the lock of the role's row: the last SUPER_ADMIN is never removed.
DeleteRole(q) ==
    LET u == call[q].target
        holders == {v \in Accounts : "SUPER_ADMIN" \in account[v].roles} IN
    /\ call[q].op = "remove"
    /\ IF call[q].role = "SUPER_ADMIN" /\ u \in holders /\ Cardinality(holders) <= 1
         THEN UNCHANGED account
         ELSE account' = [account EXCEPT ![u].roles = @ \ {call[q].role}]
    /\ Done(q)

-----------------------------------------------------------------------------
(* Lockout.  The counter of an account that logs in with a wrong password. *)

FailLogin(q, u) ==
    /\ account[u].status = "ACTIVE"
    /\ account[u].lock # "set"
    /\ Read(q, u, u, [Waiting EXCEPT !.op = IF account[u].lock = "past" THEN "expired" ELSE "count",
                                     !.target = u])

\* Clears whatever lock the account has by now.
ClearExpiredLock(q) ==
    LET u == call[q].target IN
    /\ call[q].op = "expired"
    /\ account' = IF account[u].lock = "none" THEN account
                  ELSE [account EXCEPT ![u] = Cleared(account[u])]
    /\ call' = [call EXCEPT ![q].op = "count"]

\* Mutant: one failure too late.
ExhaustedLate(fails) == fails > MaxFailures

Exhausted(fails) == fails >= MaxFailures

CountFailure(q) ==
    LET u == call[q].target IN
    /\ call[q].op = "count"
    /\ account[u].fails < MaxFailures + 1
    /\ account' = [account EXCEPT ![u].fails = @ + 1]
    /\ IF account[u].lock = "none" /\ Exhausted(account[u].fails + 1)
         THEN call' = [call EXCEPT ![q].op = "claim"]
         ELSE Done(q)

\* One of the requests that found the counter exhausted sets the lock.
ClaimLock(q) ==
    LET u == call[q].target IN
    /\ call[q].op = "claim"
    /\ account' = IF account[u].lock = "none" THEN [account EXCEPT ![u].lock = "set"] ELSE account
    /\ Done(q)

SucceedLogin(u) ==
    /\ Acts(u)
    /\ account[u].lock # "set"
    /\ account' = [account EXCEPT ![u] = Cleared(account[u])]
    /\ UNCHANGED call

LockExpires(u) ==
    /\ account[u].lock = "set"
    /\ account' = [account EXCEPT ![u].lock = "past"]
    /\ UNCHANGED call

Unlock(q, a, u) ==
    /\ IsSuperAdmin(a)
    /\ account[u].lock = "set" \/ account[u].fails # 0
    /\ Read(q, a, u, [Waiting EXCEPT !.op = "unlock", !.target = u, !.version = account[u].version,
                                     !.fails = account[u].fails, !.lock = account[u].lock])

\* Conditional on version, counter and lock as they were read.
WriteUnlock(q) ==
    LET u == call[q].target IN
    /\ call[q].op = "unlock"
    /\ IF Current(q) /\ account[u].fails = call[q].fails /\ account[u].lock = call[q].lock
         THEN /\ account[u].version < MaxVersion
              /\ account' = [account EXCEPT ![u] = Edited(Cleared(account[u]))]
         ELSE UNCHANGED account
    /\ Done(q)

AdministrationNext ==
    \/ \E q \in Calls :
          \/ \E a, u \in Accounts :
                \/ DeactivateUser(q, a, u)
                \/ \E email \in Emails : UpdateUser(q, a, u, email)
                \/ \E role \in RoleNames : AssignRole(q, a, u, role) \/ RemoveRole(q, a, u, role)
          \/ WriteUser(q) \/ WriteStatus(q) \/ WriteRole(q) \/ DeleteRole(q)
    \/ \E a, u \in Accounts :
          \/ ReactivateUser(a, u)
          \/ \E email \in Emails : \E roles \in SUBSET RoleNames : CreateUser(a, u, email, roles)

LockoutNext ==
    \/ \E q \in Calls :
          \/ \E u \in Accounts : FailLogin(q, u) \/ \E a \in Accounts : Unlock(q, a, u)
          \/ ClearExpiredLock(q) \/ CountFailure(q) \/ ClaimLock(q) \/ WriteUnlock(q)
    \/ \E u \in Accounts : SucceedLogin(u) \/ LockExpires(u)

AccountsNext == AdministrationNext \/ LockoutNext

AccountsSpec == AccountsInit /\ [][AccountsNext]_accountsVars

-----------------------------------------------------------------------------
(* Properties *)

\* What the preflight verifies at start-up no operation undoes while the API
\* runs: the official account stays ACTIVE and SUPER_ADMIN, nobody else becomes
\* privileged and the recovery address never becomes an account, although each
\* operation checks the policy on rows it read earlier (admin-identity.policy.ts).
PreflightHolds == Verified

\* No failed login is lost: a counter at its limit means a lock, or a request
\* about to set it (login-attempt.service.ts registerFailedAttempt).
ThresholdLocks ==
    \A u \in Accounts : account[u].fails >= MaxFailures =>
        \/ account[u].lock # "none"
        \/ \E q \in Calls : call[q].op = "claim" /\ call[q].target = u
=============================================================================
