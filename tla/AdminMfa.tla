------------------------------ MODULE AdminMfa ------------------------------
(* The second factor of the privileged administrator: enrolment, the login  *)
(* challenge, step-up of a session, recovery codes and revocation, with the *)
(* rate limiter that fails closed.                                          *)
(*                                                                          *)
(* A secret is its generation.  Time is the TOTP step: a code is the step it *)
(* was made for, and is good one step before and after it.  Each handler     *)
(* reads first and writes later, in one transaction that tests again only    *)
(* what the code tests again.                                                *)
(*                                                                           *)
(* Bounds: MaxGenerations enrolments, MaxBatches of recovery codes, MaxTime   *)
(* TOTP steps, and the sizes of Challenges and Codes; MaxAttempts stands for   *)
(* CHALLENGE_MAX_ATTEMPTS and the limit of the limiter's window.              *)
EXTENDS Integers, FiniteSets

CONSTANTS
    Ceremonies,      \* requests in flight
    Challenges,      \* login challenge rows
    Codes,           \* recovery codes of one batch
    MaxGenerations, MaxBatches, MaxTime, MaxAttempts,
    MfaRequired,     \* ADMIN_MFA_REQUIRED
    NoChallenge

ASSUME MfaAssumption ==
    /\ MaxGenerations \in Nat /\ MaxBatches \in Nat /\ MaxTime \in Nat /\ MaxAttempts \in Nat \ {0}
    /\ MfaRequired \in BOOLEAN
    /\ NoChallenge \notin Challenges

VARIABLES
    credential,  \* AdminMfaCredential: status, generation of the secret, last TOTP step used
    batch,       \* recovery codes: batch number and those unused
    challenge,   \* AdminMfaLoginChallenge rows
    assured,     \* the session's mfaVerifiedAt is set
    failures,    \* the limiter's counter for this account and address
    now,         \* the TOTP step
    ceremony,    \* what each request has read
    accepted     \* history: factors that opened a session or stepped one up, since the last enrolment

mfaVars == <<credential, batch, challenge, assured, failures, now, ceremony, accepted>>

Steps == -1..(MaxTime + 1)

\* A factor: a TOTP code for a step, or a recovery code of a batch.
Factors == [kind : {"totp"}, gen : 0..MaxGenerations, step : Steps]
           \union [kind : {"recovery"}, batch : 0..MaxBatches, code : Codes]

NoFactor == [kind |-> "none"]

CeremonyState ==
    [pc : {"idle", "begin", "confirm", "challenge", "login", "stepUp", "codes", "revoke"},
     gen : 0..MaxGenerations, step : Steps, id : Challenges \union {NoChallenge},
     factor : Factors \union {NoFactor}]

NoCeremony == [pc |-> "idle", gen |-> 0, step |-> 0, id |-> NoChallenge, factor |-> NoFactor]

NoRowYet == [state |-> "none", gen |-> 0, attempts |-> 0]

MfaTypeOK ==
    /\ credential \in [status : {"NONE", "PENDING", "ACTIVE", "REVOKED"},
                       gen : 0..MaxGenerations, last : Steps]
    /\ batch \in [number : 0..MaxBatches, left : SUBSET Codes]
    /\ challenge \in [Challenges -> [state : {"none", "open", "used", "gone"},
                                     gen : 0..MaxGenerations, attempts : 0..MaxAttempts]]
    /\ assured \in BOOLEAN
    /\ failures \in 0..MaxAttempts
    /\ now \in 0..MaxTime
    /\ ceremony \in [Ceremonies -> CeremonyState]
    /\ accepted \subseteq Factors

MfaInit ==
    /\ credential = [status |-> "NONE", gen |-> 0, last |-> -1]
    /\ batch = [number |-> 0, left |-> {}]
    /\ challenge = [c \in Challenges |-> NoRowYet]
    /\ assured = FALSE
    /\ failures = 0
    /\ now = 0
    /\ ceremony = [p \in Ceremonies |-> NoCeremony]
    /\ accepted = {}

Doing(p, pc) == ceremony[p].pc = pc
Continue(p, state) == ceremony' = [ceremony EXCEPT ![p] = state]
End(p) == Continue(p, NoCeremony)

\* peekStrict: an unavailable Redis refuses as an exhausted window does.
Permitted == failures < MaxAttempts
Fail == failures' = IF failures < MaxAttempts THEN failures + 1 ELSE failures

\* The codes a caller may hold: of the steps around now, and recovery codes.
Presentable == {f \in Factors : \/ f.kind = "totp" /\ f.gen = credential.gen /\ f.step \in now - 1..now + 1
                                \/ f.kind = "recovery" /\ f.batch = batch.number}

\* prepareStepUpFactor, on the rows just read.
Valid(f) == IF f.kind = "totp" THEN f.step > credential.last ELSE f.code \in batch.left

-----------------------------------------------------------------------------
(* Enrolment *)

\* The password and session are verified, and a new secret made.
BeginEnrollment(p) ==
    /\ Doing(p, "idle")
    /\ Permitted
    /\ credential.status # "ACTIVE"
    /\ Continue(p, [NoCeremony EXCEPT !.pc = "begin"])
    /\ UNCHANGED <<credential, batch, challenge, assured, failures, now, accepted>>

\* Mutant: the status read before the transaction decides.
EnrollableAnyway == TRUE

\* The status under the row lock decides, not the one read before it.
Enrollable == credential.status # "ACTIVE"

WriteEnrollment(p) ==
    /\ Doing(p, "begin")
    /\ IF Enrollable
         THEN /\ credential.gen < MaxGenerations
              /\ credential' = [status |-> "PENDING", gen |-> credential.gen + 1, last |-> -1]
              /\ batch' = [batch EXCEPT !.left = {}]
              /\ accepted' = {}
         ELSE UNCHANGED <<credential, batch, accepted>>
    /\ End(p)
    /\ UNCHANGED <<challenge, assured, failures, now>>

WrongAnswer(p) ==
    /\ Doing(p, "idle")
    /\ Permitted
    /\ Fail
    /\ UNCHANGED <<credential, batch, challenge, assured, now, ceremony, accepted>>

\* The pending secret's code is verified before the transaction.
ConfirmEnrollment(p) ==
    /\ Doing(p, "idle")
    /\ Permitted
    /\ credential.status = "PENDING"
    /\ \E step \in now - 1..now + 1 :
          Continue(p, [NoCeremony EXCEPT !.pc = "confirm", !.gen = credential.gen, !.step = step])
    /\ UNCHANGED <<credential, batch, challenge, assured, failures, now, accepted>>

\* Only the generation that was confirmed becomes active, and the code that
\* confirmed it is used up.
Activate(p) ==
    /\ Doing(p, "confirm")
    /\ IF credential.status = "PENDING" /\ credential.gen = ceremony[p].gen
         THEN /\ batch.number < MaxBatches
              /\ credential' = [credential EXCEPT !.status = "ACTIVE", !.last = ceremony[p].step]
              /\ batch' = [number |-> batch.number + 1, left |-> Codes]
              /\ challenge' = [c \in Challenges |->
                    IF challenge[c].state = "open" THEN [challenge[c] EXCEPT !.state = "gone"] ELSE challenge[c]]
         ELSE UNCHANGED <<credential, batch, challenge>>
    /\ End(p)
    /\ UNCHANGED <<assured, failures, now, accepted>>

ExpireEnrollment(p) ==
    /\ Doing(p, "confirm")
    /\ End(p)
    /\ UNCHANGED <<credential, batch, challenge, assured, failures, now, accepted>>

-----------------------------------------------------------------------------
(* Login challenge *)

\* The password was right: the credential is read, then a challenge bound to
\* its generation inserted.
CreateLoginChallenge(p) ==
    /\ Doing(p, "idle")
    /\ Permitted
    /\ credential.status = "ACTIVE"
    /\ Continue(p, [NoCeremony EXCEPT !.pc = "challenge", !.gen = credential.gen])
    /\ UNCHANGED <<credential, batch, challenge, assured, failures, now, accepted>>

InsertChallenge(p) ==
    /\ Doing(p, "challenge")
    /\ \E c \in Challenges :
          /\ challenge[c].state = "none"
          /\ challenge' = [challenge EXCEPT ![c] = [NoRowYet EXCEPT !.state = "open", !.gen = ceremony[p].gen]]
    /\ End(p)
    /\ UNCHANGED <<credential, batch, assured, failures, now, accepted>>

\* The reads of completeLoginChallenge.  The factor is prepared from them.
Answerable(c) ==
    /\ challenge[c].state = "open"
    /\ challenge[c].attempts < MaxAttempts
    /\ credential.status = "ACTIVE"
    /\ challenge[c].gen = credential.gen

CompleteLoginChallenge(p, c) ==
    /\ Doing(p, "idle")
    /\ Permitted
    /\ Answerable(c)
    /\ \E f \in Presentable :
          /\ Valid(f)
          /\ Continue(p, [NoCeremony EXCEPT !.pc = "login", !.id = c, !.factor = f])
    /\ UNCHANGED <<credential, batch, challenge, assured, failures, now, accepted>>

\* A wrong code costs the window and the challenge an attempt each.
FailChallenge(p, c) ==
    /\ Doing(p, "idle")
    /\ Permitted
    /\ Answerable(c)
    /\ Fail
    /\ challenge' = [challenge EXCEPT ![c].attempts = @ + 1]
    /\ UNCHANGED <<credential, batch, assured, now, ceremony, accepted>>

\* Mutant: the update of the last step is not conditional on it.
ConsumableAgain(f) ==
    IF f.kind = "totp" THEN credential.status = "ACTIVE" ELSE f.batch = batch.number /\ f.code \in batch.left

\* consumePreparedStepUpFactor: the conditional update that uses a factor up.
Consumable(f) ==
    IF f.kind = "totp" THEN credential.status = "ACTIVE" /\ credential.last < f.step
    ELSE f.batch = batch.number /\ f.code \in batch.left

Consume(f) ==
    IF f.kind = "totp" THEN credential' = [credential EXCEPT !.last = f.step] /\ UNCHANGED batch
    ELSE batch' = [batch EXCEPT !.left = @ \ {f.code}] /\ UNCHANGED credential

\* Mutant: the attempts are not counted again.
CompletableAnyway(c) == challenge[c].state = "open"

Completable(c) == challenge[c].state = "open" /\ challenge[c].attempts < MaxAttempts

\* Attempt, factor, challenge and the new session in one transaction.
WriteLogin(p) ==
    LET c == ceremony[p].id IN
    LET f == ceremony[p].factor IN
    /\ Doing(p, "login")
    /\ IF Completable(c) /\ credential.status = "ACTIVE" /\ Consumable(f)
         THEN /\ Consume(f)
              /\ challenge' = [challenge EXCEPT ![c] = [state |-> "used", gen |-> challenge[c].gen,
                                                                attempts |-> challenge[c].attempts + 1]]
              /\ assured' = TRUE
              /\ accepted' = accepted \union {f}
         ELSE UNCHANGED <<credential, batch, challenge, assured, accepted>>
    /\ End(p)
    /\ UNCHANGED <<failures, now>>

ExpireChallenge(c) ==
    /\ challenge[c].state = "open"
    /\ challenge' = [challenge EXCEPT ![c].state = "gone"]
    /\ UNCHANGED <<credential, batch, assured, failures, now, ceremony, accepted>>

-----------------------------------------------------------------------------
(* Step-up, recovery codes, revocation *)

VerifyStepUp(p) ==
    /\ Doing(p, "idle")
    /\ Permitted
    /\ credential.status = "ACTIVE"
    /\ \E f \in Presentable :
          /\ Valid(f)
          /\ Continue(p, [NoCeremony EXCEPT !.pc = "stepUp", !.factor = f])
    /\ UNCHANGED <<credential, batch, challenge, assured, failures, now, accepted>>

WriteStepUp(p) ==
    LET f == ceremony[p].factor IN
    /\ Doing(p, "stepUp")
    /\ IF credential.status = "ACTIVE" /\ Consumable(f)
         THEN Consume(f) /\ assured' = TRUE /\ accepted' = accepted \union {f}
         ELSE UNCHANGED <<credential, batch, assured, accepted>>
    /\ End(p)
    /\ UNCHANGED <<challenge, failures, now>>

\* StepUpGuard: the session was assured within the step-up window.
SteppedUp == assured

RegenerateRecoveryCodes(p) ==
    /\ Doing(p, "idle")
    /\ SteppedUp
    /\ credential.status = "ACTIVE"
    /\ Continue(p, [NoCeremony EXCEPT !.pc = "codes"])
    /\ UNCHANGED <<credential, batch, challenge, assured, failures, now, accepted>>

WriteRecoveryCodes(p) ==
    /\ Doing(p, "codes")
    /\ IF credential.status = "ACTIVE"
         THEN /\ batch.number < MaxBatches
              /\ batch' = [number |-> batch.number + 1, left |-> Codes]
              /\ challenge' = [c \in Challenges |->
                    IF challenge[c].state = "open" THEN [challenge[c] EXCEPT !.state = "gone"] ELSE challenge[c]]
         ELSE UNCHANGED <<batch, challenge>>
    /\ End(p)
    /\ UNCHANGED <<credential, assured, failures, now, accepted>>

\* Refused while MFA is mandatory.  Everything the credential backed goes with it.
Revoke(p) ==
    /\ Doing(p, "idle")
    /\ SteppedUp
    /\ ~MfaRequired
    /\ credential.status = "ACTIVE"
    /\ credential' = [credential EXCEPT !.status = "REVOKED"]
    /\ batch' = [batch EXCEPT !.left = {}]
    /\ challenge' = [c \in Challenges |->
          IF challenge[c].state = "open" THEN [challenge[c] EXCEPT !.state = "gone"] ELSE challenge[c]]
    /\ assured' = FALSE
    /\ UNCHANGED <<failures, now, ceremony, accepted>>

\* The step-up window closes, or the password changes (clearAssuranceForUsableSession).
LoseAssurance ==
    /\ assured
    /\ assured' = FALSE
    /\ UNCHANGED <<credential, batch, challenge, failures, now, ceremony, accepted>>

Tick ==
    /\ now < MaxTime
    /\ now' = now + 1
    /\ failures' \in {failures, 0}
    /\ UNCHANGED <<credential, batch, challenge, assured, ceremony, accepted>>

MfaNext ==
    \/ \E p \in Ceremonies :
          \/ BeginEnrollment(p) \/ WriteEnrollment(p) \/ WrongAnswer(p)
          \/ ConfirmEnrollment(p) \/ Activate(p) \/ ExpireEnrollment(p)
          \/ CreateLoginChallenge(p) \/ InsertChallenge(p) \/ WriteLogin(p)
          \/ \E c \in Challenges : CompleteLoginChallenge(p, c) \/ FailChallenge(p, c)
          \/ VerifyStepUp(p) \/ WriteStepUp(p)
          \/ RegenerateRecoveryCodes(p) \/ WriteRecoveryCodes(p) \/ Revoke(p)
    \/ \E c \in Challenges : ExpireChallenge(c)
    \/ LoseAssurance
    \/ Tick

MfaSpec == MfaInit /\ [][MfaNext]_mfaVars

-----------------------------------------------------------------------------
(* Properties *)

\* A factor of the enrolled secret opens or steps up one session, once: no TOTP
\* code and no recovery code is accepted twice, by two requests at the same time
\* or by a later one (admin-mfa.service.ts consumePreparedStepUpFactor).  Codes
\* of a secret enrolled earlier are left out: verifyStepUp does not test the
\* generation again.
FactorsAreUsedOnce ==
    [][\A p \in Ceremonies : LET f == ceremony[p].factor IN
          /\ Doing(p, "login") \/ Doing(p, "stepUp")
          /\ ceremony'[p].pc = "idle"
          /\ f \in accepted
          /\ f.kind = "totp" => f.gen = credential.gen
          => UNCHANGED <<credential, batch, challenge, assured>>]_mfaVars

\* A confirmed factor is only ever revoked, never replaced by an enrolment
\* begun before it was confirmed; and a challenge completes only against the
\* factor it was issued for (beginEnrollment, completeLoginChallenge).
FactorIsNotReplaced ==
    [][/\ credential.status = "ACTIVE" => credential'.status \in {"ACTIVE", "REVOKED"}
       /\ \A c \in Challenges :
             challenge[c].state = "open" /\ challenge'[c].state = "used"
             => credential.status = "ACTIVE" /\ challenge[c].gen = credential.gen]_mfaVars
=============================================================================
