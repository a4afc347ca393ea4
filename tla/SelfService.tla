----------------------------- MODULE SelfService ------------------------------
(* The self-service portal: how an affiliate enters it (an access challenge  *)
(* and its code), how a mutation passes it (CSRF token, idempotency key) and *)
(* how a contact is changed.  Codes, tokens and answers are numbered in the  *)
(* order they are issued, so a larger number is a later one; 0 is a wrong    *)
(* code.  The rate limits only slow these steps down and are left out, and   *)
(* so are the audit rows.  A handler stops at any step when its process does.*)
(*                                                                           *)
(* Bounds: MaxIssued codes, tokens and answers.                              *)
EXTENDS Naturals

CONSTANTS
    Visits,         \* HTTP requests in flight
    IdempotencyKeys,\* one per operation, key and payload of the client
    MaxIssued,
    MaxAttempts     \* SELF_SERVICE_OTP_MAX_ATTEMPTS

ASSUME PortalAssumption == MaxIssued \in Nat \ {0} /\ MaxAttempts \in Nat

VARIABLES
    visit,          \* what each request has read and will do next
    challenge,      \* the SelfServiceOtpChallenge row
    entries,        \* sessions created from it, by assurance
    session,        \* the SelfServiceSession row of one session
    admitted,       \* history: requests admitted by each CSRF token
    stored,         \* SelfServiceIdempotency rows: the answer under each key
    runs,           \* times an operation was run
    answers,        \* history: the answers a client was given under each key
    contact,        \* the SelfServiceContactUpdate row
    core            \* external: what the core knows of the contact update

accessVars == <<challenge, entries>>
mutationVars == <<session, admitted, stored, runs, answers>>
contactVars == <<contact, core>>
portalVars == <<visit, accessVars, mutationVars, contactVars>>

Assurances == {"OTP", "LOOKUP"}

NoVisit == [step |-> "none"]

NoCode == [status |-> "ABSENT", code |-> 0, attempts |-> 0,
           verified |-> FALSE, expired |-> FALSE, cooling |-> FALSE]

PortalInit ==
    /\ visit = [h \in Visits |-> NoVisit]
    /\ challenge = NoCode
    /\ entries = [a \in Assurances |-> 0]
    /\ session = [open |-> TRUE, csrf |-> 1]
    /\ admitted = [t \in 1..MaxIssued |-> 0]
    /\ stored = [k \in IdempotencyKeys |-> 0]
    /\ runs = 0
    /\ answers = [k \in IdempotencyKeys |-> {}]
    /\ contact = NoCode
    /\ core = "UNKNOWN"

Goto(h, v) == visit' = [visit EXCEPT ![h] = v]

Unused(h) == visit[h] = NoVisit
Reached(h, step) == visit[h].step = step

\* The process stops, or the client's connection ends with its handler.
Stop(h) ==
    /\ ~Unused(h)
    /\ Goto(h, NoVisit)
    /\ UNCHANGED <<accessVars, mutationVars, contactVars>>

-----------------------------------------------------------------------------
(* A row with a code: an access challenge or a contact update. *)

\* The code the row waits for is replaced, and its attempts start again.
Renewed(row) ==
    [row EXCEPT !.code = row.code + 1, !.attempts = 0, !.expired = FALSE, !.cooling = TRUE]

\* A wrong code, counted on the attempts its request had read.
Missed(row, seen) ==
    [row EXCEPT !.attempts = seen + 1,
                !.status = IF seen + 1 >= MaxAttempts THEN "LOCKED" ELSE @]

\* What a request keeps of the row it read to compare a code with it.
Guess(row, c) ==
    [step |-> "guess", right |-> c = row.code, late |-> row.expired, attempts |-> row.attempts]

\* Mutant: a claim that looks at verifiedAt only.
UnclaimedLater(row, status) == ~row.verified

Unclaimed(row, status) == row.status = status /\ ~row.verified

\* expiresAt and retryAvailableAt pass.
Aged(row) ==
    {[row EXCEPT !.expired = TRUE], [row EXCEPT !.cooling = FALSE]}

-----------------------------------------------------------------------------
(* Access *)

\* Without the OTP transport the lookup itself opens the portal.
LookupAccess(h) ==
    /\ challenge.status = "ABSENT" /\ Unused(h)
    /\ challenge' = [challenge EXCEPT !.status = "VERIFIED", !.verified = TRUE]
    /\ Goto(h, [step |-> "enter", assurance |-> "LOOKUP"])
    /\ UNCHANGED <<entries, mutationVars, contactVars>>

\* The code is delivered before its challenge is inserted.
RequestCode ==
    /\ challenge.status = "ABSENT"
    /\ challenge' = [Renewed(challenge) EXCEPT !.status = "PENDING"]
    /\ UNCHANGED <<visit, entries, mutationVars, contactVars>>

\* resend reserves the cooldown, delivers, and writes the row it had read.
Resend(h) ==
    /\ Unused(h)
    /\ challenge.status = "PENDING" /\ ~challenge.cooling
    /\ challenge.code < MaxIssued
    /\ challenge' = [challenge EXCEPT !.cooling = TRUE]
    /\ Goto(h, [step |-> "resend"])
    /\ UNCHANGED <<entries, mutationVars, contactVars>>

ResendDelivered(h) ==
    /\ Reached(h, "resend")
    /\ \/ challenge.code < MaxIssued /\ challenge' = Renewed(challenge)
       \/ challenge' = [challenge EXCEPT !.cooling = FALSE]
    /\ Goto(h, NoVisit)
    /\ UNCHANGED <<entries, mutationVars, contactVars>>

Verify(h, c) ==
    /\ Unused(h)
    /\ challenge.status = "PENDING"
    /\ Goto(h, Guess(challenge, c))
    /\ UNCHANGED <<accessVars, mutationVars, contactVars>>

VerifyLate(h) ==
    /\ Reached(h, "guess") /\ visit[h].late
    /\ challenge' = [challenge EXCEPT !.status = "EXPIRED"]
    /\ Goto(h, NoVisit)
    /\ UNCHANGED <<entries, mutationVars, contactVars>>

VerifyWrong(h) ==
    /\ Reached(h, "guess") /\ ~visit[h].late /\ ~visit[h].right
    /\ challenge' = Missed(challenge, visit[h].attempts)
    /\ Goto(h, NoVisit)
    /\ UNCHANGED <<entries, mutationVars, contactVars>>

VerifyRight(h) ==
    /\ Reached(h, "guess") /\ ~visit[h].late /\ visit[h].right
    /\ IF Unclaimed(challenge, "PENDING")
       THEN /\ challenge' = [challenge EXCEPT !.status = "VERIFIED", !.verified = TRUE]
            /\ Goto(h, [step |-> "enter", assurance |-> "OTP"])
       ELSE UNCHANGED challenge /\ Goto(h, NoVisit)
    /\ UNCHANGED <<entries, mutationVars, contactVars>>

\* createSession, a write of its own after the claim.
CreateSession(h) ==
    /\ Reached(h, "enter")
    /\ entries' = [entries EXCEPT ![visit[h].assurance] = @ + 1]
    /\ Goto(h, NoVisit)
    /\ UNCHANGED <<challenge, mutationVars, contactVars>>

AccessTime ==
    /\ challenge.status # "ABSENT"
    /\ challenge' \in Aged(challenge)
    /\ UNCHANGED <<visit, entries, mutationVars, contactVars>>

AccessNext ==
    \/ RequestCode \/ AccessTime
    \/ \E h \in Visits :
        \/ LookupAccess(h) \/ Resend(h) \/ ResendDelivered(h)
        \/ \E c \in 0..challenge.code : Verify(h, c)
        \/ VerifyLate(h) \/ VerifyWrong(h) \/ VerifyRight(h)
        \/ CreateSession(h) \/ Stop(h)

-----------------------------------------------------------------------------
(* Mutations *)

\* SelfServiceSessionGuard: the session is read; its token is the one the
\* request must carry.
Resolve(h) ==
    /\ Unused(h)
    /\ session.open
    /\ Goto(h, [step |-> "resolved", csrf |-> session.csrf])
    /\ UNCHANGED <<accessVars, mutationVars, contactVars>>

\* Mutant: the token is rotated whatever it has become since it was read.
AnyToken(h) == session.open

Current(h) == session.open /\ session.csrf = visit[h].csrf

Rotated ==
    /\ session.csrf < MaxIssued
    /\ session' = [session EXCEPT !.csrf = @ + 1]

\* GET session only rotates the token; the other methods spend it.
Refresh(h) ==
    /\ Reached(h, "resolved")
    /\ Current(h) /\ Rotated
    /\ Goto(h, NoVisit)
    /\ UNCHANGED <<admitted, stored, runs, answers, accessVars, contactVars>>

ConsumeCsrf(h) ==
    /\ Reached(h, "resolved")
    /\ Current(h) /\ Rotated
    /\ admitted' = [admitted EXCEPT ![visit[h].csrf] = @ + 1]
    /\ Goto(h, [step |-> "admitted"])
    /\ UNCHANGED <<stored, runs, answers, accessVars, contactVars>>

Logout(h) ==
    /\ Reached(h, "admitted")
    /\ session' = [session EXCEPT !.open = FALSE]
    /\ Goto(h, NoVisit)
    /\ UNCHANGED <<admitted, stored, runs, answers, accessVars, contactVars>>

Told(k, answer) == answers' = [answers EXCEPT ![k] = @ \union {answer}]

Mutate(h, k) ==
    /\ Reached(h, "admitted")
    /\ IF stored[k] # 0
       THEN Told(k, stored[k]) /\ Goto(h, NoVisit)
       ELSE Goto(h, [step |-> "mutate", key |-> k]) /\ UNCHANGED answers
    /\ UNCHANGED <<session, admitted, stored, runs, accessVars, contactVars>>

\* The operation takes effect.  Answered in time, it goes on to be stored; not
\* so, the client is told nothing happened and the answer is lost.
Operate(h) ==
    /\ Reached(h, "mutate")
    /\ runs < MaxIssued
    /\ runs' = runs + 1
    /\ \/ Goto(h, [step |-> "store", key |-> visit[h].key, answer |-> runs'])
       \/ Goto(h, NoVisit)
    /\ UNCHANGED <<session, admitted, stored, answers, accessVars, contactVars>>

\* Mutant: a duplicate key is ignored and the answer kept.
OwnAnswer(h) == visit[h].answer

\* The row of the key is unique: the loser answers what the winner stored.
Answer(h) == IF stored[visit[h].key] = 0 THEN visit[h].answer ELSE stored[visit[h].key]

Store(h) ==
    /\ Reached(h, "store")
    /\ LET k == visit[h].key IN
       /\ stored' = [stored EXCEPT ![k] = IF @ = 0 THEN visit[h].answer ELSE @]
       /\ Told(k, Answer(h))
    /\ Goto(h, NoVisit)
    /\ UNCHANGED <<session, admitted, runs, accessVars, contactVars>>

MutationNext ==
    \E h \in Visits :
        \/ Resolve(h) \/ Refresh(h) \/ ConsumeCsrf(h) \/ Logout(h)
        \/ \E k \in IdempotencyKeys : Mutate(h, k)
        \/ Operate(h) \/ Store(h) \/ Stop(h)

-----------------------------------------------------------------------------
(* Contact updates: the three mutations and the status of one request. *)

StartContact ==
    /\ contact.status = "ABSENT"
    /\ contact' = [contact EXCEPT !.status = "DRAFT"]
    /\ UNCHANGED <<visit, core, accessVars, mutationVars>>

RequestContactCode(h) ==
    /\ Unused(h)
    /\ contact.status \in {"DRAFT", "CHALLENGE_PENDING"} /\ ~contact.expired /\ ~contact.cooling
    /\ contact.code < MaxIssued
    /\ contact' = [contact EXCEPT !.cooling = TRUE]
    /\ Goto(h, [step |-> "resend"])
    /\ UNCHANGED <<core, accessVars, mutationVars>>

\* The new code is written without a look at what the row has become.
ContactCodeDelivered(h) ==
    /\ Reached(h, "resend")
    /\ \/ /\ contact.code < MaxIssued
          /\ contact' = [Renewed(contact) EXCEPT !.status = "CHALLENGE_PENDING"]
       \/ contact' = [contact EXCEPT !.cooling = FALSE]
    /\ Goto(h, NoVisit)
    /\ UNCHANGED <<core, accessVars, mutationVars>>

VerifyContact(h, c) ==
    /\ Unused(h)
    /\ \/ /\ contact.status = "CHALLENGE_PENDING" /\ ~contact.expired
          /\ Goto(h, Guess(contact, c))
       \/ contact.status = "VERIFIED" /\ Goto(h, [step |-> "submit"])
    /\ UNCHANGED <<accessVars, mutationVars, contactVars>>

ContactWrong(h) ==
    /\ Reached(h, "guess") /\ ~visit[h].right
    /\ contact' = Missed(contact, visit[h].attempts)
    /\ Goto(h, NoVisit)
    /\ UNCHANGED <<core, accessVars, mutationVars>>

\* Mutant: the outcome of the claim is not looked at.
ClaimIgnored(h) == [step |-> "submit"]

Claimed(h) == IF Unclaimed(contact, "CHALLENGE_PENDING") THEN [step |-> "submit"] ELSE NoVisit

ContactRight(h) ==
    /\ Reached(h, "guess") /\ visit[h].right
    /\ contact' = IF Unclaimed(contact, "CHALLENGE_PENDING")
                  THEN [contact EXCEPT !.status = "VERIFIED", !.verified = TRUE]
                  ELSE contact
    /\ Goto(h, Claimed(h))
    /\ UNCHANGED <<core, accessVars, mutationVars>>

\* The core is asked, under the request's own reference, and its first answer
\* to that reference stands until it decides.
SubmitContact(h) ==
    /\ Reached(h, "submit")
    /\ core' \in IF core = "UNKNOWN" THEN {"SUBMITTED", "APPLIED", "REJECTED"} ELSE {core}
    /\ Goto(h, [step |-> "record", status |-> core'])
    /\ UNCHANGED <<contact, accessVars, mutationVars>>

CoreDecides ==
    /\ core = "SUBMITTED"
    /\ core' \in {"APPLIED", "REJECTED"}
    /\ UNCHANGED <<visit, contact, accessVars, mutationVars>>

\* status() asks the core about a submitted request.
PollContact(h) ==
    /\ Unused(h)
    /\ contact.status = "SUBMITTED" /\ core # "SUBMITTED"
    /\ Goto(h, [step |-> "record", status |-> core])
    /\ UNCHANGED <<accessVars, mutationVars, contactVars>>

RecordContact(h) ==
    /\ Reached(h, "record")
    /\ contact' = [contact EXCEPT !.status = visit[h].status]
    /\ Goto(h, NoVisit)
    /\ UNCHANGED <<core, accessVars, mutationVars>>

ContactTime ==
    /\ contact.status # "ABSENT"
    /\ contact' \in Aged(contact)
    /\ UNCHANGED <<visit, core, accessVars, mutationVars>>

ContactNext ==
    \/ StartContact \/ CoreDecides \/ ContactTime
    \/ \E h \in Visits :
        \/ RequestContactCode(h) \/ ContactCodeDelivered(h)
        \/ \E c \in 0..contact.code : VerifyContact(h, c)
        \/ ContactWrong(h) \/ ContactRight(h)
        \/ SubmitContact(h) \/ PollContact(h) \/ RecordContact(h) \/ Stop(h)

-----------------------------------------------------------------------------
(* Properties *)

\* No challenge that was locked or had expired is verified afterwards.
BarredStaysBarred ==
    [][challenge.status \in {"LOCKED", "EXPIRED"} /\ ~challenge.verified
        => ~challenge'.verified]_portalVars

\* One challenge opens the portal once, a CSRF token admits one request, and all
\* requests under one idempotency key are answered alike
\* (self-service-access.service.ts verify, self-service-session.service.ts
\* rotateCsrf, self-service-gateway.service.ts mutate).
PortalGrantsOnce ==
    /\ entries["OTP"] + entries["LOOKUP"] <= 1
    /\ \A t \in 1..MaxIssued : admitted[t] <= 1
    /\ \A k \in IdempotencyKeys : \A a, b \in answers[k] : a = b

\* The core is only asked for a destination that was verified, and a final
\* status is the core's (self-service-contact-update.service.ts).
ContactIsVerifiedAndTrue ==
    /\ core # "UNKNOWN" => contact.verified
    /\ contact.status \in {"APPLIED", "REJECTED"} => core = contact.status
=============================================================================
