------------------------- MODULE KoralConversations -------------------------
(***************************************************************************)
(* One web chat conversation, shared by Koral (the automatic assistant)    *)
(* and the human operators: apps/api/src/modules/koral-conversations,      *)
(* koral-conversations.service.ts, web-chat-runtime.adapter.ts,            *)
(* web-chat-message-processing.service.ts and                              *)
(* koral-orchestration.pipeline.ts.                                        *)
(*                                                                         *)
(* A visitor's request stores the message, claims its processing row, asks *)
(* the AI gateway and commits a reply or a handoff; operators assign,      *)
(* release and move the conversation meanwhile.  Most transactions take    *)
(* the advisory lock of the conversation and are one step here; the ones   *)
(* that read and later write what another may change meanwhile are two.    *)
(*                                                                         *)
(* Conversation.version is represented by what its readers can tell from   *)
(* it: fresh holds the requests and the operators whose copy still equals  *)
(* it, and an increment empties the set.  In the same way current holds    *)
(* the requests whose copy of the session's generation is still valid.     *)
(***************************************************************************)
EXTENDS Naturals, FiniteSets

CONSTANTS Messages,      \* client message ids of the visitor
          Requests,      \* requests of the visitor that may be under way together
          Operators,     \* users who may manage conversations
          StoreMayFail,  \* whether a statement of the store may fail
          MayCrash,      \* whether the process of a request may stop
          SessionMayChange, \* whether the visitor's session rotates, ends or is claimed
          None           \* no operator, message, request or binding

\* What the constants must be.
ASSUME KoralAssumption ==
    /\ StoreMayFail \in BOOLEAN
    /\ MayCrash \in BOOLEAN
    /\ SessionMayChange \in BOOLEAN
    /\ None \notin Messages \cup Requests \cup Operators
    /\ Requests \cap Operators = {}

ConversationStatus == {"AI_ACTIVE", "WAITING_USER", "HUMAN_REQUIRED", "HUMAN_ACTIVE",
                       "WAITING_INTERNAL", "RESOLVED", "CLOSED"}

AllowedTransitions ==
    [s \in ConversationStatus |->
        CASE s \in {"AI_ACTIVE", "WAITING_USER"} ->
                {"AI_ACTIVE", "WAITING_USER", "HUMAN_REQUIRED", "HUMAN_ACTIVE",
                 "WAITING_INTERNAL", "RESOLVED", "CLOSED"}
          [] s = "HUMAN_REQUIRED" -> {"AI_ACTIVE", "HUMAN_REQUIRED", "HUMAN_ACTIVE", "CLOSED"}
          [] s \in {"HUMAN_ACTIVE", "WAITING_INTERNAL"} ->
                {"AI_ACTIVE", "HUMAN_REQUIRED", "HUMAN_ACTIVE", "WAITING_USER",
                 "WAITING_INTERNAL", "RESOLVED", "CLOSED"}
          [] s = "RESOLVED" -> {"RESOLVED", "AI_ACTIVE", "HUMAN_REQUIRED", "CLOSED"}
          [] s = "CLOSED" -> {"CLOSED"}]

StatusAfterInbound(s) == IF s \in {"WAITING_USER", "RESOLVED"} THEN "AI_ACTIVE" ELSE s

Assurance == {"ANONYMOUS", "CLAIMED"}

\* A row of web_chat_message_processings and the identity binding its message
\* made; ABSENT until the message is received.
ProcessingStatus == {"ABSENT", "PENDING", "PROCESSING", "COMPLETED", "SUPPRESSED",
                     "UNKNOWN_RESULT"}
Row == [status : ProcessingStatus, lease : Requests \cup {None}, attempts : Nat,
        bound : Assurance \cup {None}]
NoRow == [status |-> "ABSENT", lease |-> None, attempts |-> 0, bound |-> None]
Final == {"COMPLETED", "SUPPRESSED", "UNKNOWN_RESULT"}

VARIABLES
    status,     \* conversations.status
    owner,      \* assignee of the assignment not yet released
    fresh,      \* who holds the version the conversation has
    lock,       \* request in a transaction that keeps the conversation's lock
    session,    \* the visitor's session and the identity bound last
    current,    \* requests whose session generation is the stored one
    rows,       \* processing row of each message
    replied,    \* messages Koral has answered
    handed,     \* messages Koral has handed to the humans
    jobs        \* what each request is doing

vars == <<status, owner, fresh, lock, session, current, rows, replied, handed, jobs>>

Session == [active : BOOLEAN, assurance : Assurance, ledger : Assurance]

JobState == {"IDLE", "RECEIVING", "ROUTING", "SUPPRESSING", "CLAIMING", "EXPIRING",
             "READING", "INFERRING", "COMMITTING", "HANDING", "REPLYING", "ESCALATING",
             "COMPLETING", "FINISHING", "DOUBTING", "MARKING"}
Job == [pc : JobState, message : Messages \cup {None}, assurance : Assurance,
        seen : SUBSET Messages, overtaken : BOOLEAN]
Idle == [pc |-> "IDLE", message |-> None, assurance |-> "ANONYMOUS", seen |-> {},
         overtaken |-> FALSE]

\* Inside the try of receive: a failure is answered by markUnknown.
Orchestrating == {"READING", "INFERRING", "COMMITTING", "HANDING", "REPLYING",
                  "ESCALATING", "COMPLETING", "FINISHING"}

MayKoralAutoReply == owner = None /\ status \in {"AI_ACTIVE", "WAITING_USER"}
Received == {m \in Messages : rows[m].status # "ABSENT"}

At(r, pc) == jobs[r].pc = pc
Goto(r, pc) == jobs' = [jobs EXCEPT ![r].pc = pc]
End(r) == jobs' = [jobs EXCEPT ![r] = Idle]
Unlocked == lock = None

\* A variant of the next definition with a bug the properties catch.
Usable(r) == session.active

\* The session is usable and the request still holds its generation.
Fenced(r) == session.active /\ r \in current

-----------------------------------------------------------------------------
(* Helpers of the transactions *)

\* The conversation moves by a hand that is not the reply of a run under way.
Overtake == [r \in Requests |->
                IF jobs[r].pc \in Orchestrating THEN [jobs[r] EXCEPT !.overtaken = TRUE]
                ELSE jobs[r]]

\* The session's lock is free: only an expiring claim keeps it over a step.
SessionFree == \A r \in Requests : ~At(r, "EXPIRING")

Settle(m, outcome) ==
    [rows EXCEPT ![m] = [rows[m] EXCEPT !.status = outcome, !.lease = None]]

Stored == <<status, owner, fresh, lock, session, current, rows, replied, handed>>
Talk == <<status, owner, replied, handed>>

-----------------------------------------------------------------------------
(* The visitor's session *)

\* send authenticates the capability and keeps the session's generation and
\* assurance; the same message may be sent any number of times.
Send(r, m) ==
    /\ At(r, "IDLE")
    /\ session.active
    /\ SessionFree
    /\ jobs' = [jobs EXCEPT ![r] = [Idle EXCEPT !.pc = "RECEIVING", !.message = m,
                                               !.assurance = session.assurance]]
    /\ current' = current \cup {r}
    /\ UNCHANGED <<Talk, fresh, lock, session, rows>>

\* bootstrap rotates the capability.
Rotate ==
    /\ SessionMayChange
    /\ session.active
    /\ SessionFree
    /\ current' = {}
    /\ UNCHANGED <<Talk, fresh, lock, session, rows, jobs>>

\* The session is revoked, or it expires.
EndSession ==
    /\ SessionMayChange
    /\ session.active
    /\ SessionFree
    /\ session' = [session EXCEPT !.active = FALSE]
    /\ current' = {}
    /\ UNCHANGED <<Talk, fresh, lock, rows, jobs>>

\* claim binds the identity under the session's lock, not the conversation's,
\* and increments the version.
ClaimIdentity ==
    /\ SessionMayChange
    /\ session.active
    /\ SessionFree
    /\ session' = [session EXCEPT !.assurance = "CLAIMED", !.ledger = "CLAIMED"]
    /\ fresh' = {}
    /\ UNCHANGED <<Talk, lock, current, rows, jobs>>

-----------------------------------------------------------------------------
(* receiveWebChatInbound *)

\* The binding of the message is replayed with the assurance of the request.
BindConflict(m, a) == rows[m].bound \notin {None, a}

\* A lower assurance than the ledger's is only noted as an event.
BindsNew(m, a) == rows[m].bound = None /\ (a = "CLAIMED" \/ session.ledger = "ANONYMOUS")

Bound(m, a) ==
    /\ session' = IF BindsNew(m, a) THEN [session EXCEPT !.ledger = a] ELSE session
    /\ fresh' = IF BindsNew(m, a) THEN {} ELSE fresh

\* The session changed hands since the request authenticated, or the message
\* was bound to another identity.
RefuseInbound(r) ==
    /\ At(r, "RECEIVING")
    /\ Unlocked
    /\ ~Fenced(r) \/ BindConflict(jobs[r].message, jobs[r].assurance)
    /\ End(r)
    /\ UNCHANGED Stored

\* The first copy of a message.
Receive(r) ==
    LET m == jobs[r].message
        a == jobs[r].assurance
    IN /\ At(r, "RECEIVING")
       /\ Unlocked
       /\ Fenced(r)
       /\ rows[m].status = "ABSENT"
       /\ session' = IF BindsNew(m, a) THEN [session EXCEPT !.ledger = a] ELSE session
       /\ rows' = [rows EXCEPT ![m] = [rows[m] EXCEPT
                        !.status = "PENDING", !.bound = IF BindsNew(m, a) THEN a ELSE None]]
       /\ status' = StatusAfterInbound(status)
       /\ fresh' = {}
       /\ Goto(r, "ROUTING")
       /\ UNCHANGED <<owner, lock, current, replied, handed>>

\* Another copy: an answered or suppressed message ends the request, any other
\* one is taken further.
ReceiveAgain(r) ==
    LET m == jobs[r].message
        a == jobs[r].assurance
    IN /\ At(r, "RECEIVING")
       /\ Unlocked
       /\ Fenced(r)
       /\ ~BindConflict(m, a)
       /\ rows[m].status # "ABSENT"
       /\ Bound(m, a)
       /\ rows' = IF BindsNew(m, a) THEN [rows EXCEPT ![m].bound = a] ELSE rows
       /\ IF rows[m].status \in {"COMPLETED", "SUPPRESSED"} THEN End(r) ELSE Goto(r, "ROUTING")
       /\ UNCHANGED <<Talk, lock, current>>

-----------------------------------------------------------------------------
(* The runtime adapter and the processing row *)

\* getRuntimeState is read outside every transaction.
Route(r) ==
    /\ At(r, "ROUTING")
    /\ Goto(r, IF MayKoralAutoReply THEN "CLAIMING" ELSE "SUPPRESSING")
    /\ UNCHANGED Stored

\* A variant of the next definition with a bug the properties catch.
SuppressByOutcome(r) ==
    LET m == jobs[r].message
    IN /\ At(r, "SUPPRESSING")
       /\ SessionFree
       /\ rows' = IF Fenced(r) /\ rows[m].status = "PENDING"
                  THEN Settle(m, "HUMAN_HANDOFF") ELSE rows
       /\ End(r)
       /\ UNCHANGED <<Talk, fresh, lock, session, current>>

\* suppress: only a message nobody has claimed.
Suppress(r) ==
    LET m == jobs[r].message
    IN /\ At(r, "SUPPRESSING")
       /\ SessionFree
       /\ rows' = IF Fenced(r) /\ rows[m].status = "PENDING"
                  THEN Settle(m, "SUPPRESSED") ELSE rows
       /\ End(r)
       /\ UNCHANGED <<Talk, fresh, lock, session, current>>

\* claim, when it starts no orchestration: the session is gone, a human has the
\* conversation, or the row is claimed with a valid lease or final.
ClaimRefused(r) ==
    LET m == jobs[r].message
    IN /\ At(r, "CLAIMING")
       /\ Unlocked
       /\ ~Fenced(r) \/ ~MayKoralAutoReply \/ rows[m].status # "PENDING"
       /\ rows' = IF Fenced(r) /\ ~MayKoralAutoReply /\ rows[m].status = "PENDING"
                  THEN Settle(m, "SUPPRESSED") ELSE rows
       /\ End(r)
       /\ UNCHANGED <<Talk, fresh, lock, session, current>>

\* claim finds the lease of the row expired.
ClaimExpired(r) ==
    /\ At(r, "CLAIMING")
    /\ Unlocked
    /\ Fenced(r)
    /\ MayKoralAutoReply
    /\ rows[jobs[r].message].status = "PROCESSING"
    /\ lock' = r
    /\ Goto(r, "EXPIRING")
    /\ UNCHANGED <<Talk, fresh, session, current, rows>>

\* A variant of the next definition with a bug the properties catch.
Reclaim(r) ==
    /\ At(r, "EXPIRING")
    /\ rows' = [rows EXCEPT ![jobs[r].message].lease = r,
                            ![jobs[r].message].attempts = @ + 1]
    /\ lock' = None
    /\ Goto(r, "READING")
    /\ UNCHANGED <<Talk, fresh, session, current>>

\* It writes the verdict whatever the row has become since.
Expire(r) ==
    /\ At(r, "EXPIRING")
    /\ rows' = Settle(jobs[r].message, "UNKNOWN_RESULT")
    /\ lock' = None
    /\ End(r)
    /\ UNCHANGED <<Talk, fresh, session, current>>

\* claim starts the orchestration of a message under a new lease.
Claim(r) ==
    LET m == jobs[r].message
    IN /\ At(r, "CLAIMING")
       /\ Unlocked
       /\ Fenced(r)
       /\ MayKoralAutoReply
       /\ rows[m].status = "PENDING"
       /\ rows' = [rows EXCEPT ![m] = [rows[m] EXCEPT
                        !.status = "PROCESSING", !.lease = r, !.attempts = rows[m].attempts + 1]]
       /\ Goto(r, "READING")
       /\ UNCHANGED <<Talk, fresh, lock, session, current>>

-----------------------------------------------------------------------------
(* The orchestration pipeline *)

\* buildSafeContext: the version, then the messages the reply will rest on.
Read(r) ==
    /\ At(r, "READING")
    /\ jobs' = [jobs EXCEPT ![r] = [jobs[r] EXCEPT !.pc = "INFERRING", !.seen = Received,
                                                   !.overtaken = FALSE]]
    /\ fresh' = fresh \cup {r}
    /\ UNCHANGED <<Talk, lock, session, current, rows>>

\* Policy, knowledge and model end in a valid reply, a handoff, or a throw.
Infer(r) ==
    /\ At(r, "INFERRING")
    /\ \E verdict \in {"COMMITTING", "HANDING", "DOUBTING"} : Goto(r, verdict)
    /\ UNCHANGED Stored

\* A variant of the next definition with a bug the properties catch.
UpToDateByStatus(r) == MayKoralAutoReply

\* The check of commitKoralOutbound and requestKoralHandoff.
UpToDate(r) == r \in fresh /\ MayKoralAutoReply

\* Both run under the conversation's lock; refused, or replayed by the key of
\* the message, they change nothing.
Commit(r) ==
    LET m == jobs[r].message
        goes == UpToDate(r) /\ m \notin (IF At(r, "COMMITTING") THEN replied ELSE handed)
    IN /\ jobs[r].pc \in {"COMMITTING", "HANDING"}
       /\ Unlocked
       /\ lock' = IF goes THEN r ELSE None
       /\ Goto(r, IF ~goes THEN "COMPLETING"
                  ELSE IF At(r, "COMMITTING") THEN "REPLYING" ELSE "ESCALATING")
       /\ UNCHANGED <<Talk, fresh, session, current, rows>>

\* A variant of the next definition with a bug the properties catch.
ReplyKeepingLock(r) ==
    /\ At(r, "REPLYING")
    /\ replied' = replied \cup {jobs[r].message}
    /\ status' = "WAITING_USER"
    /\ fresh' = {}
    /\ Goto(r, "COMPLETING")
    /\ UNCHANGED <<owner, lock, session, current, rows, handed>>

\* The reply, the new status and the event, committed.
Reply(r) ==
    /\ At(r, "REPLYING")
    /\ replied' = replied \cup {jobs[r].message}
    /\ status' = "WAITING_USER"
    /\ fresh' = {}
    /\ lock' = None
    /\ Goto(r, "COMPLETING")
    /\ UNCHANGED <<owner, session, current, rows, handed>>

\* The handoff, committed.
HandOver(r) ==
    /\ At(r, "ESCALATING")
    /\ handed' = handed \cup {jobs[r].message}
    /\ status' = "HUMAN_REQUIRED"
    /\ fresh' = {}
    /\ lock' = None
    /\ jobs' = [Overtake EXCEPT ![r] = [jobs[r] EXCEPT !.pc = "COMPLETING"]]
    /\ UNCHANGED <<owner, session, current, rows, replied>>

\* Whether finish still finds the row of the request as it claimed it.
Holds(r) == rows[jobs[r].message].status = "PROCESSING" /\ rows[jobs[r].message].lease = r

\* complete; its refusal is caught and answered by markUnknown.
Complete(r) ==
    /\ At(r, "COMPLETING")
    /\ Goto(r, IF Holds(r) THEN "FINISHING" ELSE "DOUBTING")
    /\ UNCHANGED Stored

Finish(r) ==
    /\ At(r, "FINISHING")
    /\ rows' = Settle(jobs[r].message, "COMPLETED")
    /\ End(r)
    /\ UNCHANGED <<Talk, fresh, lock, session, current>>

\* A variant of the next definition with a bug the properties catch.
DoubtNothing(r) ==
    /\ At(r, "DOUBTING")
    /\ End(r)
    /\ UNCHANGED Stored

\* markUnknown; its refusal ends the request.
Doubt(r) ==
    /\ At(r, "DOUBTING")
    /\ IF Holds(r) THEN Goto(r, "MARKING") ELSE End(r)
    /\ UNCHANGED Stored

MarkUnknown(r) ==
    /\ At(r, "MARKING")
    /\ rows' = Settle(jobs[r].message, "UNKNOWN_RESULT")
    /\ End(r)
    /\ UNCHANGED <<Talk, fresh, lock, session, current>>

\* A statement of the store fails: its transaction rolls back, and inside the
\* try the catch goes on with markUnknown.
Fail(r) ==
    /\ StoreMayFail
    /\ ~At(r, "IDLE")
    /\ lock' = IF lock = r THEN None ELSE lock
    /\ IF jobs[r].pc \in Orchestrating THEN Goto(r, "DOUBTING") ELSE End(r)
    /\ UNCHANGED <<Talk, fresh, session, current, rows>>

\* The process of the request stops.
Crash(r) ==
    /\ MayCrash
    /\ ~At(r, "IDLE")
    /\ lock' = IF lock = r THEN None ELSE lock
    /\ End(r)
    /\ UNCHANGED <<Talk, fresh, session, current, rows>>

-----------------------------------------------------------------------------
(* The operators.  Every command carries the version its tab shows and is    *)
(* refused when that is no longer the conversation's; a replay by its        *)
(* idempotency key changes nothing and is left out.                          *)

\* An operator's inbox shows the conversation.
Look(o) ==
    /\ o \notin fresh
    /\ fresh' = fresh \cup {o}
    /\ UNCHANGED <<Talk, lock, session, current, rows, jobs>>

\* A variant of the next definition with a bug the properties catch.
CommandQuietly(o) ==
    /\ o \in fresh
    /\ Unlocked
    /\ jobs' = Overtake
    /\ UNCHANGED <<fresh, lock, session, current, rows, replied, handed>>

\* What every command of an operator needs and does.
Command(o) ==
    /\ o \in fresh
    /\ Unlocked
    /\ fresh' = {}
    /\ jobs' = Overtake
    /\ UNCHANGED <<lock, session, current, rows, replied, handed>>

\* assign, take over or transfer; the same assignee again only keeps it.
Assign(o, assignee) ==
    /\ "HUMAN_ACTIVE" \in AllowedTransitions[status]
    /\ ~(owner = assignee /\ status = "HUMAN_ACTIVE")
    /\ Command(o)
    /\ status' = "HUMAN_ACTIVE"
    /\ owner' = assignee

ReturnToKoral(o) ==
    /\ owner = o
    /\ status = "HUMAN_ACTIVE"
    /\ Command(o)
    /\ status' = "AI_ACTIVE"
    /\ owner' = None

Escalate(o) ==
    /\ owner = None
    /\ status # "HUMAN_REQUIRED"
    /\ "HUMAN_REQUIRED" \in AllowedTransitions[status]
    /\ Command(o)
    /\ status' = "HUMAN_REQUIRED"
    /\ owner' = owner

Release(o) ==
    /\ owner = o
    /\ "HUMAN_REQUIRED" \in AllowedTransitions[status]
    /\ Command(o)
    /\ status' = "HUMAN_REQUIRED"
    /\ owner' = None

\* assertOperatorTransitionOwnership
MayMove(o, target) ==
    CASE target = "AI_ACTIVE" -> status = "RESOLVED" /\ owner = None
      [] target = "WAITING_INTERNAL" -> status = "HUMAN_ACTIVE" /\ owner = o
      [] OTHER -> owner \in {None, o}

\* A variant of the next definition with a bug the properties catch.
TransitionKeepingOwner(o, target) ==
    /\ status # target
    /\ target \in AllowedTransitions[status]
    /\ MayMove(o, target)
    /\ Command(o)
    /\ status' = target
    /\ owner' = IF target = "CLOSED" THEN None ELSE owner

\* transitionStatus: reopen, wait for a colleague, resolve or close.
Transition(o, target) ==
    /\ status # target
    /\ target \in AllowedTransitions[status]
    /\ MayMove(o, target)
    /\ Command(o)
    /\ status' = target
    /\ owner' = IF target \in {"RESOLVED", "CLOSED"} THEN None ELSE owner

\* changePriority increments the version and moves nothing else.
ChangePriority(o) ==
    /\ status # "CLOSED"
    /\ o \in fresh
    /\ Unlocked
    /\ fresh' = {}
    /\ UNCHANGED <<Talk, lock, session, current, rows, jobs>>

-----------------------------------------------------------------------------
(* The system *)

Init ==
    /\ status = "AI_ACTIVE"
    /\ owner = None
    /\ fresh = {}
    /\ lock = None
    /\ session = [active |-> TRUE, assurance |-> "ANONYMOUS", ledger |-> "ANONYMOUS"]
    /\ current = {}
    /\ rows = [m \in Messages |-> NoRow]
    /\ replied = {}
    /\ handed = {}
    /\ jobs = [r \in Requests |-> Idle]

Advance(r) ==
    \/ RefuseInbound(r)
    \/ Receive(r)
    \/ ReceiveAgain(r)
    \/ Route(r)
    \/ Suppress(r)
    \/ ClaimRefused(r)
    \/ ClaimExpired(r)
    \/ Expire(r)
    \/ Claim(r)
    \/ Read(r)
    \/ Infer(r)
    \/ Commit(r)
    \/ Reply(r)
    \/ HandOver(r)
    \/ Complete(r)
    \/ Finish(r)
    \/ Doubt(r)
    \/ MarkUnknown(r)

Operate(o) ==
    \/ Look(o)
    \/ \E assignee \in Operators : Assign(o, assignee)
    \/ ReturnToKoral(o)
    \/ Escalate(o)
    \/ Release(o)
    \/ \E target \in {"AI_ACTIVE", "WAITING_INTERNAL", "RESOLVED", "CLOSED"} :
          Transition(o, target)
    \/ ChangePriority(o)

Next ==
    \/ \E r \in Requests : \/ \E m \in Messages : Send(r, m)
                           \/ Advance(r)
                           \/ Fail(r)
                           \/ Crash(r)
    \/ \E o \in Operators : Operate(o)
    \/ Rotate
    \/ EndSession
    \/ ClaimIdentity

Spec == Init /\ [][Next]_vars

\* A request that runs goes on, and one that waits for an advisory lock gets it:
\* PostgreSQL serves the waiters of a lock in turn.
FairSpec == Spec /\ \A r \in Requests : SF_vars(Advance(r))

-----------------------------------------------------------------------------
(* Properties *)

\* The variables have their types, and the lock belongs to exactly the request
\* in a transaction that keeps it over a step.
TypeOK ==
    /\ status \in ConversationStatus
    /\ owner \in Operators \cup {None}
    /\ fresh \subseteq Requests \cup Operators
    /\ lock \in Requests \cup {None}
    /\ session \in Session
    /\ current \subseteq Requests
    /\ rows \in [Messages -> Row]
    /\ replied \subseteq Messages
    /\ handed \subseteq Messages
    /\ jobs \in [Requests -> Job]
    /\ \A r \in Requests : lock = r <=> jobs[r].pc \in {"EXPIRING", "REPLYING", "ESCALATING"}

\* A conversation has an unreleased assignment exactly while a human works on
\* it or waits for a colleague: however takeovers, releases, resolutions,
\* handoffs and new messages interleave, none leaves an owner behind or a
\* human conversation without one.
OwnedWhileHuman == owner # None <=> status \in {"HUMAN_ACTIVE", "WAITING_INTERNAL"}

\* commitKoralOutbound: a human who takes part while a reply or a handoff is
\* being prepared wins, also when the conversation is back with Koral by then.
TakeoverWins ==
    [][\A r \in Requests : jobs[r].overtaken =>
          ~(At(r, "REPLYING") /\ replied' # replied) /\ ~(At(r, "ESCALATING") /\ handed' # handed)]_vars

\* A reply rests on every message the visitor has sent by then.
ReplySeesAll ==
    [][\A r \in Requests : At(r, "REPLYING") /\ replied' # replied => jobs[r].seen = Received]_vars

\* However often a message is sent again, and whatever fails, it starts one
\* orchestration at most and is never both answered and handed over.
OrchestratedOnce ==
    /\ \A m \in Messages : rows[m].attempts <= 1
    /\ replied \cap handed = {}

\* The rows have their types, and a message runs once.
MessagesRunOnce == TypeOK /\ OrchestratedOnce

\* A request whose session was rotated, revoked or expired since it
\* authenticated stores no message and starts no orchestration.
StaleSessionStoresNothing ==
    [][\A m \in Messages :
          rows[m].status \in {"ABSENT", "PENDING"} /\ rows'[m].status # rows[m].status =>
             session.active /\ \E r \in current : jobs[r].message = m]_vars

\* A reply is current when it is stored, and nothing is stored through a stale
\* session.
NothingStaleIsStored == TakeoverWins /\ ReplySeesAll /\ StaleSessionStoresNothing

\* Every request comes to its end, in spite of the locks it waits for.
RequestsEnd == \A r \in Requests : ~At(r, "IDLE") ~> At(r, "IDLE")

\* A claimed message gets a final status.
ClaimedMessagesSettle ==
    \A m \in Messages : rows[m].status = "PROCESSING" ~> rows[m].status \in Final
=============================================================================
