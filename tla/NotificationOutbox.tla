------------------------- MODULE NotificationOutbox -------------------------
(***************************************************************************)
(* The durable e-mail outbox: notification.service.ts, with the rows       *)
(* CommunicationsService.send and the security flows put into it.          *)
(*                                                                         *)
(* Workers (API processes) poll notification_jobs, claim due rows under a  *)
(* lease, hand them to SMTP and write the outcome with an UPDATE that is   *)
(* guarded by the lease owner.  A delivery is a chain of awaits, so each   *)
(* query and each answer of SMTP is a step; a worker may crash at any of   *)
(* them, and its deliveries and heartbeats are gone with it.               *)
(***************************************************************************)
EXTENDS Integers, FiniteSets

CONSTANTS Jobs,        \* rows of notification_jobs
          Linked,      \* those of one ConnectCommunication, for all its recipients
          Workers,     \* API processes running the poller
          MaxAttempts, \* max_attempts of a row
          ClaimBound,  \* bound of the model on the claims of one row
          FailingQueries, \* the steps of a delivery whose query may fail
          MayCrash,    \* whether a process may die
          NoWorker     \* the NULL of locked_by

ASSUME OutboxAssumption ==
    /\ Linked \subseteq Jobs
    /\ MaxAttempts \in Nat \ {0}
    /\ ClaimBound \in Nat /\ ClaimBound >= MaxAttempts
    /\ FailingQueries \subseteq
         {"INVALID", "DELIVERED", "UNCERTAIN", "RETRYABLE", "PERMANENT", "CATCH", "SYNC", "WRITE"}
    /\ MayCrash \in BOOLEAN
    /\ NoWorker \notin Workers

VARIABLES
    job,      \* the rows of notification_jobs
    com,      \* status of the ConnectCommunication of the Linked jobs
    task,     \* task[j][n]: the delivery of the n-th claim of j; task[j][0]:
              \* what is left to do for j after its quarantine
    drain,    \* the poll each worker is in, and the tasks it awaits
    accepted  \* how often the SMTP server accepted the message of a job

vars == <<job, com, task, drain, accepted>>

TerminalStatuses == {"SENT", "UNKNOWN_RESULT", "DEAD_LETTER"}

JobStatuses == {"NONE", "QUEUED", "PROCESSING", "RETRY_PENDING"} \union TerminalStatuses

ComStatuses == {"REQUESTED", "QUEUED", "DELIVERED", "UNKNOWN_RESULT", "DEAD_LETTER"}

(* Steps of a delivery that end in an UPDATE of the row ...                 *)
FinishingSteps ==
    {"INVALID", "DELIVERED", "UNCERTAIN", "RETRYABLE", "PERMANENT", "CATCH"}

(* ... and all of them.  DISPATCH and ACCEPTED are in mailTransport.send.   *)
TaskSteps == {"NONE", "DISPATCH", "ACCEPTED", "SYNC", "WRITE"} \union FinishingSteps

NoRow == [status |-> "NONE", retries |-> 0, owner |-> NoWorker, leased |-> FALSE]

NoTask == [pc |-> "NONE", by |-> NoWorker, caught |-> FALSE, seen |-> "REQUESTED"]

NoDrain == [pc |-> "IDLE", awaits |-> {}]

Terminal(j) == job[j].status \in TerminalStatuses

Tasks == Jobs \X (0 .. ClaimBound)

Runs(j, n) == task[j][n].pc # "NONE"

Becomes(j, n, t) == [task EXCEPT ![j][n] = t]

At(j, n, pc) == Becomes(j, n, [task[j][n] EXCEPT !.pc = pc])

(* Promise.all settles for a worker when its last task ends ...             *)
Ended(j, n) ==
    /\ task' = Becomes(j, n, NoTask)
    /\ drain' = [w \in Workers |->
          LET left == drain[w].awaits \ {<<j, n>>} IN
          IF <<j, n>> \notin drain[w].awaits THEN drain[w]
          ELSE [pc |-> IF left # {} THEN drain[w].pc
                       ELSE IF drain[w].pc = "QUARANTINE" THEN "CLAIM" ELSE "IDLE",
                awaits |-> left]]

(* ... or when one of them throws, while the others go on unattended.       *)
Rejected(j, n) ==
    /\ task' = Becomes(j, n, NoTask)
    /\ drain' = [w \in Workers |->
          IF <<j, n>> \in drain[w].awaits THEN NoDrain ELSE drain[w]]

-----------------------------------------------------------------------------

Init ==
    /\ job = [j \in Jobs |-> NoRow]
    /\ com = "REQUESTED"
    /\ task = [j \in Jobs |-> [n \in 0 .. ClaimBound |-> NoTask]]
    /\ drain = [w \in Workers |-> NoDrain]
    /\ accepted = [j \in Jobs |-> 0]

(* CommunicationsService.send: the communication and the jobs of all its    *)
(* recipients are one transaction.                                          *)
Send ==
    /\ com = "REQUESTED" /\ Linked # {}
    /\ com' = "QUEUED"
    /\ job' = [j \in Jobs |-> IF j \in Linked THEN [NoRow EXCEPT !.status = "QUEUED"] ELSE job[j]]
    /\ UNCHANGED <<task, drain, accepted>>

(* A security e-mail is queued.                                             *)
Enqueue(j) ==
    /\ j \notin Linked /\ job[j] = NoRow
    /\ job' = [job EXCEPT ![j].status = "QUEUED"]
    /\ UNCHANGED <<com, task, drain, accepted>>

-----------------------------------------------------------------------------
(* One poll: quarantine, claim, deliver.                                    *)

(* A variant of the next definition with a bug the properties catch.        *)
RequeuedAfterExpiry == "RETRY_PENDING"

QuarantineStatus == "UNKNOWN_RESULT"

QuarantineExpiredProcessingLeases(w) ==
    LET expired == {j \in Jobs : job[j].status = "PROCESSING" /\ ~job[j].leased}
        syncs   == (expired \intersect Linked) \X {0}
    IN
    /\ drain[w].pc = "IDLE"
    /\ job' = [j \in Jobs |->
                 IF j \in expired
                   THEN [job[j] EXCEPT !.status = QuarantineStatus, !.owner = NoWorker]
                   ELSE job[j]]
    /\ task' = [j \in Jobs |->
                  IF <<j, 0>> \in syncs
                    THEN [task[j] EXCEPT ![0] = [NoTask EXCEPT !.pc = "SYNC", !.by = w, !.caught = TRUE]]
                    ELSE task[j]]
    /\ drain' = [drain EXCEPT ![w] =
                   [pc |-> IF syncs = {} THEN "CLAIM" ELSE "QUARANTINE", awaits |-> syncs]]
    /\ UNCHANGED <<com, accepted>>

(* Variants of the next definition with bugs the properties catch.          *)
AnyLiveRow(j) == job[j].status \in {"QUEUED", "RETRY_PENDING", "PROCESSING"}
OnlyQueued(j) == job[j].status = "QUEUED"

Claimable(j) == job[j].status \in {"QUEUED", "RETRY_PENDING"}

(* The rows S are due and not locked by another claim.  When a backoff ends *)
(* is a matter of time, so any claimable rows may be the due ones.  A poll     *)
(* whose query fails ends as one that finds no row.                         *)
ClaimJobs(w, S) ==
    /\ drain[w].pc = "CLAIM"
    /\ \A j \in S : Claimable(j) /\ job[j].retries < ClaimBound
    /\ job' = [j \in Jobs |->
                 IF j \in S THEN [status |-> "PROCESSING", retries |-> job[j].retries + 1,
                                  owner |-> w, leased |-> TRUE]
                            ELSE job[j]]
    /\ task' = [j \in Jobs |->
                  IF j \in S THEN [task[j] EXCEPT ![job[j].retries + 1] =
                                     [NoTask EXCEPT !.pc = "DISPATCH", !.by = w]]
                             ELSE task[j]]
    /\ drain' = [drain EXCEPT ![w] =
                   IF S = {} THEN NoDrain
                   ELSE [pc |-> "DELIVER", awaits |-> {<<j, job[j].retries + 1>> : j \in S}]]
    /\ UNCHANGED <<com, accepted>>

LeaseExpires(j) ==
    /\ job[j].status = "PROCESSING" /\ job[j].leased
    /\ job' = [job EXCEPT ![j].leased = FALSE]
    /\ UNCHANGED <<com, task, drain, accepted>>

(* A variant of the next definition with a bug the properties catch.        *)
ById(j, n) == job[j] # NoRow

(* The row a delivery may still write: the WHERE of each of its UPDATEs.    *)
Owns(j, n) == job[j].status = "PROCESSING" /\ job[j].owner = task[j][n].by

(* The heartbeat of a delivery that is under way.                           *)
Heartbeat(j, n) ==
    /\ n > 0 /\ Runs(j, n)
    /\ Owns(j, n) /\ ~job[j].leased
    /\ job' = [job EXCEPT ![j].leased = TRUE]
    /\ UNCHANGED <<com, task, drain, accepted>>

-----------------------------------------------------------------------------
(* deliverClaimedJob.                                                       *)

(* parsePayload throws; what follows is outside the try that retries.       *)
ParseFails(j, n) ==
    /\ task[j][n].pc = "DISPATCH"
    /\ task' = Becomes(j, n, [task[j][n] EXCEPT !.pc = "INVALID", !.caught = TRUE])
    /\ UNCHANGED <<job, com, drain, accepted>>

SmtpAccepts(j, n) ==
    /\ task[j][n].pc = "DISPATCH"
    /\ accepted' = [accepted EXCEPT ![j] = @ + 1]
    /\ task' = At(j, n, "ACCEPTED")
    /\ UNCHANGED <<job, com, drain>>

(* What mailTransport.send returns.                                         *)
SendReturns(j, n, result) ==
    /\ \/ task[j][n].pc = "ACCEPTED" /\ result \in {"DELIVERED", "UNCERTAIN"}
       \/ task[j][n].pc = "DISPATCH" /\ result \in {"UNCERTAIN", "RETRYABLE", "PERMANENT"}
    /\ task' = At(j, n, result)
    /\ UNCHANGED <<job, com, drain, accepted>>

(* The status finishFailure, finishUnknownResult or the success path writes.*)
FinalStatus(step, n) ==
    CASE step = "DELIVERED" -> "SENT"
      [] step = "UNCERTAIN" -> "UNKNOWN_RESULT"
      [] step \in {"INVALID", "PERMANENT"} \/ (step \in {"RETRYABLE", "CATCH"} /\ n >= MaxAttempts)
            -> "DEAD_LETTER"
      [] OTHER -> "RETRY_PENDING"

(* The outcome is written, and the delivery is over unless a communication  *)
(* has to be synchronised.                                                  *)
Finish(j, n) ==
    /\ task[j][n].pc \in FinishingSteps
    /\ IF Owns(j, n)
         THEN job' = [job EXCEPT ![j] =
                        [job[j] EXCEPT !.status = FinalStatus(task[j][n].pc, n),
                                       !.owner = NoWorker, !.leased = FALSE]]
         ELSE UNCHANGED job
    /\ IF Owns(j, n) /\ j \in Linked
         THEN task' = At(j, n, "SYNC") /\ UNCHANGED drain
         ELSE Ended(j, n)
    /\ UNCHANGED <<com, accepted>>

(* A variant of the next definition with a bug the properties catch.        *)
AnySent(f) ==
    IF \E j \in Linked : f[j].status = "SENT" THEN "DELIVERED"
    ELSE IF \E j \in Linked : f[j].status = "UNKNOWN_RESULT" THEN "UNKNOWN_RESULT"
    ELSE IF \E j \in Linked : f[j].status = "DEAD_LETTER" THEN "DEAD_LETTER"
    ELSE "QUEUED"

(* What syncCommunicationStatus makes of the rows it reads.                 *)
Aggregate(f) ==
    IF \E j \in Linked : f[j].status = "UNKNOWN_RESULT" THEN "UNKNOWN_RESULT"
    ELSE IF \E j \in Linked : f[j].status = "DEAD_LETTER" THEN "DEAD_LETTER"
    ELSE IF \A j \in Linked : f[j].status = "SENT" THEN "DELIVERED"
    ELSE "QUEUED"

SyncReads(j, n) ==
    /\ task[j][n].pc = "SYNC"
    /\ task' = Becomes(j, n, [task[j][n] EXCEPT !.pc = "WRITE", !.seen = Aggregate(job)])
    /\ UNCHANGED <<job, com, drain, accepted>>

SyncWrites(j, n) ==
    /\ task[j][n].pc = "WRITE"
    /\ com' = task[j][n].seen
    /\ Ended(j, n)
    /\ UNCHANGED <<job, accepted>>

(* A query of a delivery fails: the first time the catch block makes a      *)
(* retryable failure of it, whatever had happened before; what fails there, *)
(* or outside the try, rejects the poll.                                    *)
QueryFails(j, n) ==
    /\ task[j][n].pc \in FailingQueries
    /\ IF task[j][n].caught
         THEN Rejected(j, n)
         ELSE /\ task' = Becomes(j, n, [task[j][n] EXCEPT !.pc = "CATCH", !.caught = TRUE])
              /\ UNCHANGED drain
    /\ UNCHANGED <<job, com, accepted>>

(* A process dies and another takes its place.  The new one has another     *)
(* workerId, but nothing that used the old one is left to tell.             *)
Crash(w) ==
    /\ MayCrash
    /\ drain[w] # NoDrain \/ \E t \in Tasks : task[t[1]][t[2]].by = w
    /\ drain' = [drain EXCEPT ![w] = NoDrain]
    /\ task' = [j \in Jobs |-> [n \in 0 .. ClaimBound |->
                  IF task[j][n].by = w THEN NoTask ELSE task[j][n]]]
    /\ UNCHANGED <<job, com, accepted>>

-----------------------------------------------------------------------------

DeliveryStep(j, n) ==
    \/ ParseFails(j, n)
    \/ SmtpAccepts(j, n)
    \/ \E result \in FinishingSteps : SendReturns(j, n, result)
    \/ Finish(j, n)
    \/ SyncReads(j, n)
    \/ SyncWrites(j, n)

Next ==
    \/ Send
    \/ \E j \in Jobs : Enqueue(j) \/ LeaseExpires(j)
    \/ \E w \in Workers :
          \/ QuarantineExpiredProcessingLeases(w)
          \/ \E S \in SUBSET Jobs : ClaimJobs(w, S)
          \/ Crash(w)
    \/ \E t \in Tasks :
          \/ DeliveryStep(t[1], t[2])
          \/ Heartbeat(t[1], t[2])
          \/ QueryFails(t[1], t[2])

(* Some process goes on polling every two seconds (setInterval), and due    *)
(* rows are claimed in the order they became due, so a row is claimed       *)
(* sooner or later even if processes keep crashing; deliveries go on, as    *)
(* SMTP calls end by their socket timeout; and the lease of a row nobody    *)
(* delivers any more runs out.                                              *)
PollGoesOn == \E w \in Workers : QuarantineExpiredProcessingLeases(w) \/ ClaimJobs(w, {})

ClaimOf(j) == \E w \in Workers, S \in SUBSET Jobs : j \in S /\ ClaimJobs(w, S)

AbandonedLeaseExpires(j) ==
    (\A n \in 1 .. ClaimBound : ~Runs(j, n)) /\ LeaseExpires(j)

Fairness ==
    /\ WF_vars(PollGoesOn)
    /\ WF_vars(\E t \in Tasks : DeliveryStep(t[1], t[2]))
    /\ \A j \in Jobs : SF_vars(ClaimOf(j)) /\ WF_vars(AbandonedLeaseExpires(j))

Spec == Init /\ [][Next]_vars

FairSpec == Spec /\ Fairness

-----------------------------------------------------------------------------
(* Properties.                                                              *)

(* The rows, the deliveries and the polls keep their types.                 *)
TypeOK ==
    /\ job \in [Jobs -> [status : JobStatuses, retries : 0 .. ClaimBound,
                         owner : Workers \union {NoWorker}, leased : BOOLEAN]]
    /\ com \in ComStatuses
    /\ task \in [Jobs -> [0 .. ClaimBound ->
                   [pc : TaskSteps, by : Workers \union {NoWorker},
                    caught : BOOLEAN, seen : ComStatuses]]]
    /\ drain \in [Workers -> [pc : {"IDLE", "QUARANTINE", "CLAIM", "DELIVER"},
                              awaits : SUBSET Tasks]]
    /\ accepted \in [Jobs -> Nat]

(* notification.service.ts:73-76: a message that may have been accepted is  *)
(* never sent again.  A row waiting for another attempt was not accepted.   *)
NoBlindRetry ==
    \A j \in Jobs : job[j].status \in {"QUEUED", "RETRY_PENDING"} => accepted[j] = 0

(* Only one delivery of a job is in the transport at any time.              *)
OneDispatcher ==
    \A j \in Jobs :
        Cardinality({n \in 1 .. ClaimBound : task[j][n].pc \in {"DISPATCH", "ACCEPTED"}}) <= 1

(* While the queries that follow an answer of SMTP other than a refusal, and *)
(* those that synchronise, succeed, no message is given to the transport     *)
(* twice: not at the same time, and not after it was accepted.               *)
DeliveredOnce == TypeOK /\ OneDispatcher /\ NoBlindRetry

(* "UNKNOWN_RESULT is deliberately terminal" (notification.service.ts:457), *)
(* and so are SENT and DEAD_LETTER, for late deliveries and retries too.    *)
TerminalJobIsFinal ==
    [][\A j \in Jobs : Terminal(j) => job'[j].status = job[j].status]_vars

(* A communication shown as delivered, unknown or dead was so delivered:    *)
(* every recipient's job was sent, or some job ended that way.              *)
CommunicationIsTrue ==
    /\ com = "DELIVERED" => \A j \in Linked : job[j].status = "SENT"
    /\ com \in {"UNKNOWN_RESULT", "DEAD_LETTER"} => \E j \in Linked : job[j].status = com

(* Every queued message comes to an end, through retries, crashes and       *)
(* expired leases.                                                          *)
EveryJobSettles == \A j \in Jobs : job[j].status = "QUEUED" ~> Terminal(j)
=============================================================================
