---------------------------- MODULE OutboxProofs -----------------------------
(***************************************************************************)
(* Proofs about NotificationOutbox, for every number of jobs, processes    *)
(* and attempts.  What a communication says (RowsIInv) holds whatever      *)
(* query fails; that no message leaves twice (DeliveriesIInv) needs the    *)
(* queries that follow an acceptance, and those that synchronise, to       *)
(* succeed: then only the delivery of the latest claim is under way, and   *)
(* only while its row is PROCESSING or over.                               *)
(***************************************************************************)
EXTENDS NotificationOutbox, FiniteSetTheorems, TLAPS

Claims == 0 .. ClaimBound

Row == [status : JobStatuses, retries : Claims,
        owner : Workers \union {NoWorker}, leased : BOOLEAN]

Task == [pc : TaskSteps, by : Workers \union {NoWorker}, caught : BOOLEAN, seen : ComStatuses]

Poll == [pc : {"IDLE", "QUARANTINE", "CLAIM", "DELIVER"}, awaits : SUBSET Tasks]

(* What a status of the communication claims of its jobs.                   *)
Says(c) ==
    /\ c = "DELIVERED" => \A j \in Linked : job[j].status = "SENT"
    /\ c \in {"UNKNOWN_RESULT", "DEAD_LETTER"} => \E j \in Linked : job[j].status = c

(* The communication is sent once, before its jobs exist.                   *)
SentBefore == com = "REQUESTED" => \A j \in Linked : job[j] = NoRow

(* What a synchronisation read is still true when it writes it.             *)
SyncsAreTrue ==
    \A j \in Jobs, n \in Claims :
        task[j][n].pc = "WRITE" => task[j][n].seen # "REQUESTED" /\ Says(task[j][n].seen)

RowsIInv == TypeOK /\ SentBefore /\ SyncsAreTrue /\ Says(com)

Waiting == {"NONE", "QUEUED", "RETRY_PENDING"}

Live == {"DISPATCH", "ACCEPTED"} \union FinishingSteps

Unsent == {"DISPATCH", "INVALID", "RETRYABLE", "PERMANENT", "CATCH"}

(* A delivery under way is the one of the latest claim, whose row has not   *)
(* been given back.                                                         *)
LatestLives ==
    \A j \in Jobs, n \in Claims :
        task[j][n].pc \in Live => n = job[j].retries /\ job[j].status \notin Waiting

(* Nothing was accepted of what may still be sent, and of what was refused. *)
NothingAccepted ==
    \A j \in Jobs :
        /\ job[j].status \in Waiting => accepted[j] = 0
        /\ \A n \in Claims : task[j][n].pc \in Unsent => accepted[j] = 0

DeliveriesIInv == RowsIInv /\ LatestLives /\ NothingAccepted

(* The queries that follow an acceptance, or synchronise, succeed.          *)
LateQueriesSucceed == FailingQueries \subseteq {"INVALID", "RETRYABLE", "PERMANENT", "CATCH"}
-----------------------------------------------------------------------------
(* The rows and the deliveries keep their types.                            *)

LEMMA TaskRead ==
    ASSUME task \in [Jobs -> [Claims -> Task]], NEW k \in Jobs, NEW m \in Claims
    PROVE  task[k][m] \in Task
  OBVIOUS

LEMMA RowRead ==
    ASSUME job \in [Jobs -> Row], NEW k \in Jobs
    PROVE  job[k] \in Row
  OBVIOUS

(* Writing one delivery keeps the others as they were.                      *)
LEMMA BecomesOne ==
    ASSUME task \in [Jobs -> [Claims -> Task]], NEW k \in Jobs, NEW m \in Claims,
           NEW t \in Task, task' = Becomes(k, m, t)
    PROVE  /\ task' \in [Jobs -> [Claims -> Task]]
           /\ \A i \in Jobs, l \in Claims :
                 task'[i][l] = IF i = k /\ l = m THEN t ELSE task[i][l]
  BY DEF Becomes

(* A delivery that moves on keeps its other fields.                         *)
LEMMA Advanced ==
    ASSUME NEW t \in Task, NEW p \in TaskSteps, NEW c \in ComStatuses
    PROVE  /\ [t EXCEPT !.pc = p] \in Task
           /\ [t EXCEPT !.pc = p, !.caught = TRUE] \in Task
           /\ [t EXCEPT !.pc = p, !.seen = c] \in Task
  BY DEF Task

(* So does a row that changes hands.                                        *)
LEMMA HandedOver ==
    ASSUME NEW r \in Row, NEW st \in JobStatuses
    PROVE  /\ [r EXCEPT !.status = st, !.owner = NoWorker] \in Row
           /\ [r EXCEPT !.status = st, !.owner = NoWorker].status = st
           /\ [r EXCEPT !.status = st, !.owner = NoWorker].retries = r.retries
           /\ [r EXCEPT !.status = st, !.owner = NoWorker, !.leased = FALSE] \in Row
           /\ [r EXCEPT !.status = st, !.owner = NoWorker, !.leased = FALSE].status = st
           /\ [r EXCEPT !.status = st, !.owner = NoWorker, !.leased = FALSE].retries = r.retries
  BY DEF Row

(* The records the rows and the deliveries start with.                      *)
LEMMA Blank ==
    ASSUME ClaimBound \in Nat
    PROVE  /\ NoTask \in Task /\ NoRow \in Row /\ NoDrain \in Poll
           /\ \A w \in Workers, p \in TaskSteps :
                 /\ [NoTask EXCEPT !.pc = p, !.by = w] \in Task
                 /\ [NoTask EXCEPT !.pc = p, !.by = w, !.caught = TRUE] \in Task
           /\ [NoRow EXCEPT !.status = "QUEUED"] \in Row
  <1>1. NoTask \in Task
    BY DEF NoTask, Task, TaskSteps, ComStatuses
  <1>2. NoRow \in Row /\ [NoRow EXCEPT !.status = "QUEUED"] \in Row
    <2>1. 0 \in Claims /\ "NONE" \in JobStatuses /\ "QUEUED" \in JobStatuses
      BY DEF Claims, JobStatuses
    <2> QED BY <2>1 DEF NoRow, Row
  <1>3. NoDrain \in Poll
    BY DEF NoDrain, Poll
  <1>4. ASSUME NEW w \in Workers, NEW p \in TaskSteps
        PROVE  /\ [NoTask EXCEPT !.pc = p, !.by = w] \in Task
               /\ [NoTask EXCEPT !.pc = p, !.by = w, !.caught = TRUE] \in Task
    BY DEF NoTask, Task, ComStatuses
  <1> QED BY <1>1, <1>2, <1>3, <1>4

LEMMA TypesAre ==
    TypeOK <=> /\ job \in [Jobs -> Row] /\ com \in ComStatuses
               /\ task \in [Jobs -> [Claims -> Task]] /\ drain \in [Workers -> Poll]
               /\ accepted \in [Jobs -> Nat]
  BY DEF TypeOK, Row, Task, Poll, Claims

LEMMA TypesWillBe ==
    TypeOK' <=> /\ job' \in [Jobs -> Row] /\ com' \in ComStatuses
                /\ task' \in [Jobs -> [Claims -> Task]] /\ drain' \in [Workers -> Poll]
                /\ accepted' \in [Jobs -> Nat]
  BY DEF TypeOK, Row, Task, Poll, Claims

(* A delivery that ends leaves every poll well formed, whichever way.       *)
LEMMA PollsGoOn ==
    ASSUME TypeOK, NEW k \in Jobs, NEW m \in Claims, ClaimBound \in Nat,
           Ended(k, m) \/ Rejected(k, m)
    PROVE  /\ drain' \in [Workers -> Poll]
           /\ task' \in [Jobs -> [Claims -> Task]]
           /\ \A i \in Jobs, l \in Claims :
                 task'[i][l] = IF i = k /\ l = m THEN NoTask ELSE task[i][l]
  <1>1. task' = Becomes(k, m, NoTask)
    BY DEF Ended, Rejected
  <1>2. drain' \in [Workers -> Poll]
    <2>1. CASE Ended(k, m)
      BY <2>1, TypesAre DEF Ended, Poll
    <2>2. CASE Rejected(k, m)
      BY <2>2, TypesAre, Blank DEF Rejected
    <2> QED BY <2>1, <2>2
  <1>3. NoTask \in Task /\ task \in [Jobs -> [Claims -> Task]]
    BY TypesAre, Blank
  <1> QED BY <1>1, <1>2, <1>3, BecomesOne

LEMMA AggregateIsStatus ==
    Aggregate(job) \in ComStatuses /\ Aggregate(job) # "REQUESTED"
  BY DEF Aggregate, ComStatuses

LEMMA FinalIsStatus ==
    ASSUME NEW p, NEW m
    PROVE  FinalStatus(p, m) \in {"SENT", "UNKNOWN_RESULT", "DEAD_LETTER", "RETRY_PENDING"}
  BY DEF FinalStatus
-----------------------------------------------------------------------------
(* What every step does to the rows, the communication and its              *)
(* synchronisations.                                                        *)
RowsMove ==
    /\ TypeOK'
    /\ \A j \in Jobs : Terminal(j) => job'[j].status = job[j].status
    /\ \A j \in Jobs, n \in Claims :
          task'[j][n].pc = "WRITE" =>
              \/ task'[j][n] = task[j][n]
              \/ task'[j][n].seen = Aggregate(job) /\ job' = job
    /\ \/ com' = com \/ com' = "QUEUED"
       \/ \E j \in Jobs, n \in Claims : task[j][n].pc = "WRITE" /\ com' = task[j][n].seen
    /\ com' = "REQUESTED" => \A j \in Linked : job'[j] = job[j]

LEMMA SaysStays ==
    ASSUME Linked \subseteq Jobs,
           \A j \in Jobs : Terminal(j) => job'[j].status = job[j].status,
           NEW c \in ComStatuses, Says(c)
    PROVE  Says(c)'
  BY DEF Says, Terminal, TerminalStatuses

LEMMA AggregateSays == Says(Aggregate(job))
  BY DEF Says, Aggregate

LEMMA RowsMoveKeeps ==
    ASSUME Linked \subseteq Jobs, RowsIInv, RowsMove
    PROVE  RowsIInv'
  <1>1. TypeOK' /\ TypeOK
    BY DEF RowsMove, RowsIInv
  <1>2. \A j \in Jobs : Terminal(j) => job'[j].status = job[j].status
    BY DEF RowsMove
  <1>3. SyncsAreTrue'
    <2> SUFFICES ASSUME NEW j \in Jobs, NEW n \in Claims, task'[j][n].pc = "WRITE"
                 PROVE  task'[j][n].seen # "REQUESTED" /\ Says(task[j][n].seen)'
      BY DEF SyncsAreTrue
    <2>1. PICK c \in ComStatuses : c = task'[j][n].seen
      <3>1. task'[j][n] \in Task
        BY <1>1, TypesWillBe
      <3> QED BY <3>1 DEF Task
    <2>2. CASE task'[j][n] = task[j][n]
      BY <2>1, <2>2, <1>2, SaysStays DEF RowsIInv, SyncsAreTrue
    <2>3. CASE task'[j][n].seen = Aggregate(job) /\ job' = job
      BY <2>1, <2>3, <1>2, SaysStays, AggregateSays, AggregateIsStatus
    <2> QED BY <2>2, <2>3 DEF RowsMove
  <1>4. Says(com)' /\ (com' = "REQUESTED" => com = "REQUESTED")
    <2>1. PICK c \in ComStatuses : c = com'
      BY <1>1, TypesWillBe
    <2>2. Says(c) /\ (com' = "REQUESTED" => com = "REQUESTED")
      <3>1. CASE com' = com
        BY <3>1, <2>1 DEF RowsIInv
      <3>2. CASE com' = "QUEUED"
        BY <3>2, <2>1 DEF Says
      <3>3. CASE \E j \in Jobs, n \in Claims : task[j][n].pc = "WRITE" /\ com' = task[j][n].seen
        BY <3>3, <2>1 DEF RowsIInv, SyncsAreTrue
      <3> QED BY <3>1, <3>2, <3>3 DEF RowsMove
    <2> QED BY <2>1, <2>2, <1>2, SaysStays
  <1>5. SentBefore'
    BY <1>4 DEF RowsMove, RowsIInv, SentBefore
  <1> QED BY <1>1, <1>3, <1>4, <1>5 DEF RowsIInv
LEMMA SendMoves ==
    ASSUME RowsIInv, Send
    PROVE  RowsMove
  <1>1. TypeOK /\ ClaimBound \in Nat
    BY OutboxAssumption DEF RowsIInv
  <1>2. TypeOK'
    BY <1>1, TypesAre, TypesWillBe, Blank DEF Send, ComStatuses
  <1>3. \A j \in Jobs : Terminal(j) => job'[j].status = job[j].status
    BY <1>1, TypesAre DEF RowsIInv, SentBefore, Send, Terminal, TerminalStatuses, NoRow
  <1> QED BY <1>2, <1>3 DEF RowsMove, Send

LEMMA EnqueueMoves ==
    ASSUME RowsIInv, NEW k \in Jobs, Enqueue(k)
    PROVE  RowsMove
  <1>1. TypeOK /\ ClaimBound \in Nat
    BY OutboxAssumption DEF RowsIInv
  <1>2. job'[k] = [NoRow EXCEPT !.status = "QUEUED"] /\ job' \in [Jobs -> Row]
        /\ \A j \in Jobs \ {k} : job'[j] = job[j]
    BY <1>1, TypesAre, Blank DEF Enqueue
  <1>3. TypeOK'
    BY <1>1, <1>2, TypesAre, TypesWillBe DEF Enqueue
  <1>4. \A j \in Jobs : Terminal(j) => job'[j].status = job[j].status
    BY <1>2 DEF Enqueue, Terminal, TerminalStatuses, NoRow
  <1>5. \A j \in Linked : job'[j] = job[j]
    BY <1>2, OutboxAssumption DEF Enqueue
  <1> QED BY <1>3, <1>4, <1>5 DEF RowsMove, Enqueue

(* A row that is leased, or is no longer, changes nothing else.             *)
LEMMA LeaseMoves ==
    ASSUME RowsIInv, NEW k \in Jobs, NEW b \in BOOLEAN,
           job[k].status = "PROCESSING", job' = [job EXCEPT ![k].leased = b],
           UNCHANGED <<com, task, drain, accepted>>
    PROVE  /\ RowsMove
           /\ \A j \in Jobs : job'[j].status = job[j].status /\ job'[j].retries = job[j].retries
  <1>1. TypeOK
    BY DEF RowsIInv
  <1>2. job' \in [Jobs -> Row] /\ \A j \in Jobs : job'[j].status = job[j].status
                               /\ job'[j].retries = job[j].retries
    BY <1>1, TypesAre DEF Row
  <1>3. TypeOK'
    BY <1>1, <1>2, TypesAre, TypesWillBe
  <1>4. com' = "REQUESTED" => \A j \in Linked : job'[j] = job[j]
    BY <1>1, TypesAre, OutboxAssumption DEF RowsIInv, SentBefore, NoRow
  <1> QED BY <1>2, <1>3, <1>4 DEF RowsMove

LEMMA QuarantineMoves ==
    ASSUME RowsIInv, NEW w \in Workers, QuarantineExpiredProcessingLeases(w)
    PROVE  /\ RowsMove
           /\ \A j \in Jobs, n \in Claims :
                 task'[j][n] # task[j][n] => task'[j][n].pc = "SYNC"
           /\ \A j \in Jobs :
                 \/ job'[j] = job[j]
                 \/ /\ job[j].status = "PROCESSING" /\ job'[j].status = "UNKNOWN_RESULT"
                    /\ job'[j].retries = job[j].retries
  <1> DEFINE expired == {j \in Jobs : job[j].status = "PROCESSING" /\ ~job[j].leased}
             syncs   == (expired \intersect Linked) \X {0}
             blank   == [NoTask EXCEPT !.pc = "SYNC", !.by = w, !.caught = TRUE]
  <1>1. TypeOK /\ ClaimBound \in Nat
    BY OutboxAssumption DEF RowsIInv
  <1>2. \A j \in Jobs :
           job'[j] = IF j \in expired
                       THEN [job[j] EXCEPT !.status = "UNKNOWN_RESULT", !.owner = NoWorker]
                       ELSE job[j]
    BY DEF QuarantineExpiredProcessingLeases, QuarantineStatus
  <1>3. job' \in [Jobs -> Row]
    <2>1. "UNKNOWN_RESULT" \in JobStatuses
      BY DEF JobStatuses, TerminalStatuses
    <2> HIDE DEF expired
    <2>2. ASSUME NEW j \in Jobs
          PROVE  job'[j] \in Row
      <3>1. job[j] \in Row
        BY <1>1, TypesAre
      <3> QED BY <1>2, <2>1, <3>1, HandedOver
    <2> QED BY <2>2 DEF QuarantineExpiredProcessingLeases
  <1>4. blank \in Task /\ blank.pc = "SYNC"
    BY <1>1, Blank DEF TaskSteps, NoTask
  <1>5. /\ task' \in [Jobs -> [Claims -> Task]]
        /\ \A j \in Jobs, n \in Claims :
              task'[j][n] = IF <<j, 0>> \in syncs /\ n = 0 THEN blank ELSE task[j][n]
    <2>1. 0 \in Claims
      BY <1>1 DEF Claims
    <2> HIDE DEF blank
    <2>2. task' = [j \in Jobs |-> IF <<j, 0>> \in syncs
                                    THEN [task[j] EXCEPT ![0] = blank] ELSE task[j]]
      BY DEF QuarantineExpiredProcessingLeases, blank
    <2> HIDE DEF syncs
    <2> QED BY <1>1, <1>4, <2>1, <2>2, TypesAre
  <1>6. drain' \in [Workers -> Poll]
    <2>1. syncs \subseteq Tasks
      BY <1>1 DEF Tasks
    <2> HIDE DEF syncs
    <2>2. drain' = [drain EXCEPT ![w] = [pc |-> IF syncs = {} THEN "CLAIM" ELSE "QUARANTINE",
                                         awaits |-> syncs]]
      BY DEF QuarantineExpiredProcessingLeases, syncs
    <2> QED BY <1>1, <2>1, <2>2, TypesAre DEF Poll
  <1>7. TypeOK'
    BY <1>1, <1>3, <1>5, <1>6, TypesAre, TypesWillBe DEF QuarantineExpiredProcessingLeases
  <1>8. \A j \in Jobs :
           \/ job'[j] = job[j]
           \/ /\ job[j].status = "PROCESSING" /\ job'[j].status = "UNKNOWN_RESULT"
              /\ job'[j].retries = job[j].retries
    <2>1. "UNKNOWN_RESULT" \in JobStatuses
      BY DEF JobStatuses, TerminalStatuses
    <2>2. ASSUME NEW j \in Jobs, j \in expired
          PROVE  job'[j].status = "UNKNOWN_RESULT" /\ job'[j].retries = job[j].retries
      <3>1. job[j] \in Row
        BY <1>1, TypesAre
      <3>2. job'[j] = [job[j] EXCEPT !.status = "UNKNOWN_RESULT", !.owner = NoWorker]
        BY <1>2, <2>2
      <3> QED BY <3>1, <3>2 DEF Row
    <2> QED BY <1>2, <2>2
  <1>9. \A j \in Jobs, n \in Claims : task'[j][n] # task[j][n] => task'[j][n].pc = "SYNC"
    BY <1>4, <1>5
  <1>10. com' = com
    BY DEF QuarantineExpiredProcessingLeases
  <1>11. com' = "REQUESTED" => \A j \in Linked : job'[j] = job[j]
    BY <1>8, <1>10, OutboxAssumption DEF RowsIInv, SentBefore, NoRow
  <1> QED BY <1>7, <1>8, <1>9, <1>10, <1>11 DEF RowsMove, Terminal, TerminalStatuses

LEMMA ClaimMoves ==
    ASSUME RowsIInv, NEW w \in Workers, NEW S \in SUBSET Jobs, ClaimJobs(w, S)
    PROVE  /\ RowsMove
           /\ \A j \in Jobs, n \in Claims :
                 task'[j][n] # task[j][n] =>
                     task'[j][n].pc = "DISPATCH" /\ j \in S /\ n = job[j].retries + 1
           /\ \A j \in Jobs : IF j \in S THEN /\ job[j].status \in Waiting
                                              /\ job'[j].status = "PROCESSING"
                                              /\ job'[j].retries = job[j].retries + 1
                                         ELSE job'[j] = job[j]
  <1> DEFINE blank == [NoTask EXCEPT !.pc = "DISPATCH", !.by = w]
  <1>1. TypeOK /\ ClaimBound \in Nat
    BY OutboxAssumption DEF RowsIInv
  <1>2. \A j \in S : /\ job[j].status \in {"QUEUED", "RETRY_PENDING"}
                     /\ job[j].retries + 1 \in Claims
    BY <1>1, TypesAre DEF ClaimJobs, Claimable, Row, Claims
  <1>3. \A j \in Jobs :
           job'[j] = IF j \in S THEN [status |-> "PROCESSING", retries |-> job[j].retries + 1,
                                      owner |-> w, leased |-> TRUE]
                     ELSE job[j]
    BY DEF ClaimJobs
  <1>4. job' \in [Jobs -> Row]
    <2>1. \A j \in Jobs : job'[j] \in Row
      <3>1. "PROCESSING" \in JobStatuses
        BY DEF JobStatuses
      <3>2. ASSUME NEW c \in Claims
            PROVE  [status |-> "PROCESSING", retries |-> c, owner |-> w, leased |-> TRUE] \in Row
        BY <3>1 DEF Row
      <3>3. job \in [Jobs -> Row]
        BY <1>1, TypesAre
      <3> QED BY <1>2, <1>3, <3>2, <3>3
    <2> QED BY <2>1 DEF ClaimJobs
  <1>5. blank \in Task /\ blank.pc = "DISPATCH"
    BY <1>1, Blank DEF TaskSteps, NoTask
  <1>6. /\ task' \in [Jobs -> [Claims -> Task]]
        /\ \A j \in Jobs, n \in Claims :
              task'[j][n] = IF j \in S /\ n = job[j].retries + 1 THEN blank ELSE task[j][n]
    <2> HIDE DEF blank
    <2>1. task' = [j \in Jobs |-> IF j \in S THEN [task[j] EXCEPT ![job[j].retries + 1] = blank]
                                  ELSE task[j]]
      BY DEF ClaimJobs, blank
    <2>2. task \in [Jobs -> [Claims -> Task]]
      BY <1>1, TypesAre
    <2>3. ASSUME NEW j \in Jobs
          PROVE  /\ task'[j] \in [Claims -> Task]
                 /\ \A n \in Claims : task'[j][n] =
                        IF j \in S /\ n = job[j].retries + 1 THEN blank ELSE task[j][n]
      <3>1. CASE j \in S
        <4>1. PICK m \in Claims : m = job[j].retries + 1
          BY <1>2, <3>1
        <4> QED BY <2>1, <2>2, <3>1, <4>1, <1>5
      <3>2. CASE j \notin S
        BY <2>1, <2>2, <3>2
      <3> QED BY <3>1, <3>2
    <2> QED BY <2>1, <2>3
  <1>7. drain' \in [Workers -> Poll]
    <2>1. {<<j, job[j].retries + 1>> : j \in S} \subseteq Tasks
      BY <1>2 DEF Tasks, Claims
    <2>2. NoDrain \in Poll /\ drain \in [Workers -> Poll]
      BY <1>1, Blank, TypesAre
    <2> QED BY <2>1, <2>2 DEF ClaimJobs, Poll
  <1>8. TypeOK'
    BY <1>1, <1>4, <1>6, <1>7, TypesAre, TypesWillBe DEF ClaimJobs
  <1>9. \A j \in Jobs, n \in Claims :
           task'[j][n] # task[j][n] =>
               task'[j][n].pc = "DISPATCH" /\ j \in S /\ n = job[j].retries + 1
    BY <1>5, <1>6
  <1>10. com' = "REQUESTED" => \A j \in Linked : job'[j] = job[j]
    BY <1>2, <1>3, OutboxAssumption DEF RowsIInv, SentBefore, NoRow, ClaimJobs
  <1>11. com' = com
    BY DEF ClaimJobs
  <1>12. \A j \in Jobs : IF j \in S THEN /\ job[j].status \in Waiting
                                          /\ job'[j].status = "PROCESSING"
                                          /\ job'[j].retries = job[j].retries + 1
                                     ELSE job'[j] = job[j]
    <2>1. ASSUME NEW j \in S
          PROVE  job'[j].status = "PROCESSING" /\ job'[j].retries = job[j].retries + 1
      <3>1. job'[j] = [status |-> "PROCESSING", retries |-> job[j].retries + 1,
                       owner |-> w, leased |-> TRUE]
        BY <1>3
      <3> QED BY <3>1
    <2> QED BY <1>2, <1>3, <2>1 DEF Waiting
  <1>13. \A j \in Jobs : Terminal(j) => job'[j].status = job[j].status
    BY <1>12 DEF Terminal, TerminalStatuses, Waiting
  <1> QED BY <1>8, <1>9, <1>10, <1>11, <1>12, <1>13 DEF RowsMove
(* A delivery that moves on, when nothing of what it shares changes.        *)
LEMMA AdvanceMoves ==
    ASSUME RowsIInv, NEW k \in Jobs, NEW m \in Claims, NEW t \in Task,
           task' = Becomes(k, m, t), t.pc = "WRITE" => t.seen = Aggregate(job),
           UNCHANGED <<job, com, drain>>, accepted' \in [Jobs -> Nat]
    PROVE  /\ RowsMove
           /\ \A j \in Jobs, n \in Claims :
                 task'[j][n] = IF j = k /\ n = m THEN t ELSE task[j][n]
  <1>1. TypeOK
    BY DEF RowsIInv
  <1>2. /\ task' \in [Jobs -> [Claims -> Task]]
        /\ \A j \in Jobs, n \in Claims :
              task'[j][n] = IF j = k /\ n = m THEN t ELSE task[j][n]
    BY <1>1, TypesAre, BecomesOne
  <1>3. TypeOK'
    BY <1>1, <1>2, TypesAre, TypesWillBe
  <1> QED BY <1>2, <1>3 DEF RowsMove

(* A delivery that ends, or is given up, when nothing else changes but what *)
(* it writes about the communication.                                       *)
LEMMA EndMoves ==
    ASSUME RowsIInv, NEW k \in Jobs, NEW m \in Claims, Ended(k, m) \/ Rejected(k, m),
           UNCHANGED <<job, accepted>>,
           com' = com \/ (task[k][m].pc = "WRITE" /\ com' = task[k][m].seen)
    PROVE  /\ RowsMove
           /\ \A j \in Jobs, n \in Claims :
                 task'[j][n] = IF j = k /\ n = m THEN NoTask ELSE task[j][n]
  <1>1. TypeOK /\ ClaimBound \in Nat
    BY OutboxAssumption DEF RowsIInv
  <1>2. /\ drain' \in [Workers -> Poll] /\ task' \in [Jobs -> [Claims -> Task]]
        /\ \A j \in Jobs, n \in Claims :
              task'[j][n] = IF j = k /\ n = m THEN NoTask ELSE task[j][n]
    BY <1>1, PollsGoOn
  <1>3. com' \in ComStatuses
    <2>1. task[k][m] \in Task
      BY <1>1, TypesAre
    <2> QED BY <1>1, <2>1, TypesAre DEF Task
  <1>4. TypeOK'
    BY <1>1, <1>2, <1>3, TypesAre, TypesWillBe
  <1>5. NoTask.pc # "WRITE"
    BY DEF NoTask
  <1> QED BY <1>2, <1>4, <1>5 DEF RowsMove

(* What one step of one delivery leaves it to do, and what it lets happen.  *)
LEMMA ParseFailsMoves ==
    ASSUME RowsIInv, NEW k \in Jobs, NEW m \in Claims, ParseFails(k, m)
    PROVE  /\ RowsMove
           /\ \E t \in Task : t.pc = "INVALID" /\ \A j \in Jobs, n \in Claims :
                 task'[j][n] = IF j = k /\ n = m THEN t ELSE task[j][n]
  <1> DEFINE t == [task[k][m] EXCEPT !.pc = "INVALID", !.caught = TRUE]
  <1>1. task[k][m] \in Task /\ accepted \in [Jobs -> Nat]
    BY TypesAre DEF RowsIInv
  <1>2. t \in Task /\ t.pc = "INVALID"
    BY <1>1 DEF Task, TaskSteps, FinishingSteps
  <1>3. task' = Becomes(k, m, t) /\ UNCHANGED <<job, com, drain, accepted>>
    BY DEF ParseFails
  <1> HIDE DEF t
  <1> QED BY <1>1, <1>2, <1>3, AdvanceMoves

(* A delivery whose step changes.                                           *)
LEMMA AtMoves ==
    ASSUME RowsIInv, NEW k \in Jobs, NEW m \in Claims, NEW p \in TaskSteps,
           p # "WRITE", task' = At(k, m, p),
           UNCHANGED <<job, com, drain>>, accepted' \in [Jobs -> Nat]
    PROVE  /\ RowsMove
           /\ \E t \in Task : t.pc = p /\ \A j \in Jobs, n \in Claims :
                 task'[j][n] = IF j = k /\ n = m THEN t ELSE task[j][n]
  <1> DEFINE t == [task[k][m] EXCEPT !.pc = p]
  <1>1. task[k][m] \in Task
    BY TypesAre DEF RowsIInv
  <1>2. t \in Task /\ t.pc = p
    BY <1>1 DEF Task
  <1>3. task' = Becomes(k, m, t)
    BY DEF At
  <1> HIDE DEF t
  <1> QED BY <1>2, <1>3, AdvanceMoves

LEMMA SmtpAcceptsMoves ==
    ASSUME RowsIInv, NEW k \in Jobs, NEW m \in Claims, SmtpAccepts(k, m)
    PROVE  /\ RowsMove
           /\ \E t \in Task : t.pc = "ACCEPTED" /\ \A j \in Jobs, n \in Claims :
                 task'[j][n] = IF j = k /\ n = m THEN t ELSE task[j][n]
  <1>1. accepted' \in [Jobs -> Nat] /\ "ACCEPTED" \in TaskSteps
    BY TypesAre DEF RowsIInv, SmtpAccepts, TaskSteps
  <1> QED BY <1>1, AtMoves DEF SmtpAccepts

LEMMA SendReturnsMoves ==
    ASSUME RowsIInv, NEW k \in Jobs, NEW m \in Claims, NEW result \in FinishingSteps,
           SendReturns(k, m, result)
    PROVE  /\ RowsMove
           /\ \E t \in Task : t.pc = result /\ \A j \in Jobs, n \in Claims :
                 task'[j][n] = IF j = k /\ n = m THEN t ELSE task[j][n]
  <1>1. accepted' \in [Jobs -> Nat] /\ result \in TaskSteps /\ result # "WRITE"
    BY TypesAre DEF RowsIInv, SendReturns, TaskSteps, FinishingSteps
  <1> QED BY <1>1, AtMoves DEF SendReturns

LEMMA SyncReadsMoves ==
    ASSUME RowsIInv, NEW k \in Jobs, NEW m \in Claims, SyncReads(k, m)
    PROVE  /\ RowsMove
           /\ \E t \in Task : t.pc = "WRITE" /\ \A j \in Jobs, n \in Claims :
                 task'[j][n] = IF j = k /\ n = m THEN t ELSE task[j][n]
  <1> DEFINE t == [task[k][m] EXCEPT !.pc = "WRITE", !.seen = Aggregate(job)]
  <1>1. task[k][m] \in Task /\ accepted \in [Jobs -> Nat]
    BY TypesAre DEF RowsIInv
  <1>2. t \in Task /\ t.pc = "WRITE" /\ t.seen = Aggregate(job)
    <2>1. PICK c \in ComStatuses : c = Aggregate(job)
      BY AggregateIsStatus
    <2>2. "WRITE" \in TaskSteps
      BY DEF TaskSteps
    <2> QED BY <1>1, <2>1, <2>2 DEF Task
  <1>3. task' = Becomes(k, m, t) /\ UNCHANGED <<job, com, drain, accepted>>
    BY DEF SyncReads
  <1> HIDE DEF t
  <1> QED BY <1>1, <1>2, <1>3, AdvanceMoves

LEMMA SyncWritesMoves ==
    ASSUME RowsIInv, NEW k \in Jobs, NEW m \in Claims, SyncWrites(k, m)
    PROVE  /\ RowsMove
           /\ \A j \in Jobs, n \in Claims :
                 task'[j][n] = IF j = k /\ n = m THEN NoTask ELSE task[j][n]
  BY EndMoves DEF SyncWrites

LEMMA QueryFailsMoves ==
    ASSUME RowsIInv, NEW k \in Jobs, NEW m \in Claims, QueryFails(k, m)
    PROVE  /\ RowsMove
           /\ \E t \in Task : t.pc \in {"NONE", "CATCH"} /\ \A j \in Jobs, n \in Claims :
                 task'[j][n] = IF j = k /\ n = m THEN t ELSE task[j][n]
  <1>1. CASE task[k][m].caught
    <2>1. NoTask \in Task /\ NoTask.pc = "NONE"
      BY Blank, OutboxAssumption DEF NoTask
    <2>2. /\ RowsMove
          /\ \A j \in Jobs, n \in Claims :
                task'[j][n] = IF j = k /\ n = m THEN NoTask ELSE task[j][n]
      BY <1>1, EndMoves DEF QueryFails
    <2> QED BY <2>1, <2>2
  <1>2. CASE ~task[k][m].caught
    <2> DEFINE t == [task[k][m] EXCEPT !.pc = "CATCH", !.caught = TRUE]
    <2>1. task[k][m] \in Task /\ accepted \in [Jobs -> Nat]
      BY TypesAre DEF RowsIInv
    <2>2. t \in Task /\ t.pc = "CATCH"
      BY <2>1 DEF Task, TaskSteps, FinishingSteps
    <2>3. task' = Becomes(k, m, t) /\ UNCHANGED <<job, com, drain, accepted>>
      BY <1>2 DEF QueryFails
    <2> HIDE DEF t
    <2> QED BY <2>1, <2>2, <2>3, AdvanceMoves
  <1> QED BY <1>1, <1>2
LEMMA FinishMoves ==
    ASSUME RowsIInv, NEW k \in Jobs, NEW m \in Claims, Finish(k, m)
    PROVE  /\ RowsMove
           /\ \E t \in Task : t.pc \in {"NONE", "SYNC"} /\ \A j \in Jobs, n \in Claims :
                 task'[j][n] = IF j = k /\ n = m THEN t ELSE task[j][n]
           /\ \A j \in Jobs :
                 \/ job'[j] = job[j]
                 \/ /\ j = k /\ job[j].status = "PROCESSING"
                    /\ job'[j].status = FinalStatus(task[k][m].pc, m)
                    /\ job'[j].retries = job[j].retries
  <1>1. TypeOK /\ ClaimBound \in Nat /\ job \in [Jobs -> Row] /\ accepted' = accepted /\ com' = com
    BY OutboxAssumption, TypesAre DEF RowsIInv, Finish
  <1>2. /\ job' \in [Jobs -> Row]
        /\ \A j \in Jobs :
              \/ job'[j] = job[j]
              \/ /\ j = k /\ job[j].status = "PROCESSING"
                 /\ job'[j].status = FinalStatus(task[k][m].pc, m)
                 /\ job'[j].retries = job[j].retries
    <2>1. CASE Owns(k, m)
      <3>1. PICK st \in JobStatuses : st = FinalStatus(task[k][m].pc, m)
        BY FinalIsStatus DEF JobStatuses, TerminalStatuses
      <3>2. job' = [job EXCEPT ![k] = [job[k] EXCEPT !.status = st, !.owner = NoWorker,
                                                     !.leased = FALSE]]
        BY <2>1, <3>1 DEF Finish
      <3>3. PICK r \in Row : r = [job[k] EXCEPT !.status = st, !.owner = NoWorker, !.leased = FALSE]
        BY <1>1, HandedOver
      <3>4. r.status = st /\ r.retries = job[k].retries
        BY <1>1, <3>3 DEF Row
      <3>5. job' = [job EXCEPT ![k] = r]
        BY <3>2, <3>3
      <3> QED BY <1>1, <2>1, <3>1, <3>4, <3>5 DEF Owns
    <2>2. CASE ~Owns(k, m)
      BY <1>1, <2>2 DEF Finish
    <2> QED BY <2>1, <2>2
  <1>3. /\ drain' \in [Workers -> Poll] /\ task' \in [Jobs -> [Claims -> Task]]
        /\ \E t \in Task : t.pc \in {"NONE", "SYNC"} /\ \A j \in Jobs, n \in Claims :
              task'[j][n] = IF j = k /\ n = m THEN t ELSE task[j][n]
    <2>1. CASE task' = At(k, m, "SYNC") /\ UNCHANGED drain
      <3> DEFINE t == [task[k][m] EXCEPT !.pc = "SYNC"]
      <3>1. task[k][m] \in Task /\ task \in [Jobs -> [Claims -> Task]]
            /\ drain \in [Workers -> Poll]
        BY <1>1, TypesAre
      <3>2. t \in Task /\ t.pc = "SYNC"
        BY <3>1 DEF Task, TaskSteps
      <3>3. task' = Becomes(k, m, t)
        BY <2>1 DEF At
      <3> HIDE DEF t
      <3> QED BY <2>1, <3>1, <3>2, <3>3, BecomesOne
    <2>2. CASE Ended(k, m)
      <3>1. NoTask \in Task /\ NoTask.pc = "NONE"
        BY <1>1, Blank DEF NoTask
      <3> QED BY <1>1, <2>2, <3>1, PollsGoOn
    <2> QED BY <2>1, <2>2 DEF Finish
  <1>4. TypeOK'
    BY <1>1, <1>2, <1>3, TypesAre, TypesWillBe
  <1>5. \A j \in Jobs : Terminal(j) => job'[j].status = job[j].status
    BY <1>2 DEF Terminal, TerminalStatuses
  <1>6. com' = "REQUESTED" => \A j \in Linked : job'[j] = job[j]
    BY <1>1, <1>2, OutboxAssumption DEF RowsIInv, SentBefore, NoRow
  <1>7. \A j \in Jobs, n \in Claims : task'[j][n].pc = "WRITE" => task'[j][n] = task[j][n]
    BY <1>3
  <1> QED BY <1>1, <1>2, <1>3, <1>4, <1>5, <1>6, <1>7 DEF RowsMove

LEMMA CrashMoves ==
    ASSUME RowsIInv, NEW w \in Workers, Crash(w)
    PROVE  /\ RowsMove
           /\ \A j \in Jobs, n \in Claims :
                 task'[j][n] = NoTask \/ task'[j][n] = task[j][n]
  <1>1. TypeOK /\ ClaimBound \in Nat
    BY OutboxAssumption DEF RowsIInv
  <1>2. NoTask \in Task /\ NoDrain \in Poll /\ task \in [Jobs -> [Claims -> Task]]
        /\ drain \in [Workers -> Poll]
    BY <1>1, Blank, TypesAre
  <1>3. /\ task' \in [Jobs -> [Claims -> Task]]
        /\ \A j \in Jobs, n \in Claims : task'[j][n] = NoTask \/ task'[j][n] = task[j][n]
    BY <1>2 DEF Crash, Claims
  <1>4. drain' \in [Workers -> Poll]
    BY <1>2 DEF Crash
  <1>5. TypeOK'
    BY <1>1, <1>3, <1>4, TypesAre, TypesWillBe DEF Crash
  <1>6. \A j \in Jobs, n \in Claims : task'[j][n].pc = "WRITE" => task'[j][n] = task[j][n]
    BY <1>3 DEF NoTask
  <1> QED BY <1>3, <1>5, <1>6 DEF RowsMove, Crash

-----------------------------------------------------------------------------
(* Every step, and a stutter, moves the rows like this.                     *)
LEMMA RowsStep ==
    ASSUME RowsIInv, [Next]_vars
    PROVE  RowsMove
  <1>1. CASE Next
    <2>1. CASE Send
      BY <2>1, SendMoves
    <2>2. ASSUME NEW j \in Jobs, Enqueue(j) \/ LeaseExpires(j)
          PROVE  RowsMove
      BY <2>2, EnqueueMoves, LeaseMoves DEF LeaseExpires
    <2>3. ASSUME NEW w \in Workers, QuarantineExpiredProcessingLeases(w)
          PROVE  RowsMove
      BY <2>3, QuarantineMoves
    <2>4. ASSUME NEW w \in Workers, NEW S \in SUBSET Jobs, ClaimJobs(w, S)
          PROVE  RowsMove
      BY <2>4, ClaimMoves
    <2>5. ASSUME NEW w \in Workers, Crash(w)
          PROVE  RowsMove
      BY <2>5, CrashMoves
    <2>6. ASSUME NEW k \in Jobs, NEW m \in Claims, DeliveryStep(k, m)
          PROVE  RowsMove
      BY <2>6, ParseFailsMoves, SmtpAcceptsMoves, SendReturnsMoves, FinishMoves,
         SyncReadsMoves, SyncWritesMoves DEF DeliveryStep
    <2>7. ASSUME NEW k \in Jobs, NEW m \in Claims, Heartbeat(k, m)
          PROVE  RowsMove
      BY <2>7, LeaseMoves DEF Heartbeat, Owns
    <2>8. ASSUME NEW k \in Jobs, NEW m \in Claims, QueryFails(k, m)
          PROVE  RowsMove
      BY <2>8, QueryFailsMoves
    <2> QED BY <1>1, <2>1, <2>2, <2>3, <2>4, <2>5, <2>6, <2>7, <2>8 DEF Next, Tasks, Claims
  <1>2. CASE UNCHANGED vars
    BY <1>2, TypesAre, TypesWillBe DEF vars, RowsIInv, RowsMove
  <1> QED BY <1>1, <1>2

LEMMA RowsInit == Init => RowsIInv
  <1> SUFFICES ASSUME Init PROVE RowsIInv
    OBVIOUS
  <1>1. ClaimBound \in Nat /\ Linked \subseteq Jobs
    BY OutboxAssumption
  <1>2. TypeOK
    BY <1>1, Blank, TypesAre DEF Init, ComStatuses, Claims
  <1>3. SentBefore /\ Says(com)
    BY <1>1 DEF Init, SentBefore, Says
  <1>4. SyncsAreTrue
    BY DEF Init, SyncsAreTrue, NoTask, Claims
  <1> QED BY <1>2, <1>3, <1>4 DEF RowsIInv

THEOREM RowsInductive == Spec => []RowsIInv
  <1>1. RowsIInv /\ [Next]_vars => RowsIInv'
    BY RowsStep, RowsMoveKeeps, OutboxAssumption
  <1> QED BY RowsInit, <1>1, PTL DEF Spec

(* syncCommunicationStatus reads the jobs and writes later, and the older   *)
(* of two readings may be written last; still, no communication is shown    *)
(* as delivered, unknown or dead unless its jobs are, whatever query fails, *)
(* poll is rejected or process dies.                                        *)
THEOREM CommunicationIsTrueCorrect == Spec => []CommunicationIsTrue
  <1>1. RowsIInv => CommunicationIsTrue
    BY DEF RowsIInv, Says, CommunicationIsTrue
  <1> QED BY RowsInductive, <1>1, PTL

(* notification.service.ts:457: SENT, UNKNOWN_RESULT and DEAD_LETTER are    *)
(* never left, by late deliveries, claims, quarantines or failures.         *)
THEOREM TerminalJobIsFinalCorrect == Spec => TerminalJobIsFinal
  <1>1. RowsIInv /\ [Next]_vars =>
            [\A j \in Jobs : Terminal(j) => job'[j].status = job[j].status]_vars
    BY RowsStep DEF RowsMove
  <1> QED BY RowsInductive, <1>1, PTL DEF Spec, TerminalJobIsFinal
-----------------------------------------------------------------------------
(* No message leaves twice.                                                 *)

(* A delivery that goes no further than it was, over unchanged rows.        *)
LEMMA CalmStep ==
    ASSUME DeliveriesIInv,
           \A j \in Jobs : job'[j].status = job[j].status /\ job'[j].retries = job[j].retries,
           accepted' = accepted,
           \A j \in Jobs, n \in Claims :
              /\ task'[j][n].pc \in Live => task[j][n].pc \in Live
              /\ task'[j][n].pc \in Unsent => task[j][n].pc \in Unsent
    PROVE  LatestLives' /\ NothingAccepted'
  <1>1. LatestLives'
    BY DEF DeliveriesIInv, LatestLives
  <1>2. NothingAccepted'
    BY DEF DeliveriesIInv, NothingAccepted
  <1> QED BY <1>1, <1>2

LEMMA DeliveryCalm ==
    ASSUME DeliveriesIInv, NEW k \in Jobs, NEW m \in Claims, NEW t,
           UNCHANGED <<job, accepted>>,
           \A j \in Jobs, n \in Claims :
              task'[j][n] = IF j = k /\ n = m THEN t ELSE task[j][n],
           t.pc \in Live => task[k][m].pc \in Live,
           t.pc \in Unsent => task[k][m].pc \in Unsent
    PROVE  LatestLives' /\ NothingAccepted'
  BY CalmStep

LEMMA LiveSteps ==
    /\ Unsent \subseteq Live
    /\ Live = {"DISPATCH", "ACCEPTED", "INVALID", "DELIVERED", "UNCERTAIN", "RETRYABLE",
               "PERMANENT", "CATCH"}
  BY DEF Unsent, Live, FinishingSteps

LEMMA FinalIsWaiting ==
    ASSUME NEW p \in FinishingSteps, NEW m, FinalStatus(p, m) \in Waiting
    PROVE  p \in Unsent
  BY DEF FinalStatus, FinishingSteps, Waiting, Unsent

LEMMA FinishKeepsOnce ==
    ASSUME DeliveriesIInv, NEW k \in Jobs, NEW m \in Claims, Finish(k, m)
    PROVE  LatestLives' /\ NothingAccepted'
  <1>1. PICK t \in Task :
           /\ t.pc \in {"NONE", "SYNC"}
           /\ \A j \in Jobs, n \in Claims :
                 task'[j][n] = IF j = k /\ n = m THEN t ELSE task[j][n]
    BY FinishMoves DEF DeliveriesIInv
  <1>2. \A j \in Jobs :
           \/ job'[j] = job[j]
           \/ /\ j = k /\ job[j].status = "PROCESSING"
              /\ job'[j].status = FinalStatus(task[k][m].pc, m)
              /\ job'[j].retries = job[j].retries
    BY FinishMoves DEF DeliveriesIInv
  <1>3. task[k][m].pc \in FinishingSteps /\ accepted' = accepted
    BY DEF Finish
  <1>4. \A n \in Claims : task[k][n].pc \in Live => n = m
    BY <1>3 DEF DeliveriesIInv, LatestLives, Live
  <1>5. ASSUME NEW j \in Jobs, NEW n \in Claims, task'[j][n].pc \in Live
        PROVE  n = job'[j].retries /\ job'[j].status \notin Waiting
    <2>1. task'[j][n] = task[j][n] /\ ~(j = k /\ n = m)
      BY <1>1, <1>5, LiveSteps
    <2>2. j # k
      BY <1>4, <1>5, <2>1
    <2> QED BY <1>2, <1>5, <2>1, <2>2 DEF DeliveriesIInv, LatestLives
  <1>6. ASSUME NEW j \in Jobs, job'[j].status \in Waiting
        PROVE  accepted'[j] = 0
    <2>1. CASE job'[j] = job[j]
      BY <1>3, <1>6, <2>1 DEF DeliveriesIInv, NothingAccepted
    <2>2. CASE j = k /\ job'[j].status = FinalStatus(task[k][m].pc, m)
      <3>1. task[k][m].pc \in Unsent
        BY <1>3, <1>6, <2>2, FinalIsWaiting
      <3> QED BY <1>3, <2>2, <3>1 DEF DeliveriesIInv, NothingAccepted
    <2> QED BY <1>2, <2>1, <2>2
  <1>7. ASSUME NEW j \in Jobs, NEW n \in Claims, task'[j][n].pc \in Unsent
        PROVE  accepted'[j] = 0
    <2>1. task'[j][n] = task[j][n]
      BY <1>1, <1>7, LiveSteps
    <2> QED BY <1>3, <1>7, <2>1 DEF DeliveriesIInv, NothingAccepted
  <1> QED BY <1>5, <1>6, <1>7 DEF LatestLives, NothingAccepted

LEMMA AcceptKeepsOnce ==
    ASSUME DeliveriesIInv, NEW k \in Jobs, NEW m \in Claims, SmtpAccepts(k, m)
    PROVE  LatestLives' /\ NothingAccepted'
  <1>1. PICK t \in Task :
           /\ t.pc = "ACCEPTED"
           /\ \A j \in Jobs, n \in Claims :
                 task'[j][n] = IF j = k /\ n = m THEN t ELSE task[j][n]
    BY SmtpAcceptsMoves DEF DeliveriesIInv
  <1>2. /\ task[k][m].pc = "DISPATCH" /\ job' = job
        /\ \A j \in Jobs : j # k => accepted'[j] = accepted[j]
    BY TypesAre DEF SmtpAccepts, DeliveriesIInv, RowsIInv
  <1>3. job[k].status \notin Waiting /\ \A n \in Claims : task[k][n].pc \in Live => n = m
    BY <1>2, LiveSteps DEF DeliveriesIInv, LatestLives
  <1>4. LatestLives'
    BY <1>1, <1>2, LiveSteps DEF DeliveriesIInv, LatestLives
  <1>5. ASSUME NEW j \in Jobs, NEW n \in Claims, task'[j][n].pc \in Unsent
        PROVE  accepted'[j] = 0
    <2>1. task'[j][n] = task[j][n] /\ ~(j = k /\ n = m)
      BY <1>1, <1>5 DEF Unsent
    <2>2. j # k
      BY <1>3, <1>5, <2>1, LiveSteps
    <2> QED BY <1>2, <1>5, <2>1, <2>2 DEF DeliveriesIInv, NothingAccepted
  <1>6. \A j \in Jobs : job'[j].status \in Waiting => accepted'[j] = 0
    BY <1>2, <1>3 DEF DeliveriesIInv, NothingAccepted
  <1> QED BY <1>4, <1>5, <1>6 DEF NothingAccepted

LEMMA ClaimKeepsOnce ==
    ASSUME DeliveriesIInv, NEW w \in Workers, NEW S \in SUBSET Jobs, ClaimJobs(w, S)
    PROVE  LatestLives' /\ NothingAccepted'
  <1>1. /\ \A j \in Jobs, n \in Claims :
              task'[j][n] # task[j][n] =>
                  task'[j][n].pc = "DISPATCH" /\ j \in S /\ n = job[j].retries + 1
        /\ \A j \in Jobs : IF j \in S THEN /\ job[j].status \in Waiting
                                           /\ job'[j].status = "PROCESSING"
                                           /\ job'[j].retries = job[j].retries + 1
                                      ELSE job'[j] = job[j]
    BY ClaimMoves DEF DeliveriesIInv
  <1>2. accepted' = accepted
    BY DEF ClaimJobs
  <1>3. ASSUME NEW j \in Jobs, NEW n \in Claims, task'[j][n].pc \in Live
        PROVE  n = job'[j].retries /\ job'[j].status \notin Waiting
    <2>1. CASE task'[j][n] = task[j][n]
      BY <1>1, <1>3, <2>1 DEF DeliveriesIInv, LatestLives
    <2>2. CASE task'[j][n] # task[j][n]
      BY <1>1, <2>2 DEF Waiting
    <2> QED BY <2>1, <2>2
  <1>4. ASSUME NEW j \in Jobs, NEW n \in Claims, task'[j][n].pc \in Unsent
        PROVE  accepted'[j] = 0
    <2>1. CASE task'[j][n] = task[j][n]
      BY <1>2, <1>4, <2>1 DEF DeliveriesIInv, NothingAccepted
    <2>2. CASE task'[j][n] # task[j][n]
      BY <1>1, <1>2, <2>2 DEF DeliveriesIInv, NothingAccepted
    <2> QED BY <2>1, <2>2
  <1>5. \A j \in Jobs : job'[j].status \in Waiting => accepted'[j] = 0
    BY <1>1, <1>2 DEF DeliveriesIInv, NothingAccepted, Waiting
  <1> QED BY <1>3, <1>4, <1>5 DEF LatestLives, NothingAccepted

(* New rows wait, and so did the ones they replace.                         *)
LEMMA QueueKeepsOnce ==
    ASSUME DeliveriesIInv, Send \/ \E k \in Jobs : Enqueue(k)
    PROVE  LatestLives' /\ NothingAccepted'
  <1>1. UNCHANGED <<task, accepted>>
    BY DEF Send, Enqueue
  <1>2. \A j \in Jobs : job'[j] = job[j] \/ job[j].status \in Waiting
    BY TypesAre DEF DeliveriesIInv, RowsIInv, SentBefore, Send, Enqueue, NoRow, Waiting
  <1>3. LatestLives'
    BY <1>1, <1>2 DEF DeliveriesIInv, LatestLives
  <1>4. NothingAccepted'
    BY <1>1, <1>2 DEF DeliveriesIInv, NothingAccepted
  <1> QED BY <1>3, <1>4

LEMMA QuarantineKeepsOnce ==
    ASSUME DeliveriesIInv, NEW w \in Workers, QuarantineExpiredProcessingLeases(w)
    PROVE  LatestLives' /\ NothingAccepted'
  <1>1. /\ \A j \in Jobs, n \in Claims : task'[j][n] # task[j][n] => task'[j][n].pc = "SYNC"
        /\ \A j \in Jobs :
              \/ job'[j] = job[j]
              \/ /\ job[j].status = "PROCESSING" /\ job'[j].status = "UNKNOWN_RESULT"
                 /\ job'[j].retries = job[j].retries
    BY QuarantineMoves DEF DeliveriesIInv
  <1>2. accepted' = accepted
    BY DEF QuarantineExpiredProcessingLeases
  <1>3. \A j \in Jobs, n \in Claims : task'[j][n].pc \in Live => task'[j][n] = task[j][n]
    BY <1>1, LiveSteps
  <1>4. LatestLives'
    BY <1>1, <1>3 DEF DeliveriesIInv, LatestLives, Waiting
  <1>5. NothingAccepted'
    BY <1>1, <1>2, <1>3, LiveSteps DEF DeliveriesIInv, NothingAccepted, Waiting
  <1> QED BY <1>4, <1>5

LEMMA DeliveriesStep ==
    ASSUME DeliveriesIInv, LateQueriesSucceed, [Next]_vars
    PROVE  DeliveriesIInv'
  <1>1. RowsIInv'
    BY RowsStep, RowsMoveKeeps, OutboxAssumption DEF DeliveriesIInv
  <1>2. LatestLives' /\ NothingAccepted'
    <2>1. CASE Send \/ \E j \in Jobs : Enqueue(j)
      BY <2>1, QueueKeepsOnce
    <2>2. ASSUME NEW j \in Jobs, LeaseExpires(j) \/ \E m \in Claims : Heartbeat(j, m)
          PROVE  LatestLives' /\ NothingAccepted'
      <3>1. /\ UNCHANGED <<task, accepted>>
            /\ \A i \in Jobs : job'[i].status = job[i].status /\ job'[i].retries = job[i].retries
        BY <2>2, LeaseMoves DEF DeliveriesIInv, LeaseExpires, Heartbeat, Owns
      <3> QED BY <3>1, CalmStep
    <2>3. ASSUME NEW w \in Workers, QuarantineExpiredProcessingLeases(w)
          PROVE  LatestLives' /\ NothingAccepted'
      BY <2>3, QuarantineKeepsOnce
    <2>4. ASSUME NEW w \in Workers, NEW S \in SUBSET Jobs, ClaimJobs(w, S)
          PROVE  LatestLives' /\ NothingAccepted'
      BY <2>4, ClaimKeepsOnce
    <2>5. ASSUME NEW w \in Workers, Crash(w)
          PROVE  LatestLives' /\ NothingAccepted'
      <3>1. \A j \in Jobs, n \in Claims : task'[j][n] = NoTask \/ task'[j][n] = task[j][n]
        BY <2>5, CrashMoves DEF DeliveriesIInv
      <3>2. UNCHANGED <<job, accepted>> /\ NoTask.pc \notin Live /\ NoTask.pc \notin Unsent
        BY <2>5, LiveSteps DEF Crash, NoTask
      <3> QED BY <3>1, <3>2, CalmStep
    <2>6. ASSUME NEW k \in Jobs, NEW m \in Claims, DeliveryStep(k, m)
          PROVE  LatestLives' /\ NothingAccepted'
      <3>1. CASE ParseFails(k, m)
        <4>1. task[k][m].pc \in Live /\ task[k][m].pc \in Unsent
          BY <3>1, LiveSteps DEF ParseFails, Unsent
        <4>2. PICK t \in Task : t.pc = "INVALID" /\ \A j \in Jobs, n \in Claims :
                 task'[j][n] = IF j = k /\ n = m THEN t ELSE task[j][n]
          BY <3>1, ParseFailsMoves DEF DeliveriesIInv
        <4>3. UNCHANGED <<job, accepted>>
          BY <3>1 DEF ParseFails
        <4> HIDE DEF ParseFails
        <4> QED BY <4>1, <4>2, <4>3, DeliveryCalm
      <3>2. CASE SmtpAccepts(k, m)
        BY <3>2, AcceptKeepsOnce
      <3>3. ASSUME NEW result \in FinishingSteps, SendReturns(k, m, result)
            PROVE  LatestLives' /\ NothingAccepted'
        <4>1. /\ task[k][m].pc \in Live
              /\ result \in Unsent => task[k][m].pc \in Unsent
          BY <3>3, LiveSteps DEF SendReturns, Unsent
        <4>2. PICK t \in Task : t.pc = result /\ \A j \in Jobs, n \in Claims :
                 task'[j][n] = IF j = k /\ n = m THEN t ELSE task[j][n]
          BY <3>3, SendReturnsMoves DEF DeliveriesIInv
        <4> QED BY <3>3, <4>1, <4>2, DeliveryCalm DEF SendReturns
      <3>4. CASE Finish(k, m)
        BY <3>4, FinishKeepsOnce
      <3>5. CASE SyncReads(k, m)
        <4>1. PICK t \in Task : t.pc = "WRITE" /\ \A j \in Jobs, n \in Claims :
                 task'[j][n] = IF j = k /\ n = m THEN t ELSE task[j][n]
          BY <3>5, SyncReadsMoves DEF DeliveriesIInv
        <4>2. t.pc \notin Live /\ t.pc \notin Unsent
          BY <4>1, LiveSteps
        <4> QED BY <3>5, <4>1, <4>2, DeliveryCalm DEF SyncReads
      <3>6. CASE SyncWrites(k, m)
        <4>1. \A j \in Jobs, n \in Claims :
                 task'[j][n] = IF j = k /\ n = m THEN NoTask ELSE task[j][n]
          BY <3>6, SyncWritesMoves DEF DeliveriesIInv
        <4>2. NoTask.pc \notin Live /\ NoTask.pc \notin Unsent
          BY LiveSteps DEF NoTask
        <4> QED BY <3>6, <4>1, <4>2, DeliveryCalm DEF SyncWrites
      <3> QED BY <2>6, <3>1, <3>2, <3>3, <3>4, <3>5, <3>6 DEF DeliveryStep
    <2>7. ASSUME NEW k \in Jobs, NEW m \in Claims, QueryFails(k, m)
          PROVE  LatestLives' /\ NothingAccepted'
      <3>1. task[k][m].pc \in Live /\ task[k][m].pc \in Unsent
        BY <2>7, LiveSteps DEF QueryFails, LateQueriesSucceed, Unsent
      <3>2. PICK t \in Task : t.pc \in {"NONE", "CATCH"} /\ \A j \in Jobs, n \in Claims :
               task'[j][n] = IF j = k /\ n = m THEN t ELSE task[j][n]
        BY <2>7, QueryFailsMoves DEF DeliveriesIInv
      <3> QED BY <2>7, <3>1, <3>2, DeliveryCalm DEF QueryFails
    <2>8. CASE UNCHANGED vars
      BY <2>8, CalmStep DEF vars
    <2> QED BY <2>1, <2>2, <2>3, <2>4, <2>5, <2>6, <2>7, <2>8 DEF Next, Tasks, Claims
  <1> QED BY <1>1, <1>2 DEF DeliveriesIInv

LEMMA OnceIsInvariant == DeliveriesIInv => DeliveredOnce
  <1> SUFFICES ASSUME DeliveriesIInv PROVE DeliveredOnce
    OBVIOUS
  <1>1. OneDispatcher
    <2> SUFFICES ASSUME NEW j \in Jobs
                 PROVE  Cardinality({n \in 1 .. ClaimBound :
                                        task[j][n].pc \in {"DISPATCH", "ACCEPTED"}}) <= 1
      BY DEF OneDispatcher
    <2> DEFINE sent == {n \in 1 .. ClaimBound : task[j][n].pc \in {"DISPATCH", "ACCEPTED"}}
    <2>1. sent \subseteq {job[j].retries}
      BY OutboxAssumption, LiveSteps DEF DeliveriesIInv, LatestLives, Claims
    <2>2. IsFiniteSet({job[j].retries}) /\ Cardinality({job[j].retries}) = 1
      BY FS_Singleton
    <2> HIDE DEF sent
    <2>3. Cardinality(sent) <= Cardinality({job[j].retries})
      BY <2>1, <2>2, FS_Subset
    <2> QED BY <2>2, <2>3 DEF sent
  <1>2. NoBlindRetry
    BY DEF DeliveriesIInv, NothingAccepted, NoBlindRetry, Waiting
  <1> QED BY <1>1, <1>2 DEF DeliveredOnce, DeliveriesIInv, RowsIInv

(* notification.service.ts:73-76: no message is given to the transport by   *)
(* two deliveries at once, and none that was accepted waits for another     *)
(* attempt, through claims, quarantines, failures and crashes of any number *)
(* of processes, as long as the queries that follow an answer of SMTP other *)
(* than a refusal, and the synchronisations, succeed.                       *)
THEOREM DeliveredOnceCorrect == LateQueriesSucceed => (Spec => []DeliveredOnce)
  <1> SUFFICES ASSUME LateQueriesSucceed PROVE Spec => []DeliveredOnce
    OBVIOUS
  <1>1. Init => DeliveriesIInv
    <2> SUFFICES ASSUME Init PROVE DeliveriesIInv
      OBVIOUS
    <2>1. LatestLives
      BY DEF Init, LatestLives, NoTask, Live, FinishingSteps, Claims
    <2>2. NothingAccepted
      BY DEF Init, NothingAccepted
    <2> QED BY <2>1, <2>2, RowsInit DEF DeliveriesIInv
  <1>2. DeliveriesIInv /\ [Next]_vars => DeliveriesIInv'
    BY DeliveriesStep
  <1> QED BY <1>1, <1>2, OnceIsInvariant, PTL DEF Spec

=============================================================================
