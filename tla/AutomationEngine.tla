-------------------------- MODULE AutomationEngine --------------------------
(***************************************************************************)
(* The domain-event dispatcher and the automation engine it calls:         *)
(* apps/api/src/modules/domain-events/domain-event-dispatcher.service.ts,  *)
(* automation/automation-engine.service.ts and the idempotent              *)
(* CommunicationsService.send its actions end in.                          *)
(*                                                                         *)
(* A dispatch appends an event with one PENDING execution per active       *)
(* version, then runs each of them; a timer of every process picks up the  *)
(* executions whose step waits for a retry.  Both are runners: a runner    *)
(* takes the executions of its list one at a time, claims it, and carries  *)
(* its actions out in order.  An action races a timer; when the timer wins *)
(* the call goes on alone and its answer is dropped.  One step of a runner *)
(* is one statement or transaction of the store.                           *)
(***************************************************************************)
EXTENDS Naturals, FiniteSets

CONSTANTS Events,        \* the events producers deliver, any number of times
          Versions,      \* the automation versions an event may trigger
          Dispatchers,   \* calls of dispatch that may be under way together
          RetryWorkers,  \* the processes, one retry timer each
          Actions,       \* number of actions of a version
          MaxAttempts,   \* executionPolicy.maxAttempts
          StoreMayFail,  \* whether a statement of the store may fail
          MayCrash,      \* whether a process may stop
          None           \* no event, execution or dead letter

Runners == Dispatchers \cup RetryWorkers
Executions == Events \X Versions
Indexes == 1..Actions

ExecutionStatus == {"ABSENT", "PENDING", "RUNNING", "FAILED", "SUCCEEDED", "DEAD_LETTER"}
StepStatus == {"ABSENT", "RUNNING", "SUCCEEDED", "RETRY_PENDING", "DEAD_LETTER"}
Settled == {"SUCCEEDED", "DEAD_LETTER"}

\* A row of connect_automation_execution_steps.
Step == [status : StepStatus, attempt : 0..MaxAttempts, scheduled : BOOLEAN]
NoStep == [status |-> "ABSENT", attempt |-> 0, scheduled |-> FALSE]

\* A row of connect_automation_dead_letters: index 0 when no step is to blame.
Letter == [index : 0..Actions, count : 0..MaxAttempts]

ASSUME AutomationAssumption ==
    /\ Actions \in Nat \ {0}
    /\ MaxAttempts \in Nat \ {0}
    /\ StoreMayFail \in BOOLEAN
    /\ MayCrash \in BOOLEAN
    /\ None \notin Events \cup Executions \cup Letter
    /\ Dispatchers \cap RetryWorkers = {}

VARIABLES
    accepted,        \* events stored, with their executions
    status,          \* connect_automation_executions.status
    steps,           \* the step rows, per execution and action
    due,             \* steps whose nextAttemptAt has passed
    history,         \* retry rows: <<execution, index, attempt, finished>>
    letters,         \* dead letter of each execution, None without one
    communications,  \* communications stored per execution and action
    calls,           \* calls of communications.send under way
    runners          \* what each runner is doing

vars == <<accepted, status, steps, due, history, letters, communications, calls, runners>>
store == <<accepted, status, steps, due, history, letters, communications>>

RunnerState == {"IDLE", "APPENDING", "DRAINING", "LOADING", "STEPPING", "OPENING",
                "ACTING", "COMPLETING", "FAILING", "REJECTING", "SKIPPING"}
Runner == [pc : RunnerState, event : Events \cup {None}, todo : SUBSET Executions,
           execution : Executions \cup {None}, seen : [Indexes -> Step],
           index : 1..(Actions + 1), attempt : 0..MaxAttempts, retryable : BOOLEAN]
Idle == [pc |-> "IDLE", event |-> None, todo |-> {}, execution |-> None,
         seen |-> [i \in Indexes |-> NoStep], index |-> 1, attempt |-> 0,
         retryable |-> FALSE]

\* The states of a runner between its claim and its last write.
Holding == {"LOADING", "STEPPING", "OPENING", "ACTING", "COMPLETING", "FAILING",
            "REJECTING", "SKIPPING"}

Call == [execution : Executions, index : Indexes, attempt : 1..MaxAttempts,
         by : Runners, stage : {"CHECKING", "INSERTING"}]

-----------------------------------------------------------------------------
(* The rows a dispatch creates and finds. *)

ExecutionsOf(e) == {x \in Executions : x[1] = e /\ status[x] # "ABSENT"}

\* The step row after an update: only a step that waits for a retry has a
\* nextAttemptAt.
WriteStep(x, i, st, attempt) ==
    steps' = [steps EXCEPT ![x] = [steps[x] EXCEPT ![i] =
                 [status |-> st, attempt |-> attempt, scheduled |-> st = "RETRY_PENDING"]]]

\* The update that ends an attempt leaves its number alone.
StepEnds(x, i, st) == WriteStep(x, i, st, steps[x][i].attempt)

Becomes(r, runner) == runners' = [runners EXCEPT ![r] = runner]

\* The runner moves on to the list of executions it has to process.
Draining(r, list) == Becomes(r, [Idle EXCEPT !.pc = "DRAINING", !.todo = list])

\* The runner is done with its execution and goes on with its list.
Released(r) == [Idle EXCEPT !.pc = "DRAINING", !.todo = runners[r].todo]

At(r, pc) == runners[r].pc = pc

-----------------------------------------------------------------------------
(* dispatch *)

\* A delivery of an event looks for the stored one: a duplicate runs the
\* executions the first delivery created.
Dispatch(r, e) ==
    /\ r \in Dispatchers
    /\ At(r, "IDLE")
    /\ \/ /\ e \in accepted
          /\ Draining(r, ExecutionsOf(e))
       \/ /\ e \notin accepted
          /\ Becomes(r, [Idle EXCEPT !.pc = "APPENDING", !.event = e])
    /\ UNCHANGED <<store, calls>>

\* A variant of the next definition with a bug the properties catch.
AppendAgain(r) ==
    LET e == runners[r].event
    IN /\ At(r, "APPENDING")
       /\ \E matching \in SUBSET Versions :
             LET created == {e} \X matching
             IN /\ accepted' = accepted \cup {e}
                /\ status' = [x \in Executions |->
                                 IF x \in created THEN "PENDING" ELSE status[x]]
                /\ Draining(r, created)
       /\ UNCHANGED <<steps, due, history, letters, communications, calls>>

\* The transaction that stores the event and an execution for each version
\* that is active and triggered now.  Losing the race for the unique event key
\* turns the delivery into a duplicate.
Append(r) ==
    LET e == runners[r].event
    IN /\ At(r, "APPENDING")
       /\ \/ /\ e \in accepted
             /\ Draining(r, ExecutionsOf(e))
             /\ UNCHANGED <<accepted, status>>
          \/ /\ e \notin accepted
             /\ \E matching \in SUBSET Versions :
                   LET created == {e} \X matching
                   IN /\ accepted' = accepted \cup {e}
                      /\ status' = [x \in Executions |->
                                       IF x \in created THEN "PENDING" ELSE status[x]]
                      /\ Draining(r, created)
       /\ UNCHANGED <<steps, due, history, letters, communications, calls>>

-----------------------------------------------------------------------------
(* processReadyRetries *)

\* A variant of the next definition with a bug the properties catch.
NothingReady(x) == FALSE

Ready(x) == /\ status[x] = "FAILED"
            /\ \E i \in Indexes : steps[x][i].status = "RETRY_PENDING" /\ <<x, i>> \in due

\* The timer of a process reads the executions with a retry that is due.
Scan(r) ==
    /\ r \in RetryWorkers
    /\ At(r, "IDLE")
    /\ \E x \in Executions : Ready(x)
    /\ Draining(r, {x \in Executions : Ready(x)})
    /\ UNCHANGED <<store, calls>>

\* The nextAttemptAt of a step passes.
Elapse(x, i) ==
    /\ steps[x][i].scheduled
    /\ <<x, i>> \notin due
    /\ due' = due \cup {<<x, i>>}
    /\ UNCHANGED <<accepted, status, steps, history, letters, communications, calls, runners>>

-----------------------------------------------------------------------------
(* processExecution *)

\* A variant of the next definition with a bug the properties catch.
AnyUnsettled(x) == status[x] \in {"PENDING", "RUNNING", "FAILED"}

Claimable(x) == status[x] \in {"PENDING", "FAILED"}

\* The conditional update that claims an execution: another runner's claim, or
\* a settled execution, leaves zero rows and the runner passes it over.
Claim(r) ==
    /\ At(r, "DRAINING")
    /\ \E x \in runners[r].todo :
          \/ /\ Claimable(x)
             /\ status' = [status EXCEPT ![x] = "RUNNING"]
             /\ Becomes(r, [runners[r] EXCEPT !.pc = "LOADING", !.execution = x,
                                              !.todo = runners[r].todo \ {x}])
          \/ /\ ~Claimable(x)
             /\ Becomes(r, [runners[r] EXCEPT !.todo = runners[r].todo \ {x}])
             /\ UNCHANGED status
    /\ UNCHANGED <<accepted, steps, due, history, letters, communications, calls>>

\* The list is done: dispatch answers, or the retry cycle ends.
Return(r) ==
    /\ At(r, "DRAINING")
    /\ runners[r].todo = {}
    /\ Becomes(r, Idle)
    /\ UNCHANGED <<store, calls>>

\* The execution is read with its version and its steps.  The first time, the
\* definition may prove unusable or its conditions unsatisfied; both depend on
\* rows that never change, so an execution with a step has passed them.
Load(r) ==
    LET x == runners[r].execution
    IN /\ At(r, "LOADING")
       /\ \E verdict \in {"STEPPING", "SKIPPING", "REJECTING"} :
             /\ (\E i \in Indexes : steps[x][i] # NoStep) => verdict = "STEPPING"
             /\ Becomes(r, [runners[r] EXCEPT !.pc = verdict, !.seen = steps[x]])
       /\ UNCHANGED <<store, calls>>

\* A variant of the next definition with a bug the properties catch.
RejectSilently(r) ==
    /\ At(r, "REJECTING")
    /\ status' = [status EXCEPT ![runners[r].execution] = "DEAD_LETTER"]
    /\ Becomes(r, Released(r))
    /\ UNCHANGED <<accepted, steps, due, history, letters, communications, calls>>

\* failDefinition: the execution is a dead letter without a step.
Reject(r) ==
    LET x == runners[r].execution
    IN /\ At(r, "REJECTING")
       /\ \/ /\ status[x] = "RUNNING"
             /\ status' = [status EXCEPT ![x] = "DEAD_LETTER"]
             /\ letters' = [letters EXCEPT ![x] = [index |-> 0, count |-> 0]]
          \/ /\ status[x] # "RUNNING"
             /\ UNCHANGED <<status, letters>>
       /\ Becomes(r, Released(r))
       /\ UNCHANGED <<accepted, steps, due, history, communications, calls>>

\* The conditions are not satisfied: nothing to do is success.
Skip(r) ==
    /\ At(r, "SKIPPING")
    /\ status' = [status EXCEPT ![runners[r].execution] = "SUCCEEDED"]
    /\ Becomes(r, Released(r))
    /\ UNCHANGED <<accepted, steps, due, history, letters, communications, calls>>

-----------------------------------------------------------------------------
(* The loop over the actions. *)

\* A variant of the next definition with a bug the properties catch.
DoneIfTried(r) == runners[r].seen[runners[r].index].status # "ABSENT"

\* The step as the runner read it has already succeeded.
Done(r) == runners[r].seen[runners[r].index].status = "SUCCEEDED"

\* The step as the runner read it waits for a later moment.
TooEarly(r) ==
    /\ runners[r].seen[runners[r].index].scheduled
    /\ <<runners[r].execution, runners[r].index>> \notin due

InLoop(r) == At(r, "STEPPING") /\ runners[r].index <= Actions

PassOver(r) ==
    /\ InLoop(r)
    /\ Done(r)
    /\ Becomes(r, [runners[r] EXCEPT !.index = runners[r].index + 1])
    /\ UNCHANGED <<store, calls>>

\* A redelivery claimed the execution before its retry is due: hand it back.
HandBack(r) ==
    /\ InLoop(r)
    /\ ~Done(r)
    /\ TooEarly(r)
    /\ status' = [status EXCEPT ![runners[r].execution] = "FAILED"]
    /\ Becomes(r, Released(r))
    /\ UNCHANGED <<accepted, steps, due, history, letters, communications, calls>>

\* startStep: upsert of the step row with the next attempt.
StartStep(r) ==
    LET x == runners[r].execution
        i == runners[r].index
        next == runners[r].seen[i].attempt + 1
    IN /\ InLoop(r)
       /\ ~Done(r)
       /\ ~TooEarly(r)
       /\ WriteStep(x, i, "RUNNING", next)
       /\ Becomes(r, [runners[r] EXCEPT !.pc = "OPENING", !.attempt = next])
       /\ UNCHANGED <<accepted, status, due, history, letters, communications, calls>>

\* The retry row of the attempt, then the call of the action.
OpenAttempt(r) ==
    LET x == runners[r].execution
        i == runners[r].index
        a == runners[r].attempt
    IN /\ At(r, "OPENING")
       /\ history' = history \cup {<<x, i, a, FALSE>>}
       /\ calls' = calls \cup {[execution |-> x, index |-> i, attempt |-> a,
                                by |-> r, stage |-> "CHECKING"]}
       /\ Becomes(r, [runners[r] EXCEPT !.pc = "ACTING"])
       /\ UNCHANGED <<accepted, status, steps, due, letters, communications>>

\* withTimeout: the timer rejects first; the call itself goes on.
Timeout(r) ==
    /\ At(r, "ACTING")
    /\ Becomes(r, [runners[r] EXCEPT !.pc = "FAILING", !.retryable = TRUE])
    /\ UNCHANGED <<store, calls>>

\* The retry row of the attempt is finished.
Closed(r) ==
    LET row(finished) == <<runners[r].execution, runners[r].index, runners[r].attempt, finished>>
    IN (history \ {row(FALSE)}) \cup {row(TRUE)}

\* The transaction that records the success of the step.
CompleteStep(r) ==
    /\ At(r, "COMPLETING")
    /\ history' = Closed(r)
    /\ StepEnds(runners[r].execution, runners[r].index, "SUCCEEDED")
    /\ Becomes(r, [runners[r] EXCEPT !.pc = "STEPPING", !.index = runners[r].index + 1])
    /\ UNCHANGED <<accepted, status, due, letters, communications, calls>>

\* A variant of the next definition with a bug the properties catch.
OneMore(r) == runners[r].retryable

ShouldRetry(r) == runners[r].retryable /\ runners[r].attempt < MaxAttempts

\* A variant of the next definition with a bug the properties catch.
FailSilently(r) ==
    LET x == runners[r].execution
        i == runners[r].index
        retry == ShouldRetry(r)
    IN /\ At(r, "FAILING")
       /\ StepEnds(x, i, IF retry THEN "RETRY_PENDING" ELSE "DEAD_LETTER")
       /\ due' = due \ {<<x, i>>}
       /\ status' = [status EXCEPT ![x] = IF retry THEN "FAILED" ELSE "DEAD_LETTER"]
       /\ letters' = [letters EXCEPT ![x] =
             IF retry THEN letters[x] ELSE [index |-> i, count |-> runners[r].attempt]]
       /\ Becomes(r, Released(r))
       /\ UNCHANGED <<accepted, history, communications, calls>>

\* The transaction of the catch block: the retry row, the step, the execution
\* and, without another attempt, the dead letter.
FailStep(r) ==
    LET x == runners[r].execution
        i == runners[r].index
        retry == ShouldRetry(r)
    IN /\ At(r, "FAILING")
       /\ history' = Closed(r)
       /\ StepEnds(x, i, IF retry THEN "RETRY_PENDING" ELSE "DEAD_LETTER")
       /\ due' = due \ {<<x, i>>}
       /\ status' = [status EXCEPT ![x] = IF retry THEN "FAILED" ELSE "DEAD_LETTER"]
       /\ letters' = [letters EXCEPT ![x] =
             IF retry THEN letters[x] ELSE [index |-> i, count |-> runners[r].attempt]]
       /\ Becomes(r, Released(r))
       /\ UNCHANGED <<accepted, communications, calls>>

\* Every action is done.
Finish(r) ==
    /\ At(r, "STEPPING")
    /\ runners[r].index > Actions
    /\ status' = [status EXCEPT ![runners[r].execution] = "SUCCEEDED"]
    /\ Becomes(r, Released(r))
    /\ UNCHANGED <<accepted, steps, due, history, letters, communications, calls>>

-----------------------------------------------------------------------------
(* CommunicationsService.send, called once per attempt. *)

\* The call ends; the runner hears of it only while it still waits for it.
Answer(c, outcome, retryable) ==
    LET r == c.by
        awaited == /\ At(r, "ACTING")
                   /\ runners[r].execution = c.execution
                   /\ runners[r].index = c.index
                   /\ runners[r].attempt = c.attempt
    IN /\ calls' = calls \ {c}
       /\ IF awaited
          THEN Becomes(r, [runners[r] EXCEPT !.pc = outcome, !.retryable = retryable])
          ELSE UNCHANGED runners

\* The lookup by idempotency key and the checks before the insert.
CheckSend(c) ==
    /\ c.stage = "CHECKING"
    /\ \/ /\ communications[c.execution][c.index] > 0
          /\ Answer(c, "COMPLETING", FALSE)
       \/ /\ communications[c.execution][c.index] = 0
          /\ \E retryable \in BOOLEAN : Answer(c, "FAILING", retryable)
       \/ /\ communications[c.execution][c.index] = 0
          /\ calls' = (calls \ {c}) \cup {[c EXCEPT !.stage = "INSERTING"]}
          /\ UNCHANGED runners
    /\ UNCHANGED store

\* A variant of the next definition with a bug the properties catch.
InsertAnyway(c) ==
    /\ c.stage = "INSERTING"
    /\ communications' = [communications EXCEPT ![c.execution][c.index] = @ + 1]
    /\ Answer(c, "COMPLETING", FALSE)
    /\ UNCHANGED <<accepted, status, steps, due, history, letters>>

\* The transaction that stores the communication and its outbox jobs.  The
\* unique key of requester and idempotency key turns a second one into a replay.
InsertSend(c) ==
    /\ c.stage = "INSERTING"
    /\ communications' =
          IF communications[c.execution][c.index] = 0
          THEN [communications EXCEPT ![c.execution][c.index] = 1]
          ELSE communications
    /\ Answer(c, "COMPLETING", FALSE)
    /\ UNCHANGED <<accepted, status, steps, due, history, letters>>

\* The store fails under the call: DELIVERY_STORE_UNAVAILABLE, retryable.
SendFails(c) ==
    /\ StoreMayFail
    /\ Answer(c, "FAILING", TRUE)
    /\ UNCHANGED store

-----------------------------------------------------------------------------
(* Failures of the store and of a process. *)

\* A statement of a runner fails.  Only the success transaction is inside the
\* try; every other failure leaves processExecution and drops the list.
StoreFails(r) ==
    /\ StoreMayFail
    /\ \/ /\ At(r, "COMPLETING")
          /\ Becomes(r, [runners[r] EXCEPT !.pc = "FAILING", !.retryable = TRUE])
       \/ /\ runners[r].pc \notin {"IDLE", "ACTING", "COMPLETING"}
          /\ Becomes(r, Idle)
    /\ UNCHANGED <<store, calls>>

\* The process of a runner stops, with the calls it has under way.
Crash(r) ==
    /\ MayCrash
    /\ ~At(r, "IDLE")
    /\ Becomes(r, Idle)
    /\ calls' = {c \in calls : c.by # r}
    /\ UNCHANGED store

-----------------------------------------------------------------------------
Init ==
    /\ accepted = {}
    /\ status = [x \in Executions |-> "ABSENT"]
    /\ steps = [x \in Executions |-> [i \in Indexes |-> NoStep]]
    /\ due = {}
    /\ history = {}
    /\ letters = [x \in Executions |-> None]
    /\ communications = [x \in Executions |-> [i \in Indexes |-> 0]]
    /\ calls = {}
    /\ runners = [r \in Runners |-> Idle]

\* A step of a runner that its own program takes.
RunnerStep(r) ==
    \/ Append(r) \/ Scan(r) \/ Claim(r) \/ Return(r) \/ Load(r) \/ Reject(r) \/ Skip(r)
    \/ PassOver(r) \/ HandBack(r) \/ StartStep(r) \/ OpenAttempt(r)
    \/ CompleteStep(r) \/ FailStep(r) \/ Finish(r)

Next ==
    \/ \E r \in Runners :
          \/ RunnerStep(r) \/ Timeout(r) \/ StoreFails(r) \/ Crash(r)
          \/ \E e \in Events : Dispatch(r, e)
    \/ \E c \in calls : CheckSend(c) \/ InsertSend(c) \/ SendFails(c)
    \/ \E x \in Executions, i \in Indexes : Elapse(x, i)

Spec == Init /\ [][Next]_vars

\* Runners run on, an action ends by its timer at the latest, time passes, and
\* the store and the processes do not fail for ever.
FairSpec ==
    /\ Spec
    /\ \A r \in Runners : WF_vars(RunnerStep(r)) /\ WF_vars(Timeout(r))
    /\ \A x \in Executions, i \in Indexes : WF_vars(Elapse(x, i))
    /\ <>[][\A r \in Runners : ~StoreFails(r) /\ ~Crash(r)]_vars

-----------------------------------------------------------------------------
(* Properties *)

\* Every variable keeps to the values its column or object can hold.
TypeOK ==
    /\ accepted \subseteq Events
    /\ status \in [Executions -> ExecutionStatus]
    /\ steps \in [Executions -> [Indexes -> Step]]
    /\ due \subseteq Executions \X Indexes
    /\ history \subseteq Executions \X Indexes \X (1..MaxAttempts) \X BOOLEAN
    /\ letters \in [Executions -> Letter \cup {None}]
    /\ communications \in [Executions -> [Indexes -> Nat]]
    /\ calls \subseteq Call
    /\ runners \in [Runners -> Runner]

\* The claim of processExecution gives an execution to one runner at a time,
\* and a runner between its claim and its last write finds it RUNNING.
OneRunner ==
    \A r \in Runners : runners[r].pc \in Holding =>
        /\ status[runners[r].execution] = "RUNNING"
        /\ \A q \in Runners \ {r} :
              runners[q].pc \in Holding => runners[q].execution # runners[r].execution

\* The loop of processExecution starts an action only after every earlier one
\* has succeeded, and calls the execution a success only when none is left
\* half way.
StepsInOrder ==
    \A x \in Executions :
        /\ \A i, j \in Indexes : i < j /\ steps[x][j] # NoStep => steps[x][i].status = "SUCCEEDED"
        /\ status[x] = "SUCCEEDED" =>
              \A i, j \in Indexes : steps[x][i].status = "SUCCEEDED" <=> steps[x][j].status = "SUCCEEDED"

\* However often an action times out, fails or is retried, communications.send
\* stores at most one communication for it, and exactly one when the step is
\* recorded as a success.
SentOnce ==
    \A x \in Executions, i \in Indexes :
        /\ communications[x][i] <= 1
        /\ steps[x][i].status = "SUCCEEDED" => communications[x][i] = 1

\* A step that is at rest has one finished retry row for each of its attempts
\* and no other, so its history accounts for everything that was tried.
HistoryTold ==
    \A x \in Executions, i \in Indexes :
        steps[x][i].status \in {"SUCCEEDED", "RETRY_PENDING", "DEAD_LETTER"} =>
            {h \in history : h[1] = x /\ h[2] = i}
                = {<<x, i, a, TRUE>> : a \in 1..steps[x][i].attempt}

\* An execution is a dead letter exactly when it has its dead-letter row, and
\* the row names the step that gave up and the attempts it made.
DeadLetterKept ==
    \A x \in Executions :
        /\ status[x] = "DEAD_LETTER" <=> letters[x] # None
        /\ \A i \in Indexes :
              steps[x][i].status = "DEAD_LETTER" <=>
                  /\ letters[x] # None
                  /\ letters[x] = [index |-> i, count |-> steps[x][i].attempt]

\* The executions of a stored event are those of its first delivery, whatever
\* versions are active when it is delivered again or at the same time.
DispatchedOnce ==
    [][\A e \in accepted :
          \A x \in {e} \X Versions : (status[x] = "ABSENT") = (status'[x] = "ABSENT")]_vars

\* A step of an execution is done once: one runner holds the execution, one
\* communication is sent for the step, and one execution is made for an event.
StepsRunOnce == [](OneRunner /\ SentOnce) /\ DispatchedOnce

\* The rows of an execution agree: its steps are done in order, its history
\* accounts for every attempt, and a dead letter has its row.
EngineRecordsAgree == TypeOK /\ StepsInOrder /\ HistoryTold /\ DeadLetterKept

\* A failure after the claim, or before it, has left the execution to nobody:
\* processExecution claims no RUNNING one, and a PENDING one waits for the event
\* to be delivered again.
Stranded(x) ==
    /\ status[x] \in {"PENDING", "RUNNING"}
    /\ \A r \in Runners : x # runners[r].execution /\ x \notin runners[r].todo

\* Every execution of a stored event succeeds or becomes a dead letter, unless a
\* failure strands it: its retries are picked up by the timer, whoever claims it
\* meanwhile and whatever failed before.
EveryExecutionSettles ==
    \A x \in Executions : (status[x] # "ABSENT") ~> (status[x] \in Settled \/ Stranded(x))
=============================================================================
