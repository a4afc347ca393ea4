---------------------------- MODULE EngineProofs -----------------------------
(***************************************************************************)
(* Proofs about AutomationEngine, for every number of events, versions,    *)
(* actions, attempts, dispatchers and retry workers, whatever statement    *)
(* fails and whichever process stops.  No lock spans an action: what keeps *)
(* an execution in order is that its RUNNING row has one holder, and that  *)
(* what the holder read at the start of its loop is still there when it    *)
(* comes to it.                                                            *)
(***************************************************************************)
EXTENDS AutomationEngine, TLAPS

(* The retry rows of a step, and those of n finished attempts.              *)
Told(x, i) == {h \in history : h[1] = x /\ h[2] = i}

Finished(x, i, n) == {<<x, i, a, TRUE>> : a \in 1..n}

Open(x, i, n) == Finished(x, i, n - 1) \cup {<<x, i, n, FALSE>>}

(* A step row agrees with its history, its communication and the letter.    *)
StepOK(x, i) ==
    /\ steps[x][i].status = "ABSENT" => steps[x][i] = NoStep
    /\ steps[x][i].status = "RETRY_PENDING" => steps[x][i].attempt < MaxAttempts
    /\ steps[x][i].status # "RUNNING" => Told(x, i) = Finished(x, i, steps[x][i].attempt)
    /\ steps[x][i].status = "RUNNING" => status[x] = "RUNNING"
    /\ communications[x][i] \in {0, 1}
    /\ steps[x][i].status = "SUCCEEDED" => communications[x][i] = 1
    /\ steps[x][i].status = "DEAD_LETTER" <=>
          /\ letters[x] # None
          /\ letters[x] = [index |-> i, count |-> steps[x][i].attempt]

(* The steps of an execution are in order, and agree with its status.       *)
RowOK(x) ==
    /\ x[1] \notin accepted => status[x] = "ABSENT"
    /\ status[x] \in {"ABSENT", "PENDING"} => \A i \in Indexes : steps[x][i] = NoStep
    /\ \A i \in Indexes : StepOK(x, i)
    /\ \A i, j \in Indexes : i < j /\ steps[x][j] # NoStep => steps[x][i].status = "SUCCEEDED"
    /\ status[x] = "SUCCEEDED" => \/ \A i \in Indexes : steps[x][i] = NoStep
                                  \/ \A i \in Indexes : steps[x][i].status = "SUCCEEDED"
    /\ status[x] = "DEAD_LETTER" <=> letters[x] # None

Resting == {"LOADING", "STEPPING", "SKIPPING", "REJECTING"}
Working == {"OPENING", "ACTING", "COMPLETING", "FAILING"}

(* What a runner that holds an execution may rely on at its place in        *)
(* processExecution.                                                        *)
HolderOK(r, x) ==
    /\ status[x] = "RUNNING"
    /\ runners[r].pc = "LOADING" => runners[r].index = 1
    /\ runners[r].pc \in Resting => \A j \in Indexes : steps[x][j].status # "RUNNING"
    /\ runners[r].pc \in {"SKIPPING", "REJECTING"} => \A j \in Indexes : steps[x][j] = NoStep
    /\ runners[r].pc = "STEPPING" =>
          \A j \in Indexes : /\ j < runners[r].index => steps[x][j].status = "SUCCEEDED"
                             /\ runners[r].index <= j => runners[r].seen[j] = steps[x][j]
    /\ runners[r].pc \in Working => runners[r].index \in Indexes /\ runners[r].attempt # 0
    /\ \A i \in Indexes :
          runners[r].index = i /\ runners[r].pc \in Working =>
             /\ steps[x][i].status = "RUNNING"
             /\ steps[x][i].attempt = runners[r].attempt
             /\ \A j \in Indexes : i < j => runners[r].seen[j] = steps[x][j]
             /\ Told(x, i) = IF runners[r].pc = "OPENING"
                             THEN Finished(x, i, runners[r].attempt - 1)
                             ELSE Open(x, i, runners[r].attempt)
             /\ runners[r].pc = "COMPLETING" => communications[x][i] = 1

Holds(r, x) == runners[r].pc \in Holding /\ runners[r].execution = x

RunnerOK(r) ==
    /\ runners[r].pc = "APPENDING" => runners[r].event \in Events
    /\ runners[r].pc = "DRAINING" => runners[r].index = 1
    /\ runners[r].pc \in Holding => runners[r].execution \in Executions
    /\ \A x \in Executions : Holds(r, x) => HolderOK(r, x)

Exclusive ==
    \A r, q \in Runners :
        r # q /\ runners[r].pc \in Holding /\ runners[q].pc \in Holding =>
            runners[r].execution # runners[q].execution

EngineIInv ==
    /\ TypeOK
    /\ \A x \in Executions : RowOK(x)
    /\ \A r \in Runners : RunnerOK(r)
    /\ Exclusive

(* A step that leaves the rows of an execution as they are.                 *)
Untouched(y) ==
    /\ status'[y] = status[y]
    /\ steps'[y] = steps[y]
    /\ letters'[y] = letters[y]
    /\ communications'[y] = communications[y]
    /\ \A i \in Indexes : Told(y, i)' = Told(y, i)
-----------------------------------------------------------------------------
(* The rows and the runners keep their types.                               *)

LEMMA BecomesOne ==
    ASSUME runners \in [Runners -> Runner], NEW r \in Runners, NEW R \in Runner, Becomes(r, R)
    PROVE  /\ runners' \in [Runners -> Runner]
           /\ runners'[r] = R
           /\ \A q \in Runners \ {r} : runners'[q] = runners[q]
  BY DEF Becomes

LEMMA StepWritten ==
    ASSUME steps \in [Executions -> [Indexes -> Step]], NEW x \in Executions, NEW i \in Indexes,
           NEW st \in StepStatus, NEW a \in 0..MaxAttempts, WriteStep(x, i, st, a)
    PROVE  /\ steps' \in [Executions -> [Indexes -> Step]]
           /\ steps'[x][i].status = st
           /\ steps'[x][i].attempt = a
           /\ \A j \in Indexes \ {i} : steps'[x][j] = steps[x][j]
           /\ \A y \in Executions \ {x} : steps'[y] = steps[y]
  <1> DEFINE row == [status |-> st, attempt |-> a, scheduled |-> st = "RETRY_PENDING"]
  <1>1. row \in Step /\ row.status = st /\ row.attempt = a
    <2>1. (st = "RETRY_PENDING") \in BOOLEAN
      OBVIOUS
    <2> QED BY <2>1 DEF Step
  <1>2. steps' = [steps EXCEPT ![x] = [steps[x] EXCEPT ![i] = row]]
    BY DEF WriteStep
  <1> HIDE DEF row
  <1> QED BY <1>1, <1>2

LEMMA IdleTypes ==
    /\ Idle \in Runner
    /\ \A t \in SUBSET Executions : [Idle EXCEPT !.pc = "DRAINING", !.todo = t] \in Runner
    /\ \A e \in Events : [Idle EXCEPT !.pc = "APPENDING", !.event = e] \in Runner
  <1>1. /\ 0 \in 0..MaxAttempts /\ 1 \in 1..(Actions + 1)
        /\ "IDLE" \in RunnerState /\ "DRAINING" \in RunnerState /\ "APPENDING" \in RunnerState
    BY AutomationAssumption DEF RunnerState
  <1>2. NoStep \in Step
    <2>1. "ABSENT" \in StepStatus /\ FALSE \in BOOLEAN
      BY DEF StepStatus
    <2> QED BY <1>1, <2>1 DEF NoStep, Step
  <1>3. [i \in Indexes |-> NoStep] \in [Indexes -> Step]
    BY <1>2
  <1>4. Idle \in Runner
    BY <1>1, <1>3 DEF Idle, Runner
  <1>5. \A t \in SUBSET Executions : [Idle EXCEPT !.pc = "DRAINING", !.todo = t] \in Runner
    BY <1>1, <1>4 DEF Runner
  <1>6. \A e \in Events : [Idle EXCEPT !.pc = "APPENDING", !.event = e] \in Runner
    BY <1>1, <1>4 DEF Runner
  <1> QED BY <1>4, <1>5, <1>6

LEMMA RunnerMoves ==
    ASSUME NEW R \in Runner, NEW p \in RunnerState
    PROVE  /\ [R EXCEPT !.pc = p] \in Runner
           /\ \A b \in BOOLEAN : [R EXCEPT !.pc = p, !.retryable = b] \in Runner
           /\ \A n \in 1..(Actions + 1) : [R EXCEPT !.pc = p, !.index = n] \in Runner
           /\ \A n \in 1..(Actions + 1) : [R EXCEPT !.index = n] \in Runner
           /\ \A a \in 0..MaxAttempts : [R EXCEPT !.pc = p, !.attempt = a] \in Runner
           /\ \A s \in [Indexes -> Step] : [R EXCEPT !.pc = p, !.seen = s] \in Runner
           /\ \A t \in SUBSET Executions : [R EXCEPT !.todo = t] \in Runner
           /\ \A t \in SUBSET Executions, x \in Executions :
                 [R EXCEPT !.pc = p, !.execution = x, !.todo = t] \in Runner
  BY DEF Runner

LEMMA ReleasedTypes ==
    ASSUME TypeOK, NEW r \in Runners
    PROVE  Released(r) \in Runner /\ Released(r).pc = "DRAINING" /\ Released(r).index = 1
  <1>1. runners[r].todo \in SUBSET Executions
    BY DEF TypeOK, Runner
  <1> QED BY <1>1, IdleTypes DEF Released, Idle
-----------------------------------------------------------------------------
(* The retry rows.                                                          *)

(* The retry rows there can be.                                             *)
Rows == Executions \X Indexes \X (1..MaxAttempts) \X BOOLEAN

LEMMA RowIsTyped ==
    ASSUME NEW x \in Executions, NEW i \in Indexes, NEW a \in 1..MaxAttempts, NEW b \in BOOLEAN
    PROVE  <<x, i, a, b>> \in Rows
  BY DEF Rows

LEMMA ToldSame ==
    ASSUME history' = history
    PROVE  \A x, i : Told(x, i)' = Told(x, i)
  BY DEF Told

LEMMA ToldGrows ==
    ASSUME NEW x, NEW i, NEW a, NEW b, history' = history \cup {<<x, i, a, b>>}
    PROVE  /\ Told(x, i)' = Told(x, i) \cup {<<x, i, a, b>>}
           /\ \A y, j : y # x \/ j # i => Told(y, j)' = Told(y, j)
  BY DEF Told

LEMMA ToldCloses ==
    ASSUME NEW x, NEW i, NEW a,
           history' = (history \ {<<x, i, a, FALSE>>}) \cup {<<x, i, a, TRUE>>}
    PROVE  /\ Told(x, i)' = (Told(x, i) \ {<<x, i, a, FALSE>>}) \cup {<<x, i, a, TRUE>>}
           /\ \A y, j : y # x \/ j # i => Told(y, j)' = Told(y, j)
  <1> DEFINE gone == <<x, i, a, FALSE>>
             new == <<x, i, a, TRUE>>
  <1>1. /\ gone[1] = x /\ gone[2] = i
        /\ new[1] = x /\ new[2] = i
    OBVIOUS
  <1>2. history' = (history \ {gone}) \cup {new}
    OBVIOUS
  <1> HIDE DEF gone, new
  <1>3. /\ Told(x, i)' = (Told(x, i) \ {gone}) \cup {new}
        /\ \A y, j : y # x \/ j # i => Told(y, j)' = Told(y, j)
    BY <1>1, <1>2 DEF Told
  <1> QED BY <1>3 DEF gone, new

LEMMA FinishedGrows ==
    ASSUME NEW x, NEW i, NEW n \in Nat \ {0}
    PROVE  (Open(x, i, n) \ {<<x, i, n, FALSE>>}) \cup {<<x, i, n, TRUE>>} = Finished(x, i, n)
  <1>1. 1..n = 1..(n - 1) \cup {n}
    OBVIOUS
  <1>2. <<x, i, n, FALSE>> \notin Finished(x, i, n - 1)
    BY DEF Finished
  <1>3. Finished(x, i, n) = Finished(x, i, n - 1) \cup {<<x, i, n, TRUE>>}
    BY <1>1 DEF Finished
  <1> QED BY <1>2, <1>3 DEF Open

LEMMA NothingTold == \A x, i : Finished(x, i, 0) = {}
  BY DEF Finished
-----------------------------------------------------------------------------
(* Who does not take part in a step finds everything as it was.             *)

LEMMA RowKept ==
    ASSUME NEW y \in Executions, RowOK(y), Untouched(y), accepted \subseteq accepted'
    PROVE  RowOK(y)'
  BY DEF RowOK, StepOK, Untouched

LEMMA RunnerKept ==
    ASSUME NEW q \in Runners, RunnerOK(q), runners'[q] = runners[q],
           \A y \in Executions : Holds(q, y) => Untouched(y)
    PROVE  RunnerOK(q)'
  <1>1. ASSUME NEW y \in Executions, Holds(q, y)' PROVE HolderOK(q, y)'
    <2>1. HolderOK(q, y) /\ Untouched(y)
      BY <1>1 DEF RunnerOK, Holds
    <2> QED BY <2>1 DEF HolderOK, Untouched
  <1> QED BY <1>1 DEF RunnerOK

(* A step of the holder of an execution that touches that one only.         *)
LEMMA HolderSteps ==
    ASSUME EngineIInv, TypeOK', NEW r \in Runners, NEW x \in Executions, Holds(r, x),
           accepted' = accepted,
           \A q \in Runners \ {r} : runners'[q] = runners[q],
           \A y \in Executions \ {x} : Untouched(y),
           runners'[r].pc \in Holding => runners'[r].execution = x,
           RowOK(x)', RunnerOK(r)'
    PROVE  EngineIInv'
  <1>1. \A y \in Executions : RowOK(y)'
    BY RowKept DEF EngineIInv
  <1>2. ASSUME NEW q \in Runners \ {r} PROVE RunnerOK(q)'
    <2>1. ASSUME NEW y \in Executions, Holds(q, y) PROVE y # x
      BY <2>1 DEF EngineIInv, Exclusive, Holds
    <2> QED BY <2>1, RunnerKept DEF EngineIInv
  <1>3. Exclusive'
    BY DEF EngineIInv, Exclusive, Holds
  <1> QED BY <1>1, <1>2, <1>3 DEF EngineIInv

(* A step of a runner that touches no row, and holds nothing after it.      *)
LEMMA RunnerLeaves ==
    ASSUME EngineIInv, TypeOK', NEW r \in Runners, accepted' = accepted,
           \A q \in Runners \ {r} : runners'[q] = runners[q],
           \A y \in Executions : Untouched(y),
           runners'[r].pc \notin Holding, RunnerOK(r)'
    PROVE  EngineIInv'
  <1>1. \A y \in Executions : RowOK(y)'
    BY RowKept DEF EngineIInv
  <1>2. ASSUME NEW q \in Runners \ {r} PROVE RunnerOK(q)'
    BY RunnerKept DEF EngineIInv
  <1>3. Exclusive'
    BY DEF EngineIInv, Exclusive
  <1> QED BY <1>1, <1>2, <1>3 DEF EngineIInv

LEMMA Holder ==
    ASSUME EngineIInv, NEW r \in Runners, runners[r].pc \in Holding
    PROVE  \E x \in Executions : /\ x = runners[r].execution /\ Holds(r, x)
                                 /\ HolderOK(r, x) /\ RowOK(x)
  BY DEF EngineIInv, RunnerOK, Holds
-----------------------------------------------------------------------------
(* Steps that write no row.                                                 *)

LEMMA StoreKept ==
    ASSUME UNCHANGED store
    PROVE  accepted' = accepted /\ \A y \in Executions : Untouched(y)
  BY ToldSame DEF store, Untouched

LEMMA TypeKept ==
    ASSUME TypeOK, UNCHANGED store, calls' \subseteq Call, runners' \in [Runners -> Runner]
    PROVE  TypeOK'
  BY DEF TypeOK, store

(* A runner that holds nothing after its step.                              *)
LEMMA RunnerTurns ==
    ASSUME EngineIInv, NEW r \in Runners, NEW R \in Runner, Becomes(r, R),
           UNCHANGED store, calls' \subseteq Call,
           R.pc \notin Holding, R.pc = "APPENDING" => R.event \in Events,
           R.pc = "DRAINING" => R.index = 1
    PROVE  EngineIInv'
  <1>1. /\ runners' \in [Runners -> Runner] /\ runners'[r] = R
        /\ \A q \in Runners \ {r} : runners'[q] = runners[q]
    BY BecomesOne DEF EngineIInv, TypeOK
  <1>2. TypeOK'
    BY <1>1, TypeKept DEF EngineIInv
  <1>3. RunnerOK(r)'
    BY <1>1 DEF RunnerOK, Holds
  <1> QED BY <1>1, <1>2, <1>3, StoreKept, RunnerLeaves

(* The holder of an execution goes on to another place in the code.         *)
LEMMA HolderTurns ==
    ASSUME EngineIInv, NEW r \in Runners, NEW x \in Executions, Holds(r, x), RowOK(x),
           NEW R \in Runner, Becomes(r, R), UNCHANGED store, calls' \subseteq Call,
           R.pc \in Holding, R.execution = x, HolderOK(r, x)'
    PROVE  EngineIInv'
  <1>1. /\ runners' \in [Runners -> Runner] /\ runners'[r] = R
        /\ \A q \in Runners \ {r} : runners'[q] = runners[q]
    BY BecomesOne DEF EngineIInv, TypeOK
  <1>2. TypeOK'
    BY <1>1, TypeKept DEF EngineIInv
  <1>3. RunnerOK(r)'
    BY <1>1 DEF RunnerOK, Holds, Holding
  <1>4. RowOK(x)'
    BY StoreKept, RowKept
  <1> QED BY <1>1, <1>2, <1>3, <1>4, StoreKept, HolderSteps

(* The holder of an execution writes its rows and leaves it.                *)
LEMMA HolderReleases ==
    ASSUME EngineIInv, NEW r \in Runners, NEW x \in Executions, Holds(r, x),
           Becomes(r, Released(r)), accepted' = accepted,
           runners' \in [Runners -> Runner] => TypeOK',
           \A y \in Executions \ {x} : Untouched(y), RowOK(x)'
    PROVE  EngineIInv'
  <1>1. Released(r) \in Runner /\ Released(r).pc = "DRAINING" /\ Released(r).index = 1
    BY ReleasedTypes DEF EngineIInv
  <1>2. /\ runners' \in [Runners -> Runner] /\ runners'[r] = Released(r)
        /\ \A q \in Runners \ {r} : runners'[q] = runners[q]
    BY <1>1, BecomesOne DEF EngineIInv, TypeOK
  <1>3. RunnerOK(r)' /\ runners'[r].pc \notin Holding
    BY <1>1, <1>2 DEF RunnerOK, Holds, Holding
  <1> QED BY <1>2, <1>3, HolderSteps
-----------------------------------------------------------------------------
(* dispatch and the retry timer *)

LEMMA IdleTurns ==
    ASSUME EngineIInv, NEW r \in Runners, Becomes(r, Idle), UNCHANGED store, calls' \subseteq Call
    PROVE  EngineIInv'
  <1>1. Idle \in Runner /\ Idle.pc = "IDLE"
    BY IdleTypes DEF Idle
  <1> QED BY <1>1, RunnerTurns DEF Holding

LEMMA DrainingTurns ==
    ASSUME EngineIInv, NEW r \in Runners, NEW list \in SUBSET Executions, Draining(r, list),
           UNCHANGED <<store, calls>>
    PROVE  EngineIInv'
  <1> DEFINE R == [Idle EXCEPT !.pc = "DRAINING", !.todo = list]
  <1>1. R \in Runner /\ R.pc = "DRAINING" /\ R.index = 1
    BY IdleTypes DEF Idle
  <1>2. Becomes(r, R)
    BY DEF Draining
  <1>3. calls' \subseteq Call
    BY DEF EngineIInv, TypeOK
  <1> HIDE DEF R
  <1> QED BY <1>1, <1>2, <1>3, RunnerTurns DEF Holding

LEMMA DispatchHolds ==
    ASSUME EngineIInv, NEW r \in Runners, NEW e \in Events, Dispatch(r, e)
    PROVE  EngineIInv'
  <1>1. CASE e \in accepted /\ Draining(r, ExecutionsOf(e))
    <2>1. ExecutionsOf(e) \in SUBSET Executions
      BY DEF ExecutionsOf
    <2> QED BY <1>1, <2>1, DrainingTurns DEF Dispatch
  <1>2. CASE Becomes(r, [Idle EXCEPT !.pc = "APPENDING", !.event = e])
    <2> DEFINE R == [Idle EXCEPT !.pc = "APPENDING", !.event = e]
    <2>1. R \in Runner /\ R.pc = "APPENDING" /\ R.event = e
      BY IdleTypes DEF Idle
    <2>2. UNCHANGED store /\ calls' \subseteq Call
      BY DEF Dispatch, EngineIInv, TypeOK
    <2> HIDE DEF R
    <2> QED BY <1>2, <2>1, <2>2, RunnerTurns DEF Holding, R
  <1> QED BY <1>1, <1>2 DEF Dispatch

LEMMA ScanHolds ==
    ASSUME EngineIInv, NEW r \in Runners, Scan(r)
    PROVE  EngineIInv'
  <1>1. {x \in Executions : Ready(x)} \in SUBSET Executions
    OBVIOUS
  <1> QED BY <1>1, DrainingTurns DEF Scan

LEMMA ReturnHolds ==
    ASSUME EngineIInv, NEW r \in Runners, Return(r)
    PROVE  EngineIInv'
  BY IdleTurns DEF Return, EngineIInv, TypeOK

LEMMA CrashHolds ==
    ASSUME EngineIInv, NEW r \in Runners, Crash(r)
    PROVE  EngineIInv'
  <1>1. calls' \subseteq Call
    BY DEF Crash, EngineIInv, TypeOK
  <1> QED BY <1>1, IdleTurns DEF Crash

(* The rows of a new event did not exist, and nobody holds them.            *)
LEMMA AppendHolds ==
    ASSUME EngineIInv, NEW r \in Runners, Append(r)
    PROVE  EngineIInv'
  <1>1. CASE UNCHANGED <<accepted, status>> /\ Draining(r, ExecutionsOf(runners[r].event))
    <2>1. ExecutionsOf(runners[r].event) \in SUBSET Executions
      BY DEF ExecutionsOf
    <2>2. UNCHANGED <<store, calls>>
      BY <1>1 DEF Append, store
    <2> QED BY <1>1, <2>1, <2>2, DrainingTurns
  <1>2. ASSUME NEW e \in Events, e = runners[r].event, e \notin accepted,
               NEW matching \in SUBSET Versions,
               accepted' = accepted \cup {e},
               status' = [x \in Executions |->
                             IF x \in {e} \X matching THEN "PENDING" ELSE status[x]],
               Draining(r, {e} \X matching)
        PROVE  EngineIInv'
    <2> DEFINE R == [Idle EXCEPT !.pc = "DRAINING", !.todo = {e} \X matching]
    <2>1. {e} \X matching \in SUBSET Executions
      BY DEF Executions
    <2>2. R \in Runner /\ R.pc = "DRAINING" /\ R.index = 1
      BY <2>1, IdleTypes DEF Idle
    <2>3. Becomes(r, R)
      BY <1>2 DEF Draining
    <2> HIDE DEF R
    <2>4. /\ runners' \in [Runners -> Runner] /\ runners'[r] = R
          /\ \A q \in Runners \ {r} : runners'[q] = runners[q]
      BY <2>2, <2>3, BecomesOne DEF EngineIInv, TypeOK
    <2>5. UNCHANGED <<steps, due, history, letters, communications, calls>>
      BY DEF Append
    <2>6. TypeOK'
      <3>1. status' \in [Executions -> ExecutionStatus]
        BY <1>2 DEF EngineIInv, TypeOK, ExecutionStatus
      <3>2. accepted' \subseteq Events
        BY <1>2 DEF EngineIInv, TypeOK
      <3> QED BY <2>4, <2>5, <3>1, <3>2 DEF EngineIInv, TypeOK
    <2>7. ASSUME NEW y \in Executions, y \notin {e} \X matching PROVE Untouched(y)
      BY <1>2, <2>5, <2>7, ToldSame DEF Untouched
    <2>8. ASSUME NEW y \in Executions, y \in {e} \X matching
          PROVE  /\ status[y] = "ABSENT" /\ RowOK(y)'
      <3>1. RowOK(y) /\ y[1] = e
        BY <2>8 DEF EngineIInv
      <3>2. status[y] = "ABSENT" /\ status'[y] = "PENDING"
        BY <1>2, <2>8, <3>1 DEF RowOK
      <3>3. /\ steps'[y] = steps[y] /\ letters'[y] = letters[y]
            /\ communications'[y] = communications[y]
            /\ \A i \in Indexes : Told(y, i)' = Told(y, i)
        BY <2>5, ToldSame
      <3>4. \A i \in Indexes : steps[y][i] = NoStep
        BY <3>1, <3>2 DEF RowOK
      <3>5. \A i \in Indexes : StepOK(y, i)'
        BY <3>1, <3>2, <3>3, <3>4 DEF RowOK, StepOK, NoStep
      <3> QED BY <1>2, <3>1, <3>2, <3>3, <3>4, <3>5 DEF RowOK
    <2>9. \A y \in Executions : RowOK(y)'
      BY <1>2, <2>7, <2>8, RowKept DEF EngineIInv
    <2>10. ASSUME NEW q \in Runners \ {r} PROVE RunnerOK(q)'
      <3>1. ASSUME NEW y \in Executions, Holds(q, y) PROVE status[y] = "RUNNING"
        BY <3>1 DEF EngineIInv, RunnerOK, HolderOK
      <3>2. \A y \in Executions : Holds(q, y) => Untouched(y)
        BY <2>7, <2>8, <3>1
      <3> QED BY <2>4, <3>2, RunnerKept DEF EngineIInv
    <2>11. RunnerOK(r)' /\ runners'[r].pc \notin Holding
      BY <2>2, <2>4 DEF RunnerOK, Holds, Holding
    <2>12. Exclusive'
      BY <2>4, <2>11 DEF EngineIInv, Exclusive
    <2> QED BY <2>6, <2>9, <2>10, <2>11, <2>12 DEF EngineIInv
  <1>3. runners[r].event \in Events
    BY DEF Append, At, EngineIInv, RunnerOK
  <1> QED BY <1>1, <1>2, <1>3 DEF Append
-----------------------------------------------------------------------------
(* processExecution *)

LEMMA ClaimHolds ==
    ASSUME EngineIInv, NEW r \in Runners, Claim(r)
    PROVE  EngineIInv'
  <1>0. runners[r] \in Runner /\ runners[r].todo \in SUBSET Executions /\ runners[r].pc = "DRAINING"
        /\ runners[r].index = 1
    BY DEF Claim, At, EngineIInv, TypeOK, Runner, RunnerOK
  <1>1. PICK x \in runners[r].todo :
          \/ /\ Claimable(x)
             /\ status' = [status EXCEPT ![x] = "RUNNING"]
             /\ Becomes(r, [runners[r] EXCEPT !.pc = "LOADING", !.execution = x,
                                              !.todo = runners[r].todo \ {x}])
          \/ /\ ~Claimable(x)
             /\ Becomes(r, [runners[r] EXCEPT !.todo = runners[r].todo \ {x}])
             /\ UNCHANGED status
    BY DEF Claim
  <1>2. x \in Executions
    BY <1>0
  <1>3. UNCHANGED <<accepted, steps, due, history, letters, communications, calls>>
    BY DEF Claim
  <1>4. runners[r].todo \ {x} \in SUBSET Executions
    BY <1>0
  <1>5. CASE ~Claimable(x) /\ UNCHANGED status
             /\ Becomes(r, [runners[r] EXCEPT !.todo = runners[r].todo \ {x}])
    <2> DEFINE R == [runners[r] EXCEPT !.todo = runners[r].todo \ {x}]
    <2>1. R \in Runner
      BY <1>0, <1>4, RunnerMoves DEF RunnerState
    <2>2. R.pc = "DRAINING" /\ R.index = 1
      BY <1>0 DEF Runner
    <2>3. UNCHANGED store /\ calls' \subseteq Call
      BY <1>3, <1>5 DEF store, EngineIInv, TypeOK
    <2> HIDE DEF R
    <2> QED BY <1>5, <2>1, <2>2, <2>3, RunnerTurns DEF Holding, R
  <1>6. CASE /\ Claimable(x)
             /\ status' = [status EXCEPT ![x] = "RUNNING"]
             /\ Becomes(r, [runners[r] EXCEPT !.pc = "LOADING", !.execution = x,
                                              !.todo = runners[r].todo \ {x}])
    <2> DEFINE R == [runners[r] EXCEPT !.pc = "LOADING", !.execution = x,
                                       !.todo = runners[r].todo \ {x}]
    <2>1. R \in Runner
      <3>1. "LOADING" \in RunnerState
        BY DEF RunnerState
      <3> QED BY <1>0, <1>2, <1>4, <3>1, RunnerMoves
    <2>2. R.pc = "LOADING" /\ R.index = 1 /\ R.execution = x
      BY <1>0 DEF Runner
    <2>3. Becomes(r, R)
      BY <1>6
    <2> HIDE DEF R
    <2>4. /\ runners' \in [Runners -> Runner] /\ runners'[r] = R
          /\ \A q \in Runners \ {r} : runners'[q] = runners[q]
      BY <2>1, <2>3, BecomesOne DEF EngineIInv, TypeOK
    <2>5. /\ status' \in [Executions -> ExecutionStatus] /\ status'[x] = "RUNNING"
          /\ \A y \in Executions \ {x} : status'[y] = status[y]
      BY <1>2, <1>6 DEF EngineIInv, TypeOK, ExecutionStatus
    <2>6. TypeOK'
      BY <1>3, <2>4, <2>5 DEF EngineIInv, TypeOK
    <2>7. \A y \in Executions \ {x} : Untouched(y)
      BY <1>3, <2>5, ToldSame DEF Untouched
    <2>8. RowOK(x) /\ status[x] \in {"PENDING", "FAILED"}
      BY <1>2, <1>6 DEF EngineIInv, Claimable
    <2>9. RowOK(x)'
      <3>1. \A i \in Indexes : Told(x, i)' = Told(x, i)
        BY <1>3, ToldSame
      <3>2. \A i \in Indexes : StepOK(x, i)'
        BY <1>3, <2>5, <2>8, <3>1 DEF RowOK, StepOK
      <3> QED BY <1>3, <2>5, <2>8, <3>2 DEF RowOK
    <2>10. \A y \in Executions : RowOK(y)'
      BY <1>3, <2>7, <2>9, RowKept DEF EngineIInv
    <2>11. ASSUME NEW q \in Runners \ {r}
           PROVE RunnerOK(q)' /\ (runners[q].pc \in Holding => runners[q].execution # x)
      <3>1. ASSUME NEW y \in Executions, Holds(q, y) PROVE y # x
        BY <2>8, <3>1 DEF EngineIInv, RunnerOK, HolderOK
      <3>2. RunnerOK(q)'
        BY <2>4, <2>7, <3>1, RunnerKept DEF EngineIInv
      <3> QED BY <1>2, <3>1, <3>2 DEF Holds
    <2>12. HolderOK(r, x)'
      <3>1. \A j \in Indexes : steps[x][j].status # "RUNNING"
        BY <2>8 DEF RowOK, StepOK
      <3> QED BY <1>3, <2>2, <2>4, <2>5, <3>1 DEF HolderOK, Resting, Working
    <2>13. RunnerOK(r)'
      BY <1>2, <2>2, <2>4, <2>12 DEF RunnerOK, Holds
    <2>14. Exclusive'
      BY <2>2, <2>4, <2>11 DEF EngineIInv, Exclusive
    <2> QED BY <2>6, <2>10, <2>11, <2>13, <2>14 DEF EngineIInv
  <1> QED BY <1>1, <1>5, <1>6

LEMMA LoadHolds ==
    ASSUME EngineIInv, NEW r \in Runners, Load(r)
    PROVE  EngineIInv'
  <1>1. PICK x \in Executions : /\ x = runners[r].execution /\ Holds(r, x)
                                /\ HolderOK(r, x) /\ RowOK(x)
    BY Holder DEF Load, At, Holding
  <1>2. PICK verdict \in {"STEPPING", "SKIPPING", "REJECTING"} :
          /\ (\E i \in Indexes : steps[x][i] # NoStep) => verdict = "STEPPING"
          /\ Becomes(r, [runners[r] EXCEPT !.pc = verdict, !.seen = steps[x]])
    BY <1>1 DEF Load
  <1> DEFINE R == [runners[r] EXCEPT !.pc = verdict, !.seen = steps[x]]
  <1>3. runners[r] \in Runner /\ steps[x] \in [Indexes -> Step] /\ runners[r].pc = "LOADING"
    BY DEF EngineIInv, TypeOK, Load, At
  <1>4. R \in Runner
    <2>1. verdict \in RunnerState
      BY DEF RunnerState
    <2> QED BY <1>3, <2>1, RunnerMoves
  <1>5. R.pc = verdict /\ R.seen = steps[x] /\ R.execution = x /\ R.index = runners[r].index
    BY <1>1, <1>3 DEF Runner
  <1>6. Becomes(r, R)
    BY <1>2
  <1> HIDE DEF R
  <1>7. runners'[r] = R
    BY <1>4, <1>6, BecomesOne DEF EngineIInv, TypeOK
  <1>8. UNCHANGED store /\ steps' = steps /\ status' = status /\ calls' \subseteq Call
    BY DEF Load, store, EngineIInv, TypeOK
  <1>9. HolderOK(r, x)'
    <2>1. runners[r].index = 1 /\ \A j \in Indexes : steps[x][j].status # "RUNNING"
      BY <1>1, <1>3 DEF HolderOK, Resting
    <2>2. \A j \in Indexes : ~(j < 1)
      BY DEF Indexes
    <2> QED BY <1>1, <1>2, <1>5, <1>7, <1>8, <2>1, <2>2 DEF HolderOK, Resting, Working
  <1>10. R.pc \in Holding
    BY <1>5 DEF Holding
  <1> QED BY <1>1, <1>4, <1>5, <1>6, <1>8, <1>9, <1>10, HolderTurns

(* failDefinition, and a version that does not apply.                       *)
LEMMA RejectHolds ==
    ASSUME EngineIInv, NEW r \in Runners, Reject(r)
    PROVE  EngineIInv'
  <1>1. PICK x \in Executions : /\ x = runners[r].execution /\ Holds(r, x)
                                /\ HolderOK(r, x) /\ RowOK(x)
    BY Holder DEF Reject, At, Holding
  <1>2. status[x] = "RUNNING" /\ \A j \in Indexes : steps[x][j] = NoStep
    BY <1>1 DEF HolderOK, Reject, At
  <1> DEFINE letter == [index |-> 0, count |-> 0]
  <1>3. /\ status' = [status EXCEPT ![x] = "DEAD_LETTER"]
        /\ letters' = [letters EXCEPT ![x] = letter]
        /\ Becomes(r, Released(r))
        /\ UNCHANGED <<accepted, steps, due, history, communications, calls>>
    BY <1>1, <1>2 DEF Reject
  <1>4. letter \in Letter /\ letter # None /\ \A i \in Indexes : letter.index # i
    BY AutomationAssumption DEF Letter, Indexes
  <1> HIDE DEF letter
  <1>5. /\ status' \in [Executions -> ExecutionStatus] /\ status'[x] = "DEAD_LETTER"
        /\ letters' \in [Executions -> Letter \cup {None}] /\ letters'[x] = letter
        /\ \A y \in Executions \ {x} : status'[y] = status[y] /\ letters'[y] = letters[y]
    BY <1>3, <1>4 DEF EngineIInv, TypeOK, ExecutionStatus
  <1>6. runners' \in [Runners -> Runner] => TypeOK'
    BY <1>3, <1>5 DEF EngineIInv, TypeOK
  <1>7. \A y \in Executions \ {x} : Untouched(y)
    BY <1>3, <1>5, ToldSame DEF Untouched
  <1>8. RowOK(x)'
    <2>1. \A i \in Indexes : Told(x, i)' = Told(x, i)
      BY <1>3, ToldSame
    <2>2. ASSUME NEW i \in Indexes PROVE StepOK(x, i)'
      <3>1. StepOK(x, i) /\ steps[x][i] = NoStep
        BY <1>1, <1>2 DEF RowOK
      <3>2. letter # [index |-> i, count |-> steps[x][i].attempt]
        BY <1>4
      <3> QED BY <1>3, <1>5, <2>1, <3>1, <3>2 DEF StepOK, NoStep
    <2> QED BY <1>1, <1>2, <1>3, <1>4, <1>5, <2>2 DEF RowOK
  <1> QED BY <1>1, <1>3, <1>6, <1>7, <1>8, HolderReleases

LEMMA StatusWritten ==
    ASSUME EngineIInv, NEW x \in Executions, NEW st \in ExecutionStatus,
           status' = [status EXCEPT ![x] = st],
           UNCHANGED <<accepted, steps, due, history, letters, communications, calls>>
    PROVE  /\ status'[x] = st
           /\ runners' \in [Runners -> Runner] => TypeOK'
           /\ \A y \in Executions \ {x} : Untouched(y)
           /\ \A i \in Indexes : Told(x, i)' = Told(x, i)
  <1>1. /\ status' \in [Executions -> ExecutionStatus] /\ status'[x] = st
        /\ \A y \in Executions \ {x} : status'[y] = status[y]
    BY DEF EngineIInv, TypeOK
  <1> QED BY <1>1, ToldSame DEF EngineIInv, TypeOK, Untouched

(* The execution ends as a success, with no step or with all of them done.  *)
LEMMA Succeeds ==
    ASSUME EngineIInv, NEW r \in Runners, NEW x \in Executions, Holds(r, x), RowOK(x),
           status[x] = "RUNNING", status' = [status EXCEPT ![x] = "SUCCEEDED"],
           UNCHANGED <<accepted, steps, due, history, letters, communications, calls>>,
           Becomes(r, Released(r)),
           \/ \A i \in Indexes : steps[x][i] = NoStep
           \/ \A i \in Indexes : steps[x][i].status = "SUCCEEDED"
    PROVE  EngineIInv'
  <1>1. "SUCCEEDED" \in ExecutionStatus
    BY DEF ExecutionStatus
  <1>2. /\ status'[x] = "SUCCEEDED"
        /\ runners' \in [Runners -> Runner] => TypeOK'
        /\ \A y \in Executions \ {x} : Untouched(y)
        /\ \A i \in Indexes : Told(x, i)' = Told(x, i)
    BY <1>1, StatusWritten
  <1>3. ASSUME NEW i \in Indexes PROVE StepOK(x, i)'
    BY <1>2, <1>3 DEF RowOK, StepOK, NoStep
  <1>4. RowOK(x)'
    BY <1>2, <1>3 DEF RowOK
  <1> QED BY <1>2, <1>4, HolderReleases

LEMMA SkipHolds ==
    ASSUME EngineIInv, NEW r \in Runners, Skip(r)
    PROVE  EngineIInv'
  <1>1. PICK x \in Executions : /\ x = runners[r].execution /\ Holds(r, x)
                                /\ HolderOK(r, x) /\ RowOK(x)
    BY Holder DEF Skip, At, Holding
  <1>2. status[x] = "RUNNING" /\ \A j \in Indexes : steps[x][j] = NoStep
    BY <1>1 DEF HolderOK, Skip, At
  <1> QED BY <1>1, <1>2, Succeeds DEF Skip

LEMMA FinishHolds ==
    ASSUME EngineIInv, NEW r \in Runners, Finish(r)
    PROVE  EngineIInv'
  <1>1. PICK x \in Executions : /\ x = runners[r].execution /\ Holds(r, x)
                                /\ HolderOK(r, x) /\ RowOK(x)
    BY Holder DEF Finish, At, Holding
  <1>2. runners[r].pc = "STEPPING" /\ runners[r].index > Actions /\ runners[r].index \in Nat
    BY DEF Finish, At, EngineIInv, TypeOK, Runner
  <1>3. \A j \in Indexes : j < runners[r].index
    BY <1>2, AutomationAssumption DEF Indexes
  <1>4. status[x] = "RUNNING" /\ \A j \in Indexes : steps[x][j].status = "SUCCEEDED"
    BY <1>1, <1>2, <1>3 DEF HolderOK
  <1> QED BY <1>1, <1>4, Succeeds DEF Finish

LEMMA HandBackHolds ==
    ASSUME EngineIInv, NEW r \in Runners, HandBack(r)
    PROVE  EngineIInv'
  <1>1. PICK x \in Executions : /\ x = runners[r].execution /\ Holds(r, x)
                                /\ HolderOK(r, x) /\ RowOK(x)
    BY Holder DEF HandBack, InLoop, At, Holding
  <1>2. status[x] = "RUNNING" /\ \A j \in Indexes : steps[x][j].status # "RUNNING"
    BY <1>1 DEF HolderOK, HandBack, InLoop, At, Resting
  <1>3. /\ status' = [status EXCEPT ![x] = "FAILED"] /\ Becomes(r, Released(r))
        /\ UNCHANGED <<accepted, steps, due, history, letters, communications, calls>>
    BY <1>1 DEF HandBack
  <1>4. "FAILED" \in ExecutionStatus
    BY DEF ExecutionStatus
  <1>5. /\ status'[x] = "FAILED"
        /\ runners' \in [Runners -> Runner] => TypeOK'
        /\ \A y \in Executions \ {x} : Untouched(y)
        /\ \A i \in Indexes : Told(x, i)' = Told(x, i)
    BY <1>3, <1>4, StatusWritten
  <1>6. ASSUME NEW i \in Indexes PROVE StepOK(x, i)'
    BY <1>1, <1>2, <1>3, <1>5, <1>6 DEF RowOK, StepOK
  <1>7. RowOK(x)'
    BY <1>1, <1>2, <1>3, <1>5, <1>6 DEF RowOK
  <1> QED BY <1>1, <1>3, <1>5, <1>7, HolderReleases

LEMMA PassOverHolds ==
    ASSUME EngineIInv, NEW r \in Runners, PassOver(r)
    PROVE  EngineIInv'
  <1>1. PICK x \in Executions : /\ x = runners[r].execution /\ Holds(r, x)
                                /\ HolderOK(r, x) /\ RowOK(x)
    BY Holder DEF PassOver, InLoop, At, Holding
  <1> DEFINE n == runners[r].index + 1
             R == [runners[r] EXCEPT !.index = n]
  <1>2. runners[r] \in Runner /\ runners[r].pc = "STEPPING" /\ runners[r].index \in Indexes
    BY DEF PassOver, InLoop, At, EngineIInv, TypeOK, Runner, Indexes
  <1>3. n \in 1..(Actions + 1)
    BY <1>2, AutomationAssumption DEF Indexes
  <1>4. R \in Runner
    BY <1>2, <1>3, RunnerMoves DEF RunnerState
  <1>5. R.pc = "STEPPING" /\ R.execution = x /\ R.index = n /\ R.seen = runners[r].seen
    BY <1>1, <1>2 DEF Runner
  <1>6. Becomes(r, R) /\ UNCHANGED store /\ calls' \subseteq Call
    BY DEF PassOver, EngineIInv, TypeOK
  <1>7. steps' = steps /\ status' = status /\ runners[r].index \in Nat
    BY <1>2, <1>6 DEF store, Indexes
  <1>8. \A j \in Indexes : (j < n <=> j < runners[r].index \/ j = runners[r].index)
                           /\ (n <= j => runners[r].index <= j)
    BY <1>7 DEF Indexes
  <1>9. steps[x][runners[r].index].status = "SUCCEEDED"
    BY <1>1, <1>2, <1>7 DEF HolderOK, PassOver, Done
  <1> HIDE DEF n, R
  <1>10. runners'[r] = R
    BY <1>4, <1>6, BecomesOne DEF EngineIInv, TypeOK
  <1>11. HolderOK(r, x)'
    BY <1>1, <1>2, <1>5, <1>7, <1>8, <1>9, <1>10 DEF HolderOK, Resting, Working
  <1> QED BY <1>1, <1>4, <1>5, <1>6, <1>11, HolderTurns DEF Holding
-----------------------------------------------------------------------------
(* An attempt at an action.                                                 *)

(* A step that runs is the last one there is.                               *)
LEMMA NothingBehind ==
    ASSUME NEW x \in Executions, RowOK(x), NEW i \in Indexes,
           steps[x][i].status # "SUCCEEDED"
    PROVE  \A j \in Indexes : i < j => steps[x][j] = NoStep
  BY DEF RowOK

LEMMA StartStepHolds ==
    ASSUME EngineIInv, NEW r \in Runners, StartStep(r)
    PROVE  EngineIInv'
  <1>1. PICK x \in Executions : /\ x = runners[r].execution /\ Holds(r, x)
                                /\ HolderOK(r, x) /\ RowOK(x)
    BY Holder DEF StartStep, InLoop, At, Holding
  <1>2. runners[r] \in Runner /\ runners[r].pc = "STEPPING" /\ runners[r].index \in Indexes
    BY DEF StartStep, InLoop, At, EngineIInv, TypeOK, Runner, Indexes
  <1>3. PICK i \in Indexes : i = runners[r].index
    BY <1>2
  <1>4. /\ status[x] = "RUNNING" /\ runners[r].seen[i] = steps[x][i]
        /\ \A j \in Indexes : j < i => steps[x][j].status = "SUCCEEDED"
        /\ \A j \in Indexes : i < j => runners[r].seen[j] = steps[x][j]
        /\ \A j \in Indexes : steps[x][j].status # "RUNNING"
    BY <1>1, <1>2, <1>3 DEF HolderOK, Resting, Indexes
  <1>5. steps[x][i] \in Step /\ steps[x][i].status # "SUCCEEDED" /\ StepOK(x, i)
    BY <1>1, <1>3, <1>4 DEF StartStep, Done, EngineIInv, TypeOK, RowOK
  <1>6. steps[x][i].status \in {"ABSENT", "RETRY_PENDING"}
    <2>1. steps[x][i].status # "DEAD_LETTER"
      BY <1>1, <1>4, <1>5 DEF StepOK, RowOK
    <2> QED BY <1>4, <1>5, <2>1 DEF Step, StepStatus
  <1> DEFINE next == steps[x][i].attempt + 1
             R == [runners[r] EXCEPT !.pc = "OPENING", !.attempt = next]
  <1>7. next \in 0..MaxAttempts /\ next # 0 /\ next - 1 = steps[x][i].attempt
    <2>1. steps[x][i].attempt \in 0..MaxAttempts
      BY <1>5 DEF Step
    <2>2. steps[x][i].attempt < MaxAttempts
      BY <1>5, <1>6, AutomationAssumption DEF StepOK, NoStep
    <2> QED BY <2>1, <2>2, AutomationAssumption
  <1>8. WriteStep(x, i, "RUNNING", next) /\ Becomes(r, R)
    BY <1>1, <1>3, <1>4 DEF StartStep
  <1>9. R \in Runner /\ R.pc = "OPENING" /\ R.execution = x /\ R.index = i /\ R.attempt = next
        /\ R.seen = runners[r].seen
    <2>1. "OPENING" \in RunnerState
      BY DEF RunnerState
    <2>2. R \in Runner
      BY <1>2, <1>7, <2>1, RunnerMoves
    <2> QED BY <1>1, <1>2, <1>3, <2>2 DEF Runner
  <1>10. UNCHANGED <<accepted, status, due, history, letters, communications, calls>>
    BY DEF StartStep
  <1> HIDE DEF next, R
  <1>11. /\ runners' \in [Runners -> Runner] /\ runners'[r] = R
         /\ \A q \in Runners \ {r} : runners'[q] = runners[q]
    BY <1>8, <1>9, BecomesOne DEF EngineIInv, TypeOK
  <1>12. /\ steps' \in [Executions -> [Indexes -> Step]]
         /\ steps'[x][i].status = "RUNNING" /\ steps'[x][i].attempt = next
         /\ \A j \in Indexes \ {i} : steps'[x][j] = steps[x][j]
         /\ \A y \in Executions \ {x} : steps'[y] = steps[y]
    <2>1. "RUNNING" \in StepStatus
      BY DEF StepStatus
    <2> QED BY <1>7, <1>8, <2>1, StepWritten DEF EngineIInv, TypeOK
  <1>13. TypeOK'
    BY <1>10, <1>11, <1>12 DEF EngineIInv, TypeOK
  <1>14. \A y \in Executions \ {x} : Untouched(y)
    BY <1>10, <1>12, ToldSame DEF Untouched
  <1>15. \A j \in Indexes : Told(x, j)' = Told(x, j)
    BY <1>10, ToldSame
  <1>16. RowOK(x)'
    <2>1. ASSUME NEW j \in Indexes PROVE StepOK(x, j)'
      <3>1. StepOK(x, j)
        BY <1>1 DEF RowOK
      <3>2. CASE j # i
        BY <1>4, <1>10, <1>12, <1>15, <3>1, <3>2 DEF StepOK
      <3>3. CASE j = i
        <4>1. letters[x] = None
          BY <1>1, <1>4 DEF RowOK
        <4> QED BY <1>4, <1>10, <1>12, <3>1, <3>3, <4>1 DEF StepOK
      <3> QED BY <3>2, <3>3
    <2>2. \A j \in Indexes : i < j => steps[x][j] = NoStep
      BY <1>1, <1>5, NothingBehind
    <2>3. \A j, k \in Indexes : j < k /\ steps'[x][k] # NoStep => steps'[x][j].status = "SUCCEEDED"
      BY <1>1, <1>4, <1>12, <2>2 DEF RowOK, Indexes
    <2> QED BY <1>1, <1>4, <1>10, <2>1, <2>3 DEF RowOK
  <1>17. HolderOK(r, x)'
    <2>1. Told(x, i)' = Finished(x, i, next - 1)
      BY <1>5, <1>6, <1>7, <1>15 DEF StepOK
    <2>2. \A j \in Indexes : i < j => j # i
      BY DEF Indexes
    <2> QED BY <1>4, <1>7, <1>9, <1>10, <1>11, <1>12, <2>1, <2>2 DEF HolderOK, Resting, Working
  <1>18. RunnerOK(r)'
    BY <1>1, <1>9, <1>11, <1>17 DEF RunnerOK, Holds
  <1> QED BY <1>1, <1>9, <1>10, <1>11, <1>13, <1>14, <1>16, <1>18, HolderSteps

(* What a runner knows of the step it works on.                             *)
WorksOn(r, x, i) ==
    /\ x = runners[r].execution /\ i = runners[r].index
    /\ Holds(r, x) /\ RowOK(x) /\ StepOK(x, i)
    /\ status[x] = "RUNNING" /\ letters[x] = None
    /\ steps[x][i].status = "RUNNING"
    /\ steps[x][i].attempt = runners[r].attempt
    /\ runners[r].attempt \in 1..MaxAttempts
    /\ \A j \in Indexes : i < j => runners[r].seen[j] = steps[x][j]
    /\ \A j \in Indexes : i < j => steps[x][j] = NoStep
    /\ \A j \in Indexes : j < i => steps[x][j].status = "SUCCEEDED"
    /\ Told(x, i) = IF runners[r].pc = "OPENING" THEN Finished(x, i, runners[r].attempt - 1)
                                                 ELSE Open(x, i, runners[r].attempt)
    /\ runners[r].pc = "COMPLETING" => communications[x][i] = 1

LEMMA Worker ==
    ASSUME EngineIInv, NEW r \in Runners, runners[r].pc \in Working
    PROVE  \E x \in Executions, i \in Indexes : WorksOn(r, x, i)
  <1>1. PICK x \in Executions : /\ x = runners[r].execution /\ Holds(r, x)
                                /\ HolderOK(r, x) /\ RowOK(x)
    BY Holder DEF Working, Holding
  <1>2. PICK i \in Indexes : i = runners[r].index
    BY <1>1 DEF HolderOK
  <1>3. /\ status[x] = "RUNNING"
        /\ steps[x][i].status = "RUNNING"
        /\ steps[x][i].attempt = runners[r].attempt
        /\ \A j \in Indexes : i < j => runners[r].seen[j] = steps[x][j]
        /\ Told(x, i) = IF runners[r].pc = "OPENING" THEN Finished(x, i, runners[r].attempt - 1)
                                                     ELSE Open(x, i, runners[r].attempt)
        /\ runners[r].pc = "COMPLETING" => communications[x][i] = 1
    BY <1>1, <1>2 DEF HolderOK
  <1>4. runners[r].attempt \in 1..MaxAttempts
    <2>1. runners[r].attempt \in 0..MaxAttempts
      BY DEF EngineIInv, TypeOK, Runner
    <2>2. runners[r].attempt # 0
      BY <1>1 DEF HolderOK
    <2> QED BY <2>1, <2>2, AutomationAssumption
  <1>5. letters[x] = None /\ StepOK(x, i)
    BY <1>1, <1>3 DEF RowOK
  <1>6. \A j \in Indexes : i < j => steps[x][j] = NoStep
    BY <1>1, <1>3, NothingBehind
  <1>7. \A j \in Indexes : j < i => steps[x][j].status = "SUCCEEDED"
    BY <1>1, <1>3 DEF RowOK, NoStep
  <1> QED BY <1>1, <1>2, <1>3, <1>4, <1>5, <1>6, <1>7 DEF WorksOn

(* The runner goes on with the step, which nothing touches.                 *)
LEMMA WorkerTurns ==
    ASSUME EngineIInv, NEW r \in Runners, NEW x \in Executions, NEW i \in Indexes,
           WorksOn(r, x, i), runners[r].pc # "OPENING",
           NEW p \in {"ACTING", "COMPLETING", "FAILING"}, NEW b \in BOOLEAN,
           Becomes(r, [runners[r] EXCEPT !.pc = p, !.retryable = b]),
           UNCHANGED store, calls' \subseteq Call,
           p = "COMPLETING" => communications[x][i] = 1
    PROVE  EngineIInv'
  <1> DEFINE R == [runners[r] EXCEPT !.pc = p, !.retryable = b]
  <1>1. runners[r] \in Runner /\ p \in RunnerState
    BY DEF EngineIInv, TypeOK, RunnerState
  <1>2. R \in Runner
    BY <1>1, RunnerMoves
  <1>3. /\ R.pc = p /\ R.execution = x /\ R.index = i
        /\ R.attempt = runners[r].attempt /\ R.seen = runners[r].seen
    BY <1>1 DEF Runner, WorksOn
  <1>4. Becomes(r, R)
    OBVIOUS
  <1> HIDE DEF R
  <1>5. runners'[r] = R
    BY <1>2, <1>4, BecomesOne DEF EngineIInv, TypeOK
  <1>6. /\ status' = status /\ steps' = steps /\ communications' = communications
        /\ Told(x, i)' = Told(x, i)
    BY ToldSame DEF store
  <1>7. Told(x, i)' = Open(x, i, runners[r].attempt)
    BY <1>6 DEF WorksOn
  <1>8. runners[r].attempt # 0
    BY AutomationAssumption DEF WorksOn
  <1>9. HolderOK(r, x)'
    BY <1>3, <1>5, <1>6, <1>7, <1>8 DEF HolderOK, WorksOn, Resting, Working
  <1> QED BY <1>2, <1>3, <1>4, <1>9, HolderTurns DEF Holding, WorksOn

LEMMA TimeoutHolds ==
    ASSUME EngineIInv, NEW r \in Runners, Timeout(r)
    PROVE  EngineIInv'
  <1>1. PICK x \in Executions, i \in Indexes : WorksOn(r, x, i)
    BY Worker DEF Timeout, At, Working
  <1>2. calls' \subseteq Call /\ runners[r].pc # "OPENING"
    BY DEF Timeout, At, EngineIInv, TypeOK
  <1> QED BY <1>1, <1>2, WorkerTurns DEF Timeout

LEMMA StoreFailsHolds ==
    ASSUME EngineIInv, NEW r \in Runners, StoreFails(r)
    PROVE  EngineIInv'
  <1>1. calls' \subseteq Call /\ UNCHANGED store
    BY DEF StoreFails, EngineIInv, TypeOK
  <1>2. CASE /\ At(r, "COMPLETING")
             /\ Becomes(r, [runners[r] EXCEPT !.pc = "FAILING", !.retryable = TRUE])
    <2>1. PICK x \in Executions, i \in Indexes : WorksOn(r, x, i)
      BY <1>2, Worker DEF At, Working
    <2> QED BY <1>1, <1>2, <2>1, WorkerTurns DEF At
  <1>3. CASE Becomes(r, Idle)
    BY <1>1, <1>3, IdleTurns
  <1> QED BY <1>2, <1>3 DEF StoreFails

LEMMA OpenAttemptHolds ==
    ASSUME EngineIInv, NEW r \in Runners, OpenAttempt(r)
    PROVE  EngineIInv'
  <1>1. PICK x \in Executions, i \in Indexes : WorksOn(r, x, i)
    BY Worker DEF OpenAttempt, At, Working
  <1>2. PICK a \in 1..MaxAttempts : a = runners[r].attempt
    BY <1>1 DEF WorksOn
  <1> DEFINE R == [runners[r] EXCEPT !.pc = "ACTING"]
             call == [execution |-> x, index |-> i, attempt |-> a,
                      by |-> r, stage |-> "CHECKING"]
  <1>3. /\ history' = history \cup {<<x, i, a, FALSE>>}
        /\ calls' = calls \cup {call}
        /\ Becomes(r, R)
        /\ UNCHANGED <<accepted, status, steps, due, letters, communications>>
    BY <1>1, <1>2 DEF OpenAttempt, WorksOn
  <1>4. call \in Call
    BY DEF Call
  <1>5. runners[r] \in Runner /\ "ACTING" \in RunnerState /\ runners[r].pc = "OPENING"
    BY DEF EngineIInv, TypeOK, RunnerState, OpenAttempt, At
  <1>6. /\ R \in Runner /\ R.pc = "ACTING" /\ R.execution = x /\ R.index = i
        /\ R.attempt = a /\ R.seen = runners[r].seen
    <2>1. R \in Runner
      BY <1>5, RunnerMoves
    <2> QED BY <1>1, <1>2, <1>5, <2>1 DEF Runner, WorksOn
  <1> HIDE DEF R, call
  <1>7. /\ runners' \in [Runners -> Runner] /\ runners'[r] = R
        /\ \A q \in Runners \ {r} : runners'[q] = runners[q]
    BY <1>3, <1>6, BecomesOne DEF EngineIInv, TypeOK
  <1>8. TypeOK'
    <2>1. history' \subseteq Executions \X Indexes \X (1..MaxAttempts) \X BOOLEAN
      <3>1. history \subseteq Rows
        BY DEF EngineIInv, TypeOK, Rows
      <3>2. history' \subseteq Rows
        BY <1>3, <3>1, RowIsTyped
      <3> QED BY <3>2 DEF Rows
    <2> QED BY <1>3, <1>4, <1>7, <2>1 DEF EngineIInv, TypeOK
  <1>9. /\ Told(x, i)' = Told(x, i) \cup {<<x, i, a, FALSE>>}
        /\ \A y, j : y # x \/ j # i => Told(y, j)' = Told(y, j)
    BY <1>3, ToldGrows
  <1>10. \A y \in Executions \ {x} : Untouched(y)
    BY <1>3, <1>9 DEF Untouched
  <1>11. RowOK(x)'
    <2>1. ASSUME NEW j \in Indexes PROVE StepOK(x, j)'
      <3>1. StepOK(x, j)
        BY <1>1 DEF RowOK, WorksOn
      <3>2. CASE j # i
        BY <1>3, <1>9, <3>1, <3>2 DEF StepOK
      <3>3. CASE j = i
        BY <1>1, <1>3, <3>1, <3>3 DEF StepOK, WorksOn
      <3> QED BY <3>2, <3>3
    <2> QED BY <1>1, <1>3, <2>1 DEF RowOK, WorksOn
  <1>12. HolderOK(r, x)'
    <2>1. Told(x, i)' = Open(x, i, a)
      BY <1>1, <1>2, <1>5, <1>9 DEF Open, WorksOn
    <2>2. a # 0
      BY AutomationAssumption
    <2> QED BY <1>1, <1>2, <1>3, <1>6, <1>7, <2>1, <2>2 DEF HolderOK, WorksOn, Resting, Working
  <1>13. RunnerOK(r)'
    BY <1>6, <1>7, <1>12 DEF RunnerOK, Holds
  <1> QED BY <1>1, <1>3, <1>6, <1>7, <1>8, <1>10, <1>11, <1>13, HolderSteps DEF WorksOn

(* The transaction that ends an attempt closes its retry row and gives the  *)
(* step its next status.                                                    *)
LEMMA AttemptEnds ==
    ASSUME EngineIInv, NEW r \in Runners, NEW x \in Executions, NEW i \in Indexes,
           WorksOn(r, x, i), runners[r].pc # "OPENING", NEW st \in StepStatus,
           history' = Closed(r), StepEnds(x, i, st)
    PROVE  /\ history' \subseteq Executions \X Indexes \X (1..MaxAttempts) \X BOOLEAN
           /\ steps' \in [Executions -> [Indexes -> Step]]
           /\ steps'[x][i].status = st /\ steps'[x][i].attempt = runners[r].attempt
           /\ \A j \in Indexes \ {i} : steps'[x][j] = steps[x][j]
           /\ \A y \in Executions \ {x} : steps'[y] = steps[y]
           /\ Told(x, i)' = Finished(x, i, runners[r].attempt)
           /\ \A y, j : y # x \/ j # i => Told(y, j)' = Told(y, j)
  <1>1. PICK a \in 1..MaxAttempts : a = runners[r].attempt
    BY DEF WorksOn
  <1>2. a \in Nat \ {0} /\ a \in 0..MaxAttempts
    BY AutomationAssumption
  <1>3. history' = (history \ {<<x, i, a, FALSE>>}) \cup {<<x, i, a, TRUE>>}
    BY <1>1 DEF Closed, WorksOn
  <1>4. /\ Told(x, i)' = (Told(x, i) \ {<<x, i, a, FALSE>>}) \cup {<<x, i, a, TRUE>>}
        /\ \A y, j : y # x \/ j # i => Told(y, j)' = Told(y, j)
    BY <1>3, ToldCloses
  <1>5. Told(x, i)' = Finished(x, i, a)
    <2>1. Told(x, i) = Open(x, i, a)
      BY <1>1 DEF WorksOn
    <2> QED BY <1>2, <1>4, <2>1, FinishedGrows
  <1>6. history' \subseteq Executions \X Indexes \X (1..MaxAttempts) \X BOOLEAN
    <2>1. history \subseteq Rows
      BY DEF EngineIInv, TypeOK, Rows
    <2>2. history' \subseteq Rows
      BY <1>3, <2>1, RowIsTyped
    <2> QED BY <2>2 DEF Rows
  <1>7. WriteStep(x, i, st, a)
    BY <1>1 DEF StepEnds, WorksOn
  <1>8. /\ steps' \in [Executions -> [Indexes -> Step]]
        /\ steps'[x][i].status = st /\ steps'[x][i].attempt = a
        /\ \A j \in Indexes \ {i} : steps'[x][j] = steps[x][j]
        /\ \A y \in Executions \ {x} : steps'[y] = steps[y]
    BY <1>2, <1>7, StepWritten DEF EngineIInv, TypeOK
  <1> QED BY <1>1, <1>4, <1>5, <1>6, <1>8

LEMMA CompleteStepHolds ==
    ASSUME EngineIInv, NEW r \in Runners, CompleteStep(r)
    PROVE  EngineIInv'
  <1>1. PICK x \in Executions, i \in Indexes : WorksOn(r, x, i)
    BY Worker DEF CompleteStep, At, Working
  <1> DEFINE n == i + 1
             R == [runners[r] EXCEPT !.pc = "STEPPING", !.index = n]
  <1>2. runners[r] \in Runner /\ runners[r].pc = "COMPLETING"
    BY DEF EngineIInv, TypeOK, CompleteStep, At
  <1>3. /\ history' = Closed(r) /\ StepEnds(x, i, "SUCCEEDED") /\ Becomes(r, R)
        /\ UNCHANGED <<accepted, status, due, letters, communications, calls>>
    BY <1>1 DEF CompleteStep, WorksOn
  <1>4. R \in Runner
    <2>1. n \in 1..(Actions + 1) /\ "STEPPING" \in RunnerState
      BY AutomationAssumption DEF Indexes, RunnerState
    <2> QED BY <1>2, <2>1, RunnerMoves
  <1>5. R.pc = "STEPPING" /\ R.execution = x /\ R.index = n /\ R.seen = runners[r].seen
    BY <1>1, <1>2 DEF Runner, WorksOn
  <1>6. \A j \in Indexes : (j < n <=> j < i \/ j = i) /\ (n <= j <=> i < j)
    BY DEF Indexes
  <1> HIDE DEF n, R
  <1>7. /\ runners' \in [Runners -> Runner] /\ runners'[r] = R
        /\ \A q \in Runners \ {r} : runners'[q] = runners[q]
    BY <1>3, <1>4, BecomesOne DEF EngineIInv, TypeOK
  <1>8. /\ history' \subseteq Executions \X Indexes \X (1..MaxAttempts) \X BOOLEAN
        /\ steps' \in [Executions -> [Indexes -> Step]]
        /\ steps'[x][i].status = "SUCCEEDED" /\ steps'[x][i].attempt = runners[r].attempt
        /\ \A j \in Indexes \ {i} : steps'[x][j] = steps[x][j]
        /\ \A y \in Executions \ {x} : steps'[y] = steps[y]
        /\ Told(x, i)' = Finished(x, i, runners[r].attempt)
        /\ \A y, j : y # x \/ j # i => Told(y, j)' = Told(y, j)
    <2>1. "SUCCEEDED" \in StepStatus
      BY DEF StepStatus
    <2> QED BY <1>1, <1>2, <1>3, <2>1, AttemptEnds
  <1>9. TypeOK'
    BY <1>3, <1>7, <1>8 DEF EngineIInv, TypeOK
  <1>10. \A y \in Executions \ {x} : Untouched(y)
    BY <1>3, <1>8 DEF Untouched
  <1>11. \A j \in Indexes : j < i \/ j = i \/ i < j
    BY DEF Indexes
  <1>12. RowOK(x)'
    <2>1. ASSUME NEW j \in Indexes PROVE StepOK(x, j)'
      <3>1. StepOK(x, j)
        BY <1>1 DEF RowOK, WorksOn
      <3>2. CASE j # i
        BY <1>3, <1>8, <3>1, <3>2 DEF StepOK
      <3>3. CASE j = i
        BY <1>1, <1>2, <1>3, <1>8, <3>1, <3>3 DEF StepOK, WorksOn
      <3> QED BY <3>2, <3>3
    <2>2. \A j, k \in Indexes : j < k /\ steps'[x][k] # NoStep => steps'[x][j].status = "SUCCEEDED"
      BY <1>1, <1>8, <1>11 DEF WorksOn, Indexes
    <2> QED BY <1>1, <1>3, <2>1, <2>2 DEF RowOK, WorksOn
  <1>13. HolderOK(r, x)'
    <2>1. \A j \in Indexes : steps'[x][j].status # "RUNNING"
      BY <1>1, <1>8, <1>11 DEF WorksOn, NoStep
    <2>2. \A j \in Indexes : j < n => steps'[x][j].status = "SUCCEEDED"
      BY <1>1, <1>6, <1>8 DEF WorksOn
    <2>3. \A j \in Indexes : n <= j => R.seen[j] = steps'[x][j]
      <3>1. \A j \in Indexes : i < j => j # i
        BY DEF Indexes
      <3> QED BY <1>1, <1>5, <1>6, <1>8, <3>1 DEF WorksOn
    <2> QED BY <1>1, <1>3, <1>5, <1>7, <2>1, <2>2, <2>3 DEF HolderOK, WorksOn, Resting, Working
  <1>14. RunnerOK(r)'
    BY <1>5, <1>7, <1>13 DEF RunnerOK, Holds
  <1> QED BY <1>1, <1>3, <1>5, <1>7, <1>9, <1>10, <1>12, <1>14, HolderSteps DEF WorksOn

LEMMA FailStepHolds ==
    ASSUME EngineIInv, NEW r \in Runners, FailStep(r)
    PROVE  EngineIInv'
  <1>1. PICK x \in Executions, i \in Indexes : WorksOn(r, x, i)
    BY Worker DEF FailStep, At, Working
  <1>2. PICK a \in 1..MaxAttempts : a = runners[r].attempt
    BY <1>1 DEF WorksOn
  <1> DEFINE st == IF ShouldRetry(r) THEN "RETRY_PENDING" ELSE "DEAD_LETTER"
             next == IF ShouldRetry(r) THEN "FAILED" ELSE "DEAD_LETTER"
             letter == IF ShouldRetry(r) THEN None ELSE [index |-> i, count |-> a]
  <1>3. /\ history' = Closed(r) /\ StepEnds(x, i, st)
        /\ due' = due \ {<<x, i>>}
        /\ status' = [status EXCEPT ![x] = next]
        /\ letters' = [letters EXCEPT ![x] = letter]
        /\ Becomes(r, Released(r))
        /\ UNCHANGED <<accepted, communications, calls>>
    BY <1>1, <1>2 DEF FailStep, WorksOn
  <1>4. runners[r].pc # "OPENING"
    BY DEF FailStep, At
  <1>5. st \in StepStatus /\ next \in ExecutionStatus
    BY DEF StepStatus, ExecutionStatus
  <1>6. letter \in Letter \cup {None}
    <2>1. i \in 0..Actions /\ a \in 0..MaxAttempts
      BY AutomationAssumption DEF Indexes
    <2> QED BY <2>1 DEF Letter
  <1>7. \/ st = "RETRY_PENDING" /\ next = "FAILED" /\ letter = None /\ a < MaxAttempts
        \/ /\ st = "DEAD_LETTER" /\ next = "DEAD_LETTER" /\ letter # None
           /\ letter = [index |-> i, count |-> a]
    <2>1. i \in 0..Actions /\ a \in 0..MaxAttempts
      BY AutomationAssumption DEF Indexes
    <2>2. [index |-> i, count |-> a] # None
      BY <2>1, AutomationAssumption DEF Letter
    <2> QED BY <1>2, <2>2 DEF ShouldRetry
  <1> HIDE DEF st, next, letter
  <1>8. /\ status' \in [Executions -> ExecutionStatus] /\ status'[x] = next
        /\ letters' \in [Executions -> Letter \cup {None}] /\ letters'[x] = letter
        /\ \A y \in Executions \ {x} : status'[y] = status[y] /\ letters'[y] = letters[y]
    BY <1>3, <1>5, <1>6 DEF EngineIInv, TypeOK
  <1>9. /\ history' \subseteq Executions \X Indexes \X (1..MaxAttempts) \X BOOLEAN
        /\ steps' \in [Executions -> [Indexes -> Step]]
        /\ steps'[x][i].status = st /\ steps'[x][i].attempt = a
        /\ \A j \in Indexes \ {i} : steps'[x][j] = steps[x][j]
        /\ \A y \in Executions \ {x} : steps'[y] = steps[y]
        /\ Told(x, i)' = Finished(x, i, a)
        /\ \A y, j : y # x \/ j # i => Told(y, j)' = Told(y, j)
    BY <1>1, <1>2, <1>3, <1>4, <1>5, AttemptEnds
  <1>10. runners' \in [Runners -> Runner] => TypeOK'
    BY <1>3, <1>8, <1>9 DEF EngineIInv, TypeOK
  <1>11. \A y \in Executions \ {x} : Untouched(y)
    BY <1>3, <1>8, <1>9 DEF Untouched
  <1>12. \A j \in Indexes : j < i \/ j = i \/ i < j
    BY DEF Indexes
  <1>13. RowOK(x)'
    <2>1. ASSUME NEW j \in Indexes, j # i PROVE StepOK(x, j)'
      <3>1. StepOK(x, j) /\ steps[x][j].status # "DEAD_LETTER" /\ steps[x][j].status # "RUNNING"
        BY <1>1, <1>12, <2>1 DEF RowOK, WorksOn, NoStep
      <3>2. letter # [index |-> j, count |-> steps[x][j].attempt] \/ letter = None
        BY <1>7, <2>1
      <3> QED BY <1>3, <1>8, <1>9, <2>1, <3>1, <3>2 DEF StepOK
    <2>2. StepOK(x, i)'
      <3>1. StepOK(x, i)
        BY <1>1 DEF WorksOn
      <3> QED BY <1>3, <1>7, <1>8, <1>9, <3>1 DEF StepOK
    <2>3. \A j, k \in Indexes : j < k /\ steps'[x][k] # NoStep => steps'[x][j].status = "SUCCEEDED"
      BY <1>1, <1>9, <1>12 DEF WorksOn, Indexes
    <2> QED BY <1>1, <1>3, <1>7, <1>8, <2>1, <2>2, <2>3 DEF RowOK, WorksOn
  <1> QED BY <1>1, <1>3, <1>10, <1>11, <1>13, HolderReleases DEF WorksOn
-----------------------------------------------------------------------------
(* communications.send, and the passing of time.                            *)

LEMMA AllKept ==
    ASSUME EngineIInv, TypeOK', accepted' = accepted, runners' = runners,
           \A y \in Executions : Untouched(y)
    PROVE  EngineIInv'
  <1>1. \A y \in Executions : RowOK(y)'
    BY RowKept DEF EngineIInv
  <1>2. \A q \in Runners : RunnerOK(q)'
    BY RunnerKept DEF EngineIInv
  <1>3. Exclusive'
    BY DEF EngineIInv, Exclusive
  <1> QED BY <1>1, <1>2, <1>3 DEF EngineIInv

LEMMA CallsChange ==
    ASSUME EngineIInv, UNCHANGED <<store, runners>>, calls' \subseteq Call
    PROVE  EngineIInv'
  <1>1. TypeOK'
    BY TypeKept DEF EngineIInv, TypeOK
  <1> QED BY <1>1, StoreKept, AllKept

LEMMA ElapseHolds ==
    ASSUME EngineIInv, NEW x \in Executions, NEW i \in Indexes, Elapse(x, i)
    PROVE  EngineIInv'
  <1>1. TypeOK'
    BY DEF Elapse, EngineIInv, TypeOK
  <1>2. \A y \in Executions : Untouched(y)
    BY ToldSame DEF Elapse, Untouched
  <1> QED BY <1>1, <1>2, AllKept DEF Elapse

(* Whether the runner of a call still waits for it.                         *)
Awaited(c) ==
    /\ At(c.by, "ACTING")
    /\ runners[c.by].execution = c.execution
    /\ runners[c.by].index = c.index
    /\ runners[c.by].attempt = c.attempt

LEMMA CallRead ==
    ASSUME EngineIInv, NEW c \in calls
    PROVE  c \in Call /\ c.by \in Runners /\ c.execution \in Executions /\ c.index \in Indexes
  BY DEF EngineIInv, TypeOK, Call

LEMMA AnswerHolds ==
    ASSUME EngineIInv, NEW c \in calls, NEW outcome \in {"COMPLETING", "FAILING"},
           NEW b \in BOOLEAN, Answer(c, outcome, b), UNCHANGED store,
           outcome = "COMPLETING" => communications[c.execution][c.index] = 1
    PROVE  EngineIInv'
  <1>1. calls' \subseteq Call
    BY DEF Answer, EngineIInv, TypeOK
  <1>2. CASE ~Awaited(c)
    <2>1. UNCHANGED runners
      BY <1>2 DEF Answer, Awaited
    <2> QED BY <1>1, <2>1, CallsChange
  <1>3. CASE Awaited(c)
    <2>1. PICK r \in Runners : r = c.by
      BY CallRead
    <2>2. PICK x \in Executions, i \in Indexes : WorksOn(r, x, i)
      BY <1>3, <2>1, Worker DEF Awaited, At, Working
    <2>3. Becomes(r, [runners[r] EXCEPT !.pc = outcome, !.retryable = b])
      BY <1>3, <2>1 DEF Answer, Awaited
    <2>4. x = c.execution /\ i = c.index /\ runners[r].pc # "OPENING"
      BY <1>3, <2>1, <2>2 DEF Awaited, At, WorksOn
    <2> QED BY <1>1, <2>2, <2>3, <2>4, WorkerTurns
  <1> QED BY <1>2, <1>3

LEMMA SendFailsHolds ==
    ASSUME EngineIInv, NEW c \in calls, SendFails(c)
    PROVE  EngineIInv'
  BY AnswerHolds DEF SendFails

LEMMA CheckSendHolds ==
    ASSUME EngineIInv, NEW c \in calls, CheckSend(c)
    PROVE  EngineIInv'
  <1>1. UNCHANGED store
    BY DEF CheckSend
  <1>2. CASE communications[c.execution][c.index] > 0 /\ Answer(c, "COMPLETING", FALSE)
    <2>1. communications[c.execution][c.index] \in {0, 1}
      BY CallRead DEF EngineIInv, RowOK, StepOK
    <2>2. communications[c.execution][c.index] = 1
      BY <1>2, <2>1
    <2> QED BY <1>1, <1>2, <2>2, AnswerHolds
  <1>3. CASE \E retryable \in BOOLEAN : Answer(c, "FAILING", retryable)
    BY <1>1, <1>3, AnswerHolds
  <1>4. CASE calls' = (calls \ {c}) \cup {[c EXCEPT !.stage = "INSERTING"]} /\ UNCHANGED runners
    <2>1. [c EXCEPT !.stage = "INSERTING"] \in Call
      BY CallRead DEF Call
    <2>2. calls' \subseteq Call
      BY <1>4, <2>1 DEF EngineIInv, TypeOK
    <2> QED BY <1>1, <1>4, <2>2, CallsChange
  <1> QED BY <1>2, <1>3, <1>4 DEF CheckSend

(* A communication that is stored stays, and no other is.                   *)
LEMMA InsertSendHolds ==
    ASSUME EngineIInv, NEW c \in calls, InsertSend(c)
    PROVE  EngineIInv'
  <1>1. PICK x \in Executions, i \in Indexes, r \in Runners :
            x = c.execution /\ i = c.index /\ r = c.by
    BY CallRead
  <1>2. communications \in [Executions -> [Indexes -> Nat]] /\ runners \in [Runners -> Runner]
    BY DEF EngineIInv, TypeOK
  <1>3. communications[x][i] \in {0, 1}
    BY DEF EngineIInv, RowOK, StepOK
  <1>4. /\ communications' \in [Executions -> [Indexes -> Nat]]
        /\ communications'[x][i] = 1
        /\ \A y \in Executions, j \in Indexes :
              y # x \/ j # i => communications'[y][j] = communications[y][j]
    <2>1. CASE communications[x][i] = 0
      <3>1. communications' = [communications EXCEPT ![x][i] = 1]
        BY <1>1, <2>1 DEF InsertSend
      <3> QED BY <1>2, <3>1
    <2>2. CASE communications[x][i] = 1
      <3>1. communications' = communications
        BY <1>1, <2>2 DEF InsertSend
      <3> QED BY <1>2, <2>2, <3>1
    <2> QED BY <1>3, <2>1, <2>2
  <1>5. /\ UNCHANGED <<accepted, status, steps, due, history, letters>>
        /\ Answer(c, "COMPLETING", FALSE)
    BY DEF InsertSend
  <1>6. \A y \in Executions, j \in Indexes : Told(y, j)' = Told(y, j)
    BY <1>5, ToldSame
  <1>7. ASSUME NEW y \in Executions PROVE RowOK(y)'
    <2>1. ASSUME NEW j \in Indexes PROVE StepOK(y, j)'
      <3>1. StepOK(y, j)
        BY DEF EngineIInv, RowOK
      <3>2. communications'[y][j] \in {0, 1} /\ (communications[y][j] = 1 => communications'[y][j] = 1)
        BY <1>3, <1>4, <3>1 DEF StepOK
      <3> QED BY <1>5, <1>6, <3>1, <3>2 DEF StepOK
    <2>2. RowOK(y)
      BY DEF EngineIInv
    <2> QED BY <1>5, <2>1, <2>2 DEF RowOK
  <1>8. ASSUME NEW q \in Runners, runners'[q] = runners[q] PROVE RunnerOK(q)'
    <2>1. ASSUME NEW y \in Executions, Holds(q, y)' PROVE HolderOK(q, y)'
      <3>1. HolderOK(q, y)
        BY <1>8, <2>1 DEF EngineIInv, RunnerOK, Holds
      <3>2. \A j \in Indexes : communications[y][j] = 1 => communications'[y][j] = 1
        BY <1>4
      <3> QED BY <1>5, <1>6, <1>8, <3>1, <3>2 DEF HolderOK
    <2>2. RunnerOK(q)
      BY DEF EngineIInv
    <2> QED BY <1>8, <2>1, <2>2 DEF RunnerOK
  <1>9. calls' \subseteq Call
    BY <1>5 DEF Answer, EngineIInv, TypeOK
  <1>10. CASE ~Awaited(c)
    <2>1. runners' = runners
      BY <1>5, <1>10 DEF Answer, Awaited
    <2>2. TypeOK'
      BY <1>2, <1>4, <1>5, <1>9, <2>1 DEF EngineIInv, TypeOK
    <2>3. Exclusive'
      BY <2>1 DEF EngineIInv, Exclusive
    <2> QED BY <1>7, <1>8, <2>1, <2>2, <2>3 DEF EngineIInv
  <1>11. CASE Awaited(c)
    <2> DEFINE R == [runners[r] EXCEPT !.pc = "COMPLETING", !.retryable = FALSE]
    <2>1. Becomes(r, R)
      BY <1>1, <1>5, <1>11 DEF Answer, Awaited
    <2>2. runners[r] \in Runner /\ "COMPLETING" \in RunnerState
      BY <1>2 DEF RunnerState
    <2>3. WorksOn(r, x, i) /\ runners[r].pc = "ACTING"
      <3>1. runners[r].pc = "ACTING" /\ runners[r].execution = x /\ runners[r].index = i
        BY <1>1, <1>11 DEF Awaited, At
      <3>2. PICK y \in Executions, j \in Indexes : WorksOn(r, y, j)
        BY <3>1, Worker DEF Working
      <3> QED BY <3>1, <3>2 DEF WorksOn
    <2>4. R \in Runner
      BY <2>2, RunnerMoves
    <2>5. /\ R.pc = "COMPLETING" /\ R.execution = x /\ R.index = i
          /\ R.attempt = runners[r].attempt /\ R.seen = runners[r].seen
      BY <2>2, <2>3 DEF Runner, WorksOn
    <2> HIDE DEF R
    <2>6. /\ runners' \in [Runners -> Runner] /\ runners'[r] = R
          /\ \A q \in Runners \ {r} : runners'[q] = runners[q]
      BY <1>2, <2>1, <2>4, BecomesOne
    <2>7. TypeOK'
      BY <1>4, <1>5, <1>9, <2>6 DEF EngineIInv, TypeOK
    <2>8. HolderOK(r, x)'
      <3>1. Told(x, i)' = Open(x, i, runners[r].attempt) /\ runners[r].attempt # 0
        BY <1>6, <2>3, AutomationAssumption DEF WorksOn
      <3> QED BY <1>4, <1>5, <2>3, <2>5, <2>6, <3>1 DEF HolderOK, WorksOn, Resting, Working
    <2>9. RunnerOK(r)'
      BY <2>5, <2>6, <2>8 DEF RunnerOK, Holds
    <2>10. Exclusive'
      BY <2>3, <2>5, <2>6 DEF EngineIInv, Exclusive, WorksOn, Holding
    <2> QED BY <1>7, <1>8, <2>6, <2>7, <2>9, <2>10 DEF EngineIInv
  <1> QED BY <1>10, <1>11
-----------------------------------------------------------------------------
(* The invariant, and what follows from it.                                 *)

LEMMA InitHolds == Init => EngineIInv
  <1> SUFFICES ASSUME Init PROVE EngineIInv
    OBVIOUS
  <1>1. Idle \in Runner /\ Idle.pc = "IDLE" /\ NoStep \in Step
    <2>1. "ABSENT" \in StepStatus /\ FALSE \in BOOLEAN /\ 0 \in 0..MaxAttempts
      BY AutomationAssumption DEF StepStatus
    <2>2. NoStep \in Step
      BY <2>1 DEF NoStep, Step
    <2> QED BY <2>2, IdleTypes DEF Idle
  <1>2. TypeOK
    BY <1>1 DEF Init, TypeOK, ExecutionStatus
  <1>3. ASSUME NEW x \in Executions PROVE RowOK(x)
    <2>1. \A i \in Indexes : Told(x, i) = {}
      BY DEF Init, Told
    <2>2. \A i \in Indexes : StepOK(x, i)
      BY <2>1, NothingTold DEF Init, StepOK, NoStep
    <2> QED BY <2>2 DEF Init, RowOK
  <1>4. \A r \in Runners : RunnerOK(r)
    BY <1>1 DEF Init, RunnerOK, Holds, Holding
  <1>5. Exclusive
    BY <1>1 DEF Init, Exclusive, Holding
  <1> QED BY <1>2, <1>3, <1>4, <1>5 DEF EngineIInv

LEMMA NextHolds == EngineIInv /\ [Next]_vars => EngineIInv'
  <1> SUFFICES ASSUME EngineIInv, [Next]_vars PROVE EngineIInv'
    OBVIOUS
  <1>1. ASSUME NEW r \in Runners, RunnerStep(r) PROVE EngineIInv'
    BY <1>1, AppendHolds, ScanHolds, ClaimHolds, ReturnHolds, LoadHolds, RejectHolds, SkipHolds,
       PassOverHolds, HandBackHolds, StartStepHolds, OpenAttemptHolds, CompleteStepHolds,
       FailStepHolds, FinishHolds DEF RunnerStep
  <1>2. ASSUME NEW r \in Runners, Timeout(r) \/ StoreFails(r) \/ Crash(r) PROVE EngineIInv'
    BY <1>2, TimeoutHolds, StoreFailsHolds, CrashHolds
  <1>3. ASSUME NEW c \in calls, CheckSend(c) \/ InsertSend(c) \/ SendFails(c) PROVE EngineIInv'
    BY <1>3, CheckSendHolds, InsertSendHolds, SendFailsHolds
  <1>4. CASE UNCHANGED vars
    BY <1>4, CallsChange DEF vars, store, EngineIInv, TypeOK
  <1> QED BY <1>1, <1>2, <1>3, <1>4, DispatchHolds, ElapseHolds DEF Next

(* The invariant of the engine, at every step of every behaviour.           *)
THEOREM EngineInductive == Spec => []EngineIInv
  BY InitHolds, NextHolds, PTL DEF Spec

(* However steps fail, time out or are taken up again, an execution does    *)
(* its steps in order, its history accounts for every attempt of a step at  *)
(* rest, and it is a dead letter exactly when its letter says why.          *)
THEOREM EngineRecordsAgreeCorrect == Spec => []EngineRecordsAgree
  <1>1. ASSUME EngineIInv PROVE EngineRecordsAgree
    <2>1. StepsInOrder
      BY <1>1 DEF EngineIInv, RowOK, StepsInOrder, NoStep
    <2>2. HistoryTold
      BY <1>1 DEF EngineIInv, RowOK, StepOK, HistoryTold, Told, Finished
    <2>3. DeadLetterKept
      BY <1>1 DEF EngineIInv, RowOK, StepOK, DeadLetterKept
    <2> QED BY <1>1, <2>1, <2>2, <2>3 DEF EngineIInv, EngineRecordsAgree
  <1> QED BY <1>1, EngineInductive, PTL

(* No step takes an execution of a stored event out of or into existence.   *)
ExecutionsStand ==
    \A e \in accepted :
        \A x \in {e} \X Versions : (status[x] = "ABSENT") = (status'[x] = "ABSENT")

LEMMA NextDispatchesOnce == EngineIInv /\ [Next]_vars => ExecutionsStand
  <1> SUFFICES ASSUME EngineIInv, [Next]_vars,
                      NEW e \in accepted, NEW x \in {e} \X Versions
               PROVE  (status[x] = "ABSENT") <=> (status'[x] = "ABSENT")
    BY DEF ExecutionsStand
  <1>1. x \in Executions /\ x[1] = e /\ status \in [Executions -> ExecutionStatus]
    BY DEF EngineIInv, TypeOK, Executions
  <1>2. ASSUME NEW r \in Runners, Append(r) PROVE (status[x] = "ABSENT") <=> (status'[x] = "ABSENT")
    BY <1>1, <1>2 DEF Append
  <1>3. ASSUME NEW r \in Runners, Claim(r) PROVE (status[x] = "ABSENT") <=> (status'[x] = "ABSENT")
    BY <1>1, <1>3 DEF Claim, Claimable
  <1>4. ASSUME NEW r \in Runners,
               Reject(r) \/ Skip(r) \/ HandBack(r) \/ FailStep(r) \/ Finish(r)
        PROVE (status[x] = "ABSENT") <=> (status'[x] = "ABSENT")
    <2>1. runners[r].pc \in Holding
      BY <1>4 DEF Reject, Skip, HandBack, FailStep, Finish, InLoop, At, Holding
    <2>2. PICK y \in Executions : /\ y = runners[r].execution /\ Holds(r, y)
                                  /\ HolderOK(r, y) /\ RowOK(y)
      BY <2>1, Holder
    <2>3. status[y] = "RUNNING"
      BY <2>2 DEF HolderOK
    <2>4. \/ status' = status
          \/ \E st \in {"DEAD_LETTER", "SUCCEEDED", "FAILED"} : status' = [status EXCEPT ![y] = st]
      BY <1>4, <2>2 DEF Reject, Skip, HandBack, FailStep, Finish
    <2> QED BY <1>1, <2>3, <2>4
  <1>5. ASSUME NEW r \in Runners,
               \/ Scan(r) \/ Return(r) \/ Load(r) \/ PassOver(r) \/ StartStep(r) \/ OpenAttempt(r)
               \/ CompleteStep(r) \/ Timeout(r) \/ StoreFails(r) \/ Crash(r)
               \/ \E v \in Events : Dispatch(r, v)
        PROVE  status' = status
    BY <1>5 DEF Scan, Return, Load, PassOver, StartStep, OpenAttempt, CompleteStep, Timeout,
                StoreFails, Crash, Dispatch, store
  <1>6. ASSUME NEW c \in calls, CheckSend(c) \/ InsertSend(c) \/ SendFails(c)
        PROVE  status' = status
    BY <1>6 DEF CheckSend, InsertSend, SendFails, store
  <1>7. ASSUME NEW y \in Executions, NEW i \in Indexes, Elapse(y, i) PROVE status' = status
    BY <1>7 DEF Elapse
  <1>8. CASE UNCHANGED vars
    BY <1>8 DEF vars
  <1> QED BY <1>2, <1>3, <1>4, <1>5, <1>6, <1>7, <1>8 DEF Next, RunnerStep

(* One runner holds an execution, one communication is stored for a step,   *)
(* and one set of executions is made for an event.                          *)
THEOREM StepsRunOnceCorrect == Spec => StepsRunOnce
  <1>1. ASSUME EngineIInv PROVE OneRunner /\ SentOnce
    <2>1. OneRunner
      BY <1>1 DEF EngineIInv, RunnerOK, Holds, HolderOK, Exclusive, OneRunner
    <2>2. ASSUME NEW x \in Executions, NEW i \in Indexes
          PROVE  /\ communications[x][i] <= 1
                 /\ steps[x][i].status = "SUCCEEDED" => communications[x][i] = 1
      <3>1. StepOK(x, i)
        BY <1>1 DEF EngineIInv, RowOK
      <3> QED BY <3>1 DEF StepOK
    <2> QED BY <2>1, <2>2 DEF SentOnce
  <1>2. EngineIInv /\ [Next]_vars => ExecutionsStand
    BY NextDispatchesOnce
  <1>3. Spec => [](OneRunner /\ SentOnce)
    BY <1>1, EngineInductive, PTL
  <1>4. Spec => [][\A e \in accepted :
                      \A x \in {e} \X Versions :
                          (status[x] = "ABSENT") = (status'[x] = "ABSENT")]_vars
    BY <1>2, EngineInductive, PTL DEF Spec, ExecutionsStand
  <1> QED BY <1>3, <1>4, PTL DEF StepsRunOnce, DispatchedOnce
=============================================================================
