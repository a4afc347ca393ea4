------------------------- MODULE ConversationsProofs -------------------------
(***************************************************************************)
(* Proofs about web chats, for every number of messages, requests,         *)
(* operators, passages and candidates, and whatever may fail: what a       *)
(* conversation keeps while people and the assistant work on it, what the  *)
(* pages of a visitor keep of what was written, and what an answer is made *)
(* of.                                                                     *)
(***************************************************************************)
EXTENDS MCConversations, Integers, Sequences, FiniteSetTheorems, TLAPS


-----------------------------------------------------------------------------
(* The inductive invariant.                                                 *)

Holding == {"EXPIRING", "REPLYING", "ESCALATING"}

Running == {"READING", "INFERRING", "COMMITTING", "HANDING", "REPLYING", "ESCALATING"}

Claimed(m) == rows[m].status \notin {"ABSENT", "PENDING"}

(* What a request may rely on at its place in the code.                     *)
JobHolds(r) ==
    LET j == jobs[r] IN
    /\ j.pc # "IDLE" => j.message \in Messages
    /\ j.pc \in Running => rows[j.message].attempts = 1 /\ j.message \notin replied \union handed
    /\ j.pc \in {"EXPIRING", "FINISHING", "MARKING"} => Claimed(j.message)
    /\ j.pc \in {"INFERRING", "COMMITTING", "HANDING"} /\ r \in fresh =>
          j.seen = Received /\ ~j.overtaken
    /\ j.pc \in {"REPLYING", "ESCALATING"} =>
          MayKoralAutoReply /\ j.seen = Received /\ ~j.overtaken

(* A row counts the one orchestration it started.                           *)
RowHolds(m) ==
    /\ rows[m].attempts \in {0, 1}
    /\ ~Claimed(m) => rows[m].attempts = 0
    /\ m \in replied \union handed => rows[m].attempts = 1

OneRun ==
    \A r, s \in Requests :
        jobs[r].pc \in Running /\ jobs[s].pc \in Running
            /\ jobs[r].message = jobs[s].message => r = s

KoralIInv ==
    /\ TypeOK /\ OwnedWhileHuman
    /\ (\A r \in Requests : JobHolds(r)) /\ OneRun
    /\ (\A m \in Messages : RowHolds(m)) /\ replied \cap handed = {}

LEMMA IdleType == Idle \in Job /\ Idle.pc = "IDLE"
  BY DEF Idle, Job, JobState, Assurance

LEMMA KoralInitial == Init => KoralIInv
  <1> SUFFICES ASSUME Init PROVE KoralIInv
    OBVIOUS
  <1>1. TypeOK
    <2>1. NoRow \in Row
      BY DEF NoRow, Row, ProcessingStatus
    <2>2. \A r \in Requests : lock # r /\ jobs[r].pc \notin Holding
      BY IdleType, KoralAssumption DEF Init, Holding
    <2> QED BY <2>1, <2>2, IdleType
            DEF Init, TypeOK, ConversationStatus, Session, Assurance, Holding
  <1>2. OwnedWhileHuman
    BY DEF Init, OwnedWhileHuman
  <1>3. (\A r \in Requests : JobHolds(r)) /\ OneRun
    BY IdleType DEF Init, JobHolds, OneRun, Running
  <1>4. (\A m \in Messages : RowHolds(m)) /\ replied \cap handed = {}
    BY DEF Init, RowHolds, NoRow, Claimed
  <1> QED BY <1>1, <1>2, <1>3, <1>4 DEF KoralIInv

(* Nobody holds the conversation's lock when it is free.                    *)
LEMMA NobodyHolds ==
    ASSUME KoralIInv, Unlocked PROVE \A r \in Requests : jobs[r].pc \notin Holding
  BY KoralAssumption DEF KoralIInv, TypeOK, Unlocked, Holding

LEMMA OneHolds ==
    ASSUME KoralIInv, NEW r \in Requests, jobs[r].pc \in Holding
    PROVE  lock = r /\ \A s \in Requests : jobs[s].pc \in Holding => s = r
  BY DEF KoralIInv, TypeOK, Holding

(* A row that only moves on.                                                *)
RowAdvances(m) ==
    /\ rows'[m].attempts = rows[m].attempts
    /\ \/ rows'[m].status = rows[m].status
       \/ rows[m].status # "ABSENT" /\ rows'[m].status \notin {"ABSENT", "PENDING"}

LEMMA ReceivedStands ==
    ASSUME \A m \in Messages : RowAdvances(m) PROVE Received' = Received
  BY DEF RowAdvances, Received

LockRight == \A r \in Requests : lock = r <=> jobs[r].pc \in Holding

(* Every step that leaves the talk alone and lets rows only move on keeps   *)
(* the invariant, when each request that moves arrives where it may be.     *)
LEMMA QuietStep ==
    ASSUME KoralIInv,
           UNCHANGED <<status, owner, replied, handed>>,
           rows' \in [Messages -> Row], \A m \in Messages : RowAdvances(m),
           fresh' \subseteq Requests \union Operators, current' \subseteq Requests,
           session' \in Session, lock' \in Requests \union {None},
           jobs' \in [Requests -> Job], LockRight',
           \A s \in Requests :
              \/ jobs'[s] = jobs[s] /\ (s \in fresh' => s \in fresh)
              \/ /\ JobHolds(s)'
                 /\ jobs'[s].pc \in Running =>
                       jobs[s].pc \in Running /\ jobs'[s].message = jobs[s].message
    PROVE  KoralIInv'
  <1>1. TypeOK' /\ OwnedWhileHuman'
    BY DEF KoralIInv, TypeOK, OwnedWhileHuman, LockRight, Holding
  <1>2. \A m \in Messages : RowHolds(m)' /\ (Claimed(m) => Claimed(m)')
    BY DEF KoralIInv, RowHolds, RowAdvances, Claimed
  <1>3. Received' = Received
    BY ReceivedStands
  <1>4. ASSUME NEW s \in Requests, jobs'[s] = jobs[s], s \in fresh' => s \in fresh
        PROVE  JobHolds(s)'
    BY <1>2, <1>3, <1>4 DEF KoralIInv, JobHolds, RowAdvances, MayKoralAutoReply, Running
  <1>5. OneRun'
    BY DEF KoralIInv, OneRun
  <1> QED BY <1>1, <1>2, <1>4, <1>5 DEF KoralIInv

(* Nothing at all happens to the rows.                                      *)
LEMMA SameRowsAdvance ==
    ASSUME KoralIInv, UNCHANGED rows
    PROVE  rows' \in [Messages -> Row] /\ \A m \in Messages : RowAdvances(m)
  BY DEF KoralIInv, TypeOK, RowAdvances

(* A row that is settled, once it was received.                             *)
LEMMA SettledRowsAdvance ==
    ASSUME KoralIInv, NEW m \in Messages, NEW outcome \in Final,
           rows[m].status # "ABSENT", rows' = Settle(m, outcome)
    PROVE  /\ rows' \in [Messages -> Row] /\ \A n \in Messages : RowAdvances(n)
           /\ rows'[m].status = outcome
           /\ \A n \in Messages \ {m} : rows'[n] = rows[n]
  <1>1. rows[m] \in Row /\ rows \in [Messages -> Row]
    BY DEF KoralIInv, TypeOK
  <1>2. PICK q \in Row : /\ q = [rows[m] EXCEPT !.status = outcome, !.lease = None]
                         /\ q.status = outcome /\ q.attempts = rows[m].attempts
    <2>1. \A p \in Row : LET a == [p EXCEPT !.status = outcome, !.lease = None] IN
             a \in Row /\ a.status = outcome /\ a.attempts = p.attempts
      BY DEF Row, ProcessingStatus, Final
    <2> QED BY <1>1, <2>1
  <1>3. rows' = [rows EXCEPT ![m] = q]
    BY <1>2 DEF Settle
  <1> QED BY <1>1, <1>2, <1>3 DEF RowAdvances, Final

(* A request goes on to another place, with what it has.                    *)
LEMMA GoesTo ==
    ASSUME KoralIInv, NEW r \in Requests, NEW pc \in JobState, Goto(r, pc)
    PROVE  /\ jobs' \in [Requests -> Job]
           /\ jobs'[r].pc = pc /\ jobs'[r].message = jobs[r].message
           /\ jobs'[r].seen = jobs[r].seen /\ jobs'[r].overtaken = jobs[r].overtaken
           /\ \A s \in Requests \ {r} : jobs'[s] = jobs[s]
  <1>1. jobs[r] \in Job /\ jobs \in [Requests -> Job]
    BY DEF KoralIInv, TypeOK
  <1>2. PICK j \in Job : /\ j = [jobs[r] EXCEPT !.pc = pc] /\ j.pc = pc
                         /\ j.message = jobs[r].message /\ j.seen = jobs[r].seen
                         /\ j.overtaken = jobs[r].overtaken
    <2>1. \A q \in Job : LET a == [q EXCEPT !.pc = pc] IN
             /\ a \in Job /\ a.pc = pc /\ a.message = q.message /\ a.seen = q.seen
             /\ a.overtaken = q.overtaken
      BY DEF Job
    <2> QED BY <1>1, <2>1
  <1>3. jobs' = [jobs EXCEPT ![r] = j]
    BY <1>2 DEF Goto
  <1> QED BY <1>1, <1>2, <1>3

LEMMA Ends ==
    ASSUME KoralIInv, NEW r \in Requests, End(r)
    PROVE  /\ jobs' \in [Requests -> Job] /\ jobs'[r].pc = "IDLE"
           /\ \A s \in Requests \ {r} : jobs'[s] = jobs[s]
  BY IdleType DEF KoralIInv, TypeOK, End

(* A request that ends may rely on nothing.                                 *)
LEMMA EndStep ==
    ASSUME KoralIInv, NEW r \in Requests, End(r),
           UNCHANGED <<status, owner, replied, handed>>,
           rows' \in [Messages -> Row], \A m \in Messages : RowAdvances(m),
           fresh' \subseteq fresh, current' \subseteq Requests, session' \in Session,
           \/ UNCHANGED lock /\ jobs[r].pc \notin Holding
           \/ lock' = None /\ (lock = None \/ lock = r)
    PROVE  KoralIInv'
  <1>1. /\ jobs' \in [Requests -> Job] /\ jobs'[r].pc = "IDLE"
        /\ \A s \in Requests \ {r} : jobs'[s] = jobs[s]
    BY Ends
  <1>2. JobHolds(r)' /\ jobs'[r].pc \notin Running /\ jobs'[r].pc \notin Holding
    BY <1>1 DEF JobHolds, Running, Holding
  <1>3. LockRight' /\ lock' \in Requests \union {None}
    BY <1>1, <1>2, KoralAssumption DEF KoralIInv, TypeOK, LockRight, Holding
  <1>4. fresh' \subseteq Requests \union Operators
    BY DEF KoralIInv, TypeOK
  <1> QED BY <1>1, <1>2, <1>3, <1>4, QuietStep
-----------------------------------------------------------------------------
(* The steps of a request that leave the talk alone.                        *)

LEMMA SessionType == KoralIInv => session \in Session /\ current \subseteq Requests
                                  /\ fresh \subseteq Requests \union Operators
                                  /\ lock \in Requests \union {None}
  BY DEF KoralIInv, TypeOK

LEMMA GoStep ==
    ASSUME KoralIInv, NEW r \in Requests, NEW pc \in JobState, Goto(r, pc),
           UNCHANGED <<status, owner, replied, handed>>,
           rows' \in [Messages -> Row], \A m \in Messages : RowAdvances(m),
           fresh' \subseteq fresh, UNCHANGED current, session' \in Session,
           JobHolds(r)', pc \in Running => jobs[r].pc \in Running,
           \/ UNCHANGED lock /\ (pc \in Holding <=> jobs[r].pc \in Holding)
           \/ lock = None /\ lock' = r /\ pc \in Holding
           \/ lock = r /\ lock' = None /\ pc \notin Holding
    PROVE  KoralIInv'
  <1>1. /\ jobs' \in [Requests -> Job]
        /\ jobs'[r].pc = pc /\ jobs'[r].message = jobs[r].message
        /\ \A s \in Requests \ {r} : jobs'[s] = jobs[s]
    BY GoesTo
  <1>2. LockRight' /\ lock' \in Requests \union {None}
    BY <1>1, KoralAssumption DEF KoralIInv, TypeOK, LockRight, Holding
  <1> QED BY <1>1, <1>2, SessionType, QuietStep

LEMMA SendStep ==
    ASSUME KoralIInv, NEW r \in Requests, NEW m \in Messages, Send(r, m) PROVE KoralIInv'
  <1> DEFINE j == [Idle EXCEPT !.pc = "RECEIVING", !.message = m,
                               !.assurance = session.assurance]
  <1>1. j \in Job /\ j.pc = "RECEIVING" /\ j.message = m
    BY DEF KoralIInv, TypeOK, Session, Idle, Job, JobState
  <1>2. jobs' = [jobs EXCEPT ![r] = j]
    BY DEF Send
  <1> HIDE DEF j
  <1>3. /\ jobs' \in [Requests -> Job] /\ jobs'[r] = j
        /\ \A s \in Requests \ {r} : jobs'[s] = jobs[s]
    BY <1>1, <1>2 DEF KoralIInv, TypeOK
  <1>4. JobHolds(r)' /\ jobs'[r].pc \notin Running
    BY <1>1, <1>3 DEF JobHolds, Running
  <1>5. LockRight'
    BY <1>1, <1>3 DEF Send, At, KoralIInv, TypeOK, LockRight, Holding
  <1>6. UNCHANGED <<status, owner, replied, handed, fresh, lock, session, rows>>
        /\ current' \subseteq Requests
    BY SessionType DEF Send, Talk
  <1> QED BY <1>3, <1>4, <1>5, <1>6, SessionType, SameRowsAdvance, QuietStep

(* Rotation, the end of the session, a claimed identity and what operators  *)
(* see or reprioritise move no request.                                     *)
LEMMA AsideStep ==
    ASSUME KoralIInv, UNCHANGED <<status, owner, replied, handed, lock, rows, jobs>>,
           fresh' \subseteq fresh \union Operators, current' \subseteq current,
           session' \in Session
    PROVE  KoralIInv'
  <1>1. LockRight'
    BY DEF KoralIInv, TypeOK, LockRight, Holding
  <1>2. \A s \in Requests : jobs'[s] = jobs[s] /\ (s \in fresh' => s \in fresh)
    BY KoralAssumption
  <1> QED BY <1>1, <1>2, SessionType, SameRowsAdvance, QuietStep DEF KoralIInv, TypeOK

LEMMA SessionStep ==
    ASSUME KoralIInv, Rotate \/ EndSession \/ ClaimIdentity PROVE KoralIInv'
  <1>1. \A x \in Session : /\ [x EXCEPT !.active = FALSE] \in Session
                           /\ [x EXCEPT !.assurance = "CLAIMED", !.ledger = "CLAIMED"] \in Session
    BY DEF Session, Assurance
  <1>2. session' \in Session /\ current' \subseteq current /\ fresh' \subseteq fresh
    BY <1>1, SessionType DEF Rotate, EndSession, ClaimIdentity
  <1> QED BY <1>2, AsideStep DEF Rotate, EndSession, ClaimIdentity, Talk

LEMMA LookStep ==
    ASSUME KoralIInv, NEW o \in Operators, Look(o) \/ ChangePriority(o) PROVE KoralIInv'
  BY AsideStep, SessionType DEF Look, ChangePriority, Talk

LEMMA BindingType ==
    ASSUME KoralIInv, NEW a \in Assurance
    PROVE  [session EXCEPT !.ledger = a] \in Session
  BY DEF KoralIInv, TypeOK, Session

LEMMA ReceiveAgainStep ==
    ASSUME KoralIInv, NEW r \in Requests, RefuseInbound(r) \/ ReceiveAgain(r) PROVE KoralIInv'
  <1> DEFINE m == jobs[r].message
             a == jobs[r].assurance
  <1>1. jobs[r].pc = "RECEIVING" /\ m \in Messages /\ a \in Assurance /\ jobs[r] \in Job
    BY DEF RefuseInbound, ReceiveAgain, At, KoralIInv, JobHolds, TypeOK, Job
  <1>2. CASE RefuseInbound(r)
    BY <1>1, <1>2, EndStep, SameRowsAdvance, SessionType DEF RefuseInbound, Stored, Holding
  <1>3. CASE ReceiveAgain(r)
    <2>1. session' \in Session /\ fresh' \subseteq fresh
      BY <1>1, <1>3, BindingType, SessionType DEF ReceiveAgain, Bound
    <2>2. rows' \in [Messages -> Row] /\ \A n \in Messages : RowAdvances(n)
      <3>1. CASE rows' = rows
        BY <3>1, SameRowsAdvance
      <3>2. CASE rows' = [rows EXCEPT ![m].bound = a]
        <4>1. \A q \in Row : LET b == [q EXCEPT !.bound = a] IN
                 b \in Row /\ b.status = q.status /\ b.attempts = q.attempts
          BY <1>1 DEF Row
        <4>2. rows[m] \in Row /\ rows \in [Messages -> Row]
          BY <1>1 DEF KoralIInv, TypeOK
        <4> QED BY <1>1, <3>2, <4>1, <4>2 DEF RowAdvances
      <3> QED BY <1>3, <3>1, <3>2 DEF ReceiveAgain
    <2>3. UNCHANGED <<status, owner, replied, handed, lock, current>>
      BY <1>3 DEF ReceiveAgain, Talk
    <2>4. CASE End(r)
      BY <1>1, <2>1, <2>2, <2>3, <2>4, EndStep, SessionType DEF Holding
    <2>5. CASE Goto(r, "ROUTING")
      <3>1. "ROUTING" \in JobState /\ "ROUTING" \notin Holding /\ "ROUTING" \notin Running
        BY DEF JobState, Holding, Running
      <3>2. JobHolds(r)'
        BY <1>1, <2>5, <3>1, GoesTo DEF JobHolds, Running
      <3> QED BY <1>1, <2>1, <2>2, <2>3, <2>5, <3>1, <3>2, GoStep DEF Holding
    <2> QED BY <1>3, <2>4, <2>5 DEF ReceiveAgain
  <1> QED BY <1>2, <1>3

(* From the routing to the claim: what changes is settled or not at all.    *)
LEMMA BeforeClaimStep ==
    ASSUME KoralIInv, NEW r \in Requests,
           Route(r) \/ Suppress(r) \/ ClaimRefused(r) \/ ClaimExpired(r) \/ Expire(r)
    PROVE  KoralIInv'
  <1> DEFINE m == jobs[r].message
  <1>1. CASE Route(r)
    <2>1. PICK pc \in {"CLAIMING", "SUPPRESSING"} : Goto(r, pc)
      BY <1>1 DEF Route
    <2>2. pc \in JobState /\ pc \notin Holding /\ pc \notin Running
      BY DEF JobState, Holding, Running
    <2>3. JobHolds(r)'
      BY <1>1, <2>1, <2>2, GoesTo DEF Route, At, KoralIInv, JobHolds, Running
    <2> QED BY <1>1, <2>1, <2>2, <2>3, GoStep, SameRowsAdvance, SessionType
            DEF Route, At, Stored, Holding
  <1>2. CASE Suppress(r) \/ ClaimRefused(r)
    <2>1. m \in Messages /\ jobs[r].pc \notin Holding
      BY <1>2 DEF Suppress, ClaimRefused, At, KoralIInv, JobHolds, Holding
    <2>2. rows' \in [Messages -> Row] /\ \A n \in Messages : RowAdvances(n)
      <3>1. "SUPPRESSED" \in Final
        BY DEF Final
      <3>2. rows' = rows \/ (rows[m].status = "PENDING" /\ rows' = Settle(m, "SUPPRESSED"))
        BY <1>2 DEF Suppress, ClaimRefused
      <3> QED BY <2>1, <3>1, <3>2, SameRowsAdvance, SettledRowsAdvance
    <2> QED BY <1>2, <2>1, <2>2, EndStep, SessionType DEF Suppress, ClaimRefused, Talk
  <1>3. CASE ClaimExpired(r)
    <2>1. "EXPIRING" \in JobState /\ "EXPIRING" \in Holding /\ "EXPIRING" \notin Running
      BY DEF JobState, Holding, Running
    <2>2. Goto(r, "EXPIRING") /\ rows[m].status = "PROCESSING" /\ m \in Messages
      BY <1>3 DEF ClaimExpired, At, KoralIInv, JobHolds
    <2>3. JobHolds(r)'
      BY <1>3, <2>1, <2>2, GoesTo DEF ClaimExpired, JobHolds, Running, Claimed
    <2> QED BY <1>3, <2>1, <2>2, <2>3, GoStep, SameRowsAdvance, SessionType
            DEF ClaimExpired, At, Talk, Unlocked, Holding
  <1>4. CASE Expire(r)
    <2>1. /\ m \in Messages /\ Claimed(m) /\ lock = r
      BY <1>4, OneHolds DEF Expire, At, KoralIInv, JobHolds, Holding
    <2>2. "UNKNOWN_RESULT" \in Final /\ rows[m].status # "ABSENT"
      BY <2>1 DEF Final, Claimed
    <2>3. rows' \in [Messages -> Row] /\ \A n \in Messages : RowAdvances(n)
      BY <1>4, <2>1, <2>2, SettledRowsAdvance DEF Expire
    <2> QED BY <1>4, <2>1, <2>3, EndStep, SessionType DEF Expire, Talk
  <1> QED BY <1>1, <1>2, <1>3, <1>4

(* What the reply will rest on is read with the version, in one step.       *)
LEMMA ReadingStep ==
    ASSUME KoralIInv, NEW r \in Requests, Read(r) PROVE KoralIInv'
  <1> DEFINE j == [jobs[r] EXCEPT !.pc = "INFERRING", !.seen = Received, !.overtaken = FALSE]
  <1>1. jobs[r] \in Job /\ jobs[r].pc = "READING" /\ jobs \in [Requests -> Job]
    BY DEF Read, At, KoralIInv, TypeOK
  <1>2. /\ j \in Job /\ j.pc = "INFERRING" /\ j.message = jobs[r].message
        /\ j.seen = Received /\ ~j.overtaken
    <2>1. \A q \in Job, set \in SUBSET Messages :
             LET a == [q EXCEPT !.pc = "INFERRING", !.seen = set, !.overtaken = FALSE] IN
             /\ a \in Job /\ a.pc = "INFERRING" /\ a.message = q.message
             /\ a.seen = set /\ ~a.overtaken
      BY DEF Job, JobState
    <2>2. Received \in SUBSET Messages
      BY DEF Received
    <2> QED BY <1>1, <2>1, <2>2
  <1>3. jobs' = [jobs EXCEPT ![r] = j]
    BY DEF Read
  <1> HIDE DEF j
  <1>4. /\ jobs' \in [Requests -> Job] /\ jobs'[r] = j
        /\ \A s \in Requests \ {r} : jobs'[s] = jobs[s]
    BY <1>1, <1>2, <1>3
  <1>5. /\ UNCHANGED <<status, owner, replied, handed, lock, session, current, rows>>
        /\ fresh' = fresh \union {r} /\ Received' = Received
    BY DEF Read, Talk, Received
  <1>6. JobHolds(r)'
    BY <1>1, <1>2, <1>4, <1>5 DEF KoralIInv, JobHolds, Running
  <1>7. LockRight'
    BY <1>1, <1>2, <1>4, <1>5 DEF KoralIInv, TypeOK, LockRight, Holding
  <1>8. jobs[r].pc \in Running
    BY <1>1 DEF Running
  <1> QED BY <1>2, <1>4, <1>5, <1>6, <1>7, <1>8, SessionType, SameRowsAdvance, QuietStep

(* The verdict, and the check made under the conversation's lock.           *)
LEMMA VerdictStep ==
    ASSUME KoralIInv, NEW r \in Requests, Infer(r) \/ Commit(r) PROVE KoralIInv'
  <1>1. /\ jobs[r].pc \in {"INFERRING", "COMMITTING", "HANDING"}
        /\ jobs[r].pc \in Running /\ jobs[r].pc \notin Holding
        /\ UNCHANGED <<status, owner, replied, handed, fresh, session, current, rows>>
    BY DEF Infer, Commit, At, Stored, Talk, Running, Holding
  <1>2. PICK pc \in {"COMMITTING", "HANDING", "DOUBTING", "COMPLETING", "REPLYING",
                     "ESCALATING"} :
           /\ Goto(r, pc)
           /\ pc \in Holding => UpToDate(r) /\ lock = None /\ lock' = r
           /\ pc \notin Holding => lock' = lock
    <2>1. CASE Infer(r)
      BY <2>1 DEF Infer, Stored, Holding
    <2>2. CASE Commit(r)
      BY <2>2 DEF Commit, Unlocked, Holding
    <2> QED BY <2>1, <2>2
  <1>3. pc \in JobState
    BY DEF JobState
  <1>4. Received' = Received /\ MayKoralAutoReply' = MayKoralAutoReply
    BY <1>1 DEF Received, MayKoralAutoReply
  <1>5. JobHolds(r)
    BY DEF KoralIInv
  <1>6. JobHolds(r)'
    <2>1. /\ jobs'[r].pc = pc /\ jobs'[r].message = jobs[r].message
          /\ jobs'[r].seen = jobs[r].seen /\ jobs'[r].overtaken = jobs[r].overtaken
      BY <1>2, <1>3, GoesTo
    <2>2. /\ jobs[r].message \in Messages /\ rows[jobs[r].message].attempts = 1
          /\ jobs[r].message \notin replied \union handed
          /\ r \in fresh => jobs[r].seen = Received /\ ~jobs[r].overtaken
      BY <1>1, <1>5 DEF JobHolds
    <2>3. pc \in {"REPLYING", "ESCALATING"} => MayKoralAutoReply /\ r \in fresh
      BY <1>2 DEF UpToDate, Holding
    <2> QED BY <1>1, <1>4, <2>1, <2>2, <2>3 DEF JobHolds
  <1> QED BY <1>1, <1>2, <1>3, <1>6, GoStep, SameRowsAdvance, SessionType

(* What follows the reply, and what answers a failure.                      *)
LEMMA AfterwardsStep ==
    ASSUME KoralIInv, NEW r \in Requests,
           Complete(r) \/ Finish(r) \/ Doubt(r) \/ MarkUnknown(r)
    PROVE  KoralIInv'
  <1> DEFINE m == jobs[r].message
  <1>1. m \in Messages /\ jobs[r].pc \notin Holding /\ jobs[r].pc # "IDLE"
    BY DEF Complete, Finish, Doubt, MarkUnknown, At, KoralIInv, JobHolds, Holding
  <1>2. ASSUME NEW pc \in {"FINISHING", "DOUBTING", "MARKING"}, Goto(r, pc), UNCHANGED Stored,
               pc \in {"FINISHING", "MARKING"} => Holds(r)
        PROVE  KoralIInv'
    <2>1. pc \in JobState /\ pc \notin Holding /\ pc \notin Running
      BY DEF JobState, Holding, Running
    <2>2. JobHolds(r)'
      BY <1>1, <1>2, <2>1, GoesTo DEF JobHolds, Running, Holds, Claimed, Stored
    <2> QED BY <1>1, <1>2, <2>1, <2>2, GoStep, SameRowsAdvance, SessionType DEF Stored
  <1>3. CASE Complete(r)
    BY <1>2, <1>3 DEF Complete
  <1>4. CASE Doubt(r) /\ Holds(r)
    BY <1>2, <1>4 DEF Doubt
  <1>5. CASE Doubt(r) /\ ~Holds(r)
    BY <1>1, <1>5, EndStep, SameRowsAdvance, SessionType DEF Doubt, Stored
  <1>6. CASE Finish(r) \/ MarkUnknown(r)
    <2>1. Claimed(m)
      BY <1>6 DEF Finish, MarkUnknown, At, KoralIInv, JobHolds
    <2>2. PICK outcome \in Final : rows' = Settle(m, outcome)
      BY <1>6 DEF Finish, MarkUnknown, Final
    <2>3. rows' \in [Messages -> Row] /\ \A n \in Messages : RowAdvances(n)
      BY <1>1, <2>1, <2>2, SettledRowsAdvance DEF Claimed
    <2> QED BY <1>1, <1>6, <2>3, EndStep, SessionType DEF Finish, MarkUnknown, Talk
  <1> QED BY <1>3, <1>4, <1>5, <1>6

(* A statement that fails gives the lock back with the transaction.         *)
LEMMA FailureStep ==
    ASSUME KoralIInv, NEW r \in Requests, Fail(r) \/ Crash(r) PROVE KoralIInv'
  <1>1. /\ UNCHANGED <<status, owner, replied, handed, fresh, session, current, rows>>
        /\ lock' = IF lock = r THEN None ELSE lock
        /\ jobs[r].pc # "IDLE"
    BY DEF Fail, Crash, Talk, At
  <1>2. jobs[r].pc \in Holding <=> lock = r
    BY DEF KoralIInv, TypeOK, Holding
  <1>3. CASE End(r)
    BY <1>1, <1>2, <1>3, EndStep, SameRowsAdvance, SessionType
  <1>4. CASE Goto(r, "DOUBTING")
    <2>1. "DOUBTING" \in JobState /\ "DOUBTING" \notin Holding /\ "DOUBTING" \notin Running
      BY DEF JobState, Holding, Running
    <2>2. JobHolds(r)'
      BY <1>1, <1>4, <2>1, GoesTo DEF KoralIInv, JobHolds, Running
    <2> QED BY <1>1, <1>2, <1>4, <2>1, <2>2, GoStep, SameRowsAdvance, SessionType
  <1> QED BY <1>3, <1>4 DEF Fail, Crash
-----------------------------------------------------------------------------
(* The steps that write the talk or start an orchestration.                 *)

(* The first copy of a message makes every reply in preparation outdated.   *)
LEMMA ReceiveStep ==
    ASSUME KoralIInv, NEW r \in Requests, Receive(r) PROVE KoralIInv'
  <1> DEFINE m == jobs[r].message
             a == jobs[r].assurance
             q == [rows[m] EXCEPT !.status = "PENDING",
                                  !.bound = IF BindsNew(m, a) THEN a ELSE None]
  <1>1. /\ jobs[r].pc = "RECEIVING" /\ jobs[r] \in Job /\ m \in Messages /\ a \in Assurance
        /\ rows[m] \in Row /\ rows \in [Messages -> Row] /\ rows[m].status = "ABSENT"
    BY DEF Receive, At, KoralIInv, TypeOK, JobHolds, Job
  <1>2. q \in Row /\ q.status = "PENDING" /\ q.attempts = rows[m].attempts
    <2>1. \A p \in Row, b \in Assurance \union {None} :
             LET x == [p EXCEPT !.status = "PENDING", !.bound = b] IN
             x \in Row /\ x.status = "PENDING" /\ x.attempts = p.attempts
      BY DEF Row, ProcessingStatus
    <2>2. PICK b \in Assurance \union {None} : b = IF BindsNew(m, a) THEN a ELSE None
      BY <1>1
    <2>3. q = [rows[m] EXCEPT !.status = "PENDING", !.bound = b]
      BY <2>2
    <2> HIDE DEF q
    <2> QED BY <1>1, <2>1, <2>3
  <1>3. rows' = [rows EXCEPT ![m] = q]
    BY DEF Receive
  <1> HIDE DEF q
  <1>4. /\ rows' \in [Messages -> Row]
        /\ rows'[m].status = "PENDING" /\ rows'[m].attempts = rows[m].attempts
        /\ \A n \in Messages \ {m} : rows'[n] = rows[n]
    BY <1>1, <1>2, <1>3
  <1>5. /\ jobs' \in [Requests -> Job]
        /\ jobs'[r].pc = "ROUTING" /\ jobs'[r].message = m
        /\ \A s \in Requests \ {r} : jobs'[s] = jobs[s]
    <2>1. "ROUTING" \in JobState
      BY DEF JobState
    <2> QED BY <2>1, GoesTo DEF Receive
  <1>6. /\ UNCHANGED <<owner, lock, current, replied, handed>> /\ fresh' = {}
        /\ status' = StatusAfterInbound(status) /\ session' \in Session
    BY <1>1, BindingType, SessionType DEF Receive
  <1>7. \A s \in Requests : jobs[s].pc \notin Holding
    BY NobodyHolds DEF Receive
  <1>8. TypeOK'
    BY <1>1, <1>4, <1>5, <1>6, <1>7
       DEF KoralIInv, TypeOK, Holding, StatusAfterInbound, ConversationStatus
  <1>9. OwnedWhileHuman'
    BY <1>6 DEF KoralIInv, OwnedWhileHuman, StatusAfterInbound
  <1>10. \A n \in Messages : RowHolds(n)'
    BY <1>1, <1>4, <1>6 DEF KoralIInv, RowHolds, Claimed
  <1>11. ASSUME NEW s \in Requests PROVE JobHolds(s)'
    <2>1. CASE s = r
      BY <1>1, <1>5, <2>1 DEF JobHolds, Running
    <2>2. CASE s # r
      <3>1. jobs'[s] = jobs[s] /\ jobs[s].pc \notin Holding /\ JobHolds(s)
        BY <1>5, <1>7, <2>2 DEF KoralIInv
      <3>2. \A n \in Messages : /\ rows'[n].attempts = rows[n].attempts
                                /\ Claimed(n) => Claimed(n)'
        BY <1>1, <1>4 DEF Claimed
      <3> QED BY <1>6, <3>1, <3>2 DEF JobHolds, Running, Holding
    <2> QED BY <2>1, <2>2
  <1>12. OneRun'
    BY <1>1, <1>5 DEF KoralIInv, OneRun, Running
  <1> QED BY <1>6, <1>8, <1>9, <1>10, <1>11, <1>12 DEF KoralIInv

(* A pending row has started nothing, so this is its first orchestration.   *)
LEMMA ClaimStep ==
    ASSUME KoralIInv, NEW r \in Requests, Claim(r) PROVE KoralIInv'
  <1> DEFINE m == jobs[r].message
             q == [rows[m] EXCEPT !.status = "PROCESSING", !.lease = r,
                                  !.attempts = rows[m].attempts + 1]
  <1>1. /\ jobs[r].pc = "CLAIMING" /\ m \in Messages
        /\ rows[m] \in Row /\ rows \in [Messages -> Row]
        /\ rows[m].status = "PENDING" /\ rows[m].attempts = 0
        /\ m \notin replied \union handed
    BY DEF Claim, At, KoralIInv, TypeOK, JobHolds, RowHolds, Claimed
  <1>2. q \in Row /\ q.status = "PROCESSING" /\ q.attempts = 1
    <2>1. \A p \in Row : LET x == [p EXCEPT !.status = "PROCESSING", !.lease = r,
                                            !.attempts = 1] IN
             x \in Row /\ x.status = "PROCESSING" /\ x.attempts = 1
      BY DEF Row, ProcessingStatus
    <2>2. rows[m].attempts + 1 = 1
      BY <1>1
    <2> QED BY <1>1, <2>1, <2>2
  <1>3. rows' = [rows EXCEPT ![m] = q]
    BY DEF Claim
  <1> HIDE DEF q
  <1>4. /\ rows' \in [Messages -> Row]
        /\ rows'[m].status = "PROCESSING" /\ rows'[m].attempts = 1
        /\ \A n \in Messages \ {m} : rows'[n] = rows[n]
    BY <1>1, <1>2, <1>3
  <1>5. /\ jobs' \in [Requests -> Job]
        /\ jobs'[r].pc = "READING" /\ jobs'[r].message = m
        /\ \A s \in Requests \ {r} : jobs'[s] = jobs[s]
    <2>1. "READING" \in JobState
      BY DEF JobState
    <2> QED BY <2>1, GoesTo DEF Claim
  <1>6. UNCHANGED <<status, owner, replied, handed, fresh, lock, session, current>>
    BY DEF Claim, Talk
  <1>7. Received' = Received
    BY <1>1, <1>4 DEF Received
  <1>8. TypeOK' /\ OwnedWhileHuman'
    BY <1>1, <1>4, <1>5, <1>6 DEF KoralIInv, TypeOK, OwnedWhileHuman, Holding
  <1>9. \A n \in Messages : RowHolds(n)'
    BY <1>4, <1>6 DEF KoralIInv, RowHolds, Claimed
  <1>10. \A s \in Requests : jobs[s].pc \in Running => jobs[s].message # m
    BY <1>1 DEF KoralIInv, JobHolds
  <1>11. ASSUME NEW s \in Requests PROVE JobHolds(s)'
    <2>1. CASE s = r
      BY <1>1, <1>4, <1>5, <1>6, <2>1 DEF JobHolds, Running
    <2>2. CASE s # r
      <3>1. jobs'[s] = jobs[s] /\ JobHolds(s)
        BY <1>5, <2>2 DEF KoralIInv
      <3>2. \A n \in Messages : Claimed(n) => Claimed(n)'
        BY <1>4 DEF Claimed
      <3>3. \A n \in Messages \ {m} : rows'[n].attempts = rows[n].attempts
        BY <1>4
      <3> QED BY <1>6, <1>7, <1>10, <3>1, <3>2, <3>3 DEF JobHolds, MayKoralAutoReply, Running
    <2> QED BY <2>1, <2>2
  <1>12. OneRun'
    BY <1>1, <1>5, <1>10 DEF KoralIInv, OneRun
  <1> QED BY <1>6, <1>8, <1>9, <1>11, <1>12 DEF KoralIInv

(* A human, or the handoff of another run, takes part: whoever prepares a   *)
(* reply no longer holds the version.                                       *)
LEMMA OvertakeType ==
    ASSUME KoralIInv
    PROVE  /\ Overtake \in [Requests -> Job]
           /\ \A s \in Requests : /\ Overtake[s].pc = jobs[s].pc
                                  /\ Overtake[s].message = jobs[s].message
  <1>1. ASSUME NEW s \in Requests
        PROVE  /\ Overtake[s] \in Job /\ Overtake[s].pc = jobs[s].pc
               /\ Overtake[s].message = jobs[s].message
    <2>1. jobs[s] \in Job
      BY DEF KoralIInv, TypeOK
    <2>2. \A q \in Job : LET x == [q EXCEPT !.overtaken = TRUE] IN
             x \in Job /\ x.pc = q.pc /\ x.message = q.message
      BY DEF Job
    <2>3. Overtake[s] = jobs[s] \/ Overtake[s] = [jobs[s] EXCEPT !.overtaken = TRUE]
      BY DEF Overtake
    <2> QED BY <2>1, <2>2, <2>3
  <1> QED BY <1>1 DEF Overtake

LEMMA CommandStep ==
    ASSUME KoralIInv, NEW o \in Operators, Command(o),
           status' \in ConversationStatus, owner' \in Operators \union {None}, OwnedWhileHuman'
    PROVE  KoralIInv'
  <1>1. /\ fresh' = {} /\ jobs' = Overtake
        /\ UNCHANGED <<lock, session, current, rows, replied, handed>>
    BY DEF Command
  <1>2. \A s \in Requests : jobs[s].pc \notin Holding
    BY NobodyHolds DEF Command
  <1>3. /\ jobs' \in [Requests -> Job]
        /\ \A s \in Requests : jobs'[s].pc = jobs[s].pc /\ jobs'[s].message = jobs[s].message
    BY <1>1, OvertakeType
  <1>4. TypeOK'
    BY <1>1, <1>3 DEF KoralIInv, TypeOK
  <1>5. ASSUME NEW s \in Requests PROVE JobHolds(s)'
    <2>1. JobHolds(s) /\ jobs[s].pc \notin Holding
      BY <1>2 DEF KoralIInv
    <2> QED BY <1>1, <1>3, <2>1 DEF JobHolds, Claimed, Holding, Running
  <1>6. OneRun'
    BY <1>3 DEF KoralIInv, OneRun
  <1>7. \A m \in Messages : RowHolds(m)'
    BY <1>1 DEF KoralIInv, RowHolds, Claimed
  <1> QED BY <1>1, <1>4, <1>5, <1>6, <1>7 DEF KoralIInv

LEMMA OperateStep ==
    ASSUME KoralIInv, NEW o \in Operators, Operate(o) PROVE KoralIInv'
  <1> USE KoralAssumption
  <1>1. CASE Look(o) \/ ChangePriority(o)
    BY <1>1, LookStep
  <1>2. ASSUME NEW assignee \in Operators, Assign(o, assignee) PROVE KoralIInv'
    BY <1>2, CommandStep DEF Assign, ConversationStatus, OwnedWhileHuman
  <1>3. CASE ReturnToKoral(o) \/ Escalate(o) \/ Release(o)
    <2>1. Command(o) /\ owner' = None /\ status' \in {"AI_ACTIVE", "HUMAN_REQUIRED"}
      BY <1>3 DEF ReturnToKoral, Escalate, Release
    <2> QED BY <2>1, CommandStep DEF ConversationStatus, OwnedWhileHuman
  <1>4. ASSUME NEW target \in {"AI_ACTIVE", "WAITING_INTERNAL", "RESOLVED", "CLOSED"},
               Transition(o, target)
        PROVE  KoralIInv'
    <2>1. /\ Command(o) /\ status' = target /\ MayMove(o, target)
          /\ owner' = IF target \in {"RESOLVED", "CLOSED"} THEN None ELSE owner
      BY <1>4 DEF Transition
    <2>2. owner' \in Operators \union {None} /\ target \in ConversationStatus
      BY <2>1 DEF KoralIInv, TypeOK, ConversationStatus
    <2>3. OwnedWhileHuman'
      BY <2>1 DEF MayMove, OwnedWhileHuman
    <2> QED BY <2>1, <2>2, <2>3, CommandStep
  <1> QED BY <1>1, <1>2, <1>3, <1>4 DEF Operate

(* The reply and the handoff, written by the one who holds the lock.        *)
LEMMA ReplyStep ==
    ASSUME KoralIInv, NEW r \in Requests, Reply(r) \/ HandOver(r) PROVE KoralIInv'
  <1> DEFINE m == jobs[r].message
  <1>1. /\ jobs[r].pc \in {"REPLYING", "ESCALATING"} /\ jobs[r].pc \in Running
        /\ jobs[r].pc \in Holding /\ JobHolds(r)
    BY DEF Reply, HandOver, At, KoralIInv, Running, Holding
  <1>2. /\ m \in Messages /\ rows[m].attempts = 1 /\ m \notin replied \union handed
        /\ owner = None
    BY <1>1 DEF JobHolds, MayKoralAutoReply
  <1>3. /\ lock = r /\ \A s \in Requests \ {r} : jobs[s].pc \notin Holding
    BY <1>1, OneHolds
  <1>4. /\ jobs' \in [Requests -> Job]
        /\ jobs'[r].pc = "COMPLETING" /\ jobs'[r].message = m
        /\ \A s \in Requests \ {r} : /\ jobs'[s].pc = jobs[s].pc
                                     /\ jobs'[s].message = jobs[s].message
    <2>1. "COMPLETING" \in JobState
      BY DEF JobState
    <2>2. CASE Reply(r)
      BY <2>1, <2>2, GoesTo DEF Reply
    <2>3. CASE HandOver(r)
      <3>1. PICK j \in Job : /\ j = [jobs[r] EXCEPT !.pc = "COMPLETING"]
                             /\ j.pc = "COMPLETING" /\ j.message = m
        <4>1. \A q \in Job : LET x == [q EXCEPT !.pc = "COMPLETING"] IN
                 x \in Job /\ x.pc = "COMPLETING" /\ x.message = q.message
          BY DEF Job, JobState
        <4>2. jobs[r] \in Job
          BY DEF KoralIInv, TypeOK
        <4> QED BY <4>1, <4>2
      <3>2. jobs' = [Overtake EXCEPT ![r] = j]
        BY <2>3, <3>1 DEF HandOver
      <3> QED BY <3>1, <3>2, OvertakeType
    <2> QED BY <2>2, <2>3
  <1>5. /\ UNCHANGED <<owner, session, current, rows>> /\ fresh' = {} /\ lock' = None
        /\ status' \in {"WAITING_USER", "HUMAN_REQUIRED"}
        /\ \/ replied' = replied \union {m} /\ handed' = handed
           \/ handed' = handed \union {m} /\ replied' = replied
    BY DEF Reply, HandOver
  <1>6. TypeOK'
    <2>1. \A s \in Requests : lock' # s /\ jobs'[s].pc \notin Holding
      BY <1>3, <1>4, <1>5, KoralAssumption DEF Holding
    <2> QED BY <1>2, <1>4, <1>5, <2>1 DEF KoralIInv, TypeOK, ConversationStatus, Holding
  <1>7. OwnedWhileHuman'
    BY <1>2, <1>5 DEF OwnedWhileHuman
  <1>8. \A n \in Messages : RowHolds(n)'
    BY <1>2, <1>5 DEF KoralIInv, RowHolds, Claimed
  <1>9. replied' \cap handed' = {}
    BY <1>2, <1>5 DEF KoralIInv
  <1>10. ASSUME NEW s \in Requests PROVE JobHolds(s)'
    <2>1. CASE s = r
      BY <1>2, <1>4, <2>1 DEF JobHolds, Running
    <2>2. CASE s # r
      <3>1. /\ jobs'[s].pc = jobs[s].pc /\ jobs'[s].message = jobs[s].message
            /\ jobs[s].pc \notin Holding /\ JobHolds(s)
        BY <1>3, <1>4, <2>2 DEF KoralIInv
      <3>2. jobs[s].pc \in Running => jobs[s].message # m
        BY <1>1, <2>2 DEF KoralIInv, OneRun
      <3> QED BY <1>5, <3>1, <3>2 DEF JobHolds, Claimed, Holding, Running
    <2> QED BY <2>1, <2>2
  <1>11. OneRun'
    BY <1>4 DEF KoralIInv, OneRun, Running
  <1> QED BY <1>6, <1>7, <1>8, <1>9, <1>10, <1>11 DEF KoralIInv

-----------------------------------------------------------------------------
(* The theorems.                                                            *)

LEMMA KoralStep == KoralIInv /\ [Next]_vars => KoralIInv'
  <1> SUFFICES ASSUME KoralIInv, [Next]_vars PROVE KoralIInv'
    OBVIOUS
  <1>1. ASSUME NEW r \in Requests, NEW m \in Messages, Send(r, m) PROVE KoralIInv'
    BY <1>1, SendStep
  <1>2. ASSUME NEW r \in Requests, Advance(r) PROVE KoralIInv'
    BY <1>2, ReceiveAgainStep, ReceiveStep, BeforeClaimStep, ClaimStep, ReadingStep,
       VerdictStep, ReplyStep, AfterwardsStep DEF Advance
  <1>3. ASSUME NEW r \in Requests, Fail(r) \/ Crash(r) PROVE KoralIInv'
    BY <1>3, FailureStep
  <1>4. ASSUME NEW o \in Operators, Operate(o) PROVE KoralIInv'
    BY <1>4, OperateStep
  <1>5. CASE Rotate \/ EndSession \/ ClaimIdentity
    BY <1>5, SessionStep
  <1>6. CASE UNCHANGED vars
    BY <1>6 DEF vars, KoralIInv, TypeOK, OwnedWhileHuman, JobHolds, OneRun, RowHolds, Claimed,
                Received, MayKoralAutoReply
  <1> QED BY <1>1, <1>2, <1>3, <1>4, <1>5, <1>6 DEF Next

THEOREM KoralInductive == Spec => []KoralIInv
  BY KoralInitial, KoralStep, PTL DEF Spec

(* koral-conversations.service.ts assign, transfer, release, resolve and    *)
(* receiveWebChatInbound: however they interleave with replies and          *)
(* handoffs, a conversation has an unreleased assignment exactly while a    *)
(* human works on it.                                                       *)
THEOREM OwnedWhileHumanCorrect == Spec => []OwnedWhileHuman
  <1>1. KoralIInv => OwnedWhileHuman
    BY DEF KoralIInv
  <1> QED BY <1>1, KoralInductive, PTL

(* web-chat-message-processing.service.ts claim, complete and markUnknown:  *)
(* however often a message is sent again, whatever fails or stops, it       *)
(* starts one orchestration and is never both answered and handed over; and *)
(* the conversation's lock belongs to the one request inside its            *)
(* transaction.                                                             *)
THEOREM MessagesRunOnceCorrect == Spec => []MessagesRunOnce
  <1>1. KoralIInv => MessagesRunOnce
    BY DEF KoralIInv, RowHolds, MessagesRunOnce, OrchestratedOnce
  <1> QED BY <1>1, KoralInductive, PTL

(* A row leaves ABSENT and PENDING by the hand of a request that still      *)
(* holds the generation of an active session.                               *)
LEMMA StaleStoresNothing ==
    ASSUME KoralIInv, [Next]_vars
    PROVE  \A m \in Messages :
              rows[m].status \in {"ABSENT", "PENDING"} /\ rows'[m].status # rows[m].status =>
                 session.active /\ \E r \in current : jobs[r].message = m
  <1> SUFFICES ASSUME NEW m \in Messages, ~Claimed(m), rows'[m].status # rows[m].status
               PROVE  session.active /\ \E r \in current : jobs[r].message = m
    BY DEF Claimed
  <1>1. rows' # rows /\ rows \in [Messages -> Row] /\ rows[m] \in Row
    BY DEF KoralIInv, TypeOK
  <1>2. PICK r \in Requests : Advance(r)
    BY <1>1 DEF Next, vars, Send, Fail, Crash, Rotate, EndSession, ClaimIdentity, Operate, Look,
                ChangePriority, Assign, ReturnToKoral, Escalate, Release, Transition, Command
  <1>3. jobs[r].pc # "IDLE" => jobs[r].message \in Messages
    BY DEF KoralIInv, JobHolds
  <1>4. CASE Receive(r) \/ Suppress(r) \/ ClaimRefused(r) \/ Claim(r)
    <2>1. jobs[r].message \in Messages
      BY <1>3, <1>4 DEF Receive, Suppress, ClaimRefused, Claim, At
    <2>2. Fenced(r) /\ \E q : rows' = [rows EXCEPT ![jobs[r].message] = q]
      BY <1>1, <1>4 DEF Receive, Suppress, ClaimRefused, Claim, Settle
    <2>3. jobs[r].message = m
      BY <1>1, <2>1, <2>2
    <2> QED BY <2>2, <2>3 DEF Fenced
  <1>5. CASE Expire(r) \/ Finish(r) \/ MarkUnknown(r)
    <2>1. Claimed(jobs[r].message) /\ jobs[r].message \in Messages
      BY <1>5 DEF Expire, Finish, MarkUnknown, At, KoralIInv, JobHolds
    <2>2. \E q : rows' = [rows EXCEPT ![jobs[r].message] = q]
      BY <1>5 DEF Expire, Finish, MarkUnknown, Settle
    <2>3. jobs[r].message = m
      BY <1>1, <2>1, <2>2
    <2> QED BY <2>1, <2>3
  <1>6. CASE ReceiveAgain(r)
    <2>1. jobs[r].message \in Messages
      BY <1>3, <1>6 DEF ReceiveAgain, At
    <2>2. PICK n \in Messages, a \in Assurance :
             rows' = [rows EXCEPT ![n] = [rows[n] EXCEPT !.bound = a]]
      <3>1. jobs[r].assurance \in Assurance
        BY DEF KoralIInv, TypeOK, Job
      <3> QED BY <1>1, <1>6, <2>1, <3>1 DEF ReceiveAgain
    <2>3. rows[n] \in Row
      BY <1>1
    <2>4. [rows[n] EXCEPT !.bound = a].status = rows[n].status
      BY <2>3 DEF Row
    <2> QED BY <1>1, <2>2, <2>4
  <1> QED BY <1>1, <1>2, <1>4, <1>5, <1>6
          DEF Advance, RefuseInbound, Route, ClaimExpired, Read, Infer, Commit, Reply, HandOver,
              Complete, Doubt, Stored

(* commitKoralOutbound and requestKoralHandoff, the session's fence in      *)
(* receiveWebChatInbound and claim: a human who takes part while a reply is *)
(* prepared wins, a reply rests on every message sent by then, and nothing  *)
(* is stored through a session that was rotated, revoked or expired.        *)
THEOREM NothingStaleIsStoredCorrect == Spec => NothingStaleIsStored
  <1> DEFINE Takeover == \A r \in Requests : jobs[r].overtaken =>
                            ~(At(r, "REPLYING") /\ replied' # replied) /\ ~(At(r, "ESCALATING") /\ handed' # handed)
             Sees == \A r \in Requests : At(r, "REPLYING") /\ replied' # replied =>
                        jobs[r].seen = Received
             Stale == \A m \in Messages :
                         rows[m].status \in {"ABSENT", "PENDING"} /\ rows'[m].status # rows[m].status =>
                            session.active /\ \E r \in current : jobs[r].message = m
  <1>1. KoralIInv => Takeover /\ Sees
    BY DEF KoralIInv, JobHolds, At
  <1>2. KoralIInv /\ [Next]_vars => Stale
    BY StaleStoresNothing
  <1>3. KoralIInv /\ [Next]_vars => [Takeover]_vars /\ [Sees]_vars /\ [Stale]_vars
    BY <1>1, <1>2
  <1>4. Spec => [][Takeover]_vars /\ [][Sees]_vars /\ [][Stale]_vars
    BY <1>3, KoralInductive, PTL DEF Spec
  <1> QED BY <1>4 DEF NothingStaleIsStored, TakeoverWins, ReplySeesAll, StaleSessionStoresNothing

-----------------------------------------------------------------------------
(* The message form.                                                        *)

LeadRow == [key : Nat, text : {1, 2}]

LeadAnswer == [kind : {"row", "error"}, row : SUBSET LeadRow]

LeadSend ==
    [at : {"idle", "received", "limited?", "checking", "inserting", "inserted", "answered"},
     key : Nat, text : {0, 1, 2}, answer : LeadAnswer \union {None}]

LeadForm ==
    [key : Nat, text : {1, 2}, waits : Requests \union {None},
     shown : LeadAnswer \union {None}, last : {0, 1, 2}, again : BOOLEAN]

LeadsTypeOK ==
    /\ contact \in LeadForm
    /\ sends \in [Requests -> LeadSend]
    /\ leads \subseteq LeadRow
    /\ contact.key >= 1

(* A text of the present form is the last that was sent, or was sent before *)
(* another.                                                                 *)
SentOfForm(key, t) ==
    /\ key >= 1 /\ key <= contact.key
    /\ key = contact.key => contact.last # 0 /\ (t # contact.last => contact.again)

SendHolds(s) ==
    /\ sends[s].at # "idle" => SentOfForm(sends[s].key, sends[s].text) /\ sends[s].text # 0
    /\ contact.waits = s => sends[s].at # "idle" /\ sends[s].key = contact.key
    /\ sends[s].at = "inserted" =>
          /\ Contact!Stored(sends[s].key) = {}
          /\ \A o \in Requests :
                sends[o].at = "inserted" /\ sends[o].key = sends[s].key => o = s
    /\ sends[s].at = "answered" =>
          /\ sends[s].answer \in LeadAnswer
          /\ sends[s].answer.kind = "row" /\ sends[s].answer.row # {} =>
                sends[s].answer.row = Contact!Stored(sends[s].key)

LeadsIInv ==
    /\ LeadsTypeOK
    /\ \A s \in Requests : SendHolds(s)
    /\ \A l \in leads : SentOfForm(l.key, l.text)
    /\ \A l, m \in leads : l.key = m.key => l = m
    /\ contact.shown # None => contact.key \in settled
    /\ contact.shown \notin {None, Contact!Dropped} =>
          contact.shown.row # {} /\ contact.shown.row = Contact!Stored(contact.key)
    /\ \A k \in Nat : 1 <= k /\ k < contact.key => k \in settled

LEMMA LeadTypes ==
    /\ Contact!Idle \in LeadSend /\ Contact!Idle.at = "idle"
    /\ Contact!Dropped \in LeadAnswer /\ Contact!Failure \in LeadAnswer
    /\ Contact!Dropped.row = {} /\ Contact!Failure.kind = "error"
  BY DEF Contact!Idle, LeadSend, Contact!Dropped, Contact!Failure, LeadAnswer

LEMMA LeadsInitial == Contact!LeadsInit => LeadsIInv
  <1> SUFFICES ASSUME Contact!LeadsInit PROVE LeadsIInv
    OBVIOUS
  <1>1. LeadsTypeOK
    BY LeadTypes DEF Contact!LeadsInit, LeadsTypeOK, Contact!Fresh, LeadForm
  <1>2. contact.key = 1 /\ contact.shown = None /\ contact.waits = None /\ leads = {}
    BY DEF Contact!LeadsInit, Contact!Fresh
  <1>3. \A s \in Requests : SendHolds(s)
    BY <1>2, LeadTypes, KoralAssumption DEF SendHolds, Contact!LeadsInit
  <1> QED BY <1>1, <1>2, <1>3 DEF LeadsIInv

(* The answer to a request, with what is stored unchanged.                  *)
LEMMA AnsweredHolds ==
    ASSUME LeadsIInv, NEW s \in Requests, NEW a \in LeadAnswer,
           sends[s].at # "idle", Contact!Answered(s, a),
           UNCHANGED <<contact, leads, settled>>,
           a.kind = "row" /\ a.row # {} => a.row = Contact!Stored(sends[s].key)
    PROVE  LeadsIInv'
  <1> DEFINE q == [sends[s] EXCEPT !.at = "answered", !.answer = a]
  <1>1. /\ q \in LeadSend /\ q.at = "answered" /\ q.answer = a
        /\ q.key = sends[s].key /\ q.text = sends[s].text
    BY DEF LeadsIInv, LeadsTypeOK, LeadSend
  <1>2. sends' = [sends EXCEPT ![s] = q] /\ sends \in [Requests -> LeadSend]
    BY DEF Contact!Answered, LeadsIInv, LeadsTypeOK
  <1> HIDE DEF q
  <1>3. sends'[s] = q /\ \A o \in Requests \ {s} : sends'[o] = sends[o]
    BY <1>2
  <1>4. LeadsTypeOK'
    BY <1>1, <1>2 DEF LeadsIInv, LeadsTypeOK
  <1>5. \A o \in Requests : SendHolds(o)'
    BY <1>1, <1>3 DEF LeadsIInv, SendHolds, SentOfForm, Contact!Stored
  <1> QED BY <1>4, <1>5 DEF LeadsIInv, SentOfForm, Contact!Stored

(* A request that goes on, with what is stored unchanged.                   *)
LEMMA GoesOnHolds ==
    ASSUME LeadsIInv, NEW s \in Requests,
           NEW at \in {"limited?", "checking", "inserting", "inserted"},
           sends[s].at # "idle", sends' = [sends EXCEPT ![s].at = at],
           UNCHANGED <<contact, leads, settled>>,
           at = "inserted" =>
              /\ Contact!Stored(sends[s].key) = {}
              /\ \A o \in Requests : sends[o].at = "inserted" => sends[o].key # sends[s].key
    PROVE  LeadsIInv'
  <1> DEFINE q == [sends[s] EXCEPT !.at = at]
  <1>1. /\ q \in LeadSend /\ q.at = at
        /\ q.key = sends[s].key /\ q.text = sends[s].text
    BY DEF LeadsIInv, LeadsTypeOK, LeadSend
  <1>2. sends' = [sends EXCEPT ![s] = q] /\ sends \in [Requests -> LeadSend]
    BY DEF LeadsIInv, LeadsTypeOK
  <1> HIDE DEF q
  <1>3. sends'[s] = q /\ \A o \in Requests \ {s} : sends'[o] = sends[o]
    BY <1>2
  <1>4. LeadsTypeOK'
    BY <1>1, <1>2 DEF LeadsIInv, LeadsTypeOK
  <1>5. \A o \in Requests : SendHolds(o)'
    BY <1>1, <1>3 DEF LeadsIInv, SendHolds, SentOfForm, Contact!Stored
  <1> QED BY <1>4, <1>5 DEF LeadsIInv, SentOfForm, Contact!Stored

LEMMA CommitHolds ==
    ASSUME LeadsIInv, NEW s \in Requests, Contact!Commit(s)
    PROVE  LeadsIInv'
  <1>1. sends[s].at = "inserted" /\ UNCHANGED <<contact, settled>>
    BY DEF Contact!Commit
  <1>2. CASE UNCHANGED leads /\ Contact!Answered(s, Contact!Failure)
    BY <1>1, <1>2, LeadTypes, AnsweredHolds
  <1>3. CASE /\ leads' = leads \union {[key |-> sends[s].key, text |-> sends[s].text]}
             /\ Contact!Answered(s, Contact!Row({[key |-> sends[s].key, text |-> sends[s].text]}))
    <2> DEFINE row == [key |-> sends[s].key, text |-> sends[s].text]
               a == Contact!Row({row})
               q == [sends[s] EXCEPT !.at = "answered", !.answer = a]
    <2>1. sends[s] \in LeadSend /\ sends[s].text # 0
      BY <1>1 DEF LeadsIInv, LeadsTypeOK, SendHolds
    <2>2. row \in LeadRow /\ row.key = sends[s].key /\ row.text = sends[s].text
      BY <2>1 DEF LeadSend, LeadRow
    <2> HIDE DEF row
    <2>3. a \in LeadAnswer /\ a.row = {row}
      BY <2>2 DEF Contact!Row, LeadAnswer
    <2> HIDE DEF a
    <2>4. /\ q \in LeadSend /\ q.at = "answered" /\ q.answer = a
          /\ q.key = sends[s].key /\ q.text = sends[s].text
      BY <2>1, <2>3 DEF LeadSend
    <2>5. sends' = [sends EXCEPT ![s] = q] /\ sends \in [Requests -> LeadSend]
      BY <1>3 DEF Contact!Answered, LeadsIInv, LeadsTypeOK, row, a
    <2>6. leads' = leads \union {row}
      BY <1>3 DEF row
    <2> HIDE DEF q
    <2>7. sends'[s] = q /\ \A o \in Requests \ {s} : sends'[o] = sends[o]
      BY <2>5
    <2>8. LeadsTypeOK'
      BY <1>1, <2>2, <2>4, <2>5, <2>6 DEF LeadsIInv, LeadsTypeOK
    <2>9. /\ Contact!Stored(sends[s].key) = {}
          /\ Contact!Stored(sends[s].key)' = {row}
          /\ \A k \in Nat : k # sends[s].key => Contact!Stored(k)' = Contact!Stored(k)
      BY <1>1, <2>2, <2>4, <2>6, <2>7 DEF LeadsIInv, SendHolds, Contact!Stored
    <2>10. SentOfForm(sends[s].key, sends[s].text)
      BY <1>1 DEF LeadsIInv, SendHolds
    <2>11. ASSUME NEW o \in Requests PROVE SendHolds(o)'
      <3>1. sends[o].key \in Nat
        BY <2>5 DEF LeadSend
      <3>2. CASE o = s
        BY <1>1, <2>3, <2>4, <2>7, <2>9, <2>10, <3>2 DEF LeadsIInv, SendHolds, SentOfForm
      <3>3. CASE o # s
        <4>1. SendHolds(o) /\ sends'[o] = sends[o]
          BY <2>7, <3>3 DEF LeadsIInv
        <4>2. sends[o].at = "inserted" => sends[o].key # sends[s].key
          BY <1>1, <3>3 DEF LeadsIInv, SendHolds
        <4>3. sends[o].at = "answered" /\ sends[o].answer.kind = "row" /\ sends[o].answer.row # {} =>
                 Contact!Stored(sends[o].key)' = Contact!Stored(sends[o].key)
          BY <2>9, <3>1, <4>1 DEF SendHolds
        <4> QED BY <1>1, <2>4, <2>7, <2>9, <3>1, <3>3, <4>1, <4>2, <4>3 DEF SendHolds, SentOfForm
      <3> QED BY <3>2, <3>3
    <2>12. \A l \in leads' : SentOfForm(l.key, l.text)'
      BY <1>1, <2>2, <2>6, <2>10 DEF LeadsIInv, SentOfForm
    <2>13. \A l, m \in leads' : l.key = m.key => l = m
      BY <2>2, <2>6, <2>9 DEF LeadsIInv, Contact!Stored
    <2>14. contact.key \in Nat
      BY DEF LeadsIInv, LeadsTypeOK, LeadForm
    <2>15. contact'.shown \notin {None, Contact!Dropped} =>
              contact'.shown.row # {} /\ contact'.shown.row = Contact!Stored(contact.key)'
      BY <1>1, <2>9, <2>14 DEF LeadsIInv
    <2> QED BY <1>1, <2>8, <2>11, <2>12, <2>13, <2>15 DEF LeadsIInv, Contact!Stored
  <1> QED BY <1>2, <1>3 DEF Contact!Commit

LEMMA ServerHolds ==
    ASSUME LeadsIInv, NEW s \in Requests,
           Contact!Lookup(s) \/ Contact!Limit(s) \/ Contact!Check(s) \/ Contact!Insert(s)
    PROVE  LeadsIInv'
  <1>1. sends[s].key \in Nat /\ UNCHANGED <<contact, leads, settled>> /\ sends[s].at # "idle"
    BY DEF LeadsIInv, LeadsTypeOK, LeadSend, Contact!Lookup, Contact!Limit, Contact!Check,
           Contact!Insert
  <1>2. CASE Contact!Answered(s, Contact!Failure) \/ Contact!Answered(s, Contact!Dropped)
    BY <1>1, <1>2, LeadTypes, AnsweredHolds
  <1>3. CASE Contact!Answered(s, Contact!Row(Contact!Stored(sends[s].key)))
    <2> DEFINE a == Contact!Row(Contact!Stored(sends[s].key))
    <2>1. a \in LeadAnswer /\ a.row = Contact!Stored(sends[s].key)
      BY DEF Contact!Row, LeadAnswer, Contact!Stored, LeadsIInv, LeadsTypeOK
    <2> QED BY <1>1, <1>3, <2>1, AnsweredHolds
  <1>4. CASE \E at \in {"limited?", "checking", "inserting"} : sends' = [sends EXCEPT ![s].at = at]
    BY <1>1, <1>4, GoesOnHolds
  <1>5. CASE Contact!Insert(s) /\ sends' = [sends EXCEPT ![s].at = "inserted"]
               /\ Contact!Stored(sends[s].key) = {}
    BY <1>1, <1>5, GoesOnHolds DEF Contact!Insert
  <1> QED BY <1>2, <1>3, <1>4, <1>5
          DEF Contact!Lookup, Contact!Limit, Contact!Check, Contact!Insert

(* A request that becomes idle, as its answer was heard or nobody waits.    *)
LEMMA IdleHolds ==
    ASSUME LeadsIInv, NEW s \in Requests, sends' = [sends EXCEPT ![s] = Contact!Idle],
           UNCHANGED leads, contact' \in LeadForm, contact'.waits # s,
           contact'.waits \in {contact.waits, None},
           contact'.key = contact.key, contact'.text = contact.text,
           contact'.last = contact.last, contact'.again = contact.again,
           contact'.shown # None => contact.key \in settled',
           settled \subseteq settled',
           contact'.shown \notin {None, Contact!Dropped} =>
              contact'.shown.row # {} /\ contact'.shown.row = Contact!Stored(contact.key)
    PROVE  LeadsIInv'
  <1>1. /\ sends'[s] = Contact!Idle /\ \A o \in Requests \ {s} : sends'[o] = sends[o]
        /\ sends' \in [Requests -> LeadSend]
    BY LeadTypes DEF LeadsIInv, LeadsTypeOK
  <1>2. LeadsTypeOK'
    BY <1>1 DEF LeadsIInv, LeadsTypeOK
  <1>3. \A o \in Requests : SendHolds(o)'
    BY <1>1, LeadTypes, KoralAssumption DEF LeadsIInv, SendHolds, SentOfForm, Contact!Stored
  <1>4. Contact!Stored(contact.key)' = Contact!Stored(contact.key)
    BY DEF Contact!Stored
  <1> QED BY <1>2, <1>3, <1>4 DEF LeadsIInv, SentOfForm

LEMMA HearHolds ==
    ASSUME LeadsIInv, NEW s \in Requests, Contact!Hear(s) \/ Contact!Forget(s)
    PROVE  LeadsIInv'
  <1>1. contact \in LeadForm /\ SendHolds(s) /\ None \notin Requests
    BY KoralAssumption DEF LeadsIInv, LeadsTypeOK
  <1>2. CASE Contact!Forget(s)
    BY <1>1, <1>2, IdleHolds DEF Contact!Forget, LeadsIInv
  <1>3. CASE Contact!Hear(s)
    <2> DEFINE a == IF sends[s].answer.kind = "row" THEN sends[s].answer ELSE None
               c == [contact EXCEPT !.waits = None, !.shown = a]
    <2>1. sends[s].answer \in LeadAnswer /\ sends[s].key = contact.key
      BY <1>1, <1>3 DEF Contact!Hear, SendHolds
    <2>2. a \notin {None, Contact!Dropped} => a.row # {} /\ a.row = Contact!Stored(contact.key)
      BY <1>1, <1>3, <2>1 DEF Contact!Hear, SendHolds, Contact!Dropped, LeadAnswer
    <2>3. /\ c \in LeadForm /\ c.waits = None /\ c.shown = a /\ c.key = contact.key
          /\ c.text = contact.text /\ c.last = contact.last /\ c.again = contact.again
      BY <1>1, <2>1 DEF LeadForm
    <2>4. contact' = c /\ sends' = [sends EXCEPT ![s] = Contact!Idle] /\ UNCHANGED leads
      BY <1>3 DEF Contact!Hear
    <2>5. settled \subseteq settled' /\ (a # None => contact.key \in settled')
      BY <1>3 DEF Contact!Hear
    <2> HIDE DEF a, c
    <2> QED BY <1>1, <2>2, <2>3, <2>4, <2>5, IdleHolds
  <1> QED BY <1>2, <1>3

LEMMA PressHolds ==
    ASSUME LeadsIInv, NEW s \in Requests, Contact!Press(s)
    PROVE  LeadsIInv'
  <1> DEFINE q == [at |-> "received", key |-> contact.key, text |-> contact.text, answer |-> None]
             c == [contact EXCEPT !.waits = s, !.last = contact.text, !.again = contact.last # 0]
  <1>1. contact \in LeadForm
    BY DEF LeadsIInv, LeadsTypeOK
  <1>2. /\ q \in LeadSend /\ q.at = "received" /\ q.key = contact.key /\ q.text = contact.text
        /\ q.text # 0
    BY <1>1 DEF LeadSend, LeadForm
  <1>3. /\ c \in LeadForm /\ c.waits = s /\ c.shown = None /\ c.key = contact.key
        /\ c.last = contact.text /\ c.again = (contact.last # 0)
    BY <1>1 DEF LeadForm, Contact!Press
  <1>4. /\ sends' = [sends EXCEPT ![s] = q] /\ contact' = c /\ sends[s] = Contact!Idle
        /\ UNCHANGED <<leads, settled>> /\ contact.waits = None
    BY DEF Contact!Press
  <1> HIDE DEF q, c
  <1>5. /\ sends'[s] = q /\ (\A o \in Requests \ {s} : sends'[o] = sends[o])
        /\ sends' \in [Requests -> LeadSend]
    BY <1>2, <1>4 DEF LeadsIInv, LeadsTypeOK
  <1>6. LeadsTypeOK'
    BY <1>3, <1>4, <1>5 DEF LeadsIInv, LeadsTypeOK
  <1>7. \A k \in Nat, t \in {1, 2} : SentOfForm(k, t) => SentOfForm(k, t)'
    BY <1>1, <1>3, <1>4 DEF SentOfForm, LeadForm
  <1>8. \A l \in leads : SentOfForm(l.key, l.text)'
    BY <1>7 DEF LeadsIInv, LeadsTypeOK, LeadRow
  <1>9. ASSUME NEW o \in Requests PROVE SendHolds(o)'
    <2>1. CASE o = s
      <3>1. SentOfForm(sends[s].key, sends[s].text)'
        BY <1>1, <1>2, <1>3, <1>4, <1>5 DEF SentOfForm, LeadForm, LeadsIInv, LeadsTypeOK
      <3> QED BY <1>2, <1>3, <1>4, <1>5, <2>1, <3>1 DEF SendHolds
    <2>2. CASE o # s
      <3>1. sends[o] \in LeadSend /\ SendHolds(o)
        BY DEF LeadsIInv, LeadsTypeOK
      <3>2. sends[o].at # "idle" => SentOfForm(sends[o].key, sends[o].text)'
        BY <1>5, <1>7, <2>2, <3>1 DEF SendHolds, LeadSend
      <3> QED BY <1>2, <1>3, <1>4, <1>5, <2>2, <3>1, <3>2 DEF SendHolds, Contact!Stored
    <2> QED BY <2>1, <2>2
  <1> QED BY <1>3, <1>4, <1>6, <1>8, <1>9 DEF LeadsIInv

(* The form is edited, left or opened anew; the requests are where they were. *)
LEMMA FormsOfLeadsHold ==
    ASSUME LeadsIInv,
           \/ Contact!Edit \/ Contact!Another \/ Contact!Leave \/ Contact!PublishPolicies
           \/ \E s \in Requests : Contact!Lose(s)
    PROVE  LeadsIInv'
  <1>1. contact \in LeadForm /\ UNCHANGED <<sends, leads>> /\ contact.key \in Nat
    BY DEF LeadsIInv, LeadsTypeOK, LeadForm, Contact!Edit, Contact!Another, Contact!Leave,
           Contact!PublishPolicies, Contact!Lose
  <1>2. CASE Contact!Another \/ Contact!Leave
    <2> DEFINE c == Contact!Fresh(contact.key + 1)
    <2>1. /\ c \in LeadForm /\ c.key = contact.key + 1 /\ c.waits = None /\ c.shown = None
      BY <1>1 DEF Contact!Fresh, LeadForm
    <2>2. contact' = c /\ settled \subseteq settled' /\ contact.key \in settled'
      BY <1>2 DEF Contact!Another, Contact!Leave, Contact!Renewed, LeadsIInv
    <2> HIDE DEF c
    <2>3. \A k \in Nat, t \in {1, 2} : SentOfForm(k, t) => SentOfForm(k, t)'
      BY <1>1, <2>1, <2>2 DEF SentOfForm
    <2>4. LeadsTypeOK'
      BY <1>1, <2>1, <2>2 DEF LeadsIInv, LeadsTypeOK
    <2>5. \A l \in leads : SentOfForm(l.key, l.text)'
      BY <2>3 DEF LeadsIInv, LeadsTypeOK, LeadRow
    <2>6. ASSUME NEW o \in Requests PROVE SendHolds(o)'
      <3>1. sends[o] \in LeadSend /\ SendHolds(o) /\ o # None
        BY KoralAssumption DEF LeadsIInv, LeadsTypeOK
      <3>2. sends[o].at # "idle" => SentOfForm(sends[o].key, sends[o].text)'
        BY <1>1, <2>3, <3>1 DEF SendHolds, LeadSend
      <3> QED BY <1>1, <2>1, <2>2, <3>1, <3>2 DEF SendHolds, Contact!Stored
    <2>7. \A k \in Nat : 1 <= k /\ k < contact'.key => k \in settled'
      BY <1>1, <2>1, <2>2 DEF LeadsIInv
    <2> QED BY <1>1, <2>1, <2>2, <2>4, <2>5, <2>6, <2>7 DEF LeadsIInv
  <1>3. CASE ~(Contact!Another \/ Contact!Leave)
    <2>1. /\ contact' \in LeadForm /\ contact'.key = contact.key
          /\ contact'.waits \in {contact.waits, None} /\ contact'.shown = contact.shown
          /\ contact'.last = contact.last /\ contact'.again = contact.again
          /\ settled' = settled
      BY <1>1, <1>3 DEF LeadForm, Contact!Edit, Contact!Lose, Contact!PublishPolicies
    <2>2. LeadsTypeOK'
      BY <1>1, <2>1 DEF LeadsIInv, LeadsTypeOK
    <2>3. \A o \in Requests : SendHolds(o)'
      BY <1>1, <2>1, KoralAssumption DEF LeadsIInv, SendHolds, SentOfForm, Contact!Stored
    <2> QED BY <1>1, <2>1, <2>2, <2>3 DEF LeadsIInv, SentOfForm, Contact!Stored
  <1> QED BY <1>2, <1>3

LEMMA LeadsInductive ==
    ASSUME LeadsIInv, [Contact!LeadsNext]_<<contact, sends, leads, consents, settled>>
    PROVE  LeadsIInv'
  <1>1. CASE UNCHANGED <<contact, sends, leads, consents, settled>>
    BY <1>1 DEF LeadsIInv, LeadsTypeOK, SendHolds, SentOfForm, Contact!Stored
  <1>2. CASE Contact!LeadsNext
    BY <1>2, CommitHolds, ServerHolds, HearHolds, PressHolds, FormsOfLeadsHold
       DEF Contact!LeadsNext
  <1> QED BY <1>1, <1>2

LEMMA LeadsKept == LeadsIInv => Contact!LeadsHold
  <1> SUFFICES ASSUME LeadsIInv PROVE Contact!LeadsHold
    OBVIOUS
  <1>1. contact.shown \notin {None, Contact!Dropped} =>
           \A l \in Contact!Stored(contact.key) : l.text # contact.last => contact.again
    BY DEF LeadsIInv, SentOfForm, Contact!Stored
  <1>2. \A l \in leads : l.key < contact.key => l.key \in settled
    BY DEF LeadsIInv, LeadsTypeOK, LeadRow, SentOfForm
  <1> QED BY <1>1, <1>2 DEF LeadsIInv, Contact!LeadsHold

-----------------------------------------------------------------------------
(* The forms of a case.                                                     *)

FieldValues == [Forms!Steps -> {"empty", "bad", "ok"}]

FormPage ==
    [open : BOOLEAN, done : BOOLEAN, initial : FieldValues, values : FieldValues,
     mode : Forms!Modes \union {None}, step : Forms!Steps]

FormCopy == [mode : Forms!Modes \union {None}, step : Forms!Steps, values : FieldValues]

FormCalls ==
    [own : {"idle", "sent", "registered", "refused"},
     stray : {"none", "sent", "orphan", "registered"},
     wiped : BOOLEAN, cases : Nat, answered : Nat]

FormsTypeOK ==
    /\ form \in {"pqr", "data"}
    /\ sheet \in FormPage
    /\ saved \in FormCopy \union {None}
    /\ calls \in FormCalls

FilledBelow(values, step) == \A g \in Forms!Steps : g < step => values[g] = "ok"

FilledIn(p) == p.mode = "create" /\ ~p.done => FilledBelow(p.values, p.step)

(* Each case is of a submission that is over, under way or lost sight of.   *)
CasesCounted(c) ==
    c.cases + (IF c.stray \in {"sent", "orphan"} THEN 1 ELSE 0)
        <= c.answered + (IF c.own = "registered" THEN 1 ELSE 0)

FormsIInv ==
    /\ FormsTypeOK
    /\ sheet.open => FilledIn(sheet)
    /\ saved # None /\ saved.mode = "create" => FilledBelow(saved.values, saved.step)
    /\ sheet.open /\ ~calls.wiped => saved = Forms!Kept(sheet)
    /\ CasesCounted(calls)

LEMMA LeastStep ==
    ASSUME NEW S \in SUBSET Forms!Steps, S # {}
    PROVE  Forms!Min(S) \in S /\ \A y \in S : Forms!Min(S) <= y
  <1>1. S \subseteq {0, 1, 2, 3}
    BY DEF Forms!Steps, Forms!LastStep
  <1>2. \E x \in S : \A y \in S : x <= y
    <2>1. CASE 0 \in S
      BY <1>1, <2>1
    <2>2. CASE 0 \notin S /\ 1 \in S
      BY <1>1, <2>2
    <2>3. CASE 0 \notin S /\ 1 \notin S /\ 2 \in S
      BY <1>1, <2>3
    <2>4. CASE 0 \notin S /\ 1 \notin S /\ 2 \notin S
      <3>1. PICK x \in S : TRUE
        OBVIOUS
      <3> QED BY <1>1, <2>4, <3>1
    <2> QED BY <2>1, <2>2, <2>3, <2>4
  <1> QED BY <1>2 DEF Forms!Min

LEMMA BlankIsOne == Forms!Blank \in FieldValues
  BY DEF Forms!Blank, FieldValues

(* What is recovered of a copy is not beyond it nor beyond a gap.           *)
LEMMA RecoveredHolds ==
    ASSUME NEW s \in FormCopy, s # None
    PROVE  /\ Forms!Recovered(s) \in FormCopy
           /\ Forms!Recovered(s).mode = s.mode /\ Forms!Recovered(s).values = s.values
           /\ Forms!Recovered(s).step <= s.step
           /\ FilledBelow(s.values, s.step) => Forms!Recovered(s) = s
  <1> DEFINE gaps == {g \in 0..(Forms!LastStep - 1) : s.values[g] = "empty"}
             n == Forms!Min({s.step} \union gaps)
  <1>1. s.step \in Forms!Steps /\ gaps \subseteq Forms!Steps
    BY DEF FormCopy, Forms!Steps, Forms!LastStep
  <1>2. n \in {s.step} \union gaps /\ \A y \in {s.step} \union gaps : n <= y
    BY <1>1, LeastStep
  <1>3. Forms!Recovered(s) = [s EXCEPT !.step = n]
    BY DEF Forms!Recovered
  <1>4. n \in Forms!Steps /\ n <= s.step
    BY <1>1, <1>2
  <1>5. FilledBelow(s.values, s.step) => n = s.step
    BY <1>1, <1>2 DEF FilledBelow, Forms!Steps, Forms!LastStep
  <1> HIDE DEF n
  <1> QED BY <1>3, <1>4, <1>5 DEF FormCopy

LEMMA KeptHolds ==
    ASSUME NEW p \in FormPage
    PROVE  /\ Forms!Kept(p) \in FormCopy \union {None}
           /\ FilledIn(p) /\ Forms!Kept(p) # None /\ Forms!Kept(p).mode = "create" =>
                 FilledBelow(Forms!Kept(p).values, Forms!Kept(p).step)
  <1> DEFINE c == [mode |-> p.mode, step |-> p.step, values |-> p.values]
  <1>1. c \in FormCopy
    BY DEF FormPage, FormCopy
  <1>2. \/ Forms!Kept(p) = None
        \/ Forms!Kept(p) = c /\ ~p.done
    BY DEF Forms!Kept
  <1> QED BY <1>1, <1>2 DEF FilledIn

LEMMA MountedHolds ==
    ASSUME FormsIInv, NEW query \in Forms!Modes \union {None}
    PROVE  /\ Forms!Mounted(query) \in FormPage /\ Forms!Mounted(query).open
           /\ FilledIn(Forms!Mounted(query))
  <1> DEFINE r == Forms!Recovered(saved)
             p == Forms!Mounted(query)
  <1>1. /\ r.mode \in Forms!Modes \union {None} /\ r.step \in Forms!Steps /\ r.values \in FieldValues
        /\ r.mode = "create" => FilledBelow(r.values, r.step)
    <2>1. CASE saved = None
      <3>1. r = [mode |-> None, step |-> 0, values |-> Forms!Blank]
        BY <2>1 DEF Forms!Recovered
      <3>2. 0 \in Forms!Steps /\ \A g \in Forms!Steps : ~(g < 0)
        BY DEF Forms!Steps, Forms!LastStep
      <3> HIDE DEF r
      <3> QED BY <3>1, <3>2, BlankIsOne DEF FilledBelow
    <2>2. CASE saved # None
      <3>1. saved \in FormCopy
        BY <2>2 DEF FormsIInv, FormsTypeOK
      <3>2. /\ r \in FormCopy /\ r.mode = saved.mode /\ r.values = saved.values
            /\ r.step <= saved.step
        BY <2>2, <3>1, RecoveredHolds
      <3> HIDE DEF r
      <3> QED BY <2>2, <3>1, <3>2 DEF FormsIInv, FormCopy, FilledBelow, Forms!Steps, Forms!LastStep
    <2> QED BY <2>1, <2>2
  <1>2. /\ p.open /\ ~p.done /\ p.initial = r.values /\ p.values = r.values
        /\ p.mode = (IF query = None THEN r.mode ELSE query)
        /\ p.step = (IF query = None THEN r.step ELSE 0)
        /\ p = [open |-> TRUE, done |-> FALSE, initial |-> p.initial, values |-> p.values,
                mode |-> p.mode, step |-> p.step]
    BY DEF Forms!Mounted
  <1> HIDE DEF r, p
  <1>3. 0 \in Forms!Steps /\ \A g \in Forms!Steps : ~(g < 0)
    BY DEF Forms!Steps, Forms!LastStep
  <1>4. p \in FormPage
    <2>1. /\ p.mode \in Forms!Modes \union {None} /\ p.step \in Forms!Steps
          /\ p.initial \in FieldValues /\ p.values \in FieldValues
      BY <1>1, <1>2, <1>3
    <2>2. \A a, b \in FieldValues, m \in Forms!Modes \union {None}, n \in Forms!Steps :
             [open |-> TRUE, done |-> FALSE, initial |-> a, values |-> b, mode |-> m, step |-> n]
                \in FormPage
      BY DEF FormPage
    <2> QED BY <1>2, <2>1, <2>2
  <1>5. FilledIn(p)
    BY <1>1, <1>2, <1>3 DEF FilledIn, FilledBelow
  <1> QED BY <1>2, <1>4, <1>5 DEF p

LEMMA RenderHolds ==
    ASSUME FormsIInv, NEW p \in FormPage, FilledIn(p), Forms!Render(p),
           calls' \in FormCalls, CasesCounted(calls')
    PROVE  FormsIInv'
  <1>1. sheet' = p /\ saved' = Forms!Kept(p) /\ form' = form
    BY DEF Forms!Render
  <1>2. FormsTypeOK'
    BY <1>1, KeptHolds DEF FormsIInv, FormsTypeOK
  <1> QED BY <1>1, <1>2, KeptHolds DEF FormsIInv, FilledIn

LEMMA ShownHolds ==
    ASSUME FormsIInv, NEW p \in FormPage, p.open, FilledIn(p), Forms!Shown(p)
    PROVE  FormsIInv'
  <1>1. /\ calls' = [calls EXCEPT !.wiped = FALSE] /\ calls \in FormCalls
    BY DEF Forms!Shown, FormsIInv, FormsTypeOK
  <1>2. /\ calls' \in FormCalls /\ calls'.own = calls.own /\ calls'.stray = calls.stray
        /\ calls'.cases = calls.cases /\ calls'.answered = calls.answered
    BY <1>1 DEF FormCalls
  <1>3. CasesCounted(calls')
    BY <1>2 DEF FormsIInv, CasesCounted
  <1> QED BY <1>2, <1>3, RenderHolds DEF Forms!Shown

(* What the visitor does with the page while no answer arrives.             *)
LEMMA PagesHold ==
    ASSUME FormsIInv,
           \/ \E q \in Forms!Modes \union {None} : Forms!Open(q)
           \/ \E m \in Forms!Modes : Forms!Query(m) \/ Forms!ChooseMode(m)
           \/ \E v \in {"empty", "bad", "ok"} : Forms!Edit(v)
           \/ Forms!Next \/ Forms!Back \/ Forms!OnTrack \/ Forms!Restart
    PROVE  FormsIInv'
  <1>1. /\ sheet \in FormPage /\ (sheet.open => FilledIn(sheet))
        /\ 0 \in Forms!Steps /\ \A g \in Forms!Steps : ~(g < 0)
    BY DEF FormsIInv, FormsTypeOK, Forms!Steps, Forms!LastStep
  <1>2. CASE \E q \in Forms!Modes \union {None} : Forms!Open(q)
    BY <1>2, MountedHolds, ShownHolds DEF Forms!Open
  <1>3. ASSUME NEW m \in Forms!Modes, Forms!Query(m) PROVE FormsIInv'
    <2> DEFINE p == [sheet EXCEPT !.mode = m, !.step = 0]
    <2>1. p \in FormPage /\ p.open = sheet.open /\ p.step = 0
      BY <1>1 DEF FormPage
    <2>2. sheet.open /\ Forms!Shown(p)
      BY <1>3 DEF Forms!Query
    <2> HIDE DEF p
    <2>3. FilledIn(p)
      BY <1>1, <2>1 DEF FilledIn, FilledBelow
    <2> QED BY <2>1, <2>2, <2>3, ShownHolds
  <1>4. ASSUME NEW m \in Forms!Modes, Forms!ChooseMode(m) PROVE FormsIInv'
    <2> DEFINE p == [sheet EXCEPT !.mode = m, !.step = 0, !.done = FALSE]
    <2>1. p \in FormPage /\ p.open = sheet.open /\ p.step = 0
      BY <1>1 DEF FormPage
    <2>2. sheet.open /\ Forms!Shown(p)
      BY <1>4 DEF Forms!ChooseMode, Forms!Chosen
    <2> HIDE DEF p
    <2>3. FilledIn(p)
      BY <1>1, <2>1 DEF FilledIn, FilledBelow
    <2> QED BY <2>1, <2>2, <2>3, ShownHolds
  <1>5. ASSUME NEW v \in {"empty", "bad", "ok"}, Forms!Edit(v) PROVE FormsIInv'
    <2> DEFINE p == [sheet EXCEPT !.values = [sheet.values EXCEPT ![sheet.step] = v]]
    <2>1. sheet.values \in FieldValues /\ sheet.step \in Forms!Steps
      BY <1>1 DEF FormPage
    <2>2. /\ [sheet.values EXCEPT ![sheet.step] = v] \in FieldValues
          /\ \A g \in Forms!Steps : g < sheet.step =>
                [sheet.values EXCEPT ![sheet.step] = v][g] = sheet.values[g]
      BY <2>1 DEF FieldValues, Forms!Steps, Forms!LastStep
    <2>3. /\ p \in FormPage /\ p.open = sheet.open /\ p.step = sheet.step /\ p.mode = sheet.mode
          /\ p.done = sheet.done /\ p.values = [sheet.values EXCEPT ![sheet.step] = v]
      BY <1>1, <2>2 DEF FormPage
    <2>4. sheet.open /\ Forms!Shown(p)
      BY <1>5 DEF Forms!Edit, Forms!Filling
    <2> HIDE DEF p
    <2>5. FilledIn(p)
      BY <1>1, <2>2, <2>3, <2>4 DEF FilledIn, FilledBelow
    <2> QED BY <2>3, <2>4, <2>5, ShownHolds
  <1>6. CASE Forms!Next
    <2> DEFINE p == [sheet EXCEPT !.step = sheet.step + 1]
    <2>1. sheet.step \in Forms!Steps /\ sheet.step < 3 /\ sheet.values[sheet.step] = "ok"
      BY <1>1, <1>6 DEF FormPage, Forms!Next, Forms!LastStep
    <2>2. /\ p \in FormPage /\ p.open = sheet.open /\ p.step = sheet.step + 1
          /\ p.mode = sheet.mode /\ p.done = sheet.done /\ p.values = sheet.values
      BY <1>1, <2>1 DEF FormPage, Forms!Steps, Forms!LastStep
    <2>3. sheet.open /\ Forms!Shown(p)
      BY <1>6 DEF Forms!Next, Forms!Filling
    <2> HIDE DEF p
    <2>4. FilledIn(p)
      BY <1>1, <2>1, <2>2, <2>3 DEF FilledIn, FilledBelow, Forms!Steps, Forms!LastStep
    <2> QED BY <2>2, <2>3, <2>4, ShownHolds
  <1>7. CASE Forms!Back
    <2> DEFINE p == [sheet EXCEPT !.step = sheet.step - 1]
    <2>1. sheet.step \in Forms!Steps /\ sheet.step > 0
      BY <1>1, <1>7 DEF FormPage, Forms!Back
    <2>2. /\ p \in FormPage /\ p.open = sheet.open /\ p.step = sheet.step - 1
          /\ p.mode = sheet.mode /\ p.done = sheet.done /\ p.values = sheet.values
      BY <1>1, <2>1 DEF FormPage, Forms!Steps, Forms!LastStep
    <2>3. sheet.open /\ Forms!Shown(p)
      BY <1>7 DEF Forms!Back, Forms!Filling
    <2> HIDE DEF p
    <2>4. FilledIn(p)
      BY <1>1, <2>1, <2>2, <2>3 DEF FilledIn, FilledBelow, Forms!Steps, Forms!LastStep
    <2> QED BY <2>2, <2>3, <2>4, ShownHolds
  <1>8. CASE Forms!OnTrack
    <2> DEFINE p == [sheet EXCEPT !.mode = "track", !.done = FALSE]
    <2>1. p \in FormPage /\ p.open = sheet.open /\ p.mode = "track"
      BY <1>1 DEF FormPage, Forms!Modes
    <2>2. sheet.open /\ Forms!Shown(p)
      BY <1>8 DEF Forms!OnTrack
    <2> HIDE DEF p
    <2>3. FilledIn(p)
      BY <2>1 DEF FilledIn
    <2> QED BY <2>1, <2>2, <2>3, ShownHolds
  <1>9. CASE Forms!Restart
    <2> DEFINE p == [sheet EXCEPT !.mode = None, !.step = 0, !.done = FALSE,
                                  !.values = sheet.initial]
    <2>1. p \in FormPage /\ p.open = sheet.open /\ p.step = 0
      BY <1>1 DEF FormPage
    <2>2. sheet.open /\ Forms!Shown(p)
      BY <1>9 DEF Forms!Restart
    <2> HIDE DEF p
    <2>3. FilledIn(p)
      BY <1>1, <2>1 DEF FilledIn, FilledBelow
    <2> QED BY <2>1, <2>2, <2>3, ShownHolds
  <1> QED BY <1>2, <1>3, <1>4, <1>5, <1>6, <1>7, <1>8, <1>9

(* What becomes of the submissions, with the page as it is.                 *)
LEMMA CallsHold ==
    ASSUME FormsIInv,
           Forms!Submit \/ Forms!Serve \/ Forms!ServeStray \/ Forms!HearError
    PROVE  FormsIInv'
  <1>1. calls \in FormCalls /\ CasesCounted(calls) /\ UNCHANGED <<form, sheet, saved>>
    BY DEF FormsIInv, FormsTypeOK, Forms!Submit, Forms!Serve, Forms!ServeStray, Forms!HearError
  <1>2. calls' \in FormCalls /\ calls'.wiped = calls.wiped /\ CasesCounted(calls')
    <2>1. CASE Forms!Submit
      BY <1>1, <2>1 DEF Forms!Submit, Forms!Busy, FormCalls, CasesCounted
    <2>2. CASE Forms!Serve
      <3>1. CASE calls' = [calls EXCEPT !.own = "registered", !.cases = calls.cases + 1]
        <4>1. /\ calls' \in FormCalls /\ calls'.wiped = calls.wiped
              /\ calls'.own = "registered" /\ calls'.stray = calls.stray
              /\ calls'.cases = calls.cases + 1 /\ calls'.answered = calls.answered
          <5>1. PICK n \in Nat : n = calls.cases + 1
            BY <1>1 DEF FormCalls
          <5> QED BY <1>1, <3>1, <5>1 DEF FormCalls
        <4> QED BY <1>1, <2>2, <4>1 DEF Forms!Serve, FormCalls, CasesCounted
      <3>2. CASE calls' = [calls EXCEPT !.own = "refused"]
        BY <1>1, <2>2, <3>2 DEF Forms!Serve, FormCalls, CasesCounted
      <3> QED BY <2>2, <3>1, <3>2 DEF Forms!Serve
    <2>3. CASE Forms!ServeStray
      <3>1. CASE calls' = [calls EXCEPT !.stray = "none"]
        BY <1>1, <2>3, <3>1 DEF Forms!ServeStray, FormCalls, CasesCounted
      <3>2. ASSUME NEW st \in {"none", "registered"},
                   calls' = [calls EXCEPT !.stray = st, !.cases = calls.cases + 1]
            PROVE  calls' \in FormCalls /\ calls'.wiped = calls.wiped /\ CasesCounted(calls')
        <4>1. /\ calls' \in FormCalls /\ calls'.wiped = calls.wiped
              /\ calls'.own = calls.own /\ calls'.stray = st
              /\ calls'.cases = calls.cases + 1 /\ calls'.answered = calls.answered
          <5>1. PICK n \in Nat : n = calls.cases + 1
            BY <1>1 DEF FormCalls
          <5> QED BY <1>1, <3>2, <5>1 DEF FormCalls
        <4>2. calls.stray \in {"sent", "orphan"} /\ st \notin {"sent", "orphan"}
          BY <2>3 DEF Forms!ServeStray
        <4> QED BY <1>1, <4>1, <4>2 DEF FormCalls, CasesCounted
      <3>3. CASE calls' = [calls EXCEPT !.stray = IF calls.stray = "sent" THEN "registered" ELSE "none",
                                        !.cases = calls.cases + 1]
        <4>1. CASE calls.stray = "sent"
          BY <3>2, <3>3, <4>1
        <4>2. CASE calls.stray # "sent"
          BY <3>2, <3>3, <4>2
        <4> QED BY <4>1, <4>2
      <3> QED BY <2>3, <3>1, <3>3 DEF Forms!ServeStray
    <2>4. CASE Forms!HearError
      <3>1. calls' = [calls EXCEPT !.own = "idle", !.answered = calls.answered + 1,
                           !.stray = IF calls.own = "sent" /\ calls.stray = "none" THEN "orphan"
                                     ELSE calls.stray]
        BY <2>4 DEF Forms!HearError
      <3>2. CASE calls.own = "sent"
        <4>1. calls' = [calls EXCEPT !.own = "idle", !.answered = calls.answered + 1,
                                     !.stray = "orphan"]
          BY <2>4, <3>1, <3>2 DEF Forms!HearError
        <4>2. /\ calls' \in FormCalls /\ calls'.wiped = calls.wiped
              /\ calls'.own = "idle" /\ calls'.stray = "orphan"
              /\ calls'.cases = calls.cases /\ calls'.answered = calls.answered + 1
          <5>1. PICK n \in Nat : n = calls.answered + 1
            BY <1>1 DEF FormCalls
          <5> QED BY <1>1, <4>1, <5>1 DEF FormCalls
        <4>3. calls.own = "sent" => calls.stray = "none"
          BY <2>4 DEF Forms!HearError
        <4> QED BY <1>1, <3>2, <4>2, <4>3 DEF FormCalls, CasesCounted
      <3>3. CASE calls.own # "sent"
        <4>1. calls' = [calls EXCEPT !.own = "idle", !.answered = calls.answered + 1,
                                     !.stray = calls.stray]
          BY <3>1, <3>3
        <4>2. /\ calls' \in FormCalls /\ calls'.wiped = calls.wiped
              /\ calls'.own = "idle" /\ calls'.stray = calls.stray
              /\ calls'.cases = calls.cases /\ calls'.answered = calls.answered + 1
          <5>1. PICK n \in Nat : n = calls.answered + 1
            BY <1>1 DEF FormCalls
          <5> QED BY <1>1, <4>1, <5>1 DEF FormCalls
        <4>3. calls.own = "sent" => calls.stray = "none"
          BY <2>4 DEF Forms!HearError
        <4> QED BY <1>1, <3>3, <4>2, <4>3 DEF FormCalls, CasesCounted
      <3> QED BY <3>2, <3>3
    <2> QED BY <2>1, <2>2, <2>3, <2>4
  <1>3. FormsTypeOK'
    BY <1>1, <1>2 DEF FormsIInv, FormsTypeOK
  <1>4. Forms!Kept(sheet)' = Forms!Kept(sheet)
    BY <1>1 DEF Forms!Kept
  <1> QED BY <1>1, <1>2, <1>3, <1>4 DEF FormsIInv, FilledIn

LEMMA HeardHolds ==
    ASSUME FormsIInv, Forms!Hear \/ Forms!HearStray PROVE FormsIInv'
  <1>1. calls \in FormCalls /\ sheet \in FormPage /\ CasesCounted(calls)
    BY DEF FormsIInv, FormsTypeOK
  <1>2. CASE Forms!HearStray
    <2>1. /\ UNCHANGED <<form, sheet>> /\ saved' = None
          /\ calls' \in FormCalls /\ calls'.wiped = sheet.open /\ CasesCounted(calls')
      BY <1>1, <1>2 DEF Forms!HearStray, FormCalls, FormPage, CasesCounted
    <2>2. FormsTypeOK'
      BY <2>1 DEF FormsIInv, FormsTypeOK
    <2> QED BY <2>1, <2>2 DEF FormsIInv, FilledIn
  <1>3. CASE Forms!Hear
    <2> DEFINE p == [sheet EXCEPT !.done = TRUE, !.values = sheet.initial]
    <2>1. p \in FormPage /\ p.open = sheet.open /\ p.done
      BY <1>1 DEF FormPage
    <2>2. calls' = [calls EXCEPT !.own = "idle", !.wiped = FALSE, !.answered = calls.answered + 1]
      BY <1>3 DEF Forms!Hear
    <2>3. calls' \in FormCalls /\ CasesCounted(calls')
      <3>1. /\ calls' \in FormCalls /\ calls'.own = "idle" /\ calls'.stray = calls.stray
            /\ calls'.cases = calls.cases /\ calls'.answered = calls.answered + 1
        <4>1. PICK n \in Nat : n = calls.answered + 1
          BY <1>1 DEF FormCalls
        <4> QED BY <1>1, <2>2, <4>1 DEF FormCalls
      <3> QED BY <1>1, <1>3, <3>1 DEF Forms!Hear, FormCalls, CasesCounted
    <2>4. Forms!Render(p)
      BY <1>3 DEF Forms!Hear
    <2> HIDE DEF p
    <2>5. FilledIn(p)
      BY <2>1 DEF FilledIn
    <2> QED BY <2>1, <2>3, <2>4, <2>5, RenderHolds
  <1> QED BY <1>2, <1>3

(* The page is left or reloaded: its submission may be answered elsewhere.  *)
LEMMA LeftHolds ==
    ASSUME FormsIInv, Forms!Leave \/ \E q \in Forms!Modes \union {None} : Forms!Reload(q)
    PROVE  FormsIInv'
  <1>1. calls \in FormCalls /\ sheet \in FormPage /\ CasesCounted(calls)
    BY DEF FormsIInv, FormsTypeOK
  <1> DEFINE answered == IF Forms!Busy THEN calls.answered + 1 ELSE calls.answered
  <1>2. /\ answered \in Nat /\ answered >= calls.answered
        /\ calls.own # "idle" => answered = calls.answered + 1
    BY <1>1 DEF FormCalls, Forms!Busy
  <1> HIDE DEF answered
  <1>3. ASSUME NEW stray \in {"none", "sent", "orphan", "registered"},
               calls' = [calls EXCEPT !.own = "idle", !.wiped = FALSE, !.answered = answered,
                                      !.stray = stray],
               stray \in {"sent", "orphan"} /\ calls.stray \notin {"sent", "orphan"} =>
                  calls.own = "sent",
               calls.own = "sent" => calls.stray \notin {"sent", "orphan"}
        PROVE  calls' \in FormCalls /\ CasesCounted(calls')
    <2>1. /\ calls' \in FormCalls /\ calls'.own = "idle" /\ calls'.stray = stray
          /\ calls'.answered = answered /\ calls'.cases = calls.cases
      BY <1>1, <1>2, <1>3 DEF FormCalls
    <2> QED BY <1>1, <1>2, <1>3, <2>1 DEF FormCalls, CasesCounted
  <1>4. CASE Forms!Leave
    <2> DEFINE stray == IF calls.own \in {"sent", "registered"} THEN calls.own ELSE calls.stray
    <2>1. calls' = [calls EXCEPT !.own = "idle", !.wiped = FALSE, !.answered = answered,
                                 !.stray = stray]
      BY <1>4 DEF Forms!Leave, answered
    <2>2. /\ stray \in {"none", "sent", "orphan", "registered"}
          /\ stray \in {"sent", "orphan"} /\ calls.stray \notin {"sent", "orphan"} =>
                  calls.own = "sent"
          /\ calls.own = "sent" => calls.stray \notin {"sent", "orphan"}
      BY <1>1, <1>4 DEF Forms!Leave, Forms!Busy, FormCalls
    <2> HIDE DEF stray
    <2>3. calls' \in FormCalls /\ CasesCounted(calls')
      BY <1>3, <2>1, <2>2
    <2>4. Forms!Closed \in FormPage /\ ~Forms!Closed.open
      BY BlankIsOne DEF Forms!Closed, FormPage, Forms!Steps, Forms!LastStep
    <2>5. sheet' = Forms!Closed /\ UNCHANGED <<form, saved>>
      BY <1>4 DEF Forms!Leave
    <2>6. FormsTypeOK'
      BY <2>3, <2>4, <2>5 DEF FormsIInv, FormsTypeOK
    <2> QED BY <2>3, <2>4, <2>5, <2>6 DEF FormsIInv
  <1>5. ASSUME NEW q \in Forms!Modes \union {None}, Forms!Reload(q) PROVE FormsIInv'
    <2> DEFINE stray == IF "sent" \in {calls.own, calls.stray} \/ calls.stray = "orphan"
                        THEN "orphan" ELSE "none"
    <2>1. calls' = [calls EXCEPT !.own = "idle", !.wiped = FALSE, !.answered = answered,
                                 !.stray = stray]
      BY <1>5 DEF Forms!Reload, answered
    <2>2. /\ stray \in {"none", "sent", "orphan", "registered"}
          /\ stray \in {"sent", "orphan"} /\ calls.stray \notin {"sent", "orphan"} =>
                  calls.own = "sent"
          /\ calls.own = "sent" => calls.stray \notin {"sent", "orphan"}
      BY <1>1, <1>5 DEF Forms!Reload, FormCalls
    <2> HIDE DEF stray
    <2>3. calls' \in FormCalls /\ CasesCounted(calls')
      BY <1>3, <2>1, <2>2
    <2>4. Forms!Render(Forms!Mounted(q))
      BY <1>5 DEF Forms!Reload
    <2> QED BY <2>3, <2>4, MountedHolds, RenderHolds
  <1> QED BY <1>4, <1>5

LEMMA FormsInitial == Forms!FormInit => FormsIInv
  <1> SUFFICES ASSUME Forms!FormInit PROVE FormsIInv
    OBVIOUS
  <1>1. Forms!Closed \in FormPage /\ ~Forms!Closed.open
    BY BlankIsOne DEF Forms!Closed, FormPage, Forms!Steps, Forms!LastStep
  <1>2. calls \in FormCalls /\ CasesCounted(calls)
    BY DEF Forms!FormInit, FormCalls, CasesCounted
  <1>3. sheet = Forms!Closed /\ saved = None /\ form \in {"pqr", "data"}
    BY DEF Forms!FormInit
  <1> QED BY <1>1, <1>2, <1>3 DEF FormsIInv, FormsTypeOK

LEMMA FormsInductive ==
    ASSUME FormsIInv, [Forms!FormNext]_<<form, sheet, saved, calls>>
    PROVE  FormsIInv'
  <1>1. CASE UNCHANGED <<form, sheet, saved, calls>>
    BY <1>1 DEF FormsIInv, FormsTypeOK, FilledIn, Forms!Kept, CasesCounted
  <1>2. CASE Forms!FormNext
    BY <1>2, PagesHold, CallsHold, HeardHolds, LeftHolds DEF Forms!FormNext
  <1> QED BY <1>1, <1>2

LEMMA FormsKept == FormsIInv => Forms!FormsHold
  <1> SUFFICES ASSUME FormsIInv PROVE Forms!FormsHold
    OBVIOUS
  <1>1. Forms!Filling => \A g \in Forms!Steps : g < sheet.step => sheet.values[g] = "ok"
    BY DEF FormsIInv, Forms!Filling, FilledIn, FilledBelow
  <1>2. saved # None /\ saved.mode = "create" => Forms!Recovered(saved) = saved
    BY RecoveredHolds DEF FormsIInv, FormsTypeOK
  <1>3. calls.cases <= calls.answered + (IF calls.own = "registered" THEN 1 ELSE 0)
    BY DEF FormsIInv, FormsTypeOK, FormCalls, CasesCounted
  <1> QED BY <1>1, <1>2, <1>3 DEF FormsIInv, Forms!FormsHold

-----------------------------------------------------------------------------
(* The page of the visitor.                                                 *)

WebToken == [chat : Chats, generation : Nat]

WebEntry == [chat : Chats, row : Single \union {"reply"}]

WebChat == [state : {"none", "live", "ended"}, generation : Nat,
            rows : SUBSET (Single \union {"reply"})]

WebFetch ==
    [kind : {"none", "bootstrap", "history", "send"}, message : Single \union {None},
     token : WebToken \union {None}, pc : {"idle", "sent", "stored", "served"},
     heard : BOOLEAN, ok : BOOLEAN, unauthorized : BOOLEAN, snapshot : SUBSET WebEntry]

WebTypeOK ==
    /\ chat \in [Chats -> WebChat]
    /\ jar \in WebToken \union {None}
    /\ local \in [Single -> {"none", "PENDING", "RETRYABLE"}]
    /\ said \in [Single -> {"no", "said", "dropped"}]
    /\ fetch \in [Requests -> WebFetch]

OnRecord(m, chats) == \E c \in Chats : m \in chats[c].rows

OnServer(entries, chats) == \A e \in entries : e.row \in chats[e.chat].rows

(* What a transcript shows is stored.                                       *)
Shows(s, chats) == s # None => s \subseteq WebEntry /\ OnServer(s, chats)

(* A request that carries a message has stored it before it is answered.    *)
FetchHolds(q, chats) ==
    /\ q.pc = "idle" => ~q.heard
    /\ q.message = None <=> q.kind # "send"
    /\ q.kind = "send" => (q.pc = "stored" \/ q.ok => OnRecord(q.message, chats))
    /\ OnServer(q.snapshot, chats)

PageHolds ==
    /\ WebTypeOK
    /\ \A c \in Chats : chat[c].state = "none" => chat[c].rows = {}
    /\ Shows(shown, chat) /\ Shows(drawn, chat)
    /\ \A f \in Requests : FetchHolds(fetch[f], chat)

WebIInv == PageHolds /\ Browser!NothingSaidIsLost

RowsGrow ==
    /\ chat' \in [Chats -> WebChat]
    /\ \A c \in Chats :
          /\ chat[c].rows \subseteq chat'[c].rows
          /\ chat'[c].state = "none" => chat'[c].rows = {}

LEMMA NoMessage == None \notin Single
  BY KoralAssumption, PartsAssumption

LEMMA ShowsKept ==
    ASSUME RowsGrow, NEW s, Shows(s, chat)
    PROVE  Shows(s, chat')
  BY DEF Shows, OnServer, RowsGrow, WebEntry

LEMMA FetchKept ==
    ASSUME RowsGrow, NEW q \in WebFetch, FetchHolds(q, chat)
    PROVE  FetchHolds(q, chat')
  <1>1. OnRecord(q.message, chat) => OnRecord(q.message, chat')
    BY DEF OnRecord, RowsGrow
  <1>2. OnServer(q.snapshot, chat')
    BY DEF FetchHolds, OnServer, RowsGrow, WebFetch, WebEntry
  <1> QED BY <1>1, <1>2 DEF FetchHolds

(* The page holds when one request changes, or none.                        *)
LEMMA PageKept ==
    ASSUME PageHolds, RowsGrow, WebTypeOK', Shows(shown', chat'), Shows(drawn', chat'),
           \A f \in Requests : fetch'[f] = fetch[f] \/ FetchHolds(fetch'[f], chat')
    PROVE  PageHolds'
  <1>1. \A f \in Requests : FetchHolds(fetch'[f], chat')
    BY FetchKept DEF PageHolds, WebTypeOK
  <1> QED BY <1>1 DEF PageHolds, RowsGrow

LEMMA Unwritten ==
    ASSUME PageHolds, UNCHANGED chat
    PROVE  RowsGrow
  BY DEF PageHolds, WebTypeOK, RowsGrow

LEMMA ViewKept ==
    ASSUME PageHolds, RowsGrow, UNCHANGED <<shown, drawn>>
    PROVE  Shows(shown', chat') /\ Shows(drawn', chat')
  BY ShowsKept DEF PageHolds

(* One request moves; the transcript, the cookie and what is on the page    *)
(* keep their kind.                                                         *)
LEMMA FetchPut ==
    ASSUME PageHolds, RowsGrow, NEW f \in Requests, NEW q \in WebFetch,
           fetch' = [fetch EXCEPT ![f] = q], FetchHolds(q, chat'),
           jar' \in WebToken \union {None},
           local' \in [Single -> {"none", "PENDING", "RETRYABLE"}],
           said' \in [Single -> {"no", "said", "dropped"}],
           Shows(shown', chat'), Shows(drawn', chat')
    PROVE  /\ PageHolds'
           /\ fetch'[f] = q
           /\ \A g \in Requests \ {f} : fetch'[g] = fetch[g]
  <1>1. fetch'[f] = q /\ \A g \in Requests \ {f} : fetch'[g] = fetch[g]
    BY DEF PageHolds, WebTypeOK
  <1>2. WebTypeOK'
    BY DEF PageHolds, WebTypeOK, RowsGrow
  <1>3. \A g \in Requests : fetch'[g] = fetch[g] \/ FetchHolds(fetch'[g], chat')
    BY <1>1
  <1> QED BY <1>1, <1>2, <1>3, PageKept

(* A request that starts or goes on does not change who waits for what.     *)
LEMMA FetchMoves ==
    ASSUME WebIInv, RowsGrow, NEW f \in Requests, NEW q \in WebFetch,
           fetch' = [fetch EXCEPT ![f] = q], FetchHolds(q, chat'),
           \/ fetch[f].pc = "idle"
           \/ q.heard = fetch[f].heard /\ q.message = fetch[f].message,
           UNCHANGED <<jar, local, shown, drawn, said>>
    PROVE  WebIInv'
  <1>1. /\ PageHolds'
        /\ fetch'[f] = q
        /\ \A g \in Requests \ {f} : fetch'[g] = fetch[g]
    BY FetchPut, ViewKept DEF WebIInv, PageHolds, WebTypeOK
  <1>2. ~(fetch[f].pc = "idle" /\ fetch[f].heard)
    BY DEF WebIInv, PageHolds, FetchHolds
  <1>3. ASSUME NEW m \in Single, local[m] = "PENDING"
        PROVE  \E g \in Requests : fetch'[g].heard /\ fetch'[g].message = m
    <2>1. PICK g \in Requests : fetch[g].heard /\ fetch[g].message = m
      BY <1>3 DEF WebIInv, Browser!NothingSaidIsLost, Browser!Heard
    <2> QED BY <1>1, <1>2, <2>1
  <1>4. Browser!NothingSaidIsLost'
    BY <1>3 DEF WebIInv, Browser!NothingSaidIsLost, Browser!Heard, RowsGrow
  <1> QED BY <1>1, <1>4 DEF WebIInv

(* No request changes.                                                      *)
LEMMA FetchStays ==
    ASSUME PageHolds, RowsGrow, UNCHANGED fetch,
           jar' \in WebToken \union {None},
           local' \in [Single -> {"none", "PENDING", "RETRYABLE"}],
           said' \in [Single -> {"no", "said", "dropped"}],
           Shows(shown', chat'), Shows(drawn', chat')
    PROVE  PageHolds'
  <1>1. WebTypeOK'
    BY DEF PageHolds, WebTypeOK, RowsGrow
  <1> QED BY <1>1, PageKept

-----------------------------------------------------------------------------
(* Its actions.                                                             *)

LEMMA SentHolds ==
    ASSUME PageHolds, NEW kind \in {"bootstrap", "history", "send"}, NEW m,
           kind = "send" => m \in Single, kind # "send" => m = None
    PROVE  /\ Browser!Sent(kind, m) \in WebFetch
           /\ FetchHolds(Browser!Sent(kind, m), chat)
  BY NoMessage DEF PageHolds, WebTypeOK, WebFetch, Browser!Sent, FetchHolds, OnServer

LEMMA BootstrapKept ==
    ASSUME WebIInv, NEW f \in Requests, Browser!Bootstrap(f)
    PROVE  WebIInv'
  <1> DEFINE q == Browser!Sent("bootstrap", None)
  <1>1. q \in WebFetch /\ FetchHolds(q, chat)
    BY SentHolds DEF WebIInv
  <1>2. fetch' = [fetch EXCEPT ![f] = q] /\ fetch[f].pc = "idle" /\ UNCHANGED <<chat, jar, local, shown, drawn, said>>
    BY DEF Browser!Bootstrap, Browser!Put, Browser!Free
  <1> HIDE DEF q
  <1> QED BY <1>1, <1>2, FetchMoves, Unwritten DEF WebIInv

LEMMA RefreshKept ==
    ASSUME WebIInv, NEW f \in Requests, Browser!Refresh(f)
    PROVE  WebIInv'
  <1> DEFINE q == Browser!Sent("history", None)
  <1>1. q \in WebFetch /\ FetchHolds(q, chat)
    BY SentHolds DEF WebIInv
  <1>2. fetch' = [fetch EXCEPT ![f] = q] /\ fetch[f].pc = "idle" /\ UNCHANGED <<chat, jar, local, shown, drawn, said>>
    BY DEF Browser!Refresh, Browser!Put, Browser!Free
  <1> HIDE DEF q
  <1> QED BY <1>1, <1>2, FetchMoves, Unwritten DEF WebIInv

LEMMA RestartKept ==
    ASSUME WebIInv, NEW f \in Requests, Browser!RestartSession(f)
    PROVE  WebIInv'
  <1> DEFINE q == Browser!Sent("bootstrap", None)
  <1>1. q \in WebFetch /\ FetchHolds(q, chat)
    BY SentHolds DEF WebIInv
  <1>2. /\ fetch[f].pc = "idle" /\ shown' = None /\ drawn' = None /\ UNCHANGED <<chat, jar>>
        /\ local' = [m \in Single |-> "none"]
        /\ said' = [m \in Single |-> IF local[m] # "none" THEN "dropped" ELSE said[m]]
        /\ fetch' = fetch \/ fetch' = [fetch EXCEPT ![f] = q]
    BY DEF Browser!RestartSession, Browser!Put, Browser!Free
  <1> HIDE DEF q
  <1>3. RowsGrow /\ Shows(shown', chat') /\ Shows(drawn', chat')
    BY <1>2, Unwritten DEF WebIInv, Shows
  <1>4. /\ jar' \in WebToken \union {None}
        /\ local' \in [Single -> {"none", "PENDING", "RETRYABLE"}]
        /\ said' \in [Single -> {"no", "said", "dropped"}]
    BY <1>2 DEF WebIInv, PageHolds, WebTypeOK
  <1>5. PageHolds'
    <2>1. CASE fetch' = fetch
      BY <1>3, <1>4, <2>1, FetchStays DEF WebIInv
    <2>2. CASE fetch' = [fetch EXCEPT ![f] = q]
      BY <1>1, <1>2, <1>3, <1>4, <2>2, FetchPut DEF WebIInv
    <2> QED BY <1>2, <2>1, <2>2
  <1>6. Browser!NothingSaidIsLost'
    BY <1>2 DEF WebIInv, Browser!NothingSaidIsLost
  <1> QED BY <1>5, <1>6 DEF WebIInv

(* A message that is sent, or sent again, is PENDING with a request that    *)
(* carries it, or waits to be retried.                                      *)
LEMMA DispatchKept ==
    ASSUME WebIInv, NEW f \in Requests, NEW m \in Single, Browser!Dispatch(f, m),
           fetch[f].pc = "idle",
           said' = said \/ said' = [said EXCEPT ![m] = "said"]
    PROVE  WebIInv'
  <1> DEFINE q == Browser!Sent("send", m)
  <1>1. q \in WebFetch /\ FetchHolds(q, chat) /\ q.heard /\ q.message = m
    BY SentHolds DEF WebIInv, Browser!Sent
  <1>2. /\ UNCHANGED <<chat, jar, shown, drawn>>
        /\ \/ fetch' = fetch /\ local' = [local EXCEPT ![m] = "RETRYABLE"]
           \/ fetch' = [fetch EXCEPT ![f] = q] /\ local' = [local EXCEPT ![m] = "PENDING"]
    BY DEF Browser!Dispatch, Browser!Put
  <1> HIDE DEF q
  <1>3. RowsGrow
    BY <1>2, Unwritten DEF WebIInv
  <1>4. /\ jar' \in WebToken \union {None}
        /\ local' \in [Single -> {"none", "PENDING", "RETRYABLE"}]
        /\ said' \in [Single -> {"no", "said", "dropped"}]
    BY <1>2 DEF WebIInv, PageHolds, WebTypeOK
  <1>5. Shows(shown', chat') /\ Shows(drawn', chat')
    BY <1>2 DEF WebIInv, PageHolds
  <1>6. local'[m] # "none" /\ \A n \in Single \ {m} : local'[n] = local[n] /\ said'[n] = said[n]
    BY <1>2 DEF WebIInv, PageHolds, WebTypeOK
  <1>7. CASE fetch' = fetch /\ local' = [local EXCEPT ![m] = "RETRYABLE"]
    <2>1. PageHolds'
      BY <1>3, <1>4, <1>5, <1>7, FetchStays DEF WebIInv
    <2>2. local'[m] # "PENDING"
      BY <1>7 DEF WebIInv, PageHolds, WebTypeOK
    <2> QED BY <1>2, <1>6, <1>7, <2>1, <2>2 DEF WebIInv, Browser!NothingSaidIsLost, Browser!Heard
  <1>8. CASE fetch' = [fetch EXCEPT ![f] = q] /\ local' = [local EXCEPT ![m] = "PENDING"]
    <2>1. PageHolds' /\ fetch'[f] = q /\ \A g \in Requests \ {f} : fetch'[g] = fetch[g]
      BY <1>1, <1>2, <1>3, <1>4, <1>5, <1>8, FetchPut DEF WebIInv
    <2>2. ~fetch[f].heard
      BY DEF WebIInv, PageHolds, FetchHolds
    <2>3. ASSUME NEW n \in Single, local'[n] = "PENDING"
          PROVE  \E g \in Requests : fetch'[g].heard /\ fetch'[g].message = n
      BY <1>1, <1>6, <2>1, <2>2, <2>3 DEF WebIInv, Browser!NothingSaidIsLost, Browser!Heard
    <2>4. \A n \in Single : said'[n] = "said" => local'[n] # "none" \/ \E c \in Chats : n \in chat'[c].rows
      BY <1>2, <1>6 DEF WebIInv, Browser!NothingSaidIsLost
    <2> QED BY <2>1, <2>3, <2>4 DEF WebIInv, Browser!NothingSaidIsLost, Browser!Heard
  <1> QED BY <1>2, <1>7, <1>8

LEMMA SendKept ==
    ASSUME WebIInv, NEW f \in Requests, NEW m \in Single, Browser!Send(f, m) \/ Browser!Retry(f, m)
    PROVE  WebIInv'
  BY DispatchKept DEF Browser!Send, Browser!Retry, Browser!Free

-----------------------------------------------------------------------------
(* The server.                                                              *)

LEMMA ServedHolds ==
    ASSUME PageHolds, NEW f \in Requests, NEW c \in Chats, NEW token \in WebToken,
           RowsGrow, fetch[f].pc # "idle",
           fetch[f].kind = "send" => OnRecord(fetch[f].message, chat')
    PROVE  /\ Browser!Answered(f, c) \in WebFetch
           /\ FetchHolds(Browser!Answered(f, c), chat')
           /\ [Browser!Answered(f, c) EXCEPT !.token = token] \in WebFetch
           /\ FetchHolds([Browser!Answered(f, c) EXCEPT !.token = token], chat')
           /\ Browser!Answered(f, c).heard = fetch[f].heard
           /\ Browser!Answered(f, c).message = fetch[f].message
           /\ [Browser!Answered(f, c) EXCEPT !.token = token].heard = fetch[f].heard
           /\ [Browser!Answered(f, c) EXCEPT !.token = token].message = fetch[f].message
  <1> DEFINE s == Browser!Transcript(c)
  <1>1. s \in SUBSET WebEntry /\ OnServer(s, chat')
    BY DEF Browser!Transcript, PageHolds, WebTypeOK, WebChat, WebEntry, OnServer, RowsGrow
  <1>2. Browser!Answered(f, c) = [fetch[f] EXCEPT !.pc = "served", !.ok = TRUE, !.snapshot = s]
    BY DEF Browser!Answered
  <1>3. fetch[f] \in WebFetch /\ FetchHolds(fetch[f], chat)
    BY DEF PageHolds, WebTypeOK
  <1> HIDE DEF s
  <1>4. /\ Browser!Answered(f, c) \in WebFetch
        /\ Browser!Answered(f, c).pc = "served" /\ Browser!Answered(f, c).snapshot = s
        /\ Browser!Answered(f, c).heard = fetch[f].heard
        /\ Browser!Answered(f, c).message = fetch[f].message
        /\ Browser!Answered(f, c).kind = fetch[f].kind
    BY <1>1, <1>2, <1>3 DEF WebFetch
  <1> DEFINE q == Browser!Answered(f, c)
             t == [q EXCEPT !.token = token]
  <1>5. FetchHolds(q, chat')
    BY <1>1, <1>3, <1>4 DEF FetchHolds
  <1> HIDE DEF q
  <1>6. /\ t \in WebFetch /\ t.pc = q.pc /\ t.snapshot = q.snapshot /\ t.heard = q.heard
        /\ t.message = q.message /\ t.kind = q.kind /\ t.ok = q.ok
    BY <1>4 DEF WebFetch, q
  <1>7. FetchHolds(t, chat')
    BY <1>5, <1>6 DEF FetchHolds
  <1> QED BY <1>4, <1>5, <1>6, <1>7 DEF q

LEMMA RejectedHolds ==
    ASSUME PageHolds, NEW f \in Requests, UNCHANGED chat, fetch[f].pc # "idle"
    PROVE  /\ Browser!Rejected(f) \in WebFetch
           /\ FetchHolds(Browser!Rejected(f), chat')
           /\ Browser!Rejected(f).heard = fetch[f].heard
           /\ Browser!Rejected(f).message = fetch[f].message
  <1>1. fetch[f] \in WebFetch /\ FetchHolds(fetch[f], chat)
    BY DEF PageHolds, WebTypeOK
  <1> DEFINE q == Browser!Rejected(f)
  <1>2. /\ q \in WebFetch /\ q.pc = "served" /\ q.snapshot = fetch[f].snapshot
        /\ q.heard = fetch[f].heard /\ q.message = fetch[f].message
        /\ q.kind = fetch[f].kind /\ q.ok = fetch[f].ok
    BY <1>1 DEF WebFetch, Browser!Rejected
  <1> HIDE DEF q
  <1>3. FetchHolds(q, chat')
    BY <1>1, <1>2 DEF FetchHolds
  <1> QED BY <1>2, <1>3 DEF q

LEMMA CurrentChat ==
    ASSUME PageHolds, NEW token \in WebToken \union {None}, Browser!Current(token)
    PROVE  token \in WebToken /\ token.chat \in Chats /\ chat[token.chat].state = "live"
  BY DEF Browser!Current, WebToken

LEMMA RotationGrows ==
    ASSUME PageHolds, NEW c \in Chats,
           chat' = [chat EXCEPT ![c].generation = @ + 1]
    PROVE  RowsGrow
  <1>1. chat[c].generation + 1 \in Nat
    BY DEF PageHolds, WebTypeOK, WebChat
  <1>2. \A d \in Chats : chat'[d].rows = chat[d].rows /\ chat'[d].state = chat[d].state
    BY DEF PageHolds, WebTypeOK, WebChat
  <1>3. PICK n \in Nat : n = chat[c].generation + 1
    BY <1>1
  <1>4. chat' = [chat EXCEPT ![c].generation = n]
    BY <1>3
  <1>5. chat' \in [Chats -> WebChat]
    BY <1>4 DEF PageHolds, WebTypeOK, WebChat
  <1> QED BY <1>2, <1>5 DEF RowsGrow, PageHolds

LEMMA RowStored ==
    ASSUME PageHolds, NEW c \in Chats, NEW row \in Single \union {"reply"},
           chat' = [chat EXCEPT ![c].rows = @ \union {row}], chat[c].state # "none"
    PROVE  RowsGrow /\ row \in chat'[c].rows
  <1>1. chat' \in [Chats -> WebChat]
    BY DEF PageHolds, WebTypeOK, WebChat
  <1>2. /\ chat'[c].rows = chat[c].rows \union {row}
        /\ \A d \in Chats : chat'[d].state = chat[d].state
        /\ \A d \in Chats \ {c} : chat'[d].rows = chat[d].rows
    BY DEF PageHolds, WebTypeOK, WebChat
  <1> QED BY <1>1, <1>2 DEF RowsGrow, PageHolds

LEMMA ServeBootstrapKept ==
    ASSUME WebIInv, NEW f \in Requests, Browser!ServeBootstrap(f)
    PROVE  WebIInv'
  <1>1. /\ UNCHANGED <<jar, page, local, shown, drawn, said>>
        /\ fetch[f].pc # "idle" /\ fetch[f].kind # "send"
        /\ PageHolds /\ fetch[f] \in WebFetch
    BY DEF Browser!ServeBootstrap, WebIInv, PageHolds, WebTypeOK
  <1>2. CASE \E c \in Chats :
             /\ fetch[f].token = None /\ chat[c].state = "none"
             /\ chat' = [chat EXCEPT ![c] = Browser!NewChat(c)]
             /\ Browser!Put(f, [Browser!Answered(f, c) EXCEPT !.token = [chat |-> c, generation |-> 1]])
    <2>1. PICK c \in Chats :
             /\ chat[c].state = "none"
             /\ chat' = [chat EXCEPT ![c] = Browser!NewChat(c)]
             /\ Browser!Put(f, [Browser!Answered(f, c) EXCEPT !.token = [chat |-> c, generation |-> 1]])
      BY <1>2
    <2>2. RowsGrow
      BY <1>1, <2>1 DEF Browser!NewChat, RowsGrow, PageHolds, WebTypeOK, WebChat
    <2>3. PICK token \in WebToken : token = [chat |-> c, generation |-> 1]
      BY DEF WebToken
    <2>4. fetch' = [fetch EXCEPT ![f] = [Browser!Answered(f, c) EXCEPT !.token = token]]
      BY <2>1, <2>3 DEF Browser!Put
    <2> QED BY <1>1, <2>2, <2>4, ServedHolds, FetchMoves
  <1>3. CASE /\ Browser!Current(fetch[f].token)
             /\ LET c == fetch[f].token.chat
                    next == chat[c].generation + 1 IN
                /\ next <= MaxGeneration
                /\ chat' = [chat EXCEPT ![c].generation = next]
                /\ Browser!Put(f, [Browser!Answered(f, c) EXCEPT !.token = [chat |-> c, generation |-> next]])
    <2>1. PICK c \in Chats : c = fetch[f].token.chat
      BY <1>1, <1>3, CurrentChat DEF WebFetch
    <2>2. chat' = [chat EXCEPT ![c].generation = @ + 1]
      BY <1>3, <2>1
    <2>3. RowsGrow
      BY <1>1, <2>2, RotationGrows
    <2>4. chat[c].generation + 1 \in Nat
      BY <1>1 DEF PageHolds, WebTypeOK, WebChat
    <2>5. PICK token \in WebToken : token = [chat |-> c, generation |-> chat[c].generation + 1]
      BY <2>4 DEF WebToken
    <2>6. fetch' = [fetch EXCEPT ![f] = [Browser!Answered(f, c) EXCEPT !.token = token]]
      BY <1>3, <2>1, <2>5 DEF Browser!Put
    <2> QED BY <1>1, <2>3, <2>6, ServedHolds, FetchMoves
  <1>4. CASE Browser!Put(f, Browser!Rejected(f)) /\ UNCHANGED chat
    <2>1. RowsGrow
      BY <1>1, <1>4, Unwritten
    <2> QED BY <1>1, <1>4, <2>1, RejectedHolds, FetchMoves DEF Browser!Put
  <1> QED BY <1>2, <1>3, <1>4 DEF Browser!ServeBootstrap

LEMMA ServeSendKept ==
    ASSUME WebIInv, NEW f \in Requests, Browser!ServeSend(f)
    PROVE  WebIInv'
  <1>1. /\ UNCHANGED <<jar, page, local, shown, drawn, said>>
        /\ fetch[f].pc # "idle" /\ fetch[f].kind = "send"
        /\ PageHolds /\ fetch[f] \in WebFetch /\ FetchHolds(fetch[f], chat)
    BY DEF Browser!ServeSend, WebIInv, PageHolds, WebTypeOK
  <1>2. CASE Browser!Current(fetch[f].token)
    <2>1. PICK c \in Chats : c = fetch[f].token.chat /\ chat[c].state = "live"
      BY <1>1, <1>2, CurrentChat DEF WebFetch
    <2>2. PICK m \in Single : m = fetch[f].message
      BY <1>1 DEF WebFetch, FetchHolds
    <2>3. /\ chat' = IF m \in chat[c].rows THEN chat
                     ELSE [chat EXCEPT ![c].rows = @ \union {m}]
          /\ Browser!Put(f, [fetch[f] EXCEPT !.pc = "stored"])
      BY <1>2, <2>1, <2>2 DEF Browser!ServeSend
    <2>4. RowsGrow /\ m \in chat'[c].rows
      BY <1>1, <2>1, <2>3, Unwritten, RowStored
    <2> DEFINE q == [fetch[f] EXCEPT !.pc = "stored"]
    <2>5. /\ q \in WebFetch /\ q.pc = "stored" /\ q.snapshot = fetch[f].snapshot
          /\ q.heard = fetch[f].heard /\ q.message = m /\ q.kind = "send"
      BY <1>1, <2>2 DEF WebFetch
    <2>6. fetch' = [fetch EXCEPT ![f] = q]
      BY <2>3 DEF Browser!Put
    <2> HIDE DEF q
    <2>7. FetchHolds(fetch[f], chat')
      BY <1>1, <2>4, FetchKept
    <2>8. FetchHolds(q, chat')
      BY <1>1, <2>4, <2>5, <2>7, NoMessage DEF FetchHolds, OnRecord
    <2> QED BY <1>1, <2>2, <2>4, <2>5, <2>6, <2>8, FetchMoves
  <1>3. CASE Browser!Put(f, Browser!Rejected(f)) /\ UNCHANGED chat
    <2>1. RowsGrow
      BY <1>1, <1>3, Unwritten
    <2> QED BY <1>1, <1>3, <2>1, RejectedHolds, FetchMoves DEF Browser!Put
  <1> QED BY <1>2, <1>3 DEF Browser!ServeSend

LEMMA ServeSnapshotKept ==
    ASSUME WebIInv, NEW f \in Requests, Browser!ServeSnapshot(f)
    PROVE  WebIInv'
  <1>1. /\ UNCHANGED <<chat, jar, page, local, shown, drawn, said>>
        /\ fetch[f].pc # "idle" /\ (fetch[f].kind = "send" => fetch[f].pc = "stored")
        /\ PageHolds /\ fetch[f] \in WebFetch /\ FetchHolds(fetch[f], chat)
    BY DEF Browser!ServeSnapshot, WebIInv, PageHolds, WebTypeOK
  <1>2. RowsGrow
    BY <1>1, Unwritten
  <1>3. CASE Browser!Current(fetch[f].token)
    <2>1. PICK c \in Chats : c = fetch[f].token.chat
      BY <1>1, <1>3, CurrentChat DEF WebFetch
    <2>2. fetch' = [fetch EXCEPT ![f] = Browser!Answered(f, c)]
      BY <1>3, <2>1 DEF Browser!ServeSnapshot, Browser!Put
    <2>3. fetch[f].token \in WebToken
      BY <1>1, <1>3, CurrentChat DEF WebFetch
    <2>4. fetch[f].kind = "send" => OnRecord(fetch[f].message, chat')
      BY <1>1 DEF FetchHolds
    <2> QED BY <1>1, <1>2, <2>2, <2>3, <2>4, ServedHolds, FetchMoves
  <1>4. CASE ~Browser!Current(fetch[f].token)
    <2>1. fetch' = [fetch EXCEPT ![f] = Browser!Rejected(f)]
      BY <1>4 DEF Browser!ServeSnapshot, Browser!Put
    <2> QED BY <1>1, <1>2, <2>1, RejectedHolds, FetchMoves
  <1> QED BY <1>3, <1>4

LEMMA ElsewhereKept ==
    ASSUME WebIInv, Browser!BootstrapElsewhere
    PROVE  WebIInv'
  <1>1. /\ Browser!Current(jar) /\ PageHolds /\ jar \in WebToken \union {None}
        /\ UNCHANGED <<page, local, shown, drawn, fetch, said>>
    BY DEF Browser!BootstrapElsewhere, WebIInv, PageHolds, WebTypeOK
  <1>2. jar \in WebToken
    BY <1>1, CurrentChat
  <1>3. PICK c \in Chats, n \in Nat : jar = [chat |-> c, generation |-> n]
    BY <1>2 DEF WebToken
  <1>4. /\ chat' = [chat EXCEPT ![c].generation = @ + 1]
        /\ jar' = [jar EXCEPT !.generation = @ + 1]
    BY <1>3 DEF Browser!BootstrapElsewhere
  <1>5. RowsGrow
    BY <1>1, <1>4, RotationGrows
  <1>6. PICK k \in Nat : k = n + 1
    OBVIOUS
  <1>7. jar' = [jar EXCEPT !.generation = k]
    BY <1>3, <1>4, <1>6
  <1>8. jar' \in WebToken
    BY <1>2, <1>7 DEF WebToken
  <1>9. /\ Shows(shown', chat') /\ Shows(drawn', chat')
        /\ local' \in [Single -> {"none", "PENDING", "RETRYABLE"}]
        /\ said' \in [Single -> {"no", "said", "dropped"}]
    BY <1>1, <1>5, ViewKept DEF PageHolds, WebTypeOK
  <1>10. PageHolds'
    BY <1>1, <1>5, <1>8, <1>9, FetchStays
  <1> QED BY <1>1, <1>5, <1>10 DEF WebIInv, Browser!NothingSaidIsLost, Browser!Heard, RowsGrow

LEMMA ChatMovesKept ==
    ASSUME WebIInv, NEW c \in Chats, Browser!Reply(c) \/ Browser!EndChat(c)
    PROVE  WebIInv'
  <1>1. /\ PageHolds /\ UNCHANGED <<jar, page, local, shown, drawn, fetch, said>>
    BY DEF Browser!Reply, Browser!EndChat, WebIInv
  <1>2. RowsGrow
    <2>1. CASE Browser!Reply(c)
      BY <1>1, <2>1, RowStored DEF Browser!Reply
    <2>2. CASE Browser!EndChat(c)
      BY <1>1, <2>2 DEF Browser!EndChat, RowsGrow, PageHolds, WebTypeOK, WebChat
    <2> QED BY <2>1, <2>2
  <1>3. /\ Shows(shown', chat') /\ Shows(drawn', chat') /\ jar' \in WebToken \union {None}
        /\ local' \in [Single -> {"none", "PENDING", "RETRYABLE"}]
        /\ said' \in [Single -> {"no", "said", "dropped"}]
    BY <1>1, <1>2, ViewKept DEF PageHolds, WebTypeOK
  <1>4. PageHolds'
    BY <1>1, <1>2, <1>3, FetchStays
  <1> QED BY <1>1, <1>2, <1>4 DEF WebIInv, Browser!NothingSaidIsLost, Browser!Heard, RowsGrow

-----------------------------------------------------------------------------
(* What the page does with an answer, and without one.                      *)

LEMMA NoFetchHolds ==
    Browser!NoFetch \in WebFetch /\ ~Browser!NoFetch.heard /\ \A chats : FetchHolds(Browser!NoFetch, chats)
  BY DEF Browser!NoFetch, WebFetch, FetchHolds, OnServer

(* A request is done with: no message waits for it any more, except for     *)
(* those the page still shows as stored, retryable or carried by another.   *)
LEMMA FetchEnds ==
    ASSUME WebIInv, NEW f \in Requests, UNCHANGED <<chat, drawn, said>>,
           fetch' = [fetch EXCEPT ![f] = Browser!NoFetch],
           jar' \in WebToken \union {None}, Shows(shown', chat),
           local' \in [Single -> {"none", "PENDING", "RETRYABLE"}],
           \A m \in Single :
               \/ local'[m] = local[m] /\ (fetch[f].heard => fetch[f].message # m)
               \/ local'[m] # "PENDING" /\ (local'[m] = "none" => local[m] = "none" \/ OnRecord(m, chat))
    PROVE  WebIInv'
  <1>1. RowsGrow /\ Shows(shown', chat') /\ Shows(drawn', chat') /\ said' \in [Single -> {"no", "said", "dropped"}]
    BY Unwritten DEF WebIInv, PageHolds, WebTypeOK
  <1>2. /\ PageHolds'
        /\ \A g \in Requests \ {f} : fetch'[g] = fetch[g]
    BY <1>1, NoFetchHolds, FetchPut DEF WebIInv
  <1>3. ASSUME NEW m \in Single, local'[m] = "PENDING"
        PROVE  \E g \in Requests : fetch'[g].heard /\ fetch'[g].message = m
    <2>1. local[m] = "PENDING" /\ ~(fetch[f].heard /\ fetch[f].message = m)
      BY <1>3
    <2>2. PICK g \in Requests : fetch[g].heard /\ fetch[g].message = m
      BY <2>1 DEF WebIInv, Browser!NothingSaidIsLost, Browser!Heard
    <2> QED BY <1>2, <2>1, <2>2
  <1>4. ASSUME NEW m \in Single, said'[m] = "said"
        PROVE  local'[m] # "none" \/ \E c \in Chats : m \in chat'[c].rows
    BY <1>4 DEF WebIInv, Browser!NothingSaidIsLost, OnRecord
  <1> QED BY <1>2, <1>3, <1>4 DEF WebIInv, Browser!NothingSaidIsLost, Browser!Heard

LEMMA IgnoreKept ==
    ASSUME WebIInv, NEW f \in Requests, Browser!Ignore(f)
    PROVE  WebIInv'
  BY FetchEnds DEF Browser!Ignore, Browser!Settled, Browser!Put, WebIInv, PageHolds, WebTypeOK

LEMMA MergeShows ==
    ASSUME PageHolds, NEW f \in Requests
    PROVE  Shows(fetch[f].snapshot, chat) /\ Shows(Browser!Merge(fetch[f].snapshot), chat)
  <1>1. fetch[f].snapshot \in SUBSET WebEntry /\ OnServer(fetch[f].snapshot, chat)
    BY DEF PageHolds, WebTypeOK, WebFetch, FetchHolds
  <1> QED BY <1>1 DEF PageHolds, Shows, OnServer, Browser!Merge

LEMMA SucceedKept ==
    ASSUME WebIInv, NEW f \in Requests, Browser!Succeed(f)
    PROVE  WebIInv'
  <1>1. /\ UNCHANGED <<chat, drawn, said>> /\ fetch' = [fetch EXCEPT ![f] = Browser!NoFetch]
        /\ PageHolds /\ fetch[f] \in WebFetch /\ FetchHolds(fetch[f], chat) /\ fetch[f].ok
        /\ jar \in WebToken \union {None}
        /\ local \in [Single -> {"none", "PENDING", "RETRYABLE"}]
    BY DEF Browser!Succeed, Browser!Settled, Browser!Put, WebIInv, PageHolds, WebTypeOK
  <1>2. /\ Shows(shown', chat) /\ jar' \in WebToken \union {None}
        /\ \/ local' = local /\ fetch[f].kind # "send"
           \/ fetch[f].kind = "send" /\ local' = [local EXCEPT ![fetch[f].message] = "none"]
           \/ fetch[f].kind = "none" /\ local' = [local EXCEPT ![fetch[f].message] = "none"]
    <2>1. CASE fetch[f].kind = "bootstrap"
      BY <1>1, <2>1, MergeShows DEF Browser!Succeed, WebFetch
    <2>2. CASE fetch[f].kind = "history"
      BY <1>1, <2>2, MergeShows DEF Browser!Succeed, WebFetch
    <2>3. CASE fetch[f].kind \in {"send", "none"}
      BY <1>1, <2>3, MergeShows DEF Browser!Succeed, WebFetch
    <2> QED BY <1>1, <2>1, <2>2, <2>3 DEF WebFetch
  <1>3. CASE fetch[f].kind # "send"
    <2>1. fetch[f].message = None
      BY <1>1, <1>3 DEF FetchHolds
    <2>2. local' = local
      BY <1>1, <1>2, <1>3, <2>1, NoMessage
    <2> QED BY <1>1, <1>2, <2>1, <2>2, NoMessage, FetchEnds
  <1>4. CASE fetch[f].kind = "send"
    <2>1. PICK m \in Single : m = fetch[f].message /\ OnRecord(m, chat)
      BY <1>1, <1>4 DEF FetchHolds, WebFetch
    <2>2. local' = [local EXCEPT ![m] = "none"]
      BY <1>2, <1>4, <2>1
    <2>3. /\ local' \in [Single -> {"none", "PENDING", "RETRYABLE"}]
          /\ local'[m] = "none" /\ \A n \in Single \ {m} : local'[n] = local[n]
      BY <1>1, <2>2
    <2>4. \A n \in Single :
               \/ local'[n] = local[n] /\ (fetch[f].heard => fetch[f].message # n)
               \/ local'[n] # "PENDING" /\ (local'[n] = "none" => local[n] = "none" \/ OnRecord(n, chat))
      BY <2>1, <2>3
    <2> QED BY <1>1, <1>2, <2>3, <2>4, FetchEnds
  <1> QED BY <1>3, <1>4

LEMMA FailedKept ==
    ASSUME WebIInv, NEW f \in Requests, NEW unauthorized \in BOOLEAN, Browser!Failed(f, unauthorized),
           fetch' = [fetch EXCEPT ![f] = Browser!NoFetch], jar' \in WebToken \union {None}
    PROVE  WebIInv'
  <1>1. /\ UNCHANGED <<chat, shown, drawn, said>>
        /\ PageHolds /\ fetch[f] \in WebFetch /\ FetchHolds(fetch[f], chat)
        /\ Shows(shown', chat)
        /\ local \in [Single -> {"none", "PENDING", "RETRYABLE"}]
    BY DEF Browser!Failed, WebIInv, PageHolds, WebTypeOK
  <1>2. CASE fetch[f].kind # "send"
    <2>1. fetch[f].message = None /\ local' = local
      BY <1>1, <1>2 DEF FetchHolds, Browser!Failed
    <2> QED BY <1>1, <2>1, NoMessage, FetchEnds
  <1>3. CASE fetch[f].kind = "send"
    <2>1. PICK m \in Single : m = fetch[f].message
      BY <1>1, <1>3 DEF FetchHolds, WebFetch
    <2>2. local' = [local EXCEPT ![m] = IF local[m] = "none" THEN "none" ELSE "RETRYABLE"]
      BY <1>1, <1>3, <2>1 DEF Browser!Failed, Browser!Kept
    <2>3. /\ local' \in [Single -> {"none", "PENDING", "RETRYABLE"}]
          /\ local'[m] \in {"none", "RETRYABLE"} /\ (local'[m] = "none" => local[m] = "none")
          /\ \A n \in Single \ {m} : local'[n] = local[n]
      BY <1>1, <2>2
    <2>4. \A n \in Single :
               \/ local'[n] = local[n] /\ (fetch[f].heard => fetch[f].message # n)
               \/ local'[n] # "PENDING" /\ (local'[n] = "none" => local[n] = "none" \/ OnRecord(n, chat))
      BY <2>1, <2>3
    <2> QED BY <1>1, <2>3, <2>4, FetchEnds
  <1> QED BY <1>2, <1>3

LEMMA ExpireKept ==
    ASSUME WebIInv, NEW f \in Requests, Browser!Expire(f)
    PROVE  WebIInv'
  BY FailedKept DEF Browser!Expire, Browser!Settled, Browser!Put

LEMMA FailKept ==
    ASSUME WebIInv, NEW f \in Requests, Browser!Fail(f)
    PROVE  WebIInv'
  BY FailedKept DEF Browser!Fail, Browser!Put, WebIInv, PageHolds, WebTypeOK

LEMMA DrawKept ==
    ASSUME WebIInv, Browser!Draw
    PROVE  WebIInv'
  <1>1. /\ UNCHANGED <<chat, jar, page, shown, fetch, said>> /\ drawn' = shown
        /\ local' = [m \in Single |->
              IF shown # None /\ \E e \in shown : e.row = m THEN "none" ELSE local[m]]
        /\ PageHolds
    BY DEF Browser!Draw, WebIInv
  <1>2. local \in [Single -> {"none", "PENDING", "RETRYABLE"}]
    BY <1>1 DEF PageHolds, WebTypeOK
  <1>3. /\ local' \in [Single -> {"none", "PENDING", "RETRYABLE"}]
        /\ \A m \in Single : local'[m] = local[m]
              \/ (local'[m] = "none" /\ shown # None /\ \E e \in shown : e.row = m)
    BY <1>1, <1>2
  <1>4. PageHolds'
    BY <1>1, <1>3, Unwritten, FetchStays DEF PageHolds, WebTypeOK
  <1>5. \A m \in Single : shown # None /\ (\E e \in shown : e.row = m) => OnRecord(m, chat)
    BY <1>1 DEF PageHolds, Shows, OnServer, OnRecord, WebEntry
  <1>6. Browser!NothingSaidIsLost'
    BY <1>1, <1>3, <1>5 DEF WebIInv, Browser!NothingSaidIsLost, Browser!Heard, OnRecord
  <1> QED BY <1>4, <1>6 DEF WebIInv

LEMMA PanelKept ==
    ASSUME WebIInv, Browser!Open \/ Browser!GoOffline \/ Browser!GoOnline
    PROVE  WebIInv'
  <1>1. UNCHANGED <<chat, jar, local, shown, drawn, fetch, said>> /\ PageHolds
    BY DEF Browser!Open, Browser!GoOffline, Browser!GoOnline, WebIInv
  <1>2. PageHolds'
    BY <1>1, Unwritten, FetchStays DEF PageHolds, WebTypeOK
  <1> QED BY <1>1, <1>2 DEF WebIInv, Browser!NothingSaidIsLost, Browser!Heard

LEMMA CloseKept ==
    ASSUME WebIInv, Browser!Close
    PROVE  WebIInv'
  <1> DEFINE sending == {f \in Browser!Heard : fetch[f].kind = "send"}
  <1>1. /\ UNCHANGED <<chat, jar, shown, drawn, said>>
        /\ local' = [m \in Single |->
              IF local[m] # "none" /\ \E f \in sending : fetch[f].message = m
              THEN "RETRYABLE" ELSE local[m]]
        /\ fetch' = [f \in Requests |-> [fetch[f] EXCEPT !.heard = FALSE]]
        /\ PageHolds
    BY DEF Browser!Close, WebIInv
  <1>2. local \in [Single -> {"none", "PENDING", "RETRYABLE"}] /\ fetch \in [Requests -> WebFetch]
    BY <1>1 DEF PageHolds, WebTypeOK
  <1>3. \A m \in Single : local[m] = "PENDING" => \E f \in sending : fetch[f].message = m
    <2>1. SUFFICES ASSUME NEW m \in Single, local[m] = "PENDING"
                   PROVE  \E f \in sending : fetch[f].message = m
      OBVIOUS
    <2>2. PICK f \in Browser!Heard : fetch[f].message = m
      BY <2>1 DEF WebIInv, Browser!NothingSaidIsLost
    <2>3. fetch[f].kind = "send"
      BY <1>1, <2>2, NoMessage DEF PageHolds, FetchHolds, Browser!Heard
    <2> QED BY <2>2, <2>3
  <1>4. /\ local' \in [Single -> {"none", "PENDING", "RETRYABLE"}]
        /\ \A m \in Single : local'[m] # "PENDING" /\ (local'[m] = "none" => local[m] = "none")
    BY <1>1, <1>2, <1>3
  <1>5. \A f \in Requests :
           /\ fetch'[f] \in WebFetch /\ fetch'[f].message = fetch[f].message /\ ~fetch'[f].heard
           /\ fetch'[f].kind = fetch[f].kind /\ fetch'[f].pc = fetch[f].pc /\ fetch'[f].ok = fetch[f].ok
           /\ fetch'[f].snapshot = fetch[f].snapshot
    BY <1>1, <1>2 DEF WebFetch
  <1>6. fetch' \in [Requests -> WebFetch]
    BY <1>1, <1>5
  <1>7. WebTypeOK'
    BY <1>1, <1>4, <1>6 DEF PageHolds, WebTypeOK
  <1>8. \A f \in Requests : FetchHolds(fetch'[f], chat')
    BY <1>1, <1>5 DEF PageHolds, FetchHolds
  <1>9. PageHolds'
    BY <1>1, <1>7, <1>8 DEF PageHolds
  <1> QED BY <1>1, <1>4, <1>9 DEF WebIInv, Browser!NothingSaidIsLost

LEMMA WebInitial == Browser!WebInit => WebIInv
  <1> SUFFICES ASSUME Browser!WebInit PROVE WebIInv
    OBVIOUS
  <1>1. WebTypeOK /\ \A f \in Requests : FetchHolds(fetch[f], chat)
    BY NoFetchHolds DEF Browser!WebInit, WebTypeOK, WebChat
  <1> QED BY <1>1 DEF Browser!WebInit, WebIInv, PageHolds, Shows, Browser!NothingSaidIsLost

LEMMA WebInductive ==
    ASSUME WebIInv, [Browser!WebNext]_webVars
    PROVE  WebIInv'
  <1>1. CASE UNCHANGED webVars
    BY <1>1 DEF webVars, WebIInv, PageHolds, WebTypeOK, Browser!NothingSaidIsLost, Browser!Heard
  <1>2. CASE Browser!WebNext
    BY <1>2, BootstrapKept, RestartKept, RefreshKept, SendKept, ServeBootstrapKept, ServeSendKept,
       ServeSnapshotKept, ElsewhereKept, ChatMovesKept, IgnoreKept, SucceedKept, ExpireKept,
       FailKept, DrawKept, PanelKept, CloseKept
    DEF Browser!WebNext
  <1> QED BY <1>1, <1>2

-----------------------------------------------------------------------------
(* Governed answers.                                                        *)

AnswerRun ==
    [at : Governed!Steps, body : Governed!Bodies,
     assurance : {"ANONYMOUS", "CLAIMED", "AUTHENTICATED", "MFA_VERIFIED", "STEP_UP_VERIFIED"},
     late : BOOLEAN, passages : SUBSET Passages, sent : BOOLEAN, result : Governed!Results]

LEMMA SameCount == \A S : Governed!Cardinality(S) = Cardinality(S)
  BY DEF Governed!Cardinality, Governed!IsFiniteSet, Cardinality, IsFiniteSet

(* What may leave for the provider.                                         *)
Cleared(q) ==
    /\ q.body \in {"GREETING", "TOPIC"}
    /\ q.assurance \in {"ANONYMOUS", "CLAIMED"}
    /\ q.passages \cap Restricted = {} /\ Cardinality(q.passages) <= MaxPassages
    /\ q.body = "TOPIC" => q.passages # {}

RunHolds(q) ==
    /\ q.at \in {"RECEIVED", "DECIDED"} => q.passages = {}
    /\ q.at = "DECIDED" => q.body = "TOPIC" /\ q.assurance \in {"ANONYMOUS", "CLAIMED"}
    /\ q.at = "INFERENCE" \/ q.sent => Cleared(q)
    /\ q.at \in {"SENT", "VALIDATION", "COMMIT"} \/ q.result = "RESPONDED" => q.sent

AnswersIInv ==
    /\ published \subseteq Passages
    /\ run \in [Answers -> AnswerRun]
    /\ \A r \in Answers : RunHolds(run[r])

LEMMA AnswersKept == AnswersIInv => Governed!AnswersArePublic
  <1> SUFFICES ASSUME AnswersIInv PROVE Governed!AnswersArePublic
    OBVIOUS
  <1>1. \A r \in Answers : run[r] \in AnswerRun /\ RunHolds(run[r])
    BY DEF AnswersIInv
  <1>2. Governed!AnswersTypeOK
    BY <1>1 DEF AnswerRun, Governed!AnswersTypeOK
  <1>3. Governed!OnlyPublicLeaves
    BY <1>1, SameCount DEF RunHolds, Cleared, Governed!OnlyPublicLeaves
  <1>4. Governed!AnswersAreDue
    BY <1>1 DEF RunHolds, Cleared, Governed!AnswersAreDue
  <1> QED BY <1>2, <1>3, <1>4 DEF Governed!AnswersArePublic

LEMMA NoRunHolds == Governed!NoRun \in AnswerRun /\ RunHolds(Governed!NoRun)
  BY DEF Governed!NoRun, AnswerRun, RunHolds, Cleared, Governed!Steps, Governed!Bodies, Governed!Results

LEMMA AnswersInitial == Governed!AnswersInit => AnswersIInv
  BY NoRunHolds DEF Governed!AnswersInit, AnswersIInv

LEMMA RunMoves ==
    ASSUME AnswersIInv, NEW r \in Answers, NEW q \in AnswerRun, RunHolds(q), Governed!Put(r, q)
    PROVE  AnswersIInv'
  BY DEF AnswersIInv, Governed!Put

(* A run goes on to another step, or ends, and nothing else of it changes.  *)
LEMMA RunGoes ==
    ASSUME AnswersIInv, NEW r \in Answers, NEW step \in Governed!Steps,
           Governed!Goto(r, step), run[r].at # "NONE",
           step \in {"HANDOFF"} \/ RunHolds([run[r] EXCEPT !.at = step])
    PROVE  AnswersIInv'
  <1> DEFINE q == [run[r] EXCEPT !.at = step]
  <1>1. q \in AnswerRun /\ Governed!Put(r, q)
    BY DEF AnswersIInv, AnswerRun, Governed!Goto
  <1>2. CASE step = "HANDOFF"
    <2>1. /\ run[r] \in AnswerRun /\ RunHolds(run[r]) /\ q.at = "HANDOFF" /\ q.body = run[r].body
          /\ q.assurance = run[r].assurance /\ q.passages = run[r].passages
          /\ q.sent = run[r].sent /\ q.result = run[r].result
      BY <1>2 DEF AnswersIInv, AnswerRun
    <2>2. RunHolds(q)
      BY <2>1 DEF RunHolds, Cleared
    <2> QED BY <1>1, <2>2, RunMoves
  <1> QED BY <1>1, <1>2, RunMoves

LEMMA RunEnds ==
    ASSUME AnswersIInv, NEW r \in Answers, NEW result \in Governed!Results, Governed!End(r, result),
           result = "RESPONDED" => run[r].sent
    PROVE  AnswersIInv'
  <1> DEFINE q == [run[r] EXCEPT !.at = "ENDED", !.result = result]
  <1>1. run[r] \in AnswerRun /\ RunHolds(run[r])
    BY DEF AnswersIInv
  <1>2. /\ q \in AnswerRun /\ q.at = "ENDED" /\ q.result = result /\ q.body = run[r].body
        /\ q.assurance = run[r].assurance /\ q.passages = run[r].passages /\ q.sent = run[r].sent
    BY <1>1 DEF AnswerRun, Governed!Steps
  <1>3. RunHolds(q)
    BY <1>1, <1>2 DEF RunHolds, Cleared
  <1> QED BY <1>2, <1>3, RunMoves DEF Governed!End

LEMMA ReceiveKept ==
    ASSUME AnswersIInv, NEW r \in Answers, NEW body \in Governed!Bodies, NEW evidence \in Governed!Evidence,
           Governed!Receive(r, body, evidence)
    PROVE  AnswersIInv'
  <1>1. PICK who \in {"ANONYMOUS", "CLAIMED", "AUTHENTICATED", "MFA_VERIFIED", "STEP_UP_VERIFIED"} :
           who = Governed!AssuranceOf(evidence)
    BY DEF Governed!AssuranceOf, Governed!Evidence
  <1> DEFINE q == [Governed!NoRun EXCEPT !.at = "RECEIVED", !.body = body, !.assurance = who]
  <1>2. /\ Governed!NoRun \in AnswerRun /\ Governed!NoRun.passages = {}
        /\ ~Governed!NoRun.sent /\ Governed!NoRun.result = "NONE"
    BY NoRunHolds DEF Governed!NoRun
  <1>3. Governed!Put(r, q)
    BY <1>1 DEF Governed!Receive
  <1>4. q \in AnswerRun /\ q.at = "RECEIVED" /\ q.passages = {} /\ ~q.sent /\ q.result = "NONE"
    BY <1>2 DEF AnswerRun, Governed!Steps
  <1>5. RunHolds(q)
    BY <1>4 DEF RunHolds
  <1> QED BY <1>3, <1>4, <1>5, RunMoves

LEMMA DecideKept ==
    ASSUME AnswersIInv, NEW r \in Answers, Governed!Decide(r)
    PROVE  AnswersIInv'
  <1>1. run[r] \in AnswerRun /\ RunHolds(run[r]) /\ run[r].at = "RECEIVED" /\ run[r].passages = {}
    BY DEF AnswersIInv, RunHolds, Governed!Decide, Governed!At
  <1>2. PICK step \in {"HANDOFF", "INFERENCE", "DECIDED"} :
           /\ Governed!Goto(r, step)
           /\ step # "HANDOFF" => /\ run[r].assurance \in {"ANONYMOUS", "CLAIMED"}
                                  /\ run[r].body \in {"GREETING", "TOPIC"}
           /\ step # "HANDOFF" => (step = "INFERENCE" <=> run[r].body = "GREETING")
    <2> DEFINE may == Governed!MayAnswer(r) /\ Governed!Classification(r) = "PUBLIC"
    <2>1. CASE ~may
      <3>1. Governed!Goto(r, "HANDOFF")
        BY <2>1 DEF Governed!Decide
      <3> HIDE DEF may
      <3> QED BY <3>1
    <2>2. CASE may
      <3>1. run[r].assurance \in {"ANONYMOUS", "CLAIMED"}
        BY <2>2 DEF Governed!MayAnswer, Governed!ConsentOf, Governed!MayAnswerWithoutConsent
      <3>2. run[r].body \in {"GREETING", "TOPIC"}
        BY <2>2 DEF Governed!Classification, Governed!Classify, Governed!IsPublicContent,
                    Governed!IsPublicKnowledgeQuestion
      <3>3. Governed!Goto(r, IF run[r].body = "GREETING" THEN "INFERENCE" ELSE "DECIDED")
        BY <2>2, <3>2 DEF Governed!Decide
      <3> HIDE DEF may
      <3>4. CASE run[r].body = "GREETING"
        BY <3>1, <3>2, <3>3, <3>4
      <3>5. CASE run[r].body # "GREETING"
        BY <3>1, <3>2, <3>3, <3>5
      <3> QED BY <3>4, <3>5
    <2> QED BY <2>1, <2>2
  <1> DEFINE q == [run[r] EXCEPT !.at = step]
  <1>3. /\ q.at = step /\ q.body = run[r].body /\ q.assurance = run[r].assurance /\ q.passages = {}
        /\ q.sent = run[r].sent /\ q.result = run[r].result
    BY <1>1 DEF AnswerRun
  <1>4. Cardinality({}) <= MaxPassages
    BY FS_EmptySet, PartsAssumption DEF Governed!AnswersAssumption
  <1>5. CASE step # "HANDOFF"
    <2>1. RunHolds(q)
      BY <1>1, <1>2, <1>3, <1>4, <1>5 DEF RunHolds, Cleared
    <2> QED BY <1>1, <1>2, <2>1, RunGoes DEF Governed!Steps
  <1>6. CASE step = "HANDOFF"
    BY <1>1, <1>2, <1>6, RunGoes DEF Governed!Steps
  <1> QED BY <1>5, <1>6

LEMMA RetrieveKept ==
    ASSUME AnswersIInv, NEW r \in Answers, Governed!Retrieve(r)
    PROVE  AnswersIInv'
  <1>1. run[r] \in AnswerRun /\ RunHolds(run[r]) /\ run[r].at = "DECIDED"
    BY DEF AnswersIInv, Governed!Retrieve, Governed!At
  <1>2. CASE Governed!Goto(r, "HANDOFF")
    BY <1>1, <1>2, RunGoes DEF Governed!Steps
  <1>3. CASE ~Governed!Goto(r, "HANDOFF")
    <2>1. PICK found \in SUBSET {k \in Passages : Governed!InScope(k)} :
                /\ found # {} /\ Cardinality(found) <= MaxPassages
                /\ Governed!Put(r, [run[r] EXCEPT !.at = "INFERENCE", !.passages = found])
      BY <1>3, SameCount, Zenon DEF Governed!Retrieve
    <2>2. found \in SUBSET Passages /\ found \cap Restricted = {}
      BY DEF Governed!InScope
    <2> DEFINE q == [run[r] EXCEPT !.at = "INFERENCE", !.passages = found]
    <2>3. /\ q \in AnswerRun /\ q.at = "INFERENCE" /\ q.body = run[r].body /\ q.assurance = run[r].assurance
          /\ q.passages = found /\ q.sent = run[r].sent /\ q.result = run[r].result
      BY <1>1, <2>2 DEF AnswerRun, Governed!Steps
    <2>4. RunHolds(q)
      BY <1>1, <2>1, <2>2, <2>3 DEF RunHolds, Cleared
    <2> QED BY <2>1, <2>3, <2>4, RunMoves
  <1> QED BY <1>2, <1>3

LEMMA InvokeKept ==
    ASSUME AnswersIInv, NEW r \in Answers, Governed!Invoke(r)
    PROVE  AnswersIInv'
  <1>1. run[r] \in AnswerRun /\ RunHolds(run[r]) /\ run[r].at = "INFERENCE"
    BY DEF AnswersIInv, Governed!Invoke, Governed!At
  <1>2. CASE Governed!Goto(r, "HANDOFF")
    BY <1>1, <1>2, RunGoes DEF Governed!Steps
  <1>3. CASE Governed!End(r, "ERROR")
    BY <1>3, RunEnds DEF Governed!Results
  <1>4. CASE Governed!Put(r, [run[r] EXCEPT !.at = "SENT", !.sent = TRUE])
    <2> DEFINE q == [run[r] EXCEPT !.at = "SENT", !.sent = TRUE]
    <2>1. /\ q \in AnswerRun /\ q.at = "SENT" /\ q.body = run[r].body /\ q.assurance = run[r].assurance
          /\ q.passages = run[r].passages /\ q.sent /\ q.result = run[r].result
      BY <1>1 DEF AnswerRun, Governed!Steps
    <2>2. RunHolds(q)
      BY <1>1, <2>1 DEF RunHolds, Cleared
    <2> QED BY <1>4, <2>1, <2>2, RunMoves
  <1> QED BY <1>2, <1>3, <1>4 DEF Governed!Invoke

(* The provider answered, and its answer was looked at.                     *)
LEMMA AnswerGoesOn ==
    ASSUME AnswersIInv, NEW r \in Answers, NEW step \in {"VALIDATION", "COMMIT", "HANDOFF"},
           run[r].at \in {"SENT", "VALIDATION"}, Governed!Goto(r, step)
    PROVE  AnswersIInv'
  <1>1. run[r] \in AnswerRun /\ RunHolds(run[r]) /\ run[r].sent
    BY DEF AnswersIInv, RunHolds
  <1> DEFINE q == [run[r] EXCEPT !.at = step]
  <1>2. /\ q.at = step /\ q.body = run[r].body /\ q.assurance = run[r].assurance
        /\ q.passages = run[r].passages /\ q.sent /\ q.result = run[r].result
    BY <1>1 DEF AnswerRun
  <1>3. RunHolds(q)
    BY <1>1, <1>2 DEF RunHolds, Cleared
  <1> QED BY <1>3, RunGoes DEF Governed!Steps

LEMMA DeadlineKept ==
    ASSUME AnswersIInv, NEW r \in Answers, Governed!DeadlinePasses(r)
    PROVE  AnswersIInv'
  <1>1. run[r] \in AnswerRun /\ RunHolds(run[r])
    BY DEF AnswersIInv
  <1> DEFINE q == [run[r] EXCEPT !.late = TRUE]
  <1>2. /\ q \in AnswerRun /\ q.at = run[r].at /\ q.body = run[r].body /\ q.assurance = run[r].assurance
        /\ q.passages = run[r].passages /\ q.sent = run[r].sent /\ q.result = run[r].result
    BY <1>1 DEF AnswerRun
  <1>3. RunHolds(q)
    BY <1>1, <1>2 DEF RunHolds, Cleared
  <1> QED BY <1>2, <1>3, RunMoves DEF Governed!DeadlinePasses

LEMMA AnswersInductive ==
    ASSUME AnswersIInv, [Governed!AnswersNext]_answerVars
    PROVE  AnswersIInv'
  <1>1. CASE UNCHANGED answerVars
    BY <1>1 DEF answerVars, AnswersIInv
  <1>2. ASSUME NEW r \in Answers, Governed!Outcome(r) \/ Governed!Validate(r)
        PROVE  AnswersIInv'
    BY <1>2, AnswerGoesOn DEF Governed!Outcome, Governed!Validate, Governed!At
  <1>3. ASSUME NEW r \in Answers, Governed!Commit(r) \/ Governed!HandOff(r) \/ Governed!Throws(r)
        PROVE  AnswersIInv'
    <2>1. run[r].at = "COMMIT" => run[r].sent
      BY DEF AnswersIInv, RunHolds
    <2> QED BY <1>3, <2>1, RunEnds DEF Governed!Commit, Governed!HandOff, Governed!Throws, Governed!At, Governed!Results
  <1>4. ASSUME NEW r \in Answers, Governed!Forget(r)
        PROVE  AnswersIInv'
    BY <1>4, NoRunHolds, RunMoves DEF Governed!Forget
  <1>5. ASSUME NEW k \in Passages, Governed!Withdraw(k)
        PROVE  AnswersIInv'
    BY <1>5 DEF Governed!Withdraw, AnswersIInv
  <1>6. CASE Governed!AnswersNext
    BY <1>2, <1>3, <1>4, <1>5, <1>6, ReceiveKept, DecideKept, RetrieveKept, InvokeKept, DeadlineKept
    DEF Governed!AnswersNext
  <1> QED BY <1>1, <1>6

-----------------------------------------------------------------------------
(* Drafts of an article.                                                    *)

ReadableDraft == [read : Nat, format : {"MARKDOWN", "TEXT"}]

DraftsIInv ==
    /\ shelf \in Seq(ReadableDraft)
    /\ author \in [Operators -> Nat \union {-1}]
    /\ Intake!DraftsFollowOneAnother

LEMMA DraftsInductive ==
    ASSUME DraftsIInv, [Intake!DraftsNext]_<<shelf, author>>
    PROVE  DraftsIInv'
  <1>1. CASE UNCHANGED <<shelf, author>>
    BY <1>1 DEF DraftsIInv, Intake!DraftsFollowOneAnother
  <1>2. ASSUME NEW a \in Operators, Intake!Look(a)
        PROVE  DraftsIInv'
    <2>1. shelf' = shelf /\ author' \in [Operators -> Nat \union {-1}]
      BY <1>2 DEF Intake!Look, Intake!Revision, DraftsIInv
    <2> QED BY <2>1 DEF DraftsIInv, Intake!DraftsFollowOneAnother
  <1>3. ASSUME NEW a \in Operators, NEW source \in Intake!Sources, Intake!CreateDraft(a, source)
        PROVE  DraftsIInv'
    <2>1. author' \in [Operators -> Nat \union {-1}]
      BY <1>3 DEF Intake!CreateDraft, Intake!NoDraft, DraftsIInv
    <2>2. CASE shelf' = shelf
      BY <2>1, <2>2 DEF DraftsIInv, Intake!DraftsFollowOneAnother
    <2>3. CASE shelf' # shelf
      <3>1. /\ shelf' = Append(shelf, [read |-> author[a], format |-> source.format])
            /\ author[a] = Len(shelf) /\ source.format \in {"MARKDOWN", "TEXT"}
        BY <1>3, <2>3 DEF Intake!CreateDraft, Intake!Parsable, Intake!Unchanged, Intake!Revision
      <3>2. PICK draft \in ReadableDraft : /\ draft = [read |-> author[a], format |-> source.format]
                                           /\ draft.read = Len(shelf)
        BY <3>1 DEF DraftsIInv, ReadableDraft
      <3>3. /\ shelf' \in Seq(ReadableDraft) /\ Len(shelf') = Len(shelf) + 1
            /\ \A n \in 1..Len(shelf) : shelf'[n] = shelf[n]
            /\ shelf'[Len(shelf) + 1] = draft
        BY <3>1, <3>2 DEF DraftsIInv
      <3>4. \A n \in 1..Len(shelf') : shelf'[n].read = n - 1 /\ shelf'[n].format \in {"MARKDOWN", "TEXT"}
        BY <3>2, <3>3 DEF DraftsIInv, Intake!DraftsFollowOneAnother, ReadableDraft
      <3> QED BY <2>1, <3>3, <3>4 DEF DraftsIInv, Intake!DraftsFollowOneAnother
    <2> QED BY <2>2, <2>3
  <1> QED BY <1>1, <1>2, <1>3 DEF Intake!DraftsNext

-----------------------------------------------------------------------------
(* The cutting of a text.                                                   *)

Chunk == [from : Nat, upto : Nat]

Letters == {"w", ".", " ", "n"}

(* The chunks so far go forward, start before `start', and are short enough.*)
GoForward(chunks, start) ==
    \A k \in 1..Len(chunks) :
        /\ chunks[k].from < chunks[k].upto /\ chunks[k].upto - chunks[k].from <= MaxChunk + 1
        /\ chunks[k].from < start
        /\ k > 1 => chunks[k - 1].from < chunks[k].from

InChunk(chunks, i) == \E k \in 1..Len(chunks) : chunks[k].from < i /\ i <= chunks[k].upto

CutIInv ==
    /\ text \in Seq(Letters)
    /\ cut \in [start : Nat, chunks : Seq(Chunk), done : BOOLEAN]
    /\ ~cut.done => cut.start < Len(text)
    /\ GoForward(cut.chunks, cut.start)
    /\ \A i \in 1..Len(text) :
          i <= cut.start \/ cut.done => text[i] \in {" ", "n"} \/ InChunk(cut.chunks, i)

LEMMA CutKept == CutIInv => Intake!NothingIsCutAway
  BY DEF CutIInv, GoForward, InChunk, Intake!NothingIsCutAway, Intake!Blank

(* A bounded set of positions has a last one.                               *)
LEMMA HasLast ==
    ASSUME NEW b \in Nat, NEW S \in SUBSET (0..b), S # {}
    PROVE  \E i \in S : \A j \in S : j <= i
  <1> DEFINE T == {b - i : i \in S}
  <1>1. T \subseteq Nat /\ T # {}
    <2>1. \A i \in S : b - i \in Nat
      OBVIOUS
    <2> QED BY <2>1
  <1> HIDE DEF T
  <1>2. PICK x \in T : \A y \in T : <<y, x>> \notin OpToRel(<, Nat)
    BY <1>1, WFMin, NatLessThanWellFounded
  <1>3. \A y \in T : ~(y < x)
    BY <1>1, <1>2 DEF OpToRel
  <1>4. PICK i \in S : x = b - i
    BY DEF T
  <1>5. ASSUME NEW j \in S PROVE j <= i
    <2>1. b - j \in T
      BY DEF T
    <2>2. ~(b - j < b - i)
      BY <1>3, <1>4, <2>1
    <2> QED BY <2>2
  <1> QED BY <1>5

LEMMA ChunkEndHolds ==
    ASSUME text \in Seq(Letters), NEW start \in Nat, start < Len(text)
    PROVE  /\ Intake!ChunkEnd(start) \in Nat
           /\ start < Intake!ChunkEnd(start) /\ Intake!ChunkEnd(start) <= Len(text)
           /\ Intake!ChunkEnd(start) - start <= MaxChunk + 1
  <1>1. Len(text) \in Nat /\ MaxChunk \in Nat \ {0}
    BY PartsAssumption DEF Intake!IntakeAssumption
  <1> DEFINE longest == IF start + MaxChunk < Len(text) THEN start + MaxChunk ELSE Len(text)
             half == MaxChunk \div 2
             inside == {i \in start + half + 1..longest : Intake!Boundary(i)}
             last == CHOOSE i \in inside : \A j \in inside : j <= i
  <1>2. longest \in Nat /\ start < longest /\ longest <= Len(text) /\ longest - start <= MaxChunk
    BY <1>1
  <1>3. half \in Nat
    BY <1>1
  <1>4. Intake!ChunkEnd(start) = IF longest < Len(text) /\ inside # {} THEN 1 + last ELSE longest
    BY DEF Intake!ChunkEnd
  <1> HIDE DEF longest, half
  <1>5. CASE longest < Len(text) /\ inside # {}
    <2>1. inside \subseteq 0..longest
      BY <1>2, <1>3
    <2>2. last \in inside
      <3> HIDE DEF inside
      <3>1. \E i \in inside : \A j \in inside : j <= i
        BY <1>2, <1>5, <2>1, HasLast
      <3> QED BY <3>1
    <2> HIDE DEF last
    <2>3. last \in start + half + 1..longest
      BY <2>2
    <2> HIDE DEF inside
    <2> QED BY <1>1, <1>2, <1>3, <1>4, <1>5, <2>3
  <1>6. CASE ~(longest < Len(text) /\ inside # {})
    BY <1>1, <1>2, <1>4, <1>6
  <1> QED BY <1>5, <1>6

LEMMA NextStartHolds ==
    ASSUME NEW start \in Nat, NEW end \in Nat, start < end
    PROVE  /\ Intake!NextStart(start, end) \in Nat
           /\ start < Intake!NextStart(start, end) /\ Intake!NextStart(start, end) <= end
  BY PartsAssumption DEF Intake!IntakeAssumption, Intake!NextStart

LEMMA FromNat ==
    ASSUME NEW chunks \in Seq(Chunk)
    PROVE  \A k \in 1..Len(chunks) : chunks[k].from \in Nat
  <1>1. \A k \in 1..Len(chunks) : chunks[k] \in Chunk
    OBVIOUS
  <1>2. \A c \in Chunk : c.from \in Nat
    BY DEF Chunk
  <1> QED BY <1>1, <1>2

LEMMA StillBefore ==
    ASSUME NEW chunks \in Seq(Chunk), NEW start \in Nat, NEW next \in Nat, start < next,
           GoForward(chunks, start)
    PROVE  \A k \in 1..Len(chunks) : chunks[k].from < next
  <1>1. \A k \in 1..Len(chunks) : chunks[k].from < start
    BY DEF GoForward
  <1> QED BY <1>1, FromNat

LEMMA ChunkAdded ==
    ASSUME NEW chunks \in Seq(Chunk), NEW start \in Nat, NEW end \in Nat, NEW next \in Nat,
           start < end, end - start <= MaxChunk + 1, start < next, GoForward(chunks, start)
    PROVE  LET more == Append(chunks, [from |-> start, upto |-> end]) IN
           /\ more \in Seq(Chunk) /\ GoForward(more, next)
           /\ \A i \in Nat : InChunk(chunks, i) \/ (start < i /\ i <= end) => InChunk(more, i)
  <1> DEFINE chunk == [from |-> start, upto |-> end]
             more == Append(chunks, chunk)
  <1>1. chunk \in Chunk /\ more = Append(chunks, chunk) /\ chunk.from = start /\ chunk.upto = end
    BY DEF Chunk
  <1> HIDE DEF chunk, more
  <1>2. /\ more \in Seq(Chunk) /\ Len(chunks) \in Nat /\ Len(more) = Len(chunks) + 1
        /\ more[Len(chunks) + 1] = chunk /\ \A k \in 1..Len(chunks) : more[k] = chunks[k]
    BY <1>1
  <1>3. \A k \in 1..Len(chunks) : chunks[k].from \in Nat
    BY FromNat
  <1>4. ASSUME NEW k \in 1..Len(more)
        PROVE  /\ more[k].from < more[k].upto /\ more[k].upto - more[k].from <= MaxChunk + 1
               /\ more[k].from < next
               /\ k > 1 => more[k - 1].from < more[k].from
    <2>1. CASE k \in 1..Len(chunks)
      <3>1. k > 1 => k - 1 \in 1..Len(chunks)
        BY <2>1
      <3>2. more[k] = chunks[k] /\ (k > 1 => more[k - 1] = chunks[k - 1])
        BY <1>2, <2>1, <3>1
      <3>3. chunks[k].from < next
        BY <2>1, StillBefore
      <3> QED BY <2>1, <3>2, <3>3 DEF GoForward
    <2>2. CASE k = Len(chunks) + 1
      <3>1. k > 1 => k - 1 \in 1..Len(chunks) /\ k - 1 = Len(chunks)
        BY <1>2, <2>2
      <3>2. k > 1 => more[k - 1].from < start
        BY <1>2, <3>1 DEF GoForward
      <3>3. more[k].from = start /\ more[k].upto = end
        BY <1>1, <1>2, <2>2
      <3> QED BY <3>2, <3>3
    <2> QED BY <1>2, <2>1, <2>2
  <1>5. GoForward(more, next)
    BY <1>4 DEF GoForward
  <1>6. ASSUME NEW i \in Nat, InChunk(chunks, i) \/ (start < i /\ i <= end)
        PROVE  InChunk(more, i)
    <2>1. CASE start < i /\ i <= end
      <3>1. Len(chunks) + 1 \in 1..Len(more)
        BY <1>2
      <3> QED BY <1>1, <1>2, <2>1, <3>1 DEF InChunk
    <2>2. CASE InChunk(chunks, i)
      <3>1. PICK k \in 1..Len(chunks) : chunks[k].from < i /\ i <= chunks[k].upto
        BY <2>2 DEF InChunk
      <3>2. k \in 1..Len(more) /\ more[k] = chunks[k]
        BY <1>2
      <3> QED BY <3>1, <3>2 DEF InChunk
    <2> QED BY <1>6, <2>1, <2>2
  <1> QED BY <1>2, <1>5, <1>6 DEF more, chunk

LEMMA CutInductive ==
    ASSUME CutIInv, [Intake!Cut]_<<text, cut>>
    PROVE  CutIInv'
  <1>1. CASE UNCHANGED <<text, cut>>
    BY <1>1 DEF CutIInv
  <1>2. CASE Intake!Cut
    <2>1. PICK start \in Nat, chunks \in Seq(Chunk) : start = cut.start /\ chunks = cut.chunks
      BY DEF CutIInv
    <2>2. text' = text /\ ~cut.done
      BY <1>2 DEF Intake!Cut
    <2>3. text \in Seq(Letters) /\ Len(text) \in Nat /\ start < Len(text)
      <3>1. text \in Seq(Letters) /\ cut.start < Len(text)
        BY <2>2 DEF CutIInv
      <3> QED BY <2>1, <3>1
    <2>4. PICK end \in Nat : /\ end = Intake!ChunkEnd(start)
                             /\ start < end /\ end <= Len(text) /\ end - start <= MaxChunk + 1
      BY <2>1, <2>3, ChunkEndHolds
    <2>5. PICK next \in Nat : next = Intake!NextStart(start, end) /\ start < next /\ next <= end
      BY <2>1, <2>4, NextStartHolds
    <2> DEFINE solid == \E i \in start + 1..end : text[i] \notin {" ", "n"}
               longer == Append(chunks, [from |-> start, upto |-> end])
               more == IF solid THEN longer ELSE chunks
               done == end = Len(text) \/ next >= Len(text)
    <2>6. done \in BOOLEAN
      OBVIOUS
    <2>7. cut' = [start |-> next, chunks |-> more, done |-> done]
      BY <1>2, <2>1, <2>4, <2>5 DEF Intake!Cut, Intake!Blank
    <2>8. GoForward(chunks, start) /\ \A i \in 1..Len(text) :
             i <= start => text[i] \in {" ", "n"} \/ InChunk(chunks, i)
      BY <2>1 DEF CutIInv
    <2>9. /\ more \in Seq(Chunk) /\ GoForward(more, next)
          /\ \A i \in 1..Len(text) : i <= end => text[i] \in {" ", "n"} \/ InChunk(more, i)
      <3>1. CASE solid
        <4>1. more = longer
          BY <3>1
        <4> HIDE DEF more
        <4>2. /\ more \in Seq(Chunk) /\ GoForward(more, next)
              /\ \A i \in Nat : InChunk(chunks, i) \/ (start < i /\ i <= end) => InChunk(more, i)
          BY <2>1, <2>4, <2>5, <2>8, <4>1, ChunkAdded
        <4> HIDE DEF longer, solid
        <4>3. \A i \in 1..Len(text) : i \in Nat /\ (i <= start \/ start < i)
          BY <2>1, <2>3
        <4> QED BY <2>8, <4>2, <4>3
      <3>2. CASE ~solid
        <4>1. more = chunks
          BY <3>2
        <4>2. \A i \in 1..Len(text) : i <= end => i <= start \/ text[i] \in {" ", "n"}
          <5>1. \A i \in 1..Len(text) : i <= end => i <= start \/ i \in start + 1..end
            BY <2>1, <2>3, <2>4
          <5> QED BY <3>2, <5>1
        <4>3. GoForward(chunks, next)
          <5>1. \A k \in 1..Len(chunks) : chunks[k].from < next
            BY <2>1, <2>5, <2>8, StillBefore
          <5> QED BY <2>8, <5>1 DEF GoForward
        <4> QED BY <2>1, <2>8, <4>1, <4>2, <4>3
      <3> QED BY <3>1, <3>2
    <2> HIDE DEF more
    <2>10. cut' \in [start : Nat, chunks : Seq(Chunk), done : BOOLEAN]
      BY <2>5, <2>6, <2>7, <2>9
    <2>11. cut'.start = next /\ cut'.chunks = more /\ cut'.done = done
      BY <2>7
    <2>11a. Len(text) \in Nat /\ next \in Nat /\ end \in Nat
      BY <2>3, <2>4, <2>5
    <2>12. ~done => next < Len(text)
      BY <2>11a
    <2>13. \A i \in 1..Len(text) : i <= next \/ done => i <= end
      BY <2>4, <2>5, <2>11a
    <2> HIDE DEF done
    <2> QED BY <2>2, <2>3, <2>9, <2>10, <2>11, <2>12, <2>13 DEF CutIInv
  <1> QED BY <1>1, <1>2

-----------------------------------------------------------------------------
(* The ranking of a search.                                                 *)

LEMMA SameIntakeCount ==
    \A S : Intake!Cardinality(S) = Cardinality(S) /\ (Intake!IsFiniteSet(S) <=> IsFiniteSet(S))
  BY DEF Intake!Cardinality, Intake!IsFiniteSet, Cardinality, IsFiniteSet

LEMMA SomeChunks == IsFiniteSet(Chunks) /\ Chunks \subseteq Nat
  BY SameIntakeCount, PartsAssumption DEF Intake!IntakeAssumption

Matching(score, clear) == {c \in clear : score[c] > 0}

Ahead(score, kept, c) == {d \in kept : Intake!Precedes(score, d, c)}

Rank(score, kept, c) == Cardinality(Ahead(score, kept, c))

LEMMA RankIsNat ==
    ASSUME NEW score, NEW kept \in SUBSET Chunks, NEW c \in kept
    PROVE  /\ IsFiniteSet(kept) /\ IsFiniteSet(Ahead(score, kept, c))
           /\ Rank(score, kept, c) \in Nat
  <1>1. IsFiniteSet(kept)
    BY SomeChunks, FS_Subset
  <1>2. IsFiniteSet(Ahead(score, kept, c))
    <2>1. Ahead(score, kept, c) \in SUBSET kept
      BY DEF Ahead
    <2> QED BY <1>1, <2>1, FS_Subset
  <1> QED BY <1>1, <1>2, FS_CardinalityType DEF Rank

(* Whoever precedes another has fewer candidates ahead.                     *)
LEMMA RankGrows ==
    ASSUME NEW score \in [Chunks -> 0..2], NEW kept \in SUBSET Chunks, NEW c \in kept, NEW d \in kept,
           Intake!Precedes(score, c, d)
    PROVE  Rank(score, kept, c) < Rank(score, kept, d)
  <1>1. \A e \in kept : e \in Nat /\ score[e] \in 0..2
    BY SomeChunks
  <1>2. Ahead(score, kept, c) \union {c} \in SUBSET Ahead(score, kept, d)
    <2>1. \A e \in kept : Intake!Precedes(score, e, c) => Intake!Precedes(score, e, d)
      BY <1>1 DEF Intake!Precedes
    <2> QED BY <2>1 DEF Ahead
  <1>3. c \notin Ahead(score, kept, c)
    BY <1>1 DEF Ahead, Intake!Precedes
  <1>4. Cardinality(Ahead(score, kept, c) \union {c}) = Rank(score, kept, c) + 1
    BY <1>3, RankIsNat, FS_AddElement DEF Rank
  <1>5. Cardinality(Ahead(score, kept, c) \union {c}) <= Rank(score, kept, d)
    BY <1>2, RankIsNat, FS_Subset DEF Rank
  <1> QED BY <1>4, <1>5, RankIsNat

(* The ranks are the positions 0, 1, 2 ...: fewer than `limit' is `limit'.  *)
LEMMA FirstOfRanked ==
    ASSUME NEW score \in [Chunks -> 0..2], NEW kept \in SUBSET Chunks,
           NEW limit \in Nat, limit <= Cardinality(kept)
    PROVE  Cardinality({c \in kept : Rank(score, kept, c) < limit}) = limit
  <1> DEFINE N == Cardinality(kept)
             rank == [c \in kept |-> Rank(score, kept, c)]
             top == {c \in kept : Rank(score, kept, c) < limit}
             short == [c \in top |-> Rank(score, kept, c)]
  <1>1. IsFiniteSet(kept) /\ N \in Nat
    BY SomeChunks, FS_Subset, FS_CardinalityType
  <1>2. \A c \in kept : Rank(score, kept, c) \in 0..N - 1
    <2>1. SUFFICES ASSUME NEW c \in kept PROVE Rank(score, kept, c) \in 0..N - 1
      OBVIOUS
    <2>2. c \notin Ahead(score, kept, c) /\ Ahead(score, kept, c) \union {c} \in SUBSET kept
      BY SomeChunks DEF Ahead, Intake!Precedes
    <2>3. Cardinality(Ahead(score, kept, c) \union {c}) = Rank(score, kept, c) + 1
      BY <2>2, RankIsNat, FS_AddElement DEF Rank
    <2>4. Cardinality(Ahead(score, kept, c) \union {c}) <= N
      BY <1>1, <2>2, FS_Subset
    <2> HIDE DEF N
    <2> QED BY <1>1, <2>3, <2>4, RankIsNat
  <1>3. \A c, d \in kept : Rank(score, kept, c) = Rank(score, kept, d) => c = d
    <2>1. SUFFICES ASSUME NEW c \in kept, NEW d \in kept, c # d
                   PROVE  Rank(score, kept, c) # Rank(score, kept, d)
      OBVIOUS
    <2>2. Intake!Precedes(score, c, d) \/ Intake!Precedes(score, d, c)
      <3>1. c \in Nat /\ d \in Nat /\ score[c] \in 0..2 /\ score[d] \in 0..2
        BY SomeChunks
      <3> QED BY <2>1, <3>1 DEF Intake!Precedes
    <2> QED BY <2>2, RankGrows, RankIsNat
  <1> HIDE DEF N
  <1>4. IsFiniteSet(0..N - 1) /\ Cardinality(0..N - 1) = N
    BY <1>1, FS_Interval
  <1>5. IsFiniteSet(0..limit - 1) /\ Cardinality(0..limit - 1) = limit
    BY FS_Interval
  <1>6. rank \in Injection(kept, 0..N - 1)
    BY <1>2, <1>3 DEF Injection, IsInjective
  <1>7. rank \in Surjection(kept, 0..N - 1)
    BY <1>1, <1>4, <1>6, FS_Injection DEF N
  <1>8. \A t \in 0..limit - 1 : \E c \in kept : Rank(score, kept, c) = t
    <2>1. limit <= N
      BY DEF N
    <2>2. \A t \in 0..limit - 1 : t \in 0..N - 1
      BY <1>1, <2>1
    <2>3. \A t \in 0..N - 1 : \E c \in kept : rank[c] = t
      BY <1>7 DEF Surjection
    <2> QED BY <2>2, <2>3
  <1>9. short \in Injection(top, 0..limit - 1)
    BY <1>3, RankIsNat DEF Injection, IsInjective
  <1>10. short \in Surjection(top, 0..limit - 1)
    BY <1>8, RankIsNat DEF Surjection
  <1> QED BY <1>5, <1>9, <1>10, FS_Injection

Question ==
    [score : [Chunks -> 0..2], clear : SUBSET Chunks, limit : Nat, evidence : SUBSET Chunks]

RankIInv == asked \in Question /\ Intake!FullAnswersComeFirst

LEMMA RankedHolds ==
    ASSUME NEW score \in [Chunks -> 0..2], NEW clear \in SUBSET Chunks, NEW limit \in Nat
    PROVE  LET evidence == Intake!Ranked(score, clear, limit) IN
           /\ evidence \in SUBSET Chunks /\ evidence \subseteq clear
           /\ \A c \in clear \ evidence :
                 score[c] = 2 => Intake!Cardinality(evidence) = limit /\ \A d \in evidence : score[d] = 2
  <1> DEFINE kept == Matching(score, clear)
             evidence == Intake!Ranked(score, clear, limit)
  <1>1. kept \in SUBSET Chunks /\ kept \subseteq clear
    BY DEF Matching
  <1>2. evidence = {c \in kept : Rank(score, kept, c) < limit}
    BY SameIntakeCount DEF Intake!Ranked, Intake!Mergeable, Matching, Rank, Ahead
  <1> HIDE DEF evidence
  <1>3. ASSUME NEW c \in clear \ evidence, score[c] = 2
        PROVE  Cardinality(evidence) = limit /\ \A d \in evidence : score[d] = 2
    <2>1. c \in kept
      BY <1>3 DEF Matching
    <2> HIDE DEF kept
    <2>2. /\ Rank(score, kept, c) \in Nat /\ limit <= Rank(score, kept, c)
          /\ IsFiniteSet(kept) /\ Cardinality(kept) \in Nat
      BY <1>1, <1>2, <1>3, <2>1, RankIsNat, FS_CardinalityType
    <2>3. Rank(score, kept, c) <= Cardinality(kept)
      <3>1. Ahead(score, kept, c) \in SUBSET kept
        BY DEF Ahead
      <3> QED BY <2>2, <3>1, FS_Subset DEF Rank
    <2>4. limit <= Cardinality(kept)
      BY <2>2, <2>3
    <2>5. Cardinality(evidence) = limit
      BY <1>1, <1>2, <2>4, FirstOfRanked
    <2>6. ASSUME NEW d \in evidence, score[d] # 2
          PROVE  FALSE
      <3>1. d \in kept /\ Rank(score, kept, d) < limit /\ Rank(score, kept, d) \in Nat
        BY <1>1, <1>2, RankIsNat
      <3>2. score[d] \in 0..2
        BY <1>1, <3>1
      <3>3. Intake!Precedes(score, c, d)
        BY <1>3, <2>6, <3>2 DEF Intake!Precedes
      <3>4. Rank(score, kept, c) < Rank(score, kept, d)
        BY <1>1, <2>1, <3>1, <3>3, RankGrows
      <3> QED BY <2>2, <3>1, <3>4
    <2> QED BY <2>5, <2>6
  <1>4. evidence \in SUBSET Chunks /\ evidence \subseteq clear
    BY <1>1, <1>2
  <1>5. Intake!Cardinality(evidence) = Cardinality(evidence)
    BY SameIntakeCount
  <1> QED BY <1>3, <1>4, <1>5 DEF evidence

LEMMA AskKept ==
    ASSUME NEW score \in [Chunks -> 0..2], NEW clear \in SUBSET Chunks, NEW limit \in Nat,
           Intake!Ask(score, clear, limit)
    PROVE  RankIInv'
  <1>1. PICK evidence : evidence = Intake!Ranked(score, clear, limit)
    OBVIOUS
  <1>2. asked' = [score |-> score, clear |-> clear, limit |-> limit, evidence |-> evidence]
    BY <1>1 DEF Intake!Ask
  <1>3. /\ evidence \in SUBSET Chunks /\ evidence \subseteq clear
        /\ \A c \in clear \ evidence :
              score[c] = 2 => Intake!Cardinality(evidence) = limit /\ \A d \in evidence : score[d] = 2
    BY <1>1, RankedHolds
  <1>4. asked' \in Question
    BY <1>2, <1>3 DEF Question
  <1>5. /\ asked'.score = score /\ asked'.clear = clear /\ asked'.limit = limit
        /\ asked'.evidence = evidence
    BY <1>2
  <1>6. Intake!FullAnswersComeFirst'
    BY <1>3, <1>5 DEF Intake!FullAnswersComeFirst, Intake!Covers
  <1> QED BY <1>4, <1>6 DEF RankIInv

LEMMA NoQuestionHolds == asked = Intake!NoQuestion => RankIInv
  <1> SUFFICES ASSUME asked = Intake!NoQuestion PROVE RankIInv
    OBVIOUS
  <1>1. /\ asked \in Question /\ asked.clear = {} /\ asked.evidence = {}
    BY DEF Intake!NoQuestion, Question
  <1> QED BY <1>1 DEF RankIInv, Intake!FullAnswersComeFirst

LEMMA RankInductive ==
    ASSUME RankIInv, [Intake!RankingNext]_asked
    PROVE  RankIInv'
  <1>1. CASE UNCHANGED asked
    BY <1>1 DEF RankIInv, Intake!FullAnswersComeFirst
  <1>2. CASE Intake!Forget
    <2>1. asked' = Intake!NoQuestion
      BY <1>2 DEF Intake!Forget
    <2>2. /\ asked' \in Question /\ asked'.clear = {} /\ asked'.evidence = {}
      BY <2>1 DEF Intake!NoQuestion, Question
    <2> QED BY <2>2 DEF RankIInv, Intake!FullAnswersComeFirst
  <1>3. ASSUME NEW score \in [Chunks -> Intake!Scores], NEW clear \in SUBSET Chunks,
               NEW limit \in 1..MaxEvidence,
               Intake!Ask(score, clear, limit) \/ Intake!Preview(score, limit)
        PROVE  RankIInv'
    <2>1. limit \in Nat /\ score \in [Chunks -> 0..2]
      BY PartsAssumption DEF Intake!IntakeAssumption, Intake!Scores
    <2> QED BY <1>3, <2>1, AskKept DEF Intake!Preview
  <1> QED BY <1>1, <1>2, <1>3 DEF Intake!RankingNext

-----------------------------------------------------------------------------
(* The conversations together.                                              *)

ConversationsIInv ==
    /\ WebIInv /\ FormsIInv /\ LeadsIInv
    /\ AnswersIInv /\ DraftsIInv /\ CutIInv /\ RankIInv

allVars == <<part, chatVars, formVars, leadVars>>

(* Each part of a step is a step of its component, or none.                 *)
LEMMA PartsMove ==
    ASSUME [ConversationsNext]_allVars
    PROVE  /\ [Next]_vars /\ [Browser!WebNext]_webVars
           /\ [Forms!FormNext]_<<form, sheet, saved, calls>>
           /\ [Contact!LeadsNext]_<<contact, sends, leads, consents, settled>>
           /\ [Governed!AnswersNext]_answerVars
           /\ [Intake!DraftsNext]_<<shelf, author>>
           /\ [Intake!Cut]_<<text, cut>> /\ [Intake!RankingNext]_asked
  <1>1. CASE UNCHANGED allVars
    BY <1>1 DEF allVars, chatVars, formVars, leadVars, webVars, answerVars, intakeVars
  <1>2. CASE part = "forms" /\ Forms!FormNext /\ UNCHANGED <<chatVars, leadVars>>
    BY <1>2 DEF chatVars, leadVars, webVars, answerVars, intakeVars
  <1>3. CASE part = "leads" /\ Contact!LeadsNext /\ UNCHANGED <<chatVars, formVars>>
    BY <1>3 DEF chatVars, formVars, webVars, answerVars, intakeVars
  <1>4. CASE ChatsNext /\ UNCHANGED <<formVars, leadVars>>
    <2>1. StableNext \/ FaultyNext => Next
      BY PartsAssumption DEF StableNext, FaultyNext, Next
    <2>2. UNCHANGED <<form, sheet, saved, calls>> /\ UNCHANGED <<contact, sends, leads, consents, settled>>
      BY <1>4 DEF formVars, leadVars
    <2>3. CASE /\ StableNext \/ FaultyNext
               /\ UNCHANGED <<webVars, answerVars, intakeVars>>
      BY <2>1, <2>2, <2>3 DEF webVars, answerVars, intakeVars
    <2>4. CASE Browser!WebNext /\ UNCHANGED <<vars, answerVars, intakeVars>>
      BY <2>2, <2>4 DEF webVars, answerVars, intakeVars
    <2>5. CASE Governed!AnswersNext /\ UNCHANGED <<vars, webVars, intakeVars>>
      BY <2>2, <2>5 DEF webVars, answerVars, intakeVars
    <2>6. CASE IntakeStep /\ UNCHANGED <<vars, webVars, answerVars>>
      <3>1. CASE Intake!DraftsNext
        <4>1. UNCHANGED <<text, cut, asked>>
          BY <3>1 DEF Intake!DraftsNext, Intake!Look, Intake!CreateDraft
        <4> QED BY <2>2, <2>6, <3>1, <4>1 DEF webVars, answerVars
      <3>2. CASE Intake!Cut
        <4>1. UNCHANGED <<shelf, author, asked>>
          BY <3>2 DEF Intake!Cut
        <4> QED BY <2>2, <2>6, <3>2, <4>1 DEF webVars, answerVars
      <3>3. CASE Intake!RankingNext
        <4>1. UNCHANGED <<shelf, author, text, cut>>
          BY <3>3 DEF Intake!RankingNext, Intake!Ask, Intake!Preview, Intake!Forget
        <4> QED BY <2>2, <2>6, <3>3, <4>1 DEF webVars, answerVars
      <3> QED BY <2>6, <3>1, <3>2, <3>3 DEF IntakeStep
    <2> QED BY <1>4, <2>3, <2>4, <2>5, <2>6 DEF ChatsNext
  <1> QED BY <1>1, <1>2, <1>3, <1>4 DEF ConversationsNext

LEMMA ConversationsStep ==
    ASSUME ConversationsIInv, [ConversationsNext]_allVars
    PROVE  ConversationsIInv'
  BY PartsMove, WebInductive, FormsInductive, LeadsInductive, AnswersInductive, DraftsInductive,
     CutInductive, RankInductive DEF ConversationsIInv

LEMMA IntakeInitial == Intake!IntakeInit => DraftsIInv /\ CutIInv /\ RankIInv
  <1> SUFFICES ASSUME Intake!IntakeInit PROVE DraftsIInv /\ CutIInv /\ RankIInv
    OBVIOUS
  <1>1. DraftsIInv
    BY DEF Intake!IntakeInit, Intake!NoDraft, DraftsIInv, Intake!DraftsFollowOneAnother
  <1>2. CutIInv
    <2>1. PICK n \in 1..MaxText : text \in [1..n -> {"w", "."} \union Intake!Blank]
      BY DEF Intake!IntakeInit, Intake!Normalized
    <2>2. n \in Nat /\ n > 0 /\ text \in [1..n -> Letters]
      <3>1. {"w", "."} \union Intake!Blank = Letters
        BY DEF Intake!Blank, Letters
      <3> QED BY <2>1, <3>1, PartsAssumption DEF Intake!IntakeAssumption
    <2>3. text \in Seq(Letters) /\ Len(text) = n
      BY <2>2
    <2>4. cut = [start |-> 0, chunks |-> <<>>, done |-> FALSE]
      BY DEF Intake!IntakeInit, Intake!NoCut
    <2>5. /\ cut \in [start : Nat, chunks : Seq(Chunk), done : BOOLEAN]
          /\ cut.start = 0 /\ ~cut.done /\ cut.chunks = <<>>
      BY <2>4
    <2>6. Len(cut.chunks) = 0
      BY <2>5
    <2>7. GoForward(cut.chunks, cut.start)
      BY <2>6 DEF GoForward
    <2>8. \A i \in 1..Len(text) : ~(i <= cut.start \/ cut.done)
      BY <2>3, <2>2, <2>5
    <2> QED BY <2>2, <2>3, <2>5, <2>7, <2>8 DEF CutIInv
  <1>3. RankIInv
    BY NoQuestionHolds DEF Intake!IntakeInit
  <1> QED BY <1>1, <1>2, <1>3

LEMMA ConversationsInitial == ConversationsInit => ConversationsIInv
  BY WebInitial, FormsInitial, LeadsInitial, AnswersInitial, IntakeInitial
  DEF ConversationsInit, ConversationsIInv

THEOREM ConversationsInductive == ConversationsSpec => []ConversationsIInv
  BY ConversationsInitial, ConversationsStep, PTL DEF ConversationsSpec, allVars

(* A web chat of the composition is a web chat: what is proved of one holds *)
(* of it.                                                                   *)
THEOREM ConversationsHoldChats == ConversationsSpec => Spec
  <1>1. ConversationsInit => Init
    BY DEF ConversationsInit
  <1>2. [ConversationsNext]_allVars => [Next]_vars
    BY PartsMove
  <1> QED BY <1>1, <1>2, PTL DEF ConversationsSpec, Spec, allVars

(* use-koral-web-chat.ts sendExisting and its error handlers, the drafts of *)
(* the case forms and the form of the contact page: what a visitor wrote    *)
(* stays on the page until the server has stored it, whichever answers are  *)
(* lost, late or refused, and is stored once.                               *)
THEOREM NothingSaidIsLostCorrect == ConversationsSpec => []NothingSaidIsLost
  <1>1. ConversationsIInv => NothingSaidIsLost
    BY FormsKept, LeadsKept DEF ConversationsIInv, WebIInv, NothingSaidIsLost
  <1> QED BY <1>1, ConversationsInductive, PTL

(* koral-orchestration.pipeline.ts and knowledge.service.ts: what leaves    *)
(* for the provider is a public message and public passages, whoever is     *)
(* answered may be, drafts follow one another, a text of any length is cut  *)
(* without loss, and a chunk that answers the whole question is displaced   *)
(* only by others that do.                                                  *)
THEOREM AnswersArePublicCorrect == ConversationsSpec => []AnswersArePublic
  <1>1. ConversationsIInv => AnswersArePublic
    BY AnswersKept, CutKept DEF ConversationsIInv, DraftsIInv, RankIInv, AnswersArePublic, Intake!IntakeHolds
  <1> QED BY <1>1, ConversationsInductive, PTL

==============================================================================
