------------------------------- MODULE Plans --------------------------------
(* The versions of one commercial plan, changed by idempotent requests.      *)
(*                                                                           *)
(* A request carries an Idempotency-Key and the revision its author saw.     *)
(* AdminBusinessIdempotencyService looks the key up, then runs the change    *)
(* and stores the key in one READ COMMITTED transaction; the changes lock    *)
(* the plan or the version, so from there on the transaction is one step.    *)
(* Clients send a request again under its key when they got no answer.       *)
(*                                                                           *)
(* Bound: MaxRevision changes of one version.                                *)
EXTENDS Naturals, TLC

CONSTANTS
    PlanVersions,   \* version rows of the plan
    Clients,        \* the staff whose requests arrive
    Senders,        \* HTTP requests in flight
    MaxRevision,
    NoPlan          \* no version

\* What the constants must be.
ASSUME PlansAssumption == NoPlan \notin PlanVersions /\ MaxRevision \in Nat

VARIABLES
    plan,           \* PlanVersion rows
    currentPlan,    \* Plan.currentVersionId
    stored,         \* AdminIdempotency rows, by the request their key stands for
    sent,           \* the request each handler is working on
    repeated        \* history: requests that took effect more than once

plansVars == <<plan, currentPlan, stored, sent, repeated>>

Operations == {"create", "update", "review", "publish", "retire"}

NoRequest == [by |-> "nobody", op |-> "none", version |-> NoPlan, revision |-> 0]

PlansInit ==
    /\ plan = [v \in PlanVersions |-> [status |-> "ABSENT", revision |-> 0]]
    /\ currentPlan = NoPlan
    /\ stored = {}
    /\ sent = [s \in Senders |-> NoRequest]
    /\ repeated = {}

Drafted == {v \in PlanVersions : plan[v].status # "ABSENT"}

\* What a client may ask, each time under the same key: a new version, or a
\* change of one at the revision it holds when the client looks.  Who asks for
\* a change does not matter: a second one at that revision is refused anyway.
Asked ==
    [by : Clients, op : {"create"}, version : {NoPlan}, revision : {0}]
    \union {[by |-> "anyone", op |-> op, version |-> v, revision |-> plan[v].revision] :
               op \in Operations \ {"create"}, v \in Drafted}

-----------------------------------------------------------------------------

\* The first lookup.  A key already stored is answered at once: a replay, or a
\* conflict when it was used for another request.  Neither changes a row.
Execute(s, q) ==
    /\ sent[s] = NoRequest
    /\ q \notin stored
    /\ sent' = [sent EXCEPT ![s] = q]
    /\ UNCHANGED <<plan, currentPlan, stored, repeated>>

\* The transaction throws, or the process stops before the commit.
Abandon(s) ==
    /\ sent[s] # NoRequest
    /\ sent' = [sent EXCEPT ![s] = NoRequest]
    /\ UNCHANGED <<plan, currentPlan, stored, repeated>>

Touch(v, status) == [plan EXCEPT ![v] = [status |-> status, revision |-> plan[v].revision + 1]]

CreatePlanVersion ==
    /\ Drafted # PlanVersions
    /\ plan' = [plan EXCEPT ![CHOOSE v \in PlanVersions \ Drafted : TRUE] =
                                [status |-> "DRAFT", revision |-> 0]]
    /\ UNCHANGED currentPlan

UpdatePlan(v) ==
    /\ plan[v].status = "DRAFT"
    /\ plan' = Touch(v, "DRAFT")
    /\ UNCHANGED currentPlan

SubmitPlan(v) ==
    /\ plan[v].status = "DRAFT"
    /\ plan' = Touch(v, "REVIEW")
    /\ UNCHANGED currentPlan

\* Mutant: any version that is not in force may be published.
PublishableAgain(v) == plan[v].status # "PUBLISHED"

Publishable(v) == plan[v].status = "REVIEW"

\* The plan is locked before the version is read again; the version in force
\* is retired with it.
PublishPlan(v) ==
    /\ Publishable(v)
    /\ plan' = [w \in PlanVersions |->
          IF w \in {v, currentPlan}
          THEN [status |-> IF w = v THEN "PUBLISHED" ELSE "RETIRED", revision |-> plan[w].revision + 1]
          ELSE plan[w]]
    /\ currentPlan' = v

RetirePlan(v) ==
    /\ plan[v].status = "PUBLISHED"
    /\ plan' = Touch(v, "RETIRED")
    /\ currentPlan' = IF currentPlan = v THEN NoPlan ELSE currentPlan

\* The change a request asks for, refused unless the revision is still current.
Work(q) ==
    \/ q.op = "create" /\ CreatePlanVersion
    \/ /\ q.op # "create"
       /\ plan[q.version].revision = q.revision
       /\ q.revision < MaxRevision
       /\ \/ q.op = "update" /\ UpdatePlan(q.version)
          \/ q.op = "review" /\ SubmitPlan(q.version)
          \/ q.op = "publish" /\ PublishPlan(q.version)
          \/ q.op = "retire" /\ RetirePlan(q.version)

\* Mutant: the key is looked up but not unique.
AnyKey(q) == TRUE

Unused(q) == q \notin stored

\* The change and its key commit together.  Losing the key's unique index to
\* the same request undoes the change and replays the winner's answer.
Commit(s) ==
    /\ sent[s] # NoRequest
    /\ Unused(sent[s])
    /\ Work(sent[s])
    /\ stored' = stored \union {sent[s]}
    /\ repeated' = IF sent[s] \in stored THEN repeated \union {sent[s]} ELSE repeated
    /\ sent' = [sent EXCEPT ![s] = NoRequest]

\* listPublished and assertContractSelectable, while the version's dates last.
Selectable == {v \in PlanVersions : plan[v].status = "PUBLISHED"}

PlansNext ==
    \E s \in Senders :
        \/ \E q \in Asked : Execute(s, q)
        \/ Commit(s)
        \/ Abandon(s)

PlansSpec == PlansInit /\ [][PlansNext]_plansVars

-----------------------------------------------------------------------------
(* Properties *)

\* A request takes effect at most once, however often it is sent, lost or
\* answered late (admin-business-idempotency.service.ts execute).
AppliedOnce == repeated = {}

Catalogue ==
    INSTANCE PublishedVersion WITH
        Versions <- PlanVersions, NoVersion <- NoPlan, current <- currentPlan,
        past <- {v \in PlanVersions : plan[v].status = "RETIRED"}

\* Only one version is in force, and one taken out of force never returns,
\* whatever was reviewed, published and retired at once (plans.service.ts
\* publish and retire): the plan is a published-version catalogue, whose
\* requests are applied once.
PlanIsCatalogue == Catalogue!PublishedSpec /\ []AppliedOnce
=============================================================================
