----------------------------- MODULE BackOffice ------------------------------
(* What the staff works through: data-subject requests, PQR cases, the       *)
(* differences a reconciliation found, and the opportunities of the CRM.     *)
(* The handlers share one shape: a transaction reads a row without locking   *)
(* it, decides, and writes by id what it decided, so another transaction may *)
(* come in between; a transaction that fails leaves no trace.                *)
(*                                                                           *)
(* Bounds: MaxRuns reconciliations, MaxChanges writes of an opportunity.     *)
EXTENDS Naturals, Sequences

CONSTANTS
    Staff,          \* requests of the staff in flight
    Issues,         \* an order and a kind of difference
    MaxRuns,
    MaxChanges

VARIABLES
    desk,           \* what each transaction has read and will write
    request,        \* the DataSubjectRequest row, and what the last transition carried
    case,           \* the PqrCase row, likewise
    wrong,          \* external: the differences the payment tables show now
    difference,     \* ReconciliationDifference rows, unique by issue
    reconciliations,\* resolutionStatus of each Reconciliation
    opportunity,    \* the Opportunity row; version stands for updatedAt, and the
                    \* audit log of its creation keeps the stage it was opened at
    history,        \* OpportunityStatusHistory, with the stage it replaced
    agreements      \* Agreement rows of the opportunity

caseVars == <<request, case>>
reconciliationVars == <<wrong, difference, reconciliations>>
pipelineVars == <<opportunity, history, agreements>>
officeVars == <<desk, caseVars, reconciliationVars, pipelineVars>>

\* The stages agreements may be made in, two of the others, and a lost one.
AgreementStages == {"CONTRACT_PENDING", "ACTIVE_PARTNER"}
Stages == AgreementStages \union {"NEW_PROSPECT", "LOST"}

NoTask == [step |-> "none"]
NoDifference == [run |-> 0, open |-> FALSE]

OfficeInit ==
    /\ desk = [s \in Staff |-> NoTask]
    /\ request = [status |-> "RECEIVED", identity |-> "absent", carried |-> "absent"]
    /\ case = [status |-> "RECEIVED", resolution |-> "absent", carried |-> "absent"]
    /\ wrong = {}
    /\ difference = [i \in Issues |-> NoDifference]
    /\ reconciliations = <<>>
    /\ \E first \in Stages : opportunity = [stage |-> first, opened |-> first, version |-> 0]
    /\ history = <<>>
    /\ agreements = 0

Doing(s, step) == desk[s].step = step
Take(s, task) == desk' = [desk EXCEPT ![s] = task]
Finish(s) == Take(s, NoTask)

\* The transaction fails, or its process stops.
Rollback(s) ==
    /\ ~Doing(s, "none")
    /\ Finish(s)
    /\ UNCHANGED <<caseVars, reconciliationVars, pipelineVars>>

-----------------------------------------------------------------------------
(* Data-subject requests and PQR cases *)

RequestTargets == [
    RECEIVED |-> {"IDENTITY_VERIFICATION", "REJECTED_WITH_REASON", "CLOSED"},
    IDENTITY_VERIFICATION |->
        {"IN_REVIEW", "INFORMATION_REQUIRED", "REJECTED_WITH_REASON", "CLOSED"},
    IN_REVIEW |-> {"INFORMATION_REQUIRED", "RESOLVED", "REJECTED_WITH_REASON", "CLOSED"},
    INFORMATION_REQUIRED |-> {"IN_REVIEW", "REJECTED_WITH_REASON", "CLOSED"},
    RESOLVED |-> {"CLOSED"},
    REJECTED_WITH_REASON |-> {"CLOSED"},
    CLOSED |-> {}]

CaseTargets == [
    RECEIVED |-> {"ASSIGNED", "CLOSED"},
    ASSIGNED |-> {"IN_REVIEW", "CLOSED"},
    IN_REVIEW |-> {"INFORMATION_REQUIRED", "RESOLVED", "CLOSED"},
    INFORMATION_REQUIRED |-> {"IN_REVIEW", "CLOSED"},
    RESOLVED |-> {"CLOSED", "REOPENED"},
    CLOSED |-> {"REOPENED"},
    REOPENED |-> {"ASSIGNED", "IN_REVIEW", "CLOSED"}]

\* A text of the row or of a transition may be missing, or be there and empty.
Texts == {"absent", "empty", "text"}

\* The text a transition carries is written, the empty one too.
Written(given, read) == IF given = "absent" THEN read ELSE given

\* given: the outcome of an identity verification the transition carries.
TransitionRequest(s, to, given) ==
    /\ Doing(s, "none")
    /\ to \in RequestTargets[request.status]
    /\ to = "RESOLVED" => "text" \in {request.identity, given}
    /\ Take(s, [step |-> "request", to |-> to, given |-> given, read |-> request])
    /\ UNCHANGED <<caseVars, reconciliationVars, pipelineVars>>

\* Mutant: a column the transition does not carry is cleared.
CarriedOnly(s) == desk[s].given

IdentityWritten(s) == Written(desk[s].given, desk[s].read.identity)

WriteRequest(s) ==
    /\ Doing(s, "request")
    /\ request' = [status |-> desk[s].to, identity |-> IdentityWritten(s),
                   carried |-> desk[s].given]
    /\ Finish(s)
    /\ UNCHANGED <<case, reconciliationVars, pipelineVars>>

RequestsNext ==
    \E s \in Staff :
        \/ \E to \in DOMAIN RequestTargets, given \in Texts : TransitionRequest(s, to, given)
        \/ WriteRequest(s) \/ Rollback(s)

TransitionCase(s, to, given) ==
    /\ Doing(s, "none")
    /\ to \in CaseTargets[case.status]
    /\ to = "CLOSED" => "text" \in {case.resolution, given}
    /\ Take(s, [step |-> "case", to |-> to, given |-> given, read |-> case])
    /\ UNCHANGED <<caseVars, reconciliationVars, pipelineVars>>

WriteCase(s) ==
    /\ Doing(s, "case")
    /\ case' = [status |-> desk[s].to, carried |-> desk[s].given,
                resolution |-> Written(desk[s].given, desk[s].read.resolution)]
    /\ Finish(s)
    /\ UNCHANGED <<request, reconciliationVars, pipelineVars>>

CasesNext ==
    \E s \in Staff :
        \/ \E to \in DOMAIN CaseTargets, given \in Texts : TransitionCase(s, to, given)
        \/ WriteCase(s) \/ Rollback(s)

-----------------------------------------------------------------------------
(* Reconciliation *)

Recorded(i) == difference[i] # NoDifference

\* An unfinished transaction has inserted or resolved the row of the issue.
RowHeld(i, s) == \E other \in Staff \ {s} :
    \/ Doing(other, "record") /\ i \in desk[other].new
    \/ Doing(other, "mark") /\ i = desk[other].issue

\* Payments go wrong and are put right, whatever the staff does.
PaymentsChange ==
    /\ wrong' \in SUBSET Issues
    /\ UNCHANGED <<desk, difference, reconciliations, caseVars, pipelineVars>>

\* The payment tables are read before the transaction begins.
RunReconciliation(s) ==
    /\ Doing(s, "none") /\ Len(reconciliations) < MaxRuns
    /\ Take(s, [step |-> "record", left |-> wrong, new |-> {}, missing |-> {}])
    /\ UNCHANGED <<caseVars, reconciliationVars, pipelineVars>>

\* A candidate is skipped when its row is there, else found missing ...
LookUp(s, i) ==
    /\ Doing(s, "record") /\ i \in desk[s].left /\ desk[s].missing = {}
    /\ Take(s, [desk[s] EXCEPT !.left = @ \ {i}, !.missing = IF Recorded(i) THEN {} ELSE {i}])
    /\ UNCHANGED <<caseVars, reconciliationVars, pipelineVars>>

\* ... and inserted, which the unique index refuses when a run got there first.
InsertDifference(s, i) ==
    /\ Doing(s, "record") /\ i \in desk[s].missing
    /\ ~RowHeld(i, s)
    /\ IF Recorded(i) THEN Finish(s)
       ELSE Take(s, [desk[s] EXCEPT !.new = @ \union {i}, !.missing = {}])
    /\ UNCHANGED <<caseVars, reconciliationVars, pipelineVars>>

CommitRun(s) ==
    /\ Doing(s, "record") /\ desk[s].left = {} /\ desk[s].missing = {}
    /\ Len(reconciliations) < MaxRuns
    /\ reconciliations' = Append(reconciliations, "OPEN")
    /\ difference' = [i \in Issues |->
           IF i \in desk[s].new
           THEN [run |-> Len(reconciliations'), open |-> TRUE]
           ELSE difference[i]]
    /\ Finish(s)
    /\ UNCHANGED <<wrong, caseVars, pipelineVars>>

ResolveDifference(s, i) ==
    /\ Doing(s, "none")
    /\ Recorded(i) /\ difference[i].open
    /\ Take(s, [step |-> "resolve", issue |-> i])
    /\ UNCHANGED <<caseVars, reconciliationVars, pipelineVars>>

\* Mutant: the count looks for one difference left, its own included.
NoneButOne(i) == \A j, k \in Issues \ {i} :
    difference[j].run = difference[i].run /\ difference[k].run = difference[i].run
        /\ difference[j].open /\ difference[k].open => j = k

\* remainingOpen counts what others have committed and the row just updated.
NoneLeftOpen(i) == \A j \in Issues \ {i} :
    difference[j].run = difference[i].run => ~difference[j].open

MarkResolved(s) ==
    /\ Doing(s, "resolve")
    /\ LET i == desk[s].issue IN
       /\ ~RowHeld(i, s)
       /\ Take(s, [step |-> "mark", issue |-> i, last |-> NoneLeftOpen(i)])
    /\ UNCHANGED <<caseVars, reconciliationVars, pipelineVars>>

CommitResolution(s) ==
    /\ Doing(s, "mark")
    /\ LET i == desk[s].issue IN
       /\ difference' = [difference EXCEPT ![i].open = FALSE]
       /\ reconciliations' =
              IF desk[s].last
              THEN [reconciliations EXCEPT ![difference[i].run] = "RESOLVED"]
              ELSE reconciliations
    /\ Finish(s)
    /\ UNCHANGED <<wrong, caseVars, pipelineVars>>

ReconciliationNext ==
    \/ PaymentsChange
    \/ \E s \in Staff :
        \/ RunReconciliation(s) \/ CommitRun(s)
        \/ \E i \in Issues : LookUp(s, i) \/ InsertDifference(s, i) \/ ResolveDifference(s, i)
        \/ MarkResolved(s) \/ CommitResolution(s) \/ Rollback(s)

-----------------------------------------------------------------------------
(* Opportunities *)

\* A change carries the updatedAt its page showed, or none.
Guards == {[given |-> FALSE, seen |-> 0]} \union
          {[given |-> TRUE, seen |-> v] : v \in 0..opportunity.version}

\* Mutant: the condition on updatedAt is dropped.
AnyVersion(s) == TRUE

Passes(s) == desk[s].guard.given => desk[s].guard.seen = opportunity.version

Touched(row) == [row EXCEPT !.version = @ + 1]

ChangeStage(s, to, guard) ==
    /\ Doing(s, "none")
    /\ Take(s, [step |-> "stage", to |-> to, from |-> opportunity.stage, guard |-> guard])
    /\ UNCHANGED <<caseVars, reconciliationVars, pipelineVars>>

WriteStage(s) ==
    /\ Doing(s, "stage")
    /\ opportunity.version < MaxChanges
    /\ IF Passes(s)
       THEN /\ opportunity' = [Touched(opportunity) EXCEPT !.stage = desk[s].to]
            /\ history' = Append(history, [from |-> desk[s].from, to |-> desk[s].to,
                   replaced |-> opportunity.stage, guarded |-> desk[s].guard.given])
       ELSE UNCHANGED <<opportunity, history>>
    /\ Finish(s)
    /\ UNCHANGED <<agreements, caseVars, reconciliationVars>>

AssignOpportunity(s, guard) ==
    /\ Doing(s, "none") /\ guard.given
    /\ guard.seen = opportunity.version /\ opportunity.version < MaxChanges
    /\ opportunity' = Touched(opportunity)
    /\ UNCHANGED <<desk, history, agreements, caseVars, reconciliationVars>>

CreateAgreement(s) ==
    /\ Doing(s, "none")
    /\ opportunity.stage \in AgreementStages
    /\ Take(s, [step |-> "agreement"])
    /\ UNCHANGED <<caseVars, reconciliationVars, pipelineVars>>

WriteAgreement(s) ==
    /\ Doing(s, "agreement")
    /\ agreements < MaxChanges
    /\ agreements' = agreements + 1
    /\ Finish(s)
    /\ UNCHANGED <<opportunity, history, caseVars, reconciliationVars>>

PipelineNext ==
    \E s \in Staff :
        \/ \E to \in Stages, guard \in Guards : ChangeStage(s, to, guard)
        \/ WriteStage(s)
        \/ \E guard \in Guards : AssignOpportunity(s, guard)
        \/ CreateAgreement(s) \/ WriteAgreement(s) \/ Rollback(s)

-----------------------------------------------------------------------------
(* Properties *)

\* A resolved request has an identity verification on record and a closed case
\* a resolution, though another transition may write its older reading over
\* them; only the transition that resolved or closed can have erased them, by
\* carrying an empty text itself (data-subject-requests.service.ts and
\* pqr-cases.service.ts transition).
CasesKeepTheirEvidence ==
    /\ request.status = "RESOLVED" => request.identity = "text" \/ request.carried = "empty"
    /\ case.status = "CLOSED" => case.resolution = "text" \/ case.carried = "empty"

\* A reconciliation marked resolved has no difference left open
\* (reconciliation.service.ts resolveDifference).
ResolvedRunsAreDone ==
    \A i \in Issues :
        difference[i].open => reconciliations[difference[i].run] = "OPEN"

\* The history of a change guarded by updatedAt names the stage it replaced, and
\* an agreement rests on an opportunity that was opened at, or reached, a stage
\* for it (crm.service.ts createOpportunity, changeStage and createAgreement).
HistoryIsTold ==
    /\ \A n \in DOMAIN history : history[n].guarded => history[n].from = history[n].replaced
    /\ agreements > 0 => \/ opportunity.opened \in AgreementStages
                         \/ \E n \in DOMAIN history : history[n].to \in AgreementStages
=============================================================================
