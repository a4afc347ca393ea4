----------------------------- MODULE MCServices ------------------------------
(* The portal, the Master installments paid through it, the AI gateway, the  *)
(* outbox and the back office on small sets: two requests, inferences,       *)
(* recipients or transactions at a time.  They share no state, so a          *)
(* behaviour follows one of them, or one of their independent rows.          *)
EXTENDS MasterPayments, SelfService, AiGateway, BackOffice, TLC

CONSTANTS h1, h2, k1, i1, i2, Jobs, Workers, NoWorker

VARIABLES
    part,
    job, com, task, drain, accepted

\* A communication with a recipient per job, when any query of a delivery may
\* fail.
Outbox == INSTANCE NotificationOutbox WITH
    Linked <- Jobs, MaxAttempts <- 2, ClaimBound <- 2, MayCrash <- TRUE,
    FailingQueries <- {"INVALID", "DELIVERED", "UNCERTAIN", "RETRYABLE", "PERMANENT", "CATCH",
                       "SYNC", "WRITE"}

ASSUME OutboxAssumed == Outbox!OutboxAssumption

outboxVars == <<job, com, task, drain, accepted>>

ServicesInit ==
    /\ part \in {"master", "access", "mutation", "contact", "gateway", "outbox",
                 "request", "case", "reconciliation", "opportunity"}
    /\ Init /\ PortalInit /\ GatewayInit /\ Outbox!Init /\ OfficeInit
    /\ opportunity.opened \in
           IF part = "opportunity" THEN {"NEW_PROSPECT", "ACTIVE_PARTNER"} ELSE {"NEW_PROSPECT"}

PortalStep ==
    \/ part = "access" /\ AccessNext
    \/ part = "mutation" /\ MutationNext
    \/ part = "contact" /\ ContactNext

OfficeStep ==
    \/ part = "request" /\ RequestsNext
    \/ part = "case" /\ CasesNext
    \/ part = "reconciliation" /\ ReconciliationNext
    \/ part = "opportunity" /\ PipelineNext

ServicesNext ==
    /\ UNCHANGED part
    /\ \/ /\ part = "master" /\ Next
          /\ UNCHANGED <<portalVars, gatewayVars, outboxVars, officeVars>>
       \/ PortalStep /\ UNCHANGED <<vars, gatewayVars, outboxVars, officeVars>>
       \/ /\ part = "gateway" /\ GatewayNext
          /\ UNCHANGED <<vars, portalVars, outboxVars, officeVars>>
       \/ /\ part = "outbox" /\ Outbox!Next
          /\ UNCHANGED <<vars, portalVars, gatewayVars, officeVars>>
       \/ OfficeStep /\ UNCHANGED <<vars, portalVars, gatewayVars, outboxVars>>

servicesVars == <<part, vars, portalVars, gatewayVars, outboxVars, officeVars>>

ServicesSpec == ServicesInit /\ [][ServicesNext]_servicesVars

Symmetry == Permutations(Staff)

-----------------------------------------------------------------------------

\* The portal admits and answers once what it is asked once, and the core
\* hears of verified contacts only and is reported as it answered.
PortalKeepsItsWord == PortalGrantsOnce /\ ContactIsVerifiedAndTrue

\* The budget of a day holds, and a half-open circuit always has its probe.
GatewayHoldsItsLimits == DailyCeiling /\ ProbeInFlight

\* A communication claims no outcome its jobs do not have.
CommunicationIsTrue == part = "outbox" => Outbox!CommunicationIsTrue

\* Cases end with their evidence on record, resolved reconciliations are done,
\* and histories tell what happened.
OfficeRecordsAgree == CasesKeepTheirEvidence /\ ResolvedRunsAreDone /\ HistoryIsTold
=============================================================================
