---------------------------- MODULE BoldPayments ----------------------------
(***************************************************************************)
(* The payment order of an obligation and its collection through Bold:     *)
(* payment-orders.service.ts (create), bold-payments.service.ts (create    *)
(* and status poll), bold-webhook.service.ts (receive, processDelivery)    *)
(* and payment-receipts.service.ts (issueIfNewlyApproved).                 *)
(*                                                                         *)
(* Requests interleave at every await.  A transaction that first takes the *)
(* row lock its reads and writes depend on, and runs no external call, is  *)
(* one step.  createPayment's transaction spans the provider call, so it   *)
(* is three steps that hold the lock of its order, and its writes appear   *)
(* only at the commit; create is two steps, its read and its insert, that  *)
(* hold the lock of the obligation.                                        *)
(***************************************************************************)
EXTENDS Integers, Sequences, FiniteSets

CONSTANTS Orders,             \* identities a payment order may take
          Obligations,        \* outstanding obligations with a payable plan
          Requests,           \* HTTP requests being served
          ProductionPayments, \* the PRODUCTION_PAYMENTS_ENABLED setting
          NoOrder,            \* the target of an idle request
          NoObligation        \* the obligation of an order not created yet

ASSUME ConstantsAssumption ==
    /\ ProductionPayments \in BOOLEAN
    /\ NoOrder \notin Orders
    /\ NoObligation \notin Obligations

VARIABLES
    status,    \* payment_orders.status, "NONE" before the row exists
    owner,     \* payment_orders.obligation_id
    expired,   \* whether payment_orders.expires_at has passed
    attempts,  \* statuses of the order's payment_attempts, oldest first
    receipts,  \* number of payment_receipts rows of the order
    event,     \* payment_events of each webhook, by order and Bold status
    req,       \* where each request stands
    bold       \* what Bold itself holds for the order's reference

vars == <<status, owner, expired, attempts, receipts, event, req, bold>>

-----------------------------------------------------------------------------
(* Statuses.  RUNNING stands for every Bold status that maps to the same    *)
(* pending result: RUNNING, PROCESSING, PENDING and any unknown one.        *)

BoldStatuses == {"RUNNING", "APPROVED", "REJECTED"}

(* A variant that forgets the refunded statuses, which the properties of    *)
(* Refunds.tla catch.                                                       *)
TerminalUntilRefunded == {"APPROVED", "REJECTED", "FAILED", "EXPIRED", "CANCELLED"}

TerminalOrderStatuses == {"APPROVED", "REJECTED", "FAILED", "EXPIRED",
                          "CANCELLED", "REFUNDED", "PARTIALLY_REFUNDED"}

OrderStatuses == {"DRAFT", "PENDING", "PROCESSING"} \union TerminalOrderStatuses

NonPayableStatuses == {"DRAFT"} \union TerminalOrderStatuses

TerminalAttemptStatuses == {"APPROVED", "REJECTED", "FAILED", "EXPIRED"}

AttemptStatuses == {"PENDING"} \union TerminalAttemptStatuses

(* Variants of the definitions below, each with a bug the properties catch. *)
UnknownIsApproved(s)     == IF s = "RUNNING" THEN "APPROVED" ELSE s
AnyTransition(current, next)           == TRUE
ReceiptPerAnswer(count, previous, next) == IF next = "APPROVED" THEN count + 1 ELSE count

MappedOrderStatus(s)   == IF s = "RUNNING" THEN "PROCESSING" ELSE s
MappedAttemptStatus(s) == IF s = "RUNNING" THEN "PENDING" ELSE s

CanTransitionOrder(current, next) ==
    current = next \/ current \notin TerminalOrderStatuses

CanTransitionAttempt(current, next) ==
    current = next \/ current \notin TerminalAttemptStatuses

(* What an order or an attempt becomes when Bold reports s.                 *)
OrderAfter(current, s) ==
    IF CanTransitionOrder(current, MappedOrderStatus(s))
      THEN MappedOrderStatus(s) ELSE current

AttemptAfter(current, s) ==
    IF CanTransitionAttempt(current, MappedAttemptStatus(s))
      THEN MappedAttemptStatus(s) ELSE current

(* issueIfNewlyApproved: one receipt, at the transition into APPROVED.      *)
ReceiptsAfter(count, previous, next) ==
    IF previous # "APPROVED" /\ next = "APPROVED" /\ count = 0
      THEN count + 1 ELSE count

-----------------------------------------------------------------------------
(* Requests and row locks.                                                  *)

Idle == [pc |-> "IDLE", obligation |-> NoObligation, order |-> NoOrder, answer |-> "NONE"]

Asking(pc, o) == [Idle EXCEPT !.pc = pc, !.order = o]

CreatePcs == {"CREATE_CALL", "CREATE_ANSWERED"}
PollPcs   == {"POLL_CALL", "POLL_ANSWERED"}

(* Variants without a row lock, and without the look for a pending attempt. *)
NotLocked(x)          == FALSE
NothingPending(o)     == FALSE
NothingBlocked(verified) == FALSE

(* SELECT ... FOR UPDATE of payment_orders, held by a createPayment until   *)
(* its transaction ends.  Writers of the row, and inserts whose foreign key *)
(* points at it, wait for it.                                               *)
Locked(o) == \E r \in Requests : req[r].pc \in CreatePcs /\ req[r].order = o

(* SELECT ... FOR UPDATE OF obligations, held by a create until it commits. *)
ObligationLocked(b) ==
    \E r \in Requests : req[r].pc = "ORDER_CREATE" /\ req[r].obligation = b

Exists(o) == status[o] # "NONE"

HasPendingAttempt(o) == \E i \in DOMAIN attempts[o] : attempts[o][i] = "PENDING"

LatestAttempt(o) == attempts[o][Len(attempts[o])]

WithLatestAttempt(o, s) == [attempts[o] EXCEPT ![Len(attempts[o])] = s]

-----------------------------------------------------------------------------

Init ==
    /\ status   = [o \in Orders |-> "NONE"]
    /\ owner    = [o \in Orders |-> NoObligation]
    /\ expired  = [o \in Orders |-> FALSE]
    /\ attempts = [o \in Orders |-> <<>>]
    /\ receipts = [o \in Orders |-> 0]
    /\ event    = [o \in Orders |-> [s \in BoldStatuses |-> "ABSENT"]]
    /\ req      = [r \in Requests |-> Idle]
    /\ bold     = [o \in Orders |-> "NONE"]

(* An order that PaymentOrdersService.create returns instead of a new one.  *)
Reusable(o, b) == owner[o] = b /\ status[o] = "PENDING" /\ ~expired[o]

(* PaymentOrdersService.create locks the obligation and looks for an order  *)
(* to reuse; it goes on only when there is none.                            *)
BeginCreateOrder(r, b) ==
    /\ req[r] = Idle
    /\ ~ObligationLocked(b)
    /\ ~\E p \in Orders : Reusable(p, b)
    /\ req' = [req EXCEPT ![r] = [Idle EXCEPT !.pc = "ORDER_CREATE", !.obligation = b]]
    /\ UNCHANGED <<status, owner, expired, attempts, receipts, event, bold>>

(* The order row, its audit entry and the consent commit together.          *)
CommitCreateOrder(r, o) ==
    /\ req[r].pc = "ORDER_CREATE"
    /\ ~Exists(o)
    /\ status' = [status EXCEPT ![o] = "PENDING"]
    /\ owner'  = [owner EXCEPT ![o] = req[r].obligation]
    /\ req'    = [req EXCEPT ![r] = Idle]
    /\ UNCHANGED <<expired, attempts, receipts, event, bold>>

(* No payment terms are published, or the process died.                     *)
RollbackCreateOrder(r) ==
    /\ req[r].pc = "ORDER_CREATE"
    /\ req' = [req EXCEPT ![r] = Idle]
    /\ UNCHANGED <<status, owner, expired, attempts, receipts, event, bold>>

(* The clock passes payment_orders.expires_at.                              *)
Expire(o) ==
    /\ Exists(o) /\ ~expired[o]
    /\ expired' = [expired EXCEPT ![o] = TRUE]
    /\ UNCHANGED <<status, owner, attempts, receipts, event, req, bold>>

-----------------------------------------------------------------------------
(* POST /payments/bold/create.                                              *)

(* Lock the order, refuse a non-payable one, replay the answer already      *)
(* recorded for a pending attempt (no write), else go on to ask Bold.  A    *)
(* pending attempt always has its transaction row: one commit writes both.  *)
BeginCreatePayment(r, o) ==
    /\ req[r] = Idle
    /\ Exists(o) /\ ~Locked(o)
    /\ status[o] \notin NonPayableStatuses
    /\ ~HasPendingAttempt(o)
    /\ req' = [req EXCEPT ![r] = Asking("CREATE_CALL", o)]
    /\ UNCHANGED <<status, owner, expired, attempts, receipts, event, bold>>

(* Bold takes the call.  A reference it already knows keeps its state.      *)
BoldAnswersCreate(r, s) ==
    LET o == req[r].order IN
    /\ req[r].pc = "CREATE_CALL"
    /\ bold[o] \in {"NONE", s}
    /\ bold' = [bold EXCEPT ![o] = s]
    /\ req'  = [req EXCEPT ![r] = [req[r] EXCEPT !.pc = "CREATE_ANSWERED", !.answer = s]]
    /\ UNCHANGED <<status, owner, expired, attempts, receipts, event>>

(* The transaction commits: attempt, order, receipt, transaction row.       *)
CommitCreatePayment(r) ==
    LET o == req[r].order
        s == req[r].answer
        next == OrderAfter("PROCESSING", s)
    IN
    /\ req[r].pc = "CREATE_ANSWERED"
    /\ attempts' = [attempts EXCEPT ![o] = Append(attempts[o], AttemptAfter("PENDING", s))]
    /\ status'   = [status EXCEPT ![o] = next]
    /\ receipts' = [receipts EXCEPT ![o] = ReceiptsAfter(receipts[o], "PROCESSING", next)]
    /\ req'      = [req EXCEPT ![r] = Idle]
    /\ UNCHANGED <<owner, expired, event, bold>>

(* The provider threw, the transaction timed out or the process died:       *)
(* everything is rolled back, whether or not Bold took the call.            *)
RollbackCreatePayment(r) ==
    /\ req[r].pc \in CreatePcs
    /\ req' = [req EXCEPT ![r] = Idle]
    /\ UNCHANGED <<status, owner, expired, attempts, receipts, event, bold>>

-----------------------------------------------------------------------------
(* GET /payments/:reference/status.                                         *)

(* Without an unresolved latest attempt the answer comes from the database. *)
BeginPoll(r, o) ==
    /\ req[r] = Idle
    /\ Exists(o)
    /\ attempts[o] # <<>> /\ LatestAttempt(o) \notin TerminalAttemptStatuses
    /\ req' = [req EXCEPT ![r] = Asking("POLL_CALL", o)]
    /\ UNCHANGED <<status, owner, expired, attempts, receipts, event, bold>>

BoldAnswersPoll(r) ==
    /\ req[r].pc = "POLL_CALL"
    /\ bold[req[r].order] # "NONE"
    /\ req' = [req EXCEPT ![r] =
                 [req[r] EXCEPT !.pc = "POLL_ANSWERED", !.answer = bold[req[r].order]]]
    /\ UNCHANGED <<status, owner, expired, attempts, receipts, event, bold>>

(* The order and the attempt are read again under the lock before they are  *)
(* moved: the answer may be older than what is recorded by now.             *)
CommitPoll(r) ==
    LET o == req[r].order
        s == req[r].answer
        next == OrderAfter(status[o], s)
    IN
    /\ req[r].pc = "POLL_ANSWERED"
    /\ ~Locked(o)
    /\ attempts' = [attempts EXCEPT ![o] = WithLatestAttempt(o, AttemptAfter(LatestAttempt(o), s))]
    /\ status'   = [status EXCEPT ![o] = next]
    /\ receipts' = [receipts EXCEPT ![o] = ReceiptsAfter(receipts[o], status[o], next)]
    /\ req'      = [req EXCEPT ![r] = Idle]
    /\ UNCHANGED <<owner, expired, event, bold>>

(* Bold failed, the commit failed or the process died.                      *)
AbandonPoll(r) ==
    /\ req[r].pc \in PollPcs
    /\ req' = [req EXCEPT ![r] = Idle]
    /\ UNCHANGED <<status, owner, expired, attempts, receipts, event, bold>>

-----------------------------------------------------------------------------
(* POST /webhooks/bold.  Bold may announce any status it has held, in any   *)
(* order and any number of times.                                           *)

Announceable(o) == IF bold[o] = "NONE" THEN {} ELSE {"RUNNING", bold[o]}

(* The event row is unique by its payload: a second delivery is acknowledged*)
(* and dropped.  A first one is stored and its processing starts, detached. *)
ReceiveWebhook(o, s) ==
    /\ Exists(o) /\ ~Locked(o)
    /\ s \in Announceable(o)
    /\ event[o][s] = "ABSENT"
    /\ event' = [event EXCEPT ![o][s] = "RECEIVED"]
    /\ UNCHANGED <<status, owner, expired, attempts, receipts, req, bold>>

(* With PRODUCTION_PAYMENTS_ENABLED an unverified notice moves nothing, and *)
(* validateNotification reports every notice as unverified.                 *)
UnverifiedBlocked(verified) == ~verified /\ ProductionPayments

ProcessUnverified(o, s) ==
    /\ event[o][s] = "RECEIVED" /\ ~Locked(o)
    /\ event' = [event EXCEPT ![o][s] = "PROCESSED"]
    /\ UNCHANGED <<status, owner, expired, attempts, receipts, req, bold>>

ApplyDelivery(o, s) ==
    LET next == OrderAfter(status[o], s) IN
    /\ event[o][s] = "RECEIVED" /\ ~Locked(o)
    /\ attempts' = IF attempts[o] = <<>> THEN attempts
                   ELSE [attempts EXCEPT ![o] =
                           WithLatestAttempt(o, AttemptAfter(LatestAttempt(o), s))]
    /\ status'   = [status EXCEPT ![o] = next]
    /\ receipts' = [receipts EXCEPT ![o] = ReceiptsAfter(receipts[o], status[o], next)]
    /\ event'    = [event EXCEPT ![o][s] = "PROCESSED"]
    /\ UNCHANGED <<owner, expired, req, bold>>

ProcessDelivery(o, s) ==
    IF UnverifiedBlocked(FALSE) THEN ProcessUnverified(o, s) ELSE ApplyDelivery(o, s)

(* The detached call failed, or the process died before it ran.  The event  *)
(* row stays with processed_at null, and nothing starts it again.           *)
LoseDelivery(o, s) ==
    /\ event[o][s] = "RECEIVED"
    /\ event' = [event EXCEPT ![o][s] = "STRANDED"]
    /\ UNCHANGED <<status, owner, expired, attempts, receipts, req, bold>>

(* Bold resolves a payment it was still working on.                         *)
BoldSettles(o, s) ==
    /\ bold[o] = "RUNNING" /\ s \in {"APPROVED", "REJECTED"}
    /\ bold' = [bold EXCEPT ![o] = s]
    /\ UNCHANGED <<status, owner, expired, attempts, receipts, event, req>>

-----------------------------------------------------------------------------

OrderStep(r) ==
    \/ \E b \in Obligations : BeginCreateOrder(r, b)
    \/ \E o \in Orders : CommitCreateOrder(r, o)
    \/ RollbackCreateOrder(r)

CreateStep(r) ==
    \/ \E o \in Orders : BeginCreatePayment(r, o)
    \/ \E s \in BoldStatuses : BoldAnswersCreate(r, s)
    \/ CommitCreatePayment(r)
    \/ RollbackCreatePayment(r)

PollStep(r) ==
    \/ \E o \in Orders : BeginPoll(r, o)
    \/ BoldAnswersPoll(r)
    \/ CommitPoll(r)
    \/ AbandonPoll(r)

WebhookStep(o, s) ==
    \/ ReceiveWebhook(o, s)
    \/ ProcessDelivery(o, s)
    \/ LoseDelivery(o, s)

Next ==
    \/ \E o \in Orders : Expire(o)
    \/ \E r \in Requests : OrderStep(r) \/ CreateStep(r) \/ PollStep(r)
    \/ \E o \in Orders, s \in BoldStatuses : WebhookStep(o, s) \/ BoldSettles(o, s)

Spec == Init /\ [][Next]_vars

-----------------------------------------------------------------------------
(* Properties.                                                              *)

(* Every variable keeps its type: the shapes of the rows of payment_orders, *)
(* payment_attempts, payment_receipts and payment_events.                   *)
TypeOK ==
    /\ status   \in [Orders -> OrderStatuses \union {"NONE"}]
    /\ owner    \in [Orders -> Obligations \union {NoObligation}]
    /\ expired  \in [Orders -> BOOLEAN]
    /\ attempts \in [Orders -> Seq(AttemptStatuses)]
    /\ receipts \in [Orders -> Nat]
    /\ event    \in [Orders -> [BoldStatuses -> {"ABSENT", "RECEIVED", "PROCESSED", "STRANDED"}]]
    /\ req      \in [Requests -> [pc : {"IDLE", "ORDER_CREATE"} \union CreatePcs \union PollPcs,
                                  obligation : Obligations \union {NoObligation},
                                  order : Orders \union {NoOrder},
                                  answer : BoldStatuses \union {"NONE"}]]
    /\ bold     \in [Orders -> BoldStatuses \union {"NONE"}]

(* The statuses an order has only once a payment was approved.              *)
PaidStatuses == {"APPROVED", "REFUNDED", "PARTIALLY_REFUNDED"}

(* An approved order has exactly one receipt and no other order has any,    *)
(* whichever of create, poll and webhook got there first and however often  *)
(* the others repeat it.                                                    *)
ReceiptIffPaid ==
    \A o \in Orders : receipts[o] = IF status[o] \in PaidStatuses THEN 1 ELSE 0

(* An order never collects a second attempt: once one is recorded, every    *)
(* later create request replays it or is refused.                           *)
SingleAttempt == \A o \in Orders : Len(attempts[o]) <= 1

(* The latest attempt and its order never tell different stories, though    *)
(* three handlers move them independently from answers of different ages.   *)
AttemptAgreesWithOrder ==
    \A o \in Orders :
        attempts[o] # <<>> =>
            \/ LatestAttempt(o) = "PENDING"  /\ status[o] = "PROCESSING"
            \/ LatestAttempt(o) = "APPROVED" /\ status[o] \in PaidStatuses
            \/ LatestAttempt(o) = "REJECTED" /\ status[o] = "REJECTED"

(* The ledger of an order is consistent: its rows have their types, and its *)
(* status, its attempt and its receipt tell the same story.                 *)
LedgerAgrees == TypeOK /\ ReceiptIffPaid /\ SingleAttempt /\ AttemptAgreesWithOrder

(* No order is approved that Bold did not approve, and none is rejected     *)
(* that Bold did not reject: an answer that arrives late invents nothing.   *)
OutcomeIsBolds ==
    \A o \in Orders :
        /\ status[o] \in PaidStatuses => bold[o] = "APPROVED"
        /\ status[o] = "REJECTED"     => bold[o] = "REJECTED"

(* Bold is not asked to collect an order again once an attempt is on        *)
(* record: no create call is in flight for such an order.                   *)
NoSecondCollection ==
    \A o \in Orders, r \in Requests :
        req[r].pc \in CreatePcs /\ req[r].order = o => attempts[o] = <<>>

(* Concurrent creates never leave two orders of one obligation that can     *)
(* both still be handed out as payable.                                     *)
OneReusableOrder ==
    \A b \in Obligations, o, p \in Orders :
        Reusable(o, b) /\ Reusable(p, b) => o = p

(* With PRODUCTION_PAYMENTS_ENABLED every paid order has the approved       *)
(* attempt that a refund needs: webhooks approve nothing on their own.      *)
PaidHasAttempt ==
    \A o \in Orders :
        status[o] \in PaidStatuses => attempts[o] # <<>> /\ LatestAttempt(o) = "APPROVED"

(* createPayment's comment: a second request for the same order "takes the  *)
(* idempotent-replay branch below instead of calling Bold a second time".   *)
(* Bold gets no create call for a reference it already took one for.        *)
BoldAskedOnce ==
    [][\A r \in Requests :
          req[r].pc # "CREATE_CALL" /\ req'[r].pc = "CREATE_CALL" =>
              bold[req'[r].order] = "NONE"]_vars

(* A terminal order never moves again, except from approved to one of the   *)
(* two refunded statuses (Refunds.tla).                                     *)
TerminalOrderIsFinal ==
    [][\A o \in Orders :
          status[o] \in TerminalOrderStatuses =>
              \/ status'[o] = status[o]
              \/ status[o] \in PaidStatuses
                 /\ status'[o] \in {"REFUNDED", "PARTIALLY_REFUNDED"}]_vars
=============================================================================
