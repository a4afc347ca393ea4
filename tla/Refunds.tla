------------------------------ MODULE Refunds ------------------------------
(***************************************************************************)
(* Refunds of approved orders (refunds.service.ts: requestRefund,          *)
(* uploadEvidence, approveRefund), running beside everything BoldPayments  *)
(* does to the same orders.                                                *)
(*                                                                         *)
(* None of the three operations takes a lock: each reads its row, goes on  *)
(* (an insert, a file, a call to Bold) and then writes without looking     *)
(* again, all in one transaction that shows its writes at the commit.  So  *)
(* each is a step that reads and a step that commits.                      *)
(***************************************************************************)
EXTENDS BoldPayments, FiniteSetsExt

CONSTANTS RefundIds,   \* identities a refund may take
          Staff,       \* staff requests being served
          OrderAmount, \* amount_cents of every order
          MaxTaken,    \* bound: times Bold may take one refund
          NoRefund     \* the target of an idle staff request

(* What the constants must be.                                              *)
RefundAssumption ==
    /\ OrderAmount \in Nat \ {0} /\ MaxTaken \in Nat
    /\ NoRefund \notin RefundIds

VARIABLES
    refund,  \* the refunds rows
    staff,   \* where each staff request stands
    taken    \* how often Bold carried out each refund

refundVars == <<refund, staff, taken>>

RefundStatuses == {"PENDING_APPROVAL", "APPROVED", "FAILED"}

RefundedStatuses == {"REFUNDED", "PARTIALLY_REFUNDED"}

NoRow == [order |-> NoOrder, amount |-> 0, status |-> "ABSENT", evidence |-> FALSE]

StaffIdle == [pc |-> "IDLE", order |-> NoOrder, refund |-> NoRefund, amount |-> 0]

OfOrder(o) == {f \in RefundIds : refund[f].order = o}

(* Variants of the definitions below, each with a bug the properties catch. *)
AnyAmount             == 1 .. OrderAmount + 1
AlwaysPartial(amount) == "PARTIALLY_REFUNDED"

(* The amounts requestRefund accepts.                                       *)
Amounts == 1 .. OrderAmount

(* What an order must be for a refund to be requested on it.                *)
Refundable(o) == status[o] = "APPROVED"

(* What an order becomes when a refund of this amount is approved.          *)
StatusAfterRefund(amount) ==
    IF amount = OrderAmount THEN "REFUNDED" ELSE "PARTIALLY_REFUNDED"

-----------------------------------------------------------------------------

RefundInit ==
    /\ Init
    /\ refund  = [f \in RefundIds |-> NoRow]
    /\ staff   = [u \in Staff |-> StaffIdle]
    /\ taken   = [f \in RefundIds |-> 0]

(* requestRefund reads an approved order and checks the amount against it.  *)
BeginRequestRefund(u, o, a) ==
    /\ staff[u] = StaffIdle
    /\ Refundable(o)
    /\ staff' = [staff EXCEPT ![u] = [StaffIdle EXCEPT !.pc = "REQUEST", !.order = o, !.amount = a]]
    /\ UNCHANGED <<vars, refund, taken>>

(* The insert waits for a lock on the order its foreign key points at.      *)
CommitRequestRefund(u, f) ==
    /\ staff[u].pc = "REQUEST"
    /\ refund[f] = NoRow /\ ~Locked(staff[u].order)
    /\ refund' = [refund EXCEPT ![f] = [order |-> staff[u].order, amount |-> staff[u].amount,
                                        status |-> "PENDING_APPROVAL", evidence |-> FALSE]]
    /\ staff'  = [staff EXCEPT ![u] = StaffIdle]
    /\ UNCHANGED <<vars, taken>>

(* uploadEvidence reads a pending refund, writes the file, then the path.   *)
BeginUploadEvidence(u, f) ==
    /\ staff[u] = StaffIdle
    /\ refund[f].status = "PENDING_APPROVAL"
    /\ staff' = [staff EXCEPT ![u] = [StaffIdle EXCEPT !.pc = "EVIDENCE", !.refund = f]]
    /\ UNCHANGED <<vars, refund, taken>>

CommitUploadEvidence(u) ==
    /\ staff[u].pc = "EVIDENCE"
    /\ refund' = [refund EXCEPT ![staff[u].refund].evidence = TRUE]
    /\ staff'  = [staff EXCEPT ![u] = StaffIdle]
    /\ UNCHANGED <<vars, taken>>

(* approveRefund reads a pending refund whose order has an attempt, and     *)
(* asks Bold for the refund.  The order's status is not read.               *)
BeginApproveRefund(u, f) ==
    /\ staff[u] = StaffIdle
    /\ refund[f].status = "PENDING_APPROVAL"
    /\ attempts[refund[f].order] # <<>>
    /\ staff' = [staff EXCEPT ![u] = [StaffIdle EXCEPT !.pc = "REFUND_CALL", !.refund = f]]
    /\ UNCHANGED <<vars, refund, taken>>

BoldTakesRefund(u) ==
    LET f == staff[u].refund IN
    /\ staff[u].pc = "REFUND_CALL"
    /\ taken[f] < MaxTaken
    /\ taken' = [taken EXCEPT ![f] = @ + 1]
    /\ staff' = [staff EXCEPT ![u].pc = "REFUND_TAKEN"]
    /\ UNCHANGED <<vars, refund>>

(* Bold refuses, or its transport has no refund call.                       *)
BoldRefusesRefund(u) ==
    /\ staff[u].pc = "REFUND_CALL"
    /\ staff' = [staff EXCEPT ![u].pc = "REFUND_FAILED"]
    /\ UNCHANGED <<vars, refund, taken>>

(* FAILED and its audit entry are written, and the error that is thrown     *)
(* again from inside the transaction undoes both.                           *)
RethrowRefusal(u) ==
    /\ staff[u].pc = "REFUND_FAILED"
    /\ staff' = [staff EXCEPT ![u] = StaffIdle]
    /\ UNCHANGED <<vars, refund, taken>>

(* Both rows are written as they were decided, whatever they hold by now.   *)
CommitApproveRefund(u) ==
    LET f == staff[u].refund
        o == refund[f].order
    IN
    /\ staff[u].pc = "REFUND_TAKEN"
    /\ ~Locked(o)
    /\ refund' = [refund EXCEPT ![f].status = "APPROVED"]
    /\ status' = [status EXCEPT ![o] = StatusAfterRefund(refund[f].amount)]
    /\ staff'  = [staff EXCEPT ![u] = StaffIdle]
    /\ UNCHANGED <<owner, expired, attempts, receipts, event, req, bold, taken>>

(* The transaction times out, fails or dies with the process.               *)
RollbackStaff(u) ==
    /\ staff[u].pc \notin {"IDLE", "REFUND_FAILED"}
    /\ staff' = [staff EXCEPT ![u] = StaffIdle]
    /\ UNCHANGED <<vars, refund, taken>>

-----------------------------------------------------------------------------

StaffStep(u) ==
    \/ \E o \in Orders, a \in Amounts : BeginRequestRefund(u, o, a)
    \/ \E f \in RefundIds : \/ CommitRequestRefund(u, f)
                            \/ BeginUploadEvidence(u, f)
                            \/ BeginApproveRefund(u, f)
    \/ CommitUploadEvidence(u)
    \/ BoldTakesRefund(u)
    \/ BoldRefusesRefund(u)
    \/ RethrowRefusal(u)
    \/ CommitApproveRefund(u)
    \/ RollbackStaff(u)

RefundNext ==
    \/ Next /\ UNCHANGED refundVars
    \/ \E u \in Staff : StaffStep(u)

RefundSpec == RefundInit /\ [][RefundNext]_<<vars, refundVars>>

-----------------------------------------------------------------------------
(* Properties.                                                              *)

(* The refunds rows and the staff requests keep their types.                *)
RefundTypeOK ==
    /\ refund \in [RefundIds -> [order : Orders \union {NoOrder}, amount : 0 .. OrderAmount,
                                 status : RefundStatuses \union {"ABSENT"}, evidence : BOOLEAN]]
    /\ staff \in [Staff -> [pc : {"IDLE", "REQUEST", "EVIDENCE", "REFUND_CALL", "REFUND_TAKEN",
                                  "REFUND_FAILED"},
                            order : Orders \union {NoOrder},
                            refund : RefundIds \union {NoRefund},
                            amount : 0 .. OrderAmount]]
    /\ taken \in [RefundIds -> 0 .. MaxTaken]

(* A refund only ever exists for an order that was paid, and an order is    *)
(* refunded exactly when a refund of it was approved: REFUNDED by one of    *)
(* the whole amount, PARTIALLY_REFUNDED by a smaller one.                   *)
RefundBacksStatus ==
    /\ \A f \in RefundIds :
          /\ refund[f] # NoRow => status[refund[f].order] \in PaidStatuses
          /\ refund[f].status = "APPROVED" => status[refund[f].order] \in RefundedStatuses
    /\ \A o \in Orders :
          status[o] \in RefundedStatuses =>
              \E f \in OfOrder(o) :
                  /\ refund[f].status = "APPROVED"
                  /\ refund[f].amount = OrderAmount <=> status[o] = "REFUNDED"

(* In production, where notices approve nothing on their own, every refund  *)
(* that is asked for can be carried out: the rows have their types, a paid  *)
(* order has its attempt, and refunded orders are backed by refunds.        *)
RefundsAreBacked == RefundTypeOK /\ PaidHasAttempt /\ RefundBacksStatus

(* Late answers and late notices never take a refunded order back, so it    *)
(* never gets a second receipt or a second payment.                         *)
RefundedKept ==
    \A o \in Orders :
        status[o] \in RefundedStatuses =>
            status'[o] \in RefundedStatuses /\ receipts'[o] = receipts[o]

(* requestRefund's comment: one refund window per order, "no accumulation   *)
(* logic needed beyond that single gate".  The approved refunds of an order *)
(* never add up to more than was paid.                                      *)
RefundsWithinAmount ==
    \A o \in Orders :
        MapThenSumSet(LAMBDA f : refund[f].amount,
                      {f \in OfOrder(o) : refund[f].status = "APPROVED"}) <= OrderAmount
=============================================================================
