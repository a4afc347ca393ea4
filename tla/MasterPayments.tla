--------------------------- MODULE MasterPayments ---------------------------
(***************************************************************************)
(* Orders for one installment of the legacy Master system and their        *)
(* collection through Bold: master-payment-orders.service.ts and           *)
(* master-bold-payments.service.ts.                                        *)
(*                                                                         *)
(* Unlike BoldPayments, no lock is held across a call to Bold: an order is *)
(* claimed by a conditional UPDATE before the call, and what Bold answers  *)
(* is written afterwards by an UPDATE without a condition.  Every await is *)
(* a point where other requests run, so each is a step boundary.           *)
(***************************************************************************)
EXTENDS Integers, FiniteSets

CONSTANTS Orders,      \* identities an order may take
          Requests,    \* HTTP requests being served
          Snapshots,   \* amounts and due dates Master may quote
          NotPayable,  \* what Master quotes for an installment that is not
          NoOrder      \* the target of an idle request

ASSUME MasterAssumption ==
    /\ NoOrder \notin Orders
    /\ NotPayable \notin Snapshots

VARIABLES
    order,  \* the rows of master_payment_orders for the installment
    req,    \* where each request stands
    quote,  \* what Master quotes now
    bold,   \* what Bold holds for each order's reference
    asked   \* how many create calls have been made for each order

vars == <<order, req, quote, bold, asked>>

(* RUNNING stands for every Bold status with the same pending result.       *)
BoldStatuses == {"RUNNING", "APPROVED", "REJECTED"}

ActiveStatuses == {"PENDING", "PROCESSING"}

OrderStatuses == ActiveStatuses \union {"REJECTED", "EXPIRED", "CANCELLED"}

ProviderStatuses == {"NULL", "CREATE_CLAIMED", "CREATE_UNKNOWN"} \union BoldStatuses

NoRow == [status |-> "NONE", provider |-> "NULL", applied |-> "NOT_APPLIED",
          snapshot |-> NotPayable, expired |-> FALSE]

Idle == [pc |-> "IDLE", order |-> NoOrder, quote |-> NotPayable,
         answer |-> "NONE", confirmed |-> FALSE]

Exists(o) == order[o] # NoRow

(* A variant of the next definition with a bug the properties catch.        *)
OnlyPending(o) == order[o].status = "PENDING"

Active(o) == order[o].status \in ActiveStatuses

(* The WHERE of every UPDATE that may touch only an order not started yet.  *)
Unstarted(o) == order[o].status = "PENDING" /\ order[o].provider = "NULL"

(* pg_advisory_xact_lock of the installment.                                *)
InstallmentLocked == \E r \in Requests : req[r].pc = "ORDER_INSERT"

(* master_payment_orders_one_active_installment_idx would refuse to make o  *)
(* active.                                                                  *)
IndexRefuses(o) == \E p \in Orders \ {o} : Active(p)

Answering(r, s) == [req EXCEPT ![r] = [req[r] EXCEPT !.pc = "RECORD", !.answer = s]]

-----------------------------------------------------------------------------

Init ==
    /\ order = [o \in Orders |-> NoRow]
    /\ req   = [r \in Requests |-> Idle]
    /\ quote \in Snapshots
    /\ bold  = [o \in Orders |-> "NONE"]
    /\ asked = [o \in Orders |-> 0]

(* Master moves on its own: the balance changes or the installment closes.  *)
MasterChanges(q) ==
    /\ q # quote
    /\ quote' = q
    /\ UNCHANGED <<order, req, bold, asked>>

Expire(o) ==
    /\ Active(o) /\ ~order[o].expired
    /\ order' = [order EXCEPT ![o].expired = TRUE]
    /\ UNCHANGED <<req, quote, bold, asked>>

-----------------------------------------------------------------------------
(* POST /payment-orders/master.                                             *)

(* The preflight reads the quote before the transaction and its lock.       *)
BeginCreate(r) ==
    /\ req[r] = Idle
    /\ quote # NotPayable
    /\ req' = [req EXCEPT ![r] = [Idle EXCEPT !.pc = "ORDER_LOCK", !.quote = quote]]
    /\ UNCHANGED <<order, quote, bold, asked>>

(* The active order the new one replaces: one that expired untouched, or    *)
(* one not started whose snapshot is out of date.                           *)
Replaceable(o, q) == Unstarted(o) /\ (order[o].expired \/ order[o].snapshot # q)

(* The advisory lock is taken and the active order looked up.  One that is  *)
(* the same, or already started, ends the request: it is returned, or the   *)
(* request is refused.  Otherwise the insert goes ahead.                    *)
LookUpActive(r, target) ==
    /\ req[r].pc = "ORDER_LOCK"
    /\ ~InstallmentLocked
    /\ IF target = NoOrder THEN \A o \in Orders : ~Active(o)
                           ELSE Active(target)
    /\ req' = [req EXCEPT ![r] =
                 IF target = NoOrder \/ Replaceable(target, req[r].quote)
                   THEN [req[r] EXCEPT !.pc = "ORDER_INSERT", !.order = target]
                   ELSE Idle]
    /\ UNCHANGED <<order, quote, bold, asked>>

(* The order to replace expires if it is still untouched; the unique index  *)
(* decides whether the new one fits.                                        *)
InsertOrder(r, o) ==
    LET target == req[r].order
        expiring == IF target # NoOrder /\ Unstarted(target) THEN {target} ELSE {}
    IN
    /\ req[r].pc = "ORDER_INSERT"
    /\ ~Exists(o)
    /\ \A p \in Orders \ expiring : ~Active(p)
    /\ order' = [p \in Orders |->
                   IF p = o THEN [NoRow EXCEPT !.status = "PENDING", !.snapshot = req[r].quote]
                   ELSE IF p \in expiring THEN [order[p] EXCEPT !.status = "EXPIRED"]
                   ELSE order[p]]
    /\ req' = [req EXCEPT ![r] = Idle]
    /\ UNCHANGED <<quote, bold, asked>>

-----------------------------------------------------------------------------
(* POST /payments/bold/master/create.                                       *)

(* Only an order that is pending, unexpired and unclaimed goes on; for any  *)
(* other the recorded result is replayed or the request is refused.         *)
BeginCheckout(r, o) ==
    /\ req[r] = Idle
    /\ Unstarted(o) /\ ~order[o].expired
    /\ req' = [req EXCEPT ![r] = [Idle EXCEPT !.pc = "REVALIDATE", !.order = o]]
    /\ UNCHANGED <<order, quote, bold, asked>>

(* revalidateForCheckout reads Master again.                                *)
Revalidate(r) ==
    /\ req[r].pc = "REVALIDATE"
    /\ req' = [req EXCEPT ![r].pc =
                 IF quote = order[req[r].order].snapshot THEN "CLAIM" ELSE "CANCEL"]
    /\ UNCHANGED <<order, quote, bold, asked>>

CancelUnstarted(r) ==
    LET o == req[r].order IN
    /\ req[r].pc = "CANCEL"
    /\ order' = IF Unstarted(o) THEN [order EXCEPT ![o].status = "CANCELLED"] ELSE order
    /\ req'   = [req EXCEPT ![r] = Idle]
    /\ UNCHANGED <<quote, bold, asked>>

(* A variant of the next definition with a bug the properties catch.        *)
AnyUnexpired(o) == Active(o) /\ ~order[o].expired

Claimable(o) == Unstarted(o) /\ ~order[o].expired

(* claimProviderCreate succeeds, and the call to Bold is on its way.        *)
ClaimProviderCreate(r) ==
    LET o == req[r].order IN
    /\ req[r].pc = "CLAIM"
    /\ Claimable(o)
    /\ order' = [order EXCEPT ![o] =
                   [order[o] EXCEPT !.status = "PROCESSING", !.provider = "CREATE_CLAIMED"]]
    /\ asked' = [asked EXCEPT ![o] = @ + 1]
    /\ req'   = [req EXCEPT ![r].pc = "CREATE_CALL"]
    /\ UNCHANGED <<quote, bold>>

(* Somebody else was faster, or the order expired meanwhile.                *)
ClaimFails(r) ==
    /\ req[r].pc = "CLAIM"
    /\ ~Claimable(req[r].order)
    /\ req' = [req EXCEPT ![r] = Idle]
    /\ UNCHANGED <<order, quote, bold, asked>>

BoldTakesCreate(r, s) ==
    /\ req[r].pc = "CREATE_CALL" /\ bold[req[r].order] = "NONE"
    /\ bold' = [bold EXCEPT ![req[r].order] = s]
    /\ req'  = Answering(r, s)
    /\ UNCHANGED <<order, quote, asked>>

(* The call fails for the API, whatever Bold makes of it.                   *)
CreateCallFails(r) ==
    /\ req[r].pc = "CREATE_CALL"
    /\ req' = [req EXCEPT ![r].pc = "MARK_UNKNOWN"]
    /\ UNCHANGED <<order, quote, bold, asked>>

(* A create call nobody waits for any more still arrives at Bold.           *)
BoldTakesLate(o, s) ==
    /\ asked[o] > 0 /\ bold[o] = "NONE"
    /\ ~\E r \in Requests : req[r].pc = "CREATE_CALL" /\ req[r].order = o
    /\ bold' = [bold EXCEPT ![o] = s]
    /\ UNCHANGED <<order, req, quote, asked>>

MarkProviderCreateUnknown(r) ==
    LET o == req[r].order IN
    /\ req[r].pc = "MARK_UNKNOWN"
    /\ ~IndexRefuses(o)
    /\ order' = [order EXCEPT ![o] =
                   [order[o] EXCEPT !.status = "PROCESSING", !.provider = "CREATE_UNKNOWN"]]
    /\ req'   = [req EXCEPT ![r] = Idle]
    /\ UNCHANGED <<quote, bold, asked>>

-----------------------------------------------------------------------------
(* GET /payments/master/:reference/status.                                  *)

BeginStatus(r, o) ==
    /\ req[r] = Idle
    /\ Exists(o) /\ order[o].provider # "NULL"
    /\ req' = [req EXCEPT ![r] = [Idle EXCEPT !.pc = "STATUS_CALL", !.order = o,
                 !.confirmed = (order[o].applied = "PENDING_WRITE_BRIDGE")]]
    /\ UNCHANGED <<order, quote, bold, asked>>

BoldAnswersStatus(r) ==
    /\ req[r].pc = "STATUS_CALL" /\ bold[req[r].order] # "NONE"
    /\ req' = Answering(r, bold[req[r].order])
    /\ UNCHANGED <<order, quote, bold, asked>>

(* A variant of Confirms with a bug the properties catch.                   *)
AnyAnswer(s, confirmed) == s # "REJECTED"

(* providerTransition: the answer, and whether the order read before the    *)
(* call was already confirmed.                                              *)
StatusFor(s, confirmed) ==
    IF s = "REJECTED" /\ ~confirmed THEN "REJECTED" ELSE "PROCESSING"

Confirms(s, confirmed) == s = "APPROVED" \/ confirmed

(* A variant of the next definition with a bug the properties catch.        *)
ForgettingApplied(current, s, confirmed) ==
    IF Confirms(s, confirmed) THEN "PENDING_WRITE_BRIDGE" ELSE "NOT_APPLIED"

AppliedAfter(current, s, confirmed) ==
    IF Confirms(s, confirmed) THEN "PENDING_WRITE_BRIDGE" ELSE current

(* recordProviderResult, by a create or by a status request: an UPDATE with *)
(* no condition but the index.                                              *)
RecordProviderResult(r) ==
    LET o == req[r].order
        s == req[r].answer
        next == StatusFor(s, req[r].confirmed)
    IN
    /\ req[r].pc = "RECORD"
    /\ next \in ActiveStatuses => ~IndexRefuses(o)
    /\ order' = [order EXCEPT ![o] =
                   [order[o] EXCEPT !.status   = next,
                                    !.provider = s,
                                    !.applied  = AppliedAfter(order[o].applied, s, req[r].confirmed)]]
    /\ req' = [req EXCEPT ![r] = Idle]
    /\ UNCHANGED <<quote, bold, asked>>

(* A read, a call or a write fails, or the process dies: the request ends   *)
(* where it stands, and what it wrote before stays.                         *)
Abandon(r) ==
    /\ req[r] # Idle
    /\ req' = [req EXCEPT ![r] = Idle]
    /\ UNCHANGED <<order, quote, bold, asked>>

(* Bold settles a payment, once.                                            *)
BoldSettles(o, s) ==
    /\ bold[o] = "RUNNING" /\ s \in {"APPROVED", "REJECTED"}
    /\ bold' = [bold EXCEPT ![o] = s]
    /\ UNCHANGED <<order, req, quote, asked>>

-----------------------------------------------------------------------------

CreateStep(r) ==
    \/ BeginCreate(r)
    \/ \E o \in Orders \union {NoOrder} : LookUpActive(r, o)
    \/ \E o \in Orders : InsertOrder(r, o)

CheckoutStep(r) ==
    \/ \E o \in Orders : BeginCheckout(r, o)
    \/ Revalidate(r)
    \/ CancelUnstarted(r)
    \/ ClaimProviderCreate(r)
    \/ ClaimFails(r)
    \/ \E s \in BoldStatuses : BoldTakesCreate(r, s)
    \/ CreateCallFails(r)
    \/ MarkProviderCreateUnknown(r)

StatusStep(r) ==
    \/ \E o \in Orders : BeginStatus(r, o)
    \/ BoldAnswersStatus(r)

Next ==
    \/ \E q \in Snapshots \union {NotPayable} : MasterChanges(q)
    \/ \E o \in Orders : Expire(o)
    \/ \E r \in Requests :
          CreateStep(r) \/ CheckoutStep(r) \/ StatusStep(r) \/ RecordProviderResult(r) \/ Abandon(r)
    \/ \E o \in Orders, s \in BoldStatuses : BoldTakesLate(o, s) \/ BoldSettles(o, s)

Spec == Init /\ [][Next]_vars

-----------------------------------------------------------------------------
(* Properties.                                                              *)

(* The rows of master_payment_orders and the requests keep their types.     *)
TypeOK ==
    /\ order \in [Orders -> [status : OrderStatuses \union {"NONE"},
                             provider : ProviderStatuses,
                             applied : {"NOT_APPLIED", "PENDING_WRITE_BRIDGE"},
                             snapshot : Snapshots \union {NotPayable},
                             expired : BOOLEAN]]
    /\ req \in [Requests -> [pc : {"IDLE", "ORDER_LOCK", "ORDER_INSERT", "REVALIDATE", "CANCEL",
                                   "CLAIM", "CREATE_CALL", "MARK_UNKNOWN", "STATUS_CALL", "RECORD"},
                             order : Orders \union {NoOrder},
                             quote : Snapshots \union {NotPayable},
                             answer : BoldStatuses \union {"NONE"},
                             confirmed : BOOLEAN]]
    /\ quote \in Snapshots \union {NotPayable}
    /\ bold \in [Orders -> BoldStatuses \union {"NONE"}]
    /\ asked \in [Orders -> Nat]

(* master-bold-payments.service.ts:39-40: "Never call createPayment twice   *)
(* for the same Master order", through races, failures, crashes and replays.*)
AskedOnce == \A o \in Orders : asked[o] <= 1

(* The installment is never collected twice: of all its orders at most one  *)
(* is with Bold and not rejected, or on its way there.                      *)
WithBold(o) == asked[o] > 0 /\ bold[o] # "REJECTED"

CollectedOnce == \A o, p \in Orders : WithBold(o) /\ WithBold(p) => o = p

(* Money Bold confirmed is never forgotten: the order keeps waiting for the *)
(* write bridge whatever older answer is written after it.                  *)
ConfirmationIsKept ==
    [][\A o \in Orders :
          order[o].applied = "PENDING_WRITE_BRIDGE" =>
              order'[o].applied = "PENDING_WRITE_BRIDGE"]_vars

(* master-bold-payments.service.ts:120-122, "the central separation         *)
(* invariant": a confirmed order remains PROCESSING, and only money that    *)
(* Bold approved is confirmed.                                              *)
CentralSeparation ==
    \A o \in Orders :
        order[o].applied = "PENDING_WRITE_BRIDGE" =>
            order[o].status = "PROCESSING" /\ bold[o] = "APPROVED"

=============================================================================
