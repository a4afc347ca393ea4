----------------------------- MODULE PaymentPages ----------------------------
(***************************************************************************)
(* The payment pages of a visitor: the search that starts an order, its    *)
(* summary, the page that hands it over to Bold as soon as it is opened,   *)
(* the result and the receipt.  Pages are opened, left, reopened and       *)
(* reloaded while their calls are on their way; an answer may be lost; the *)
(* query cache of the browser outlives the pages and may or may not be     *)
(* asked again when one is opened, as its thirty seconds have passed or    *)
(* not.  The order itself moves at the server, as BoldPayments and Refunds *)
(* let it.                                                                 *)
(***************************************************************************)
EXTENDS Naturals

CONSTANTS Queries,  \* the queries followed, of "detail" (the summary), "status" (the
                    \* result, and the hand-over after a 409) and "receipt"
          MaxStrays \* bound: create calls of pages that were left behind

VARIABLES
    order,  \* the order at the server and whether Bold holds a request for it
    cache,  \* what each query knows of the order and its call on the way
    view,   \* the page shown and what its own calls have told it
    calls   \* the order and create calls on the way

pagesVars == <<order, cache, view, calls>>

(* REFUNDED stands for PARTIALLY_REFUNDED too: no page tells them apart.    *)
Paid == {"APPROVED", "REFUNDED"}
Payable == {"PENDING", "PROCESSING"}

Unasked == [val |-> "none", call |-> "none", failed |-> FALSE]

PagesInit ==
    /\ order = [status |-> "none", asked |-> FALSE, tried |-> FALSE]
    /\ cache = [q \in Queries |-> Unasked]
    /\ view = [page |-> "lookup", said |-> "none"]
    /\ calls = [pay |-> "none", create |-> "none", strays |-> 0]

-----------------------------------------------------------------------------
(* The server.                                                              *)

(* A poll or a notice of Bold, a refund of staff.                           *)
Moves ==
    /\ \/ /\ order.status \in Payable /\ order.asked
          /\ \E s \in {"APPROVED", "REJECTED"} : order' = [order EXCEPT !.status = s]
       \/ order.status = "APPROVED" /\ order' = [order EXCEPT !.status = "REFUNDED"]
    /\ UNCHANGED <<cache, view, calls>>

(* POST /payment-orders: the order of the obligation, made or found.        *)
ServePay ==
    /\ calls.pay = "sent"
    /\ order' = IF order.status = "none" THEN [order EXCEPT !.status = "PENDING"] ELSE order
    /\ calls' = [calls EXCEPT !.pay = "done"]
    /\ UNCHANGED <<cache, view>>

(* POST /payments/bold/create: what it answers and the order it leaves.  A  *)
(* call of Bold that fails is rolled back, whatever Bold made of it.        *)
Outcomes ==
    CASE order.status \notin Payable -> {[answer |-> "conflict", order |-> order]}
      [] order.status \in Payable /\ order.tried -> {[answer |-> order.status, order |-> order]}
      [] OTHER ->
           {[answer |-> "error", order |-> [order EXCEPT !.asked = TRUE]]}
             \union {[answer |-> s, order |-> [status |-> s, asked |-> TRUE, tried |-> TRUE]] :
                        s \in {"PROCESSING", "APPROVED", "REJECTED"}}

Answers == {"conflict", "error", "PENDING", "PROCESSING", "APPROVED", "REJECTED"}

ServeCreate ==
    /\ calls.create = "sent"
    /\ \E out \in Outcomes :
          order' = out.order /\ calls' = [calls EXCEPT !.create = out.answer]
    /\ UNCHANGED <<cache, view>>

(* A call of a page left behind: nobody hears its answer.                   *)
ServeStray ==
    /\ calls.strays > 0
    /\ calls' = [calls EXCEPT !.strays = @ - 1]
    /\ \E out \in Outcomes : order' = out.order
    /\ UNCHANGED <<cache, view>>

(* A receipt is served for a paid order only.                               *)
ServeQuery(q) ==
    /\ cache[q].call = "sent"
    /\ cache' = [cache EXCEPT ![q].call =
                    IF q = "receipt" /\ order.status \notin Paid
                    THEN "not found" ELSE order.status]
    /\ UNCHANGED <<order, view, calls>>

-----------------------------------------------------------------------------
(* The browser.                                                             *)

QueryOf(page) ==
    Queries \intersect
        CASE page = "order" -> {"detail"} [] page = "result" -> {"status"}
          [] page = "receipt" -> {"receipt"} [] OTHER -> {}

(* A query that is mounted: asked if it knows nothing or what it knows is   *)
(* old, once at a time.                                                     *)
Mounts(queries) ==
    \E asked \in SUBSET {q \in queries : cache[q].call = "none"} :
        /\ \A q \in queries : cache[q].val = "none" /\ cache[q].call = "none" => q \in asked
        /\ cache' = [q \in Queries |->
                        IF q \in asked THEN [cache[q] EXCEPT !.call = "sent"] ELSE cache[q]]

(* The page is left: its create call goes on, its answer is not heard.      *)
Left == [calls EXCEPT !.create = "none", !.strays = IF calls.create = "sent" THEN @ + 1 ELSE @]

(* By a link, the history or the address with the reference of the order:   *)
(* the hand-over calls at once.                                             *)
Open(page) ==
    /\ page # "lookup" => order.status # "none"
    /\ Left.strays <= MaxStrays
    /\ view' = [page |-> page, said |-> "none"]
    /\ Mounts(QueryOf(page))
    /\ calls' = IF page = "process" THEN [Left EXCEPT !.create = "sent"] ELSE Left
    /\ UNCHANGED order

Reload ==
    /\ Left.strays <= MaxStrays
    /\ cache' = [q \in Queries |->
                    IF q \in QueryOf(view.page) THEN [Unasked EXCEPT !.call = "sent"] ELSE Unasked]
    /\ view' = [view EXCEPT !.said = "none"]
    /\ calls' = [Left EXCEPT !.pay = "none",
                             !.create = IF view.page = "process" THEN "sent" ELSE "none"]
    /\ UNCHANGED order

(* The search found the obligation and Pagar is pressed.                    *)
Pay ==
    /\ view.page = "lookup" /\ calls.pay = "none"
    /\ calls' = [calls EXCEPT !.pay = "sent"]
    /\ UNCHANGED <<order, cache, view>>

(* Its answer takes the visitor to the order, wherever the visitor is.      *)
HearPay ==
    /\ calls.pay = "done"
    /\ \/ /\ Left.strays <= MaxStrays
          /\ view' = [page |-> "order", said |-> "none"]
          /\ Mounts(QueryOf("order"))
          /\ calls' = [Left EXCEPT !.pay = "none"]
       \/ calls' = [calls EXCEPT !.pay = "none"] /\ UNCHANGED <<cache, view>>
    /\ UNCHANGED order

(* onError of a 409 turns to the status query; any other error offers to    *)
(* try again.  An answer that is lost is an error.                          *)
HearCreate ==
    /\ view.page = "process" /\ calls.create \in Answers
    /\ \E said \in {calls.create, "error"} :
          /\ view' = [view EXCEPT !.said = said]
          /\ Mounts(IF said = "conflict" THEN QueryOf("result") ELSE {})
    /\ calls' = [calls EXCEPT !.create = "none"]
    /\ UNCHANGED order

TryAgain ==
    /\ view.page = "process" /\ view.said = "error"
    /\ view' = [view EXCEPT !.said = "none"]
    /\ calls' = [calls EXCEPT !.create = "sent"]
    /\ UNCHANGED <<order, cache>>

HearQuery(q) ==
    /\ cache[q].call \notin {"none", "sent"}
    /\ cache' = [cache EXCEPT ![q] =
                    IF cache[q].call = "not found"
                    THEN [@ EXCEPT !.call = "none", !.failed = TRUE]
                    ELSE [Unasked EXCEPT !.val = cache[q].call]]
    /\ UNCHANGED <<order, view, calls>>

LoseQuery(q) ==
    /\ cache[q].call # "none"
    /\ cache' = [cache EXCEPT ![q] = [@ EXCEPT !.call = "none", !.failed = TRUE]]
    /\ UNCHANGED <<order, view, calls>>

-----------------------------------------------------------------------------
(* What the pages show.                                                     *)

Known(q) == IF q \notin Queries \/ cache[q].failed THEN "none" ELSE cache[q].val

\* Mutant: what is not approved is framed as a failure.
OtherwiseRejected(s) ==
    CASE s = "none" -> "none" [] s = "APPROVED" -> "approved" [] OTHER -> "rejected"

(* toPaymentResultState: what the page has no name for is pending.          *)
ResultState(s) ==
    CASE s = "none" -> "none" [] s = "APPROVED" -> "approved" [] s = "REJECTED" -> "rejected"
      [] OTHER -> "pending"

Result == IF view.page = "result" THEN ResultState(Known("status")) ELSE "none"

(* The summary offers to go on, the result to ask again or to start anew.   *)
OffersPayment == view.page = "order" /\ Known("detail") \in Payable

Refresh ==
    /\ "status" \in Queries /\ Result = "pending" /\ cache["status"].call = "none"
    /\ cache' = [cache EXCEPT !["status"].call = "sent"]
    /\ UNCHANGED <<order, view, calls>>

(* The hand-over shows the answer of its call, or the status after a 409.   *)
Confirmed ==
    IF view.page # "process" \/ view.said = "error" THEN "none"
    ELSE IF view.said = "conflict" THEN Known("status") ELSE view.said

PagesNext ==
    \/ Moves \/ ServePay \/ ServeCreate \/ ServeStray
    \/ \E q \in Queries : ServeQuery(q) \/ HearQuery(q) \/ LoseQuery(q)
    \/ \E p \in {"lookup", "order", "process", "result", "receipt"} : Open(p)
    \/ OffersPayment /\ Open("process")
    \/ Reload \/ Pay \/ HearPay \/ HearCreate \/ TryAgain \/ Refresh

-----------------------------------------------------------------------------

(* A success is shown, and a receipt, only for an order that was paid and is *)
(* no longer than refunded since; a page that sends the visitor to start    *)
(* anew does so for an order nothing can collect any more; and a hand-over  *)
(* that found nothing left to collect is right, however late it hears it.   *)
PagesTellTheTruth ==
    /\ Result = "approved" => order.status \in Paid
    /\ Result = "rejected" => order.status = "REJECTED"
    /\ view.page = "receipt" /\ Known("receipt") # "none" => order.status \in Paid
    /\ Confirmed = "APPROVED" => order.status \in Paid
    /\ Confirmed = "REJECTED" => order.status = "REJECTED"
    /\ view.page = "process" /\ view.said = "conflict" => order.status \notin Payable
=============================================================================
