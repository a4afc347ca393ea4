--------------------------- MODULE ServicesProofs ----------------------------
(* Proofs about what MCServices puts side by side: the Master orders, the     *)
(* gateway of the AI, the portal, the back office and the outbox, whatever    *)
(* their sets of requests, orders, inferences and rows are.  Each part has    *)
(* an inductive invariant of its own; the last section lifts them to          *)
(* ServicesSpec, where a step of one part leaves the others alone.            *)
EXTENDS MCServices, FiniteSetTheorems, TLAPS

OB == INSTANCE OutboxProofs WITH
    Linked <- Jobs, MaxAttempts <- 2, ClaimBound <- 2, MayCrash <- TRUE,
    FailingQueries <- {"INVALID", "DELIVERED", "UNCERTAIN", "RETRYABLE", "PERMANENT", "CATCH",
                       "SYNC", "WRITE"}

-----------------------------------------------------------------------------
(* Master orders.  No lock spans a call to Bold here, so the argument rests   *)
(* on what each row can say (RowOK), on the unique index of active orders     *)
(* (OneActive) and on what a request may rely on after its call (ReqOK).      *)

Row == [status : OrderStatuses \union {"NONE"}, provider : ProviderStatuses,
        applied : {"NOT_APPLIED", "PENDING_WRITE_BRIDGE"},
        snapshot : Snapshots \union {NotPayable}, expired : BOOLEAN]

Request == [pc : {"IDLE", "ORDER_LOCK", "ORDER_INSERT", "REVALIDATE", "CANCEL",
                  "CLAIM", "CREATE_CALL", "MARK_UNKNOWN", "STATUS_CALL", "RECORD"},
            order : Orders \union {NoOrder}, quote : Snapshots \union {NotPayable},
            answer : BoldStatuses \union {"NONE"}, confirmed : BOOLEAN]

OrderPcs == {"REVALIDATE", "CANCEL", "CLAIM", "CREATE_CALL", "MARK_UNKNOWN",
             "STATUS_CALL", "RECORD"}

StartedPcs == {"CREATE_CALL", "MARK_UNKNOWN", "STATUS_CALL", "RECORD"}

(* A row is untouched by Bold, or with Bold since its one claim: then it is *)
(* PROCESSING unless Bold rejected it, and confirmed only if Bold approved. *)
RowOK(st, pv, ap, as, bo) ==
    /\ pv = "NULL" =>
          /\ st \in {"NONE", "PENDING", "EXPIRED", "CANCELLED"}
          /\ ap = "NOT_APPLIED" /\ as = 0 /\ bo = "NONE"
    /\ pv # "NULL" =>
          /\ st \in {"PROCESSING", "REJECTED"} /\ as = 1
          /\ st = "REJECTED" => bo = "REJECTED"
          /\ ap = "PENDING_WRITE_BRIDGE" => st = "PROCESSING" /\ bo = "APPROVED"

Rows == \A o \in Orders :
            RowOK(order[o].status, order[o].provider, order[o].applied, asked[o], bold[o])

(* The partial unique index.                                                *)
OneActive == \A o, p \in Orders : Active(o) /\ Active(p) => o = p

(* A request that called Bold did so for a started order, its answer is one *)
(* Bold has not taken back, and what it read as confirmed is approved.      *)
ReqOK(r) ==
    /\ req[r].pc \in OrderPcs => req[r].order \in Orders
    /\ req[r].pc \in StartedPcs => order[req[r].order].provider # "NULL"
    /\ req[r].pc = "RECORD" =>
          /\ req[r].answer \in BoldStatuses /\ bold[req[r].order] # "NONE"
          /\ req[r].answer # "RUNNING" => bold[req[r].order] = req[r].answer
    /\ req[r].confirmed =>
          req[r].pc \in {"STATUS_CALL", "RECORD"} /\ bold[req[r].order] = "APPROVED"

ReqsOK == \A r \in Requests : ReqOK(r)

IInv == TypeOK /\ Rows /\ OneActive /\ ReqsOK

-----------------------------------------------------------------------------
(* The inductive invariant.                                                 *)

(* Writing some columns of a row, or some fields of a request, keeps types. *)
LEMMA RowExpires ==
    ASSUME NEW x \in Row
    PROVE  [x EXCEPT !.expired = TRUE] \in Row
BY DEF Row

LEMMA RowWrite ==
    ASSUME NEW x \in Row, NEW st \in OrderStatuses, NEW pv \in ProviderStatuses,
           NEW ap \in {"NOT_APPLIED", "PENDING_WRITE_BRIDGE"}
    PROVE  /\ [x EXCEPT !.status = st] \in Row
           /\ [x EXCEPT !.status = st, !.provider = pv] \in Row
           /\ [x EXCEPT !.status = st, !.provider = pv, !.applied = ap] \in Row
BY DEF Row

LEMMA IdleRequest == Idle \in Request
BY DEF Request, Idle

LEMMA RequestGoes ==
    ASSUME NEW x \in Request
    PROVE  /\ [x EXCEPT !.pc = "MARK_UNKNOWN"] \in Request
           /\ [x EXCEPT !.pc = "CREATE_CALL"] \in Request
BY DEF Request

LEMMA RequestAnswered ==
    ASSUME NEW x \in Request, NEW s \in BoldStatuses
    PROVE  [x EXCEPT !.pc = "RECORD", !.answer = s] \in Request
BY DEF Request

LEMMA RequestInserts ==
    ASSUME NEW x \in Request, NEW o \in Orders \union {NoOrder}
    PROVE  [x EXCEPT !.pc = "ORDER_INSERT", !.order = o] \in Request
BY DEF Request

LEMMA Initially == Init => IInv
<1>. SUFFICES ASSUME Init PROVE IInv
  OBVIOUS
<1>. USE DEF Init, NoRow, Idle
<1>1. TypeOK
  BY DEF TypeOK, ProviderStatuses
<1>2. Rows /\ OneActive
  BY DEF Rows, RowOK, OneActive, Active, ActiveStatuses
<1>3. ReqsOK
  BY DEF ReqsOK, ReqOK, OrderPcs, StartedPcs
<1>. QED
  BY <1>1, <1>2, <1>3 DEF IInv

(* A request that only moves itself leaves the rows alone; its own new      *)
(* state is all there is to show.                                           *)
LEMMA Moves ==
    ASSUME IInv, NEW r \in Requests, UNCHANGED <<order, quote, bold, asked>>,
           \A q \in Requests \ {r} : req'[q] = req[q], TypeOK', ReqOK(r)'
    PROVE  IInv'
<1>. USE DEF IInv
<1>1. Rows' /\ OneActive'
  BY DEF Rows, OneActive, Active
<1>2. ReqsOK'
  BY DEF ReqsOK, ReqOK
<1>. QED
  BY <1>1, <1>2

(* Master moves on: no row and no request changes.                          *)
LEMMA MasterChangesStep ==
    ASSUME IInv, NEW q \in Snapshots \union {NotPayable}, MasterChanges(q)
    PROVE  IInv'
<1>. USE DEF IInv, MasterChanges
<1>1. TypeOK'
  BY DEF TypeOK
<1>2. Rows'
  BY DEF Rows
<1>3. OneActive'
  BY DEF OneActive, Active
<1>4. ReqsOK'
  BY DEF ReqsOK, ReqOK
<1>. QED
  BY <1>1, <1>2, <1>3, <1>4

(* Time passes for an active order.                                         *)
LEMMA ExpireStep ==
    ASSUME IInv, NEW o \in Orders, Expire(o)
    PROVE  IInv'
<1>. USE DEF IInv, Expire
<1>1. TypeOK'
  <2>1. order \in [Orders -> Row] /\ req \in [Requests -> Request]
    BY DEF TypeOK, Row, Request
  <2>2. order' \in [Orders -> Row]
    BY <2>1, RowExpires
  <2>. QED
    BY <2>1, <2>2 DEF TypeOK, Row
<1>2. Rows'
  BY DEF Rows
<1>3. OneActive'
  BY DEF OneActive, Active
<1>4. ReqsOK'
  BY DEF ReqsOK, ReqOK
<1>. QED
  BY <1>1, <1>2, <1>3, <1>4

(* A create holds nothing but its quote.                                    *)
LEMMA BeginCreateStep ==
    ASSUME IInv, NEW r \in Requests, BeginCreate(r)
    PROVE  IInv'
<1>. USE DEF IInv, BeginCreate
<1>1. TypeOK'
  BY DEF TypeOK, Idle
<1>2. ReqOK(r)'
  BY DEF ReqOK, OrderPcs, StartedPcs, Idle
<1>3. \A q \in Requests \ {r} : req'[q] = req[q]
  OBVIOUS
<1>. QED
  BY <1>1, <1>2, <1>3, Moves

(* The order looked up is only a target so far.                             *)
LEMMA LookUpActiveStep ==
    ASSUME IInv, NEW r \in Requests, NEW o \in Orders \union {NoOrder}, LookUpActive(r, o)
    PROVE  IInv'
<1>. USE DEF IInv, LookUpActive
<1>1. TypeOK'
  <2>1. order \in [Orders -> Row] /\ req \in [Requests -> Request]
    BY DEF TypeOK, Row, Request
  <2>2. req' \in [Requests -> Request]
    BY <2>1, IdleRequest, RequestInserts
  <2>. QED
    BY <2>1, <2>2 DEF TypeOK, Request
<1>2. ReqOK(r)'
  BY DEF ReqsOK, ReqOK, OrderPcs, StartedPcs, Idle
<1>3. \A q \in Requests \ {r} : req'[q] = req[q]
  OBVIOUS
<1>. QED
  BY <1>1, <1>2, <1>3, Moves

(* The new order is the only active one: the index let it in.               *)
LEMMA InsertOrderStep ==
    ASSUME IInv, NEW r \in Requests, NEW o \in Orders, InsertOrder(r, o)
    PROVE  IInv'
<1>. USE DEF IInv, InsertOrder
<1>1. TypeOK'
  <2>1. order \in [Orders -> Row] /\ req \in [Requests -> Request]
    BY DEF TypeOK, Row, Request
  <2>2. order' \in [Orders -> Row]
    <3>1. [NoRow EXCEPT !.status = "PENDING", !.snapshot = req[r].quote] \in Row
      BY <2>1 DEF NoRow, Row, Request, OrderStatuses, ActiveStatuses, ProviderStatuses
    <3>2. "EXPIRED" \in OrderStatuses /\ "NULL" \in ProviderStatuses
      BY DEF OrderStatuses, ProviderStatuses
    <3>3. \A q \in Orders : [order[q] EXCEPT !.status = "EXPIRED"] \in Row
      BY <2>1, <3>2, RowWrite
    <3>. QED
      BY <2>1, <3>1, <3>3
  <2>3. req' \in [Requests -> Request]
    BY <2>1, IdleRequest
  <2>. QED
    BY <2>1, <2>2, <2>3 DEF TypeOK, Row, Request
<1>2. Rows'
  BY DEF Rows, RowOK, NoRow, Unstarted, Exists
<1>3. OneActive'
  BY DEF OneActive, Active, ActiveStatuses
<1>4. ReqsOK'
  BY DEF ReqsOK, ReqOK, OrderPcs, StartedPcs, Idle, Exists
<1>. QED
  BY <1>1, <1>2, <1>3, <1>4

(* A checkout begins with a row that exists.                                *)
LEMMA BeginCheckoutStep ==
    ASSUME IInv, NEW r \in Requests, NEW o \in Orders, BeginCheckout(r, o)
    PROVE  IInv'
<1>. USE DEF IInv, BeginCheckout
<1>1. TypeOK'
  BY DEF TypeOK, Idle
<1>2. ReqOK(r)'
  BY DEF ReqOK, StartedPcs, OrderPcs, Idle
<1>3. \A q \in Requests \ {r} : req'[q] = req[q]
  OBVIOUS
<1>. QED
  BY <1>1, <1>2, <1>3, Moves

(* The quote decides whether the checkout goes on.                          *)
LEMMA RevalidateStep ==
    ASSUME IInv, NEW r \in Requests, Revalidate(r)
    PROVE  IInv'
<1>. USE DEF IInv, Revalidate
<1>1. TypeOK'
  <2>1. order \in [Orders -> Row] /\ req \in [Requests -> Request]
    BY DEF TypeOK, Row, Request
  <2>2. PICK pc \in {"CLAIM", "CANCEL"} : req' = [req EXCEPT ![r].pc = pc]
    OBVIOUS
  <2>3. ASSUME NEW q \in Request
        PROVE  [q EXCEPT !.pc = pc] \in Request
    BY <2>2 DEF Request
  <2>4. req' = [req EXCEPT ![r] = [req[r] EXCEPT !.pc = pc]] /\ req[r] \in Request
    BY <2>1, <2>2
  <2>5. req' \in [Requests -> Request]
    BY <2>1, <2>3, <2>4
  <2>. QED
    BY <2>1, <2>5 DEF TypeOK, Row, Request
<1>2. ReqOK(r)'
  BY DEF ReqsOK, ReqOK, OrderPcs, StartedPcs
<1>3. \A q \in Requests \ {r} : req'[q] = req[q]
  OBVIOUS
<1>. QED
  BY <1>1, <1>2, <1>3, Moves

(* Only a row that is still unstarted is cancelled.                         *)
LEMMA CancelUnstartedStep ==
    ASSUME IInv, NEW r \in Requests, CancelUnstarted(r)
    PROVE  IInv'
<1>. USE DEF IInv, CancelUnstarted
<1>1. TypeOK'
  <2>1. order \in [Orders -> Row] /\ req \in [Requests -> Request]
    BY DEF TypeOK, Row, Request
  <2>2. order' \in [Orders -> Row]
    BY <2>1, RowWrite
       DEF ReqsOK, ReqOK, OrderPcs, OrderStatuses, ActiveStatuses, ProviderStatuses, BoldStatuses
  <2>3. req' \in [Requests -> Request]
    BY <2>1, IdleRequest
  <2>. QED
    BY <2>1, <2>2, <2>3 DEF TypeOK, Row, Request
<1>2. Rows'
  BY DEF Rows, RowOK, Unstarted
<1>3. OneActive'
  BY DEF OneActive, Active, ActiveStatuses
<1>4. ReqsOK'
  BY DEF ReqsOK, ReqOK, OrderPcs, StartedPcs, Idle
<1>. QED
  BY <1>1, <1>2, <1>3, <1>4

(* The claim takes an unstarted row to its first and only call.             *)
LEMMA ClaimProviderCreateStep ==
    ASSUME IInv, NEW r \in Requests, ClaimProviderCreate(r)
    PROVE  IInv'
<1>. USE DEF IInv, ClaimProviderCreate
<1>1. TypeOK'
  <2>1. order \in [Orders -> Row] /\ req \in [Requests -> Request]
    BY DEF TypeOK, Row, Request
  <2>2. order' \in [Orders -> Row]
    BY <2>1, RowWrite
       DEF ReqsOK, ReqOK, OrderPcs, OrderStatuses, ActiveStatuses, ProviderStatuses, BoldStatuses
  <2>3. req' \in [Requests -> Request]
    BY <2>1, RequestGoes
  <2>. QED
    BY <2>1, <2>2, <2>3 DEF TypeOK, Row, Request
<1>2. Rows'
  BY DEF Rows, RowOK, TypeOK, Unstarted, Claimable
<1>3. OneActive'
  BY DEF OneActive, Active, ActiveStatuses, Unstarted, Claimable
<1>4. ReqsOK'
  BY DEF ReqsOK, ReqOK, OrderPcs, TypeOK
<1>. QED
  BY <1>1, <1>2, <1>3, <1>4

(* A lost claim changes nothing.                                            *)
LEMMA ClaimFailsStep ==
    ASSUME IInv, NEW r \in Requests, ClaimFails(r)
    PROVE  IInv'
<1>. USE DEF IInv, ClaimFails
<1>1. TypeOK'
  BY DEF TypeOK, Idle
<1>2. ReqOK(r)'
  BY DEF ReqOK, OrderPcs, StartedPcs, TypeOK, Idle
<1>3. \A q \in Requests \ {r} : req'[q] = req[q]
  OBVIOUS
<1>. QED
  BY <1>1, <1>2, <1>3, Moves

(* Bold had no payment of the reference, so nothing relied on one.          *)
LEMMA BoldTakesCreateStep ==
    ASSUME IInv, NEW r \in Requests, NEW s \in BoldStatuses, BoldTakesCreate(r, s)
    PROVE  IInv'
<1>. USE DEF IInv, BoldTakesCreate
<1>1. TypeOK'
  <2>1. order \in [Orders -> Row] /\ req \in [Requests -> Request]
    BY DEF TypeOK, Row, Request
  <2>2. req' \in [Requests -> Request]
    BY <2>1, RequestAnswered DEF Answering
  <2>. QED
    BY <2>1, <2>2 DEF TypeOK, Request
<1>2. Rows'
  BY DEF Rows, RowOK, ReqsOK, ReqOK, StartedPcs
<1>3. OneActive'
  BY DEF OneActive, Active
<1>4. ReqsOK'
  BY DEF ReqsOK, ReqOK, OrderPcs, StartedPcs, TypeOK, BoldStatuses, Answering
<1>. QED
  BY <1>1, <1>2, <1>3, <1>4

(* The order of a failed call stays started.                                *)
LEMMA CreateCallFailsStep ==
    ASSUME IInv, NEW r \in Requests, CreateCallFails(r)
    PROVE  IInv'
<1>. USE DEF IInv, CreateCallFails
<1>1. TypeOK'
  <2>1. order \in [Orders -> Row] /\ req \in [Requests -> Request]
    BY DEF TypeOK, Row, Request
  <2>2. req' \in [Requests -> Request]
    BY <2>1, RequestGoes
  <2>. QED
    BY <2>1, <2>2 DEF TypeOK
<1>2. ReqOK(r)'
  BY DEF ReqsOK, ReqOK, OrderPcs, StartedPcs
<1>3. \A q \in Requests \ {r} : req'[q] = req[q]
  OBVIOUS
<1>. QED
  BY <1>1, <1>2, <1>3, Moves

(* A late call is one of the order it was claimed for.                      *)
LEMMA BoldTakesLateStep ==
    ASSUME IInv, NEW o \in Orders, NEW s \in BoldStatuses, BoldTakesLate(o, s)
    PROVE  IInv'
<1>. USE DEF IInv, BoldTakesLate
<1>1. TypeOK'
  BY DEF TypeOK
<1>2. Rows'
  BY DEF Rows, RowOK
<1>3. OneActive'
  BY DEF OneActive, Active
<1>4. ReqsOK'
  BY DEF ReqsOK, ReqOK
<1>. QED
  BY <1>1, <1>2, <1>3, <1>4

(* CREATE_UNKNOWN is a started order too.                                   *)
LEMMA MarkProviderCreateUnknownStep ==
    ASSUME IInv, NEW r \in Requests, MarkProviderCreateUnknown(r)
    PROVE  IInv'
<1>. USE DEF IInv, MarkProviderCreateUnknown
<1>1. TypeOK'
  <2>1. order \in [Orders -> Row] /\ req \in [Requests -> Request]
    BY DEF TypeOK, Row, Request
  <2>2. order' \in [Orders -> Row]
    BY <2>1, RowWrite
       DEF ReqsOK, ReqOK, OrderPcs, OrderStatuses, ActiveStatuses, ProviderStatuses, BoldStatuses
  <2>3. req' \in [Requests -> Request]
    BY <2>1, IdleRequest
  <2>. QED
    BY <2>1, <2>2, <2>3 DEF TypeOK, Row, Request
<1>2. Rows'
  BY DEF Rows, RowOK, ReqsOK, ReqOK, StartedPcs
<1>3. OneActive'
  BY DEF OneActive, Active, IndexRefuses
<1>4. ReqsOK'
  BY DEF ReqsOK, ReqOK, OrderPcs, StartedPcs, Idle
<1>. QED
  BY <1>1, <1>2, <1>3, <1>4

(* A status request reads a confirmation only of approved money.            *)
LEMMA BeginStatusStep ==
    ASSUME IInv, NEW r \in Requests, NEW o \in Orders, BeginStatus(r, o)
    PROVE  IInv'
<1>. USE DEF IInv, BeginStatus
<1>1. TypeOK'
  BY DEF TypeOK, Idle
<1>2. ReqOK(r)'
  BY DEF ReqOK, Rows, RowOK, TypeOK, Idle
<1>3. \A q \in Requests \ {r} : req'[q] = req[q]
  OBVIOUS
<1>. QED
  BY <1>1, <1>2, <1>3, Moves

(* The answer is what Bold holds at that moment.                            *)
LEMMA BoldAnswersStatusStep ==
    ASSUME IInv, NEW r \in Requests, BoldAnswersStatus(r)
    PROVE  IInv'
<1>. USE DEF IInv, BoldAnswersStatus
<1>1. TypeOK'
  <2>1. order \in [Orders -> Row] /\ req \in [Requests -> Request]
    BY DEF TypeOK, Row, Request
  <2>2. req' \in [Requests -> Request]
    BY <2>1, RequestAnswered DEF Answering, ReqsOK, ReqOK, OrderPcs, TypeOK, BoldStatuses
  <2>. QED
    BY <2>1, <2>2 DEF TypeOK, Request
<1>2. ReqOK(r)'
  BY DEF ReqsOK, ReqOK, OrderPcs, StartedPcs, TypeOK, Answering
<1>3. \A q \in Requests \ {r} : req'[q] = req[q]
  BY DEF Answering
<1>. QED
  BY <1>1, <1>2, <1>3, Moves

(* However old the answer: it rejects only what Bold rejected, confirms only*)
(* what Bold approved, and an inactive order is let back in by the index.   *)
LEMMA RecordProviderResultStep ==
    ASSUME IInv, NEW r \in Requests, RecordProviderResult(r)
    PROVE  IInv'
<1>. USE DEF IInv
<1>. DEFINE o == req[r].order
<1>. DEFINE st == StatusFor(req[r].answer, req[r].confirmed)
<1>. DEFINE ap == AppliedAfter(order[o].applied, req[r].answer, req[r].confirmed)
<1>. DEFINE new == [order[o] EXCEPT !.status = st, !.provider = req[r].answer, !.applied = ap]
<1>1. /\ order \in [Orders -> Row] /\ req \in [Requests -> Request] /\ order[o] \in Row
      /\ o \in Orders /\ req[r].answer \in BoldStatuses
  BY DEF TypeOK, Row, Request, ReqsOK, ReqOK, OrderPcs, RecordProviderResult
<1>2. /\ order' = [order EXCEPT ![o] = new] /\ req' = [req EXCEPT ![r] = Idle]
      /\ UNCHANGED <<quote, bold, asked>>
      /\ st \in ActiveStatuses => ~IndexRefuses(o)
  BY DEF RecordProviderResult
<1>3. /\ st \in {"PROCESSING", "REJECTED"}
      /\ ap \in {"NOT_APPLIED", "PENDING_WRITE_BRIDGE"}
  BY <1>1 DEF StatusFor, AppliedAfter, Row
<1>4. new \in Row
  BY <1>1, <1>3, RowWrite DEF OrderStatuses, ActiveStatuses, ProviderStatuses, BoldStatuses
<1>5. new.status = st /\ new.provider = req[r].answer /\ new.applied = ap
  BY <1>1
<1>6. RowOK(st, req[r].answer, ap, asked[o], bold[o])
  <2>1. /\ RowOK(order[o].status, order[o].provider, order[o].applied, asked[o], bold[o])
        /\ order[o].provider # "NULL"
        /\ req[r].answer # "RUNNING" => bold[o] = req[r].answer
        /\ req[r].confirmed => bold[o] = "APPROVED"
    BY <1>1 DEF Rows, ReqsOK, ReqOK, StartedPcs, RecordProviderResult
  <2>. QED
    BY <1>1, <2>1 DEF RowOK, StatusFor, AppliedAfter, Confirms, BoldStatuses
<1>. HIDE DEF st, ap, new
<1>7. TypeOK'
  <2>1. order' \in [Orders -> Row] /\ req' \in [Requests -> Request]
    BY <1>1, <1>2, <1>4, IdleRequest
  <2>. QED
    BY <1>2, <2>1 DEF TypeOK, Row, Request
<1>8. Rows'
  BY <1>1, <1>2, <1>5, <1>6 DEF Rows
<1>9. OneActive'
  BY <1>1, <1>2, <1>5 DEF OneActive, Active, IndexRefuses
<1>10. ReqsOK'
  <2>1. req[r].answer # "NULL"
    BY <1>1 DEF BoldStatuses
  <2>. QED
    BY <1>1, <1>2, <1>5, <2>1 DEF ReqsOK, ReqOK, OrderPcs, StartedPcs, Idle
<1>. QED
  BY <1>7, <1>8, <1>9, <1>10

(* What an abandoned request wrote stays, and it relies on nothing.         *)
LEMMA AbandonStep ==
    ASSUME IInv, NEW r \in Requests, Abandon(r)
    PROVE  IInv'
<1>. USE DEF IInv, Abandon
<1>1. TypeOK'
  BY DEF TypeOK, Idle
<1>2. ReqOK(r)'
  BY DEF ReqOK, OrderPcs, StartedPcs, TypeOK, Idle
<1>3. \A q \in Requests \ {r} : req'[q] = req[q]
  OBVIOUS
<1>. QED
  BY <1>1, <1>2, <1>3, Moves

(* Bold settles only what was running, which no request takes for settled.  *)
LEMMA BoldSettlesStep ==
    ASSUME IInv, NEW o \in Orders, NEW s \in BoldStatuses, BoldSettles(o, s)
    PROVE  IInv'
<1>. USE DEF IInv, BoldSettles
<1>1. TypeOK'
  BY DEF TypeOK
<1>2. Rows'
  BY DEF Rows, RowOK
<1>3. OneActive'
  BY DEF OneActive, Active
<1>4. ReqsOK'
  BY DEF ReqsOK, ReqOK
<1>. QED
  BY <1>1, <1>2, <1>3, <1>4

(* A stuttering step changes nothing.                                       *)
LEMMA StutterStep ==
    ASSUME IInv, UNCHANGED vars
    PROVE  IInv'
BY DEF IInv, vars, TypeOK, Rows, OneActive, Active, ReqsOK, ReqOK

(* IInv is inductive.                                                       *)
THEOREM Inductive == IInv /\ [Next]_vars => IInv'
<1>. SUFFICES ASSUME IInv, [Next]_vars PROVE IInv'
  OBVIOUS
<1>1. ASSUME NEW r \in Requests, CreateStep(r) PROVE IInv'
  BY <1>1, BeginCreateStep, LookUpActiveStep, InsertOrderStep DEF CreateStep
<1>2. ASSUME NEW r \in Requests, CheckoutStep(r) PROVE IInv'
  BY <1>2, BeginCheckoutStep, RevalidateStep, CancelUnstartedStep,
     ClaimProviderCreateStep, ClaimFailsStep, BoldTakesCreateStep, CreateCallFailsStep,
     MarkProviderCreateUnknownStep DEF CheckoutStep
<1>3. ASSUME NEW r \in Requests, StatusStep(r) PROVE IInv'
  BY <1>3, BeginStatusStep, BoldAnswersStatusStep DEF StatusStep
<1>. QED
  BY <1>1, <1>2, <1>3, MasterChangesStep, ExpireStep, RecordProviderResultStep,
     AbandonStep, BoldTakesLateStep, BoldSettlesStep, StutterStep DEF Next

(* IInv holds in every reachable state.                                     *)
THEOREM Invariance == Spec => []IInv
BY Initially, Inductive, PTL DEF Spec

-----------------------------------------------------------------------------
(* What the invariant gives.                                                *)

(* The rows and the requests keep their types.                              *)
THEOREM TypeCorrect == Spec => []TypeOK
<1>1. IInv => TypeOK
  BY DEF IInv
<1>. QED
  BY <1>1, Invariance, PTL

(* Bold is asked to create a payment of an order at most once, through      *)
(* races, failures, crashes and replays.                                    *)
THEOREM AskedOnceCorrect == Spec => []AskedOnce
<1>1. IInv => AskedOnce
  BY DEF IInv, AskedOnce, Rows, RowOK
<1>. QED
  BY <1>1, Invariance, PTL

(* Of all orders of an installment at most one is with Bold and not         *)
(* rejected: such an order is PROCESSING, so the index lets in no other.    *)
THEOREM CollectedOnceCorrect == Spec => []CollectedOnce
<1>1. ASSUME IInv, NEW o \in Orders, WithBold(o) PROVE Active(o)
  BY <1>1 DEF IInv, Rows, RowOK, WithBold, Active, ActiveStatuses
<1>2. IInv => CollectedOnce
  BY <1>1 DEF IInv, OneActive, CollectedOnce
<1>. QED
  BY <1>2, Invariance, PTL

(* A confirmed order is PROCESSING, and Bold approved it.                   *)
THEOREM CentralSeparationCorrect == Spec => []CentralSeparation
<1>1. IInv => CentralSeparation
  BY DEF IInv, CentralSeparation, Rows, RowOK
<1>. QED
  BY <1>1, Invariance, PTL

(* No step of any request makes a confirmed order unconfirmed.              *)
THEOREM ConfirmationKept == Spec => ConfirmationIsKept
<1>. DEFINE Kept == \A o \in Orders : order[o].applied = "PENDING_WRITE_BRIDGE" =>
                        order'[o].applied = "PENDING_WRITE_BRIDGE"
<1>1. ASSUME IInv, NEW r \in Requests, NEW o \in Orders, InsertOrder(r, o) PROVE Kept
  BY <1>1 DEF InsertOrder, Exists
<1>2. ASSUME IInv, NEW r \in Requests, RecordProviderResult(r) PROVE Kept
  BY <1>2 DEF RecordProviderResult, AppliedAfter
<1>3. ASSUME IInv, NEW r \in Requests, CreateStep(r) PROVE Kept
  BY <1>1, <1>3 DEF CreateStep, BeginCreate, LookUpActive
<1>4. ASSUME IInv, NEW r \in Requests, CheckoutStep(r) PROVE Kept
  <2>1. CASE CancelUnstarted(r)
    BY <1>4, <2>1 DEF CancelUnstarted
  <2>2. CASE ClaimProviderCreate(r)
    BY <1>4, <2>2 DEF ClaimProviderCreate
  <2>3. CASE MarkProviderCreateUnknown(r)
    BY <1>4, <2>3 DEF MarkProviderCreateUnknown
  <2>. QED
    BY <1>4, <2>1, <2>2, <2>3 DEF CheckoutStep, BeginCheckout, Revalidate, ClaimFails,
       BoldTakesCreate, CreateCallFails
<1>5. ASSUME IInv, NEW r \in Requests, StatusStep(r) \/ Abandon(r) PROVE Kept
  BY <1>5 DEF StatusStep, BeginStatus, BoldAnswersStatus, Abandon
<1>6. ASSUME IInv, NEW o \in Orders, Expire(o) PROVE Kept
  BY <1>6 DEF Expire
<1>7. IInv /\ [Next]_vars => [Kept]_vars
  BY <1>2, <1>3, <1>4, <1>5, <1>6 DEF Next, MasterChanges, BoldTakesLate, BoldSettles
<1>. QED
  BY <1>7, Invariance, PTL DEF Spec, ConfirmationIsKept

-----------------------------------------------------------------------------
(* The gateway of the AI.                                                    *)

InferenceSteps == {"none", "route", "budgeted", "reserved", "sent", "settle", "failed"}

Inference ==
    [step : InferenceSteps, route : Nat, read : Nat, cost : Nat,
     error : Failures \union {"none", "BUDGET_EXCEEDED"}]

Overrun == Minus(MaxPerRequest, Estimate)

\* The inferences that hold no reservation.
Unreserved == {i \in Inferences : infer[i].step \in {"none", "route", "budgeted"}}

GatewayTypeOK ==
    /\ infer \in [Inferences -> Inference]
    /\ meter \in [0 .. LastDay -> Nat]
    /\ day \in 0 .. LastDay
    /\ circuit \in [state : {"CLOSED", "OPEN", "HALF_OPEN"}, failures : Nat,
                    probe : BOOLEAN, elapsed : BOOLEAN]

(* Today's counter may still grow by what the inferences with a reservation *)
(* cost above it; no later step adds to the counter of a day gone by.       *)
DaysHold ==
    \A d \in 0 .. LastDay :
        /\ d < day => meter[d] <= MaxPerDay + Cardinality(Inferences) * Overrun
        /\ d = day => meter[d] <= MaxPerDay + Cardinality(Unreserved) * Overrun
        /\ d > day => meter[d] = 0

CostsHold == \A i \in Inferences : At(i, "settle") => infer[i].cost <= MaxPerRequest

GatewayIInv == GatewayTypeOK /\ DaysHold /\ CostsHold /\ ProbeInFlight

-----------------------------------------------------------------------------
LEMMA OverrunGrows ==
    ASSUME NEW c \in Nat, NEW k \in Nat
    PROVE  c * k \in Nat /\ (c + 1) * k = c * k + k
OBVIOUS

LEMMA OverrunIsMonotone ==
    ASSUME NEW c \in Nat, NEW d \in Nat, NEW k \in Nat, c <= d
    PROVE  c * k <= d * k
<1>1. PICK e \in Nat : d = c + e
  <2>. WITNESS d - c \in Nat
  <2>. QED
    OBVIOUS
<1>2. d * k = c * k + e * k /\ e * k \in Nat /\ c * k \in Nat
  BY <1>1
<1>. QED
  BY <1>2

LEMMA OverrunType ==
    Overrun \in Nat /\ MaxPerRequest <= Estimate + Overrun
BY GatewayAssumption DEF Overrun, Minus

(* Subsets of the inferences are finite, and each of them may overrun.      *)
LEMMA Reckon ==
    ASSUME NEW S \in SUBSET Inferences, NEW T \in SUBSET Inferences, S \subseteq T
    PROVE  /\ IsFiniteSet(S) /\ Cardinality(S) \in Nat /\ Cardinality(S) * Overrun \in Nat
           /\ Cardinality(T) * Overrun \in Nat
           /\ Cardinality(S) * Overrun <= Cardinality(T) * Overrun
<1>1. IsFiniteSet(T) /\ IsFiniteSet(S) /\ Cardinality(S) <= Cardinality(T)
  <2>1. IsFiniteSet(T)
    BY FS_Subset, GatewayAssumption
  <2>. QED
    BY <2>1, FS_Subset
<1>2. Cardinality(S) \in Nat /\ Cardinality(T) \in Nat
  BY <1>1, FS_CardinalityType
<1>. QED
  BY <1>1, <1>2, OverrunType, OverrunGrows, OverrunIsMonotone

LEMMA ReckonOneMore ==
    ASSUME NEW S \in SUBSET Inferences, NEW i \in Inferences, i \notin S
    PROVE  Cardinality(S \union {i}) * Overrun = Cardinality(S) * Overrun + Overrun
<1>1. IsFiniteSet(S) /\ Cardinality(S) \in Nat
  BY Reckon
<1>2. Cardinality(S \union {i}) = Cardinality(S) + 1
  BY <1>1, FS_AddElement
<1>. QED
  BY <1>1, <1>2, OverrunType, OverrunGrows

LEMMA GatewayInitially ==
    ASSUME GatewayInit
    PROVE  GatewayIInv
<1>1. Ended \in Inference /\ Ended.step = "none"
  BY DEF Ended, Inference, InferenceSteps
<1>2. GatewayTypeOK
  BY <1>1, GatewayAssumption DEF GatewayInit, GatewayTypeOK
<1>3. Cardinality(Unreserved) * Overrun \in Nat /\ Cardinality(Inferences) * Overrun \in Nat
  BY Reckon DEF Unreserved
<1>4. DaysHold
  BY <1>3, GatewayAssumption DEF GatewayInit, DaysHold
<1>5. CostsHold /\ ProbeInFlight
  BY <1>1 DEF GatewayInit, CostsHold, ProbeInFlight, At
<1>. QED
  BY <1>2, <1>4, <1>5 DEF GatewayIInv

(* One inference moves.                                                     *)
LEMMA InferenceMoves ==
    ASSUME GatewayTypeOK, NEW i \in Inferences, NEW x \in Inference,
           infer' = [infer EXCEPT ![i] = x]
    PROVE  /\ infer' \in [Inferences -> Inference]
           /\ infer'[i] = x /\ \A j \in Inferences \ {i} : infer'[j] = infer[j]
           /\ Unreserved' = IF x.step \in {"none", "route", "budgeted"}
                            THEN Unreserved \union {i} ELSE Unreserved \ {i}
BY DEF GatewayTypeOK, Unreserved

(* Nothing more is spent and no reservation is taken.                       *)
LEMMA NothingMoreSpent ==
    ASSUME GatewayTypeOK, DaysHold, UNCHANGED day,
           meter' \in [0 .. LastDay -> Nat], \A d \in 0 .. LastDay : meter'[d] <= meter[d],
           Unreserved \subseteq Unreserved', Unreserved' \subseteq Inferences
    PROVE  DaysHold'
<1>1. /\ Cardinality(Unreserved) * Overrun \in Nat /\ Cardinality(Unreserved') * Overrun \in Nat
      /\ Cardinality(Unreserved) * Overrun <= Cardinality(Unreserved') * Overrun
  BY Reckon DEF Unreserved
<1>2. Cardinality(Inferences) * Overrun \in Nat /\ MaxPerDay \in Nat
  BY Reckon, GatewayAssumption
<1>3. ASSUME NEW d \in 0 .. LastDay
      PROVE  /\ d < day => meter'[d] <= MaxPerDay + Cardinality(Inferences) * Overrun
             /\ d = day => meter'[d] <= MaxPerDay + Cardinality(Unreserved') * Overrun
             /\ d > day => meter'[d] = 0
  <2>1. meter'[d] \in Nat /\ meter[d] \in Nat /\ meter'[d] <= meter[d]
    BY DEF GatewayTypeOK
  <2>. QED
    BY <1>1, <1>2, <2>1 DEF DaysHold
<1>. QED
  BY <1>3 DEF DaysHold

LEMMA EndedIsTyped ==
    Ended \in Inference /\ Ended.step = "none"
BY DEF Ended, Inference, InferenceSteps

(* The circuit: what is recorded clears the probe and leaves HALF_OPEN.     *)
Circuits == [state : {"CLOSED", "OPEN", "HALF_OPEN"}, failures : Nat,
             probe : BOOLEAN, elapsed : BOOLEAN]

LEMMA CircuitRecorded ==
    ASSUME GatewayTypeOK,
           NEW c \in {RecordSuccess, RecordFailure, RecordIgnored}
    PROVE  c \in Circuits /\ c.state # "HALF_OPEN" /\ ~c.probe
<1>1. circuit \in Circuits
  BY DEF GatewayTypeOK, Circuits
<1>2. RecordSuccess \in Circuits /\ RecordSuccess.state # "HALF_OPEN" /\ ~RecordSuccess.probe
  BY DEF RecordSuccess, Circuits
<1>3. RecordIgnored \in Circuits /\ RecordIgnored.state # "HALF_OPEN" /\ ~RecordIgnored.probe
  BY <1>1, <1>2 DEF RecordIgnored, Circuits
<1>4. RecordFailure \in Circuits /\ RecordFailure.state # "HALF_OPEN" /\ ~RecordFailure.probe
  <2>1. CASE circuit.state = "HALF_OPEN" \/ circuit.failures + 1 >= FailureThreshold
    BY <2>1, GatewayAssumption DEF RecordFailure, Circuits
  <2>2. CASE ~(circuit.state = "HALF_OPEN" \/ circuit.failures + 1 >= FailureThreshold)
    <3>1. circuit.failures + 1 \in Nat
      BY <1>1 DEF Circuits
    <3>. QED
      BY <1>1, <2>2, <3>1 DEF RecordFailure, Circuits
  <2>. QED
    BY <2>1, <2>2
<1>. QED
  BY <1>2, <1>3, <1>4

(* A step of an inference that neither spends nor reserves, and leaves the  *)
(* circuit to a caller with a call in flight or without a probe.            *)
LEMMA InferenceKeeps ==
    ASSUME GatewayIInv, NEW i \in Inferences, NEW x \in Inference,
           infer' = [infer EXCEPT ![i] = x], UNCHANGED day,
           meter' \in [0 .. LastDay -> Nat], \A d \in 0 .. LastDay : meter'[d] <= meter[d],
           x.step \in {"none", "route", "budgeted"} \/ i \notin Unreserved,
           x.step = "settle" => x.cost <= MaxPerRequest,
           circuit' \in Circuits,
           \/ x.step = "sent"
           \/ circuit'.state # "HALF_OPEN" /\ ~circuit'.probe
           \/ UNCHANGED circuit /\ ~At(i, "sent")
    PROVE  GatewayIInv'
<1>. USE DEF GatewayIInv
<1>1. /\ infer' \in [Inferences -> Inference]
      /\ infer'[i] = x /\ \A j \in Inferences \ {i} : infer'[j] = infer[j]
      /\ Unreserved' = IF x.step \in {"none", "route", "budgeted"}
                       THEN Unreserved \union {i} ELSE Unreserved \ {i}
  BY InferenceMoves
<1>2. GatewayTypeOK'
  BY <1>1 DEF GatewayTypeOK, Circuits
<1>3. DaysHold'
  <2>1. Unreserved \subseteq Unreserved' /\ Unreserved' \subseteq Inferences
    BY <1>1 DEF Unreserved
  <2>. QED
    BY <2>1, NothingMoreSpent
<1>4. CostsHold'
  BY <1>1 DEF CostsHold, At
<1>5. ProbeInFlight'
  BY <1>1 DEF ProbeInFlight, At
<1>. QED
  BY <1>2, <1>3, <1>4, <1>5

LEMMA BudgetSteps ==
    ASSUME GatewayIInv, NEW i \in Inferences,
           Infer(i) \/ ReadBudget(i) \/ Lose(i)
    PROVE  GatewayIInv'
<1>. USE DEF GatewayIInv
<1>1. infer[i] \in Inference /\ circuit \in Circuits
  BY DEF GatewayTypeOK, Circuits
<1>2. /\ UNCHANGED <<meter, day, circuit>> /\ ~At(i, "sent")
      /\ \E x \in Inference : /\ infer' = [infer EXCEPT ![i] = x]
                              /\ x.step \in {"none", "route", "budgeted"}
  <2>1. CASE Infer(i)
    <3>. DEFINE x == [Ended EXCEPT !.step = "route", !.route = 1]
    <3>1. x \in Inference /\ x.step = "route"
      BY EndedIsTyped DEF Ended, Inference, InferenceSteps, Failures, Retryable
    <3>. QED
      BY <2>1, <3>1 DEF Infer, At
  <2>2. CASE ReadBudget(i)
    <3>. DEFINE x == [infer[i] EXCEPT !.step = "budgeted", !.read = meter[day]]
    <3>1. meter[day] \in Nat
      BY DEF GatewayTypeOK
    <3>2. x \in Inference /\ x.step = "budgeted"
      BY <1>1, <3>1 DEF Inference, InferenceSteps, Failures, Retryable
    <3>3. infer' = [infer EXCEPT ![i] = x] \/ infer' = [infer EXCEPT ![i] = Ended]
      BY <2>2 DEF ReadBudget
    <3>4. UNCHANGED <<meter, day, circuit>> /\ ~At(i, "sent")
      BY <2>2 DEF ReadBudget, At
    <3>. QED
      BY <3>2, <3>3, <3>4, EndedIsTyped
  <2>3. CASE Lose(i)
    BY <2>3, EndedIsTyped DEF Lose, At
  <2>. QED
    BY <2>1, <2>2, <2>3
<1>3. \A d \in 0 .. LastDay : meter[d] <= meter[d]
  BY DEF GatewayTypeOK
<1>. QED
  BY <1>1, <1>2, <1>3, InferenceKeeps DEF GatewayTypeOK

LEMMA ReserveKeeps ==
    ASSUME GatewayIInv, NEW i \in Inferences, Reserve(i)
    PROVE  GatewayIInv'
<1>. USE DEF GatewayIInv
<1>1. infer[i] \in Inference /\ circuit \in Circuits /\ At(i, "budgeted")
  BY DEF GatewayTypeOK, Circuits, Reserve
<1>2. CASE Within(i)
  <2>. DEFINE x == [infer[i] EXCEPT !.step = "reserved"]
  <2>1. /\ infer' = [infer EXCEPT ![i] = x]
        /\ meter' = [meter EXCEPT ![day] = @ + Estimate] /\ UNCHANGED <<day, circuit>>
    BY <1>2 DEF Reserve, Step
  <2>2. x \in Inference /\ x.step = "reserved"
    BY <1>1 DEF Inference, InferenceSteps, Failures, Retryable
  <2>3. /\ infer' \in [Inferences -> Inference]
        /\ infer'[i] = x /\ \A j \in Inferences \ {i} : infer'[j] = infer[j]
        /\ Unreserved' = Unreserved \ {i}
    BY <2>1, <2>2, InferenceMoves
  <2>4. /\ meter' \in [0 .. LastDay -> Nat] /\ meter'[day] <= MaxPerDay
        /\ \A d \in 0 .. LastDay \ {day} : meter'[d] = meter[d]
    BY <1>2, <2>1, GatewayAssumption DEF Within, GatewayTypeOK
  <2>5. GatewayTypeOK'
    BY <2>1, <2>3, <2>4 DEF GatewayTypeOK
  <2>6. DaysHold'
    <3>1. Cardinality(Unreserved') * Overrun \in Nat /\ MaxPerDay \in Nat
      BY <2>3, Reckon, GatewayAssumption DEF Unreserved
    <3>2. ASSUME NEW d \in 0 .. LastDay
          PROVE  /\ d < day' => meter'[d] <= MaxPerDay + Cardinality(Inferences) * Overrun
                 /\ d = day' => meter'[d] <= MaxPerDay + Cardinality(Unreserved') * Overrun
                 /\ d > day' => meter'[d] = 0
      <4>1. CASE d = day
        <5>1. meter'[day] \in Nat
          BY <2>4 DEF GatewayTypeOK
        <5>. QED
          BY <2>1, <2>4, <3>1, <4>1, <5>1 DEF GatewayTypeOK
      <4>2. CASE d # day
        BY <2>1, <2>4, <4>2 DEF DaysHold
      <4>. QED
        BY <4>1, <4>2
    <3>. QED
      BY <3>2 DEF DaysHold
  <2>7. CostsHold'
    BY <2>2, <2>3 DEF CostsHold, At
  <2>8. ProbeInFlight'
    BY <1>1, <2>1, <2>3 DEF ProbeInFlight, At
  <2>. QED
    BY <2>5, <2>6, <2>7, <2>8
<1>3. CASE ~Within(i)
  <2>1. infer' = [infer EXCEPT ![i] = Ended] /\ UNCHANGED <<meter, day, circuit>>
    BY <1>3 DEF Reserve
  <2>2. ~At(i, "sent")
    BY <1>1 DEF At
  <2>3. \A d \in 0 .. LastDay : meter[d] <= meter[d]
    BY DEF GatewayTypeOK
  <2>. QED
    BY <1>1, <2>1, <2>2, <2>3, EndedIsTyped, InferenceKeeps DEF GatewayTypeOK
<1>. QED
  BY <1>2, <1>3

LEMMA SendKeeps ==
    ASSUME GatewayIInv, NEW i \in Inferences, Send(i)
    PROVE  GatewayIInv'
<1>. USE DEF GatewayIInv
<1>1. /\ infer[i] \in Inference /\ circuit \in Circuits /\ At(i, "reserved")
      /\ UNCHANGED <<meter, day>>
  BY DEF GatewayTypeOK, Circuits, Send
<1>2. /\ i \notin Unreserved /\ ~At(i, "sent") /\ meter' \in [0 .. LastDay -> Nat]
      /\ \A d \in 0 .. LastDay : meter'[d] <= meter[d]
  BY <1>1 DEF Unreserved, At, GatewayTypeOK
<1>3. CASE Closed \/ Probes
  <2>. DEFINE x == [infer[i] EXCEPT !.step = "sent"]
  <2>1. infer' = [infer EXCEPT ![i] = x]
    BY <1>3 DEF Send, Step
  <2>2. x \in Inference /\ x.step = "sent"
    BY <1>1 DEF Inference, InferenceSteps, Failures, Retryable
  <2>3. circuit' \in Circuits
    BY <1>1, <1>3 DEF Send, Circuits
  <2>. QED
    BY <1>1, <1>2, <2>1, <2>2, <2>3, InferenceKeeps
<1>4. CASE ~(Closed \/ Probes)
  <2>. DEFINE x == [infer[i] EXCEPT !.step = "failed", !.error = "PROVIDER_ERROR"]
  <2>1. infer' = [infer EXCEPT ![i] = x] /\ UNCHANGED circuit
    BY <1>4 DEF Send
  <2>2. x \in Inference /\ x.step = "failed"
    BY <1>1 DEF Inference, InferenceSteps, Failures, Retryable
  <2>. QED
    BY <1>1, <1>2, <2>1, <2>2, InferenceKeeps
<1>. QED
  BY <1>3, <1>4

LEMMA AnswerKeeps ==
    ASSUME GatewayIInv, NEW i \in Inferences,
           \/ \E error \in Failures : Fail(i, error)
           \/ \E cost \in Costs : Respond(i, cost)
    PROVE  GatewayIInv'
<1>. USE DEF GatewayIInv
<1>1. /\ infer[i] \in Inference /\ circuit \in Circuits /\ At(i, "sent")
      /\ UNCHANGED <<meter, day>>
  BY DEF GatewayTypeOK, Circuits, Fail, Respond
<1>2. /\ i \notin Unreserved /\ meter' \in [0 .. LastDay -> Nat]
      /\ \A d \in 0 .. LastDay : meter'[d] <= meter[d]
  BY <1>1 DEF Unreserved, At, GatewayTypeOK
<1>3. ASSUME NEW error \in Failures, Fail(i, error)
      PROVE  GatewayIInv'
  <2>. DEFINE x == [infer[i] EXCEPT !.step = "failed", !.error = error]
  <2>1. infer' = [infer EXCEPT ![i] = x]
    BY <1>3 DEF Fail
  <2>2. x \in Inference /\ x.step = "failed"
    BY <1>1 DEF Inference, InferenceSteps, Failures, Retryable
  <2>3. circuit' \in Circuits /\ circuit'.state # "HALF_OPEN" /\ ~circuit'.probe
    <3>1. circuit' \in {RecordSuccess, RecordFailure, RecordIgnored}
      BY <1>3 DEF Fail
    <3>. QED
      BY <3>1, CircuitRecorded
  <2>. QED
    BY <1>1, <1>2, <2>1, <2>2, <2>3, InferenceKeeps
<1>4. ASSUME NEW cost \in Costs, Respond(i, cost)
      PROVE  GatewayIInv'
  <2>1. circuit' \in Circuits /\ circuit'.state # "HALF_OPEN" /\ ~circuit'.probe
    <3>1. circuit' = RecordSuccess
      BY <1>4 DEF Respond
    <3>. QED
      BY <3>1, CircuitRecorded
  <2>2. CASE cost <= MaxPerRequest /\ infer[i].read + cost <= MaxPerDay
    <3>. DEFINE x == [infer[i] EXCEPT !.step = "settle", !.cost = cost]
    <3>1. infer' = [infer EXCEPT ![i] = x]
      BY <1>4, <2>2 DEF Respond
    <3>2. x \in Inference /\ x.step = "settle" /\ x.cost = cost
      BY <1>1, GatewayAssumption DEF Inference, InferenceSteps, Failures, Retryable
    <3>. QED
      BY <1>1, <1>2, <2>1, <2>2, <3>1, <3>2, InferenceKeeps
  <2>3. CASE ~(cost <= MaxPerRequest /\ infer[i].read + cost <= MaxPerDay)
    <3>. DEFINE x == [infer[i] EXCEPT !.step = "failed", !.error = "BUDGET_EXCEEDED"]
    <3>1. infer' = [infer EXCEPT ![i] = x]
      BY <1>4, <2>3 DEF Respond
    <3>2. x \in Inference /\ x.step = "failed"
      BY <1>1 DEF Inference, InferenceSteps, Failures, Retryable
    <3>. QED
      BY <1>1, <1>2, <2>1, <3>1, <3>2, InferenceKeeps
  <2>. QED
    BY <2>2, <2>3
<1>. QED
  BY <1>3, <1>4

LEMMA ReturnKeeps ==
    ASSUME GatewayIInv, NEW i \in Inferences, Return(i)
    PROVE  GatewayIInv'
<1>. USE DEF GatewayIInv
<1>1. /\ infer[i] \in Inference /\ circuit \in Circuits /\ At(i, "failed")
      /\ UNCHANGED <<day, circuit>> /\ ~At(i, "sent")
  BY DEF GatewayTypeOK, Circuits, Return, At
<1>2. /\ meter' \in [0 .. LastDay -> Nat]
      /\ \A d \in 0 .. LastDay : meter'[d] <= meter[d]
  BY GatewayAssumption DEF Return, Minus, GatewayTypeOK
<1>3. /\ infer[i].route + 1 \in Nat
  BY <1>1 DEF Inference
<1>. DEFINE x == [Ended EXCEPT !.step = "route", !.route = infer[i].route + 1]
<1>4. x \in Inference /\ x.step = "route"
  BY <1>3, EndedIsTyped DEF Ended, Inference, InferenceSteps, Failures, Retryable
<1>5. infer' = [infer EXCEPT ![i] = x] \/ infer' = [infer EXCEPT ![i] = Ended]
  BY DEF Return, Fallback
<1>6. CASE infer' = [infer EXCEPT ![i] = x]
  BY <1>1, <1>2, <1>4, <1>6, InferenceKeeps
<1>7. CASE infer' = [infer EXCEPT ![i] = Ended]
  BY <1>1, <1>2, <1>7, EndedIsTyped, InferenceKeeps
<1>. QED
  BY <1>5, <1>6, <1>7

(* What an answer costs above its estimate, its reservation's end pays for.  *)
LEMMA SettleKeeps ==
    ASSUME GatewayIInv, NEW i \in Inferences, Settle(i)
    PROVE  GatewayIInv'
<1>. USE DEF GatewayIInv
<1>1. /\ infer[i] \in Inference /\ At(i, "settle") /\ UNCHANGED <<day, circuit>>
      /\ infer[i].cost <= MaxPerRequest /\ infer[i].cost \in Nat
  BY DEF GatewayTypeOK, Settle, CostsHold, Inference
<1>2. /\ infer' \in [Inferences -> Inference]
      /\ infer'[i] = Ended /\ \A j \in Inferences \ {i} : infer'[j] = infer[j]
      /\ Unreserved' = Unreserved \union {i} /\ i \notin Unreserved
  BY <1>1, EndedIsTyped, InferenceMoves DEF Settle, Unreserved, At
<1>3. /\ meter \in [0 .. LastDay -> Nat] /\ day \in 0 .. LastDay /\ meter[day] \in Nat
      /\ Estimate \in Nat /\ MaxPerRequest \in Nat /\ MaxPerDay \in Nat
  BY GatewayAssumption DEF GatewayTypeOK
<1>4. /\ meter' \in [0 .. LastDay -> Nat] /\ meter'[day] <= meter[day] + Overrun
      /\ \A d \in 0 .. LastDay \ {day} : meter'[d] = meter[d]
  <2>1. meter' = [meter EXCEPT ![day] = Minus(meter[day] + infer[i].cost, Estimate)]
    BY DEF Settle
  <2>2. /\ Minus(meter[day] + infer[i].cost, Estimate) \in Nat
        /\ Minus(meter[day] + infer[i].cost, Estimate) <= meter[day] + Overrun
    BY <1>1, <1>3, OverrunType DEF Minus
  <2>. QED
    BY <1>3, <2>1, <2>2
<1>5. GatewayTypeOK'
  BY <1>1, <1>2, <1>4 DEF GatewayTypeOK
<1>6. DaysHold'
  <2>1. /\ Cardinality(Unreserved') * Overrun = Cardinality(Unreserved) * Overrun + Overrun
        /\ Cardinality(Unreserved) * Overrun \in Nat /\ Overrun \in Nat
    BY <1>2, Reckon, ReckonOneMore, OverrunType DEF Unreserved
  <2>2. ASSUME NEW d \in 0 .. LastDay
        PROVE  /\ d < day' => meter'[d] <= MaxPerDay + Cardinality(Inferences) * Overrun
               /\ d = day' => meter'[d] <= MaxPerDay + Cardinality(Unreserved') * Overrun
               /\ d > day' => meter'[d] = 0
    <3>1. CASE d = day
      <4>1. meter[day] <= MaxPerDay + Cardinality(Unreserved) * Overrun /\ meter'[day] \in Nat
        BY <1>3, <1>4 DEF DaysHold
      <4>2. meter'[day] <= MaxPerDay + Cardinality(Unreserved') * Overrun
        BY <1>3, <1>4, <2>1, <4>1
      <4>. QED
        BY <1>1, <1>3, <3>1, <4>2
    <3>2. CASE d # day
      BY <1>1, <1>4, <3>2 DEF DaysHold
    <3>. QED
      BY <3>1, <3>2
  <2>. QED
    BY <2>2 DEF DaysHold
<1>7. CostsHold'
  BY <1>2, EndedIsTyped DEF CostsHold, At
<1>8. ProbeInFlight'
  BY <1>1, <1>2 DEF ProbeInFlight, At
<1>. QED
  BY <1>5, <1>6, <1>7, <1>8

LEMMA RestartKeeps ==
    ASSUME GatewayIInv, Restart
    PROVE  GatewayIInv'
<1>. USE DEF GatewayIInv
<1>1. /\ infer' = [i \in Inferences |-> Ended] /\ circuit' = RecordSuccess
      /\ UNCHANGED <<meter, day>>
  BY DEF Restart
<1>2. circuit' \in Circuits /\ circuit'.state # "HALF_OPEN" /\ ~circuit'.probe
  BY <1>1, CircuitRecorded
<1>3. GatewayTypeOK'
  BY <1>1, <1>2, EndedIsTyped DEF GatewayTypeOK, Circuits
<1>4. Unreserved' = Inferences /\ Unreserved \subseteq Inferences
  BY <1>1, EndedIsTyped DEF Unreserved
<1>5. DaysHold'
  <2>1. \A d \in 0 .. LastDay : meter'[d] <= meter[d]
    BY <1>1 DEF GatewayTypeOK
  <2>. QED
    BY <1>1, <1>3, <1>4, <2>1, NothingMoreSpent DEF GatewayTypeOK
<1>6. CostsHold' /\ ProbeInFlight'
  BY <1>1, <1>2, EndedIsTyped DEF CostsHold, ProbeInFlight, At
<1>. QED
  BY <1>3, <1>5, <1>6

LEMMA ResetKeeps ==
    ASSUME GatewayIInv, ResetElapses
    PROVE  GatewayIInv'
<1>. USE DEF GatewayIInv
<1>1. circuit \in Circuits /\ circuit' = [circuit EXCEPT !.elapsed = TRUE] /\ UNCHANGED <<infer, meter, day>>
  BY DEF ResetElapses, GatewayTypeOK, Circuits
<1>2. circuit' \in Circuits /\ circuit'.state = circuit.state /\ circuit'.probe = circuit.probe
  BY <1>1 DEF Circuits
<1>3. Unreserved' = Unreserved
  BY <1>1 DEF Unreserved
<1>. QED
  BY <1>1, <1>2, <1>3 DEF GatewayTypeOK, Circuits, DaysHold, CostsHold, ProbeInFlight, At

(* The day gone by keeps its counter; the new one starts without any.        *)
LEMMA MidnightKeeps ==
    ASSUME GatewayIInv, Midnight
    PROVE  GatewayIInv'
<1>. USE DEF GatewayIInv
<1>1. /\ day < LastDay /\ day' = day + 1 /\ UNCHANGED <<infer, meter, circuit>>
      /\ day \in 0 .. LastDay
  BY DEF Midnight, GatewayTypeOK
<1>2. GatewayTypeOK' /\ Unreserved' = Unreserved
  BY <1>1, GatewayAssumption DEF GatewayTypeOK, Unreserved
<1>3. DaysHold'
  <2>1. /\ Cardinality(Unreserved) * Overrun <= Cardinality(Inferences) * Overrun
        /\ Cardinality(Unreserved) * Overrun \in Nat /\ Cardinality(Inferences) * Overrun \in Nat
        /\ MaxPerDay \in Nat
    BY Reckon, GatewayAssumption DEF Unreserved
  <2>2. ASSUME NEW d \in 0 .. LastDay
        PROVE  /\ d < day' => meter'[d] <= MaxPerDay + Cardinality(Inferences) * Overrun
               /\ d = day' => meter'[d] <= MaxPerDay + Cardinality(Unreserved') * Overrun
               /\ d > day' => meter'[d] = 0
    <3>1. meter'[d] = meter[d] /\ meter[d] \in Nat
      BY <1>1 DEF GatewayTypeOK
    <3>. QED
      BY <1>1, <1>2, <2>1, <3>1 DEF DaysHold
  <2>. QED
    BY <2>2 DEF DaysHold
<1>4. CostsHold' /\ ProbeInFlight'
  BY <1>1 DEF CostsHold, ProbeInFlight, At
<1>. QED
  BY <1>2, <1>3, <1>4

LEMMA GatewayStands ==
    ASSUME GatewayIInv, UNCHANGED gatewayVars
    PROVE  GatewayIInv'
BY DEF gatewayVars, GatewayIInv, GatewayTypeOK, DaysHold, Unreserved, CostsHold, ProbeInFlight, At

LEMMA GatewayInductive ==
    ASSUME GatewayIInv, [GatewayNext]_gatewayVars
    PROVE  GatewayIInv'
<1>1. ASSUME NEW i \in Inferences,
             \/ Infer(i) \/ ReadBudget(i) \/ Reserve(i) \/ Send(i)
             \/ \E error \in Failures : Fail(i, error)
             \/ \E cost \in Costs : Respond(i, cost)
             \/ Return(i) \/ Settle(i) \/ Lose(i)
      PROVE  GatewayIInv'
  BY <1>1, BudgetSteps, ReserveKeeps, SendKeeps, AnswerKeeps, ReturnKeeps, SettleKeeps
<1>. QED
  BY <1>1, RestartKeeps, ResetKeeps, MidnightKeeps, GatewayStands DEF GatewayNext

LEMMA GatewayHolds ==
    ASSUME GatewayIInv
    PROVE  DailyCeiling /\ ProbeInFlight
<1>1. ASSUME NEW d \in 0 .. LastDay
      PROVE  meter[d] <= MaxPerDay + Cardinality(Inferences) * Overrun
  <2>1. /\ Cardinality(Unreserved) * Overrun <= Cardinality(Inferences) * Overrun
        /\ Cardinality(Unreserved) * Overrun \in Nat /\ Cardinality(Inferences) * Overrun \in Nat
        /\ MaxPerDay \in Nat
    BY Reckon, GatewayAssumption DEF Unreserved
  <2>2. meter[d] \in Nat /\ day \in 0 .. LastDay
    BY DEF GatewayIInv, GatewayTypeOK
  <2>. QED
    BY <2>1, <2>2 DEF GatewayIInv, DaysHold
<1>. QED
  BY <1>1 DEF GatewayIInv, DailyCeiling, Overrun

-----------------------------------------------------------------------------
(* The portal.                                                               *)

CodeRows == [status : {"ABSENT", "PENDING", "VERIFIED", "EXPIRED", "LOCKED", "DRAFT",
                   "CHALLENGE_PENDING", "SUBMITTED", "APPLIED", "REJECTED"},
         code : Nat, attempts : Nat, verified : BOOLEAN, expired : BOOLEAN, cooling : BOOLEAN]

GuessVisit == [step : {"guess"}, right : BOOLEAN, late : BOOLEAN, attempts : Nat]
EnterVisit == [step : {"enter"}, assurance : Assurances]
StoreVisit == [step : {"store"}, key : IdempotencyKeys, answer : Nat \ {0}]
CoreAnswers == {"SUBMITTED", "APPLIED", "REJECTED"}
RecordVisit == [step : {"record"}, status : CoreAnswers]

AccessVisits == {NoVisit} \union GuessVisit \union EnterVisit \union [step : {"resend"}]
MutationVisits == {NoVisit} \union [step : {"resolved"}, csrf : Nat] \union [step : {"admitted"}]
                      \union [step : {"mutate"}, key : IdempotencyKeys] \union StoreVisit
ContactVisits == {NoVisit} \union GuessVisit \union [step : {"resend", "submit"}] \union RecordVisit

\* A challenge that was claimed has one session, made or about to be made.
AccessIInv ==
    /\ visit \in [Visits -> AccessVisits]
    /\ challenge \in CodeRows
    /\ entries \in [Assurances -> Nat]
    /\ challenge.status = "ABSENT" => ~challenge.verified
    /\ \A h \in Visits : Reached(h, "enter") =>
        /\ challenge.verified
        /\ entries["OTP"] + entries["LOOKUP"] = 0
        /\ \A other \in Visits \ {h} : ~Reached(other, "enter")
    /\ ~challenge.verified => entries["OTP"] + entries["LOOKUP"] = 0
    /\ entries["OTP"] + entries["LOOKUP"] <= 1

\* No token to come has admitted a request, and what a client was told under a
\* key is what the key stores.
MutationIInv ==
    /\ visit \in [Visits -> MutationVisits]
    /\ session \in [open : BOOLEAN, csrf : 1 .. MaxIssued]
    /\ admitted \in [1 .. MaxIssued -> Nat]
    /\ stored \in [IdempotencyKeys -> Nat]
    /\ runs \in Nat
    /\ DOMAIN answers = IdempotencyKeys
    /\ \A t \in 1 .. MaxIssued : admitted[t] <= 1 /\ (t >= session.csrf => admitted[t] = 0)
    /\ \A k \in IdempotencyKeys : answers[k] \subseteq {stored[k]} \ {0}

\* What is submitted was verified, and what is to be recorded the core answered.
ContactIInv ==
    /\ visit \in [Visits -> ContactVisits]
    /\ contact \in CodeRows
    /\ core \in CoreAnswers \union {"UNKNOWN"}
    /\ contact.status = "VERIFIED" => contact.verified
    /\ contact.status \in CoreAnswers => core # "UNKNOWN"
    /\ \A h \in Visits :
        /\ Reached(h, "submit") => contact.verified
        /\ Reached(h, "record") => /\ core # "UNKNOWN"
                                   /\ visit[h].status # "SUBMITTED" => core = visit[h].status
    /\ ContactIsVerifiedAndTrue

-----------------------------------------------------------------------------
LEMMA PortalInitially ==
    ASSUME PortalInit
    PROVE  AccessIInv /\ MutationIInv /\ ContactIInv
<1>1. \A h \in Visits : visit[h] = NoVisit /\ NoVisit.step = "none"
  BY DEF PortalInit, NoVisit
<1>2. NoCode \in CodeRows /\ ~NoCode.verified /\ NoCode.status = "ABSENT"
  BY DEF NoCode, CodeRows
<1>3. AccessIInv
  BY <1>1, <1>2 DEF PortalInit, AccessIInv, AccessVisits, Assurances, Reached
<1>4. MutationIInv
  BY <1>1, <1>2, PortalAssumption DEF PortalInit, MutationIInv, MutationVisits
<1>5. ContactIInv
  BY <1>1, <1>2 DEF PortalInit, ContactIInv, ContactVisits, Reached, CoreAnswers, ContactIsVerifiedAndTrue
<1>. QED
  BY <1>3, <1>4, <1>5

(* A visit is known by its step.                                             *)
LEMMA VisitOfStep ==
    ASSUME NEW v
    PROVE  /\ v \in AccessVisits \union ContactVisits => (v.step = "guess" => v \in GuessVisit)
           /\ v \in AccessVisits => (v.step = "enter" => v \in EnterVisit)
           /\ v \in MutationVisits =>
                /\ v.step = "resolved" => v \in [step : {"resolved"}, csrf : Nat]
                /\ v.step = "mutate" => v \in [step : {"mutate"}, key : IdempotencyKeys]
                /\ v.step = "store" => v \in StoreVisit
           /\ v \in ContactVisits => (v.step = "record" => v \in RecordVisit)
BY DEF AccessVisits, MutationVisits, ContactVisits, NoVisit, GuessVisit, EnterVisit, StoreVisit, RecordVisit

LEMMA Visited ==
    ASSUME NEW Kinds, visit \in [Visits -> Kinds], NEW h \in Visits, NEW v \in Kinds, Goto(h, v)
    PROVE  /\ visit' \in [Visits -> Kinds]
           /\ visit'[h] = v /\ \A other \in Visits \ {h} : visit'[other] = visit[other]
BY DEF Goto

(* The columns a step writes, and those it leaves.                           *)
LEMMA RowRenewed ==
    ASSUME NEW row \in CodeRows
    PROVE  Renewed(row) \in CodeRows /\ Renewed(row).verified = row.verified /\ Renewed(row).status = row.status
<1>1. row.code + 1 \in Nat
  BY DEF CodeRows
<1>. QED
  BY <1>1 DEF Renewed, CodeRows

LEMMA RowMissed ==
    ASSUME NEW row \in CodeRows, NEW n \in Nat
    PROVE  /\ Missed(row, n) \in CodeRows /\ Missed(row, n).verified = row.verified
           /\ Missed(row, n).status \in {row.status, "LOCKED"}
<1>1. n + 1 \in Nat
  OBVIOUS
<1>2. CASE n + 1 >= MaxAttempts
  BY <1>1, <1>2 DEF Missed, CodeRows
<1>3. CASE ~(n + 1 >= MaxAttempts)
  BY <1>1, <1>3 DEF Missed, CodeRows
<1>. QED
  BY <1>2, <1>3

LEMMA RowAged ==
    ASSUME NEW row \in CodeRows, NEW aged \in Aged(row)
    PROVE  aged \in CodeRows /\ aged.verified = row.verified /\ aged.status = row.status
BY DEF Aged, CodeRows

LEMMA RowFields ==
    ASSUME NEW row \in CodeRows
    PROVE  /\ [row EXCEPT !.cooling = TRUE] \in CodeRows
           /\ [row EXCEPT !.cooling = TRUE].verified = row.verified
           /\ [row EXCEPT !.cooling = TRUE].status = row.status
           /\ [row EXCEPT !.cooling = FALSE] \in CodeRows
           /\ [row EXCEPT !.cooling = FALSE].verified = row.verified
           /\ [row EXCEPT !.cooling = FALSE].status = row.status
BY DEF CodeRows

LEMMA RowStatus ==
    ASSUME NEW row \in CodeRows,
           NEW status \in {"ABSENT", "PENDING", "VERIFIED", "EXPIRED", "LOCKED", "DRAFT",
                           "CHALLENGE_PENDING", "SUBMITTED", "APPLIED", "REJECTED"}
    PROVE  /\ [row EXCEPT !.status = status] \in CodeRows
           /\ [row EXCEPT !.status = status].verified = row.verified
           /\ [row EXCEPT !.status = status].status = status
BY DEF CodeRows

LEMMA RowClaimed ==
    ASSUME NEW row \in CodeRows
    PROVE  /\ [row EXCEPT !.status = "VERIFIED", !.verified = TRUE] \in CodeRows
           /\ [row EXCEPT !.status = "VERIFIED", !.verified = TRUE].verified
           /\ [row EXCEPT !.status = "VERIFIED", !.verified = TRUE].status = "VERIFIED"
BY DEF CodeRows

LEMMA GuessType ==
    ASSUME NEW row \in CodeRows, NEW c
    PROVE  Guess(row, c) \in GuessVisit /\ Guess(row, c).step = "guess"
BY DEF CodeRows, Guess, GuessVisit

-----------------------------------------------------------------------------
(* Access.  A step that leaves the claim alone leaves its session alone.     *)
LEMMA AccessStands ==
    ASSUME AccessIInv, UNCHANGED entries, challenge' \in CodeRows,
           challenge'.verified = challenge.verified,
           challenge'.status = "ABSENT" => challenge.status = "ABSENT",
           visit' \in [Visits -> AccessVisits],
           \A h \in Visits : Reached(h, "enter")' => Reached(h, "enter")
    PROVE  AccessIInv' /\ (~challenge.verified => ~challenge'.verified)
BY DEF AccessIInv

LEMMA NoVisitType ==
    NoVisit \in AccessVisits /\ NoVisit \in MutationVisits /\ NoVisit \in ContactVisits /\ NoVisit.step = "none"
BY DEF NoVisit, AccessVisits, MutationVisits, ContactVisits

LEMMA AccessGoes ==
    ASSUME AccessIInv, NEW h \in Visits, NEW v \in AccessVisits, v.step # "enter", Goto(h, v),
           UNCHANGED entries, challenge' \in CodeRows, challenge'.verified = challenge.verified,
           challenge'.status = "ABSENT" => challenge.status = "ABSENT"
    PROVE  AccessIInv' /\ (~challenge.verified => ~challenge'.verified)
<1>1. /\ visit' \in [Visits -> AccessVisits]
      /\ visit'[h] = v /\ \A other \in Visits \ {h} : visit'[other] = visit[other]
  BY Visited DEF AccessIInv
<1>2. \A other \in Visits : Reached(other, "enter")' => Reached(other, "enter")
  BY <1>1 DEF Reached
<1>. QED
  BY <1>1, <1>2, AccessStands

\* A challenge is claimed once.
LEMMA Claims ==
    ASSUME AccessIInv, ~challenge.verified, NEW h \in Visits, NEW a \in Assurances,
           Goto(h, [step |-> "enter", assurance |-> a]), UNCHANGED entries,
           challenge' \in CodeRows, challenge'.verified, challenge'.status = "VERIFIED"
    PROVE  AccessIInv'
<1>. DEFINE v == [step |-> "enter", assurance |-> a]
<1>1. v \in AccessVisits
  BY DEF AccessVisits, EnterVisit
<1>5. Goto(h, v) /\ v.step = "enter"
  OBVIOUS
<1>. HIDE DEF v
<1>2. /\ visit' \in [Visits -> AccessVisits]
      /\ visit'[h] = v /\ \A other \in Visits \ {h} : visit'[other] = visit[other]
  BY <1>1, <1>5, Visited DEF AccessIInv
<1>3. \A other \in Visits \ {h} : ~Reached(other, "enter")'
  BY <1>2 DEF Reached, AccessIInv
<1>4. entries'["OTP"] + entries'["LOOKUP"] = 0
  BY DEF AccessIInv
<1>. QED
  BY <1>2, <1>3, <1>4 DEF AccessIInv

LEMMA AccessKeeps ==
    ASSUME AccessIInv, AccessNext
    PROVE  /\ AccessIInv'
           /\ challenge.status \in {"LOCKED", "EXPIRED"} /\ ~challenge.verified => ~challenge'.verified
<1>1. challenge \in CodeRows /\ visit \in [Visits -> AccessVisits]
  BY DEF AccessIInv
<1>2. CASE RequestCode
  <2>1. /\ challenge' = [Renewed(challenge) EXCEPT !.status = "PENDING"] /\ UNCHANGED <<visit, entries>>
    BY <1>2 DEF RequestCode
  <2>2. challenge' \in CodeRows /\ challenge'.verified = challenge.verified /\ challenge'.status = "PENDING"
    <3>1. Renewed(challenge) \in CodeRows /\ Renewed(challenge).verified = challenge.verified
      BY <1>1, RowRenewed
    <3>. QED
      BY <2>1, <3>1, RowStatus
  <2>3. \A h \in Visits : Reached(h, "enter")' => Reached(h, "enter")
    BY <2>1 DEF Reached
  <2>. QED
    BY <1>1, <2>1, <2>2, <2>3, AccessStands
<1>3. CASE AccessTime
  <2>1. challenge' \in Aged(challenge) /\ UNCHANGED <<visit, entries>>
    BY <1>3 DEF AccessTime
  <2>2. challenge' \in CodeRows /\ challenge'.verified = challenge.verified /\ challenge'.status = challenge.status
    BY <1>1, <2>1, RowAged
  <2>3. \A h \in Visits : Reached(h, "enter")' => Reached(h, "enter")
    BY <2>1 DEF Reached
  <2>. QED
    BY <1>1, <2>1, <2>2, <2>3, AccessStands
<1>4. ASSUME NEW h \in Visits, LookupAccess(h)
      PROVE  AccessIInv' /\ challenge.status = "ABSENT"
  <2>1. /\ challenge.status = "ABSENT" /\ UNCHANGED entries
        /\ challenge' = [challenge EXCEPT !.status = "VERIFIED", !.verified = TRUE]
        /\ Goto(h, [step |-> "enter", assurance |-> "LOOKUP"])
    BY <1>4 DEF LookupAccess
  <2>2. challenge' \in CodeRows /\ challenge'.verified /\ challenge'.status = "VERIFIED"
    BY <1>1, <2>1, RowClaimed
  <2>. QED
    BY <2>1, <2>2, Claims DEF AccessIInv, Assurances
<1>5. ASSUME NEW h \in Visits, Resend(h) \/ ResendDelivered(h)
      PROVE  AccessIInv' /\ (~challenge.verified => ~challenge'.verified)
  <2>1. /\ \/ challenge' = [challenge EXCEPT !.cooling = TRUE]
           \/ challenge' = [challenge EXCEPT !.cooling = FALSE]
           \/ challenge' = Renewed(challenge)
        /\ Goto(h, [step |-> "resend"]) \/ Goto(h, NoVisit)
        /\ UNCHANGED entries
    BY <1>5 DEF Resend, ResendDelivered
  <2>2. challenge' \in CodeRows /\ challenge'.verified = challenge.verified /\ challenge'.status = challenge.status
    BY <1>1, <2>1, RowFields, RowRenewed
  <2>3. [step |-> "resend"] \in AccessVisits
    BY DEF AccessVisits
  <2>. QED
    BY <2>1, <2>2, <2>3, NoVisitType, AccessGoes
<1>6. ASSUME NEW h \in Visits, NEW c, Verify(h, c)
      PROVE  AccessIInv' /\ (~challenge.verified => ~challenge'.verified)
  <2>1. Goto(h, Guess(challenge, c)) /\ UNCHANGED <<challenge, entries>>
    BY <1>6 DEF Verify, accessVars
  <2>2. Guess(challenge, c) \in AccessVisits /\ Guess(challenge, c).step = "guess"
    BY <1>1, GuessType DEF AccessVisits
  <2>. QED
    BY <1>1, <2>1, <2>2, AccessGoes
<1>7. ASSUME NEW h \in Visits, VerifyLate(h) \/ VerifyWrong(h)
      PROVE  AccessIInv' /\ (~challenge.verified => ~challenge'.verified)
  <2>1. /\ Goto(h, NoVisit) /\ UNCHANGED entries /\ Reached(h, "guess")
        /\ \/ challenge' = [challenge EXCEPT !.status = "EXPIRED"]
           \/ challenge' = Missed(challenge, visit[h].attempts)
    BY <1>7 DEF VerifyLate, VerifyWrong
  <2>2. visit[h].attempts \in Nat
    <3>1. visit[h] \in GuessVisit
      BY <1>1, <2>1, VisitOfStep DEF Reached
    <3>. QED
      BY <3>1 DEF GuessVisit
  <2>3. /\ challenge' \in CodeRows /\ challenge'.verified = challenge.verified
        /\ challenge'.status \in {"EXPIRED", "LOCKED", challenge.status}
    <3>1. CASE challenge' = [challenge EXCEPT !.status = "EXPIRED"]
      BY <1>1, <3>1, RowStatus
    <3>2. CASE challenge' = Missed(challenge, visit[h].attempts)
      BY <1>1, <2>2, <3>2, RowMissed
    <3>. QED
      BY <2>1, <3>1, <3>2
  <2>. QED
    BY <2>1, <2>3, NoVisitType, AccessGoes
<1>8. ASSUME NEW h \in Visits, VerifyRight(h)
      PROVE  /\ AccessIInv'
             /\ challenge.status # "PENDING" /\ ~challenge.verified => ~challenge'.verified
  <2>1. CASE Unclaimed(challenge, "PENDING")
    <3>1. /\ challenge' = [challenge EXCEPT !.status = "VERIFIED", !.verified = TRUE]
          /\ Goto(h, [step |-> "enter", assurance |-> "OTP"]) /\ UNCHANGED entries
          /\ ~challenge.verified /\ challenge.status = "PENDING"
      BY <1>8, <2>1 DEF VerifyRight, Unclaimed
    <3>2. challenge' \in CodeRows /\ challenge'.verified /\ challenge'.status = "VERIFIED"
      BY <1>1, <3>1, RowClaimed
    <3>. QED
      BY <3>1, <3>2, Claims DEF Assurances
  <2>2. CASE ~Unclaimed(challenge, "PENDING")
    <3>1. Goto(h, NoVisit) /\ UNCHANGED <<challenge, entries>>
      BY <1>8, <2>2 DEF VerifyRight
    <3>. QED
      BY <1>1, <3>1, NoVisitType, AccessGoes
  <2>. QED
    BY <2>1, <2>2
<1>9. ASSUME NEW h \in Visits, CreateSession(h)
      PROVE  AccessIInv' /\ (~challenge.verified => ~challenge'.verified)
  <2>1. /\ Reached(h, "enter") /\ Goto(h, NoVisit) /\ UNCHANGED challenge
        /\ entries' = [entries EXCEPT ![visit[h].assurance] = @ + 1]
    BY <1>9 DEF CreateSession
  <2>2. /\ visit' \in [Visits -> AccessVisits]
        /\ visit'[h] = NoVisit /\ \A other \in Visits \ {h} : visit'[other] = visit[other]
    BY <1>1, <2>1, NoVisitType, Visited
  <2>3. visit[h].assurance \in Assurances
    <3>1. visit[h] \in EnterVisit
      BY <1>1, <2>1, VisitOfStep DEF Reached
    <3>. QED
      BY <3>1 DEF EnterVisit
  <2>4. /\ challenge.verified /\ entries \in [Assurances -> Nat]
        /\ entries["OTP"] + entries["LOOKUP"] = 0
    BY <2>1 DEF AccessIInv
  <2>5. entries' \in [Assurances -> Nat] /\ entries'["OTP"] + entries'["LOOKUP"] = 1
    BY <2>1, <2>3, <2>4 DEF Assurances
  <2>6. \A other \in Visits : ~Reached(other, "enter")'
    BY <2>1, <2>2, NoVisitType DEF Reached, AccessIInv
  <2>. QED
    BY <2>1, <2>2, <2>4, <2>5, <2>6 DEF AccessIInv
<1>10. ASSUME NEW h \in Visits, Stop(h)
       PROVE  AccessIInv' /\ (~challenge.verified => ~challenge'.verified)
  <2>1. Goto(h, NoVisit) /\ UNCHANGED <<challenge, entries>>
    BY <1>10 DEF Stop, accessVars
  <2>. QED
    BY <1>1, <2>1, NoVisitType, AccessGoes
<1>. QED
  BY <1>2, <1>3, <1>4, <1>5, <1>6, <1>7, <1>8, <1>9, <1>10 DEF AccessNext

-----------------------------------------------------------------------------
(* Mutations.  A request that only moves on changes no row.                  *)
LEMMA MutationGoes ==
    ASSUME MutationIInv, NEW h \in Visits, NEW v \in MutationVisits, Goto(h, v),
           UNCHANGED mutationVars
    PROVE  MutationIInv'
<1>1. visit' \in [Visits -> MutationVisits]
  BY Visited DEF MutationIInv
<1>. QED
  BY <1>1 DEF MutationIInv, mutationVars

LEMMA SessionSteps ==
    ASSUME MutationIInv, NEW h \in Visits,
           Resolve(h) \/ Refresh(h) \/ ConsumeCsrf(h) \/ Logout(h)
    PROVE  MutationIInv'
<1>1. /\ session \in [open : BOOLEAN, csrf : 1 .. MaxIssued] /\ visit \in [Visits -> MutationVisits]
      /\ admitted \in [1 .. MaxIssued -> Nat]
      /\ \A t \in 1 .. MaxIssued : admitted[t] <= 1 /\ (t >= session.csrf => admitted[t] = 0)
  BY DEF MutationIInv
<1>2. CASE Resolve(h)
  <2>1. [step |-> "resolved", csrf |-> session.csrf] \in MutationVisits
    BY <1>1 DEF MutationVisits
  <2>. QED
    BY <1>2, <2>1, MutationGoes DEF Resolve
<1>3. ASSUME Rotated
      PROVE  /\ session' \in [open : BOOLEAN, csrf : 1 .. MaxIssued]
             /\ session'.csrf = session.csrf + 1
  BY <1>1, <1>3, PortalAssumption DEF Rotated
<1>4. CASE Refresh(h)
  <2>1. Goto(h, NoVisit) /\ Rotated /\ UNCHANGED <<admitted, stored, runs, answers>>
    BY <1>4 DEF Refresh
  <2>2. visit' \in [Visits -> MutationVisits]
    BY <1>1, <2>1, NoVisitType, Visited
  <2>3. \A t \in 1 .. MaxIssued : t >= session'.csrf => admitted[t] = 0
    BY <1>1, <1>3, <2>1
  <2>. QED
    BY <1>1, <1>3, <2>1, <2>2, <2>3 DEF MutationIInv
<1>5. CASE ConsumeCsrf(h)
  <2>1. /\ Goto(h, [step |-> "admitted"]) /\ Rotated /\ UNCHANGED <<stored, runs, answers>>
        /\ session.csrf = visit[h].csrf
        /\ admitted' = [admitted EXCEPT ![visit[h].csrf] = @ + 1]
    BY <1>5 DEF ConsumeCsrf, Current
  <2>2. visit' \in [Visits -> MutationVisits]
    <3>1. [step |-> "admitted"] \in MutationVisits
      BY DEF MutationVisits
    <3>. QED
      BY <1>1, <2>1, <3>1, Visited
  <2>3. /\ admitted' \in [1 .. MaxIssued -> Nat] /\ admitted'[session.csrf] = 1
        /\ \A t \in 1 .. MaxIssued : t # session.csrf => admitted'[t] = admitted[t]
    BY <1>1, <2>1
  <2>4. \A t \in 1 .. MaxIssued : admitted'[t] <= 1 /\ (t >= session'.csrf => admitted'[t] = 0)
    <3>1. session.csrf \in Nat
      BY <1>1, PortalAssumption
    <3>. QED
      BY <1>1, <1>3, <2>1, <2>3, <3>1
  <2>. QED
    BY <1>3, <2>1, <2>2, <2>3, <2>4 DEF MutationIInv
<1>6. CASE Logout(h)
  <2>1. /\ session' = [session EXCEPT !.open = FALSE] /\ Goto(h, NoVisit)
        /\ UNCHANGED <<admitted, stored, runs, answers>>
    BY <1>6 DEF Logout
  <2>2. session' \in [open : BOOLEAN, csrf : 1 .. MaxIssued] /\ session'.csrf = session.csrf
    BY <1>1, <2>1
  <2>3. visit' \in [Visits -> MutationVisits]
    BY <1>1, <2>1, NoVisitType, Visited
  <2>. QED
    BY <2>1, <2>2, <2>3 DEF MutationIInv
<1>. QED
  BY <1>2, <1>4, <1>5, <1>6

(* Everything told under a key is what its row holds.                        *)
LEMMA AnswerSteps ==
    ASSUME MutationIInv, NEW h \in Visits,
           \/ \E k \in IdempotencyKeys : Mutate(h, k)
           \/ Operate(h) \/ Store(h)
    PROVE  MutationIInv'
<1>1. /\ visit \in [Visits -> MutationVisits] /\ stored \in [IdempotencyKeys -> Nat]
      /\ runs \in Nat /\ DOMAIN answers = IdempotencyKeys
      /\ \A k \in IdempotencyKeys : answers[k] \subseteq {stored[k]} \ {0}
  BY DEF MutationIInv
<1>2. ASSUME NEW k \in IdempotencyKeys, Mutate(h, k)
      PROVE  MutationIInv'
  <2>1. CASE stored[k] # 0
    <3>1. /\ answers' = [answers EXCEPT ![k] = @ \union {stored[k]}] /\ Goto(h, NoVisit)
          /\ UNCHANGED <<session, admitted, stored, runs>>
      BY <1>2, <2>1 DEF Mutate, Told
    <3>2. /\ DOMAIN answers' = IdempotencyKeys
          /\ \A key \in IdempotencyKeys : answers'[key] \subseteq {stored[key]} \ {0}
      BY <1>1, <2>1, <3>1
    <3>3. visit' \in [Visits -> MutationVisits]
      BY <1>1, <3>1, NoVisitType, Visited
    <3>. QED
      BY <3>1, <3>2, <3>3 DEF MutationIInv
  <2>2. CASE stored[k] = 0
    <3>1. [step |-> "mutate", key |-> k] \in MutationVisits
      BY DEF MutationVisits
    <3>2. Goto(h, [step |-> "mutate", key |-> k]) /\ UNCHANGED mutationVars
      BY <1>2, <2>2 DEF Mutate, mutationVars
    <3>. QED
      BY <3>1, <3>2, MutationGoes
  <2>. QED
    BY <2>1, <2>2
<1>3. CASE Operate(h)
  <2>1. /\ runs' = runs + 1 /\ UNCHANGED <<session, admitted, stored, answers>> /\ Reached(h, "mutate")
        /\ \/ Goto(h, [step |-> "store", key |-> visit[h].key, answer |-> runs'])
           \/ Goto(h, NoVisit)
    BY <1>3 DEF Operate
  <2>2. visit[h].key \in IdempotencyKeys
    <3>1. visit[h] \in [step : {"mutate"}, key : IdempotencyKeys]
      BY <1>1, <2>1, VisitOfStep DEF Reached
    <3>. QED
      BY <3>1
  <2>3. runs' \in Nat \ {0}
    BY <1>1, <2>1
  <2>4. [step |-> "store", key |-> visit[h].key, answer |-> runs'] \in MutationVisits
    BY <2>2, <2>3 DEF MutationVisits, StoreVisit
  <2>5. visit' \in [Visits -> MutationVisits]
    BY <1>1, <2>1, <2>4, NoVisitType, Visited
  <2>. QED
    BY <2>1, <2>3, <2>5 DEF MutationIInv
<1>4. CASE Store(h)
  <2>. DEFINE k == visit[h].key
              a == visit[h].answer
  <2>1. /\ stored' = [stored EXCEPT ![k] = IF @ = 0 THEN a ELSE @]
        /\ answers' = [answers EXCEPT ![k] = @ \union {IF stored[k] = 0 THEN a ELSE stored[k]}]
        /\ Goto(h, NoVisit) /\ Reached(h, "store") /\ UNCHANGED <<session, admitted, runs>>
    BY <1>4 DEF Store, Told, Answer
  <2>2. k \in IdempotencyKeys /\ a \in Nat \ {0}
    <3>1. visit[h] \in StoreVisit
      BY <1>1, <2>1, VisitOfStep DEF Reached
    <3>. QED
      BY <3>1 DEF StoreVisit
  <2>. HIDE DEF k, a
  <2>3. /\ stored' \in [IdempotencyKeys -> Nat]
        /\ stored'[k] = IF stored[k] = 0 THEN a ELSE stored[k]
        /\ \A key \in IdempotencyKeys \ {k} : stored'[key] = stored[key]
    BY <1>1, <2>1, <2>2
  <2>4. /\ DOMAIN answers' = IdempotencyKeys
        /\ answers'[k] = answers[k] \union {stored'[k]}
        /\ \A key \in IdempotencyKeys \ {k} : answers'[key] = answers[key]
    BY <1>1, <2>1, <2>2, <2>3
  <2>5. \A key \in IdempotencyKeys : answers'[key] \subseteq {stored'[key]} \ {0}
    <3>1. answers[k] \subseteq {stored[k]} \ {0} /\ stored[k] \in Nat
      BY <1>1, <2>2
    <3>2. answers'[k] \subseteq {stored'[k]} \ {0}
      BY <2>2, <2>3, <2>4, <3>1
    <3>. QED
      BY <1>1, <2>3, <2>4, <3>2
  <2>6. visit' \in [Visits -> MutationVisits]
    BY <1>1, <2>1, NoVisitType, Visited
  <2>. QED
    BY <2>1, <2>3, <2>4, <2>5, <2>6 DEF MutationIInv
<1>. QED
  BY <1>2, <1>3, <1>4

LEMMA MutationKeeps ==
    ASSUME MutationIInv, MutationNext
    PROVE  MutationIInv'
<1>1. ASSUME NEW h \in Visits, Stop(h)
      PROVE  MutationIInv'
  BY <1>1, NoVisitType, MutationGoes DEF Stop
<1>. QED
  BY <1>1, SessionSteps, AnswerSteps DEF MutationNext

-----------------------------------------------------------------------------
(* Contacts.  The row moves on while its verification and the core stand.    *)
LEMMA ContactGoes ==
    ASSUME ContactIInv, NEW h \in Visits, NEW v \in ContactVisits, Goto(h, v), UNCHANGED core,
           v.step \in {"submit", "record"} => UNCHANGED contact,
           v.step = "submit" => contact.verified,
           v.step = "record" => /\ core # "UNKNOWN"
                                /\ v.status # "SUBMITTED" => core = v.status,
           contact' \in CodeRows, contact.verified => contact'.verified,
           contact'.status = "VERIFIED" => contact'.verified,
           \/ contact'.status \in {contact.status} \union {"LOCKED", "CHALLENGE_PENDING", "VERIFIED"}
           \/ Reached(h, "record") /\ contact'.status = visit[h].status
    PROVE  ContactIInv'
<1>1. visit \in [Visits -> ContactVisits]
  BY DEF ContactIInv
<1>2. /\ visit' \in [Visits -> ContactVisits]
      /\ visit'[h] = v /\ \A other \in Visits \ {h} : visit'[other] = visit[other]
  BY <1>1, Visited
<1>3. /\ contact'.status \in CoreAnswers => core # "UNKNOWN"
      /\ contact'.status \in {"APPLIED", "REJECTED"} => core = contact'.status
  BY DEF ContactIInv, ContactIsVerifiedAndTrue, CoreAnswers
<1>4. ASSUME NEW other \in Visits
      PROVE  /\ Reached(other, "submit")' => contact'.verified
             /\ Reached(other, "record")' => /\ core # "UNKNOWN"
                                             /\ visit'[other].status # "SUBMITTED" => core = visit'[other].status
  <2>1. CASE other = h
    BY <1>2, <2>1 DEF Reached
  <2>2. CASE other # h
    BY <1>2, <2>2 DEF Reached, ContactIInv
  <2>. QED
    BY <2>1, <2>2
<1>. QED
  BY <1>2, <1>3, <1>4 DEF ContactIInv, ContactIsVerifiedAndTrue

LEMMA ContactTurns ==
    ASSUME ContactIInv, UNCHANGED <<visit, core>>, contact' \in CodeRows,
           contact'.verified = contact.verified, contact'.status \in {contact.status, "DRAFT"}
    PROVE  ContactIInv'
BY DEF ContactIInv, ContactIsVerifiedAndTrue, Reached, CoreAnswers

LEMMA CodeSteps ==
    ASSUME ContactIInv, NEW h \in Visits,
           \/ RequestContactCode(h) \/ ContactCodeDelivered(h)
           \/ \E c \in 0 .. contact.code : VerifyContact(h, c)
           \/ ContactWrong(h) \/ ContactRight(h) \/ Stop(h)
    PROVE  ContactIInv'
<1>1. contact \in CodeRows /\ visit \in [Visits -> ContactVisits]
      /\ (contact.status = "VERIFIED" => contact.verified)
  BY DEF ContactIInv
<1>2. CASE RequestContactCode(h)
  <2>1. /\ contact' = [contact EXCEPT !.cooling = TRUE] /\ Goto(h, [step |-> "resend"]) /\ UNCHANGED core
    BY <1>2 DEF RequestContactCode
  <2>2. [step |-> "resend"] \in ContactVisits
    BY DEF ContactVisits
  <2>3. contact' \in CodeRows /\ contact'.verified = contact.verified /\ contact'.status = contact.status
    BY <1>1, <2>1, RowFields
  <2>. QED
    BY <1>1, <2>1, <2>2, <2>3, ContactGoes
<1>3. CASE ContactCodeDelivered(h)
  <2>1. /\ Goto(h, NoVisit) /\ UNCHANGED core
        /\ \/ contact' = [Renewed(contact) EXCEPT !.status = "CHALLENGE_PENDING"]
           \/ contact' = [contact EXCEPT !.cooling = FALSE]
    BY <1>3 DEF ContactCodeDelivered
  <2>2. /\ contact' \in CodeRows /\ contact'.verified = contact.verified
        /\ contact'.status \in {contact.status, "CHALLENGE_PENDING"}
    <3>1. CASE contact' = [Renewed(contact) EXCEPT !.status = "CHALLENGE_PENDING"]
      <4>1. Renewed(contact) \in CodeRows /\ Renewed(contact).verified = contact.verified
        BY <1>1, RowRenewed
      <4>. QED
        BY <3>1, <4>1, RowStatus
    <3>2. CASE contact' = [contact EXCEPT !.cooling = FALSE]
      BY <1>1, <3>2, RowFields
    <3>. QED
      BY <2>1, <3>1, <3>2
  <2>. QED
    BY <1>1, <2>1, <2>2, NoVisitType, ContactGoes
<1>4. ASSUME NEW c \in 0 .. contact.code, VerifyContact(h, c)
      PROVE  ContactIInv'
  <2>1. UNCHANGED <<contact, core>>
    BY <1>4 DEF VerifyContact, contactVars
  <2>2. CASE Goto(h, Guess(contact, c))
    <3>1. Guess(contact, c) \in ContactVisits /\ Guess(contact, c).step = "guess"
      BY <1>1, GuessType DEF ContactVisits
    <3>. QED
      BY <1>1, <2>1, <2>2, <3>1, ContactGoes
  <2>3. CASE contact.status = "VERIFIED" /\ Goto(h, [step |-> "submit"])
    <3>1. [step |-> "submit"] \in ContactVisits
      BY DEF ContactVisits
    <3>. QED
      BY <1>1, <2>1, <2>3, <3>1, ContactGoes
  <2>. QED
    BY <1>4, <2>2, <2>3 DEF VerifyContact
<1>5. CASE ContactWrong(h)
  <2>1. contact' = Missed(contact, visit[h].attempts) /\ Goto(h, NoVisit) /\ UNCHANGED core /\ Reached(h, "guess")
    BY <1>5 DEF ContactWrong
  <2>2. visit[h].attempts \in Nat
    <3>1. visit[h] \in GuessVisit
      BY <1>1, <2>1, VisitOfStep DEF Reached
    <3>. QED
      BY <3>1 DEF GuessVisit
  <2>3. /\ contact' \in CodeRows /\ contact'.verified = contact.verified
        /\ contact'.status \in {contact.status, "LOCKED"}
    BY <1>1, <2>1, <2>2, RowMissed
  <2>. QED
    BY <1>1, <2>1, <2>3, NoVisitType, ContactGoes
<1>6. CASE ContactRight(h)
  <2>1. CASE Unclaimed(contact, "CHALLENGE_PENDING")
    <3>1. /\ contact' = [contact EXCEPT !.status = "VERIFIED", !.verified = TRUE]
          /\ Goto(h, [step |-> "submit"]) /\ UNCHANGED core
      BY <1>6, <2>1 DEF ContactRight, Claimed
    <3>2. contact' \in CodeRows /\ contact'.verified /\ contact'.status = "VERIFIED"
      BY <1>1, <3>1, RowClaimed
    <3>3. /\ visit' \in [Visits -> ContactVisits]
          /\ visit'[h] = [step |-> "submit"] /\ \A other \in Visits \ {h} : visit'[other] = visit[other]
      <4>1. [step |-> "submit"] \in ContactVisits
        BY DEF ContactVisits
      <4>. QED
        BY <1>1, <3>1, <4>1, Visited
    <3>4. \A other \in Visits : Reached(other, "record")' =>
              Reached(other, "record") /\ visit'[other] = visit[other]
      BY <3>3 DEF Reached
    <3>. QED
      BY <3>1, <3>2, <3>3, <3>4 DEF ContactIInv, ContactIsVerifiedAndTrue, CoreAnswers
  <2>2. CASE ~Unclaimed(contact, "CHALLENGE_PENDING")
    <3>1. Goto(h, NoVisit) /\ UNCHANGED <<contact, core>>
      BY <1>6, <2>2 DEF ContactRight, Claimed
    <3>. QED
      BY <1>1, <3>1, NoVisitType, ContactGoes
  <2>. QED
    BY <2>1, <2>2
<1>7. CASE Stop(h)
  <2>1. Goto(h, NoVisit) /\ UNCHANGED <<contact, core>>
    BY <1>7 DEF Stop, contactVars
  <2>. QED
    BY <1>1, <2>1, NoVisitType, ContactGoes
<1>. QED
  BY <1>2, <1>3, <1>4, <1>5, <1>6, <1>7

(* The core hears of a verified contact only, and its last word stands.      *)
LEMMA CoreSteps ==
    ASSUME ContactIInv, CoreDecides \/ \E h \in Visits : SubmitContact(h) \/ PollContact(h) \/ RecordContact(h)
    PROVE  ContactIInv'
<1>1. /\ contact \in CodeRows /\ visit \in [Visits -> ContactVisits] /\ core \in CoreAnswers \union {"UNKNOWN"}
      /\ (contact.status = "VERIFIED" => contact.verified)
  BY DEF ContactIInv
<1>2. CASE CoreDecides
  <2>1. core = "SUBMITTED" /\ core' \in {"APPLIED", "REJECTED"} /\ UNCHANGED <<visit, contact>>
    BY <1>2 DEF CoreDecides
  <2>2. \A h \in Visits : Reached(h, "record") => visit[h].status = "SUBMITTED"
    <3>1. ASSUME NEW h \in Visits, Reached(h, "record") PROVE visit[h].status = "SUBMITTED"
      <4>1. visit[h] \in RecordVisit
        BY <1>1, <3>1, VisitOfStep DEF Reached
      <4>. QED
        BY <2>1, <3>1, <4>1 DEF ContactIInv, RecordVisit, CoreAnswers
    <3>. QED
      BY <3>1
  <2>3. core' # "UNKNOWN" /\ core' \in CoreAnswers
    BY <2>1 DEF CoreAnswers
  <2>4. ContactIsVerifiedAndTrue'
    BY <2>1, <2>3 DEF ContactIInv, ContactIsVerifiedAndTrue
  <2>5. \A h \in Visits : Reached(h, "record")' => visit'[h].status = "SUBMITTED"
    BY <2>1, <2>2 DEF Reached
  <2>. QED
    BY <2>1, <2>3, <2>4, <2>5 DEF ContactIInv, Reached
<1>3. ASSUME NEW h \in Visits, SubmitContact(h)
      PROVE  ContactIInv'
  <2>. DEFINE v == [step |-> "record", status |-> core']
  <2>1. /\ Reached(h, "submit") /\ Goto(h, v) /\ UNCHANGED contact
        /\ core # "UNKNOWN" => core' = core
        /\ core' \in CoreAnswers /\ core' # "UNKNOWN"
    BY <1>1, <1>3 DEF SubmitContact, CoreAnswers
  <2>2. contact.verified
    BY <2>1 DEF ContactIInv
  <2>3. v \in ContactVisits /\ v.step = "record" /\ v.status = core'
    BY <2>1 DEF ContactVisits, RecordVisit
  <2>. HIDE DEF v
  <2>4. /\ visit' \in [Visits -> ContactVisits]
        /\ visit'[h] = v /\ \A other \in Visits \ {h} : visit'[other] = visit[other]
    BY <1>1, <2>1, <2>3, Visited
  <2>5. ASSUME NEW other \in Visits
        PROVE  /\ Reached(other, "submit")' => contact'.verified
               /\ Reached(other, "record")' => /\ core' # "UNKNOWN"
                                               /\ visit'[other].status # "SUBMITTED" => core' = visit'[other].status
    <3>1. CASE other = h
      BY <2>1, <2>2, <2>3, <2>4, <3>1 DEF Reached
    <3>2. CASE other # h
      BY <2>1, <2>2, <2>4, <3>2 DEF Reached, ContactIInv
    <3>. QED
      BY <3>1, <3>2
  <2>6. ContactIsVerifiedAndTrue' /\ (contact'.status \in CoreAnswers => core' # "UNKNOWN")
    BY <2>1, <2>2 DEF ContactIInv, ContactIsVerifiedAndTrue, CoreAnswers
  <2>. QED
    BY <2>1, <2>4, <2>5, <2>6 DEF ContactIInv
<1>4. ASSUME NEW h \in Visits, PollContact(h)
      PROVE  ContactIInv'
  <2>. DEFINE v == [step |-> "record", status |-> core]
  <2>1. contact.status = "SUBMITTED" /\ Goto(h, v) /\ UNCHANGED <<contact, core>>
    BY <1>4 DEF PollContact, contactVars
  <2>2. core # "UNKNOWN"
    BY <2>1 DEF ContactIInv, CoreAnswers
  <2>3. v \in ContactVisits /\ v.step = "record" /\ v.status = core
    BY <1>1, <2>2 DEF ContactVisits, RecordVisit
  <2>. HIDE DEF v
  <2>. QED
    BY <1>1, <2>1, <2>2, <2>3, ContactGoes
<1>5. ASSUME NEW h \in Visits, RecordContact(h)
      PROVE  ContactIInv'
  <2>1. /\ Reached(h, "record") /\ contact' = [contact EXCEPT !.status = visit[h].status]
        /\ Goto(h, NoVisit) /\ UNCHANGED core
    BY <1>5 DEF RecordContact
  <2>2. visit[h].status \in CoreAnswers
    <3>1. visit[h] \in RecordVisit
      BY <1>1, <2>1, VisitOfStep DEF Reached
    <3>. QED
      BY <3>1 DEF RecordVisit
  <2>3. contact' \in CodeRows /\ contact'.verified = contact.verified /\ contact'.status = visit[h].status
    <3>. DEFINE status == visit[h].status
    <3>1. status \in {"ABSENT", "PENDING", "VERIFIED", "EXPIRED", "LOCKED", "DRAFT",
                      "CHALLENGE_PENDING", "SUBMITTED", "APPLIED", "REJECTED"}
      BY <2>2 DEF CoreAnswers
    <3>2. contact' = [contact EXCEPT !.status = status]
      BY <2>1
    <3>. HIDE DEF status
    <3>3. contact' \in CodeRows /\ contact'.verified = contact.verified /\ contact'.status = status
      <4>1. /\ [contact EXCEPT !.status = status] \in CodeRows
            /\ [contact EXCEPT !.status = status].verified = contact.verified
            /\ [contact EXCEPT !.status = status].status = status
        BY <1>1, <3>1, RowStatus
      <4>. QED
        BY <3>2, <4>1
    <3>. QED
      BY <3>3 DEF status
  <2>4. contact'.status # "VERIFIED"
    BY <2>2, <2>3 DEF CoreAnswers
  <2>. QED
    BY <2>1, <2>3, <2>4, NoVisitType, ContactGoes
<1>. QED
  BY <1>2, <1>3, <1>4, <1>5

LEMMA ContactKeeps ==
    ASSUME ContactIInv, ContactNext
    PROVE  ContactIInv'
<1>1. contact \in CodeRows
  BY DEF ContactIInv
<1>2. CASE StartContact
  <2>1. contact' = [contact EXCEPT !.status = "DRAFT"] /\ UNCHANGED <<visit, core>>
    BY <1>2 DEF StartContact
  <2>. QED
    BY <1>1, <2>1, RowStatus, ContactTurns
<1>3. CASE ContactTime
  <2>1. contact' \in Aged(contact) /\ UNCHANGED <<visit, core>>
    BY <1>3 DEF ContactTime
  <2>. QED
    BY <1>1, <2>1, RowAged, ContactTurns
<1>. QED
  BY <1>2, <1>3, CodeSteps, CoreSteps DEF ContactNext

-----------------------------------------------------------------------------
LEMMA PortalStands ==
    ASSUME UNCHANGED portalVars
    PROVE  (AccessIInv => AccessIInv') /\ (MutationIInv => MutationIInv') /\ (ContactIInv => ContactIInv')
BY DEF portalVars, accessVars, mutationVars, contactVars, AccessIInv, MutationIInv, ContactIInv,
    ContactIsVerifiedAndTrue, Reached

-----------------------------------------------------------------------------
(* The back office.                                                          *)

RequestRow == [status : DOMAIN RequestTargets, identity : Texts, carried : Texts]
CaseRow == [status : DOMAIN CaseTargets, resolution : Texts, carried : Texts]
RequestTask == [step : {"request"}, to : DOMAIN RequestTargets, given : Texts, read : RequestRow]
CaseTask == [step : {"case"}, to : DOMAIN CaseTargets, given : Texts, read : CaseRow]
RecordTask == [step : {"record"}, left : SUBSET Issues, new : SUBSET Issues, missing : SUBSET Issues]
ResolveTask == [step : {"resolve"}, issue : Issues]
MarkTask == [step : {"mark"}, issue : Issues, last : BOOLEAN]
Guard == [given : BOOLEAN, seen : Nat]
StageTask == [step : {"stage"}, to : Stages, from : Stages, guard : Guard]
AgreementTask == [step : {"agreement"}]

Tasks == {NoTask} \union RequestTask \union CaseTask \union RecordTask \union ResolveTask
             \union MarkTask \union StageTask \union AgreementTask

DeskTypeOK == desk \in [Staff -> Tasks]

\* What a transaction is about to write has the evidence it needs.
CasesIInv ==
    /\ request \in RequestRow /\ case \in CaseRow
    /\ \A s \in Staff :
        /\ Doing(s, "request") /\ desk[s].to = "RESOLVED" => "text" \in {desk[s].read.identity, desk[s].given}
        /\ Doing(s, "case") /\ desk[s].to = "CLOSED" => "text" \in {desk[s].read.resolution, desk[s].given}
    /\ CasesKeepTheirEvidence

\* A row to insert is in no table and in no other run, and the last open
\* difference of a run is the one whose resolution counted it.
ReconciliationIInv ==
    /\ reconciliations \in Seq({"OPEN", "RESOLVED"})
    /\ difference \in [Issues -> [run : 0 .. Len(reconciliations), open : BOOLEAN]]
    /\ \A i \in Issues : Recorded(i) => difference[i].run # 0
    /\ wrong \subseteq Issues
    /\ \A s \in Staff :
        /\ Doing(s, "record") => \A i \in desk[s].new :
            /\ ~Recorded(i)
            /\ \A other \in Staff \ {s} : Doing(other, "record") => i \notin desk[other].new
        /\ Doing(s, "resolve") => Recorded(desk[s].issue)
        /\ Doing(s, "mark") => /\ Recorded(desk[s].issue)
                               /\ desk[s].last => NoneLeftOpen(desk[s].issue)
    /\ ResolvedRunsAreDone

Staged ==
    \/ opportunity.opened \in AgreementStages
    \/ \E n \in DOMAIN history : history[n].to \in AgreementStages

\* A version seen is of the past, and the current one shows the current stage.
PipelineIInv ==
    /\ opportunity \in [stage : Stages, opened : Stages, version : Nat]
    /\ history \in Seq([from : Stages, to : Stages, replaced : Stages, guarded : BOOLEAN])
    /\ agreements \in Nat
    /\ \A s \in Staff :
        /\ Doing(s, "stage") /\ desk[s].guard.given =>
            /\ desk[s].guard.seen <= opportunity.version
            /\ desk[s].guard.seen = opportunity.version => desk[s].from = opportunity.stage
        /\ Doing(s, "agreement") => Staged
    /\ opportunity.stage \in AgreementStages => Staged
    /\ HistoryIsTold

OfficeIInv == DeskTypeOK /\ CasesIInv /\ ReconciliationIInv /\ PipelineIInv

-----------------------------------------------------------------------------
LEMMA OfficeInitially ==
    ASSUME OfficeInit
    PROVE  OfficeIInv
<1>1. \A s \in Staff : desk[s] = NoTask /\ ~Doing(s, "request") /\ ~Doing(s, "case")
          /\ ~Doing(s, "record") /\ ~Doing(s, "resolve") /\ ~Doing(s, "mark")
          /\ ~Doing(s, "stage") /\ ~Doing(s, "agreement")
  BY DEF OfficeInit, Doing, NoTask
<1>2. DeskTypeOK
  BY DEF OfficeInit, DeskTypeOK, Tasks
<1>3. CasesIInv
  BY <1>1 DEF OfficeInit, CasesIInv, RequestRow, CaseRow, RequestTargets, CaseTargets, Texts,
      CasesKeepTheirEvidence
<1>4. ReconciliationIInv
  <2>1. reconciliations = <<>> /\ Len(reconciliations) = 0
    BY DEF OfficeInit
  <2>2. NoDifference \in [run : 0 .. Len(reconciliations), open : BOOLEAN] /\ ~NoDifference.open
    BY <2>1 DEF NoDifference
  <2>3. difference = [i \in Issues |-> NoDifference] /\ wrong = {}
    BY DEF OfficeInit
  <2>. QED
    BY <1>1, <2>1, <2>2, <2>3 DEF ReconciliationIInv, Recorded, ResolvedRunsAreDone
<1>5. PipelineIInv
  <2>1. PICK first \in Stages : opportunity = [stage |-> first, opened |-> first, version |-> 0]
    BY DEF OfficeInit
  <2>2. /\ opportunity \in [stage : Stages, opened : Stages, version : Nat]
        /\ opportunity.stage = opportunity.opened
    BY <2>1
  <2>3. history = << >> /\ agreements = 0
    BY DEF OfficeInit
  <2>. QED
    BY <1>1, <2>2, <2>3 DEF PipelineIInv, HistoryIsTold, Staged
<1>. QED
  BY <1>2, <1>3, <1>4, <1>5 DEF OfficeIInv

(* A task is known by its step.                                              *)
LEMMA TaskOfStep ==
    ASSUME NEW t \in Tasks
    PROVE  /\ t.step = "request" => t \in RequestTask
           /\ t.step = "case" => t \in CaseTask
           /\ t.step = "record" => t \in RecordTask
           /\ t.step = "resolve" => t \in ResolveTask
           /\ t.step = "mark" => t \in MarkTask
           /\ t.step = "stage" => t \in StageTask
BY DEF Tasks, NoTask, RequestTask, CaseTask, RecordTask, ResolveTask, MarkTask, StageTask, AgreementTask

LEMMA Taken ==
    ASSUME DeskTypeOK, NEW s \in Staff, NEW t \in Tasks, Take(s, t)
    PROVE  /\ DeskTypeOK'
           /\ desk'[s] = t /\ \A other \in Staff \ {s} : desk'[other] = desk[other]
BY DEF DeskTypeOK, Take

(* Work of another kind leaves each part as it is.                           *)
LEMMA CasesStand ==
    ASSUME DeskTypeOK, CasesIInv, NEW s \in Staff, NEW t \in Tasks, Take(s, t),
           t.step \notin {"request", "case"}, UNCHANGED caseVars
    PROVE  CasesIInv'
BY Taken DEF CasesIInv, CasesKeepTheirEvidence, caseVars, Doing

LEMMA ReconciliationsStand ==
    ASSUME DeskTypeOK, ReconciliationIInv, NEW s \in Staff, NEW t \in Tasks, Take(s, t),
           t.step \notin {"record", "resolve", "mark"}, UNCHANGED reconciliationVars
    PROVE  ReconciliationIInv'
BY Taken DEF ReconciliationIInv, ResolvedRunsAreDone, reconciliationVars, Doing, Recorded, NoneLeftOpen

LEMMA PipelineStands ==
    ASSUME DeskTypeOK, PipelineIInv, NEW s \in Staff, NEW t \in Tasks, Take(s, t),
           t.step \notin {"stage", "agreement"}, UNCHANGED pipelineVars
    PROVE  PipelineIInv'
BY Taken DEF PipelineIInv, HistoryIsTold, Staged, pipelineVars, Doing

LEMMA RollbackKeeps ==
    ASSUME OfficeIInv, NEW s \in Staff, Rollback(s)
    PROVE  OfficeIInv'
<1>1. NoTask \in Tasks /\ NoTask.step = "none" /\ Take(s, NoTask)
      /\ UNCHANGED <<caseVars, reconciliationVars, pipelineVars>>
  BY DEF Tasks, NoTask, Rollback, Finish
<1>. QED
  BY <1>1, Taken, CasesStand, ReconciliationsStand, PipelineStands DEF OfficeIInv

-----------------------------------------------------------------------------
LEMMA RequestsKeep ==
    ASSUME OfficeIInv, RequestsNext
    PROVE  OfficeIInv'
<1>. USE DEF OfficeIInv
<1>1. ASSUME NEW s \in Staff, NEW to \in DOMAIN RequestTargets, NEW given \in Texts,
             TransitionRequest(s, to, given)
      PROVE  OfficeIInv'
  <2>. DEFINE t == [step |-> "request", to |-> to, given |-> given, read |-> request]
  <2>1. t \in Tasks /\ Take(s, t) /\ UNCHANGED <<caseVars, reconciliationVars, pipelineVars>>
    BY <1>1 DEF TransitionRequest, Tasks, RequestTask, CasesIInv
  <2>2. to = "RESOLVED" => "text" \in {request.identity, given}
    BY <1>1 DEF TransitionRequest
  <2>3. CasesIInv'
    BY <2>1, <2>2, Taken DEF CasesIInv, CasesKeepTheirEvidence, caseVars, Doing
  <2>. QED
    BY <2>1, <2>3, Taken, ReconciliationsStand, PipelineStands
<1>2. ASSUME NEW s \in Staff, WriteRequest(s)
      PROVE  OfficeIInv'
  <2>1. /\ NoTask \in Tasks /\ NoTask.step = "none" /\ Take(s, NoTask) /\ Doing(s, "request")
        /\ UNCHANGED <<case, reconciliationVars, pipelineVars>>
        /\ request' = [status |-> desk[s].to, carried |-> desk[s].given,
                       identity |-> Written(desk[s].given, desk[s].read.identity)]
    BY <1>2 DEF WriteRequest, Finish, Tasks, NoTask, IdentityWritten
  <2>2. desk[s] \in RequestTask
    BY <2>1, TaskOfStep DEF DeskTypeOK, Doing
  <2>3. /\ request' \in RequestRow
        /\ request'.status = desk[s].to /\ request'.carried = desk[s].given
        /\ request'.identity = Written(desk[s].given, desk[s].read.identity)
    BY <2>1, <2>2 DEF RequestTask, RequestRow, Written
  <2>4. CasesIInv'
    <3>1. /\ desk'[s] = NoTask /\ \A staff \in Staff \ {s} : desk'[staff] = desk[staff]
          /\ NoTask.step = "none"
      BY <2>1, Taken
    <3>2. desk[s].to = "RESOLVED" => "text" \in {desk[s].read.identity, desk[s].given}
      BY <2>1 DEF CasesIInv
    <3>3. CasesKeepTheirEvidence'
      <4>1. request'.status = "RESOLVED" => request'.identity = "text" \/ request'.carried = "empty"
        BY <2>2, <2>3, <3>2 DEF Written, RequestTask, Texts
      <4>. QED
        BY <2>1, <4>1 DEF CasesKeepTheirEvidence, CasesIInv
    <3>. QED
      BY <2>1, <2>3, <3>1, <3>3 DEF CasesIInv, Doing
  <2>. QED
    BY <2>1, <2>4, Taken, ReconciliationsStand, PipelineStands
<1>. QED
  BY <1>1, <1>2, RollbackKeeps DEF RequestsNext

LEMMA CasesKeep ==
    ASSUME OfficeIInv, CasesNext
    PROVE  OfficeIInv'
<1>. USE DEF OfficeIInv
<1>1. ASSUME NEW s \in Staff, NEW to \in DOMAIN CaseTargets, NEW given \in Texts,
             TransitionCase(s, to, given)
      PROVE  OfficeIInv'
  <2>. DEFINE t == [step |-> "case", to |-> to, given |-> given, read |-> case]
  <2>1. t \in Tasks /\ Take(s, t) /\ UNCHANGED <<caseVars, reconciliationVars, pipelineVars>>
    BY <1>1 DEF TransitionCase, Tasks, CaseTask, CasesIInv
  <2>2. to = "CLOSED" => "text" \in {case.resolution, given}
    BY <1>1 DEF TransitionCase
  <2>3. CasesIInv'
    BY <2>1, <2>2, Taken DEF CasesIInv, CasesKeepTheirEvidence, caseVars, Doing
  <2>. QED
    BY <2>1, <2>3, Taken, ReconciliationsStand, PipelineStands
<1>2. ASSUME NEW s \in Staff, WriteCase(s)
      PROVE  OfficeIInv'
  <2>1. /\ NoTask \in Tasks /\ NoTask.step = "none" /\ Take(s, NoTask) /\ Doing(s, "case")
        /\ UNCHANGED <<request, reconciliationVars, pipelineVars>>
        /\ case' = [status |-> desk[s].to, carried |-> desk[s].given,
                    resolution |-> Written(desk[s].given, desk[s].read.resolution)]
    BY <1>2 DEF WriteCase, Finish, Tasks, NoTask
  <2>2. desk[s] \in CaseTask
    BY <2>1, TaskOfStep DEF DeskTypeOK, Doing
  <2>3. /\ case' \in CaseRow
        /\ case'.status = desk[s].to /\ case'.carried = desk[s].given
        /\ case'.resolution = Written(desk[s].given, desk[s].read.resolution)
    BY <2>1, <2>2 DEF CaseTask, CaseRow, Written
  <2>4. CasesIInv'
    <3>1. /\ desk'[s] = NoTask /\ \A staff \in Staff \ {s} : desk'[staff] = desk[staff]
          /\ NoTask.step = "none"
      BY <2>1, Taken
    <3>2. desk[s].to = "CLOSED" => "text" \in {desk[s].read.resolution, desk[s].given}
      BY <2>1 DEF CasesIInv
    <3>3. CasesKeepTheirEvidence'
      <4>1. case'.status = "CLOSED" => case'.resolution = "text" \/ case'.carried = "empty"
        BY <2>2, <2>3, <3>2 DEF Written, CaseTask, Texts
      <4>. QED
        BY <2>1, <4>1 DEF CasesKeepTheirEvidence, CasesIInv
    <3>. QED
      BY <2>1, <2>3, <3>1, <3>3 DEF CasesIInv, Doing
  <2>. QED
    BY <2>1, <2>4, Taken, ReconciliationsStand, PipelineStands
<1>. QED
  BY <1>1, <1>2, RollbackKeeps DEF CasesNext

-----------------------------------------------------------------------------
(* Another transaction's task changes: what the rows say of it.              *)
LEMMA ReconciliationSteps ==
    ASSUME OfficeIInv, NEW s \in Staff, NEW t \in Tasks, Take(s, t),
           UNCHANGED <<reconciliationVars, caseVars, pipelineVars>>,
           t.step \in {"none", "record", "resolve", "mark"},
           t.step = "record" => \A i \in t.new :
               /\ ~Recorded(i)
               /\ \A other \in Staff \ {s} : Doing(other, "record") => i \notin desk[other].new,
           t.step \in {"resolve", "mark"} => Recorded(t.issue),
           t.step = "mark" /\ t.last => NoneLeftOpen(t.issue)
    PROVE  OfficeIInv'
<1>. USE DEF OfficeIInv
<1>1. /\ DeskTypeOK'
      /\ desk'[s] = t /\ \A other \in Staff \ {s} : desk'[other] = desk[other]
  BY Taken
<1>2. /\ UNCHANGED <<wrong, difference, reconciliations>>
      /\ \A i \in Issues : Recorded(i)' <=> Recorded(i)
      /\ \A i \in Issues : NoneLeftOpen(i)' <=> NoneLeftOpen(i)
  BY DEF reconciliationVars, Recorded, NoneLeftOpen
<1>3. ASSUME NEW staff \in Staff
      PROVE  /\ Doing(staff, "record")' => \A i \in desk'[staff].new :
                 /\ ~Recorded(i)'
                 /\ \A other \in Staff \ {staff} : Doing(other, "record")' => i \notin desk'[other].new
             /\ Doing(staff, "resolve")' => Recorded(desk[staff].issue)'
             /\ Doing(staff, "mark")' => /\ Recorded(desk[staff].issue)'
                                         /\ desk'[staff].last => NoneLeftOpen(desk[staff].issue)'
  <2>1. CASE staff = s
    BY <1>1, <1>2, <2>1 DEF Doing, Recorded, NoneLeftOpen
  <2>2. CASE staff # s
    <3>1. desk'[staff] = desk[staff]
      BY <1>1, <2>2
    <3>2. Doing(staff, "record") => \A i \in desk[staff].new :
              /\ ~Recorded(i)
              /\ \A other \in Staff \ {staff} : Doing(other, "record") => i \notin desk[other].new
      BY DEF ReconciliationIInv
    <3>3. Doing(staff, "record") => \A i \in desk[staff].new : Doing(s, "record")' => i \notin desk'[s].new
      BY <1>1, <2>2 DEF Doing
    <3>4. /\ Doing(staff, "resolve") => Recorded(desk[staff].issue)
          /\ Doing(staff, "mark") => /\ Recorded(desk[staff].issue)
                                     /\ desk[staff].last => NoneLeftOpen(desk[staff].issue)
      BY DEF ReconciliationIInv
    <3>. QED
      BY <1>1, <1>2, <3>1, <3>2, <3>3, <3>4 DEF Doing, Recorded, NoneLeftOpen
  <2>. QED
    BY <2>1, <2>2
<1>4. ReconciliationIInv'
  BY <1>2, <1>3 DEF ReconciliationIInv, ResolvedRunsAreDone, Recorded
<1>5. CasesIInv' /\ PipelineIInv'
  BY CasesStand, PipelineStands
<1>. QED
  BY <1>1, <1>4, <1>5

LEMMA RunSteps ==
    ASSUME OfficeIInv, NEW s \in Staff,
           RunReconciliation(s) \/ \E i \in Issues : LookUp(s, i) \/ InsertDifference(s, i)
    PROVE  OfficeIInv'
<1>. USE DEF OfficeIInv
<1>1. CASE RunReconciliation(s)
  <2>. DEFINE t == [step |-> "record", left |-> wrong, new |-> {}, missing |-> {}]
  <2>1. Take(s, t) /\ UNCHANGED <<reconciliationVars, caseVars, pipelineVars>>
    BY <1>1 DEF RunReconciliation
  <2>2. t \in Tasks
    BY DEF Tasks, RecordTask, ReconciliationIInv
  <2>. QED
    BY <2>1, <2>2, ReconciliationSteps
<1>2. ASSUME NEW i \in Issues, LookUp(s, i)
      PROVE  OfficeIInv'
  <2>. DEFINE t == [desk[s] EXCEPT !.left = @ \ {i}, !.missing = IF Recorded(i) THEN {} ELSE {i}]
  <2>1. Take(s, t) /\ Doing(s, "record") /\ UNCHANGED <<reconciliationVars, caseVars, pipelineVars>>
    BY <1>2 DEF LookUp
  <2>2. desk[s] \in RecordTask
    BY <2>1, TaskOfStep DEF DeskTypeOK, Doing
  <2>3. t \in RecordTask /\ t.step = "record" /\ t.new = desk[s].new
    BY <2>2 DEF RecordTask
  <2>4. t \in Tasks
    BY <2>3 DEF Tasks
  <2>. HIDE DEF t
  <2>. QED
    BY <2>1, <2>3, <2>4, ReconciliationSteps DEF ReconciliationIInv
<1>3. ASSUME NEW i \in Issues, InsertDifference(s, i)
      PROVE  OfficeIInv'
  <2>1. /\ Doing(s, "record") /\ i \in desk[s].missing /\ ~RowHeld(i, s)
        /\ UNCHANGED <<reconciliationVars, caseVars, pipelineVars>>
    BY <1>3 DEF InsertDifference
  <2>2. CASE Recorded(i)
    <3>1. NoTask \in Tasks /\ NoTask.step = "none" /\ Take(s, NoTask)
      BY <1>3, <2>2 DEF InsertDifference, Finish, Tasks, NoTask
    <3>. QED
      BY <2>1, <3>1, ReconciliationSteps
  <2>3. CASE ~Recorded(i)
    <3>. DEFINE t == [desk[s] EXCEPT !.new = @ \union {i}, !.missing = {}]
    <3>1. Take(s, t)
      BY <1>3, <2>3 DEF InsertDifference
    <3>2. desk[s] \in RecordTask
      BY <2>1, TaskOfStep DEF DeskTypeOK, Doing
    <3>3. t \in RecordTask /\ t.step = "record" /\ t.new = desk[s].new \union {i}
      BY <3>2 DEF RecordTask
    <3>4. t \in Tasks
      BY <3>3 DEF Tasks
    <3>5. \A other \in Staff \ {s} : Doing(other, "record") => i \notin desk[other].new
      BY <2>1 DEF RowHeld
    <3>6. \A j \in desk[s].new :
              /\ ~Recorded(j)
              /\ \A other \in Staff \ {s} : Doing(other, "record") => j \notin desk[other].new
      BY <2>1 DEF ReconciliationIInv
    <3>. HIDE DEF t
    <3>7. \A j \in t.new :
              /\ ~Recorded(j)
              /\ \A other \in Staff \ {s} : Doing(other, "record") => j \notin desk[other].new
      BY <2>3, <3>3, <3>5, <3>6
    <3>. QED
      BY <2>1, <3>1, <3>3, <3>4, <3>7, ReconciliationSteps
  <2>. QED
    BY <2>2, <2>3
<1>. QED
  BY <1>1, <1>2, <1>3

LEMMA ResolutionSteps ==
    ASSUME OfficeIInv, NEW s \in Staff,
           MarkResolved(s) \/ \E i \in Issues : ResolveDifference(s, i)
    PROVE  OfficeIInv'
<1>. USE DEF OfficeIInv
<1>1. ASSUME NEW i \in Issues, ResolveDifference(s, i)
      PROVE  OfficeIInv'
  <2>. DEFINE t == [step |-> "resolve", issue |-> i]
  <2>1. /\ Take(s, t) /\ Recorded(i) /\ t \in Tasks
        /\ UNCHANGED <<reconciliationVars, caseVars, pipelineVars>>
    BY <1>1 DEF ResolveDifference, Tasks, ResolveTask
  <2>. QED
    BY <2>1, ReconciliationSteps
<1>2. CASE MarkResolved(s)
  <2>. DEFINE t == [step |-> "mark", issue |-> desk[s].issue, last |-> NoneLeftOpen(desk[s].issue)]
  <2>1. /\ Take(s, t) /\ Doing(s, "resolve") /\ Recorded(desk[s].issue)
        /\ UNCHANGED <<reconciliationVars, caseVars, pipelineVars>>
    BY <1>2 DEF MarkResolved, ReconciliationIInv
  <2>2. desk[s] \in ResolveTask
    BY <2>1, TaskOfStep DEF DeskTypeOK, Doing
  <2>3. t \in Tasks
    <3>1. NoneLeftOpen(desk[s].issue) \in BOOLEAN
      BY DEF NoneLeftOpen
    <3>. QED
      BY <2>2, <3>1 DEF Tasks, ResolveTask, MarkTask
  <2>. QED
    BY <2>1, <2>3, ReconciliationSteps
<1>. QED
  BY <1>1, <1>2

(* The differences of a run are new, and so is the run.                      *)
LEMMA CommitRunKeeps ==
    ASSUME OfficeIInv, NEW s \in Staff, CommitRun(s)
    PROVE  OfficeIInv'
<1>. USE DEF OfficeIInv
<1>1. /\ NoTask \in Tasks /\ NoTask.step = "none" /\ Take(s, NoTask) /\ Doing(s, "record")
      /\ UNCHANGED <<wrong, caseVars, pipelineVars>>
      /\ reconciliations' = Append(reconciliations, "OPEN")
      /\ difference' = [i \in Issues |->
             IF i \in desk[s].new THEN [run |-> Len(reconciliations'), open |-> TRUE]
             ELSE difference[i]]
  BY DEF CommitRun, Finish, Tasks, NoTask
<1>2. /\ DeskTypeOK'
      /\ desk'[s] = NoTask /\ \A other \in Staff \ {s} : desk'[other] = desk[other]
  BY <1>1, Taken
<1>3. /\ reconciliations \in Seq({"OPEN", "RESOLVED"}) /\ Len(reconciliations) \in Nat
      /\ reconciliations' \in Seq({"OPEN", "RESOLVED"})
      /\ Len(reconciliations') = Len(reconciliations) + 1
      /\ reconciliations'[Len(reconciliations')] = "OPEN"
      /\ \A n \in 1 .. Len(reconciliations) : reconciliations'[n] = reconciliations[n]
  BY <1>1 DEF ReconciliationIInv
<1>4. \A i \in desk[s].new :
          /\ ~Recorded(i)
          /\ \A other \in Staff \ {s} : Doing(other, "record") => i \notin desk[other].new
  BY <1>1 DEF ReconciliationIInv
<1>5. \A i \in Issues :
          /\ i \in desk[s].new => difference'[i].run = Len(reconciliations) + 1 /\ difference'[i].open
          /\ i \notin desk[s].new => difference'[i] = difference[i]
  BY <1>1, <1>3
<1>6. /\ difference' \in [Issues -> [run : 0 .. Len(reconciliations'), open : BOOLEAN]]
      /\ difference \in [Issues -> [run : 0 .. Len(reconciliations), open : BOOLEAN]]
  BY <1>1, <1>3 DEF ReconciliationIInv
<1>7. \A i \in Issues : Recorded(i)' <=> Recorded(i) \/ i \in desk[s].new
  BY <1>3, <1>5 DEF Recorded, NoDifference
<1>8. ASSUME NEW staff \in Staff
      PROVE  /\ Doing(staff, "record")' => \A i \in desk'[staff].new :
                 /\ ~Recorded(i)'
                 /\ \A other \in Staff \ {staff} : Doing(other, "record")' => i \notin desk'[other].new
             /\ Doing(staff, "resolve")' => Recorded(desk[staff].issue)'
             /\ Doing(staff, "mark")' => /\ Recorded(desk[staff].issue)'
                                         /\ desk'[staff].last => NoneLeftOpen(desk[staff].issue)'
  <2>1. CASE staff = s
    BY <1>1, <1>2, <2>1 DEF Doing
  <2>2. CASE staff # s
    <3>1. desk'[staff] = desk[staff] /\ desk[staff] \in Tasks
      BY <1>2, <2>2 DEF DeskTypeOK
    <3>2. ASSUME Doing(staff, "record"), NEW i \in desk[staff].new
          PROVE  /\ ~Recorded(i)'
                 /\ \A other \in Staff \ {staff} : Doing(other, "record")' => i \notin desk'[other].new
      <4>1. desk[staff] \in RecordTask
        BY <3>1, <3>2, TaskOfStep DEF Doing
      <4>2. i \in Issues
        BY <3>2, <4>1 DEF RecordTask
      <4>3. ~Recorded(i) /\ \A other \in Staff \ {staff} : Doing(other, "record") => i \notin desk[other].new
        BY <3>2 DEF ReconciliationIInv
      <4>4. i \notin desk[s].new
        BY <1>1, <2>2, <4>3
      <4>. QED
        BY <1>1, <1>2, <1>7, <4>2, <4>3, <4>4 DEF Doing
    <3>3. ASSUME Doing(staff, "resolve") PROVE Recorded(desk[staff].issue)'
      <4>1. desk[staff] \in ResolveTask
        BY <3>1, <3>3, TaskOfStep DEF Doing
      <4>2. desk[staff].issue \in Issues
        BY <4>1 DEF ResolveTask
      <4>3. Recorded(desk[staff].issue)
        BY <3>3 DEF ReconciliationIInv
      <4>4. desk[staff].issue \notin desk[s].new
        BY <1>4, <4>3
      <4>. QED
        BY <1>5, <3>1, <4>2, <4>3, <4>4 DEF Recorded
    <3>4. ASSUME Doing(staff, "mark")
          PROVE  /\ Recorded(desk[staff].issue)'
                 /\ desk[staff].last => NoneLeftOpen(desk[staff].issue)'
      <4>. DEFINE i == desk[staff].issue
      <4>1. desk[staff] \in MarkTask
        BY <3>1, <3>4, TaskOfStep DEF Doing
      <4>2. i \in Issues
        BY <4>1 DEF MarkTask
      <4>3. Recorded(i) /\ (desk[staff].last => NoneLeftOpen(i))
        BY <3>4 DEF ReconciliationIInv
      <4>4. difference'[i] = difference[i] /\ difference[i].run \in 0 .. Len(reconciliations)
        BY <1>4, <1>5, <1>6, <4>2, <4>3
      <4>5. ASSUME desk[staff].last, NEW j \in Issues \ {i}, difference'[j].run = difference'[i].run
            PROVE  ~difference'[j].open
        <5>1. j \notin desk[s].new
          BY <1>3, <1>5, <4>4, <4>5
        <5>2. difference'[j] = difference[j]
          BY <1>5, <5>1
        <5>. QED
          BY <4>3, <4>4, <4>5, <5>2 DEF NoneLeftOpen
      <4>6. Recorded(i)'
        BY <3>1, <4>3, <4>4 DEF Recorded
      <4>. QED
        BY <3>1, <4>5, <4>6 DEF NoneLeftOpen
    <3>. QED
      BY <3>1, <3>2, <3>3, <3>4 DEF Doing, Recorded, NoneLeftOpen
  <2>. QED
    BY <2>1, <2>2
<1>9. ResolvedRunsAreDone'
  <2>1. ASSUME NEW i \in Issues, difference'[i].open
        PROVE  reconciliations'[difference'[i].run] = "OPEN"
    <3>1. CASE i \in desk[s].new
      BY <1>3, <1>5, <3>1
    <3>2. CASE i \notin desk[s].new
      <4>1. difference'[i] = difference[i] /\ difference[i].open
        BY <1>5, <2>1, <3>2
      <4>2. difference[i].run # 0
        BY <4>1 DEF ReconciliationIInv, Recorded, NoDifference
      <4>3. difference[i].run \in 1 .. Len(reconciliations)
        BY <1>3, <1>6, <4>2
      <4>4. reconciliations[difference[i].run] = "OPEN"
        BY <4>1 DEF ReconciliationIInv, ResolvedRunsAreDone
      <4>. QED
        BY <1>3, <4>1, <4>3, <4>4
    <3>. QED
      BY <3>1, <3>2
  <2>. QED
    BY <2>1 DEF ResolvedRunsAreDone
<1>10. \A i \in Issues : Recorded(i)' => difference'[i].run # 0
  BY <1>3, <1>5, <1>7 DEF ReconciliationIInv, Recorded
<1>11. ReconciliationIInv'
  BY <1>1, <1>3, <1>6, <1>8, <1>9, <1>10 DEF ReconciliationIInv
<1>12. CasesIInv' /\ PipelineIInv'
  BY <1>1, CasesStand, PipelineStands
<1>. QED
  BY <1>2, <1>11, <1>12

(* The run is done when the row resolved was its last one open.              *)
LEMMA CommitResolutionKeeps ==
    ASSUME OfficeIInv, NEW s \in Staff, CommitResolution(s)
    PROVE  OfficeIInv'
<1>. USE DEF OfficeIInv
<1>. DEFINE i == desk[s].issue
            r == difference[i].run
<1>1. /\ NoTask \in Tasks /\ NoTask.step = "none" /\ Take(s, NoTask) /\ Doing(s, "mark")
      /\ UNCHANGED <<wrong, caseVars, pipelineVars>>
      /\ difference' = [difference EXCEPT ![i].open = FALSE]
      /\ reconciliations' = IF desk[s].last
             THEN [reconciliations EXCEPT ![r] = "RESOLVED"] ELSE reconciliations
  BY DEF CommitResolution, Finish, Tasks, NoTask
<1>2. /\ DeskTypeOK'
      /\ desk'[s] = NoTask /\ \A other \in Staff \ {s} : desk'[other] = desk[other]
  BY <1>1, Taken
<1>3. i \in Issues /\ Recorded(i) /\ (desk[s].last => NoneLeftOpen(i))
  <2>1. desk[s] \in MarkTask
    BY <1>1, TaskOfStep DEF DeskTypeOK, Doing
  <2>. QED
    BY <1>1, <2>1 DEF MarkTask, ReconciliationIInv
<1>4. /\ difference \in [Issues -> [run : 0 .. Len(reconciliations), open : BOOLEAN]]
      /\ reconciliations \in Seq({"OPEN", "RESOLVED"}) /\ Len(reconciliations) \in Nat
      /\ r \in 1 .. Len(reconciliations)
  <2>1. r # 0
    BY <1>3 DEF ReconciliationIInv
  <2>. QED
    BY <1>3, <2>1 DEF ReconciliationIInv
<1>5. /\ reconciliations' \in Seq({"OPEN", "RESOLVED"}) /\ Len(reconciliations') = Len(reconciliations)
      /\ \A n \in 1 .. Len(reconciliations) : n # r => reconciliations'[n] = reconciliations[n]
      /\ ~desk[s].last => reconciliations' = reconciliations
  BY <1>1, <1>4
<1>6. /\ difference'[i].run = r /\ ~difference'[i].open
      /\ \A j \in Issues \ {i} : difference'[j] = difference[j]
      /\ difference' \in [Issues -> [run : 0 .. Len(reconciliations), open : BOOLEAN]]
  BY <1>1, <1>3, <1>4
<1>7. \A j \in Issues : Recorded(j)' <=> Recorded(j)
  BY <1>3, <1>4, <1>6 DEF Recorded, NoDifference
<1>8. \A j \in Issues : NoneLeftOpen(j) => NoneLeftOpen(j)'
  <2>1. \A j \in Issues : difference'[j].run = difference[j].run /\ (difference'[j].open => difference[j].open)
    BY <1>6
  <2>. QED
    BY <2>1 DEF NoneLeftOpen
<1>9. ASSUME NEW staff \in Staff
      PROVE  /\ Doing(staff, "record")' => \A j \in desk'[staff].new :
                 /\ ~Recorded(j)'
                 /\ \A other \in Staff \ {staff} : Doing(other, "record")' => j \notin desk'[other].new
             /\ Doing(staff, "resolve")' => Recorded(desk[staff].issue)'
             /\ Doing(staff, "mark")' => /\ Recorded(desk[staff].issue)'
                                         /\ desk'[staff].last => NoneLeftOpen(desk[staff].issue)'
  <2>1. CASE staff = s
    BY <1>1, <1>2, <2>1 DEF Doing
  <2>2. CASE staff # s
    <3>1. desk'[staff] = desk[staff] /\ desk[staff] \in Tasks
      BY <1>2, <2>2 DEF DeskTypeOK
    <3>2. ASSUME Doing(staff, "record"), NEW j \in desk[staff].new
          PROVE  /\ ~Recorded(j)'
                 /\ \A other \in Staff \ {staff} : Doing(other, "record")' => j \notin desk'[other].new
      <4>1. j \in Issues
        <5>1. desk[staff] \in RecordTask
          BY <3>1, <3>2, TaskOfStep DEF Doing
        <5>. QED
          BY <3>2, <5>1 DEF RecordTask
      <4>2. ~Recorded(j) /\ \A other \in Staff \ {staff} : Doing(other, "record") => j \notin desk[other].new
        BY <3>2 DEF ReconciliationIInv
      <4>. QED
        BY <1>1, <1>2, <1>7, <4>1, <4>2 DEF Doing
    <3>3. ASSUME Doing(staff, "resolve") PROVE Recorded(desk[staff].issue)'
      <4>1. desk[staff].issue \in Issues
        <5>1. desk[staff] \in ResolveTask
          BY <3>1, <3>3, TaskOfStep DEF Doing
        <5>. QED
          BY <5>1 DEF ResolveTask
      <4>2. Recorded(desk[staff].issue)
        BY <3>3 DEF ReconciliationIInv
      <4>. QED
        BY <1>7, <3>1, <4>1, <4>2 DEF Recorded
    <3>4. ASSUME Doing(staff, "mark")
          PROVE  /\ Recorded(desk[staff].issue)'
                 /\ desk[staff].last => NoneLeftOpen(desk[staff].issue)'
      <4>1. desk[staff].issue \in Issues
        <5>1. desk[staff] \in MarkTask
          BY <3>1, <3>4, TaskOfStep DEF Doing
        <5>. QED
          BY <5>1 DEF MarkTask
      <4>2. Recorded(desk[staff].issue) /\ (desk[staff].last => NoneLeftOpen(desk[staff].issue))
        BY <3>4 DEF ReconciliationIInv
      <4>. QED
        BY <1>7, <1>8, <3>1, <4>1, <4>2 DEF Recorded, NoneLeftOpen
    <3>. QED
      BY <3>1, <3>2, <3>3, <3>4 DEF Doing, Recorded, NoneLeftOpen
  <2>. QED
    BY <2>1, <2>2
<1>10. ResolvedRunsAreDone'
  <2>1. ASSUME NEW j \in Issues, difference'[j].open
        PROVE  reconciliations'[difference'[j].run] = "OPEN"
    <3>1. j # i /\ difference'[j] = difference[j] /\ difference[j].open
      BY <1>6, <2>1
    <3>2. difference[j].run \in 1 .. Len(reconciliations)
      <4>1. difference[j].run # 0
        BY <3>1 DEF ReconciliationIInv, Recorded, NoDifference
      <4>. QED
        BY <1>4, <4>1
    <3>3. reconciliations[difference[j].run] = "OPEN"
      BY <3>1 DEF ReconciliationIInv, ResolvedRunsAreDone
    <3>4. desk[s].last => difference[j].run # r
      BY <1>3, <3>1 DEF NoneLeftOpen
    <3>. QED
      BY <1>5, <3>1, <3>2, <3>3, <3>4
  <2>. QED
    BY <2>1 DEF ResolvedRunsAreDone
<1>11. \A j \in Issues : Recorded(j)' => difference'[j].run # 0
  BY <1>6, <1>7 DEF ReconciliationIInv
<1>12. ReconciliationIInv'
  BY <1>1, <1>5, <1>6, <1>9, <1>10, <1>11 DEF ReconciliationIInv
<1>13. CasesIInv' /\ PipelineIInv'
  BY <1>1, CasesStand, PipelineStands
<1>. QED
  BY <1>2, <1>12, <1>13

LEMMA ReconciliationKeeps ==
    ASSUME OfficeIInv, ReconciliationNext
    PROVE  OfficeIInv'
<1>1. CASE PaymentsChange
  BY <1>1 DEF PaymentsChange, OfficeIInv, DeskTypeOK, CasesIInv, CasesKeepTheirEvidence, caseVars,
      ReconciliationIInv, ResolvedRunsAreDone, Recorded, NoneLeftOpen, Doing, pipelineVars,
      PipelineIInv, HistoryIsTold, Staged
<1>2. ASSUME NEW s \in Staff,
             \/ RunReconciliation(s) \/ CommitRun(s)
             \/ \E i \in Issues : LookUp(s, i) \/ InsertDifference(s, i) \/ ResolveDifference(s, i)
             \/ MarkResolved(s) \/ CommitResolution(s) \/ Rollback(s)
      PROVE  OfficeIInv'
  BY <1>2, RunSteps, ResolutionSteps, CommitRunKeeps, CommitResolutionKeeps, RollbackKeeps
<1>. QED
  BY <1>1, <1>2 DEF ReconciliationNext

-----------------------------------------------------------------------------
LEMMA PipelineKeeps ==
    ASSUME OfficeIInv, PipelineNext
    PROVE  OfficeIInv'
<1>. USE DEF OfficeIInv
<1>0. /\ opportunity \in [stage : Stages, opened : Stages, version : Nat] /\ agreements \in Nat
      /\ history \in Seq([from : Stages, to : Stages, replaced : Stages, guarded : BOOLEAN])
      /\ NoTask \in Tasks /\ NoTask.step = "none"
  BY DEF PipelineIInv, Tasks, NoTask
<1>1. ASSUME NEW s \in Staff, NEW to \in Stages, NEW guard \in Guards, ChangeStage(s, to, guard)
      PROVE  OfficeIInv'
  <2>. DEFINE t == [step |-> "stage", to |-> to, from |-> opportunity.stage, guard |-> guard]
  <2>1. guard \in Guard /\ guard.seen <= opportunity.version
    <3>1. opportunity.version \in Nat
      BY <1>0
    <3>2. CASE guard = [given |-> FALSE, seen |-> 0]
      BY <3>1, <3>2 DEF Guard
    <3>3. ASSUME NEW v \in 0 .. opportunity.version, guard = [given |-> TRUE, seen |-> v]
          PROVE  guard \in Guard /\ guard.seen <= opportunity.version
      BY <3>1, <3>3 DEF Guard
    <3>. QED
      BY <3>2, <3>3 DEF Guards
  <2>2. /\ t \in Tasks /\ Take(s, t)
        /\ UNCHANGED <<caseVars, reconciliationVars, opportunity, history, agreements>>
    BY <1>0, <1>1, <2>1 DEF ChangeStage, Tasks, StageTask, pipelineVars
  <2>3. PipelineIInv'
    BY <2>1, <2>2, Taken DEF PipelineIInv, HistoryIsTold, Staged, Doing
  <2>. QED
    BY <2>2, <2>3, Taken, CasesStand, ReconciliationsStand
<1>2. ASSUME NEW s \in Staff, WriteStage(s)
      PROVE  OfficeIInv'
  <2>1. /\ Take(s, NoTask) /\ Doing(s, "stage")
        /\ UNCHANGED <<agreements, caseVars, reconciliationVars>>
    BY <1>2 DEF WriteStage, Finish
  <2>2. desk[s] \in StageTask
    BY <2>1, TaskOfStep DEF DeskTypeOK, Doing
  <2>3. /\ DeskTypeOK'
        /\ desk'[s] = NoTask /\ \A other \in Staff \ {s} : desk'[other] = desk[other]
    BY <1>0, <2>1, Taken
  <2>4. CASE Passes(s)
    <3>. DEFINE entry == [from |-> desk[s].from, to |-> desk[s].to,
                          replaced |-> opportunity.stage, guarded |-> desk[s].guard.given]
    <3>1. /\ opportunity' = [Touched(opportunity) EXCEPT !.stage = desk[s].to]
          /\ history' = Append(history, entry)
      BY <1>2, <2>4 DEF WriteStage
    <3>2. /\ opportunity' \in [stage : Stages, opened : Stages, version : Nat]
          /\ opportunity'.stage = desk[s].to /\ opportunity'.opened = opportunity.opened
          /\ opportunity'.version = opportunity.version + 1
      <4>1. /\ Touched(opportunity) \in [stage : Stages, opened : Stages, version : Nat]
            /\ Touched(opportunity).version = opportunity.version + 1
            /\ Touched(opportunity).opened = opportunity.opened
        BY <1>0 DEF Touched
      <4>2. desk[s].to \in Stages
        BY <2>2 DEF StageTask
      <4>. QED
        BY <3>1, <4>1, <4>2
    <3>3. entry \in [from : Stages, to : Stages, replaced : Stages, guarded : BOOLEAN]
      BY <1>0, <2>2 DEF StageTask, Guard
    <3>. HIDE DEF entry
    <3>4. /\ history' \in Seq([from : Stages, to : Stages, replaced : Stages, guarded : BOOLEAN])
          /\ Len(history') = Len(history) + 1 /\ Len(history) \in Nat
          /\ history'[Len(history) + 1] = entry
          /\ \A n \in 1 .. Len(history) : history'[n] = history[n]
          /\ DOMAIN history' = 1 .. Len(history) + 1 /\ DOMAIN history = 1 .. Len(history)
      BY <1>0, <3>1, <3>3
    <3>5. /\ entry.from = desk[s].from /\ entry.to = desk[s].to
          /\ entry.replaced = opportunity.stage /\ entry.guarded = desk[s].guard.given
      BY DEF entry
    <3>6. desk[s].guard.given => desk[s].from = opportunity.stage
      BY <2>1, <2>4 DEF Passes, PipelineIInv
    <3>7. Staged => Staged'
      BY <3>2, <3>4 DEF Staged
    <3>8. desk[s].to \in AgreementStages => Staged'
      BY <3>4, <3>5 DEF Staged
    <3>9. HistoryIsTold'
      <4>1. \A n \in DOMAIN history' : history'[n].guarded => history'[n].from = history'[n].replaced
        <5>1. \A n \in 1 .. Len(history) : history[n].guarded => history[n].from = history[n].replaced
          BY <3>4 DEF PipelineIInv, HistoryIsTold
        <5>2. entry.guarded => entry.from = entry.replaced
          BY <3>5, <3>6
        <5>3. ASSUME NEW n \in 1 .. Len(history) + 1
              PROVE  n \in 1 .. Len(history) \/ n = Len(history) + 1
          BY <3>4
        <5>. QED
          BY <3>4, <5>1, <5>2, <5>3
      <4>2. agreements' > 0 => Staged'
        BY <2>1, <3>7 DEF PipelineIInv, HistoryIsTold, Staged
      <4>. QED
        BY <4>1, <4>2 DEF HistoryIsTold, Staged
    <3>10. ASSUME NEW staff \in Staff, Doing(staff, "stage")', desk'[staff].guard.given
           PROVE  /\ desk'[staff].guard.seen <= opportunity'.version
                  /\ desk'[staff].guard.seen # opportunity'.version
      <4>1. staff # s /\ desk'[staff] = desk[staff] /\ Doing(staff, "stage")
        BY <1>0, <2>3, <3>10 DEF Doing
      <4>2. desk[staff] \in StageTask
        BY <4>1, TaskOfStep DEF DeskTypeOK, Doing
      <4>3. desk[staff].guard.seen \in Nat /\ desk[staff].guard.seen <= opportunity.version
        BY <3>10, <4>1, <4>2 DEF StageTask, Guard, PipelineIInv
      <4>. QED
        BY <1>0, <3>2, <4>1, <4>3
    <3>11. ASSUME NEW staff \in Staff, Doing(staff, "agreement")'
           PROVE  Staged'
      <4>1. staff # s /\ Doing(staff, "agreement")
        BY <1>0, <2>3, <3>11 DEF Doing
      <4>. QED
        BY <3>7, <4>1 DEF PipelineIInv
    <3>12. PipelineIInv'
      BY <1>0, <2>1, <3>2, <3>4, <3>8, <3>9, <3>10, <3>11 DEF PipelineIInv
    <3>. QED
      BY <1>0, <2>1, <2>3, <3>12, CasesStand, ReconciliationsStand
  <2>5. CASE ~Passes(s)
    <3>1. UNCHANGED <<opportunity, history>>
      BY <1>2, <2>5 DEF WriteStage
    <3>2. PipelineIInv'
      BY <1>0, <2>1, <2>3, <3>1 DEF PipelineIInv, HistoryIsTold, Staged, Doing
    <3>. QED
      BY <1>0, <2>1, <2>3, <3>2, CasesStand, ReconciliationsStand
  <2>. QED
    BY <2>4, <2>5
<1>3. ASSUME NEW s \in Staff, NEW guard \in Guards, AssignOpportunity(s, guard)
      PROVE  OfficeIInv'
  <2>1. /\ opportunity' = Touched(opportunity)
        /\ UNCHANGED <<desk, history, agreements, caseVars, reconciliationVars>>
    BY <1>3 DEF AssignOpportunity
  <2>2. /\ opportunity' \in [stage : Stages, opened : Stages, version : Nat]
        /\ opportunity'.stage = opportunity.stage /\ opportunity'.opened = opportunity.opened
        /\ opportunity'.version = opportunity.version + 1
    BY <1>0, <2>1 DEF Touched
  <2>3. ASSUME NEW staff \in Staff, Doing(staff, "stage"), desk[staff].guard.given
        PROVE  /\ desk[staff].guard.seen <= opportunity'.version
               /\ desk[staff].guard.seen # opportunity'.version
    <3>1. desk[staff] \in StageTask
      BY <2>3, TaskOfStep DEF DeskTypeOK, Doing
    <3>2. desk[staff].guard.seen \in Nat /\ desk[staff].guard.seen <= opportunity.version
      BY <2>3, <3>1 DEF StageTask, Guard, PipelineIInv
    <3>. QED
      BY <1>0, <2>2, <3>2
  <2>4. PipelineIInv'
    BY <2>1, <2>2, <2>3 DEF PipelineIInv, HistoryIsTold, Staged, Doing
  <2>5. DeskTypeOK' /\ CasesIInv' /\ ReconciliationIInv'
    BY <2>1 DEF DeskTypeOK, CasesIInv, CasesKeepTheirEvidence, caseVars, reconciliationVars,
        ReconciliationIInv, ResolvedRunsAreDone, Recorded, NoneLeftOpen, Doing
  <2>. QED
    BY <2>4, <2>5
<1>4. ASSUME NEW s \in Staff, CreateAgreement(s)
      PROVE  OfficeIInv'
  <2>. DEFINE t == [step |-> "agreement"]
  <2>1. /\ t \in Tasks /\ Take(s, t) /\ opportunity.stage \in AgreementStages
        /\ UNCHANGED <<caseVars, reconciliationVars, opportunity, history, agreements>>
    BY <1>4 DEF CreateAgreement, Tasks, AgreementTask, pipelineVars
  <2>2. PipelineIInv'
    BY <2>1, Taken DEF PipelineIInv, HistoryIsTold, Staged, Doing
  <2>. QED
    BY <2>1, <2>2, Taken, CasesStand, ReconciliationsStand
<1>5. ASSUME NEW s \in Staff, WriteAgreement(s)
      PROVE  OfficeIInv'
  <2>1. /\ Take(s, NoTask) /\ Doing(s, "agreement") /\ agreements' = agreements + 1
        /\ UNCHANGED <<opportunity, history, caseVars, reconciliationVars>>
    BY <1>5 DEF WriteAgreement, Finish
  <2>2. PipelineIInv'
    BY <1>0, <2>1, Taken DEF PipelineIInv, HistoryIsTold, Staged, Doing
  <2>. QED
    BY <1>0, <2>1, <2>2, Taken, CasesStand, ReconciliationsStand
<1>. QED
  BY <1>1, <1>2, <1>3, <1>4, <1>5, RollbackKeeps DEF PipelineNext

LEMMA OfficeStands ==
    ASSUME OfficeIInv, UNCHANGED officeVars
    PROVE  OfficeIInv'
BY DEF officeVars, caseVars, reconciliationVars, pipelineVars, OfficeIInv, DeskTypeOK, CasesIInv,
    CasesKeepTheirEvidence, ReconciliationIInv, ResolvedRunsAreDone, Recorded, NoneLeftOpen, Doing,
    PipelineIInv, HistoryIsTold, Staged

-----------------------------------------------------------------------------
(* The outbox.  MCServices and OutboxProofs each bring an instance of it with *)
(* the same substitution; expanded, their definitions are the same text.      *)

LEMMA SameOutboxAssumption == OB!OutboxAssumption
BY OutboxAssumed DEF Outbox!OutboxAssumption, OB!OutboxAssumption

LEMMA SameOutboxInit ==
    ASSUME Outbox!Init PROVE OB!Init
BY DEF Outbox!NoRow, Outbox!NoTask, Outbox!NoDrain, Outbox!Init, OB!NoRow, OB!NoTask, OB!NoDrain,
   OB!Init

LEMMA SameOutboxNext ==
    ASSUME Outbox!Next PROVE OB!Next
BY DEF Outbox!FinishingSteps, Outbox!NoRow, Outbox!NoTask, Outbox!NoDrain, Outbox!Tasks,
   Outbox!Runs, Outbox!Becomes, Outbox!At, Outbox!Ended, Outbox!Rejected, Outbox!Send,
   Outbox!Enqueue, Outbox!QuarantineStatus, Outbox!QuarantineExpiredProcessingLeases,
   Outbox!Claimable, Outbox!ClaimJobs, Outbox!LeaseExpires, Outbox!Owns, Outbox!Heartbeat,
   Outbox!ParseFails, Outbox!SmtpAccepts, Outbox!SendReturns, Outbox!FinalStatus,
   Outbox!Finish, Outbox!Aggregate, Outbox!SyncReads, Outbox!SyncWrites, Outbox!QueryFails,
   Outbox!Crash, Outbox!DeliveryStep, Outbox!Next, OB!FinishingSteps, OB!NoRow, OB!NoTask,
   OB!NoDrain, OB!Tasks, OB!Runs, OB!Becomes, OB!At, OB!Ended, OB!Rejected, OB!Send,
   OB!Enqueue, OB!QuarantineStatus, OB!QuarantineExpiredProcessingLeases, OB!Claimable,
   OB!ClaimJobs, OB!LeaseExpires, OB!Owns, OB!Heartbeat, OB!ParseFails, OB!SmtpAccepts,
   OB!SendReturns, OB!FinalStatus, OB!Finish, OB!Aggregate, OB!SyncReads, OB!SyncWrites,
   OB!QueryFails, OB!Crash, OB!DeliveryStep, OB!Next

LEMMA SameCommunication ==
    OB!CommunicationIsTrue => Outbox!CommunicationIsTrue
BY DEF Outbox!CommunicationIsTrue, OB!CommunicationIsTrue

-----------------------------------------------------------------------------
(* All of it.  While a behaviour follows one part of the portal, that part's  *)
(* invariant holds, and the rows of the others are as they were.              *)
PortalInv ==
    /\ part = "access" => AccessIInv
    /\ part = "mutation" => MutationIInv
    /\ part = "contact" => ContactIInv
    /\ part # "access" =>
        challenge = NoCode /\ entries = [a \in Assurances |-> 0]
    /\ part # "mutation" =>
        /\ admitted = [t \in 1 .. MaxIssued |-> 0]
        /\ answers = [k \in IdempotencyKeys |-> {}]
    /\ part # "contact" => contact = NoCode /\ core = "UNKNOWN"

OutboxInv == part = "outbox" => OB!RowsIInv

ServicesIInv == IInv /\ GatewayIInv /\ PortalInv /\ OfficeIInv /\ OutboxInv

LEMMA ServicesInitially == ServicesInit => ServicesIInv
<1>. SUFFICES ASSUME ServicesInit PROVE ServicesIInv
  OBVIOUS
<1>1. Init /\ PortalInit /\ GatewayInit /\ Outbox!Init /\ OfficeInit
  BY DEF ServicesInit
<1>2. PortalInv
  BY <1>1, PortalInitially DEF PortalInv, PortalInit
<1>3. OutboxInv
  BY <1>1, SameOutboxInit, SameOutboxAssumption, OB!RowsInit DEF OutboxInv
<1>. QED
  BY <1>1, <1>2, <1>3, Initially, GatewayInitially, OfficeInitially DEF ServicesIInv

(* Each part of the portal writes its own rows.                               *)
LEMMA PortalPartsApart ==
    /\ AccessNext => UNCHANGED <<mutationVars, contactVars>>
    /\ MutationNext => UNCHANGED <<accessVars, contactVars>>
    /\ ContactNext => UNCHANGED <<accessVars, mutationVars>>
<1>1. AccessNext => UNCHANGED <<mutationVars, contactVars>>
  BY DEF AccessNext, RequestCode, AccessTime, LookupAccess, Resend, ResendDelivered, Verify,
      VerifyLate, VerifyWrong, VerifyRight, CreateSession, Stop
<1>2. MutationNext => UNCHANGED <<accessVars, contactVars>>
  BY DEF MutationNext, Resolve, Refresh, ConsumeCsrf, Logout, Mutate, Operate, Store, Stop
<1>3. ContactNext => UNCHANGED <<accessVars, mutationVars>>
  BY DEF ContactNext, StartContact, CoreDecides, ContactTime, RequestContactCode,
      ContactCodeDelivered, VerifyContact, ContactWrong, ContactRight, SubmitContact,
      PollContact, RecordContact, Stop
<1>. QED
  BY <1>1, <1>2, <1>3

(* A step of one part leaves the others alone.                                *)
LEMMA ServicesParts ==
    ASSUME [ServicesNext]_servicesVars
    PROVE  /\ UNCHANGED part /\ [Next]_vars /\ [GatewayNext]_gatewayVars
           /\ \/ UNCHANGED portalVars
              \/ part = "access" /\ AccessNext
              \/ part = "mutation" /\ MutationNext
              \/ part = "contact" /\ ContactNext
           /\ \/ UNCHANGED officeVars
              \/ RequestsNext \/ CasesNext \/ ReconciliationNext \/ PipelineNext
           /\ (part = "outbox" /\ Outbox!Next) \/ UNCHANGED outboxVars
<1>1. CASE UNCHANGED servicesVars
  BY <1>1 DEF servicesVars
<1>2. CASE ServicesNext
  BY <1>2 DEF ServicesNext, PortalStep, OfficeStep
<1>. QED
  BY <1>1, <1>2

LEMMA PortalInductive ==
    ASSUME PortalInv, [ServicesNext]_servicesVars
    PROVE  /\ PortalInv'
           /\ challenge.status \in {"LOCKED", "EXPIRED"} /\ ~challenge.verified => ~challenge'.verified
<1>1. /\ UNCHANGED part
      /\ \/ UNCHANGED portalVars
         \/ part = "access" /\ AccessNext
         \/ part = "mutation" /\ MutationNext
         \/ part = "contact" /\ ContactNext
  BY ServicesParts
<1>2. CASE UNCHANGED portalVars
  BY <1>1, <1>2, PortalStands DEF PortalInv, portalVars, accessVars, mutationVars, contactVars
<1>3. CASE part = "access" /\ AccessNext
  BY <1>1, <1>3, AccessKeeps, PortalPartsApart DEF PortalInv, mutationVars, contactVars
<1>4. CASE part = "mutation" /\ MutationNext
  BY <1>1, <1>4, MutationKeeps, PortalPartsApart DEF PortalInv, accessVars, contactVars
<1>5. CASE part = "contact" /\ ContactNext
  BY <1>1, <1>5, ContactKeeps, PortalPartsApart DEF PortalInv, accessVars, mutationVars
<1>. QED
  BY <1>1, <1>2, <1>3, <1>4, <1>5

LEMMA OutboxInductive ==
    ASSUME OutboxInv, [ServicesNext]_servicesVars
    PROVE  OutboxInv'
<1>1. UNCHANGED part /\ ((part = "outbox" /\ OB!Next) \/ UNCHANGED outboxVars)
  BY ServicesParts, SameOutboxNext
<1>2. UNCHANGED outboxVars => UNCHANGED OB!vars
  BY DEF outboxVars, OB!vars
<1>. QED
  BY <1>1, <1>2, SameOutboxAssumption, OB!RowsStep, OB!RowsMoveKeeps DEF OutboxInv

LEMMA ServicesInductive ==
    ASSUME ServicesIInv, [ServicesNext]_servicesVars
    PROVE  ServicesIInv'
<1>. USE DEF ServicesIInv
<1>1. IInv'
  BY ServicesParts, Inductive
<1>2. GatewayIInv'
  BY ServicesParts, GatewayInductive
<1>3. OfficeIInv'
  BY ServicesParts, RequestsKeep, CasesKeep, ReconciliationKeeps, PipelineKeeps, OfficeStands
<1>. QED
  BY <1>1, <1>2, <1>3, PortalInductive, OutboxInductive

(* Whatever else goes on, the Master orders move as MasterPayments says, so   *)
(* the theorems about Spec hold of ServicesSpec, and so do the inferences.    *)
THEOREM PartsAreTheirSpecifications == ServicesSpec => Spec /\ GatewaySpec
<1>1. ServicesInit => Init /\ GatewayInit
  BY DEF ServicesInit
<1>2. [ServicesNext]_servicesVars => [Next]_vars /\ [GatewayNext]_gatewayVars
  BY ServicesParts
<1>. QED
  BY <1>1, <1>2, PTL DEF ServicesSpec, Spec, GatewaySpec

THEOREM ServicesInvariance == ServicesSpec => []ServicesIInv
BY ServicesInitially, ServicesInductive, PTL DEF ServicesSpec

(* redis-usage-meter.ts and openrouter-client.ts: however many inferences     *)
(* reserve, settle and return at once, across midnights, restarts and a Redis *)
(* that does not answer, no day exceeds its ceiling by more than what they    *)
(* cost above their estimates, and a half-open circuit has its probe.         *)
THEOREM GatewayHoldsItsLimitsCorrect == ServicesSpec => []GatewayHoldsItsLimits
<1>1. ServicesIInv => GatewayHoldsItsLimits
  BY GatewayHolds DEF ServicesIInv, GatewayHoldsItsLimits
<1>. QED
  BY <1>1, ServicesInvariance, PTL

LEMMA PortalHolds ==
    ASSUME PortalInv PROVE PortalKeepsItsWord
<1>1. entries["OTP"] + entries["LOOKUP"] <= 1
  BY DEF PortalInv, AccessIInv, Assurances
<1>2. ASSUME NEW t \in 1 .. MaxIssued
      PROVE  admitted[t] <= 1
  <2>1. CASE part = "mutation"
    BY <2>1 DEF PortalInv, MutationIInv
  <2>2. CASE part # "mutation"
    <3>1. admitted[t] = 0
      BY <2>2 DEF PortalInv
    <3>. QED
      BY <3>1
  <2>. QED
    BY <2>1, <2>2
<1>3. ASSUME NEW k \in IdempotencyKeys, NEW a \in answers[k], NEW b \in answers[k]
      PROVE  a = b
  <2>1. CASE part = "mutation"
    BY <1>3, <2>1 DEF PortalInv, MutationIInv
  <2>2. CASE part # "mutation"
    <3>1. answers[k] = {}
      BY <2>2 DEF PortalInv
    <3>. QED
      BY <1>3, <3>1
  <2>. QED
    BY <2>1, <2>2
<1>4. ContactIsVerifiedAndTrue
  BY DEF PortalInv, ContactIInv, ContactIsVerifiedAndTrue, NoCode
<1>. QED
  BY <1>1, <1>2, <1>3, <1>4 DEF PortalKeepsItsWord, PortalGrantsOnce

(* A challenge opens the portal once, a token admits one request, requests    *)
(* under one key are answered alike and the core hears of verified contacts   *)
(* only (self-service-*.service.ts), whatever stops or comes in between.      *)
THEOREM PortalKeepsItsWordCorrect == ServicesSpec => []PortalKeepsItsWord
<1>1. ServicesIInv => PortalKeepsItsWord
  BY PortalHolds DEF ServicesIInv
<1>. QED
  BY <1>1, ServicesInvariance, PTL

(* No challenge that was locked or had expired is verified afterwards         *)
(* (self-service-access.service.ts verify).                                   *)
THEOREM BarredStaysBarredCorrect == ServicesSpec => BarredStaysBarred
<1>1. ServicesIInv /\ [ServicesNext]_servicesVars =>
          [challenge.status \in {"LOCKED", "EXPIRED"} /\ ~challenge.verified
              => ~challenge'.verified]_portalVars
  BY PortalInductive DEF ServicesIInv
<1>. QED
  BY <1>1, ServicesInvariance, PTL DEF ServicesSpec, BarredStaysBarred

(* Requests are resolved and cases closed with their evidence on record, a    *)
(* reconciliation marked resolved has no difference left open, and histories  *)
(* tell what happened, however the transactions of the staff interleave       *)
(* (transition, resolveDifference, changeStage and createAgreement).          *)
THEOREM OfficeRecordsAgreeCorrect == ServicesSpec => []OfficeRecordsAgree
<1>1. ServicesIInv => OfficeRecordsAgree
  BY DEF ServicesIInv, OfficeIInv, CasesIInv, ReconciliationIInv, PipelineIInv, OfficeRecordsAgree
<1>. QED
  BY <1>1, ServicesInvariance, PTL

(* A communication claims no outcome its jobs do not have, when any query of  *)
(* a delivery may fail (notification.service.ts syncCommunication).           *)
THEOREM CommunicationStaysTrue == ServicesSpec => []CommunicationIsTrue
<1>1. ServicesIInv => CommunicationIsTrue
  <2>1. OB!RowsIInv => OB!CommunicationIsTrue
    BY DEF OB!RowsIInv, OB!Says, OB!CommunicationIsTrue
  <2>. QED
    BY <2>1, SameCommunication DEF ServicesIInv, OutboxInv, CommunicationIsTrue
<1>. QED
  BY <1>1, ServicesInvariance, PTL
=============================================================================
