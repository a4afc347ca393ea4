------------------------- MODULE BoldPaymentsProofs -------------------------
(***************************************************************************)
(* Proofs about BoldPayments and Refunds, for every number of orders,      *)
(* obligations, requests, refunds and staff.  The inductive invariant IInv *)
(* says, for each order, which combinations of status, attempts and        *)
(* receipts can stand together (RowOK), what each request may still be     *)
(* relied on for (RequestOK), who excludes whom (Exclusive), and that no   *)
(* notice on file contradicts Bold (NoticeOK).  It counts the refunded     *)
(* statuses among the paid ones, so that it also stands while staff refund *)
(* what is being paid; RefundIInv adds what the refunds rest on.           *)
(***************************************************************************)
EXTENDS Refunds, TLAPS

(* The row of an order: st its status, at its attempts, rc its receipts, bo *)
(* what Bold holds for it.                                                  *)
RowOK(st, at, rc, bo) ==
    \/ st \in {"NONE", "PENDING"} /\ at = <<>> /\ rc = 0
    \/ st = "PROCESSING" /\ at \in {<<>>, <<"PENDING">>} /\ rc = 0
    \/ st \in {"APPROVED", "REFUNDED", "PARTIALLY_REFUNDED"} /\ at \in {<<>>, <<"APPROVED">>} /\ rc = 1 /\ bo = "APPROVED"
    \/ st = "REJECTED" /\ at \in {<<>>, <<"REJECTED">>} /\ rc = 0 /\ bo = "REJECTED"

Rows == \A o \in Orders : RowOK(status[o], attempts[o], receipts[o], bold[o])

(* An answer s is still true of an order, though it may be out of date.     *)
Holds(s, bo) == s \in BoldStatuses /\ bo # "NONE" /\ (s # "RUNNING" => bo = s)

RequestOK(r) ==
    /\ req[r].pc = "ORDER_CREATE" =>
          /\ req[r].obligation \in Obligations
          /\ \A p \in Orders : ~Reusable(p, req[r].obligation)
    /\ req[r].pc \in CreatePcs =>
          /\ req[r].order \in Orders
          /\ status[req[r].order] \in {"PENDING", "PROCESSING"}
          /\ attempts[req[r].order] = <<>>
    /\ req[r].pc \in PollPcs =>
          req[r].order \in Orders /\ attempts[req[r].order] # <<>>
    /\ req[r].pc \in {"CREATE_ANSWERED", "POLL_ANSWERED"} =>
          Holds(req[r].answer, bold[req[r].order])

ReqsOK == \A r \in Requests : RequestOK(r)

(* The two row locks are exclusive.                                         *)
Exclusive ==
    \A q, r \in Requests :
        /\ req[q].pc \in CreatePcs /\ req[r].pc \in CreatePcs
             /\ req[q].order = req[r].order => q = r
        /\ req[q].pc = "ORDER_CREATE" /\ req[r].pc = "ORDER_CREATE"
             /\ req[q].obligation = req[r].obligation => q = r

NoticeOK ==
    \A o \in Orders, s \in BoldStatuses :
        event[o][s] # "ABSENT" => status[o] # "NONE" /\ Holds(s, bold[o])

IInv == TypeOK /\ Rows /\ ReqsOK /\ Exclusive /\ NoticeOK /\ OneReusableOrder

-----------------------------------------------------------------------------
(* Operators.                                                               *)

(* A one-element sequence: its latest element is the one it has.            *)
LEMMA Singleton ==
    ASSUME NEW x, NEW y
    PROVE  /\ Len(<<x>>) = 1 /\ <<x>>[Len(<<x>>)] = x /\ <<x>> # << >>
           /\ [<<x>> EXCEPT ![Len(<<x>>)] = y] = <<y>>
           /\ Append(<< >>, x) = <<x>>
OBVIOUS

(* The answer of a create moves an order without attempts to a row that can *)
(* stand.                                                                   *)
LEMMA CreateMove ==
    ASSUME NEW s, NEW bo, Holds(s, bo)
    PROVE  RowOK(OrderAfter("PROCESSING", s), <<AttemptAfter("PENDING", s)>>,
                 ReceiptsAfter(0, "PROCESSING", OrderAfter("PROCESSING", s)), bo)
BY DEF Holds, RowOK, OrderAfter, AttemptAfter, ReceiptsAfter, MappedOrderStatus,
   MappedAttemptStatus, CanTransitionOrder, CanTransitionAttempt, BoldStatuses,
   TerminalOrderStatuses, TerminalAttemptStatuses

(* The attempts of an order once Bold reported s.                           *)
Moved(at, s) == IF at = << >> THEN << >> ELSE <<AttemptAfter(at[Len(at)], s)>>

(* An answer or a notice, however old, moves an existing order to a row     *)
(* that can stand.                                                          *)
LEMMA Move ==
    ASSUME NEW st, NEW at, NEW rc, NEW bo, NEW s,
           RowOK(st, at, rc, bo), st # "NONE", Holds(s, bo)
    PROVE  /\ RowOK(OrderAfter(st, s), Moved(at, s), ReceiptsAfter(rc, st, OrderAfter(st, s)), bo)
           /\ at # << >> => \E x \in AttemptStatuses : at = <<x>>
           /\ OrderAfter(st, s) # "NONE"
           /\ OrderAfter(st, s) = "PENDING" => st = "PENDING"
<1>. USE DEF Holds, RowOK, OrderAfter, AttemptAfter, ReceiptsAfter, MappedOrderStatus,
             MappedAttemptStatus, CanTransitionOrder, CanTransitionAttempt, BoldStatuses,
             TerminalOrderStatuses, TerminalAttemptStatuses
<1>1. CASE at = << >>
  BY <1>1 DEF Moved
<1>2. CASE at # << >>
  <2>1. PICK x \in {"PENDING", "APPROVED", "REJECTED"} : at = <<x>>
    BY <1>2
  <2>2. at[Len(at)] = x /\ [at EXCEPT ![Len(at)] = AttemptAfter(x, s)] = <<AttemptAfter(x, s)>>
    BY <2>1, Singleton
  <2>3. Moved(at, s) = <<AttemptAfter(x, s)>> /\ Moved(at, s) # << >>
    BY <1>2, <2>2, Singleton DEF Moved
  <2>4. /\ x = "PENDING"  => st = "PROCESSING" /\ rc = 0
        /\ x = "APPROVED" => st \in {"APPROVED", "REFUNDED", "PARTIALLY_REFUNDED"} /\ rc = 1 /\ bo = "APPROVED"
        /\ x = "REJECTED" => st = "REJECTED" /\ rc = 0 /\ bo = "REJECTED"
    BY <2>1, <1>2
  <2>. QED
    BY <1>2, <2>1, <2>2, <2>3, <2>4 DEF AttemptStatuses
<1>. QED
  BY <1>1, <1>2

(* The one attempt of an order moves in place.                             *)
LEMMA MovedOne ==
    ASSUME NEW x, NEW s
    PROVE  /\ Moved(<<x>>, s) # << >>
           /\ [<<x>> EXCEPT ![Len(<<x>>)] = AttemptAfter(<<x>>[Len(<<x>>)], s)] = Moved(<<x>>, s)
BY Singleton DEF Moved

(* A row that can stand has the types of its columns.                       *)
LEMMA RowTypes ==
    ASSUME NEW st, NEW at, NEW rc, NEW bo, RowOK(st, at, rc, bo)
    PROVE  st \in OrderStatuses \union {"NONE"} /\ at \in Seq(AttemptStatuses) /\ rc \in Nat
<1>1. at = << >> \/ \E x \in AttemptStatuses : at = <<x>>
  BY DEF RowOK, AttemptStatuses, TerminalAttemptStatuses
<1>2. << >> \in Seq(AttemptStatuses) /\ \A x \in AttemptStatuses : <<x>> \in Seq(AttemptStatuses)
  OBVIOUS
<1>. QED
  <2>1. at \in Seq(AttemptStatuses)
    BY <1>1, <1>2
  <2>. QED
    BY <2>1 DEF RowOK, OrderStatuses, TerminalOrderStatuses

-----------------------------------------------------------------------------
(* The inductive invariant.                                                 *)

(* The invariant holds before the first order exists.                       *)
LEMMA Initially == Init => IInv
<1>. SUFFICES ASSUME Init PROVE IInv
  OBVIOUS
<1>1. TypeOK
  BY DEF Init, TypeOK, Idle
<1>2. Rows /\ ReqsOK /\ Exclusive /\ NoticeOK /\ OneReusableOrder
  BY ConstantsAssumption DEF Init, Rows, RowOK, ReqsOK, RequestOK, Exclusive, NoticeOK,
     OneReusableOrder, Reusable, Idle, CreatePcs, PollPcs
<1>. QED
  BY <1>1, <1>2 DEF IInv

(* Taking the lock of an obligation: nobody else holds it and no order of it*)
(* is reusable.                                                             *)
LEMMA BeginCreateOrderStep ==
    ASSUME IInv, NEW r \in Requests, NEW b \in Obligations, BeginCreateOrder(r, b)
    PROVE  IInv'
<1>. USE DEF IInv, BeginCreateOrder
<1>1. TypeOK'
  BY DEF TypeOK, Idle
<1>2. Rows'
  BY DEF Rows
<1>3. ReqsOK'
  BY DEF ReqsOK, RequestOK, Reusable, CreatePcs, PollPcs
<1>4. Exclusive'
  BY DEF Exclusive, ObligationLocked, CreatePcs
<1>5. NoticeOK'
  BY DEF NoticeOK
<1>6. OneReusableOrder'
  BY DEF OneReusableOrder, Reusable
<1>. QED
  BY <1>1, <1>2, <1>3, <1>4, <1>5, <1>6

(* The new order is the only reusable one of its obligation, because the lock*)
(* kept every other create out since the look-up.                           *)
LEMMA CommitCreateOrderStep ==
    ASSUME IInv, NEW r \in Requests, NEW o \in Orders, CommitCreateOrder(r, o)
    PROVE  IInv'
<1>. USE DEF IInv, CommitCreateOrder
<1>1. TypeOK'
  BY DEF TypeOK, Idle, OrderStatuses
<1>2. Rows'
  BY DEF Rows, Exists, RowOK
<1>3. ReqsOK'
  BY DEF ReqsOK, RequestOK, Exclusive, Reusable, Idle, CreatePcs, PollPcs, TypeOK
<1>4. Exclusive'
  BY DEF Exclusive, Idle, CreatePcs
<1>5. NoticeOK'
  BY DEF NoticeOK
<1>6. OneReusableOrder'
  BY DEF ReqsOK, RequestOK, OneReusableOrder, Reusable, TypeOK
<1>. QED
  BY <1>1, <1>2, <1>3, <1>4, <1>5, <1>6

(* Giving the lock of an obligation back.                                   *)
LEMMA RollbackCreateOrderStep ==
    ASSUME IInv, NEW r \in Requests, RollbackCreateOrder(r)
    PROVE  IInv'
<1>. USE DEF IInv, RollbackCreateOrder
<1>1. TypeOK'
  BY DEF TypeOK, Idle
<1>2. Rows'
  BY DEF Rows
<1>3. ReqsOK'
  BY DEF ReqsOK, RequestOK, Reusable, Idle, CreatePcs, PollPcs
<1>4. Exclusive'
  BY DEF Exclusive, Idle, CreatePcs
<1>5. NoticeOK'
  BY DEF NoticeOK
<1>6. OneReusableOrder'
  BY DEF OneReusableOrder, Reusable
<1>. QED
  BY <1>1, <1>2, <1>3, <1>4, <1>5, <1>6

(* An order that expires stops being reusable and changes nothing else.     *)
LEMMA ExpireStep ==
    ASSUME IInv, NEW o \in Orders, Expire(o)
    PROVE  IInv'
<1>. USE DEF IInv, Expire
<1>1. TypeOK'
  BY DEF TypeOK
<1>2. Rows'
  BY DEF Rows
<1>3. ReqsOK'
  BY DEF ReqsOK, RequestOK, Reusable
<1>4. Exclusive'
  BY DEF Exclusive
<1>5. NoticeOK'
  BY DEF NoticeOK
<1>6. OneReusableOrder'
  BY DEF OneReusableOrder, Reusable
<1>. QED
  BY <1>1, <1>2, <1>3, <1>4, <1>5, <1>6

(* Whoever locks an order to collect it finds it payable and without attempts.*)
LEMMA BeginCreatePaymentStep ==
    ASSUME IInv, NEW r \in Requests, NEW o \in Orders, BeginCreatePayment(r, o)
    PROVE  IInv'
<1>. USE DEF IInv, BeginCreatePayment
<1>1. TypeOK'
  BY DEF TypeOK, Idle, Asking, CreatePcs
<1>2. Rows'
  BY DEF Rows
<1>7. status[o] \in {"PENDING", "PROCESSING"} /\ attempts[o] = << >>
  <2>1. RowOK(status[o], attempts[o], receipts[o], bold[o])
    BY DEF Rows
  <2>2. attempts[o] # <<"PENDING">>
    BY DEF HasPendingAttempt
  <2>. QED
    BY <2>1, <2>2 DEF RowOK, Exists, NonPayableStatuses, TerminalOrderStatuses
<1>3. ReqsOK'
  BY <1>7 DEF ReqsOK, RequestOK, Reusable, Asking, PollPcs
<1>4. Exclusive'
  BY DEF Exclusive, Locked, Asking
<1>5. NoticeOK'
  BY DEF NoticeOK
<1>6. OneReusableOrder'
  BY DEF OneReusableOrder, Reusable
<1>. QED
  BY <1>1, <1>2, <1>3, <1>4, <1>5, <1>6

(* What Bold holds only ever gets more definite, so older answers still hold.*)
LEMMA BoldAnswersCreateStep ==
    ASSUME IInv, NEW r \in Requests, NEW s \in BoldStatuses, BoldAnswersCreate(r, s)
    PROVE  IInv'
<1>. USE DEF IInv, BoldAnswersCreate
<1>7. req' = [req EXCEPT ![r] = [req[r] EXCEPT !.pc = "CREATE_ANSWERED", !.answer = s]]
  OBVIOUS
<1>8. req[r].order \in Orders
  BY DEF ReqsOK, RequestOK, CreatePcs
<1>9. [req[r] EXCEPT !.pc = "CREATE_ANSWERED", !.answer = s]
         \in [pc : {"IDLE", "ORDER_CREATE"} \union CreatePcs \union PollPcs,
              obligation : Obligations \union {NoObligation},
              order : Orders \union {NoOrder},
              answer : BoldStatuses \union {"NONE"}]
  BY <1>8 DEF TypeOK, CreatePcs, PollPcs
<1>1. TypeOK'
  BY <1>7, <1>8, <1>9 DEF TypeOK
<1>2. Rows'
  BY DEF Rows, RowOK
<1>3. ReqsOK'
  BY <1>8 DEF BoldStatuses, ReqsOK, RequestOK, Reusable, PollPcs, Holds, TypeOK
<1>4. Exclusive'
  BY DEF Exclusive, CreatePcs
<1>5. NoticeOK'
  BY DEF NoticeOK, Holds
<1>6. OneReusableOrder'
  BY DEF OneReusableOrder, Reusable
<1>. QED
  BY <1>1, <1>2, <1>3, <1>4, <1>5, <1>6

(* The order that is committed still has no attempts: its lock was held.    *)
LEMMA CommitCreatePaymentStep ==
    ASSUME IInv, NEW r \in Requests, CommitCreatePayment(r)
    PROVE  IInv'
<1>. DEFINE o == req[r].order
            s == req[r].answer
            next == OrderAfter("PROCESSING", s)
<1>. USE DEF IInv
<1>a. /\ o \in Orders /\ status[o] \in {"PENDING", "PROCESSING"} /\ attempts[o] = << >>
      /\ Holds(s, bold[o]) /\ receipts[o] = 0
  BY DEF CommitCreatePayment, ReqsOK, RequestOK, CreatePcs, Rows, RowOK
<1>b. next \in OrderStatuses \ {"NONE", "PENDING"}
  BY <1>a DEF Holds, OrderAfter, MappedOrderStatus, BoldStatuses, TerminalOrderStatuses,
     OrderStatuses
<1>c. /\ status'   = [status EXCEPT ![o] = next]
      /\ attempts' = [attempts EXCEPT ![o] = <<AttemptAfter("PENDING", s)>>]
      /\ receipts' = [receipts EXCEPT ![o] = ReceiptsAfter(0, "PROCESSING", next)]
      /\ req'      = [req EXCEPT ![r] = Idle]
      /\ UNCHANGED <<owner, expired, event, bold>>
  BY <1>a, Singleton DEF CommitCreatePayment
<1>d. RowOK(next, <<AttemptAfter("PENDING", s)>>, ReceiptsAfter(0, "PROCESSING", next), bold[o])
  BY <1>a, CreateMove
<1>. HIDE DEF o, s, next
<1>1. TypeOK'
  BY RowTypes, <1>a, <1>b, <1>c, <1>d DEF TypeOK, Idle
<1>2. Rows'
  BY <1>a, <1>b, <1>c, <1>d DEF Rows, TypeOK
<1>3. ReqsOK'
  <2>. SUFFICES ASSUME NEW q \in Requests PROVE RequestOK(q)'
    BY DEF ReqsOK
  <2>1. CASE q = r
    BY <2>1, <1>c DEF RequestOK, Idle, CreatePcs, PollPcs, TypeOK
  <2>2. CASE q # r
    <3>1. req'[q] = req[q] /\ RequestOK(q)
      BY <2>2, <1>c DEF ReqsOK
    <3>2. req[q].pc \in CreatePcs => req[q].order # o
      BY <2>2 DEF CommitCreatePayment, Exclusive, CreatePcs, o
    <3>3. \A p \in Orders : Reusable(p, req[q].obligation)' => Reusable(p, req[q].obligation)
      BY <3>1, <1>b, <1>c, <1>a DEF Reusable
    <3>4. <<AttemptAfter("PENDING", s)>> # << >>
      BY Singleton
    <3>. QED
      BY <3>1, <3>2, <3>3, <3>4, <1>a, <1>b, <1>c DEF RequestOK
  <2>. QED
    BY <2>1, <2>2
<1>4. Exclusive'
  BY <1>a, <1>b, <1>c, <1>d DEF Exclusive, Idle, CreatePcs
<1>5. NoticeOK'
  BY <1>a, <1>b, <1>c, <1>d DEF NoticeOK
<1>6. OneReusableOrder'
  BY <1>a, <1>b, <1>c, <1>d DEF OneReusableOrder, Reusable
<1>. QED
  BY <1>1, <1>2, <1>3, <1>4, <1>5, <1>6

(* Giving the lock of an order back.                                        *)
LEMMA RollbackCreatePaymentStep ==
    ASSUME IInv, NEW r \in Requests, RollbackCreatePayment(r)
    PROVE  IInv'
<1>. USE DEF IInv, RollbackCreatePayment
<1>1. TypeOK'
  BY DEF TypeOK, Idle
<1>2. Rows'
  BY DEF Rows
<1>3. ReqsOK'
  BY DEF ReqsOK, RequestOK, Reusable, Idle, CreatePcs, PollPcs
<1>4. Exclusive'
  BY DEF Exclusive, Idle, CreatePcs
<1>5. NoticeOK'
  BY DEF NoticeOK
<1>6. OneReusableOrder'
  BY DEF OneReusableOrder, Reusable
<1>. QED
  BY <1>1, <1>2, <1>3, <1>4, <1>5, <1>6

(* A poll starts on an order with an attempt.                               *)
LEMMA BeginPollStep ==
    ASSUME IInv, NEW r \in Requests, NEW o \in Orders, BeginPoll(r, o)
    PROVE  IInv'
<1>. USE DEF IInv, BeginPoll
<1>1. TypeOK'
  BY DEF TypeOK, Idle, Asking, PollPcs
<1>2. Rows'
  BY DEF Rows
<1>3. ReqsOK'
  BY DEF ReqsOK, RequestOK, Reusable, Asking, CreatePcs
<1>4. Exclusive'
  BY DEF Exclusive, Asking, CreatePcs
<1>5. NoticeOK'
  BY DEF NoticeOK
<1>6. OneReusableOrder'
  BY DEF OneReusableOrder, Reusable
<1>. QED
  BY <1>1, <1>2, <1>3, <1>4, <1>5, <1>6

(* The answer of a poll holds when it is given.                             *)
LEMMA BoldAnswersPollStep ==
    ASSUME IInv, NEW r \in Requests, BoldAnswersPoll(r)
    PROVE  IInv'
<1>. USE DEF IInv, BoldAnswersPoll
<1>7. req' = [req EXCEPT ![r] = [req[r] EXCEPT !.pc = "POLL_ANSWERED", !.answer = bold[req[r].order]]]
  OBVIOUS
<1>8. req[r].order \in Orders
  BY DEF ReqsOK, RequestOK, PollPcs
<1>9. [req[r] EXCEPT !.pc = "POLL_ANSWERED", !.answer = bold[req[r].order]]
         \in [pc : {"IDLE", "ORDER_CREATE"} \union CreatePcs \union PollPcs,
              obligation : Obligations \union {NoObligation},
              order : Orders \union {NoOrder},
              answer : BoldStatuses \union {"NONE"}]
  BY <1>8 DEF TypeOK, CreatePcs, PollPcs
<1>1. TypeOK'
  BY <1>7, <1>8, <1>9 DEF TypeOK
<1>2. Rows'
  BY DEF Rows
<1>3. ReqsOK'
  BY DEF ReqsOK, RequestOK, Reusable, CreatePcs, Holds, TypeOK
<1>4. Exclusive'
  BY DEF Exclusive, CreatePcs
<1>5. NoticeOK'
  BY DEF NoticeOK
<1>6. OneReusableOrder'
  BY DEF OneReusableOrder, Reusable
<1>. QED
  BY <1>1, <1>2, <1>3, <1>4, <1>5, <1>6

(* An old answer moves an order to a row that can stand, and no order that is*)
(* locked moves.                                                            *)
LEMMA CommitPollStep ==
    ASSUME IInv, NEW r \in Requests, CommitPoll(r)
    PROVE  IInv'
<1>. DEFINE o == req[r].order
            s == req[r].answer
            next == OrderAfter(status[o], s)
            at == Moved(attempts[o], s)
            rc == ReceiptsAfter(receipts[o], status[o], next)
<1>. USE DEF IInv
<1>a. /\ o \in Orders /\ attempts[o] # << >> /\ status[o] # "NONE" /\ ~Locked(o)
      /\ Holds(s, bold[o]) /\ RowOK(status[o], attempts[o], receipts[o], bold[o])
  BY DEF CommitPoll, ReqsOK, RequestOK, PollPcs, Rows, RowOK
<1>b. /\ RowOK(next, at, rc, bold[o])
      /\ next # "NONE" /\ (next = "PENDING" => status[o] = "PENDING")
  BY <1>a, Move
<1>d. /\ at # << >>
      /\ [attempts[o] EXCEPT ![Len(attempts[o])] = AttemptAfter(attempts[o][Len(attempts[o])], s)] = at
  <2>1. PICK x \in AttemptStatuses : attempts[o] = <<x>>
    BY <1>a, Move
  <2>. QED
    BY <2>1, MovedOne
<1>c. /\ status'   = [status EXCEPT ![o] = next]
      /\ attempts' = [attempts EXCEPT ![o] = at]
      /\ receipts' = [receipts EXCEPT ![o] = rc]
      /\ req'      = [req EXCEPT ![r] = Idle]
      /\ UNCHANGED <<owner, expired, event, bold>>
  BY <1>d DEF CommitPoll, WithLatestAttempt, LatestAttempt
<1>. HIDE DEF o, s, next, rc, at
<1>1. TypeOK'
  BY RowTypes, <1>a, <1>b, <1>c, <1>d DEF TypeOK, Idle
<1>2. Rows'
  BY <1>a, <1>b, <1>c, <1>d DEF Rows, TypeOK
<1>3. ReqsOK'
  BY <1>a, <1>b, <1>c, <1>d DEF ReqsOK, RequestOK, Reusable, Idle, CreatePcs, PollPcs
<1>4. Exclusive'
  BY <1>a, <1>b, <1>c, <1>d DEF Exclusive, Idle, CreatePcs
<1>5. NoticeOK'
  BY <1>a, <1>b, <1>c, <1>d DEF NoticeOK
<1>6. OneReusableOrder'
  BY <1>a, <1>b, <1>c, <1>d DEF OneReusableOrder, Reusable
<1>. QED
  BY <1>1, <1>2, <1>3, <1>4, <1>5, <1>6

(* A poll that is dropped leaves no trace.                                  *)
LEMMA AbandonPollStep ==
    ASSUME IInv, NEW r \in Requests, AbandonPoll(r)
    PROVE  IInv'
<1>. USE DEF IInv, AbandonPoll
<1>1. TypeOK'
  BY DEF TypeOK, Idle
<1>2. Rows'
  BY DEF Rows
<1>3. ReqsOK'
  BY DEF ReqsOK, RequestOK, Reusable, Idle, CreatePcs, PollPcs
<1>4. Exclusive'
  BY DEF Exclusive, Idle, CreatePcs
<1>5. NoticeOK'
  BY DEF NoticeOK
<1>6. OneReusableOrder'
  BY DEF OneReusableOrder, Reusable
<1>. QED
  BY <1>1, <1>2, <1>3, <1>4, <1>5, <1>6

(* A notice on file holds when it is stored.                                *)
LEMMA ReceiveWebhookStep ==
    ASSUME IInv, NEW o \in Orders, NEW s \in BoldStatuses, ReceiveWebhook(o, s)
    PROVE  IInv'
<1>. USE DEF IInv, ReceiveWebhook
<1>1. TypeOK'
  BY DEF TypeOK
<1>2. Rows'
  BY DEF Rows
<1>3. ReqsOK'
  BY DEF ReqsOK, RequestOK, Reusable
<1>4. Exclusive'
  BY DEF Exclusive
<1>5. NoticeOK'
  BY DEF Announceable, NoticeOK, Exists, Holds
<1>6. OneReusableOrder'
  BY DEF OneReusableOrder, Reusable
<1>. QED
  BY <1>1, <1>2, <1>3, <1>4, <1>5, <1>6

(* A blocked notice moves no row.                                           *)
LEMMA ProcessUnverifiedStep ==
    ASSUME IInv, NEW o \in Orders, NEW s \in BoldStatuses, ProcessUnverified(o, s)
    PROVE  IInv'
<1>. USE DEF IInv, ProcessUnverified
<1>1. TypeOK'
  BY DEF TypeOK
<1>2. Rows'
  BY DEF Rows
<1>3. ReqsOK'
  BY DEF ReqsOK, RequestOK, Reusable
<1>4. Exclusive'
  BY DEF Exclusive
<1>5. NoticeOK'
  BY DEF NoticeOK
<1>6. OneReusableOrder'
  BY DEF OneReusableOrder, Reusable
<1>. QED
  BY <1>1, <1>2, <1>3, <1>4, <1>5, <1>6

(* A notice moves an order like a poll does, with or without attempts.      *)
LEMMA ApplyDeliveryStep ==
    ASSUME IInv, NEW o \in Orders, NEW s \in BoldStatuses, ApplyDelivery(o, s)
    PROVE  IInv'
<1>. DEFINE next == OrderAfter(status[o], s)
            at == Moved(attempts[o], s)
            rc == ReceiptsAfter(receipts[o], status[o], next)
<1>. USE DEF IInv
<1>a. /\ status[o] # "NONE" /\ ~Locked(o) /\ event[o][s] = "RECEIVED"
      /\ Holds(s, bold[o]) /\ RowOK(status[o], attempts[o], receipts[o], bold[o])
  BY DEF ApplyDelivery, NoticeOK, Rows
<1>b. /\ RowOK(next, at, rc, bold[o])
      /\ next # "NONE" /\ (next = "PENDING" => status[o] = "PENDING")
  BY <1>a, Move
<1>d. attempts[o] # << >> =>
        /\ at # << >>
        /\ [attempts[o] EXCEPT ![Len(attempts[o])] = AttemptAfter(attempts[o][Len(attempts[o])], s)] = at
  <2>. SUFFICES ASSUME attempts[o] # << >>
                PROVE  /\ at # << >>
                       /\ [attempts[o] EXCEPT ![Len(attempts[o])] = AttemptAfter(attempts[o][Len(attempts[o])], s)] = at
    OBVIOUS
  <2>1. PICK x \in AttemptStatuses : attempts[o] = <<x>>
    BY <1>a, Move
  <2>. QED
    BY <2>1, MovedOne
<1>c. /\ status'   = [status EXCEPT ![o] = next]
      /\ attempts' = [attempts EXCEPT ![o] = at]
      /\ receipts' = [receipts EXCEPT ![o] = rc]
      /\ event'    = [event EXCEPT ![o][s] = "PROCESSED"]
      /\ UNCHANGED <<owner, expired, req, bold>>
  <2>1. CASE attempts[o] = << >>
    <3>1. at = attempts[o]
      BY <2>1 DEF Moved
    <3>. QED
      BY <2>1, <3>1 DEF ApplyDelivery, TypeOK
  <2>2. CASE attempts[o] # << >>
    BY <2>2, <1>d DEF ApplyDelivery, WithLatestAttempt, LatestAttempt
  <2>. QED
    BY <2>1, <2>2
<1>. HIDE DEF next, rc, at
<1>1. TypeOK'
  BY RowTypes, <1>a, <1>b, <1>c, <1>d DEF TypeOK
<1>2. Rows'
  BY <1>a, <1>b, <1>c, <1>d DEF Rows, TypeOK
<1>3. ReqsOK'
  BY <1>a, <1>b, <1>c, <1>d DEF ReqsOK, RequestOK, Reusable, Locked
<1>4. Exclusive'
  BY <1>a, <1>b, <1>c, <1>d DEF Exclusive
<1>5. NoticeOK'
  BY <1>a, <1>b, <1>c, <1>d DEF NoticeOK
<1>6. OneReusableOrder'
  BY <1>a, <1>b, <1>c, <1>d DEF OneReusableOrder, Reusable
<1>. QED
  BY <1>1, <1>2, <1>3, <1>4, <1>5, <1>6

(* A lost delivery moves no row.                                            *)
LEMMA LoseDeliveryStep ==
    ASSUME IInv, NEW o \in Orders, NEW s \in BoldStatuses, LoseDelivery(o, s)
    PROVE  IInv'
<1>. USE DEF IInv, LoseDelivery
<1>1. TypeOK'
  BY DEF TypeOK
<1>2. Rows'
  BY DEF Rows
<1>3. ReqsOK'
  BY DEF ReqsOK, RequestOK, Reusable
<1>4. Exclusive'
  BY DEF Exclusive
<1>5. NoticeOK'
  BY DEF NoticeOK
<1>6. OneReusableOrder'
  BY DEF OneReusableOrder, Reusable
<1>. QED
  BY <1>1, <1>2, <1>3, <1>4, <1>5, <1>6

(* Bold settles a running payment: what was answered before still holds.    *)
LEMMA BoldSettlesStep ==
    ASSUME IInv, NEW o \in Orders, NEW s \in BoldStatuses, BoldSettles(o, s)
    PROVE  IInv'
<1>. USE DEF IInv, BoldSettles
<1>1. TypeOK'
  BY DEF TypeOK
<1>2. Rows'
  BY DEF Rows, RowOK
<1>3. ReqsOK'
  BY DEF ReqsOK, RequestOK, Reusable, Holds
<1>4. Exclusive'
  BY DEF Exclusive
<1>5. NoticeOK'
  BY DEF NoticeOK, Holds
<1>6. OneReusableOrder'
  BY DEF OneReusableOrder, Reusable
<1>. QED
  BY <1>1, <1>2, <1>3, <1>4, <1>5, <1>6

(* A stuttering step changes nothing the invariant speaks about.            *)
LEMMA StutterStep ==
    ASSUME IInv, UNCHANGED vars
    PROVE  IInv'
BY DEF IInv, vars, TypeOK, Rows, ReqsOK, RequestOK, Exclusive, NoticeOK,
   OneReusableOrder, Reusable

(* IInv is inductive: every action of every handler preserves it.           *)
THEOREM Inductive == IInv /\ [Next]_vars => IInv'
<1>. SUFFICES ASSUME IInv, [Next]_vars PROVE IInv'
  OBVIOUS
<1>1. ASSUME NEW r \in Requests, OrderStep(r) PROVE IInv'
  BY <1>1, BeginCreateOrderStep, CommitCreateOrderStep, RollbackCreateOrderStep DEF
     OrderStep
<1>2. ASSUME NEW r \in Requests, CreateStep(r) PROVE IInv'
  BY <1>2, BeginCreatePaymentStep, BoldAnswersCreateStep, CommitCreatePaymentStep,
     RollbackCreatePaymentStep DEF CreateStep
<1>3. ASSUME NEW r \in Requests, PollStep(r) PROVE IInv'
  BY <1>3, BeginPollStep, BoldAnswersPollStep, CommitPollStep, AbandonPollStep DEF
     PollStep
<1>4. ASSUME NEW o \in Orders, NEW s \in BoldStatuses, WebhookStep(o, s) PROVE IInv'
  BY <1>4, ReceiveWebhookStep, ProcessUnverifiedStep, ApplyDeliveryStep,
     LoseDeliveryStep DEF WebhookStep, ProcessDelivery
<1>. QED
  BY <1>1, <1>2, <1>3, <1>4, ExpireStep, BoldSettlesStep, StutterStep DEF Next

(* IInv holds in every reachable state.                                     *)
THEOREM Invariance == Spec => []IInv
BY Initially, Inductive, PTL DEF Spec

-----------------------------------------------------------------------------
(* What the invariant gives.                                                *)

LEMMA AtMostOne ==
    ASSUME NEW at \in {<< >>, <<"PENDING">>, <<"APPROVED">>, <<"REJECTED">>}
    PROVE  Len(at) <= 1
<1>1. Len(<< >>) = 0
  OBVIOUS
<1>. QED
  BY <1>1, Singleton

LEMMA Consequences ==
    ASSUME IInv
    PROVE  LedgerAgrees /\ OutcomeIsBolds /\ NoSecondCollection /\ OneReusableOrder
<1>. USE DEF IInv
<1>1. TypeOK /\ OneReusableOrder
  OBVIOUS
<1>2. ReceiptIffPaid
  BY DEF Rows, RowOK, ReceiptIffPaid, PaidStatuses
<1>3. SingleAttempt
  <2>1. \A o \in Orders : Len(attempts[o]) <= 1
    BY AtMostOne DEF Rows, RowOK
  <2>. QED
    BY <2>1 DEF SingleAttempt
<1>4. AttemptAgreesWithOrder
  <2>1. ASSUME NEW st, NEW at, NEW rc, NEW bo, RowOK(st, at, rc, bo), at # << >>
        PROVE  \/ at[Len(at)] = "PENDING"  /\ st = "PROCESSING"
               \/ at[Len(at)] = "APPROVED" /\ st \in PaidStatuses
               \/ at[Len(at)] = "REJECTED" /\ st = "REJECTED"
    BY <2>1, Singleton DEF RowOK, PaidStatuses
  <2>. QED
    BY <2>1 DEF Rows, AttemptAgreesWithOrder, LatestAttempt
<1>5. OutcomeIsBolds
  BY DEF Rows, RowOK, OutcomeIsBolds, PaidStatuses
<1>6. NoSecondCollection
  BY DEF ReqsOK, RequestOK, NoSecondCollection
<1>. QED
  BY <1>1, <1>2, <1>3, <1>4, <1>5, <1>6 DEF LedgerAgrees

(* The status, the attempt and the receipt of an order always agree, and an *)
(* order never has two attempts nor two receipts.                           *)
THEOREM LedgerCorrect == Spec => []LedgerAgrees
BY Consequences, Invariance, PTL

(* Orders are approved or rejected only as Bold did.                        *)
THEOREM OutcomeCorrect == Spec => []OutcomeIsBolds
BY Consequences, Invariance, PTL

(* Nobody asks Bold to collect an order that has an attempt on record.      *)
THEOREM CollectedOnce == Spec => []NoSecondCollection
BY Consequences, Invariance, PTL

(* An obligation never has two orders that can be handed out as payable.    *)
THEOREM ReusableOnce == Spec => []OneReusableOrder
BY Consequences, Invariance, PTL

(* What the payments leave of the status of an order: a terminal one stays, *)
(* and nothing is refunded but by a refund.                                 *)
Final ==
    \A o \in Orders :
        /\ status[o] \in TerminalOrderStatuses => status'[o] = status[o]
        /\ status'[o] \in RefundedStatuses => status'[o] = status[o]

LEMMA FinalStep ==
    ASSUME IInv, [Next]_vars
    PROVE  Final
<1>1. ASSUME NEW st, NEW s \in BoldStatuses
      PROVE  /\ st \in TerminalOrderStatuses => OrderAfter(st, s) = st
             /\ OrderAfter(st, s) \in RefundedStatuses => OrderAfter(st, s) = st
  BY <1>1 DEF OrderAfter, CanTransitionOrder, MappedOrderStatus, BoldStatuses, RefundedStatuses
<1>2. ASSUME NEW r \in Requests, OrderStep(r) PROVE Final
  BY <1>2 DEF Final, OrderStep, BeginCreateOrder, CommitCreateOrder, RollbackCreateOrder,
     Exists, TerminalOrderStatuses, RefundedStatuses, IInv, TypeOK
<1>3. ASSUME NEW r \in Requests, CreateStep(r) PROVE Final
  <2>1. CASE CommitCreatePayment(r)
    <3>1. /\ status[req[r].order] \notin TerminalOrderStatuses
          /\ req[r].answer \in BoldStatuses
      BY <1>3, <2>1 DEF CommitCreatePayment, IInv, ReqsOK, RequestOK, CreatePcs, Holds,
         TerminalOrderStatuses
    <3>2. OrderAfter("PROCESSING", req[r].answer) \notin RefundedStatuses
      BY <3>1 DEF OrderAfter, MappedOrderStatus, BoldStatuses, RefundedStatuses
    <3>3. status' = [status EXCEPT ![req[r].order] = OrderAfter("PROCESSING", req[r].answer)]
      BY <2>1 DEF CommitCreatePayment
    <3>. QED
      BY <3>1, <3>2, <3>3 DEF Final, IInv, TypeOK
  <2>. QED
    BY <1>3, <2>1 DEF Final, CreateStep, BeginCreatePayment, BoldAnswersCreate, RollbackCreatePayment
<1>4. ASSUME NEW r \in Requests, PollStep(r) PROVE Final
  <2>1. CASE CommitPoll(r)
    <3>1. status' = [status EXCEPT ![req[r].order] = OrderAfter(status[req[r].order], req[r].answer)]
      BY <2>1 DEF CommitPoll
    <3>2. req[r].answer \in BoldStatuses
      BY <1>4, <2>1 DEF CommitPoll, IInv, ReqsOK, RequestOK, Holds
    <3>. QED
      BY <1>1, <3>1, <3>2 DEF Final, IInv, TypeOK
  <2>. QED
    BY <1>4, <2>1 DEF Final, PollStep, BeginPoll, BoldAnswersPoll, AbandonPoll
<1>5. ASSUME NEW o \in Orders, NEW s \in BoldStatuses, WebhookStep(o, s) PROVE Final
  <2>1. CASE ApplyDelivery(o, s)
    <3>1. status' = [status EXCEPT ![o] = OrderAfter(status[o], s)]
      BY <2>1 DEF ApplyDelivery
    <3>. QED
      BY <1>1, <1>5, <3>1 DEF Final, IInv, TypeOK
  <2>. QED
    BY <1>5, <2>1 DEF Final, WebhookStep, ProcessDelivery, ReceiveWebhook, ProcessUnverified,
       LoseDelivery
<1>. QED
  BY <1>2, <1>3, <1>4, <1>5 DEF Final, Next, Expire, BoldSettles, vars

(* Whatever is answered or announced, an order in a terminal status keeps   *)
(* it, through every step of every handler.                                 *)
THEOREM TerminalFinal == Spec => TerminalOrderIsFinal
<1>1. IInv /\ [Next]_vars =>
         [\A o \in Orders :
            status[o] \in TerminalOrderStatuses =>
                \/ status'[o] = status[o]
                \/ status[o] \in PaidStatuses
                   /\ status'[o] \in {"REFUNDED", "PARTIALLY_REFUNDED"}]_vars
  BY FinalStep DEF Final
<1>. QED
  BY <1>1, Invariance, PTL DEF Spec, TerminalOrderIsFinal

-----------------------------------------------------------------------------
(* Production: notices move nothing.                                        *)

PaidByAnswer ==
    ProductionPayments => \A o \in Orders : status[o] \in PaidStatuses => attempts[o] # << >>

(* With PRODUCTION_PAYMENTS_ENABLED an order is approved only by a commit   *)
(* that records an attempt or finds one.                                    *)
LEMMA PaidByAnswerStep ==
    ASSUME IInv, PaidByAnswer, [Next]_vars
    PROVE  PaidByAnswer'
<1>. USE DEF PaidByAnswer, PaidStatuses
<1>. SUFFICES ASSUME ProductionPayments PROVE PaidByAnswer'
  OBVIOUS
<1>1. ASSUME NEW r \in Requests, OrderStep(r) PROVE PaidByAnswer'
  BY <1>1 DEF OrderStep, BeginCreateOrder, CommitCreateOrder, RollbackCreateOrder, IInv, TypeOK
<1>2. ASSUME NEW r \in Requests, CreateStep(r) PROVE PaidByAnswer'
  <2>1. CASE CommitCreatePayment(r)
    <3>. DEFINE o == req[r].order
                x == AttemptAfter("PENDING", req[r].answer)
    <3>1. o \in Orders /\ attempts[o] = << >>
      BY <1>2, <2>1 DEF CommitCreatePayment, IInv, ReqsOK, RequestOK, CreatePcs
    <3>2. attempts' = [attempts EXCEPT ![o] = <<x>>] /\ <<x>> # << >>
      BY <2>1, <3>1, Singleton DEF CommitCreatePayment
    <3>3. \A p \in Orders \ {o} : status'[p] = status[p]
      BY <2>1 DEF CommitCreatePayment
    <3>. QED
      BY <3>1, <3>2, <3>3 DEF IInv, TypeOK
  <2>. QED
    BY <1>2, <2>1 DEF CreateStep, BeginCreatePayment, BoldAnswersCreate, RollbackCreatePayment
<1>3. ASSUME NEW r \in Requests, PollStep(r) PROVE PaidByAnswer'
  <2>1. CASE CommitPoll(r)
    <3>. DEFINE o == req[r].order
                x == WithLatestAttempt(o, AttemptAfter(LatestAttempt(o), req[r].answer))
    <3>1. o \in Orders /\ attempts[o] # << >> /\ RowOK(status[o], attempts[o], receipts[o], bold[o])
      BY <1>3, <2>1 DEF CommitPoll, IInv, ReqsOK, RequestOK, PollPcs, Rows
    <3>2. PICK y : attempts[o] = <<y>>
      BY <3>1 DEF RowOK
    <3>3. x # << >>
      BY <3>2, Singleton DEF WithLatestAttempt
    <3>4. attempts' = [attempts EXCEPT ![o] = x] /\ \A p \in Orders \ {o} : status'[p] = status[p]
      BY <2>1 DEF CommitPoll
    <3>. QED
      BY <3>1, <3>3, <3>4
  <2>. QED
    BY <1>3, <2>1 DEF PollStep, BeginPoll, BoldAnswersPoll, AbandonPoll
<1>4. ASSUME NEW o \in Orders, NEW s \in BoldStatuses, WebhookStep(o, s) PROVE PaidByAnswer'
  BY <1>4 DEF WebhookStep, ReceiveWebhook, ProcessDelivery, ProcessUnverified,
     LoseDelivery, UnverifiedBlocked
<1>. QED
  BY <1>1, <1>2, <1>3, <1>4 DEF Next, Expire, BoldSettles, vars

LEMMA PaidRestsOnAttempt ==
    ASSUME IInv, PaidByAnswer, ProductionPayments
    PROVE  PaidHasAttempt
<1>1. ASSUME NEW st, NEW at, NEW rc, NEW bo, RowOK(st, at, rc, bo), st \in PaidStatuses, at # << >>
      PROVE  at[Len(at)] = "APPROVED"
  BY <1>1, Singleton DEF RowOK, PaidStatuses
<1>. QED
  BY <1>1 DEF IInv, Rows, PaidByAnswer, PaidHasAttempt, LatestAttempt

(* In production every paid order has the approved attempt a refund needs.  *)
THEOREM ProductionPaidHasAttempt ==
    ASSUME ProductionPayments
    PROVE  Spec => []PaidHasAttempt
<1>1. Init => PaidByAnswer
  BY DEF Init, PaidByAnswer, PaidStatuses
<1>2. Spec => []PaidByAnswer
  BY <1>1, PaidByAnswerStep, Invariance, PTL DEF Spec
<1>. QED
  BY <1>2, PaidRestsOnAttempt, Invariance, PTL

-----------------------------------------------------------------------------
(* Refunds.                                                                 *)

(* What a staff request may rely on after its read: a refund is written for *)
(* an order that is paid and stays so, and a refund once read stays there.  *)
StaffOK(u) ==
    /\ staff[u].pc = "REQUEST" =>
          /\ staff[u].order \in Orders /\ status[staff[u].order] \in PaidStatuses
          /\ staff[u].amount \in Amounts
    /\ staff[u].pc \notin {"IDLE", "REQUEST"} =>
          staff[u].refund \in RefundIds /\ refund[staff[u].refund] # NoRow

RefundRowOK(f) ==
    refund[f] # NoRow => refund[f].order \in Orders /\ refund[f].status \in RefundStatuses

RefundIInv ==
    /\ IInv /\ PaidByAnswer /\ RefundTypeOK /\ RefundBacksStatus
    /\ \A u \in Staff : StaffOK(u)
    /\ \A f \in RefundIds : RefundRowOK(f)

(* The type of a staff request.                                             *)
StaffStates ==
    [pc : {"IDLE", "REQUEST", "EVIDENCE", "REFUND_CALL", "REFUND_TAKEN", "REFUND_FAILED"},
     order : Orders \union {NoOrder}, refund : RefundIds \union {NoRefund},
     amount : 0 .. OrderAmount]

LEMMA IdleIsTyped ==
    ASSUME RefundAssumption
    PROVE  StaffIdle \in StaffStates
<1>1. 0 \in 0 .. OrderAmount
  BY DEF RefundAssumption
<1>. QED
  BY <1>1 DEF StaffIdle, StaffStates

(* A staff request that has begun.                                          *)
LEMMA BegunRequest ==
    ASSUME RefundAssumption, NEW o \in Orders, NEW a \in 0 .. OrderAmount
    PROVE  /\ [StaffIdle EXCEPT !.pc = "REQUEST", !.order = o, !.amount = a] \in StaffStates
           /\ [StaffIdle EXCEPT !.pc = "REQUEST", !.order = o, !.amount = a].pc = "REQUEST"
           /\ [StaffIdle EXCEPT !.pc = "REQUEST", !.order = o, !.amount = a].order = o
           /\ [StaffIdle EXCEPT !.pc = "REQUEST", !.order = o, !.amount = a].amount = a
<1>1. StaffIdle \in StaffStates
  BY IdleIsTyped
<1>. QED
  BY <1>1 DEF StaffStates

LEMMA BegunOnRefund ==
    ASSUME RefundAssumption, NEW f \in RefundIds, NEW p \in {"EVIDENCE", "REFUND_CALL"}
    PROVE  /\ [StaffIdle EXCEPT !.pc = p, !.refund = f] \in StaffStates
           /\ [StaffIdle EXCEPT !.pc = p, !.refund = f].pc = p
           /\ [StaffIdle EXCEPT !.pc = p, !.refund = f].refund = f
<1>1. StaffIdle \in StaffStates
  BY IdleIsTyped
<1>. QED
  BY <1>1 DEF StaffStates

LEMMA RefundInitially ==
    ASSUME RefundInit, RefundAssumption
    PROVE  RefundIInv
<1>1. IInv /\ PaidByAnswer
  BY Initially DEF RefundInit, Init, PaidByAnswer, PaidStatuses
<1>2. RefundTypeOK
  BY DEF RefundInit, RefundTypeOK, RefundAssumption, NoRow, StaffIdle
<1>3. RefundBacksStatus
  BY DEF RefundInit, Init, RefundBacksStatus, NoRow, RefundedStatuses
<1>4. \A u \in Staff : StaffOK(u)
  BY DEF RefundInit, StaffOK, StaffIdle
<1>5. \A f \in RefundIds : RefundRowOK(f)
  BY DEF RefundInit, RefundRowOK
<1>. QED
  BY <1>1, <1>2, <1>3, <1>4, <1>5 DEF RefundIInv

(* What the payments do meanwhile: a paid order stays paid, a refunded one  *)
(* stays as it is, and nothing becomes refunded.                            *)
LEMMA PaymentsBesideRefunds ==
    ASSUME RefundIInv, [Next]_vars, UNCHANGED refundVars
    PROVE  RefundIInv'
<1>. USE DEF RefundIInv
<1>1. IInv' /\ PaidByAnswer'
  BY Inductive, PaidByAnswerStep
<1>2. /\ UNCHANGED <<refund, staff, taken>>
      /\ \A o \in Orders : status[o] \in PaidStatuses => status'[o] = status[o]
      /\ \A o \in Orders : status'[o] \in RefundedStatuses => status'[o] = status[o]
  BY FinalStep DEF Final, refundVars, PaidStatuses, TerminalOrderStatuses
<1>3. RefundTypeOK'
  BY <1>2 DEF RefundTypeOK
<1>4. RefundBacksStatus'
  <2>1. ASSUME NEW f \in RefundIds
        PROVE  /\ refund'[f] # NoRow => status'[refund'[f].order] \in PaidStatuses
               /\ refund'[f].status = "APPROVED" => status'[refund'[f].order] \in RefundedStatuses
    <3>1. CASE refund[f] = NoRow
      BY <1>2, <3>1 DEF NoRow
    <3>2. CASE refund[f] # NoRow
      BY <1>2, <3>2 DEF RefundRowOK, RefundBacksStatus
    <3>. QED
      BY <3>1, <3>2
  <2>2. ASSUME NEW o \in Orders, status'[o] \in RefundedStatuses
        PROVE  \E f \in RefundIds : /\ refund[f].order = o /\ refund[f].status = "APPROVED"
                                    /\ refund[f].amount = OrderAmount <=> status[o] = "REFUNDED"
    BY <1>2, <2>2 DEF RefundBacksStatus, OfOrder
  <2>. QED
    BY <1>2, <2>1, <2>2 DEF RefundBacksStatus, OfOrder
<1>5. ASSUME NEW u \in Staff PROVE StaffOK(u)'
  BY <1>2 DEF StaffOK
<1>6. ASSUME NEW f \in RefundIds PROVE RefundRowOK(f)'
  BY <1>2 DEF RefundRowOK
<1>. QED
  BY <1>1, <1>3, <1>4, <1>5, <1>6

(* A staff request moves and no row changes.                                *)
LEMMA StaffMoves ==
    ASSUME RefundIInv, NEW u \in Staff, UNCHANGED <<vars, refund>>,
           NEW moved, staff' = [staff EXCEPT ![u] = moved],
           RefundTypeOK', StaffOK(u)'
    PROVE  RefundIInv'
<1>. USE DEF RefundIInv
<1>1. IInv'
  BY StutterStep
<1>2. PaidByAnswer' /\ RefundBacksStatus' /\ \A f \in RefundIds : RefundRowOK(f)'
  BY DEF vars, PaidByAnswer, RefundBacksStatus, OfOrder, RefundRowOK
<1>3. ASSUME NEW v \in Staff PROVE StaffOK(v)'
  BY DEF vars, StaffOK, RefundTypeOK
<1>. QED
  BY <1>1, <1>2, <1>3

(* Reading an approved order, or a pending refund.                          *)
LEMMA BeginsStep ==
    ASSUME RefundIInv, RefundAssumption, NEW u \in Staff,
           \/ \E o \in Orders, a \in Amounts : BeginRequestRefund(u, o, a)
           \/ \E f \in RefundIds : BeginUploadEvidence(u, f) \/ BeginApproveRefund(u, f)
    PROVE  RefundIInv'
<1>. USE DEF RefundIInv
<1>1. ASSUME NEW o \in Orders, NEW a \in Amounts, BeginRequestRefund(u, o, a) PROVE RefundIInv'
  <2>. DEFINE moved == [StaffIdle EXCEPT !.pc = "REQUEST", !.order = o, !.amount = a]
  <2>1. staff' = [staff EXCEPT ![u] = moved] /\ UNCHANGED <<vars, refund, taken>> /\ status[o] = "APPROVED"
    BY <1>1 DEF BeginRequestRefund, Refundable
  <2>6. a \in 0 .. OrderAmount
    BY DEF RefundAssumption, Amounts
  <2>2. /\ moved.pc = "REQUEST" /\ moved.order = o /\ moved.amount = a
        /\ moved \in StaffStates
    BY <2>6, BegunRequest
  <2>. HIDE DEF moved
  <2>3. RefundTypeOK'
    BY <2>1, <2>2 DEF RefundTypeOK, StaffStates
  <2>4. StaffOK(u)'
    BY <2>1, <2>2 DEF StaffOK, RefundTypeOK, PaidStatuses, vars
  <2>. QED
    BY <2>1, <2>3, <2>4, StaffMoves
<1>2. ASSUME NEW f \in RefundIds, BeginUploadEvidence(u, f) \/ BeginApproveRefund(u, f)
      PROVE  RefundIInv'
  <2>1. PICK p \in {"EVIDENCE", "REFUND_CALL"} :
           staff' = [staff EXCEPT ![u] = [StaffIdle EXCEPT !.pc = p, !.refund = f]]
    BY <1>2 DEF BeginUploadEvidence, BeginApproveRefund
  <2>. DEFINE moved == [StaffIdle EXCEPT !.pc = p, !.refund = f]
  <2>2. UNCHANGED <<vars, refund, taken>> /\ refund[f].status = "PENDING_APPROVAL"
    BY <1>2 DEF BeginUploadEvidence, BeginApproveRefund
  <2>7. refund[f] # NoRow
    BY <2>2 DEF NoRow
  <2>3. moved.pc = p /\ moved.refund = f /\ moved \in StaffStates
    BY BegunOnRefund
  <2>4. staff' = [staff EXCEPT ![u] = moved]
    BY <2>1
  <2>. HIDE DEF moved
  <2>5. RefundTypeOK'
    BY <2>2, <2>3, <2>4 DEF RefundTypeOK, StaffStates
  <2>6. StaffOK(u)'
    BY <2>2, <2>3, <2>4, <2>7 DEF StaffOK, RefundTypeOK
  <2>. QED
    BY <2>2, <2>4, <2>5, <2>6, StaffMoves
<1>. QED
  BY <1>1, <1>2

(* Bold answers, or the request ends without a trace.                       *)
LEMMA TracelessStep ==
    ASSUME RefundIInv, RefundAssumption, NEW u \in Staff,
           BoldTakesRefund(u) \/ BoldRefusesRefund(u) \/ RethrowRefusal(u) \/ RollbackStaff(u)
    PROVE  RefundIInv'
<1>. USE DEF RefundIInv
<1>1. CASE BoldTakesRefund(u) \/ BoldRefusesRefund(u)
  <2>1. PICK p \in {"REFUND_TAKEN", "REFUND_FAILED"} : staff' = [staff EXCEPT ![u].pc = p]
    BY <1>1 DEF BoldTakesRefund, BoldRefusesRefund
  <2>. DEFINE moved == [staff[u] EXCEPT !.pc = p]
  <2>2. staff' = [staff EXCEPT ![u] = moved] /\ UNCHANGED <<vars, refund>> /\ staff[u].pc = "REFUND_CALL"
    BY <1>1, <2>1 DEF BoldTakesRefund, BoldRefusesRefund
  <2>3. /\ staff'[u] = moved /\ moved.pc = p /\ moved.refund = staff[u].refund
        /\ moved \in StaffStates
    BY <2>2 DEF RefundTypeOK, StaffStates
  <2>4. taken' \in [RefundIds -> 0 .. MaxTaken]
    BY <1>1, <2>2 DEF BoldTakesRefund, BoldRefusesRefund, RefundTypeOK, StaffOK, RefundAssumption
  <2>5. RefundTypeOK'
    <3>. HIDE DEF moved
    <3>. QED
      BY <2>2, <2>3, <2>4 DEF RefundTypeOK, StaffStates
  <2>. HIDE DEF moved
  <2>6. StaffOK(u)'
    BY <2>2, <2>3 DEF StaffOK
  <2>. QED
    BY <2>2, <2>5, <2>6, StaffMoves
<1>2. CASE RethrowRefusal(u) \/ RollbackStaff(u)
  <2>1. staff' = [staff EXCEPT ![u] = StaffIdle] /\ UNCHANGED <<vars, refund, taken>>
    BY <1>2 DEF RethrowRefusal, RollbackStaff
  <2>2. RefundTypeOK'
    BY <2>1 DEF RefundTypeOK, StaffIdle, RefundAssumption
  <2>3. StaffOK(u)'
    BY <2>1 DEF StaffOK, StaffIdle, RefundTypeOK
  <2>. QED
    BY <2>1, <2>2, <2>3, StaffMoves
<1>. QED
  BY <1>1, <1>2

(* The refund asked for is written: its order is still paid.                *)
LEMMA CommitRequestRefundStep ==
    ASSUME RefundIInv, RefundAssumption, NEW u \in Staff, NEW f \in RefundIds,
           CommitRequestRefund(u, f)
    PROVE  RefundIInv'
<1>. DEFINE row == [order |-> staff[u].order, amount |-> staff[u].amount,
                    status |-> "PENDING_APPROVAL", evidence |-> FALSE]
<1>. USE DEF RefundIInv
<1>1. /\ staff[u].order \in Orders /\ status[staff[u].order] \in PaidStatuses
      /\ staff[u].amount \in 1 .. OrderAmount
  BY DEF CommitRequestRefund, StaffOK, Amounts
<1>2. /\ refund' = [refund EXCEPT ![f] = row] /\ staff' = [staff EXCEPT ![u] = StaffIdle]
      /\ UNCHANGED <<vars, taken>> /\ refund[f] = NoRow
  BY DEF CommitRequestRefund
<1>3. /\ row \in [order : Orders \union {NoOrder}, amount : 0 .. OrderAmount,
                  status : RefundStatuses \union {"ABSENT"}, evidence : BOOLEAN]
      /\ row.status = "PENDING_APPROVAL" /\ row.order \in Orders /\ status[row.order] \in PaidStatuses
  BY <1>1 DEF RefundStatuses
<1>4. NoRow.status = "ABSENT"
  BY DEF NoRow
<1>. HIDE DEF row
<1>5. IInv' /\ PaidByAnswer' /\ UNCHANGED status
  <2>1. IInv'
    BY <1>2, StutterStep
  <2>. QED
    BY <1>2, <2>1 DEF vars, PaidByAnswer
<1>6. RefundTypeOK'
  BY <1>1, <1>2, <1>3, IdleIsTyped DEF RefundTypeOK, StaffStates
<1>7. /\ refund'[f] = row /\ row # NoRow
      /\ \A g \in RefundIds \ {f} : refund'[g] = refund[g]
  BY <1>2, <1>3, <1>4 DEF RefundTypeOK
<1>8. RefundBacksStatus'
  <2>1. ASSUME NEW o \in Orders, status[o] \in RefundedStatuses
        PROVE  \E g \in RefundIds : /\ refund'[g].order = o /\ refund'[g].status = "APPROVED"
                                    /\ refund'[g].amount = OrderAmount <=> status[o] = "REFUNDED"
    <3>1. PICK g \in RefundIds : /\ refund[g].order = o /\ refund[g].status = "APPROVED"
                                 /\ refund[g].amount = OrderAmount <=> status[o] = "REFUNDED"
      BY <2>1 DEF RefundBacksStatus, OfOrder
    <3>. QED
      BY <1>2, <1>4, <1>7, <3>1
  <2>. QED
    BY <1>3, <1>5, <1>7, <2>1 DEF RefundBacksStatus, OfOrder
<1>9. ASSUME NEW v \in Staff PROVE StaffOK(v)'
  <2>1. CASE v = u
    BY <1>2, <2>1 DEF StaffOK, StaffIdle, RefundTypeOK
  <2>2. CASE v # u
    BY <1>2, <1>5, <1>7, <2>2 DEF StaffOK, RefundTypeOK
  <2>. QED
    BY <2>1, <2>2
<1>10. ASSUME NEW g \in RefundIds PROVE RefundRowOK(g)'
  BY <1>3, <1>7 DEF RefundRowOK, RefundStatuses
<1>. QED
  BY <1>5, <1>6, <1>8, <1>9, <1>10

(* Evidence, late or not, changes nothing the invariant speaks about.       *)
LEMMA CommitUploadEvidenceStep ==
    ASSUME RefundIInv, RefundAssumption, NEW u \in Staff, CommitUploadEvidence(u)
    PROVE  RefundIInv'
<1>. DEFINE f == staff[u].refund
            row == [refund[f] EXCEPT !.evidence = TRUE]
<1>. USE DEF RefundIInv
<1>1. f \in RefundIds /\ refund[f] # NoRow
  BY DEF CommitUploadEvidence, StaffOK
<1>2. /\ refund' = [refund EXCEPT ![f] = row] /\ staff' = [staff EXCEPT ![u] = StaffIdle]
      /\ UNCHANGED <<vars, taken>>
  BY <1>1 DEF CommitUploadEvidence
<1>3. /\ row \in [order : Orders \union {NoOrder}, amount : 0 .. OrderAmount,
                  status : RefundStatuses \union {"ABSENT"}, evidence : BOOLEAN]
      /\ row.status = refund[f].status /\ row.order = refund[f].order
      /\ row.amount = refund[f].amount /\ row.evidence = TRUE
  <2>1. refund[f] \in [order : Orders \union {NoOrder}, amount : 0 .. OrderAmount,
                       status : RefundStatuses \union {"ABSENT"}, evidence : BOOLEAN]
    BY <1>1 DEF RefundTypeOK
  <2>. QED
    BY <2>1
<1>4. NoRow.evidence = FALSE
  BY DEF NoRow
<1>. HIDE DEF row, f
<1>5. IInv' /\ PaidByAnswer' /\ UNCHANGED status
  <2>1. IInv'
    BY <1>2, StutterStep
  <2>. QED
    BY <1>2, <2>1 DEF vars, PaidByAnswer
<1>6. RefundTypeOK'
  BY <1>1, <1>2, <1>3, IdleIsTyped DEF RefundTypeOK, StaffStates
<1>7. /\ refund'[f] = row /\ row # NoRow
      /\ \A g \in RefundIds \ {f} : refund'[g] = refund[g]
  BY <1>1, <1>2, <1>3, <1>4 DEF RefundTypeOK
<1>8. /\ \A g \in RefundIds : /\ refund'[g].status = refund[g].status
                              /\ refund'[g].order = refund[g].order
                              /\ refund'[g].amount = refund[g].amount
      /\ \A g \in RefundIds : refund'[g] # NoRow <=> refund[g] # NoRow
  BY <1>1, <1>3, <1>7
<1>9. RefundBacksStatus'
  <2>1. ASSUME NEW o \in Orders, status[o] \in RefundedStatuses
        PROVE  \E g \in RefundIds : /\ refund'[g].order = o /\ refund'[g].status = "APPROVED"
                                    /\ refund'[g].amount = OrderAmount <=> status[o] = "REFUNDED"
    BY <1>8, <2>1 DEF RefundBacksStatus, OfOrder
  <2>. QED
    BY <1>5, <1>8, <2>1 DEF RefundBacksStatus, OfOrder
<1>10. ASSUME NEW v \in Staff PROVE StaffOK(v)'
  <2>1. CASE v = u
    BY <1>2, <2>1 DEF StaffOK, StaffIdle, RefundTypeOK
  <2>2. CASE v # u
    BY <1>2, <1>5, <1>8, <2>2 DEF StaffOK, RefundTypeOK
  <2>. QED
    BY <2>1, <2>2
<1>11. ASSUME NEW g \in RefundIds PROVE RefundRowOK(g)'
  BY <1>8 DEF RefundRowOK
<1>. QED
  BY <1>5, <1>6, <1>9, <1>10, <1>11

(* The refund is approved and its order refunded, whatever they hold by     *)
(* then: the order is paid, so no payment is waiting to be written.         *)
LEMMA CommitApproveRefundStep ==
    ASSUME RefundIInv, RefundAssumption, NEW u \in Staff, CommitApproveRefund(u)
    PROVE  RefundIInv'
<1>. DEFINE f == staff[u].refund
            o == refund[f].order
            row == [refund[f] EXCEPT !.status = "APPROVED"]
            next == StatusAfterRefund(refund[f].amount)
<1>. USE DEF RefundIInv
<1>1. /\ f \in RefundIds /\ refund[f] # NoRow /\ o \in Orders
      /\ status[o] \in PaidStatuses
  BY DEF CommitApproveRefund, StaffOK, RefundRowOK, RefundBacksStatus
<1>2. /\ refund' = [refund EXCEPT ![f] = row] /\ staff' = [staff EXCEPT ![u] = StaffIdle]
      /\ status' = [status EXCEPT ![o] = next]
      /\ UNCHANGED <<owner, expired, attempts, receipts, event, req, bold, taken>>
  BY <1>1 DEF CommitApproveRefund
<1>3. /\ row \in [order : Orders \union {NoOrder}, amount : 0 .. OrderAmount,
                  status : RefundStatuses \union {"ABSENT"}, evidence : BOOLEAN]
      /\ row.status = "APPROVED" /\ row.order = o /\ row.amount = refund[f].amount
  BY <1>1 DEF RefundTypeOK, RefundStatuses
<1>4. NoRow.status = "ABSENT"
  BY DEF NoRow
<1>5. /\ next \in RefundedStatuses /\ next # "NONE" /\ next # "PENDING"
      /\ next \in OrderStatuses /\ next \in PaidStatuses
      /\ row.amount = OrderAmount <=> next = "REFUNDED"
  BY <1>3 DEF StatusAfterRefund, RefundedStatuses, OrderStatuses, TerminalOrderStatuses, PaidStatuses
<1>6. RowOK(next, attempts[o], receipts[o], bold[o])
  <2>1. RowOK(status[o], attempts[o], receipts[o], bold[o])
    BY <1>1 DEF IInv, Rows
  <2>. QED
    BY <1>1, <1>5, <2>1 DEF RowOK, PaidStatuses, RefundedStatuses
<1>. HIDE DEF row, o, f, next
<1>7. IInv'
  <2>. USE DEF IInv
  <2>1. TypeOK'
    BY <1>1, <1>2, <1>5 DEF TypeOK
  <2>2. Rows'
    BY <1>1, <1>2, <1>6 DEF Rows, TypeOK
  <2>3. ReqsOK'
    BY <1>1, <1>2, <1>5 DEF ReqsOK, RequestOK, Reusable, TypeOK, PaidStatuses
  <2>4. Exclusive'
    BY <1>2 DEF Exclusive
  <2>5. NoticeOK'
    BY <1>1, <1>2, <1>5 DEF NoticeOK, TypeOK
  <2>6. OneReusableOrder'
    BY <1>1, <1>2, <1>5 DEF OneReusableOrder, Reusable, TypeOK
  <2>. QED
    BY <2>1, <2>2, <2>3, <2>4, <2>5, <2>6
<1>8. /\ status'[o] = next /\ \A p \in Orders \ {o} : status'[p] = status[p]
      /\ \A p \in Orders : status[p] \in PaidStatuses <=> status'[p] \in PaidStatuses
  BY <1>1, <1>2, <1>5 DEF IInv, TypeOK
<1>9. PaidByAnswer'
  BY <1>2, <1>8 DEF PaidByAnswer
<1>10. RefundTypeOK'
  BY <1>1, <1>2, <1>3, IdleIsTyped DEF RefundTypeOK, StaffStates
<1>11. /\ refund'[f] = row /\ row # NoRow
       /\ \A g \in RefundIds \ {f} : refund'[g] = refund[g]
  BY <1>1, <1>2, <1>3, <1>4 DEF RefundTypeOK
<1>12. RefundBacksStatus'
  <2>1. ASSUME NEW g \in RefundIds, refund'[g] # NoRow
        PROVE  /\ refund'[g].order \in Orders /\ status'[refund'[g].order] \in PaidStatuses
               /\ refund'[g].status = "APPROVED" => status'[refund'[g].order] \in RefundedStatuses
    <3>1. CASE g = f
      BY <1>1, <1>3, <1>5, <1>8, <1>11, <3>1
    <3>2. CASE g # f
      <4>1. /\ refund'[g] = refund[g] /\ refund[g].order \in Orders
            /\ status[refund[g].order] \in PaidStatuses
            /\ refund[g].status = "APPROVED" => status[refund[g].order] \in RefundedStatuses
        BY <1>11, <2>1, <3>2 DEF RefundRowOK, RefundBacksStatus
      <4>. QED
        BY <1>5, <1>8, <4>1
    <3>. QED
      BY <3>1, <3>2
  <2>2. ASSUME NEW p \in Orders, status'[p] \in RefundedStatuses
        PROVE  \E g \in RefundIds : /\ refund'[g].order = p /\ refund'[g].status = "APPROVED"
                                    /\ refund'[g].amount = OrderAmount <=> status'[p] = "REFUNDED"
    <3>1. CASE p = o
      BY <1>1, <1>3, <1>5, <1>8, <1>11, <3>1
    <3>2. CASE p # o
      <4>1. PICK g \in RefundIds : /\ refund[g].order = p /\ refund[g].status = "APPROVED"
                                   /\ refund[g].amount = OrderAmount <=> status[p] = "REFUNDED"
        BY <1>8, <2>2, <3>2 DEF RefundBacksStatus, OfOrder
      <4>2. g # f
        BY <3>2, <4>1 DEF o
      <4>. QED
        BY <1>8, <1>11, <3>2, <4>1, <4>2
    <3>. QED
      BY <3>1, <3>2
  <2>3. \A g \in RefundIds : refund'[g] = NoRow => refund'[g].status # "APPROVED"
    BY <1>4
  <2>. QED
    BY <2>1, <2>2, <2>3 DEF RefundBacksStatus, OfOrder
<1>13. ASSUME NEW v \in Staff PROVE StaffOK(v)'
  <2>1. CASE v = u
    BY <1>2, <2>1 DEF StaffOK, StaffIdle, RefundTypeOK
  <2>2. CASE v # u
    BY <1>2, <1>8, <1>11, <2>2 DEF StaffOK, RefundTypeOK
  <2>. QED
    BY <2>1, <2>2
<1>14. ASSUME NEW g \in RefundIds PROVE RefundRowOK(g)'
  BY <1>1, <1>3, <1>11 DEF RefundRowOK, RefundStatuses
<1>. QED
  BY <1>7, <1>9, <1>10, <1>12, <1>13, <1>14

(* RefundIInv is inductive, with every handler of payments and refunds at   *)
(* work on the same orders.                                                 *)
LEMMA RefundInductive ==
    ASSUME RefundAssumption, RefundIInv, [RefundNext]_<<vars, refundVars>>
    PROVE  RefundIInv'
<1>1. CASE Next /\ UNCHANGED refundVars
  BY <1>1, PaymentsBesideRefunds
<1>2. ASSUME NEW u \in Staff, StaffStep(u) PROVE RefundIInv'
  BY <1>2, BeginsStep, TracelessStep, CommitRequestRefundStep, CommitUploadEvidenceStep,
     CommitApproveRefundStep DEF StaffStep
<1>3. CASE UNCHANGED <<vars, refundVars>>
  BY <1>3, PaymentsBesideRefunds
<1>. QED
  BY <1>1, <1>2, <1>3 DEF RefundNext

(* No step takes a refunded order back.                                     *)
LEMMA RefundedKeptStep ==
    ASSUME RefundAssumption, RefundIInv, [RefundNext]_<<vars, refundVars>>
    PROVE  RefundedKept
<1>1. ASSUME [Next]_vars PROVE RefundedKept
  <2>1. IInv' /\ Final
    BY <1>1, Inductive, FinalStep DEF RefundIInv
  <2>2. ASSUME NEW o \in Orders, status[o] \in RefundedStatuses
        PROVE  status'[o] = status[o] /\ receipts'[o] = 1 /\ receipts[o] = 1
    BY <2>1, <2>2 DEF Final, RefundIInv, IInv, Rows, RowOK, RefundedStatuses, TerminalOrderStatuses
  <2>. QED
    BY <2>2 DEF RefundedKept
<1>2. ASSUME NEW u \in Staff, CommitApproveRefund(u) PROVE RefundedKept
  <2>1. /\ status' = [status EXCEPT ![refund[staff[u].refund].order] =
                          StatusAfterRefund(refund[staff[u].refund].amount)]
        /\ UNCHANGED receipts
    BY <1>2 DEF CommitApproveRefund
  <2>2. StatusAfterRefund(refund[staff[u].refund].amount) \in RefundedStatuses
    BY DEF StatusAfterRefund, RefundedStatuses
  <2>. QED
    BY <2>1, <2>2 DEF RefundedKept, RefundIInv, IInv, TypeOK
<1>3. ASSUME NEW u \in Staff, StaffStep(u), ~CommitApproveRefund(u) PROVE UNCHANGED vars
  BY <1>3 DEF StaffStep, BeginRequestRefund, CommitRequestRefund, BeginUploadEvidence,
     BeginApproveRefund, CommitUploadEvidence, BoldTakesRefund, BoldRefusesRefund,
     RethrowRefusal, RollbackStaff
<1>. QED
  BY <1>1, <1>2, <1>3 DEF RefundNext

LEMMA RefundsBackedConsequence ==
    ASSUME RefundAssumption, ProductionPayments, RefundIInv
    PROVE  RefundsAreBacked
BY PaidRestsOnAttempt DEF RefundIInv, RefundsAreBacked

(* In production the types of every row hold, a paid order has the attempt  *)
(* its refund needs, and a refunded one the refund it rests on.             *)
THEOREM RefundsBackedCorrect ==
    ASSUME RefundAssumption, ProductionPayments
    PROVE  RefundSpec => []RefundsAreBacked
<1>1. RefundIInv => RefundsAreBacked
  BY RefundsBackedConsequence
<1>. QED
  BY <1>1, RefundInitially, RefundInductive, PTL DEF RefundSpec

(* A refunded order stays refunded and gets no second receipt, however late *)
(* an answer or a notice of its payment comes.                              *)
THEOREM RefundedKeptCorrect ==
    ASSUME RefundAssumption
    PROVE  RefundSpec => [][RefundedKept]_<<vars, refundVars>>
BY RefundInitially, RefundInductive, RefundedKeptStep, PTL DEF RefundSpec

(* What payments promise holds while staff refund what is being paid.       *)
THEOREM PaymentsHoldBesideRefunds ==
    ASSUME RefundAssumption
    PROVE  RefundSpec => [](LedgerAgrees /\ OutcomeIsBolds /\ NoSecondCollection /\ OneReusableOrder)
<1>1. RefundIInv => LedgerAgrees /\ OutcomeIsBolds /\ NoSecondCollection /\ OneReusableOrder
  BY Consequences DEF RefundIInv
<1>. QED
  BY <1>1, RefundInitially, RefundInductive, PTL DEF RefundSpec
=============================================================================
