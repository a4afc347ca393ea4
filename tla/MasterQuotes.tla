---------------------------- MODULE MasterQuotes -----------------------------
(***************************************************************************)
(* What the portal says of the master's installments: the repository, the  *)
(* rule of the payable installments, the quote service and the services    *)
(* that use it (master-external-core.provider.ts, master-confirmed-        *)
(* payment.service.ts).                                                    *)
(*                                                                         *)
(* An answer takes several reads, of the person, the contracts and the     *)
(* installments of each contract, and payments made at the office and      *)
(* midnight fall between them.  Nothing is written to the master.          *)
(***************************************************************************)
EXTENDS Integers, FiniteSets, FiniteSetsExt

CONSTANTS Persons, Contracts, Installments,
          Holder,     \* Holder[c]: the person of contract c
          ContractOf, \* ContractOf[i]: the contract of installment i
          Due,        \* Due[i]: its due date, or NoDate
          Documents,  \* what a person may type
          Exact,      \* Exact[d]: the persons findPersonByDocument finds
          Normalized, \* Normalized[d]: those of findPersonByNormalizedDocument
          Consumers,  \* requests in progress
          LastDay, NoDate, Nobody

(* Days are counted from the first one.  A contract and an installment are  *)
(* written with their owner.                                                *)
QuotesAssumption ==
    /\ Holder \in [Contracts -> Persons]
    /\ ContractOf \in [Installments -> Contracts]
    /\ Due \in [Installments -> Nat \union {NoDate}]
    /\ LastDay \in Nat

VARIABLES
    today,   \* the business date in Bogota
    balance, \* balance[i]: SALDO of installment i
    consult  \* the requests in progress

quotesVars == <<today, balance, consult>>

(* Balances in cents; a Fraction of a cent is positive and cannot be        *)
(* converted.                                                               *)
Fraction == -1

Kinds == {"STATEMENT", "OBLIGATIONS", "QUOTE", "CONFIRMED"}

NoConsult ==
    [kind |-> "NONE", at |-> "IDLE", person |-> Nobody, item |-> Nobody, paid |-> 0,
     left |-> {}, rows |-> {}, answer |-> "NONE", total |-> 0]

QuotesInit ==
    /\ today = 0
    /\ balance \in [Installments -> {2, Fraction}]
    /\ consult = [u \in Consumers |-> NoConsult]

-----------------------------------------------------------------------------
(* Pure rules.                                                              *)

(* findPersonByDocument: two lookups, each of which must be unambiguous.    *)
FindPerson(d) ==
    LET found == IF Exact[d] # {} THEN Exact[d] ELSE Normalized[d]
    IN  IF found = {} THEN "NOT_FOUND"
        ELSE IF Cardinality(found) = 1 THEN CHOOSE p \in found : TRUE
        ELSE "INVALID_RESPONSE"

HasPositiveBalance(b) == b # 0

(* positiveMasterDecimalToCents, with 0 for null.                           *)
Cents(b) == IF b > 0 THEN b ELSE 0

\* Mutant: only the overdue installments are asked for.
OverdueOnly(rows, day) ==
    {row \in rows : HasPositiveBalance(row.balance) /\ row.due # NoDate /\ row.due < day}

(* selectPayableInstallments: every overdue installment, and of the others  *)
(* those due on the day of the first.                                       *)
SelectPayable(rows, day) ==
    LET candidates == {row \in rows : row.due # NoDate /\ HasPositiveBalance(row.balance)}
        nonOverdue == {row \in candidates : row.due >= day}
        first == CHOOSE row \in nonOverdue : \A other \in nonOverdue : row.due <= other.due
    IN  (candidates \ nonOverdue) \union {row \in nonOverdue : row.due = first.due}

(* payableInstallmentStatus, at the time it is asked.                       *)
PayableStatus(row, day) == IF row.due < day THEN "OVERDUE" ELSE "CURRENT"

SumCents(rows) == MapThenSumSet(LAMBDA row : Cents(row.balance), rows)

-----------------------------------------------------------------------------
(* The repository.                                                          *)

ContractsByPerson(p) == {c \in Contracts : Holder[c] = p}

ContractInstallments(c) ==
    {[id |-> i, due |-> Due[i], balance |-> balance[i]] :
        i \in {j \in Installments : ContractOf[j] = c}}

OutstandingInstallments(c) == SelectPayable(ContractInstallments(c), today)

-----------------------------------------------------------------------------
(* The requests.                                                            *)

Set(u, fields) == consult' = [consult EXCEPT ![u] = fields]

Answer(u, answer, total) ==
    Set(u, [consult[u] EXCEPT !.at = "ANSWERED", !.answer = answer, !.total = total,
                              !.left = {}])

(* startAffiliateLookup, the first step of whatever is asked.               *)
Lookup(u, d, kind, item, paid) ==
    /\ consult[u].at = "IDLE"
    /\ LET p == FindPerson(d) IN
          IF p \in Persons
          THEN Set(u, [NoConsult EXCEPT !.kind = kind, !.at = "PERSON", !.person = p,
                                        !.item = item, !.paid = paid])
          ELSE Set(u, [NoConsult EXCEPT !.kind = kind, !.at = "ANSWERED",
                           !.answer = IF p = "NOT_FOUND" THEN "NOT_FOUND" ELSE "UNAVAILABLE"])
    /\ UNCHANGED <<today, balance>>

\* Mutant: the contract named by the browser is believed.
AnyContract(p) == Contracts

OwnContracts(p) == ContractsByPerson(p)

(* getContractsByPerson: a quote is of one contract of the person's.        *)
ReadContracts(u) ==
    /\ consult[u].at = "PERSON"
    /\ LET own == OwnContracts(consult[u].person)
           asked == IF consult[u].item = Nobody THEN own ELSE {ContractOf[consult[u].item]}
       IN  IF asked \subseteq own
           THEN Set(u, [consult[u] EXCEPT !.at = "INSTALLMENTS", !.left = asked])
           ELSE Answer(u, "SELECTION_INVALID", 0)
    /\ UNCHANGED <<today, balance>>

(* getOutstandingInstallments, of the contracts in any order.               *)
ReadInstallments(u, c) ==
    /\ consult[u].at = "INSTALLMENTS" /\ c \in consult[u].left
    /\ Set(u, [consult[u] EXCEPT !.left = @ \ {c},
                                 !.rows = @ \union OutstandingInstallments(c)])
    /\ UNCHANGED <<today, balance>>

(* Any of the reads may fail, and then nothing is said.                     *)
ReadFails(u) ==
    /\ consult[u].at \in {"PERSON", "INSTALLMENTS"} /\ consult[u].answer = "NONE"
    /\ Answer(u, "UNAVAILABLE", 0)
    /\ UNCHANGED <<today, balance>>

AllRead(u) == consult[u].at = "INSTALLMENTS" /\ consult[u].left = {}

StatementStatus(rows, day) ==
    IF \E row \in rows : PayableStatus(row, day) = "OVERDUE" THEN "EN_MORA"
    ELSE IF rows # {} THEN "VIGENTE" ELSE "AL_DIA"

\* Mutant: an amount that cannot be converted counts for nothing.
NoneInvalid(rows) == {}

InvalidAmounts(rows) == {row \in rows : Cents(row.balance) = 0}

(* getAffiliateAccountStatement.                                            *)
Statement(u) ==
    /\ AllRead(u) /\ consult[u].kind = "STATEMENT"
    /\ LET rows == consult[u].rows
           counted == {row \in rows : Cents(row.balance) > 0} IN
          IF InvalidAmounts(rows) # {}
          THEN Answer(u, "INVALID", 0)
          ELSE Answer(u, StatementStatus(counted, today), SumCents(counted))
    /\ UNCHANGED <<today, balance>>

(* getAffiliateObligations shows the balances as they were read.            *)
Obligations(u) ==
    /\ AllRead(u) /\ consult[u].kind = "OBLIGATIONS"
    /\ Answer(u, "LISTED", 0)
    /\ UNCHANGED <<today, balance>>

(* MasterPaymentQuoteService.quote.                                         *)
QuoteResult(u) ==
    LET found == {row \in consult[u].rows : row.id = consult[u].item} IN
    IF found = {} THEN [status |-> "NOT_PAYABLE", cents |-> 0]
    ELSE IF InvalidAmounts(found) # {} THEN [status |-> "INVALID", cents |-> 0]
    ELSE [status |-> "VERIFIED", cents |-> Cents((CHOOSE row \in found : TRUE).balance)]

Quote(u) ==
    /\ AllRead(u) /\ consult[u].kind = "QUOTE"
    /\ Answer(u, QuoteResult(u).status, QuoteResult(u).cents)
    /\ UNCHANGED <<today, balance>>

\* Mutant: a confirmed payment is applied as it was quoted.
AnyAmount(u, quoted) == TRUE

SameAmount(u, quoted) == quoted = consult[u].paid

(* MasterConfirmedPaymentService.apply re-reads the quote and hands the     *)
(* payment to the application port.                                         *)
ApplyConfirmed(u) ==
    /\ AllRead(u) /\ consult[u].kind = "CONFIRMED"
    /\ LET result == QuoteResult(u) IN
          IF result.status # "VERIFIED" THEN Answer(u, "NOT_PAYABLE", 0)
          ELSE IF ~SameAmount(u, result.cents) THEN Answer(u, "AMOUNT_CHANGED", 0)
          ELSE Answer(u, "HANDED", consult[u].paid)
    /\ UNCHANGED <<today, balance>>

Finish(u) ==
    /\ consult[u].at = "ANSWERED"
    /\ Set(u, NoConsult)
    /\ UNCHANGED <<today, balance>>

-----------------------------------------------------------------------------
(* The master goes on: installments are paid, in whole or in part, and days *)
(* pass.                                                                    *)

PaidAtOffice(i) ==
    /\ \/ balance[i] > 0 /\ balance' = [balance EXCEPT ![i] = @ - 1]
       \/ balance[i] # 0 /\ balance' = [balance EXCEPT ![i] = 0]
    /\ UNCHANGED <<today, consult>>

Midnight ==
    /\ today < LastDay
    /\ today' = today + 1
    /\ UNCHANGED <<balance, consult>>

QuotesNext ==
    \/ Midnight
    \/ \E i \in Installments : PaidAtOffice(i)
    \/ \E u \in Consumers :
          \/ \E d \in Documents :
                \/ \E kind \in {"STATEMENT", "OBLIGATIONS"} : Lookup(u, d, kind, Nobody, 0)
                \/ \E i \in Installments : Lookup(u, d, "QUOTE", i, 0)
                \/ \E i \in Installments, paid \in 1..2 : Lookup(u, d, "CONFIRMED", i, paid)
          \/ ReadContracts(u) \/ (\E c \in Contracts : ReadInstallments(u, c)) \/ ReadFails(u)
          \/ Statement(u) \/ Obligations(u) \/ Quote(u) \/ ApplyConfirmed(u) \/ Finish(u)

QuotesSpec == QuotesInit /\ [][QuotesNext]_quotesVars

-----------------------------------------------------------------------------

(* The collection rule, as its comment puts it: an installment is asked for *)
(* when it is overdue, or no other one that still has a balance is due      *)
(* between today and its own date.                                          *)
Payable(i) ==
    LET rivals == {j \in Installments :
                      ContractOf[j] = ContractOf[i] /\ Due[j] # NoDate /\ balance[j] # 0}
    IN  i \in rivals /\ ~\E j \in rivals : Due[j] >= today /\ Due[j] < Due[i]

RuleHolds ==
    \A i \in Installments :
        Payable(i) <=> \E row \in OutstandingInstallments(ContractOf[i]) : row.id = i

(* Whoever is told to be up to date owed nothing when it was said, whatever *)
(* was paid and whichever midnight fell between the reads.                  *)
UpToDateOwesNothing ==
    \A u \in Consumers :
        consult[u].answer = "AL_DIA" =>
            \A i \in Installments :
                Holder[ContractOf[i]] = consult[u].person /\ Due[i] # NoDate => balance[i] = 0

(* What was read of a person is the person's, and what is quoted, stated or *)
(* applied was a balance the master showed: never more than is due, never   *)
(* less than was read, and a confirmed payment only when the amounts agree. *)
AmountsAreTheMasters ==
    \A u \in Consumers :
        LET said == consult[u] IN
        /\ \A row \in said.rows : Holder[ContractOf[row.id]] = said.person
        /\ said.answer \in {"VERIFIED", "HANDED"} =>
              \E row \in said.rows : row.id = said.item /\ row.balance = said.total
        /\ said.answer \in {"EN_MORA", "VIGENTE"} =>
              said.total = SumCents(said.rows) /\ Fraction \notin {row.balance : row \in said.rows}

QuotesHold == RuleHolds /\ UpToDateOwesNothing /\ AmountsAreTheMasters
=============================================================================
