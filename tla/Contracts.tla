----------------------------- MODULE Contracts ------------------------------
(* The versions, signers and acceptances of one contract, beside the plan    *)
(* whose versions it may pin (contracts.service.ts).  The plan does what     *)
(* PublishedVersion promises, which Plans implements.                        *)
(*                                                                           *)
(* Nothing here takes a lock.  uploadVersion computes the next number, writes*)
(* the file of that number, then inserts the row, whose number is unique.    *)
(* recordAcceptance reads the contract, inserts its acceptance, which other  *)
(* transactions do not see yet, and counts; its last step is the commit.     *)
EXTENDS Naturals, FiniteSets

CONSTANTS
    Numbers,        \* version numbers, 1..n
    Signers,        \* signer rows
    Handlers,       \* HTTP requests in flight
    NoSigner,
    Offers,         \* versions of the plan
    NoOffer

\* What the constants must be.
ASSUME ContractsAssumption ==
    /\ Numbers = 1..Cardinality(Numbers)
    /\ IsFiniteSet(Signers) /\ NoSigner \notin Signers
    /\ NoOffer \notin Offers

VARIABLES
    contract,       \* Contract.status, and currentVersionId as a number (0: none)
    document,       \* ContractVersion rows: who uploaded them, and the plan version pinned
    file,           \* the file each number names: the upload it came from
    signer,         \* the version each signer signs (0: no such signer)
    accepted,       \* ContractAcceptance rows of each signer
    handler,        \* what each request has read
    counted,        \* history: the signers counted when the contract was activated
    offer,          \* the plan version in force
    pastOffers      \* those no longer in force

contractVars == <<contract, document, file, signer, accepted, handler, counted>>
offerVars == <<offer, pastOffers>>

Plan == INSTANCE PublishedVersion WITH
            Versions <- Offers, NoVersion <- NoOffer, current <- offer, past <- pastOffers

ContractStatuses == {"DRAFT", "PENDING_ACCEPTANCE", "ACTIVE", "TERMINATED"}

NoDocument == [by |-> "nobody", plan |-> NoOffer]

Resting == [pc |-> "idle", number |-> 0, plan |-> NoOffer, signer |-> NoSigner,
            required |-> {}, activates |-> FALSE]

ContractInit ==
    /\ contract = [status |-> "DRAFT", current |-> 0]
    /\ document = [n \in Numbers |-> NoDocument]
    /\ file = [n \in Numbers |-> "nobody"]
    /\ signer = [s \in Signers |-> 0]
    /\ accepted = [s \in Signers |-> 0]
    /\ handler = [h \in Handlers |-> Resting]
    /\ counted = {}

Rest(h) == handler' = [handler EXCEPT ![h] = Resting]

-----------------------------------------------------------------------------
(* Uploads *)

Latest == CHOOSE n \in 0..Cardinality(Numbers) :
              \A m \in Numbers : (document[m] # NoDocument) <=> (m <= n)

\* Mutant: any version of the plan may be pinned.
AnyOffer == Offers

\* assertContractSelectable.
MayPin == {offer} \ {NoOffer}

UploadVersion(h, p) ==
    /\ handler[h] = Resting
    /\ p \in MayPin \union {NoOffer}
    /\ Latest + 1 \in Numbers
    /\ handler' = [handler EXCEPT ![h] =
                      [Resting EXCEPT !.pc = "writing", !.number = Latest + 1, !.plan = p]]
    /\ UNCHANGED <<contract, document, file, signer, accepted, counted>>

\* writeFile replaces whatever file already has that name.
WriteFile(h) ==
    /\ handler[h].pc = "writing"
    /\ file' = [file EXCEPT ![handler[h].number] = h]
    /\ handler' = [handler EXCEPT ![h].pc = "inserting"]
    /\ UNCHANGED <<contract, document, signer, accepted, counted>>

\* The number is unique: the loser's transaction is undone, its file is not.
InsertVersion(h) ==
    LET n == handler[h].number IN
    /\ handler[h].pc = "inserting"
    /\ IF document[n] = NoDocument
       THEN /\ document' = [document EXCEPT ![n] = [by |-> h, plan |-> handler[h].plan]]
            /\ contract' = [contract EXCEPT !.current = n]
       ELSE UNCHANGED <<document, contract>>
    /\ Rest(h)
    /\ UNCHANGED <<file, signer, accepted, counted>>

-----------------------------------------------------------------------------
(* Signatures *)

Required(n) == {s \in Signers : signer[s] = n}

AddSigner(s, n) ==
    /\ signer[s] = 0
    /\ n \in Numbers /\ document[n] # NoDocument
    /\ signer' = [signer EXCEPT ![s] = n]
    /\ UNCHANGED <<contract, document, file, accepted, handler, counted>>

\* Mutant: the acceptance has no unique index on its signer.
MayAcceptAgain(s) == accepted[s] < 2

MayAccept(s) == accepted[s] = 0

Inserting(s) == \E h \in Handlers : handler[h].pc = "accepting" /\ handler[h].signer = s

\* The acceptance rows of version n that are committed.
Acceptances(n) == UNION {{t} \X (1..accepted[t]) : t \in Required(n)}

\* The counts of this transaction: the acceptances committed and its own.  An
\* insert of the same signer waits for the one before it.
RecordAcceptance(h, s) ==
    LET n == signer[s] IN
    /\ handler[h] = Resting
    /\ n # 0 /\ contract = [status |-> "PENDING_ACCEPTANCE", current |-> n]
    /\ MayAccept(s) /\ ~Inserting(s)
    /\ handler' = [handler EXCEPT ![h] =
                      [Resting EXCEPT !.pc = "accepting", !.number = n, !.signer = s,
                                      !.required = Required(n),
                                      !.activates = Cardinality(Acceptances(n)) + 1
                                                        >= Cardinality(Required(n))]]
    /\ UNCHANGED <<contract, document, file, signer, accepted, counted>>

\* The status is written whatever it holds by now.
CommitAcceptance(h) ==
    /\ handler[h].pc = "accepting"
    /\ accepted' = [accepted EXCEPT ![handler[h].signer] = @ + 1]
    /\ IF handler[h].activates
       THEN /\ contract' = [contract EXCEPT !.status = "ACTIVE"]
            /\ counted' = handler[h].required
       ELSE UNCHANGED <<contract, counted>>
    /\ Rest(h)
    /\ UNCHANGED <<document, file, signer>>

\* Any status but ACTIVE, from any status.
Transition(status) ==
    /\ status # "ACTIVE"
    /\ contract' = [contract EXCEPT !.status = status]
    /\ UNCHANGED <<document, file, signer, accepted, handler, counted>>

\* The transaction fails, or the process stops: a file it wrote stays.
AbortHandler(h) ==
    /\ handler[h] # Resting
    /\ Rest(h)
    /\ UNCHANGED <<contract, document, file, signer, accepted, counted>>

ContractNext ==
    \/ \E h \in Handlers :
          \/ \E p \in Offers \union {NoOffer} : UploadVersion(h, p)
          \/ \E s \in Signers : RecordAcceptance(h, s)
          \/ WriteFile(h) \/ InsertVersion(h) \/ CommitAcceptance(h) \/ AbortHandler(h)
    \/ \E s \in Signers, n \in Numbers : AddSigner(s, n)
    \/ \E status \in ContractStatuses : Transition(status)

ContractsInit == Plan!PublishedInit /\ ContractInit

ContractsNext ==
    \/ ContractNext /\ UNCHANGED offerVars
    \/ Plan!PublishedNext /\ UNCHANGED contractVars

ContractsSpec == ContractsInit /\ [][ContractsNext]_<<offerVars, contractVars>>

-----------------------------------------------------------------------------
(* Properties *)

\* A contract is activated only when every signer counted has accepted, each
\* at most once, and a version only ever pins a plan version that was put in
\* force: a draft or one under review is never sold (contracts.service.ts
\* recordAcceptance and uploadVersion).
ContractsBindWhatWasAgreed ==
    /\ contract.status = "ACTIVE" => \A s \in counted : accepted[s] = 1
    /\ \A n \in Numbers : document[n].plan # NoOffer =>
          document[n].plan \in pastOffers \union {offer}
=============================================================================
