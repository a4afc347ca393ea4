--------------------------- MODULE LegalDocuments ---------------------------
(* The versions of one legal document, from draft to archive, the consents   *)
(* recorded against them, and the public reading of the one in force.        *)
(*                                                                           *)
(* Every operation is a READ COMMITTED transaction that reads the version    *)
(* first.  Most then write only if the status is still what they need;       *)
(* publish waits for the document's row but keeps the version it read before *)
(* the wait.  So approve and publish take two steps, the others one.         *)
(* A text is a number, and the ones in BadTexts fail validateLegalContent.   *)
EXTENDS Naturals, FiniteSets

CONSTANTS
    Versions,       \* version rows of the document
    Editors,        \* staff requests being served
    Consents,       \* consent rows
    MaxTexts,       \* texts are 1..MaxTexts
    BadTexts,       \* those an approval refuses
    NoVersion

\* What the constants must be.
ASSUME LegalAssumption == NoVersion \notin Versions /\ MaxTexts \in Nat

VARIABLES
    legal,          \* LegalDocumentVersion rows
    currentVersion, \* LegalDocument.currentVersionId
    edit,           \* what each staff request has read
    consent         \* ConsentRecord rows

legalVars == <<legal, currentVersion, edit, consent>>

LegalStatuses == {"DRAFT", "LEGAL_REVIEW", "PENDING_APPROVAL", "APPROVED",
                  "PUBLISHED", "REPLACED", "ARCHIVED"}

\* draft is draftContent, approved approvedContent (0: null).
Absent == [status |-> "ABSENT", draft |-> 0, approved |-> 0]

NoEdit == [pc |-> "idle", version |-> NoVersion, status |-> "ABSENT", text |-> 0]

\* text (history) is what the titular was shown.
NoConsent == [version |-> NoVersion, text |-> 0, revoked |-> FALSE]

LegalInit ==
    /\ legal = [v \in Versions |-> Absent]
    /\ currentVersion = NoVersion
    /\ edit = [e \in Editors |-> NoEdit]
    /\ consent = [c \in Consents |-> NoConsent]

Numbered == {v \in Versions : legal[v].status # "ABSENT"}

\* validateLegalContent finds nothing to object to.
Valid(text) == text # 0 /\ text \notin BadTexts

\* updateMany WHERE status IN from: the write happens only from those.
Move(v, from, to) ==
    /\ legal[v].status \in from
    /\ legal' = [legal EXCEPT ![v].status = to]
    /\ UNCHANGED <<currentVersion, edit, consent>>

-----------------------------------------------------------------------------

\* The number is taken under the document's lock, so any unused row will do.
CreateVersion(text) ==
    /\ Numbered # Versions
    /\ legal' = [legal EXCEPT ![CHOOSE v \in Versions \ Numbered : TRUE] =
                     [status |-> "DRAFT", draft |-> text, approved |-> 0]]
    /\ UNCHANGED <<currentVersion, edit, consent>>

UpdateDraft(v, text) ==
    /\ legal[v].status = "DRAFT"
    /\ legal' = [legal EXCEPT ![v].draft = text]
    /\ UNCHANGED <<currentVersion, edit, consent>>

\* applyTransition validates the text it read, which an edit may replace before
\* the conditional write: the text moved on may be any the draft ever held.
SubmitForReview(v) == Move(v, {"DRAFT"}, "LEGAL_REVIEW")
SubmitForApproval(v) == Move(v, {"LEGAL_REVIEW"}, "PENDING_APPROVAL")
Reject(v) == Move(v, {"LEGAL_REVIEW", "PENDING_APPROVAL"}, "DRAFT")

Approve(e, v) ==
    /\ edit[e] = NoEdit /\ v \in Numbered
    /\ Valid(legal[v].draft)
    /\ edit' = [edit EXCEPT ![e] = [NoEdit EXCEPT !.pc = "approving", !.version = v,
                                           !.text = legal[v].draft]]
    /\ UNCHANGED <<legal, currentVersion, consent>>

\* Mutant: the write does not test the status.
PendingAnyStatus(status) == TRUE

Approvable(status) == status = "PENDING_APPROVAL"

\* The text approved is the one that was read, not the one in the row.
WriteApproval(e) ==
    LET v == edit[e].version IN
    /\ edit[e].pc = "approving"
    /\ legal' = IF Approvable(legal[v].status)
                THEN [legal EXCEPT ![v] = [legal[v] EXCEPT !.status = "APPROVED",
                                                           !.approved = edit[e].text]]
                ELSE legal
    /\ edit' = [edit EXCEPT ![e] = NoEdit]
    /\ UNCHANGED <<currentVersion, consent>>

Publish(e, v) ==
    /\ edit[e] = NoEdit /\ v \in Numbered
    /\ edit' = [edit EXCEPT ![e] = [pc |-> "publishing", version |-> v, status |-> legal[v].status,
                                    text |-> legal[v].approved]]
    /\ UNCHANGED <<legal, currentVersion, consent>>

\* Mutant: the version in force before is left as it was.
KeepPrevious(status) == status

Superseded(status) == "REPLACED"

\* Under the document's lock: the version read before it is published over
\* whatever is current now.
WritePublication(e) ==
    LET v == edit[e].version IN
    /\ edit[e].pc = "publishing"
    /\ IF edit[e].status = "APPROVED" /\ Valid(edit[e].text)
       THEN /\ legal' = [w \in Versions |->
                  IF w = v THEN [legal[w] EXCEPT !.status = "PUBLISHED"]
                  ELSE IF w = currentVersion THEN [legal[w] EXCEPT !.status = Superseded(legal[w].status)]
                  ELSE legal[w]]
            /\ currentVersion' = v
       ELSE UNCHANGED <<legal, currentVersion>>
    /\ edit' = [edit EXCEPT ![e] = NoEdit]
    /\ UNCHANGED consent

Archive(v) ==
    /\ legal[v].status \notin {"ABSENT", "ARCHIVED"}
    /\ legal' = [legal EXCEPT ![v].status = "ARCHIVED"]
    /\ currentVersion' = IF currentVersion = v THEN NoVersion ELSE currentVersion
    /\ UNCHANGED <<edit, consent>>

-----------------------------------------------------------------------------
(* Readers *)

\* getPublishedBySlug and resolveCurrentPublishedVersionId, once its effective
\* date has come: a reader may have to wait, and never has to.
Readable == {v \in {currentVersion} \ {NoVersion} : legal[v].status = "PUBLISHED"}

\* The version shown and the version recorded are resolved by one transaction
\* of the caller (an order, a lead, a case).
RecordConsent(c) ==
    /\ consent[c] = NoConsent
    /\ \E v \in Readable : consent' = [consent EXCEPT ![c] =
                               [version |-> v, text |-> legal[v].approved, revoked |-> FALSE]]
    /\ UNCHANGED <<legal, currentVersion, edit>>

RevokeConsent(c) ==
    /\ consent[c] # NoConsent
    /\ consent' = [consent EXCEPT ![c].revoked = TRUE]
    /\ UNCHANGED <<legal, currentVersion, edit>>

LegalNext ==
    \/ \E text \in 1..MaxTexts : CreateVersion(text)
    \/ \E v \in Numbered :
          \/ \E text \in 1..MaxTexts : UpdateDraft(v, text)
          \/ SubmitForReview(v) \/ SubmitForApproval(v) \/ Reject(v)
          \/ Archive(v)
          \/ \E e \in Editors : Approve(e, v) \/ Publish(e, v)
    \/ \E e \in Editors : WriteApproval(e) \/ WritePublication(e)
    \/ \E c \in Consents : RecordConsent(c) \/ RevokeConsent(c)

LegalSpec == LegalInit /\ [][LegalNext]_legalVars

-----------------------------------------------------------------------------
(* Properties *)

\* The document's current version is its one PUBLISHED version, whatever was
\* approved, published and archived at once (legal-documents.service.ts
\* publish and archive).
OneLegalVersionInForce ==
    \A v \in Versions : legal[v].status = "PUBLISHED" <=> v = currentVersion

\* What a titular accepted is still what the version says: a text that was
\* published is valid and never changes (consent.service.ts record,
\* legal-documents.service.ts approve).
ConsentedTextStands ==
    \A c \in Consents : consent[c] # NoConsent =>
        /\ legal[consent[c].version].approved = consent[c].text
        /\ Valid(consent[c].text)

\* Both: the document says one thing, and what was consented to stands.
LegalTextsStand == OneLegalVersionInForce /\ ConsentedTextStands
=============================================================================
