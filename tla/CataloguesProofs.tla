-------------------------- MODULE CataloguesProofs ---------------------------
(***************************************************************************)
(* Proofs about what other parts of the system read, for every number of   *)
(* versions, requests, signers and consents: a plan implements the         *)
(* abstract catalogue of PublishedVersion and so does a knowledge article, *)
(* a legal document has one version in force and its consents stand,       *)
(* contracts bind what was agreed, answers are grounded, and the master is *)
(* read by the account it expects and quoted as it was read.               *)
(***************************************************************************)
EXTENDS MCCatalogues, FiniteSetTheorems, WellFoundedInduction, TLAPS

-----------------------------------------------------------------------------
(* Plans.                                                                   *)

PlanStatuses == {"ABSENT", "DRAFT", "REVIEW", "PUBLISHED", "RETIRED"}

PlanRow == [status : PlanStatuses, revision : Nat]

PlanRequests ==
    [by : Clients \union {"anyone", "nobody"}, op : Operations \union {"none"},
     version : PlanVersions \union {NoPlan}, revision : Nat]

PlansTypeOK ==
    /\ plan \in [PlanVersions -> PlanRow]
    /\ sent \in [Senders -> PlanRequests]
    /\ \A s \in Senders :
          sent[s].op \in Operations \ {"create"} => sent[s].version \in PlanVersions

(* The version in force is the one the plan points at.                      *)
PointsAtPublished ==
    \A v \in PlanVersions : plan[v].status = "PUBLISHED" <=> v = currentPlan

PlansIInv ==
    PlansTypeOK /\ currentPlan \in PlanVersions \union {NoPlan} /\ PointsAtPublished
        /\ AppliedOnce

LEMMA PlansInitial == PlansInit => PlansIInv /\ Catalogue!PublishedInit
  <1> SUFFICES ASSUME PlansInit PROVE PlansIInv /\ Catalogue!PublishedInit
    OBVIOUS
  <1>1. PlansTypeOK
    BY DEF PlansInit, PlansTypeOK, PlanRow, PlanStatuses, PlanRequests, NoRequest, Operations
  <1>2. currentPlan = NoPlan /\ PointsAtPublished /\ AppliedOnce
    BY PlansAssumption DEF PlansInit, PointsAtPublished, AppliedOnce
  <1>3. Catalogue!PublishedInit
    BY DEF PlansInit, Catalogue!PublishedInit
  <1> QED BY <1>1, <1>2, <1>3 DEF PlansIInv

(* One row that changes its status, none of them the version in force.      *)
LEMMA OneRowChanges ==
    ASSUME PlansIInv, NEW v \in PlanVersions, NEW st \in PlanStatuses, NEW n \in Nat,
           plan' = [plan EXCEPT ![v] = [status |-> st, revision |-> n]],
           plan[v].status # "PUBLISHED", plan[v].status # "RETIRED",
           st # "PUBLISHED", st # "RETIRED", UNCHANGED currentPlan
    PROVE  /\ plan' \in [PlanVersions -> PlanRow]
           /\ PointsAtPublished'
           /\ UNCHANGED Catalogue!promised
  <1>1. [status |-> st, revision |-> n] \in PlanRow /\ plan \in [PlanVersions -> PlanRow]
    BY DEF PlanRow, PlansIInv, PlansTypeOK
  <1>2. /\ plan' \in [PlanVersions -> PlanRow]
        /\ plan'[v].status = st
        /\ \A w \in PlanVersions \ {v} : plan'[w] = plan[w]
    BY <1>1
  <1>3. PointsAtPublished'
    BY <1>2 DEF PlansIInv, PointsAtPublished
  <1>4. {w \in PlanVersions : plan'[w].status = "RETIRED"}
            = {w \in PlanVersions : plan[w].status = "RETIRED"}
    BY <1>2
  <1> QED BY <1>2, <1>3, <1>4 DEF Catalogue!promised
LEMMA CreatePlanStep ==
    ASSUME PlansIInv, CreatePlanVersion
    PROVE  /\ plan' \in [PlanVersions -> PlanRow] /\ PointsAtPublished'
           /\ UNCHANGED Catalogue!promised
  <1> DEFINE v == CHOOSE w \in PlanVersions \ Drafted : TRUE
  <1>1. v \in PlanVersions /\ plan[v].status = "ABSENT"
    BY DEF CreatePlanVersion, Drafted
  <1>2. plan' = [plan EXCEPT ![v] = [status |-> "DRAFT", revision |-> 0]] /\ UNCHANGED currentPlan
    BY DEF CreatePlanVersion
  <1>3. "DRAFT" \in PlanStatuses
    BY DEF PlanStatuses
  <1> HIDE DEF v
  <1> QED BY <1>1, <1>2, <1>3, OneRowChanges

LEMMA TouchPlanStep ==
    ASSUME PlansIInv, NEW v \in PlanVersions, UpdatePlan(v) \/ SubmitPlan(v)
    PROVE  /\ plan' \in [PlanVersions -> PlanRow] /\ PointsAtPublished'
           /\ UNCHANGED Catalogue!promised
  <1>1. PICK st \in {"DRAFT", "REVIEW"} :
           plan' = [plan EXCEPT ![v] = [status |-> st, revision |-> plan[v].revision + 1]]
    BY DEF UpdatePlan, SubmitPlan, Touch
  <1>2. plan[v].status = "DRAFT" /\ UNCHANGED currentPlan
    BY DEF UpdatePlan, SubmitPlan
  <1>3. plan[v].revision + 1 \in Nat /\ st \in PlanStatuses
    BY DEF PlansIInv, PlansTypeOK, PlanRow, PlanStatuses
  <1> QED BY <1>1, <1>2, <1>3, OneRowChanges

(* The version reviewed takes the place of the one in force, in one step.   *)
LEMMA PublishPlanStep ==
    ASSUME PlansIInv, NEW v \in PlanVersions, PublishPlan(v)
    PROVE  /\ plan' \in [PlanVersions -> PlanRow] /\ PointsAtPublished'
           /\ Catalogue!Publish(v)
  <1>1. plan[v].status = "REVIEW" /\ currentPlan' = v /\ v # currentPlan
    BY DEF PublishPlan, Publishable, PlansIInv, PointsAtPublished
  <1>2. plan \in [PlanVersions -> PlanRow]
    BY DEF PlansIInv, PlansTypeOK
  <1>3. ASSUME NEW w \in PlanVersions
        PROVE  /\ plan'[w] \in PlanRow
               /\ plan'[w].status = IF w = v THEN "PUBLISHED"
                                    ELSE IF w = currentPlan THEN "RETIRED" ELSE plan[w].status
    <2>1. plan'[w] = IF w \in {v, currentPlan}
                     THEN [status |-> IF w = v THEN "PUBLISHED" ELSE "RETIRED",
                           revision |-> plan[w].revision + 1]
                     ELSE plan[w]
      BY DEF PublishPlan
    <2>2. plan[w].revision + 1 \in Nat /\ plan[w] \in PlanRow
      BY <1>2 DEF PlanRow
    <2> QED BY <2>1, <2>2 DEF PlanRow, PlanStatuses
  <1>4. plan' \in [PlanVersions -> PlanRow]
    BY <1>3 DEF PublishPlan
  <1>5. PointsAtPublished'
    BY <1>1, <1>3 DEF PlansIInv, PointsAtPublished
  <1>6. Catalogue!Publish(v)
    <2> DEFINE retired == {w \in PlanVersions : plan[w].status = "RETIRED"}
    <2>1. v \notin retired \union Catalogue!InForce
      BY <1>1 DEF Catalogue!InForce
    <2>2. {w \in PlanVersions : plan'[w].status = "RETIRED"} = retired \union Catalogue!InForce
      BY <1>1, <1>3, PlansAssumption DEF PlansIInv, Catalogue!InForce
    <2> QED BY <1>1, <2>1, <2>2 DEF Catalogue!Publish
  <1> QED BY <1>4, <1>5, <1>6

LEMMA RetirePlanStep ==
    ASSUME PlansIInv, NEW v \in PlanVersions, RetirePlan(v)
    PROVE  /\ plan' \in [PlanVersions -> PlanRow] /\ PointsAtPublished'
           /\ currentPlan' \in PlanVersions \union {NoPlan}
           /\ Catalogue!Withdraw(v)
  <1>1. /\ plan[v].status = "PUBLISHED" /\ v = currentPlan /\ currentPlan' = NoPlan
        /\ plan' = [plan EXCEPT ![v] = [status |-> "RETIRED", revision |-> plan[v].revision + 1]]
    BY DEF RetirePlan, Touch, PlansIInv, PointsAtPublished
  <1>2. plan \in [PlanVersions -> PlanRow]
    BY DEF PlansIInv, PlansTypeOK
  <1>3. [status |-> "RETIRED", revision |-> plan[v].revision + 1] \in PlanRow
    <2>1. plan[v].revision + 1 \in Nat
      BY <1>2 DEF PlanRow
    <2> QED BY <2>1 DEF PlanRow, PlanStatuses
  <1>4. /\ plan' \in [PlanVersions -> PlanRow]
        /\ \A w \in PlanVersions : plan'[w].status = IF w = v THEN "RETIRED" ELSE plan[w].status
    BY <1>1, <1>2, <1>3
  <1>5. PointsAtPublished'
    BY <1>1, <1>4, PlansAssumption DEF PlansIInv, PointsAtPublished
  <1>6. Catalogue!Withdraw(v)
    <2>1. {w \in PlanVersions : plan'[w].status = "RETIRED"}
              = {w \in PlanVersions : plan[w].status = "RETIRED"} \union {v}
      BY <1>1, <1>4
    <2> QED BY <1>1, <2>1 DEF Catalogue!Withdraw
  <1> QED BY <1>1, <1>4, <1>5, <1>6

LEMMA PlanWork ==
    ASSUME PlansIInv, NEW q \in PlanRequests, Work(q),
           q.op \in Operations \ {"create"} => q.version \in PlanVersions
    PROVE  /\ plan' \in [PlanVersions -> PlanRow] /\ PointsAtPublished'
           /\ currentPlan' \in PlanVersions \union {NoPlan}
           /\ [Catalogue!PublishedNext]_(Catalogue!promised)
  <1>1. CASE q.op = "create" /\ CreatePlanVersion
    BY <1>1, CreatePlanStep DEF PlansIInv, CreatePlanVersion
  <1>2. CASE q.op = "update" /\ UpdatePlan(q.version)
    BY <1>2, TouchPlanStep DEF PlansIInv, UpdatePlan, Operations
  <1>3. CASE q.op = "review" /\ SubmitPlan(q.version)
    BY <1>3, TouchPlanStep DEF PlansIInv, SubmitPlan, Operations
  <1>4. CASE q.op = "publish" /\ PublishPlan(q.version)
    <2>1. q.version \in PlanVersions
      BY <1>4 DEF Operations
    <2> QED BY <1>4, <2>1, PublishPlanStep DEF PublishPlan, Catalogue!PublishedNext
  <1>5. CASE q.op = "retire" /\ RetirePlan(q.version)
    <2>1. q.version \in PlanVersions
      BY <1>5 DEF Operations
    <2> QED BY <1>5, <2>1, RetirePlanStep DEF Catalogue!PublishedNext
  <1> QED BY <1>1, <1>2, <1>3, <1>4, <1>5 DEF Work

(* Every step of the plan is one the abstract catalogue allows.             *)
LEMMA PlansStep ==
    ASSUME PlansIInv, [PlansNext]_plansVars
    PROVE  PlansIInv' /\ [Catalogue!PublishedNext]_(Catalogue!promised)
  <1>1. ASSUME NEW s \in Senders, NEW q \in Asked, Execute(s, q)
        PROVE  PlansIInv' /\ UNCHANGED Catalogue!promised
    <2>1. /\ q \in PlanRequests
          /\ q.op \in Operations \ {"create"} => q.version \in PlanVersions
      <3>1. \A v \in Drafted : v \in PlanVersions /\ plan[v].revision \in Nat
        BY DEF Drafted, PlansIInv, PlansTypeOK, PlanRow
      <3> QED BY <3>1 DEF Asked, PlanRequests, Operations
    <2>2. PlansTypeOK'
      BY <1>1, <2>1 DEF Execute, PlansIInv, PlansTypeOK
    <2> QED BY <1>1, <2>2
            DEF Execute, PlansIInv, PointsAtPublished, AppliedOnce, Catalogue!promised
  <1>2. NoRequest \in PlanRequests /\ NoRequest.op \notin Operations
    BY DEF NoRequest, PlanRequests, Operations
  <1>3. ASSUME NEW s \in Senders, Abandon(s)
        PROVE  PlansIInv' /\ UNCHANGED Catalogue!promised
    <2>1. PlansTypeOK'
      BY <1>2, <1>3 DEF Abandon, PlansIInv, PlansTypeOK
    <2> QED BY <1>3, <2>1
            DEF Abandon, PlansIInv, PointsAtPublished, AppliedOnce, Catalogue!promised
  <1>4. ASSUME NEW s \in Senders, Commit(s)
        PROVE  PlansIInv' /\ [Catalogue!PublishedNext]_(Catalogue!promised)
    <2>1. /\ plan' \in [PlanVersions -> PlanRow] /\ PointsAtPublished'
          /\ currentPlan' \in PlanVersions \union {NoPlan}
          /\ [Catalogue!PublishedNext]_(Catalogue!promised)
      BY <1>4, PlanWork DEF Commit, PlansIInv, PlansTypeOK
    <2>2. AppliedOnce'
      BY <1>4 DEF Commit, Unused, PlansIInv, AppliedOnce
    <2>3. PlansTypeOK'
      BY <1>2, <1>4, <2>1 DEF Commit, PlansIInv, PlansTypeOK
    <2> QED BY <2>1, <2>2, <2>3 DEF PlansIInv
  <1>5. CASE UNCHANGED plansVars
    BY <1>5 DEF plansVars, PlansIInv, PlansTypeOK, PointsAtPublished, AppliedOnce,
                Catalogue!promised
  <1> QED BY <1>1, <1>3, <1>4, <1>5 DEF PlansNext

(* plans.service.ts publish, retire and the idempotency of their requests:  *)
(* whatever is reviewed, published and retired at once, the plan is a       *)
(* published-version catalogue, and a request takes effect once.            *)
THEOREM PlanImplementsCatalogue == PlansSpec => PlanIsCatalogue
  <1>1. PlansInit => PlansIInv /\ Catalogue!PublishedInit
    BY PlansInitial
  <1>2. PlansIInv /\ [PlansNext]_plansVars
            => PlansIInv' /\ [Catalogue!PublishedNext]_(Catalogue!promised)
    BY PlansStep
  <1>3. PlansIInv => AppliedOnce
    BY DEF PlansIInv
  <1> QED BY <1>1, <1>2, <1>3, PTL DEF PlansSpec, PlanIsCatalogue, Catalogue!PublishedSpec
-----------------------------------------------------------------------------
(* Legal documents.                                                         *)

LegalRow == [status : LegalStatuses \union {"ABSENT"}, draft : Nat, approved : Nat]

EditRow == [pc : {"idle", "approving", "publishing"}, version : Versions \union {NoVersion},
            status : LegalStatuses \union {"ABSENT"}, text : Nat]

ConsentRow == [version : Versions \union {NoVersion}, text : Nat, revoked : BOOLEAN]

LegalTypeOK ==
    /\ legal \in [Versions -> LegalRow]
    /\ currentVersion \in Versions \union {NoVersion}
    /\ edit \in [Editors -> EditRow]
    /\ consent \in [Consents -> ConsentRow]

(* What no operation takes back: once approved, a text stays approved.      *)
Settled == {"APPROVED", "PUBLISHED", "REPLACED", "ARCHIVED"}

(* A row whose approved text is the given one, for good.                    *)
Stands(v, text) == v \in Versions /\ legal[v].status \in Settled /\ legal[v].approved = text

(* What a request read before its wait still holds when it writes.          *)
EditsHold ==
    \A e \in Editors :
        /\ edit[e].pc = "approving" => edit[e].version \in Versions /\ Valid(edit[e].text)
        /\ edit[e].pc = "publishing" =>
              /\ edit[e].version \in Versions
              /\ edit[e].status = "APPROVED" => Stands(edit[e].version, edit[e].text)

PublishedIsValid ==
    \A v \in Versions : legal[v].status = "PUBLISHED" => Valid(legal[v].approved)

ConsentsHold ==
    \A c \in Consents : consent[c] # NoConsent =>
        Stands(consent[c].version, consent[c].text) /\ Valid(consent[c].text)

LegalIInv ==
    LegalTypeOK /\ OneLegalVersionInForce /\ EditsHold /\ PublishedIsValid /\ ConsentsHold

LEMMA LegalInitial == LegalInit => LegalIInv
  <1> SUFFICES ASSUME LegalInit PROVE LegalIInv
    OBVIOUS
  <1>1. LegalTypeOK
    BY DEF LegalInit, LegalTypeOK, LegalRow, EditRow, ConsentRow, Absent, NoEdit, NoConsent
  <1>2. OneLegalVersionInForce /\ PublishedIsValid
    BY LegalAssumption DEF LegalInit, OneLegalVersionInForce, PublishedIsValid, Absent
  <1>3. EditsHold /\ ConsentsHold
    BY DEF LegalInit, EditsHold, ConsentsHold, NoEdit
  <1> QED BY <1>1, <1>2, <1>3 DEF LegalIInv

(* A step that keeps every approved text keeps what was read and agreed.    *)
LEMMA TextsKept ==
    ASSUME LegalIInv, UNCHANGED consent,
           \A v \in Versions : legal[v].status \in Settled =>
               legal'[v].status \in Settled /\ legal'[v].approved = legal[v].approved
    PROVE  /\ ConsentsHold'
           /\ \A v, text : Stands(v, text) => Stands(v, text)'
           /\ UNCHANGED edit => EditsHold'
  <1>1. \A v, text : Stands(v, text) => Stands(v, text)'
    BY DEF Stands
  <1>2. ConsentsHold'
    BY <1>1 DEF LegalIInv, ConsentsHold, Valid
  <1>3. UNCHANGED edit => EditsHold'
    BY <1>1 DEF LegalIInv, EditsHold, Valid
  <1> QED BY <1>1, <1>2, <1>3

(* A row written that is neither settled before nor published after.        *)
LEMMA OneLegalRowChanges ==
    ASSUME LegalIInv, NEW v \in Versions, NEW r \in LegalRow, legal' = [legal EXCEPT ![v] = r],
           legal[v].status \notin Settled, r.status # "PUBLISHED",
           UNCHANGED <<currentVersion, consent>>
    PROVE  /\ legal' \in [Versions -> LegalRow]
           /\ OneLegalVersionInForce' /\ PublishedIsValid' /\ ConsentsHold'
           /\ \A w, text : Stands(w, text) => Stands(w, text)'
           /\ UNCHANGED edit => EditsHold'
  <1>1. /\ legal' \in [Versions -> LegalRow]
        /\ legal'[v] = r
        /\ \A w \in Versions \ {v} : legal'[w] = legal[w]
    BY DEF LegalIInv, LegalTypeOK
  <1>2. OneLegalVersionInForce' /\ PublishedIsValid'
    BY <1>1 DEF LegalIInv, OneLegalVersionInForce, PublishedIsValid, Settled, Valid
  <1> QED BY <1>1, <1>2, TextsKept

LEMMA MoveStep ==
    ASSUME LegalIInv, NEW v \in Versions, NEW from \in SUBSET (LegalStatuses \ Settled),
           NEW to \in LegalStatuses \ {"PUBLISHED"}, Move(v, from, to)
    PROVE  LegalIInv'
  <1> DEFINE r == [legal[v] EXCEPT !.status = to]
  <1>1. legal[v] \in LegalRow /\ legal' = [legal EXCEPT ![v] = r]
    BY DEF Move, LegalIInv, LegalTypeOK
  <1>2. r \in LegalRow /\ r.status = to
    <2>1. \A q \in LegalRow : [q EXCEPT !.status = to] \in LegalRow
                              /\ [q EXCEPT !.status = to].status = to
      BY DEF LegalRow
    <2> QED BY <1>1, <2>1
  <1> HIDE DEF r
  <1> QED BY <1>1, <1>2, OneLegalRowChanges DEF Move, LegalIInv, LegalTypeOK

LEMMA DraftStep ==
    ASSUME LegalIInv, NEW text \in Nat,
           CreateVersion(text) \/ \E v \in Versions : UpdateDraft(v, text)
    PROVE  LegalIInv'
  <1>1. CASE CreateVersion(text)
    <2> DEFINE v == CHOOSE w \in Versions \ Numbered : TRUE
               r == [status |-> "DRAFT", draft |-> text, approved |-> 0]
    <2>1. /\ v \in Versions /\ legal[v].status = "ABSENT"
          /\ legal' = [legal EXCEPT ![v] = r]
      BY <1>1 DEF CreateVersion, Numbered
    <2>2. r \in LegalRow /\ r.status = "DRAFT"
      BY DEF LegalRow, LegalStatuses
    <2> HIDE DEF v, r
    <2> QED BY <1>1, <2>1, <2>2, OneLegalRowChanges
            DEF CreateVersion, LegalIInv, LegalTypeOK, Settled
  <1>2. ASSUME NEW v \in Versions, UpdateDraft(v, text) PROVE LegalIInv'
    <2> DEFINE r == [legal[v] EXCEPT !.draft = text]
    <2>1. /\ legal[v] \in LegalRow /\ legal[v].status = "DRAFT"
          /\ legal' = [legal EXCEPT ![v] = r]
      BY <1>2 DEF UpdateDraft, LegalIInv, LegalTypeOK
    <2>2. r \in LegalRow /\ r.status = "DRAFT"
      <3>1. \A q \in LegalRow : [q EXCEPT !.draft = text] \in LegalRow
                                /\ [q EXCEPT !.draft = text].status = q.status
        BY DEF LegalRow
      <3> QED BY <2>1, <3>1
    <2> HIDE DEF r
    <2> QED BY <1>2, <2>1, <2>2, OneLegalRowChanges
            DEF UpdateDraft, LegalIInv, LegalTypeOK, Settled
  <1> QED BY <1>1, <1>2

(* The first step of approve and of publish: what the request will go by.   *)
LEMMA ReadStep ==
    ASSUME LegalIInv, NEW e \in Editors, NEW v \in Versions, Approve(e, v) \/ Publish(e, v)
    PROVE  LegalIInv'
  <1> DEFINE r == IF Approve(e, v)
                  THEN [pc |-> "approving", version |-> v, status |-> "ABSENT",
                        text |-> legal[v].draft]
                  ELSE [pc |-> "publishing", version |-> v, status |-> legal[v].status,
                        text |-> legal[v].approved]
  <1>1. edit' = [edit EXCEPT ![e] = r] /\ UNCHANGED <<legal, currentVersion, consent>>
    BY DEF Approve, Publish, NoEdit
  <1>2. r \in EditRow
    BY DEF EditRow, LegalIInv, LegalTypeOK, LegalRow
  <1>3. /\ r.version = v
        /\ r.pc = "approving" => Valid(r.text)
        /\ r.pc = "publishing" /\ r.status = "APPROVED" => Stands(v, r.text)
    BY DEF Approve, Stands, Settled
  <1> HIDE DEF r
  <1>4. LegalTypeOK'
    BY <1>1, <1>2 DEF LegalIInv, LegalTypeOK
  <1>5. EditsHold'
    BY <1>1, <1>3, <1>4 DEF LegalIInv, LegalTypeOK, EditsHold, Stands, Valid
  <1>6. OneLegalVersionInForce' /\ PublishedIsValid' /\ ConsentsHold'
    BY <1>1 DEF LegalIInv, OneLegalVersionInForce, PublishedIsValid, ConsentsHold, Stands, Valid
  <1> QED BY <1>4, <1>5, <1>6 DEF LegalIInv

(* Only a version that still awaits approval takes the text that was read.  *)
LEMMA WriteApprovalStep ==
    ASSUME LegalIInv, NEW e \in Editors, WriteApproval(e) PROVE LegalIInv'
  <1> DEFINE v == edit[e].version
             r == [legal[v] EXCEPT !.status = "APPROVED", !.approved = edit[e].text]
  <1>1. v \in Versions /\ legal[v] \in LegalRow /\ edit[e] \in EditRow
    BY DEF WriteApproval, LegalIInv, LegalTypeOK, EditsHold
  <1>2. r \in LegalRow /\ r.status = "APPROVED"
    <2>1. \A q \in LegalRow, t \in Nat :
             LET a == [q EXCEPT !.status = "APPROVED", !.approved = t] IN
             a \in LegalRow /\ a.status = "APPROVED"
      BY DEF LegalRow, LegalStatuses
    <2> QED BY <1>1, <2>1 DEF EditRow
  <1>3. legal' = IF legal[v].status = "PENDING_APPROVAL" THEN [legal EXCEPT ![v] = r] ELSE legal
    BY DEF WriteApproval, Approvable
  <1> HIDE DEF r
  <1>4. /\ legal' \in [Versions -> LegalRow]
        /\ OneLegalVersionInForce' /\ PublishedIsValid' /\ ConsentsHold'
        /\ \A w, text : Stands(w, text) => Stands(w, text)'
    <2>1. CASE legal[v].status = "PENDING_APPROVAL"
      BY <1>1, <1>2, <1>3, <2>1, OneLegalRowChanges DEF WriteApproval, Settled
    <2>2. CASE legal[v].status # "PENDING_APPROVAL"
      BY <1>3, <2>2, TextsKept
         DEF WriteApproval, LegalIInv, LegalTypeOK, OneLegalVersionInForce, PublishedIsValid, Valid
    <2> QED BY <2>1, <2>2
  <1>5. edit' = [edit EXCEPT ![e] = NoEdit] /\ NoEdit \in EditRow /\ NoEdit.pc = "idle"
    BY DEF WriteApproval, NoEdit, EditRow
  <1>6. EditsHold'
    BY <1>4, <1>5 DEF LegalIInv, LegalTypeOK, EditsHold, Valid
  <1>7. LegalTypeOK'
    BY <1>4, <1>5 DEF WriteApproval, LegalIInv, LegalTypeOK
  <1> QED BY <1>4, <1>6, <1>7 DEF LegalIInv

(* The version published takes the place of whatever is current by then.    *)
LEMMA WritePublicationStep ==
    ASSUME LegalIInv, NEW e \in Editors, WritePublication(e) PROVE LegalIInv'
  <1> DEFINE v == edit[e].version
  <1>1. edit' = [edit EXCEPT ![e] = NoEdit] /\ NoEdit \in EditRow /\ NoEdit.pc = "idle"
    BY DEF WritePublication, NoEdit, EditRow
  <1>2. CASE edit[e].status = "APPROVED" /\ Valid(edit[e].text)
    <2>1. v \in Versions /\ Stands(v, edit[e].text) /\ legal \in [Versions -> LegalRow]
      BY <1>2 DEF WritePublication, LegalIInv, LegalTypeOK, EditsHold
    <2>2. ASSUME NEW w \in Versions
          PROVE  /\ legal'[w] \in LegalRow /\ legal'[w].approved = legal[w].approved
                 /\ legal'[w].status = IF w = v THEN "PUBLISHED"
                                       ELSE IF w = currentVersion THEN "REPLACED"
                                       ELSE legal[w].status
      <3>1. legal'[w] = IF w = v THEN [legal[w] EXCEPT !.status = "PUBLISHED"]
                        ELSE IF w = currentVersion THEN [legal[w] EXCEPT !.status = "REPLACED"]
                        ELSE legal[w]
        BY <1>2 DEF WritePublication, Superseded
      <3>2. \A q \in LegalRow, st \in {"PUBLISHED", "REPLACED"} :
               LET a == [q EXCEPT !.status = st] IN
               a \in LegalRow /\ a.status = st /\ a.approved = q.approved
        BY DEF LegalRow, LegalStatuses
      <3> QED BY <2>1, <3>1, <3>2
    <2>3. legal' \in [Versions -> LegalRow] /\ currentVersion' = v /\ UNCHANGED consent
      BY <1>2, <2>2 DEF WritePublication
    <2>4. OneLegalVersionInForce'
      BY <2>1, <2>2, <2>3 DEF LegalIInv, OneLegalVersionInForce
    <2>5. PublishedIsValid'
      <3> SUFFICES ASSUME NEW w \in Versions, legal'[w].status = "PUBLISHED"
                   PROVE  Valid(legal'[w].approved)
        BY DEF PublishedIsValid, Valid
      <3> QED BY <1>2, <2>1, <2>2 DEF LegalIInv, PublishedIsValid, Stands
    <2>6. /\ ConsentsHold'
          /\ \A w, text : Stands(w, text) => Stands(w, text)'
      BY <2>2, <2>3, TextsKept DEF Settled
    <2>7. EditsHold'
      BY <1>1, <2>6 DEF LegalIInv, LegalTypeOK, EditsHold, Valid
    <2>8. LegalTypeOK'
      BY <1>1, <2>1, <2>3 DEF LegalIInv, LegalTypeOK
    <2> QED BY <2>4, <2>5, <2>6, <2>7, <2>8 DEF LegalIInv
  <1>3. CASE ~(edit[e].status = "APPROVED" /\ Valid(edit[e].text))
    <2>1. UNCHANGED <<legal, currentVersion, consent>>
      BY <1>3 DEF WritePublication
    <2>2. EditsHold'
      BY <1>1, <2>1 DEF LegalIInv, LegalTypeOK, EditsHold, Stands, Valid
    <2>3. OneLegalVersionInForce' /\ PublishedIsValid' /\ ConsentsHold'
      BY <2>1 DEF LegalIInv, OneLegalVersionInForce, PublishedIsValid, ConsentsHold, Stands, Valid
    <2>4. LegalTypeOK'
      BY <1>1, <2>1 DEF LegalIInv, LegalTypeOK
    <2> QED BY <2>2, <2>3, <2>4 DEF LegalIInv
  <1> QED BY <1>2, <1>3

LEMMA ArchiveStep ==
    ASSUME LegalIInv, NEW v \in Versions, Archive(v) PROVE LegalIInv'
  <1>1. legal[v] \in LegalRow /\ legal \in [Versions -> LegalRow]
    BY DEF LegalIInv, LegalTypeOK
  <1>2. \A q \in LegalRow : LET a == [q EXCEPT !.status = "ARCHIVED"] IN
           a \in LegalRow /\ a.status = "ARCHIVED" /\ a.approved = q.approved
    BY DEF LegalRow, LegalStatuses
  <1>3. /\ legal' \in [Versions -> LegalRow]
        /\ legal'[v].status = "ARCHIVED" /\ legal'[v].approved = legal[v].approved
        /\ \A w \in Versions \ {v} : legal'[w] = legal[w]
    BY <1>1, <1>2 DEF Archive
  <1>4. UNCHANGED <<edit, consent>>
        /\ currentVersion' = IF currentVersion = v THEN NoVersion ELSE currentVersion
    BY DEF Archive
  <1>5. OneLegalVersionInForce'
    BY <1>3, <1>4, LegalAssumption DEF LegalIInv, OneLegalVersionInForce
  <1>6. PublishedIsValid'
    BY <1>3 DEF LegalIInv, PublishedIsValid, Valid
  <1>7. ConsentsHold' /\ EditsHold'
    <2>1. \A w \in Versions : legal[w].status \in Settled =>
              legal'[w].status \in Settled /\ legal'[w].approved = legal[w].approved
      BY <1>3 DEF Settled
    <2> QED BY <1>4, <2>1, TextsKept
  <1>8. LegalTypeOK'
    BY <1>3, <1>4 DEF LegalIInv, LegalTypeOK
  <1> QED BY <1>5, <1>6, <1>7, <1>8 DEF LegalIInv

(* A titular is shown a version in force, and what was shown is recorded.   *)
LEMMA ConsentStep ==
    ASSUME LegalIInv, NEW c \in Consents, RecordConsent(c) \/ RevokeConsent(c)
    PROVE  LegalIInv'
  <1>1. UNCHANGED <<legal, currentVersion, edit>>
    BY DEF RecordConsent, RevokeConsent
  <1>2. PICK r \in ConsentRow :
           /\ consent' = [consent EXCEPT ![c] = r]
           /\ Stands(r.version, r.text) /\ Valid(r.text)
    <2>1. CASE RecordConsent(c)
      <3>1. PICK v \in Readable : consent' = [consent EXCEPT ![c] =
                                    [version |-> v, text |-> legal[v].approved, revoked |-> FALSE]]
        BY <2>1 DEF RecordConsent
      <3>2. v \in Versions /\ legal[v] \in LegalRow /\ legal[v].status = "PUBLISHED"
        BY DEF Readable, LegalIInv, LegalTypeOK
      <3>3. Stands(v, legal[v].approved) /\ Valid(legal[v].approved)
        BY <3>2 DEF LegalIInv, PublishedIsValid, Stands, Settled
      <3>4. [version |-> v, text |-> legal[v].approved, revoked |-> FALSE] \in ConsentRow
        BY <3>2 DEF ConsentRow, LegalRow
      <3> QED BY <3>1, <3>3, <3>4
    <2>2. CASE RevokeConsent(c)
      <3>1. \A q \in ConsentRow : LET a == [q EXCEPT !.revoked = TRUE] IN
               a \in ConsentRow /\ a.version = q.version /\ a.text = q.text
        BY DEF ConsentRow
      <3>2. consent[c] \in ConsentRow /\ consent[c] # NoConsent
            /\ consent' = [consent EXCEPT ![c] = [consent[c] EXCEPT !.revoked = TRUE]]
        BY <2>2 DEF RevokeConsent, LegalIInv, LegalTypeOK
      <3>3. Stands(consent[c].version, consent[c].text) /\ Valid(consent[c].text)
        BY <3>2 DEF LegalIInv, ConsentsHold
      <3> QED BY <3>1, <3>2, <3>3
    <2> QED BY <2>1, <2>2
  <1>3. LegalTypeOK'
    BY <1>1, <1>2 DEF LegalIInv, LegalTypeOK
  <1>4. ConsentsHold'
    BY <1>1, <1>2 DEF LegalIInv, LegalTypeOK, ConsentsHold, Stands, Valid
  <1>5. OneLegalVersionInForce' /\ PublishedIsValid' /\ EditsHold'
    BY <1>1 DEF LegalIInv, OneLegalVersionInForce, PublishedIsValid, EditsHold, Stands, Valid
  <1> QED BY <1>3, <1>4, <1>5 DEF LegalIInv

LEMMA LegalStep ==
    ASSUME LegalIInv, [LegalNext]_legalVars PROVE LegalIInv'
  <1> USE LegalAssumption
  <1>1. ASSUME NEW text \in 1..MaxTexts, CreateVersion(text) PROVE LegalIInv'
    BY <1>1, DraftStep
  <1>2. ASSUME NEW v \in Numbered, NEW text \in 1..MaxTexts, UpdateDraft(v, text) PROVE LegalIInv'
    BY <1>2, DraftStep DEF Numbered
  <1>3. ASSUME NEW v \in Numbered, SubmitForReview(v) \/ SubmitForApproval(v) \/ Reject(v)
        PROVE  LegalIInv'
    <2>1. v \in Versions
      BY DEF Numbered
    <2>2. PICK from \in SUBSET (LegalStatuses \ Settled), to \in LegalStatuses \ {"PUBLISHED"} :
              Move(v, from, to)
      BY <1>3 DEF SubmitForReview, SubmitForApproval, Reject, LegalStatuses, Settled
    <2> QED BY <2>1, <2>2, MoveStep
  <1>4. ASSUME NEW v \in Numbered, Archive(v) PROVE LegalIInv'
    BY <1>4, ArchiveStep DEF Numbered
  <1>5. ASSUME NEW v \in Numbered, NEW e \in Editors, Approve(e, v) \/ Publish(e, v)
        PROVE  LegalIInv'
    BY <1>5, ReadStep DEF Numbered
  <1>6. ASSUME NEW e \in Editors, WriteApproval(e) \/ WritePublication(e) PROVE LegalIInv'
    BY <1>6, WriteApprovalStep, WritePublicationStep
  <1>7. ASSUME NEW c \in Consents, RecordConsent(c) \/ RevokeConsent(c) PROVE LegalIInv'
    BY <1>7, ConsentStep
  <1>8. CASE UNCHANGED legalVars
    BY <1>8 DEF legalVars, LegalIInv, LegalTypeOK, OneLegalVersionInForce, EditsHold,
                PublishedIsValid, ConsentsHold, Stands, Valid
  <1> QED BY <1>1, <1>2, <1>3, <1>4, <1>5, <1>6, <1>7, <1>8 DEF LegalNext

(* legal-documents.service.ts and consent.service.ts: whatever is drafted,  *)
(* approved, published and archived at once, the document's current version *)
(* is its one PUBLISHED version, and a text consented to is valid and       *)
(* stands.                                                                  *)
THEOREM LegalTextsStandCorrect == LegalSpec => []LegalTextsStand
  <1>1. LegalInit => LegalIInv
    BY LegalInitial
  <1>2. LegalIInv /\ [LegalNext]_legalVars => LegalIInv'
    BY LegalStep
  <1>3. LegalIInv => LegalTextsStand
    <2>1. LegalIInv => ConsentedTextStands
      BY DEF LegalIInv, ConsentsHold, ConsentedTextStands, Stands
    <2> QED BY <2>1 DEF LegalIInv, LegalTextsStand
  <1> QED BY <1>1, <1>2, <1>3, PTL DEF LegalSpec
-----------------------------------------------------------------------------
(* Contracts.                                                               *)

HandlerRow ==
    [pc : {"idle", "writing", "inserting", "accepting"}, number : Numbers \union {0},
     plan : Offers \union {NoOffer}, signer : Signers \union {NoSigner},
     required : SUBSET Signers, activates : BOOLEAN]

DocumentRow == [by : Handlers \union {"nobody"}, plan : Offers \union {NoOffer}]

ContractsTypeOK ==
    /\ contract \in [status : ContractStatuses, current : Numbers \union {0}]
    /\ document \in [Numbers -> DocumentRow]
    /\ signer \in [Signers -> Numbers \union {0}]
    /\ accepted \in [Signers -> {0, 1}]
    /\ handler \in [Handlers -> HandlerRow]
    /\ counted \in SUBSET Signers

(* A request that found everybody else had accepted is right as long as its *)
(* own acceptance is the one missing.                                       *)
AcceptanceHolds(h) ==
    handler[h].pc = "accepting" =>
        /\ handler[h].signer \in Signers
        /\ accepted[handler[h].signer] = 0
        /\ handler[h].activates =>
              \A t \in handler[h].required : t # handler[h].signer => accepted[t] = 1

OneAcceptanceEach ==
    \A h, k \in Handlers :
        handler[h].pc = "accepting" /\ handler[k].pc = "accepting"
            /\ handler[h].signer = handler[k].signer => h = k

ActiveIsAgreed == contract.status = "ACTIVE" => \A s \in counted : accepted[s] = 1

SoldOffers == pastOffers \union {offer, NoOffer}

PinsWereSold ==
    /\ \A n \in Numbers : document[n].plan \in SoldOffers
    /\ \A h \in Handlers : handler[h].plan \in SoldOffers

ContractsIInv ==
    /\ ContractsTypeOK /\ ActiveIsAgreed /\ PinsWereSold
    /\ (\A h \in Handlers : AcceptanceHolds(h)) /\ OneAcceptanceEach

LEMMA RestingType == Resting \in HandlerRow /\ Resting.pc = "idle" /\ Resting.plan = NoOffer
  BY DEF Resting, HandlerRow

LEMMA ContractsInitial == ContractsInit => ContractsIInv
  <1> SUFFICES ASSUME ContractsInit PROVE ContractsIInv
    OBVIOUS
  <1>1. ContractsTypeOK
    BY RestingType DEF ContractsInit, ContractInit, ContractsTypeOK, ContractStatuses,
                       DocumentRow, NoDocument
  <1>2. ActiveIsAgreed /\ (\A h \in Handlers : AcceptanceHolds(h)) /\ OneAcceptanceEach
    BY RestingType DEF ContractsInit, ContractInit, ActiveIsAgreed, AcceptanceHolds,
                       OneAcceptanceEach
  <1>3. PinsWereSold
    BY RestingType DEF ContractsInit, ContractInit, PinsWereSold, SoldOffers, NoDocument
  <1> QED BY <1>1, <1>2, <1>3 DEF ContractsIInv

(* One request changes what it holds, and is not accepting afterwards.      *)
LEMMA HandlerChanges ==
    ASSUME ContractsIInv, NEW h \in Handlers, NEW r \in HandlerRow,
           handler' = [handler EXCEPT ![h] = r],
           r.pc # "accepting", r.plan \in SoldOffers, UNCHANGED <<accepted, offerVars>>
    PROVE  /\ handler' \in [Handlers -> HandlerRow]
           /\ \A k \in Handlers : AcceptanceHolds(k)'
           /\ OneAcceptanceEach'
           /\ \A k \in Handlers : handler'[k].plan \in SoldOffers'
  <1>1. /\ handler' \in [Handlers -> HandlerRow]
        /\ handler'[h] = r
        /\ \A k \in Handlers \ {h} : handler'[k] = handler[k]
    BY DEF ContractsIInv, ContractsTypeOK
  <1>2. \A k \in Handlers : AcceptanceHolds(k)'
    BY <1>1 DEF ContractsIInv, AcceptanceHolds
  <1>3. OneAcceptanceEach'
    BY <1>1 DEF ContractsIInv, OneAcceptanceEach
  <1>4. \A k \in Handlers : handler'[k].plan \in SoldOffers'
    BY <1>1 DEF ContractsIInv, PinsWereSold, SoldOffers, offerVars
  <1> QED BY <1>1, <1>2, <1>3, <1>4

(* A version pins the plan version in force when its upload began, or none. *)
LEMMA UploadStep ==
    ASSUME ContractsIInv, NEW h \in Handlers, UNCHANGED offerVars,
           (\E p \in Offers \union {NoOffer} : UploadVersion(h, p))
               \/ WriteFile(h) \/ InsertVersion(h) \/ AbortHandler(h)
    PROVE  ContractsIInv'
  <1>1. UNCHANGED <<signer, accepted, counted>>
    BY DEF UploadVersion, WriteFile, InsertVersion, AbortHandler
  <1>2. handler[h] \in HandlerRow /\ handler[h].plan \in SoldOffers
    BY DEF ContractsIInv, ContractsTypeOK, PinsWereSold
  <1>3. PICK r \in HandlerRow :
           /\ handler' = [handler EXCEPT ![h] = r]
           /\ r.pc # "accepting" /\ r.plan \in SoldOffers
    <2>1. ASSUME NEW p \in Offers \union {NoOffer}, UploadVersion(h, p)
          PROVE  \E r \in HandlerRow : /\ handler' = [handler EXCEPT ![h] = r]
                                       /\ r.pc # "accepting" /\ r.plan \in SoldOffers
      <3> DEFINE r == [Resting EXCEPT !.pc = "writing", !.number = Latest + 1, !.plan = p]
      <3>1. \A n \in Numbers : LET q == [Resting EXCEPT !.pc = "writing", !.number = n, !.plan = p]
                               IN q \in HandlerRow /\ q.pc = "writing" /\ q.plan = p
        BY DEF Resting, HandlerRow
      <3>2. p \in SoldOffers /\ Latest + 1 \in Numbers
        BY <2>1 DEF UploadVersion, MayPin, SoldOffers
      <3>3. handler' = [handler EXCEPT ![h] = r]
        BY <2>1 DEF UploadVersion
      <3>4. r \in HandlerRow /\ r.pc = "writing" /\ r.plan = p
        BY <3>1, <3>2
      <3> HIDE DEF r
      <3> QED BY <3>2, <3>3, <3>4
    <2>2. CASE WriteFile(h)
      <3>1. \A q \in HandlerRow : LET a == [q EXCEPT !.pc = "inserting"] IN
               a \in HandlerRow /\ a.pc = "inserting" /\ a.plan = q.plan
        BY DEF HandlerRow
      <3>2. handler' = [handler EXCEPT ![h] = [handler[h] EXCEPT !.pc = "inserting"]]
        BY <2>2 DEF WriteFile
      <3> QED BY <1>2, <3>1, <3>2
    <2>3. CASE InsertVersion(h) \/ AbortHandler(h)
      BY <2>3, RestingType DEF InsertVersion, AbortHandler, Rest, SoldOffers
    <2> QED BY <2>1, <2>2, <2>3
  <1>4. /\ document' \in [Numbers -> DocumentRow]
        /\ \A n \in Numbers : document'[n].plan \in SoldOffers'
        /\ contract' \in [status : ContractStatuses, current : Numbers \union {0}]
        /\ contract'.status = contract.status
    <2> USE DEF ContractsIInv, ContractsTypeOK, PinsWereSold, SoldOffers, offerVars
    <2>1. CASE UNCHANGED <<document, contract>>
      BY <2>1
    <2>2. CASE InsertVersion(h) /\ document[handler[h].number] = NoDocument
      <3> DEFINE n == handler[h].number
                 d == [by |-> h, plan |-> handler[h].plan]
      <3>1. document' = [document EXCEPT ![n] = d] /\ contract' = [contract EXCEPT !.current = n]
        BY <2>2 DEF InsertVersion
      <3>2. d \in DocumentRow /\ d.plan \in SoldOffers /\ n \in Numbers \union {0}
        BY <1>2 DEF DocumentRow, HandlerRow
      <3> HIDE DEF d, n
      <3>3. contract' \in [status : ContractStatuses, current : Numbers \union {0}]
            /\ contract'.status = contract.status
        BY <3>1, <3>2
      <3>4. document' \in [Numbers -> DocumentRow]
        BY <3>1, <3>2
      <3>5. \A m \in Numbers : document'[m] = IF m = n THEN d ELSE document[m]
        BY <3>1
      <3> QED BY <3>2, <3>3, <3>4, <3>5
    <2> QED BY <2>1, <2>2 DEF UploadVersion, WriteFile, InsertVersion, AbortHandler
  <1>5. /\ handler' \in [Handlers -> HandlerRow]
        /\ (\A k \in Handlers : AcceptanceHolds(k)') /\ OneAcceptanceEach'
        /\ \A k \in Handlers : handler'[k].plan \in SoldOffers'
    BY <1>1, <1>3, HandlerChanges
  <1>6. ContractsTypeOK'
    BY <1>1, <1>4, <1>5 DEF ContractsIInv, ContractsTypeOK
  <1>7. ActiveIsAgreed'
    BY <1>1, <1>4 DEF ContractsIInv, ActiveIsAgreed
  <1>8. PinsWereSold'
    BY <1>4, <1>5 DEF PinsWereSold
  <1> QED BY <1>5, <1>6, <1>7, <1>8 DEF ContractsIInv

LEMMA AddSignerStep ==
    ASSUME ContractsIInv, NEW s \in Signers, NEW n \in Numbers, AddSigner(s, n),
           UNCHANGED offerVars
    PROVE  ContractsIInv'
  <1>1. ContractsTypeOK'
    BY DEF AddSigner, ContractsIInv, ContractsTypeOK
  <1> QED BY <1>1 DEF AddSigner, ContractsIInv, ActiveIsAgreed, PinsWereSold, SoldOffers,
                      AcceptanceHolds, OneAcceptanceEach, offerVars

(* The acceptances counted are as many as the other signers only when all   *)
(* of them have accepted.                                                   *)
LEMMA EverybodyElseAccepted ==
    ASSUME ContractsTypeOK, NEW n \in Numbers, NEW s \in Required(n), accepted[s] = 0,
           Cardinality(Acceptances(n)) + 1 >= Cardinality(Required(n))
    PROVE  \A t \in Required(n) : t # s => accepted[t] = 1
  <1> DEFINE A == {t \in Required(n) : accepted[t] = 1}
             others == Required(n) \ {s}
  <1>1. IsFiniteSet(Required(n)) /\ Required(n) \in SUBSET Signers
    BY ContractsAssumption, FS_Subset DEF Required
  <1>2. /\ IsFiniteSet(others) /\ Cardinality(others) = Cardinality(Required(n)) - 1
        /\ Cardinality(Required(n)) \in Nat
    BY <1>1, FS_RemoveElement, FS_CardinalityType
  <1>3. A \in SUBSET others
    BY <1>1 DEF ContractsTypeOK
  <1>4. IsFiniteSet(A) /\ Cardinality(A) <= Cardinality(others)
        /\ (Cardinality(others) = Cardinality(A) => others = A)
    BY <1>2, <1>3, FS_Subset
  <1>5. Acceptances(n) = {<<t, 1>> : t \in A}
    <2>1. \A t \in Required(n) : accepted[t] \in {0, 1}
      BY <1>1 DEF ContractsTypeOK
    <2>2. \A t \in Required(n) : {t} \X (1..accepted[t])
                                     = IF accepted[t] = 1 THEN {<<t, 1>>} ELSE {}
      BY <2>1
    <2> QED BY <2>2 DEF Acceptances
  <1>6. Cardinality(Acceptances(n)) <= Cardinality(A) /\ Cardinality(Acceptances(n)) \in Nat
    <2> DEFINE f == [t \in A |-> <<t, 1>>]
               R == {<<t, 1>> : t \in A}
    <2>1. f \in Surjection(A, R)
      BY DEF Surjection
    <2>2. IsFiniteSet(R) /\ Cardinality(R) <= Cardinality(A)
      BY <1>4, <2>1, FS_Surjection
    <2> QED BY <1>5, <2>2, FS_CardinalityType
  <1>7. Cardinality(others) = Cardinality(A)
    BY <1>2, <1>4, <1>6, FS_CardinalityType
  <1> QED BY <1>4, <1>7

(* The second acceptance of a signer waits for the first, so whoever counts *)
(* now is the only one who accepts for this signer.                         *)
LEMMA RecordAcceptanceStep ==
    ASSUME ContractsIInv, NEW h \in Handlers, NEW s \in Signers, RecordAcceptance(h, s),
           UNCHANGED offerVars
    PROVE  ContractsIInv'
  <1> DEFINE n == signer[s]
             all == Cardinality(Acceptances(n)) + 1 >= Cardinality(Required(n))
             r == [Resting EXCEPT !.pc = "accepting", !.number = n, !.signer = s,
                                  !.required = Required(n), !.activates = all]
  <1>1. /\ n \in Numbers /\ accepted[s] = 0 /\ ~Inserting(s)
        /\ handler' = [handler EXCEPT ![h] = r]
        /\ UNCHANGED <<contract, document, signer, accepted, counted>>
    BY DEF RecordAcceptance, MayAccept, ContractsIInv, ContractsTypeOK
  <1>2. s \in Required(n) /\ Required(n) \in SUBSET Signers
    BY DEF Required
  <1>3. /\ r \in HandlerRow /\ r.pc = "accepting" /\ r.signer = s /\ r.plan = NoOffer
        /\ r.required = Required(n) /\ r.activates = all
    <2>1. all \in BOOLEAN
      OBVIOUS
    <2> HIDE DEF all
    <2> QED BY <1>1, <1>2, <2>1 DEF Resting, HandlerRow
  <1>4. r.activates => \A t \in r.required : t # s => accepted[t] = 1
    BY <1>1, <1>2, <1>3, EverybodyElseAccepted DEF ContractsIInv
  <1> HIDE DEF r
  <1>5. /\ handler' \in [Handlers -> HandlerRow]
        /\ handler'[h] = r
        /\ \A k \in Handlers \ {h} : handler'[k] = handler[k]
    BY <1>1, <1>3 DEF ContractsIInv, ContractsTypeOK
  <1>6. \A k \in Handlers : AcceptanceHolds(k)'
    BY <1>1, <1>3, <1>4, <1>5 DEF ContractsIInv, AcceptanceHolds
  <1>7. OneAcceptanceEach'
    BY <1>1, <1>3, <1>5 DEF ContractsIInv, OneAcceptanceEach, Inserting
  <1>8. ContractsTypeOK' /\ ActiveIsAgreed'
    BY <1>1, <1>5 DEF ContractsIInv, ContractsTypeOK, ActiveIsAgreed
  <1>9. PinsWereSold'
    BY <1>1, <1>3, <1>5 DEF ContractsIInv, PinsWereSold, SoldOffers, offerVars
  <1> QED BY <1>6, <1>7, <1>8, <1>9 DEF ContractsIInv

LEMMA CommitAcceptanceStep ==
    ASSUME ContractsIInv, NEW h \in Handlers, CommitAcceptance(h), UNCHANGED offerVars
    PROVE  ContractsIInv'
  <1> DEFINE s == handler[h].signer
  <1>1. s \in Signers /\ accepted[s] = 0 /\ handler[h] \in HandlerRow
    BY DEF CommitAcceptance, ContractsIInv, ContractsTypeOK, AcceptanceHolds
  <1>2. /\ accepted' \in [Signers -> {0, 1}] /\ accepted'[s] = 1
        /\ \A t \in Signers \ {s} : accepted'[t] = accepted[t]
    BY <1>1 DEF CommitAcceptance, ContractsIInv, ContractsTypeOK
  <1>3. /\ handler' \in [Handlers -> HandlerRow]
        /\ handler'[h].pc = "idle" /\ handler'[h].plan = NoOffer
        /\ \A k \in Handlers \ {h} : handler'[k] = handler[k]
    BY RestingType DEF CommitAcceptance, Rest, ContractsIInv, ContractsTypeOK
  <1>4. /\ contract' \in [status : ContractStatuses, current : Numbers \union {0}]
        /\ counted' \in SUBSET Signers
    BY <1>1 DEF CommitAcceptance, ContractsIInv, ContractsTypeOK, ContractStatuses, HandlerRow
  <1>5. ContractsTypeOK'
    BY <1>2, <1>3, <1>4 DEF CommitAcceptance, ContractsIInv, ContractsTypeOK
  <1>6. ActiveIsAgreed'
    <2>1. CASE handler[h].activates
      <3>1. \A t \in counted' : t \in Signers /\ (t # s => accepted[t] = 1)
        BY <1>1, <2>1 DEF CommitAcceptance, ContractsIInv, AcceptanceHolds, HandlerRow
      <3> QED BY <1>2, <3>1 DEF ActiveIsAgreed
    <2>2. CASE ~handler[h].activates
      BY <1>1, <1>2, <2>2 DEF CommitAcceptance, ContractsIInv, ContractsTypeOK, ActiveIsAgreed
    <2> QED BY <2>1, <2>2
  <1>7. \A k \in Handlers : AcceptanceHolds(k)'
    <2> SUFFICES ASSUME NEW k \in Handlers, handler'[k].pc = "accepting"
                 PROVE  AcceptanceHolds(k)'
      BY DEF AcceptanceHolds
    <2>1. k # h /\ handler'[k] = handler[k] /\ handler[k].signer # s
      BY <1>3 DEF CommitAcceptance, ContractsIInv, OneAcceptanceEach
    <2>2. handler[k] \in HandlerRow
      BY DEF ContractsIInv, ContractsTypeOK
    <2>3. \A t \in Signers : accepted[t] = 1 => accepted'[t] = 1
      BY <1>1, <1>2
    <2>4. AcceptanceHolds(k)
      BY DEF ContractsIInv
    <2> QED BY <1>2, <2>1, <2>2, <2>3, <2>4 DEF AcceptanceHolds, HandlerRow
  <1>8. OneAcceptanceEach'
    BY <1>3 DEF ContractsIInv, OneAcceptanceEach
  <1>9. PinsWereSold'
    BY <1>3 DEF CommitAcceptance, ContractsIInv, PinsWereSold, SoldOffers, offerVars
  <1> QED BY <1>5, <1>6, <1>7, <1>8, <1>9 DEF ContractsIInv

LEMMA TransitionStep ==
    ASSUME ContractsIInv, NEW status \in ContractStatuses, Transition(status),
           UNCHANGED offerVars
    PROVE  ContractsIInv'
  <1>1. contract' \in [status : ContractStatuses, current : Numbers \union {0}]
        /\ contract'.status # "ACTIVE"
    BY DEF Transition, ContractsIInv, ContractsTypeOK
  <1>2. ContractsTypeOK'
    BY <1>1 DEF Transition, ContractsIInv, ContractsTypeOK
  <1> QED BY <1>1, <1>2 DEF Transition, ContractsIInv, ActiveIsAgreed, PinsWereSold, SoldOffers,
                            AcceptanceHolds, OneAcceptanceEach, offerVars

(* What the plan sold once stays sold.                                      *)
LEMMA OfferStep ==
    ASSUME ContractsIInv, Plan!PublishedNext, UNCHANGED contractVars PROVE ContractsIInv'
  <1>1. SoldOffers \subseteq SoldOffers'
    BY DEF Plan!PublishedNext, Plan!Publish, Plan!Withdraw, Plan!InForce, SoldOffers
  <1>2. PinsWereSold'
    BY <1>1 DEF contractVars, ContractsIInv, PinsWereSold
  <1> QED BY <1>2 DEF contractVars, ContractsIInv, ContractsTypeOK, ActiveIsAgreed,
                      AcceptanceHolds, OneAcceptanceEach

LEMMA ContractsStep ==
    ASSUME ContractsIInv, [ContractsNext]_<<offerVars, contractVars>> PROVE ContractsIInv'
  <1>1. CASE ContractNext /\ UNCHANGED offerVars
    BY <1>1, UploadStep, AddSignerStep, RecordAcceptanceStep, CommitAcceptanceStep,
       TransitionStep DEF ContractNext
  <1>2. CASE Plan!PublishedNext /\ UNCHANGED contractVars
    BY <1>2, OfferStep
  <1>3. CASE UNCHANGED <<offerVars, contractVars>>
    BY <1>3 DEF offerVars, contractVars, ContractsIInv, ContractsTypeOK, ActiveIsAgreed,
                PinsWereSold, SoldOffers, AcceptanceHolds, OneAcceptanceEach
  <1> QED BY <1>1, <1>2, <1>3 DEF ContractsNext

(* contracts.service.ts recordAcceptance and uploadVersion: with any number *)
(* of signers accepting at once, an active contract was accepted by every   *)
(* signer counted, each once, and no version pins a plan version that was   *)
(* never in force.                                                          *)
THEOREM ContractsBindCorrect == ContractsSpec => []ContractsBindWhatWasAgreed
  <1>1. ContractsInit => ContractsIInv
    BY ContractsInitial
  <1>2. ContractsIInv /\ [ContractsNext]_<<offerVars, contractVars>> => ContractsIInv'
    BY ContractsStep
  <1>3. ContractsIInv => ContractsBindWhatWasAgreed
    BY DEF ContractsIInv, ActiveIsAgreed, PinsWereSold, SoldOffers, ContractsBindWhatWasAgreed
  <1> QED BY <1>1, <1>2, <1>3, PTL DEF ContractsSpec
-----------------------------------------------------------------------------
(* The knowledge base.                                                      *)

ArticleStatuses == {"ABSENT", "DRAFT", "REVIEW", "APPROVED", "PUBLISHED", "RETIRED"}

Publication == [pc : {"idle", "waiting", "locked"}, version : Articles \union {NoArticle},
                previous : SUBSET Articles]

SearchRow == [pc : {"idle", "found", "answered"}, scope : Scopes, found : SUBSET AllVersions,
              cited : SUBSET AllVersions,
              outcome : {"NO_EVIDENCE", "SUFFICIENT_EVIDENCE", "PARTIAL_EVIDENCE",
                         "SOURCE_CONFLICT"}]

ArticleTypeOK ==
    /\ article \in [Articles -> ArticleStatuses]
    /\ curator \in [Curators -> Publication]
    /\ search \in SearchRow

OneArticlePublished == \A v, w \in Published : v = w

OneLocks == \A c, d \in Curators :
                curator[c].pc = "locked" /\ curator[d].pc = "locked" => c = d

(* What the publication that holds the item listed still covers all that is *)
(* in force, and nothing else but what was retired meanwhile.               *)
ListHolds(c) ==
    /\ curator[c].pc # "idle" => curator[c].version \in Articles
    /\ curator[c].pc = "locked" =>
          /\ Published \ {curator[c].version} \subseteq curator[c].previous
          /\ curator[c].version \notin curator[c].previous
          /\ \A w \in curator[c].previous : article[w] \in {"PUBLISHED", "RETIRED"}

KnowledgeIInv ==
    /\ ArticleTypeOK /\ OneArticlePublished /\ OneLocks
    /\ (\A c \in Curators : ListHolds(c))
    /\ AnswersAreGrounded

(* The current version and the past ones, as the abstract catalogue has them. *)
CurrentArticle == IF Published = {} THEN NoArticle ELSE CHOOSE v \in Published : TRUE

PastArticles == {v \in Articles : article[v] = "RETIRED"}

LEMMA CurrentIsPublished ==
    ASSUME OneArticlePublished
    PROVE  /\ Published = {} => CurrentArticle = NoArticle
           /\ \A v \in Published : CurrentArticle = v
           /\ CurrentArticle # NoArticle => CurrentArticle \in Published
           /\ {CurrentArticle} \ {NoArticle} = Published
  <1>1. Published # {} => CurrentArticle \in Published
    BY DEF CurrentArticle
  <1>2. \A v \in Published : v # NoArticle
    BY KnowledgeAssumption DEF Published
  <1> QED BY <1>1, <1>2 DEF CurrentArticle, OneArticlePublished

LEMMA CurrentIsPublishedNext ==
    ASSUME OneArticlePublished'
    PROVE  /\ Published' = {} => CurrentArticle' = NoArticle
           /\ \A v \in Published' : CurrentArticle' = v
  <1>1. Published' # {} => CurrentArticle' \in Published'
    BY DEF CurrentArticle
  <1> QED BY <1>1 DEF CurrentArticle, OneArticlePublished

LEMMA RanksAreNumbers == \A c \in Classifications : Rank[c] \in Nat
  BY DEF Classifications, Rank

LEMMA ClearancesAreClassifications == \A a \in Audiences : Clearance[a] \in Classifications
  BY DEF Audiences, Classifications, Clearance

LEMMA NoPublicationType ==
    NoPublication \in Publication /\ NoPublication.pc = "idle"
  BY DEF NoPublication, Publication

LEMMA NoSearchType == NoSearch \in SearchRow /\ NoSearch.pc = "idle"
  <1>1. [audience |-> "PUBLIC", maximum |-> "PUBLIC"] \in Scopes
    BY DEF Scopes, Audiences, Classifications, Clearance, Rank
  <1> QED BY <1>1 DEF NoSearch, SearchRow

LEMMA KnowledgeInitial == KnowledgeInit => KnowledgeIInv /\ ArticleCatalogue!PublishedInit
  <1> SUFFICES ASSUME KnowledgeInit PROVE KnowledgeIInv /\ ArticleCatalogue!PublishedInit
    OBVIOUS
  <1>1. Published = {} /\ PastArticles = {}
    BY DEF KnowledgeInit, Published, PastArticles
  <1>2. ArticleTypeOK
    BY NoPublicationType, NoSearchType DEF KnowledgeInit, ArticleTypeOK, ArticleStatuses
  <1>3. OneArticlePublished /\ OneLocks /\ \A c \in Curators : ListHolds(c)
    BY <1>1, NoPublicationType DEF KnowledgeInit, OneArticlePublished, OneLocks, ListHolds
  <1>4. AnswersAreGrounded
    BY NoSearchType DEF KnowledgeInit, AnswersAreGrounded
  <1>5. ArticleCatalogue!PublishedInit
    BY <1>1 DEF ArticleCatalogue!PublishedInit, PastArticles
  <1> QED BY <1>2, <1>3, <1>4, <1>5 DEF KnowledgeIInv

(* A version that is not in force passes on, and none comes into force.     *)
LEMMA PassesStep ==
    ASSUME KnowledgeIInv, NEW v \in Articles,
           NEW from \in SUBSET {"ABSENT", "DRAFT", "REVIEW", "APPROVED"},
           NEW to \in {"DRAFT", "REVIEW", "APPROVED"}, Passes(v, from, to)
    PROVE  KnowledgeIInv' /\ UNCHANGED ArticleCatalogue!promised
  <1>1. /\ article' \in [Articles -> ArticleStatuses]
        /\ article'[v] = to /\ \A w \in Articles \ {v} : article'[w] = article[w]
        /\ article[v] \in from /\ UNCHANGED <<curator, search>>
    BY DEF Passes, KnowledgeIInv, ArticleTypeOK, ArticleStatuses
  <1>2. Published' = Published /\ PastArticles' = PastArticles
    BY <1>1 DEF Published, PastArticles
  <1>3. ArticleTypeOK' /\ OneArticlePublished' /\ OneLocks' /\ AnswersAreGrounded'
    BY <1>1, <1>2 DEF KnowledgeIInv, ArticleTypeOK, OneArticlePublished, OneLocks,
                      AnswersAreGrounded
  <1>4. ASSUME NEW c \in Curators PROVE ListHolds(c)'
    <2>1. curator[c].previous \subseteq Articles
      BY DEF KnowledgeIInv, ArticleTypeOK, Publication
    <2>2. ListHolds(c)
      BY DEF KnowledgeIInv
    <2> QED BY <1>1, <1>2, <2>1, <2>2 DEF ListHolds
  <1>5. UNCHANGED ArticleCatalogue!promised
    BY <1>2 DEF ArticleCatalogue!promised, PastArticles
  <1> QED BY <1>3, <1>4, <1>5 DEF KnowledgeIInv

LEMMA RetireStep ==
    ASSUME KnowledgeIInv, NEW v \in Articles, Retire(v)
    PROVE  KnowledgeIInv' /\ ArticleCatalogue!Withdraw(v)
  <1>1. /\ article' \in [Articles -> ArticleStatuses]
        /\ article'[v] = "RETIRED" /\ \A w \in Articles \ {v} : article'[w] = article[w]
        /\ article[v] \in {"APPROVED", "PUBLISHED"} /\ UNCHANGED <<curator, search>>
    BY DEF Retire, Passes, KnowledgeIInv, ArticleTypeOK, ArticleStatuses
  <1>2. Published' = Published \ {v} /\ PastArticles' = PastArticles \union {v}
    BY <1>1 DEF Published, PastArticles
  <1>3. ArticleTypeOK' /\ OneArticlePublished' /\ OneLocks' /\ AnswersAreGrounded'
    BY <1>1, <1>2 DEF KnowledgeIInv, ArticleTypeOK, OneArticlePublished, OneLocks,
                      AnswersAreGrounded
  <1>4. ASSUME NEW c \in Curators PROVE ListHolds(c)'
    <2>1. curator[c].previous \subseteq Articles
      BY DEF KnowledgeIInv, ArticleTypeOK, Publication
    <2>2. ListHolds(c)
      BY DEF KnowledgeIInv
    <2> QED BY <1>1, <1>2, <2>1, <2>2 DEF ListHolds
  <1>5. CurrentArticle' = IF CurrentArticle = v THEN NoArticle ELSE CurrentArticle
    <2>1. CASE v \in Published
      BY <1>2, <1>3, <2>1, CurrentIsPublished, CurrentIsPublishedNext
         DEF KnowledgeIInv, OneArticlePublished
    <2>2. CASE v \notin Published
      <3>1. Published' = Published
        BY <1>2, <2>2
      <3>2. CurrentArticle' = CurrentArticle
        BY <3>1 DEF CurrentArticle
      <3>3. CurrentArticle # v
        BY <2>2, CurrentIsPublished, KnowledgeAssumption DEF KnowledgeIInv
      <3> QED BY <3>2, <3>3
    <2> QED BY <2>1, <2>2
  <1>6. v \notin PastArticles
    BY <1>1 DEF PastArticles
  <1>7. ArticleCatalogue!Withdraw(v)
    BY <1>2, <1>5, <1>6 DEF ArticleCatalogue!Withdraw, CurrentArticle, PastArticles
  <1> QED BY <1>3, <1>4, <1>7 DEF KnowledgeIInv

LEMMA WaitStep ==
    ASSUME KnowledgeIInv, NEW c \in Curators,
           (\E v \in Articles : PublishArticle(c, v)) \/ LockItem(c)
    PROVE  KnowledgeIInv' /\ UNCHANGED ArticleCatalogue!promised
  <1>1. UNCHANGED <<article, search>>
    BY DEF PublishArticle, LockItem
  <1>2. PICK r \in Publication :
           /\ curator' = [curator EXCEPT ![c] = r]
           /\ r.version \in Articles /\ r.pc \in {"waiting", "locked"}
           /\ r.pc = "locked" => ItemFree /\ r.previous = Published \ {r.version}
    <2>1. ASSUME NEW v \in Articles, PublishArticle(c, v)
          PROVE  \E r \in Publication :
                    /\ curator' = [curator EXCEPT ![c] = r]
                    /\ r.version \in Articles /\ r.pc = "waiting"
      <3> DEFINE r == [NoPublication EXCEPT !.pc = "waiting", !.version = v]
      <3>1. r \in Publication /\ r.version = v /\ r.pc = "waiting"
        BY DEF NoPublication, Publication
      <3>2. curator' = [curator EXCEPT ![c] = r]
        BY <2>1 DEF PublishArticle
      <3> HIDE DEF r
      <3> QED BY <3>1, <3>2
    <2>2. ASSUME LockItem(c)
          PROVE  \E r \in Publication :
                    /\ curator' = [curator EXCEPT ![c] = r]
                    /\ r.version \in Articles /\ r.pc = "locked"
                    /\ ItemFree /\ r.previous = Published \ {r.version}
      <3>1. /\ curator[c] \in Publication /\ curator[c].pc = "waiting"
            /\ curator[c].version \in Articles
        BY <2>2 DEF LockItem, KnowledgeIInv, ArticleTypeOK, ListHolds
      <3>2. curator' = [curator EXCEPT ![c] =
                           [curator[c] EXCEPT !.pc = "locked",
                                              !.previous = Published \ {curator[c].version}]]
        BY <2>2 DEF LockItem
      <3>3. \A q \in Publication, set \in SUBSET Articles :
               LET a == [q EXCEPT !.pc = "locked", !.previous = set] IN
               a \in Publication /\ a.pc = "locked" /\ a.version = q.version /\ a.previous = set
        BY DEF Publication
      <3>4. Published \ {curator[c].version} \in SUBSET Articles
        BY DEF Published
      <3> DEFINE r == [curator[c] EXCEPT !.pc = "locked",
                                         !.previous = Published \ {curator[c].version}]
      <3>5. /\ r \in Publication /\ r.pc = "locked" /\ r.version = curator[c].version
            /\ r.previous = Published \ {curator[c].version}
        BY <3>1, <3>3, <3>4
      <3> HIDE DEF r
      <3> QED BY <2>2, <3>1, <3>2, <3>5 DEF LockItem, r
    <2> QED BY <2>1, <2>2
  <1>3. /\ curator' \in [Curators -> Publication]
        /\ curator'[c] = r /\ \A d \in Curators \ {c} : curator'[d] = curator[d]
    BY <1>2 DEF KnowledgeIInv, ArticleTypeOK
  <1>4. Published' = Published /\ PastArticles' = PastArticles
    BY <1>1 DEF Published, PastArticles
  <1>5. ArticleTypeOK' /\ OneArticlePublished' /\ AnswersAreGrounded'
    BY <1>1, <1>3, <1>4 DEF KnowledgeIInv, ArticleTypeOK, OneArticlePublished, AnswersAreGrounded
  <1>6. OneLocks'
    BY <1>2, <1>3 DEF KnowledgeIInv, OneLocks, ItemFree
  <1>7. \A d \in Curators : ListHolds(d)'
    <2>1. \A w \in Published : article[w] = "PUBLISHED"
      BY DEF Published
    <2>2. \A d \in Curators : ListHolds(d)
      BY DEF KnowledgeIInv
    <2>3. ListHolds(c)'
      BY <1>1, <1>2, <1>3, <1>4, <2>1 DEF ListHolds
    <2>4. \A d \in Curators \ {c} : ListHolds(d)'
      BY <1>1, <1>3, <1>4, <2>2 DEF ListHolds
    <2> QED BY <2>3, <2>4
  <1>8. UNCHANGED ArticleCatalogue!promised
    BY <1>4 DEF ArticleCatalogue!promised, PastArticles
  <1> QED BY <1>5, <1>6, <1>7, <1>8 DEF KnowledgeIInv

(* The version approved takes the place of all that was in force.           *)
LEMMA CommitPublicationStep ==
    ASSUME KnowledgeIInv, NEW c \in Curators, CommitPublication(c)
    PROVE  KnowledgeIInv' /\ [ArticleCatalogue!PublishedNext]_(ArticleCatalogue!promised)
  <1> DEFINE v == curator[c].version
             listed == curator[c].previous
  <1>1. /\ v \in Articles /\ v \notin listed /\ Published \ {v} \subseteq listed
        /\ listed \subseteq Articles
        /\ \A w \in listed : article[w] \in {"PUBLISHED", "RETIRED"}
    BY DEF CommitPublication, KnowledgeIInv, ArticleTypeOK, ListHolds, Publication
  <1>2. /\ curator' \in [Curators -> Publication]
        /\ curator'[c].pc = "idle" /\ \A d \in Curators \ {c} : curator'[d] = curator[d]
        /\ UNCHANGED search
    BY NoPublicationType DEF CommitPublication, KnowledgeIInv, ArticleTypeOK
  <1>3. \A d \in Curators : curator'[d].pc # "locked"
    BY <1>2 DEF CommitPublication, KnowledgeIInv, OneLocks
  <1>4. OneLocks' /\ AnswersAreGrounded'
    BY <1>2, <1>3 DEF KnowledgeIInv, OneLocks, AnswersAreGrounded
  <1>5. \A d \in Curators : ListHolds(d)'
    BY <1>2, <1>3 DEF KnowledgeIInv, ListHolds
  <1>6. CASE article[v] # "APPROVED"
    <2>1. article' = article
      BY <1>6 DEF CommitPublication
    <2>2. Published' = Published /\ PastArticles' = PastArticles
      BY <2>1 DEF Published, PastArticles
    <2>3. ArticleTypeOK' /\ OneArticlePublished'
      BY <1>2, <2>1, <2>2 DEF KnowledgeIInv, ArticleTypeOK, OneArticlePublished
    <2>4. UNCHANGED ArticleCatalogue!promised
      BY <2>2 DEF ArticleCatalogue!promised, PastArticles
    <2> QED BY <1>4, <1>5, <2>3, <2>4 DEF KnowledgeIInv
  <1>7. CASE article[v] = "APPROVED"
    <2>1. article' = [w \in Articles |-> IF w = v THEN "PUBLISHED"
                                         ELSE IF w \in listed THEN "RETIRED" ELSE article[w]]
      BY <1>7 DEF CommitPublication
    <2>2. Published' = {v} /\ PastArticles' = PastArticles \union Published
      BY <1>1, <1>7, <2>1 DEF Published, PastArticles
    <2>3. article' \in [Articles -> ArticleStatuses]
      BY <2>1 DEF KnowledgeIInv, ArticleTypeOK, ArticleStatuses
    <2>4. ArticleTypeOK' /\ OneArticlePublished'
      BY <1>2, <2>2, <2>3 DEF KnowledgeIInv, ArticleTypeOK, OneArticlePublished
    <2>5. CurrentArticle' = v /\ {CurrentArticle} \ {NoArticle} = Published
      BY <2>2, <2>4, CurrentIsPublished, CurrentIsPublishedNext DEF KnowledgeIInv
    <2>6. v \notin PastArticles \union Published
      BY <1>7 DEF PastArticles, Published
    <2>7. PICK u \in Articles : u = v
      BY <1>1
    <2>8. ArticleCatalogue!Publish(u)
      BY <2>2, <2>5, <2>6, <2>7
         DEF ArticleCatalogue!Publish, ArticleCatalogue!InForce, CurrentArticle, PastArticles
    <2> QED BY <1>4, <1>5, <2>4, <2>8 DEF KnowledgeIInv, ArticleCatalogue!PublishedNext
  <1> QED BY <1>6, <1>7

(* Of a set of evidence that is in force now, and that the reader may see,  *)
(* what is cited says one thing when the evidence is called sufficient.     *)
LEMMA EvidenceIsGrounded ==
    ASSUME KnowledgeIInv, NEW evidence \in SUBSET AllVersions,
           \A v \in evidence : StillPublished(v) /\ Admissible(v, search.scope),
           NEW outcome \in Outcomes(evidence)
    PROVE  /\ Cited(evidence) \subseteq evidence
           /\ Cardinality(Cited(evidence) \intersect Articles) <= 1
           /\ outcome = "SUFFICIENT_EVIDENCE" =>
                 /\ Cited(evidence) # {}
                 /\ \A v, w \in Cited(evidence) : Claim[v] = Claim[w]
           /\ \A v \in Cited(evidence) :
                 /\ search.scope.audience \in ReadersOf(Audience[v])
                 /\ Rank[Classification[v]] <= Rank[Clearance[search.scope.audience]]
  <1> DEFINE cited == Cited(evidence)
             claims == {Claim[v] : v \in evidence} \ {NoClaim}
  <1>1. cited \subseteq evidence
    BY DEF Cited
  <1>2. Cardinality(cited \intersect Articles) <= 1
    <2>1. cited \intersect Articles \subseteq Published
      BY <1>1, KnowledgeAssumption DEF StillPublished
    <2>2. \A v, w \in cited \intersect Articles : v = w
      BY <2>1 DEF KnowledgeIInv, OneArticlePublished
    <2>3. CASE cited \intersect Articles = {}
      BY <2>3, FS_EmptySet
    <2>4. ASSUME NEW v \in cited \intersect Articles
          PROVE  Cardinality(cited \intersect Articles) <= 1
      <3>1. cited \intersect Articles = {v}
        BY <2>2
      <3> QED BY <3>1, FS_Singleton
    <2> QED BY <2>3, <2>4
  <1>3. ASSUME outcome = "SUFFICIENT_EVIDENCE"
        PROVE  cited # {} /\ \A v, w \in cited : Claim[v] = Claim[w]
    <2>1. evidence # {} /\ (claims = {} \/ ~(Cardinality(claims) > 1))
      BY <1>3 DEF Outcomes, Contradictory
    <2>2. CASE claims = {}
      BY <2>1, <2>2 DEF Cited
    <2>3. CASE claims # {} /\ ~(Cardinality(claims) > 1)
      <3>1. IsFiniteSet(claims)
        <4>1. IsFiniteSet(evidence)
          BY KnowledgeAssumption, FS_Subset
        <4>2. [v \in evidence |-> Claim[v]] \in Surjection(evidence, {Claim[v] : v \in evidence})
          BY DEF Surjection
        <4>3. IsFiniteSet({Claim[v] : v \in evidence})
          BY <4>1, <4>2, FS_Surjection
        <4>4. claims \in SUBSET {Claim[v] : v \in evidence}
          OBVIOUS
        <4> QED BY <4>3, <4>4, FS_Subset
      <3>2. Cardinality(claims) = 1
        <4>1. Cardinality(claims) \in Nat /\ Cardinality(claims) # 0
          BY <2>3, <3>1, FS_CardinalityType, FS_EmptySet
        <4> QED BY <2>3, <4>1
      <3>3. PICK x : claims = {x}
        BY <3>1, <3>2, FS_Singleton
      <3>4. cited = {v \in evidence : Claim[v] # NoClaim} /\ cited # {}
        BY <2>3 DEF Cited
      <3>5. \A v \in cited : Claim[v] \in claims
        BY <3>4
      <3> QED BY <3>3, <3>4, <3>5
    <2> QED BY <2>1, <2>2, <2>3
  <1>4. ASSUME NEW v \in cited
        PROVE  /\ search.scope.audience \in ReadersOf(Audience[v])
               /\ Rank[Classification[v]] <= Rank[Clearance[search.scope.audience]]
    <2>1. /\ search.scope.audience \in ReadersOf(Audience[v])
          /\ Rank[Classification[v]] <= Rank[search.scope.maximum]
      BY <1>1 DEF Admissible
    <2>2. /\ search.scope.audience \in Audiences /\ search.scope.maximum \in Classifications
          /\ Rank[search.scope.maximum] <= Rank[Clearance[search.scope.audience]]
      BY DEF KnowledgeIInv, ArticleTypeOK, SearchRow, Scopes
    <2>3. Classification[v] \in Classifications
      BY <1>1, KnowledgeAssumption DEF ValidLabels
    <2>4. /\ Rank[Classification[v]] \in Nat /\ Rank[search.scope.maximum] \in Nat
          /\ Rank[Clearance[search.scope.audience]] \in Nat
      BY <2>2, <2>3, RanksAreNumbers, ClearancesAreClassifications
    <2> QED BY <2>1, <2>2, <2>4
  <1> QED BY <1>1, <1>2, <1>3, <1>4

(* A step of the search touches no version.                                 *)
LEMMA SearchStep ==
    ASSUME KnowledgeIInv, (\E scope \in Scopes : BeginSearch(scope)) \/ FinishSearch \/ Deliver
    PROVE  /\ KnowledgeIInv' /\ UNCHANGED ArticleCatalogue!promised
           /\ search.pc = "found" /\ search'.pc = "answered" =>
                 search'.cited \subseteq Published \union Standing
  <1>1. UNCHANGED <<article, curator>>
    BY DEF BeginSearch, FinishSearch, Deliver
  <1>2. /\ search' \in SearchRow /\ AnswersAreGrounded'
        /\ search.pc = "found" /\ search'.pc = "answered" =>
              search'.cited \subseteq Published \union Standing
    <2>1. ASSUME NEW scope \in Scopes, BeginSearch(scope)
          PROVE  search' \in SearchRow /\ search'.pc = "found"
      <3>1. PICK set \in SUBSET AllVersions :
               search' = [NoSearch EXCEPT !.pc = "found", !.scope = scope, !.found = set]
        BY <2>1 DEF BeginSearch, Published, AllVersions
      <3> QED BY <3>1 DEF NoSearch, SearchRow
    <2>2. ASSUME FinishSearch
          PROVE  /\ search' \in SearchRow /\ AnswersAreGrounded'
                 /\ search'.cited \subseteq Published \union Standing
      <3>1. PICK matching \in SUBSET AllVersions :
               LET evidence == {v \in search.found \intersect matching :
                                   StillPublished(v) /\ Admissible(v, search.scope)}
               IN \E outcome \in Outcomes(evidence) :
                     search' = [search EXCEPT !.pc = "answered", !.found = {},
                                              !.cited = Cited(evidence), !.outcome = outcome]
        BY <2>2 DEF FinishSearch
      <3> DEFINE evidence == {v \in search.found \intersect matching :
                                 StillPublished(v) /\ Admissible(v, search.scope)}
      <3>2. PICK outcome \in Outcomes(evidence) :
               search' = [search EXCEPT !.pc = "answered", !.found = {},
                                        !.cited = Cited(evidence), !.outcome = outcome]
        BY <3>1
      <3>3. /\ evidence \in SUBSET AllVersions
            /\ \A v \in evidence : StillPublished(v) /\ Admissible(v, search.scope)
        OBVIOUS
      <3>4. outcome \in {"NO_EVIDENCE", "SUFFICIENT_EVIDENCE", "PARTIAL_EVIDENCE",
                         "SOURCE_CONFLICT"}
        BY <3>2 DEF Outcomes
      <3> HIDE DEF evidence
      <3>5. PICK cited \in SUBSET AllVersions : cited = Cited(evidence)
        BY <3>3 DEF Cited
      <3>6. /\ search' \in SearchRow /\ search'.scope = search.scope
            /\ search'.cited = cited /\ search'.outcome = outcome
        <4>1. search \in SearchRow
          BY DEF KnowledgeIInv, ArticleTypeOK
        <4>2. search' = [search EXCEPT !.pc = "answered", !.found = {},
                                       !.cited = cited, !.outcome = outcome]
          BY <3>2, <3>5
        <4> QED BY <3>4, <4>1, <4>2 DEF SearchRow
      <3>7. /\ cited \subseteq evidence
            /\ Cardinality(cited \intersect Articles) <= 1
            /\ outcome = "SUFFICIENT_EVIDENCE" =>
                  cited # {} /\ \A v, w \in cited : Claim[v] = Claim[w]
            /\ \A v \in cited :
                  /\ search.scope.audience \in ReadersOf(Audience[v])
                  /\ Rank[Classification[v]] <= Rank[Clearance[search.scope.audience]]
        BY <3>2, <3>3, <3>5, EvidenceIsGrounded
      <3>8. AnswersAreGrounded'
        BY <3>6, <3>7 DEF AnswersAreGrounded
      <3> QED BY <3>3, <3>6, <3>7, <3>8 DEF StillPublished
    <2>3. ASSUME Deliver PROVE search' \in SearchRow /\ search'.pc = "idle"
      BY <2>3, NoSearchType DEF Deliver
    <2> QED BY <2>1, <2>2, <2>3 DEF AnswersAreGrounded
  <1>3. Published' = Published /\ PastArticles' = PastArticles
    BY <1>1 DEF Published, PastArticles
  <1>4. /\ ArticleTypeOK' /\ OneArticlePublished' /\ OneLocks'
        /\ \A c \in Curators : ListHolds(c)'
    BY <1>1, <1>2, <1>3 DEF KnowledgeIInv, ArticleTypeOK, OneArticlePublished, OneLocks, ListHolds
  <1>5. UNCHANGED ArticleCatalogue!promised
    BY <1>3 DEF ArticleCatalogue!promised, PastArticles
  <1> QED BY <1>2, <1>4, <1>5 DEF KnowledgeIInv

CitesAtOnce == search.pc = "found" /\ search'.pc = "answered" =>
                   search'.cited \subseteq Published \union Standing

LEMMA KnowledgeStep ==
    ASSUME KnowledgeIInv, [KnowledgeNext]_knowledgeVars
    PROVE  /\ KnowledgeIInv'
           /\ [ArticleCatalogue!PublishedNext]_(ArticleCatalogue!promised)
           /\ CitesAtOnce
  <1>1. ASSUME NEW v \in Articles,
               CreateDraft(v) \/ SubmitReview(v) \/ ReturnToDraft(v) \/ ApproveArticle(v)
        PROVE  /\ KnowledgeIInv' /\ UNCHANGED ArticleCatalogue!promised /\ UNCHANGED search
    <2>1. PICK from \in SUBSET {"ABSENT", "DRAFT", "REVIEW", "APPROVED"},
               to \in {"DRAFT", "REVIEW", "APPROVED"} : Passes(v, from, to)
      BY <1>1 DEF CreateDraft, SubmitReview, ReturnToDraft, ApproveArticle
    <2> QED BY <2>1, PassesStep DEF Passes
  <1>2. ASSUME NEW v \in Articles, Retire(v)
        PROVE  /\ KnowledgeIInv' /\ ArticleCatalogue!PublishedNext /\ UNCHANGED search
    BY <1>2, RetireStep DEF Retire, Passes, ArticleCatalogue!PublishedNext
  <1>3. ASSUME NEW c \in Curators, (\E v \in Articles : PublishArticle(c, v)) \/ LockItem(c)
        PROVE  /\ KnowledgeIInv' /\ UNCHANGED ArticleCatalogue!promised /\ UNCHANGED search
    BY <1>3, WaitStep DEF PublishArticle, LockItem
  <1>4. ASSUME NEW c \in Curators, CommitPublication(c)
        PROVE  /\ KnowledgeIInv' /\ UNCHANGED search
               /\ [ArticleCatalogue!PublishedNext]_(ArticleCatalogue!promised)
    BY <1>4, CommitPublicationStep DEF CommitPublication
  <1>5. CASE (\E scope \in Scopes : BeginSearch(scope)) \/ FinishSearch \/ Deliver
    BY <1>5, SearchStep DEF CitesAtOnce
  <1>6. CASE UNCHANGED knowledgeVars
    BY <1>6 DEF knowledgeVars, KnowledgeIInv, ArticleTypeOK, OneArticlePublished, OneLocks,
                ListHolds, AnswersAreGrounded, Published, ArticleCatalogue!promised, CitesAtOnce
  <1>7. UNCHANGED search => CitesAtOnce
    BY DEF CitesAtOnce
  <1> QED BY <1>1, <1>2, <1>3, <1>4, <1>5, <1>6, <1>7 DEF KnowledgeNext

(* knowledge.service.ts publish, transition and search: an article          *)
(* implements the published-version catalogue, and a search cites nothing   *)
(* that is out of force when it is read.                                    *)
THEOREM ArticlesAreInForceCorrect == KnowledgeSpec => ArticlesAreInForce
  <1>1. KnowledgeInit => KnowledgeIInv /\ ArticleCatalogue!PublishedInit
    BY KnowledgeInitial
  <1>2. KnowledgeIInv /\ [KnowledgeNext]_knowledgeVars
            => /\ KnowledgeIInv'
               /\ [ArticleCatalogue!PublishedNext]_(ArticleCatalogue!promised)
               /\ [CitesAtOnce]_knowledgeVars
    BY KnowledgeStep
  <1>3. KnowledgeSpec => ArticleIsCatalogue
    BY <1>1, <1>2, PTL DEF KnowledgeSpec, ArticleIsCatalogue, ArticleCatalogue!PublishedSpec
  <1>4. KnowledgeSpec => [][CitesAtOnce]_knowledgeVars
    BY <1>1, <1>2, PTL DEF KnowledgeSpec
  <1> QED BY <1>3, <1>4 DEF ArticlesAreInForce, CitesWhatIsInForce, CitesAtOnce

(* knowledge.service.ts search, knowledge-grounding.ts groundKnowledge: for *)
(* every set of articles, labels and claims, an answer never mixes a        *)
(* version with its replacement, never passes contradictory claims for      *)
(* sufficient evidence and never exceeds the reader's clearance.            *)
THEOREM AnswersAreGroundedCorrect == KnowledgeSpec => []AnswersAreGrounded
  <1>1. KnowledgeInit => KnowledgeIInv
    BY KnowledgeInitial
  <1>2. KnowledgeIInv /\ [KnowledgeNext]_knowledgeVars => KnowledgeIInv'
    BY KnowledgeStep
  <1>3. KnowledgeIInv => AnswersAreGrounded
    BY DEF KnowledgeIInv
  <1> QED BY <1>1, <1>2, <1>3, PTL DEF KnowledgeSpec

-----------------------------------------------------------------------------
(* The bridge to the master.                                                *)

(* What the client may rely on at each step of a read.                      *)
ReadStands(r) ==
    /\ read[r].open => read[r].at \in {"VERIFY", "QUERY", "ROLLBACK"}
    /\ read[r].held => read[r].at \in {"BEGIN", "VERIFY", "QUERY", "ROLLBACK", "RELEASE"}
    /\ read[r].at = "QUERY" => client.validated \/ read[r].technical
    /\ read[r].at \in {"ROLLBACK", "RELEASE", "DONE"} /\ read[r].error = "NONE"
          => client.validated
    /\ read[r].call = "ROWS" => client.validated

(* While the circuit is open and has cooled, no read is awaited.            *)
ProbeStands(max, threshold) ==
    ResetOutlasts =>
        /\ Bridge(max, threshold)!OneProbe
        /\ circuit.state = "OPEN" /\ circuit.cooled => Bridge(max, threshold)!Active = {}

ReadsIInv(max, threshold) ==
    /\ Bridge(max, threshold)!ReadsTypeOK
    /\ \A r \in Reads : ReadStands(r)
    /\ client.rejected => ~client.pool
    /\ ProbeStands(max, threshold)

LEMMA ReadsInitial ==
    ASSUME NEW max, NEW threshold \in Nat \ {0}, Bridge(max, threshold)!ReadsInit
    PROVE  ReadsIInv(max, threshold)
  <1>1. Bridge(max, threshold)!ReadsTypeOK
    BY DEF Bridge!ReadsInit, Bridge!ReadsTypeOK, Bridge!Circuits, Bridge!ReadStates,
           Bridge!NoRead, Bridge!ClientSteps, Bridge!Errors
  <1>2. (\A r \in Reads : ReadStands(r)) /\ (client.rejected => ~client.pool)
    BY DEF Bridge!ReadsInit, Bridge!NoRead, ReadStands
  <1>3. ProbeStands(max, threshold)
    BY DEF Bridge!ReadsInit, ProbeStands, Bridge!OneProbe, Bridge!Active, Bridge!NoRead
  <1> QED BY <1>1, <1>2, <1>3 DEF ReadsIInv

LEMMA ReadsHoldThen ==
    ASSUME NEW max, NEW threshold, ReadsIInv(max, threshold)
    PROVE  Bridge(max, threshold)!ReadsHold
  BY DEF ReadsIInv, ReadStands, ProbeStands, Bridge!ReadsHold, Bridge!IdentityHolds,
         Bridge!NothingLeaks, Bridge!OneProbe

(* The client's step of one read: the executor sees nothing of it, the      *)
(* account stays verified and the read stands.                              *)
LEMMA ClientGoesOn ==
    ASSUME NEW max, NEW threshold \in Nat \ {0}, ReadsIInv(max, threshold),
           NEW r \in Reads, NEW row \in Bridge(max, threshold)!ReadStates,
           read' = [read EXCEPT ![r] = row], row.call = read[r].call,
           UNCHANGED circuit,
           client' \in [validated : BOOLEAN, rejected : BOOLEAN, pool : BOOLEAN],
           client.validated => client'.validated,
           client'.rejected => ~client'.pool,
           ReadStands(r)'
    PROVE  ReadsIInv(max, threshold)'
  <1>1. Bridge(max, threshold)!ReadsTypeOK'
    BY DEF ReadsIInv, Bridge!ReadsTypeOK
  <1>2. \A q \in Reads : ReadStands(q)'
    <2> TAKE q \in Reads
    <2>1. CASE q = r
      BY <2>1
    <2>2. CASE q # r
      <3>1. read'[q] = read[q]
        BY <2>2 DEF ReadsIInv, Bridge!ReadsTypeOK
      <3> QED BY <3>1 DEF ReadsIInv, ReadStands
    <2> QED BY <2>1, <2>2
  <1>3. Bridge(max, threshold)!Active' = Bridge(max, threshold)!Active
    <2>1. \A q \in Reads : read'[q].call = read[q].call
      BY DEF ReadsIInv, Bridge!ReadsTypeOK
    <2> QED BY <2>1 DEF Bridge!Active
  <1> QED BY <1>1, <1>2, <1>3 DEF ReadsIInv, ProbeStands, Bridge!OneProbe

LEMMA ClientStepStands ==
    ASSUME NEW max, NEW threshold \in Nat \ {0}, ReadsIInv(max, threshold),
           NEW r \in Reads, Bridge(max, threshold)!ClientStep(r)
    PROVE  ReadsIInv(max, threshold)'
  <1> USE DEF Bridge!At, Bridge!Advance, Bridge!Fail, Bridge!SafeError, Bridge!FirstError
  <1>0. /\ read \in [Reads -> Bridge(max, threshold)!ReadStates]
        /\ client \in [validated : BOOLEAN, rejected : BOOLEAN, pool : BOOLEAN]
        /\ client.rejected => ~client.pool
        /\ ReadStands(r)
    BY DEF ReadsIInv, Bridge!ReadsTypeOK
  <1>1. \E row \in Bridge(max, threshold)!ReadStates :
           /\ read' = [read EXCEPT ![r] = row] /\ row.call = read[r].call
           /\ row.open => row.at \in {"VERIFY", "QUERY", "ROLLBACK"}
           /\ row.held => row.at \in {"BEGIN", "VERIFY", "QUERY", "ROLLBACK", "RELEASE"}
           /\ row.at = "QUERY" => client'.validated \/ row.technical
           /\ row.at \in {"ROLLBACK", "RELEASE", "DONE"} /\ row.error = "NONE"
                 => client'.validated
           /\ UNCHANGED circuit
           /\ client' \in [validated : BOOLEAN, rejected : BOOLEAN, pool : BOOLEAN]
           /\ client.validated => client'.validated
           /\ client'.rejected => ~client'.pool
    <2> USE <1>0 DEF ReadStands, Bridge!ReadStates, Bridge!ClientSteps, Bridge!Errors
    <2>1. CASE Bridge(max, threshold)!Acquire(r)
      BY <2>1 DEF Bridge!Acquire
    <2>2. CASE Bridge(max, threshold)!Begin(r)
      BY <2>2 DEF Bridge!Begin, Bridge!MustVerify, Bridge!AfterNoTransaction
    <2>3. CASE Bridge(max, threshold)!Verify(r)
      <3>1. CASE /\ read' = [read EXCEPT ![r] = [read[r] EXCEPT !.at = "QUERY"]]
                 /\ client' = [client EXCEPT !.validated = TRUE]
        BY <2>3, <3>1 DEF Bridge!Verify
      <3>2. CASE \E error \in {"MISMATCH", "TIMEOUT", "UNAVAILABLE"} :
                    /\ read' = [read EXCEPT ![r] = [read[r] EXCEPT !.at = "ROLLBACK",
                                                                  !.error = error]]
                    /\ UNCHANGED client
        <4>1. PICK error \in {"MISMATCH", "TIMEOUT", "UNAVAILABLE"} :
                    /\ read' = [read EXCEPT ![r] = [read[r] EXCEPT !.at = "ROLLBACK",
                                                                  !.error = error]]
                    /\ UNCHANGED client
          BY <3>2
        <4>2. read[r].at = "VERIFY" /\ UNCHANGED circuit
          BY <2>3 DEF Bridge!Verify
        <4> QED BY <4>1, <4>2
      <3> QED BY <2>3, <3>1, <3>2 DEF Bridge!Verify
    <2>4. CASE Bridge(max, threshold)!Query(r)
      BY <2>4 DEF Bridge!Query
    <2>5. CASE Bridge(max, threshold)!Rollback(r)
      <3>1. PICK error \in {"NONE", "UNAVAILABLE", "TIMEOUT", "MISMATCH"} :
               /\ read' = [read EXCEPT ![r] = [read[r] EXCEPT !.at = "RELEASE", !.open = FALSE,
                                                             !.error = error]]
               /\ error = "NONE" => read[r].error = "NONE"
        BY <2>5 DEF Bridge!Rollback
      <3>2. read[r].at = "ROLLBACK" /\ UNCHANGED <<circuit, client>>
        BY <2>5 DEF Bridge!Rollback
      <3> QED BY <3>1, <3>2
    <2>6. CASE Bridge(max, threshold)!Release(r)
      <3>1. PICK error \in {read[r].error, IF read[r].error = "NONE"
                                 THEN (IF read[r].aborted THEN "TIMEOUT" ELSE "UNAVAILABLE")
                                 ELSE read[r].error} :
               /\ read' = [read EXCEPT ![r] = [read[r] EXCEPT !.at = "DONE", !.held = FALSE,
                                                             !.error = error]]
               /\ client' = IF error = "MISMATCH"
                            THEN [client EXCEPT !.rejected = TRUE, !.pool = FALSE] ELSE client
               /\ read[r].at = "RELEASE" /\ UNCHANGED circuit
        BY <2>6 DEF Bridge!Release
      <3>2. /\ error \in {"NONE", "UNAVAILABLE", "TIMEOUT", "MISMATCH"}
            /\ error = "NONE" => read[r].error = "NONE"
        BY <3>1
      <3>3. [read[r] EXCEPT !.at = "DONE", !.held = FALSE, !.error = error]
               \in Bridge(max, threshold)!ReadStates
        BY <3>2
      <3>4. /\ client' \in [validated : BOOLEAN, rejected : BOOLEAN, pool : BOOLEAN]
            /\ client'.validated = client.validated
            /\ client'.rejected => ~client'.pool
        BY <3>1
      <3>5. read[r] \in Bridge(max, threshold)!ReadStates
        OBVIOUS
      <3>6. error = "NONE" => client.validated
        BY <3>1, <3>2
      <3> DEFINE done == [read[r] EXCEPT !.at = "DONE", !.held = FALSE, !.error = error]
      <3>7. /\ done.call = read[r].call /\ done.at = "DONE" /\ ~done.held
            /\ done.error = error /\ done.open = read[r].open
        BY <3>5
      <3>8. ~done.open
        BY <3>1, <3>7
      <3>9. read' = [read EXCEPT ![r] = done] /\ UNCHANGED circuit
        BY <3>1
      <3> HIDE DEF done
      <3> QED BY <3>3, <3>4, <3>6, <3>7, <3>8, <3>9 DEF done
    <2> QED BY <2>1, <2>2, <2>3, <2>4, <2>5, <2>6 DEF Bridge!ClientStep
  <1>2. PICK row \in Bridge(max, threshold)!ReadStates :
           /\ read' = [read EXCEPT ![r] = row] /\ row.call = read[r].call
           /\ row.open => row.at \in {"VERIFY", "QUERY", "ROLLBACK"}
           /\ row.held => row.at \in {"BEGIN", "VERIFY", "QUERY", "ROLLBACK", "RELEASE"}
           /\ row.at = "QUERY" => client'.validated \/ row.technical
           /\ row.at \in {"ROLLBACK", "RELEASE", "DONE"} /\ row.error = "NONE"
                 => client'.validated
           /\ UNCHANGED circuit
           /\ client' \in [validated : BOOLEAN, rejected : BOOLEAN, pool : BOOLEAN]
           /\ client.validated => client'.validated
           /\ client'.rejected => ~client'.pool
    BY <1>1
  <1>3. read'[r] = row
    BY <1>0, <1>2
  <1>4. ReadStands(r)'
    BY <1>0, <1>2, <1>3 DEF ReadStands
  <1> QED BY <1>2, <1>4, ClientGoesOn

(* The executor's steps, which move the circuit.                            *)
LEMMA ExecutorStepStands ==
    ASSUME NEW max, NEW threshold \in Nat \ {0}, ReadsIInv(max, threshold),
           NEW r \in Reads,
           \/ \E technical \in BOOLEAN : Bridge(max, threshold)!Request(r, technical)
           \/ Bridge(max, threshold)!Settle(r) \/ Bridge(max, threshold)!TimeOut(r)
           \/ Bridge(max, threshold)!Forget(r)
    PROVE  ReadsIInv(max, threshold)'
  <1>0. /\ read \in [Reads -> Bridge(max, threshold)!ReadStates]
        /\ circuit \in Bridge(max, threshold)!Circuits
        /\ client \in [validated : BOOLEAN, rejected : BOOLEAN, pool : BOOLEAN]
        /\ client.rejected => ~client.pool
        /\ \A q \in Reads : ReadStands(q)
        /\ ProbeStands(max, threshold)
    BY DEF ReadsIInv, Bridge!ReadsTypeOK
  <1>a. \A c \in Bridge(max, threshold)!Circuits :
           /\ Bridge(max, threshold)!RecordSuccess(c) \in Bridge(max, threshold)!Circuits
           /\ Bridge(max, threshold)!RecordFailure(c) \in Bridge(max, threshold)!Circuits
           /\ Bridge(max, threshold)!RecordIgnored(c) \in Bridge(max, threshold)!Circuits
           /\ Bridge(max, threshold)!BeforeRequest(c) \in Bridge(max, threshold)!Circuits
    <2> TAKE c \in Bridge(max, threshold)!Circuits
    <2> USE DEF Bridge!Circuits
    <2>1. Bridge(max, threshold)!RecordSuccess(c) \in Bridge(max, threshold)!Circuits
      <3> DEFINE row == [c EXCEPT !.state = "CLOSED", !.failures = 0, !.probe = FALSE]
      <3>1. 0 \in 0..threshold
        OBVIOUS
      <3>2. /\ row.state = "CLOSED" /\ row.failures = 0 /\ row.probe = FALSE
            /\ row.cooled = c.cooled
        OBVIOUS
      <3>3. row \in Bridge(max, threshold)!Circuits
        BY <3>1, <3>2
      <3> QED BY <3>3 DEF Bridge!RecordSuccess
    <2>2. Bridge(max, threshold)!RecordFailure(c) \in Bridge(max, threshold)!Circuits
      <3> DEFINE n == Bridge(max, threshold)!Least(c.failures + 1, threshold)
      <3>1. n \in 0..threshold
        BY DEF Bridge!Least
      <3> HIDE DEF n
      <3> QED BY <3>1 DEF Bridge!RecordFailure, n
    <2>3. Bridge(max, threshold)!RecordIgnored(c) \in Bridge(max, threshold)!Circuits
      BY <2>1 DEF Bridge!RecordIgnored
    <2>4. Bridge(max, threshold)!BeforeRequest(c) \in Bridge(max, threshold)!Circuits
      BY DEF Bridge!BeforeRequest
    <2> QED BY <2>1, <2>2, <2>3, <2>4
  <1>1. CASE \E technical \in BOOLEAN : Bridge(max, threshold)!Request(r, technical)
    <2>1. PICK technical \in BOOLEAN : Bridge(max, threshold)!Request(r, technical)
      BY <1>1
    <2>2. /\ read[r].call = "IDLE" /\ read'[r].call = "AWAITED"
          /\ \A q \in Reads \ {r} : read'[q] = read[q]
          /\ read'[r] \in Bridge(max, threshold)!ReadStates
          /\ ReadStands(r)'
      <3>1. PICK step \in {"ACQUIRE", "DONE"}, failure \in {"NONE", "MISMATCH"} :
               /\ step = "DONE" => failure = "MISMATCH"
               /\ read' = [read EXCEPT ![r] =
                     [Bridge(max, threshold)!NoRead EXCEPT !.call = "AWAITED",
                         !.technical = technical, !.at = step, !.error = failure]]
        BY <2>1 DEF Bridge!Request
      <3>2. read[r].call = "IDLE"
        <4>1. read[r] = Bridge(max, threshold)!NoRead
          BY <2>1 DEF Bridge!Request
        <4> QED BY <4>1 DEF Bridge!NoRead
      <3> DEFINE row == read'[r]
      <3>3. row = [call |-> "AWAITED", at |-> step, technical |-> technical,
                        error |-> failure, aborted |-> FALSE, open |-> FALSE, held |-> FALSE]
        BY <3>1, <1>0 DEF Bridge!NoRead
      <3>4. read'[r] \in Bridge(max, threshold)!ReadStates /\ ReadStands(r)'
        <4>1. technical \in BOOLEAN
          BY <2>1
        <4> HIDE DEF row
        <4>2. row \in Bridge(max, threshold)!ReadStates
          BY <4>1, <3>1, <3>3 DEF Bridge!ReadStates, Bridge!ClientSteps, Bridge!Errors
        <4>3. /\ ~row.open /\ ~row.held /\ row.at # "QUERY" /\ row.call # "ROWS"
              /\ row.at \in {"ROLLBACK", "RELEASE", "DONE"} => row.error # "NONE"
          BY <3>1, <3>3
        <4>4. ReadStands(r)'
          BY <4>3 DEF ReadStands, row
        <4> QED BY <4>2, <4>4 DEF row
      <3> QED BY <3>1, <3>2, <3>3, <3>4, <1>0
    <2>3. /\ read' \in [Reads -> Bridge(max, threshold)!ReadStates]
          /\ client' \in [validated : BOOLEAN, rejected : BOOLEAN, pool : BOOLEAN]
          /\ client'.validated = client.validated
          /\ client'.rejected => ~client'.pool
          /\ circuit' = Bridge(max, threshold)!BeforeRequest(circuit)
          /\ Bridge(max, threshold)!Admits(circuit)
      BY <2>1, <2>2, <1>0 DEF Bridge!Request, Bridge!Connects
    <2>4. Bridge(max, threshold)!Active' = Bridge(max, threshold)!Active \union {r}
      BY <2>2 DEF Bridge!Active
    <2>5. ProbeStands(max, threshold)'
      BY <2>3, <2>4, <1>0 DEF ProbeStands, Bridge!OneProbe, Bridge!BeforeRequest, Bridge!Admits,
                              Bridge!Circuits
    <2>6. \A q \in Reads : ReadStands(q)'
      BY <2>2, <2>3, <1>0 DEF ReadStands
    <2> QED BY <2>3, <2>5, <2>6, <1>a, <1>0 DEF ReadsIInv, Bridge!ReadsTypeOK
  <1>2. CASE Bridge(max, threshold)!Settle(r) \/ Bridge(max, threshold)!TimeOut(r)
    <2>1. /\ read[r].call = "AWAITED" /\ read'[r].call \in {"ROWS", "FAILED"}
          /\ \A q \in Reads \ {r} : read'[q] = read[q]
          /\ read'[r] \in Bridge(max, threshold)!ReadStates
          /\ read' \in [Reads -> Bridge(max, threshold)!ReadStates]
          /\ ReadStands(r)' /\ UNCHANGED client
      <3>1. CASE Bridge(max, threshold)!Settle(r)
        BY <3>1, <1>0 DEF Bridge!Settle, Bridge!ReadStates, ReadStands
      <3>2. CASE Bridge(max, threshold)!TimeOut(r)
        BY <3>2, <1>0 DEF Bridge!TimeOut, Bridge!ReadStates, ReadStands
      <3> QED BY <1>2, <3>1, <3>2
    <2>2. Bridge(max, threshold)!Active' = Bridge(max, threshold)!Active \ {r}
      BY <2>1 DEF Bridge!Active
    <2>3. r \in Bridge(max, threshold)!Active
      BY <2>1 DEF Bridge!Active
    <2>4. \/ circuit' = Bridge(max, threshold)!RecordSuccess(circuit)
          \/ circuit' = Bridge(max, threshold)!RecordFailure(circuit)
          \/ circuit' = Bridge(max, threshold)!RecordIgnored(circuit)
      BY <1>2 DEF Bridge!Settle, Bridge!TimeOut
    <2>5. ProbeStands(max, threshold)'
      <3> SUFFICES ASSUME ResetOutlasts
                   PROVE  /\ circuit'.probe <=> circuit'.state = "HALF_OPEN"
                          /\ circuit'.probe => \E q \in Reads :
                                                   Bridge(max, threshold)!Active' = {q}
                          /\ circuit'.state = "OPEN" /\ circuit'.cooled
                                => Bridge(max, threshold)!Active' = {}
        BY DEF ProbeStands, Bridge!OneProbe
      <3>1. /\ circuit.probe <=> circuit.state = "HALF_OPEN"
            /\ ~(circuit.state = "OPEN" /\ circuit.cooled)
        BY <2>3, <1>0 DEF ProbeStands, Bridge!OneProbe
      <3>2. ~circuit'.probe /\ circuit'.state # "HALF_OPEN"
            /\ ~(circuit'.state = "OPEN" /\ circuit'.cooled)
        <4>1. CASE circuit' = Bridge(max, threshold)!RecordSuccess(circuit)
          BY <4>1, <3>1, <1>0 DEF Bridge!Circuits, Bridge!RecordSuccess
        <4>2. CASE circuit' = Bridge(max, threshold)!RecordFailure(circuit)
          <5> DEFINE n == Bridge(max, threshold)!Least(circuit.failures + 1, threshold)
          <5>1. \/ circuit' = [state |-> "OPEN", failures |-> n, probe |-> FALSE,
                               cooled |-> FALSE]
                \/ /\ circuit.state # "HALF_OPEN"
                   /\ circuit' = [circuit EXCEPT !.failures = n, !.probe = FALSE]
            BY <4>2 DEF Bridge!RecordFailure
          <5> HIDE DEF n
          <5>2. CASE circuit'.state = "OPEN" /\ ~circuit'.probe /\ ~circuit'.cooled
            BY <5>2
          <5>3. CASE /\ circuit.state # "HALF_OPEN"
                     /\ circuit' = [circuit EXCEPT !.failures = n, !.probe = FALSE]
            <6>1. circuit'.state = circuit.state /\ circuit'.cooled = circuit.cooled
                     /\ ~circuit'.probe
              BY <5>3, <1>0 DEF Bridge!Circuits
            <6> QED BY <6>1, <5>3, <3>1
          <5> QED BY <5>1, <5>2, <5>3
        <4>3. CASE circuit' = Bridge(max, threshold)!RecordIgnored(circuit)
          BY <4>3, <3>1, <1>0 DEF Bridge!Circuits, Bridge!RecordIgnored, Bridge!RecordSuccess
        <4> QED BY <2>4, <4>1, <4>2, <4>3
      <3> QED BY <3>2
    <2>6. \A q \in Reads : ReadStands(q)'
      BY <2>1, <1>0 DEF ReadStands
    <2> QED BY <2>1, <2>4, <2>5, <2>6, <1>a, <1>0 DEF ReadsIInv, Bridge!ReadsTypeOK
  <1>3. CASE Bridge(max, threshold)!Forget(r)
    <2>1. /\ read[r].call # "AWAITED" /\ read'[r] = Bridge(max, threshold)!NoRead
          /\ \A q \in Reads \ {r} : read'[q] = read[q]
          /\ UNCHANGED <<circuit, client>>
          /\ read' \in [Reads -> Bridge(max, threshold)!ReadStates]
      BY <1>3, <1>0 DEF Bridge!Forget, Bridge!NoRead, Bridge!ReadStates, Bridge!ClientSteps,
                        Bridge!Errors
    <2>2. Bridge(max, threshold)!Active' = Bridge(max, threshold)!Active
      BY <2>1 DEF Bridge!Active, Bridge!NoRead
    <2>3. \A q \in Reads : ReadStands(q)'
      BY <2>1, <1>0 DEF ReadStands, Bridge!NoRead
    <2> QED BY <2>1, <2>2, <2>3, <1>0 DEF ReadsIInv, Bridge!ReadsTypeOK, ProbeStands,
                                           Bridge!OneProbe
  <1> QED BY <1>1, <1>2, <1>3

LEMMA ReadsStep ==
    ASSUME NEW max, NEW threshold \in Nat \ {0}, ReadsIInv(max, threshold),
           Bridge(max, threshold)!ReadsNext \/ UNCHANGED bridgeVars
    PROVE  ReadsIInv(max, threshold)'
  <1>1. CASE Bridge(max, threshold)!Cool
    BY <1>1 DEF Bridge!Cool, ReadsIInv, Bridge!ReadsTypeOK, Bridge!Circuits, ReadStands,
                ProbeStands, Bridge!OneProbe, Bridge!Active
  <1>2. CASE UNCHANGED bridgeVars
    BY <1>2 DEF bridgeVars, ReadsIInv, Bridge!ReadsTypeOK, ReadStands, ProbeStands,
                Bridge!OneProbe, Bridge!Active
  <1>3. ASSUME NEW r \in Reads,
               \/ \E technical \in BOOLEAN : Bridge(max, threshold)!Request(r, technical)
               \/ Bridge(max, threshold)!Settle(r) \/ Bridge(max, threshold)!TimeOut(r)
               \/ Bridge(max, threshold)!Forget(r)
        PROVE  ReadsIInv(max, threshold)'
    BY <1>3, ExecutorStepStands
  <1>4. ASSUME NEW r \in Reads, Bridge(max, threshold)!ClientStep(r)
        PROVE  ReadsIInv(max, threshold)'
    BY <1>4, ClientStepStands
  <1> QED BY <1>1, <1>2, <1>3, <1>4 DEF Bridge!ReadsNext

-----------------------------------------------------------------------------
(* What the portal says of the master's installments.                       *)

Amounts == Nat \union {Quotes!Fraction}

(* An installment as it was read.                                           *)
IsRow(row) ==
    /\ row.due = Due[row.id] /\ row.due # NoDate
    /\ row.balance # 0

OwesNothing(p, left) ==
    \A i \in Installments :
        Holder[ContractOf[i]] = p /\ Due[i] # NoDate /\ ContractOf[i] \notin left
            => balance[i] = 0

(* What a request may rely on: its rows are the person's, one for each      *)
(* installment, of contracts it has read; a statement without rows has      *)
(* found nothing owed in the contracts it has read.                         *)
ConsultStands(u) ==
    LET said == consult[u] IN
    /\ \A row \in said.rows :
          IsRow(row) /\ Holder[ContractOf[row.id]] = said.person
                     /\ ContractOf[row.id] \notin said.left
    /\ \A a, b \in said.rows : a.id = b.id => a = b
    /\ \A c \in said.left : c \in Agreements /\ Holder[c] = said.person
    /\ said.kind = "STATEMENT" => said.item = Nobody
    /\ said.at \in {"IDLE", "PERSON"} => said.rows = {}
    /\ said.at # "ANSWERED" => said.answer = "NONE"
    /\ said.at = "INSTALLMENTS" /\ said.kind = "STATEMENT" /\ said.rows = {}
          => OwesNothing(said.person, said.left)
    /\ said.answer = "AL_DIA" => OwesNothing(said.person, {})
    /\ said.answer \in {"VERIFIED", "HANDED"} =>
          \E row \in said.rows : row.id = said.item /\ row.balance = said.total
    /\ said.answer \in {"EN_MORA", "VIGENTE"} =>
          /\ said.total = Quotes!SumCents(said.rows)
          /\ \A row \in said.rows : row.balance # Quotes!Fraction

Rows == [id : Installments, due : Nat \union {NoDate}, balance : Amounts]

Totals == Int \union {Quotes!SumCents(rows) : rows \in SUBSET Rows}

Answers ==
    {"NONE", "NOT_FOUND", "UNAVAILABLE", "SELECTION_INVALID", "INVALID", "EN_MORA", "VIGENTE",
     "AL_DIA", "LISTED", "NOT_PAYABLE", "VERIFIED", "AMOUNT_CHANGED", "HANDED"}

Consults ==
    [kind : Quotes!Kinds \union {"NONE"}, at : {"IDLE", "PERSON", "INSTALLMENTS", "ANSWERED"},
     person : Persons \union {Nobody}, item : Installments \union {Nobody}, paid : Nat,
     left : SUBSET Agreements,
     rows : SUBSET Rows, answer : Answers, total : Totals]

QuotesIInv ==
    /\ today \in Nat /\ balance \in [Installments -> Amounts]
    /\ consult \in [Consumers -> Consults]
    /\ \A u \in Consumers : ConsultStands(u)

LEMMA FirstIsLeast ==
    ASSUME NEW rows, \A row \in rows : row.due \in Nat, rows # {}
    PROVE  LET first == CHOOSE row \in rows : \A other \in rows : row.due <= other.due
           IN  first \in rows /\ \A other \in rows : first.due <= other.due
  <1> DEFINE days == {row.due : row \in rows}
  <1>1. days # {} /\ days \subseteq Nat
    OBVIOUS
  <1>2. PICK least \in days : \A other \in days : <<other, least>> \notin OpToRel(<, Nat)
    BY <1>1, NatLessThanWellFounded, WFMin
  <1>3. \A other \in days : least <= other
    <2> TAKE other \in days
    <2>1. other \in Nat /\ least \in Nat
      BY <1>1, <1>2
    <2>2. ~(other < least)
      BY <2>1, <1>2 DEF OpToRel
    <2> QED BY <2>1, <2>2
  <1>4. \E row \in rows : \A other \in rows : row.due <= other.due
    BY <1>2, <1>3
  <1> QED BY <1>4

LEMMA Selected ==
    ASSUME NEW rows, NEW day \in Nat,
           \A row \in rows : row.due \in Nat \union {NoDate},
           NEW row \in rows
    PROVE  row \in Quotes!SelectPayable(rows, day) <=>
              /\ row.due # NoDate /\ row.balance # 0
              /\ ~\E other \in rows :
                    /\ other.due # NoDate /\ other.balance # 0
                    /\ other.due >= day /\ other.due < row.due
  <1> DEFINE candidates == {x \in rows : x.due # NoDate /\ x.balance # 0}
             nonOverdue == {x \in candidates : x.due >= day}
             first == CHOOSE x \in nonOverdue : \A other \in nonOverdue : x.due <= other.due
             chosen == (candidates \ nonOverdue) \union {x \in nonOverdue : x.due = first.due}
  <1>1. Quotes!SelectPayable(rows, day) = chosen
    BY DEF Quotes!SelectPayable, Quotes!HasPositiveBalance
  <1>2. \A x \in candidates : x.due \in Nat
    OBVIOUS
  <1>3. nonOverdue # {} =>
           first \in nonOverdue /\ \A other \in nonOverdue : first.due <= other.due
    BY <1>2, FirstIsLeast
  <1>4. row \in chosen <=>
           row \in candidates /\ ~\E other \in nonOverdue : other.due < row.due
    <2> HIDE DEF first
    <2>1. CASE row \notin candidates
      BY <2>1
    <2>2. CASE row \in candidates \ nonOverdue
      <3>1. \A other \in nonOverdue : ~(other.due < row.due)
        BY <2>2, <1>2
      <3> QED BY <2>2, <3>1
    <2>3. CASE row \in nonOverdue
      <3>1. first \in nonOverdue /\ \A other \in nonOverdue : first.due <= other.due
        BY <2>3, <1>3
      <3>2. row.due = first.due <=> ~\E other \in nonOverdue : other.due < row.due
        BY <2>3, <3>1, <1>2
      <3> QED BY <2>3, <3>2
    <2> QED BY <2>1, <2>2, <2>3
  <1> QED BY <1>1, <1>4

LEMMA QuotesTypes ==
    /\ Holder \in [Agreements -> Persons] /\ ContractOf \in [Installments -> Agreements]
    /\ Due \in [Installments -> Nat \union {NoDate}] /\ LastDay \in Nat
  BY CataloguesAssumption DEF Quotes!QuotesAssumption

(* The rows of a contract as they are read, and what of them is asked for.  *)
LEMMA ContractRows ==
    ASSUME QuotesIInv, NEW c \in Agreements
    PROVE  /\ Quotes!ContractInstallments(c) \in SUBSET Rows
           /\ \A row \in Quotes!ContractInstallments(c) :
                 row.due = Due[row.id] /\ row.balance = balance[row.id] /\ ContractOf[row.id] = c
           /\ \A i \in Installments : ContractOf[i] = c =>
                 [id |-> i, due |-> Due[i], balance |-> balance[i]]
                    \in Quotes!ContractInstallments(c)
  BY QuotesTypes DEF QuotesIInv, Quotes!ContractInstallments, Rows

LEMMA Outstanding ==
    ASSUME QuotesIInv, NEW c \in Agreements
    PROVE  /\ Quotes!OutstandingInstallments(c) \subseteq Quotes!ContractInstallments(c)
           /\ \A row \in Quotes!OutstandingInstallments(c) : IsRow(row)
           /\ Quotes!OutstandingInstallments(c) = {} =>
                 \A i \in Installments :
                    ContractOf[i] = c /\ Due[i] # NoDate => balance[i] = 0
  <1> DEFINE all == Quotes!ContractInstallments(c)
             some == Quotes!OutstandingInstallments(c)
  <1>1. /\ all \in SUBSET Rows
        /\ \A row \in all :
              row.due = Due[row.id] /\ row.balance = balance[row.id] /\ ContractOf[row.id] = c
        /\ \A i \in Installments : ContractOf[i] = c =>
              [id |-> i, due |-> Due[i], balance |-> balance[i]] \in all
    BY ContractRows
  <1>2. some \subseteq all
    BY DEF Quotes!OutstandingInstallments, Quotes!SelectPayable
  <1>3. today \in Nat /\ some = Quotes!SelectPayable(all, today)
    BY DEF QuotesIInv, Quotes!OutstandingInstallments
  <1> HIDE DEF all, some
  <1>4. \A row \in all :
           row \in some <=>
              /\ row.due # NoDate /\ row.balance # 0
              /\ ~\E other \in all :
                    /\ other.due # NoDate /\ other.balance # 0
                    /\ other.due >= today /\ other.due < row.due
    <2>1. \A row \in all : row.due \in Nat \union {NoDate}
      BY <1>1 DEF Rows
    <2> QED BY <1>3, <2>1, Selected
  <1>5. \A row \in some : IsRow(row)
    BY <1>1, <1>2, <1>4 DEF IsRow
  <1>6. ASSUME some = {}, NEW i \in Installments, ContractOf[i] = c, Due[i] # NoDate,
               balance[i] # 0
        PROVE  FALSE
    <2> DEFINE owed == {x \in all : x.due # NoDate /\ x.balance # 0}
    <2>1. \A x \in owed : x.due \in Nat
      BY <1>1 DEF Rows
    <2>2. owed # {}
      BY <1>1, <1>6
    <2>3. PICK first \in owed : \A other \in owed : first.due <= other.due
      BY <2>1, <2>2, FirstIsLeast
    <2>4. \A other \in owed : ~(other.due < first.due)
      BY <2>1, <2>3
    <2> QED BY <1>4, <1>6, <2>3, <2>4
  <1> QED BY <1>2, <1>5, <1>6 DEF all, some

(* master-payable-installments.ts selectPayableInstallments: the rule as    *)
(* its comment puts it.                                                     *)
LEMMA RuleIsKept == QuotesIInv => Quotes!RuleHolds
  <1> SUFFICES ASSUME QuotesIInv, NEW i \in Installments
               PROVE  Quotes!Payable(i) <=>
                         \E row \in Quotes!OutstandingInstallments(ContractOf[i]) : row.id = i
    BY DEF Quotes!RuleHolds
  <1> DEFINE c == ContractOf[i]
             all == Quotes!ContractInstallments(c)
             some == Quotes!OutstandingInstallments(c)
             mine == [id |-> i, due |-> Due[i], balance |-> balance[i]]
  <1>0. c \in Agreements
    BY QuotesTypes
  <1>1. /\ all \in SUBSET Rows
        /\ \A row \in all :
              row.due = Due[row.id] /\ row.balance = balance[row.id] /\ ContractOf[row.id] = c
        /\ \A j \in Installments : ContractOf[j] = c =>
              [id |-> j, due |-> Due[j], balance |-> balance[j]] \in all
    BY ContractRows, <1>0
  <1>2. \A row \in all : row.due \in Nat \union {NoDate}
    BY <1>1 DEF Rows
  <1>3. today \in Nat /\ some = Quotes!SelectPayable(all, today) /\ some \subseteq all
    BY <1>0, Outstanding DEF QuotesIInv, Quotes!OutstandingInstallments
  <1>4. \A row \in all : row.id = i => row = mine
    BY <1>1 DEF Rows
  <1>5. mine \in all
    BY <1>1
  <1> HIDE DEF all, some
  <1>6. (\E row \in some : row.id = i) <=> mine \in some
    BY <1>3, <1>4
  <1>7. mine \in some <=>
           /\ mine.due # NoDate /\ mine.balance # 0
           /\ ~\E other \in all :
                 /\ other.due # NoDate /\ other.balance # 0
                 /\ other.due >= today /\ other.due < mine.due
    <2> HIDE DEF mine
    <2> QED BY <1>2, <1>3, <1>5, Selected
  <1>8. (\E other \in all :
            /\ other.due # NoDate /\ other.balance # 0
            /\ other.due >= today /\ other.due < mine.due) <=>
        (\E j \in Installments :
            /\ ContractOf[j] = c /\ Due[j] # NoDate /\ balance[j] # 0
            /\ Due[j] >= today /\ Due[j] < Due[i])
    <2>1. ASSUME NEW other \in all, other.due # NoDate, other.balance # 0,
                 other.due >= today, other.due < mine.due
          PROVE  \E j \in Installments :
                    /\ ContractOf[j] = c /\ Due[j] # NoDate /\ balance[j] # 0
                    /\ Due[j] >= today /\ Due[j] < Due[i]
      <3>1. other.id \in Installments
        BY <1>1 DEF Rows
      <3> QED BY <2>1, <3>1, <1>1
    <2>2. ASSUME NEW j \in Installments,
                 ContractOf[j] = c, Due[j] # NoDate, balance[j] # 0,
                 Due[j] >= today, Due[j] < Due[i]
          PROVE  \E other \in all :
                    /\ other.due # NoDate /\ other.balance # 0
                    /\ other.due >= today /\ other.due < mine.due
      BY <2>2, <1>1
    <2> QED BY <2>1, <2>2
  <1> QED BY <1>6, <1>7, <1>8 DEF Quotes!Payable, some

LEMMA QuotesInitial == Quotes!QuotesInit => QuotesIInv
  <1> SUFFICES ASSUME Quotes!QuotesInit PROVE QuotesIInv
    OBVIOUS
  <1>1. today \in Nat /\ balance \in [Installments -> Amounts]
    BY DEF Quotes!QuotesInit, Amounts, Quotes!Fraction
  <1>2. Quotes!NoConsult \in Consults
    BY DEF Quotes!NoConsult, Consults, Totals, Answers
  <1>3. consult \in [Consumers -> Consults]
    BY <1>2 DEF Quotes!QuotesInit
  <1>4. \A u \in Consumers : ConsultStands(u)
    BY DEF Quotes!QuotesInit, Quotes!NoConsult, ConsultStands
  <1> QED BY <1>1, <1>3, <1>4 DEF QuotesIInv

(* A step of one request.                                                   *)
LEMMA ConsultChanges ==
    ASSUME QuotesIInv, NEW u \in Consumers, NEW said \in Consults,
           consult' = [consult EXCEPT ![u] = said], UNCHANGED <<today, balance>>,
           ConsultStands(u)'
    PROVE  QuotesIInv'
  <1>1. consult' \in [Consumers -> Consults]
    BY DEF QuotesIInv
  <1>2. \A q \in Consumers : ConsultStands(q)'
    <2> TAKE q \in Consumers
    <2>1. CASE q = u
      BY <2>1
    <2>2. CASE q # u
      <3>1. consult'[q] = consult[q] /\ ConsultStands(q)
        BY <2>2 DEF QuotesIInv
      <3> QED BY <3>1 DEF ConsultStands, OwesNothing, IsRow
    <2> QED BY <2>1, <2>2
  <1> QED BY <1>1, <1>2 DEF QuotesIInv

(* An answer about a request whose reads stand.                             *)
LEMMA AnswerStands ==
    ASSUME QuotesIInv, NEW u \in Consumers, NEW answer \in Answers, NEW total \in Totals,
           consult[u].at \in {"PERSON", "INSTALLMENTS"},
           Quotes!Answer(u, answer, total), UNCHANGED <<today, balance>>,
           answer = "AL_DIA" => OwesNothing(consult[u].person, {}),
           answer \in {"VERIFIED", "HANDED"} =>
              \E row \in consult[u].rows : row.id = consult[u].item /\ row.balance = total,
           answer \in {"EN_MORA", "VIGENTE"} =>
              /\ total = Quotes!SumCents(consult[u].rows)
              /\ \A row \in consult[u].rows : row.balance # Quotes!Fraction
    PROVE  QuotesIInv'
  <1> DEFINE said == [consult[u] EXCEPT !.at = "ANSWERED", !.answer = answer, !.total = total,
                                        !.left = {}]
  <1>0. consult[u] \in Consults /\ ConsultStands(u)
    BY DEF QuotesIInv
  <1>1. /\ said.kind = consult[u].kind /\ said.at = "ANSWERED"
        /\ said.person = consult[u].person /\ said.item = consult[u].item
        /\ said.paid = consult[u].paid /\ said.left = {} /\ said.rows = consult[u].rows
        /\ said.answer = answer /\ said.total = total
    BY <1>0 DEF Consults
  <1>2. said \in Consults
    BY <1>0 DEF Consults
  <1>3. consult' = [consult EXCEPT ![u] = said]
    BY DEF Quotes!Answer, Quotes!Set
  <1>4. consult'[u] = said
    BY <1>3 DEF QuotesIInv
  <1> HIDE DEF said
  <1>5. ConsultStands(u)'
    BY <1>0, <1>1, <1>4 DEF ConsultStands, OwesNothing, IsRow
  <1> QED BY <1>2, <1>3, <1>5, ConsultChanges

LEMMA FindsAPerson ==
    ASSUME QuotesIInv, NEW u \in Consumers, NEW d,
           NEW kind \in Quotes!Kinds, NEW item \in Installments \union {Nobody},
           NEW paid \in Nat, kind = "STATEMENT" => item = Nobody,
           Quotes!Lookup(u, d, kind, item, paid)
    PROVE  QuotesIInv'
  <1>1. PICK at \in {"PERSON", "ANSWERED"}, person \in Persons \union {Nobody},
             asked \in Installments \union {Nobody}, amount \in Nat,
             answer \in {"NONE", "NOT_FOUND", "UNAVAILABLE"} :
           /\ consult' = [consult EXCEPT ![u] =
                 [kind |-> kind, at |-> at, person |-> person, item |-> asked,
                  paid |-> amount, left |-> {}, rows |-> {}, answer |-> answer, total |-> 0]]
           /\ at # "ANSWERED" => answer = "NONE"
           /\ asked \in {item, Nobody}
    <2> DEFINE p == Quotes!FindPerson(d)
    <2>1. CASE p \in Persons
      <3>1. consult' = [consult EXCEPT ![u] =
                 [kind |-> kind, at |-> "PERSON", person |-> p, item |-> item, paid |-> paid,
                  left |-> {}, rows |-> {}, answer |-> "NONE", total |-> 0]]
        BY <2>1 DEF Quotes!Lookup, Quotes!Set, Quotes!NoConsult
      <3> HIDE DEF p
      <3> QED BY <2>1, <3>1
    <2>2. CASE p \notin Persons
      <3> DEFINE said == IF p = "NOT_FOUND" THEN "NOT_FOUND" ELSE "UNAVAILABLE"
      <3>1. consult' = [consult EXCEPT ![u] =
                 [kind |-> kind, at |-> "ANSWERED", person |-> Nobody, item |-> Nobody,
                  paid |-> 0, left |-> {}, rows |-> {}, answer |-> said, total |-> 0]]
        BY <2>2 DEF Quotes!Lookup, Quotes!Set, Quotes!NoConsult
      <3>2. said \in {"NONE", "NOT_FOUND", "UNAVAILABLE"}
        OBVIOUS
      <3> HIDE DEF said, p
      <3> QED BY <3>1, <3>2
    <2> QED BY <2>1, <2>2
  <1> DEFINE said == [kind |-> kind, at |-> at, person |-> person, item |-> asked,
                      paid |-> amount, left |-> {}, rows |-> {}, answer |-> answer,
                      total |-> 0]
  <1>2. said \in Consults
    BY <1>1 DEF Consults, Totals, Answers
  <1>3. consult'[u] = said
    BY <1>1 DEF QuotesIInv
  <1>4. ConsultStands(u)'
    BY <1>1, <1>3 DEF ConsultStands
  <1>5. UNCHANGED <<today, balance>>
    BY DEF Quotes!Lookup
  <1> HIDE DEF said
  <1>6. consult' = [consult EXCEPT ![u] = said]
    BY <1>1 DEF said
  <1> QED BY <1>2, <1>4, <1>5, <1>6, ConsultChanges

LEMMA ReadContractsStep ==
    ASSUME QuotesIInv, NEW u \in Consumers, Quotes!ReadContracts(u)
    PROVE  QuotesIInv'
  <1> DEFINE own == Quotes!OwnContracts(consult[u].person)
             asked == IF consult[u].item = Nobody THEN own ELSE {ContractOf[consult[u].item]}
             said == [consult[u] EXCEPT !.at = "INSTALLMENTS", !.left = asked]
  <1>0. consult[u] \in Consults /\ ConsultStands(u) /\ consult[u].at = "PERSON"
    BY DEF QuotesIInv, Quotes!ReadContracts
  <1>1. own = {c \in Agreements : Holder[c] = consult[u].person}
    BY DEF Quotes!OwnContracts, Quotes!ContractsByPerson
  <1>2. CASE asked \subseteq own
    <2>1. /\ said.kind = consult[u].kind /\ said.at = "INSTALLMENTS"
          /\ said.person = consult[u].person /\ said.item = consult[u].item
          /\ said.left = asked /\ said.rows = consult[u].rows
          /\ said.answer = consult[u].answer
      BY <1>0 DEF Consults
    <2>2. said \in Consults
      BY <1>0, <1>1, <1>2 DEF Consults
    <2>3. consult' = [consult EXCEPT ![u] = said] /\ UNCHANGED <<today, balance>>
      BY <1>2 DEF Quotes!ReadContracts, Quotes!Set
    <2>4. consult'[u] = said
      BY <2>3 DEF QuotesIInv
    <2> HIDE DEF said
    <2>5. said.kind = "STATEMENT" => OwesNothing(said.person, said.left)
      <3> SUFFICES ASSUME said.kind = "STATEMENT" PROVE OwesNothing(said.person, said.left)
        OBVIOUS
      <3>1. asked = own
        BY <1>0, <2>1 DEF ConsultStands
      <3> QED BY <1>1, <2>1, <3>1, QuotesTypes DEF OwesNothing
    <2>6. OwesNothing(said.person, said.left)' <=> OwesNothing(said.person, said.left)
      BY <2>3 DEF OwesNothing, said
    <2>7. said.rows = {} /\ said.answer = "NONE"
      BY <1>0, <2>1 DEF ConsultStands
    <2>8. \A c \in said.left : c \in Agreements /\ Holder[c] = said.person
      BY <1>1, <1>2, <2>1
    <2>9. said.kind = "STATEMENT" => said.item = Nobody
      BY <1>0, <2>1 DEF ConsultStands
    <2>10. ConsultStands(u)'
      BY <2>1, <2>3, <2>4, <2>5, <2>7, <2>8, <2>9 DEF ConsultStands, OwesNothing
    <2> QED BY <2>2, <2>3, <2>10, ConsultChanges
  <1>3. CASE ~(asked \subseteq own)
    <2>1. Quotes!Answer(u, "SELECTION_INVALID", 0) /\ UNCHANGED <<today, balance>>
      BY <1>3 DEF Quotes!ReadContracts
    <2> QED BY <1>0, <2>1, AnswerStands DEF Answers, Totals
  <1> QED BY <1>2, <1>3

LEMMA ReadInstallmentsStep ==
    ASSUME QuotesIInv, NEW u \in Consumers, NEW c \in Agreements,
           Quotes!ReadInstallments(u, c)
    PROVE  QuotesIInv'
  <1> DEFINE some == Quotes!OutstandingInstallments(c)
             said == [consult[u] EXCEPT !.left = @ \ {c}, !.rows = @ \union some]
  <1>0. /\ consult[u] \in Consults /\ ConsultStands(u)
        /\ consult[u].at = "INSTALLMENTS" /\ c \in consult[u].left
    BY DEF QuotesIInv, Quotes!ReadInstallments
  <1>1. /\ some \subseteq Rows
        /\ \A row \in some : ContractOf[row.id] = c /\ IsRow(row)
        /\ \A a, b \in some : a.id = b.id => a = b
        /\ some = {} => \A i \in Installments :
                           ContractOf[i] = c /\ Due[i] # NoDate => balance[i] = 0
    <2>1. \A row \in some : row.due = Due[row.id] /\ row.balance = balance[row.id]
                             /\ ContractOf[row.id] = c /\ row \in Rows
      BY Outstanding, ContractRows
    <2>2. \A a, b \in some : a.id = b.id => a = b
      BY <2>1 DEF Rows
    <2> QED BY <2>1, <2>2, Outstanding
  <1> HIDE DEF some
  <1>2. /\ said.kind = consult[u].kind /\ said.at = "INSTALLMENTS"
        /\ said.person = consult[u].person /\ said.item = consult[u].item
        /\ said.left = consult[u].left \ {c} /\ said.rows = consult[u].rows \union some
        /\ said.answer = consult[u].answer
    BY <1>0 DEF Consults
  <1>3. said \in Consults
    BY <1>0, <1>1 DEF Consults
  <1>4. consult' = [consult EXCEPT ![u] = said] /\ UNCHANGED <<today, balance>>
    BY DEF Quotes!ReadInstallments, Quotes!Set, some
  <1>5. consult'[u] = said
    BY <1>4 DEF QuotesIInv
  <1> HIDE DEF said
  <1>6. \A row \in said.rows : IsRow(row) /\ Holder[ContractOf[row.id]] = said.person
                                /\ ContractOf[row.id] \notin said.left
    BY <1>0, <1>1, <1>2 DEF ConsultStands
  <1>7. \A a, b \in said.rows : a.id = b.id => a = b
    BY <1>0, <1>1, <1>2 DEF ConsultStands
  <1>8. \A d \in said.left : d \in Agreements /\ Holder[d] = said.person
    BY <1>0, <1>2 DEF ConsultStands
  <1>9. said.kind = "STATEMENT" /\ said.rows = {} => OwesNothing(said.person, said.left)
    <2> SUFFICES ASSUME said.kind = "STATEMENT", said.rows = {}
                 PROVE  OwesNothing(said.person, said.left)
      OBVIOUS
    <2>1. OwesNothing(consult[u].person, consult[u].left)
      BY <1>0, <1>2 DEF ConsultStands
    <2>2. some = {}
      BY <1>2
    <2> QED BY <1>1, <1>2, <2>1, <2>2 DEF OwesNothing
  <1>10. said.answer = "NONE" /\ (said.kind = "STATEMENT" => said.item = Nobody)
    BY <1>0, <1>2 DEF ConsultStands
  <1>11. ConsultStands(u)'
    BY <1>2, <1>4, <1>5, <1>6, <1>7, <1>8, <1>9, <1>10 DEF ConsultStands, OwesNothing, IsRow
  <1> QED BY <1>3, <1>4, <1>11, ConsultChanges

(* positiveMasterDecimalToCents converts what is owed.                      *)
LEMMA CentsOfOwed ==
    ASSUME NEW b \in Amounts, Quotes!Cents(b) # 0
    PROVE  /\ Quotes!Cents(b) \in Nat /\ Quotes!Cents(b) > 0
           /\ b = Quotes!Cents(b) /\ b # Quotes!Fraction
  BY DEF Amounts, Quotes!Cents, Quotes!Fraction

LEMMA StatementStep ==
    ASSUME QuotesIInv, NEW u \in Consumers, Quotes!Statement(u)
    PROVE  QuotesIInv'
  <1> DEFINE rows == consult[u].rows
             summed == {row \in rows : Quotes!Cents(row.balance) > 0}
  <1>0. /\ consult[u] \in Consults /\ ConsultStands(u) /\ consult[u].at = "INSTALLMENTS"
        /\ consult[u].left = {} /\ consult[u].kind = "STATEMENT"
        /\ UNCHANGED <<today, balance>>
    BY DEF QuotesIInv, Quotes!Statement, Quotes!AllRead
  <1>1. CASE Quotes!InvalidAmounts(rows) # {}
    <2>1. Quotes!Answer(u, "INVALID", 0)
      BY <1>1 DEF Quotes!Statement
    <2> QED BY <1>0, <2>1, AnswerStands DEF Answers, Totals
  <1>2. CASE Quotes!InvalidAmounts(rows) = {}
    <2>1. rows \subseteq Rows
      BY <1>0 DEF Consults
    <2>2. summed = rows /\ \A row \in rows : row.balance # Quotes!Fraction
      <3>1. \A row \in rows : row.balance \in Amounts
        BY <2>1 DEF Rows
      <3>2. \A row \in rows : Quotes!Cents(row.balance) # 0
        BY <1>2 DEF Quotes!InvalidAmounts
      <3>3. \A row \in rows :
               Quotes!Cents(row.balance) > 0 /\ row.balance # Quotes!Fraction
        BY <3>1, <3>2, CentsOfOwed
      <3> QED BY <3>3
    <2>3. Quotes!Answer(u, Quotes!StatementStatus(rows, today), Quotes!SumCents(rows))
      BY <1>2, <2>2 DEF Quotes!Statement
    <2>4. Quotes!SumCents(rows) \in Totals
      BY <2>1 DEF Totals
    <2>5. /\ Quotes!StatementStatus(rows, today) \in {"EN_MORA", "VIGENTE", "AL_DIA"}
          /\ Quotes!StatementStatus(rows, today) = "AL_DIA" => rows = {}
      BY DEF Quotes!StatementStatus
    <2>6. rows = {} => OwesNothing(consult[u].person, {})
      BY <1>0 DEF ConsultStands
    <2> HIDE DEF rows
    <2> QED BY <1>0, <2>2, <2>3, <2>4, <2>5, <2>6, AnswerStands DEF Answers, rows
  <1> QED BY <1>1, <1>2

LEMMA QuoteIsRead ==
    ASSUME QuotesIInv, NEW u \in Consumers
    PROVE  /\ Quotes!QuoteResult(u).status \in {"NOT_PAYABLE", "INVALID", "VERIFIED"}
           /\ Quotes!QuoteResult(u).cents \in Nat
           /\ Quotes!QuoteResult(u).status = "VERIFIED" =>
                 \E row \in consult[u].rows :
                    row.id = consult[u].item /\ row.balance = Quotes!QuoteResult(u).cents
  <1> DEFINE found == {row \in consult[u].rows : row.id = consult[u].item}
  <1>0. consult[u].rows \subseteq Rows
    BY DEF QuotesIInv, Consults
  <1>1. CASE found = {}
    BY <1>1 DEF Quotes!QuoteResult
  <1>2. CASE found # {} /\ Quotes!InvalidAmounts(found) # {}
    BY <1>2 DEF Quotes!QuoteResult
  <1>3. CASE found # {} /\ Quotes!InvalidAmounts(found) = {}
    <2>1. PICK row \in found : row = CHOOSE x \in found : TRUE
      BY <1>3
    <2>2. Quotes!QuoteResult(u) = [status |-> "VERIFIED", cents |-> Quotes!Cents(row.balance)]
      BY <1>3, <2>1 DEF Quotes!QuoteResult
    <2>3. Quotes!Cents(row.balance) # 0 /\ row.balance \in Amounts
      BY <1>0, <1>3 DEF Quotes!InvalidAmounts, Rows
    <2>4. Quotes!Cents(row.balance) \in Nat /\ row.balance = Quotes!Cents(row.balance)
      BY <2>3, CentsOfOwed
    <2>5. row \in consult[u].rows /\ row.id = consult[u].item
      BY <2>1
    <2> HIDE DEF found
    <2> QED BY <2>2, <2>4, <2>5
  <1> QED BY <1>1, <1>2, <1>3

LEMMA OtherAnswers ==
    ASSUME QuotesIInv, NEW u \in Consumers,
           Quotes!ReadFails(u) \/ Quotes!Obligations(u) \/ Quotes!Quote(u)
              \/ Quotes!ApplyConfirmed(u)
    PROVE  QuotesIInv'
  <1>0. consult[u] \in Consults
    BY DEF QuotesIInv
  <1>1. CASE Quotes!ReadFails(u)
    BY <1>1, AnswerStands DEF Quotes!ReadFails, Answers, Totals
  <1>2. CASE Quotes!Obligations(u)
    BY <1>2, AnswerStands DEF Quotes!Obligations, Quotes!AllRead, Answers, Totals
  <1>3. CASE Quotes!Quote(u)
    <2> DEFINE status == Quotes!QuoteResult(u).status
               cents == Quotes!QuoteResult(u).cents
    <2>1. /\ Quotes!Answer(u, status, cents) /\ UNCHANGED <<today, balance>>
          /\ consult[u].at = "INSTALLMENTS"
      BY <1>3 DEF Quotes!Quote, Quotes!AllRead
    <2>2. /\ status \in {"NOT_PAYABLE", "INVALID", "VERIFIED"} /\ cents \in Nat
          /\ status = "VERIFIED" => \E row \in consult[u].rows :
                                     row.id = consult[u].item /\ row.balance = cents
      BY QuoteIsRead
    <2> HIDE DEF status, cents
    <2> QED BY <2>1, <2>2, AnswerStands DEF Answers, Totals
  <1>4. CASE Quotes!ApplyConfirmed(u)
    <2> DEFINE status == Quotes!QuoteResult(u).status
               cents == Quotes!QuoteResult(u).cents
    <2>1. /\ UNCHANGED <<today, balance>> /\ consult[u].at = "INSTALLMENTS"
          /\ \/ \E answer \in {"NOT_PAYABLE", "AMOUNT_CHANGED"} : Quotes!Answer(u, answer, 0)
             \/ /\ status = "VERIFIED" /\ cents = consult[u].paid
                /\ Quotes!Answer(u, "HANDED", consult[u].paid)
      BY <1>4 DEF Quotes!ApplyConfirmed, Quotes!AllRead, Quotes!SameAmount
    <2>2. /\ cents \in Nat
          /\ status = "VERIFIED" => \E row \in consult[u].rows :
                                     row.id = consult[u].item /\ row.balance = cents
      BY QuoteIsRead
    <2> HIDE DEF status, cents
    <2>3. CASE \E answer \in {"NOT_PAYABLE", "AMOUNT_CHANGED"} : Quotes!Answer(u, answer, 0)
      BY <2>1, <2>3, AnswerStands DEF Answers, Totals
    <2>4. CASE /\ status = "VERIFIED" /\ cents = consult[u].paid
               /\ Quotes!Answer(u, "HANDED", consult[u].paid)
      BY <2>1, <2>2, <2>4, AnswerStands DEF Answers, Totals
    <2> QED BY <2>1, <2>3, <2>4
  <1> QED BY <1>1, <1>2, <1>3, <1>4

LEMMA QuotesStep ==
    ASSUME QuotesIInv, Quotes!QuotesNext \/ UNCHANGED quotesVars
    PROVE  QuotesIInv'
  <1>1. CASE UNCHANGED quotesVars
    BY <1>1 DEF quotesVars, QuotesIInv, ConsultStands, OwesNothing, IsRow
  <1>2. ASSUME today' \in Nat, balance' \in [Installments -> Amounts], UNCHANGED consult,
               \A i \in Installments : balance[i] = 0 => balance'[i] = 0
        PROVE  QuotesIInv'
    <2>1. \A u \in Consumers : ConsultStands(u)'
      <3> TAKE u \in Consumers
      <3> DEFINE said == consult[u]
      <3>1. ConsultStands(u) /\ consult' = consult
        BY <1>2 DEF QuotesIInv
      <3>2. /\ OwesNothing(said.person, said.left) => OwesNothing(said.person, said.left)'
            /\ OwesNothing(said.person, {}) => OwesNothing(said.person, {})'
        BY <1>2 DEF OwesNothing
      <3>3. /\ said.at = "INSTALLMENTS" /\ said.kind = "STATEMENT" /\ said.rows = {}
                  => OwesNothing(said.person, said.left)'
            /\ said.answer = "AL_DIA" => OwesNothing(said.person, {})'
        BY <3>1, <3>2 DEF ConsultStands
      <3> QED BY <3>1, <3>3 DEF ConsultStands, OwesNothing, IsRow
    <2> QED BY <1>2, <2>1 DEF QuotesIInv
  <1>3. CASE Quotes!Midnight
    BY <1>2, <1>3 DEF Quotes!Midnight, QuotesIInv
  <1>4. ASSUME NEW i \in Installments, Quotes!PaidAtOffice(i)
        PROVE  QuotesIInv'
    <2>1. /\ balance' \in [Installments -> Amounts]
          /\ \A j \in Installments : balance[j] = 0 => balance'[j] = 0
      BY <1>4 DEF Quotes!PaidAtOffice, QuotesIInv, Amounts, Quotes!Fraction
    <2> QED BY <1>2, <1>4, <2>1 DEF Quotes!PaidAtOffice, QuotesIInv
  <1>5. ASSUME NEW u \in Consumers, Quotes!Finish(u)
        PROVE  QuotesIInv'
    <2>1. Quotes!NoConsult \in Consults
      BY DEF Quotes!NoConsult, Consults, Totals, Answers
    <2>2. /\ consult' = [consult EXCEPT ![u] = Quotes!NoConsult]
          /\ UNCHANGED <<today, balance>>
      BY <1>5 DEF Quotes!Finish, Quotes!Set
    <2>3. consult'[u] = Quotes!NoConsult
      BY <2>2 DEF QuotesIInv
    <2>4. ConsultStands(u)'
      BY <2>3 DEF ConsultStands, Quotes!NoConsult
    <2> QED BY <2>1, <2>2, <2>4, ConsultChanges
  <1>6. ASSUME NEW u \in Consumers, NEW d \in Documents,
               \/ \E kind \in {"STATEMENT", "OBLIGATIONS"} :
                     Quotes!Lookup(u, d, kind, Nobody, 0)
               \/ \E i \in Installments : Quotes!Lookup(u, d, "QUOTE", i, 0)
               \/ \E i \in Installments, paid \in 1..2 :
                     Quotes!Lookup(u, d, "CONFIRMED", i, paid)
        PROVE  QuotesIInv'
    <2>1. ASSUME NEW kind \in {"STATEMENT", "OBLIGATIONS"},
                 Quotes!Lookup(u, d, kind, Nobody, 0)
          PROVE  QuotesIInv'
      BY <2>1, FindsAPerson DEF Quotes!Kinds
    <2>2. ASSUME NEW i \in Installments, Quotes!Lookup(u, d, "QUOTE", i, 0)
          PROVE  QuotesIInv'
      BY <2>2, FindsAPerson DEF Quotes!Kinds
    <2>3. ASSUME NEW i \in Installments, NEW paid \in 1..2,
                 Quotes!Lookup(u, d, "CONFIRMED", i, paid)
          PROVE  QuotesIInv'
      BY <2>3, FindsAPerson DEF Quotes!Kinds
    <2> QED BY <1>6, <2>1, <2>2, <2>3
  <1> QED BY <1>1, <1>3, <1>4, <1>5, <1>6, ReadContractsStep, ReadInstallmentsStep,
             StatementStep, OtherAnswers DEF Quotes!QuotesNext

LEMMA QuotesHoldThen == QuotesIInv => Quotes!QuotesHold
  <1> SUFFICES ASSUME QuotesIInv PROVE Quotes!QuotesHold
    OBVIOUS
  <1>1. Quotes!UpToDateOwesNothing
    BY QuotesTypes DEF QuotesIInv, ConsultStands, OwesNothing, Quotes!UpToDateOwesNothing
  <1>2. Quotes!AmountsAreTheMasters
    BY DEF QuotesIInv, ConsultStands, Quotes!AmountsAreTheMasters
  <1> QED BY <1>1, <1>2, RuleIsKept DEF Quotes!QuotesHold

-----------------------------------------------------------------------------
(* The parts together.                                                      *)

LEMMA BridgeSizes ==
    /\ Connections \in Nat \ {0} /\ Threshold \in Nat \ {0} /\ 1 \in Nat \ {0}
    /\ ResetOutlasts \in BOOLEAN
  BY CataloguesAssumption DEF Bridge!ReadsAssumption

MasterIInv ==
    /\ part = "bridge" => ReadsIInv(Connections, Threshold)
    /\ part = "narrow" => ReadsIInv(1, 1)
    /\ part = "quotes" => QuotesIInv

catalogueVars ==
    <<part, legalVars, plansVars, contractVars, offerVars, knowledgeVars, bridgeVars, quotesVars>>

LEMMA MasterInitial == CataloguesInit => MasterIInv
  <1> SUFFICES ASSUME CataloguesInit PROVE MasterIInv
    OBVIOUS
  <1>1. Bridge(Connections, Threshold)!ReadsInit
    BY DEF CataloguesInit, Bridge!ReadsInit, Bridge!NoRead
  <1>2. ReadsIInv(Connections, Threshold) /\ ReadsIInv(1, 1)
    BY <1>1, BridgeSizes, ReadsInitial DEF CataloguesInit
  <1>3. QuotesIInv
    BY QuotesInitial DEF CataloguesInit
  <1> QED BY <1>2, <1>3 DEF MasterIInv

LEMMA MasterStep == MasterIInv /\ [CataloguesNext]_catalogueVars => MasterIInv'
  <1> SUFFICES ASSUME MasterIInv, [CataloguesNext]_catalogueVars PROVE MasterIInv'
    OBVIOUS
  <1>1. UNCHANGED part
    BY DEF CataloguesNext, catalogueVars
  <1>2. CASE part = "bridge"
    <2>1. Bridge(Connections, Threshold)!ReadsNext \/ UNCHANGED bridgeVars
      BY <1>2 DEF CataloguesNext, catalogueVars
    <2>2. ReadsIInv(Connections, Threshold)'
      BY <1>2, <2>1, BridgeSizes, ReadsStep DEF MasterIInv
    <2> QED BY <1>1, <1>2, <2>2 DEF MasterIInv
  <1>3. CASE part = "narrow"
    <2>1. Bridge(1, 1)!ReadsNext \/ UNCHANGED bridgeVars
      BY <1>3 DEF CataloguesNext, catalogueVars
    <2>2. ReadsIInv(1, 1)'
      BY <1>3, <2>1, BridgeSizes, ReadsStep DEF MasterIInv
    <2> QED BY <1>1, <1>3, <2>2 DEF MasterIInv
  <1>4. CASE part = "quotes"
    <2>1. Quotes!QuotesNext \/ UNCHANGED quotesVars
      BY <1>4 DEF CataloguesNext, catalogueVars
    <2>2. QuotesIInv'
      BY <1>4, <2>1, QuotesStep DEF MasterIInv
    <2> QED BY <1>1, <1>4, <2>2 DEF MasterIInv
  <1>5. CASE part \notin {"bridge", "narrow", "quotes"}
    BY <1>1, <1>5 DEF MasterIInv
  <1> QED BY <1>2, <1>3, <1>4, <1>5

(* firebird-read.executor.ts, firebird.client.ts, master-payable-           *)
(* installments.ts and the services that quote: for every number of reads,  *)
(* connections, failures, persons and installments, rows come from the      *)
(* verified account only, a connection is given back whatever fails, a half *)
(* open circuit is decided by its one probe, and what is quoted, stated or  *)
(* confirmed is a balance the master showed.                                *)
THEOREM MasterIsReadRightCorrect == CataloguesSpec => []MasterIsReadRight
  <1>1. MasterIInv => MasterIsReadRight
    BY ReadsHoldThen, QuotesHoldThen, BridgeSizes DEF MasterIInv, MasterIsReadRight
  <1> QED BY <1>1, MasterInitial, MasterStep, PTL DEF CataloguesSpec, catalogueVars

(* The composition writes each catalogue by its own steps, so that the      *)
(* theorems about each hold of the whole.                                   *)
THEOREM CataloguesAreTheirSpecifications ==
    CataloguesSpec => LegalSpec /\ PlansSpec /\ ContractsSpec /\ KnowledgeSpec
  <1>1. CataloguesInit => LegalInit /\ PlansInit /\ ContractsInit /\ KnowledgeInit
    BY DEF CataloguesInit
  <1>2. [CataloguesNext]_catalogueVars
           => /\ [LegalNext]_legalVars /\ [PlansNext]_plansVars
              /\ [ContractsNext]_<<offerVars, contractVars>> /\ [KnowledgeNext]_knowledgeVars
    BY DEF CataloguesNext, catalogueVars
  <1> QED BY <1>1, <1>2, PTL
        DEF CataloguesSpec, catalogueVars, LegalSpec, PlansSpec, ContractsSpec, KnowledgeSpec
=============================================================================
