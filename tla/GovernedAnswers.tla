--------------------------- MODULE GovernedAnswers ---------------------------
(***************************************************************************)
(* What the assistant says to a visitor: the steps of one orchestration    *)
(* (koral-orchestration.pipeline.ts), from the message it reads to the     *)
(* reply it commits, through the adapters of the knowledge and inference   *)
(* gateways and their policies.                                            *)
(*                                                                         *)
(* Between the steps the deadline passes, published knowledge is withdrawn *)
(* and people work on the conversation; how its rows are locked is the     *)
(* subject of KoralConversations, so that here a commit is accepted or     *)
(* refused freely.                                                         *)
(***************************************************************************)
EXTENDS Naturals, FiniteSets

CONSTANTS Answers,      \* orchestrations in progress
          Passages,     \* published passages of knowledge
          Restricted,   \* the passages that are not public
          MaxPassages,  \* MAX_GROUNDED_EVIDENCE_REFERENCES
          Profiles,     \* versions of the model profile
          Status,       \* Status[v]: its lifecycle status
          Eligible      \* those enabled and approved by policy

AnswersAssumption ==
    /\ Restricted \subseteq Passages /\ Eligible \subseteq Profiles
    /\ MaxPassages \in Nat \ {0} /\ Profiles \subseteq Nat

VARIABLES
    published, \* the passages in force
    run        \* the orchestrations

answersVars == <<published, run>>

-----------------------------------------------------------------------------
(* Messages and who sends them.                                             *)

(* What the regular expressions tell apart: a greeting and nothing else, a  *)
(* topic of the public knowledge, and a sign of personal data.              *)
Bodies == {"GREETING", "TOPIC", "PERSONAL_TOPIC", "PERSONAL", "OTHER"}

IsPublicKnowledgeQuestion(body) == body = "TOPIC"

\* Mutant: a topic makes a message public, whatever else it says.
TopicIsPublic(body) == body \in {"GREETING", "TOPIC", "PERSONAL_TOPIC"}

IsPublicContent(body) == body = "GREETING" \/ IsPublicKnowledgeQuestion(body)

Classify(body) == IF IsPublicContent(body) THEN "PUBLIC" ELSE "PERSONAL"

(* What identity-resolution.service.ts makes of the evidence of a channel:  *)
(* a claim stays below verification, and whoever has a session is placed by *)
(* how fresh its second factor is.                                          *)
Evidence == {"CHANNEL", "CLAIM", "SESSION", "MFA_SESSION", "FRESH_MFA_SESSION"}

AssuranceOf(evidence) ==
    CASE evidence = "CHANNEL" -> "ANONYMOUS"
      [] evidence = "CLAIM" -> "CLAIMED"
      [] evidence = "SESSION" -> "AUTHENTICATED"
      [] evidence = "MFA_SESSION" -> "MFA_VERIFIED"
      [] evidence = "FRESH_MFA_SESSION" -> "STEP_UP_VERIFIED"

\* Mutant: a session is taken for consent.
SessionConsents(assurance) == IF assurance = "ANONYMOUS" THEN "UNKNOWN" ELSE "GRANTED"

(* Authentication is not consent: nothing resolves a consent yet.           *)
ConsentOf(assurance) == "UNKNOWN"

MayAnswerWithoutConsent == {"ANONYMOUS", "CLAIMED"}

(* PublishedModelProfileResolver and ModelRegistry.getPublished.            *)
Published == {v \in Profiles : Status[v] = "PUBLISHED" /\ v \in Eligible}

ProfileResolves == Published # {}

-----------------------------------------------------------------------------
(* An orchestration.                                                        *)

Steps == {"NONE", "RECEIVED", "DECIDED", "KNOWLEDGE", "INFERENCE", "SENT", "VALIDATION",
          "COMMIT", "HANDOFF", "ENDED"}

Results == {"NONE", "RESPONDED", "HANDED_OFF", "WAITING", "ERROR"}

NoRun == [at |-> "NONE", body |-> "OTHER", assurance |-> "ANONYMOUS", late |-> FALSE,
          passages |-> {}, sent |-> FALSE, result |-> "NONE"]

AnswersInit == published = Passages /\ run = [r \in Answers |-> NoRun]

At(r, step) == run[r].at = step

Put(r, fields) == run' = [run EXCEPT ![r] = fields] /\ UNCHANGED published

Goto(r, step) == Put(r, [run[r] EXCEPT !.at = step])

End(r, result) == Put(r, [run[r] EXCEPT !.at = "ENDED", !.result = result])

(* receiveNormalizedMessage.                                                *)
Receive(r, body, evidence) ==
    /\ At(r, "NONE")
    /\ Put(r, [NoRun EXCEPT !.at = "RECEIVED", !.body = body,
                            !.assurance = AssuranceOf(evidence)])

Classification(r) == Classify(run[r].body)

MayAnswer(r) ==
    \/ run[r].assurance \in MayAnswerWithoutConsent
    \/ ConsentOf(run[r].assurance) = "GRANTED"

(* buildSafeContext and evaluateAiPolicy.  Of the conversation only the     *)
(* message itself goes on, which the snapshot holds however many came later.*)
Decide(r) ==
    /\ At(r, "RECEIVED")
    /\ Goto(r, IF ~MayAnswer(r) \/ Classification(r) # "PUBLIC" THEN "HANDOFF"
               ELSE IF run[r].body = "GREETING" THEN "INFERENCE" ELSE "DECIDED")

\* Mutant: the search is made in the scope of the visitor.
InVisitorsScope(k) == k \in published

(* The scope the service principal searches in: the public audience, up to  *)
(* public data, whoever the visitor is.                                     *)
InScope(k) == k \in published \ Restricted

(* retrieveKnowledge: what the search finds is cut to the references an     *)
(* answer may carry; sources that conflict, no source or no answer in time  *)
(* end with a human.                                                        *)
Retrieve(r) ==
    /\ At(r, "DECIDED")
    /\ \/ Goto(r, "HANDOFF")
       \/ /\ ~run[r].late
          /\ \E found \in SUBSET {k \in Passages : InScope(k)} :
                /\ found # {} /\ Cardinality(found) <= MaxPassages
                /\ Put(r, [run[r] EXCEPT !.at = "INFERENCE", !.passages = found])

(* DataClassificationPolicy, for the one profile in the catalogue: personal *)
(* data needs consent, and nothing beyond personal data leaves.             *)
ClassificationAllowed(r) ==
    Classification(r) = "PUBLIC" \/ ConsentOf(run[r].assurance) = "GRANTED"

Grounded(r) == run[r].body = "GREETING" \/ run[r].passages # {}

(* invokeAiGateway and the checks of the gateway, up to the request.  A     *)
(* profile that cannot be resolved is an exception, not an answer.          *)
Invoke(r) ==
    /\ At(r, "INFERENCE")
    /\ CASE ~Grounded(r) \/ run[r].late -> Goto(r, "HANDOFF")
         [] Grounded(r) /\ ~run[r].late /\ ~ProfileResolves -> End(r, "ERROR")
         [] OTHER -> IF ClassificationAllowed(r)
                     THEN Put(r, [run[r] EXCEPT !.at = "SENT", !.sent = TRUE])
                     ELSE Goto(r, "HANDOFF")

(* The provider answers with a text, or with what is handed over: an error, *)
(* a tool that was not offered, an output that does not match its schema.   *)
Outcome(r) ==
    /\ At(r, "SENT")
    /\ \E step \in {"VALIDATION", "HANDOFF"} : Goto(r, step)

(* validateOutboundResponse.                                                *)
Validate(r) ==
    /\ At(r, "VALIDATION")
    /\ \E step \in {"COMMIT", "HANDOFF"} : Goto(r, step)

Commit(r) ==
    /\ At(r, "COMMIT")
    /\ \E result \in {"RESPONDED", "WAITING", "HANDED_OFF"} : End(r, result)

(* handoffWithReferences: refused for a change that still lets the          *)
(* assistant reply, the run waits.                                          *)
HandOff(r) ==
    /\ At(r, "HANDOFF")
    /\ \E result \in {"HANDED_OFF", "WAITING"} : End(r, result)

(* The conversation service, or the store, throws.                          *)
Throws(r) ==
    /\ run[r].at \in {"RECEIVED", "COMMIT", "HANDOFF"}
    /\ End(r, "ERROR")

-----------------------------------------------------------------------------
(* Meanwhile.                                                               *)

Running(r) == run[r].at \notin {"NONE", "ENDED"}

DeadlinePasses(r) ==
    /\ Running(r) /\ ~run[r].late
    /\ Put(r, [run[r] EXCEPT !.late = TRUE])

Withdraw(k) ==
    /\ k \in published
    /\ published' = published \ {k}
    /\ UNCHANGED run

Forget(r) == At(r, "ENDED") /\ Put(r, NoRun)

AnswersNext ==
    \/ \E r \in Answers :
          \/ \E body \in Bodies, evidence \in Evidence : Receive(r, body, evidence)
          \/ Decide(r) \/ Retrieve(r) \/ Invoke(r) \/ Outcome(r) \/ Validate(r)
          \/ Commit(r) \/ HandOff(r) \/ Throws(r)
          \/ DeadlinePasses(r) \/ Forget(r)
    \/ \E k \in Passages : Withdraw(k)

AnswersSpec == AnswersInit /\ [][AnswersNext]_answersVars

-----------------------------------------------------------------------------

AnswersTypeOK ==
    \A r \in Answers :
        /\ run[r].at \in Steps /\ run[r].result \in Results
        /\ run[r].body \in Bodies /\ run[r].passages \subseteq Passages

(* Nothing of a person leaves for the provider: what is sent is a public    *)
(* message and public passages.                                             *)
OnlyPublicLeaves ==
    \A r \in Answers :
        run[r].sent =>
            /\ run[r].body \in {"GREETING", "TOPIC"}
            /\ run[r].passages \cap Restricted = {}
            /\ Cardinality(run[r].passages) <= MaxPassages

(* A visitor who is known, and not only claimed to be, is never answered by *)
(* the assistant, while no consent is resolved; whoever is answered asked   *)
(* something that the answer has sources for, or only said hello.           *)
AnswersAreDue ==
    \A r \in Answers :
        run[r].result = "RESPONDED" =>
            /\ run[r].sent
            /\ run[r].assurance \in {"ANONYMOUS", "CLAIMED"}
            /\ run[r].body = "TOPIC" => run[r].passages # {}

AnswersArePublic == AnswersTypeOK /\ OnlyPublicLeaves /\ AnswersAreDue
=============================================================================
