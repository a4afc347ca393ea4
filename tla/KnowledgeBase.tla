--------------------------- MODULE KnowledgeBase ----------------------------
(* One knowledge article: the lifecycle of its versions, their publication,  *)
(* and the searches Koral answers from.  Standing are versions of other      *)
(* articles, in force throughout.                                            *)
(*                                                                           *)
(* publish reads the version, waits for the item's row, lists what is in     *)
(* force, then writes; the other transitions hold no lock but write only if  *)
(* status and revision are still what they read, which is one step here.     *)
(* A search runs two queries: the snapshots of published versions, then the  *)
(* versions themselves.  Time does not pass: every effective date has come.  *)
EXTENDS Naturals, FiniteSets

CONSTANTS
    Articles,       \* version rows of the article
    Standing,       \* published versions of other articles
    Curators,       \* staff requests being served
    Audience,       \* the audience of each version
    Classification, \* its data classification
    Claim,          \* what it claims about the question, or NoClaim
    NoArticle,
    NoClaim

VARIABLES
    article,        \* KnowledgeVersion.status of each version
    curator,        \* what each publication in progress has read
    search          \* the search being served

knowledgeVars == <<article, curator, search>>

AllVersions == Articles \union Standing

Audiences == {"PUBLIC", "AUTHENTICATED_AFFILIATE", "INTERNAL", "ADMIN_ONLY"}

Classifications == {"PUBLIC", "INTERNAL", "PERSONAL", "SENSITIVE", "HIGHLY_SENSITIVE"}

Rank == [PUBLIC |-> 0, INTERNAL |-> 1, PERSONAL |-> 2, SENSITIVE |-> 3, HIGHLY_SENSITIVE |-> 4]

\* The most each audience may be shown (AUDIENCE_MAX_CLASSIFICATION).
Clearance == [PUBLIC |-> "PUBLIC", AUTHENTICATED_AFFILIATE |-> "PERSONAL",
              INTERNAL |-> "SENSITIVE", ADMIN_ONLY |-> "HIGHLY_SENSITIVE"]

\* resolveKnowledgeAccessScope.
Scopes == {s \in [audience : Audiences, maximum : Classifications] :
              Rank[s.maximum] <= Rank[Clearance[s.audience]]}

\* The audiences whose content a reader may see, as the query asks for them.
AudiencesFor(reader) ==
    CASE reader = "PUBLIC" -> {"PUBLIC"}
      [] reader = "AUTHENTICATED_AFFILIATE" -> {"PUBLIC", "AUTHENTICATED_AFFILIATE"}
      [] reader = "INTERNAL" -> {"PUBLIC", "INTERNAL"}
      [] OTHER -> Audiences

\* The readers of a content audience, as the policy and the pipeline list them
\* (ALLOWED_CONTENT_AUDIENCES and candidateAudiences).
ReadersOf(content) ==
    CASE content = "PUBLIC" -> Audiences
      [] content = "AUTHENTICATED_AFFILIATE" -> {"AUTHENTICATED_AFFILIATE", "ADMIN_ONLY"}
      [] content = "INTERNAL" -> {"INTERNAL", "ADMIN_ONLY"}
      [] OTHER -> {"ADMIN_ONLY"}

\* classificationsFor: HIGHLY_SENSITIVE is never queried.
ClassificationsFor(maximum) ==
    {c \in Classifications \ {"HIGHLY_SENSITIVE"} : Rank[c] <= Rank[maximum]}

\* assertKoralReadable and isAdmissible, of a version and a scope.
Admissible(v, scope) ==
    /\ scope.audience \in ReadersOf(Audience[v])
    /\ Classification[v] # "HIGHLY_SENSITIVE"
    /\ Rank[Classification[v]] <= Rank[scope.maximum]

\* validateDraftSemantics.
ValidLabels ==
    /\ Audience \in [AllVersions -> Audiences]
    /\ Classification \in [AllVersions -> Classifications]
    /\ \A v \in AllVersions :
          Classification[v] = "HIGHLY_SENSITIVE" => Audience[v] = "ADMIN_ONLY"

\* What the constants must be.
ASSUME KnowledgeAssumption ==
    /\ IsFiniteSet(AllVersions) /\ Articles \intersect Standing = {}
    /\ NoArticle \notin Articles
    /\ ValidLabels

NoPublication == [pc |-> "idle", version |-> NoArticle, previous |-> {}]

NoSearch == [pc |-> "idle", scope |-> [audience |-> "PUBLIC", maximum |-> "PUBLIC"],
             found |-> {}, cited |-> {}, outcome |-> "NO_EVIDENCE"]

KnowledgeInit ==
    /\ article = [v \in Articles |-> "ABSENT"]
    /\ curator = [c \in Curators |-> NoPublication]
    /\ search = NoSearch

Published == {v \in Articles : article[v] = "PUBLISHED"}

-----------------------------------------------------------------------------
(* Lifecycle *)

Passes(v, from, to) ==
    /\ article[v] \in from
    /\ article' = [article EXCEPT ![v] = to]
    /\ UNCHANGED <<curator, search>>

\* The item's revision is claimed first, so numbers are given out one by one.
CreateDraft(v) == Passes(v, {"ABSENT"}, "DRAFT")
SubmitReview(v) == Passes(v, {"DRAFT"}, "REVIEW")
ReturnToDraft(v) == Passes(v, {"REVIEW"}, "DRAFT")
ApproveArticle(v) == Passes(v, {"REVIEW"}, "APPROVED")
Retire(v) == Passes(v, {"APPROVED", "PUBLISHED"}, "RETIRED")

PublishArticle(c, v) ==
    /\ curator[c] = NoPublication
    /\ article[v] = "APPROVED"
    /\ curator' = [curator EXCEPT ![c] = [NoPublication EXCEPT !.pc = "waiting", !.version = v]]
    /\ UNCHANGED <<article, search>>

\* Mutant: the item's row is not locked.
NobodyWaits == TRUE

ItemFree == \A c \in Curators : curator[c].pc # "locked"

LockItem(c) ==
    /\ curator[c].pc = "waiting"
    /\ ItemFree
    /\ curator' = [curator EXCEPT ![c] = [curator[c] EXCEPT
                      !.pc = "locked", !.previous = Published \ {curator[c].version}]]
    /\ UNCHANGED <<article, search>>

\* What was listed is retired whatever it is by now; the version itself is
\* published only if it is still APPROVED, else everything is undone.
CommitPublication(c) ==
    LET v == curator[c].version IN
    /\ curator[c].pc = "locked"
    /\ article' = IF article[v] # "APPROVED" THEN article
                  ELSE [w \in Articles |->
                          IF w = v THEN "PUBLISHED"
                          ELSE IF w \in curator[c].previous THEN "RETIRED" ELSE article[w]]
    /\ curator' = [curator EXCEPT ![c] = NoPublication]
    /\ UNCHANGED search

-----------------------------------------------------------------------------
(* Search *)

\* The snapshots whose version is published, for the reader's scope.
BeginSearch(scope) ==
    /\ search = NoSearch
    /\ search' = [NoSearch EXCEPT
          !.pc = "found", !.scope = scope,
          !.found = {v \in Published \union Standing :
                        /\ Audience[v] \in AudiencesFor(scope.audience)
                        /\ Classification[v] \in ClassificationsFor(scope.maximum)}]
    /\ UNCHANGED <<article, curator>>

\* Mutant: the version's own status is not tested again.
StillThere(v) == TRUE

StillPublished(v) == v \in Published \union Standing

\* Mutant: the first claim wins.
FirstClaimWins(claims) == FALSE

Contradictory(claims) == Cardinality(claims) > 1

\* groundRuntimeEvidence: of evidence that makes claims, only that which does
\* counts; without any, sufficiency is a matter of score.
Outcomes(evidence) ==
    LET claims == {Claim[v] : v \in evidence} \ {NoClaim} IN
    IF evidence = {} THEN {"NO_EVIDENCE"}
    ELSE IF claims = {} THEN {"SUFFICIENT_EVIDENCE", "PARTIAL_EVIDENCE"}
    ELSE IF Contradictory(claims) THEN {"SOURCE_CONFLICT"}
    ELSE {"SUFFICIENT_EVIDENCE"}

Cited(evidence) ==
    IF \E v \in evidence : Claim[v] # NoClaim THEN {v \in evidence : Claim[v] # NoClaim} ELSE evidence

\* The versions and their chunks are read; any of them may cover the question
\* completely, and only those that do are evidence.
FinishSearch ==
    /\ search.pc = "found"
    /\ \E matching \in SUBSET AllVersions :
          LET evidence == {v \in search.found \intersect matching :
                              StillPublished(v) /\ Admissible(v, search.scope)}
          IN \E outcome \in Outcomes(evidence) :
                search' = [search EXCEPT !.pc = "answered", !.found = {},
                                         !.cited = Cited(evidence), !.outcome = outcome]
    /\ UNCHANGED <<article, curator>>

Deliver ==
    /\ search.pc = "answered"
    /\ search' = NoSearch
    /\ UNCHANGED <<article, curator>>

KnowledgeNext ==
    \/ \E v \in Articles :
          \/ CreateDraft(v) \/ SubmitReview(v) \/ ReturnToDraft(v) \/ ApproveArticle(v) \/ Retire(v)
          \/ \E c \in Curators : PublishArticle(c, v)
    \/ \E c \in Curators : LockItem(c) \/ CommitPublication(c)
    \/ \E scope \in Scopes : BeginSearch(scope)
    \/ FinishSearch
    \/ Deliver

KnowledgeSpec == KnowledgeInit /\ [][KnowledgeNext]_knowledgeVars

-----------------------------------------------------------------------------
(* Properties *)

\* The article is a published-version catalogue: one version in force, a
\* retired one never back, whatever was approved, published and retired at
\* once (knowledge.service.ts publish, transition).
ArticleCatalogue ==
    INSTANCE PublishedVersion WITH
        Versions <- Articles, NoVersion <- NoArticle,
        current <- IF Published = {} THEN NoArticle ELSE CHOOSE v \in Published : TRUE,
        past <- {v \in Articles : article[v] = "RETIRED"}

ArticleIsCatalogue == ArticleCatalogue!PublishedSpec

\* An answer never mixes an article's version with its replacement, never
\* passes contradictory claims for sufficient evidence, and never shows a
\* reader what is above the reader's clearance (knowledge.service.ts search,
\* knowledge-grounding.ts groundKnowledge).
AnswersAreGrounded ==
    search.pc = "answered" =>
        /\ Cardinality(search.cited \intersect Articles) <= 1
        /\ search.outcome = "SUFFICIENT_EVIDENCE" =>
              /\ search.cited # {}
              /\ \A v, w \in search.cited : Claim[v] = Claim[w]
        /\ \A v \in search.cited :
              /\ search.scope.audience \in ReadersOf(Audience[v])
              /\ Rank[Classification[v]] <= Rank[Clearance[search.scope.audience]]

\* What is cited is in force when it is read.
CitesWhatIsInForce ==
    [][search.pc = "found" /\ search'.pc = "answered" =>
          search'.cited \subseteq Published \union Standing]_knowledgeVars

\* Both: an article has one version in force, and that is what is cited.
ArticlesAreInForce == ArticleIsCatalogue /\ CitesWhatIsInForce
=============================================================================
