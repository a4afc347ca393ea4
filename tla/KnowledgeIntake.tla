--------------------------- MODULE KnowledgeIntake ---------------------------
(* How an article comes into the knowledge base and how its pieces are found *)
(* again: drafts written by two authors who read the article first, the      *)
(* cutting of a text into chunks, and the ranking of the chunks a search     *)
(* brings.  The lifecycle of a version after that is KnowledgeBase.          *)
EXTENDS Integers, Sequences, FiniteSets

CONSTANTS
    Authors,     \* staff who may write drafts of the article
    MaxDrafts,   \* bound on its versions
    MaxChunk,    \* MAX_CHUNK_CHARACTERS
    Overlap,     \* CHUNK_OVERLAP_CHARACTERS
    MaxText,     \* bound on the length of a text
    Chunks,      \* candidates of a search, in the order of their trace keys (or
                 \* of their ordinals, in a preview)
    MaxEvidence  \* bound on the limit of a search

IntakeAssumption ==
    /\ MaxChunk \in Nat \ {0} /\ Overlap \in Nat /\ MaxText \in Nat
    /\ Chunks \subseteq Nat /\ IsFiniteSet(Chunks) /\ MaxEvidence \in Nat

VARIABLES
    shelf,  \* the versions of the KnowledgeItem: what their authors had read
    author, \* what each author has read, or NoDraft
    text,   \* the text being cut
    cut,    \* start, the chunks so far and whether the loop has ended
    asked   \* a search: the candidates' scores, those it may see, its evidence

intakeVars == <<shelf, author, text, cut, asked>>

-----------------------------------------------------------------------------
(* Drafts *)

Formats == {"MARKDOWN", "TEXT", "PDF", "DOCX", "OTHER"}

\* What a request brings; sound is everything its policy looks at: language,
\* size, file name, MIME type, signature and control characters.
Sources ==
    [kind : {"FILE"}, format : Formats, sound : BOOLEAN]
        \union [kind : {"MANUAL", "WEB"}, format : {"MARKDOWN"}, sound : BOOLEAN]

\* validateManualKnowledge, validateKnowledgeFile, validateKnowledgeWebImportRequest.
Valid(source) == source.sound /\ source.format # "OTHER"

\* parseValidatedKnowledgeFile: no binary parser is configured.
Parsable(source) == source.format \in {"MARKDOWN", "TEXT"}

\* registerOfficialWebImport always throws: DEFERRED_DNS_PINNING_REQUIRED.
Taken(source) == source.kind # "WEB"

NoDraft == -1

Revision == Len(shelf)

\* An author opens the article, which need not exist yet.
Look(a) ==
    /\ author[a] = NoDraft
    /\ author' = [author EXCEPT ![a] = Revision]
    /\ UNCHANGED <<shelf, text, cut, asked>>

\* Mutant: the revision the author read is not compared.
AnyRevision(a) == TRUE

\* updateMany where revision = expectedItemRevision; for a new article, its
\* stable key is unique.
Unchanged(a) == author[a] = Revision

\* createManualDraft, createFileDraft, createDraft: one transaction, that
\* writes the version, its source and its chunks, or nothing.
CreateDraft(a, source) ==
    /\ author[a] # NoDraft /\ Revision < MaxDrafts
    /\ shelf' = IF Valid(source) /\ Taken(source) /\ Parsable(source) /\ Unchanged(a)
                THEN Append(shelf, [read |-> author[a], format |-> source.format])
                ELSE shelf
    /\ author' = [author EXCEPT ![a] = NoDraft]
    /\ UNCHANGED <<text, cut, asked>>

-----------------------------------------------------------------------------
(* Chunks *)

Blank == {" ", "n"}

\* normalizeParsedText: no blank at either end, single spaces, two newlines at
\* most, and something left.
Normalized ==
    {t \in UNION {[1..n -> {"w", "."} \union Blank] : n \in 1..MaxText} :
        /\ t[1] \notin Blank /\ t[Len(t)] \notin Blank
        /\ ~\E i \in 1..Len(t) - 1 : t[i] = " " /\ t[i + 1] = " "
        /\ ~\E i \in 1..Len(t) - 2 : \A j \in i..i + 2 : t[j] = "n"}

NoCut == [start |-> 0, chunks |-> <<>>, done |-> FALSE]

\* A paragraph or a sentence ends at (zero-based) position i.
Boundary(i) ==
    /\ i + 1 < Len(text)
    /\ \/ text[i + 1] = "n" /\ text[i + 2] = "n"
       \/ text[i + 1] = "." /\ text[i + 2] = " "

\* The longest chunk, or its part up to the last boundary when that is in its
\* second half.
ChunkEnd(start) ==
    LET longest == IF start + MaxChunk < Len(text) THEN start + MaxChunk ELSE Len(text)
        inside == {i \in start + MaxChunk \div 2 + 1..longest : Boundary(i)}
    IN  IF longest < Len(text) /\ inside # {}
        THEN 1 + CHOOSE i \in inside : \A j \in inside : j <= i
        ELSE longest

\* Mutant: the next chunk starts beyond the one before.
SkipOne(start, end) == end + 1

NextStart(start, end) == IF end > start + Overlap THEN end - Overlap ELSE start + 1

Cut ==
    /\ ~cut.done
    /\ LET end == ChunkEnd(cut.start)
           solid == \E i \in cut.start + 1..end : text[i] \notin Blank
       IN  cut' = [start |-> NextStart(cut.start, end),
                   chunks |-> IF solid THEN Append(cut.chunks, [from |-> cut.start, upto |-> end])
                              ELSE cut.chunks,
                   done |-> end = Len(text) \/ NextStart(cut.start, end) >= Len(text)]
    /\ UNCHANGED <<shelf, author, text, asked>>

-----------------------------------------------------------------------------
(* Ranking *)

\* keywordScore: no, some or all terms of the question.
Scores == 0..2

Covers(score) == score = 2

\* Mutant: what may not be seen is left out after the limit is applied.
EverySource(clear) == Chunks

\* mergeChannel: the candidates isAdmissible lets in, before they are ranked.
Mergeable(clear) == clear

\* compareEvidence: by score, then by trace key.
Precedes(score, c, d) == score[c] > score[d] \/ (score[c] = score[d] /\ c < d)

\* retrievePublishedKnowledge: filter, sort and slice, that is, those that come
\* after fewer than limit others.
Ranked(score, clear, limit) ==
    LET kept == {c \in Mergeable(clear) : score[c] > 0}
        before(c) == {d \in kept : Precedes(score, d, c)}
    IN  {c \in kept \cap clear : Cardinality(before(c)) < limit}

NoQuestion == [score |-> [c \in Chunks |-> 0], clear |-> {}, limit |-> 1, evidence |-> {}]

Ask(score, clear, limit) ==
    /\ asked = NoQuestion
    /\ asked' = [score |-> score, clear |-> clear, limit |-> limit,
                 evidence |-> Ranked(score, clear, limit)]
    /\ UNCHANGED <<shelf, author, text, cut>>

\* preview: the chunks of one version, all of which its editor may see.
Preview(score, limit) == Ask(score, Chunks, limit)

Forget ==
    /\ asked # NoQuestion
    /\ asked' = NoQuestion
    /\ UNCHANGED <<shelf, author, text, cut>>

-----------------------------------------------------------------------------

IntakeInit ==
    /\ shelf = <<>>
    /\ author = [a \in Authors |-> NoDraft]
    /\ text \in Normalized
    /\ cut = NoCut
    /\ asked = NoQuestion

DraftsNext ==
    \E a \in Authors : Look(a) \/ \E source \in Sources : CreateDraft(a, source)

RankingNext ==
    \/ \E score \in [Chunks -> Scores], clear \in SUBSET Chunks, limit \in 1..MaxEvidence :
          Ask(score, clear, limit) \/ Preview(score, limit)
    \/ Forget

IntakeNext == DraftsNext \/ Cut \/ RankingNext

IntakeSpec == IntakeInit /\ [][IntakeNext]_intakeVars

-----------------------------------------------------------------------------
(* Properties *)

\* Every draft was written over the version before it, which its author had
\* read, and of a text that some parser here can read.
DraftsFollowOneAnother ==
    \A n \in 1..Len(shelf) : shelf[n].read = n - 1 /\ shelf[n].format \in {"MARKDOWN", "TEXT"}

\* However a text is cut, nothing of it but blanks is left out, chunks go
\* forward, and none is longer than the limit and the full stop it may keep.
NothingIsCutAway ==
    /\ \A k \in 1..Len(cut.chunks) :
          LET chunk == cut.chunks[k] IN
          /\ chunk.from < chunk.upto /\ chunk.upto - chunk.from <= MaxChunk + 1
          /\ k > 1 => cut.chunks[k - 1].from < chunk.from
    /\ cut.done =>
          \A i \in 1..Len(text) :
              text[i] \in Blank \/ \E k \in 1..Len(cut.chunks) :
                                       cut.chunks[k].from < i /\ i <= cut.chunks[k].upto

\* A chunk that answers the whole question is displaced by others that do, and
\* never by what the reader may not see or by partial matches.
FullAnswersComeFirst ==
    /\ asked.evidence \subseteq asked.clear
    /\ \A c \in asked.clear \ asked.evidence :
          Covers(asked.score[c]) =>
              /\ Cardinality(asked.evidence) = asked.limit
              /\ \A d \in asked.evidence : Covers(asked.score[d])

IntakeHolds == DraftsFollowOneAnother /\ NothingIsCutAway /\ FullAnswersComeFirst
=============================================================================
