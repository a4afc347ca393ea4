--------------------------- MODULE MCConversations ---------------------------
(* Web chats on small sets: one with two messages and a stable session, one  *)
(* with a single message and every failure its code handles, the page of the *)
(* visitor with two requests under way, one governed answer, how the         *)
(* articles it rests on are written, cut and ranked, and the forms a visitor *)
(* files a case or leaves a message with.  They share no state, so a         *)
(* behaviour follows one of them.                                            *)
EXTENDS KoralConversations, TLC

CONSTANTS
    Steady, Single,                             \* messages of the one chat, and of the other
    Chats, MaxGeneration,                       \* of the page of the visitor
    Answers, Passages, Restricted, MaxPassages, \* of a governed answer
    MaxDrafts, MaxChunk, Overlap, MaxText, Chunks, MaxEvidence,
    MaxPresses, MaxKeys

VARIABLES
    part,
    chat, jar, page, local, shown, drawn, fetch, said,
    published, run,
    shelf, author, text, cut, asked,
    form, sheet, saved, calls,
    contact, sends, leads, consents, settled

Browser == INSTANCE WebChatBrowser WITH
    Messages <- Single, Fetches <- Requests, Unset <- None

\* A profile whose first version is retired.
Governed == INSTANCE GovernedAnswers WITH
    Profiles <- {1, 2}, Status <- <<"RETIRED", "PUBLISHED">>, Eligible <- {1, 2}

Intake == INSTANCE KnowledgeIntake WITH Authors <- Operators

Forms == INSTANCE PublicForms WITH page <- sheet
Contact == INSTANCE Leads WITH Sends <- Requests

ASSUME PartsAssumption ==
    Steady \union Single \subseteq Messages /\ Governed!AnswersAssumption /\ Intake!IntakeAssumption

webVars == <<chat, jar, page, local, shown, drawn, fetch, said>>
answerVars == <<published, run>>
intakeVars == <<shelf, author, text, cut, asked>>
formVars == <<form, sheet, saved, calls>>
leadVars == <<contact, sends, leads, consents, settled>>

ConversationsInit ==
    /\ part \in {"stable", "faulty", "browser", "answers", "drafts", "cutting", "ranking", "forms", "leads"}
    /\ Init /\ Browser!WebInit /\ Governed!AnswersInit
    /\ Intake!IntakeInit /\ Forms!FormInit /\ Contact!LeadsInit
    /\ part # "cutting" => text = <<"w">>
    /\ part # "forms" => form = "pqr"
    /\ part # "leads" => consents

IntakeStep ==
    \/ part = "drafts" /\ Intake!DraftsNext
    \/ part = "cutting" /\ Intake!Cut
    \/ part = "ranking" /\ Intake!RankingNext

\* Two messages of a visitor whose session stays, and nothing fails.
StableNext ==
    \/ \E r \in Requests : (\E m \in Steady : Send(r, m)) \/ Advance(r)
    \/ \E o \in Operators : Operate(o)

\* A single message, and whatever may fail.
FaultyNext == Next /\ \A r \in Requests : jobs'[r].message \in Single \cup {None}

ChatsNext ==
    \/ /\ \/ part = "stable" /\ StableNext
          \/ part = "faulty" /\ FaultyNext
       /\ UNCHANGED <<webVars, answerVars, intakeVars>>
    \/ /\ part = "browser" /\ Browser!WebNext
       /\ UNCHANGED <<vars, answerVars, intakeVars>>
    \/ /\ part = "answers" /\ Governed!AnswersNext
       /\ UNCHANGED <<vars, webVars, intakeVars>>
    \/ IntakeStep /\ UNCHANGED <<vars, webVars, answerVars>>

chatVars == <<vars, webVars, answerVars, intakeVars>>

ConversationsNext ==
    /\ UNCHANGED part
    /\ \/ ChatsNext /\ UNCHANGED <<formVars, leadVars>>
       \/ part = "forms" /\ Forms!FormNext /\ UNCHANGED <<chatVars, leadVars>>
       \/ part = "leads" /\ Contact!LeadsNext /\ UNCHANGED <<chatVars, formVars>>

ConversationsSpec ==
    ConversationsInit /\ [][ConversationsNext]_<<part, chatVars, formVars, leadVars>>

Symmetry == Permutations(Steady) \union Permutations(Requests) \union Permutations(Operators)

-----------------------------------------------------------------------------

\* What the visitor wrote stays on the page until it is stored, in the chat and
\* in the forms, and is stored once.
NothingSaidIsLost ==
    /\ Browser!NothingSaidIsLost
    /\ part = "forms" => Forms!FormsHold
    /\ part = "leads" => Contact!LeadsHold

\* What leaves for the provider is public, who is answered may be, and what it
\* rests on was written one over the other, cut without loss and ranked by what
\* the reader may see.
AnswersArePublic ==
    /\ part = "answers" => Governed!AnswersArePublic
    /\ part \in {"drafts", "cutting", "ranking"} => Intake!IntakeHolds
=============================================================================
