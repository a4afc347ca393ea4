----------------------------- MODULE MCProgress ------------------------------
(* What is accepted comes to an end: the automation engine and a web chat    *)
(* conversation on small sets.  They share no state, so a behaviour follows  *)
(* one of them, under the fairness of its own module, which only speaks of   *)
(* the behaviours that follow it.                                            *)
EXTENDS AutomationEngine

CONSTANTS m1, r1, r2, o1

VARIABLES part, talk, owner, fresh, lock, session, current, rows, replied, handed, jobs

Visits == {r1, r2}

Chat == INSTANCE KoralConversations WITH
    Messages <- {m1}, Requests <- Visits, Operators <- {o1},
    StoreMayFail <- FALSE, MayCrash <- FALSE, SessionMayChange <- FALSE,
    status <- talk

ASSUME Chat!KoralAssumption

chatVars == <<talk, owner, fresh, lock, session, current, rows, replied, handed, jobs>>

ProgressInit == part \in {"engine", "chat"} /\ Init /\ Chat!Init

ProgressNext ==
    /\ UNCHANGED part
    /\ \/ part = "engine" /\ Next /\ UNCHANGED chatVars
       \/ part = "chat" /\ Chat!Next /\ UNCHANGED vars

ProgressSpec ==
    /\ ProgressInit /\ [][ProgressNext]_<<part, vars, chatVars>>
    /\ \A r \in Runners :
          WF_vars(part = "engine" /\ RunnerStep(r)) /\ WF_vars(part = "engine" /\ Timeout(r))
    /\ \A x \in Executions, i \in Indexes : WF_vars(part = "engine" /\ Elapse(x, i))
    /\ <>[][\A r \in Runners : ~StoreFails(r) /\ ~Crash(r)]_vars
    /\ \A r \in Visits : SF_chatVars(part = "chat" /\ Chat!Advance(r))

-----------------------------------------------------------------------------

\* Every request of a visitor ends, and every claimed message gets a final
\* status.
ChatsSettle == Chat!RequestsEnd /\ Chat!ClaimedMessagesSettle
=============================================================================
