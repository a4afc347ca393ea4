----------------------------- MODULE PublicForms -----------------------------
(***************************************************************************)
(* The two public forms a case is filed with: the PQR and the request of a *)
(* data subject.  Each is a wizard of four steps, one group of fields per  *)
(* step, whose state is copied to the storage of the tab at every render   *)
(* and recovered from it when the page is opened again; while its one      *)
(* submission is under way the visitor may go on editing, switch to the    *)
(* search, leave, return or reload.  A group is empty while something it   *)
(* requires is missing.  The server registers every submission it receives *)
(* and accepts: nothing ties a second one to the first.                    *)
(***************************************************************************)
EXTENDS Naturals, FiniteSetsExt

CONSTANTS None,
          MaxPresses \* bound: submissions of one tab

VARIABLES
    form,  \* "pqr" or "data"
    page,  \* the page: whether it is open, its mode, step, fields and reference
    saved, \* the copy in the storage of the tab
    calls  \* the submission of this visit, one of a former visit, and the cases

formVars == <<form, page, saved, calls>>

-----------------------------------------------------------------------------

LastStep == 3 \* TOTAL_STEPS - 2: the steps are kind, description, identity, consent
Steps == 0..LastStep

Blank == [g \in Steps |-> "empty"]

(* What a group can be given.  The kind of a PQR is chosen, never cleared;  *)
(* only the address of a data subject has a form to get wrong.              *)
Inputs(g) ==
    CASE g = 0 /\ form = "pqr" -> {"ok"}
      [] g = 2 /\ form = "data" -> {"empty", "bad", "ok"}
      [] OTHER -> {"empty", "ok"}

Complete(values) == \A g \in Steps : values[g] = "ok"

(* The effect of every render: what is kept of the page.                    *)
Kept(p) ==
    IF p.done \/ (p.mode = None /\ p.step = 0 /\ p.values = Blank) THEN None
    ELSE [mode |-> p.mode, step |-> p.step, values |-> p.values]

(* loadRecoveredState: not beyond the first group that is empty.            *)
Recovered(s) ==
    IF s = None THEN [mode |-> None, step |-> 0, values |-> Blank]
    ELSE LET gaps == {g \in 0..(LastStep - 1) : s.values[g] = "empty"} IN
         [s EXCEPT !.step = Min({@} \union gaps)]

(* A render: the page and, after it, its copy.                              *)
Render(p) == page' = p /\ saved' = Kept(p) /\ UNCHANGED form

Mounted(query) ==
    LET r == Recovered(saved) IN
    [open |-> TRUE, done |-> FALSE, initial |-> r.values, values |-> r.values,
     mode |-> IF query = None THEN r.mode ELSE query,
     step |-> IF query = None THEN r.step ELSE 0]

Closed ==
    [open |-> FALSE, done |-> FALSE, initial |-> Blank, values |-> Blank, mode |-> None, step |-> 0]

FormInit ==
    /\ form \in {"pqr", "data"}
    /\ page = Closed
    /\ saved = None
    /\ calls = [own |-> "idle", stray |-> "none", wiped |-> FALSE, cases |-> 0, answered |-> 0]

Modes == {"create", "track"}
Filling == page.open /\ page.mode = "create" /\ ~page.done
Busy == calls.own # "idle"

-----------------------------------------------------------------------------

(* The page rendered again: the copy is no longer what a late answer left.  *)
Shown(p) == Render(p) /\ calls' = [calls EXCEPT !.wiped = FALSE]

Open(query) == ~page.open /\ Shown(Mounted(query))

(* A link to the page with ?accion: mode and step, not the reference.       *)
Query(query) == page.open /\ Shown([page EXCEPT !.mode = query, !.step = 0])

Edit(v) ==
    /\ Filling /\ v \in Inputs(page.step)
    /\ Shown([page EXCEPT !.values[page.step] = v])

(* advance: the fields of the step, then the next step or the submission.   *)
Next ==
    /\ Filling /\ ~Busy
    /\ page.step < LastStep /\ page.values[page.step] = "ok"
    /\ Shown([page EXCEPT !.step = @ + 1])

Back == Filling /\ page.step > 0 /\ Shown([page EXCEPT !.step = @ - 1])

(* The button of the last step, or Enter in the one line of a step: the     *)
(* whole form is validated, and nothing is sent while something is.         *)
Submits ==
    {LastStep} \union IF form = "pqr" THEN {1} ELSE {}

Submit ==
    /\ Filling /\ ~Busy /\ page.step \in Submits
    /\ Complete(page.values)
    /\ calls.answered < MaxPresses
    /\ calls' = [calls EXCEPT !.own = "sent"]
    /\ UNCHANGED <<form, page, saved>>

\* Mutant: the step is left where it was.
ChosenInPlace(mode) == [page EXCEPT !.mode = mode, !.done = FALSE]

Chosen(mode) == [page EXCEPT !.mode = mode, !.step = 0, !.done = FALSE]

ChooseMode(mode) == page.open /\ Shown(Chosen(mode))

(* The confirmation: look the case up, or start over.                       *)
OnTrack ==
    /\ page.open /\ page.mode = "create" /\ page.done
    /\ Shown([page EXCEPT !.mode = "track", !.done = FALSE])

Restart ==
    /\ page.open /\ page.mode = "create" /\ page.done
    /\ Shown([page EXCEPT !.mode = None, !.step = 0, !.done = FALSE, !.values = page.initial])

-----------------------------------------------------------------------------

(* The server takes or refuses a submission, of this visit or a former one. *)
Serve ==
    /\ calls.own = "sent"
    /\ \/ calls' = [calls EXCEPT !.own = "registered", !.cases = @ + 1]
       \/ calls' = [calls EXCEPT !.own = "refused"]
    /\ UNCHANGED <<form, page, saved>>

ServeStray ==
    /\ calls.stray \in {"sent", "orphan"}
    /\ \/ calls' = [calls EXCEPT !.stray = IF @ = "sent" THEN "registered" ELSE "none",
                                 !.cases = @ + 1]
       \/ calls' = [calls EXCEPT !.stray = "none"]
    /\ UNCHANGED <<form, page, saved>>

(* onSuccess: the reference, the fields as they were when the page opened.  *)
Hear ==
    /\ calls.own = "registered"
    /\ Render([page EXCEPT !.done = TRUE, !.values = page.initial])
    /\ calls' = [calls EXCEPT !.own = "idle", !.wiped = FALSE, !.answered = @ + 1]

(* An error, or an answer that is lost: the form may be sent again.         *)
HearError ==
    /\ Busy
    /\ calls' = [calls EXCEPT !.own = "idle", !.answered = @ + 1,
                              !.stray = IF calls.own = "sent" /\ @ = "none" THEN "orphan" ELSE @]
    /\ calls.own = "sent" => calls.stray = "none"
    /\ UNCHANGED <<form, page, saved>>

(* onSuccess of a page that is gone still removes the copy of the tab.      *)
HearStray ==
    /\ calls.stray = "registered"
    /\ saved' = None
    /\ calls' = [calls EXCEPT !.stray = "none", !.wiped = page.open]
    /\ UNCHANGED <<form, page>>

(* The page is left for another of the site: its answer will be heard.      *)
Leave ==
    /\ page.open
    /\ Busy => calls.stray = "none"
    /\ page' = Closed
    /\ calls' = [calls EXCEPT
         !.own = "idle", !.wiped = FALSE, !.answered = IF Busy THEN @ + 1 ELSE @,
         !.stray = IF calls.own \in {"sent", "registered"} THEN calls.own ELSE @]
    /\ UNCHANGED <<form, saved>>

(* The tab is reloaded: nothing on its way will be heard.                   *)
Reload(query) ==
    /\ page.open
    /\ calls.own = "sent" => calls.stray \in {"none", "registered"}
    /\ Render(Mounted(query))
    /\ calls' = [calls EXCEPT
         !.own = "idle", !.wiped = FALSE, !.answered = IF Busy THEN @ + 1 ELSE @,
         !.stray = IF "sent" \in {calls.own, @} \/ @ = "orphan" THEN "orphan" ELSE "none"]

FormNext ==
    \/ \E q \in Modes \union {None} : Open(q) \/ Reload(q)
    \/ \E m \in Modes : Query(m) \/ ChooseMode(m)
    \/ \E v \in {"empty", "bad", "ok"} : Edit(v)
    \/ Next \/ Back \/ Submit \/ OnTrack \/ Restart
    \/ Serve \/ ServeStray \/ Hear \/ HearError \/ HearStray \/ Leave

-----------------------------------------------------------------------------

(* No step is reached over a group that would not be accepted, however the  *)
(* page came there; what is kept brings the visitor back to the same step;  *)
(* an open page is kept as it is, unless the answer of a former visit has   *)
(* just removed the copy; and a case is registered twice only for a visitor *)
(* who was not told of the first.                                           *)
FormsHold ==
    /\ Filling => \A g \in Steps : g < page.step => page.values[g] = "ok"
    /\ saved # None /\ saved.mode = "create" => Recovered(saved) = saved
    /\ page.open /\ ~calls.wiped => saved = Kept(page)
    /\ calls.cases <= calls.answered + (IF calls.own = "registered" THEN 1 ELSE 0)
=============================================================================
