---------------------------- MODULE WebChatBrowser ----------------------------
(* The visitor's side of the web chat: the widget, its hook useKoralWebChat, *)
(* the session cookie and the requests under way, with the session service   *)
(* and the message endpoint behind them.                                     *)
(*                                                                           *)
(* A request carries the cookie of the moment it is sent; its answer sets or *)
(* clears the cookie and changes the page when it arrives, which may be      *)
(* after the page moved on.  React draws later than state is set: the hook   *)
(* merges an answer into the transcript last drawn (snapshotRef).            *)
(*                                                                           *)
(* One tab is followed; another tab of the browser shares its cookie.  The   *)
(* declared name, the cooldown and older pages of the transcript are left    *)
(* out.  Bounds: Chats, and MaxGeneration rotations of a capability.         *)
EXTENDS Naturals, FiniteSets

CONSTANTS
    Chats,          \* conversations, one for each session
    Messages,       \* texts the visitor may submit
    Fetches,        \* requests of this tab under way
    MaxGeneration,
    Unset           \* no cookie, no transcript

VARIABLES
    chat,           \* sessions and their stored messages
    jar,            \* WEB_CHAT_SESSION_COOKIE
    page,           \* state of the hook: loadState, error, open, offline
    local,          \* localMessages
    shown, drawn,   \* snapshot, and the one last drawn
    fetch,          \* requests
    said            \* history: texts submitted, and dropped by a restart

webVars == <<chat, jar, page, local, shown, drawn, fetch, said>>

Token(c) == [chat |-> c, generation |-> chat[c].generation]

\* authenticate and assertWebChatSessionFence
Current(token) ==
    token # Unset /\ chat[token.chat].state = "live" /\ token = Token(token.chat)

Transcript(c) == {[chat |-> c, row |-> row] : row \in chat[c].rows}

NoFetch == [kind |-> "none", message |-> Unset, token |-> Unset, pc |-> "idle",
            heard |-> FALSE, ok |-> FALSE, unauthorized |-> FALSE, snapshot |-> {}]

NewPage == [load |-> "IDLE", expired |-> FALSE, open |-> FALSE, offline |-> FALSE]

WebInit ==
    /\ chat = [c \in Chats |-> [state |-> "none", generation |-> 0, rows |-> {}]]
    /\ jar = Unset
    /\ page = NewPage
    /\ local = [m \in Messages |-> "none"]
    /\ shown = Unset /\ drawn = Unset
    /\ fetch = [f \in Fetches |-> NoFetch]
    /\ said = [m \in Messages |-> "no"]

\* mergeSnapshots
Merge(snapshot) == IF drawn = Unset THEN snapshot ELSE drawn \union snapshot

Put(f, new) == fetch' = [fetch EXCEPT ![f] = new]

Sent(kind, m) == [kind |-> kind, message |-> m, token |-> jar, pc |-> "sent",
                  heard |-> TRUE, ok |-> FALSE, unauthorized |-> FALSE, snapshot |-> {}]

Free(f) == fetch[f].pc = "idle"

\* A person acts on what is drawn; React draws before it hears a click.
SettledPage == drawn = shown

-----------------------------------------------------------------------------
(* The hook and the widget *)

\* The retry button of the widget and the effect of an open panel; the older
\* snapshot stays until the answer.
Bootstrap(f) ==
    /\ Free(f) /\ SettledPage /\ page.open /\ ~page.offline
    /\ \/ page.load = "IDLE"
       \/ page.load = "ERROR" /\ shown = Unset /\ ~page.expired
    /\ page' = [page EXCEPT !.load = "BOOTSTRAPPING", !.expired = FALSE]
    /\ Put(f, Sent("bootstrap", Unset))
    /\ UNCHANGED <<chat, jar, local, shown, drawn, said>>

\* The button of an expired session.
RestartSession(f) ==
    /\ Free(f) /\ SettledPage /\ page.open /\ page.expired
    /\ shown' = Unset /\ drawn' = Unset
    /\ local' = [m \in Messages |-> "none"]
    /\ said' = [m \in Messages |-> IF local[m] # "none" THEN "dropped" ELSE said[m]]
    /\ page' = [page EXCEPT !.expired = FALSE,
                            !.load = IF page.offline THEN "IDLE" ELSE "BOOTSTRAPPING"]
    /\ IF page.offline THEN fetch' = fetch ELSE Put(f, Sent("bootstrap", Unset))
    /\ UNCHANGED <<chat, jar>>

\* A poll, or the refresh of a browser back online.
Refresh(f) ==
    /\ Free(f) /\ SettledPage /\ drawn # Unset
    /\ page.open /\ ~page.offline /\ page.load = "READY"
    /\ Put(f, Sent("history", Unset))
    /\ UNCHANGED <<chat, jar, page, local, shown, drawn, said>>

\* sendExisting
Dispatch(f, m) ==
    /\ page' = [page EXCEPT !.expired = FALSE]
    /\ local' = [local EXCEPT ![m] = IF page.offline THEN "RETRYABLE" ELSE "PENDING"]
    /\ IF page.offline THEN fetch' = fetch ELSE Put(f, Sent("send", m))
    /\ UNCHANGED <<chat, jar, shown, drawn>>

Send(f, m) ==
    /\ Free(f) /\ SettledPage /\ said[m] = "no"
    /\ page.open /\ page.load = "READY" /\ ~page.expired
    /\ said' = [said EXCEPT ![m] = "said"]
    /\ Dispatch(f, m)

Retry(f, m) ==
    /\ Free(f) /\ SettledPage /\ page.open /\ local[m] = "RETRYABLE"
    /\ Dispatch(f, m)
    /\ UNCHANGED said

\* React draws, and its effect forgets the local messages the transcript has.
Draw ==
    /\ drawn # shown
    /\ drawn' = shown
    /\ local' = [m \in Messages |->
          IF shown # Unset /\ \E e \in shown : e.row = m THEN "none" ELSE local[m]]
    /\ UNCHANGED <<chat, jar, page, shown, fetch, said>>

Open ==
    /\ ~page.open
    /\ page' = [page EXCEPT !.open = TRUE]
    /\ UNCHANGED <<chat, jar, local, shown, drawn, fetch, said>>

Heard == {f \in Fetches : fetch[f].heard}

\* Closing the panel aborts the requests; the server may still serve them.
Close ==
    /\ page.open /\ SettledPage
    /\ LET Aborted(kind) == {f \in Heard : fetch[f].kind = kind} IN
       /\ page' = [page EXCEPT !.open = FALSE,
             !.load = IF Aborted("bootstrap") # {} THEN "ERROR"
                      ELSE IF drawn = Unset THEN "IDLE" ELSE @,
             !.expired = @ /\ Aborted("send") = {}]
       /\ local' = [m \in Messages |->
             IF local[m] # "none" /\ \E f \in Aborted("send") : fetch[f].message = m
             THEN "RETRYABLE" ELSE local[m]]
    /\ fetch' = [f \in Fetches |-> [fetch[f] EXCEPT !.heard = FALSE]]
    /\ UNCHANGED <<chat, jar, shown, drawn, said>>

\* onOffline replaces the error, whatever it was; onOnline keeps an expired one.
GoOffline ==
    /\ ~page.offline
    /\ page' = [page EXCEPT !.offline = TRUE, !.expired = FALSE]
    /\ UNCHANGED <<chat, jar, local, shown, drawn, fetch, said>>

GoOnline ==
    /\ page.offline
    /\ page' = [page EXCEPT !.offline = FALSE]
    /\ UNCHANGED <<chat, jar, local, shown, drawn, fetch, said>>

-----------------------------------------------------------------------------
(* The server *)

NewChat(c) == [state |-> "live", generation |-> 1, rows |-> {}]

Answered(f, c) ==
    [fetch[f] EXCEPT !.pc = "served", !.ok = TRUE, !.snapshot = Transcript(c)]

Rejected(f) == [fetch[f] EXCEPT !.pc = "served", !.unauthorized = TRUE]

\* bootstrap without a cookie creates, with one rotates its capability, or 401.
ServeBootstrap(f) ==
    /\ fetch[f].pc = "sent" /\ fetch[f].kind = "bootstrap"
    /\ \/ \E c \in Chats :
             /\ fetch[f].token = Unset /\ chat[c].state = "none"
             /\ chat' = [chat EXCEPT ![c] = NewChat(c)]
             /\ Put(f, [Answered(f, c) EXCEPT !.token = [chat |-> c, generation |-> 1]])
       \/ /\ Current(fetch[f].token)
          /\ LET c == fetch[f].token.chat
                 next == chat[c].generation + 1 IN
             /\ next <= MaxGeneration
             /\ chat' = [chat EXCEPT ![c].generation = next]
             /\ Put(f, [Answered(f, c) EXCEPT !.token = [chat |-> c, generation |-> next]])
       \/ /\ fetch[f].token # Unset /\ ~Current(fetch[f].token)
          /\ Put(f, Rejected(f)) /\ UNCHANGED chat
    /\ UNCHANGED <<jar, page, local, shown, drawn, said>>

\* send stores the message under the fence of the session it authenticated, and
\* authenticates once more before it answers.
ServeSend(f) ==
    /\ fetch[f].pc = "sent" /\ fetch[f].kind = "send"
    /\ IF Current(fetch[f].token)
       THEN /\ LET c == fetch[f].token.chat IN
                  chat' = IF fetch[f].message \in chat[c].rows THEN chat
                          ELSE [chat EXCEPT ![c].rows = @ \union {fetch[f].message}]
            /\ Put(f, [fetch[f] EXCEPT !.pc = "stored"])
       ELSE Put(f, Rejected(f)) /\ UNCHANGED chat
    /\ UNCHANGED <<jar, page, local, shown, drawn, said>>

ServeSnapshot(f) ==
    /\ \/ fetch[f].pc = "sent" /\ fetch[f].kind = "history"
       \/ fetch[f].pc = "stored"
    /\ Put(f, IF Current(fetch[f].token) THEN Answered(f, fetch[f].token.chat) ELSE Rejected(f))
    /\ UNCHANGED <<chat, jar, page, local, shown, drawn, said>>

\* Koral or an operator answers.
Reply(c) ==
    /\ chat[c].state = "live" /\ "reply" \notin chat[c].rows
    /\ chat' = [chat EXCEPT ![c].rows = @ \union {"reply"}]
    /\ UNCHANGED <<jar, page, local, shown, drawn, fetch, said>>

\* The session is idle too long, too old or revoked.
EndChat(c) ==
    /\ chat[c].state = "live"
    /\ chat' = [chat EXCEPT ![c].state = "ended"]
    /\ UNCHANGED <<jar, page, local, shown, drawn, fetch, said>>

\* Another tab opens the chat.
BootstrapElsewhere ==
    /\ Current(jar) /\ jar.generation < MaxGeneration
    /\ chat' = [chat EXCEPT ![jar.chat].generation = @ + 1]
    /\ jar' = [jar EXCEPT !.generation = @ + 1]
    /\ UNCHANGED <<page, local, shown, drawn, fetch, said>>

-----------------------------------------------------------------------------
(* Answers *)

Settled(f) == fetch[f].pc = "served" /\ Put(f, NoFetch)

\* An answer nobody waits for is thrown away.
Ignore(f) ==
    /\ Settled(f) /\ ~fetch[f].heard
    /\ UNCHANGED <<chat, jar, page, local, shown, drawn, said>>

Succeed(f) ==
    /\ Settled(f) /\ fetch[f].heard /\ fetch[f].ok
    /\ CASE fetch[f].kind = "bootstrap" ->
              /\ jar' = fetch[f].token
              /\ shown' = fetch[f].snapshot
              /\ page' = [page EXCEPT !.load = "READY"]
              /\ local' = local
         [] fetch[f].kind = "history" ->
              /\ shown' = Merge(fetch[f].snapshot)
              /\ page' = [page EXCEPT !.expired = FALSE]
              /\ UNCHANGED <<jar, local>>
         [] OTHER ->
              /\ shown' = Merge(fetch[f].snapshot)
              /\ local' = [local EXCEPT ![fetch[f].message] = "none"]
              /\ UNCHANGED <<jar, page>>
    /\ UNCHANGED <<chat, drawn, said>>

\* Mutant: a message that could not be sent is forgotten.
Forgotten(state) == "none"

Kept(state) == IF state = "none" THEN "none" ELSE "RETRYABLE"

\* applyRequestError and applyMutationError
Failed(f, unauthorized) ==
    /\ page' = [page EXCEPT !.expired = unauthorized,
          !.load = IF unauthorized \/ fetch[f].kind = "bootstrap" THEN "ERROR" ELSE @]
    /\ local' = IF fetch[f].kind = "send"
                THEN [local EXCEPT ![fetch[f].message] = Kept(@)] ELSE local
    /\ UNCHANGED <<chat, shown, drawn, said>>

\* The controller clears the cookie of the browser, whichever it is by now.
Expire(f) ==
    /\ Settled(f) /\ fetch[f].heard /\ fetch[f].unauthorized
    /\ jar' = Unset
    /\ Failed(f, TRUE)

\* The network fails, or the server refuses; what it did stays done.
Fail(f) ==
    /\ fetch[f].heard /\ fetch[f].pc \in {"sent", "stored", "served"}
    /\ Put(f, NoFetch)
    /\ Failed(f, FALSE)
    /\ UNCHANGED jar

WebNext ==
    \/ \E f \in Fetches :
          \/ Bootstrap(f) \/ RestartSession(f) \/ Refresh(f)
          \/ ServeBootstrap(f) \/ ServeSend(f) \/ ServeSnapshot(f)
          \/ Ignore(f) \/ Succeed(f) \/ Expire(f) \/ Fail(f)
          \/ \E m \in Messages : Send(f, m) \/ Retry(f, m)
    \/ Draw \/ Open \/ Close \/ GoOffline \/ GoOnline \/ BootstrapElsewhere
    \/ \E c \in Chats : Reply(c) \/ EndChat(c)

WebSpec == WebInit /\ [][WebNext]_webVars

-----------------------------------------------------------------------------
(* Properties *)

\* What the visitor wrote is on the page until the server has stored it, and
\* says "sending" only while a request carries it (use-koral-web-chat.ts
\* sendExisting).
NothingSaidIsLost ==
    \A m \in Messages :
        /\ said[m] = "said" => local[m] # "none" \/ \E c \in Chats : m \in chat[c].rows
        /\ local[m] = "PENDING" => \E f \in Heard : fetch[f].message = m

\* "Stale transcript and mutation identifiers are never carried into the new
\* session": the page never shows two conversations as one
\* (use-koral-web-chat.ts restartSession).
RestartIsClean ==
    shown # Unset => \A e1, e2 \in shown : e1.chat = e2.chat
=============================================================================
