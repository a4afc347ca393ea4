---------------------------- MODULE AdminBrowser ----------------------------
(* One administrator's browser: its tabs, the cookies they share, and the    *)
(* sessions behind them.  A tab answers a 401 by one POST /auth/refresh that *)
(* all its requests wait for (lib/auth/refresh-orchestrator.ts), repeats     *)
(* each of them once, and forgets the user when the refresh fails or         *)
(* somebody signs out (lib/auth/AuthProvider.tsx).  The server rotates the   *)
(* refresh token and revokes its family when a rotated one comes back.       *)
(*                                                                           *)
(* A request carries the cookies of the moment it is sent; its answer sets   *)
(* cookies when it arrives, or is lost on the way.                           *)
(*                                                                           *)
(* Bound: the size of Generations, the refresh tokens ever issued.           *)
EXTENDS Naturals, FiniteSets

CONSTANTS
    Tabs,
    Calls,          \* requests a tab has under way
    Kinds,          \* which of them are made: page, login, logout, logout-all
    Generations,    \* session rows, one for each refresh token
    NoCookie

BrowserAssumption ==
    /\ NoCookie \notin Generations
    /\ Kinds \subseteq {"page", "login", "logout", "logout-all"}

VARIABLES
    server,     \* session rows
    jar,        \* the session whose cookies the browser holds
    tab,        \* what each tab shows and remembers
    call,       \* its requests
    refresh,    \* its refreshPromise, with the request behind it
    tale        \* history: whether a rotated token came back, and an excuse for it

browserVars == <<server, jar, tab, call, refresh, tale>>

\* A session row: family is the session of the login.  An aged one is live but
\* the access token issued with it has expired.
Row == [state : {"none", "live", "aged", "rotated", "revoked"},
        family : Generations \union {NoCookie}]
NoRow == [state |-> "none", family |-> NoCookie]

\* out: loggedOutIntentionally; told: a logout broadcast is on its way.  What the
\* page shows follows from the answers and decides nothing.
NewPage == [out |-> FALSE, told |-> FALSE]

NoCall == [kind |-> "none", pc |-> "idle", cookie |-> NoCookie, again |-> FALSE, ok |-> FALSE]
NoRefresh == [pc |-> "idle", cookie |-> NoCookie, got |-> NoCookie]

BrowserInit ==
    /\ server = [g \in Generations |-> NoRow]
    /\ jar = NoCookie
    /\ tab = [t \in Tabs |-> NewPage]
    /\ call = [t \in Tabs |-> [c \in Calls |-> NoCall]]
    /\ refresh = [t \in Tabs |-> NoRefresh]
    /\ tale = [replayed |-> FALSE, excuse |-> FALSE]

Unissued == {g \in Generations : server[g].state = "none"}

\* JwtAuthGuard: a fresh access token of a session neither rotated nor ended.
Admitted(g) == g \in Generations /\ server[g].state = "live"

RevokeWhere(doomed(_)) ==
    [g \in Generations |->
        IF g \notin Unissued /\ doomed(g) THEN [server[g] EXCEPT !.state = "revoked"]
        ELSE server[g]]

Put(t, c, new) == call' = [call EXCEPT ![t] = [@ EXCEPT ![c] = new]]
Show(t, page) == tab' = [tab EXCEPT ![t] = page]

\* onSettled of both logouts: this tab at once, the others when they hear of it.
SignedOut(t) ==
    [u \in Tabs |-> IF u = t THEN [tab[u] EXCEPT !.out = TRUE]
                    ELSE [tab[u] EXCEPT !.told = TRUE]]

-----------------------------------------------------------------------------
(* Requests (lib/api-client.ts apiRequest) *)

\* Mutant: POST /auth/refresh is not marked skipAuthRefresh.
RefreshNotMarked == {"login", "logout"}

Skipping == {"login", "logout", "refresh"}

Send(t, c, kind) ==
    /\ call[t][c].pc = "idle"
    /\ Put(t, c, [NoCall EXCEPT !.kind = kind, !.pc = "sent", !.cookie = jar])
    /\ UNCHANGED <<server, jar, tab, refresh, tale>>

\* The server answers a request that needs a session.
Serve(t, c) ==
    /\ call[t][c].pc = "sent" /\ call[t][c].kind \notin {"login", "logout"}
    /\ LET ok == Admitted(call[t][c].cookie) IN
          /\ Put(t, c, [call[t][c] EXCEPT !.pc = "served", !.ok = ok, !.cookie = NoCookie])
          /\ server' = IF ok /\ call[t][c].kind = "logout-all"
                       THEN RevokeWhere(LAMBDA g : TRUE) ELSE server
    /\ UNCHANGED <<jar, tab, refresh, tale>>

ServeLogin(t, c) ==
    /\ call[t][c].pc = "sent" /\ call[t][c].kind = "login"
    /\ IF Unissued = {} THEN server' = server /\ Put(t, c, NoCall)
       ELSE LET g == CHOOSE g \in Unissued : TRUE IN
            /\ server' = [server EXCEPT ![g] = [state |-> "live", family |-> g]]
            /\ Put(t, c, [call[t][c] EXCEPT !.pc = "served", !.ok = TRUE, !.cookie = g])
    /\ UNCHANGED <<jar, tab, refresh, tale>>

\* AuthService.logout ends the session of the cookie and no other of its family.
ServeLogout(t, c) ==
    /\ call[t][c].pc = "sent" /\ call[t][c].kind = "logout"
    /\ server' = RevokeWhere(LAMBDA g : g = call[t][c].cookie)
    /\ Put(t, c, [call[t][c] EXCEPT !.pc = "served", !.ok = TRUE, !.cookie = NoCookie])
    /\ UNCHANGED <<jar, tab, refresh, tale>>

\* A successful answer.  Login is followed by a new fetch of "me".
Arrive(t, c) ==
    /\ call[t][c].pc = "served" /\ call[t][c].ok
    /\ CASE call[t][c].kind = "page" -> Put(t, c, NoCall) /\ UNCHANGED <<tab, jar>>
         [] call[t][c].kind = "login" ->
                /\ jar' = call[t][c].cookie
                /\ Show(t, [tab[t] EXCEPT !.out = FALSE])
                /\ Put(t, c, [NoCall EXCEPT !.kind = "page", !.pc = "sent", !.cookie = jar'])
         [] OTHER -> jar' = NoCookie /\ tab' = SignedOut(t) /\ Put(t, c, NoCall)
    /\ UNCHANGED <<server, refresh, tale>>

\* A logout that failed is a logout for the page all the same.
Refused(t, kinds) ==
    IF kinds \intersect {"logout", "logout-all"} # {} THEN SignedOut(t) ELSE tab

\* Mutant: every 401 starts a refresh of its own.
StartAlways(t) == TRUE

MayStart(t) == refresh[t].pc = "idle"

\* handleUnauthorized: join the refresh under way, or start it.  Two tabs know
\* nothing of each other's.
Ask(t, c) ==
    /\ call[t][c].pc = "served" /\ ~call[t][c].ok
    /\ ~call[t][c].again /\ ~tab[t].out
    /\ Put(t, c, [call[t][c] EXCEPT !.pc = "waiting"])
    /\ IF MayStart(t)
       THEN /\ refresh' = [refresh EXCEPT ![t] = [NoRefresh EXCEPT !.pc = "sent", !.cookie = jar]]
            /\ tale' = [tale EXCEPT !.excuse = @ \/
                  \E u \in Tabs \ {t} : refresh[u].pc # "idle" /\ refresh[u].cookie = jar]
       ELSE UNCHANGED <<refresh, tale>>
    /\ UNCHANGED <<server, jar, tab>>

Fail(t, c) ==
    /\ call[t][c].pc = "served" /\ ~call[t][c].ok
    /\ call[t][c].again \/ tab[t].out
    /\ tab' = Refused(t, {call[t][c].kind})
    /\ Put(t, c, NoCall)
    /\ UNCHANGED <<server, jar, refresh, tale>>

\* The request or its answer is lost: a network error, and no new cookies.
Lose(t, c) ==
    /\ call[t][c].pc \in {"sent", "served"}
    /\ tab' = Refused(t, {call[t][c].kind})
    /\ Put(t, c, NoCall)
    /\ UNCHANGED <<server, jar, refresh, tale>>

-----------------------------------------------------------------------------
(* The refresh (performRefresh, AuthService.refresh) *)

ServeRefresh(t) ==
    /\ refresh[t].pc = "sent"
    /\ LET g == refresh[t].cookie
           state == IF g \in Generations THEN server[g].state ELSE "none"
           Answer(next) == refresh' = [refresh EXCEPT ![t] =
               [pc |-> "served", cookie |-> g, got |-> next]] IN
       IF state \in {"live", "aged"} /\ Unissued # {}
       THEN LET next == CHOOSE n \in Unissued : TRUE IN
            /\ server' = [h \in Generations |->
                  IF h = g THEN [server[h] EXCEPT !.state = "rotated"]
                  ELSE IF h = next
                       THEN [state |-> "live", family |-> server[g].family]
                       ELSE server[h]]
            /\ Answer(next)
            /\ tale' = tale
       ELSE /\ server' = IF state = "rotated"
                         THEN RevokeWhere(LAMBDA h : server[h].family = server[g].family)
                         ELSE server
            /\ Answer(NoCookie)
            /\ tale' = [tale EXCEPT !.replayed = @ \/ state = "rotated"]
    /\ UNCHANGED <<jar, tab, call>>

\* Everybody who waits repeats its request with the cookies just set.
RefreshSucceeds(t) ==
    /\ refresh[t].got # NoCookie
    /\ jar' = refresh[t].got
    /\ call' = [call EXCEPT ![t] = [c \in Calls |->
          IF @[c].pc = "waiting"
          THEN [@[c] EXCEPT !.pc = "sent", !.cookie = jar', !.again = TRUE] ELSE @[c]]]
    /\ refresh' = [refresh EXCEPT ![t] = NoRefresh]
    /\ UNCHANGED <<server, tab, tale>>

\* sessionInvalidatedHandler, then the 401 of everybody who waits.
GiveUp(t) ==
    /\ LET waiting == {c \in Calls : call[t][c].pc = "waiting"} IN
       /\ tab' = Refused(t, {call[t][c].kind : c \in waiting})
       /\ call' = [call EXCEPT ![t] = [c \in Calls |-> IF c \in waiting THEN NoCall ELSE @[c]]]
    /\ refresh' = [refresh EXCEPT ![t] = NoRefresh]

\* The server refused and cleared the cookies.  A refresh that entered the
\* refresh path itself would wait for its own promise.
RefreshRefused(t) ==
    /\ refresh[t].pc = "served" /\ refresh[t].got = NoCookie
    /\ jar' = NoCookie
    /\ IF "refresh" \in Skipping THEN GiveUp(t)
       ELSE refresh' = [refresh EXCEPT ![t] = [@ EXCEPT !.pc = "joined"]] /\ UNCHANGED <<tab, call>>
    /\ UNCHANGED <<server, tale>>

RefreshLost(t) ==
    /\ refresh[t].pc \in {"sent", "served"}
    /\ GiveUp(t)
    /\ tale' = [tale EXCEPT !.excuse = @ \/ refresh[t].got # NoCookie]
    /\ UNCHANGED <<server, jar>>

-----------------------------------------------------------------------------
(* The world *)

\* A storage event of another tab's logout.
HearLogout(t) ==
    /\ tab[t].told
    /\ Show(t, [tab[t] EXCEPT !.out = TRUE, !.told = FALSE])
    /\ UNCHANGED <<server, jar, call, refresh, tale>>

\* Loading the page again abandons what it waits for.
Reload(t) ==
    /\ Show(t, NewPage)
    /\ call' = [call EXCEPT ![t] = [c \in Calls |-> NoCall]]
    /\ refresh' = [refresh EXCEPT ![t] = NoRefresh]
    /\ tale' = [tale EXCEPT !.excuse = @ \/ refresh[t].got # NoCookie]
    /\ UNCHANGED <<server, jar>>

ExpireAccess(g) ==
    /\ server[g].state = "live"
    /\ server' = [server EXCEPT ![g] = [@ EXCEPT !.state = "aged"]]
    /\ UNCHANGED <<jar, tab, call, refresh, tale>>

\* Another administrator, a password change or the age of the session ends it.
EndSession(g) ==
    /\ server[g].state \in {"live", "aged"}
    /\ server' = [server EXCEPT ![g] = [@ EXCEPT !.state = "revoked"]]
    /\ UNCHANGED <<jar, tab, call, refresh, tale>>

CallStep(t, c) ==
    \/ Serve(t, c) \/ ServeLogin(t, c) \/ ServeLogout(t, c)
    \/ Arrive(t, c) \/ Ask(t, c) \/ Fail(t, c) \/ Lose(t, c)

RefreshStep(t) ==
    ServeRefresh(t) \/ RefreshSucceeds(t) \/ RefreshRefused(t) \/ RefreshLost(t)

BrowserNext ==
    \/ \E t \in Tabs, c \in Calls :
          \/ \E kind \in Kinds : Send(t, c, kind)
          \/ CallStep(t, c)
    \/ \E t \in Tabs : RefreshStep(t) \/ HearLogout(t) \/ Reload(t)
    \/ \E g \in Generations : ExpireAccess(g) \/ EndSession(g)

BrowserSpec == BrowserInit /\ [][BrowserNext]_browserVars

-----------------------------------------------------------------------------
(* Properties *)

\* "N simultaneous 401s trigger exactly one POST /auth/refresh": a rotated token
\* never comes back, which would end the family and sign the person out, unless
\* two tabs presented it at once or the answer to a refresh was lost
\* (refresh-orchestrator.ts handleUnauthorized, session.service.ts rotateSession).
NoReplayOfOwnTokens == tale.replayed => tale.excuse

\* A 401 that waits for the refresh is never one the refresh waits for: behind
\* every waiting request there is a refresh the server still has to answer
\* (auth-api.ts skipAuthRefresh, refresh-orchestrator.ts performRefresh).
WaitersAreServed ==
    \A t \in Tabs, c \in Calls :
        call[t][c].pc = "waiting" => refresh[t].pc \in {"sent", "served"}

BrowserHolds == NoReplayOfOwnTokens /\ WaitersAreServed
=============================================================================
