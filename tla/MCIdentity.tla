----------------------------- MODULE MCIdentity -----------------------------
(* The administrators' identity: the sessions of one account, its second     *)
(* factor, the administration of accounts and their lockout, and a browser   *)
(* with two requests in one tab or one in each of two, and the pages it       *)
(* opens.  They write disjoint columns, so a behaviour follows one of them.  *)
EXTENDS AdminSessions, AdminMfa, AdminAccounts, TLC

CONSTANT Generations

VARIABLES part, server, jar, tab, fetch, refresh, tale

Browser(tabs, calls, kinds) == INSTANCE AdminBrowser WITH
    Tabs <- tabs, Calls <- calls, Kinds <- kinds, NoCookie <- NoSession, call <- fetch

OneTab == Challenges
OneTabKinds == {"page", "login", "logout", "logout-all"}

TwoTabs == Requests
TwoTabsKinds == {"login", "logout-all"}

ASSUME BrowsersAssumption ==
    /\ Browser(OneTab, Requests, OneTabKinds)!BrowserAssumption
    /\ Browser(TwoTabs, Challenges, TwoTabsKinds)!BrowserAssumption

CONSTANTS Areas, Forms, Submissions, MaxWrites, MaxVisits

VARIABLES area, page, visits, cache, form, pending, log

\* Two writes and one form; two visits where there are few pages, one where
\* there are more, with a single write where there are most; none on the pages
\* that read most, nor where two forms are used at once, with a single write.
WritesIn == [a \in Areas |-> IF a \in {"access", "account"} THEN 1 ELSE 2]
VisitsIn == [a \in Areas |-> CASE a \in {"requests", "consents"} -> 2
                              [] a \in {"inbox", "opportunities", "account"} -> 0
                              [] OTHER -> 1]
FormsIn == [a \in Areas |-> IF a = "account" THEN Requests ELSE Challenges]

Pages == INSTANCE AdminScreens WITH
    Calls <- Submissions, NoCall <- NoSession, call <- form

ASSUME PagesAssumption == Pages!ScreensAssumption

screensVars == <<area, page, visits, cache, form, pending, log>>

browserVars == <<server, jar, tab, fetch, refresh, tale>>

identityVars == <<part, sessionVars, mfaVars, accountsVars, browserVars, screensVars>>

IdentityInit ==
    /\ part \in {"sessions", "rehash", "mfa", "administration", "lockout", "tab", "tabs", "pages"}
    /\ SessionsInit /\ MfaInit /\ AccountsInit
    /\ hash.salt = IF part = "rehash" THEN 0 ELSE 1
    /\ IF part = "tabs" THEN Browser(TwoTabs, Challenges, TwoTabsKinds)!BrowserInit
       ELSE Browser(OneTab, Requests, OneTabKinds)!BrowserInit
    /\ IF part = "pages" THEN Pages!ScreensInit
       ELSE /\ area = "" /\ page = "" /\ visits = 0 /\ cache = << >> /\ form = << >>
            /\ pending = NoSession /\ log = << >>

\* Two sessions, when the first hash is one to make anew.
AccountNext ==
    \/ /\ part \in {"sessions", "rehash"}
       /\ SessionsNext
       /\ part = "rehash" => Cardinality(Issued') <= 2
       /\ UNCHANGED <<mfaVars, accountsVars, browserVars>>
    \/ part = "mfa" /\ MfaNext /\ UNCHANGED <<sessionVars, accountsVars, browserVars>>
    \/ part = "administration" /\ AdministrationNext /\ UNCHANGED <<sessionVars, mfaVars, browserVars>>
    \/ part = "lockout" /\ LockoutNext /\ UNCHANGED <<sessionVars, mfaVars, browserVars>>
    \/ /\ \/ part = "tab" /\ Browser(OneTab, Requests, OneTabKinds)!BrowserNext
          \/ part = "tabs" /\ Browser(TwoTabs, Challenges, TwoTabsKinds)!BrowserNext
       /\ UNCHANGED <<sessionVars, mfaVars, accountsVars>>

IdentityNext ==
    /\ UNCHANGED part
    /\ \/ AccountNext /\ UNCHANGED screensVars
       \/ part = "pages" /\ Pages!ScreensNext
          /\ UNCHANGED <<sessionVars, mfaVars, accountsVars, browserVars>>

IdentitySpec == IdentityInit /\ [][IdentityNext]_identityVars

\* The requests of the three components are the same model values.
Symmetry == Permutations(Requests) \union Permutations(Generations)

-----------------------------------------------------------------------------

\* Every row of the three components is one the schema allows.
IdentityTypeOK == SessionsTypeOK /\ MfaTypeOK /\ AccountsTypeOK

\* Every row of the three components is one the schema allows, and no failed
\* login is lost on the way to a lock.
LocksHold == IdentityTypeOK /\ ThresholdLocks

\* A browser does not play its own refresh tokens back, nor wait for itself, and
\* its pages, but for the answers that two of them overlook, do not contradict
\* what they said was done, nor wait for a challenge unless they were left
\* (refresh-orchestrator.ts, use-step-up-action.tsx).
BrowsersBehave ==
    /\ part = "tab" => Browser(OneTab, Requests, OneTabKinds)!BrowserHolds
    /\ part = "tabs" => Browser(TwoTabs, Challenges, TwoTabsKinds)!BrowserHolds
    /\ part = "pages" => Pages!ScreensHold

\* A factor is used once, and never replaced behind its owner's back.
FactorsStand == FactorsAreUsedOnce /\ FactorIsNotReplaced
=============================================================================
