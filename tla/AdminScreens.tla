---------------------------- MODULE AdminScreens ----------------------------
(* The administration pages of the web application: the cache of answers     *)
(* they share, the operations their forms and dialogs send, and the step-up  *)
(* challenge that interrupts a sensitive one.  A page is named; Pages says    *)
(* what it reads and does.  The server is a log of writes: an answer carries  *)
(* the last write that it shows.                                              *)
EXTENDS Naturals, Sequences, SequencesExt, FiniteSets

CONSTANTS Areas,      \* the groups of pages that are followed
          Forms,      \* the forms of an opportunity that are followed
          Calls,      \* Calls[a]: submissions under way at the same time in area a
          NoCall,
          MaxWrites,  \* MaxWrites[a]: writes of this and of other administrators
          MaxVisits   \* MaxVisits[a]: pages opened after the first one, and reconnections

ScreensAssumption ==
    /\ Forms \subseteq {"activities", "proposals", "agreements"}
    /\ Areas \subseteq {"users", "access", "account", "factor", "consents", "crm", "opportunities",
                  "companies", "legal", "requests", "knowledge", "inbox"}
    /\ \A a \in Areas :
          NoCall \notin Calls[a] /\ MaxWrites[a] \in Nat /\ MaxVisits[a] \in Nat

VARIABLES area,     \* the group of pages
          page,     \* the page that is mounted
          visits,   \* pages opened so far
          cache,    \* what the query client keeps under each key
          call,     \* the submissions
          pending,  \* the submission the challenge dialog holds
          log       \* the writes: what they changed, in order

screenVars == <<area, page, visits, cache, call, pending, log>>

-----------------------------------------------------------------------------
\* The keys, one record of each kind.  invalidateQueries takes a prefix.

UserLists == <<"admin", "users", "list">>
UserDetail == <<"admin", "users", "detail", "id">>
UserPart(p) == UserDetail \o <<p>>
UserHistory == UserPart("security-events")
Me == <<"auth", "me">>
MfaStatus == <<"auth", "mfa", "status">>
MyConsents == <<"me", "consent-records">>

Prospects == <<"admin", "crm", "prospects">>
Leads == <<"admin", "crm", "leads">>
Opportunities == <<"admin", "crm", "opportunities">>
Board == Opportunities \o <<"filters">>
Opportunity == Opportunities \o <<"id">>
OpportunityPart(p) == Opportunity \o <<p>>
Companies == <<"admin", "crm", "companies">>
CompanyList == Companies \o <<"filters">>
Company == Companies \o <<"id">>
Partners == <<"admin", "crm", "partners">>
PartnerList == Partners \o <<"filters">>
Partner == Partners \o <<"id">>

Documents == <<"admin", "legal", "documents">>
Document(d) == Documents \o <<d>>
DataRequests == <<"admin", "dsr", "list">>
Cases == <<"admin", "pqr", "list">>
KnowledgeKeys == <<"admin", "knowledge">>
KnowledgeList == KnowledgeKeys \o <<"list">>
KnowledgeItem == KnowledgeKeys \o <<"item", "id">>
InboxKeys == <<"admin", "koral", "inbox">>
InboxList == InboxKeys \o <<"list">>
InboxDetail == InboxKeys \o <<"detail", "id">>

-----------------------------------------------------------------------------
\* What a page does.  A key that no page writes is left out of the reads.
\* stepUp: the call goes through the challenge; sees: the
\* key the version it sends was read from, or none; changes: the keys whose
\* answer the write alters; bumps: the write advances the record's version;
\* renews: the prefixes it invalidates on success; next: where it then goes.

NoKey == << >>

Op(stepUp, changes, renews) ==
    [stepUp |-> stepUp, sees |-> NoKey, changes |-> changes, bumps |-> FALSE,
     renews |-> renews, next |-> "stay"]

Bumping(op) == [op EXCEPT !.bumps = TRUE]
Versioned(op, key) == [op EXCEPT !.sees = key, !.bumps = TRUE]
Then(op, name) == [op EXCEPT !.next = name]

Screen(reads, ops) == [reads |-> reads, ops |-> ops]

Elsewhere == Screen({}, {})

UserAll == {UserLists, UserDetail}

\* The page of one account: deactivate, reactivate or unlock it.  What an
\* administrator does is told in the history of the account it was done from,
\* which may be the same one.
UserDetailPage ==
    Screen({UserDetail}, {Bumping(Op(TRUE, UserAll \union {UserPart("sessions"), UserHistory}, UserAll))})

UserListPage == Screen({UserLists}, {})

CreateUserPage ==
    Screen({}, {Then(Op(TRUE, {UserLists}, {UserLists}), "user detail")})

EditUserPage ==
    Screen({UserDetail}, {Then(Versioned(Op(TRUE, {UserLists, UserDetail, UserHistory}, {UserDetail, UserLists}),
                                         UserDetail),
                               "user detail")})

UserRolesPage ==
    Screen({UserDetail, UserPart("roles")},
           {Op(TRUE, {UserLists, UserDetail, UserPart("roles"), UserHistory},
               {UserPart("roles"), UserDetail, UserLists})})

UserSessionsPage ==
    Screen({UserDetail, UserPart("sessions")},
           {Op(TRUE, {UserDetail, UserPart("sessions"), UserHistory}, {UserPart("sessions"), UserDetail})})

UserSecurityPage == Screen({UserDetail, UserHistory}, {})

\* The same revocation from one's own page renews the list of sessions only:
\* not the account, which tells how many there are, nor its history.
RevokeOthers == Op(TRUE, {UserDetail, UserPart("sessions"), UserHistory}, {UserPart("sessions")})

\* The operator's own account: change the password, or revoke the other
\* sessions.
OwnSecurityPage ==
    Screen({UserDetail, UserPart("sessions"), UserHistory},
           {Bumping(Op(TRUE, {Me, UserDetail, UserPart("sessions"), UserHistory},
                       {Me, UserDetail, UserPart("sessions")})),
            RevokeOthers})

\* The second factor, above the history on that page: begin; confirm;
\* regenerate the codes or revoke it.  None of them renews the history.
AdminMfaPanel ==
    Screen({MfaStatus, UserHistory},
           {Op(FALSE, {UserHistory}, {}),
            Op(FALSE, {MfaStatus, UserHistory}, {MfaStatus}),
            Op(TRUE, {MfaStatus, UserHistory}, {MfaStatus})})

MyAccountPage == Screen({MyConsents}, {Op(FALSE, {MyConsents}, {MyConsents})})

-----------------------------------------------------------------------------

\* Promote a lead to a prospect; open an opportunity for a prospect.
ProspectsListPage ==
    Screen({Prospects, Leads},
           {Op(FALSE, {Prospects, Leads}, {Prospects, Leads}),
            Op(FALSE, {Board}, {Opportunities})})

OpportunitiesBoardPage ==
    Screen({Board},
           {Versioned(Op(FALSE, {Board, Opportunity, OpportunityPart("status-history"), OpportunityPart("timeline")},
                         {Opportunities}), Board)})

OpportunityParts ==
    {OpportunityPart(p) : p \in {"status-history", "timeline"} \union Forms}

\* One form each for activities, proposals and agreements; all of them appear
\* in the timeline and none of them moves the opportunity.
OpportunityDetailPage ==
    Screen({Opportunity} \union OpportunityParts,
           {Op(FALSE, {OpportunityPart(p), OpportunityPart("timeline")},
               {OpportunityPart(p), OpportunityPart("timeline")})
             : p \in Forms})

CrmCompaniesPage ==
    Screen({CompanyList, PartnerList}, {Op(FALSE, {CompanyList}, {Companies})})

CompanyDetailPage == Screen({Company}, {})

\* Tick a check of the publication gate; publish.  Both send the version shown.
BusinessPartnerDetailPage ==
    Screen({Partner}, {Versioned(Op(FALSE, {Partner, PartnerList}, {Partner, Partners}), Partner)})

\* Save, submit, approve, reject and publish a version of the selected
\* document, one of two.
AdminLegalPage(d) ==
    Screen({Documents, Document(d)},
           {Op(FALSE, {Documents, Document(d)}, {Documents, Document(d)})})

DataSubjectRequestQueuePage == Screen({DataRequests}, {Op(FALSE, {DataRequests}, {DataRequests})})

PqrQueuePage == Screen({Cases}, {Op(FALSE, {Cases}, {Cases})})

\* Draft a version of an item, or move a version along its life.
KnowledgeAdminPage ==
    Screen({KnowledgeList, KnowledgeItem},
           {Versioned(Op(TRUE, {KnowledgeList, KnowledgeItem}, {KnowledgeKeys}), KnowledgeItem)})

\* The commands send the version shown; a note and the reading mark send none.
KoralHumanInboxPage ==
    Screen({InboxList, InboxDetail},
           {Versioned(Op(TRUE, {InboxList, InboxDetail}, {InboxKeys}), InboxDetail),
            Op(FALSE, {InboxList, InboxDetail}, {InboxKeys})})

KoralConversationsPage == Screen({InboxList, InboxDetail}, {})

-----------------------------------------------------------------------------

\* The routes of each area, by the name of the page.
Pages(a) ==
    CASE a = "users" ->
           [n \in {"user list", "user detail", "create", "edit"} |->
              CASE n = "user list" -> UserListPage   [] n = "user detail" -> UserDetailPage
                [] n = "create" -> CreateUserPage    [] n = "edit" -> EditUserPage]
      [] a = "access" ->
           [n \in {"user list", "roles", "sessions", "security"} |->
              CASE n = "user list" -> UserListPage    [] n = "roles" -> UserRolesPage
                [] n = "sessions" -> UserSessionsPage  [] n = "security" -> UserSecurityPage]
      [] a = "account" ->
           [n \in {"own security", "user detail"} |->
              IF n = "own security" THEN OwnSecurityPage ELSE UserDetailPage]
      [] a = "factor" -> [n \in {"mfa", "elsewhere"} |->
              IF n = "mfa" THEN AdminMfaPanel ELSE Elsewhere]
      [] a = "consents" -> [n \in {"consents", "elsewhere"} |->
              IF n = "consents" THEN MyAccountPage ELSE Elsewhere]
      [] a = "crm" ->
           [n \in {"prospects", "board"} |->
              IF n = "prospects" THEN ProspectsListPage ELSE OpportunitiesBoardPage]
      [] a = "opportunities" ->
           [n \in {"board", "opportunity"} |->
              IF n = "board" THEN OpportunitiesBoardPage ELSE OpportunityDetailPage]
      [] a = "companies" ->
           [n \in {"companies", "company", "partner"} |->
              CASE n = "companies" -> CrmCompaniesPage [] n = "company" -> CompanyDetailPage
                [] n = "partner" -> BusinessPartnerDetailPage]
      [] a = "legal" -> [n \in {"terms", "privacy"} |-> AdminLegalPage(n)]
      [] a = "requests" ->
           [n \in {"data requests", "cases"} |->
              IF n = "cases" THEN PqrQueuePage ELSE DataSubjectRequestQueuePage]
      [] a = "knowledge" -> [n \in {"knowledge", "elsewhere"} |->
              IF n = "knowledge" THEN KnowledgeAdminPage ELSE Elsewhere]
      [] a = "inbox" -> [n \in {"inbox", "conversations"} |->
              IF n = "inbox" THEN KoralHumanInboxPage ELSE KoralConversationsPage]

Routes == [a \in Areas |-> Pages(a)]
Screens == Routes[area]
Mounted == Screens[page].reads
Keys == UNION {Screens[n].reads : n \in DOMAIN Screens}

Now == Len(log)

\* The last write that changed what a key answers; the last that advanced the
\* version of the record the area is about.
LastChange(k) == Max({0} \union {i \in 1..Now : k \in log[i].changes})
Version == Max({0} \union {i \in 1..Now : log[i].bumps})

NotCached == [has |-> FALSE, at |-> 0, stale |-> FALSE, failed |-> FALSE, fetch |-> "no", seen |-> 0]

Idle == [phase |-> "idle", op |-> Op(FALSE, {}, {}), mounted |-> FALSE, sent |-> 0,
         shown |-> 0, retried |-> FALSE, heard |-> TRUE, wrote |-> 0]

\* An error stays on the page until an answer replaces it.
Asking(e) == [e EXCEPT !.fetch = "asked", !.seen = 0, !.failed = @ /\ e.has]

ScreensTypeOK ==
    /\ area \in Areas /\ page \in DOMAIN Screens /\ visits \in 0..MaxVisits[area]
    /\ \A k \in Keys :
         /\ cache[k].fetch \in {"no", "asked", "served"} /\ cache[k].at \in 0..Now
         /\ cache[k].fetch = "no" \/ k \in Mounted
    /\ \A c \in Calls[area] : call[c].phase \in {"idle", "asked", "denied", "challenge", "verifying",
                                          "refused", "applied", "stranded"}
    /\ pending \in Calls[area] \union {NoCall} /\ Now <= MaxWrites[area]

ScreensInit ==
    /\ area \in Areas
    /\ page \in DOMAIN Routes[area]
    /\ visits = 0
    /\ cache = [k \in UNION {Routes[area][n].reads : n \in DOMAIN Routes[area]} |->
                  IF k \in Routes[area][page].reads THEN Asking(NotCached) ELSE NotCached]
    /\ call = [c \in Calls[area] |-> Idle]
    /\ pending = NoCall
    /\ log = << >>

-----------------------------------------------------------------------------
\* Reading.

\* The server computes an answer.
Serve(k) ==
    /\ cache[k].fetch = "asked"
    /\ cache' = [cache EXCEPT ![k] = [@ EXCEPT !.fetch = "served", !.seen = LastChange(k)]]
    /\ UNCHANGED <<area, page, visits, call, pending, log>>

\* The answer, or the failure of the last retry, reaches the cache.
Answer(k) ==
    /\ cache[k].fetch = "served"
    /\ cache' = [cache EXCEPT ![k] = [NotCached EXCEPT !.has = TRUE, !.at = cache[k].seen]]
    /\ UNCHANGED <<area, page, visits, call, pending, log>>

FetchFails(k) ==
    /\ cache[k].fetch = "asked"
    /\ cache' = [cache EXCEPT ![k] = [@ EXCEPT !.fetch = "no", !.failed = TRUE]]
    /\ UNCHANGED <<area, page, visits, call, pending, log>>

\* The button that asks again after a failure.
Refetch(k) ==
    /\ k \in Mounted /\ cache[k].failed /\ cache[k].fetch = "no"
    /\ cache' = [cache EXCEPT ![k] = Asking(@)]
    /\ UNCHANGED <<area, page, visits, call, pending, log>>

\* Leaving a page aborts its reads; the next one asks what it has not, what is
\* marked stale, and, when the stale time is over, everything.
Mount(name, aged, entries) ==
    [k \in DOMAIN entries |->
       LET left == IF entries[k].fetch = "no" THEN entries[k]
                   ELSE [entries[k] EXCEPT !.fetch = "no", !.seen = 0]
       IN IF k \in Screens[name].reads /\ (~left.has \/ left.stale \/ left.failed \/ aged)
          THEN Asking(left) ELSE left]

\* What leaving does to the submissions of the page: the challenge that is
\* open is given up; the others go on without it.  The one that is being
\* verified has been told it was cancelled, and runs all the same.
Leave(c) ==
    CASE call[c].phase = "challenge" -> Idle
      [] call[c].phase = "verifying" -> [call[c] EXCEPT !.mounted = FALSE, !.heard = FALSE]
      [] OTHER -> [call[c] EXCEPT !.mounted = FALSE]

Visit(name) ==
    /\ visits < MaxVisits[area] /\ name # page
    /\ visits' = visits + 1 /\ page' = name
    /\ \E aged \in BOOLEAN : cache' = Mount(name, aged, cache)
    /\ call' = [c \in Calls[area] |-> Leave(c)]
    /\ pending' = NoCall
    /\ UNCHANGED <<area, log>>

\* The network came back: what the page shows and is old is asked again.
Reconnect ==
    /\ visits < MaxVisits[area]
    /\ visits' = visits + 1
    /\ cache' = [k \in DOMAIN cache |->
                   IF k \in Mounted /\ cache[k].fetch = "no" THEN Asking(cache[k]) ELSE cache[k]]
    /\ UNCHANGED <<area, page, call, pending, log>>

-----------------------------------------------------------------------------
\* Writing.

\* A button works when its page is loaded and its own mutation is not pending.
Submit(c, op) ==
    /\ call[c].phase = "idle" /\ op \in Screens[page].ops
    /\ \A k \in Mounted : cache[k].has /\ ~cache[k].failed
    /\ pending = NoCall
    /\ \A d \in Calls[area] : call[d].mounted => call[d].op # op
    /\ LET shown == IF op.sees = NoKey THEN 0 ELSE cache[op.sees].at
       IN call' = [call EXCEPT ![c] = [Idle EXCEPT !.phase = "asked", !.op = op, !.mounted = TRUE,
                                                   !.sent = shown, !.shown = shown]]
    /\ UNCHANGED <<area, page, visits, cache, pending, log>>

\* The server asks for a recent proof, before the operation and again after
\* the challenge when that one is not recent any more.
Deny(c) ==
    /\ call[c].phase = "asked" /\ call[c].op.stepUp
    /\ call' = [call EXCEPT ![c].phase = "denied"]
    /\ UNCHANGED <<area, page, visits, cache, pending, log>>

\* A stale version, a rule of the service, or a lost request.
Refuse(c) ==
    /\ call[c].phase = "asked"
    /\ call' = [call EXCEPT ![c].phase = "refused"]
    /\ UNCHANGED <<area, page, visits, cache, pending, log>>

Apply(c) ==
    /\ call[c].phase = "asked" /\ Now < MaxWrites[area]
    /\ call[c].op.sees # NoKey => Version <= call[c].sent
    /\ log' = Append(log, [changes |-> call[c].op.changes, bumps |-> call[c].op.bumps,
                           blind |-> call[c].op.sees # NoKey /\ Version > call[c].shown,
                           acked |-> FALSE])
    /\ call' = [call EXCEPT ![c] = [@ EXCEPT !.phase = "applied", !.wrote = Now + 1]]
    /\ UNCHANGED <<area, page, visits, cache, pending>>

\* Another administrator, on the same pages.
WriteElsewhere(op) ==
    /\ Now < MaxWrites[area] /\ op.changes # {} /\ op.sees # NoKey
    /\ log' = Append(log, [changes |-> op.changes, bumps |-> op.bumps, blind |-> FALSE, acked |-> FALSE])
    /\ UNCHANGED <<area, page, visits, cache, call, pending>>

\* When the page has gone, its challenge cannot be shown, and the submission
\* waits for it all the same, unless another one of that page already does.
Strand(c) ==
    {[call[c] EXCEPT !.phase = "stranded"]}
      \union {Idle : d \in {e \in Calls[area] : call[e].phase = "stranded"}}

\* The denial opens the challenge when nothing holds it and the page is still
\* there; a second denial, and one that finds it open, end the submission.
Challenge(c) ==
    /\ call[c].phase = "denied"
    /\ IF call[c].mounted /\ pending = NoCall /\ ~call[c].retried
       THEN /\ call' = [call EXCEPT ![c].phase = "challenge"]
            /\ pending' = c
       ELSE /\ \E row \in IF call[c].mounted \/ call[c].retried THEN {Idle} ELSE Strand(c) :
                 call' = [call EXCEPT ![c] = row]
            /\ UNCHANGED pending
    /\ UNCHANGED <<area, page, visits, cache, log>>

CancelChallenge(c) ==
    /\ pending = c /\ call[c].phase = "challenge"
    /\ call' = [call EXCEPT ![c] = Idle]
    /\ pending' = NoCall
    /\ UNCHANGED <<area, page, visits, cache, log>>

SubmitChallenge(c) ==
    /\ pending = c /\ call[c].phase = "challenge"
    /\ call' = [call EXCEPT ![c].phase = "verifying"]
    /\ UNCHANGED <<area, page, visits, cache, pending, log>>

\* A wrong factor leaves the challenge open; a right one closes it and sends
\* the captured action once more.
WrongFactor(c) ==
    /\ call[c].phase = "verifying"
    /\ call' = [call EXCEPT ![c] = IF @.heard THEN [@ EXCEPT !.phase = "challenge"] ELSE Idle]
    /\ UNCHANGED <<area, page, visits, cache, pending, log>>

Verified(c) ==
    /\ call[c].phase = "verifying"
    /\ call' = [call EXCEPT ![c] = [@ EXCEPT !.phase = "asked", !.retried = TRUE]]
    /\ pending' = IF pending = c THEN NoCall ELSE pending
    /\ UNCHANGED <<area, page, visits, cache, log>>

Rejected(c) ==
    /\ call[c].phase = "refused"
    /\ call' = [call EXCEPT ![c] = Idle]
    /\ UNCHANGED <<area, page, visits, cache, pending, log>>

\* What success does to the cache: every key under a renewed prefix is stale,
\* and those on the page are asked again, whatever was under way for them.
Renewed(op, entries) ==
    [k \in DOMAIN entries |->
       IF \E prefix \in op.renews : IsPrefix(prefix, k)
       THEN LET marked == [entries[k] EXCEPT !.stale = entries[k].has]
            IN IF k \in Mounted THEN Asking(marked) ELSE marked
       ELSE entries[k]]

\* The success callback runs even when the page has gone, and its navigation
\* too.  Nobody hears the answer of an action that was told it was cancelled.
Succeed(c) ==
    /\ call[c].phase = "applied"
    /\ IF ~call[c].heard
       THEN /\ call' = [call EXCEPT ![c] = Idle]
            /\ UNCHANGED <<page, cache, pending, log>>
       ELSE LET moves == call[c].op.next # "stay" /\ call[c].op.next # page
                renewed == Renewed(call[c].op, cache)
            IN /\ page' = IF moves THEN call[c].op.next ELSE page
               /\ cache' = IF moves THEN Mount(call[c].op.next, FALSE, renewed) ELSE renewed
               /\ call' = [d \in Calls[area] |-> IF d = c THEN Idle ELSE IF moves THEN Leave(d) ELSE call[d]]
               /\ pending' = IF moves THEN NoCall ELSE pending
               /\ log' = [log EXCEPT ![call[c].wrote].acked = TRUE]
    /\ UNCHANGED <<area, visits>>

ScreensNext ==
    \/ \E k \in Keys : Serve(k) \/ Answer(k) \/ FetchFails(k) \/ Refetch(k)
    \/ Reconnect \/ \E name \in DOMAIN Screens : Visit(name)
    \/ \E name \in DOMAIN Screens : \E op \in Screens[name].ops :
         WriteElsewhere(op) \/ \E c \in Calls[area] : Submit(c, op)
    \/ \E c \in Calls[area] :
         \/ Deny(c) \/ Refuse(c) \/ Apply(c) \/ Challenge(c) \/ CancelChallenge(c)
         \/ SubmitChallenge(c) \/ WrongFactor(c) \/ Verified(c) \/ Rejected(c) \/ Succeed(c)

ScreensSpec == ScreensInit /\ [][ScreensNext]_screenVars

-----------------------------------------------------------------------------

\* The answers that two pages leave as they were: on one's own page, the account
\* and its history when the other sessions are revoked, and the history after
\* a step of the second factor.
Overlooked(a, changes) ==
    CASE a = "account" /\ changes = RevokeOthers.changes -> {UserDetail, UserHistory}
      [] a = "factor" -> {UserHistory}
      [] OTHER -> {}

\* What an administrator has been told was done is not contradicted by the
\* pages, but for those answers: any other one kept from before the write is
\* marked stale, and one on the page is being read again, or shows that
\* reading it failed.
OwnWritesAreShown ==
    \A i \in 1..Now : log[i].acked =>
      \A k \in (log[i].changes \ Overlooked(area, log[i].changes)) \intersect Keys :
         cache[k].has /\ cache[k].at < i =>
           /\ cache[k].stale
           /\ k \in Mounted => cache[k].fetch # "no" \/ cache[k].failed

\* A write that carries a version is decided on what its page showed when it
\* was submitted, also when the challenge delayed it while others wrote.
DecidedOnWhatWasShown == \A i \in 1..Now : ~log[i].blind

\* A submission that waits for a challenge has it on the screen, unless its page
\* was left before its first denial came: then it waits for ever, and no page
\* that is still open is caught so.
OnlyTheLeftAreStranded ==
    \A c \in Calls[area] :
      /\ call[c].phase = "challenge" \/ (call[c].phase = "verifying" /\ call[c].heard) => pending = c
      /\ call[c].phase = "stranded" => ~call[c].mounted /\ ~call[c].retried

ScreensHold == OwnWritesAreShown /\ DecidedOnWhatWasShown /\ OnlyTheLeftAreStranded
=============================================================================
