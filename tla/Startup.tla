------------------------------- MODULE Startup -------------------------------
(***************************************************************************)
(* How the API starts and what it says of itself: the validation of its    *)
(* environment, the factories that choose the adapters (Bold, mail, the    *)
(* external core, the messages of the portal, the AI gateway, the master), *)
(* the approval gates a production start reads, and the system page, whose *)
(* probes answer one by one while the services they ask go up and down.    *)
(* A setting is one of a few classes: the schema and the factories tell no *)
(* more apart.  Settings the schema treats alike and nothing modelled here *)
(* reads are represented by one of them.                                   *)
(***************************************************************************)
EXTENDS Naturals, FiniteSets

CONSTANTS Gates,  \* keys of the catalogue of approval gates
          Absent  \* a gate no row stands for

VARIABLES
    file,     \* the environment the process is started with
    gates,    \* the rows of the approval gates
    api,      \* the process: where its start is and the adapters it chose
    services, \* what the system page asks about
    page      \* the request for the status: its probes, and what it showed

startVars == <<file, gates, api, services, page>>

-----------------------------------------------------------------------------

Settings == {"unset", "empty", "bad", "good"}

(* Settings without a default: unset, empty or too short stops the start.   *)
RequiredIdentity == {"ADMIN_ACCOUNT_EMAIL", "ADMIN_RECOVERY_EMAIL"}
RequiredSecrets == {"DATABASE_URL", "REDIS_URL", "JWT_SECRET", "ENCRYPTION_KEY"}
RequiredTokens == {"PASSWORD_RESET_TOKEN_SECRET"}
RequiredDownloads == {"CONTRACT_DOWNLOAD_TOKEN_SECRET"}

(* Settings with a default only an unset one takes: a number given empty is *)
(* coerced to zero, which no bound admits.                                  *)
BoundedIdentity == {"ADMIN_STEP_UP_TTL_SECONDS"}
BoundedGateway == {"OPENROUTER_MAX_ATTEMPTS"}
BoundedPortal == {"SELF_SERVICE_OTP_MAX_ATTEMPTS"}
BoundedMaster == {"MASTER_FIREBIRD_MAX_CONNECTIONS"}
BoundedLogin == {"LOGIN_MAX_FAILED_ATTEMPTS"}
BoundedRecovery == {"RESET_PASSWORD_RATE_LIMIT_MAX"}
BoundedForms == {"PQR_CASES_RATE_LIMIT_IP_MAX", "PAYMENT_ORDER_TTL_MINUTES"}

(* Settings that may be empty but not wrong.                                *)
CheckedMail == {"SMTP_HOST", "SMTP_CONNECT_HOST", "SMTP_PORT", "SMTP_FROM"}

(* Settings the schema alone takes as they are.                             *)
WhatsApp ==
    {"WHATSAPP_GRAPH_API_VERSION", "WHATSAPP_PHONE_NUMBER_ID", "WHATSAPP_ACCESS_TOKEN",
     "WHATSAPP_OTP_TEMPLATE_NAME", "WHATSAPP_OTP_TEMPLATE_LANGUAGE"}
HttpCore ==
    {"EXTERNAL_CORE_BASE_URL", "EXTERNAL_CORE_CLIENT_ID", "EXTERNAL_CORE_CLIENT_SECRET",
     "EXTERNAL_CORE_WEBHOOK_SECRET"}
Firebird ==
    {"MASTER_FIREBIRD_HOST", "MASTER_FIREBIRD_DATABASE", "MASTER_FIREBIRD_USER",
     "MASTER_FIREBIRD_PASSWORD"}
Bold == {"BOLD_IDENTITY_KEY", "BOLD_SECRET_KEY"}
MailLogin == {"SMTP_USER", "SMTP_PASSWORD"}

Required == RequiredIdentity \union RequiredSecrets \union RequiredTokens \union RequiredDownloads
Bounded ==
    BoundedIdentity \union BoundedGateway \union BoundedPortal \union BoundedMaster
        \union BoundedLogin \union BoundedRecovery \union BoundedForms
Free ==
    WhatsApp \union HttpCore \union Firebird \union Bold \union MailLogin
        \union {"OPENROUTER_API_KEY"}
Fields == Required \union Bounded \union CheckedMail \union Free

(* The settings whose very value chooses an adapter.                        *)
Modes ==
    [bold : {"mock", "sandbox", "production"}, core : {"not_configured", "http", "master"},
     messages : {"not_configured", "whatsapp"}, ai : BOOLEAN, master : BOOLEAN]

Given(e, f) == e.set[f] \in {"bad", "good"}

-----------------------------------------------------------------------------

(* The schema, field by field.                                              *)
FieldsParse(e) ==
    /\ \A f \in Required : e.set[f] = "good"
    /\ \A f \in Bounded : e.set[f] \in {"unset", "good"}
    /\ \A f \in CheckedMail : e.set[f] # "bad"

(* superRefine: the parts of the environment that go together.              *)
MailAgrees(e) ==
    /\ Given(e, "SMTP_USER") = Given(e, "SMTP_PASSWORD")
    /\ LET needed == {"SMTP_PORT", "SMTP_USER", "SMTP_PASSWORD", "SMTP_FROM"} IN
       IF Given(e, "SMTP_HOST") THEN \A f \in needed : Given(e, f)
       ELSE \A f \in needed \union {"SMTP_CONNECT_HOST"} : ~Given(e, f)

MessagesAgree(e) == e.mode.messages = "whatsapp" => \A f \in WhatsApp : e.set[f] = "good"

CoreAgrees(e) ==
    e.mode.core = "http" =>
        /\ \A f \in HttpCore : Given(e, f)
        /\ e.set["EXTERNAL_CORE_BASE_URL"] = "good"

MasterAgrees(e) ==
    e.mode.master =>
        /\ \A f \in Firebird : Given(e, f)
        /\ e.set["MASTER_FIREBIRD_USER"] = "good"

Agrees(e) ==
    /\ e.mode.ai => e.set["OPENROUTER_API_KEY"] = "good"
    /\ ~e.sameEmails
    /\ MailAgrees(e) /\ MessagesAgree(e) /\ CoreAgrees(e) /\ MasterAgrees(e)

Valid(e) == FieldsParse(e) /\ Agrees(e)

-----------------------------------------------------------------------------

Plain ==
    [set |-> [f \in Fields |-> IF f \in Required THEN "good" ELSE "unset"],
     mode |-> [bold |-> "mock", core |-> "not_configured", messages |-> "not_configured",
               ai |-> FALSE, master |-> FALSE],
     sameEmails |-> FALSE, test |-> FALSE]

With(fields, mode) ==
    [Plain EXCEPT !.set = [f \in Fields |-> IF f \in fields THEN "good" ELSE @[f]],
                  !.mode = mode]

(* Environments an operator prepares: one per adapter, ...                  *)
Prepared ==
    {Plain,
     With(CheckedMail \union MailLogin, Plain.mode),
     With(WhatsApp, [Plain.mode EXCEPT !.messages = "whatsapp"]),
     With(HttpCore, [Plain.mode EXCEPT !.core = "http"]),
     With(Firebird, [Plain.mode EXCEPT !.core = "master", !.master = TRUE]),
     With({"OPENROUTER_API_KEY"}, [Plain.mode EXCEPT !.ai = TRUE]),
     With(Bold, [Plain.mode EXCEPT !.bold = "sandbox"]),
     With(Bold, [Plain.mode EXCEPT !.bold = "production"])}

(* ... each with at most one mistake.                                       *)
Files ==
    Prepared
        \union {[e EXCEPT !.set[f] = s] : e \in Prepared, f \in Fields, s \in Settings}
        \union {[e EXCEPT !.sameEmails = TRUE] : e \in Prepared}
        \union {[e EXCEPT !.test = TRUE] : e \in Prepared}
        \union {[e EXCEPT !.mode = m] :
                   e \in Prepared, m \in {m \in Modes : m.bold = "production" => ~m.ai}}

(* The environments the status page is looked at under: nothing prepared, a *)
(* mail server, a master, and Bold without the secret of its notices.       *)
Watched ==
    {Plain, With(CheckedMail \union MailLogin, Plain.mode),
     With(Firebird, [Plain.mode EXCEPT !.core = "master", !.master = TRUE]),
     With({"BOLD_IDENTITY_KEY"}, [Plain.mode EXCEPT !.bold = "sandbox"])}

Down == [at |-> "DOWN", bold |-> "none", mail |-> "none", core |-> "none", messages |-> "none",
         ai |-> "none", verified |-> FALSE, stood |-> FALSE]

Probes == {"postgres", "redis", "master", "mail", "queue"}

NoPage == [asked |-> FALSE, got |-> [p \in Probes |-> "none"], seen |-> {}, shown |-> Absent]

Pending == [status |-> "PENDING", until |-> "never"]

StartInit ==
    /\ file \in Files
    /\ gates = [g \in Gates |-> Absent]
    /\ api = Down
    /\ services = [postgres |-> TRUE, redis |-> TRUE, quiet |-> TRUE]
    /\ page = NoPage

-----------------------------------------------------------------------------

(* isProductionPaymentsEnabled: all rows of the table, none missing.        *)
GatesOpen ==
    LET rows == {g \in Gates : gates[g] # Absent} IN
    /\ Cardinality(rows) >= Cardinality(Gates)
    /\ \A g \in rows : gates[g].status = "APPROVED" /\ gates[g].until # "past"

(* validateEnv, then the factories that ask nobody: the core's refuses http, *)
(* Bold's a mode other than mock without its identity key.                  *)
\* Mutant: the key is left to the first call of Bold to miss.
BuildsWithoutKey(e) == e.mode.core # "http"

Builds(e) ==
    /\ e.mode.core # "http"
    /\ e.mode.bold # "mock" => Given(e, "BOLD_IDENTITY_KEY")

Build ==
    /\ api.at = "DOWN"
    /\ Valid(file) /\ Builds(file)
    /\ api' = [Down EXCEPT
         !.at = IF file.mode.bold = "production" THEN "GATES" ELSE "BUILT",
         !.bold = IF file.mode.bold = "mock" THEN "mock" ELSE "http",
         !.mail = IF file.test THEN "memory"
                  ELSE IF Given(file, "SMTP_HOST") THEN "smtp" ELSE "noop",
         !.core = file.mode.core,
         !.messages = file.mode.messages,
         !.ai = IF file.mode.ai THEN "openrouter" ELSE "disabled"]
    /\ UNCHANGED <<file, gates, services, page>>

(* Only production reads the gates, once, while it starts.                  *)
ReadGates ==
    /\ api.at = "GATES"
    /\ api' = IF GatesOpen THEN [api EXCEPT !.at = "BUILT",
                                   !.stood = \A g \in Gates :
                                       gates[g] \in [status : {"APPROVED"}, until : {"never", "later"}]]
              ELSE Down
    /\ UNCHANGED <<file, gates, services, page>>

(* onApplicationBootstrap: the identity preflight passes or stops the start; *)
(* a test process does not run it.                                          *)
Listen ==
    /\ api.at = "BUILT"
    /\ \/ api' = [api EXCEPT !.at = "UP", !.verified = ~file.test]
       \/ ~file.test /\ api' = Down
    /\ UNCHANGED <<file, gates, services, page>>

Stop ==
    /\ api.at # "DOWN"
    /\ api' = Down /\ page' = NoPage
    /\ UNCHANGED <<file, gates, services>>

(* seedApprovalGates: a row per key, one upsert after another, which leaves *)
(* a row there is alone.  The process that reads no gate has none moved.    *)
Seed(g) ==
    /\ file.mode.bold = "production"
    /\ gates[g] = Absent
    /\ gates' = [gates EXCEPT ![g] = Pending]
    /\ UNCHANGED <<file, api, services, page>>

(* transition: the status as given; an expiry that is not given stays.      *)
Transition(g, status, until) ==
    /\ gates[g] # Absent
    /\ gates' = [gates EXCEPT ![g] = [status |-> status,
                                      until |-> IF until = Absent THEN @.until ELSE until]]
    /\ UNCHANGED <<file, api, services, page>>

Expire(g) ==
    /\ gates[g] # Absent /\ gates[g].until = "later"
    /\ gates' = [gates EXCEPT ![g].until = "past"]
    /\ UNCHANGED <<file, api, services, page>>

GatesNext ==
    \E g \in Gates :
        \/ Seed(g) \/ Expire(g)
        \/ \E s \in {"PENDING", "APPROVED", "REJECTED"}, u \in {Absent, "later", "past"} :
              Transition(g, s, u)

StartNext == Build \/ ReadGates \/ Listen \/ Stop \/ GatesNext

-----------------------------------------------------------------------------

(* getStatus: all probes at once.                                           *)
Ask ==
    /\ api.at = "UP" /\ ~page.asked
    /\ page' = [NoPage EXCEPT !.asked = TRUE, !.got = [p \in Probes |-> "waiting"],
                              !.seen = {s \in DOMAIN services : services[s]}]
    /\ UNCHANGED <<file, gates, api, services>>

(* What a probe may read now.  A query of the tables fails with the          *)
(* database; without a mail server there is nothing to ask; the master and  *)
(* the mail server are outside.  Who is asked may not answer in time.       *)
Readings(p) ==
    CASE p = "queue" -> {"none", IF ~services.postgres THEN "none"
                                 ELSE IF services.quiet THEN "quiet" ELSE "failed"}
      [] p = "master" -> IF file.mode.master THEN {"none", "up", "down"} ELSE {"disabled"}
      [] p = "mail" -> CASE api.mail = "smtp" -> {"none", "up", "down"}
                         [] api.mail = "memory" -> {"up"}
                         [] OTHER -> {"not configured"}
      [] OTHER -> {"none", IF services[p] THEN "up" ELSE "down"}

Answer(p) ==
    /\ page.asked /\ page.got[p] = "waiting"
    /\ \E r \in Readings(p) : page' = [page EXCEPT !.got[p] = r]
    /\ UNCHANGED <<file, gates, api, services>>

StateOf(r) ==
    CASE r = "none" -> "UNKNOWN" [] r = "up" -> "HEALTHY" [] r = "disabled" -> "DISABLED"
      [] r = "not configured" -> "NOT_CONFIGURED" [] OTHER -> "UNAVAILABLE"

(* A database or Redis that did not answer in time is shown as unavailable; *)
(* the numbers of the queue are shown only beside a database that did.      *)
Trusted == page.got["postgres"] = "up" /\ page.got["queue"] # "none"

Show ==
    /\ page.asked /\ \A p \in Probes : page.got[p] # "waiting"
    /\ page' = [NoPage EXCEPT !.seen = page.seen,
         !.shown =
            [core |-> IF page.got["postgres"] # "up" \/ page.got["redis"] # "up" THEN "UNAVAILABLE"
                      ELSE IF api.verified THEN "HEALTHY" ELSE "DEGRADED",
             master |-> StateOf(page.got["master"]),
             mail |-> StateOf(page.got["mail"]),
             bold |-> IF file.mode.bold = "mock" THEN "DISABLED"
                      ELSE IF \A f \in Bold : Given(file, f) THEN "UNKNOWN" ELSE "NOT_CONFIGURED",
             queue |-> IF ~Trusted THEN "UNKNOWN"
                       ELSE IF page.got["queue"] = "failed" THEN "DEGRADED" ELSE "HEALTHY"]]
    /\ UNCHANGED <<file, gates, api, services>>

(* A service goes down or comes back; a message of the queue fails or is    *)
(* cleared.  What held at some moment of the request is remembered.         *)
Fluctuate(s) ==
    /\ services' = [services EXCEPT ![s] = ~@]
    /\ page' = IF page.asked /\ ~services[s] THEN [page EXCEPT !.seen = @ \union {s}] ELSE page
    /\ UNCHANGED <<file, gates, api>>

StatusNext ==
    \/ Build \/ Listen \/ Ask \/ Show
    \/ \E p \in Probes : Answer(p)
    \/ \E s \in DOMAIN services : Fluctuate(s)

-----------------------------------------------------------------------------

(* A process that serves chose no adapter without the settings it calls     *)
(* with, and takes no money of customers that some gate had not cleared     *)
(* when it started.                                                         *)
ServesAsConfigured ==
    api.at = "UP" =>
        /\ api.mail = "smtp" =>
              \A f \in {"SMTP_PORT", "SMTP_USER", "SMTP_PASSWORD", "SMTP_FROM"} : Given(file, f)
        /\ api.messages = "whatsapp" => \A f \in WhatsApp : file.set[f] = "good"
        /\ file.mode.master => \A f \in Firebird : Given(file, f)
        /\ api.ai = "openrouter" => file.set["OPENROUTER_API_KEY"] = "good"
        /\ api.core # "http"
        /\ api.bold = "http" => Given(file, "BOLD_IDENTITY_KEY")
        /\ file.mode.bold = "production" => api.stood
        /\ api.verified \/ file.test

(* Whatever the page shows as working did work at some moment of the request *)
(* that showed it, and numbers come with the database they were read from.  *)
PageIsHonest ==
    page.shown # Absent =>
        /\ page.shown.core = "HEALTHY" => {"postgres", "redis"} \subseteq page.seen
        /\ page.shown.queue # "UNKNOWN" => "postgres" \in page.seen
        /\ page.shown.queue = "HEALTHY" => "quiet" \in page.seen

StartHolds == ServesAsConfigured /\ PageIsHonest
=============================================================================
