----------------------------- MODULE MCPayments ------------------------------
(* Small instances of the payments: two central orders of one obligation     *)
(* while PRODUCTION_PAYMENTS_ENABLED is off, and one order with two refunds  *)
(* handled by two members of staff while it is on; the pages of a visitor;   *)
(* the start of the API; and the operation of the host they run on, with two *)
(* shells at a time.  They share no state, so a behaviour follows one of     *)
(* them.  An order is worth two units of money, so that a refund is partial  *)
(* or total.  The refunds, the staff and the shells take the names the       *)
(* orders and the requests have in the first instance, so that one small     *)
(* group of symmetries serves all.                                           *)
EXTENDS BoldPayments, TLC

CONSTANTS o3, b3, r3,
          Contents,        \* what a protected environment file may hold
          MaxBackups,      \* bounds: backups of an environment file or a mail configuration,
          LastPublished,   \* releases published, and pairs of images of each,
          MaxBuilds,
          LastDeployed,    \* releases deployed,
          MaxInstalled,    \* backups of the compose files,
          LastCertificate, \* renewals,
          MaxStrays        \* and create calls of payment pages left behind

VARIABLES
    part, paid, held, stale, tries, issued, notice, serving, provider, refund, staff, taken,
    disk, shell, kept,
    tag, published, publisher, channel, host, operator,
    pair, txn, hook, postfix, raced, mail, script, rules, guard,
    order, cache, view, calls,
    file, gates, api, services, page

Refunded == INSTANCE Refunds WITH
    Orders <- {o3}, Obligations <- {b3}, Requests <- {r3}, ProductionPayments <- TRUE,
    RefundIds <- Orders, Staff <- Requests, OrderAmount <- 2, MaxTaken <- 1, NoRefund <- NoOrder,
    status <- paid, owner <- held, expired <- stale, attempts <- tries, receipts <- issued,
    event <- notice, req <- serving, bold <- provider

\* The application's protected file keeps a journal, the stack's does not.
ProtectedFile(name) == INSTANCE ProtectedEnv WITH
    Operators <- Requests, Journaled <- name = "app env", MaxSaved <- MaxBackups

\* Releases built by two publishers, or each built once and deployed.
Release(publishers, last, builds) == INSTANCE Releases WITH
    Publishers <- publishers, Operators <- {o3}, LastRelease <- last, MaxBuilds <- builds,
    MaxSaved <- MaxInstalled

Host == INSTANCE MailPlatform WITH MaxSaved <- MaxBackups

\* No page reads two queries and none writes another's: a behaviour follows one.
Pages(query) == INSTANCE PaymentPages WITH Queries <- {query}

Api == INSTANCE Startup WITH Gates <- Orders, Absent <- NoOrder

ASSUME RefundedAssumption == Refunded!RefundAssumption /\ Refunded!ConstantsAssumption

refundedVars ==
    <<paid, held, stale, tries, issued, notice, serving, provider, refund, staff, taken>>

envVars == <<disk, shell, kept>>
releasesVars == <<tag, published, publisher, channel, host, operator>>
tlsVars == <<pair, txn, hook, postfix, raced>>
mailVars == <<tlsVars, mail, script, rules, guard>>
pagesVars == <<order, cache, view, calls>>
startVars == <<file, gates, api, services, page>>
hostVars == <<envVars, releasesVars, mailVars, pagesVars, startVars>>

ASSUME FilesAssumption == 0 \in Contents

\* The catalogue of approval gates is finite.
ASSUME GatesAssumption == IsFiniteSet(Orders)

ASSUME ReleasesAssumption ==
    LastPublished \in Nat /\ LastDeployed \in Nat /\ MaxBuilds \in Nat

Operations == {"app env", "stack env", "publish", "deploy", "tls", "mail", "firewall"}
Surroundings == Operations \union {"summary", "result", "receipt", "start", "status"}

PaymentsInit ==
    /\ part \in {"orders", "refunds"} \union Surroundings
    /\ Init /\ Refunded!RefundInit
    /\ ProtectedFile("app env")!EnvInit /\ Host!TlsInit /\ Host!PlatformInit /\ Host!FirewallInit
    /\ IF part = "deploy" THEN Release({r3}, LastDeployed, 1)!ReleasesInit
                          ELSE Release(Requests, LastPublished, MaxBuilds)!ReleasesInit
    /\ part # "mail" => mail.active
    /\ CASE part = "summary" -> Pages("detail")!PagesInit
         [] part = "receipt" -> Pages("receipt")!PagesInit
         [] OTHER -> Pages("status")!PagesInit
    /\ Api!StartInit
    /\ CASE part = "start" -> TRUE
         [] part = "status" -> file \in Api!Watched
         [] OTHER -> file = Api!Plain

SurroundingsStep ==
    \/ /\ \/ part = "summary" /\ Pages("detail")!PagesNext
          \/ part = "result" /\ Pages("status")!PagesNext
          \/ part = "receipt" /\ Pages("receipt")!PagesNext
       /\ UNCHANGED <<envVars, releasesVars, mailVars, startVars>>
    \/ /\ \/ part = "start" /\ Api!StartNext
          \/ part = "status" /\ Api!StatusNext
       /\ UNCHANGED <<envVars, releasesVars, mailVars, pagesVars>>

OperationsStep ==
    \/ /\ \/ part = "app env" /\ ProtectedFile("app env")!EnvNext
          \/ part = "stack env" /\ ProtectedFile("stack env")!EnvNext
       /\ UNCHANGED <<releasesVars, mailVars>>
    \/ /\ \/ part = "publish" /\ Release(Requests, LastPublished, MaxBuilds)!ReleasesNext
          \/ part = "deploy" /\ Release({r3}, LastDeployed, 1)!ReleasesNext
       /\ UNCHANGED <<envVars, mailVars>>
    \/ /\ \/ part = "tls" /\ Host!TlsNext /\ UNCHANGED <<mail, script, rules, guard>>
          \/ part = "mail" /\ Host!PlatformNext /\ UNCHANGED <<tlsVars, rules, guard>>
          \/ part = "firewall" /\ Host!FirewallNext /\ UNCHANGED <<tlsVars, mail, script>>
       /\ UNCHANGED <<envVars, releasesVars>>

PaymentsNext ==
    /\ UNCHANGED part
    /\ \/ part = "orders" /\ Next /\ UNCHANGED <<refundedVars, hostVars>>
       \/ part = "refunds" /\ Refunded!RefundNext /\ UNCHANGED <<vars, hostVars>>
       \/ OperationsStep /\ UNCHANGED <<vars, refundedVars, pagesVars, startVars>>
       \/ SurroundingsStep /\ UNCHANGED <<vars, refundedVars>>

PaymentsSpec == PaymentsInit /\ [][PaymentsNext]_<<part, vars, refundedVars, hostVars>>

Symmetry == Permutations(Orders) \union Permutations(Requests)

-----------------------------------------------------------------------------

(* No step leaves a refunded order that no refund backs, or a refund that no *)
(* attempt backs; no late answer takes a refunded order back.                *)
RefundsStand ==
    [][part = "refunds" => Refunded!RefundsAreBacked' /\ Refunded!RefundedKept]_refundedVars

(* Around the payments: the pages of a visitor never say more than the order *)
(* does; the API serves with the settings its adapters need, live payments   *)
(* cleared by every gate, and shows what it saw; and whatever command stops  *)
(* or is killed on the host, the protected files can be put back, what runs  *)
(* was published, and the mail platform keeps a matching certificate, its    *)
(* original configuration and the rules it owns.                             *)
SurroundingsHold ==
    /\ part = "result" => Pages("status")!PagesTellTheTruth
    /\ part = "receipt" => Pages("receipt")!PagesTellTheTruth
    /\ part = "summary" => Pages("detail")!PagesTellTheTruth
    /\ part \in {"start", "status"} => Api!StartHolds
    /\ part = "app env" => ProtectedFile("app env")!EnvHolds
    /\ part = "stack env" => ProtectedFile("stack env")!EnvHolds
    /\ part = "publish" => Release(Requests, LastPublished, MaxBuilds)!ReleasesHold
    /\ part = "deploy" => Release({r3}, LastDeployed, 1)!ReleasesHold
    /\ part \in {"tls", "mail", "firewall"} => Host!MailHolds
=============================================================================
