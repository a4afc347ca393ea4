----------------------------- MODULE MailPlatform ----------------------------
(***************************************************************************)
(* The mail platform of the production host, as its scripts keep it.       *)
(*                                                                         *)
(*   tls       cert-renew-hook.sh puts a renewed certificate and key under *)
(*             postfix, recover-tls-transaction.sh undoes what it left     *)
(*             half done, and postfix starts only behind that recovery     *)
(*   platform  apply.sh prepares and activates the managed configuration,  *)
(*             rollback.sh puts the original one back                      *)
(*   firewall  configure-firewall.sh adds four rules and records them      *)
(*                                                                         *)
(* A script goes command by command; `set -e' ends it where one fails, its *)
(* trap undoes what it did, a signal runs the trap and goes on, and a kill *)
(* leaves the host as it is.                                               *)
(***************************************************************************)
EXTENDS Naturals, Sequences, FiniteSetsExt

CONSTANTS LastCertificate, \* bound: renewals
          MaxSaved         \* bound: backups of the configuration

VARIABLES
    pair,    \* certificate and key under /etc/postfix/tls, by their renewal
    txn,     \* .renewal-transaction: its files and the pair it came from
    hook,    \* the renewal hook, and the recovery it runs
    postfix, \* the service, the recovery its start runs, the pair it serves
    raced,   \* history: the service was started in the middle of a renewal, or a
             \* signal's recovery failed and the hook went on
    mail,    \* what is managed, its backups, the spool
    script,  \* where apply.sh or rollback.sh is
    rules,   \* the four firewall rules, the state file, and whether, as
             \* history, a script was cut off or failed to clean up
    guard    \* the firewall scripts that run

tlsVars == <<pair, txn, hook, postfix, raced>>
platformVars == <<mail, script>>
firewallVars == <<rules, guard>>

-----------------------------------------------------------------------------
(* Certificates.  Certificate and key match when they are of one renewal.   *)

NoTxn == [there |-> FALSE, files |-> {}, old |-> [cert |-> 0, key |-> 0], new |-> 0]

Matches(p) == p.cert = p.key

TlsInit ==
    /\ pair = [cert |-> 0, key |-> 0]
    /\ txn = NoTxn
    /\ hook = [at |-> "IDLE", rec |-> "NO", back |-> "END", source |-> 0]
    /\ postfix = [is |-> "ACTIVE", rec |-> "NO", serves |-> [cert |-> 0, key |-> 0]]
    /\ raced = FALSE

(* rm -rf: the files go one by one, the directory last.                     *)
Removes(after) ==
    \/ txn' = NoTxn /\ after
    \/ \E files \in SUBSET txn.files \ {txn.files} :
          txn' = [txn EXCEPT !.files = files] /\ UNCHANGED <<hook, postfix>>

(* recover-tls-transaction.sh, at `rec', going to `Goes(rec)'.              *)
Recovery(rec, Goes(_)) ==
    \/ /\ rec = "LOOK"
       /\ Goes(IF ~txn.there THEN "DONE"
               ELSE IF {"oldCert", "oldKey"} \subseteq txn.files /\ Matches(txn.old) THEN "CERT"
               ELSE "FAILED")
       /\ UNCHANGED <<pair, txn>>
    \/ /\ rec = "CERT" /\ "oldCert" \in txn.files
       /\ pair' = [pair EXCEPT !.cert = txn.old.cert]
       /\ Goes("KEY") /\ UNCHANGED txn
    \/ /\ rec = "KEY" /\ "oldKey" \in txn.files
       /\ pair' = [pair EXCEPT !.key = txn.old.key]
       /\ Goes("CHECK") /\ UNCHANGED txn
    \/ /\ rec = "CHECK"
       /\ Goes(IF Matches(pair) THEN "CLEAR" ELSE "FAILED")
       /\ UNCHANGED <<pair, txn>>
    \/ rec = "CLEAR" /\ Removes(Goes("DONE")) /\ UNCHANGED pair
    \/ rec \in {"CERT", "KEY"} /\ Goes("FAILED") /\ UNCHANGED <<pair, txn>>

HookGoes(at) == hook' = [hook EXCEPT !.at = at]

HookEnds == hook' = [hook EXCEPT !.at = "IDLE", !.rec = "NO", !.back = "END"]

(* certbot renewed, or an operator runs the hook again.                     *)
Renew ==
    /\ hook.at = "IDLE"
    /\ \E source \in {hook.source, hook.source + 1} :
          /\ source <= LastCertificate
          /\ hook' = [hook EXCEPT !.at = "RECOVER", !.rec = "LOOK", !.source = source]
    /\ UNCHANGED <<pair, txn, postfix>>

HookRecovers ==
    /\ Recovery(hook.rec, LAMBDA rec : hook' = [hook EXCEPT !.rec = rec] /\ UNCHANGED postfix)

MakeTransaction ==
    /\ hook.at = "RECOVER" /\ hook.rec = "DONE"
    /\ IF txn.there
       THEN HookEnds /\ UNCHANGED txn
       ELSE /\ txn' = [NoTxn EXCEPT !.there = TRUE, !.new = hook.source]
            /\ hook' = [hook EXCEPT !.at = "SAVE", !.rec = "NO"]
    /\ UNCHANGED <<pair, postfix>>

\* Mutant: the pair in place is not saved.
SaveNewOnly == <<"newCert", "newKey">>

SavedFiles == <<"oldCert", "oldKey", "newCert", "newKey">>

Save ==
    /\ hook.at = "SAVE" /\ txn.there
    /\ LET k == CHOOSE i \in 1..Len(SavedFiles) :
                   /\ SavedFiles[i] \notin txn.files
                   /\ \A j \in 1..(i - 1) : SavedFiles[j] \in txn.files
           f == SavedFiles[k]
       IN  /\ txn' = [txn EXCEPT !.files = @ \union {f},
                                 !.old = CASE f = "oldCert" -> [@ EXCEPT !.cert = pair.cert]
                                           [] f = "oldKey" -> [@ EXCEPT !.key = pair.key]
                                           [] OTHER -> @]
           /\ HookGoes(IF k = Len(SavedFiles) THEN "CERT" ELSE "SAVE")
    /\ UNCHANGED <<pair, postfix>>

(* From here on the trap is set.                                            *)
Armed == {"CERT", "KEY", "RELOAD", "LIVE", "CLEAR"}

(* rollback_pending, when the script ends or, on a signal, before it goes   *)
(* on from where it was.                                                    *)
Trap(back) ==
    hook' = IF txn.there THEN [hook EXCEPT !.at = "TRAP", !.rec = "LOOK", !.back = back]
            ELSE [hook EXCEPT !.at = IF back = "END" THEN "IDLE" ELSE back, !.rec = "NO"]

SwitchCert ==
    /\ hook.at = "CERT"
    /\ IF "newCert" \in txn.files
       THEN /\ pair' = [pair EXCEPT !.cert = txn.new]
            /\ txn' = [txn EXCEPT !.files = @ \ {"newCert"}]
            /\ HookGoes("KEY")
       ELSE Trap("END") /\ UNCHANGED <<pair, txn>>
    /\ UNCHANGED postfix

SwitchKey ==
    /\ hook.at = "KEY"
    /\ IF "newKey" \in txn.files
       THEN /\ pair' = [pair EXCEPT !.key = txn.new]
            /\ txn' = [txn EXCEPT !.files = @ \ {"newKey"}]
            /\ HookGoes("RELOAD")
       ELSE Trap("END") /\ UNCHANGED <<pair, txn>>
    /\ UNCHANGED postfix

(* A renewal needs the service up, and its reload to show the certificate.  *)
Reload ==
    /\ hook.at = "RELOAD"
    /\ IF postfix.is = "ACTIVE"
       THEN postfix' = [postfix EXCEPT !.serves = pair] /\ HookGoes("LIVE")
       ELSE UNCHANGED postfix /\ Trap("END")
    /\ UNCHANGED <<pair, txn>>

VerifyLive ==
    /\ hook.at = "LIVE"
    /\ IF postfix.is = "ACTIVE" /\ postfix.serves = [cert |-> hook.source, key |-> hook.source]
       THEN HookGoes("CLEAR") ELSE Trap("END")
    /\ UNCHANGED <<pair, txn, postfix>>

Clear ==
    /\ hook.at = "CLEAR"
    /\ Removes(HookEnds /\ UNCHANGED postfix)
    /\ UNCHANGED pair

(* The end of the trap: the recovered pair is loaded; a service that cannot *)
(* be reloaded, or whose pair was not recovered, is stopped.                *)
Trapped ==
    /\ hook.at = "TRAP" /\ hook.rec \in {"DONE", "FAILED"}
    /\ hook' = [hook EXCEPT !.at = IF hook.back = "END" THEN "IDLE" ELSE hook.back,
                            !.rec = "NO", !.back = "END"]
    /\ \/ /\ hook.rec = "DONE" /\ postfix.is = "ACTIVE"
          /\ postfix' = [postfix EXCEPT !.serves = pair]
       \/ postfix.is = "ACTIVE" /\ postfix' = [postfix EXCEPT !.is = "STOPPED"]
       \/ postfix.is # "ACTIVE" /\ UNCHANGED postfix
    /\ UNCHANGED <<pair, txn>>

(* A command of the hook fails; or a signal comes between two of them.      *)
HookFails ==
    /\ \/ hook.at = "SAVE" /\ HookEnds
       \/ hook.at = "RECOVER" /\ hook.rec = "FAILED" /\ HookEnds
       \/ hook.at \in Armed /\ Trap("END")
       \/ hook.at \in Armed /\ Trap(hook.at)
    /\ UNCHANGED <<pair, txn, postfix>>

HookKilled ==
    /\ hook.at # "IDLE"
    /\ HookEnds
    /\ UNCHANGED <<pair, txn, postfix>>

(* systemctl: the recovery is ExecStartPre of the service.                  *)
StartPostfix ==
    /\ postfix.is = "STOPPED"
    /\ postfix' = [postfix EXCEPT !.is = "STARTING", !.rec = "LOOK"]
    /\ UNCHANGED <<pair, txn, hook>>

StartRecovers ==
    /\ Recovery(postfix.rec,
                LAMBDA rec : postfix' = [postfix EXCEPT !.rec = rec] /\ UNCHANGED hook)

Started ==
    /\ postfix.rec \in {"DONE", "FAILED"}
    /\ postfix' = IF postfix.rec = "DONE"
                  THEN [is |-> "ACTIVE", rec |-> "NO", serves |-> pair]
                  ELSE [postfix EXCEPT !.is = "STOPPED", !.rec = "NO"]
    /\ UNCHANGED <<pair, txn, hook>>

(* The service is stopped, or its start given up half way.                  *)
StopPostfix ==
    /\ postfix.is # "STOPPED"
    /\ postfix' = [postfix EXCEPT !.is = "STOPPED", !.rec = "NO"]
    /\ UNCHANGED <<pair, txn, hook>>

StartedInRenewal == postfix.is = "STARTING" /\ hook.at \notin {"IDLE", "RECOVER"}

WentOnUnrecovered == hook.at = "TRAP" /\ hook.rec = "FAILED" /\ hook.back # "END"

TlsNext ==
    /\ \/ Renew \/ HookRecovers \/ MakeTransaction \/ Save \/ SwitchCert \/ SwitchKey
       \/ Reload \/ VerifyLive \/ Clear \/ Trapped \/ HookFails \/ HookKilled
       \/ StartPostfix \/ StartRecovers \/ Started \/ StopPostfix
    /\ raced' = (raced \/ StartedInRenewal' \/ WentOnUnrecovered')

(* Whatever fails or is killed, postfix never serves a certificate with the *)
(* key of another, and when the two files do not match the previous pair is *)
(* there whole to be put back.                                              *)
PairsMatch ==
    raced \/ /\ postfix.is = "ACTIVE" => Matches(postfix.serves)
             /\ \/ Matches(pair)
                \/ {"oldCert", "oldKey"} \subseteq txn.files /\ Matches(txn.old)

-----------------------------------------------------------------------------
(* The configuration: main.cf and the other files, as they were or managed. *)

PlatformInit ==
    /\ mail \in [main : {FALSE}, rest : {FALSE}, active : BOOLEAN, spool : {0},
                 saved : {<<>>}, last : {0}, prepared : {{}}, halfBack : {FALSE}]
    /\ script = "IDLE"

ScriptGoes(from, at) == script = from /\ script' = at

(* Mail comes and goes while postfix runs; a boot starts it, and ends what  *)
(* a script was doing.                                                      *)
MailMoves ==
    /\ mail.active
    /\ mail' = [mail EXCEPT !.spool = 1 - @]
    /\ UNCHANGED script

Boot ==
    /\ mail' = [mail EXCEPT !.active = TRUE,
                            !.halfBack = @ \/ script = "RESTORE_REST"]
    /\ script' = "IDLE"

(* A managed main.cf is not prepared again.                                 *)
Prepare ==
    /\ ~mail.main
    /\ ScriptGoes("IDLE", "BACKUP")
    /\ UNCHANGED mail

TakeBackup ==
    /\ Len(mail.saved) < MaxSaved
    /\ ScriptGoes("BACKUP", "POINT")
    /\ mail' = [mail EXCEPT !.saved =
          Append(@, [main |-> mail.main, rest |-> mail.rest, active |-> mail.active])]

\* Mutant: the spool is counted under a running postfix.
CountOnly == "COUNT"

AfterPoint == "STOP"

PointToBackup ==
    /\ ScriptGoes("POINT", AfterPoint)
    /\ mail' = [mail EXCEPT !.last = Len(mail.saved)]

Freeze ==
    /\ ScriptGoes("STOP", "COUNT")
    /\ mail' = [mail EXCEPT !.active = FALSE]

CountSpool ==
    /\ script = "COUNT"
    /\ script' = IF mail.spool = 0 THEN "RENDER" ELSE "IDLE"
    /\ UNCHANGED mail

\* Mutant: the mark of a managed configuration comes last.
RestFirst == <<"rest", "main">>

RenderOrder == <<"main", "rest">>

Render ==
    \/ /\ ScriptGoes("RENDER", "RENDER_SECOND")
       /\ mail' = [mail EXCEPT ![RenderOrder[1]] = TRUE]
    \/ /\ ScriptGoes("RENDER_SECOND", "READY")
       /\ mail' = [mail EXCEPT ![RenderOrder[2]] = TRUE]

MarkPrepared ==
    /\ ScriptGoes("READY", "IDLE")
    /\ mail' = [mail EXCEPT !.prepared = @ \union {mail.last}, !.active = FALSE]

Activate ==
    /\ script = "IDLE"
    /\ mail.last \in mail.prepared /\ mail.main /\ mail.spool = 0
    /\ mail' = [mail EXCEPT !.active = TRUE]
    /\ UNCHANGED script

RollBack ==
    /\ mail' = [mail EXCEPT !.active = FALSE]
    /\ ScriptGoes("IDLE", IF mail.last = 0 THEN "IDLE" ELSE "RESTORE")

RestoreMain ==
    /\ ScriptGoes("RESTORE", "RESTORE_REST")
    /\ mail' = [mail EXCEPT !.main = mail.saved[mail.last].main]

RestoreRest ==
    /\ ScriptGoes("RESTORE_REST", "SERVICE")
    /\ mail' = [mail EXCEPT !.rest = mail.saved[mail.last].rest]

RestoreService ==
    /\ ScriptGoes("SERVICE", "IDLE")
    /\ mail' = [mail EXCEPT !.active = mail.saved[mail.last].active]

ScriptStops ==
    /\ script # "IDLE"
    /\ script' = "IDLE"
    /\ mail' = [mail EXCEPT !.halfBack = @ \/ script = "RESTORE_REST"]

PlatformNext ==
    \/ MailMoves \/ Boot \/ Prepare \/ TakeBackup \/ PointToBackup \/ Freeze \/ CountSpool
    \/ Render \/ MarkPrepared \/ Activate \/ RollBack \/ RestoreMain \/ RestoreRest
    \/ RestoreService \/ ScriptStops

(* The configuration is replaced over an empty spool that nothing fills;    *)
(* the backup a rollback takes is of the original configuration, whatever   *)
(* was prepared again, unless an earlier rollback stopped half way; and a   *)
(* configuration that may be activated is whole.                            *)
PlatformReturns ==
    /\ script \in {"RENDER", "RENDER_SECOND", "READY"} => mail.spool = 0 /\ ~mail.active
    /\ mail.last # 0 =>
          mail.halfBack \/ (~mail.saved[mail.last].main /\ ~mail.saved[mail.last].rest)
    /\ mail.last \in mail.prepared /\ mail.main => mail.rest

-----------------------------------------------------------------------------
(* The firewall.                                                            *)

Rules == 1..4
Shells == {"apply", "again", "rollback"}

NoScript == [at |-> "IDLE", rule |-> 0, made |-> {}, back |-> "END"]

FirewallInit ==
    /\ rules = [in |-> {}, recorded |-> FALSE, cut |-> FALSE]
    /\ guard = [s \in Shells |-> NoScript]

Acts(s, at) == guard[s].at = at

Then(s, at) == guard' = [guard EXCEPT ![s].at = at]

Over(s) == guard' = [guard EXCEPT ![s] = NoScript]

(* configure-firewall.sh, under flock.                                      *)
ApplyRules(s) ==
    /\ s # "rollback" /\ \A t \in Shells \ {"rollback"} : guard[t] = NoScript
    /\ IF rules.recorded \/ rules.in # {}
       THEN UNCHANGED guard
       ELSE guard' = [guard EXCEPT ![s] = [@ EXCEPT !.at = "ADD", !.rule = 1]]
    /\ UNCHANGED rules

AddRule(s) ==
    /\ Acts(s, "ADD")
    /\ rules' = [rules EXCEPT !.in = @ \union {guard[s].rule}]
    /\ guard' = [guard EXCEPT ![s] = [@ EXCEPT !.made = guard[s].made \union {guard[s].rule},
                                               !.rule = guard[s].rule + 1,
                                               !.at = IF guard[s].rule = 4 THEN "VERIFY"
                                                      ELSE "ADD"]]

VerifyRules(s) ==
    /\ Acts(s, "VERIFY")
    /\ Then(s, IF rules.in = Rules THEN "RECORD" ELSE "CLEAN")
    /\ UNCHANGED rules

RecordRules(s) ==
    /\ Acts(s, "RECORD")
    /\ rules' = [rules EXCEPT !.recorded = TRUE]
    /\ Over(s)

\* Mutant: the first rule is not one of those taken back.
AllButFirst(s) == guard[s].made \ {1}

OwnRules(s) == guard[s].made

(* cleanup_partial: the script ends, or goes on after a signal.             *)
CleanUp(s) ==
    /\ Acts(s, "CLEAN")
    /\ LET own == OwnRules(s) \intersect rules.in
       IN  IF own # {}
           THEN rules' = [rules EXCEPT !.in = @ \ {Max(own)}] /\ UNCHANGED guard
           ELSE /\ guard' = [guard EXCEPT ![s] =
                      IF @.back = "END" THEN NoScript
                      ELSE [@ EXCEPT !.at = guard[s].back, !.back = "END"]]
                /\ UNCHANGED rules

RollBackRules ==
    /\ guard["rollback"] = NoScript
    /\ rules.recorded
    /\ Then("rollback", "DELETE")
    /\ UNCHANGED rules

DeleteRule ==
    /\ Acts("rollback", "DELETE")
    /\ IF rules.in # {}
       THEN rules' = [rules EXCEPT !.in = @ \ {Max(rules.in)}] /\ UNCHANGED guard
       ELSE rules' = [rules EXCEPT !.recorded = FALSE] /\ Over("rollback")

(* A ufw command fails, the script is signalled, or killed.                 *)
RuleFails(s) ==
    /\ guard[s] # NoScript
    /\ \/ Acts(s, "ADD") /\ Then(s, "CLEAN") /\ UNCHANGED rules
       \/ s = "rollback" /\ Over(s) /\ UNCHANGED rules
       \/ /\ s # "rollback" /\ ~Acts(s, "CLEAN")
          /\ guard' = [guard EXCEPT ![s] = [@ EXCEPT !.back = guard[s].at, !.at = "CLEAN"]]
          /\ UNCHANGED rules
       \/ s # "rollback" /\ Over(s) /\ rules' = [rules EXCEPT !.cut = TRUE]

FirewallNext ==
    \/ \E s \in Shells :
          ApplyRules(s) \/ AddRule(s) \/ VerifyRules(s) \/ RecordRules(s) \/ CleanUp(s)
          \/ RuleFails(s)
    \/ RollBackRules \/ DeleteRule

(* A rule is never left in the firewall without the state file by which a   *)
(* later run knows it, unless a script was killed.                          *)
RulesAreOwned ==
    rules.in # {} => \/ rules.recorded \/ rules.cut
                     \/ \E s \in Shells \ {"rollback"} : guard[s] # NoScript

MailHolds == PairsMatch /\ PlatformReturns /\ RulesAreOwned
=============================================================================
