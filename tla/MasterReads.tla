----------------------------- MODULE MasterReads -----------------------------
(***************************************************************************)
(* The read-only bridge to the Firebird master: firebird-read.executor.ts, *)
(* its circuit breaker, and the client it awaits (firebird.client.ts).     *)
(*                                                                         *)
(* The executor races a read against a timer.  When the timer wins, the    *)
(* caller is answered and the read is no longer counted, but the client    *)
(* goes on by itself: it still verifies the account, rolls its transaction *)
(* back and gives its connection back, later.  So a read has two lives,    *)
(* `call' (the executor's) and `at' (the client's).                        *)
(***************************************************************************)
EXTENDS Naturals, FiniteSets

CONSTANTS Reads,            \* reads that may be in progress together
          MaxConnections,   \* MASTER_FIREBIRD_MAX_CONNECTIONS
          FailureThreshold, \* MASTER_FIREBIRD_CIRCUIT_FAILURE_THRESHOLD
          ResetOutlasts     \* whether MASTER_FIREBIRD_CIRCUIT_RESET_MS is more
                            \* than MASTER_FIREBIRD_QUERY_TIMEOUT_MS

ReadsAssumption ==
    /\ MaxConnections \in Nat \ {0} /\ FailureThreshold \in Nat \ {0}
    /\ ResetOutlasts \in BOOLEAN

VARIABLES
    circuit, \* the MasterCircuitBreaker
    client,  \* identityValidated, identityRejected and the pool of the client
    read     \* the reads in progress

readsVars == <<circuit, client, read>>

Circuits ==
    [state : {"CLOSED", "OPEN", "HALF_OPEN"}, failures : 0..FailureThreshold,
     probe : BOOLEAN, cooled : BOOLEAN]

Errors == {"NONE", "UNAVAILABLE", "TIMEOUT", "MISMATCH"}

ClientSteps ==
    {"IDLE", "ACQUIRE", "BEGIN", "VERIFY", "QUERY", "ROLLBACK", "RELEASE", "DONE"}

ReadStates ==
    [call : {"IDLE", "AWAITED", "ROWS", "FAILED"}, at : ClientSteps, technical : BOOLEAN,
     error : Errors, aborted : BOOLEAN, open : BOOLEAN, held : BOOLEAN]

NoRead ==
    [call |-> "IDLE", at |-> "IDLE", technical |-> FALSE, error |-> "NONE",
     aborted |-> FALSE, open |-> FALSE, held |-> FALSE]

ReadsInit ==
    /\ circuit = [state |-> "CLOSED", failures |-> 0, probe |-> FALSE, cooled |-> FALSE]
    /\ client = [validated |-> FALSE, rejected |-> FALSE, pool |-> FALSE]
    /\ read = [r \in Reads |-> NoRead]

(* activeQueries: the reads the executor is awaiting.                       *)
Active == {r \in Reads : read[r].call = "AWAITED"}

Holding == {r \in Reads : read[r].held}

-----------------------------------------------------------------------------
(* The circuit breaker.                                                     *)

BeforeRequest(c) ==
    IF c.state = "CLOSED" THEN c ELSE [c EXCEPT !.state = "HALF_OPEN", !.probe = TRUE]

\* Mutant: the probe of a half-open circuit is not noted.
AdmitsAll(c) == c.state = "CLOSED" \/ c.cooled

Admits(c) ==
    \/ c.state = "CLOSED"
    \/ c.state = "OPEN" /\ c.cooled /\ ~c.probe
    \/ c.state = "HALF_OPEN" /\ ~c.probe

Least(a, b) == IF a < b THEN a ELSE b

RecordSuccess(c) == [c EXCEPT !.state = "CLOSED", !.failures = 0, !.probe = FALSE]

(* The count only matters up to the threshold, where it stops here.         *)
RecordFailure(c) ==
    LET failures == Least(c.failures + 1, FailureThreshold)
    IN  IF c.state = "HALF_OPEN" \/ failures = FailureThreshold
        THEN [state |-> "OPEN", failures |-> failures, probe |-> FALSE, cooled |-> FALSE]
        ELSE [c EXCEPT !.failures = failures, !.probe = FALSE]

RecordIgnored(c) ==
    IF c.state = "HALF_OPEN" THEN RecordSuccess(c) ELSE [c EXCEPT !.probe = FALSE]

(* resetMs have passed since the circuit was opened.  While it is open no   *)
(* read is admitted, so those still awaited were admitted before.           *)
Cool ==
    /\ circuit.state = "OPEN" /\ ~circuit.cooled
    /\ ResetOutlasts => Active = {}
    /\ circuit' = [circuit EXCEPT !.cooled = TRUE]
    /\ UNCHANGED <<client, read>>

-----------------------------------------------------------------------------
(* The executor.                                                            *)

\* Mutant: a client whose account was refused connects again.
Reconnects == TRUE

Connects == ~client.rejected

(* run, up to the first await of the client: the pool is made on first use. *)
Request(r, technical) ==
    /\ read[r] = NoRead
    /\ Cardinality(Active) < MaxConnections
    /\ Admits(circuit)
    /\ circuit' = BeforeRequest(circuit)
    /\ client' = [client EXCEPT !.pool = @ \/ Connects]
    /\ read' = [read EXCEPT ![r] =
          [NoRead EXCEPT !.call = "AWAITED", !.technical = technical,
                         !.at = IF Connects THEN "ACQUIRE" ELSE "DONE",
                         !.error = IF Connects THEN "NONE" ELSE "MISMATCH"]]

(* The client answered first.                                               *)
Settle(r) ==
    /\ read[r].call = "AWAITED" /\ read[r].at = "DONE"
    /\ circuit' = CASE read[r].error = "NONE" -> RecordSuccess(circuit)
                    [] read[r].error = "MISMATCH" -> RecordIgnored(circuit)
                    [] OTHER -> RecordFailure(circuit)
    /\ read' = [read EXCEPT ![r].call = IF read[r].error = "NONE" THEN "ROWS" ELSE "FAILED"]
    /\ UNCHANGED client

(* The timer fired first: the caller has MASTER_TIMEOUT, the client a       *)
(* signal.                                                                  *)
TimeOut(r) ==
    /\ read[r].call = "AWAITED"
    /\ circuit' = RecordFailure(circuit)
    /\ read' = [read EXCEPT ![r] = [@ EXCEPT !.call = "FAILED", !.aborted = TRUE]]
    /\ UNCHANGED client

Forget(r) ==
    /\ read[r].call \in {"ROWS", "FAILED"} /\ read[r].at = "DONE"
    /\ read' = [read EXCEPT ![r] = NoRead]
    /\ UNCHANGED <<circuit, client>>

-----------------------------------------------------------------------------
(* The client.                                                              *)

SafeError(r) == IF read[r].aborted THEN "TIMEOUT" ELSE "UNAVAILABLE"

\* Failure ??= error.
FirstError(r, error) == IF read[r].error = "NONE" THEN error ELSE read[r].error

At(r, step) == read[r].at = step

Advance(r, fields) == read' = [read EXCEPT ![r] = fields]

(* The pool has at most MaxConnections; the acquisition knows no signal.    *)
Acquire(r) ==
    /\ At(r, "ACQUIRE")
    /\ \/ /\ client.pool /\ Cardinality(Holding) < MaxConnections
          /\ Advance(r, [read[r] EXCEPT !.at = "BEGIN", !.held = TRUE])
       \/ Advance(r, [read[r] EXCEPT !.at = "DONE", !.error = SafeError(r)])
    /\ UNCHANGED <<circuit, client>>

\* Mutant: the account is taken on trust.
NeverVerified(r) == FALSE

MustVerify(r) == ~client.validated /\ ~read[r].technical

\* Mutant: a transaction that does not begin leaves its connection behind.
LeaveConnection == "DONE"

AfterNoTransaction == "RELEASE"

Begin(r) ==
    /\ At(r, "BEGIN")
    /\ \/ Advance(r, [read[r] EXCEPT !.at = IF MustVerify(r) THEN "VERIFY" ELSE "QUERY",
                                     !.open = TRUE])
       \/ Advance(r, [read[r] EXCEPT !.at = AfterNoTransaction, !.error = SafeError(r)])
    /\ UNCHANGED <<circuit, client>>

Fail(r, error) == Advance(r, [read[r] EXCEPT !.at = "ROLLBACK", !.error = error])

(* verifyCurrentUser: the server names the account, or another one.         *)
Verify(r) ==
    /\ At(r, "VERIFY")
    /\ \/ /\ Advance(r, [read[r] EXCEPT !.at = "QUERY"])
          /\ client' = [client EXCEPT !.validated = TRUE]
       \/ \E error \in {"MISMATCH", SafeError(r)} : Fail(r, error) /\ UNCHANGED client
    /\ UNCHANGED circuit

(* The query itself; that of the connection gate names the account too.     *)
Query(r) ==
    /\ At(r, "QUERY")
    /\ \/ /\ Advance(r, [read[r] EXCEPT !.at = "ROLLBACK"])
          /\ client' = [client EXCEPT !.validated = @ \/ read[r].technical]
       \/ read[r].technical /\ Fail(r, "MISMATCH") /\ UNCHANGED client
       \/ Fail(r, SafeError(r)) /\ UNCHANGED client
    /\ UNCHANGED circuit

Rollback(r) ==
    /\ At(r, "ROLLBACK")
    /\ \E error \in {read[r].error, FirstError(r, SafeError(r))} :
          Advance(r, [read[r] EXCEPT !.at = "RELEASE", !.open = FALSE, !.error = error])
    /\ UNCHANGED <<circuit, client>>

(* The connection goes back; an account that is not the expected one closes *)
(* the pool for good.                                                       *)
Release(r) ==
    /\ At(r, "RELEASE")
    /\ \E error \in {read[r].error, FirstError(r, SafeError(r))} :
          /\ Advance(r, [read[r] EXCEPT !.at = "DONE", !.held = FALSE, !.error = error])
          /\ client' = IF error = "MISMATCH"
                       THEN [client EXCEPT !.rejected = TRUE, !.pool = FALSE]
                       ELSE client
    /\ UNCHANGED circuit

ClientStep(r) ==
    Acquire(r) \/ Begin(r) \/ Verify(r) \/ Query(r) \/ Rollback(r) \/ Release(r)

ReadsNext ==
    \/ Cool
    \/ \E r \in Reads :
          \/ \E technical \in BOOLEAN : Request(r, technical)
          \/ Settle(r) \/ TimeOut(r) \/ Forget(r) \/ ClientStep(r)

ReadsSpec == ReadsInit /\ [][ReadsNext]_readsVars

-----------------------------------------------------------------------------

ReadsTypeOK ==
    /\ circuit \in Circuits
    /\ client \in [validated : BOOLEAN, rejected : BOOLEAN, pool : BOOLEAN]
    /\ read \in [Reads -> ReadStates]

(* Rows reach a caller only from an account that was verified, although the *)
(* first reads are under way together; and once another account was found,  *)
(* no read opens a pool again.                                              *)
IdentityHolds ==
    /\ \A r \in Reads : read[r].call = "ROWS" => client.validated
    /\ client.rejected => ~client.pool

(* A client that is done has left nothing behind, whatever failed and       *)
(* whether or not somebody still waited for it.                             *)
NothingLeaks ==
    \A r \in Reads : read[r].at \in {"IDLE", "DONE"} => ~read[r].open /\ ~read[r].held

(* A circuit that is half open lets one read through, and it closes or      *)
(* opens by that read's answer and no other's.                              *)
OneProbe ==
    ResetOutlasts =>
        /\ circuit.probe <=> circuit.state = "HALF_OPEN"
        /\ circuit.probe => \E r \in Reads : Active = {r}

ReadsHold == ReadsTypeOK /\ IdentityHolds /\ NothingLeaks /\ OneProbe
=============================================================================
