---------------------------- MODULE ProtectedEnv -----------------------------
(***************************************************************************)
(* The protected environment files of production and the commands that     *)
(* write them: provision-ai-runtime.py, which keeps the credential of the  *)
(* AI provider in the application's file, and provision-stack-env.py,      *)
(* which renders the stack's.  A command holds a lock, goes step by step,  *)
(* may fail at a write and may be killed anywhere: the next one starts     *)
(* from what is on disk.  The file is one of a few whole contents, since   *)
(* every write is a temporary file renamed over the old one.               *)
(***************************************************************************)
EXTENDS Naturals, Sequences

CONSTANTS Operators, \* shells a command may run in
          Contents,  \* what the file may hold; 0 is a file without a credential
          Journaled, \* TRUE: the application's file, FALSE: the stack's
          MaxSaved   \* bound: backups taken

VARIABLES
    disk,  \* the file, its backups, and the two pointers to a backup
    shell, \* the command each operator runs
    kept   \* history: the content in force, the one before it, and whether the
           \* pointer has caught up with them

envVars == <<disk, shell, kept>>

Steps ==
    {"LOCKED", "RECOVERED", "READ", "BACKUP", "PENDING", "WRITE", "COMMIT", "ABORT",
     "ABORTED", "RESTORE", "USED"}

NoShell == [run |-> "NONE", at |-> "NONE", was |-> 0, next |-> 0]

EnvInit ==
    /\ disk = [env |-> 0, saved |-> <<>>, pending |-> 0, last |-> 0]
    /\ shell = [o \in Operators |-> NoShell]
    /\ kept = [content |-> 0, before |-> 0, pointed |-> TRUE]

Writers == {o \in Operators : shell[o].at \in Steps}

(* Verification holds the lock shared from its read to its end.             *)
Readers == {o \in Operators : shell[o].at = "VERIFIED"}

At(o, run, at) == shell[o].run \in run /\ shell[o].at = at

Goes(o, at) == shell' = [shell EXCEPT ![o].at = at]

Ends(o) == shell' = [shell EXCEPT ![o] = NoShell]

Provisions == {"PROVISION", "ROTATE"}

-----------------------------------------------------------------------------

(* LOCK_EX | LOCK_NB: a command that finds the lock held fails at once.  Only *)
(* the application's file has a rotation.                                   *)
Lock(o, run) ==
    /\ shell[o] = NoShell
    /\ run = "ROTATE" => Journaled
    /\ Writers = {} /\ Readers = {}
    /\ shell' = [shell EXCEPT ![o] = [NoShell EXCEPT !.run = run, !.at = "LOCKED"]]
    /\ UNCHANGED <<disk, kept>>

AfterRecovery(run) == IF run = "ROLLBACK" THEN "RESTORE" ELSE "READ"

(* recover_pending: a transaction a killed command left is undone first, and *)
(* that is all a rollback then does.                                        *)
Recover(o) ==
    \/ /\ At(o, Provisions \union {"ROLLBACK"}, "LOCKED")
       /\ IF disk.pending = 0
          THEN disk' = disk /\ Goes(o, AfterRecovery(shell[o].run))
          ELSE disk' = [disk EXCEPT !.env = disk.saved[disk.pending]] /\ Goes(o, "RECOVERED")
       /\ UNCHANGED kept
    \/ /\ At(o, Provisions \union {"ROLLBACK"}, "RECOVERED")
       /\ disk' = [disk EXCEPT !.pending = 0]
       /\ IF shell[o].run = "ROLLBACK" THEN Ends(o) ELSE Goes(o, "READ")
       /\ UNCHANGED kept

(* A provision asks for a first credential, a rotation for another one; the *)
(* stack's file is rendered anew from the other files.                      *)
Wanted(run, c) ==
    IF ~Journaled THEN c # disk.env
    ELSE c # 0 /\ (disk.env = 0 <=> run = "PROVISION")

Read(o) ==
    /\ At(o, Provisions, "READ")
    /\ \/ \E c \in Contents :
            /\ Wanted(shell[o].run, c)
            /\ shell' = [shell EXCEPT ![o] = [@ EXCEPT !.at = "BACKUP", !.was = disk.env,
                                                        !.next = c]]
       \/ Ends(o)
    /\ UNCHANGED <<disk, kept>>

\* Mutant: the file is replaced before its backup is pointed to.
WriteFirst == "WRITE"

AfterBackup == IF Journaled THEN "PENDING" ELSE "WRITE"

(* create_backup copies the file as it is now.                              *)
Backup(o) ==
    /\ At(o, Provisions, "BACKUP")
    /\ Len(disk.saved) < MaxSaved
    /\ disk' = [disk EXCEPT !.saved = Append(@, disk.env)]
    /\ Goes(o, AfterBackup)
    /\ UNCHANGED kept

Point(o) ==
    /\ At(o, Provisions, "PENDING")
    /\ disk' = [disk EXCEPT !.pending = Len(disk.saved)]
    /\ Goes(o, "WRITE")
    /\ UNCHANGED kept

(* The stack's content is in force from here, its pointer comes next.       *)
Write(o) ==
    /\ At(o, Provisions, "WRITE")
    /\ disk' = [disk EXCEPT !.env = shell[o].next]
    /\ Goes(o, "COMMIT")
    /\ kept' = IF Journaled THEN kept
               ELSE [content |-> shell[o].next, before |-> disk.env, pointed |-> FALSE]

(* The rename of the pointer is what makes a credential stand.              *)
Commit(o) ==
    /\ At(o, Provisions, "COMMIT")
    /\ disk' = [disk EXCEPT !.last = Len(disk.saved), !.pending = 0]
    /\ kept' = IF Journaled
               THEN [content |-> disk.env, before |-> shell[o].was, pointed |-> TRUE]
               ELSE [kept EXCEPT !.pointed = TRUE]
    /\ Ends(o)

(* The file cannot be written, is not what was written, or the pointer (or, *)
(* after it, its directory) cannot be: the stack's command just fails.      *)
Fail(o) ==
    /\ shell[o].run \in Provisions /\ shell[o].at \in {"WRITE", "COMMIT"}
    /\ \/ ~Journaled /\ Ends(o) /\ UNCHANGED <<disk, kept>>
       \/ Journaled /\ Goes(o, "ABORT") /\ UNCHANGED <<disk, kept>>
       \/ /\ Journaled /\ shell[o].at = "COMMIT"
          /\ disk' = [disk EXCEPT !.last = Len(disk.saved), !.pending = 0]
          /\ kept' = [content |-> disk.env, before |-> shell[o].was, pointed |-> TRUE]
          /\ Goes(o, "ABORT")

\* Mutant: the transaction is closed before the file is put back.
CloseFirst(o) == disk' = [disk EXCEPT !.pending = 0] /\ Goes(o, "ABORTED")

PutBack(o) == disk' = [disk EXCEPT !.env = shell[o].was] /\ Goes(o, "ABORTED")

(* except: the original is put back, then the transaction is closed.  If    *)
(* putting it back fails too, the transaction stays for the next command.   *)
Abort(o) ==
    \/ /\ At(o, Provisions, "ABORT")
       /\ PutBack(o)
       /\ kept' = [kept EXCEPT !.content = shell[o].was]
    \/ At(o, Provisions, "ABORT") /\ Ends(o) /\ UNCHANGED <<disk, kept>>
    \/ /\ At(o, Provisions, "ABORTED")
       /\ disk' = [disk EXCEPT !.pending = 0]
       /\ Ends(o) /\ UNCHANGED kept

(* rollback: the last backup is put back, then its pointer is used up.      *)
Restore(o) ==
    \/ /\ At(o, {"ROLLBACK"}, "RESTORE")
       /\ IF disk.last = 0 THEN Ends(o) /\ UNCHANGED <<disk, kept>>
          ELSE /\ disk' = [disk EXCEPT !.env = disk.saved[disk.last]]
               /\ kept' = [kept EXCEPT !.content = disk.saved[disk.last]]
               /\ Goes(o, "USED")
    \/ /\ At(o, {"ROLLBACK"}, "USED")
       /\ disk' = [disk EXCEPT !.last = 0]
       /\ Ends(o) /\ UNCHANGED kept

(* verify looks for a transaction, then takes the lock shared and reads.    *)
Verify(o) ==
    \/ /\ Journaled /\ shell[o] = NoShell /\ disk.pending = 0
       /\ shell' = [shell EXCEPT ![o] = [NoShell EXCEPT !.run = "VERIFY", !.at = "LOOKED"]]
    \/ /\ At(o, {"VERIFY"}, "LOOKED")
       /\ IF Writers = {} /\ disk.env # 0
          THEN shell' = [shell EXCEPT ![o] = [@ EXCEPT !.at = "VERIFIED", !.was = disk.env]]
          ELSE Ends(o)
    \/ At(o, {"VERIFY"}, "VERIFIED") /\ Ends(o)

(* The command is killed, or the host goes down with it: the lock is free.  *)
Kill(o) ==
    /\ shell[o] # NoShell
    /\ Ends(o)
    /\ UNCHANGED <<disk, kept>>

EnvNext ==
    \E o \in Operators :
        \/ \E run \in Provisions \union {"ROLLBACK"} : Lock(o, run)
        \/ Recover(o) \/ Read(o) \/ Backup(o) \/ Point(o) \/ Write(o) \/ Commit(o)
        \/ Fail(o) \/ Abort(o) \/ Restore(o) \/ Kill(o)
        \/ Verify(o) /\ UNCHANGED <<disk, kept>>

-----------------------------------------------------------------------------

(* Wherever a command is killed, the file holds the content in force, or the *)
(* journal names the backup that does and the next command puts it back.    *)
NothingIsLost ==
    /\ disk.env = kept.content \/ disk.pending # 0
    /\ disk.pending # 0 => disk.saved[disk.pending] = kept.content

(* What a rollback would put back is what was in force before the last      *)
(* change, once the pointer has been written.                               *)
RollbackGivesBack ==
    disk.last # 0 /\ kept.pointed => disk.saved[disk.last] = kept.before

(* The file does not change under a verification that approved it.          *)
VerifiedStands == \A o \in Readers : disk.env = shell[o].was

EnvHolds == NothingIsLost /\ RollbackGivesBack /\ VerifiedStands
=============================================================================
