--------------------------- MODULE PaymentsProofs ----------------------------
(* What the run payments follows beside the orders, for every value of its   *)
(* constants: the protected files, the pages, the releases, the start of the *)
(* API and the mail platform keep what SurroundingsHold says; and what       *)
(* BoldPaymentsProofs shows of the refunds holds here too.  The instance of  *)
(* that module comes last: none of the other proofs uses it.                 *)
EXTENDS MCPayments, FiniteSetTheorems, TLAPS

-----------------------------------------------------------------------------
(* The protected environment files.                                          *)

Kinds == {"app env", "stack env"}
Runs == {"NONE", "PROVISION", "ROTATE", "ROLLBACK", "VERIFY"}
Places ==
    {"NONE", "LOOKED", "VERIFIED", "LOCKED", "RECOVERED", "READ", "BACKUP", "PENDING", "WRITE",
     "COMMIT", "ABORT", "ABORTED", "RESTORE", "USED"}

DiskRow == [env : Contents, saved : Seq(Contents), pending : Nat, last : Nat]
KeptRow == [content : Contents, before : Contents, pointed : BOOLEAN]

DiskTypeOK ==
    /\ disk \in DiskRow /\ kept \in KeptRow
    /\ disk.pending <= Len(disk.saved) /\ disk.last <= Len(disk.saved)

FileTypeOK ==
    /\ DiskTypeOK
    /\ shell \in [Requests -> [run : Runs, at : Places, was : Contents, next : Contents]]

(* A command that writes does so alone, and beside no verification.          *)
OneWriter(f) ==
    \A o \in ProtectedFile(f)!Writers :
        /\ ProtectedFile(f)!Readers = {}
        /\ \A p \in ProtectedFile(f)!Writers : p = o

(* The newest backup is a copy of c.                                         *)
Copied(c) == Len(disk.saved) > 0 /\ disk.saved[Len(disk.saved)] = c

(* What is on disk at each step of a command that writes.                    *)
Written(f, at, was) ==
    LET Settled == disk.pending = 0 /\ disk.env = kept.content
        Open == disk.pending = Len(disk.saved) /\ Copied(was)
    IN  /\ at = "RECOVERED" => disk.env = kept.content
        /\ at \in {"READ", "RESTORE", "USED"} => Settled
        /\ at \in {"BACKUP", "PENDING", "WRITE"} => disk.env = was /\ was = kept.content
        /\ at \in {"BACKUP", "PENDING"} => disk.pending = 0
        /\ at \in {"PENDING", "WRITE"} => Copied(was)
        /\ at \in {"PENDING", "ABORT", "ABORTED"} => f = "app env"
        /\ at = "WRITE" => IF f = "app env" THEN Open ELSE disk.pending = 0
        /\ at = "COMMIT" =>
              IF f = "app env" THEN Open /\ was = kept.content
              ELSE disk.pending = 0 /\ disk.env = kept.content /\ Copied(kept.before)
        /\ at = "ABORT" => IF disk.pending = 0 THEN disk.env = kept.content ELSE was = kept.content
        /\ at = "ABORTED" => disk.env = kept.content

FileIInv(f) ==
    /\ FileTypeOK
    /\ OneWriter(f)
    /\ ProtectedFile(f)!EnvHolds
    /\ \A o \in Requests : Written(f, shell[o].at, shell[o].was)

LEMMA DiskFields ==
    ASSUME NEW d \in DiskRow
    PROVE  /\ d.env \in Contents /\ d.saved \in Seq(Contents) /\ Len(d.saved) \in Nat
           /\ d.pending \in Nat /\ d.last \in Nat
           /\ \A i \in 1..Len(d.saved) : d.saved[i] \in Contents
BY DEF DiskRow

LEMMA DiskChanges ==
    ASSUME NEW d \in DiskRow
    PROVE  /\ \A e \in Contents : LET w == [d EXCEPT !.env = e]
                                IN  /\ w \in DiskRow /\ w.env = e /\ w.saved = d.saved
                                    /\ w.pending = d.pending /\ w.last = d.last
           /\ \A s \in Seq(Contents) : LET w == [d EXCEPT !.saved = s]
                                    IN  /\ w \in DiskRow /\ w.env = d.env /\ w.saved = s
                                        /\ w.pending = d.pending /\ w.last = d.last
           /\ \A n \in Nat : LET w == [d EXCEPT !.pending = n]
                           IN  /\ w \in DiskRow /\ w.env = d.env /\ w.saved = d.saved
                               /\ w.pending = n /\ w.last = d.last
           /\ \A n \in Nat : LET w == [d EXCEPT !.last = n]
                           IN  /\ w \in DiskRow /\ w.env = d.env /\ w.saved = d.saved
                               /\ w.pending = d.pending /\ w.last = n
BY DEF DiskRow

LEMMA KeptChanges ==
    ASSUME NEW k \in KeptRow
    PROVE  /\ k.content \in Contents /\ k.before \in Contents /\ k.pointed \in BOOLEAN
           /\ \A e \in Contents : LET w == [k EXCEPT !.content = e]
                                IN  /\ w \in KeptRow /\ w.content = e /\ w.before = k.before
                                    /\ w.pointed = k.pointed
BY DEF KeptRow

LEMMA DiskTypesStay ==
    ASSUME DiskTypeOK, disk' \in DiskRow, kept' \in KeptRow, disk'.saved = disk.saved,
           disk'.pending \in {0, disk.pending, Len(disk.saved)},
           disk'.last \in {0, disk.last, Len(disk.saved)}
    PROVE  DiskTypeOK'
<1>1. Len(disk.saved) \in Nat /\ disk.pending <= Len(disk.saved) /\ disk.last <= Len(disk.saved)
  BY DiskFields DEF DiskTypeOK
<1>2. disk'.pending <= Len(disk'.saved) /\ disk'.last <= Len(disk'.saved)
  BY <1>1
<1>. QED
  BY <1>2 DEF DiskTypeOK

LEMMA FileInitially == ASSUME NEW f \in Kinds, ProtectedFile(f)!EnvInit PROVE FileIInv(f)
<1>1. /\ disk = [env |-> 0, saved |-> <<>>, pending |-> 0, last |-> 0]
      /\ shell = [o \in Requests |-> [run |-> "NONE", at |-> "NONE", was |-> 0, next |-> 0]]
      /\ kept = [content |-> 0, before |-> 0, pointed |-> TRUE]
  BY DEF ProtectedFile!EnvInit, ProtectedFile!NoShell
<1>2. FileTypeOK
  BY <1>1, FilesAssumption DEF FileTypeOK, DiskTypeOK, DiskRow, KeptRow, Runs, Places
<1>3. OneWriter(f) /\ ProtectedFile(f)!VerifiedStands
  BY <1>1 DEF OneWriter, ProtectedFile!Writers, ProtectedFile!Readers, ProtectedFile!Steps,
         ProtectedFile!VerifiedStands
<1>4. ProtectedFile(f)!NothingIsLost /\ ProtectedFile(f)!RollbackGivesBack
  BY <1>1 DEF ProtectedFile!NothingIsLost, ProtectedFile!RollbackGivesBack
<1>5. \A o \in Requests : Written(f, shell[o].at, shell[o].was)
  BY <1>1 DEF Written
<1>. QED
  BY <1>2, <1>3, <1>4, <1>5 DEF FileIInv, ProtectedFile!EnvHolds

Row == [run : Runs, at : Places, was : Contents, next : Contents]
Writing ==
    {"LOCKED", "RECOVERED", "READ", "BACKUP", "PENDING", "WRITE", "COMMIT", "ABORT", "ABORTED",
     "RESTORE", "USED"}

(* A step of the command that writes has to show only its own place and what *)
(* it leaves on disk.                                                        *)
LEMMA WriterMoves ==
    ASSUME NEW f \in Kinds, FileIInv(f), NEW o \in Requests, NEW row \in Row,
           shell[o].at \in Writing \/ (ProtectedFile(f)!Writers = {} /\ ProtectedFile(f)!Readers = {}),
           row.at \in Writing \union {"NONE"}, shell' = [shell EXCEPT ![o] = row],
           DiskTypeOK',
           ProtectedFile(f)!NothingIsLost', ProtectedFile(f)!RollbackGivesBack',
           Written(f, row.at, row.was)'
    PROVE  FileIInv(f)'
<1>1. shell' \in [Requests -> Row]
  BY DEF FileIInv, FileTypeOK, Row
<1>2. /\ shell'[o] = row
      /\ \A p \in Requests \ {o} : shell'[p] = shell[p] /\ shell'[p].at \notin Writing \union {"VERIFIED"}
  BY DEF FileIInv, FileTypeOK, OneWriter, Row, Writing, Places, ProtectedFile!Writers,
         ProtectedFile!Readers, ProtectedFile!Steps
<1>3. OneWriter(f)' /\ ProtectedFile(f)!VerifiedStands'
  BY <1>1, <1>2 DEF OneWriter, Row, Writing, ProtectedFile!Writers, ProtectedFile!Readers,
         ProtectedFile!Steps, ProtectedFile!VerifiedStands
<1>4. ASSUME NEW p \in Requests
      PROVE  Written(f, shell[p].at, shell[p].was)'
  <2>1. CASE p = o
    BY <1>2, <2>1 DEF Written, Copied
  <2>2. CASE p # o
    BY <1>2, <2>2 DEF Written, Writing
  <2>. QED
    BY <2>1, <2>2
<1>. QED
  BY <1>1, <1>3, <1>4 DEF FileIInv, FileTypeOK, Row, ProtectedFile!EnvHolds

(* Every change of a command's row.                                          *)
LEMMA RowChanges ==
    ASSUME NEW a \in Row
    PROVE  /\ \A x \in Places : [a EXCEPT !.at = x] \in Row /\ [a EXCEPT !.at = x].at = x
           /\ \A x \in Places : /\ [a EXCEPT !.at = x].was = a.was
                               /\ [a EXCEPT !.at = x].next = a.next
BY DEF Row

LEMMA NoRowIsARow ==
    ASSUME NEW f \in Kinds
    PROVE  /\ ProtectedFile(f)!NoShell \in Row
           /\ ProtectedFile(f)!NoShell.at = "NONE" /\ ProtectedFile(f)!NoShell.was = 0
           /\ ProtectedFile(f)!NoShell.next = 0
BY FilesAssumption DEF ProtectedFile!NoShell, Row, Runs, Places

LEMMA FilesRest ==
    ASSUME NEW f \in Kinds, FileIInv(f), UNCHANGED <<disk, kept>>
    PROVE  /\ DiskTypeOK'
           /\ ProtectedFile(f)!NothingIsLost' /\ ProtectedFile(f)!RollbackGivesBack'
BY DEF FileIInv, FileTypeOK, DiskTypeOK, ProtectedFile!EnvHolds, ProtectedFile!NothingIsLost,
       ProtectedFile!RollbackGivesBack

LEMMA LockStep ==
    ASSUME NEW f \in Kinds, FileIInv(f), NEW o \in Requests,
           NEW run \in {"PROVISION", "ROTATE", "ROLLBACK"}, ProtectedFile(f)!Lock(o, run)
    PROVE  FileIInv(f)'
<1>. DEFINE row == [ProtectedFile(f)!NoShell EXCEPT !.run = run, !.at = "LOCKED"]
<1>0. run \in Runs /\ "LOCKED" \in Places \intersect Writing
  BY DEF Runs, Places, Writing
<1>1. row \in Row /\ row.at = "LOCKED"
  <2>1. ASSUME NEW a \in Row
        PROVE  /\ [a EXCEPT !.run = run, !.at = "LOCKED"] \in Row
               /\ [a EXCEPT !.run = run, !.at = "LOCKED"].at = "LOCKED"
    BY <1>0 DEF Row
  <2> HIDE DEF row
  <2>2. ProtectedFile(f)!NoShell \in Row
    BY NoRowIsARow
  <2> USE DEF row
  <2>. QED BY <2>1, <2>2
<1>2. shell' = [shell EXCEPT ![o] = row] /\ UNCHANGED <<disk, kept>>
  BY DEF ProtectedFile!Lock
<1>3. ProtectedFile(f)!Writers = {} /\ ProtectedFile(f)!Readers = {}
  BY DEF ProtectedFile!Lock
<1>4. Written(f, row.at, row.was)'
  BY <1>1 DEF Written
<1>. HIDE DEF row
<1>. QED
  BY <1>0, <1>1, <1>2, <1>3, <1>4, FilesRest, WriterMoves

(* What is known of a command at work.                                       *)
Held(f, at, c) ==
    /\ DiskTypeOK
    /\ Written(f, at, c)
    /\ disk.env = kept.content \/ disk.pending # 0
    /\ disk.pending # 0 => disk.saved[disk.pending] = kept.content
    /\ disk.last # 0 /\ kept.pointed => disk.saved[disk.last] = kept.before

LEMMA Placed ==
    ASSUME NEW f \in Kinds, FileIInv(f), NEW o \in Requests
    PROVE  /\ shell[o] \in Row
           /\ \E c \in Contents : c = shell[o].was /\ Held(f, shell[o].at, c)
           /\ disk \in DiskRow /\ kept \in KeptRow /\ Len(disk.saved) \in Nat
           /\ disk.pending \in Nat /\ disk.last \in Nat
BY DiskFields DEF FileIInv, FileTypeOK, DiskTypeOK, Row, Held, ProtectedFile!EnvHolds,
                  ProtectedFile!NothingIsLost,
       ProtectedFile!RollbackGivesBack

LEMMA GoesOn ==
    ASSUME NEW f \in Kinds, FileIInv(f), NEW o \in Requests, shell[o].at \in Writing,
           NEW to \in Writing, ProtectedFile(f)!Goes(o, to),
           NEW c, c = shell[o].was, Held(f, to, c)'
    PROVE  FileIInv(f)'
<1>1. /\ shell[o] \in Row /\ to \in Places
      /\ shell' = [shell EXCEPT ![o] = [shell[o] EXCEPT !.at = to]]
  BY Placed DEF ProtectedFile!Goes, Writing, Places
<1>2. PICK row \in Row : row = [shell[o] EXCEPT !.at = to] /\ row.at = to /\ row.was = c
  BY <1>1, RowChanges
<1>. QED
  BY <1>1, <1>2, WriterMoves
     DEF Held, ProtectedFile!NothingIsLost, ProtectedFile!RollbackGivesBack

LEMMA EndsThere ==
    ASSUME NEW f \in Kinds, FileIInv(f), NEW o \in Requests, shell[o].at \in Writing,
           ProtectedFile(f)!Ends(o), Held(f, "NONE", 0)'
    PROVE  FileIInv(f)'
<1>1. PICK row \in Row : row = ProtectedFile(f)!NoShell /\ row.at = "NONE"
  BY NoRowIsARow
<1>2. Written(f, row.at, row.was)'
  BY <1>1 DEF Written
<1>. QED
  BY <1>1, <1>2, WriterMoves
     DEF Held, ProtectedFile!Ends, ProtectedFile!NothingIsLost, ProtectedFile!RollbackGivesBack

(* The steps on disk, from one place to the next.                            *)
LEMMA HeldAtRest ==
    ASSUME NEW f \in Kinds, NEW at, NEW c, Held(f, at, c), UNCHANGED <<disk, kept>>
    PROVE  /\ Held(f, at, c)' /\ Held(f, "NONE", 0)'
           /\ f = "app env" /\ at \in {"WRITE", "COMMIT"} => Held(f, "ABORT", c)'
           /\ at = "LOCKED" /\ disk.pending = 0 => Held(f, "READ", c)' /\ Held(f, "RESTORE", c)'
BY DEF Held, DiskTypeOK, Written, Copied

LEMMA RecoverStep ==
    ASSUME NEW f \in Kinds, FileIInv(f), NEW o \in Requests, ProtectedFile(f)!Recover(o)
    PROVE  FileIInv(f)'
<1>1. PICK c \in Contents : c = shell[o].was /\ Held(f, shell[o].at, c)
  BY Placed
<1>0. /\ disk \in DiskRow /\ kept \in KeptRow /\ disk.saved \in Seq(Contents)
      /\ Len(disk.saved) \in Nat /\ disk.pending \in Nat /\ disk.last \in Nat
      /\ disk.env \in Contents
  BY Placed, DiskFields
<1>2. shell[o].at \in Writing
  BY DEF ProtectedFile!Recover, ProtectedFile!At, Writing
<1>4. CASE shell[o].at = "LOCKED" /\ disk.pending = 0
  <2>1. PICK to \in {"READ", "RESTORE"} :
            ProtectedFile(f)!Goes(o, to) /\ UNCHANGED <<disk, kept>>
    BY <1>4 DEF ProtectedFile!Recover, ProtectedFile!At, ProtectedFile!AfterRecovery
  <2>2. Held(f, to, c)'
    BY <1>1, <1>4, <2>1, HeldAtRest
  <2>. QED
    BY <1>1, <1>2, <2>1, <2>2, GoesOn DEF Writing
<1>5. CASE shell[o].at = "LOCKED" /\ disk.pending # 0
  <2>1. /\ ProtectedFile(f)!Goes(o, "RECOVERED") /\ UNCHANGED kept
        /\ disk' = [disk EXCEPT !.env = disk.saved[disk.pending]]
    BY <1>5 DEF ProtectedFile!Recover, ProtectedFile!At
  <2>2. Held(f, "RECOVERED", c)'
    <3>1. disk.saved[disk.pending] \in Contents
      BY <1>0, <1>1, <1>5, DiskFields DEF Held, DiskTypeOK
    <3>2. /\ disk' \in DiskRow /\ disk'.env = disk.saved[disk.pending] /\ disk'.saved = disk.saved
          /\ disk'.pending = disk.pending /\ disk'.last = disk.last
      BY <1>0, <2>1, <3>1, DiskChanges
    <3>. QED
      BY <1>0, <1>1, <1>5, <2>1, <3>2 DEF Held, DiskTypeOK, Written, Copied
  <2>. QED
    BY <1>1, <1>2, <2>1, <2>2, GoesOn DEF Writing
<1>6. CASE shell[o].at = "RECOVERED"
  <2>1. /\ ProtectedFile(f)!Goes(o, "READ") \/ ProtectedFile(f)!Ends(o)
        /\ disk' = [disk EXCEPT !.pending = 0] /\ UNCHANGED kept
    BY <1>6 DEF ProtectedFile!Recover, ProtectedFile!At
  <2>2. Held(f, "READ", c)' /\ Held(f, "NONE", 0)'
    <3>1. /\ disk' \in DiskRow /\ disk'.env = disk.env /\ disk'.saved = disk.saved
          /\ disk'.pending = 0 /\ disk'.last = disk.last
      BY <1>0, <2>1, DiskChanges
    <3>. QED
      BY <1>0, <1>1, <1>6, <2>1, <3>1 DEF Held, DiskTypeOK, Written, Copied
  <2>. QED
    BY <1>1, <1>2, <2>1, <2>2, GoesOn, EndsThere DEF Writing
<1>. QED
  BY <1>4, <1>5, <1>6 DEF ProtectedFile!Recover, ProtectedFile!At

LEMMA ReadStep ==
    ASSUME NEW f \in Kinds, FileIInv(f), NEW o \in Requests, ProtectedFile(f)!Read(o)
    PROVE  FileIInv(f)'
<1>1. PICK c \in Contents : c = shell[o].was /\ Held(f, shell[o].at, c)
  BY Placed
<1>0. /\ disk \in DiskRow /\ kept \in KeptRow /\ disk.saved \in Seq(Contents)
      /\ Len(disk.saved) \in Nat /\ disk.pending \in Nat /\ disk.last \in Nat
      /\ disk.env \in Contents
  BY Placed, DiskFields
<1>2. shell[o].at = "READ" /\ shell[o].at \in Writing /\ UNCHANGED <<disk, kept>>
  BY DEF ProtectedFile!Read, ProtectedFile!At, Writing
<1>3. CASE ProtectedFile(f)!Ends(o)
  BY <1>1, <1>2, <1>3, HeldAtRest, EndsThere
<1>4. ASSUME NEW d \in Contents,
             shell' = [shell EXCEPT ![o] = [@ EXCEPT !.at = "BACKUP", !.was = disk.env, !.next = d]]
      PROVE  FileIInv(f)'
  <2>1. disk.env \in Contents /\ "BACKUP" \in Places
    BY <1>0 DEF Places
  <2>2. ASSUME NEW a \in Row, NEW e \in Contents
        PROVE  LET row == [a EXCEPT !.at = "BACKUP", !.was = e, !.next = d]
               IN  row \in Row /\ row.at = "BACKUP" /\ row.was = e
    BY <1>4, <2>1 DEF Row
  <2>3. PICK e \in Contents : e = disk.env
    BY <2>1
  <2>4. PICK row \in Row :
             /\ row = [shell[o] EXCEPT !.at = "BACKUP", !.was = e, !.next = d]
             /\ row.at = "BACKUP" /\ row.was = e
    <3>1. shell[o] \in Row
      BY Placed
    <3>2. LET row == [shell[o] EXCEPT !.at = "BACKUP", !.was = e, !.next = d]
          IN  row \in Row /\ row.at = "BACKUP" /\ row.was = e
      BY <2>2, <3>1
    <3>. QED
      BY <3>2
  <2>5. shell' = [shell EXCEPT ![o] = row]
    BY <1>4, <2>3, <2>4
  <2>6. Held(f, row.at, row.was)'
    BY <1>0, <1>1, <1>2, <2>3, <2>4 DEF Held, DiskTypeOK, Written, Copied
  <2>. QED
    BY <1>2, <2>4, <2>5, <2>6, WriterMoves
       DEF Held, Writing, ProtectedFile!NothingIsLost, ProtectedFile!RollbackGivesBack
<1>. QED
  BY <1>3, <1>4 DEF ProtectedFile!Read

LEMMA BackupStep ==
    ASSUME NEW f \in Kinds, FileIInv(f), NEW o \in Requests, ProtectedFile(f)!Backup(o)
    PROVE  FileIInv(f)'
<1>1. PICK c \in Contents : c = shell[o].was /\ Held(f, shell[o].at, c)
  BY Placed
<1>0. /\ disk \in DiskRow /\ kept \in KeptRow /\ disk.saved \in Seq(Contents)
      /\ Len(disk.saved) \in Nat /\ disk.pending \in Nat /\ disk.last \in Nat
      /\ disk.env \in Contents
  BY Placed, DiskFields
<1>2. /\ shell[o].at = "BACKUP" /\ shell[o].at \in Writing /\ UNCHANGED kept
      /\ disk' = [disk EXCEPT !.saved = Append(@, disk.env)]
      /\ ProtectedFile(f)!Goes(o, IF f = "app env" THEN "PENDING" ELSE "WRITE")
  BY DEF ProtectedFile!Backup, ProtectedFile!At, ProtectedFile!AfterBackup, Writing
<1>3. Held(f, IF f = "app env" THEN "PENDING" ELSE "WRITE", c)'
  <2>1. disk.env = c /\ c = kept.content /\ disk.pending = 0
    BY <1>1, <1>2 DEF Held, Written
  <2>2. /\ disk' \in DiskRow /\ disk'.env = c /\ disk'.saved = Append(disk.saved, c)
        /\ disk'.pending = 0 /\ disk'.last = disk.last
    <3>1. Append(disk.saved, c) \in Seq(Contents)
      BY <1>0, <2>1
    <3>2. disk' = [disk EXCEPT !.saved = Append(disk.saved, c)]
      BY <1>2, <2>1
    <3>. QED
      BY <1>0, <2>1, <3>1, <3>2, DiskChanges
  <2>3. /\ Len(disk'.saved) = Len(disk.saved) + 1 /\ Copied(c)'
        /\ \A i \in 1..Len(disk.saved) : disk'.saved[i] = disk.saved[i]
    BY <1>0, <2>1, <2>2 DEF Copied
  <2>6. kept' = kept
    BY <1>2
  <2>4. disk'.last # 0 /\ kept'.pointed => disk'.saved[disk'.last] = kept'.before
    BY <1>0, <1>1, <2>2, <2>3, <2>6 DEF Held, DiskTypeOK
  <2>5. DiskTypeOK'
    BY <1>0, <1>1, <2>2, <2>3, <2>6 DEF Held, DiskTypeOK
  <2>. QED
    BY <2>6, <2>1, <2>2, <2>3, <2>4, <2>5 DEF Held, Written
<1>. QED
  BY <1>1, <1>2, <1>3, GoesOn DEF Writing

LEMMA PointStep ==
    ASSUME NEW f \in Kinds, FileIInv(f), NEW o \in Requests, ProtectedFile(f)!Point(o)
    PROVE  FileIInv(f)'
<1>1. PICK c \in Contents : c = shell[o].was /\ Held(f, shell[o].at, c)
  BY Placed
<1>0. /\ disk \in DiskRow /\ kept \in KeptRow /\ disk.saved \in Seq(Contents)
      /\ Len(disk.saved) \in Nat /\ disk.pending \in Nat /\ disk.last \in Nat
      /\ disk.env \in Contents
  BY Placed, DiskFields
<1>2. /\ shell[o].at = "PENDING" /\ shell[o].at \in Writing /\ UNCHANGED kept
      /\ disk' = [disk EXCEPT !.pending = Len(disk.saved)]
      /\ ProtectedFile(f)!Goes(o, "WRITE")
  BY DEF ProtectedFile!Point, ProtectedFile!At, Writing
<1>3. Held(f, "WRITE", c)'
  <2>1. f = "app env" /\ kept' = kept /\ shell[o].at = "PENDING"
    BY <1>1, <1>2 DEF Held, Written
  <2>2. /\ disk' \in DiskRow /\ disk'.env = disk.env /\ disk'.saved = disk.saved
        /\ disk'.pending = Len(disk.saved) /\ disk'.last = disk.last
    BY <1>0, <1>2, DiskChanges
  <2>. QED
    <3>1. DiskTypeOK'
      BY <1>0, <1>1, <2>1, <2>2, DiskTypesStay DEF Held
    <3>2. disk.env = c /\ c = kept.content /\ Copied(c)
      BY <1>1, <2>1 DEF Held, Written
    <3>3. Written(f, "WRITE", c)'
      BY <2>1, <2>2, <3>2 DEF Written, Copied
    <3>. QED
      BY <1>1, <2>1, <2>2, <3>1, <3>2, <3>3 DEF Held, Copied
<1>. QED
  BY <1>1, <1>2, <1>3, GoesOn DEF Writing

LEMMA WriteStep ==
    ASSUME NEW f \in Kinds, FileIInv(f), NEW o \in Requests, ProtectedFile(f)!Write(o)
    PROVE  FileIInv(f)'
<1>1. PICK c \in Contents : c = shell[o].was /\ Held(f, shell[o].at, c)
  BY Placed
<1>0. /\ disk \in DiskRow /\ kept \in KeptRow /\ disk.saved \in Seq(Contents)
      /\ Len(disk.saved) \in Nat /\ disk.pending \in Nat /\ disk.last \in Nat
      /\ disk.env \in Contents
  BY Placed, DiskFields
<1>2. PICK d \in Contents : d = shell[o].next
  BY Placed DEF Row
<1>3. /\ shell[o].at = "WRITE" /\ shell[o].at \in Writing
      /\ disk' = [disk EXCEPT !.env = d]
      /\ ProtectedFile(f)!Goes(o, "COMMIT")
      /\ kept' = IF f = "app env" THEN kept
                 ELSE [content |-> d, before |-> disk.env, pointed |-> FALSE]
  BY <1>2 DEF ProtectedFile!Write, ProtectedFile!At, Writing
<1>4. Held(f, "COMMIT", c)'
  <2>2. /\ disk' \in DiskRow /\ disk'.env = d /\ disk'.saved = disk.saved
        /\ disk'.pending = disk.pending /\ disk'.last = disk.last
    BY <1>0, <1>2, <1>3, DiskChanges
  <2>1. shell[o].at = "WRITE"
    BY <1>3
  <2>3. CASE f = "app env"
    <3>1. kept' = kept
      BY <1>3, <2>3
    <3>. QED
      <4>1. DiskTypeOK'
        BY <1>0, <1>1, <2>2, <3>1, DiskTypesStay DEF Held
      <4>. QED
        <5>1. /\ disk.pending = Len(disk.saved) /\ Copied(c) /\ c = kept.content
              /\ disk.pending # 0 /\ disk.saved[disk.pending] = kept.content
          <6>1. disk.pending = Len(disk.saved) /\ Copied(c) /\ c = kept.content
            BY <1>1, <2>1, <2>3 DEF Held, Written
          <6>2. disk.pending # 0
            BY <1>0, <6>1 DEF Copied
          <6>. QED
            BY <1>1, <6>1, <6>2 DEF Held
        <5>2. Written(f, "COMMIT", c)'
          BY <2>2, <2>3, <3>1, <5>1 DEF Written, Copied
        <5>. QED
          BY <1>1, <2>2, <3>1, <4>1, <5>1, <5>2 DEF Held
  <2>4. CASE f # "app env"
    <3>1. /\ kept' \in KeptRow /\ kept'.content = d /\ kept'.before = disk.env
          /\ kept'.pointed = FALSE
      BY <1>0, <1>2, <1>3, <2>4 DEF KeptRow
    <3>. QED
      BY <1>0, <1>1, <2>1, <2>2, <2>4, <3>1 DEF Held, DiskTypeOK, Written, Copied
  <2>. QED
    BY <2>3, <2>4
<1>. QED
  BY <1>1, <1>3, <1>4, GoesOn DEF Writing

(* The pointer is written: what is on disk is in force.                      *)
LEMMA Points ==
    ASSUME disk \in DiskRow,
           disk' = [disk EXCEPT !.last = Len(disk.saved), !.pending = 0]
    PROVE  /\ disk' \in DiskRow /\ disk'.env = disk.env /\ disk'.saved = disk.saved
           /\ disk'.pending = 0 /\ disk'.last = Len(disk.saved)
<1>1. ASSUME NEW d \in DiskRow, NEW n \in Nat
      PROVE  LET w == [d EXCEPT !.last = n, !.pending = 0]
             IN  w \in DiskRow /\ w.env = d.env /\ w.saved = d.saved /\ w.pending = 0 /\ w.last = n
  BY DEF DiskRow
<1>2. Len(disk.saved) \in Nat
  BY DiskFields
<1>. QED
  BY <1>1, <1>2

LEMMA CommitStands ==
    ASSUME NEW f \in Kinds, NEW c \in Contents, Held(f, "COMMIT", c), disk' \in DiskRow,
           disk'.env = disk.env, disk'.saved = disk.saved, disk'.pending = 0,
           disk'.last = Len(disk.saved), kept' \in KeptRow,
           IF f = "app env" THEN kept'.content = disk.env /\ kept'.before = c
           ELSE kept'.content = kept.content /\ kept'.before = kept.before
    PROVE  Held(f, "NONE", 0)' /\ (f = "app env" => Held(f, "ABORT", c)')
<1>1. Len(disk.saved) \in Nat /\ Len(disk.saved) > 0
  BY DiskFields DEF Held, DiskTypeOK, Written, Copied, Kinds
<1>2. DiskTypeOK'
  BY DiskTypesStay DEF Held
<1>3. CASE f = "app env"
  <2>1. disk.saved[Len(disk.saved)] = c
    BY <1>3 DEF Held, Written, Copied
  <2>. QED
    BY <1>2, <1>3, <2>1 DEF Held, Written
<1>4. CASE f # "app env"
  <2>1. disk.saved[Len(disk.saved)] = kept.before /\ disk.env = kept.content
    BY <1>4 DEF Held, Written, Copied
  <2>. QED
    BY <1>2, <1>4, <2>1 DEF Held, Written
<1>. QED
  BY <1>3, <1>4

LEMMA CommitStep ==
    ASSUME NEW f \in Kinds, FileIInv(f), NEW o \in Requests, ProtectedFile(f)!Commit(o)
    PROVE  FileIInv(f)'
<1>1. PICK c \in Contents : c = shell[o].was /\ Held(f, shell[o].at, c)
  BY Placed
<1>2. /\ shell[o].at = "COMMIT" /\ shell[o].at \in Writing /\ ProtectedFile(f)!Ends(o)
      /\ disk' = [disk EXCEPT !.last = Len(disk.saved), !.pending = 0]
      /\ kept' = IF f = "app env" THEN [content |-> disk.env, before |-> c, pointed |-> TRUE]
                 ELSE [kept EXCEPT !.pointed = TRUE]
  BY <1>1 DEF ProtectedFile!Commit, ProtectedFile!At, Writing
<1>3. /\ disk \in DiskRow /\ kept \in KeptRow /\ disk.env \in Contents
      /\ kept.content \in Contents /\ kept.before \in Contents
  BY Placed, DiskFields, KeptChanges
<1>4. /\ kept' \in KeptRow
      /\ IF f = "app env" THEN kept'.content = disk.env /\ kept'.before = c
         ELSE kept'.content = kept.content /\ kept'.before = kept.before
  <2>1. CASE f = "app env"
    BY <1>2, <1>3, <2>1 DEF KeptRow
  <2>2. CASE f # "app env"
    <3>1. kept' = [kept EXCEPT !.pointed = TRUE]
      BY <1>2, <2>2
    <3>. QED
      BY <1>3, <2>2, <3>1 DEF KeptRow
  <2>. QED
    BY <2>1, <2>2
<1>5. /\ disk' \in DiskRow /\ disk'.env = disk.env /\ disk'.saved = disk.saved
      /\ disk'.pending = 0 /\ disk'.last = Len(disk.saved)
  BY <1>2, <1>3, Points
<1>6. Held(f, "COMMIT", c)
  BY <1>1, <1>2
<1>7. Held(f, "NONE", 0)'
  BY <1>4, <1>5, <1>6, CommitStands
<1>. QED
  BY <1>2, <1>7, EndsThere

LEMMA FailStep ==
    ASSUME NEW f \in Kinds, FileIInv(f), NEW o \in Requests, ProtectedFile(f)!Fail(o)
    PROVE  FileIInv(f)'
<1>1. PICK c \in Contents : c = shell[o].was /\ Held(f, shell[o].at, c)
  BY Placed
<1>0. /\ disk \in DiskRow /\ kept \in KeptRow /\ disk.saved \in Seq(Contents)
      /\ Len(disk.saved) \in Nat /\ disk.pending \in Nat /\ disk.last \in Nat
      /\ disk.env \in Contents
  BY Placed, DiskFields
<1>2. shell[o].at \in {"WRITE", "COMMIT"} /\ shell[o].at \in Writing /\ "ABORT" \in Writing
  BY DEF ProtectedFile!Fail, Writing
<1>3. CASE ProtectedFile(f)!Ends(o) /\ UNCHANGED <<disk, kept>>
  BY <1>1, <1>2, <1>3, HeldAtRest, EndsThere
<1>4. CASE f = "app env" /\ ProtectedFile(f)!Goes(o, "ABORT") /\ UNCHANGED <<disk, kept>>
  <2>1. Held(f, "ABORT", c)'
    BY <1>1, <1>2, <1>4, HeldAtRest
  <2>. QED
    BY <1>1, <1>2, <1>4, <2>1, GoesOn
<1>5. CASE /\ f = "app env" /\ shell[o].at = "COMMIT" /\ ProtectedFile(f)!Goes(o, "ABORT")
           /\ disk' = [disk EXCEPT !.last = Len(disk.saved), !.pending = 0]
           /\ kept' = [content |-> disk.env, before |-> shell[o].was, pointed |-> TRUE]
  <2>1. Held(f, "ABORT", c)'
    <3>1. disk \in DiskRow /\ disk.env \in Contents
      BY <1>0
    <3>2. kept' \in KeptRow /\ kept'.content = disk.env /\ kept'.before = c
      BY <1>1, <1>5, <3>1 DEF KeptRow
    <3>3. /\ disk' \in DiskRow /\ disk'.env = disk.env /\ disk'.saved = disk.saved
          /\ disk'.pending = 0 /\ disk'.last = Len(disk.saved)
      BY <1>5, <3>1, Points
    <3>4. f = "app env" /\ Held(f, "COMMIT", c)
      BY <1>1, <1>5
    <3>. QED
      BY <3>2, <3>3, <3>4, CommitStands
  <2>. QED
    BY <1>1, <1>2, <1>5, <2>1, GoesOn
<1>. QED
  BY <1>3, <1>4, <1>5 DEF ProtectedFile!Fail

LEMMA AbortStep ==
    ASSUME NEW f \in Kinds, FileIInv(f), NEW o \in Requests, ProtectedFile(f)!Abort(o)
    PROVE  FileIInv(f)'
<1>1. PICK c \in Contents : c = shell[o].was /\ Held(f, shell[o].at, c)
  BY Placed
<1>0. /\ disk \in DiskRow /\ kept \in KeptRow /\ disk.saved \in Seq(Contents)
      /\ Len(disk.saved) \in Nat /\ disk.pending \in Nat /\ disk.last \in Nat
      /\ disk.env \in Contents
  BY Placed, DiskFields
<1>2. shell[o].at \in {"ABORT", "ABORTED"} /\ shell[o].at \in Writing /\ "ABORTED" \in Writing
  BY DEF ProtectedFile!Abort, ProtectedFile!At, Writing
<1>3. CASE shell[o].at = "ABORT" /\ UNCHANGED <<disk, kept>> /\ ProtectedFile(f)!Ends(o)
  BY <1>1, <1>2, <1>3, HeldAtRest, EndsThere
<1>4. CASE /\ shell[o].at = "ABORT" /\ disk' = [disk EXCEPT !.env = c]
           /\ kept' = [kept EXCEPT !.content = c] /\ ProtectedFile(f)!Goes(o, "ABORTED")
  <2>2. /\ disk' \in DiskRow /\ disk'.env = c /\ disk'.saved = disk.saved
        /\ disk'.pending = disk.pending /\ disk'.last = disk.last
    BY <1>0, <1>4, DiskChanges
  <2>3. /\ kept' \in KeptRow /\ kept'.content = c /\ kept'.before = kept.before
        /\ kept'.pointed = kept.pointed
    BY <1>0, <1>4, KeptChanges
  <2>4. Held(f, "ABORTED", c)'
    BY <1>0, <1>1, <1>4, <2>2, <2>3 DEF Held, DiskTypeOK, Written, Copied
  <2>. QED
    BY <1>1, <1>2, <1>4, <2>4, GoesOn
<1>5. CASE /\ shell[o].at = "ABORTED" /\ disk' = [disk EXCEPT !.pending = 0]
           /\ UNCHANGED kept /\ ProtectedFile(f)!Ends(o)
  <2>1. Held(f, "NONE", 0)'
    <3>1. /\ disk' \in DiskRow /\ disk'.env = disk.env /\ disk'.saved = disk.saved
          /\ disk'.pending = 0 /\ disk'.last = disk.last
      BY <1>0, <1>5, DiskChanges
    <3>2. shell[o].at = "ABORTED" /\ kept' = kept
      BY <1>5
    <3>. QED
      <4>1. DiskTypeOK'
        BY <1>0, <1>1, <3>1, <3>2, DiskTypesStay DEF Held
      <4>. QED
        BY <1>1, <3>1, <3>2, <4>1 DEF Held, Written
  <2>. QED
    BY <1>2, <1>5, <2>1, EndsThere
<1>. QED
  BY <1>1, <1>3, <1>4, <1>5
     DEF ProtectedFile!Abort, ProtectedFile!At, ProtectedFile!PutBack

LEMMA RestoreStep ==
    ASSUME NEW f \in Kinds, FileIInv(f), NEW o \in Requests, ProtectedFile(f)!Restore(o)
    PROVE  FileIInv(f)'
<1>1. PICK c \in Contents : c = shell[o].was /\ Held(f, shell[o].at, c)
  BY Placed
<1>0. /\ disk \in DiskRow /\ kept \in KeptRow /\ disk.saved \in Seq(Contents)
      /\ Len(disk.saved) \in Nat /\ disk.pending \in Nat /\ disk.last \in Nat
      /\ disk.env \in Contents
  BY Placed, DiskFields
<1>2. shell[o].at \in {"RESTORE", "USED"} /\ shell[o].at \in Writing /\ "USED" \in Writing
  BY DEF ProtectedFile!Restore, ProtectedFile!At, Writing
<1>3. CASE UNCHANGED <<disk, kept>> /\ ProtectedFile(f)!Ends(o)
  BY <1>1, <1>2, <1>3, HeldAtRest, EndsThere
<1>4. CASE /\ shell[o].at = "RESTORE" /\ disk.last # 0
           /\ disk' = [disk EXCEPT !.env = disk.saved[disk.last]]
           /\ kept' = [kept EXCEPT !.content = disk.saved[disk.last]]
           /\ ProtectedFile(f)!Goes(o, "USED")
  <2>1. PICK d \in Contents : d = disk.saved[disk.last]
    BY <1>0, <1>1, <1>4, DiskFields DEF Held, DiskTypeOK
  <2>2. disk' = [disk EXCEPT !.env = d] /\ kept' = [kept EXCEPT !.content = d]
    BY <1>4, <2>1
  <2>3. Held(f, "USED", c)'
    <3>1. /\ disk' \in DiskRow /\ disk'.env = d /\ disk'.saved = disk.saved
          /\ disk'.pending = disk.pending /\ disk'.last = disk.last
      BY <1>0, <2>2, DiskChanges
    <3>2. /\ kept' \in KeptRow /\ kept'.content = d /\ kept'.before = kept.before
          /\ kept'.pointed = kept.pointed
      BY <1>0, <2>2, KeptChanges
    <3>. QED
      BY <1>0, <1>1, <1>4, <2>1, <3>1, <3>2 DEF Held, DiskTypeOK, Written, Copied
  <2>. QED
    BY <1>1, <1>2, <1>4, <2>3, GoesOn
<1>5. CASE /\ shell[o].at = "USED" /\ disk' = [disk EXCEPT !.last = 0]
           /\ UNCHANGED kept /\ ProtectedFile(f)!Ends(o)
  <2>1. Held(f, "NONE", 0)'
    <3>1. /\ disk' \in DiskRow /\ disk'.env = disk.env /\ disk'.saved = disk.saved
          /\ disk'.pending = disk.pending /\ disk'.last = 0
      BY <1>0, <1>5, DiskChanges
    <3>. QED
      BY <1>0, <1>1, <1>5, <3>1 DEF Held, DiskTypeOK, Written, Copied
  <2>. QED
    BY <1>2, <1>5, <2>1, EndsThere
<1>. QED
  BY <1>3, <1>4, <1>5 DEF ProtectedFile!Restore, ProtectedFile!At

(* A verification, or a command that is killed, leaves the disk alone.       *)
LEMMA Looks ==
    ASSUME NEW f \in Kinds, FileIInv(f), NEW o \in Requests, UNCHANGED <<disk, kept>>,
           NEW row \in Row, shell' = [shell EXCEPT ![o] = row],
           \/ row.at \in {"NONE", "LOOKED"}
           \/ /\ row.at = "VERIFIED" /\ row.was = disk.env /\ shell[o].at \notin Writing
              /\ ProtectedFile(f)!Writers = {}
    PROVE  FileIInv(f)'
<1>1. /\ shell' \in [Requests -> Row] /\ shell'[o] = row
      /\ \A p \in Requests \ {o} : shell'[p] = shell[p]
  BY DEF FileIInv, FileTypeOK, Row
<1>2. OneWriter(f)' /\ ProtectedFile(f)!VerifiedStands'
  BY <1>1 DEF FileIInv, OneWriter, Row, Writing, ProtectedFile!EnvHolds, ProtectedFile!Writers,
         ProtectedFile!Readers, ProtectedFile!Steps, ProtectedFile!VerifiedStands
<1>3. ASSUME NEW p \in Requests
      PROVE  Written(f, shell[p].at, shell[p].was)'
  <2>1. CASE p = o
    BY <1>1, <2>1 DEF Written
  <2>2. CASE p # o
    BY <1>1, <2>2 DEF FileIInv, Written, Copied
  <2>. QED
    BY <2>1, <2>2
<1>. QED
  BY <1>1, <1>2, <1>3, FilesRest DEF FileIInv, FileTypeOK, Row, ProtectedFile!EnvHolds

LEMMA KillStep ==
    ASSUME NEW f \in Kinds, FileIInv(f), NEW o \in Requests, UNCHANGED <<disk, kept>>,
           ProtectedFile(f)!Ends(o)
    PROVE  FileIInv(f)'
<1>1. PICK row \in Row : row = ProtectedFile(f)!NoShell /\ row.at = "NONE"
  BY NoRowIsARow
<1>. QED
  BY <1>1, Looks DEF ProtectedFile!Ends

LEMMA VerifyStep ==
    ASSUME NEW f \in Kinds, FileIInv(f), NEW o \in Requests, ProtectedFile(f)!Verify(o),
           UNCHANGED <<disk, kept>>
    PROVE  FileIInv(f)'
<1>1. CASE ProtectedFile(f)!Ends(o)
  BY <1>1, KillStep
<1>2. CASE shell' = [shell EXCEPT ![o] =
                        [ProtectedFile(f)!NoShell EXCEPT !.run = "VERIFY", !.at = "LOOKED"]]
  <2>1. "VERIFY" \in Runs /\ "LOOKED" \in Places
    BY DEF Runs, Places
  <2>2. ASSUME NEW a \in Row
        PROVE  LET row == [a EXCEPT !.run = "VERIFY", !.at = "LOOKED"]
               IN  row \in Row /\ row.at = "LOOKED"
    BY <2>1 DEF Row
  <2>. DEFINE row == [ProtectedFile(f)!NoShell EXCEPT !.run = "VERIFY", !.at = "LOOKED"]
  <2>3. row \in Row /\ row.at = "LOOKED"
    BY <2>2, NoRowIsARow
  <2>4. shell' = [shell EXCEPT ![o] = row]
    BY <1>2
  <2>. HIDE DEF row
  <2>. QED
    BY <2>3, <2>4, Looks
<1>3. CASE /\ shell[o].at = "LOOKED" /\ ProtectedFile(f)!Writers = {}
           /\ shell' = [shell EXCEPT ![o] = [@ EXCEPT !.at = "VERIFIED", !.was = disk.env]]
  <2>1. "VERIFIED" \in Places /\ disk.env \in Contents /\ shell[o].at \notin Writing
    BY <1>3, DiskFields DEF FileIInv, FileTypeOK, DiskTypeOK, Places, Writing
  <2>2. ASSUME NEW a \in Row, NEW e \in Contents
        PROVE  LET row == [a EXCEPT !.at = "VERIFIED", !.was = e]
               IN  row \in Row /\ row.at = "VERIFIED" /\ row.was = e
    BY <2>1 DEF Row
  <2>3. PICK e \in Contents : e = disk.env
    BY <2>1
  <2>. DEFINE row == [shell[o] EXCEPT !.at = "VERIFIED", !.was = e]
  <2>4. row \in Row /\ row.at = "VERIFIED" /\ row.was = e
    <3>1. shell[o] \in Row
      BY Placed
    <3>. QED
      BY <2>2, <3>1
  <2>5. shell' = [shell EXCEPT ![o] = row]
    BY <1>3, <2>3
  <2>6. /\ row.at = "VERIFIED" /\ row.was = disk.env /\ shell[o].at \notin Writing
        /\ ProtectedFile(f)!Writers = {}
    BY <1>3, <2>1, <2>3, <2>4
  <2>. HIDE DEF row
  <2>. QED
    BY <2>4, <2>5, <2>6, Looks
<1>. QED
  BY <1>1, <1>2, <1>3 DEF ProtectedFile!Verify, ProtectedFile!At

LEMMA FileStep ==
    ASSUME NEW f \in Kinds, FileIInv(f), ProtectedFile(f)!EnvNext
    PROVE  FileIInv(f)'
<1>. SUFFICES ASSUME NEW o \in Requests,
                     \/ \E run \in {"PROVISION", "ROTATE", "ROLLBACK"} :
                            ProtectedFile(f)!Lock(o, run)
                     \/ ProtectedFile(f)!Recover(o) \/ ProtectedFile(f)!Read(o)
                     \/ ProtectedFile(f)!Backup(o) \/ ProtectedFile(f)!Point(o)
                     \/ ProtectedFile(f)!Write(o) \/ ProtectedFile(f)!Commit(o)
                     \/ ProtectedFile(f)!Fail(o) \/ ProtectedFile(f)!Abort(o)
                     \/ ProtectedFile(f)!Restore(o) \/ ProtectedFile(f)!Kill(o)
                     \/ ProtectedFile(f)!Verify(o) /\ UNCHANGED <<disk, kept>>
              PROVE  FileIInv(f)'
  BY DEF ProtectedFile!EnvNext, ProtectedFile!Provisions
<1>1. ProtectedFile(f)!Kill(o) => FileIInv(f)'
  BY KillStep DEF ProtectedFile!Kill
<1>. QED
  BY <1>1, LockStep, RecoverStep, ReadStep, BackupStep, PointStep, WriteStep, CommitStep,
     FailStep, AbortStep, RestoreStep, VerifyStep

LEMMA FileUntouched ==
    ASSUME NEW f \in Kinds, FileIInv(f), UNCHANGED envVars
    PROVE  FileIInv(f)'
BY DEF FileIInv, FileTypeOK, DiskTypeOK, OneWriter, Written, Copied, envVars,
     ProtectedFile!Writers, ProtectedFile!Readers, ProtectedFile!Steps, ProtectedFile!EnvHolds,
     ProtectedFile!VerifiedStands, ProtectedFile!NothingIsLost, ProtectedFile!RollbackGivesBack

-----------------------------------------------------------------------------
(* The pages of a visitor.                                                   *)

Asked == {"detail", "status", "receipt"}
PaidFor == {"APPROVED", "REFUNDED"}
Known == {"none", "PENDING", "PROCESSING", "APPROVED", "REJECTED", "REFUNDED"}
OnTheWay == Known \union {"sent", "not found"}
Told == {"none", "conflict", "error", "PENDING", "PROCESSING", "APPROVED", "REJECTED"}

OrderRow == [status : Known, asked : BOOLEAN, tried : BOOLEAN]
CacheRow == [val : Known, call : OnTheWay, failed : BOOLEAN]
ViewRow == [page : {"lookup", "order", "process", "result", "receipt"}, said : Told]
CallsRow == [pay : {"none", "sent", "done"}, create : Told \union {"sent"}, strays : Nat]

(* What was heard of the order is true of its status, or no longer more.     *)
Stands(s, heard) ==
    /\ heard \in PaidFor => s \in PaidFor
    /\ heard = "REJECTED" => s = "REJECTED"
    /\ heard = "conflict" => s \in {"APPROVED", "REJECTED", "REFUNDED"}

EntryStands(q, s, entry) ==
    /\ Stands(s, entry.val) /\ Stands(s, entry.call)
    /\ q = "receipt" => /\ entry.val \in {"none"} \union PaidFor
                        /\ entry.call \in {"none", "sent", "not found"} \union PaidFor

(* Nothing is called or opened before there is an order.                     *)
Started(s, shown, under) ==
    \/ s # "none"
    \/ shown.page = "lookup" /\ under.create = "none" /\ under.strays = 0 /\ under.pay # "done"

VisitIInv(q) ==
    /\ order \in OrderRow /\ view \in ViewRow /\ calls \in CallsRow
    /\ cache \in [{q} -> CacheRow]
    /\ EntryStands(q, order.status, cache[q])
    /\ Stands(order.status, view.said) /\ Stands(order.status, calls.create)
    /\ Started(order.status, view, calls)

LEMMA VisitInitially == ASSUME NEW q \in Asked, Pages(q)!PagesInit PROVE VisitIInv(q)
  <1>1. /\ order = [status |-> "none", asked |-> FALSE, tried |-> FALSE]
        /\ cache = [x \in {q} |-> [val |-> "none", call |-> "none", failed |-> FALSE]]
        /\ view = [page |-> "lookup", said |-> "none"]
        /\ calls = [pay |-> "none", create |-> "none", strays |-> 0]
    BY DEF Pages!PagesInit, Pages!Unasked
  <1> QED
    BY <1>1 DEF VisitIInv, EntryStands, Started, Stands, OrderRow, CacheRow, ViewRow, CallsRow,
                Known, OnTheWay, Told, PaidFor

LEMMA VisitTells == ASSUME NEW q \in Asked, VisitIInv(q) PROVE Pages(q)!PagesTellTheTruth
  <1>1. /\ Pages(q)!Known("detail") \in Known /\ Pages(q)!Known("status") \in Known
        /\ Stands(order.status, Pages(q)!Known("status"))
    BY DEF VisitIInv, EntryStands, Pages!Known, CacheRow, Known, Stands, PaidFor
  <1>2. /\ Pages(q)!Known("receipt") \in {"none"} \union PaidFor
        /\ Stands(order.status, Pages(q)!Known("receipt"))
    BY DEF VisitIInv, EntryStands, Pages!Known, CacheRow, Known, Stands, PaidFor
  <1>3. /\ Pages(q)!Result = "approved" => Pages(q)!Known("status") = "APPROVED"
        /\ Pages(q)!Result = "rejected" => Pages(q)!Known("status") = "REJECTED"
    BY <1>1 DEF Pages!Result, Pages!ResultState, Known
  <1>4. Stands(order.status, Pages(q)!Confirmed)
    BY <1>1 DEF VisitIInv, Pages!Confirmed, Stands, PaidFor
  <1> QED
    BY <1>1, <1>2, <1>3, <1>4
       DEF VisitIInv, Stands, PaidFor, Pages!PagesTellTheTruth, Pages!Paid, Pages!Payable

(* The order goes on, and what was heard of it stands.                       *)
Onward(before, after) ==
    /\ before \in PaidFor => after \in PaidFor
    /\ before = "REJECTED" => after = "REJECTED"
    /\ before # "none" => after # "none"

LEMMA StandsOn ==
    ASSUME NEW s, NEW t, Onward(s, t)
    PROVE  /\ \A heard : Stands(s, heard) => Stands(t, heard)
           /\ \A q, entry : EntryStands(q, s, entry) => EntryStands(q, t, entry)
           /\ \A shown, under : Started(s, shown, under) => Started(t, shown, under)
  BY DEF Onward, Stands, EntryStands, Started, PaidFor

LEMMA StatusChanges ==
    ASSUME NEW a \in OrderRow
    PROVE  /\ a.status \in Known
           /\ \A s \in Known : LET w == [a EXCEPT !.status = s]
                               IN  w \in OrderRow /\ w.status = s
           /\ LET w == [a EXCEPT !.asked = TRUE] IN w \in OrderRow /\ w.status = a.status
  BY DEF OrderRow

LEMMA CacheFields ==
    ASSUME NEW a \in CacheRow PROVE a.val \in Known /\ a.call \in OnTheWay
  BY DEF CacheRow

LEMMA UnaskedIsRow ==
    ASSUME NEW q
    PROVE  LET a == Pages(q)!Unasked IN a \in CacheRow /\ a.val = "none" /\ a.call = "none"
  BY DEF Pages!Unasked, CacheRow, OnTheWay, Known

LEMMA CacheCalls ==
    ASSUME NEW a \in CacheRow, NEW c \in OnTheWay
    PROVE  LET w == [a EXCEPT !.call = c]
           IN  w \in CacheRow /\ w.val = a.val /\ w.call = c
  BY DEF CacheRow

LEMMA CallFields ==
    ASSUME NEW a \in CallsRow
    PROVE  /\ a.pay \in {"none", "sent", "done"} /\ a.create \in Told \union {"sent"}
           /\ a.strays \in Nat
  BY DEF CallsRow

LEMMA PayChanges ==
    ASSUME NEW a \in CallsRow, NEW p \in {"none", "sent", "done"}
    PROVE  LET w == [a EXCEPT !.pay = p]
           IN  w \in CallsRow /\ w.pay = p /\ w.create = a.create /\ w.strays = a.strays
  BY DEF CallsRow

LEMMA CreateChanges ==
    ASSUME NEW a \in CallsRow, NEW c \in Told \union {"sent"}
    PROVE  LET w == [a EXCEPT !.create = c]
           IN  w \in CallsRow /\ w.pay = a.pay /\ w.create = c /\ w.strays = a.strays
  BY DEF CallsRow

LEMMA StraysChange ==
    ASSUME NEW a \in CallsRow, NEW n \in Nat
    PROVE  LET w == [a EXCEPT !.strays = n]
           IN  w \in CallsRow /\ w.pay = a.pay /\ w.create = a.create /\ w.strays = n
  BY DEF CallsRow

(* A page that is left: its call becomes a stray.                            *)
LEMMA LeftBehind ==
    ASSUME NEW q \in Asked, VisitIInv(q)
    PROVE  LET left == Pages(q)!Left
           IN  /\ left \in CallsRow /\ left.create = "none" /\ left.pay = calls.pay
               /\ calls.create = "none" => left.strays = calls.strays
  <1> DEFINE n == IF calls.create = "sent" THEN calls.strays + 1 ELSE calls.strays
  <1>1. calls \in CallsRow
    BY DEF VisitIInv
  <1>2. n \in Nat /\ "none" \in Told
    BY <1>1, CallFields DEF Told
  <1>3. Pages(q)!Left = [calls EXCEPT !.create = "none", !.strays = n]
    BY DEF Pages!Left
  <1>4. LET w == [calls EXCEPT !.create = "none", !.strays = n]
        IN  w \in CallsRow /\ w.pay = calls.pay /\ w.create = "none" /\ w.strays = n
    <2> HIDE DEF n
    <2> QED BY <1>1, <1>2 DEF CallsRow
  <1> QED BY <1>3, <1>4

(* A query that is mounted is asked or left as it is.                        *)
LEMMA Mounted ==
    ASSUME NEW q \in Asked, VisitIInv(q), NEW queries \in SUBSET {q}, Pages(q)!Mounts(queries)
    PROVE  cache' \in [{q} -> CacheRow] /\ EntryStands(q, order.status, cache'[q])
  <1>1. /\ cache' = [x \in {q} |-> cache'[q]]
        /\ \/ cache'[q] = cache[q]
           \/ cache'[q] = [cache[q] EXCEPT !.call = "sent"]
    BY DEF Pages!Mounts
  <1>2. cache[q] \in CacheRow /\ EntryStands(q, order.status, cache[q])
    BY DEF VisitIInv
  <1>3. LET w == [cache[q] EXCEPT !.call = "sent"]
        IN  w \in CacheRow /\ w.val = cache[q].val /\ w.call = "sent"
    BY <1>2, CacheCalls DEF OnTheWay
  <1>4. cache'[q] \in CacheRow
    BY <1>1, <1>2, <1>3
  <1>5. cache'[q].val = cache[q].val /\ cache'[q].call \in {cache[q].call, "sent"}
    BY <1>1, <1>3
  <1>6. EntryStands(q, order.status, cache'[q])
    BY <1>2, <1>5 DEF EntryStands, Stands, PaidFor
  <1> QED BY <1>1, <1>4, <1>6

(* What the call to create a payment answers, of an order that is there.     *)
LEMMA OutcomesStand ==
    ASSUME NEW q \in Asked, VisitIInv(q), order.status # "none", NEW out \in Pages(q)!Outcomes
    PROVE  /\ out.order \in OrderRow /\ Onward(order.status, out.order.status)
           /\ out.answer \in Told /\ Stands(out.order.status, out.answer)
  <1>1. order \in OrderRow /\ order.status \in Known
    BY StatusChanges DEF VisitIInv
  <1>2. CASE order.status \notin Pages(q)!Payable
    <2>1. out = [answer |-> "conflict", order |-> order]
      BY <1>2 DEF Pages!Outcomes
    <2>2. out.answer = "conflict" /\ out.order = order
      BY <2>1
    <2> QED BY <1>1, <1>2, <2>2 DEF Onward, Stands, PaidFor, Told, Known, Pages!Payable
  <1>3. CASE order.status \in Pages(q)!Payable /\ order.tried
    <2>1. out = [answer |-> order.status, order |-> order]
      BY <1>3 DEF Pages!Outcomes
    <2>2. out.answer = order.status /\ out.order = order
      BY <2>1
    <2> QED BY <1>1, <1>3, <2>2 DEF Onward, Stands, PaidFor, Told, Pages!Payable
  <1>4. CASE order.status \in Pages(q)!Payable /\ ~order.tried
    <2>1. \/ out = [answer |-> "error", order |-> [order EXCEPT !.asked = TRUE]]
          \/ \E s \in {"PROCESSING", "APPROVED", "REJECTED"} :
                out = [answer |-> s, order |-> [status |-> s, asked |-> TRUE, tried |-> TRUE]]
      BY <1>4 DEF Pages!Outcomes
    <2>2. CASE out = [answer |-> "error", order |-> [order EXCEPT !.asked = TRUE]]
      <3>1. out.answer = "error" /\ out.order \in OrderRow /\ out.order.status = order.status
        BY <1>1, <2>2, StatusChanges
      <3> QED BY <1>1, <3>1 DEF Onward, Stands, PaidFor, Told
    <2>3. ASSUME NEW s \in {"PROCESSING", "APPROVED", "REJECTED"},
                 out = [answer |-> s, order |-> [status |-> s, asked |-> TRUE, tried |-> TRUE]]
          PROVE  /\ out.order \in OrderRow /\ Onward(order.status, out.order.status)
                 /\ out.answer \in Told /\ Stands(out.order.status, out.answer)
      <3>1. out.answer = s /\ out.order \in OrderRow /\ out.order.status = s
        BY <2>3 DEF OrderRow, Known
      <3> QED BY <1>4, <3>1 DEF Onward, Stands, PaidFor, Told, Pages!Payable
    <2> QED BY <2>1, <2>2, <2>3
  <1> QED BY <1>2, <1>3, <1>4

(* The server.                                                               *)
LEMMA ServerStands ==
    ASSUME NEW q \in Asked, VisitIInv(q),
           \/ Pages(q)!Moves \/ Pages(q)!ServePay \/ Pages(q)!ServeCreate \/ Pages(q)!ServeStray
    PROVE  VisitIInv(q)'
  <1>1. order \in OrderRow /\ order.status \in Known /\ calls \in CallsRow
    BY StatusChanges DEF VisitIInv
  <1>2. ASSUME order' \in OrderRow, Onward(order.status, order'.status), UNCHANGED <<cache, view>>,
               calls' \in CallsRow, Stands(order'.status, calls'.create),
               Started(order'.status, view, calls')
        PROVE  VisitIInv(q)'
    BY <1>2, StandsOn DEF VisitIInv
  <1>3. CASE Pages(q)!Moves
    <2>1. PICK s \in {"APPROVED", "REJECTED", "REFUNDED"} :
             /\ order' = [order EXCEPT !.status = s]
             /\ \/ order.status \in Pages(q)!Payable
                \/ order.status = "APPROVED" /\ s = "REFUNDED"
      BY <1>3 DEF Pages!Moves
    <2>2. order' \in OrderRow /\ order'.status = s
      BY <1>1, <2>1, StatusChanges DEF Known
    <2>3. Onward(order.status, order'.status)
      BY <2>1, <2>2 DEF Onward, PaidFor, Pages!Payable
    <2>4. Stands(order'.status, calls.create) /\ Started(order'.status, view, calls)
      BY <2>3, StandsOn DEF VisitIInv
    <2> QED BY <1>1, <1>2, <1>3, <2>2, <2>3, <2>4 DEF Pages!Moves
  <1>4. CASE Pages(q)!ServePay
    <2>1. order' = IF order.status = "none" THEN [order EXCEPT !.status = "PENDING"] ELSE order
      BY <1>4 DEF Pages!ServePay
    <2>2. /\ order' \in OrderRow /\ order'.status # "none"
          /\ order.status # "none" => order'.status = order.status
      BY <1>1, <2>1, StatusChanges DEF Known
    <2>3. Onward(order.status, order'.status)
      BY <2>2 DEF Onward, PaidFor
    <2>4. calls' \in CallsRow /\ calls'.create = calls.create
      BY <1>1, <1>4, PayChanges DEF Pages!ServePay
    <2>5. Stands(order'.status, calls'.create)
      BY <2>3, <2>4, StandsOn DEF VisitIInv
    <2>6. Started(order'.status, view, calls')
      BY <2>2 DEF Started
    <2> QED BY <1>2, <1>4, <2>2, <2>3, <2>4, <2>5, <2>6 DEF Pages!ServePay
  <1>5. CASE Pages(q)!ServeCreate
    <2>1. order.status # "none"
      BY <1>5 DEF VisitIInv, Started, Pages!ServeCreate
    <2>2. PICK out \in Pages(q)!Outcomes :
             order' = out.order /\ calls' = [calls EXCEPT !.create = out.answer]
      BY <1>5 DEF Pages!ServeCreate
    <2>3. /\ out.order \in OrderRow /\ Onward(order.status, out.order.status)
          /\ out.answer \in Told /\ Stands(out.order.status, out.answer)
      BY <2>1, OutcomesStand
    <2>4. calls' \in CallsRow /\ calls'.create = out.answer
      BY <1>1, <2>2, <2>3, CreateChanges
    <2>5. Started(order'.status, view, calls')
      BY <2>1, <2>2, <2>3 DEF Onward, Started
    <2>6. UNCHANGED <<cache, view>>
      BY <1>5 DEF Pages!ServeCreate
    <2> QED BY <1>2, <2>2, <2>3, <2>4, <2>5, <2>6
  <1>6. CASE Pages(q)!ServeStray
    <2>1. order.status # "none"
      BY <1>1, <1>6, CallFields DEF VisitIInv, Started, Pages!ServeStray
    <2>2. PICK out \in Pages(q)!Outcomes : order' = out.order
      BY <1>6 DEF Pages!ServeStray
    <2>3. out.order \in OrderRow /\ Onward(order.status, out.order.status)
      BY <2>1, OutcomesStand
    <2>4. calls' \in CallsRow /\ calls'.create = calls.create
      <3>1. calls' = [calls EXCEPT !.strays = calls.strays - 1] /\ calls.strays > 0
        BY <1>6 DEF Pages!ServeStray
      <3>2. calls.strays - 1 \in Nat
        BY <1>1, <3>1, CallFields
      <3> QED BY <1>1, <3>1, <3>2, StraysChange
    <2>5. Stands(order'.status, calls'.create)
      BY <2>2, <2>3, <2>4, StandsOn DEF VisitIInv
    <2>6. Started(order'.status, view, calls')
      BY <2>1, <2>2, <2>3 DEF Onward, Started
    <2>7. UNCHANGED <<cache, view>>
      BY <1>6 DEF Pages!ServeStray
    <2> QED BY <1>2, <2>2, <2>3, <2>4, <2>5, <2>6, <2>7
  <1> QED BY <1>3, <1>4, <1>5, <1>6

(* A query is answered, heard or lost, and asked again.                      *)
LEMMA QueryStands ==
    ASSUME NEW q \in Asked, VisitIInv(q),
           \/ Pages(q)!ServeQuery(q) \/ Pages(q)!HearQuery(q) \/ Pages(q)!LoseQuery(q)
           \/ Pages(q)!Refresh
    PROVE  VisitIInv(q)'
  <1>1. /\ cache \in [{q} -> CacheRow] /\ cache[q] \in CacheRow
        /\ cache[q].val \in Known /\ cache[q].call \in OnTheWay
        /\ EntryStands(q, order.status, cache[q])
        /\ order.status \in Known
    BY CacheFields, StatusChanges DEF VisitIInv
  <1>2. ASSUME NEW e \in CacheRow, cache' = [cache EXCEPT ![q] = e],
               EntryStands(q, order.status, e), UNCHANGED <<order, view, calls>>
        PROVE  VisitIInv(q)'
    <2>1. cache' \in [{q} -> CacheRow] /\ cache'[q] = e
      BY <1>1, <1>2
    <2> QED BY <1>2, <2>1 DEF VisitIInv
  <1>3. ASSUME NEW c \in OnTheWay, cache' = [cache EXCEPT ![q].call = c],
               Stands(order.status, c),
               q = "receipt" => c \in {"none", "sent", "not found"} \union PaidFor,
               UNCHANGED <<order, view, calls>>
        PROVE  VisitIInv(q)'
    <2>1. PICK e : e = [cache[q] EXCEPT !.call = c]
      OBVIOUS
    <2>2. e \in CacheRow /\ e.val = cache[q].val /\ e.call = c
      BY <1>1, <2>1, CacheCalls
    <2>3. cache' = [cache EXCEPT ![q] = e]
      BY <1>3, <2>1
    <2>4. EntryStands(q, order.status, e)
      BY <1>1, <1>3, <2>2 DEF EntryStands
    <2> QED BY <1>2, <1>3, <2>2, <2>3, <2>4
  <1>4. CASE Pages(q)!ServeQuery(q)
    <2>1. PICK c \in OnTheWay :
             /\ cache' = [cache EXCEPT ![q].call = c]
             /\ \/ c = "not found"
                \/ c = order.status /\ (q = "receipt" => c \in PaidFor)
      BY <1>1, <1>4 DEF Pages!ServeQuery, Pages!Paid, PaidFor, OnTheWay
    <2>2. Stands(order.status, c)
      BY <1>1, <2>1 DEF Stands, PaidFor, Known
    <2> QED BY <1>3, <1>4, <2>1, <2>2 DEF Pages!ServeQuery
  <1>5. CASE Pages(q)!Refresh
    <2>1. cache' = [cache EXCEPT ![q].call = "sent"]
      BY <1>5 DEF Pages!Refresh
    <2>2. "sent" \in OnTheWay /\ Stands(order.status, "sent")
      BY DEF OnTheWay, Stands, PaidFor
    <2> QED BY <1>3, <1>5, <2>1, <2>2 DEF Pages!Refresh
  <1>6. ASSUME cache' = [cache EXCEPT ![q] = [cache[q] EXCEPT !.call = "none", !.failed = TRUE]],
               UNCHANGED <<order, view, calls>>
        PROVE  VisitIInv(q)'
    <2>1. PICK e : e = [cache[q] EXCEPT !.call = "none", !.failed = TRUE]
      OBVIOUS
    <2>2. e \in CacheRow /\ e.val = cache[q].val /\ e.call = "none"
      <3>1. "none" \in OnTheWay
        BY DEF OnTheWay, Known
      <3>2. LET w == [cache[q] EXCEPT !.call = "none", !.failed = TRUE]
            IN  w \in CacheRow /\ w.val = cache[q].val /\ w.call = "none"
        BY <1>1, <3>1 DEF CacheRow
      <3> QED BY <2>1, <3>2
    <2>3. cache' = [cache EXCEPT ![q] = e]
      BY <1>6, <2>1
    <2>4. EntryStands(q, order.status, e)
      BY <1>1, <2>2 DEF EntryStands, Stands, PaidFor
    <2> QED BY <1>2, <1>6, <2>2, <2>3, <2>4
  <1>7. CASE Pages(q)!LoseQuery(q)
    BY <1>1, <1>6, <1>7 DEF Pages!LoseQuery
  <1>8. CASE Pages(q)!HearQuery(q)
    <2>1. CASE cache[q].call = "not found"
      BY <1>1, <1>6, <1>8, <2>1 DEF Pages!HearQuery
    <2>2. CASE cache[q].call # "not found"
      <3>1. cache[q].call \in Known
        BY <1>1, <1>8, <2>2 DEF Pages!HearQuery, OnTheWay
      <3>2. PICK e : e = [Pages(q)!Unasked EXCEPT !.val = cache[q].call]
        OBVIOUS
      <3>3. e \in CacheRow /\ e.val = cache[q].call /\ e.call = "none"
        BY <3>1, <3>2, UnaskedIsRow DEF CacheRow
      <3>4. cache' = [cache EXCEPT ![q] = e]
        BY <1>8, <2>2, <3>2 DEF Pages!HearQuery
      <3>5. EntryStands(q, order.status, e)
        BY <1>1, <3>1, <3>3 DEF EntryStands, Stands, PaidFor, Known
      <3> QED BY <1>2, <1>8, <3>3, <3>4, <3>5 DEF Pages!HearQuery
    <2> QED BY <2>1, <2>2
  <1> QED BY <1>4, <1>5, <1>7, <1>8

(* The pages.                                                                *)
LEMMA BrowsingStands ==
    ASSUME NEW q \in Asked, VisitIInv(q),
           \/ \E p \in {"lookup", "order", "process", "result", "receipt"} : Pages(q)!Open(p)
           \/ Pages(q)!Reload \/ Pages(q)!Pay \/ Pages(q)!HearPay \/ Pages(q)!HearCreate
           \/ Pages(q)!TryAgain
    PROVE  VisitIInv(q)'
  <1> DEFINE left == Pages(q)!Left
  <1>1. /\ order \in OrderRow /\ view \in ViewRow /\ calls \in CallsRow
        /\ cache \in [{q} -> CacheRow] /\ EntryStands(q, order.status, cache[q])
        /\ Stands(order.status, view.said) /\ Stands(order.status, calls.create)
        /\ Started(order.status, view, calls)
    BY DEF VisitIInv
  <1>2. /\ left \in CallsRow /\ left.create = "none" /\ left.pay = calls.pay
        /\ calls.create = "none" => left.strays = calls.strays
    BY LeftBehind
  <1>3. \A p : Pages(q)!QueryOf(p) \in SUBSET {q}
    BY DEF Pages!QueryOf
  <1>4. \A s : Stands(s, "none") /\ Stands(s, "sent") /\ Stands(s, "error")
    BY DEF Stands, PaidFor
  <1>5. "none" \in Told /\ "sent" \in Told \union {"sent"} /\ "error" \in Told
    BY DEF Told
  <1> HIDE DEF left
  <1>6. ASSUME UNCHANGED order, cache' \in [{q} -> CacheRow], EntryStands(q, order.status, cache'[q]),
               view' \in ViewRow, calls' \in CallsRow,
               Stands(order.status, view'.said), Stands(order.status, calls'.create),
               Started(order.status, view', calls')
        PROVE  VisitIInv(q)'
    BY <1>1, <1>6 DEF VisitIInv
  <1>7. ASSUME NEW p \in {"lookup", "order", "process", "result", "receipt"}, Pages(q)!Open(p)
        PROVE  VisitIInv(q)'
    <2>1. view' \in ViewRow /\ view'.page = p /\ view'.said = "none"
      BY <1>5, <1>7 DEF Pages!Open, ViewRow
    <2>2. cache' \in [{q} -> CacheRow] /\ EntryStands(q, order.status, cache'[q])
      BY <1>3, <1>7, Mounted DEF Pages!Open
    <2>3. calls' = IF p = "process" THEN [left EXCEPT !.create = "sent"] ELSE left
      BY <1>7 DEF Pages!Open, left
    <2>4. LET w == [left EXCEPT !.create = "sent"]
          IN  w \in CallsRow /\ w.pay = left.pay /\ w.create = "sent" /\ w.strays = left.strays
      BY <1>2, <1>5, CreateChanges
    <2>5. /\ calls' \in CallsRow /\ calls'.create \in {"none", "sent"}
          /\ p # "process" => calls' = left
      BY <1>2, <2>3, <2>4
    <2>6. Started(order.status, view', calls')
      <3>1. CASE p # "lookup"
        BY <1>7, <3>1 DEF Pages!Open, Started
      <3>2. CASE p = "lookup"
        BY <1>1, <1>2, <2>1, <2>5, <3>2 DEF Started
      <3> QED BY <3>1, <3>2
    <2>7. Stands(order.status, view'.said) /\ Stands(order.status, calls'.create)
      BY <1>4, <2>1, <2>5
    <2>8. UNCHANGED order
      BY <1>7 DEF Pages!Open
    <2> QED BY <1>6, <2>1, <2>2, <2>5, <2>6, <2>7, <2>8
  <1>8. CASE Pages(q)!Reload
    <2>1. view' \in ViewRow /\ view'.page = view.page /\ view'.said = "none"
      BY <1>1, <1>5, <1>8 DEF Pages!Reload, ViewRow
    <2>2. cache' = [x \in {q} |-> IF x \in Pages(q)!QueryOf(view.page)
                                 THEN [Pages(q)!Unasked EXCEPT !.call = "sent"]
                                 ELSE Pages(q)!Unasked]
      BY <1>8 DEF Pages!Reload
    <2>3. cache' \in [{q} -> CacheRow] /\ cache'[q].val = "none" /\ cache'[q].call \in {"none", "sent"}
      <3>1. PICK e : e = cache'[q]
        OBVIOUS
      <3>2. cache' = [x \in {q} |-> e]
        BY <2>2, <3>1
      <3>3. e \in {[Pages(q)!Unasked EXCEPT !.call = "sent"], Pages(q)!Unasked}
        BY <2>2, <3>1
      <3>4. e \in CacheRow /\ e.val = "none" /\ e.call \in {"none", "sent"}
        <4>1. PICK a \in CacheRow : a = Pages(q)!Unasked /\ a.val = "none" /\ a.call = "none"
          BY UnaskedIsRow
        <4>2. LET w == [a EXCEPT !.call = "sent"]
              IN  w \in CacheRow /\ w.val = "none" /\ w.call = "sent"
          BY <4>1, CacheCalls DEF OnTheWay
        <4> QED BY <3>3, <4>1, <4>2
      <3> QED BY <3>1, <3>2, <3>4
    <2>4. EntryStands(q, order.status, cache'[q])
      BY <2>3 DEF EntryStands, Stands, PaidFor
    <2>5. PICK c \in {"none", "sent"} :
             /\ calls' = [left EXCEPT !.pay = "none", !.create = c]
             /\ c = "sent" => view.page = "process"
      BY <1>8 DEF Pages!Reload, left
    <2>6. /\ calls' \in CallsRow /\ calls'.pay = "none" /\ calls'.create = c
          /\ calls'.strays = left.strays
      <3>1. c \in Told \union {"sent"}
        BY <1>5
      <3>2. LET w == [left EXCEPT !.pay = "none", !.create = c]
            IN  w \in CallsRow /\ w.pay = "none" /\ w.create = c /\ w.strays = left.strays
        BY <1>2, <3>1 DEF CallsRow
      <3> QED BY <2>5, <3>2
    <2>7. Started(order.status, view', calls')
      BY <1>1, <1>2, <2>1, <2>5, <2>6 DEF Started
    <2>8. UNCHANGED order
      BY <1>8 DEF Pages!Reload
    <2> QED BY <1>4, <1>6, <2>1, <2>3, <2>4, <2>6, <2>7, <2>8
  <1>9. CASE Pages(q)!Pay
    <2>1. /\ calls' \in CallsRow /\ calls'.pay = "sent" /\ calls'.create = calls.create
          /\ calls'.strays = calls.strays
      BY <1>1, <1>9, PayChanges DEF Pages!Pay
    <2>2. UNCHANGED <<order, cache, view>>
      BY <1>9 DEF Pages!Pay
    <2>3. Started(order.status, view', calls')
      BY <1>1, <2>1, <2>2 DEF Started
    <2> QED BY <1>1, <1>6, <2>1, <2>2, <2>3
  <1>10. CASE Pages(q)!HearPay
    <2>1. order.status # "none" /\ UNCHANGED order
      BY <1>1, <1>10 DEF Started, Pages!HearPay
    <2>2. Started(order.status, view', calls')
      BY <2>1 DEF Started
    <2>3. CASE /\ view' = [page |-> "order", said |-> "none"]
               /\ Pages(q)!Mounts(Pages(q)!QueryOf("order"))
               /\ calls' = [left EXCEPT !.pay = "none"]
      <3>1. view' \in ViewRow /\ view'.said = "none"
        BY <1>5, <2>3 DEF ViewRow
      <3>2. cache' \in [{q} -> CacheRow] /\ EntryStands(q, order.status, cache'[q])
        BY <1>3, <2>3, Mounted
      <3>3. calls' \in CallsRow /\ calls'.create = "none"
        BY <1>2, <2>3, PayChanges
      <3> QED BY <1>4, <1>6, <2>1, <2>2, <3>1, <3>2, <3>3
    <2>4. CASE calls' = [calls EXCEPT !.pay = "none"] /\ UNCHANGED <<cache, view>>
      <3>1. calls' \in CallsRow /\ calls'.create = calls.create
        BY <1>1, <2>4, PayChanges
      <3> QED BY <1>1, <1>6, <2>1, <2>2, <2>4, <3>1
    <2> QED BY <1>10, <2>3, <2>4 DEF Pages!HearPay, left
  <1>11. CASE Pages(q)!HearCreate
    <2>1. PICK said \in {calls.create, "error"} :
             /\ view' = [view EXCEPT !.said = said]
             /\ Pages(q)!Mounts(IF said = "conflict" THEN Pages(q)!QueryOf("result") ELSE {})
      BY <1>11 DEF Pages!HearCreate
    <2>2. said \in Told /\ Stands(order.status, said)
      BY <1>1, <1>4, <1>11 DEF Pages!HearCreate, Pages!Answers, Told
    <2>3. view' \in ViewRow /\ view'.said = said /\ view'.page = view.page
      BY <1>1, <2>1, <2>2 DEF ViewRow
    <2>4. cache' \in [{q} -> CacheRow] /\ EntryStands(q, order.status, cache'[q])
      <3>1. (IF said = "conflict" THEN Pages(q)!QueryOf("result") ELSE {}) \in SUBSET {q}
        BY <1>3
      <3> QED BY <2>1, <3>1, Mounted
    <2>5. calls' \in CallsRow /\ calls'.create = "none"
      BY <1>1, <1>5, <1>11, CreateChanges DEF Pages!HearCreate
    <2>6. Started(order.status, view', calls') /\ UNCHANGED order
      BY <1>1, <1>11 DEF Pages!HearCreate, Started
    <2> QED BY <1>4, <1>6, <2>2, <2>3, <2>4, <2>5, <2>6
  <1>12. CASE Pages(q)!TryAgain
    <2>1. view' \in ViewRow /\ view'.said = "none"
      BY <1>1, <1>5, <1>12 DEF Pages!TryAgain, ViewRow
    <2>2. calls' \in CallsRow /\ calls'.create = "sent"
      BY <1>1, <1>5, <1>12, CreateChanges DEF Pages!TryAgain
    <2>3. Started(order.status, view', calls') /\ UNCHANGED <<order, cache>>
      BY <1>1, <1>12 DEF Pages!TryAgain, Started
    <2> QED BY <1>1, <1>4, <1>6, <2>1, <2>2, <2>3
  <1> QED BY <1>7, <1>8, <1>9, <1>10, <1>11, <1>12

LEMMA VisitStep ==
    ASSUME NEW q \in Asked, VisitIInv(q), Pages(q)!PagesNext \/ UNCHANGED pagesVars
    PROVE  VisitIInv(q)'
  <1>1. CASE UNCHANGED pagesVars
    BY <1>1 DEF VisitIInv, pagesVars
  <1>2. CASE Pages(q)!PagesNext
    BY <1>2, ServerStands, QueryStands, BrowsingStands DEF Pages!PagesNext
  <1> QED BY <1>1, <1>2

-----------------------------------------------------------------------------
(* Releases.                                                                 *)

ComposeFiles == {"mail", "admin", "release"}
Managed == <<"mail", "admin", "release">>

BackupRow(last) == [files : [ComposeFiles -> 0..last], ran : 0..last]

HostRow(last) ==
    [files : [ComposeFiles -> 0..last], saved : Seq(BackupRow(last)), last : Nat, schema : Nat,
     release : 0..last, ids : Nat, healthy : BOOLEAN, raced : BOOLEAN]

ChannelRow(last) == [target : 0..last, ids : Nat, previous : 0..last, previousIds : Nat]

PublisherRow(last) == [of : 0..last, at : {"IDLE", "BUILD", "INSPECT", "REPLACE"}, ids : Nat]

WorkerRow ==
    [at : {"IDLE", "MIGRATE", "BACKUP", "SWAP", "POINT", "UP", "RESTORE", "GO_BACK", "USED"},
     step : Nat]

ReleaseTypes(publishers, last) ==
    /\ tag \in [0..last -> Nat] /\ published \in [0..last -> Nat]
    /\ publisher \in [publishers -> PublisherRow(last)]
    /\ channel \in ChannelRow(last)
    /\ host \in HostRow(last)
    /\ operator \in [{o3} -> WorkerRow]

Restored(files, back, step) ==
    \A i \in 1..3 : i < step => files[Managed[i]] = back.files[Managed[i]]

Swapped(files, r, step) == \A i \in 1..3 : i < step => files[Managed[i]] = r

(* How far a deployment, or a rollback, has come.                            *)
StageStands(w, c, h) ==
    /\ w.at \notin {"IDLE"} => c.target # 0
    /\ w.at \in {"BACKUP", "SWAP", "POINT", "UP"} => c.target <= h.schema
    /\ w.at = "SWAP" => w.step \in 1..3 /\ Swapped(h.files, c.target, w.step)
    /\ w.at \in {"POINT", "UP"} => Swapped(h.files, c.target, 4)
    /\ w.at \in {"RESTORE", "GO_BACK", "USED"} => h.last # 0
    /\ w.at = "RESTORE" => w.step \in 1..3 /\ Restored(h.files, h.saved[h.last], w.step)
    /\ w.at \in {"GO_BACK", "USED"} => Restored(h.files, h.saved[h.last], 4)
    /\ w.at = "USED" => h.release = c.previous

(* What runs, what the channel is bound to, and what a script has verified   *)
(* is what was published, unless images were built under a script.           *)
ImagesStand(w, c, h, tags, manifests) ==
    ~h.raced =>
        /\ h.ids = manifests[h.release] /\ h.ids # 0
        /\ c.target # 0 =>
              /\ c.ids = manifests[c.target] /\ c.ids # 0
              /\ c.previousIds = manifests[c.previous] /\ c.previousIds # 0
        /\ w.at \in {"MIGRATE", "BACKUP", "SWAP", "POINT", "UP"} => tags[c.target] = c.ids
        /\ w.at \in {"RESTORE", "GO_BACK"} => tags[c.previous] = c.previousIds

Migrated(c, h) ==
    /\ h.release <= h.schema /\ h.last <= Len(h.saved)
    /\ c.target # 0 => c.previous <= h.schema

ReleaseIInv(publishers, last) ==
    /\ ReleaseTypes(publishers, last)
    /\ Migrated(channel, host)
    /\ StageStands(operator[o3], channel, host)
    /\ ImagesStand(operator[o3], channel, host, tag, published)

LEMMA ComposeFilesAre ==
    ASSUME NEW publishers, NEW last, NEW builds
    PROVE  /\ Release(publishers, last, builds)!Files = ComposeFiles
           /\ Release(publishers, last, builds)!Managed = Managed
           /\ \A f \in ComposeFiles : \E i \in 1..3 : f = Managed[i]
           /\ \A i \in 1..3 : Managed[i] \in ComposeFiles
           /\ Managed[3] = "release"
  <1>1. /\ \A i \in 1..3 : i = 1 \/ i = 2 \/ i = 3
        /\ Managed[1] = "mail" /\ Managed[2] = "admin" /\ Managed[3] = "release"
    BY DEF Managed
  <1>2. Release(publishers, last, builds)!Managed = Managed
    BY DEF Release!Managed, Managed
  <1>3. \A i \in 1..3 : Managed[i] \in ComposeFiles
    BY <1>1 DEF ComposeFiles
  <1>4. \A f \in ComposeFiles : \E i \in 1..3 : f = Managed[i]
    BY <1>1 DEF ComposeFiles
  <1>5. Release(publishers, last, builds)!Files = ComposeFiles
    BY <1>2, <1>3, <1>4 DEF Release!Files
  <1> QED BY <1>1, <1>2, <1>3, <1>4, <1>5

LEMMA ReleasesInitially ==
    ASSUME NEW publishers, NEW last \in Nat, NEW builds,
           Release(publishers, last, builds)!ReleasesInit
    PROVE  ReleaseIInv(publishers, last)
  <1>1. /\ tag = [r \in 0..last |-> IF r = 0 THEN 1 ELSE 0] /\ published = tag
        /\ publisher = [p \in publishers |-> [of |-> 0, at |-> "IDLE", ids |-> 0]]
        /\ channel = [target |-> 0, ids |-> 0, previous |-> 0, previousIds |-> 0]
        /\ operator = [o \in {o3} |-> [at |-> "IDLE", step |-> 0]]
        /\ host = [files |-> [f \in ComposeFiles |-> 0], saved |-> <<>>, last |-> 0, schema |-> 0,
                   release |-> 0, ids |-> tag[0], healthy |-> TRUE, raced |-> FALSE]
    BY ComposeFilesAre
       DEF Release!ReleasesInit, Release!All, Release!NoPublisher, Release!NoOperator,
           Release!Unbuilt
  <1>2. 0 \in 0..last /\ tag \in [0..last -> Nat] /\ tag[0] = 1 /\ published = tag
    BY <1>1
  <1>3. publisher \in [publishers -> PublisherRow(last)]
    BY <1>1, <1>2 DEF PublisherRow
  <1>4. channel \in ChannelRow(last) /\ channel.target = 0
    BY <1>1, <1>2 DEF ChannelRow
  <1>5. operator \in [{o3} -> WorkerRow] /\ operator[o3].at = "IDLE"
    BY <1>1 DEF WorkerRow
  <1>6. /\ host \in HostRow(last) /\ host.release = 0 /\ host.schema = 0 /\ host.last = 0
        /\ host.ids = 1 /\ Len(host.saved) = 0
    <2>1. [f \in ComposeFiles |-> 0] \in [ComposeFiles -> 0..last]
      BY <1>2
    <2>2. <<>> \in Seq(BackupRow(last)) /\ Len(<<>>) = 0
      OBVIOUS
    <2> QED BY <1>1, <1>2, <2>1, <2>2 DEF HostRow
  <1> QED BY <1>2, <1>3, <1>4, <1>5, <1>6 DEF ReleaseIInv, ReleaseTypes, Migrated, StageStands,
                                              ImagesStand

LEMMA ReleasesHoldThen ==
    ASSUME NEW publishers, NEW last \in Nat, NEW builds, ReleaseIInv(publishers, last)
    PROVE  Release(publishers, last, builds)!ReleasesHold
  <1>1. Release(publishers, last, builds)!RunsWhatWasPublished
    BY DEF ReleaseIInv, Migrated, ImagesStand, Release!RunsWhatWasPublished
  <1>2. \A files, r : Swapped(files, r, 4) => \A f \in ComposeFiles : files[f] = r
    BY ComposeFilesAre DEF Swapped
  <1>3. Release(publishers, last, builds)!SwappedWhole
    BY <1>2, ComposeFilesAre
       DEF ReleaseIInv, StageStands, Release!SwappedWhole, Release!Declared
  <1>4. \A files, back : Restored(files, back, 4) =>
            \A f \in ComposeFiles : files[f] = back.files[f]
    BY ComposeFilesAre DEF Restored
  <1>5. Release(publishers, last, builds)!RollbackReturns
    BY <1>4, ComposeFilesAre
       DEF ReleaseIInv, StageStands, Release!RollbackReturns, Release!Declared
  <1> QED BY <1>1, <1>3, <1>5 DEF Release!ReleasesHold

(* The rows after the ways a step writes them.                               *)
LEMMA HostFields ==
    ASSUME NEW last, NEW h \in HostRow(last)
    PROVE  /\ h.files \in [ComposeFiles -> 0..last] /\ h.saved \in Seq(BackupRow(last))
           /\ h.last \in Nat /\ h.schema \in Nat /\ h.release \in 0..last /\ h.ids \in Nat
           /\ h.raced \in BOOLEAN
  BY DEF HostRow

LEMMA FilesChange ==
    ASSUME NEW last, NEW h \in HostRow(last), NEW v \in [ComposeFiles -> 0..last]
    PROVE  LET w == [h EXCEPT !.files = v]
           IN  /\ w \in HostRow(last) /\ w.files = v
               /\ w.saved = h.saved /\ w.last = h.last /\ w.schema = h.schema
               /\ w.release = h.release /\ w.ids = h.ids /\ w.raced = h.raced
  BY DEF HostRow

LEMMA BackupsChange ==
    ASSUME NEW last, NEW h \in HostRow(last), NEW v \in Seq(BackupRow(last))
    PROVE  LET w == [h EXCEPT !.saved = v]
           IN  /\ w \in HostRow(last) /\ w.saved = v
               /\ w.files = h.files /\ w.last = h.last /\ w.schema = h.schema
               /\ w.release = h.release /\ w.ids = h.ids /\ w.raced = h.raced
  BY DEF HostRow

LEMMA LastChanges ==
    ASSUME NEW last, NEW h \in HostRow(last), NEW v \in Nat
    PROVE  LET w == [h EXCEPT !.last = v]
           IN  /\ w \in HostRow(last) /\ w.last = v
               /\ w.files = h.files /\ w.saved = h.saved /\ w.schema = h.schema
               /\ w.release = h.release /\ w.ids = h.ids /\ w.raced = h.raced
  BY DEF HostRow

LEMMA SchemaChanges ==
    ASSUME NEW last, NEW h \in HostRow(last), NEW v \in Nat
    PROVE  LET w == [h EXCEPT !.schema = v]
           IN  /\ w \in HostRow(last) /\ w.schema = v
               /\ w.files = h.files /\ w.saved = h.saved /\ w.last = h.last
               /\ w.release = h.release /\ w.ids = h.ids /\ w.raced = h.raced
  BY DEF HostRow

LEMMA RacedChanges ==
    ASSUME NEW last, NEW h \in HostRow(last), NEW v \in BOOLEAN
    PROVE  LET w == [h EXCEPT !.raced = v]
           IN  /\ w \in HostRow(last) /\ w.raced = v
               /\ w.files = h.files /\ w.saved = h.saved /\ w.last = h.last
               /\ w.schema = h.schema /\ w.release = h.release /\ w.ids = h.ids
  BY DEF HostRow

LEMMA WorkerGoes ==
    ASSUME operator \in [{o3} -> WorkerRow],
           NEW at \in {"IDLE", "MIGRATE", "BACKUP", "SWAP", "POINT", "UP", "RESTORE", "GO_BACK",
                       "USED"},
           NEW step \in Nat,
           operator' = [operator EXCEPT ![o3] = [at |-> at, step |-> step]]
    PROVE  /\ operator' \in [{o3} -> WorkerRow]
           /\ operator'[o3].at = at /\ operator'[o3].step = step
  <1>1. [at |-> at, step |-> step] \in WorkerRow
    BY DEF WorkerRow
  <1>2. operator' \in [{o3} -> WorkerRow] /\ operator'[o3] = [at |-> at, step |-> step]
    BY <1>1
  <1> QED BY <1>2

(* The changes a deployment makes to the host, after a step that went on.    *)
LEMMA ReleaseMoves ==
    ASSUME NEW publishers, NEW last, ReleaseIInv(publishers, last),
           UNCHANGED <<tag, published, publisher>>,
           channel' \in ChannelRow(last), host' \in HostRow(last),
           operator' \in [{o3} -> WorkerRow],
           Migrated(channel', host'), StageStands(operator'[o3], channel', host'),
           ImagesStand(operator'[o3], channel', host', tag, published)
    PROVE  ReleaseIInv(publishers, last)'
  BY DEF ReleaseIInv, ReleaseTypes

LEMMA ChannelStands ==
    ASSUME NEW publishers, NEW last \in Nat, NEW builds, ReleaseIInv(publishers, last),
           NEW r \in Release(publishers, last, builds)!All,
           Release(publishers, last, builds)!InstallChannel(o3, r),
           UNCHANGED <<tag, published, publisher>>
    PROVE  ReleaseIInv(publishers, last)'
  <1> USE DEF Release!InstallChannel
  <1>1. /\ host \in HostRow(last) /\ host.release \in 0..last /\ host.ids \in Nat
        /\ host.schema \in Nat
    BY HostFields DEF ReleaseIInv, ReleaseTypes
  <1>2. r \in 0..last /\ published[r] \in Nat
    BY DEF Release!All, ReleaseIInv, ReleaseTypes
  <1>3. /\ channel' \in ChannelRow(last)
        /\ channel'.target = r /\ channel'.ids = published[r]
        /\ channel'.previous = host.release /\ channel'.previousIds = host.ids
    BY <1>1, <1>2 DEF ChannelRow
  <1>4. UNCHANGED <<host, operator>> /\ operator \in [{o3} -> WorkerRow] /\ operator[o3].at = "IDLE"
    BY DEF ReleaseIInv, ReleaseTypes, Release!Idle, Release!NoOperator
  <1>5. r # 0 /\ published[r] # 0
    BY DEF Release!Unbuilt
  <1> HIDE DEF Release!InstallChannel
  <1>6. Migrated(channel', host)
    BY <1>1, <1>3 DEF ReleaseIInv, Migrated
  <1>7. StageStands(operator[o3], channel', host)
    BY <1>3, <1>4, <1>5 DEF StageStands
  <1>8. ImagesStand(operator[o3], channel', host, tag, published)
    BY <1>3, <1>4, <1>5 DEF ReleaseIInv, ImagesStand
  <1> QED BY <1>1, <1>3, <1>4, <1>6, <1>7, <1>8, ReleaseMoves

(* A deployment goes on.                                                     *)
LEMMA DeploymentStands ==
    ASSUME NEW publishers, NEW last \in Nat, NEW builds, ReleaseIInv(publishers, last),
           UNCHANGED <<tag, published, publisher, channel>>,
           \/ Release(publishers, last, builds)!Verify(o3)
           \/ Release(publishers, last, builds)!Migrate(o3)
           \/ Release(publishers, last, builds)!Backup(o3)
           \/ Release(publishers, last, builds)!Swap(o3)
           \/ Release(publishers, last, builds)!Point(o3)
           \/ Release(publishers, last, builds)!Up(o3)
    PROVE  ReleaseIInv(publishers, last)'
  <1> USE DEF Release!Goes, Release!Ends, Release!NoOperator
  <1>1. /\ host \in HostRow(last) /\ operator \in [{o3} -> WorkerRow]
        /\ channel \in ChannelRow(last)
        /\ host.files \in [ComposeFiles -> 0..last] /\ host.saved \in Seq(BackupRow(last))
        /\ host.last \in Nat /\ host.schema \in Nat /\ host.release \in 0..last
        /\ tag \in [0..last -> Nat]
    BY HostFields DEF ReleaseIInv, ReleaseTypes
  <1>2. channel.target \in 0..last /\ channel.previous \in 0..last /\ channel.target \in Nat
    BY <1>1 DEF ChannelRow
  <1>3. /\ Migrated(channel, host) /\ StageStands(operator[o3], channel, host)
        /\ ImagesStand(operator[o3], channel, host, tag, published)
    BY DEF ReleaseIInv
  <1>4. operator[o3].step \in Nat
    BY <1>1 DEF WorkerRow
  <1>5. ASSUME host' \in HostRow(last), operator' \in [{o3} -> WorkerRow],
               Migrated(channel, host'), StageStands(operator'[o3], channel, host'),
               ImagesStand(operator'[o3], channel, host', tag, published)
        PROVE  ReleaseIInv(publishers, last)'
    BY <1>1, <1>5, ReleaseMoves
  <1>6. CASE Release(publishers, last, builds)!Verify(o3)
    <2>1. /\ operator' \in [{o3} -> WorkerRow] /\ operator'[o3].at = "MIGRATE"
          /\ UNCHANGED host /\ channel.target # 0 /\ tag[channel.target] = channel.ids
      BY <1>1, <1>6, WorkerGoes DEF Release!Verify, Release!AfterVerify, Release!ExactImage
    <2>2. StageStands(operator'[o3], channel, host)
      BY <2>1 DEF StageStands
    <2>3. ImagesStand(operator'[o3], channel, host, tag, published)
      BY <1>3, <2>1 DEF ImagesStand
    <2> QED BY <1>1, <1>3, <1>5, <2>1, <2>2, <2>3
  <1>7. CASE Release(publishers, last, builds)!Migrate(o3)
    <2>1. CASE /\ operator' = [operator EXCEPT ![o3] = [at |-> "IDLE", step |-> 0]]
               /\ UNCHANGED host
      <3>1. operator' \in [{o3} -> WorkerRow] /\ operator'[o3].at = "IDLE"
        BY <1>1, <2>1, WorkerGoes
      <3>2. StageStands(operator'[o3], channel, host)
        BY <3>1 DEF StageStands
      <3>3. ImagesStand(operator'[o3], channel, host, tag, published)
        BY <1>3, <3>1 DEF ImagesStand
      <3> QED BY <1>1, <1>3, <1>5, <2>1, <3>1, <3>2, <3>3
    <2>2. CASE /\ host.schema <= channel.target
               /\ host' = [host EXCEPT !.schema = channel.target]
               /\ operator' = [operator EXCEPT ![o3] = [at |-> "BACKUP", step |-> 0]]
      <3>1. operator' \in [{o3} -> WorkerRow] /\ operator'[o3].at = "BACKUP"
        BY <1>1, <2>2, WorkerGoes
      <3>2. /\ host' \in HostRow(last) /\ host'.schema = channel.target
            /\ host'.files = host.files /\ host'.saved = host.saved /\ host'.last = host.last
            /\ host'.release = host.release /\ host'.ids = host.ids /\ host'.raced = host.raced
        BY <1>1, <1>2, <2>2, SchemaChanges
      <3>3. operator[o3].at = "MIGRATE" /\ host.schema <= channel.target
        BY <1>7, <2>2 DEF Release!Migrate
      <3>4. Migrated(channel, host')
        BY <1>1, <1>2, <1>3, <3>2, <3>3 DEF Migrated
      <3>5. StageStands(operator'[o3], channel, host')
        BY <1>2, <1>3, <3>1, <3>2, <3>3 DEF StageStands
      <3>6. ImagesStand(operator'[o3], channel, host', tag, published)
        BY <1>3, <3>1, <3>2, <3>3 DEF ImagesStand
      <3> QED BY <1>5, <3>1, <3>2, <3>4, <3>5, <3>6
    <2> QED BY <1>7, <2>1, <2>2 DEF Release!Migrate
  <1>8. CASE Release(publishers, last, builds)!Backup(o3)
    <2>1. PICK saved2 : saved2 = Append(host.saved, [files |-> host.files, ran |-> host.release])
      OBVIOUS
    <2>2. saved2 \in Seq(BackupRow(last)) /\ Len(saved2) = Len(host.saved) + 1
      <3>1. [files |-> host.files, ran |-> host.release] \in BackupRow(last)
        BY <1>1 DEF BackupRow
      <3> QED BY <1>1, <2>1, <3>1
    <2>3. host' = [host EXCEPT !.saved = saved2]
      BY <1>8, <2>1 DEF Release!Backup
    <2>4. /\ host' \in HostRow(last) /\ host'.saved = saved2
          /\ host'.files = host.files /\ host'.last = host.last /\ host'.schema = host.schema
          /\ host'.release = host.release /\ host'.ids = host.ids /\ host'.raced = host.raced
      BY <1>1, <2>2, <2>3, BackupsChange
    <2>5. /\ operator' \in [{o3} -> WorkerRow] /\ operator[o3].at = "BACKUP"
          /\ operator'[o3].at = "SWAP" /\ operator'[o3].step = 1
      BY <1>1, <1>8, WorkerGoes DEF Release!Backup
    <2>6. Len(host.saved) \in Nat
      BY <1>1
    <2>7. Migrated(channel, host')
      BY <1>1, <1>3, <2>2, <2>4, <2>6 DEF Migrated
    <2>8. StageStands(operator'[o3], channel, host')
      BY <1>3, <2>4, <2>5 DEF StageStands, Swapped
    <2>9. ImagesStand(operator'[o3], channel, host', tag, published)
      BY <1>3, <2>4, <2>5 DEF ImagesStand
    <2> QED BY <1>5, <2>4, <2>5, <2>7, <2>8, <2>9
  <1>9. CASE Release(publishers, last, builds)!Swap(o3)
    <2>1. PICK k \in 1..3 : k = operator[o3].step /\ operator[o3].at = "SWAP"
      BY <1>3, <1>9 DEF StageStands, Release!Swap
    <2>2. PICK files : files = [host.files EXCEPT ![Managed[k]] = channel.target]
      OBVIOUS
    <2>3. files \in [ComposeFiles -> 0..last] /\ Swapped(files, channel.target, k + 1)
      <3>1. Swapped(host.files, channel.target, k)
        BY <1>3, <2>1 DEF StageStands
      <3>2. \A i \in 1..3 : i < k + 1 => i < k \/ i = k
        OBVIOUS
      <3> QED BY <1>1, <1>2, <2>2, <3>1, <3>2, ComposeFilesAre DEF Swapped
    <2>4. host' = [host EXCEPT !.files = files]
      BY <1>9, <2>1, <2>2, ComposeFilesAre DEF Release!Swap
    <2>5. /\ host' \in HostRow(last) /\ host'.files = files
          /\ host'.saved = host.saved /\ host'.last = host.last /\ host'.schema = host.schema
          /\ host'.release = host.release /\ host'.ids = host.ids /\ host'.raced = host.raced
      BY <1>1, <2>3, <2>4, FilesChange
    <2>6. /\ operator' \in [{o3} -> WorkerRow]
          /\ \/ k < 3 /\ operator'[o3].at = "SWAP" /\ operator'[o3].step = k + 1
             \/ k = 3 /\ operator'[o3].at = "POINT"
      <3>1. CASE k < 3
        <4>1. operator' = [operator EXCEPT ![o3] = [at |-> "SWAP", step |-> k + 1]]
          BY <1>9, <2>1, <3>1 DEF Release!Swap, Release!AfterStep
        <4>2. k + 1 \in Nat
          OBVIOUS
        <4> QED BY <1>1, <3>1, <4>1, <4>2, WorkerGoes
      <3>2. CASE k = 3
        <4>1. operator' = [operator EXCEPT ![o3] = [at |-> "POINT", step |-> 0]]
          BY <1>9, <2>1, <3>2 DEF Release!Swap, Release!AfterStep
        <4> QED BY <1>1, <2>1, <3>2, <4>1, WorkerGoes
      <3> QED BY <3>1, <3>2
    <2>7. Migrated(channel, host')
      BY <1>3, <2>5 DEF Migrated
    <2>8. StageStands(operator'[o3], channel, host')
      BY <1>3, <2>1, <2>3, <2>5, <2>6 DEF StageStands
    <2>9. ImagesStand(operator'[o3], channel, host', tag, published)
      BY <1>3, <2>1, <2>5, <2>6 DEF ImagesStand
    <2> QED BY <1>5, <2>5, <2>6, <2>7, <2>8, <2>9
  <1>10. CASE Release(publishers, last, builds)!Point(o3)
    <2>1. Len(host.saved) \in Nat /\ host' = [host EXCEPT !.last = Len(host.saved)]
      BY <1>1, <1>10 DEF Release!Point
    <2>2. /\ host' \in HostRow(last) /\ host'.last = Len(host.saved)
          /\ host'.files = host.files /\ host'.saved = host.saved /\ host'.schema = host.schema
          /\ host'.release = host.release /\ host'.ids = host.ids /\ host'.raced = host.raced
      BY <1>1, <2>1, LastChanges
    <2>3. /\ operator' \in [{o3} -> WorkerRow] /\ operator[o3].at = "POINT"
          /\ operator'[o3].at = "UP"
      BY <1>1, <1>10, WorkerGoes DEF Release!Point
    <2>4. Migrated(channel, host')
      BY <1>3, <2>1, <2>2 DEF Migrated
    <2>5. StageStands(operator'[o3], channel, host')
      BY <1>3, <2>2, <2>3 DEF StageStands
    <2>6. ImagesStand(operator'[o3], channel, host', tag, published)
      BY <1>3, <2>2, <2>3 DEF ImagesStand
    <2> QED BY <1>5, <2>2, <2>3, <2>4, <2>5, <2>6
  <1>11. CASE Release(publishers, last, builds)!Up(o3)
    <2>1. operator[o3].at = "UP" /\ host.files["release"] = channel.target
      <3>1. operator[o3].at = "UP" /\ Swapped(host.files, channel.target, 4)
        BY <1>3, <1>11 DEF StageStands, Release!Up
      <3> QED BY <3>1, ComposeFilesAre DEF Swapped
    <2>2. PICK healthy \in BOOLEAN :
             host' = [host EXCEPT !.release = channel.target, !.ids = tag[channel.target],
                                  !.healthy = healthy]
      BY <1>11, <2>1 DEF Release!Up
    <2>3. /\ host' \in HostRow(last)
          /\ host'.release = channel.target /\ host'.ids = tag[channel.target]
          /\ host'.files = host.files /\ host'.saved = host.saved /\ host'.schema = host.schema
          /\ host'.last = host.last /\ host'.raced = host.raced
      <3>1. tag[channel.target] \in Nat
        BY <1>1, <1>2
      <3> QED BY <1>1, <1>2, <2>2, <3>1 DEF HostRow
    <2>4. operator' \in [{o3} -> WorkerRow] /\ operator'[o3].at = "IDLE"
      BY <1>1, <1>11, WorkerGoes DEF Release!Up
    <2>5. Migrated(channel, host')
      BY <1>3, <2>1, <2>3 DEF Migrated, StageStands
    <2>6. StageStands(operator'[o3], channel, host')
      BY <2>4 DEF StageStands
    <2>7. ImagesStand(operator'[o3], channel, host', tag, published)
      BY <1>3, <2>1, <2>3, <2>4 DEF ImagesStand, StageStands
    <2> QED BY <1>5, <2>3, <2>4, <2>5, <2>6, <2>7
  <1> QED BY <1>6, <1>7, <1>8, <1>9, <1>10, <1>11

(* A rollback goes on, or a script stops.                                    *)
LEMMA RollbackStands ==
    ASSUME NEW publishers, NEW last \in Nat, NEW builds, ReleaseIInv(publishers, last),
           UNCHANGED <<tag, published, publisher, channel>>,
           \/ Release(publishers, last, builds)!StartRollback(o3)
           \/ Release(publishers, last, builds)!RestoreFile(o3)
           \/ Release(publishers, last, builds)!GoBack(o3)
           \/ Release(publishers, last, builds)!UsePointer(o3)
           \/ Release(publishers, last, builds)!Stop(o3)
    PROVE  ReleaseIInv(publishers, last)'
  <1> USE DEF Release!Goes, Release!Ends, Release!NoOperator
  <1>1. /\ host \in HostRow(last) /\ operator \in [{o3} -> WorkerRow]
        /\ channel \in ChannelRow(last)
        /\ host.files \in [ComposeFiles -> 0..last] /\ host.saved \in Seq(BackupRow(last))
        /\ host.last \in Nat /\ host.schema \in Nat /\ host.release \in 0..last
        /\ tag \in [0..last -> Nat]
    BY HostFields DEF ReleaseIInv, ReleaseTypes
  <1>2. channel.target \in 0..last /\ channel.previous \in 0..last
    BY <1>1 DEF ChannelRow
  <1>3. /\ Migrated(channel, host) /\ StageStands(operator[o3], channel, host)
        /\ ImagesStand(operator[o3], channel, host, tag, published)
    BY DEF ReleaseIInv
  <1>4. ASSUME host' \in HostRow(last), operator' \in [{o3} -> WorkerRow],
               Migrated(channel, host'), StageStands(operator'[o3], channel, host'),
               ImagesStand(operator'[o3], channel, host', tag, published)
        PROVE  ReleaseIInv(publishers, last)'
    BY <1>1, <1>4, ReleaseMoves
  <1>5. CASE Release(publishers, last, builds)!StartRollback(o3)
    <2>1. /\ operator' \in [{o3} -> WorkerRow] /\ operator'[o3].at = "RESTORE"
          /\ operator'[o3].step = 1 /\ UNCHANGED host
          /\ channel.target # 0 /\ host.last # 0
          /\ tag[channel.previous] = channel.previousIds
      BY <1>1, <1>5, WorkerGoes DEF Release!StartRollback, Release!ExactImage
    <2>2. StageStands(operator'[o3], channel, host)
      BY <2>1 DEF StageStands, Restored
    <2>3. ImagesStand(operator'[o3], channel, host, tag, published)
      BY <1>3, <2>1 DEF ImagesStand
    <2> QED BY <1>1, <1>3, <1>4, <2>1, <2>2, <2>3
  <1>6. CASE Release(publishers, last, builds)!RestoreFile(o3)
    <2>1. PICK k \in 1..3 : k = operator[o3].step /\ operator[o3].at = "RESTORE"
      BY <1>3, <1>6 DEF StageStands, Release!RestoreFile
    <2>2. PICK back : back = host.saved[host.last]
      OBVIOUS
    <2>3. back \in BackupRow(last) /\ back.files \in [ComposeFiles -> 0..last]
      <3>1. host.last \in 1..Len(host.saved)
        BY <1>1, <1>3, <2>1 DEF StageStands, Migrated
      <3>2. back \in BackupRow(last)
        BY <1>1, <2>2, <3>1
      <3> QED BY <3>2 DEF BackupRow
    <2>4. PICK files : files = [host.files EXCEPT ![Managed[k]] = back.files[Managed[k]]]
      OBVIOUS
    <2>5. files \in [ComposeFiles -> 0..last] /\ Restored(files, back, k + 1)
      <3>1. Restored(host.files, back, k)
        BY <1>3, <2>1, <2>2 DEF StageStands
      <3>2. \A i \in 1..3 : i < k + 1 => i < k \/ i = k
        OBVIOUS
      <3> QED BY <1>1, <2>3, <2>4, <3>1, <3>2, ComposeFilesAre DEF Restored
    <2>6. host' = [host EXCEPT !.files = files]
      BY <1>6, <2>1, <2>2, <2>4, ComposeFilesAre DEF Release!RestoreFile
    <2>7. /\ host' \in HostRow(last) /\ host'.files = files
          /\ host'.saved = host.saved /\ host'.last = host.last /\ host'.schema = host.schema
          /\ host'.release = host.release /\ host'.ids = host.ids /\ host'.raced = host.raced
      BY <1>1, <2>5, <2>6 DEF HostRow
    <2>8. /\ operator' \in [{o3} -> WorkerRow]
          /\ \/ k < 3 /\ operator'[o3].at = "RESTORE" /\ operator'[o3].step = k + 1
             \/ k = 3 /\ operator'[o3].at = "GO_BACK"
      <3>1. CASE k < 3
        <4>1. operator' = [operator EXCEPT ![o3] = [at |-> "RESTORE", step |-> k + 1]]
          BY <1>6, <2>1, <3>1 DEF Release!RestoreFile, Release!AfterStep
        <4>2. k + 1 \in Nat
          OBVIOUS
        <4> QED BY <1>1, <3>1, <4>1, <4>2, WorkerGoes
      <3>2. CASE k = 3
        <4>1. operator' = [operator EXCEPT ![o3] = [at |-> "GO_BACK", step |-> 0]]
          BY <1>6, <2>1, <3>2 DEF Release!RestoreFile, Release!AfterStep
        <4> QED BY <1>1, <2>1, <3>2, <4>1, WorkerGoes
      <3> QED BY <3>1, <3>2
    <2>9. Migrated(channel, host')
      BY <1>3, <2>7 DEF Migrated
    <2>10. StageStands(operator'[o3], channel, host')
      BY <1>3, <2>1, <2>2, <2>5, <2>7, <2>8 DEF StageStands
    <2>11. ImagesStand(operator'[o3], channel, host', tag, published)
      BY <1>3, <2>1, <2>7, <2>8 DEF ImagesStand
    <2> QED BY <1>4, <2>7, <2>8, <2>9, <2>10, <2>11
  <1>7. CASE Release(publishers, last, builds)!GoBack(o3)
    <2>1. /\ operator[o3].at = "GO_BACK"
          /\ host' = [host EXCEPT !.release = channel.previous, !.ids = tag[channel.previous],
                                  !.healthy = TRUE]
      BY <1>7 DEF Release!GoBack
    <2>2. /\ host' \in HostRow(last)
          /\ host'.release = channel.previous /\ host'.ids = tag[channel.previous]
          /\ host'.files = host.files /\ host'.saved = host.saved /\ host'.schema = host.schema
          /\ host'.last = host.last /\ host'.raced = host.raced
      <3>1. tag[channel.previous] \in Nat
        BY <1>1, <1>2
      <3> QED BY <1>1, <1>2, <2>1, <3>1 DEF HostRow
    <2>3. operator' \in [{o3} -> WorkerRow] /\ operator'[o3].at = "USED"
      BY <1>1, <1>7, WorkerGoes DEF Release!GoBack
    <2>4. Migrated(channel, host')
      BY <1>3, <2>1, <2>2 DEF Migrated, StageStands
    <2>5. StageStands(operator'[o3], channel, host')
      BY <1>3, <2>1, <2>2, <2>3 DEF StageStands
    <2>6. ImagesStand(operator'[o3], channel, host', tag, published)
      BY <1>3, <2>1, <2>2, <2>3 DEF ImagesStand, StageStands
    <2> QED BY <1>4, <2>2, <2>3, <2>4, <2>5, <2>6
  <1>8. CASE Release(publishers, last, builds)!UsePointer(o3)
    <2>1. /\ host' \in HostRow(last) /\ host'.last = 0
          /\ host'.files = host.files /\ host'.saved = host.saved /\ host'.schema = host.schema
          /\ host'.release = host.release /\ host'.ids = host.ids /\ host'.raced = host.raced
      BY <1>1, <1>8 DEF Release!UsePointer, HostRow
    <2>2. operator' \in [{o3} -> WorkerRow] /\ operator'[o3].at = "IDLE"
      BY <1>1, <1>8, WorkerGoes DEF Release!UsePointer
    <2>3. Len(host.saved) \in Nat
      BY <1>1
    <2>4. Migrated(channel, host')
      BY <1>3, <2>1, <2>3 DEF Migrated
    <2>5. StageStands(operator'[o3], channel, host')
      BY <2>2 DEF StageStands
    <2>6. ImagesStand(operator'[o3], channel, host', tag, published)
      BY <1>3, <2>1, <2>2 DEF ImagesStand
    <2> QED BY <1>4, <2>1, <2>2, <2>4, <2>5, <2>6
  <1>9. CASE Release(publishers, last, builds)!Stop(o3)
    <2>1. operator' \in [{o3} -> WorkerRow] /\ operator'[o3].at = "IDLE" /\ UNCHANGED host
      BY <1>1, <1>9, WorkerGoes DEF Release!Stop
    <2>2. StageStands(operator'[o3], channel, host)
      BY <2>1 DEF StageStands
    <2>3. ImagesStand(operator'[o3], channel, host, tag, published)
      BY <1>3, <2>1 DEF ImagesStand
    <2> QED BY <1>1, <1>3, <1>4, <2>1, <2>2, <2>3
  <1> QED BY <1>5, <1>6, <1>7, <1>8, <1>9

(* Publishing: a manifest is never replaced, and images built under a script *)
(* are known.                                                                *)
LEMMA PublishingStands ==
    ASSUME NEW publishers, NEW last \in Nat, NEW builds, ReleaseIInv(publishers, last),
           Release(publishers, last, builds)!Publish
    PROVE  ReleaseIInv(publishers, last)'
  <1> USE DEF Release!Unbuilt, Release!All
  <1>1. /\ host \in HostRow(last) /\ operator \in [{o3} -> WorkerRow]
        /\ channel \in ChannelRow(last)
        /\ tag \in [0..last -> Nat] /\ published \in [0..last -> Nat]
        /\ publisher \in [publishers -> PublisherRow(last)]
        /\ host.release \in 0..last /\ host.raced \in BOOLEAN
    BY HostFields DEF ReleaseIInv, ReleaseTypes
  <1>2. channel.target \in 0..last /\ channel.previous \in 0..last
    BY <1>1 DEF ChannelRow
  <1>3. /\ Migrated(channel, host) /\ StageStands(operator[o3], channel, host)
        /\ ImagesStand(operator[o3], channel, host, tag, published)
    BY DEF ReleaseIInv
  <1>4. UNCHANGED <<channel, operator>>
    BY DEF Release!Publish
  <1>5. \A p \in publishers : publisher[p].of \in 0..last /\ publisher[p].ids \in Nat
    BY <1>1 DEF PublisherRow
  <1>6. [of |-> 0, at |-> "IDLE", ids |-> 0] \in PublisherRow(last)
    BY DEF PublisherRow
  <1>7. ASSUME NEW p \in publishers, NEW r \in 0..last, Release(publishers, last, builds)!Check(p, r),
               UNCHANGED host
        PROVE  ReleaseIInv(publishers, last)'
    <2>1. [of |-> r, at |-> "BUILD", ids |-> 0] \in PublisherRow(last)
      BY DEF PublisherRow
    <2>2. publisher' \in [publishers -> PublisherRow(last)]
      BY <1>1, <1>7, <2>1 DEF Release!Check
    <2>3. UNCHANGED <<tag, published>>
      BY <1>7 DEF Release!Check
    <2> QED BY <1>1, <1>3, <1>4, <1>7, <2>2, <2>3 DEF ReleaseIInv, ReleaseTypes
  <1>8. ASSUME NEW p \in publishers, Release(publishers, last, builds)!Inspect(p), UNCHANGED host
        PROVE  ReleaseIInv(publishers, last)'
    <2>1. publisher' = [publisher EXCEPT ![p] =
              [publisher[p] EXCEPT !.at = "REPLACE", !.ids = tag[publisher[p].of]]]
      BY <1>8 DEF Release!Inspect
    <2>2. ASSUME NEW a \in PublisherRow(last), NEW n \in Nat
          PROVE  [a EXCEPT !.at = "REPLACE", !.ids = n] \in PublisherRow(last)
      BY DEF PublisherRow
    <2>3. publisher' \in [publishers -> PublisherRow(last)]
      BY <1>1, <1>5, <2>1, <2>2
    <2>4. UNCHANGED <<tag, published>>
      BY <1>8 DEF Release!Inspect
    <2> QED BY <1>1, <1>3, <1>4, <1>8, <2>3, <2>4 DEF ReleaseIInv, ReleaseTypes
  <1>9. ASSUME NEW p \in publishers, Release(publishers, last, builds)!GiveUp(p), UNCHANGED host
        PROVE  ReleaseIInv(publishers, last)'
    <2>1. publisher' \in [publishers -> PublisherRow(last)]
      BY <1>1, <1>6, <1>9 DEF Release!GiveUp, Release!NoPublisher
    <2>2. UNCHANGED <<tag, published>>
      BY <1>9 DEF Release!GiveUp
    <2> QED BY <1>1, <1>3, <1>4, <1>9, <2>1, <2>2 DEF ReleaseIInv, ReleaseTypes
  <1>10. ASSUME NEW p \in publishers, Release(publishers, last, builds)!Replace(p), UNCHANGED host
         PROVE  ReleaseIInv(publishers, last)'
    <2>1. publisher' \in [publishers -> PublisherRow(last)]
      BY <1>1, <1>6, <1>10 DEF Release!Replace, Release!NoPublisher
    <2>2. /\ UNCHANGED tag /\ published' \in [0..last -> Nat]
          /\ \A r \in 0..last : published[r] # 0 => published'[r] = published[r]
      BY <1>1, <1>5, <1>10 DEF Release!Replace, Release!FreeDestination
    <2>3. ImagesStand(operator[o3], channel, host, tag, published')
      BY <1>1, <1>2, <1>3, <2>2 DEF ImagesStand
    <2> QED BY <1>1, <1>3, <1>4, <1>10, <2>1, <2>2, <2>3 DEF ReleaseIInv, ReleaseTypes
  <1>11. ASSUME NEW p \in publishers, Release(publishers, last, builds)!Build(p)
         PROVE  ReleaseIInv(publishers, last)'
    <2>1. PICK r \in 0..last : r = publisher[p].of
      BY <1>5
    <2>2. PICK new \in {tag[r], tag[r] + 1} \ {0} :
             /\ tag' = [tag EXCEPT ![r] = new]
             /\ host' = [host EXCEPT !.raced =
                   @ \/ (new # tag[r] /\ \E o \in {o3} : operator[o] # [at |-> "IDLE", step |-> 0])]
      BY <1>11, <2>1 DEF Release!Build, Release!NoOperator
    <2>3. PICK v \in BOOLEAN :
             v = (host.raced \/ (new # tag[r] /\ operator[o3] # [at |-> "IDLE", step |-> 0]))
      OBVIOUS
    <2>4. /\ host' \in HostRow(last) /\ host'.raced = v
          /\ host'.files = host.files /\ host'.saved = host.saved /\ host'.last = host.last
          /\ host'.schema = host.schema /\ host'.release = host.release /\ host'.ids = host.ids
      <3>1. host' = [host EXCEPT !.raced = v]
        BY <2>2, <2>3
      <3> QED BY <1>1, <3>1, RacedChanges
    <2>5. tag' \in [0..last -> Nat] /\ (new = tag[r] => tag' = tag)
      BY <1>1, <2>1, <2>2
    <2>6. ImagesStand(operator[o3], channel, host', tag', published)
      <3>1. ~v => ~host.raced /\ (tag' = tag \/ operator[o3].at = "IDLE")
        <4>1. operator[o3] = [at |-> "IDLE", step |-> 0] => operator[o3].at = "IDLE"
          OBVIOUS
        <4>2. ~v => ~host.raced /\ (new = tag[r] \/ operator[o3] = [at |-> "IDLE", step |-> 0])
          BY <1>1, <2>3
        <4> QED BY <2>5, <4>1, <4>2
      <3> QED BY <1>3, <2>4, <3>1 DEF ImagesStand
    <2>7. Migrated(channel, host') /\ StageStands(operator[o3], channel, host')
      BY <1>3, <2>4 DEF Migrated, StageStands
    <2>8. publisher' \in [publishers -> PublisherRow(last)] /\ UNCHANGED published
      <3>1. [publisher[p] EXCEPT !.at = "INSPECT"] \in PublisherRow(last)
        BY <1>1 DEF PublisherRow
      <3> QED BY <1>1, <1>11, <3>1 DEF Release!Build
    <2> QED BY <1>1, <1>4, <2>4, <2>5, <2>6, <2>7, <2>8 DEF ReleaseIInv, ReleaseTypes
  <1> QED BY <1>7, <1>8, <1>9, <1>10, <1>11 DEF Release!Publish

LEMMA ReleaseStep ==
    ASSUME NEW publishers, NEW last \in Nat, NEW builds, ReleaseIInv(publishers, last),
           Release(publishers, last, builds)!ReleasesNext \/ UNCHANGED releasesVars
    PROVE  ReleaseIInv(publishers, last)'
  <1>1. CASE UNCHANGED releasesVars
    BY <1>1 DEF ReleaseIInv, ReleaseTypes, releasesVars
  <1>2. CASE Release(publishers, last, builds)!Operate
    <2>1. UNCHANGED <<tag, published, publisher>>
      BY <1>2 DEF Release!Operate
    <2>2. \/ \E r \in Release(publishers, last, builds)!All :
                Release(publishers, last, builds)!InstallChannel(o3, r)
          \/ /\ UNCHANGED channel
             /\ \/ Release(publishers, last, builds)!Verify(o3)
                \/ Release(publishers, last, builds)!Migrate(o3)
                \/ Release(publishers, last, builds)!Backup(o3)
                \/ Release(publishers, last, builds)!Swap(o3)
                \/ Release(publishers, last, builds)!Point(o3)
                \/ Release(publishers, last, builds)!Up(o3)
          \/ /\ UNCHANGED channel
             /\ \/ Release(publishers, last, builds)!StartRollback(o3)
                \/ Release(publishers, last, builds)!RestoreFile(o3)
                \/ Release(publishers, last, builds)!GoBack(o3)
                \/ Release(publishers, last, builds)!UsePointer(o3)
                \/ Release(publishers, last, builds)!Stop(o3)
      <3>1. Release(publishers, last, builds)!Verify(o3) => UNCHANGED channel
        BY DEF Release!Verify
      <3>2. Release(publishers, last, builds)!Migrate(o3) => UNCHANGED channel
        BY DEF Release!Migrate
      <3>3. Release(publishers, last, builds)!Backup(o3) => UNCHANGED channel
        BY DEF Release!Backup
      <3>4. Release(publishers, last, builds)!Swap(o3) => UNCHANGED channel
        BY DEF Release!Swap
      <3>5. Release(publishers, last, builds)!Point(o3) => UNCHANGED channel
        BY DEF Release!Point
      <3>6. Release(publishers, last, builds)!Up(o3) => UNCHANGED channel
        BY DEF Release!Up
      <3>7. Release(publishers, last, builds)!StartRollback(o3) => UNCHANGED channel
        BY DEF Release!StartRollback
      <3>8. Release(publishers, last, builds)!RestoreFile(o3) => UNCHANGED channel
        BY DEF Release!RestoreFile
      <3>9. Release(publishers, last, builds)!GoBack(o3) => UNCHANGED channel
        BY DEF Release!GoBack
      <3>10. Release(publishers, last, builds)!UsePointer(o3) => UNCHANGED channel
        BY DEF Release!UsePointer
      <3>11. Release(publishers, last, builds)!Stop(o3) => UNCHANGED channel
        BY DEF Release!Stop
      <3>12. \E o \in {o3} :
                 \/ \E r \in Release(publishers, last, builds)!All :
                      Release(publishers, last, builds)!InstallChannel(o, r)
                 \/ Release(publishers, last, builds)!Verify(o)
                 \/ Release(publishers, last, builds)!Migrate(o)
                 \/ Release(publishers, last, builds)!Backup(o)
                 \/ Release(publishers, last, builds)!Swap(o)
                 \/ Release(publishers, last, builds)!Point(o)
                 \/ Release(publishers, last, builds)!Up(o)
                 \/ Release(publishers, last, builds)!StartRollback(o)
                 \/ Release(publishers, last, builds)!RestoreFile(o)
                 \/ Release(publishers, last, builds)!GoBack(o)
                 \/ Release(publishers, last, builds)!UsePointer(o)
                 \/ Release(publishers, last, builds)!Stop(o)
        BY <1>2 DEF Release!Operate
      <3> QED BY <3>1, <3>2, <3>3, <3>4, <3>5, <3>6, <3>7, <3>8, <3>9, <3>10, <3>11, <3>12
    <2>3. CASE \E r \in Release(publishers, last, builds)!All :
                  Release(publishers, last, builds)!InstallChannel(o3, r)
      BY <2>1, <2>3, ChannelStands
    <2> QED BY <2>1, <2>2, <2>3, DeploymentStands, RollbackStands
  <1> QED BY <1>1, <1>2, PublishingStands DEF Release!ReleasesNext

-----------------------------------------------------------------------------
(* The start of the API and its status page.                                 *)

ServiceNames == {"postgres", "redis", "quiet"}
ProbeNames == {"postgres", "redis", "master", "mail", "queue"}

ApiRow ==
    [at : {"DOWN", "GATES", "BUILT", "UP"}, bold : {"none", "mock", "http"},
     mail : {"none", "memory", "smtp", "noop"}, core : {"none", file.mode.core},
     messages : {"none", file.mode.messages}, ai : {"none", "openrouter", "disabled"},
     verified : BOOLEAN, stood : BOOLEAN]

GateRow == [status : {"PENDING", "APPROVED", "REJECTED"}, until : {"never", "later", "past"}]

Sayings == {"none", "waiting", "up", "down", "disabled", "not configured", "quiet", "failed"}

Words == {"UNKNOWN", "HEALTHY", "DISABLED", "NOT_CONFIGURED", "UNAVAILABLE", "DEGRADED"}

Board == [core : Words, master : Words, mail : Words, bold : Words, queue : Words]

PageRow ==
    [asked : BOOLEAN, got : [ProbeNames -> Sayings], seen : SUBSET ServiceNames,
     shown : {NoOrder} \union Board]

(* A process that has started chose its adapters from a valid environment,   *)
(* and a live one after every gate had cleared it.                           *)
ApiStands(e, a) ==
    /\ a.at # "DOWN" =>
          /\ Api!Valid(e) /\ Api!Builds(e)
          /\ a.bold = "http" => e.mode.bold # "mock"
          /\ a.mail = "smtp" => Api!Given(e, "SMTP_HOST")
          /\ a.core = e.mode.core /\ a.messages = e.mode.messages
          /\ a.ai = "openrouter" => e.mode.ai
    /\ a.at \in {"BUILT", "UP"} /\ e.mode.bold = "production" => a.stood
    /\ a.at = "UP" => a.verified \/ e.test

(* What a probe heard, or the page shows, worked during the request.         *)
PageStands(p, up) ==
    /\ p.asked =>
          /\ \A s \in ServiceNames : up[s] => s \in p.seen
          /\ \A s \in {"postgres", "redis"} : p.got[s] = "up" => s \in p.seen
          /\ p.got["queue"] \in {"none", "waiting", "quiet", "failed"}
          /\ p.got["queue"] \in {"quiet", "failed"} => "postgres" \in p.seen
          /\ p.got["queue"] = "quiet" => "quiet" \in p.seen
    /\ p.shown # NoOrder =>
          /\ p.shown.core = "HEALTHY" => {"postgres", "redis"} \subseteq p.seen
          /\ p.shown.queue # "UNKNOWN" => "postgres" \in p.seen
          /\ p.shown.queue = "HEALTHY" => "quiet" \in p.seen

StartIInv ==
    /\ api \in ApiRow /\ ApiStands(file, api)
    /\ gates \in [Orders -> {NoOrder} \union GateRow]
    /\ services \in [ServiceNames -> BOOLEAN]
    /\ page \in PageRow /\ PageStands(page, services)

LEMMA DownIsRow == Api!Down \in ApiRow /\ \A e : ApiStands(e, Api!Down)
  <1>1. Api!Down.at = "DOWN"
    BY DEF Api!Down
  <1> QED BY <1>1 DEF Api!Down, ApiRow, ApiStands

LEMMA NoPageIsRow ==
    /\ Api!NoPage \in PageRow /\ Api!NoPage.shown = NoOrder /\ ~Api!NoPage.asked
    /\ \A up : PageStands(Api!NoPage, up)
  <1>1. Api!NoPage.shown = NoOrder /\ ~Api!NoPage.asked
    BY DEF Api!NoPage
  <1>2. Api!NoPage \in PageRow
    BY DEF Api!NoPage, Api!Probes, PageRow, ProbeNames, Sayings
  <1> QED BY <1>1, <1>2 DEF PageStands

LEMMA StartInitially == ASSUME Api!StartInit PROVE StartIInv
  <1>1. /\ api = Api!Down /\ page = Api!NoPage /\ gates = [g \in Orders |-> NoOrder]
        /\ services = [postgres |-> TRUE, redis |-> TRUE, quiet |-> TRUE]
    BY DEF Api!StartInit
  <1>2. services \in [ServiceNames -> BOOLEAN]
    <2>1. /\ DOMAIN services = ServiceNames
          /\ services["postgres"] = TRUE /\ services["redis"] = TRUE /\ services["quiet"] = TRUE
      BY <1>1 DEF ServiceNames
    <2>2. \A s \in ServiceNames : services[s] \in BOOLEAN
      BY <2>1 DEF ServiceNames
    <2>3. services = [s \in DOMAIN services |-> services[s]]
      BY <1>1
    <2> QED BY <2>1, <2>2, <2>3
  <1> QED BY <1>1, <1>2, DownIsRow, NoPageIsRow DEF StartIInv

LEMMA StartHoldsThen == ASSUME StartIInv PROVE Api!StartHolds
  <1>1. ASSUME api.at = "UP"
        PROVE  Api!ServesAsConfigured
    <2>1. /\ Api!Valid(file) /\ Api!Builds(file) /\ ApiStands(file, api)
          /\ api.core = file.mode.core /\ api.messages = file.mode.messages
      BY <1>1 DEF StartIInv, ApiStands
    <2>2. Api!Agrees(file) /\ Api!MailAgrees(file) /\ Api!MessagesAgree(file) /\ Api!MasterAgrees(file)
      BY <2>1 DEF Api!Valid, Api!Agrees
    <2>3. api.mail = "smtp" =>
             \A f \in {"SMTP_PORT", "SMTP_USER", "SMTP_PASSWORD", "SMTP_FROM"} : Api!Given(file, f)
      BY <1>1, <2>1, <2>2 DEF ApiStands, Api!MailAgrees
    <2>4. api.messages = "whatsapp" => \A f \in Api!WhatsApp : file.set[f] = "good"
      BY <2>1, <2>2 DEF Api!MessagesAgree
    <2>5. file.mode.master => \A f \in Api!Firebird : Api!Given(file, f)
      BY <2>2 DEF Api!MasterAgrees
    <2>6. api.ai = "openrouter" => file.set["OPENROUTER_API_KEY"] = "good"
      BY <1>1, <2>1, <2>2 DEF ApiStands, Api!Agrees
    <2>7. api.core # "http"
      BY <2>1 DEF Api!Builds
    <2>8. api.bold = "http" => Api!Given(file, "BOLD_IDENTITY_KEY")
      BY <1>1, <2>1 DEF ApiStands, Api!Builds
    <2>9. (file.mode.bold = "production" => api.stood) /\ (api.verified \/ file.test)
      BY <1>1, <2>1 DEF ApiStands
    <2> QED BY <2>3, <2>4, <2>5, <2>6, <2>7, <2>8, <2>9 DEF Api!ServesAsConfigured
  <1>2. Api!PageIsHonest
    BY DEF StartIInv, PageStands, Api!PageIsHonest
  <1>3. Api!ServesAsConfigured
    BY <1>1 DEF Api!ServesAsConfigured
  <1> QED BY <1>2, <1>3 DEF Api!StartHolds

(* The gates are open only if every one of the catalogue stands.             *)
LEMMA AllGatesStand ==
    ASSUME StartIInv, Api!GatesOpen
    PROVE  \A g \in Orders : gates[g] \in [status : {"APPROVED"}, until : {"never", "later"}]
  <1> DEFINE rows == {g \in Orders : gates[g] # NoOrder}
  <1>1. \A S : Api!Cardinality(S) = Cardinality(S)
    BY DEF Api!Cardinality, Api!IsFiniteSet, Cardinality, IsFiniteSet
  <1>2. /\ Cardinality(rows) >= Cardinality(Orders)
        /\ \A g \in rows : gates[g].status = "APPROVED" /\ gates[g].until # "past"
    BY <1>1 DEF Api!GatesOpen
  <1>3. rows \in SUBSET Orders /\ IsFiniteSet(Orders)
    BY GatesAssumption
  <1>4. /\ Cardinality(rows) \in Nat /\ Cardinality(Orders) \in Nat
        /\ Cardinality(rows) <= Cardinality(Orders)
        /\ Cardinality(rows) = Cardinality(Orders) => rows = Orders
    BY <1>3, FS_Subset, FS_CardinalityType
  <1> HIDE DEF rows
  <1>5. rows = Orders
    BY <1>2, <1>4
  <1>6. \A g \in Orders : gates[g] \in GateRow
    BY <1>5 DEF rows, StartIInv
  <1> QED BY <1>2, <1>5, <1>6 DEF GateRow

LEMMA ApiMoves ==
    ASSUME StartIInv, Api!Build \/ Api!ReadGates \/ Api!Listen \/ Api!Stop
    PROVE  StartIInv'
  <1>1. ASSUME UNCHANGED <<file, gates, services>>, api' \in ApiRow, ApiStands(file, api'),
               page' = page \/ page' = Api!NoPage
        PROVE  StartIInv'
    <2>1. page' \in PageRow /\ PageStands(page', services)
      BY <1>1, NoPageIsRow DEF StartIInv
    <2>2. ApiRow' = ApiRow
      BY <1>1 DEF ApiRow
    <2> QED BY <1>1, <2>1, <2>2 DEF StartIInv
  <1>2. api \in ApiRow /\ ApiStands(file, api)
    BY DEF StartIInv
  <1>3. CASE Api!Build
    <2>1. PICK at \in {"GATES", "BUILT"}, pays \in {"mock", "http"}, sent \in {"memory", "smtp", "noop"},
               ai \in {"openrouter", "disabled"} :
             /\ api' = [Api!Down EXCEPT !.at = at, !.bold = pays, !.mail = sent,
                            !.core = file.mode.core, !.messages = file.mode.messages, !.ai = ai]
             /\ at = "BUILT" => file.mode.bold # "production"
             /\ pays = "http" => file.mode.bold # "mock"
             /\ sent = "smtp" => Api!Given(file, "SMTP_HOST")
             /\ ai = "openrouter" => file.mode.ai
      BY <1>3 DEF Api!Build
    <2>2. /\ api' \in ApiRow /\ api'.at = at /\ api'.bold = pays /\ api'.mail = sent
          /\ api'.core = file.mode.core /\ api'.messages = file.mode.messages /\ api'.ai = ai
      <3>1. ASSUME NEW a \in ApiRow
            PROVE  LET w == [a EXCEPT !.at = at, !.bold = pays, !.mail = sent,
                            !.core = file.mode.core, !.messages = file.mode.messages, !.ai = ai]
                   IN  /\ w \in ApiRow /\ w.at = at /\ w.bold = pays /\ w.mail = sent
                       /\ w.core = file.mode.core /\ w.messages = file.mode.messages /\ w.ai = ai
        BY DEF ApiRow
      <3> QED BY <2>1, <3>1, DownIsRow
    <2>3. Api!Valid(file) /\ Api!Builds(file) /\ UNCHANGED <<file, gates, services, page>>
      BY <1>3 DEF Api!Build
    <2>4. ApiStands(file, api')
      BY <2>1, <2>2, <2>3 DEF ApiStands
    <2> QED BY <1>1, <2>2, <2>3, <2>4
  <1>4. CASE Api!ReadGates
    <2>1. CASE Api!GatesOpen
      <3>1. api' = [api EXCEPT !.at = "BUILT", !.stood = TRUE] /\ api.at = "GATES"
        BY <1>4, <2>1, AllGatesStand DEF Api!ReadGates
      <3>2. /\ api' \in ApiRow /\ api'.at = "BUILT" /\ api'.stood
            /\ api'.bold = api.bold /\ api'.mail = api.mail /\ api'.core = api.core
            /\ api'.messages = api.messages /\ api'.ai = api.ai
        <4>1. ASSUME NEW a \in ApiRow
              PROVE  LET w == [a EXCEPT !.at = "BUILT", !.stood = TRUE]
                     IN  /\ w \in ApiRow /\ w.at = "BUILT" /\ w.stood
                         /\ w.bold = a.bold /\ w.mail = a.mail /\ w.core = a.core
                         /\ w.messages = a.messages /\ w.ai = a.ai
          BY DEF ApiRow
        <4> QED BY <1>2, <3>1, <4>1
      <3>3. ApiStands(file, api')
        BY <1>2, <3>1, <3>2 DEF ApiStands
      <3> QED BY <1>1, <1>4, <3>2, <3>3 DEF Api!ReadGates
    <2>2. CASE ~Api!GatesOpen
      BY <1>1, <1>4, <2>2, DownIsRow DEF Api!ReadGates
    <2> QED BY <2>1, <2>2
  <1>5. CASE Api!Listen
    <2>1. CASE api' = Api!Down
      BY <1>1, <1>5, <2>1, DownIsRow DEF Api!Listen
    <2>2. CASE api' # Api!Down
      <3>1. PICK v \in BOOLEAN : api' = [api EXCEPT !.at = "UP", !.verified = v] /\ (v \/ file.test)
        BY <1>5, <2>2 DEF Api!Listen
      <3>2. /\ api' \in ApiRow /\ api'.at = "UP" /\ api'.verified = v
            /\ api'.bold = api.bold /\ api'.mail = api.mail /\ api'.core = api.core
            /\ api'.messages = api.messages /\ api'.ai = api.ai /\ api'.stood = api.stood
        <4>1. ASSUME NEW a \in ApiRow
              PROVE  LET w == [a EXCEPT !.at = "UP", !.verified = v]
                     IN  /\ w \in ApiRow /\ w.at = "UP" /\ w.verified = v
                         /\ w.bold = a.bold /\ w.mail = a.mail /\ w.core = a.core
                         /\ w.messages = a.messages /\ w.ai = a.ai /\ w.stood = a.stood
          BY DEF ApiRow
        <4> QED BY <1>2, <3>1, <4>1
      <3>3. api.at = "BUILT"
        BY <1>5 DEF Api!Listen
      <3>4. ApiStands(file, api')
        BY <1>2, <3>1, <3>2, <3>3 DEF ApiStands
      <3> QED BY <1>1, <1>5, <3>2, <3>4 DEF Api!Listen
    <2> QED BY <2>1, <2>2
  <1>6. CASE Api!Stop
    BY <1>1, <1>6, DownIsRow DEF Api!Stop
  <1> QED BY <1>3, <1>4, <1>5, <1>6

LEMMA GatesMove == ASSUME StartIInv, Api!GatesNext PROVE StartIInv'
  <1>1. PICK g \in Orders :
           \/ Api!Seed(g) \/ Api!Expire(g)
           \/ \E s \in {"PENDING", "APPROVED", "REJECTED"}, u \in {NoOrder, "later", "past"} :
                 Api!Transition(g, s, u)
    BY DEF Api!GatesNext
  <1>2. UNCHANGED <<file, api, services, page>>
    BY <1>1 DEF Api!Seed, Api!Expire, Api!Transition
  <1>3. gates \in [Orders -> {NoOrder} \union GateRow] /\ (gates[g] # NoOrder => gates[g] \in GateRow)
    BY DEF StartIInv
  <1>4. gates' \in [Orders -> {NoOrder} \union GateRow]
    <2>1. ASSUME NEW row \in GateRow, gates' = [gates EXCEPT ![g] = row]
          PROVE  gates' \in [Orders -> {NoOrder} \union GateRow]
      BY <1>3, <2>1
    <2>2. CASE Api!Seed(g)
      <3>1. Api!Pending \in GateRow
        BY DEF Api!Pending, GateRow
      <3> QED BY <2>1, <2>2, <3>1 DEF Api!Seed
    <2>3. CASE Api!Expire(g)
      <3>1. gates' = [gates EXCEPT ![g] = [gates[g] EXCEPT !.until = "past"]] /\ gates[g] \in GateRow
        BY <1>3, <2>3 DEF Api!Expire
      <3>2. [gates[g] EXCEPT !.until = "past"] \in GateRow
        BY <3>1 DEF GateRow
      <3> QED BY <2>1, <3>1, <3>2
    <2>4. ASSUME NEW s \in {"PENDING", "APPROVED", "REJECTED"}, NEW u \in {NoOrder, "later",
                 "past"},
                 Api!Transition(g, s, u)
          PROVE  gates' \in [Orders -> {NoOrder} \union GateRow]
      <3>1. PICK until \in {"never", "later", "past"} :
               gates' = [gates EXCEPT ![g] = [status |-> s, until |-> until]]
        BY <1>3, <2>4 DEF Api!Transition, GateRow
      <3>2. [status |-> s, until |-> until] \in GateRow
        BY DEF GateRow
      <3> QED BY <2>1, <3>1, <3>2
    <2> QED BY <1>1, <2>2, <2>3, <2>4
  <1>5. ApiRow' = ApiRow
    BY <1>2 DEF ApiRow
  <1> QED BY <1>2, <1>4, <1>5 DEF StartIInv

(* The status page.                                                          *)
LEMMA PageChanges ==
    ASSUME NEW p \in PageRow
    PROVE  /\ p.got \in [ProbeNames -> Sayings] /\ p.seen \in SUBSET ServiceNames
           /\ p.asked \in BOOLEAN
           /\ \A v \in [ProbeNames -> Sayings] :
                 LET w == [p EXCEPT !.got = v]
                 IN  /\ w \in PageRow /\ w.got = v /\ w.seen = p.seen
                     /\ w.asked = p.asked /\ w.shown = p.shown
           /\ \A v \in SUBSET ServiceNames :
                 LET w == [p EXCEPT !.seen = v]
                 IN  /\ w \in PageRow /\ w.got = p.got /\ w.seen = v
                     /\ w.asked = p.asked /\ w.shown = p.shown
  BY DEF PageRow

LEMMA StatusMoves ==
    ASSUME StartIInv,
           \/ Api!Ask \/ Api!Show \/ (\E p \in Api!Probes : Api!Answer(p))
           \/ \E s \in DOMAIN services : Api!Fluctuate(s)
    PROVE  StartIInv'
  <1>1. /\ services \in [ServiceNames -> BOOLEAN] /\ DOMAIN services = ServiceNames
        /\ page \in PageRow /\ PageStands(page, services)
        /\ page.got \in [ProbeNames -> Sayings] /\ page.seen \in SUBSET ServiceNames
        /\ page.asked \in BOOLEAN
    BY PageChanges DEF StartIInv
  <1>2. UNCHANGED <<file, gates, api>> /\ ApiRow' = ApiRow
    BY DEF Api!Ask, Api!Show, Api!Answer, Api!Fluctuate, ApiRow
  <1>3. ASSUME services' \in [ServiceNames -> BOOLEAN], page' \in PageRow, PageStands(page', services')
        PROVE  StartIInv'
    BY <1>2, <1>3 DEF StartIInv
  <1>4. CASE Api!Ask
    <2>1. PICK got, seen :
             /\ got = [p \in ProbeNames |-> "waiting"] /\ seen = {s \in ServiceNames : services[s]}
             /\ page' = [Api!NoPage EXCEPT !.asked = TRUE, !.got = got, !.seen = seen]
      BY <1>1, <1>4 DEF Api!Ask, Api!Probes, ProbeNames
    <2>2. got \in [ProbeNames -> Sayings] /\ seen \in SUBSET ServiceNames
      BY <2>1 DEF Sayings
    <2>3. /\ page' \in PageRow /\ page'.asked /\ page'.got = got /\ page'.seen = seen
          /\ page'.shown = NoOrder
      <3>1. ASSUME NEW p \in PageRow
            PROVE  LET w == [p EXCEPT !.asked = TRUE, !.got = got, !.seen = seen]
                   IN  w \in PageRow /\ w.asked /\ w.got = got /\ w.seen = seen /\ w.shown = p.shown
        BY <2>2 DEF PageRow
      <3> QED BY <2>1, <3>1, NoPageIsRow
    <2>4. \A p \in ProbeNames : got[p] = "waiting"
      BY <2>1
    <2>5. PageStands(page', services)
      BY <2>1, <2>3, <2>4 DEF PageStands, ProbeNames, ServiceNames
    <2> QED BY <1>1, <1>3, <1>4, <2>3, <2>5 DEF Api!Ask
  <1>5. ASSUME NEW p \in Api!Probes, Api!Answer(p) PROVE StartIInv'
    <2>1. PICK r \in Api!Readings(p) : page' = [page EXCEPT !.got[p] = r]
      BY <1>5 DEF Api!Answer
    <2>2. p \in ProbeNames /\ page.asked /\ UNCHANGED services
      BY <1>5 DEF Api!Probes, ProbeNames, Api!Answer
    <2>3. /\ r \in Sayings
          /\ p \in {"postgres", "redis"} /\ r = "up" => services[p]
          /\ p = "queue" => r \in {"none", "quiet", "failed"}
          /\ p = "queue" /\ r # "none" => services["postgres"]
          /\ p = "queue" /\ r = "quiet" => services["quiet"]
      BY <1>1, <2>1, <2>2 DEF Api!Readings, Sayings, ProbeNames, ServiceNames
    <2>4. PICK got : got = [page.got EXCEPT ![p] = r]
      OBVIOUS
    <2>5. /\ got \in [ProbeNames -> Sayings] /\ got[p] = r
          /\ \A o \in ProbeNames : o # p => got[o] = page.got[o]
      BY <1>1, <2>2, <2>3, <2>4
    <2>6. /\ page' \in PageRow /\ page'.got = got /\ page'.seen = page.seen
          /\ page'.asked = page.asked /\ page'.shown = page.shown
      <3>1. page' = [page EXCEPT !.got = got]
        BY <2>1, <2>4
      <3> QED BY <1>1, <2>5, <3>1, PageChanges
    <2>7. PageStands(page', services)
      BY <1>1, <2>2, <2>3, <2>5, <2>6 DEF PageStands, ProbeNames, ServiceNames
    <2> QED BY <1>1, <1>3, <2>2, <2>6, <2>7
  <1>6. CASE Api!Show
    <2>0. /\ \A r : Api!StateOf(r) \in Words
          /\ {"UNAVAILABLE", "HEALTHY", "DEGRADED", "DISABLED", "UNKNOWN", "NOT_CONFIGURED"} = Words
      BY DEF Api!StateOf, Words
    <2>core. PICK core \in Words : core = IF page.got["postgres"] # "up" \/ page.got["redis"] # "up"
                                      THEN "UNAVAILABLE"
                                      ELSE IF api.verified THEN "HEALTHY" ELSE "DEGRADED"
      BY <2>0
    <2>pays. PICK pays \in Words : pays = IF file.mode.bold = "mock" THEN "DISABLED"
                                      ELSE IF \A f \in Api!Bold : Api!Given(file, f) THEN "UNKNOWN"
                                      ELSE "NOT_CONFIGURED"
      BY <2>0
    <2>queue. PICK queue \in Words : queue = IF ~Api!Trusted THEN "UNKNOWN"
                                         ELSE IF page.got["queue"] = "failed" THEN "DEGRADED"
                                         ELSE "HEALTHY"
      BY <2>0
    <2>master. PICK master \in Words : master = Api!StateOf(page.got["master"])
      BY <2>0
    <2>post. PICK post \in Words : post = Api!StateOf(page.got["mail"])
      BY <2>0
    <2>1. /\ core = "HEALTHY" => page.got["postgres"] = "up" /\ page.got["redis"] = "up"
          /\ queue # "UNKNOWN" => page.got["postgres"] = "up" /\ page.got["queue"] # "none"
          /\ queue = "HEALTHY" => page.got["queue"] # "failed"
      BY <2>core, <2>queue DEF Api!Trusted
    <2>2. PICK board : board = [core |-> core, master |-> master, mail |-> post,
                                bold |-> pays, queue |-> queue]
      OBVIOUS
    <2>shows. page' = [Api!NoPage EXCEPT !.seen = page.seen, !.shown = board]
      BY <1>6, <2>core, <2>pays, <2>queue, <2>master, <2>post, <2>2 DEF Api!Show
    <2>3. board \in Board /\ board.core = core /\ board.queue = queue
      BY <2>2 DEF Board
    <2>4. page' \in PageRow /\ ~page'.asked /\ page'.seen = page.seen /\ page'.shown = board
      <3>1. ASSUME NEW p \in PageRow
            PROVE  LET w == [p EXCEPT !.seen = page.seen, !.shown = board]
                   IN  w \in PageRow /\ w.asked = p.asked /\ w.seen = page.seen /\ w.shown = board
        BY <1>1, <2>3 DEF PageRow
      <3> QED BY <2>shows, <3>1, NoPageIsRow
    <2>5. page.asked /\ page.got["queue"] # "waiting"
      BY <1>6 DEF Api!Show, Api!Probes
    <2>6. PageStands(page', services)
      BY <1>1, <2>1, <2>3, <2>4, <2>5 DEF PageStands
    <2> QED BY <1>1, <1>3, <1>6, <2>4, <2>6 DEF Api!Show
  <1>7. ASSUME NEW s \in ServiceNames, Api!Fluctuate(s) PROVE StartIInv'
    <2>1. services' = [services EXCEPT ![s] = ~services[s]]
      BY <1>7 DEF Api!Fluctuate
    <2>2. /\ services' \in [ServiceNames -> BOOLEAN]
          /\ \A t \in ServiceNames : services'[t] => services[t] \/ (t = s /\ ~services[s])
      BY <1>1, <2>1
    <2>3. CASE page.asked /\ ~services[s]
      <3>1. page' = [page EXCEPT !.seen = page.seen \union {s}]
        BY <1>7, <2>3 DEF Api!Fluctuate
      <3>2. /\ page' \in PageRow /\ page'.got = page.got /\ page'.seen = page.seen \union {s}
            /\ page'.asked = page.asked /\ page'.shown = page.shown
        BY <1>1, <3>1, PageChanges
      <3>3. PageStands(page', services')
        BY <1>1, <2>2, <3>2 DEF PageStands
      <3> QED BY <1>3, <2>2, <3>2, <3>3
    <2>4. CASE ~(page.asked /\ ~services[s])
      <3>1. page' = page
        BY <1>7, <2>4 DEF Api!Fluctuate
      <3>2. PageStands(page, services')
        BY <1>1, <2>2, <2>4 DEF PageStands
      <3> QED BY <1>1, <1>3, <2>2, <3>1, <3>2
    <2> QED BY <2>3, <2>4
  <1> QED BY <1>1, <1>4, <1>5, <1>6, <1>7

LEMMA StartStep ==
    ASSUME StartIInv, Api!StartNext \/ Api!StatusNext \/ UNCHANGED startVars
    PROVE  StartIInv'
  <1>1. CASE UNCHANGED startVars
    BY <1>1 DEF StartIInv, startVars, ApiRow
  <1> QED BY <1>1, ApiMoves, GatesMove, StatusMoves DEF Api!StartNext, Api!StatusNext

-----------------------------------------------------------------------------
(* The certificate and the key.                                              *)

KeyPair == [cert : Nat, key : Nat]

TxnFiles == {"oldCert", "oldKey", "newCert", "newKey"}

TxnRow == [there : BOOLEAN, files : SUBSET TxnFiles, old : KeyPair, new : Nat]

RecoverySteps == {"NO", "LOOK", "CERT", "KEY", "CHECK", "CLEAR", "DONE", "FAILED"}

ArmedAt == {"CERT", "KEY", "RELOAD", "LIVE", "CLEAR"}

HookRow ==
    [at : {"IDLE", "RECOVER", "SAVE", "TRAP"} \union ArmedAt, rec : RecoverySteps,
     back : {"END"} \union ArmedAt, source : Nat]

PostfixRow == [is : {"STOPPED", "STARTING", "ACTIVE"}, rec : RecoverySteps, serves : KeyPair]

TlsTypes ==
    /\ pair \in KeyPair /\ txn \in TxnRow /\ hook \in HookRow /\ postfix \in PostfixRow
    /\ raced \in BOOLEAN

(* The previous pair is there to be put back; the pair in place is the one   *)
(* that would be.                                                            *)
Whole(t) == {"oldCert", "oldKey"} \subseteq t.files /\ t.old.cert = t.old.key

InPlace(p, t) ==
    /\ p.cert = p.key
    /\ "oldCert" \in t.files => p.cert = t.old.cert
    /\ "oldKey" \in t.files => p.key = t.old.key

Restorable(p, t) == p.cert = p.key \/ Whole(t)

(* Where a recovery is, whichever of the two that may run at a time.         *)
RecoveryStands(rec, p, t) ==
    /\ rec = "CERT" => Whole(t) \/ InPlace(p, t)
    /\ rec = "KEY" => (Whole(t) /\ p.cert = t.old.cert) \/ InPlace(p, t)
    /\ rec \in {"CHECK", "CLEAR"} => InPlace(p, t)
    /\ rec = "DONE" => t.files = {} /\ p.cert = p.key

HookStands(at, p, t) ==
    /\ at = "SAVE" => InPlace(p, t)
    /\ at = "CERT" => (t.files = {} /\ p.cert = p.key) \/ Whole(t)
    /\ at = "KEY" => (t.files = {} /\ p.cert = p.key) \/ (Whole(t) /\ p.cert = t.new)
    /\ at \in {"RELOAD", "LIVE", "CLEAR"} => p.cert = p.key

TlsOrder(t, h, f) ==
    /\ h.rec # "NO" => h.at \in {"RECOVER", "TRAP"}
    /\ f.rec # "NO" => f.is = "STARTING"
    /\ ~t.there => t.files = {}
    /\ h.at = "SAVE" => "newKey" \notin t.files

TlsSound(p, t, h, f) ==
    /\ Restorable(p, t)
    /\ RecoveryStands(h.rec, p, t) /\ RecoveryStands(f.rec, p, t)
    /\ HookStands(h.at, p, t)
    /\ f.is = "STARTING" => h.at \in {"IDLE", "RECOVER"}
    /\ h.at = "TRAP" /\ h.rec = "FAILED" => h.back = "END"
    /\ f.is = "ACTIVE" => f.serves.cert = f.serves.key

TlsIInv ==
    /\ TlsTypes /\ TlsOrder(txn, hook, postfix)
    /\ raced \/ TlsSound(pair, txn, hook, postfix)

LEMMA NoTxnIsRow ==
    /\ Host!NoTxn \in TxnRow /\ Host!NoTxn.files = {} /\ ~Host!NoTxn.there
    /\ Host!NoTxn.old \in KeyPair
  <1>1. [cert |-> 0, key |-> 0] \in KeyPair
    BY DEF KeyPair
  <1> QED BY <1>1 DEF Host!NoTxn, TxnRow

LEMMA TlsInitially == ASSUME Host!TlsInit PROVE TlsIInv
  <1>1. /\ pair = [cert |-> 0, key |-> 0] /\ txn = Host!NoTxn
        /\ hook = [at |-> "IDLE", rec |-> "NO", back |-> "END", source |-> 0]
        /\ postfix = [is |-> "ACTIVE", rec |-> "NO", serves |-> pair] /\ raced = FALSE
    BY DEF Host!TlsInit
  <1>2. pair \in KeyPair /\ pair.cert = pair.key
    BY <1>1 DEF KeyPair
  <1>3. hook \in HookRow /\ hook.at = "IDLE" /\ hook.rec = "NO"
    BY <1>1 DEF HookRow, RecoverySteps
  <1>4. postfix \in PostfixRow /\ postfix.rec = "NO" /\ postfix.serves = pair
    BY <1>1, <1>2 DEF PostfixRow, RecoverySteps
  <1>5. TlsTypes /\ TlsOrder(txn, hook, postfix)
    BY <1>1, <1>2, <1>3, <1>4, NoTxnIsRow DEF TlsTypes, TlsOrder
  <1>6. TlsSound(pair, txn, hook, postfix)
    <2>1. postfix.is = "ACTIVE"
      BY <1>1
    <2> QED BY <1>2, <1>3, <1>4, <2>1 DEF TlsSound, Restorable, RecoveryStands, HookStands
  <1> QED BY <1>1, <1>5, <1>6, NoTxnIsRow DEF TlsIInv

(* A step of the recovery, from `rec' to `rec2', and what it leaves of the   *)
(* pair and the transaction.                                                 *)
RecoveryGoes(rec, rec2, p, p2, t, t2) ==
    \/ /\ rec = "LOOK" /\ p2 = p /\ t2 = t
       /\ \/ ~t.there /\ rec2 = "DONE"
          \/ Whole(t) /\ rec2 = "CERT"
          \/ rec2 = "FAILED"
    \/ /\ rec = "CERT" /\ "oldCert" \in t.files /\ rec2 = "KEY" /\ t2 = t
       /\ p2 = [p EXCEPT !.cert = t.old.cert]
    \/ /\ rec = "KEY" /\ "oldKey" \in t.files /\ rec2 = "CHECK" /\ t2 = t
       /\ p2 = [p EXCEPT !.key = t.old.key]
    \/ rec = "CHECK" /\ rec2 \in {"CLEAR", "FAILED"} /\ p2 = p /\ t2 = t
    \/ rec = "CLEAR" /\ rec2 = "DONE" /\ p2 = p /\ t2 = Host!NoTxn
    \/ /\ rec = "CLEAR" /\ rec2 = rec /\ p2 = p
       /\ \E files \in SUBSET t.files \ {t.files} : t2 = [t EXCEPT !.files = files]
    \/ rec \in {"CERT", "KEY"} /\ rec2 = "FAILED" /\ p2 = p /\ t2 = t

RecoveryKept(rec, rec2, p, p2, t, t2) ==
    /\ p2 \in KeyPair /\ t2 \in TxnRow /\ rec2 \in RecoverySteps \ {"NO", "LOOK"}
    /\ t2.files \subseteq t.files /\ (~t2.there => t2.files = {})
    /\ Restorable(p, t) /\ RecoveryStands(rec, p, t) =>
          /\ Restorable(p2, t2) /\ RecoveryStands(rec2, p2, t2)
          /\ \A other : RecoveryStands(other, p, t) => RecoveryStands(other, p2, t2)

LEMMA RecoveryKeeps ==
    ASSUME NEW rec, NEW rec2, NEW p \in KeyPair, NEW p2, NEW t \in TxnRow, NEW t2,
           RecoveryGoes(rec, rec2, p, p2, t, t2), ~t.there => t.files = {}
    PROVE  RecoveryKept(rec, rec2, p, p2, t, t2)
  <1> USE DEF RecoveryKept
  <1>1. /\ t.files \in SUBSET TxnFiles /\ t.there \in BOOLEAN /\ t.old \in KeyPair
        /\ t.old.cert \in Nat /\ t.old.key \in Nat /\ p.cert \in Nat /\ p.key \in Nat
    BY DEF TxnRow, KeyPair
  <1>2. rec2 \in RecoverySteps \ {"NO", "LOOK"}
    BY DEF RecoveryGoes, RecoverySteps
  <1>3. CASE /\ p2 = p /\ t2 = t
             /\ \/ rec = "LOOK" /\ ~t.there /\ rec2 = "DONE"
                \/ rec = "LOOK" /\ Whole(t) /\ rec2 = "CERT"
                \/ rec = "CHECK" /\ rec2 = "CLEAR"
                \/ rec2 = "FAILED"
    <2>1. ASSUME rec = "LOOK", ~t.there, rec2 = "DONE", Restorable(p, t)
          PROVE  RecoveryStands(rec2, p, t)
      BY <2>1 DEF RecoveryStands, Restorable, Whole
    <2>2. rec = "LOOK" /\ Whole(t) /\ rec2 = "CERT" => RecoveryStands(rec2, p, t)
      BY DEF RecoveryStands
    <2>3. rec = "CHECK" /\ rec2 = "CLEAR" /\ RecoveryStands(rec, p, t) => RecoveryStands(rec2, p, t)
      BY DEF RecoveryStands
    <2>4. rec2 = "FAILED" => RecoveryStands(rec2, p, t)
      BY DEF RecoveryStands
    <2> QED BY <1>2, <1>3, <2>1, <2>2, <2>3, <2>4
  <1>4. CASE rec = "CERT" /\ "oldCert" \in t.files /\ rec2 = "KEY" /\ t2 = t
             /\ p2 = [p EXCEPT !.cert = t.old.cert]
    <2>1. p2 \in KeyPair /\ p2.cert = t.old.cert /\ p2.key = p.key
      BY <1>1, <1>4 DEF KeyPair
    <2>2. InPlace(p, t) => p2 = p
      BY <1>4 DEF InPlace, KeyPair
    <2>3. ASSUME Whole(t)
          PROVE  /\ Restorable(p2, t2) /\ RecoveryStands(rec2, p2, t2)
                 /\ \A other : RecoveryStands(other, p, t) => RecoveryStands(other, p2, t2)
      BY <1>4, <2>1, <2>2, <2>3 DEF Restorable, RecoveryStands, Whole
    <2>4. ASSUME InPlace(p, t)
          PROVE  /\ Restorable(p2, t2) /\ RecoveryStands(rec2, p2, t2)
                 /\ \A other : RecoveryStands(other, p, t) => RecoveryStands(other, p2, t2)
      BY <1>4, <2>2, <2>4 DEF Restorable, RecoveryStands, InPlace
    <2>5. RecoveryStands(rec, p, t) => Whole(t) \/ InPlace(p, t)
      BY <1>4 DEF RecoveryStands
    <2> QED BY <1>2, <1>4, <2>1, <2>3, <2>4, <2>5
  <1>5. CASE rec = "KEY" /\ "oldKey" \in t.files /\ rec2 = "CHECK" /\ t2 = t
             /\ p2 = [p EXCEPT !.key = t.old.key]
    <2>1. p2 \in KeyPair /\ p2.cert = p.cert /\ p2.key = t.old.key
      BY <1>1, <1>5 DEF KeyPair
    <2>2. InPlace(p, t) => p2 = p
      BY <1>5 DEF InPlace, KeyPair
    <2>3. ASSUME Whole(t), p.cert = t.old.cert
          PROVE  /\ Restorable(p2, t2) /\ RecoveryStands(rec2, p2, t2)
                 /\ \A other : RecoveryStands(other, p, t) => RecoveryStands(other, p2, t2)
      BY <1>5, <2>1, <2>3 DEF Restorable, RecoveryStands, Whole, InPlace
    <2>4. ASSUME InPlace(p, t)
          PROVE  /\ Restorable(p2, t2) /\ RecoveryStands(rec2, p2, t2)
                 /\ \A other : RecoveryStands(other, p, t) => RecoveryStands(other, p2, t2)
      BY <1>5, <2>2, <2>4 DEF Restorable, RecoveryStands, InPlace
    <2>5. RecoveryStands(rec, p, t) => (Whole(t) /\ p.cert = t.old.cert) \/ InPlace(p, t)
      BY <1>5 DEF RecoveryStands
    <2> QED BY <1>2, <1>5, <2>1, <2>3, <2>4, <2>5
  <1>6. CASE rec = "CLEAR" /\ rec2 = "DONE" /\ p2 = p /\ t2 = Host!NoTxn
    <2>1. RecoveryStands(rec, p, t) => p.cert = p.key
      BY <1>6 DEF RecoveryStands, InPlace
    <2>2. t2.files = {} /\ t2 \in TxnRow /\ ~t2.there
      BY <1>6, NoTxnIsRow
    <2> QED BY <1>2, <1>6, <2>1, <2>2 DEF Restorable, RecoveryStands, InPlace
  <1>7. ASSUME NEW files \in SUBSET t.files \ {t.files}, t2 = [t EXCEPT !.files = files],
               rec = "CLEAR", rec2 = rec, p2 = p
        PROVE  /\ t2 \in TxnRow /\ t2.files \subseteq t.files /\ (~t2.there => t2.files = {})
               /\ Restorable(p, t) /\ RecoveryStands(rec, p, t) =>
                     /\ Restorable(p2, t2) /\ RecoveryStands(rec2, p2, t2)
                     /\ \A other : RecoveryStands(other, p, t) => RecoveryStands(other, p2, t2)
    <2>1. t2 \in TxnRow /\ t2.files = files /\ t2.old = t.old /\ t2.there = t.there
      BY <1>1, <1>7 DEF TxnRow
    <2>2. RecoveryStands(rec, p, t) => InPlace(p, t)
      BY <1>7 DEF RecoveryStands
    <2>3. InPlace(p, t) => InPlace(p2, t2)
      BY <1>7, <2>1 DEF InPlace
    <2>4. t.files = {} => files = {}
      BY <1>7
    <2>5. ASSUME InPlace(p, t), InPlace(p2, t2)
          PROVE  /\ Restorable(p2, t2) /\ RecoveryStands(rec2, p2, t2)
                 /\ \A other : RecoveryStands(other, p, t) => RecoveryStands(other, p2, t2)
      BY <1>7, <2>1, <2>4, <2>5 DEF Restorable, RecoveryStands, InPlace
    <2> QED BY <2>1, <2>2, <2>3, <2>4, <2>5
  <1> QED BY <1>2, <1>3, <1>4, <1>5, <1>6, <1>7 DEF RecoveryGoes

TlsKept(p, t, h, f) ==
    /\ Restorable(p, t)
    /\ RecoveryStands(h.rec, p, t) /\ RecoveryStands(f.rec, p, t)
    /\ HookStands(h.at, p, t)
    /\ f.is = "ACTIVE" => f.serves.cert = f.serves.key

LEMMA TlsMoves ==
    ASSUME TlsIInv,
           pair' \in KeyPair, txn' \in TxnRow, hook' \in HookRow, postfix' \in PostfixRow,
           TlsOrder(txn', hook', postfix'),
           raced' = (raced \/ Host!StartedInRenewal' \/ Host!WentOnUnrecovered'),
           TlsSound(pair, txn, hook, postfix)
             /\ (postfix'.is = "STARTING" => hook'.at \in {"IDLE", "RECOVER"})
             => TlsKept(pair', txn', hook', postfix')
    PROVE  TlsIInv'
  <1>1. raced' \in BOOLEAN /\ TlsTypes'
    BY DEF TlsIInv, TlsTypes
  <1>2. ASSUME ~raced'
        PROVE  TlsSound(pair', txn', hook', postfix')
    <2>1. ~raced /\ ~Host!StartedInRenewal' /\ ~Host!WentOnUnrecovered'
      BY <1>2
    <2>2. /\ postfix'.is = "STARTING" => hook'.at \in {"IDLE", "RECOVER"}
          /\ hook'.at = "TRAP" /\ hook'.rec = "FAILED" => hook'.back = "END"
      BY <2>1 DEF Host!StartedInRenewal, Host!WentOnUnrecovered
    <2>3. TlsKept(pair', txn', hook', postfix')
      BY <2>1, <2>2 DEF TlsIInv
    <2> QED BY <2>2, <2>3 DEF TlsKept, TlsSound
  <1> QED BY <1>1, <1>2 DEF TlsIInv

LEMMA TlsFields ==
    ASSUME TlsIInv
    PROVE  /\ pair \in KeyPair /\ txn \in TxnRow /\ hook \in HookRow /\ postfix \in PostfixRow
           /\ pair.cert \in Nat /\ pair.key \in Nat
           /\ txn.there \in BOOLEAN /\ txn.files \in SUBSET TxnFiles /\ txn.old \in KeyPair
           /\ txn.old.cert \in Nat /\ txn.old.key \in Nat /\ txn.new \in Nat
           /\ hook.source \in Nat /\ hook.back \in {"END"} \union ArmedAt
           /\ hook.rec \in RecoverySteps
           /\ postfix.serves \in KeyPair /\ postfix.rec \in RecoverySteps
           /\ TlsOrder(txn, hook, postfix) /\ (~txn.there => txn.files = {})
  BY DEF TlsIInv, TlsTypes, TlsOrder, KeyPair, TxnRow, HookRow, PostfixRow

(* A step of the hook alone.                                                 *)
LEMMA HookMoves ==
    ASSUME TlsIInv, UNCHANGED <<pair, txn, postfix>>, hook' \in HookRow,
           hook'.rec # "NO" => hook'.at \in {"RECOVER", "TRAP"},
           hook'.at = "SAVE" => hook.at = "SAVE",
           raced' = (raced \/ Host!StartedInRenewal' \/ Host!WentOnUnrecovered'),
           TlsSound(pair, txn, hook, postfix)
             => RecoveryStands(hook'.rec, pair, txn) /\ HookStands(hook'.at, pair, txn)
    PROVE  TlsIInv'
  <1>1. TlsOrder(txn', hook', postfix')
    BY TlsFields DEF TlsOrder
  <1>2. TlsSound(pair, txn, hook, postfix) => TlsKept(pair', txn', hook', postfix')
    BY DEF TlsSound, TlsKept
  <1> QED BY <1>1, <1>2, TlsFields, TlsMoves

LEMMA HookAt ==
    ASSUME NEW h \in HookRow, NEW at \in {"IDLE", "RECOVER", "SAVE", "TRAP"} \union ArmedAt
    PROVE  LET w == [h EXCEPT !.at = at]
           IN  w \in HookRow /\ w.at = at /\ w.rec = h.rec /\ w.back = h.back /\ w.source = h.source
  BY DEF HookRow

LEMMA HookEndsAt ==
    ASSUME hook \in HookRow, Host!HookEnds
    PROVE  hook' \in HookRow /\ hook'.at = "IDLE" /\ hook'.rec = "NO"
  BY DEF HookRow, RecoverySteps, Host!HookEnds

LEMMA TrapSets ==
    ASSUME hook \in HookRow, NEW back \in {"END"} \union ArmedAt, Host!Trap(back)
    PROVE  /\ hook' \in HookRow
           /\ \/ hook'.at = "TRAP" /\ hook'.rec = "LOOK"
              \/ hook'.at = "IDLE" /\ hook'.rec = "NO"
              \/ hook'.at = back /\ back # "END" /\ hook'.rec = "NO"
  <1>1. CASE txn.there
    BY <1>1 DEF HookRow, RecoverySteps, Host!Trap
  <1>2. CASE ~txn.there /\ back = "END"
    BY <1>2 DEF HookRow, RecoverySteps, Host!Trap
  <1>3. CASE ~txn.there /\ back # "END"
    <2>1. hook' = [hook EXCEPT !.at = back, !.rec = "NO"] /\ back \in ArmedAt
      BY <1>3 DEF Host!Trap
    <2> QED BY <1>3, <2>1 DEF HookRow, RecoverySteps
  <1> QED BY <1>1, <1>2, <1>3

(* The trap is run where the hook stood, or the hook is over.                *)
LEMMA TrapMoves ==
    ASSUME TlsIInv, UNCHANGED <<pair, txn, postfix>>,
           NEW back \in {"END"} \union ArmedAt, Host!Trap(back), back \in {"END", hook.at},
           raced' = (raced \/ Host!StartedInRenewal' \/ Host!WentOnUnrecovered')
    PROVE  TlsIInv'
  <1>1. /\ hook' \in HookRow
        /\ \/ hook'.at = "TRAP" /\ hook'.rec = "LOOK"
           \/ hook'.at = "IDLE" /\ hook'.rec = "NO"
           \/ hook'.at = hook.at /\ hook'.rec = "NO"
    BY TlsFields, TrapSets
  <1>2. \A p, t : /\ RecoveryStands("LOOK", p, t) /\ RecoveryStands("NO", p, t)
                  /\ HookStands("TRAP", p, t) /\ HookStands("IDLE", p, t)
    BY DEF RecoveryStands, HookStands
  <1>3. TlsSound(pair, txn, hook, postfix)
          => RecoveryStands(hook'.rec, pair, txn) /\ HookStands(hook'.at, pair, txn)
    BY <1>1, <1>2 DEF TlsSound
  <1> QED BY <1>1, <1>3, HookMoves

LEMMA HookAlone ==
    ASSUME TlsIInv,
           \/ Host!Renew \/ Host!VerifyLive \/ Host!HookFails \/ Host!HookKilled,
           raced' = (raced \/ Host!StartedInRenewal' \/ Host!WentOnUnrecovered')
    PROVE  TlsIInv'
  <1>1. UNCHANGED <<pair, txn, postfix>>
    BY DEF Host!Renew, Host!VerifyLive, Host!HookFails, Host!HookKilled
  <1>2. \A p, t : /\ RecoveryStands("LOOK", p, t) /\ RecoveryStands("NO", p, t)
                  /\ HookStands("RECOVER", p, t) /\ HookStands("IDLE", p, t)
    BY DEF RecoveryStands, HookStands
  <1>3. CASE Host!Renew
    <2>1. PICK source \in {hook.source, hook.source + 1} :
             hook' = [hook EXCEPT !.at = "RECOVER", !.rec = "LOOK", !.source = source]
      BY <1>3 DEF Host!Renew
    <2>2. hook' \in HookRow /\ hook'.at = "RECOVER" /\ hook'.rec = "LOOK"
      <3>1. source \in Nat
        BY TlsFields
      <3> QED BY <2>1, <3>1, TlsFields DEF HookRow, RecoverySteps
    <2> QED BY <1>1, <1>2, <2>2, HookMoves
  <1>4. ASSUME Host!HookEnds PROVE TlsIInv'
    BY <1>1, <1>2, <1>4, HookEndsAt, TlsFields, HookMoves
  <1>5. CASE Host!VerifyLive
    <2>1. CASE Host!HookGoes("CLEAR")
      <3>1. hook' \in HookRow /\ hook'.at = "CLEAR" /\ hook'.rec = hook.rec
        BY <2>1, TlsFields, HookAt DEF Host!HookGoes, ArmedAt
      <3>2. hook.at = "LIVE"
        BY <1>5 DEF Host!VerifyLive
      <3>3. hook.rec = "NO"
        BY <3>2, TlsFields DEF TlsOrder
      <3>4. TlsSound(pair, txn, hook, postfix)
              => RecoveryStands(hook'.rec, pair, txn) /\ HookStands(hook'.at, pair, txn)
        BY <3>1, <3>2 DEF TlsSound, HookStands
      <3> QED BY <1>1, <3>1, <3>3, <3>4, HookMoves
    <2>2. CASE Host!Trap("END")
      BY <1>1, <2>2, TrapMoves
    <2> QED BY <1>5, <2>1, <2>2 DEF Host!VerifyLive
  <1>6. CASE Host!HookFails
    <2>1. CASE hook.at \in ArmedAt /\ Host!Trap(hook.at)
      BY <1>1, <2>1, TrapMoves
    <2>2. CASE Host!Trap("END")
      BY <1>1, <2>2, TrapMoves
    <2> QED BY <1>4, <1>6, <2>1, <2>2 DEF Host!HookFails, Host!Armed, ArmedAt
  <1>7. CASE Host!HookKilled
    BY <1>4, <1>7 DEF Host!HookKilled
  <1> QED BY <1>3, <1>5, <1>6, <1>7

(* The renewal itself: while the hook is past its recovery, no service is    *)
(* starting, unless the history says so.                                     *)
LEMMA PastRecovery ==
    ASSUME TlsIInv, hook.at \notin {"IDLE", "RECOVER", "TRAP"}
    PROVE  /\ hook.rec = "NO"
           /\ TlsSound(pair, txn, hook, postfix) => postfix.rec = "NO"
           /\ \A p, t : RecoveryStands("NO", p, t)
  <1>1. \A p, t : RecoveryStands("NO", p, t)
    BY DEF RecoveryStands
  <1>2. hook.rec = "NO"
    BY TlsFields DEF TlsOrder
  <1>3. TlsSound(pair, txn, hook, postfix) => postfix.is # "STARTING"
    BY DEF TlsSound
  <1> QED BY <1>1, <1>2, <1>3, TlsFields DEF TlsOrder

LEMMA RenewalBegins ==
    ASSUME TlsIInv, Host!MakeTransaction,
           raced' = (raced \/ Host!StartedInRenewal' \/ Host!WentOnUnrecovered')
    PROVE  TlsIInv'
  <1>1. /\ hook.at = "RECOVER" /\ hook.rec = "DONE" /\ UNCHANGED <<pair, postfix>>
    BY DEF Host!MakeTransaction
  <1>2. CASE txn.there
    <2>1. UNCHANGED txn /\ hook' \in HookRow /\ hook'.at = "IDLE" /\ hook'.rec = "NO"
      BY <1>2, TlsFields, HookEndsAt DEF Host!MakeTransaction
    <2>2. RecoveryStands("NO", pair, txn) /\ HookStands("IDLE", pair, txn)
      BY DEF RecoveryStands, HookStands
    <2> QED BY <1>1, <2>1, <2>2, HookMoves
  <1>3. CASE ~txn.there
    <2>1. /\ txn' = [Host!NoTxn EXCEPT !.there = TRUE, !.new = hook.source]
          /\ hook' = [hook EXCEPT !.at = "SAVE", !.rec = "NO"]
      BY <1>3 DEF Host!MakeTransaction
    <2>2. txn' \in TxnRow /\ txn'.there /\ txn'.files = {}
      <3>1. ASSUME NEW t \in TxnRow
            PROVE  LET w == [t EXCEPT !.there = TRUE, !.new = hook.source]
                   IN  w \in TxnRow /\ w.there /\ w.files = t.files
        BY TlsFields DEF TxnRow
      <3> QED BY <2>1, <3>1, NoTxnIsRow
    <2>3. hook' \in HookRow /\ hook'.at = "SAVE" /\ hook'.rec = "NO"
      BY <2>1, TlsFields DEF HookRow, RecoverySteps
    <2>4. TlsOrder(txn', hook', postfix')
      BY <1>1, <2>2, <2>3, TlsFields DEF TlsOrder
    <2>5. TlsSound(pair, txn, hook, postfix) /\ postfix.is # "STARTING"
            => TlsKept(pair', txn', hook', postfix')
      <3>1. SUFFICES ASSUME TlsSound(pair, txn, hook, postfix), postfix.is # "STARTING"
                     PROVE  TlsKept(pair', txn', hook', postfix')
        OBVIOUS
      <3>2. pair.cert = pair.key
        BY <1>1, <3>1 DEF TlsSound, RecoveryStands
      <3>3. postfix.rec = "NO"
        BY <3>1, TlsFields DEF TlsOrder
      <3>4. RecoveryStands("NO", pair', txn') /\ Restorable(pair', txn')
        BY <1>1, <3>2 DEF RecoveryStands, Restorable
      <3>5. HookStands("SAVE", pair', txn')
        BY <1>1, <2>2, <3>2 DEF HookStands, InPlace
      <3> QED BY <1>1, <2>3, <3>1, <3>3, <3>4, <3>5 DEF TlsKept, TlsSound
    <2> QED BY <1>1, <2>2, <2>3, <2>4, <2>5, TlsFields, TlsMoves
  <1> QED BY <1>2, <1>3

LEMMA SaveIs ==
    ASSUME TlsIInv, Host!Save
    PROVE  \E f \in TxnFiles, old \in KeyPair :
             /\ txn' = [txn EXCEPT !.files = txn.files \union {f}, !.old = old]
             /\ f = "oldCert" => old.cert = pair.cert /\ old.key = txn.old.key
             /\ f = "oldKey" => old.cert = txn.old.cert /\ old.key = pair.key
             /\ f \notin {"oldCert", "oldKey"} => old = txn.old
             /\ \/ f # "newKey" /\ Host!HookGoes("SAVE")
                \/ {"oldCert", "oldKey"} \subseteq txn.files /\ Host!HookGoes("CERT")
  <1> DEFINE saved == Host!SavedFiles
             First(i) == /\ saved[i] \notin txn.files
                         /\ \A j \in 1..(i - 1) : saved[j] \in txn.files
             k == CHOOSE i \in 1..Len(saved) : First(i)
             old == CASE saved[k] = "oldCert" -> [txn.old EXCEPT !.cert = pair.cert]
                      [] saved[k] = "oldKey" -> [txn.old EXCEPT !.key = pair.key]
                      [] OTHER -> txn.old
  <1>1. /\ saved[1] = "oldCert" /\ saved[2] = "oldKey" /\ saved[3] = "newCert"
        /\ saved[4] = "newKey"
        /\ Len(saved) = 4 /\ 1..Len(saved) = {1, 2, 3, 4}
    BY DEF Host!SavedFiles
  <1>2. hook.at = "SAVE" /\ "newKey" \notin txn.files
    BY TlsFields DEF Host!Save, TlsOrder
  <1>3. /\ txn' = [txn EXCEPT !.files = txn.files \union {saved[k]}, !.old = old]
        /\ Host!HookGoes(IF k = Len(saved) THEN "CERT" ELSE "SAVE")
    BY DEF Host!Save
  <1> HIDE DEF saved
  <1>4. \E i \in 1..Len(saved) : First(i)
    <2>1. CASE saved[1] \notin txn.files
      BY <1>1, <2>1
    <2>2. CASE saved[1] \in txn.files /\ saved[2] \notin txn.files
      <3>1. First(2)
        BY <1>1, <2>2
      <3> QED BY <1>1, <3>1
    <2>3. CASE saved[1] \in txn.files /\ saved[2] \in txn.files /\ saved[3] \notin txn.files
      <3>1. First(3)
        BY <1>1, <2>3
      <3> QED BY <1>1, <3>1
    <2>4. CASE saved[1] \in txn.files /\ saved[2] \in txn.files /\ saved[3] \in txn.files
      <3>1. First(4)
        BY <1>1, <1>2, <2>4
      <3> QED BY <1>1, <3>1
    <2> QED BY <2>1, <2>2, <2>3, <2>4
  <1>5. k \in {1, 2, 3, 4} /\ First(k)
    BY <1>1, <1>4
  <1> HIDE DEF k
  <1>6. k = 4 => {"oldCert", "oldKey"} \subseteq txn.files
    BY <1>1, <1>5
  <1>7. PICK f : f = saved[k]
    OBVIOUS
  <1>8. f \in TxnFiles /\ (f = "newKey" => k = 4)
    BY <1>1, <1>5, <1>7 DEF TxnFiles
  <1>9. /\ old \in KeyPair
        /\ f = "oldCert" => old.cert = pair.cert /\ old.key = txn.old.key
        /\ f = "oldKey" => old.cert = txn.old.cert /\ old.key = pair.key
        /\ f \notin {"oldCert", "oldKey"} => old = txn.old
    <2>1. CASE f = "oldCert"
      BY <1>7, <2>1, TlsFields DEF KeyPair
    <2>2. CASE f = "oldKey"
      BY <1>7, <2>2, TlsFields DEF KeyPair
    <2>3. CASE f \notin {"oldCert", "oldKey"}
      BY <1>7, <2>3, TlsFields
    <2> QED BY <2>1, <2>2, <2>3
  <1> HIDE DEF old
  <1>10. \/ f # "newKey" /\ Host!HookGoes("SAVE")
         \/ {"oldCert", "oldKey"} \subseteq txn.files /\ Host!HookGoes("CERT")
    BY <1>1, <1>3, <1>5, <1>6, <1>8
  <1> QED BY <1>3, <1>7, <1>8, <1>9, <1>10

LEMMA PairIsSaved ==
    ASSUME TlsIInv, Host!Save,
           raced' = (raced \/ Host!StartedInRenewal' \/ Host!WentOnUnrecovered')
    PROVE  TlsIInv'
  <1>1. hook.at = "SAVE" /\ UNCHANGED <<pair, postfix>>
    BY DEF Host!Save
  <1>2. PICK f \in TxnFiles, old \in KeyPair :
             /\ txn' = [txn EXCEPT !.files = txn.files \union {f}, !.old = old]
             /\ f = "oldCert" => old.cert = pair.cert /\ old.key = txn.old.key
             /\ f = "oldKey" => old.cert = txn.old.cert /\ old.key = pair.key
             /\ f \notin {"oldCert", "oldKey"} => old = txn.old
             /\ \/ f # "newKey" /\ Host!HookGoes("SAVE")
                \/ {"oldCert", "oldKey"} \subseteq txn.files /\ Host!HookGoes("CERT")
    BY SaveIs
  <1>3. /\ txn' \in TxnRow /\ txn'.files = txn.files \union {f} /\ txn'.old = old
        /\ txn'.there = txn.there
    <2>1. ASSUME NEW t \in TxnRow, NEW files \in SUBSET TxnFiles
          PROVE  LET w == [t EXCEPT !.files = files, !.old = old]
                 IN  w \in TxnRow /\ w.files = files /\ w.old = old /\ w.there = t.there
      BY DEF TxnRow
    <2>2. txn.files \union {f} \in SUBSET TxnFiles
      BY TlsFields
    <2> QED BY <1>2, <2>1, <2>2, TlsFields
  <1>4. /\ hook' \in HookRow /\ hook'.rec = "NO"
        /\ \/ hook'.at = "SAVE" /\ f # "newKey"
           \/ hook'.at = "CERT" /\ {"oldCert", "oldKey"} \subseteq txn.files
    <2>1. hook.rec = "NO"
      BY <1>1, PastRecovery
    <2>2. CASE Host!HookGoes("SAVE") /\ f # "newKey"
      BY <2>1, <2>2, TlsFields, HookAt DEF Host!HookGoes
    <2>3. CASE Host!HookGoes("CERT") /\ {"oldCert", "oldKey"} \subseteq txn.files
      BY <2>1, <2>3, TlsFields, HookAt DEF Host!HookGoes, ArmedAt
    <2> QED BY <1>2, <2>2, <2>3
  <1>5. txn.there /\ "newKey" \notin txn.files
    BY <1>1, TlsFields DEF Host!Save, TlsOrder
  <1>6. TlsOrder(txn', hook', postfix')
    BY <1>1, <1>3, <1>4, <1>5, TlsFields DEF TlsOrder
  <1>7. TlsSound(pair, txn, hook, postfix) => TlsKept(pair', txn', hook', postfix')
    <2>1. SUFFICES ASSUME TlsSound(pair, txn, hook, postfix)
                   PROVE  TlsKept(pair', txn', hook', postfix')
      OBVIOUS
    <2>2. InPlace(pair, txn)
      BY <1>1, <2>1 DEF TlsSound, HookStands
    <2>3. InPlace(pair', txn')
      <3>1. CASE f = "oldCert"
        BY <1>1, <1>2, <1>3, <2>2, <3>1 DEF InPlace
      <3>2. CASE f = "oldKey"
        BY <1>1, <1>2, <1>3, <2>2, <3>2 DEF InPlace
      <3>3. CASE f \notin {"oldCert", "oldKey"}
        BY <1>1, <1>2, <1>3, <2>2, <3>3 DEF InPlace
      <3> QED BY <3>1, <3>2, <3>3
    <2>4. Restorable(pair', txn')
      BY <2>3 DEF Restorable, InPlace
    <2>5. HookStands(hook'.at, pair', txn')
      <3>1. {"oldCert", "oldKey"} \subseteq txn.files => Whole(txn')
        BY <1>3, <2>3 DEF InPlace, Whole
      <3> QED BY <1>4, <2>3, <3>1 DEF HookStands
    <2>6. postfix.rec = "NO" /\ RecoveryStands("NO", pair', txn')
      BY <1>1, <2>1, PastRecovery
    <2> QED BY <1>1, <1>4, <2>1, <2>4, <2>5, <2>6 DEF TlsKept, TlsSound
  <1> QED BY <1>1, <1>3, <1>4, <1>6, <1>7, TlsFields, TlsMoves

LEMMA CertIsSwitched ==
    ASSUME TlsIInv, Host!SwitchCert,
           raced' = (raced \/ Host!StartedInRenewal' \/ Host!WentOnUnrecovered')
    PROVE  TlsIInv'
  <1>1. hook.at = "CERT" /\ UNCHANGED postfix
    BY DEF Host!SwitchCert
  <1>2. CASE "newCert" \notin txn.files
    BY <1>1, <1>2, TrapMoves DEF Host!SwitchCert
  <1>3. CASE "newCert" \in txn.files
    <2>1. /\ pair' = [pair EXCEPT !.cert = txn.new]
          /\ txn' = [txn EXCEPT !.files = txn.files \ {"newCert"}]
          /\ Host!HookGoes("KEY")
      BY <1>3 DEF Host!SwitchCert
    <2>2. pair' \in KeyPair /\ pair'.cert = txn.new /\ pair'.key = pair.key
      BY <2>1, TlsFields DEF KeyPair
    <2>3. /\ txn' \in TxnRow /\ txn'.files = txn.files \ {"newCert"} /\ txn'.old = txn.old
          /\ txn'.new = txn.new /\ txn'.there = txn.there
      BY <2>1, TlsFields DEF TxnRow
    <2>4. hook.rec = "NO" /\ hook' \in HookRow /\ hook'.rec = "NO" /\ hook'.at = "KEY"
      BY <1>1, <2>1, PastRecovery, TlsFields, HookAt DEF Host!HookGoes, ArmedAt
    <2>5. TlsOrder(txn', hook', postfix')
      BY <1>1, <2>3, <2>4, TlsFields DEF TlsOrder
    <2>6. TlsSound(pair, txn, hook, postfix) => TlsKept(pair', txn', hook', postfix')
      <3>1. SUFFICES ASSUME TlsSound(pair, txn, hook, postfix)
                     PROVE  TlsKept(pair', txn', hook', postfix')
        OBVIOUS
      <3>2. postfix.rec = "NO" /\ RecoveryStands("NO", pair', txn')
        BY <1>1, <3>1, PastRecovery
      <3>3. Whole(txn)
        BY <1>1, <1>3, <3>1 DEF TlsSound, HookStands
      <3>4. Restorable(pair', txn') /\ HookStands("KEY", pair', txn')
        BY <2>2, <2>3, <3>3 DEF Restorable, HookStands, Whole
      <3> QED BY <1>1, <2>4, <3>1, <3>2, <3>4 DEF TlsKept, TlsSound
    <2> QED BY <1>1, <2>2, <2>3, <2>4, <2>5, <2>6, TlsFields, TlsMoves
  <1> QED BY <1>2, <1>3

LEMMA KeyIsSwitched ==
    ASSUME TlsIInv, Host!SwitchKey,
           raced' = (raced \/ Host!StartedInRenewal' \/ Host!WentOnUnrecovered')
    PROVE  TlsIInv'
  <1>1. hook.at = "KEY" /\ UNCHANGED postfix
    BY DEF Host!SwitchKey
  <1>2. CASE "newKey" \notin txn.files
    BY <1>1, <1>2, TrapMoves DEF Host!SwitchKey
  <1>3. CASE "newKey" \in txn.files
    <2>1. /\ pair' = [pair EXCEPT !.key = txn.new]
          /\ txn' = [txn EXCEPT !.files = txn.files \ {"newKey"}]
          /\ Host!HookGoes("RELOAD")
      BY <1>3 DEF Host!SwitchKey
    <2>2. pair' \in KeyPair /\ pair'.key = txn.new /\ pair'.cert = pair.cert
      BY <2>1, TlsFields DEF KeyPair
    <2>3. /\ txn' \in TxnRow /\ txn'.files = txn.files \ {"newKey"} /\ txn'.old = txn.old
          /\ txn'.new = txn.new /\ txn'.there = txn.there
      BY <2>1, TlsFields DEF TxnRow
    <2>4. hook.rec = "NO" /\ hook' \in HookRow /\ hook'.rec = "NO" /\ hook'.at = "RELOAD"
      BY <1>1, <2>1, PastRecovery, TlsFields, HookAt DEF Host!HookGoes, ArmedAt
    <2>5. TlsOrder(txn', hook', postfix')
      BY <1>1, <2>3, <2>4, TlsFields DEF TlsOrder
    <2>6. TlsSound(pair, txn, hook, postfix) => TlsKept(pair', txn', hook', postfix')
      <3>1. SUFFICES ASSUME TlsSound(pair, txn, hook, postfix)
                     PROVE  TlsKept(pair', txn', hook', postfix')
        OBVIOUS
      <3>2. postfix.rec = "NO" /\ RecoveryStands("NO", pair', txn')
        BY <1>1, <3>1, PastRecovery
      <3>3. Whole(txn) /\ pair.cert = txn.new
        BY <1>1, <1>3, <3>1 DEF TlsSound, HookStands
      <3>4. Restorable(pair', txn') /\ HookStands("RELOAD", pair', txn')
        BY <2>2, <2>3, <3>3 DEF Restorable, HookStands, Whole
      <3> QED BY <1>1, <2>4, <3>1, <3>2, <3>4 DEF TlsKept, TlsSound
    <2> QED BY <1>1, <2>2, <2>3, <2>4, <2>5, <2>6, TlsFields, TlsMoves
  <1> QED BY <1>2, <1>3

LEMMA RenewalEnds ==
    ASSUME TlsIInv, Host!Reload \/ Host!Clear,
           raced' = (raced \/ Host!StartedInRenewal' \/ Host!WentOnUnrecovered')
    PROVE  TlsIInv'
  <1>1. \A p, t : RecoveryStands("NO", p, t) /\ HookStands("IDLE", p, t)
    BY DEF RecoveryStands, HookStands
  <1>2. CASE Host!Reload
    <2>1. hook.at = "RELOAD" /\ UNCHANGED <<pair, txn>>
      BY <1>2 DEF Host!Reload
    <2>2. CASE postfix.is # "ACTIVE"
      BY <1>2, <2>2, TrapMoves DEF Host!Reload
    <2>3. CASE postfix.is = "ACTIVE"
      <3>1. postfix' = [postfix EXCEPT !.serves = pair] /\ Host!HookGoes("LIVE")
        BY <1>2, <2>3 DEF Host!Reload
      <3>2. /\ postfix' \in PostfixRow /\ postfix'.serves = pair /\ postfix'.is = postfix.is
            /\ postfix'.rec = postfix.rec
        BY <3>1, TlsFields DEF PostfixRow
      <3>3. hook.rec = "NO" /\ hook' \in HookRow /\ hook'.rec = "NO" /\ hook'.at = "LIVE"
        BY <2>1, <3>1, PastRecovery, TlsFields, HookAt DEF Host!HookGoes, ArmedAt
      <3>4. TlsOrder(txn', hook', postfix')
        BY <2>1, <3>2, <3>3, TlsFields DEF TlsOrder
      <3>5. TlsSound(pair, txn, hook, postfix) => TlsKept(pair', txn', hook', postfix')
        BY <1>1, <2>1, <3>2, <3>3 DEF TlsKept, TlsSound, HookStands
      <3> QED BY <2>1, <3>2, <3>3, <3>4, <3>5, TlsFields, TlsMoves
    <2> QED BY <2>2, <2>3
  <1>3. CASE Host!Clear
    <2>1. hook.at = "CLEAR" /\ UNCHANGED pair
      BY <1>3 DEF Host!Clear
    <2>2. TlsSound(pair, txn, hook, postfix) => postfix.rec = "NO" /\ pair.cert = pair.key
      BY <2>1, PastRecovery DEF TlsSound, HookStands
    <2>3. CASE txn' = Host!NoTxn /\ Host!HookEnds /\ UNCHANGED postfix
      <3>1. hook' \in HookRow /\ hook'.at = "IDLE" /\ hook'.rec = "NO"
        BY <2>3, TlsFields, HookEndsAt
      <3>2. TlsOrder(txn', hook', postfix')
        BY <2>3, <3>1, TlsFields, NoTxnIsRow DEF TlsOrder
      <3>3. TlsSound(pair, txn, hook, postfix) => TlsKept(pair', txn', hook', postfix')
        BY <1>1, <2>1, <2>2, <2>3, <3>1 DEF TlsKept, TlsSound, Restorable
      <3> QED BY <2>1, <2>3, <3>1, <3>2, <3>3, TlsFields, TlsMoves, NoTxnIsRow
    <2>4. ASSUME NEW files \in SUBSET txn.files \ {txn.files},
                 txn' = [txn EXCEPT !.files = files], UNCHANGED <<hook, postfix>>
          PROVE  TlsIInv'
      <3>1. txn' \in TxnRow /\ txn'.files = files /\ txn'.there = txn.there
        BY <2>4, TlsFields DEF TxnRow
      <3>2. TlsOrder(txn', hook', postfix')
        BY <2>1, <2>4, <3>1, TlsFields DEF TlsOrder
      <3>3. TlsSound(pair, txn, hook, postfix) => TlsKept(pair', txn', hook', postfix')
        <4>1. hook.rec = "NO" /\ HookStands("CLEAR", pair', txn) => HookStands("CLEAR", pair', txn')
          BY <2>1, PastRecovery DEF HookStands
        <4> QED BY <1>1, <2>1, <2>2, <2>4, <4>1, PastRecovery DEF TlsKept, TlsSound, Restorable
      <3> QED BY <2>1, <2>4, <3>1, <3>2, <3>3, TlsFields, TlsMoves
    <2> QED BY <1>3, <2>3, <2>4 DEF Host!Clear, Host!Removes
  <1> QED BY <1>2, <1>3

LEMMA TrapEnds ==
    ASSUME TlsIInv, Host!Trapped,
           raced' = (raced \/ Host!StartedInRenewal' \/ Host!WentOnUnrecovered')
    PROVE  TlsIInv'
  <1>1. hook.at = "TRAP" /\ hook.rec \in {"DONE", "FAILED"} /\ UNCHANGED <<pair, txn>>
    BY DEF Host!Trapped
  <1>2. PICK at \in {"IDLE"} \union ArmedAt :
           /\ hook' = [hook EXCEPT !.at = at, !.rec = "NO", !.back = "END"]
           /\ at # "IDLE" => hook.back # "END"
    <2>1. CASE hook.back = "END"
      BY <2>1 DEF Host!Trapped
    <2>2. CASE hook.back # "END"
      BY <2>2, TlsFields DEF Host!Trapped
    <2> QED BY <2>1, <2>2
  <1>3. hook' \in HookRow /\ hook'.at = at /\ hook'.rec = "NO"
    BY <1>2, TlsFields DEF HookRow, RecoverySteps
  <1>4. /\ postfix' \in PostfixRow /\ postfix'.rec = postfix.rec
        /\ postfix'.is = "STARTING" => postfix.is = "STARTING"
        /\ postfix'.rec # "NO" => postfix.is = "STARTING" /\ postfix' = postfix
        /\ postfix'.is = "ACTIVE" => hook.rec = "DONE" /\ postfix'.serves = pair
    <2>1. CASE /\ hook.rec = "DONE" /\ postfix.is = "ACTIVE"
               /\ postfix' = [postfix EXCEPT !.serves = pair]
      <3>1. /\ postfix' \in PostfixRow /\ postfix'.rec = postfix.rec /\ postfix'.is = postfix.is
            /\ postfix'.serves = pair
        BY <2>1, TlsFields DEF PostfixRow
      <3> QED BY <2>1, <3>1, TlsFields DEF TlsOrder
    <2>2. CASE postfix.is = "ACTIVE" /\ postfix' = [postfix EXCEPT !.is = "STOPPED"]
      <3>1. /\ postfix' \in PostfixRow /\ postfix'.rec = postfix.rec /\ postfix'.is = "STOPPED"
        BY <2>2, TlsFields DEF PostfixRow
      <3> QED BY <2>2, <3>1, TlsFields DEF TlsOrder
    <2>3. CASE postfix.is # "ACTIVE" /\ UNCHANGED postfix
      BY <2>3, TlsFields DEF TlsOrder
    <2> QED BY <1>1, <2>1, <2>2, <2>3 DEF Host!Trapped
  <1>5. TlsOrder(txn', hook', postfix')
    BY <1>1, <1>2, <1>3, <1>4, TlsFields DEF TlsOrder, ArmedAt
  <1>6. TlsSound(pair, txn, hook, postfix) => TlsKept(pair', txn', hook', postfix')
    <2>1. SUFFICES ASSUME TlsSound(pair, txn, hook, postfix)
                   PROVE  TlsKept(pair', txn', hook', postfix')
      OBVIOUS
    <2>2. hook.rec = "DONE" => txn.files = {} /\ pair.cert = pair.key
      BY <2>1 DEF TlsSound, RecoveryStands
    <2>3. HookStands(at, pair, txn)
      <3>1. CASE at = "IDLE"
        BY <3>1 DEF HookStands
      <3>2. CASE at # "IDLE"
        <4>1. hook.rec = "DONE"
          BY <1>1, <1>2, <2>1, <3>2 DEF TlsSound
        <4> QED BY <1>2, <2>2, <3>2, <4>1 DEF HookStands, ArmedAt
      <3> QED BY <3>1, <3>2
    <2>4. RecoveryStands("NO", pair, txn)
      BY DEF RecoveryStands
    <2> QED BY <1>1, <1>3, <1>4, <2>1, <2>2, <2>3, <2>4 DEF TlsKept, TlsSound
  <1> QED BY <1>1, <1>3, <1>4, <1>5, <1>6, TlsFields, TlsMoves

(* The two recoveries.                                                       *)
LEMMA HookRecovery ==
    ASSUME TlsIInv, Host!HookRecovers
    PROVE  \E rec : /\ RecoveryGoes(hook.rec, rec, pair, pair', txn, txn')
                    /\ hook' = [hook EXCEPT !.rec = rec] /\ UNCHANGED postfix
  <1>1. [hook EXCEPT !.rec = hook.rec] = hook
    BY TlsFields DEF HookRow
  <1> QED BY <1>1 DEF Host!HookRecovers, Host!Recovery, Host!Removes, Host!Matches, RecoveryGoes,
                      Whole

LEMMA StartRecovery ==
    ASSUME TlsIInv, Host!StartRecovers
    PROVE  \E rec : /\ RecoveryGoes(postfix.rec, rec, pair, pair', txn, txn')
                    /\ postfix' = [postfix EXCEPT !.rec = rec] /\ UNCHANGED hook
  <1>1. [postfix EXCEPT !.rec = postfix.rec] = postfix
    BY TlsFields DEF PostfixRow
  <1> QED BY <1>1 DEF Host!StartRecovers, Host!Recovery, Host!Removes, Host!Matches, RecoveryGoes,
                      Whole

LEMMA Recoveries ==
    ASSUME TlsIInv, Host!HookRecovers \/ Host!StartRecovers,
           raced' = (raced \/ Host!StartedInRenewal' \/ Host!WentOnUnrecovered')
    PROVE  TlsIInv'
  <1>2. CASE Host!HookRecovers
    <2>1. PICK rec : /\ RecoveryGoes(hook.rec, rec, pair, pair', txn, txn')
                     /\ hook' = [hook EXCEPT !.rec = rec] /\ UNCHANGED postfix
      BY <1>2, HookRecovery
    <2>2. /\ pair' \in KeyPair /\ txn' \in TxnRow /\ rec \in RecoverySteps \ {"NO", "LOOK"}
          /\ txn'.files \subseteq txn.files /\ (~txn'.there => txn'.files = {})
          /\ Restorable(pair, txn) /\ RecoveryStands(hook.rec, pair, txn) =>
                /\ Restorable(pair', txn') /\ RecoveryStands(rec, pair', txn')
                /\ \A other : RecoveryStands(other, pair, txn) => RecoveryStands(other, pair', txn')
      <3>1. /\ pair \in KeyPair /\ txn \in TxnRow /\ (~txn.there => txn.files = {})
        BY TlsFields
      <3>2. RecoveryKept(hook.rec, rec, pair, pair', txn, txn')
        BY <2>1, <3>1, RecoveryKeeps
      <3> QED BY <3>2 DEF RecoveryKept
    <2>3. hook' \in HookRow /\ hook'.rec = rec /\ hook'.at = hook.at
      BY <2>1, <2>2, TlsFields DEF HookRow
    <2>4. hook.at \in {"RECOVER", "TRAP"}
      <3>1. hook.rec # "NO"
        BY <2>1 DEF RecoveryGoes
      <3> QED BY <3>1, TlsFields DEF TlsOrder
    <2>5. TlsOrder(txn', hook', postfix')
      BY <2>1, <2>2, <2>3, <2>4, TlsFields DEF TlsOrder
    <2>6. HookStands(hook'.at, pair', txn')
      BY <2>3, <2>4 DEF HookStands
    <2>7. TlsSound(pair, txn, hook, postfix) => TlsKept(pair', txn', hook', postfix')
      BY <2>1, <2>2, <2>3, <2>6 DEF TlsSound, TlsKept
    <2> QED BY <2>1, <2>2, <2>3, <2>5, <2>7, TlsFields, TlsMoves
  <1>3. CASE Host!StartRecovers
    <2>1. PICK rec : /\ RecoveryGoes(postfix.rec, rec, pair, pair', txn, txn')
                     /\ postfix' = [postfix EXCEPT !.rec = rec] /\ UNCHANGED hook
      BY <1>3, StartRecovery
    <2>2. /\ pair' \in KeyPair /\ txn' \in TxnRow /\ rec \in RecoverySteps \ {"NO", "LOOK"}
          /\ txn'.files \subseteq txn.files /\ (~txn'.there => txn'.files = {})
          /\ Restorable(pair, txn) /\ RecoveryStands(postfix.rec, pair, txn) =>
                /\ Restorable(pair', txn') /\ RecoveryStands(rec, pair', txn')
                /\ \A other : RecoveryStands(other, pair, txn) => RecoveryStands(other, pair', txn')
      <3>1. /\ pair \in KeyPair /\ txn \in TxnRow /\ (~txn.there => txn.files = {})
        BY TlsFields
      <3>2. RecoveryKept(postfix.rec, rec, pair, pair', txn, txn')
        BY <2>1, <3>1, RecoveryKeeps
      <3> QED BY <3>2 DEF RecoveryKept
    <2>3. /\ postfix' \in PostfixRow /\ postfix'.rec = rec /\ postfix'.is = postfix.is
          /\ postfix'.serves = postfix.serves
      BY <2>1, <2>2, TlsFields DEF PostfixRow
    <2>4. postfix.is = "STARTING"
      <3>1. postfix.rec # "NO"
        BY <2>1 DEF RecoveryGoes
      <3> QED BY <3>1, TlsFields DEF TlsOrder
    <2>5. TlsOrder(txn', hook', postfix')
      BY <2>1, <2>2, <2>3, <2>4, TlsFields DEF TlsOrder
    <2>6. TlsSound(pair, txn, hook, postfix) => HookStands(hook'.at, pair', txn')
      BY <2>1, <2>4 DEF TlsSound, HookStands
    <2>7. TlsSound(pair, txn, hook, postfix) => TlsKept(pair', txn', hook', postfix')
      BY <2>1, <2>2, <2>3, <2>4, <2>6 DEF TlsSound, TlsKept
    <2> QED BY <2>1, <2>2, <2>3, <2>5, <2>7, TlsFields, TlsMoves
  <1> QED BY <1>2, <1>3

LEMMA ServiceMoves ==
    ASSUME TlsIInv, Host!StartPostfix \/ Host!Started \/ Host!StopPostfix,
           raced' = (raced \/ Host!StartedInRenewal' \/ Host!WentOnUnrecovered')
    PROVE  TlsIInv'
  <1>1. UNCHANGED <<pair, txn, hook>>
    BY DEF Host!StartPostfix, Host!Started, Host!StopPostfix
  <1>2. \A p, t : RecoveryStands("NO", p, t) /\ RecoveryStands("LOOK", p, t)
    BY DEF RecoveryStands
  <1>3. ASSUME postfix' \in PostfixRow, postfix'.rec \in {"NO", "LOOK"},
               postfix'.rec # "NO" => postfix'.is = "STARTING",
               TlsSound(pair, txn, hook, postfix) /\ postfix'.is = "ACTIVE"
                 => postfix'.serves.cert = postfix'.serves.key
        PROVE  TlsIInv'
    <2>1. TlsOrder(txn', hook', postfix')
      BY <1>1, <1>3, TlsFields DEF TlsOrder
    <2>2. TlsSound(pair, txn, hook, postfix) => TlsKept(pair', txn', hook', postfix')
      BY <1>1, <1>2, <1>3 DEF TlsSound, TlsKept
    <2> QED BY <1>1, <1>3, <2>1, <2>2, TlsFields, TlsMoves
  <1>4. CASE Host!StartPostfix
    <2>1. postfix' \in PostfixRow /\ postfix'.is = "STARTING" /\ postfix'.rec = "LOOK"
      BY <1>4, TlsFields DEF Host!StartPostfix, PostfixRow, RecoverySteps
    <2> QED BY <1>3, <2>1
  <1>5. CASE Host!StopPostfix
    <2>1. postfix' \in PostfixRow /\ postfix'.is = "STOPPED" /\ postfix'.rec = "NO"
      BY <1>5, TlsFields DEF Host!StopPostfix, PostfixRow, RecoverySteps
    <2> QED BY <1>3, <2>1
  <1>6. CASE Host!Started /\ postfix.rec = "DONE"
    <2>1. /\ postfix' \in PostfixRow /\ postfix'.rec = "NO" /\ postfix'.serves = pair
      BY <1>6, TlsFields DEF Host!Started, PostfixRow, RecoverySteps
    <2>2. TlsSound(pair, txn, hook, postfix) => pair.cert = pair.key
      BY <1>6 DEF TlsSound, RecoveryStands
    <2> QED BY <1>3, <2>1, <2>2
  <1>7. CASE Host!Started /\ postfix.rec # "DONE"
    <2>1. postfix' = [postfix EXCEPT !.is = "STOPPED", !.rec = "NO"]
      BY <1>7 DEF Host!Started
    <2>2. postfix' \in PostfixRow /\ postfix'.is = "STOPPED" /\ postfix'.rec = "NO"
      BY <2>1, TlsFields DEF PostfixRow, RecoverySteps
    <2> QED BY <1>3, <2>2
  <1> QED BY <1>4, <1>5, <1>6, <1>7

LEMMA TlsStep ==
    ASSUME TlsIInv, Host!TlsNext \/ UNCHANGED tlsVars
    PROVE  TlsIInv'
  <1>1. CASE UNCHANGED tlsVars
    BY <1>1 DEF TlsIInv, TlsTypes, tlsVars
  <1>2. CASE Host!TlsNext
    BY <1>2, HookAlone, RenewalBegins, PairIsSaved, CertIsSwitched, KeyIsSwitched, RenewalEnds,
       TrapEnds, Recoveries, ServiceMoves
       DEF Host!TlsNext
  <1> QED BY <1>1, <1>2

LEMMA TlsHoldsThen == ASSUME TlsIInv PROVE Host!PairsMatch
  BY DEF TlsIInv, TlsSound, Restorable, Whole, Host!PairsMatch, Host!Matches

-----------------------------------------------------------------------------
(* The configuration of the mail platform.                                   *)

SavedRow == [main : BOOLEAN, rest : BOOLEAN, active : BOOLEAN]

MailRow ==
    [main : BOOLEAN, rest : BOOLEAN, active : BOOLEAN, spool : {0, 1}, saved : Seq(SavedRow),
     last : Nat, prepared : SUBSET Nat, halfBack : BOOLEAN]

ScriptSteps ==
    {"IDLE", "BACKUP", "POINT", "STOP", "COUNT", "RENDER", "RENDER_SECOND", "READY", "RESTORE",
     "RESTORE_REST", "SERVICE"}

(* Every backup is of a configuration that was not managed, but for what a   *)
(* rollback left half way.                                                   *)
BackupsStand(m) ==
    /\ m.last <= Len(m.saved) /\ m.prepared \subseteq 1..Len(m.saved)
    /\ \A i \in 1..Len(m.saved) : ~m.saved[i].main /\ (m.saved[i].rest => m.halfBack)

ConfigStands(m, at) ==
    /\ m.main \/ ~m.rest \/ m.halfBack \/ at = "RESTORE_REST"
    /\ m.last \in m.prepared /\ m.main => m.rest
    /\ at = "BACKUP" => ~m.main
    /\ at = "POINT" => Len(m.saved) \notin m.prepared
    /\ at \in {"STOP", "COUNT", "RENDER", "RENDER_SECOND"} => m.last \notin m.prepared
    /\ at \in {"COUNT", "RENDER", "RENDER_SECOND", "READY"} => ~m.active
    /\ at \in {"RENDER", "RENDER_SECOND", "READY"} => m.spool = 0
    /\ at \in {"RENDER_SECOND", "READY"} => m.main
    /\ at = "READY" => m.rest /\ m.last # 0
    /\ at \in {"STOP", "COUNT", "RENDER", "RENDER_SECOND"} => m.last # 0
    /\ at = "POINT" => Len(m.saved) # 0
    /\ at \in {"RESTORE", "RESTORE_REST", "SERVICE"} => m.last # 0
    /\ at = "RESTORE_REST" => ~m.main

PlatformIInv ==
    /\ mail \in MailRow /\ script \in ScriptSteps
    /\ BackupsStand(mail) /\ ConfigStands(mail, script)

LEMMA PlatformInitially == ASSUME Host!PlatformInit PROVE PlatformIInv
  <1>1. /\ mail.main = FALSE /\ mail.rest = FALSE /\ mail.active \in BOOLEAN /\ mail.spool = 0
        /\ mail.saved = <<>> /\ mail.last = 0 /\ mail.prepared = {} /\ mail.halfBack = FALSE
        /\ script = "IDLE"
    BY DEF Host!PlatformInit
  <1>2. <<>> \in Seq(SavedRow) /\ Len(<<>>) = 0
    OBVIOUS
  <1>3. mail \in MailRow
    <2>1. PICK saved \in Seq(SavedRow) : saved = <<>>
      BY <1>2
    <2>2. {FALSE} \subseteq BOOLEAN /\ {0} \subseteq {0, 1} /\ {0} \subseteq Nat
          /\ {saved} \subseteq Seq(SavedRow) /\ {{}} \subseteq SUBSET Nat
      BY <2>1
    <2>3. mail \in [main : {FALSE}, rest : {FALSE}, active : BOOLEAN, spool : {0},
                    saved : {saved}, last : {0}, prepared : {{}}, halfBack : {FALSE}]
      BY <2>1 DEF Host!PlatformInit
    <2> QED BY <2>2, <2>3 DEF MailRow
  <1>4. BackupsStand(mail) /\ ConfigStands(mail, script)
    BY <1>1, <1>2 DEF BackupsStand, ConfigStands
  <1> QED BY <1>1, <1>3, <1>4 DEF PlatformIInv, ScriptSteps

LEMMA MailFields ==
    ASSUME NEW m \in MailRow
    PROVE  /\ m.main \in BOOLEAN /\ m.rest \in BOOLEAN /\ m.active \in BOOLEAN /\ m.spool \in {0, 1}
           /\ m.saved \in Seq(SavedRow) /\ Len(m.saved) \in Nat /\ m.last \in Nat
           /\ m.prepared \in SUBSET Nat /\ m.halfBack \in BOOLEAN
  BY DEF MailRow

SameBackups(m, w) ==
    w.saved = m.saved /\ w.last = m.last /\ w.prepared = m.prepared /\ w.halfBack = m.halfBack

SameConfig(m, w) == w.main = m.main /\ w.rest = m.rest

LEMMA MainChanges ==
    ASSUME NEW m \in MailRow, NEW v \in BOOLEAN
    PROVE  LET w == [m EXCEPT !.main = v]
           IN  /\ w \in MailRow /\ SameBackups(m, w) /\ w.main = v /\ w.rest = m.rest
               /\ w.active = m.active /\ w.spool = m.spool
  BY DEF MailRow, SameBackups

LEMMA RestChanges ==
    ASSUME NEW m \in MailRow, NEW v \in BOOLEAN
    PROVE  LET w == [m EXCEPT !.rest = v]
           IN  /\ w \in MailRow /\ SameBackups(m, w) /\ w.main = m.main /\ w.rest = v
               /\ w.active = m.active /\ w.spool = m.spool
  BY DEF MailRow, SameBackups

LEMMA ActiveChanges ==
    ASSUME NEW m \in MailRow, NEW v \in BOOLEAN
    PROVE  LET w == [m EXCEPT !.active = v]
           IN  /\ w \in MailRow /\ SameBackups(m, w) /\ SameConfig(m, w)
               /\ w.active = v /\ w.spool = m.spool
  BY DEF MailRow, SameBackups, SameConfig

LEMMA SpoolChanges ==
    ASSUME NEW m \in MailRow, NEW v \in {0, 1}
    PROVE  LET w == [m EXCEPT !.spool = v]
           IN  /\ w \in MailRow /\ SameBackups(m, w) /\ SameConfig(m, w)
               /\ w.active = m.active /\ w.spool = v
  BY DEF MailRow, SameBackups, SameConfig

LEMMA PointerChanges ==
    ASSUME NEW m \in MailRow, NEW v \in Nat
    PROVE  LET w == [m EXCEPT !.last = v]
           IN  /\ w \in MailRow /\ SameConfig(m, w) /\ w.last = v /\ w.saved = m.saved
               /\ w.prepared = m.prepared /\ w.halfBack = m.halfBack
               /\ w.active = m.active /\ w.spool = m.spool
  BY DEF MailRow, SameConfig

LEMMA SavedChanges ==
    ASSUME NEW m \in MailRow, NEW v \in Seq(SavedRow)
    PROVE  LET w == [m EXCEPT !.saved = v]
           IN  /\ w \in MailRow /\ SameConfig(m, w) /\ w.last = m.last /\ w.saved = v
               /\ w.prepared = m.prepared /\ w.halfBack = m.halfBack
               /\ w.active = m.active /\ w.spool = m.spool
  BY DEF MailRow, SameConfig

LEMMA HalfBackChanges ==
    ASSUME NEW m \in MailRow, NEW v \in BOOLEAN
    PROVE  LET w == [m EXCEPT !.halfBack = v]
           IN  /\ w \in MailRow /\ SameConfig(m, w) /\ w.last = m.last /\ w.saved = m.saved
               /\ w.prepared = m.prepared /\ w.halfBack = v
               /\ w.active = m.active /\ w.spool = m.spool
  BY DEF MailRow, SameConfig

(* Where a script may stop: nothing is asked of the configuration but what   *)
(* holds whenever none runs.                                                 *)
LEMMA ScriptOver ==
    ASSUME PlatformIInv, script' = "IDLE", mail' \in MailRow, SameConfig(mail, mail'),
           mail'.saved = mail.saved, mail'.last = mail.last, mail'.prepared = mail.prepared,
           mail'.halfBack \in BOOLEAN, mail.halfBack => mail'.halfBack,
           script = "RESTORE_REST" => mail'.halfBack
    PROVE  PlatformIInv'
  <1>1. BackupsStand(mail')
    BY DEF PlatformIInv, BackupsStand
  <1>2. ConfigStands(mail', "IDLE")
    BY DEF PlatformIInv, ConfigStands, SameConfig
  <1> QED BY <1>1, <1>2 DEF PlatformIInv, ScriptSteps

LEMMA BackupsStay ==
    ASSUME NEW m, NEW w, BackupsStand(m), SameBackups(m, w)
    PROVE  BackupsStand(w)
  BY DEF BackupsStand, SameBackups

LEMMA ScriptMoves ==
    ASSUME PlatformIInv, script' \in ScriptSteps, mail' \in MailRow, SameBackups(mail, mail'),
           ConfigStands(mail', script')
    PROVE  PlatformIInv'
  <1>1. BackupsStand(mail')
    BY BackupsStay DEF PlatformIInv
  <1> QED BY <1>1 DEF PlatformIInv

LEMMA PlatformAlone ==
    ASSUME PlatformIInv,
           \/ Host!MailMoves \/ Host!Boot \/ Host!Prepare \/ Host!CountSpool \/ Host!Freeze
           \/ Host!MarkPrepared \/ Host!Activate \/ Host!RollBack \/ Host!ScriptStops
    PROVE  PlatformIInv'
  <1>1. mail \in MailRow /\ script \in ScriptSteps /\ ConfigStands(mail, script) /\ BackupsStand(mail)
    BY DEF PlatformIInv
  <1>2. CASE Host!MailMoves
    <2>1. 1 - mail.spool \in {0, 1}
      BY <1>1, MailFields
    <2>2. /\ mail' \in MailRow /\ SameBackups(mail, mail') /\ SameConfig(mail, mail')
          /\ mail'.active = mail.active
      BY <1>1, <1>2, <2>1, SpoolChanges DEF Host!MailMoves
    <2>3. script' = script /\ mail.active
      BY <1>2 DEF Host!MailMoves
    <2>4. ConfigStands(mail', script')
      BY <1>1, <2>2, <2>3 DEF ConfigStands, SameConfig, SameBackups
    <2> QED BY <1>1, <2>2, <2>3, <2>4, ScriptMoves
  <1>3. CASE Host!Boot
    <2>1. PICK v \in BOOLEAN : v = (mail.halfBack \/ script = "RESTORE_REST")
      OBVIOUS
    <2>2. mail' = [mail EXCEPT !.active = TRUE, !.halfBack = v] /\ script' = "IDLE"
      BY <1>3, <2>1 DEF Host!Boot
    <2>3. /\ mail' \in MailRow /\ SameConfig(mail, mail') /\ mail'.saved = mail.saved
          /\ mail'.last = mail.last /\ mail'.prepared = mail.prepared /\ mail'.halfBack = v
      BY <1>1, <2>2 DEF MailRow, SameConfig
    <2> QED BY <2>1, <2>2, <2>3, ScriptOver
  <1>4. CASE Host!ScriptStops
    <2>1. PICK v \in BOOLEAN : v = (mail.halfBack \/ script = "RESTORE_REST")
      OBVIOUS
    <2>2. mail' = [mail EXCEPT !.halfBack = v] /\ script' = "IDLE"
      BY <1>4, <2>1 DEF Host!ScriptStops
    <2> QED BY <1>1, <2>1, <2>2, HalfBackChanges, ScriptOver
  <1>5. CASE Host!Prepare
    <2>1. ~mail.main /\ UNCHANGED mail /\ script = "IDLE" /\ script' = "BACKUP"
      BY <1>5 DEF Host!Prepare, Host!ScriptGoes
    <2>2. ConfigStands(mail, "BACKUP")
      BY <1>1, <2>1 DEF ConfigStands
    <2> QED BY <1>1, <2>1, <2>2 DEF PlatformIInv, ScriptSteps
  <1>6. CASE Host!CountSpool
    <2>1. /\ UNCHANGED mail /\ script = "COUNT"
          /\ script' = "IDLE" \/ (script' = "RENDER" /\ mail.spool = 0)
      BY <1>6 DEF Host!CountSpool
    <2>2. ConfigStands(mail, script')
      BY <1>1, <2>1 DEF ConfigStands
    <2> QED BY <1>1, <2>1, <2>2 DEF PlatformIInv, ScriptSteps
  <1>7. CASE Host!Freeze
    <2>1. script = "STOP" /\ script' = "COUNT" /\ mail' = [mail EXCEPT !.active = FALSE]
      BY <1>7 DEF Host!Freeze, Host!ScriptGoes
    <2>2. /\ mail' \in MailRow /\ SameBackups(mail, mail') /\ SameConfig(mail, mail')
          /\ ~mail'.active
      BY <1>1, <2>1 DEF MailRow, SameBackups, SameConfig
    <2>3. ConfigStands(mail', "COUNT")
      BY <1>1, <2>1, <2>2 DEF ConfigStands, SameBackups, SameConfig
    <2> QED BY <2>1, <2>2, <2>3, ScriptMoves DEF ScriptSteps
  <1>8. CASE Host!MarkPrepared
    <2>1. /\ script = "READY" /\ script' = "IDLE"
          /\ mail' = [mail EXCEPT !.prepared = mail.prepared \union {mail.last}, !.active = FALSE]
      BY <1>8 DEF Host!MarkPrepared, Host!ScriptGoes
    <2>2. /\ mail' \in MailRow /\ SameConfig(mail, mail')
          /\ mail'.saved = mail.saved /\ mail'.last = mail.last /\ mail'.halfBack = mail.halfBack
          /\ mail'.prepared = mail.prepared \union {mail.last}
      <3>1. mail.prepared \union {mail.last} \in SUBSET Nat
        BY <1>1, MailFields
      <3> QED BY <1>1, <2>1, <3>1 DEF MailRow, SameConfig
    <2>3. mail.last \in 1..Len(mail.saved) /\ mail.main /\ mail.rest
      BY <1>1, <2>1, MailFields DEF ConfigStands, BackupsStand
    <2>4. BackupsStand(mail')
      BY <1>1, <2>2, <2>3 DEF BackupsStand
    <2>5. ConfigStands(mail', "IDLE")
      BY <1>1, <2>2, <2>3 DEF ConfigStands, SameConfig
    <2> QED BY <2>1, <2>2, <2>4, <2>5 DEF PlatformIInv, ScriptSteps
  <1>9. CASE Host!Activate
    <2>1. script' = "IDLE" /\ script = "IDLE" /\ mail' = [mail EXCEPT !.active = TRUE]
      BY <1>9 DEF Host!Activate
    <2>2. mail' \in MailRow /\ SameBackups(mail, mail') /\ SameConfig(mail, mail')
      BY <1>1, <2>1 DEF MailRow, SameBackups, SameConfig
    <2>3. ConfigStands(mail', "IDLE")
      BY <1>1, <2>1, <2>2 DEF ConfigStands, SameBackups, SameConfig
    <2> QED BY <2>1, <2>2, <2>3, ScriptMoves DEF ScriptSteps
  <1>10. CASE Host!RollBack
    <2>1. /\ script = "IDLE" /\ mail' = [mail EXCEPT !.active = FALSE]
          /\ script' = "IDLE" \/ (script' = "RESTORE" /\ mail.last # 0)
      BY <1>10 DEF Host!RollBack, Host!ScriptGoes
    <2>2. mail' \in MailRow /\ SameBackups(mail, mail') /\ SameConfig(mail, mail')
      BY <1>1, <2>1 DEF MailRow, SameBackups, SameConfig
    <2>3. ConfigStands(mail', script')
      BY <1>1, <2>1, <2>2 DEF ConfigStands, SameBackups, SameConfig
    <2> QED BY <2>1, <2>2, <2>3, ScriptMoves DEF ScriptSteps
  <1> QED BY <1>2, <1>3, <1>4, <1>5, <1>6, <1>7, <1>8, <1>9, <1>10

LEMMA BackupTaken ==
    ASSUME PlatformIInv, Host!TakeBackup \/ Host!PointToBackup
    PROVE  PlatformIInv'
  <1>1. mail \in MailRow /\ script \in ScriptSteps /\ ConfigStands(mail, script) /\ BackupsStand(mail)
    BY DEF PlatformIInv
  <1>2. CASE Host!TakeBackup
    <2>1. PICK row : row = [main |-> mail.main, rest |-> mail.rest, active |-> mail.active]
      OBVIOUS
    <2>2. row \in SavedRow /\ row.main = mail.main /\ row.rest = mail.rest
      BY <1>1, <2>1, MailFields DEF SavedRow
    <2>3. PICK saved \in Seq(SavedRow) :
             /\ saved = Append(mail.saved, row) /\ Len(saved) = Len(mail.saved) + 1
             /\ saved[Len(mail.saved) + 1] = row
             /\ \A i \in 1..Len(mail.saved) : saved[i] = mail.saved[i]
      <3>1. ASSUME NEW seq \in Seq(SavedRow)
            PROVE  /\ Append(seq, row) \in Seq(SavedRow) /\ Len(Append(seq, row)) = Len(seq) + 1
                   /\ Append(seq, row)[Len(seq) + 1] = row
                   /\ \A i \in 1..Len(seq) : Append(seq, row)[i] = seq[i]
        BY <2>2
      <3> QED BY <1>1, <3>1, MailFields
    <2>4. /\ script = "BACKUP" /\ script' = "POINT"
          /\ mail' = [mail EXCEPT !.saved = saved]
      BY <1>2, <2>1, <2>3 DEF Host!TakeBackup, Host!ScriptGoes
    <2>5. /\ mail' \in MailRow /\ SameConfig(mail, mail') /\ mail'.last = mail.last
          /\ mail'.saved = saved /\ mail'.prepared = mail.prepared
          /\ mail'.halfBack = mail.halfBack
      BY <1>1, <2>4, SavedChanges
    <2>6. ~mail.main /\ (mail.rest => mail.halfBack)
      BY <1>1, <2>4 DEF ConfigStands
    <2>7. BackupsStand(mail')
      <3>1. \A i \in 1..Len(saved) : i \in 1..Len(mail.saved) \/ i = Len(mail.saved) + 1
        BY <1>1, <2>3, MailFields
      <3>2. mail.last <= Len(saved) /\ mail.prepared \subseteq 1..Len(saved)
        BY <1>1, <2>3, MailFields DEF BackupsStand
      <3>3. \A i \in 1..Len(saved) : ~saved[i].main /\ (saved[i].rest => mail.halfBack)
        BY <1>1, <2>2, <2>3, <2>6, <3>1 DEF BackupsStand
      <3> QED BY <2>5, <3>2, <3>3 DEF BackupsStand
    <2>8. Len(saved) \notin mail.prepared /\ Len(saved) # 0
      BY <1>1, <2>3, MailFields DEF BackupsStand
    <2>9. ConfigStands(mail', "POINT")
      BY <1>1, <2>4, <2>5, <2>8 DEF ConfigStands, SameConfig
    <2> QED BY <2>4, <2>5, <2>7, <2>9 DEF PlatformIInv, ScriptSteps
  <1>3. CASE Host!PointToBackup
    <2>1. /\ script = "POINT" /\ script' = "STOP"
          /\ mail' = [mail EXCEPT !.last = Len(mail.saved)]
      BY <1>3 DEF Host!PointToBackup, Host!ScriptGoes, Host!AfterPoint
    <2>2. /\ mail' \in MailRow /\ SameConfig(mail, mail') /\ mail'.last = Len(mail.saved)
          /\ mail'.saved = mail.saved /\ mail'.prepared = mail.prepared
          /\ mail'.halfBack = mail.halfBack
      BY <1>1, <2>1, MailFields, PointerChanges
    <2>3. BackupsStand(mail')
      BY <1>1, <2>2, MailFields DEF BackupsStand
    <2>4. ConfigStands(mail', "STOP")
      BY <1>1, <2>1, <2>2 DEF ConfigStands, SameConfig
    <2> QED BY <2>1, <2>2, <2>3, <2>4 DEF PlatformIInv, ScriptSteps
  <1> QED BY <1>2, <1>3

LEMMA ConfigWritten ==
    ASSUME PlatformIInv,
           Host!Render \/ Host!RestoreMain \/ Host!RestoreRest \/ Host!RestoreService
    PROVE  PlatformIInv'
  <1>1. mail \in MailRow /\ script \in ScriptSteps /\ ConfigStands(mail, script) /\ BackupsStand(mail)
    BY DEF PlatformIInv
  <1>2. PICK back : back = mail.saved[mail.last]
    OBVIOUS
  <1>3. script \in {"RESTORE", "RESTORE_REST", "SERVICE"} =>
           /\ ~back.main /\ (back.rest => mail.halfBack)
           /\ back.main \in BOOLEAN /\ back.rest \in BOOLEAN /\ back.active \in BOOLEAN
    <2>1. script \in {"RESTORE", "RESTORE_REST", "SERVICE"} => mail.last \in 1..Len(mail.saved)
      BY <1>1, MailFields DEF ConfigStands, BackupsStand
    <2>2. mail.last \in 1..Len(mail.saved) => back \in SavedRow
      BY <1>1, <1>2, MailFields
    <2> QED BY <1>1, <1>2, <2>1, <2>2 DEF BackupsStand, SavedRow
  <1>4. CASE Host!Render
    <2>1. Host!RenderOrder[1] = "main" /\ Host!RenderOrder[2] = "rest"
      BY DEF Host!RenderOrder
    <2>2. CASE script = "RENDER" /\ script' = "RENDER_SECOND" /\ mail' = [mail EXCEPT !.main = TRUE]
      <3>1. /\ mail' \in MailRow /\ SameBackups(mail, mail') /\ mail'.main /\ mail'.rest = mail.rest
            /\ mail'.active = mail.active /\ mail'.spool = mail.spool
        BY <1>1, <2>2 DEF MailRow, SameBackups
      <3>2. ConfigStands(mail', "RENDER_SECOND")
        BY <1>1, <2>2, <3>1 DEF ConfigStands, SameBackups
      <3> QED BY <2>2, <3>1, <3>2, ScriptMoves DEF ScriptSteps
    <2>3. CASE script = "RENDER_SECOND" /\ script' = "READY" /\ mail' = [mail EXCEPT !.rest = TRUE]
      <3>1. /\ mail' \in MailRow /\ SameBackups(mail, mail') /\ mail'.main = mail.main /\ mail'.rest
            /\ mail'.active = mail.active /\ mail'.spool = mail.spool
        BY <1>1, <2>3 DEF MailRow, SameBackups
      <3>2. ConfigStands(mail', "READY")
        BY <1>1, <2>3, <3>1 DEF ConfigStands, SameBackups
      <3> QED BY <2>3, <3>1, <3>2, ScriptMoves DEF ScriptSteps
    <2> QED BY <1>4, <2>1, <2>2, <2>3 DEF Host!Render, Host!ScriptGoes
  <1>5. CASE Host!RestoreMain
    <2>1. /\ script = "RESTORE" /\ script' = "RESTORE_REST"
          /\ mail' = [mail EXCEPT !.main = back.main]
      BY <1>2, <1>5 DEF Host!RestoreMain, Host!ScriptGoes
    <2>2. /\ mail' \in MailRow /\ SameBackups(mail, mail') /\ ~mail'.main /\ mail'.rest = mail.rest
      BY <1>1, <1>3, <2>1, MainChanges
    <2>3. ConfigStands(mail', "RESTORE_REST")
      BY <1>1, <2>1, <2>2 DEF ConfigStands, SameBackups
    <2> QED BY <2>1, <2>2, <2>3, ScriptMoves DEF ScriptSteps
  <1>6. CASE Host!RestoreRest
    <2>1. /\ script = "RESTORE_REST" /\ script' = "SERVICE"
          /\ mail' = [mail EXCEPT !.rest = back.rest]
      BY <1>2, <1>6 DEF Host!RestoreRest, Host!ScriptGoes
    <2>2. /\ mail' \in MailRow /\ SameBackups(mail, mail') /\ mail'.main = mail.main
          /\ mail'.rest = back.rest
      BY <1>1, <1>3, <2>1, RestChanges
    <2>3. ConfigStands(mail', "SERVICE")
      BY <1>1, <1>3, <2>1, <2>2 DEF ConfigStands, SameBackups
    <2> QED BY <2>1, <2>2, <2>3, ScriptMoves DEF ScriptSteps
  <1>7. CASE Host!RestoreService
    <2>1. /\ script = "SERVICE" /\ script' = "IDLE"
          /\ mail' = [mail EXCEPT !.active = back.active]
      BY <1>2, <1>7 DEF Host!RestoreService, Host!ScriptGoes
    <2>2. mail' \in MailRow /\ SameBackups(mail, mail') /\ SameConfig(mail, mail')
      BY <1>1, <1>3, <2>1, ActiveChanges
    <2>3. ConfigStands(mail', "IDLE")
      BY <1>1, <2>1, <2>2 DEF ConfigStands, SameBackups, SameConfig
    <2> QED BY <2>1, <2>2, <2>3, ScriptMoves DEF ScriptSteps
  <1> QED BY <1>4, <1>5, <1>6, <1>7

LEMMA PlatformStep ==
    ASSUME PlatformIInv, Host!PlatformNext \/ UNCHANGED <<mail, script>>
    PROVE  PlatformIInv'
  <1>1. CASE UNCHANGED <<mail, script>>
    BY <1>1 DEF PlatformIInv
  <1>2. CASE Host!PlatformNext
    BY <1>2, PlatformAlone, BackupTaken, ConfigWritten DEF Host!PlatformNext
  <1> QED BY <1>1, <1>2

LEMMA PlatformHoldsThen == ASSUME PlatformIInv PROVE Host!PlatformReturns
  <1>1. mail.last # 0 => mail.last \in 1..Len(mail.saved)
    BY MailFields DEF PlatformIInv, BackupsStand
  <1> QED BY <1>1 DEF PlatformIInv, BackupsStand, ConfigStands, Host!PlatformReturns

-----------------------------------------------------------------------------
(* The firewall.                                                             *)

Appliers == {"apply", "again"}

GuardRow ==
    [at : {"IDLE", "ADD", "VERIFY", "RECORD", "CLEAN", "DELETE"}, rule : Nat, made : SUBSET Nat,
     back : {"END", "IDLE", "ADD", "VERIFY", "RECORD", "CLEAN", "DELETE"}]

RulesRow == [in : SUBSET Nat, recorded : BOOLEAN, cut : BOOLEAN]

(* Unless one was cut off: a script that adds rules is the only one, and     *)
(* every rule in the firewall is its own or, with none, recorded.            *)
FirewallStands(r, g) ==
    /\ r.recorded => \A s \in Appliers : g[s] = Host!NoScript
    /\ g["rollback"] # Host!NoScript => r.recorded /\ g["rollback"].at = "DELETE"
    /\ g["apply"] = Host!NoScript \/ g["again"] = Host!NoScript
    /\ \A s \in Appliers : g[s] # Host!NoScript => r.in \subseteq g[s].made
    /\ (\A s \in Appliers : g[s] = Host!NoScript) /\ ~r.recorded => r.in = {}

FirewallIInv ==
    /\ rules \in RulesRow /\ guard \in [Host!Shells -> GuardRow]
    /\ rules.cut \/ FirewallStands(rules, guard)

LEMMA NoScriptIsRow ==
    /\ Host!NoScript \in GuardRow /\ Host!NoScript.at = "IDLE"
    /\ Host!Shells = Appliers \union {"rollback"} /\ "rollback" \notin Appliers
    /\ Host!Shells \ {"rollback"} = Appliers
  BY DEF Host!NoScript, GuardRow, Host!Shells, Appliers

LEMMA FirewallInitially == ASSUME Host!FirewallInit PROVE FirewallIInv
  <1>1. /\ rules = [in |-> {}, recorded |-> FALSE, cut |-> FALSE]
        /\ guard = [s \in Host!Shells |-> Host!NoScript]
    BY DEF Host!FirewallInit
  <1>2. rules \in RulesRow /\ rules.in = {} /\ ~rules.recorded
    BY <1>1 DEF RulesRow
  <1>3. guard \in [Host!Shells -> GuardRow] /\ \A s \in Host!Shells : guard[s] = Host!NoScript
    BY <1>1, NoScriptIsRow
  <1>4. FirewallStands(rules, guard)
    BY <1>2, <1>3, NoScriptIsRow DEF FirewallStands, Appliers
  <1> QED BY <1>2, <1>3, <1>4 DEF FirewallIInv

LEMMA RulesChange ==
    ASSUME NEW r \in RulesRow
    PROVE  r.in \in SUBSET Nat /\ r.recorded \in BOOLEAN /\ r.cut \in BOOLEAN
  BY DEF RulesRow

LEMMA InChanges ==
    ASSUME NEW r \in RulesRow, NEW v \in SUBSET Nat
    PROVE  LET w == [r EXCEPT !.in = v]
           IN  w \in RulesRow /\ w.in = v /\ w.recorded = r.recorded /\ w.cut = r.cut
  BY DEF RulesRow

LEMMA RecordedChanges ==
    ASSUME NEW r \in RulesRow, NEW v \in BOOLEAN
    PROVE  LET w == [r EXCEPT !.recorded = v]
           IN  w \in RulesRow /\ w.in = r.in /\ w.recorded = v /\ w.cut = r.cut
  BY DEF RulesRow

(* A step of a script that adds the rules, still at it or over.              *)
LEMMA ApplierMoves ==
    ASSUME FirewallIInv, NEW s \in Appliers, NEW row \in GuardRow,
           guard' = [guard EXCEPT ![s] = row], rules' \in RulesRow, rules'.cut = rules.cut,
           FirewallStands(rules, guard) =>
              /\ guard["rollback"] = Host!NoScript
              /\ \A t \in Appliers \ {s} : guard[t] = Host!NoScript
              /\ row = Host!NoScript => rules'.recorded \/ rules'.in = {}
              /\ row # Host!NoScript => ~rules'.recorded /\ rules'.in \subseteq row.made
    PROVE  FirewallIInv'
  <1>1. guard \in [Host!Shells -> GuardRow] /\ s \in Host!Shells
    BY NoScriptIsRow DEF FirewallIInv
  <1>2. /\ guard' \in [Host!Shells -> GuardRow] /\ guard'[s] = row
        /\ \A t \in Host!Shells \ {s} : guard'[t] = guard[t]
    BY <1>1
  <1>3. FirewallStands(rules, guard) => FirewallStands(rules', guard')
    <2>1. SUFFICES ASSUME FirewallStands(rules, guard) PROVE FirewallStands(rules', guard')
      OBVIOUS
    <2>2. guard'["rollback"] = Host!NoScript
      BY <1>2, <2>1, NoScriptIsRow
    <2>3. \A t \in Appliers \ {s} : guard'[t] = Host!NoScript
      BY <1>2, <2>1, NoScriptIsRow
    <2>4. guard'["apply"] = Host!NoScript \/ guard'["again"] = Host!NoScript
      BY <2>3 DEF Appliers
    <2>5. rules'.recorded => row = Host!NoScript
      BY <2>1
    <2> QED BY <1>2, <2>1, <2>2, <2>3, <2>4, <2>5 DEF FirewallStands
  <1> QED BY <1>2, <1>3 DEF FirewallIInv

(* What a script that is at work can count on.                               *)
LEMMA AtWork ==
    ASSUME FirewallIInv, NEW s \in Host!Shells, guard[s].at # "IDLE"
    PROVE  /\ guard[s] \in GuardRow /\ guard[s] # Host!NoScript /\ guard[s].made \in SUBSET Nat
           /\ rules \in RulesRow
           /\ FirewallStands(rules, guard) /\ s \in Appliers =>
                 /\ guard["rollback"] = Host!NoScript
                 /\ \A t \in Appliers \ {s} : guard[t] = Host!NoScript
                 /\ ~rules.recorded /\ rules.in \subseteq guard[s].made
           /\ FirewallStands(rules, guard) /\ s = "rollback" => guard[s].at = "DELETE"
  <1>1. guard[s] \in GuardRow /\ guard[s] # Host!NoScript /\ rules \in RulesRow
    BY NoScriptIsRow DEF FirewallIInv
  <1>2. guard[s].made \in SUBSET Nat
    BY <1>1 DEF GuardRow
  <1>3. ASSUME FirewallStands(rules, guard), s \in Appliers
        PROVE  /\ guard["rollback"] = Host!NoScript
               /\ \A t \in Appliers \ {s} : guard[t] = Host!NoScript
               /\ ~rules.recorded /\ rules.in \subseteq guard[s].made
    BY <1>1, <1>3 DEF FirewallStands, Appliers
  <1>4. FirewallStands(rules, guard) /\ s = "rollback" => guard[s].at = "DELETE"
    BY <1>1 DEF FirewallStands
  <1> QED BY <1>1, <1>2, <1>3, <1>4

LEMMA FirewallApplies ==
    ASSUME FirewallIInv, NEW s \in Host!Shells,
           \/ Host!ApplyRules(s) \/ Host!AddRule(s) \/ Host!VerifyRules(s)
    PROVE  FirewallIInv'
  <1>1. rules \in RulesRow /\ guard \in [Host!Shells -> GuardRow] /\ guard[s] \in GuardRow
    BY DEF FirewallIInv
  <1>2. CASE Host!ApplyRules(s)
    <2>1. /\ s \in Appliers /\ UNCHANGED rules
          /\ \A t \in Appliers : guard[t] = Host!NoScript
      BY <1>2, NoScriptIsRow DEF Host!ApplyRules
    <2>2. CASE UNCHANGED guard
      BY <2>1, <2>2 DEF FirewallIInv
    <2>3. CASE ~(rules.recorded \/ rules.in # {})
      <3>1. guard' = [guard EXCEPT ![s] = [guard[s] EXCEPT !.at = "ADD", !.rule = 1]]
        BY <1>2, <2>3 DEF Host!ApplyRules
      <3>2. PICK row : row = [guard[s] EXCEPT !.at = "ADD", !.rule = 1]
        OBVIOUS
      <3>3. row \in GuardRow /\ row.at = "ADD"
        BY <1>1, <3>2 DEF GuardRow
      <3>4. row # Host!NoScript
        BY <3>3, NoScriptIsRow
      <3>5. FirewallStands(rules, guard) => guard["rollback"] = Host!NoScript
        BY <2>3 DEF FirewallStands
      <3> QED BY <1>1, <2>1, <2>3, <3>1, <3>2, <3>3, <3>4, <3>5, ApplierMoves
    <2> QED BY <1>2, <2>2, <2>3 DEF Host!ApplyRules
  <1>3. CASE Host!AddRule(s)
    <2>1. guard[s].at = "ADD" /\ s \in Host!Shells
      BY <1>3 DEF Host!AddRule, Host!Acts
    <2>2. PICK rule, made : rule = guard[s].rule /\ made = guard[s].made \union {guard[s].rule}
      OBVIOUS
    <2>3. rule \in Nat /\ made \in SUBSET Nat
      BY <1>1, <2>2 DEF GuardRow
    <2>at. PICK at, next : /\ at = IF guard[s].rule = 4 THEN "VERIFY" ELSE "ADD"
                           /\ next = rule + 1
      OBVIOUS
    <2>4. guard' = [guard EXCEPT ![s] = [guard[s] EXCEPT !.made = made, !.rule = next, !.at = at]]
      <3>1. guard' = [guard EXCEPT ![s] =
                [guard[s] EXCEPT !.made = guard[s].made \union {guard[s].rule},
                                 !.rule = guard[s].rule + 1,
                                 !.at = IF guard[s].rule = 4 THEN "VERIFY" ELSE "ADD"]]
        BY <1>3 DEF Host!AddRule
      <3> QED BY <2>2, <2>at, <3>1
    <2>types. at \in {"VERIFY", "ADD"} /\ next \in Nat
      BY <2>3, <2>at
    <2>5. PICK row : row = [guard[s] EXCEPT !.made = made, !.rule = next, !.at = at]
      OBVIOUS
    <2>6. row \in GuardRow /\ row.made = made /\ row.at = at
      BY <1>1, <2>3, <2>types, <2>5 DEF GuardRow
    <2>7. row # Host!NoScript
      BY <2>types, <2>6, NoScriptIsRow
    <2>8. rules' = [rules EXCEPT !.in = rules.in \union {rule}]
      BY <1>3, <2>2 DEF Host!AddRule
    <2>9. rules.in \union {rule} \in SUBSET Nat
      BY <1>1, <2>3, RulesChange
    <2>10. /\ rules' \in RulesRow /\ rules'.in = rules.in \union {rule}
           /\ rules'.recorded = rules.recorded /\ rules'.cut = rules.cut
      BY <1>1, <2>8, <2>9, InChanges
    <2>11. CASE s \in Appliers
      <3>1. FirewallStands(rules, guard) =>
               /\ guard["rollback"] = Host!NoScript
               /\ \A t \in Appliers \ {s} : guard[t] = Host!NoScript
               /\ ~rules'.recorded /\ rules'.in \subseteq row.made
        BY <2>1, <2>2, <2>6, <2>10, <2>11, AtWork
      <3> QED BY <2>4, <2>5, <2>6, <2>7, <2>10, <2>11, <3>1, ApplierMoves
    <2>12. CASE s = "rollback"
      <3>1. ~FirewallStands(rules, guard)
        BY <2>1, <2>12, AtWork
      <3>2. guard' \in [Host!Shells -> GuardRow]
        BY <1>1, <2>4, <2>5, <2>6
      <3> QED BY <2>10, <3>1, <3>2 DEF FirewallIInv
    <2> QED BY <2>11, <2>12, NoScriptIsRow
  <1>4. CASE Host!VerifyRules(s)
    <2>1. PICK at \in {"RECORD", "CLEAN"} :
             UNCHANGED rules /\ guard' = [guard EXCEPT ![s].at = at] /\ guard[s].at = "VERIFY"
      BY <1>4 DEF Host!VerifyRules, Host!Then, Host!Acts
    <2>2. PICK row : row = [guard[s] EXCEPT !.at = at]
      OBVIOUS
    <2>3. row \in GuardRow /\ row.at = at /\ row.made = guard[s].made
      BY <1>1, <2>2 DEF GuardRow
    <2>4. guard' = [guard EXCEPT ![s] = row] /\ row # Host!NoScript
      BY <2>1, <2>2, <2>3, NoScriptIsRow
    <2>5. CASE s \in Appliers
      BY <1>1, <2>1, <2>3, <2>4, <2>5, AtWork, ApplierMoves
    <2>6. CASE s = "rollback"
      <3>1. ~FirewallStands(rules, guard)
        BY <2>1, <2>6, AtWork
      <3>2. guard' \in [Host!Shells -> GuardRow]
        BY <1>1, <2>3, <2>4
      <3> QED BY <1>1, <2>1, <3>1, <3>2 DEF FirewallIInv
    <2> QED BY <2>5, <2>6, NoScriptIsRow
  <1> QED BY <1>2, <1>3, <1>4

LEMMA FirewallCleans ==
    ASSUME FirewallIInv, NEW s \in Host!Shells, Host!RecordRules(s) \/ Host!CleanUp(s)
    PROVE  FirewallIInv'
  <1>1. rules \in RulesRow /\ guard \in [Host!Shells -> GuardRow] /\ guard[s] \in GuardRow
    BY DEF FirewallIInv
  <1>2. CASE Host!RecordRules(s)
    <2>1. /\ rules' = [rules EXCEPT !.recorded = TRUE] /\ guard[s].at = "RECORD"
          /\ guard' = [guard EXCEPT ![s] = Host!NoScript]
      BY <1>2 DEF Host!RecordRules, Host!Acts, Host!Over
    <2>2. /\ rules' \in RulesRow /\ rules'.recorded /\ rules'.cut = rules.cut
      BY <1>1, <2>1 DEF RulesRow
    <2>3. CASE s \in Appliers
      BY <2>1, <2>2, <2>3, AtWork, ApplierMoves, NoScriptIsRow
    <2>4. CASE s = "rollback"
      <3>1. ~FirewallStands(rules, guard)
        BY <2>1, <2>4, AtWork
      <3>2. guard' \in [Host!Shells -> GuardRow]
        BY <1>1, <2>1, NoScriptIsRow
      <3> QED BY <2>2, <3>1, <3>2 DEF FirewallIInv
    <2> QED BY <2>3, <2>4, NoScriptIsRow
  <1>3. CASE Host!CleanUp(s)
    <2>1. guard[s].at = "CLEAN"
      BY <1>3 DEF Host!CleanUp, Host!Acts
    <2>2. FirewallStands(rules, guard) => s \in Appliers
      BY <2>1, AtWork, NoScriptIsRow
    <2>3. CASE Host!OwnRules(s) \intersect rules.in # {}
      <3>1. PICK in : in = rules.in \ {Host!Max(Host!OwnRules(s) \intersect rules.in)}
        OBVIOUS
      <3>2. rules' = [rules EXCEPT !.in = in] /\ UNCHANGED guard /\ in \subseteq rules.in
        BY <1>3, <2>3, <3>1 DEF Host!CleanUp
      <3>3. in \in SUBSET Nat
        BY <1>1, <3>2, RulesChange
      <3>4. /\ rules' \in RulesRow /\ rules'.in = in
            /\ rules'.recorded = rules.recorded /\ rules'.cut = rules.cut
        BY <1>1, <3>2, <3>3, InChanges
      <3>5. FirewallStands(rules, guard) => FirewallStands(rules', guard')
        BY <3>2, <3>4 DEF FirewallStands
      <3> QED BY <1>1, <3>2, <3>4, <3>5 DEF FirewallIInv
    <2>4. CASE Host!OwnRules(s) \intersect rules.in = {}
      <3>1. UNCHANGED rules
        BY <1>3, <2>4 DEF Host!CleanUp
      <3>2. PICK row \in GuardRow :
               guard' = [guard EXCEPT ![s] = row] /\ row.made \in {{}, guard[s].made}
        <4>1. CASE guard[s].back = "END"
          <5>1. guard' = [guard EXCEPT ![s] = Host!NoScript] /\ Host!NoScript.made = {}
            BY <1>3, <2>4, <4>1 DEF Host!CleanUp, Host!NoScript
          <5> QED BY <5>1, NoScriptIsRow
        <4>2. CASE guard[s].back # "END"
          <5>1. guard' = [guard EXCEPT ![s] = [guard[s] EXCEPT !.at = guard[s].back, !.back = "END"]]
            BY <1>3, <2>4, <4>2 DEF Host!CleanUp
          <5>2. PICK at : at = guard[s].back
            OBVIOUS
          <5>3. at \in {"IDLE", "ADD", "VERIFY", "RECORD", "CLEAN", "DELETE"}
            BY <1>1, <4>2, <5>2 DEF GuardRow
          <5>4. PICK row : row = [guard[s] EXCEPT !.at = at, !.back = "END"]
            OBVIOUS
          <5>5. row \in GuardRow /\ row.made = guard[s].made
            BY <1>1, <5>3, <5>4 DEF GuardRow
          <5> QED BY <5>1, <5>2, <5>4, <5>5
        <4> QED BY <4>1, <4>2
      <3>3. FirewallStands(rules, guard) => rules.in = {}
        <4>1. FirewallStands(rules, guard) => rules.in \subseteq guard[s].made
          BY <2>1, <2>2, AtWork
        <4> QED BY <2>4, <4>1 DEF Host!OwnRules
      <3>4. CASE s \in Appliers
        BY <1>1, <2>1, <3>1, <3>2, <3>3, <3>4, AtWork, ApplierMoves
      <3>5. CASE s \notin Appliers
        <4>1. guard' \in [Host!Shells -> GuardRow]
          BY <1>1, <3>2
        <4> QED BY <1>1, <2>2, <3>1, <3>5, <4>1 DEF FirewallIInv
      <3> QED BY <3>4, <3>5
    <2> QED BY <2>3, <2>4
  <1> QED BY <1>2, <1>3

LEMMA FirewallFails ==
    ASSUME FirewallIInv, NEW s \in Host!Shells, Host!RuleFails(s)
    PROVE  FirewallIInv'
  <1>1. rules \in RulesRow /\ guard \in [Host!Shells -> GuardRow] /\ guard[s] \in GuardRow
    BY DEF FirewallIInv
  <1>2. CASE guard[s].at = "ADD" /\ Host!Then(s, "CLEAN") /\ UNCHANGED rules
    <2>1. PICK row : row = [guard[s] EXCEPT !.at = "CLEAN"]
      OBVIOUS
    <2>2. row \in GuardRow /\ row.at = "CLEAN" /\ row.made = guard[s].made
      BY <1>1, <2>1 DEF GuardRow
    <2>3. guard' = [guard EXCEPT ![s] = row] /\ row # Host!NoScript
      BY <1>2, <2>1, <2>2, NoScriptIsRow DEF Host!Then
    <2>4. CASE s \in Appliers
      BY <1>1, <1>2, <2>2, <2>3, <2>4, AtWork, ApplierMoves
    <2>5. CASE s = "rollback"
      <3>1. ~FirewallStands(rules, guard)
        BY <1>2, <2>5, AtWork
      <3>2. guard' \in [Host!Shells -> GuardRow]
        BY <1>1, <2>2, <2>3
      <3> QED BY <1>1, <1>2, <3>1, <3>2 DEF FirewallIInv
    <2> QED BY <2>4, <2>5, NoScriptIsRow
  <1>3. CASE s = "rollback" /\ Host!Over(s) /\ UNCHANGED rules
    <2>1. /\ guard' \in [Host!Shells -> GuardRow] /\ guard'["rollback"] = Host!NoScript
          /\ \A t \in Appliers : guard'[t] = guard[t]
      BY <1>1, <1>3, NoScriptIsRow DEF Host!Over
    <2>2. FirewallStands(rules, guard) => FirewallStands(rules, guard')
      BY <2>1 DEF FirewallStands, Appliers
    <2> QED BY <1>1, <1>3, <2>1, <2>2 DEF FirewallIInv
  <1>4. CASE /\ s # "rollback" /\ guard[s].at # "CLEAN" /\ UNCHANGED rules
             /\ guard' = [guard EXCEPT ![s] = [guard[s] EXCEPT !.back = guard[s].at, !.at = "CLEAN"]]
    <2>1. PICK at : at = guard[s].at
      OBVIOUS
    <2>2. at \in {"IDLE", "ADD", "VERIFY", "RECORD", "CLEAN", "DELETE"}
      BY <1>1, <2>1 DEF GuardRow
    <2>3. PICK row : row = [guard[s] EXCEPT !.back = at, !.at = "CLEAN"]
      OBVIOUS
    <2>4. row \in GuardRow /\ row.at = "CLEAN" /\ row.made = guard[s].made
      BY <1>1, <2>2, <2>3 DEF GuardRow
    <2>5. row # Host!NoScript /\ s \in Appliers /\ guard[s] # Host!NoScript
      BY <1>4, <2>4, NoScriptIsRow DEF Host!RuleFails
    <2>6. FirewallStands(rules, guard) =>
             /\ guard["rollback"] = Host!NoScript
             /\ \A t \in Appliers \ {s} : guard[t] = Host!NoScript
             /\ ~rules.recorded /\ rules.in \subseteq guard[s].made
      BY <2>5 DEF FirewallStands, Appliers
    <2> QED BY <1>1, <1>4, <2>1, <2>3, <2>4, <2>5, <2>6, ApplierMoves
  <1>5. CASE s # "rollback" /\ Host!Over(s) /\ rules' = [rules EXCEPT !.cut = TRUE]
    <2>1. rules' \in RulesRow /\ rules'.cut
      BY <1>1, <1>5 DEF RulesRow
    <2>2. guard' \in [Host!Shells -> GuardRow]
      BY <1>1, <1>5, NoScriptIsRow DEF Host!Over
    <2> QED BY <2>1, <2>2 DEF FirewallIInv
  <1> QED BY <1>2, <1>3, <1>4, <1>5 DEF Host!RuleFails, Host!Acts

LEMMA FirewallGoesBack ==
    ASSUME FirewallIInv, Host!RollBackRules \/ Host!DeleteRule
    PROVE  FirewallIInv'
  <1>1. /\ rules \in RulesRow /\ guard \in [Host!Shells -> GuardRow] /\ "rollback" \in Host!Shells
        /\ guard["rollback"] \in GuardRow
    BY NoScriptIsRow DEF FirewallIInv
  <1>2. CASE Host!RollBackRules
    <2>1. PICK row : row = [guard["rollback"] EXCEPT !.at = "DELETE"]
      OBVIOUS
    <2>2. row \in GuardRow /\ row.at = "DELETE"
      BY <1>1, <2>1 DEF GuardRow
    <2>3. guard' = [guard EXCEPT !["rollback"] = row] /\ rules.recorded /\ UNCHANGED rules
      BY <1>2, <2>1 DEF Host!RollBackRules, Host!Then
    <2>4. /\ guard' \in [Host!Shells -> GuardRow] /\ guard'["rollback"] = row
          /\ \A t \in Appliers : guard'[t] = guard[t]
      BY <1>1, <2>2, <2>3, NoScriptIsRow
    <2>5. FirewallStands(rules, guard) => FirewallStands(rules, guard')
      BY <2>2, <2>3, <2>4 DEF FirewallStands, Appliers
    <2> QED BY <1>1, <2>3, <2>4, <2>5 DEF FirewallIInv
  <1>3. CASE Host!DeleteRule
    <2>1. guard["rollback"].at = "DELETE" /\ guard["rollback"] # Host!NoScript
      BY <1>3, NoScriptIsRow DEF Host!DeleteRule, Host!Acts
    <2>2. FirewallStands(rules, guard) =>
             rules.recorded /\ \A t \in Appliers : guard[t] = Host!NoScript
      BY <2>1 DEF FirewallStands
    <2>3. CASE rules.in # {}
      <3>1. PICK in : in = rules.in \ {Host!Max(rules.in)}
        OBVIOUS
      <3>2. rules' = [rules EXCEPT !.in = in] /\ UNCHANGED guard /\ in \subseteq rules.in
        BY <1>3, <2>3, <3>1 DEF Host!DeleteRule
      <3>3. in \in SUBSET Nat
        BY <1>1, <3>2, RulesChange
      <3>4. /\ rules' \in RulesRow /\ rules'.in = in
            /\ rules'.recorded = rules.recorded /\ rules'.cut = rules.cut
        BY <1>1, <3>2, <3>3, InChanges
      <3>5. FirewallStands(rules, guard) => FirewallStands(rules', guard')
        BY <3>2, <3>4 DEF FirewallStands
      <3> QED BY <1>1, <3>2, <3>4, <3>5 DEF FirewallIInv
    <2>4. CASE rules.in = {}
      <3>1. /\ rules' = [rules EXCEPT !.recorded = FALSE]
            /\ guard' = [guard EXCEPT !["rollback"] = Host!NoScript]
        BY <1>3, <2>4 DEF Host!DeleteRule, Host!Over
      <3>2. rules' \in RulesRow /\ rules'.in = {} /\ ~rules'.recorded /\ rules'.cut = rules.cut
        BY <1>1, <2>4, <3>1 DEF RulesRow
      <3>3. /\ guard' \in [Host!Shells -> GuardRow] /\ guard'["rollback"] = Host!NoScript
            /\ \A t \in Appliers : guard'[t] = guard[t]
        BY <1>1, <3>1, NoScriptIsRow
      <3>4. FirewallStands(rules, guard) => FirewallStands(rules', guard')
        BY <2>2, <3>2, <3>3 DEF FirewallStands, Appliers
      <3> QED BY <3>2, <3>3, <3>4 DEF FirewallIInv
    <2> QED BY <2>3, <2>4
  <1> QED BY <1>2, <1>3

LEMMA FirewallStep ==
    ASSUME FirewallIInv, Host!FirewallNext \/ UNCHANGED <<rules, guard>>
    PROVE  FirewallIInv'
  <1>1. CASE UNCHANGED <<rules, guard>>
    BY <1>1 DEF FirewallIInv
  <1>2. CASE Host!FirewallNext
    BY <1>2, FirewallApplies, FirewallCleans, FirewallFails, FirewallGoesBack DEF Host!FirewallNext
  <1> QED BY <1>1, <1>2

LEMMA FirewallHoldsThen == ASSUME FirewallIInv PROVE Host!RulesAreOwned
  BY NoScriptIsRow DEF FirewallIInv, FirewallStands, Host!RulesAreOwned

-----------------------------------------------------------------------------
(* All of it.  A behaviour follows one part, and what the part is about      *)
(* keeps its own invariant; the others rest.                                 *)

SurroundingsInv ==
    /\ part = "app env" => FileIInv("app env")
    /\ part = "stack env" => FileIInv("stack env")
    /\ part = "publish" => ReleaseIInv(Requests, LastPublished)
    /\ part = "deploy" => ReleaseIInv({r3}, LastDeployed)
    /\ part \in {"tls", "mail", "firewall"} => TlsIInv /\ PlatformIInv /\ FirewallIInv
    /\ part = "summary" => VisitIInv("detail")
    /\ part = "result" => VisitIInv("status")
    /\ part = "receipt" => VisitIInv("receipt")
    /\ part \in {"start", "status"} => StartIInv

LEMMA SurroundingsInitially == PaymentsInit => SurroundingsInv
<1>. SUFFICES ASSUME PaymentsInit PROVE SurroundingsInv
  OBVIOUS
<1>1. ProtectedFile("app env")!EnvInit /\ ProtectedFile("stack env")!EnvInit
  BY DEF PaymentsInit, ProtectedFile!EnvInit, ProtectedFile!NoShell
<1>2. FileIInv("app env") /\ FileIInv("stack env")
  BY <1>1, FileInitially DEF Kinds
<1>3. part = "publish" => ReleaseIInv(Requests, LastPublished)
  BY ReleasesInitially, ReleasesAssumption DEF PaymentsInit
<1>4. part = "deploy" => ReleaseIInv({r3}, LastDeployed)
  BY ReleasesInitially, ReleasesAssumption DEF PaymentsInit
<1>5. TlsIInv /\ PlatformIInv /\ FirewallIInv
  BY TlsInitially, PlatformInitially, FirewallInitially DEF PaymentsInit
<1>6. /\ part = "summary" => Pages("detail")!PagesInit
      /\ part = "result" => Pages("status")!PagesInit
      /\ part = "receipt" => Pages("receipt")!PagesInit
  BY DEF PaymentsInit
<1>7. /\ part = "summary" => VisitIInv("detail")
      /\ part = "result" => VisitIInv("status")
      /\ part = "receipt" => VisitIInv("receipt")
  BY <1>6, VisitInitially DEF Asked
<1>8. StartIInv
  BY StartInitially DEF PaymentsInit
<1>. QED
  BY <1>2, <1>3, <1>4, <1>5, <1>7, <1>8 DEF SurroundingsInv

(* What a step of the behaviour is for the part it follows.                  *)
LEMMA PartsMove ==
    ASSUME [PaymentsNext]_<<part, vars, refundedVars, hostVars>>
    PROVE  /\ UNCHANGED part
           /\ part = "app env" => ProtectedFile("app env")!EnvNext \/ UNCHANGED envVars
           /\ part = "stack env" => ProtectedFile("stack env")!EnvNext \/ UNCHANGED envVars
           /\ part = "publish" =>
                 \/ Release(Requests, LastPublished, MaxBuilds)!ReleasesNext
                 \/ UNCHANGED releasesVars
           /\ part = "deploy" =>
                 Release({r3}, LastDeployed, 1)!ReleasesNext \/ UNCHANGED releasesVars
           /\ part \in {"tls", "mail", "firewall"} =>
                 /\ Host!TlsNext \/ UNCHANGED tlsVars
                 /\ Host!PlatformNext \/ UNCHANGED <<mail, script>>
                 /\ Host!FirewallNext \/ UNCHANGED <<rules, guard>>
           /\ part = "summary" => Pages("detail")!PagesNext \/ UNCHANGED pagesVars
           /\ part = "result" => Pages("status")!PagesNext \/ UNCHANGED pagesVars
           /\ part = "receipt" => Pages("receipt")!PagesNext \/ UNCHANGED pagesVars
           /\ part \in {"start", "status"} =>
                 Api!StartNext \/ Api!StatusNext \/ UNCHANGED startVars
<1>1. CASE UNCHANGED <<part, vars, refundedVars, hostVars>>
  BY <1>1 DEF hostVars, mailVars
<1>2. CASE PaymentsNext
  <2>1. CASE \/ part = "orders" /\ Next /\ UNCHANGED <<refundedVars, hostVars>>
             \/ part = "refunds" /\ Refunded!RefundNext /\ UNCHANGED <<vars, hostVars>>
    BY <1>2, <2>1 DEF PaymentsNext, hostVars, mailVars
  <2>2. CASE OperationsStep /\ UNCHANGED <<vars, refundedVars, pagesVars, startVars>>
    BY <1>2, <2>2 DEF PaymentsNext, OperationsStep, mailVars
  <2>3. CASE SurroundingsStep /\ UNCHANGED <<vars, refundedVars>>
    BY <1>2, <2>3 DEF PaymentsNext, SurroundingsStep, mailVars
  <2>. QED
    BY <1>2, <2>1, <2>2, <2>3 DEF PaymentsNext
<1>. QED
  BY <1>1, <1>2

LEMMA SurroundingsInductive ==
    ASSUME SurroundingsInv, [PaymentsNext]_<<part, vars, refundedVars, hostVars>>
    PROVE  SurroundingsInv'
<1>1. UNCHANGED part
  BY PartsMove
<1>2. part = "app env" => FileIInv("app env")'
  BY PartsMove, FileStep, FileUntouched DEF SurroundingsInv, Kinds
<1>3. part = "stack env" => FileIInv("stack env")'
  BY PartsMove, FileStep, FileUntouched DEF SurroundingsInv, Kinds
<1>4. part = "publish" => ReleaseIInv(Requests, LastPublished)'
  BY PartsMove, ReleaseStep, ReleasesAssumption DEF SurroundingsInv
<1>5. part = "deploy" => ReleaseIInv({r3}, LastDeployed)'
  BY PartsMove, ReleaseStep, ReleasesAssumption DEF SurroundingsInv
<1>6. part \in {"tls", "mail", "firewall"} => TlsIInv' /\ PlatformIInv' /\ FirewallIInv'
  BY PartsMove, TlsStep, PlatformStep, FirewallStep DEF SurroundingsInv
<1>7. part = "summary" => VisitIInv("detail")'
  BY PartsMove, VisitStep DEF SurroundingsInv, Asked
<1>8. part = "result" => VisitIInv("status")'
  BY PartsMove, VisitStep DEF SurroundingsInv, Asked
<1>9. part = "receipt" => VisitIInv("receipt")'
  BY PartsMove, VisitStep DEF SurroundingsInv, Asked
<1>10. part \in {"start", "status"} => StartIInv'
  BY PartsMove, StartStep DEF SurroundingsInv
<1>. QED
  BY <1>1, <1>2, <1>3, <1>4, <1>5, <1>6, <1>7, <1>8, <1>9, <1>10 DEF SurroundingsInv

LEMMA SurroundingsHoldThen == ASSUME SurroundingsInv PROVE SurroundingsHold
<1>1. /\ part = "result" => Pages("status")!PagesTellTheTruth
      /\ part = "receipt" => Pages("receipt")!PagesTellTheTruth
      /\ part = "summary" => Pages("detail")!PagesTellTheTruth
  BY VisitTells DEF SurroundingsInv, Asked
<1>2. part \in {"start", "status"} => Api!StartHolds
  BY StartHoldsThen DEF SurroundingsInv
<1>3. /\ part = "app env" => ProtectedFile("app env")!EnvHolds
      /\ part = "stack env" => ProtectedFile("stack env")!EnvHolds
  BY DEF SurroundingsInv, FileIInv
<1>4. part = "publish" => Release(Requests, LastPublished, MaxBuilds)!ReleasesHold
  BY ReleasesHoldThen, ReleasesAssumption DEF SurroundingsInv
<1>5. part = "deploy" => Release({r3}, LastDeployed, 1)!ReleasesHold
  BY ReleasesHoldThen, ReleasesAssumption DEF SurroundingsInv
<1>6. part \in {"tls", "mail", "firewall"} => Host!MailHolds
  BY TlsHoldsThen, PlatformHoldsThen, FirewallHoldsThen DEF SurroundingsInv, Host!MailHolds
<1>. QED
  BY <1>1, <1>2, <1>3, <1>4, <1>5, <1>6 DEF SurroundingsHold

(* Around the payments, for every number of shells, publishers, gates,       *)
(* releases, renewals and backups: the pages of a visitor never say more     *)
(* than the order does; the API serves with what its adapters need, and live *)
(* only when every gate cleared it; and whichever command stops or is killed *)
(* on the host, the protected files can be put back, what runs was           *)
(* published, and the mail platform keeps a matching certificate, the        *)
(* configuration it had and the rules it owns.                               *)
THEOREM SurroundingsHoldCorrect == PaymentsSpec => []SurroundingsHold
<1>1. SurroundingsInv => SurroundingsHold
  BY SurroundingsHoldThen
<1>. QED
  BY <1>1, SurroundingsInitially, SurroundingsInductive, PTL DEF PaymentsSpec

-----------------------------------------------------------------------------
(* The refunds.                                                              *)

RP == INSTANCE BoldPaymentsProofs WITH
    Orders <- {o3}, Obligations <- {b3}, Requests <- {r3}, ProductionPayments <- TRUE,
    RefundIds <- Orders, Staff <- Requests, OrderAmount <- 2, MaxTaken <- 1, NoRefund <- NoOrder,
    status <- paid, owner <- held, expired <- stale, attempts <- tries, receipts <- issued,
    event <- notice, req <- serving, bold <- provider

-----------------------------------------------------------------------------
(* MCPayments and BoldPaymentsProofs each bring an instance of Refunds with  *)
(* the same substitution; expanded, their definitions are the same text.     *)

LEMMA SameInit ==
    ASSUME Refunded!RefundInit PROVE RP!RefundInit
BY DEF Refunded!BoldStatuses, Refunded!Idle, Refunded!Init, Refunded!NoRow, Refunded!StaffIdle,
     Refunded!RefundInit, RP!BoldStatuses, RP!Idle, RP!Init, RP!NoRow, RP!StaffIdle,
     RP!RefundInit

LEMMA SameNext ==
    ASSUME Refunded!RefundNext PROVE RP!RefundNext
BY DEF Refunded!vars, Refunded!BoldStatuses, Refunded!TerminalOrderStatuses,
     Refunded!NonPayableStatuses, Refunded!TerminalAttemptStatuses,
     Refunded!MappedOrderStatus, Refunded!MappedAttemptStatus, Refunded!CanTransitionOrder,
     Refunded!CanTransitionAttempt, Refunded!OrderAfter, Refunded!AttemptAfter,
     Refunded!ReceiptsAfter, Refunded!Idle, Refunded!Asking, Refunded!CreatePcs,
     Refunded!PollPcs, Refunded!Locked, Refunded!ObligationLocked, Refunded!Exists,
     Refunded!HasPendingAttempt, Refunded!LatestAttempt, Refunded!WithLatestAttempt,
     Refunded!Reusable, Refunded!BeginCreateOrder, Refunded!CommitCreateOrder,
     Refunded!RollbackCreateOrder, Refunded!Expire, Refunded!BeginCreatePayment,
     Refunded!BoldAnswersCreate, Refunded!CommitCreatePayment,
     Refunded!RollbackCreatePayment, Refunded!BeginPoll, Refunded!BoldAnswersPoll,
     Refunded!CommitPoll, Refunded!AbandonPoll, Refunded!Announceable,
     Refunded!ReceiveWebhook, Refunded!UnverifiedBlocked, Refunded!ProcessUnverified,
     Refunded!ApplyDelivery, Refunded!ProcessDelivery, Refunded!LoseDelivery,
     Refunded!BoldSettles, Refunded!OrderStep, Refunded!CreateStep, Refunded!PollStep,
     Refunded!WebhookStep, Refunded!Next, Refunded!refundVars, Refunded!NoRow,
     Refunded!StaffIdle, Refunded!Amounts, Refunded!Refundable, Refunded!StatusAfterRefund,
     Refunded!BeginRequestRefund, Refunded!CommitRequestRefund, Refunded!BeginUploadEvidence,
     Refunded!CommitUploadEvidence, Refunded!BeginApproveRefund, Refunded!BoldTakesRefund,
     Refunded!BoldRefusesRefund, Refunded!RethrowRefusal, Refunded!CommitApproveRefund,
     Refunded!RollbackStaff, Refunded!StaffStep, Refunded!RefundNext, RP!vars,
     RP!BoldStatuses, RP!TerminalOrderStatuses, RP!NonPayableStatuses,
     RP!TerminalAttemptStatuses, RP!MappedOrderStatus, RP!MappedAttemptStatus,
     RP!CanTransitionOrder, RP!CanTransitionAttempt, RP!OrderAfter, RP!AttemptAfter,
     RP!ReceiptsAfter, RP!Idle, RP!Asking, RP!CreatePcs, RP!PollPcs, RP!Locked,
     RP!ObligationLocked, RP!Exists, RP!HasPendingAttempt, RP!LatestAttempt,
     RP!WithLatestAttempt, RP!Reusable, RP!BeginCreateOrder, RP!CommitCreateOrder,
     RP!RollbackCreateOrder, RP!Expire, RP!BeginCreatePayment, RP!BoldAnswersCreate,
     RP!CommitCreatePayment, RP!RollbackCreatePayment, RP!BeginPoll, RP!BoldAnswersPoll,
     RP!CommitPoll, RP!AbandonPoll, RP!Announceable, RP!ReceiveWebhook, RP!UnverifiedBlocked,
     RP!ProcessUnverified, RP!ApplyDelivery, RP!ProcessDelivery, RP!LoseDelivery,
     RP!BoldSettles, RP!OrderStep, RP!CreateStep, RP!PollStep, RP!WebhookStep, RP!Next,
     RP!refundVars, RP!NoRow, RP!StaffIdle, RP!Amounts, RP!Refundable, RP!StatusAfterRefund,
     RP!BeginRequestRefund, RP!CommitRequestRefund, RP!BeginUploadEvidence,
     RP!CommitUploadEvidence, RP!BeginApproveRefund, RP!BoldTakesRefund,
     RP!BoldRefusesRefund, RP!RethrowRefusal, RP!CommitApproveRefund, RP!RollbackStaff,
     RP!StaffStep, RP!RefundNext

LEMMA SameAssumption == RP!RefundAssumption /\ RP!ConstantsAssumption
BY RefundedAssumption DEF Refunded!RefundAssumption, Refunded!ConstantsAssumption,
   RP!RefundAssumption, RP!ConstantsAssumption

LEMMA SameProperties ==
    /\ RP!RefundsAreBacked => Refunded!RefundsAreBacked
    /\ RP!RefundedKept => Refunded!RefundedKept
BY DEF Refunded!LatestAttempt, Refunded!PaidStatuses, Refunded!PaidHasAttempt,
     Refunded!RefundStatuses, Refunded!RefundedStatuses, Refunded!NoRow, Refunded!OfOrder,
     Refunded!RefundTypeOK, Refunded!RefundBacksStatus, Refunded!RefundsAreBacked,
     RP!LatestAttempt, RP!PaidStatuses, RP!PaidHasAttempt, RP!RefundStatuses,
     RP!RefundedStatuses, RP!NoRow, RP!OfOrder, RP!RefundTypeOK, RP!RefundBacksStatus,
     RP!RefundsAreBacked,
   Refunded!RefundedKept, RP!RefundedKept

-----------------------------------------------------------------------------

(* While a behaviour follows the refunds, their inductive invariant holds.   *)
RefundsInv == part = "refunds" => RP!RefundIInv

LEMMA RefundsInitially == PaymentsInit => RefundsInv
<1>1. PaymentsInit => Refunded!RefundInit
  BY DEF PaymentsInit
<1>. QED
  BY <1>1, SameInit, SameAssumption, RP!RefundInitially DEF RefundsInv

(* A step of the refunds is theirs; any other leaves their rows alone.       *)
LEMMA RefundsPart ==
    ASSUME [PaymentsNext]_<<part, vars, refundedVars, hostVars>>
    PROVE  /\ UNCHANGED part
           /\ (part = "refunds" /\ RP!RefundNext) \/ UNCHANGED refundedVars
<1>1. CASE UNCHANGED <<part, vars, refundedVars, hostVars>>
  BY <1>1
<1>2. CASE PaymentsNext
  BY <1>2, SameNext DEF PaymentsNext
<1>. QED
  BY <1>1, <1>2

LEMMA RefundsUntouched ==
    ASSUME UNCHANGED refundedVars
    PROVE  [RP!RefundNext]_<<RP!vars, RP!refundVars>>
BY DEF refundedVars, RP!vars, RP!refundVars

LEMMA RefundsInductive ==
    ASSUME RefundsInv, [PaymentsNext]_<<part, vars, refundedVars, hostVars>>
    PROVE  RefundsInv'
<1>1. /\ UNCHANGED part
      /\ (part = "refunds" /\ RP!RefundNext) \/ UNCHANGED refundedVars
  BY RefundsPart
<1>2. [RP!RefundNext]_<<RP!vars, RP!refundVars>> \/ part # "refunds"
  BY <1>1, RefundsUntouched
<1>. QED
  BY <1>1, <1>2, SameAssumption, RP!RefundInductive DEF RefundsInv

LEMMA RefundsStandNow ==
    ASSUME RefundsInv, part = "refunds"
    PROVE  Refunded!RefundsAreBacked
BY SameAssumption, SameProperties, RP!RefundsBackedConsequence DEF RefundsInv

LEMMA RefundsStandStep ==
    ASSUME RefundsInv, [PaymentsNext]_<<part, vars, refundedVars, hostVars>>
    PROVE  [part = "refunds" => (part = "refunds")' /\ Refunded!RefundedKept]_refundedVars
<1>. SUFFICES ASSUME part = "refunds", ~UNCHANGED refundedVars
              PROVE  (part = "refunds")' /\ Refunded!RefundedKept
  OBVIOUS
<1>1. RP!RefundNext /\ UNCHANGED part
  BY RefundsPart
<1>2. RP!RefundedKept
  BY <1>1, SameAssumption, RP!RefundedKeptStep DEF RefundsInv
<1>. QED
  BY <1>1, <1>2, SameProperties

(* In production no step leaves a refunded order that no refund backs, or a  *)
(* refund that no attempt backs, and no late answer takes a refunded order   *)
(* back, whatever else happens around the refunds.                           *)
THEOREM RefundsStandCorrect == PaymentsSpec => RefundsStand
BY RefundsInitially, RefundsInductive, RefundsStandNow, RefundsStandStep,
   PTL DEF PaymentsSpec, RefundsStand
=============================================================================
