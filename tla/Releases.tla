------------------------------ MODULE Releases -------------------------------
(***************************************************************************)
(* How a release reaches production: published and built on the host       *)
(* (publish-release.sh, install-published-release.py), bound to a sudo     *)
(* channel with the images it may start and the images it may go back to   *)
(* (install-production-privileged-channel.py), deployed (deploy-public-    *)
(* platform.sh with install-compose-contract.sh) and rolled back           *)
(* (rollback-compose-contract.sh).  Every script is a sequence of changes  *)
(* to the host, without a lock, and may stop between any two of them.      *)
(*                                                                         *)
(* Releases are numbered as they were made: release 0 runs at first, and   *)
(* each brings the migrations of its number.  Its two images, api and web, *)
(* are known by their tag, which is the release, and by their pair of ids: *)
(* a build of either that is not taken from the cache makes another pair.  *)
(***************************************************************************)
EXTENDS Naturals, Sequences

CONSTANTS Publishers, \* shells publishing a release
          Operators,  \* shells using the sudo channel
          LastRelease,
          MaxBuilds,  \* bound: pairs of images a tag may name
          MaxSaved    \* bound: backups of the compose files

VARIABLES
    tag,       \* the images each release's tag names, 0 when there are none
    published, \* the images in the manifest of each published release, or 0
    publisher, \* what each publisher is doing
    channel,   \* the release and the images the sudo channel is bound to
    host,      \* compose files, their backups, the database, what runs, and,
               \* as history, whether images changed under a script
    operator   \* what each operator is doing

releasesVars == <<tag, published, publisher, channel, host, operator>>

All == 0..LastRelease
Managed == <<"mail", "admin", "release">>
Files == {Managed[i] : i \in 1..3}

Unbuilt == 0
NoPublisher == [of |-> 0, at |-> "IDLE", ids |-> Unbuilt]
NoOperator == [at |-> "IDLE", step |-> 0]

ReleasesInit ==
    /\ tag = [r \in All |-> IF r = 0 THEN 1 ELSE Unbuilt]
    /\ published = tag
    /\ publisher = [p \in Publishers |-> NoPublisher]
    /\ channel = [target |-> 0, ids |-> Unbuilt, previous |-> 0, previousIds |-> Unbuilt]
    /\ host = [files |-> [f \in Files |-> 0], saved |-> <<>>, last |-> 0, schema |-> 0,
               release |-> 0, ids |-> tag[0], healthy |-> TRUE, raced |-> FALSE]
    /\ operator = [o \in Operators |-> NoOperator]

-----------------------------------------------------------------------------
(* Publishing.                                                              *)

Publishing(p, at) == publisher[p].at = at

(* A release already there is compared with its manifest and left alone.    *)
Check(p, r) ==
    /\ publisher[p] = NoPublisher
    /\ r # 0 /\ published[r] = Unbuilt
    /\ publisher' = [publisher EXCEPT ![p] = [of |-> r, at |-> "BUILD", ids |-> Unbuilt]]
    /\ UNCHANGED <<tag, published>>

(* docker build: from the cache, the images it made before; or other ones.  *)
(* Nothing keeps two publications of a release apart.                       *)
Build(p) ==
    /\ Publishing(p, "BUILD")
    /\ LET r == publisher[p].of
       IN  \E new \in {tag[r], tag[r] + 1} \ {Unbuilt} :
              /\ new <= MaxBuilds
              /\ tag' = [tag EXCEPT ![r] = new]
              /\ host' = [host EXCEPT !.raced =
                    @ \/ (new # tag[r] /\ \E o \in Operators : operator[o] # NoOperator)]
    /\ publisher' = [publisher EXCEPT ![p] = [@ EXCEPT !.at = "INSPECT"]]
    /\ UNCHANGED published

Inspect(p) ==
    /\ Publishing(p, "INSPECT")
    /\ publisher' = [publisher EXCEPT ![p] =
          [@ EXCEPT !.at = "REPLACE", !.ids = tag[publisher[p].of]]]
    /\ UNCHANGED <<tag, published>>

\* Mutant: a publication replaces the release that is there.
AnyDestination(r) == TRUE

FreeDestination(r) == published[r] = Unbuilt

(* The finished directory takes its name at once, unless another has it.    *)
Replace(p) ==
    /\ Publishing(p, "REPLACE")
    /\ publisher' = [publisher EXCEPT ![p] = NoPublisher]
    /\ published' = IF FreeDestination(publisher[p].of)
                    THEN [published EXCEPT ![publisher[p].of] = publisher[p].ids]
                    ELSE published
    /\ UNCHANGED tag

GiveUp(p) ==
    /\ publisher[p] # NoPublisher
    /\ publisher' = [publisher EXCEPT ![p] = NoPublisher]
    /\ UNCHANGED <<tag, published>>

Publish ==
    /\ \E p \in Publishers :
          \/ \E r \in All : Check(p, r) /\ UNCHANGED host
          \/ Build(p)
          \/ Inspect(p) /\ UNCHANGED host
          \/ Replace(p) /\ UNCHANGED host
          \/ GiveUp(p) /\ UNCHANGED host
    /\ UNCHANGED <<channel, operator>>

-----------------------------------------------------------------------------
(* The channel and what goes through it.                                    *)

Idle(o) == operator[o] = NoOperator

Goes(o, at, step) == operator' = [operator EXCEPT ![o] = [at |-> at, step |-> step]]

Ends(o) == operator' = [operator EXCEPT ![o] = NoOperator]

(* The root bootstrap: the target's images are those of its manifest, the   *)
(* previous ones those that run in good health.                             *)
InstallChannel(o, r) ==
    /\ Idle(o)
    /\ r # 0 /\ published[r] # Unbuilt /\ tag[r] = published[r]
    /\ host.healthy /\ tag[host.release] = host.ids
    /\ channel' = [target |-> r, ids |-> published[r],
                   previous |-> host.release, previousIds |-> host.ids]
    /\ UNCHANGED <<host, operator>>

\* Mutant: the images are trusted by their tag.
AnyImage(r, ids) == tag[r] # Unbuilt

ExactImage(r, ids) == tag[r] = ids

\* Mutant: the database is left as it is.
NoMigration == "BACKUP"

AfterVerify == "MIGRATE"

Verify(o) ==
    /\ Idle(o)
    /\ channel.target # 0 /\ ExactImage(channel.target, channel.ids)
    /\ Goes(o, AfterVerify, 0)
    /\ UNCHANGED <<channel, host>>

(* The image applies its migrations; its status then fails if the database  *)
(* has some the image lacks.                                                *)
Migrate(o) ==
    /\ operator[o].at = "MIGRATE"
    /\ \/ /\ host.schema <= channel.target
          /\ host' = [host EXCEPT !.schema = channel.target]
          /\ Goes(o, "BACKUP", 0)
       \/ Ends(o) /\ UNCHANGED host
    /\ UNCHANGED channel

(* What was there, and, as history, what was running.                       *)
Backup(o) ==
    /\ operator[o].at = "BACKUP"
    /\ Len(host.saved) < MaxSaved
    /\ host' = [host EXCEPT !.saved = Append(@, [files |-> host.files, ran |-> host.release])]
    /\ Goes(o, "SWAP", 1)
    /\ UNCHANGED channel

AfterStep(o, at, after) ==
    IF operator[o].step < 3 THEN Goes(o, at, operator[o].step + 1) ELSE Goes(o, after, 0)

Swap(o) ==
    /\ operator[o].at = "SWAP"
    /\ host' = [host EXCEPT !.files = [@ EXCEPT ![Managed[operator[o].step]] = channel.target]]
    /\ AfterStep(o, "SWAP", "POINT")
    /\ UNCHANGED channel

Point(o) ==
    /\ operator[o].at = "POINT"
    /\ host' = [host EXCEPT !.last = Len(host.saved)]
    /\ Goes(o, "UP", 0)
    /\ UNCHANGED channel

(* Compose starts the images the release file names by their tag; they may  *)
(* turn out unhealthy, and stay.                                            *)
Up(o) ==
    /\ operator[o].at = "UP"
    /\ LET r == host.files["release"]
       IN  \E healthy \in BOOLEAN :
              host' = [host EXCEPT !.release = r, !.ids = tag[r], !.healthy = healthy]
    /\ Ends(o)
    /\ UNCHANGED channel

StartRollback(o) ==
    /\ Idle(o)
    /\ channel.target # 0 /\ host.last # 0
    /\ ExactImage(channel.previous, channel.previousIds)
    /\ Goes(o, "RESTORE", 1)
    /\ UNCHANGED <<channel, host>>

RestoreFile(o) ==
    /\ operator[o].at = "RESTORE"
    /\ LET f == Managed[operator[o].step]
       IN  host' = [host EXCEPT !.files = [@ EXCEPT ![f] = host.saved[host.last].files[f]]]
    /\ AfterStep(o, "RESTORE", "GO_BACK")
    /\ UNCHANGED channel

GoBack(o) ==
    /\ operator[o].at = "GO_BACK"
    /\ host' = [host EXCEPT !.release = channel.previous, !.ids = tag[channel.previous],
                            !.healthy = TRUE]
    /\ Goes(o, "USED", 0)
    /\ UNCHANGED channel

UsePointer(o) ==
    /\ operator[o].at = "USED"
    /\ host' = [host EXCEPT !.last = 0]
    /\ Ends(o)
    /\ UNCHANGED channel

(* A script fails or is killed between two of its steps.                    *)
Stop(o) == ~Idle(o) /\ Ends(o) /\ UNCHANGED <<channel, host>>

Operate ==
    /\ \E o \in Operators :
          \/ \E r \in All : InstallChannel(o, r)
          \/ Verify(o) \/ Migrate(o) \/ Backup(o) \/ Swap(o) \/ Point(o) \/ Up(o)
          \/ StartRollback(o) \/ RestoreFile(o) \/ GoBack(o) \/ UsePointer(o) \/ Stop(o)
    /\ UNCHANGED <<tag, published, publisher>>

ReleasesNext == Publish \/ Operate

-----------------------------------------------------------------------------

(* What runs is a published release, by the ids of its manifest unless they *)
(* were built anew under a script, and the database has its migrations,     *)
(* whatever was stopped, repeated or undone.                                *)
RunsWhatWasPublished ==
    /\ host.ids = published[host.release] \/ host.raced
    /\ host.release <= host.schema

Declared(files, r) == \A f \in Files : files[f] = r

(* A rollback that comes to its end leaves the host as it was before the    *)
(* deployment, files and containers of one release, if the backup it took   *)
(* is that of the release the channel goes back to.                         *)
RollbackReturns ==
    \A o \in Operators :
        operator[o].at = "USED" =>
            LET back == host.saved[host.last]
            IN  Declared(back.files, back.ran) /\ back.ran = channel.previous
                => Declared(host.files, host.release)

(* The backup pointed to is never half of an installation that came to its  *)
(* end: once a deployment has swapped the files, all of them are its own.   *)
SwappedWhole ==
    \A o \in Operators :
        operator[o].at \in {"POINT", "UP"} => Declared(host.files, channel.target)

ReleasesHold == RunsWhatWasPublished /\ RollbackReturns /\ SwappedWhole
=============================================================================
