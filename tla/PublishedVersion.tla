-------------------------- MODULE PublishedVersion --------------------------
(* What every catalogue of the back office promises about the versions of    *)
(* one item (a plan, a knowledge article): at most one is in force, a new    *)
(* one takes its place in a single step, and one that was taken out of force *)
(* never comes back.                                                         *)

CONSTANTS Versions, NoVersion

VARIABLES
    current,  \* the version in force, or NoVersion
    past      \* the versions taken out of force, or retired before they were

promised == <<current, past>>

InForce == {current} \ {NoVersion}

PublishedInit == current = NoVersion /\ past = {}

Publish(v) ==
    /\ v \notin past \union InForce
    /\ current' = v
    /\ past' = past \union InForce

Withdraw(v) ==
    /\ v \notin past
    /\ current' = IF current = v THEN NoVersion ELSE current
    /\ past' = past \union {v}

PublishedNext == \E v \in Versions : Publish(v) \/ Withdraw(v)

PublishedSpec == PublishedInit /\ [][PublishedNext]_promised
=============================================================================
