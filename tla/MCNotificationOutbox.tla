------------------------ MODULE MCNotificationOutbox ------------------------
(* Small instances of NotificationOutbox for TLC.  The jobs of the          *)
(* communication are interchangeable, and so are the workers; the run that  *)
(* checks liveness uses no symmetry.                                        *)
EXTENDS NotificationOutbox, TLC

Symmetry == Permutations(Linked) \union Permutations(Workers)
=============================================================================
