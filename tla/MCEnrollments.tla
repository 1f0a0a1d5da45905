--------------------------- MODULE MCEnrollments ---------------------------
(* An instance of Enrollments for TLC. *)
EXTENDS Enrollments

\* The users' templates differ, and partly have the same ids.
SmallStored == {[u \in Users |-> IF u = "owner" THEN {1, 2} ELSE {2}]}

\* Two templates, and the wildcard.
SmallRemovals == {<<2, 1>>, <<AnyFid>>}
=============================================================================
