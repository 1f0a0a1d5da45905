----------------------------- MODULE MCHalProxy -----------------------------
(* An instance of HalProxy for TLC. *)
EXTENDS HalProxy

PosterSymmetry == Permutations(Posters)

\* A pair of wake-up events, which never fits the queue at once, an event that
\* needs no wakelock, and a report that is filtered.
SmallBatches == {<<"wake", "wake">>, <<"quiet">>, <<"putDown">>}
=============================================================================
