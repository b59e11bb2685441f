----------------------------- MODULE MCPublishing -----------------------------
(* Instances of Publishing for TLC: which posts exist and whose raw post they are. *)
EXTENDS Publishing, TLC

CONSTANTS g1, g2, r1

MCRawOf == [g \in Posts |-> r1]

\* The coroutines that serve requests are interchangeable.
ClickSymmetry == Permutations(Clicks)

=============================================================================
