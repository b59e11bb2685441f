------------------------------ MODULE MCCatalogue ------------------------------
(* Two channels, both with a name; two links to the second one.                *)
EXTENDS Catalogue, TLC
CONSTANTS a, b, h1, h2, s1, s2, r1, r2, t1
ToB == [h \in Invites |-> b]
Symmetry == {f @@ g @@ k : f \in Permutations({h1, h2}), g \in Permutations({s1, s2}),
                           k \in Permutations({r1, r2})}
=============================================================================
