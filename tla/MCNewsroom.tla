------------------------------ MODULE MCNewsroom ------------------------------
(* Two channel posts with one text and one typed by hand with a similar one, or  *)
(* two channel posts with one text.                                            *)
EXTENDS Newsroom, TLC
CONSTANTS p1, p2, m1, t1, t2, r1, r2, d1, d2
HandText == [p \in Posts |-> IF p \in Composed THEN t2 ELSE t1]
OneText == [p \in Posts |-> t1]
Identical == {<<t, t>> : t \in {t1, t2}}
Close == Identical \cup {<<t1, t2>>, <<t2, t1>>}
Symmetry ==
  {f @@ g @@ h : f \in Permutations({p1, p2}), g \in Permutations({r1, r2}),
                 h \in Permutations({d1, d2})}
=============================================================================
