----------------------------- MODULE MCMediaFiles -----------------------------
(* One post with a picture of its channel, and room for one more.              *)
EXTENDS MediaFiles, TLC
CONSTANTS p1, u1, u2, c1, c2, t1, t2
OneAlbum == [p \in Posts |-> Channel]
Symmetry == {f @@ g @@ h : f \in Permutations({u1, u2}), g \in Permutations({c1, c2}),
                           h \in Permutations({t1, t2})}
=============================================================================
