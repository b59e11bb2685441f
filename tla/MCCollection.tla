----------------------------- MODULE MCCollection -----------------------------
(* Instances of Collection for TLC: which messages belong to an album. *)
EXTENDS Collection

CONSTANT album

\* Messages 2 and 3 are an album.
MCGroupOf == [m \in Messages |-> IF m \in {2, 3} THEN album ELSE NoGroup]

\* An album of one part, then single messages.
AlbumFirst == [m \in Messages |-> IF m = 1 THEN album ELSE NoGroup]

\* Beside the listener: one poll, three messages, none of which grows too old, no restart.
MCBeside == [polls |-> {Timed}, messages |-> 3, ages |-> FALSE, restarts |-> 0]

=============================================================================
