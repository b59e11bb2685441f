------------------------------- MODULE MCSession -------------------------------
(* Instances of TelegramSession for TLC: tasks and clients are interchangeable. *)
EXTENDS TelegramSession, TLC

SessionSymmetry == Permutations(Tasks) \cup Permutations(Clients)

=============================================================================
