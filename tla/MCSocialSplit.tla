--------------------------- MODULE MCSocialSplit ---------------------------
(* Instances of SocialSplit for TLC. *)
EXTENDS SocialSplit, TLC

\* Keys are interchangeable: no action compares or orders them.
Symmetry == Permutations(Sessions) \cup Permutations(Participants)
=============================================================================
