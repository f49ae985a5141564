------------------------- MODULE MCHeadlessControl -------------------------
(* Small instances of HeadlessControl for TLC.                             *)
EXTENDS HeadlessControl, TLC

Symmetry == Permutations(RequestIds) \cup Permutations(SessionIds)

=============================================================================
