-------------------------- MODULE MCStationEngine --------------------------
(* Small instances of StationEngine for TLC.                               *)
EXTENDS StationEngine, TLC

Symmetry == Permutations(Conns) \cup Permutations(Keys)
                \cup Permutations(MsgIds) \cup Permutations(Contents)

=============================================================================
