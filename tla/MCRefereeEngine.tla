-------------------------- MODULE MCRefereeEngine --------------------------
(* Small instances of RefereeEngine for TLC.                               *)
EXTENDS RefereeEngine, TLC

Symmetry == Permutations(Conns) \cup Permutations(Sessions)
                \cup Permutations(MsgIds) \cup Permutations(Verdicts)

=============================================================================
