-------------------------- MODULE MCDatabaseCopies --------------------------
(* A small instance of DatabaseCopies for TLC.                             *)
EXTENDS DatabaseCopies, TLC

CONSTANTS d1, d2, r1, r2

MCDirs == {d1, d2}
MCRestores == {r1, r2}
Symmetry == Permutations(MCDirs) \cup Permutations(MCRestores)
=============================================================================
