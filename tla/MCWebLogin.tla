---------------------------- MODULE MCWebLogin -----------------------------
(* A small instance of WebLogin for TLC.                                   *)
EXTENDS WebLogin, TLC

Symmetry == Permutations(Addresses)

=============================================================================
