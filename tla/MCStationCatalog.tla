------------------------- MODULE MCStationCatalog -------------------------
(* A small instance of StationCatalog for TLC, and the faults its          *)
(* properties are tried against.                                           *)
EXTENDS StationCatalog, TLC

CONSTANTS A, x, y

(* An empty list, a list with another box, and the same box with another   *)
(* barcode beside the LEGACY box.                                          *)
SomeLists == {<<>>, A :> x, A :> y @@ LEGACY :> x}

Symmetry == Permutations(RequestIds)

=============================================================================
