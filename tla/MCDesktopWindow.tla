------------------------- MODULE MCDesktopWindow --------------------------
(* A small instance of DesktopWindow for TLC.                              *)
EXTENDS DesktopWindow

(* The target is changed in the first session only.                        *)
MCMaxRevision == <<2, 1, 1>>

=============================================================================
