--------------------------- MODULE MCBuildDriver ---------------------------
(* Five crates and two slots for BuildDriver. *)
EXTENDS BuildDriver

CONSTANTS c1, c2, c3, c4, c5

FiveCrates == <<c1, c2, c3, c4, c5>>
=============================================================================
