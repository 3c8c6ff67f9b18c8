----------------------------- MODULE MCAutoSync -----------------------------
(***************************************************************************)
(* Two watched games and one that is not, for TLC.                         *)
(***************************************************************************)
EXTENDS AutoSync

CONSTANTS g1, g2, g3
=============================================================================
