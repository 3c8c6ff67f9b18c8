---------------------------- MODULE MCGameRecords ----------------------------
(***************************************************************************)
(* Instances of GameRecords for TLC.                                       *)
(***************************************************************************)
EXTENDS GameRecords, TLC

CONSTANTS e1, e2, p1, p2, app, own, c1, c2

\* The second entry names a place without a variable in it, which a user may
\* name as well.
OnePlaceEach == e1 :> {p1} @@ e2 :> {p2}
JpgOrPng == {"jpg", "png"}
=============================================================================
