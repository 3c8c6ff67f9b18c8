------------------------- MODULE MCBlobRelocation -------------------------
(***************************************************************************)
(* Instances of BlobRelocation for TLC.                                    *)
(***************************************************************************)
EXTENDS BlobRelocation, TLC

CONSTANTS first, second, link   \* two directories, and a path to the first

TwoPlaces == (first :> 1) @@ (second :> 2) @@ (link :> 1)
=============================================================================
