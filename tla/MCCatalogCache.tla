---------------------------- MODULE MCCatalogCache ----------------------------
(***************************************************************************)
(* Instances of CatalogCache for TLC.                                      *)
(***************************************************************************)
EXTENDS CatalogCache

LoopAndRequest == {"loop", "request"}
NoneOrMine == {"", "mine"}
=============================================================================
