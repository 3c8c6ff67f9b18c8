----------------------------- MODULE MCWatcher -----------------------------
(***************************************************************************)
(* Instances of Watcher for TLC: the backup policies.                      *)
(***************************************************************************)
EXTENDS Watcher

CONSTANTS g1, c1, c2

\* A quiet period, a minimum gap longer than it, and room for both before a
\* change gets too old.
Debounced == [g \in Games |-> [quiet |-> 2, gap |-> 3, dirty |-> 3]]
=============================================================================
