--------------------------- MODULE RestorePromise ---------------------------
(***************************************************************************)
(* What a restore promises to whoever looks at the saves before and after  *)
(* it: everything the snapshot holds is put in place, or nothing has       *)
(* changed.  A stop of the process in between is the exception: each save  *)
(* is then the old one, the restored one, or missing.                      *)
(***************************************************************************)
CONSTANTS
  Things,   \* save files and registry roots
  Absent,   \* the value of a thing that is not there
  Partial   \* the value of a thing that is half written

VARIABLES
  saves,    \* the value of each thing
  wanted,   \* the things of the snapshot, with the values it holds of them
  reach,    \* the things a restore writes, or writes again to undo itself
  outcome   \* "none", "restored", "failed", "damaged" or "stopped"

vars == <<saves, wanted, reach, outcome>>

Overlay == [t \in Things |-> IF t \in DOMAIN wanted THEN wanted[t] ELSE saves[t]]

Init == outcome = "none"

\* Before anything is written, more may turn out to be within reach.
Prepare ==
  /\ outcome = "none"
  /\ reach \subseteq reach'
  /\ UNCHANGED <<saves, wanted, outcome>>

Restored ==
  /\ outcome = "none"
  /\ outcome' = "restored"
  /\ saves' = Overlay

Failed ==
  /\ outcome = "none"
  /\ outcome' = "failed"
  /\ saves' = saves

\* Mixed(t): what may be left of a thing by a restore that was not completed.
Mixed(t) ==
  {saves[t], Partial} \cup (IF t \in DOMAIN wanted THEN {wanted[t], Absent} ELSE {})

\* The process stopped, or undoing the restore failed as well: what is out of
\* reach is untouched.
Broken(how) ==
  /\ outcome = "none"
  /\ outcome' = how
  /\ \A t \in Things : t \notin reach => saves'[t] = saves[t]
  /\ \A t \in Things : saves'[t] \in Mixed(t)
  /\ DOMAIN saves' = Things

Next ==
  \/ Prepare
  \/ /\ UNCHANGED <<wanted, reach>>
     /\ Restored \/ Failed \/ Broken("stopped") \/ Broken("damaged")

Spec == Init /\ [][Next]_vars
=============================================================================
