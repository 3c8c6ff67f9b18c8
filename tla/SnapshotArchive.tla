--------------------------- MODULE SnapshotArchive ---------------------------
(***************************************************************************)
(* What SaveKnot promises of its snapshots, whatever fails, crashes or     *)
(* runs at the same time: a snapshot in the history gives back exactly     *)
(* what was taken, from the moment it appears until it is removed; other   *)
(* devices see only complete snapshots; and what is removed was asked for  *)
(* by the user or has enough newer snapshots of its game.                  *)
(*                                                                         *)
(* Coordinator implements this specification: each of its steps is one of  *)
(* the actions below, or nothing that can be seen here.                    *)
(***************************************************************************)
EXTENDS Naturals, FiniteSets

CONSTANTS
  Ids,     \* identifiers of snapshots, ordered by the time they were taken
  Games,
  Blobs,   \* what files may contain
  Keep     \* how many snapshots of a game retention leaves

VARIABLES
  taken,      \* taken[s]: what snapshot s was taken of, {} while s is unused
  game,       \* game[s]: of which game
  history,    \* the snapshots the user sees: what restoring each would give
  shared,     \* those in R2: what another device would get
  requested   \* those the user has asked to delete, and is waiting for

vars == <<taken, game, history, shared, requested>>

With(f, s, v) == [t \in DOMAIN f \cup {s} |-> IF t = s THEN v ELSE f[t]]
Without(f, s) == [t \in DOMAIN f \ {s} |-> f[t]]

Init ==
  /\ taken = [s \in Ids |-> {}]
  /\ game \in [Ids -> Games]
  /\ history = [s \in {} |-> {}]
  /\ shared = [s \in {} |-> {}]
  /\ requested = {}

\* An identifier is given what it stands for, on this device or another.
Fix(s, g, content) ==
  /\ taken[s] = {} /\ content # {}
  /\ taken' = [taken EXCEPT ![s] = content]
  /\ game' = [game EXCEPT ![s] = g]

Take(s, g, content) ==
  /\ Fix(s, g, content)
  /\ history' = With(history, s, content)
  /\ UNCHANGED <<shared, requested>>

OtherDeviceShares(s, g, content) ==
  /\ Fix(s, g, content)
  /\ shared' = With(shared, s, content)
  /\ UNCHANGED <<history, requested>>

\* Only what is in the history is shared.
Share(s) ==
  /\ s \in DOMAIN history
  /\ shared' = With(shared, s, taken[s])
  /\ UNCHANGED <<taken, game, history, requested>>

\* By whatever device: the history is not affected.  A deletion may fail
\* after this step, and then is no longer waited for.
Withdraw(s) ==
  /\ shared' = Without(shared, s)
  /\ requested' \subseteq requested
  /\ UNCHANGED <<taken, game, history>>

Adopt(s) ==
  /\ taken[s] # {}
  /\ history' = With(history, s, taken[s])
  /\ UNCHANGED <<taken, game, shared, requested>>

Request(s) ==
  /\ s \in DOMAIN history
  /\ requested' = requested \cup {s}
  /\ UNCHANGED <<taken, game, history, shared>>

\* A request that failed has to be repeated.
GiveUp ==
  /\ requested' \subseteq requested
  /\ UNCHANGED <<taken, game, history, shared>>

Superseded(s) ==
  Cardinality({t \in DOMAIN history : game[t] = game[s] /\ t > s}) >= Keep

Remove(s) ==
  /\ s \in requested \/ Superseded(s)
  /\ history' = Without(history, s)
  /\ requested' \subseteq requested
  /\ UNCHANGED <<taken, game, shared>>

Next ==
  \/ \E s \in Ids :
       \/ \E g \in Games, content \in SUBSET Blobs :
            Take(s, g, content) \/ OtherDeviceShares(s, g, content)
       \/ Share(s) \/ Withdraw(s) \/ Adopt(s) \/ Request(s) \/ Remove(s)
  \/ GiveUp

Spec == Init /\ [][Next]_vars

-----------------------------------------------------------------------------
(* What follows from it.                                                   *)

\* What is listed, here or for another device, is what was taken: all of it,
\* and not nothing.
Faithful ==
  /\ \A s \in DOMAIN history : history[s] = taken[s] /\ taken[s] # {}
  /\ \A s \in DOMAIN shared : shared[s] = taken[s] /\ taken[s] # {}

\* A snapshot of the history gives back the same until it leaves it, and it
\* leaves it because the user asked, or for enough newer ones of its game.
Lasting ==
  [][\A s \in DOMAIN history :
       IF s \in DOMAIN history' THEN history'[s] = history[s]
                                ELSE s \in requested \/ Superseded(s)]_vars
=============================================================================
