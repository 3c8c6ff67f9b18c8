------------------------------ MODULE AutoSync ------------------------------
(***************************************************************************)
(* Automatic uploads (internal/app/coordinator.go): the set of games that  *)
(* await a sync, the channel that wakes the worker, the worker, and the    *)
(* two goroutines that queue games: the backup worker of the watcher and   *)
(* the start of the daemon, which queues what an earlier run left behind.  *)
(*                                                                         *)
(* The Coordinator module has the steps of one automaticSyncGame; here it  *)
(* loads what is pending and then uploads it or fails.                     *)
(***************************************************************************)
EXTENDS Naturals

CONSTANTS
  Games,
  Watched,      \* enabled games with sync on: listed when the daemon starts
  MaxCrashes    \* bound: how often the daemon stops and starts again

ASSUME WatchedAssumption == Watched \subseteq Games
ASSUME MaxCrashesAssumption == MaxCrashes \in Nat

VARIABLES
  pending,      \* games with a snapshot no sync has loaded (in the database)
  uploading,    \* games with a snapshot that a sync has loaded and not uploaded
  queued,       \* automaticSyncGames
  wake,         \* automaticSyncWake holds a token
  queuing,      \* queuing[q]: the call of queueAutomaticSync of goroutine q
  todo,         \* games queuePendingAutomaticSync has listed and not queued yet
  phase,        \* Start: "list", "queue", then "running"
  syncer,       \* the step of the worker and its game
  owed,         \* history: games with a snapshot no automatic sync started after
  crashes

vars == <<pending, uploading, queued, wake, queuing, todo, phase, syncer, owed, crashes>>

Queuers == {"startup", "watcher"}

Calls == {<<"idle">>} \cup ({"add", "wake"} \X Games)

TypeOK ==
  /\ pending \subseteq Games /\ uploading \subseteq Games
  /\ queued \subseteq Games
  /\ wake \in BOOLEAN
  /\ queuing \in [Queuers -> Calls]
  /\ todo \subseteq Games
  /\ phase \in {"list", "queue", "running"}
  /\ todo # {} => phase = "queue"
  /\ queuing["watcher"] # <<"idle">> => phase = "running"
  /\ syncer \in {<<"wait">>, <<"take">>} \cup ({"load", "upload"} \X Games)
  /\ owed \subseteq Games
  /\ crashes \in 0..MaxCrashes

Init ==
  /\ pending \in SUBSET Games
  /\ uploading = {}
  /\ queued = {}
  /\ wake = FALSE
  /\ queuing = [q \in Queuers |-> <<"idle">>]
  /\ todo = {}
  /\ phase = "list"
  /\ syncer = <<"wait">>
  /\ owed = pending \cap Watched
  /\ crashes = 0

-----------------------------------------------------------------------------
(***************************************************************************)
(* queueAutomaticSync: insert the game, then leave a token if there is     *)
(* none.                                                                   *)
(***************************************************************************)
Call(q, g) == queuing' = [queuing EXCEPT ![q] = <<"add", g>>]

QueueAdd(q, g) ==
  /\ queuing[q] = <<"add", g>>
  /\ queued' = queued \cup {g}
  /\ queuing' = [queuing EXCEPT ![q] = <<"wake", g>>]
  /\ UNCHANGED <<pending, uploading, wake, todo, phase, syncer, owed, crashes>>

QueueWake(q, g) ==
  /\ queuing[q] = <<"wake", g>>
  /\ wake' = TRUE
  /\ queuing' = [queuing EXCEPT ![q] = <<"idle">>]
  /\ UNCHANGED <<pending, uploading, queued, todo, phase, syncer, owed, crashes>>

\* Faulty variant, a mutant: the watcher starts before what is pending is
\* queued.
AutomaticBackupEarly(g) ==
  /\ queuing["watcher"] = <<"idle">>
  /\ pending' = pending \cup {g}
  /\ owed' = owed \cup {g}
  /\ Call("watcher", g)
  /\ UNCHANGED <<uploading, queued, wake, todo, phase, syncer, crashes>>

\* automaticBackup made a snapshot.  The watcher runs once Start has queued
\* what was pending.
AutomaticBackup(g) ==
  /\ phase = "running" /\ queuing["watcher"] = <<"idle">>
  /\ pending' = pending \cup {g}
  /\ owed' = owed \cup {g}
  /\ Call("watcher", g)
  /\ UNCHANGED <<uploading, queued, wake, todo, phase, syncer, crashes>>

\* Faulty variant, a mutant: what an earlier run left behind is not queued.
ListNothing ==
  /\ phase = "list"
  /\ phase' = "queue"
  /\ todo' = {}
  /\ UNCHANGED <<pending, uploading, queued, wake, queuing, syncer, owed, crashes>>

\* queuePendingAutomaticSync lists the pending snapshots of watched games.
ListPending ==
  /\ phase = "list"
  /\ phase' = "queue"
  /\ todo' = pending \cap Watched
  /\ UNCHANGED <<pending, uploading, queued, wake, queuing, syncer, owed, crashes>>

\* The query fails: a warning is logged and nothing is queued.
ListFails ==
  /\ phase = "list"
  /\ phase' = "queue"
  /\ owed' = {}
  /\ UNCHANGED <<pending, uploading, queued, wake, queuing, todo, syncer, crashes>>

QueuePending(g) ==
  /\ phase = "queue" /\ queuing["startup"] = <<"idle">>
  /\ g \in todo
  /\ todo' = todo \ {g}
  /\ Call("startup", g)
  /\ UNCHANGED <<pending, uploading, queued, wake, phase, syncer, owed, crashes>>

Started ==
  /\ phase = "queue" /\ queuing["startup"] = <<"idle">> /\ todo = {}
  /\ phase' = "running"
  /\ UNCHANGED <<pending, uploading, queued, wake, queuing, todo, syncer, owed, crashes>>

-----------------------------------------------------------------------------
(***************************************************************************)
(* runAutomaticSync: each token is answered by taking games until none is  *)
(* left.                                                                   *)
(***************************************************************************)
Woken ==
  /\ syncer = <<"wait">> /\ wake
  /\ wake' = FALSE
  /\ syncer' = <<"take">>
  /\ UNCHANGED <<pending, uploading, queued, queuing, todo, phase, owed, crashes>>

TakeGame(g) ==
  /\ syncer = <<"take">> /\ g \in queued
  /\ queued' = queued \ {g}
  /\ syncer' = <<"load", g>>
  /\ owed' = owed \ {g}
  /\ UNCHANGED <<pending, uploading, wake, queuing, todo, phase, crashes>>

TakeNone ==
  /\ syncer = <<"take">> /\ queued = {}
  /\ syncer' = <<"wait">>
  /\ UNCHANGED <<pending, uploading, queued, wake, queuing, todo, phase, owed, crashes>>

\* automaticSyncGame marks what is pending, or returns before it does: the
\* game is gone, hidden or not synced, R2 is not connected.
Load(g) ==
  /\ syncer = <<"load", g>>
  /\ \/ /\ syncer' = <<"upload", g>>
        /\ uploading' = uploading \cup ({g} \cap pending)
        /\ pending' = pending \ {g}
     \/ /\ syncer' = <<"take">>
        /\ UNCHANGED <<pending, uploading>>
  /\ UNCHANGED <<queued, wake, queuing, todo, phase, owed, crashes>>

\* Faulty variant, a mutant: the worker waits for a token after each game.
UploadWaits(g) ==
  /\ syncer = <<"upload", g>>
  /\ syncer' = <<"wait">>
  /\ uploading' = uploading \ {g}
  /\ pending' \in {pending, pending \cup ({g} \cap uploading)}
  /\ UNCHANGED <<queued, wake, queuing, todo, phase, owed, crashes>>

\* Uploaded, or an error is reported and the game is not queued again.
Upload(g) ==
  /\ syncer = <<"upload", g>>
  /\ syncer' = <<"take">>
  /\ uploading' = uploading \ {g}
  /\ pending' \in {pending, pending \cup ({g} \cap uploading)}
  /\ UNCHANGED <<queued, wake, queuing, todo, phase, owed, crashes>>

-----------------------------------------------------------------------------
\* A sync that was requested, or the periodic one, uploads the snapshots of
\* a game.  syncMu keeps it apart from the worker's.
OtherSync(g) ==
  /\ g \in pending /\ \A h \in Games : syncer # <<"upload", h>>
  /\ pending' = pending \ {g}
  /\ owed' = owed \ {g}
  /\ UNCHANGED <<uploading, queued, wake, queuing, todo, phase, syncer, crashes>>

\* The daemon stops, in the middle of anything, and starts again.  What it
\* owes then is an attempt at whatever a watched game has not uploaded.
Crash ==
  /\ crashes < MaxCrashes
  /\ crashes' = crashes + 1
  /\ pending' = pending \cup uploading
  /\ uploading' = {}
  /\ queued' = {}
  /\ wake' = FALSE
  /\ queuing' = [q \in Queuers |-> <<"idle">>]
  /\ todo' = {}
  /\ phase' = "list"
  /\ syncer' = <<"wait">>
  /\ owed' = (pending \cup uploading) \cap Watched

Queue(q) == \E g \in Games : QueueAdd(q, g) \/ QueueWake(q, g)

Start == ListPending \/ ListFails \/ Started \/ \E g \in Games : QueuePending(g)

Work == Woken \/ TakeNone \/ \E g \in Games : TakeGame(g) \/ Load(g) \/ Upload(g)

Next ==
  \/ \E q \in Queuers : Queue(q)
  \/ Start
  \/ Work
  \/ \E g \in Games : AutomaticBackup(g) \/ OtherSync(g)
  \/ Crash

Spec == Init /\ [][Next]_vars

\* The goroutines are never left alone.  Taking a game ranges over the map in
\* random order, so none stays in it while others are taken again and again.
Fairness ==
  /\ \A q \in Queuers : WF_vars(Queue(q))
  /\ WF_vars(Start)
  /\ WF_vars(Work)
  /\ \A g \in Games : SF_vars(TakeGame(g))

FairSpec == Spec /\ Fairness

-----------------------------------------------------------------------------
(***************************************************************************)
(* Properties.                                                             *)
(***************************************************************************)
\* A game that awaits a sync is never forgotten: there is a token for it, the
\* worker is still taking games, or who queued it is about to leave a token.
NoLostWakeup ==
  \/ queued = {}
  \/ wake
  \/ syncer # <<"wait">>
  \/ \E q \in Queuers, g \in Games : queuing[q] = <<"wake", g>>

\* Every automatic snapshot gets an attempt to upload it that starts after it
\* was made, in this run of the daemon or, if it stops before, in the next.
SnapshotIsTried == \A g \in Games : g \in owed ~> g \notin owed

=============================================================================
