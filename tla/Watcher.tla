------------------------------ MODULE Watcher ------------------------------
(***************************************************************************)
(* The watcher of save directories (internal/watcher/watcher.go), the      *)
(* callers that tell it what to watch (Coordinator.ReconcileWatches) and   *)
(* the worker that runs the automatic backups it queues.                   *)
(*                                                                         *)
(* Each game has one enabled location, a directory which may not exist     *)
(* yet; they all have the same parent, which does and can be watched.      *)
(* Time advances in seconds, the period of the watcher's ticker.  Instants *)
(* are kept as the seconds left until them, which stop at 0: the code      *)
(* compares instants with the present one only, so nothing is lost and the *)
(* state stays finite without a horizon.                                   *)
(***************************************************************************)
EXTENDS Naturals, Sequences, FiniteSets, SequencesExt

CONSTANTS
  Games,
  Callers,    \* goroutines that change the library and call ReconcileWatches
  Policy,     \* Policy[g]: BackupPolicy of g, in seconds
  QueueCap    \* capacity of the channel "jobs"

ASSUME GamesAssumption == IsFiniteSet(Games)
ASSUME PolicyAssumption ==
  /\ Policy \in [Games -> [quiet : Nat \ {0}, gap : Nat, dirty : Nat]]
  /\ \A g \in Games : Policy[g].dirty >= Policy[g].quiet
ASSUME QueueCapAssumption == QueueCap \in Nat \ {0}

VARIABLES
  enabled,       \* games that are switched on, so to be watched
  dirs,          \* games whose save directory exists
  call,          \* call[c]: the step of caller c
  list,          \* list[c]: the targets caller c has loaded
  update,        \* the channel "update": empty, or one list
  root,          \* root[g]: the directory the target of g was resolved to
  watched,       \* games whose save directory has an OS watch
  parentWatched, \* the parent directory has one
  events,        \* events[g]: notifications not yet read, in or of the directory of g
  pending,       \* pending[g]: seconds until "due" and until "first" + MaxDirty
  gapLeft,       \* gapLeft[g]: seconds until "lastQueued" + MinGap
  ticked,        \* the ticker has fired
  jobs,          \* the channel "jobs"
  noticed,       \* history: games with a change below a watch and no backup since
  calm,          \* history: seconds since the last event of a pending change of g
  always,        \* history: games enabled ever since the first of the calls that overlap
  ever           \* history: games enabled at some time since then

library == <<enabled, dirs>>
callVars == <<call, list>>
watchVars == <<root, watched, parentWatched>>
timeVars == <<pending, gapLeft, ticked, calm>>
askVars == <<always, ever>>
vars == <<library, callVars, update, watchVars, events, timeVars, jobs, noticed, askVars>>

Settled == [due |-> 0, left |-> 0, set |-> FALSE]

TypeOK ==
  /\ enabled \subseteq Games /\ dirs \subseteq Games
  /\ call \in [Callers -> {"idle", "load", "send"}]
  /\ list \in [Callers -> SUBSET Games]
  /\ update \subseteq SUBSET Games /\ Cardinality(update) <= 1
  /\ root \in [Games -> {"none", "parent", "own"}]
  /\ watched \subseteq dirs
  /\ parentWatched \in BOOLEAN
  /\ events \in [Games -> SUBSET {"create", "change"}]
  /\ \A g \in Games :
       /\ pending[g] \in [due : 0..Policy[g].dirty, left : 0..Policy[g].dirty, set : BOOLEAN]
       /\ pending[g].due <= pending[g].left
       /\ gapLeft[g] \in 0..Policy[g].gap
       /\ calm[g] \in 0..Policy[g].quiet
  /\ ticked \in BOOLEAN
  /\ jobs \in Seq(Games) /\ Len(jobs) <= QueueCap
  /\ noticed \subseteq Games
  /\ always \subseteq Games /\ ever \subseteq Games

\* The daemon has started: Start is about to call ReconcileWatches.
Init ==
  /\ enabled \in SUBSET Games
  /\ dirs \in SUBSET Games
  /\ \E starter \in Callers :
       call = [c \in Callers |-> IF c = starter THEN "load" ELSE "idle"]
  /\ list = [c \in Callers |-> {}]
  /\ update = {}
  /\ root = [g \in Games |-> "none"]
  /\ watched = {}
  /\ parentWatched = FALSE
  /\ events = [g \in Games |-> {}]
  /\ pending = [g \in Games |-> Settled]
  /\ gapLeft = [g \in Games |-> 0]
  /\ ticked = FALSE
  /\ jobs = <<>>
  /\ noticed = {}
  /\ calm = [g \in Games |-> 0]
  /\ always = enabled
  /\ ever = enabled

Smaller(a, b) == IF a < b THEN a ELSE b
Larger(a, b) == IF a > b THEN a ELSE b
Before(n) == IF n = 0 THEN 0 ELSE n - 1

-----------------------------------------------------------------------------
(***************************************************************************)
(* The library and ReconcileWatches.  The list is loaded and handed over   *)
(* in two steps, without a lock.                                           *)
(***************************************************************************)
AllIdle == \A c \in Callers : call[c] = "idle"

\* A request switches a game on or off and calls ReconcileWatches, perhaps
\* while others do.  What is right to watch is counted from the first of the
\* calls that overlap.
UpdateGame(c, g) ==
  /\ call[c] = "idle"
  /\ enabled' = IF g \in enabled THEN enabled \ {g} ELSE enabled \cup {g}
  /\ call' = [call EXCEPT ![c] = "load"]
  /\ always' = IF AllIdle THEN enabled' ELSE always \cap enabled'
  /\ ever' = IF AllIdle THEN enabled' ELSE ever \cup enabled'
  /\ UNCHANGED <<dirs, list, update, watchVars, events, timeVars, jobs, noticed>>

\* An error that the code logs and passes over leaves out the games "gs".
LeftOut(gs) == always' = always \ gs /\ ever' = ever

\* A game whose locations or policy cannot be read is left out.
LoadTargets(c) ==
  /\ call[c] = "load"
  /\ \E unread \in SUBSET enabled :
       /\ list' = [list EXCEPT ![c] = enabled \ unread]
       /\ LeftOut(unread)
  /\ call' = [call EXCEPT ![c] = "send"]
  /\ UNCHANGED <<library, update, watchVars, events, timeVars, jobs, noticed>>

\* ListGames fails, for instance because the request was cancelled after its
\* change was committed: the error is logged and the old targets stay.
LoadFails(c) ==
  /\ call[c] = "load"
  /\ call' = [call EXCEPT ![c] = "idle"]
  /\ always' = {} /\ ever' = Games
  /\ UNCHANGED <<library, list, update, watchVars, events, timeVars, jobs, noticed>>

\* Faulty variant, a mutant: a list that was not consumed is not replaced.
ReconcileKeepsOld(c) ==
  /\ call[c] = "send"
  /\ update' = IF update = {} THEN {list[c]} ELSE update
  /\ call' = [call EXCEPT ![c] = "idle"]
  /\ list' = [list EXCEPT ![c] = {}]
  /\ UNCHANGED <<library, watchVars, events, timeVars, jobs, noticed, askVars>>

\* Manager.Reconcile: replace the list that was not consumed.
Reconcile(c) ==
  /\ call[c] = "send"
  /\ update' = {list[c]}
  /\ call' = [call EXCEPT ![c] = "idle"]
  /\ list' = [list EXCEPT ![c] = {}]
  /\ UNCHANGED <<library, watchVars, events, timeVars, jobs, noticed, askVars>>

-----------------------------------------------------------------------------
(***************************************************************************)
(* The file system.  A notification like one that is still unread is       *)
(* merged with it; of an obsolete watch, unread ones may be discarded.     *)
(***************************************************************************)
Notify(g, kind) == events' = [events EXCEPT ![g] = @ \cup {kind}]

ChangeSave(g) ==
  /\ g \in dirs
  /\ IF g \in watched THEN Notify(g, "change") ELSE UNCHANGED events
  /\ noticed' = IF g \in watched /\ root[g] # "none" THEN noticed \cup {g} ELSE noticed
  /\ UNCHANGED <<library, callVars, update, watchVars, timeVars, jobs, askVars>>

CreateDirectory(g) ==
  /\ g \notin dirs
  /\ dirs' = dirs \cup {g}
  /\ IF parentWatched THEN Notify(g, "create") ELSE UNCHANGED events
  /\ UNCHANGED <<enabled, callVars, update, watchVars, timeVars, jobs, noticed, askVars>>

\* The OS drops the watch of a directory with the directory.
RemoveDirectory(g) ==
  /\ g \in dirs
  /\ dirs' = dirs \ {g}
  /\ watched' = watched \ {g}
  /\ IF parentWatched \/ g \in watched THEN Notify(g, "change") ELSE UNCHANGED events
  /\ UNCHANGED <<enabled, callVars, update, root, parentWatched, timeVars, jobs, noticed, askVars>>

-----------------------------------------------------------------------------
(***************************************************************************)
(* The goroutine run: one action per case of its select.                   *)
(***************************************************************************)
\* nearestExistingDirectory
Nearest(g) == IF g \in dirs THEN "own" ELSE "parent"

\* The notifications of g that are certain to be delivered once "dropped" are
\* no longer watched.
Surviving(g, dropped, parent) ==
  (IF g \in dropped THEN {} ELSE events[g]) \ (IF parent THEN {} ELSE {"create"})

\* applyTargets watches the directories of the games that could be resolved
\* and drops every other watch; prunePending forgets the changes of games that
\* are not listed.  A directory that cannot be walked or watched is left
\* without a watch.
Watch(revised, resolved) ==
  LET dropped == Games \ (watched' \cup (resolved \ dirs)) IN
  /\ root' = [g \in Games |-> IF g \in resolved THEN Nearest(g) ELSE "none"]
  /\ watched' \in SUBSET (resolved \cap dirs)
  /\ parentWatched' = (resolved \ dirs # {})
  /\ events' \in {events, [g \in Games |-> Surviving(g, dropped, parentWatched')]}
  /\ pending' = [g \in Games |-> IF g \in revised THEN pending[g] ELSE Settled]
  /\ calm' = [g \in Games |-> IF g \in revised THEN calm[g] ELSE 0]
  /\ noticed' = {g \in noticed \cap revised : g \in dropped => pending[g].set}
  /\ LeftOut(revised \ resolved)

\* A target whose directory nearestExistingDirectory cannot find is passed over.
ApplyTargets ==
  /\ update' = {}
  /\ \E revised \in update : \E resolved \in SUBSET revised : Watch(revised, resolved)
  /\ UNCHANGED <<library, callVars, gapLeft, ticked, jobs>>

\* The games an event in the directory of g belongs to: within(root, name).
Touched(g) == {h \in Games : root[h] = "parent" \/ (root[h] = "own" /\ h = g)}

\* Faulty variant, a mutant: the age of the first change does not count.
SnapshotDueUncapped(g, left) == Larger(Policy[g].quiet, gapLeft[g])

\* snapshotDue, in seconds from now.
SnapshotDue(g, left) == Smaller(Larger(Policy[g].quiet, gapLeft[g]), left)

\* Faulty variant, a mutant: a later event does not restart the quiet period.
ChangedOnce(g) ==
  IF pending[g].set THEN pending[g]
  ELSE [due |-> SnapshotDue(g, Policy[g].dirty), left |-> Policy[g].dirty, set |-> TRUE]

\* Faulty variant, a mutant: every event counts as the first change.
ChangedAnew(g) ==
  [due |-> SnapshotDue(g, Policy[g].dirty), left |-> Policy[g].dirty, set |-> TRUE]

\* The entry of "pending" after one more change of g.
Changed(g) ==
  LET left == IF pending[g].set THEN pending[g].left ELSE Policy[g].dirty
  IN [due |-> SnapshotDue(g, left), left |-> left, set |-> TRUE]

HandleEvent(g, kind) ==
  /\ kind \in events[g]
  /\ events' = [events EXCEPT ![g] = @ \ {kind}]
  /\ \/ UNCHANGED watched
     \/ kind = "create" /\ g \in dirs /\ watched' = watched \cup {g}
  /\ pending' = [h \in Games |-> IF h \in Touched(g) THEN Changed(h) ELSE pending[h]]
  /\ calm' = [h \in Games |-> IF h \in Touched(g) THEN 0 ELSE calm[h]]
  /\ UNCHANGED <<library, callVars, update, root, parentWatched, gapLeft, ticked, jobs, noticed, askVars>>

Due == {g \in Games : pending[g].set /\ pending[g].due = 0}

\* flushPending visits the map in any order; what the queue has no room for
\* stays for the next tick.
FlushPending ==
  /\ ticked
  /\ ticked' = FALSE
  /\ \E order \in SetToSeqs(Due) :
       LET room == QueueCap - Len(jobs)
           sent == SubSeq(order, 1, Smaller(room, Len(order)))
       IN /\ jobs' = jobs \o sent
          /\ gapLeft' = [g \in Games |-> IF g \in ToSet(sent) THEN Policy[g].gap ELSE gapLeft[g]]
          /\ pending' = [g \in Games |-> IF g \in ToSet(sent) THEN Settled ELSE pending[g]]
          /\ calm' = [g \in Games |-> IF g \in ToSet(sent) THEN 0 ELSE calm[g]]
  /\ UNCHANGED <<library, callVars, update, watchVars, events, noticed, askVars>>

\* A second passes and the ticker fires.
Second ==
  /\ ticked' = TRUE
  /\ pending' = [g \in Games |-> [pending[g] EXCEPT !.due = Before(@), !.left = Before(@)]]
  /\ gapLeft' = [g \in Games |-> Before(gapLeft[g])]
  /\ calm' = [g \in Games |-> IF pending[g].set THEN Smaller(calm[g] + 1, Policy[g].quiet) ELSE 0]
  /\ UNCHANGED <<library, callVars, update, watchVars, events, jobs, noticed, askVars>>

-----------------------------------------------------------------------------
(***************************************************************************)
(* The goroutine that receives from "jobs" and runs automaticBackup, which *)
(* lasts until it takes the next one.                                      *)
(***************************************************************************)
TakeJob ==
  /\ jobs # <<>>
  /\ jobs' = Tail(jobs)
  /\ noticed' = noticed \ {Head(jobs)}
  /\ UNCHANGED <<library, callVars, update, watchVars, events, timeVars, askVars>>

-----------------------------------------------------------------------------
Surroundings ==
  \/ \E c \in Callers, g \in Games : UpdateGame(c, g)
  \/ \E g \in Games : ChangeSave(g) \/ CreateDirectory(g) \/ RemoveDirectory(g)

CallerStep(c) == LoadTargets(c) \/ LoadFails(c) \/ Reconcile(c)

Next ==
  \/ Surroundings
  \/ \E c \in Callers : CallerStep(c)
  \/ ApplyTargets \/ FlushPending \/ Second
  \/ \E g \in Games, kind \in {"create", "change"} : HandleEvent(g, kind)
  \/ TakeJob

Spec == Init /\ [][Next]_vars

\* The goroutines of the watcher are never left alone: select takes each ready
\* case in the end, and a backup ends.  flushPending visits the map in random
\* order, so a game that is due is not passed over at every tick that has room.
\* Callers may stay away for ever.
Fairness ==
  /\ WF_vars(FlushPending)
  /\ \A g \in Games : SF_vars(FlushPending /\ pending[g].set /\ ~pending'[g].set)
  /\ \A g \in Games : WF_vars(HandleEvent(g, "change"))
  /\ WF_vars(Second) /\ WF_vars(TakeJob)

FairSpec == Spec /\ Fairness

-----------------------------------------------------------------------------
(***************************************************************************)
(* Properties.                                                             *)
(***************************************************************************)
\* An automatic backup is queued only after the quiet period, counted from
\* the last event, or when the first unsaved change is as old as MaxDirty:
\* flushPending never overtakes the last write of a burst.
QuietRespected ==
  [][\A g \in Due : pending[g].set /\ ~pending'[g].set /\ jobs' # jobs =>
       calm[g] = Policy[g].quiet \/ pending[g].left = 0]_vars

\* A change that the watcher was notified of leads to a backup that starts
\* after it, unless the game stops being a target or its directory cannot be
\* watched any more: neither a game that never stops writing, nor a full queue,
\* nor a revision of the targets loses it.
ChangeIsBackedUp == \A g \in Games : g \in noticed ~> g \notin noticed

\* No call is under way, and no list waits.
Quiescent == update = {} /\ AllIdle

Targets == {g \in Games : root[g] # "none"}

\* The watcher watches only what the library has enabled, and all of it, as far
\* as callers without a lock can promise: once the calls of ReconcileWatches
\* have come to an end, a game is a target or is none as was right at some
\* moment since the first of them began.  So a call that nothing overlaps puts
\* exactly the enabled games in force, and of several that overlap, which may
\* hand over their lists in another order than they loaded them, none leaves
\* behind what was already wrong before.  A game that an error left out, or
\* all of them when ListGames failed, may be either.
TargetsRecent == Quiescent => always \subseteq Targets /\ Targets \subseteq ever
=============================================================================
