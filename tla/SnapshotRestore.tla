--------------------------- MODULE SnapshotRestore ---------------------------
(***************************************************************************)
(* How a restore puts a snapshot in place: Service.Restore and what it     *)
(* calls (internal/snapshot/service.go, internal/registrybackup).          *)
(*                                                                         *)
(* The files are first written beside their destinations, then each        *)
(* destination is renamed to a backup and replaced by a rename, then the   *)
(* registry is written root by root.  Whatever fails, the work so far is   *)
(* undone, backwards.  The list of backups is in memory only, so a stop of *)
(* the process leaves what is on the disk.  Any call may fail, those that  *)
(* undo included, MaxFaults times in all.                                  *)
(*                                                                         *)
(* Coordinator.Restore holds backupMu: no backup or other restore is under *)
(* way.  But requests and scans change the locations and the registry keys *)
(* of the game without it, and a restore reads those several times.  A     *)
(* game that writes its saves meanwhile is left out.                       *)
(***************************************************************************)
EXTENDS Integers, FiniteSetsExt

CONSTANTS
  Paths,      \* the save paths of the game, numbered as GamePaths lists them
  Resolved,   \* Resolved[p]: the file p leads to; two paths may lead to one
  Template,   \* Template[p]: what it is resolved from, hashed to the source key
  Roots,      \* registry roots
  MaxFaults,  \* a bound on the calls that fail
  MaxChanges, \* a bound on the locations and keys that are changed meanwhile
  None        \* no content

ASSUME PathsAssumption == Paths \subseteq Nat /\ IsFiniteSet(Paths)
ASSUME MapsAssumption == DOMAIN Resolved = Paths /\ DOMAIN Template = Paths
ASSUME FaultsAssumption == MaxFaults \in Nat

Locations == {Resolved[p] : p \in Paths}

ASSUME RootsAssumption == Locations \cap Roots = {}

Old(l) == <<"old", l>>
New(l) == <<"new", l>>
Part == <<"part">>
Contents == {Old(l) : l \in Locations} \cup {New(l) : l \in Locations} \cup {None}

ASSUME NoneAssumption == \A l \in Locations : None \notin {Old(l), New(l)}

VARIABLES
  \* What the restore is asked to do.
  target,       \* the paths whose file is in the snapshot
  targetRoots,  \* the registry roots in the snapshot
  excluded,     \* the files that exclusions keep out of new snapshots
  \* The library.
  enabled,      \* the paths enabled on this device
  enabledRoots, \* the registry roots enabled on this device
  touched,      \* history: the paths and roots changed since the restore began
  \* The machine.
  disk,         \* the content of each destination
  registry,     \* the content of each registry root
  temps,        \* the paths whose .saveknot-restore file is on disk
  kept,         \* kept[p]: the content of the .saveknot-old file made for p
  captured,     \* the pre-restore snapshot: the content of each file in it
  capturedRoots, \* and its registry roots
  \* The process.
  pc,
  recorded,     \* the paths with an entry in backups
  activated,    \* those whose entry is marked activated
  applied,      \* the registry roots written so far
  result,       \* "none", "restored" or "failed"
  faults,       \* how many calls have failed
  before        \* the content of each destination at the start (for the properties)

taskVars == <<target, targetRoots, excluded>>
libraryVars == <<enabled, enabledRoots, touched>>
captureVars == <<captured, capturedRoots>>
machineVars == <<disk, registry, temps, kept>>
processVars == <<recorded, activated, applied>>
vars == <<taskVars, libraryVars, machineVars, captureVars, pc, processVars, result, faults, before>>

TypeOK ==
  /\ target \subseteq Paths /\ enabled \subseteq Paths
  /\ targetRoots \subseteq Roots /\ enabledRoots \subseteq Roots
  /\ excluded \subseteq Locations
  /\ disk \in [Locations -> Contents] /\ before \in [Locations -> Contents]
  /\ touched \subseteq Paths \cup Roots
  /\ captured \in [Locations -> Contents] /\ capturedRoots \subseteq Roots
  /\ kept \in [Paths -> Contents]
  /\ registry \in [Roots -> UNION {{Old(r), New(r), Part} : r \in Roots}]
  /\ temps \subseteq target /\ recorded \subseteq target
  /\ activated \subseteq recorded
  /\ applied \subseteq targetRoots
  /\ pc \in {"start", "capture", "locate", "stage", "activate", "apply", "revert", "previous",
             "undo", "tidy", "unstage", "returned", "stopped"}
  /\ result \in {"none", "restored", "failed"}
  /\ faults \in 0..MaxFaults

Init ==
  /\ target \in SUBSET Paths /\ targetRoots \in SUBSET Roots
  /\ target # {} \/ targetRoots # {}
  /\ enabled \in SUBSET Paths /\ enabledRoots \in SUBSET Roots
  /\ excluded \in SUBSET Locations
  /\ \E present \in SUBSET Locations :
       disk = [l \in Locations |-> IF l \in present THEN Old(l) ELSE None]
  /\ before = disk
  /\ registry = [r \in Roots |-> Old(r)]
  /\ temps = {} /\ kept = [p \in Paths |-> None]
  /\ captured = [l \in Locations |-> None] /\ capturedRoots = {}
  /\ touched = {}
  /\ pc = "start" /\ result = "none" /\ faults = 0
  /\ recorded = {} /\ activated = {} /\ applied = {}

-----------------------------------------------------------------------------
Fault ==
  /\ faults < MaxFaults
  /\ faults' = faults + 1

NoFault == UNCHANGED faults

Goto(step) == pc' = step

\* Service.Restore returns an error; the deferred cleanup removes the
\* temporary files of what was staged.
Fail ==
  /\ result' = "failed"
  /\ Goto("unstage")

Unchanged(others) == UNCHANGED <<taskVars, libraryVars, before, others>>

-----------------------------------------------------------------------------
(* The library: addPath, updatePath and deletePath, and scans and remaps,   *)
(* which also replace registry keys (SaveGameRelations).                    *)
(* Changes count from one read of the restore to its next, so they are put  *)
(* right before the next; one that replaces a path switches one off and     *)
(* another on.                                                              *)

Touch(row) ==
  /\ row \notin touched
  /\ Cardinality(touched) < MaxChanges
  /\ touched' = touched \cup {row}
  /\ UNCHANGED <<taskVars, machineVars, captureVars, pc, processVars, result, faults, before>>

Toggled(set, row) == IF row \in set THEN set \ {row} ELSE set \cup {row}

ChangePath(p) ==
  /\ pc = "locate"
  /\ enabled' = Toggled(enabled, p)
  /\ UNCHANGED enabledRoots
  /\ Touch(p)

ChangeRoot(r) ==
  /\ pc \in {"capture", "locate", "previous"}
  /\ enabledRoots' = Toggled(enabledRoots, r)
  /\ UNCHANGED enabled
  /\ Touch(r)

-----------------------------------------------------------------------------
(* Before anything is written.                                             *)

\* ValidateRestoreScope: the registry roots of a snapshot must be enabled on
\* this device.
InScope(roots) == roots \subseteq enabledRoots

\* A step that goes on to "next" when "passes" holds and no call in it fails.
Check(passes, next) ==
  \/ passes /\ Goto(next) /\ NoFault /\ UNCHANGED result
  \/ ~passes /\ Fail /\ NoFault
  \/ passes /\ Fail /\ Fault

ValidateScope ==
  /\ pc = "start"
  /\ Check(InScope(targetRoots), "capture")
  /\ Unchanged(<<machineVars, captureVars, processVars>>)

\* createRollbackSnapshot: Create captures every enabled file that is there and
\* not excluded, and every enabled root.  When that is what the latest snapshot
\* holds it takes that one, and an empty capture is no error; the content is
\* the same.
CreateRollback ==
  /\ pc = "capture"
  /\ \/ /\ captured' = [l \in Locations |->
             IF l \in {Resolved[p] : p \in enabled} \ excluded THEN disk[l] ELSE None]
        /\ capturedRoots' = enabledRoots
        /\ Goto("locate")
        /\ NoFault
        /\ UNCHANGED result
     \/ /\ Fault /\ Fail
        /\ UNCHANGED captureVars
  /\ Unchanged(<<machineVars, processVars>>)

\* The scope of the pre-restore snapshot is checked, and stageRestoreFiles
\* reads the paths again.
Locate ==
  /\ pc = "locate"
  /\ Check(InScope(capturedRoots), "stage")
  /\ Unchanged(<<machineVars, captureVars, processVars>>)

-----------------------------------------------------------------------------
(* Staging.                                                                *)

\* The map from source keys to paths that stageRestoreFiles builds: of the
\* enabled paths that share a template the last one stays.
SourcesOfAll(p) == {q \in Paths : Template[q] = Template[p]}

Sources(p) == {q \in enabled : Template[q] = Template[p]}

Destination(p) == Resolved[Max(Sources(p))]

\* The files are staged in the order of the snapshot, which is that of Paths.
Unstaged == target \ temps

\* stageRestoreFile: the blob is decoded into a temporary file next to the
\* destination and its size and hash are verified.
StageFile ==
  /\ pc = "stage"
  /\ Unstaged # {}
  /\ LET p == Min(Unstaged) IN
       /\ Sources(p) # {}
       /\ temps' = temps \cup {p}
  /\ NoFault
  /\ Unchanged(<<disk, registry, kept, captureVars, pc, processVars, result>>)

StageFailsUncleaned ==
  /\ pc = "stage"
  /\ Unstaged # {}
  /\ IF Sources(Min(Unstaged)) = {} THEN NoFault ELSE Fault
  /\ result' = "failed"
  /\ Goto("returned")
  /\ Unchanged(<<machineVars, captureVars, processVars>>)

\* The save location is not configured here, or the blob cannot be staged.
StageFails ==
  /\ pc = "stage"
  /\ Unstaged # {}
  /\ IF Sources(Min(Unstaged)) = {} THEN NoFault ELSE Fault
  /\ Fail
  /\ Unchanged(<<machineVars, captureVars, processVars>>)

\* loadRestoreRegistry reads the registry of the snapshot and verifies it
\* before anything is replaced.
LoadRegistry ==
  /\ pc = "stage"
  /\ Unstaged = {}
  /\ \/ /\ Goto("activate")
        /\ NoFault
        /\ UNCHANGED result
     \/ /\ targetRoots # {}
        /\ Fault /\ Fail
  /\ Unchanged(<<machineVars, captureVars, processVars>>)

-----------------------------------------------------------------------------
(* Activation.                                                             *)

Pending == target \ activated

PreserveFailsWithoutRollback ==
  /\ pc = "activate"
  /\ Pending # {}
  /\ LET p == Min(Pending)
         l == Destination(p) IN
       /\ p \notin recorded
       /\ \/ /\ kept' = [kept EXCEPT ![p] = disk[l]]
             /\ disk' = [disk EXCEPT ![l] = None]
             /\ recorded' = recorded \cup {p}
             /\ NoFault
             /\ UNCHANGED <<pc, result>>
          \/ /\ Fault
             /\ Fail
             /\ UNCHANGED <<kept, disk, recorded>>
  /\ Unchanged(<<registry, temps, captureVars, activated, applied>>)

\* The current file is renamed to a backup, if there is one.
Preserve ==
  /\ pc = "activate"
  /\ Pending # {}
  /\ LET p == Min(Pending)
         l == Destination(p) IN
       /\ p \notin recorded
       /\ \/ /\ kept' = [kept EXCEPT ![p] = disk[l]]
             /\ disk' = [disk EXCEPT ![l] = None]
             /\ recorded' = recorded \cup {p}
             /\ NoFault
             /\ UNCHANGED pc
          \/ /\ Fault
             /\ Goto("undo")
             /\ UNCHANGED <<kept, disk, recorded>>
  /\ Unchanged(<<registry, temps, captureVars, activated, applied, result>>)

\* The temporary file is renamed to the destination.
Activate ==
  /\ pc = "activate"
  /\ Pending # {}
  /\ LET p == Min(Pending) IN
       /\ p \in recorded
       /\ \/ /\ disk' = [disk EXCEPT ![Destination(p)] = New(Resolved[p])]
             /\ temps' = temps \ {p}
             /\ activated' = activated \cup {p}
             /\ NoFault
             /\ UNCHANGED pc
          \/ /\ Fault
             /\ Goto("undo")
             /\ UNCHANGED <<disk, temps, activated>>
  /\ Unchanged(<<registry, kept, captureVars, recorded, applied, result>>)

AllActivated ==
  /\ pc = "activate"
  /\ Pending = {}
  /\ IF targetRoots = {}
     THEN Goto("tidy") /\ result' = "restored"
     ELSE Goto("apply") /\ UNCHANGED result
  /\ NoFault
  /\ Unchanged(<<machineVars, captureVars, processVars>>)

-----------------------------------------------------------------------------
(* The registry.                                                           *)

ApplyEveryRoot(r) ==
  /\ pc = "apply"
  /\ r \in enabledRoots \ applied
  /\ registry' = [registry EXCEPT ![r] = New(r)]
  /\ applied' = applied \cup {r}
  /\ NoFault
  /\ Unchanged(<<disk, temps, kept, captureVars, recorded, activated, result, pc>>)

\* applyDocument, for one root: its keys and values become those of the
\* document.  A root is left half written when a call in it fails.
ApplyRoot(r) ==
  /\ pc = "apply"
  /\ r \in targetRoots \ applied
  /\ \/ /\ registry' = [registry EXCEPT ![r] = New(r)]
        /\ applied' = applied \cup {r}
        /\ NoFault
        /\ UNCHANGED pc
     \/ /\ Fault
        /\ registry' \in {registry, [registry EXCEPT ![r] = Part]}
        /\ Goto("revert")
        /\ UNCHANGED applied
  /\ Unchanged(<<disk, temps, kept, captureVars, recorded, activated, result>>)

RegistryApplied ==
  /\ pc = "apply"
  /\ applied = targetRoots
  /\ Goto("tidy")
  /\ result' = "restored"
  /\ NoFault
  /\ Unchanged(<<machineVars, captureVars, processVars>>)

\* Writing the roots in todo back to what they held stopped midway.
HalfGivenBack(todo) ==
  \E given \in SUBSET todo : \E r \in todo \ given :
    registry' = [q \in Roots |-> IF q \in given THEN Old(q)
                                 ELSE IF q = r THEN Part ELSE registry[q]]

GiveBack(todo) ==
  registry' = [r \in Roots |-> IF r \in todo THEN Old(r) ELSE registry[r]]

\* registrybackup.restore applies what it captured before it began.
RevertRegistry ==
  /\ pc = "revert"
  /\ \/ GiveBack(targetRoots) /\ NoFault
     \/ HalfGivenBack(targetRoots) /\ Fault
  /\ Goto("previous")
  /\ Unchanged(<<disk, temps, kept, captureVars, processVars, result>>)

\* restorePreviousRegistry applies the registry of the pre-restore snapshot if
\* its roots are still in scope.  When that fails it is reverted in its turn,
\* unless that fails too.
RestorePrevious ==
  /\ pc = "previous"
  /\ \/ InScope(capturedRoots) /\ GiveBack(capturedRoots) /\ NoFault
     \/ ~InScope(capturedRoots) /\ UNCHANGED registry /\ NoFault
     \/ Fault /\ UNCHANGED registry
     \/ /\ InScope(capturedRoots)
        /\ faults + 2 <= MaxFaults
        /\ faults' = faults + 2
        /\ HalfGivenBack(capturedRoots)
  /\ Goto("undo")
  /\ Unchanged(<<disk, temps, kept, captureVars, processVars, result>>)

-----------------------------------------------------------------------------
(* rollbackRestoredFiles: backwards, and on past an error.                 *)

UndoingForwards == Min(recorded)

Undoing == Max(recorded)

\* A destination that was replaced is removed ...
RemoveRestored ==
  /\ pc = "undo"
  /\ recorded # {}
  /\ Undoing \in activated
  /\ \/ disk' = [disk EXCEPT ![Destination(Undoing)] = None] /\ NoFault
     \/ UNCHANGED disk /\ Fault
  /\ activated' = activated \ {Undoing}
  /\ Unchanged(<<registry, temps, kept, captureVars, pc, recorded, applied, result>>)

\* ... and the backup takes its name again, replacing what is there.
PutBack ==
  /\ pc = "undo"
  /\ recorded # {}
  /\ Undoing \notin activated
  /\ LET p == Undoing IN
       \/ /\ kept[p] # None
          /\ disk' = [disk EXCEPT ![Destination(p)] = kept[p]]
          /\ kept' = [kept EXCEPT ![p] = None]
          /\ NoFault
       \/ /\ kept[p] # None
          /\ Fault
          /\ UNCHANGED <<disk, kept>>
       \/ /\ kept[p] = None
          /\ NoFault
          /\ UNCHANGED <<disk, kept>>
  /\ recorded' = recorded \ {Undoing}
  /\ Unchanged(<<registry, temps, captureVars, pc, activated, applied, result>>)

Undone ==
  /\ pc = "undo"
  /\ recorded = {}
  /\ Fail
  /\ NoFault
  /\ Unchanged(<<machineVars, captureVars, processVars>>)

-----------------------------------------------------------------------------
(* The end.                                                                *)

\* removeRestoreBackups goes on past a file it cannot remove.
Tidy ==
  /\ pc = "tidy"
  /\ \/ /\ kept' = [p \in Paths |-> None]
        /\ NoFault
     \/ /\ Fault
        /\ \E p \in Paths : kept[p] # None /\ kept' = [q \in Paths |-> IF q = p THEN kept[p] ELSE None]
  /\ Goto("unstage")
  /\ Unchanged(<<disk, registry, temps, captureVars, processVars, result>>)

\* cleanupStagedRestoreFiles, deferred by Restore and by stageRestoreFiles.
Unstage ==
  /\ pc = "unstage"
  /\ \/ temps' = {} /\ NoFault
     \/ /\ Fault
        /\ \E p \in temps : temps' = {p}
  /\ Goto("returned")
  /\ Unchanged(<<disk, registry, kept, captureVars, processVars, result>>)

\* The process is stopped.  Nothing at the next start knows of the restore.
Stop ==
  /\ pc \notin {"start", "returned", "stopped"}
  /\ Goto("stopped")
  /\ NoFault
  /\ Unchanged(<<machineVars, captureVars, processVars, result>>)

Next ==
  \/ (\E p \in Paths : ChangePath(p)) \/ (\E r \in Roots : ChangeRoot(r))
  \/ ValidateScope \/ CreateRollback \/ Locate
  \/ StageFile \/ StageFails \/ LoadRegistry
  \/ Preserve \/ Activate \/ AllActivated
  \/ \E r \in Roots : ApplyRoot(r)
  \/ RegistryApplied \/ RevertRegistry \/ RestorePrevious
  \/ RemoveRestored \/ PutBack \/ Undone
  \/ Tidy \/ Unstage \/ Stop

Spec == Init /\ [][Next]_vars

-----------------------------------------------------------------------------
(* Properties.                                                             *)

\* Until everything is in place, whatever fails and wherever the process is
\* stopped, each file that was there is on the disk: under its own name or as
\* the backup that activateRestoredFiles made of it.  Two paths that lead to one
\* file are why rollbackRestoredFiles must go backwards.
OldOnDisk ==
  result # "restored" =>
    \A l \in Locations : before[l] # None =>
      \/ disk[l] = before[l]
      \/ \E p \in Paths : kept[p] = before[l]

\* A restore replaces no file and no registry root that the pre-restore
\* snapshot has not captured, though it reads what is enabled once to check the
\* registry, once to capture and once to find the destinations, without a lock.
\* Two things are excepted, of which the undo that the snapshot is made for
\* knows nothing: a file that an exclusion keeps out of it, and a path or root
\* that was changed in between.
ReplacedWasCaptured ==
  /\ \A l \in Locations : disk[l] # before[l] /\ before[l] # None =>
       captured[l] = before[l] \/ l \in excluded \cup {Resolved[p] : p \in Paths \cap touched}
  /\ \A r \in Roots : registry[r] # Old(r) => r \in capturedRoots \cup touched

\* When no call fails, a restore leaves no file of its own behind, whether it
\* restored or refused.
NothingLeftBehind ==
  pc = "returned" /\ faults = 0 => temps = {} /\ \A p \in Paths : kept[p] = None

\* What RestorePromise sees: the saves as they were until the restore returns.
Things == Locations \cup Roots
Now == [t \in Things |-> IF t \in Roots THEN registry[t] ELSE disk[t]]
Then == [t \in Things |-> IF t \in Roots THEN Old(t) ELSE before[t]]
Decided == pc \in {"returned", "stopped"} \/ result = "restored"

Promise == INSTANCE RestorePromise WITH
  Absent <- None,
  Partial <- Part,
  saves <- IF Decided THEN Now ELSE Then,
  wanted <- [t \in {Resolved[p] : p \in target} \cup targetRoots |-> New(t)],
  reach <- {Resolved[p] : p \in target} \cup targetRoots \cup capturedRoots,
  outcome <- IF result = "restored" THEN "restored"
             ELSE IF pc = "stopped" THEN "stopped"
             ELSE IF pc # "returned" THEN "none"
             ELSE IF faults > 1 THEN "damaged" ELSE "failed"

\* A restore puts everything in place or, unless undoing it fails too, leaves
\* everything as it was (activateAndRestore).
KeepsPromise == Promise!Spec

\* A completed restore has put every file of the snapshot back where it was
\* captured from, as an undo with the pre-restore snapshot needs it.
RestoredWhereCaptured ==
  result = "restored" =>
    \A p \in target \cap enabled : disk[Resolved[p]] = New(Resolved[p])
=============================================================================
