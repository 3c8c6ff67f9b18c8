---------------------------- MODULE RestoreProofs ----------------------------
(***************************************************************************)
(* Theorems about SnapshotRestore: its invariants, and that it implements  *)
(* RestorePromise.                                                         *)
(***************************************************************************)
EXTENDS SnapshotRestore, FiniteSetTheorems, NaturalsInduction, TLAPS

-----------------------------------------------------------------------------
(* The least and the greatest of a set of paths.                           *)

LEMMA MinIsLeast ==
  ASSUME NEW S \in SUBSET Nat, S # {}
  PROVE  Min(S) \in S /\ \A x \in S : Min(S) =< x
<1>1. IsWellFoundedOn(OpToRel(<, Nat), Nat)
  BY NatLessThanWellFounded
<1>2. PICK m \in S : \A y \in S : ~(<<y, m>> \in OpToRel(<, Nat))
  BY <1>1, WFMin, Zenon
<1>3. \A y \in S : ~(y < m)
  BY <1>2 DEF OpToRel
<1>4. \A y \in S : m =< y
  BY <1>3
<1>5. \E x \in S : \A y \in S : x =< y
  BY <1>4
<1> QED BY <1>5 DEF Min

\* A smallest set without a greatest element would have a smaller one.
LEMMA MaxIsGreatest ==
  ASSUME NEW S \in SUBSET Nat, S # {}, IsFiniteSet(S)
  PROVE  Max(S) \in S /\ \A x \in S : Max(S) >= x
<1> DEFINE Topped(F) == \E m \in F : \A y \in F : m >= y
           Bad == {F \in FiniteSubsetsOf(Nat) : F # {} /\ ~Topped(F)}
<1>1. Bad = {}
  <2> SUFFICES ASSUME Bad # {}
               PROVE  FALSE
    OBVIOUS
  <2>1. PICK F \in Bad : \A G \in Bad : ~(<<G, F>> \in StrictSubsetOrdering(Nat))
    <3>1. Bad \subseteq FiniteSubsetsOf(Nat)
      OBVIOUS
    <3> HIDE DEF Bad
    <3> QED BY <3>1, FS_StrictSubsetOrderingWellFounded, WFMin
  <2>2. F \in SUBSET Nat /\ IsFiniteSet(F) /\ F # {} /\ ~Topped(F)
    BY DEF FiniteSubsetsOf
  <2>3. PICK x \in F : TRUE
    BY <2>2
  <2> DEFINE G == F \ {x}
  <2>4. G \in SUBSET Nat /\ IsFiniteSet(G) /\ <<G, F>> \in StrictSubsetOrdering(Nat)
    BY <2>2, FS_RemoveElement DEF StrictSubsetOrdering
  <2>5. G = {} \/ Topped(G)
    BY <2>1, <2>4 DEF FiniteSubsetsOf
  <2>6. CASE G = {}
    <3>1. \A y \in F : y = x
      BY <2>6
    <3>2. x >= x
      BY <2>2
    <3> QED BY <2>2, <3>1, <3>2
  <2>7. CASE Topped(G)
    <3>1. PICK m \in G : \A y \in G : m >= y
      BY <2>7
    <3>2. m \in Nat /\ x \in Nat /\ m \in F
      BY <2>2, <2>3
    <3>3. CASE m >= x
      <4>1. \A y \in F : m >= y
        BY <3>1, <3>3
      <4> QED BY <2>2, <3>2, <4>1
    <3>4. CASE x >= m
      <4>1. \A y \in F : y \in Nat
        BY <2>2
      <4>2. \A y \in F : x >= y
        BY <3>1, <3>2, <3>4, <4>1
      <4> QED BY <2>2, <4>2
    <3> QED BY <3>2, <3>3, <3>4
  <2> QED BY <2>5, <2>6, <2>7
<1>2. Topped(S)
  <2>1. S \in FiniteSubsetsOf(Nat)
    BY DEF FiniteSubsetsOf
  <2> QED BY <1>1, <2>1
<1> QED BY <1>2 DEF Max

-----------------------------------------------------------------------------
(* The inductive invariant.                                                *)

Configured(p) == Sources(p) # {}

Wanted == {Resolved[p] : p \in target}

Placing == {"activate", "apply", "revert", "previous", "undo", "tidy"}

Early == {"start", "capture", "locate"}

\* What each step of the restore may rely on.
PhaseOK ==
  /\ pc \in Early \cup {"stage", "activate", "apply", "revert", "previous", "undo"} => result = "none"
  /\ pc = "tidy" => result = "restored"
  /\ pc \in Early \cup {"stage"} => recorded = {} /\ disk = before
  /\ pc \in Early => temps = {}
  /\ pc \in {"start", "capture"} => capturedRoots = {}
  /\ pc \in Early \cup {"stage", "activate"} => applied = {} /\ \A p \in Paths \ recorded : kept[p] = None
  /\ pc \in Early \cup {"stage", "activate", "apply"} => faults = 0
  /\ pc \in {"revert", "previous", "undo"} => faults > 0
  /\ pc = "stage" => \A p \in temps : Configured(p)
  /\ pc \in Placing => \A p \in target : Configured(p)
  /\ pc = "apply" => activated = target

\* A restore without a fault cleans up.
CleanOK ==
  faults = 0 =>
    /\ pc \in {"unstage", "returned"} => \A p \in Paths : kept[p] = None
    /\ pc = "returned" => temps = {}

\* p is the first entry of its destination.
First(p) == \A q \in recorded : Destination(q) = Destination(p) => p =< q

\* The previous file of l: under its name, as the backup that is going to be put
\* back last, or as one that could not be put back.
Safe(l) ==
  \/ disk[l] = before[l] /\ \A p \in recorded : Destination(p) # l
  \/ \E p \in recorded : First(p) /\ Destination(p) = l /\ kept[p] = before[l]
  \/ \E p \in Paths \ recorded : kept[p] = before[l]

\* The entries of the backups are made in the order of the paths.
SafeOK ==
  /\ \A q \in recorded, r \in target \ recorded : q < r
  /\ result # "restored" => \A l \in Locations : before[l] # None => Safe(l)

\* What a later step may replace has been captured, but for what is excluded and
\* what has been changed since.
CapturedOK ==
  /\ pc = "capture" => targetRoots \subseteq enabledRoots \cup touched
  /\ pc \in {"locate", "stage"} \cup Placing =>
       /\ targetRoots \subseteq capturedRoots \cup touched
       /\ \A p \in enabled \ touched : captured[Resolved[p]] = before[Resolved[p]] \/ Resolved[p] \in excluded
  /\ ReplacedWasCaptured

RegistryOK ==
  /\ pc \in Early \cup {"stage", "activate", "apply"} =>
       registry = [r \in Roots |-> IF r \in applied THEN New(r) ELSE Old(r)]
  /\ pc \in {"previous", "undo"} /\ faults =< 1 => registry = [r \in Roots |-> Old(r)]
  /\ pc = "revert" => \A r \in Roots : registry[r] # Old(r) => r \in targetRoots
  /\ \A r \in Roots :
       /\ registry[r] \in {Old(r), Part} \/ (registry[r] = New(r) /\ r \in targetRoots)
       /\ registry[r] # Old(r) => r \in targetRoots \cup capturedRoots

RestoreInv == TypeOK /\ PhaseOK /\ CleanOK /\ SafeOK /\ RegistryOK /\ CapturedOK

-----------------------------------------------------------------------------
(* What the refinement needs besides, where paths of one template lead to  *)
(* one file.                                                               *)

TemplatesApart == \A p, q \in Paths : Template[p] = Template[q] => Resolved[p] = Resolved[q]

\* As long as no call that undoes fails, undoing leads back to the start.
UndoOK ==
  pc \in {"activate", "apply", "revert", "previous"} \/ (pc = "undo" /\ faults =< 1) =>
    /\ \A p \in recorded : First(p) => kept[p] = before[Destination(p)]
    /\ \A l \in Locations : (\A p \in recorded : Destination(p) # l) => disk[l] = before[l]
    /\ \A p \in recorded \ activated : disk[Destination(p)] = None /\ \A q \in recorded : q =< p

\* What has been activated is in place, unless another path has just moved it.
PlacedOK ==
  pc \in {"activate", "apply"} =>
    \A p \in activated : \/ disk[Destination(p)] = New(Destination(p))
                        \/ \E q \in recorded \ activated : Destination(q) = Destination(p)

\* No file is anything but what was there, what the snapshot holds, or gone.
ValuesOK ==
  /\ \A l \in Locations :
       /\ disk[l] \in {before[l], New(l), None}
       /\ disk[l] # before[l] => l \in Wanted
  /\ \A p \in recorded : kept[p] \in {before[Destination(p)], New(Destination(p)), None}

UnchangedOK ==
  pc = "unstage" /\ result = "failed" /\ faults =< 1 =>
    disk = before /\ registry = [r \in Roots |-> Old(r)]

DoneOK == result = "restored" => \A l \in Wanted : disk[l] = New(l)

PromiseInv ==
  /\ UndoOK /\ PlacedOK /\ ValuesOK /\ UnchangedOK /\ DoneOK
  /\ pc \in {"unstage", "returned"} => result # "none"

-----------------------------------------------------------------------------
(* Facts every step needs.                                                 *)

\* The changes of the library, and the steps before staging.
Changing == (\E p \in Paths : ChangePath(p)) \/ (\E r \in Roots : ChangeRoot(r))
Preparing == ValidateScope \/ CreateRollback \/ Locate

LEMMA ChangingStep ==
  ASSUME Changing
  PROVE  /\ UNCHANGED <<target, targetRoots, excluded, disk, registry, temps, kept, captured, capturedRoots, pc,
                        recorded, activated, applied, result, faults, before>>
         /\ touched \subseteq touched'
         /\ pc \in Early \cup {"previous"}
         /\ pc = "locate" \/ enabled' = enabled
<1>1. CASE \E p \in Paths : ChangePath(p)
  BY <1>1 DEF ChangePath, Touch, Early, taskVars, machineVars, captureVars, processVars
<1>2. CASE \E r \in Roots : ChangeRoot(r)
  BY <1>2 DEF ChangeRoot, Touch, Early, taskVars, machineVars, captureVars, processVars
<1> QED BY <1>1, <1>2 DEF Changing

LEMMA PreparingStep ==
  ASSUME Preparing
  PROVE  /\ UNCHANGED <<target, targetRoots, excluded, enabled, enabledRoots, touched, disk, registry, temps, kept,
                        recorded, activated, applied, before>>
         /\ pc \in Early
         /\ \/ /\ UNCHANGED <<result, faults>>
               /\ \/ pc = "start" /\ pc' = "capture" /\ targetRoots \subseteq enabledRoots
                  \/ pc = "capture" /\ pc' = "locate"
                  \/ pc = "locate" /\ pc' = "stage"
            \/ pc' = "unstage" /\ result' = "failed" /\ (NoFault \/ Fault)
         /\ pc # "capture" => UNCHANGED <<captured, capturedRoots>>
<1> USE DEF Early, Check, InScope, NoFault, Fail, Goto, Unchanged, taskVars, libraryVars, machineVars,
            captureVars, processVars
<1>1. CASE ValidateScope
  BY <1>1 DEF ValidateScope
<1>2. CASE CreateRollback
  BY <1>2 DEF CreateRollback
<1>3. CASE Locate
  BY <1>3 DEF Locate
<1> QED BY <1>1, <1>2, <1>3 DEF Preparing

\* The task and the previous files stay what they are; the destinations too, once
\* the paths have been read to stage the files.
LEMMA Fixed ==
  ASSUME [Next]_vars
  PROVE  /\ UNCHANGED <<target, targetRoots, excluded, before>> /\ Wanted' = Wanted
         /\ \/ pc = "locate"
            \/ /\ enabled' = enabled
               /\ \A p : Destination(p)' = Destination(p) /\ (Configured(p)' <=> Configured(p))
<1>1. UNCHANGED <<target, targetRoots, excluded, before>> /\ (pc = "locate" \/ enabled' = enabled)
  <2>1. CASE Changing \/ Preparing
    BY <2>1, ChangingStep, PreparingStep
  <2>2. CASE Next /\ ~Changing /\ ~Preparing
    BY <2>2 DEF Next, Changing, Preparing, StageFile, StageFails, LoadRegistry, Preserve, Activate,
       AllActivated, ApplyRoot, RegistryApplied, RevertRegistry, RestorePrevious, RemoveRestored, PutBack,
       Undone, Tidy, Unstage, Stop, Unchanged, taskVars, libraryVars
  <2>3. CASE UNCHANGED vars
    BY <2>3 DEF vars, taskVars, libraryVars
  <2> QED BY <2>1, <2>2, <2>3
<1> QED BY <1>1 DEF Destination, Configured, Sources, Wanted

\* Before staging nothing has been written.
LEMMA LocateStep ==
  ASSUME TypeOK, PhaseOK, [Next]_vars, pc = "locate"
  PROVE  /\ UNCHANGED <<disk, registry, temps, kept, recorded, activated, applied, before>>
         /\ recorded = {} /\ activated = {} /\ applied = {} /\ disk = before
         /\ pc' \in {"locate", "stage", "unstage", "stopped"}
<1>1. recorded = {} /\ activated = {} /\ applied = {} /\ disk = before
  BY DEF TypeOK, PhaseOK, Early
<1>2. CASE UNCHANGED vars
  BY <1>1, <1>2 DEF vars, machineVars, processVars
<1>3. CASE Changing \/ Preparing
  BY <1>1, <1>3, ChangingStep, PreparingStep
<1>4. CASE Stop
  BY <1>1, <1>4 DEF Stop, Goto, Unchanged, machineVars, processVars
<1>5. CASE Next /\ ~Changing /\ ~Preparing /\ ~Stop
  BY <1>5 DEF Next, Changing, Preparing, StageFile, StageFails, LoadRegistry, Preserve, Activate,
     AllActivated, ApplyRoot, RegistryApplied, RevertRegistry, RestorePrevious, RemoveRestored, PutBack,
     Undone, Tidy, Unstage
<1> QED BY <1>2, <1>3, <1>4, <1>5

\* The destination of a path that is configured is an enabled one.
LEMMA DestinationIn ==
  ASSUME TypeOK, NEW p \in Paths, Configured(p)
  PROVE  /\ \E q \in enabled : q \in Paths /\ Template[q] = Template[p] /\ Destination(p) = Resolved[q]
         /\ Destination(p) \in Locations
<1>1. Sources(p) \in SUBSET Nat /\ Sources(p) \subseteq enabled /\ enabled \subseteq Paths /\ Sources(p) # {}
  BY PathsAssumption DEF TypeOK, Sources, Configured
<1>2. IsFiniteSet(Sources(p))
  BY <1>1, PathsAssumption, FS_Subset
<1>3. Max(Sources(p)) \in Sources(p)
  BY <1>1, <1>2, MaxIsGreatest
<1> QED BY <1>1, <1>3 DEF Destination, Sources, Locations

\* The first of the paths that are left to do.
LEMMA LeastPending ==
  ASSUME TypeOK, Pending # {}
  PROVE  /\ Min(Pending) \in target \ activated /\ Min(Pending) \in Paths /\ Min(Pending) \in Nat
         /\ \A q \in target \ activated : Min(Pending) =< q
<1>1. Pending \in SUBSET Nat /\ Pending \subseteq Paths
  BY PathsAssumption DEF TypeOK, Pending
<1> QED BY <1>1, MinIsLeast DEF Pending

LEMMA LeastUnstaged ==
  ASSUME TypeOK, Unstaged # {}
  PROVE  Min(Unstaged) \in target \ temps /\ Min(Unstaged) \in Paths
<1>1. Unstaged \in SUBSET Nat /\ Unstaged \subseteq Paths
  BY PathsAssumption DEF TypeOK, Unstaged
<1> QED BY <1>1, MinIsLeast DEF Unstaged

\* The last entry of the backups.
LEMMA LastRecorded ==
  ASSUME TypeOK, recorded # {}
  PROVE  /\ Undoing \in recorded /\ Undoing \in target /\ Undoing \in Paths /\ Undoing \in Nat
         /\ \A q \in recorded : q \in Nat /\ q =< Undoing
<1>1. recorded \in SUBSET Nat /\ recorded \subseteq target /\ target \subseteq Paths
  BY PathsAssumption DEF TypeOK
<1>2. IsFiniteSet(recorded)
  BY <1>1, PathsAssumption, FS_Subset
<1>3. Undoing \in recorded /\ \A q \in recorded : Undoing >= q
  BY <1>1, <1>2, MaxIsGreatest DEF Undoing
<1> QED BY <1>1, <1>3

-----------------------------------------------------------------------------
(* The types.                                                              *)

Registries == [Roots -> UNION {{Old(r), New(r), Part} : r \in Roots}]

LEMMA TypeInit == Init => TypeOK
<1> SUFFICES ASSUME Init
             PROVE  TypeOK
  OBVIOUS
<1>1. disk \in [Locations -> Contents]
  BY DEF Init, Contents
<1>2. captured \in [Locations -> Contents] /\ capturedRoots \subseteq Roots /\ kept \in [Paths -> Contents]
  BY DEF Init, Contents
<1>3. registry \in [Roots -> UNION {{Old(r), New(r), Part} : r \in Roots}]
  BY DEF Init
<1>4. faults \in 0..MaxFaults
  BY FaultsAssumption DEF Init
<1> QED BY <1>1, <1>2, <1>3, <1>4 DEF Init, TypeOK

LEMMA TypeStep ==
  ASSUME TypeOK, PhaseOK, [Next]_vars
  PROVE  TypeOK'
<1> USE DEF TypeOK
<1>0. UNCHANGED <<target, targetRoots, excluded, before>>
  BY Fixed
<1>1. faults' \in 0..MaxFaults
  BY FaultsAssumption, ChangingStep, PreparingStep DEF Next, Changing, Preparing, StageFile, StageFails,
     LoadRegistry, Preserve, Activate, AllActivated, ApplyRoot, RegistryApplied, RevertRegistry,
     RestorePrevious, RemoveRestored, PutBack, Undone, Tidy, Unstage, Stop, Fault, NoFault, vars
<1>2. /\ pc' \in {"start", "capture", "locate", "stage", "activate", "apply", "revert", "previous",
                  "undo", "tidy", "unstage", "returned", "stopped"}
      /\ result' \in {"none", "restored", "failed"}
  BY ChangingStep, PreparingStep DEF Next, Changing, Preparing, StageFile, StageFails, LoadRegistry,
     Preserve, Activate, AllActivated, ApplyRoot, RegistryApplied, RevertRegistry, RestorePrevious,
     RemoveRestored, PutBack, Undone, Tidy, Unstage, Stop, Fail, Goto, Unchanged, vars
<1>13. CASE Changing
  <2>1. enabled' \subseteq Paths /\ enabledRoots' \subseteq Roots /\ touched' \subseteq Paths \cup Roots
    <3>1. CASE \E p \in Paths : ChangePath(p)
      BY <3>1 DEF ChangePath, Touch, Toggled
    <3>2. CASE \E r \in Roots : ChangeRoot(r)
      BY <3>2 DEF ChangeRoot, Touch, Toggled
    <3> QED BY <1>13, <3>1, <3>2 DEF Changing
  <2> QED BY <1>13, <2>1, ChangingStep
<1>14. CASE ValidateScope \/ Locate
  <2>1. UNCHANGED <<captured, capturedRoots>>
    BY <1>14 DEF ValidateScope, Locate, Unchanged, captureVars
  <2> QED BY <1>1, <1>2, <1>14, <2>1, PreparingStep DEF Preparing
<1>3. CASE CreateRollback
  <2>1. captured' \in [Locations -> Contents] /\ capturedRoots' \subseteq Roots
    BY <1>3 DEF CreateRollback, Contents, captureVars
  <2> QED BY <1>1, <1>2, <1>3, <2>1, PreparingStep DEF Preparing
<1>4. CASE StageFile
  BY <1>0, <1>1, <1>2, <1>4, LeastUnstaged DEF StageFile, Unchanged, libraryVars, captureVars, processVars
<1>5. CASE StageFails \/ LoadRegistry \/ AllActivated \/ RegistryApplied \/ Undone \/ Stop
  BY <1>0, <1>1, <1>2, <1>5 DEF StageFails, LoadRegistry, AllActivated, RegistryApplied, Undone, Stop,
     Unchanged, libraryVars, captureVars, machineVars, processVars
<1>6. CASE Preserve
  <2>1. Min(Pending) \in target /\ Min(Pending) \in Paths /\ Destination(Min(Pending)) \in Locations
    BY <1>6, LeastPending, DestinationIn DEF Preserve, PhaseOK, Placing
  <2>2. None \in Contents
    BY DEF Contents
  <2> QED BY <1>0, <1>1, <1>2, <1>6, <2>1, <2>2 DEF Preserve, Unchanged, libraryVars, captureVars
<1>7. CASE Activate
  <2>1. Min(Pending) \in target /\ Min(Pending) \in Paths
    BY <1>7, LeastPending DEF Activate
  <2>2. New(Resolved[Min(Pending)]) \in Contents
    BY <2>1 DEF Contents, Locations
  <2> QED BY <1>0, <1>1, <1>2, <1>7, <2>1, <2>2 DEF Activate, Unchanged, libraryVars, captureVars
<1>8. CASE \E r \in Roots : ApplyRoot(r)
  <2>1. PICK r \in Roots : ApplyRoot(r)
    BY <1>8
  <2>2. registry' \in Registries
    BY <2>1 DEF ApplyRoot, Registries
  <2> QED BY <1>0, <1>1, <1>2, <2>1, <2>2 DEF ApplyRoot, Unchanged, libraryVars, captureVars, Registries
<1>9. CASE RevertRegistry \/ RestorePrevious
  <2>1. registry' \in Registries
    BY <1>9 DEF RevertRegistry, RestorePrevious, GiveBack, HalfGivenBack, Registries
  <2> QED BY <1>0, <1>1, <1>2, <1>9, <2>1
          DEF RevertRegistry, RestorePrevious, Unchanged, libraryVars, captureVars, processVars, Registries
<1>10. CASE RemoveRestored \/ PutBack
  <2>1. None \in Contents /\ Undoing \in Paths
    BY <1>10, LastRecorded DEF Contents, RemoveRestored, PutBack
  <2> QED BY <1>0, <1>1, <1>2, <1>10, <2>1 DEF RemoveRestored, PutBack, Unchanged, libraryVars, captureVars
<1>11. CASE Tidy \/ Unstage
  <2>1. None \in Contents
    BY DEF Contents
  <2> QED BY <1>0, <1>1, <1>2, <1>11, <2>1 DEF Tidy, Unstage, Unchanged, libraryVars, captureVars, processVars
<1>12. CASE UNCHANGED vars
  BY <1>12 DEF vars, taskVars, libraryVars, captureVars, machineVars, processVars
<1> QED BY <1>3, <1>4, <1>5, <1>6, <1>7, <1>8, <1>9, <1>10, <1>11, <1>12, <1>13, <1>14
   DEF Next, Changing, Preparing

-----------------------------------------------------------------------------
(* Where a restore is, and what it leaves when nothing fails.              *)

LEMMA RestoreInit == Init => PhaseOK /\ CleanOK /\ SafeOK /\ RegistryOK /\ CapturedOK
<1> SUFFICES ASSUME Init
             PROVE  PhaseOK /\ CleanOK /\ SafeOK /\ RegistryOK /\ CapturedOK
  OBVIOUS
<1>1. PhaseOK
  BY DEF Init, PhaseOK, Placing, Early
<1>2. CleanOK
  BY DEF Init, CleanOK
<1>3. SafeOK
  BY DEF Init, SafeOK, Safe
<1>4. CapturedOK
  BY DEF Init, CapturedOK, ReplacedWasCaptured, Placing
<1>5. RegistryOK
  BY DEF Init, RegistryOK
<1> QED BY <1>1, <1>2, <1>3, <1>4, <1>5

LEMMA PhaseStep ==
  ASSUME TypeOK, PhaseOK, [Next]_vars
  PROVE  PhaseOK'
<1> USE DEF PhaseOK, Placing, Early
<1>0. /\ UNCHANGED <<target, targetRoots, excluded, before>>
      /\ pc = "locate" \/ \A p : Configured(p)' <=> Configured(p)
  BY Fixed
<1>1. CASE Changing
  BY <1>1, ChangingStep, <1>0
<1>16. CASE Preparing
  BY <1>16, PreparingStep, <1>0
<1>2. CASE StageFile
  <2>1. Configured(Min(Unstaged))
    BY <1>2 DEF StageFile, Configured
  <2> QED BY <1>0, <1>2, <2>1 DEF StageFile, Unchanged, processVars, NoFault
<1>3. CASE StageFails
  BY <1>0, <1>3 DEF StageFails, Unchanged, machineVars, processVars, NoFault, Fault, Fail, Goto
<1>4. CASE LoadRegistry
  <2>1. target \subseteq temps
    BY <1>4 DEF LoadRegistry, Unstaged
  <2> QED BY <1>0, <1>4, <2>1 DEF TypeOK, LoadRegistry, Unchanged, machineVars, processVars, NoFault, Fault,
      Fail, Goto
<1>5. CASE Preserve
  <2>1. faults + 1 > 0
    BY FaultsAssumption DEF TypeOK
  <2>2. recorded' = recorded => kept' = kept
    BY <1>5, LeastPending DEF Preserve
  <2>3. \A p \in Paths \ recorded' : kept'[p] = kept[p]
    BY <1>5 DEF Preserve, TypeOK
  <2> QED BY <1>0, <1>5, <2>1, <2>2, <2>3 DEF TypeOK, Preserve, Unchanged, NoFault, Fault, Goto
<1>6. CASE Activate
  <2>1. faults + 1 > 0
    BY FaultsAssumption DEF TypeOK
  <2> QED BY <1>0, <1>6, <2>1 DEF TypeOK, Activate, Unchanged, NoFault, Fault, Goto
<1>7. CASE AllActivated
  <2>1. activated = target
    BY <1>7 DEF AllActivated, Pending, TypeOK
  <2> QED BY <1>0, <1>7, <2>1 DEF TypeOK, AllActivated, Unchanged, machineVars, processVars, NoFault, Goto
<1>8. CASE \E r \in Roots : ApplyRoot(r)
  <2>1. faults + 1 > 0
    BY FaultsAssumption DEF TypeOK
  <2> QED BY <1>0, <1>8, <2>1 DEF TypeOK, ApplyRoot, Unchanged, NoFault, Fault, Goto
<1>9. CASE RegistryApplied
  BY <1>0, <1>9 DEF RegistryApplied, Unchanged, machineVars, processVars, NoFault, Goto
<1>10. CASE RevertRegistry \/ RestorePrevious
  <2>1. faults' > 0
    BY <1>10 DEF RevertRegistry, RestorePrevious, NoFault, Fault, TypeOK
  <2> QED BY <1>0, <1>10, <2>1 DEF TypeOK, RevertRegistry, RestorePrevious, Unchanged, processVars, Goto
<1>11. CASE RemoveRestored \/ PutBack
  <2>1. faults' > 0
    BY <1>11 DEF RemoveRestored, PutBack, NoFault, Fault, TypeOK
  <2> QED BY <1>0, <1>11, <2>1 DEF RemoveRestored, PutBack, Unchanged
<1>12. CASE Undone
  BY <1>0, <1>12 DEF Undone, Unchanged, machineVars, processVars, NoFault, Fail, Goto
<1>13. CASE Tidy \/ Unstage
  BY <1>0, <1>13 DEF Tidy, Unstage, Unchanged, processVars, Goto
<1>14. CASE Stop
  BY <1>0, <1>14 DEF Stop, Unchanged, machineVars, processVars, NoFault, Goto
<1>15. CASE UNCHANGED vars
  BY <1>0, <1>15 DEF vars, taskVars, captureVars, machineVars, processVars
<1> QED BY <1>1, <1>2, <1>3, <1>4, <1>5, <1>6, <1>7, <1>8, <1>9, <1>10, <1>11, <1>12, <1>13, <1>14, <1>15,
    <1>16
   DEF Next, Changing, Preparing

LEMMA CleanStep ==
  ASSUME TypeOK, PhaseOK, CleanOK, [Next]_vars
  PROVE  CleanOK'
<1> SUFFICES ASSUME faults' = 0
             PROVE  /\ pc' \in {"unstage", "returned"} => \A p \in Paths : kept'[p] = None
                    /\ pc' = "returned" => temps' = {}
  BY DEF CleanOK
<1>1. CASE StageFails \/ LoadRegistry
  BY <1>1 DEF StageFails, LoadRegistry, PhaseOK, Unchanged, machineVars, Fail, Goto
<1>8. CASE Changing
  BY <1>8, ChangingStep DEF CleanOK
<1>9. CASE Preparing
  BY <1>9, PreparingStep DEF PhaseOK, Early
<1>2. CASE StageFile \/ AllActivated \/ RegistryApplied \/ (\E r \in Roots : ApplyRoot(r))
           \/ RevertRegistry \/ RestorePrevious \/ RemoveRestored \/ PutBack \/ Stop
  BY <1>2 DEF StageFile, AllActivated, RegistryApplied, ApplyRoot, RevertRegistry, RestorePrevious,
     RemoveRestored, PutBack, Stop, Unchanged, Goto
<1>3. CASE Preserve \/ Activate
  BY <1>3 DEF Preserve, Activate, Goto
<1>4. CASE Undone
  BY <1>4 DEF Undone, PhaseOK, NoFault, TypeOK
<1>5. CASE Tidy
  <2>1. faults' = faults \/ faults' = faults + 1
    BY <1>5 DEF Tidy, NoFault, Fault
  <2>2. faults' = faults
    BY <2>1, FaultsAssumption DEF TypeOK
  <2>3. ~Fault
    BY <2>2, FaultsAssumption DEF Fault, TypeOK
  <2> QED BY <1>5, <2>3 DEF Tidy, Goto
<1>6. CASE Unstage
  <2>1. ~Fault
    BY FaultsAssumption DEF Fault, TypeOK
  <2> QED BY <1>6, <2>1 DEF Unstage, CleanOK, NoFault, Goto, Unchanged
<1>7. CASE UNCHANGED vars
  BY <1>7 DEF vars, machineVars, CleanOK
<1> QED BY <1>1, <1>2, <1>3, <1>4, <1>5, <1>6, <1>7, <1>8, <1>9 DEF Next, Changing, Preparing

-----------------------------------------------------------------------------
(* The previous files.                                                     *)

LEMMA OrderStep ==
  ASSUME TypeOK, SafeOK, [Next]_vars
  PROVE  \A q \in recorded', r \in target \ recorded' : q < r
<1>1. target \subseteq Nat /\ recorded \subseteq target /\ activated \subseteq recorded
  BY PathsAssumption DEF TypeOK
<1>2. \A q \in recorded, r \in target \ recorded : q < r
  BY DEF SafeOK
<1>3. CASE recorded' = recorded
  BY <1>2, <1>3
<1>4. CASE Preserve
  <2>1. Min(Pending) \in target \ activated /\ \A r \in target \ activated : Min(Pending) =< r
    BY <1>4, LeastPending DEF Preserve
  <2>2. recorded' = recorded \/ recorded' = recorded \cup {Min(Pending)}
    BY <1>4 DEF Preserve
  <2>3. ASSUME NEW r \in target \ (recorded \cup {Min(Pending)})
        PROVE  Min(Pending) < r
    <3>1. PICK m \in Nat : m = Min(Pending)
      BY <1>1, <2>1
    <3>2. m =< r /\ m # r /\ r \in Nat
      BY <1>1, <2>1, <2>3, <3>1
    <3>3. m < r
      BY <3>2
    <3> QED BY <3>1, <3>3
  <2> QED BY <1>2, <2>2, <2>3
<1>5. CASE PutBack
  <2>1. Undoing \in recorded /\ \A q \in recorded : q =< Undoing
    BY <1>5, LastRecorded DEF PutBack
  <2>2. recorded' = recorded \ {Undoing}
    BY <1>5 DEF PutBack
  <2>3. \A q \in recorded \ {Undoing} : q < Undoing
    BY <1>1, <2>1
  <2> QED BY <1>2, <2>2, <2>3
<1>6. CASE UNCHANGED vars
  BY <1>3, <1>6 DEF vars, processVars
<1>7. ASSUME Next, ~Preserve, ~PutBack
      PROVE  recorded' = recorded
  BY <1>7, ChangingStep, PreparingStep DEF Next, Changing, Preparing, StageFile, StageFails, LoadRegistry,
     Activate, AllActivated, ApplyRoot, RegistryApplied, RevertRegistry, RestorePrevious, RemoveRestored,
     Undone, Tidy, Unstage, Stop, Unchanged, processVars
<1> QED BY <1>3, <1>4, <1>5, <1>6, <1>7

LEMMA SafeStep ==
  ASSUME TypeOK, PhaseOK, SafeOK, [Next]_vars
  PROVE  SafeOK'
<1>10. SUFFICES ASSUME pc # "locate"
                PROVE  SafeOK'
  BY LocateStep, OrderStep DEF SafeOK, Safe
<1>0. /\ UNCHANGED <<target, before>>
      /\ \A p : Destination(p)' = Destination(p)
  BY <1>10, Fixed
<1>1. SUFFICES ASSUME result' # "restored", NEW l \in Locations, before[l] # None
               PROVE  \/ disk'[l] = before[l] /\ \A p \in recorded' : Destination(p) # l
                      \/ \E p \in recorded' : /\ \A q \in recorded' : Destination(q) = Destination(p) => p =< q
                                              /\ Destination(p) = l /\ kept'[p] = before[l]
                      \/ \E p \in Paths \ recorded' : kept'[p] = before[l]
  BY <1>0, OrderStep DEF SafeOK, Safe, First
<1>2. result # "restored"
  BY <1>1, ChangingStep, PreparingStep DEF Next, Changing, Preparing, StageFile, StageFails, LoadRegistry,
     Preserve, Activate, AllActivated, ApplyRoot, RegistryApplied, RevertRegistry, RestorePrevious,
     RemoveRestored, PutBack, Undone, Tidy, Unstage, Stop, Unchanged, Fail, PhaseOK, vars
<1>3. Safe(l)
  BY <1>1, <1>2 DEF SafeOK
<1>4. recorded \subseteq target /\ target \subseteq Paths /\ target \subseteq Nat
  BY PathsAssumption DEF TypeOK
<1>5. CASE UNCHANGED <<disk, kept, recorded>>
  BY <1>3, <1>5 DEF Safe, First
<1>6. CASE Preserve
  <2>1. SUFFICES ASSUME NEW p \in target \ recorded, NEW d, p = Min(Pending), d = Destination(p),
                        kept' = [kept EXCEPT ![p] = disk[d]],
                        disk' = [disk EXCEPT ![d] = None],
                        recorded' = recorded \cup {p}
                 PROVE  \/ disk'[l] = before[l] /\ \A q \in recorded' : Destination(q) # l
                        \/ \E r \in recorded' : /\ \A q \in recorded' : Destination(q) = Destination(r) => r =< q
                                                /\ Destination(r) = l /\ kept'[r] = before[l]
    BY <1>5, <1>6, LeastPending DEF Preserve
  <2>2. \A q \in Paths \ recorded : kept[q] = None
    BY <1>6 DEF Preserve, PhaseOK
  <2>3. \A q \in recorded : q < p /\ kept'[q] = kept[q]
    BY <2>1 DEF SafeOK, TypeOK
  <2>4. p =< p
    BY <1>4
  <2>5. CASE \E r \in recorded : First(r) /\ Destination(r) = l /\ kept[r] = before[l]
    <3>1. PICK r \in recorded : First(r) /\ Destination(r) = l /\ kept[r] = before[l]
      BY <2>5
    <3>2. r < p /\ r \in Nat /\ p \in Nat
      BY <1>4, <2>1, <2>3, <3>1
    <3>3. r =< p
      BY <3>2
    <3>4. \A q \in recorded' : Destination(q) = Destination(r) => r =< q
      BY <2>1, <3>1, <3>3, Zenon DEF First
    <3> QED BY <2>1, <2>3, <3>1, <3>4
  <2>6. CASE disk[l] = before[l] /\ \A q \in recorded : Destination(q) # l
    <3>1. CASE d = l
      <4>1. kept'[p] = before[l]
        BY <1>4, <2>1, <2>6, <3>1 DEF TypeOK
      <4>2. \A q \in recorded' : Destination(q) = Destination(p) => p =< q
        BY <2>1, <2>4, <2>6, <3>1
      <4> QED BY <2>1, <3>1, <4>1, <4>2
    <3>2. CASE d # l
      <4>1. disk'[l] = disk[l]
        BY <2>1, <3>2 DEF TypeOK
      <4> QED BY <2>1, <2>6, <3>2, <4>1
    <3> QED BY <3>1, <3>2
  <2> QED BY <1>1, <1>3, <2>2, <2>5, <2>6 DEF Safe
<1>7. CASE Activate \/ RemoveRestored
  <2>1. PICK p \in recorded : disk'[l] = disk[l] \/ l = Destination(p)
    <3>1. CASE Activate
      BY <3>1 DEF Activate, TypeOK
    <3>2. CASE RemoveRestored
      BY <3>2, LastRecorded DEF RemoveRestored, TypeOK
    <3> QED BY <1>7, <3>1, <3>2
  <2>2. kept' = kept /\ recorded' = recorded
    BY <1>7 DEF Activate, RemoveRestored, Unchanged
  <2> QED BY <1>3, <2>1, <2>2 DEF Safe, First
<1>8. CASE PutBack
  <2>1. PICK p : /\ p \in recorded /\ p = Undoing /\ \A q \in recorded : q =< p
                 /\ recorded' = recorded \ {p}
                 /\ \/ /\ disk' = [disk EXCEPT ![Destination(p)] = kept[p]]
                       /\ kept' = [kept EXCEPT ![p] = None]
                       /\ kept[p] # None
                    \/ UNCHANGED <<disk, kept>>
    BY <1>8, LastRecorded DEF PutBack
  <2>2. \A q \in Paths \ {p} : kept'[q] = kept[q]
    BY <2>1 DEF TypeOK
  <2>3. CASE disk[l] = before[l] /\ \A q \in recorded : Destination(q) # l
    BY <2>1, <2>3 DEF TypeOK
  <2>4. CASE \E r \in Paths \ recorded : kept[r] = before[l]
    BY <2>1, <2>2, <2>4
  <2>5. ASSUME NEW r \in recorded, First(r), Destination(r) = l, kept[r] = before[l]
        PROVE  \/ disk'[l] = before[l] /\ \A q \in recorded' : Destination(q) # l
               \/ \E q \in recorded' : /\ \A s \in recorded' : Destination(s) = Destination(q) => q =< s
                                       /\ Destination(q) = l /\ kept'[q] = before[l]
               \/ \E q \in Paths \ recorded' : kept'[q] = before[l]
    <3>1. CASE r # p
      BY <1>4, <2>1, <2>2, <2>5, <3>1 DEF First
    <3>2. CASE r = p
      <4>1. ASSUME NEW q \in recorded', Destination(q) = l
            PROVE  FALSE
        <5>1. q \in recorded /\ q # p
          BY <2>1, <4>1
        <5>2. p =< q /\ q =< p /\ p \in Nat /\ q \in Nat
          BY <1>4, <2>1, <2>5, <3>2, <4>1, <5>1 DEF First
        <5> QED BY <5>1, <5>2
      <4>2. CASE disk' = [disk EXCEPT ![Destination(p)] = kept[p]]
        <5>1. disk'[l] = before[l]
          BY <2>5, <3>2, <4>2 DEF TypeOK
        <5> QED BY <4>1, <5>1
      <4>3. CASE UNCHANGED <<disk, kept>>
        <5>1. p \in Paths \ recorded' /\ kept'[p] = before[l]
          BY <1>4, <2>1, <2>5, <3>2, <4>3
        <5> QED BY <5>1
      <4> QED BY <2>1, <4>2, <4>3
    <3> QED BY <3>1, <3>2
  <2> QED BY <1>3, <2>3, <2>4, <2>5 DEF Safe
<1>9. ASSUME Next, ~Preserve, ~Activate, ~RemoveRestored, ~PutBack
      PROVE  UNCHANGED <<disk, kept, recorded>>
  <2>1. ~Tidy
    BY <1>1, <1>2 DEF Tidy, PhaseOK
  <2> QED BY <1>9, <2>1, ChangingStep, PreparingStep DEF Next, Changing, Preparing, StageFile, StageFails,
      LoadRegistry, AllActivated, ApplyRoot, RegistryApplied, RevertRegistry, RestorePrevious, Undone,
      Unstage, Stop, Unchanged, processVars, machineVars
<1> QED BY <1>5, <1>6, <1>7, <1>8, <1>9 DEF vars, machineVars, processVars

-----------------------------------------------------------------------------
(* The pre-restore snapshot.                                               *)

\* Only files that the paths of the snapshot lead to are touched.
LEMMA DiskStep ==
  ASSUME TypeOK, PhaseOK, [Next]_vars, NEW l \in Locations, disk'[l] # disk[l]
  PROVE  pc \in Placing /\ \E p \in target : Configured(p) /\ l = Destination(p)
<1>1. CASE Preserve
  <2>1. Min(Pending) \in target /\ pc = "activate"
    BY <1>1, LeastPending DEF Preserve
  <2> QED BY <1>1, <2>1 DEF Preserve, TypeOK, PhaseOK, Placing
<1>2. CASE Activate
  <2>1. Min(Pending) \in target /\ pc = "activate"
    BY <1>2, LeastPending DEF Activate
  <2> QED BY <1>2, <2>1 DEF Activate, TypeOK, PhaseOK, Placing
<1>3. CASE RemoveRestored \/ PutBack
  <2>1. Undoing \in target /\ pc = "undo"
    BY <1>3, LastRecorded DEF RemoveRestored, PutBack
  <2> QED BY <1>3, <2>1 DEF RemoveRestored, PutBack, TypeOK, PhaseOK, Placing
<1>4. ASSUME Next, ~Preserve, ~Activate, ~RemoveRestored, ~PutBack
      PROVE  UNCHANGED disk
  BY <1>4, ChangingStep, PreparingStep DEF Next, Changing, Preparing, StageFile, StageFails, LoadRegistry,
     AllActivated, ApplyRoot, RegistryApplied, RevertRegistry, RestorePrevious, Undone, Tidy, Unstage,
     Stop, Unchanged, machineVars
<1>5. CASE UNCHANGED vars
  BY <1>5 DEF vars, machineVars
<1> QED BY <1>1, <1>2, <1>3, <1>4, <1>5

LEMMA RegistryStep ==
  ASSUME TypeOK, PhaseOK, RegistryOK, [Next]_vars
  PROVE  RegistryOK'
<1> USE DEF Early
<1>0. UNCHANGED targetRoots
  BY Fixed
<1>7. Next /\ ~Changing /\ ~Preparing => UNCHANGED capturedRoots
  BY DEF Next, Changing, Preparing, StageFile, StageFails, LoadRegistry, Preserve, Activate, AllActivated,
     ApplyRoot, RegistryApplied, RevertRegistry, RestorePrevious, RemoveRestored, PutBack, Undone, Tidy,
     Unstage, Stop, Unchanged, captureVars
<1>1. DOMAIN registry = Roots /\ faults \in Nat
  BY FaultsAssumption DEF TypeOK
<1>2. CASE \E r \in Roots : ApplyRoot(r)
  <2>1. PICK r \in Roots : ApplyRoot(r)
    BY <1>2
  <2>2. r \in targetRoots /\ applied \subseteq targetRoots
    BY <2>1 DEF ApplyRoot, TypeOK
  <2>3. registry = [q \in Roots |-> IF q \in applied THEN New(q) ELSE Old(q)]
    BY <2>1 DEF ApplyRoot, RegistryOK
  <2>4. \A q \in Roots : q # r => registry'[q] = registry[q]
    <3>1. registry' \in {registry, [registry EXCEPT ![r] = New(r)], [registry EXCEPT ![r] = Part]}
      BY <2>1 DEF ApplyRoot
    <3> QED BY <1>1, <3>1
  <2>5. CASE registry' = [registry EXCEPT ![r] = New(r)] /\ applied' = applied \cup {r} /\ pc' = pc
    <3>1. registry' = [q \in Roots |-> IF q \in applied' THEN New(q) ELSE Old(q)]
      BY <2>3, <2>5
    <3>2. \A q \in Roots : q \in applied' => q \in targetRoots
      BY <2>1, <2>2, <2>5 DEF ApplyRoot
    <3>3. pc = "apply"
      BY <2>1 DEF ApplyRoot
    <3> QED BY <1>0, <2>5, <3>1, <3>2, <3>3 DEF RegistryOK
  <2>6. CASE pc' = "revert" /\ registry' \in {registry, [registry EXCEPT ![r] = Part]}
    <3>1. registry'[r] \in {registry[r], Part}
      BY <2>6, <1>1
    <3>2. \A q \in Roots : registry[q] # Old(q) => q \in targetRoots
      BY <2>2, <2>3
    <3> QED BY <1>0, <2>2, <2>4, <2>6, <3>1, <3>2 DEF RegistryOK
  <2> QED BY <2>1, <2>5, <2>6 DEF ApplyRoot, Goto
<1>3. CASE RevertRegistry
  <2>1. CASE GiveBack(targetRoots) /\ NoFault
    <3>1. registry' = [r \in Roots |-> Old(r)]
      BY <1>3, <2>1 DEF GiveBack, RevertRegistry, RegistryOK
    <3> QED BY <1>0, <1>3, <3>1 DEF RevertRegistry, Goto, RegistryOK
  <2>2. CASE HalfGivenBack(targetRoots) /\ Fault
    <3>1. faults' > 1
      BY <1>1, <1>3, <2>2 DEF Fault, RevertRegistry, PhaseOK
    <3>2. \A r \in Roots : registry'[r] \in {registry[r], Old(r)} \/ (registry'[r] = Part /\ r \in targetRoots)
      BY <2>2 DEF HalfGivenBack
    <3>3. UNCHANGED capturedRoots
      BY <1>3 DEF RevertRegistry, Unchanged, captureVars
    <3>4. /\ ~(pc' \in {"start", "capture", "locate", "stage", "activate", "apply"})
          /\ ~(pc' \in {"previous", "undo"} /\ faults' =< 1)
          /\ pc' # "revert"
      BY <1>1, <1>3, <2>2 DEF Fault, RevertRegistry, PhaseOK, Goto
    <3>5. \A r \in Roots : /\ registry'[r] \in {Old(r), Part} \/ (registry'[r] = New(r) /\ r \in targetRoots)
                           /\ registry'[r] # Old(r) => r \in targetRoots \cup capturedRoots'
      BY <3>2, <3>3 DEF RegistryOK
    <3> QED BY <1>0, <3>4, <3>5 DEF RegistryOK
  <2> QED BY <1>3, <2>1, <2>2 DEF RevertRegistry
<1>4. CASE RestorePrevious
  <2>1. /\ pc' = "undo"
        /\ faults' =< 1 => faults =< 1 /\ (GiveBack(capturedRoots) \/ UNCHANGED registry)
    BY <1>1, <1>4 DEF RestorePrevious, PhaseOK, NoFault, Fault, Goto
  <2>2. faults' =< 1 => registry' = [r \in Roots |-> Old(r)]
    BY <1>4, <2>1 DEF GiveBack, RestorePrevious, RegistryOK
  <2>3. \A r \in Roots : registry'[r] \in {registry[r], Old(r)} \/ (registry'[r] = Part /\ r \in capturedRoots)
    BY <1>4 DEF RestorePrevious, GiveBack, HalfGivenBack
  <2>4. \A r \in Roots : /\ registry'[r] \in {Old(r), Part} \/ (registry'[r] = New(r) /\ r \in targetRoots)
                         /\ registry'[r] # Old(r) => r \in targetRoots \cup capturedRoots'
    BY <1>4, <2>3 DEF RegistryOK, RestorePrevious, Unchanged, captureVars
  <2> QED BY <1>0, <2>1, <2>2, <2>4 DEF RegistryOK
<1>8. CASE Preparing
  <2>1. registry' = registry /\ applied' = applied /\ pc \in Early /\ applied = {}
    BY <1>8, PreparingStep DEF PhaseOK
  <2>2. registry = [r \in Roots |-> Old(r)]
    BY <2>1 DEF RegistryOK
  <2>3. pc' \notin {"previous", "undo", "revert"}
    BY <1>8, PreparingStep
  <2> QED BY <2>1, <2>2, <2>3 DEF RegistryOK
<1>9. CASE Changing
  BY <1>0, <1>9, ChangingStep DEF RegistryOK
<1>5. CASE /\ Next /\ ~Changing /\ ~Preparing
           /\ ~(\E r \in Roots : ApplyRoot(r)) /\ ~RevertRegistry /\ ~RestorePrevious
  <2>1. registry' = registry /\ applied' = applied
    BY <1>5, ChangingStep, PreparingStep DEF Next, Changing, Preparing, StageFile, StageFails,
       LoadRegistry, Preserve, Activate, AllActivated, RegistryApplied, RemoveRestored, PutBack, Undone,
       Tidy, Unstage, Stop, Unchanged, machineVars, processVars
  <2>2. /\ pc' \in Early \cup {"stage", "activate", "apply"} => pc \in Early \cup {"stage", "activate", "apply"}
        /\ pc' # "revert" \/ pc = "revert"
        /\ pc' \in {"previous", "undo"} => pc \in {"activate", "previous", "undo"}
        /\ faults' =< 1 => faults =< 1
    BY <1>1, <1>5, ChangingStep, PreparingStep DEF Next, Changing, Preparing, StageFile, StageFails,
       LoadRegistry, Preserve, Activate, AllActivated, RegistryApplied, RemoveRestored, PutBack, Undone,
       Tidy, Unstage, Stop, Unchanged, Goto, Fail, Fault, NoFault
  <2>3. pc = "activate" => registry = [r \in Roots |-> Old(r)]
    BY DEF PhaseOK, RegistryOK
  <2> QED BY <1>0, <1>5, <1>7, <2>1, <2>2, <2>3 DEF RegistryOK
<1>6. CASE UNCHANGED vars
  BY <1>0, <1>6 DEF vars, machineVars, captureVars, processVars, RegistryOK
<1> QED BY <1>2, <1>3, <1>4, <1>5, <1>6, <1>8, <1>9

\* The registry is written only once everything has been captured.
LEMMA RootStep ==
  ASSUME [Next]_vars, registry' # registry
  PROVE  pc \in Placing /\ UNCHANGED <<captured, capturedRoots, enabled, touched>>
<1>1. CASE (\E r \in Roots : ApplyRoot(r)) \/ RevertRegistry \/ RestorePrevious
  BY <1>1 DEF ApplyRoot, RevertRegistry, RestorePrevious, Placing, Unchanged, libraryVars, captureVars
<1>2. CASE Next /\ ~(\E r \in Roots : ApplyRoot(r)) /\ ~RevertRegistry /\ ~RestorePrevious
  BY <1>2, ChangingStep, PreparingStep DEF Next, Changing, Preparing, StageFile, StageFails, LoadRegistry,
     Preserve, Activate, AllActivated, RegistryApplied, RemoveRestored, PutBack, Undone, Tidy, Unstage, Stop,
     Unchanged, machineVars
<1> QED BY <1>1, <1>2 DEF vars, machineVars

\* What the later steps rely on: it is established by the capture, and kept by
\* whoever changes the library.
LEMMA CoveredStep ==
  ASSUME TypeOK, PhaseOK, CapturedOK, [Next]_vars
  PROVE  /\ pc' = "capture" => targetRoots \subseteq enabledRoots' \cup touched'
         /\ pc' \in {"locate", "stage"} \cup Placing =>
              /\ targetRoots \subseteq capturedRoots' \cup touched'
              /\ \A p \in enabled' \ touched' :
                   captured'[Resolved[p]] = before[Resolved[p]] \/ Resolved[p] \in excluded
         /\ touched \subseteq touched'
         /\ pc \in {"locate", "stage"} \cup Placing => UNCHANGED <<captured, capturedRoots>>
<1> USE DEF Placing, CapturedOK
<1>1. CASE ValidateScope \/ Locate
  BY <1>1, PreparingStep DEF Preparing, ValidateScope, Locate
<1>2. CASE CreateRollback
  <2>1. disk = before /\ pc = "capture"
    BY <1>2 DEF CreateRollback, PhaseOK, Early
  <2>2. CASE pc' = "locate"
    <3>1. /\ captured' = [l \in Locations |->
                IF l \in {Resolved[p] : p \in enabled} \ excluded THEN disk[l] ELSE None]
          /\ capturedRoots' = enabledRoots
      BY <1>2, <2>2 DEF CreateRollback, Fail, Goto
    <3>2. \A p \in enabled : captured'[Resolved[p]] = before[Resolved[p]] \/ Resolved[p] \in excluded
      BY <2>1, <3>1 DEF TypeOK, Locations
    <3> QED BY <1>2, <2>1, <2>2, <3>1, <3>2, PreparingStep DEF Preparing
  <2> QED BY <1>2, <2>1, <2>2, PreparingStep DEF Preparing
<1>3. CASE \E p \in Paths : ChangePath(p)
  BY <1>3 DEF ChangePath, Touch, Toggled, taskVars, captureVars
<1>4. CASE \E r \in Roots : ChangeRoot(r)
  BY <1>4 DEF ChangeRoot, Touch, Toggled, taskVars, captureVars
<1>5. CASE Next /\ ~Changing /\ ~Preparing
  <2>1. UNCHANGED <<enabled, enabledRoots, touched, captured, capturedRoots>>
    BY <1>5 DEF Next, Changing, Preparing, StageFile, StageFails, LoadRegistry, Preserve, Activate,
       AllActivated, ApplyRoot, RegistryApplied, RevertRegistry, RestorePrevious, RemoveRestored, PutBack,
       Undone, Tidy, Unstage, Stop, Unchanged, libraryVars, captureVars
  <2>2. /\ pc' # "capture"
        /\ pc' \in {"locate", "stage"} \cup Placing => pc \in {"stage"} \cup Placing
    BY <1>5 DEF Next, Changing, Preparing, StageFile, StageFails, LoadRegistry, Preserve, Activate,
       AllActivated, ApplyRoot, RegistryApplied, RevertRegistry, RestorePrevious, RemoveRestored, PutBack,
       Undone, Tidy, Unstage, Stop, Unchanged, Goto, Fail
  <2> QED BY <2>1, <2>2
<1>6. CASE UNCHANGED vars
  BY <1>6 DEF vars, libraryVars, captureVars
<1> QED BY <1>1, <1>2, <1>3, <1>4, <1>5, <1>6 DEF Changing, Preparing

LEMMA CapturedStep ==
  ASSUME TypeOK, PhaseOK, RegistryOK, CapturedOK, RegistryOK', [Next]_vars
  PROVE  CapturedOK'
<1> USE DEF CapturedOK
<1>0. UNCHANGED <<target, targetRoots, excluded, before>>
  BY Fixed
<1>1. /\ touched \subseteq touched'
      /\ pc \in {"locate", "stage"} \cup Placing => UNCHANGED <<captured, capturedRoots>>
  BY CoveredStep
<1>2. ~(pc \in {"locate", "stage"} \cup Placing) =>
        UNCHANGED <<captured, capturedRoots>> \/ (pc \in Early /\ UNCHANGED <<disk, registry>>)
  BY ChangingStep, PreparingStep DEF Next, Changing, Preparing, StageFile, StageFails, LoadRegistry, Preserve,
     Activate, AllActivated, ApplyRoot, RegistryApplied, RevertRegistry, RestorePrevious, RemoveRestored,
     PutBack, Undone, Tidy, Unstage, Stop, Unchanged, captureVars, vars
<1>3. pc \in Early => disk = before /\ registry = [r \in Roots |-> Old(r)]
  BY DEF PhaseOK, RegistryOK, Early
<1>4. ASSUME NEW l \in Locations, disk'[l] # before[l], before[l] # None
      PROVE  captured'[l] = before[l] \/ l \in excluded \cup {Resolved[p] : p \in Paths \cap touched'}
  <2>1. CASE disk'[l] = disk[l]
    BY <1>1, <1>2, <1>3, <1>4, <2>1 DEF ReplacedWasCaptured
  <2>2. CASE disk'[l] # disk[l]
    <3>1. PICK p \in target : pc \in Placing /\ Configured(p) /\ l = Destination(p)
      BY <2>2, DiskStep
    <3>2. PICK q \in enabled : q \in Paths /\ l = Resolved[q]
      BY <3>1, DestinationIn DEF TypeOK
    <3> QED BY <1>1, <3>1, <3>2
  <2> QED BY <2>1, <2>2
<1>5. ASSUME NEW r \in Roots, registry'[r] # Old(r)
      PROVE  r \in capturedRoots' \cup touched'
  <2>1. CASE registry' = registry
    BY <1>1, <1>2, <1>3, <1>5, <2>1 DEF ReplacedWasCaptured
  <2>2. CASE registry' # registry
    <3>1. pc \in Placing /\ UNCHANGED <<capturedRoots, touched>>
      BY <2>2, RootStep
    <3>2. r \in targetRoots \cup capturedRoots
      BY <1>0, <1>5, <3>1 DEF RegistryOK
    <3> QED BY <3>1, <3>2
  <2> QED BY <2>1, <2>2
<1>6. ReplacedWasCaptured'
  BY <1>0, <1>4, <1>5 DEF ReplacedWasCaptured
<1> QED BY <1>0, <1>6, CoveredStep

LEMMA RestoreInvariant == Spec => []RestoreInv
<1>1. Init => RestoreInv
  BY TypeInit, RestoreInit DEF RestoreInv
<1>2. RestoreInv /\ [Next]_vars => RestoreInv'
  BY TypeStep, PhaseStep, CleanStep, SafeStep, RegistryStep, CapturedStep DEF RestoreInv
<1> QED BY <1>1, <1>2, PTL DEF Spec

-----------------------------------------------------------------------------
(* The theorems.                                                           *)

\* TypeOK: every variable of a restore keeps its type, for any finite set of save
\* paths; what it has renamed and activated is part of what it has staged for.
THEOREM TypeCorrect == Spec => []TypeOK
BY RestoreInvariant, PTL DEF RestoreInv

\* Until everything is in place, whatever fails and wherever the process is
\* stopped, each previous file is on the disk, under its name or as a backup
\* (activateRestoredFiles, rollbackRestoredFiles).
THEOREM OldOnDiskCorrect == Spec => []OldOnDisk
<1>1. RestoreInv => OldOnDisk
  BY DEF RestoreInv, TypeOK, SafeOK, Safe, OldOnDisk
<1> QED BY <1>1, RestoreInvariant, PTL

\* A restore replaces no file and no registry root that the pre-restore snapshot
\* has not captured, though the paths and keys of the game may change between the
\* reads, any number of times: the excluded files and what was changed meanwhile
\* are all that can be replaced uncaptured (createRollbackSnapshot,
\* stageRestoreFiles, restorePreviousRegistry).
THEOREM ReplacedWasCapturedCorrect == Spec => []ReplacedWasCaptured
<1>1. RestoreInv => ReplacedWasCaptured
  BY DEF RestoreInv, CapturedOK
<1> QED BY <1>1, RestoreInvariant, PTL

\* A restore in which no call fails leaves no file of its own behind.
THEOREM NothingLeftBehindCorrect == Spec => []NothingLeftBehind
<1>1. RestoreInv => NothingLeftBehind
  BY DEF RestoreInv, CleanOK, NothingLeftBehind
<1> QED BY <1>1, RestoreInvariant, PTL

-----------------------------------------------------------------------------
(* What a restore promises, where paths of one template lead to one file:  *)
(* each file is then restored to where it was captured.                    *)

LEMMA DestinationResolved ==
  ASSUME TemplatesApart, TypeOK, NEW p \in Paths, Configured(p)
  PROVE  Destination(p) = Resolved[p] /\ Resolved[p] \in Locations
<1>1. PICK q \in Paths : Template[q] = Template[p] /\ Destination(p) = Resolved[q]
  BY DestinationIn
<1> QED BY <1>1 DEF TemplatesApart, Locations

LEMMA PromiseInit == Init => PromiseInv
<1> SUFFICES ASSUME Init
             PROVE  PromiseInv
  OBVIOUS
<1>1. UndoOK /\ PlacedOK /\ UnchangedOK /\ DoneOK
  BY DEF Init, UndoOK, PlacedOK, UnchangedOK, DoneOK
<1>2. ValuesOK
  BY DEF Init, ValuesOK
<1> QED BY <1>1, <1>2 DEF Init, PromiseInv

\* The steps that move no file.
Moving == Preserve \/ Activate \/ RemoveRestored \/ PutBack

LEMMA StillStep ==
  ASSUME [Next]_vars, ~Moving
  PROVE  UNCHANGED <<disk, recorded, activated>> /\ (Tidy \/ UNCHANGED kept)
BY ChangingStep, PreparingStep DEF Next, Moving, Changing, Preparing, StageFile, StageFails, LoadRegistry,
   AllActivated, ApplyRoot, RegistryApplied, RevertRegistry, RestorePrevious, Undone, Tidy, Unstage, Stop,
   Unchanged, processVars, machineVars, vars

LEMMA UndoStep ==
  ASSUME RestoreInv, UndoOK, [Next]_vars
  PROVE  UndoOK'
<1> USE DEF RestoreInv
<1>14. SUFFICES ASSUME pc # "locate"
                PROVE  UndoOK'
  BY LocateStep DEF UndoOK
<1>0. UNCHANGED before /\ \A p : Destination(p)' = Destination(p)
  BY <1>14, Fixed
<1>1. recorded \subseteq target /\ target \subseteq Paths /\ target \subseteq Nat /\ activated \subseteq recorded
  BY PathsAssumption DEF TypeOK
<1>2. \A p \in recorded : p =< p
  BY <1>1
<1>3. \A p, q \in recorded : p =< q /\ q =< p => p = q
  BY <1>1
<1> DEFINE Back == pc \in {"activate", "apply", "revert", "previous"} \/ (pc = "undo" /\ faults =< 1)
<1>4. SUFFICES ASSUME Back'
               PROVE  /\ \A p \in recorded' : (\A q \in recorded' : Destination(q) = Destination(p) => p =< q)
                                               => kept'[p] = before[Destination(p)]
                      /\ \A l \in Locations : (\A p \in recorded' : Destination(p) # l) => disk'[l] = before[l]
                      /\ \A p \in recorded' \ activated' : /\ disk'[Destination(p)] = None
                                                           /\ \A q \in recorded' : q =< p
  BY <1>0 DEF UndoOK, First
<1>5. CASE LoadRegistry
  BY <1>5 DEF LoadRegistry, PhaseOK, TypeOK, Unchanged, machineVars, processVars
<1>6. ASSUME ~LoadRegistry
      PROVE  Back
  <2>1. pc = "undo" => faults \in Nat /\ faults > 0
    BY FaultsAssumption DEF TypeOK, PhaseOK
  <2> QED BY <1>4, <1>6, <2>1, ChangingStep, PreparingStep DEF Next, Changing, Preparing, StageFile,
      StageFails, Preserve, Activate, AllActivated, ApplyRoot, RegistryApplied, RevertRegistry,
      RestorePrevious, RemoveRestored, PutBack, Undone, Tidy, Unstage, Stop, Unchanged, Goto, Fail, NoFault,
      Fault, vars
<1>7. ASSUME Back
      PROVE  /\ \A p \in recorded : First(p) => kept[p] = before[Destination(p)]
             /\ \A l \in Locations : (\A p \in recorded : Destination(p) # l) => disk[l] = before[l]
             /\ \A p \in recorded \ activated : disk[Destination(p)] = None /\ \A q \in recorded : q =< p
  BY <1>7 DEF UndoOK
<1>8. CASE UNCHANGED <<disk, kept, recorded, activated>> /\ Back
  BY <1>7, <1>8 DEF First
<1>9. CASE Preserve /\ Back
  <2>1. Min(Pending) \in target /\ \A q \in target \ activated : Min(Pending) =< q
    BY <1>9, LeastPending DEF Preserve
  <2>2. SUFFICES ASSUME NEW p \in target \ recorded, NEW d, p = Min(Pending), d = Destination(p),
                        kept' = [kept EXCEPT ![p] = disk[d]],
                        disk' = [disk EXCEPT ![d] = None],
                        recorded' = recorded \cup {p}, activated' = activated
                 PROVE  /\ \A q \in recorded' : (\A r \in recorded' : Destination(r) = Destination(q) => q =< r)
                                               => kept'[q] = before[Destination(q)]
                        /\ \A l \in Locations : (\A q \in recorded' : Destination(q) # l) => disk'[l] = before[l]
                        /\ \A q \in recorded' \ activated' : /\ disk'[Destination(q)] = None
                                                             /\ \A r \in recorded' : r =< q
    BY <1>8, <1>9, <2>1 DEF Preserve, Unchanged
  <2>3. d \in Locations
    BY <1>1, <1>9, <2>2, DestinationIn DEF Preserve, PhaseOK, Placing
  <2>4. \A q \in recorded : q < p /\ q # p /\ ~(p =< q) /\ q =< p /\ kept'[q] = kept[q]
    <3>1. \A q \in recorded : q < p /\ kept'[q] = kept[q]
      BY <1>1, <2>2 DEF SafeOK, TypeOK
    <3>2. p \in Nat /\ recorded \subseteq Nat
      BY <1>1
    <3> QED BY <3>1, <3>2
  <2>5. recorded \subseteq activated
    <3>1. \A q \in target \ activated : p =< q
      BY <2>1, <2>2
    <3> QED BY <1>1, <2>4, <3>1, Zenon
  <2>6. p =< p
    BY <1>1
  <2>7. kept'[p] = disk[d] /\ disk'[d] = None
    BY <1>1, <2>2, <2>3 DEF TypeOK
  <2>8. \A l \in Locations : l # d => disk'[l] = disk[l]
    BY <2>2 DEF TypeOK
  <2>9. ASSUME NEW q \in recorded', \A r \in recorded' : Destination(r) = Destination(q) => q =< r
        PROVE  kept'[q] = before[Destination(q)]
    <3>1. CASE q = p
      <4>1. \A r \in recorded : Destination(r) # d
        BY <2>2, <2>4, <2>9, <3>1
      <4> QED BY <1>7, <1>9, <2>2, <2>3, <2>7, <3>1, <4>1
    <3>2. CASE q # p
      <4>1. q \in recorded /\ First(q)
        BY <2>2, <2>9, <3>2 DEF First
      <4> QED BY <1>7, <1>9, <2>4, <4>1
    <3> QED BY <3>1, <3>2
  <2>10. ASSUME NEW l \in Locations, \A q \in recorded' : Destination(q) # l
         PROVE  disk'[l] = before[l]
    BY <1>7, <1>9, <2>2, <2>8, <2>10
  <2>11. \A q \in recorded' \ activated' : disk'[Destination(q)] = None /\ \A r \in recorded' : r =< q
    BY <2>2, <2>4, <2>5, <2>6, <2>7
  <2> QED BY <2>9, <2>10, <2>11
<1>10. CASE Activate /\ Back
  <2>1. SUFFICES ASSUME NEW p \in recorded \ activated, disk' = [disk EXCEPT ![Destination(p)] = New(Resolved[p])],
                        kept' = kept, recorded' = recorded, activated' = activated \cup {p}
                 PROVE  /\ \A q \in recorded' : First(q) => kept'[q] = before[Destination(q)]
                        /\ \A l \in Locations : (\A q \in recorded' : Destination(q) # l) => disk'[l] = before[l]
                        /\ recorded' \ activated' = {}
    BY <1>8, <1>10, LeastPending DEF Activate, Unchanged, First
  <2>2. recorded \ activated = {p}
    BY <1>3, <1>7, <1>10, <2>1
  <2>3. \A l \in Locations : l # Destination(p) => disk'[l] = disk[l]
    BY <2>1 DEF TypeOK
  <2> QED BY <1>7, <1>10, <2>1, <2>2, <2>3
<1>11. CASE RemoveRestored /\ Back
  <2>1. ~Fault
    BY <1>4, <1>11, FaultsAssumption DEF RemoveRestored, Unchanged, Fault, TypeOK, PhaseOK
  <2>2. PICK p : /\ p = Undoing /\ p \in activated /\ \A q \in recorded : q =< p
                 /\ disk' = [disk EXCEPT ![Destination(p)] = None]
                 /\ kept' = kept /\ recorded' = recorded /\ activated' = activated \ {p}
    BY <1>11, <2>1, LastRecorded DEF RemoveRestored, Unchanged
  <2>3. Destination(p) \in Locations
    BY <1>1, <1>11, <2>2, DestinationIn DEF RemoveRestored, PhaseOK, Placing
  <2>4. ASSUME NEW q \in recorded \ activated
        PROVE  FALSE
    <3>1. p \in recorded /\ p =< q /\ q =< p
      BY <1>1, <1>7, <1>11, <2>2
    <3> QED BY <1>3, <2>2, <3>1
  <2>5. \A l \in Locations : l # Destination(p) => disk'[l] = disk[l]
    BY <2>2 DEF TypeOK
  <2>6. disk'[Destination(p)] = None
    BY <2>2, <2>3 DEF TypeOK
  <2> QED BY <1>1, <1>7, <1>11, <2>2, <2>4, <2>5, <2>6 DEF First
<1>12. CASE PutBack /\ Back
  <2>1. ~Fault
    BY <1>4, <1>12, FaultsAssumption DEF PutBack, Unchanged, Fault, TypeOK, PhaseOK
  <2>2. PICK p : /\ p = Undoing /\ p \in recorded /\ p \notin activated /\ \A q \in recorded : q =< p
                 /\ recorded' = recorded \ {p} /\ activated' = activated
                 /\ \/ /\ disk' = [disk EXCEPT ![Destination(p)] = kept[p]]
                       /\ kept' = [kept EXCEPT ![p] = None]
                    \/ kept[p] = None /\ UNCHANGED <<disk, kept>>
    BY <1>12, <2>1, LastRecorded DEF PutBack, Unchanged
  <2>3. Destination(p) \in Locations
    BY <1>1, <1>12, <2>2, DestinationIn DEF PutBack, PhaseOK, Placing
  <2>4. recorded' \ activated' = {}
    BY <1>3, <1>7, <1>12, <2>2
  <2>5. disk[Destination(p)] = None
    BY <1>7, <1>12, <2>2
  <2>6. disk'[Destination(p)] = kept[p]
    BY <2>2, <2>3, <2>5 DEF TypeOK
  <2>7. \A l \in Locations : l # Destination(p) => disk'[l] = disk[l]
    BY <2>2 DEF TypeOK
  <2>8. \A q \in recorded' : q # p /\ q \in recorded /\ kept'[q] = kept[q]
    BY <1>1, <2>2 DEF TypeOK
  <2>9. ASSUME NEW q \in recorded', \A r \in recorded' : Destination(r) = Destination(q) => q =< r
        PROVE  kept'[q] = before[Destination(q)]
    <3>1. First(q)
      BY <2>2, <2>8, <2>9 DEF First
    <3> QED BY <1>7, <1>12, <2>8, <3>1
  <2>10. ASSUME NEW l \in Locations, \A q \in recorded' : Destination(q) # l
         PROVE  disk'[l] = before[l]
    <3>1. CASE Destination(p) = l
      <4>1. First(p)
        BY <1>2, <2>2, <2>10, <3>1 DEF First
      <4> QED BY <1>7, <1>12, <2>2, <2>6, <3>1, <4>1
    <3>2. CASE Destination(p) # l
      BY <1>7, <1>12, <2>2, <2>7, <2>10, <3>2
    <3> QED BY <3>1, <3>2
  <2> QED BY <2>4, <2>9, <2>10
<1>13. Back /\ ~Moving => UNCHANGED <<disk, kept, recorded, activated>>
  BY StillStep DEF Tidy
<1> QED BY <1>5, <1>6, <1>8, <1>9, <1>10, <1>11, <1>12, <1>13 DEF Moving

LEMMA PlacedStep ==
  ASSUME TemplatesApart, RestoreInv, UndoOK, PlacedOK, [Next]_vars
  PROVE  PlacedOK'
<1> USE DEF RestoreInv
<1>9. SUFFICES ASSUME pc # "locate"
               PROVE  PlacedOK'
  BY LocateStep DEF PlacedOK
<1>0. \A p : Destination(p)' = Destination(p)
  BY <1>9, Fixed
<1>1. recorded \subseteq target /\ target \subseteq Paths /\ activated \subseteq recorded
  BY DEF TypeOK
<1>2. SUFFICES ASSUME pc' \in {"activate", "apply"}, NEW q \in activated'
               PROVE  \/ disk'[Destination(q)] = New(Destination(q))
                      \/ \E r \in recorded' \ activated' : Destination(r) = Destination(q)
  BY <1>0 DEF PlacedOK
<1>3. CASE LoadRegistry
  BY <1>1, <1>2, <1>3 DEF LoadRegistry, PhaseOK, Unchanged, processVars
<1>4. ASSUME ~LoadRegistry
      PROVE  pc \in {"activate", "apply"}
  BY <1>2, <1>4, ChangingStep, PreparingStep DEF Next, Changing, Preparing, StageFile, StageFails,
     Preserve, Activate, AllActivated, ApplyRoot, RegistryApplied, RevertRegistry, RestorePrevious,
     RemoveRestored, PutBack, Undone, Tidy, Unstage, Stop, Unchanged, Goto, Fail, vars
<1>5. CASE ~Moving /\ ~LoadRegistry
  <2>1. UNCHANGED <<disk, recorded, activated>>
    BY <1>5, StillStep
  <2> QED BY <1>2, <1>4, <1>5, <2>1 DEF PlacedOK
<1>6. CASE Preserve
  <2>1. CASE UNCHANGED <<disk, recorded, activated>>
    BY <1>2, <1>6, <2>1 DEF PlacedOK, Preserve
  <2>2. CASE ~UNCHANGED <<disk, recorded, activated>>
    <3>1. PICK p : /\ p = Min(Pending) /\ p \notin recorded
                   /\ disk' = [disk EXCEPT ![Destination(p)] = None]
                   /\ recorded' = recorded \cup {p} /\ activated' = activated
      BY <1>6, <2>2 DEF Preserve, Unchanged
    <3>2. Destination(q) # Destination(p) /\ q \in Paths /\ q \in target => disk'[Destination(q)] = disk[Destination(q)]
      BY <1>6, <3>1, DestinationIn DEF TypeOK, Preserve, PhaseOK, Placing
    <3>3. q \in target /\ q \in Paths
      BY <1>1, <1>2, <3>1
    <3> QED BY <1>1, <1>2, <1>6, <3>1, <3>2, <3>3 DEF PlacedOK, Preserve
  <2> QED BY <2>1, <2>2
<1>7. CASE Activate
  <2>1. PICK p : /\ p = Min(Pending) /\ p \in recorded
                 /\ disk' = [disk EXCEPT ![Destination(p)] = New(Resolved[p])]
                 /\ recorded' = recorded /\ activated' = activated \cup {p}
    BY <1>2, <1>7 DEF Activate, Unchanged, Goto
  <2>2. Destination(p) = Resolved[p] /\ Resolved[p] \in Locations
    BY <1>1, <1>7, <2>1, DestinationResolved DEF Activate, PhaseOK, Placing
  <2>3. disk'[Destination(p)] = New(Destination(p))
    BY <2>1, <2>2 DEF TypeOK
  <2>4. CASE Destination(q) = Destination(p)
    BY <2>3, <2>4
  <2>5. CASE Destination(q) # Destination(p)
    <3>1. q \in activated
      BY <1>2, <2>1, <2>5
    <3>2. disk'[Destination(q)] = disk[Destination(q)]
      BY <1>1, <1>7, <2>1, <2>5, <3>1, DestinationIn DEF TypeOK, Activate, PhaseOK, Placing
    <3>3. \A r \in recorded \ activated : Destination(r) = Destination(q) => r \in recorded' \ activated'
      BY <2>1, <2>5
    <3> QED BY <1>7, <3>1, <3>2, <3>3 DEF PlacedOK, Activate
  <2> QED BY <2>4, <2>5
<1>8. ~RemoveRestored /\ ~PutBack
  BY <1>2 DEF RemoveRestored, PutBack, Unchanged
<1> QED BY <1>3, <1>5, <1>6, <1>7, <1>8 DEF Moving

LEMMA ValuesStep ==
  ASSUME TemplatesApart, RestoreInv, ValuesOK, [Next]_vars
  PROVE  ValuesOK'
<1> USE DEF RestoreInv
<1>9. SUFFICES ASSUME pc # "locate"
               PROVE  ValuesOK'
  BY LocateStep, Fixed DEF ValuesOK
<1>0. UNCHANGED before /\ Wanted' = Wanted /\ \A p : Destination(p)' = Destination(p)
  BY <1>9, Fixed
<1>1. recorded \subseteq target /\ target \subseteq Paths
  BY DEF TypeOK
<1>2. ASSUME pc \in Placing, NEW p \in target
      PROVE  Destination(p) = Resolved[p] /\ Destination(p) \in Wanted /\ Destination(p) \in Locations
  BY <1>1, <1>2, DestinationResolved DEF PhaseOK, Wanted
<1>3. CASE ~Moving
  <2>1. disk' = disk /\ recorded' = recorded
    BY <1>3, StillStep
  <2>2. \A p \in Paths : kept'[p] \in {kept[p], None}
    BY <1>3, StillStep DEF Tidy
  <2> QED BY <1>0, <1>1, <2>1, <2>2 DEF ValuesOK
<1>4. ASSUME Moving
      PROVE  pc \in Placing
  BY <1>4 DEF Moving, Preserve, Activate, RemoveRestored, PutBack, Placing
<1>5. CASE Preserve
  <2>1. PICK p \in target : \/ UNCHANGED <<disk, kept, recorded>>
                            \/ /\ kept' = [kept EXCEPT ![p] = disk[Destination(p)]]
                               /\ disk' = [disk EXCEPT ![Destination(p)] = None]
                               /\ recorded' = recorded \cup {p}
    BY <1>5, LeastPending DEF Preserve
  <2>2. Destination(p) \in Wanted /\ Destination(p) \in Locations
    BY <1>2, <1>4, <1>5 DEF Moving
  <2>3. \A l \in Locations : disk'[l] = disk[l] \/ (disk'[l] = None /\ l \in Wanted)
    BY <2>1, <2>2 DEF TypeOK
  <2>4. \A q \in recorded' : \/ q = p /\ kept'[q] = disk[Destination(p)]
                             \/ q \in recorded /\ kept'[q] = kept[q]
    <3>1. \A q \in Paths : q # p => kept'[q] = kept[q]
      BY <2>1 DEF TypeOK
    <3>2. kept'[p] = kept[p] \/ kept'[p] = disk[Destination(p)]
      BY <1>1, <2>1 DEF TypeOK
    <3>3. CASE UNCHANGED <<disk, kept, recorded>>
      BY <1>1, <3>3
    <3>4. CASE kept' = [kept EXCEPT ![p] = disk[Destination(p)]] /\ recorded' = recorded \cup {p}
      <4>1. kept'[p] = disk[Destination(p)]
        BY <1>1, <3>4 DEF TypeOK
      <4>2. ASSUME NEW q \in recorded', q # p
            PROVE  q \in recorded /\ kept'[q] = kept[q]
        <5>1. q \in recorded /\ q \in Paths
          BY <1>1, <3>4, <4>2
        <5> QED BY <3>1, <4>2, <5>1
      <4> QED BY <4>1, <4>2
    <3> QED BY <2>1, <3>3, <3>4
  <2> QED BY <1>0, <2>2, <2>3, <2>4 DEF ValuesOK
<1>6. CASE Activate
  <2>1. PICK p \in target : disk' = disk \/ disk' = [disk EXCEPT ![Destination(p)] = New(Resolved[p])]
    BY <1>6, LeastPending DEF Activate
  <2>2. kept' = kept /\ recorded' = recorded
    BY <1>6 DEF Activate, Unchanged
  <2>3. Destination(p) = Resolved[p] /\ Destination(p) \in Wanted /\ Destination(p) \in Locations
    BY <1>2, <1>4, <1>6 DEF Moving
  <2>4. \A l \in Locations : disk'[l] = disk[l] \/ (disk'[l] = New(l) /\ l \in Wanted)
    BY <2>1, <2>3 DEF TypeOK
  <2> QED BY <1>0, <2>2, <2>4 DEF ValuesOK
<1>7. CASE RemoveRestored
  <2>1. PICK p \in target : disk' = disk \/ disk' = [disk EXCEPT ![Destination(p)] = None]
    BY <1>7, LastRecorded DEF RemoveRestored
  <2>2. kept' = kept /\ recorded' = recorded
    BY <1>7 DEF RemoveRestored, Unchanged
  <2>3. Destination(p) \in Wanted /\ Destination(p) \in Locations
    BY <1>2, <1>4, <1>7 DEF Moving
  <2>4. \A l \in Locations : disk'[l] = disk[l] \/ (disk'[l] = None /\ l \in Wanted)
    BY <2>1, <2>3 DEF TypeOK
  <2> QED BY <1>0, <2>2, <2>4 DEF ValuesOK
<1>8. CASE PutBack
  <2>1. PICK p \in recorded : /\ recorded' = recorded \ {p}
                              /\ disk' = disk \/ disk' = [disk EXCEPT ![Destination(p)] = kept[p]]
                              /\ kept' = kept \/ kept' = [kept EXCEPT ![p] = None]
    BY <1>8, LastRecorded DEF PutBack
  <2>2. Destination(p) \in Wanted /\ Destination(p) \in Locations
    BY <1>1, <1>2, <1>4, <1>8, <2>1 DEF Moving
  <2>3. \A l \in Locations : disk'[l] = disk[l] \/ (l = Destination(p) /\ disk'[l] = kept[p])
    BY <2>1, <2>2 DEF TypeOK
  <2>4. \A q \in recorded' : q \in recorded /\ kept'[q] = kept[q]
    BY <1>1, <2>1 DEF TypeOK
  <2> QED BY <1>0, <2>1, <2>2, <2>3, <2>4 DEF ValuesOK
<1> QED BY <1>3, <1>5, <1>6, <1>7, <1>8 DEF Moving

LEMMA UnchangedStep ==
  ASSUME RestoreInv, PromiseInv, [Next]_vars
  PROVE  UnchangedOK' /\ (pc \in {"unstage", "returned"} => result # "none")'
<1> USE DEF RestoreInv, PromiseInv
<1>0. UNCHANGED before
  BY Fixed
<1>1. faults \in Nat /\ DOMAIN disk = Locations /\ DOMAIN before = Locations
      /\ disk = [l \in Locations |-> disk[l]] /\ before = [l \in Locations |-> before[l]]
  BY FaultsAssumption DEF TypeOK
<1>2. (pc \in {"unstage", "returned"} => result # "none")'
  BY ChangingStep, PreparingStep DEF Next, Changing, Preparing, StageFile, StageFails, LoadRegistry,
     Preserve, Activate, AllActivated, ApplyRoot, RegistryApplied, RevertRegistry, RestorePrevious,
     RemoveRestored, PutBack, Undone, Tidy, Unstage, Stop, Unchanged, Goto, Fail, PhaseOK, vars
<1>3. CASE Preparing \/ StageFails \/ LoadRegistry
  <2>1. disk' = disk /\ disk = before /\ registry' = registry /\ registry = [r \in Roots |-> Old(r)]
    BY <1>3, PreparingStep DEF StageFails, LoadRegistry, Unchanged, machineVars, PhaseOK, RegistryOK, Early
  <2> QED BY <1>0, <1>2, <2>1 DEF UnchangedOK
<1>4. CASE Undone
  <2>1. disk' = disk /\ registry' = registry /\ faults' = faults /\ recorded = {} /\ pc = "undo"
    BY <1>4 DEF Undone, Unchanged, machineVars, NoFault
  <2>2. faults =< 1 => \A l \in Locations : disk[l] = before[l]
    BY <2>1 DEF UndoOK
  <2>3. faults =< 1 => disk = before /\ registry = [r \in Roots |-> Old(r)]
    BY <1>1, <2>1, <2>2 DEF RegistryOK
  <2> QED BY <1>0, <1>2, <2>1, <2>3 DEF UnchangedOK
<1>5. CASE UNCHANGED vars
  BY <1>0, <1>2, <1>5 DEF vars, machineVars, UnchangedOK
<1>7. CASE Changing
  BY <1>0, <1>2, <1>7, ChangingStep DEF UnchangedOK
<1>6. CASE Next /\ ~(Changing \/ Preparing \/ StageFails \/ LoadRegistry \/ Undone)
  <2>1. ~(pc' = "unstage" /\ result' = "failed")
    BY <1>6 DEF Next, Changing, Preparing, StageFile, Preserve, Activate, AllActivated,
       ApplyRoot, RegistryApplied, RevertRegistry, RestorePrevious, RemoveRestored, PutBack, Tidy,
       Unstage, Stop, Unchanged, Goto, PhaseOK
  <2> QED BY <1>2, <2>1 DEF UnchangedOK
<1> QED BY <1>3, <1>4, <1>5, <1>6, <1>7

\* When everything is activated the disk holds what the snapshot holds.
LEMMA EverythingPlaced ==
  ASSUME TemplatesApart, RestoreInv, PlacedOK, pc \in {"activate", "apply"}, activated = target,
         NEW l \in Wanted
  PROVE  disk[l] = New(l)
<1>1. PICK p \in target : l = Resolved[p]
  BY DEF Wanted
<1>2. p \in Paths /\ Destination(p) = l
  BY <1>1, DestinationResolved DEF RestoreInv, TypeOK, PhaseOK, Placing
<1>3. recorded \ activated = {}
  BY DEF RestoreInv, TypeOK
<1> QED BY <1>1, <1>2, <1>3 DEF PlacedOK

LEMMA DoneStep ==
  ASSUME TemplatesApart, RestoreInv, PlacedOK, DoneOK, [Next]_vars
  PROVE  DoneOK'
<1> USE DEF RestoreInv
<1>0. Wanted' = Wanted
  BY Fixed
<1>1. CASE AllActivated \/ RegistryApplied
  <2>1. pc \in {"activate", "apply"} /\ activated = target /\ disk' = disk
    BY <1>1 DEF AllActivated, RegistryApplied, Pending, PhaseOK, TypeOK, Unchanged, machineVars
  <2> QED BY <1>0, <2>1, EverythingPlaced DEF DoneOK
<1>2. CASE ~(AllActivated \/ RegistryApplied)
  <2>1. result' = "restored" => result = "restored"
    BY <1>2, ChangingStep, PreparingStep DEF Next, Changing, Preparing, StageFile, StageFails,
       LoadRegistry, Preserve, Activate, ApplyRoot, RevertRegistry, RestorePrevious, RemoveRestored,
       PutBack, Undone, Tidy, Unstage, Stop, Unchanged, Fail, vars
  <2>2. result = "restored" => ~Moving
    BY DEF Moving, Preserve, Activate, RemoveRestored, PutBack, PhaseOK
  <2>3. ~Moving => disk' = disk
    BY StillStep
  <2> QED BY <1>0, <2>1, <2>2, <2>3 DEF DoneOK
<1> QED BY <1>1, <1>2

LEMMA PromiseInvariant ==
  ASSUME TemplatesApart
  PROVE  Spec => [](RestoreInv /\ PromiseInv)
<1>1. Init => RestoreInv /\ PromiseInv
  BY TypeInit, RestoreInit, PromiseInit DEF RestoreInv
<1>2. RestoreInv /\ PromiseInv /\ [Next]_vars => (RestoreInv /\ PromiseInv)'
  <2> SUFFICES ASSUME RestoreInv, PromiseInv, [Next]_vars
               PROVE  (RestoreInv /\ PromiseInv)'
    OBVIOUS
  <2>1. RestoreInv'
    BY TypeStep, PhaseStep, CleanStep, SafeStep, RegistryStep, CapturedStep DEF RestoreInv
  <2>2. UndoOK /\ PlacedOK /\ ValuesOK /\ DoneOK
    BY DEF PromiseInv
  <2>3. UndoOK' /\ PlacedOK' /\ ValuesOK' /\ DoneOK'
    BY <2>2, UndoStep, PlacedStep, ValuesStep, DoneStep
  <2> QED BY <2>1, <2>3, UnchangedStep DEF PromiseInv
<1> QED BY <1>1, <1>2, PTL DEF Spec

-----------------------------------------------------------------------------
(* The refinement, step by step.                                           *)

Saves == IF Decided THEN Now ELSE Then

Outcome == IF result = "restored" THEN "restored"
           ELSE IF pc = "stopped" THEN "stopped"
           ELSE IF pc # "returned" THEN "none"
           ELSE IF faults > 1 THEN "damaged" ELSE "failed"

Asked == [t \in Wanted \cup targetRoots |-> New(t)]

Reach == Wanted \cup targetRoots \cup capturedRoots

\* A step before the end changes nothing that RestorePromise sees.
LEMMA UndecidedStep ==
  ASSUME [Next]_vars, ~Decided, ~Decided'
  PROVE  UNCHANGED <<Saves, Outcome>>
<1>1. UNCHANGED before
  BY Fixed
<1>2. Saves = Then /\ Saves' = Then' /\ Then' = Then
  BY <1>1 DEF Saves, Then
<1>3. Outcome = "none" /\ Outcome' = "none"
  BY DEF Outcome, Decided
<1> QED BY <1>2, <1>3

\* Nor does one after it.
LEMMA DecidedStep ==
  ASSUME RestoreInv, [Next]_vars, Decided
  PROVE  Decided' /\ UNCHANGED <<Saves, Outcome>>
<1> USE DEF RestoreInv
<1>1. CASE UNCHANGED vars
  BY <1>1 DEF vars, machineVars, Decided, Saves, Now, Then, Outcome
<1>2. CASE Next
  <2>1. result = "restored" /\ (Tidy \/ Unstage \/ Stop)
    BY <1>2, ChangingStep, PreparingStep DEF Decided, PhaseOK, Early, Next, Changing, Preparing, StageFile,
       StageFails, LoadRegistry, Preserve, Activate, AllActivated, ApplyRoot, RegistryApplied,
       RevertRegistry, RestorePrevious, RemoveRestored, PutBack, Undone, Tidy, Unstage, Stop
  <2>2. UNCHANGED <<disk, registry, result>>
    BY <2>1 DEF Tidy, Unstage, Stop, Unchanged, machineVars
  <2> QED BY <2>1, <2>2 DEF Decided, Saves, Now, Outcome
<1> QED BY <1>1, <1>2

LEMMA RestoredStep ==
  ASSUME TemplatesApart, RestoreInv, PromiseInv, AllActivated \/ RegistryApplied, [Next]_vars,
         ~Decided, Decided'
  PROVE  /\ Outcome = "none" /\ Outcome' = "restored"
         /\ Saves' = [t \in Things |-> IF t \in DOMAIN Asked THEN Asked[t] ELSE Saves[t]]
<1> USE DEF RestoreInv, PromiseInv
<1>1. result' = "restored" /\ pc \in {"activate", "apply"} /\ activated = target /\ applied = targetRoots
  BY DEF AllActivated, RegistryApplied, Decided, Pending, TypeOK, PhaseOK, Goto
<1>2. UNCHANGED <<disk, registry, before>>
  BY Fixed DEF AllActivated, RegistryApplied, Unchanged, machineVars
<1>3. registry = [r \in Roots |-> IF r \in targetRoots THEN New(r) ELSE Old(r)]
  BY <1>1 DEF RegistryOK
<1>4. \A l \in Locations : disk[l] = IF l \in Wanted THEN New(l) ELSE before[l]
  BY <1>1, EverythingPlaced DEF ValuesOK
<1>5. Wanted \subseteq Locations /\ targetRoots \subseteq Roots
  BY DEF Wanted, Locations, TypeOK
<1>6. \A t \in Things : Now[t] = IF t \in Wanted \cup targetRoots THEN New(t) ELSE Then[t]
  <2>1. \A t \in Roots : t \notin Wanted /\ Now[t] = registry[t] /\ Then[t] = Old(t)
    BY <1>5, RootsAssumption DEF Now, Then, Things
  <2>2. \A t \in Locations : t \notin targetRoots /\ t \notin Roots /\ Now[t] = disk[t] /\ Then[t] = before[t]
    BY <1>5, RootsAssumption DEF Now, Then, Things
  <2> QED BY <1>3, <1>4, <2>1, <2>2 DEF Things
<1>7. Saves' = Now /\ Saves = Then
  BY <1>1, <1>2 DEF Saves, Decided, Now
<1>8. Outcome = "none" /\ Outcome' = "restored"
  BY <1>1 DEF Outcome, Decided
<1>9. Now = [t \in Things |-> Now[t]]
  BY DEF Now
<1> QED BY <1>6, <1>7, <1>8, <1>9 DEF Asked

\* What is left of a thing by a restore that did not restore.
LEMMA Left ==
  ASSUME RestoreInv, PromiseInv, NEW t \in Things
  PROVE  /\ t \notin Reach => Now[t] = Then[t]
         /\ Now[t] \in {Then[t], Part} \cup (IF t \in DOMAIN Asked THEN {Asked[t], None} ELSE {})
<1> USE DEF RestoreInv, PromiseInv
<1>1. CASE t \in Roots
  <2>1. Now[t] = registry[t] /\ Then[t] = Old(t)
    BY <1>1 DEF Now, Then
  <2> QED BY <1>1, <2>1 DEF RegistryOK, Reach, Asked
<1>2. CASE t \in Locations
  <2>1. Now[t] = disk[t] /\ Then[t] = before[t]
    BY <1>2, RootsAssumption DEF Now, Then
  <2> QED BY <1>2, <2>1 DEF ValuesOK, Reach, Asked
<1> QED BY <1>1, <1>2 DEF Things

\* The restore returns an error or the process stops.
LEMMA NotRestoredStep ==
  ASSUME RestoreInv, PromiseInv, Unstage \/ Stop, [Next]_vars, ~Decided, Decided'
  PROVE  /\ Outcome = "none"
         /\ \/ Outcome' = "failed" /\ Saves' = Saves
            \/ /\ Outcome' \in {"stopped", "damaged"}
               /\ \A t \in Things : t \notin Reach => Saves'[t] = Saves[t]
               /\ \A t \in Things : Saves'[t] \in {Saves[t], Part} \cup
                                      (IF t \in DOMAIN Asked THEN {Asked[t], None} ELSE {})
               /\ DOMAIN Saves' = Things
<1> USE DEF RestoreInv, PromiseInv
<1>1. UNCHANGED <<disk, registry, before, result>> /\ result # "restored"
  BY Fixed DEF Unstage, Stop, Unchanged, machineVars, Decided
<1>2. Saves = Then /\ Saves' = Now /\ Outcome = "none"
  BY <1>1 DEF Saves, Decided, Now, Outcome
<1>3. DOMAIN Now = Things
  BY DEF Now
<1>4. \/ Outcome' \in {"stopped", "damaged"}
      \/ Outcome' = "failed" /\ pc = "unstage" /\ ~(faults > 1)
  BY <1>1, FaultsAssumption DEF Unstage, Stop, Goto, Fault, NoFault, Outcome, TypeOK
<1>5. CASE Outcome' \in {"stopped", "damaged"}
  BY <1>2, <1>3, <1>5, Left
<1>6. CASE Outcome' = "failed" /\ pc = "unstage" /\ ~(faults > 1)
  <2>1. result = "failed" /\ faults =< 1
    BY <1>1, <1>6, FaultsAssumption DEF TypeOK
  <2>2. disk = before /\ registry = [r \in Roots |-> Old(r)]
    BY <1>6, <2>1 DEF UnchangedOK
  <2>3. Now = Then
    BY <2>2 DEF Now, Then
  <2> QED BY <1>2, <1>6, <2>3
<1> QED BY <1>2, <1>4, <1>5, <1>6

\* What is within reach grows with the capture only.
LEMMA ReachStep ==
  ASSUME RestoreInv, [Next]_vars
  PROVE  UNCHANGED capturedRoots \/ (CreateRollback /\ capturedRoots = {})
<1>1. CASE CreateRollback
  BY <1>1 DEF CreateRollback, RestoreInv, PhaseOK
<1>2. CASE ValidateScope \/ Locate
  BY <1>2 DEF ValidateScope, Locate, Unchanged, captureVars
<1>3. CASE Changing
  BY <1>3, ChangingStep
<1>4. CASE Next /\ ~Changing /\ ~Preparing
  BY <1>4 DEF Next, Changing, Preparing, StageFile, StageFails, LoadRegistry, Preserve, Activate,
     AllActivated, ApplyRoot, RegistryApplied, RevertRegistry, RestorePrevious, RemoveRestored, PutBack,
     Undone, Tidy, Unstage, Stop, Unchanged, captureVars
<1>5. CASE UNCHANGED vars
  BY <1>5 DEF vars, captureVars
<1> QED BY <1>1, <1>2, <1>3, <1>4, <1>5 DEF Preparing

LEMMA PromiseStep ==
  ASSUME TemplatesApart, RestoreInv, PromiseInv, [Next]_vars
  PROVE  [Promise!Next]_(Promise!vars)
<1>1. UNCHANGED Asked
  BY Fixed DEF Asked
<1>4. UNCHANGED Reach \/ (CreateRollback /\ Reach \subseteq Reach')
  BY Fixed, ReachStep DEF Reach
<1>2. CASE Decided \/ ~Decided'
  <2>1. UNCHANGED <<Saves, Outcome>>
    BY <1>2, DecidedStep, UndecidedStep
  <2>2. CASE UNCHANGED Reach
    BY <1>1, <2>1, <2>2 DEF Promise!vars, Saves, Outcome, Asked, Reach, Wanted
  <2>3. CASE CreateRollback /\ Reach \subseteq Reach'
    <3>1. Outcome = "none"
      BY <2>3 DEF CreateRollback, RestoreInv, PhaseOK, Early, Outcome
    <3>2. Promise!Prepare
      BY <1>1, <2>1, <2>3, <3>1 DEF Promise!Prepare, Saves, Outcome, Asked, Reach, Wanted
    <3> QED BY <3>2 DEF Promise!Next
  <2> QED BY <1>4, <2>2, <2>3
<1>3. CASE ~Decided /\ Decided'
  <2>1. AllActivated \/ RegistryApplied \/ Unstage \/ Stop
    BY <1>3, ChangingStep, PreparingStep DEF Decided, Next, Changing, Preparing, StageFile, StageFails,
       LoadRegistry, Preserve, Activate, ApplyRoot, RevertRegistry, RestorePrevious, RemoveRestored,
       PutBack, Undone, Tidy, Unchanged, Goto, Fail, vars
  <2>4. UNCHANGED Reach
    BY <1>4, <2>1 DEF CreateRollback, AllActivated, RegistryApplied, Unstage, Stop, Unchanged, captureVars,
       Fail, Goto
  <2>2. CASE AllActivated \/ RegistryApplied
    <3>1. /\ Outcome = "none" /\ Outcome' = "restored"
          /\ Saves' = [t \in Things |-> IF t \in DOMAIN Asked THEN Asked[t] ELSE Saves[t]]
      BY <1>3, <2>2, RestoredStep
    <3>2. Promise!Restored
      BY <3>1 DEF Promise!Restored, Promise!Overlay, Saves, Outcome, Asked, Wanted
    <3> QED BY <1>1, <2>4, <3>2 DEF Promise!Next, Asked, Reach, Wanted
  <2>3. CASE Unstage \/ Stop
    <3>1. Promise!Failed \/ Promise!Broken("stopped") \/ Promise!Broken("damaged")
      BY <1>3, <2>3, NotRestoredStep DEF Promise!Failed, Promise!Broken, Promise!Mixed, Saves, Outcome,
         Asked, Reach, Wanted
    <3> QED BY <1>1, <2>4, <3>1 DEF Promise!Next, Asked, Reach, Wanted
  <2> QED BY <2>1, <2>2, <2>3
<1> QED BY <1>2, <1>3

\* A restore puts everything in place or leaves everything as it was, unless
\* undoing it fails too or the process stops (activateAndRestore): where the
\* paths of one template lead to one file, SnapshotRestore implements
\* RestorePromise.
THEOREM RestoreImplementsPromise ==
  ASSUME TemplatesApart
  PROVE  Spec => KeepsPromise
<1>1. Init => Promise!Init
  BY DEF Init, Promise!Init
<1>2. RestoreInv /\ PromiseInv /\ [Next]_vars => [Promise!Next]_(Promise!vars)
  BY PromiseStep
<1> QED BY <1>1, <1>2, PromiseInvariant, PTL DEF Spec, KeepsPromise, Promise!Spec

\* With the same hypothesis a completed restore has put every file of the
\* snapshot back where it was captured from (stageRestoreFiles): what the
\* sources of the blobs are keyed by is all that can go wrong there.
THEOREM RestoredWhereCapturedCorrect ==
  ASSUME TemplatesApart
  PROVE  Spec => []RestoredWhereCaptured
<1>1. PromiseInv => RestoredWhereCaptured
  BY DEF PromiseInv, DoneOK, Wanted, RestoredWhereCaptured
<1> QED BY <1>1, PromiseInvariant, PTL

=============================================================================
