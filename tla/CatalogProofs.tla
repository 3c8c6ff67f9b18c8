---------------------------- MODULE CatalogProofs ----------------------------
(***************************************************************************)
(* Proofs about CatalogCache: type correctness, and that without           *)
(* overlapping refreshes the ETag is never ahead of the files it is for.   *)
(***************************************************************************)
EXTENDS CatalogCache, TLAPS

\* What the steps of a refresh have in common.
Written == {"write", "rename", "writeTag", "renameTag"}

FilesType == files \in [{"manifest", "tag"} -> [cur : Versions, new : Versions]]

States == [
  at : {"idle", "start", "request", "compile", "write", "rename", "writeTag",
        "renameTag", "ensure", "recompile"},
  custom : Customs, tag : Versions, version : Versions, tagged : BOOLEAN]

LEMMA Bounds == /\ 0 \in Versions
                /\ Versions \subseteq Int
                /\ {-1, 0} \subseteq -1..MaxVersion /\ Versions \subseteq -1..MaxVersion
  BY BoundsAssumption DEF Versions

LEMMA Maxima == MaxVersion \in Nat /\ MaxFaults \in Nat
  BY BoundsAssumption

LEMMA Successor ==
  ASSUME NEW m \in Nat, NEW n \in 0..m, n < m
  PROVE  n + 1 \in 0..m /\ n + 1 # 0
  OBVIOUS

LEMMA Positive ==
  ASSUME NEW v \in Versions, v # 0
  PROVE  v \in Int /\ v >= 1
  BY Maxima DEF Versions

LEMMA StateTyped ==
  ASSUME TypeOK, NEW r \in Refreshers, NEW state \in States, Become(r, state)
  PROVE  refresh' \in [Refreshers -> States]
  BY DEF TypeOK, Become, States

LEMMA GotoTyped ==
  ASSUME TypeOK, NEW r \in Refreshers,
         NEW step \in {"idle", "start", "request", "compile", "write", "rename", "writeTag",
                       "renameTag", "ensure", "recompile"},
         Goto(r, step)
  PROVE  refresh' \in [Refreshers -> States]
<1> DEFINE state == IF step = "idle" THEN Idle ELSE [refresh[r] EXCEPT !.at = step]
<1>1. Idle \in States
  BY CustomsAssumption, Bounds DEF Idle, States
<1>2. refresh[r] \in States
  BY DEF TypeOK, States
<1>3. [refresh[r] EXCEPT !.at = step] \in States
  BY <1>2 DEF States
<1>4. state \in States
  BY <1>1, <1>3
<1>5. Become(r, state)
  BY DEF Goto
<1> QED
  BY <1>4, <1>5, StateTyped

LEMMA AbandonedTyped ==
  ASSUME TypeOK
  PROVE  /\ Abandoned \in [version : -1..MaxVersion, custom : Customs]
         /\ Abandoned.version < 1 => Abandoned.custom = ""
<1>1. CASE index = NoFile
  BY <1>1, CustomsAssumption, Bounds DEF Abandoned, Schema
<1>2. CASE index # NoFile
  BY <1>2 DEF Abandoned, TypeOK
<1> QED
  BY <1>1, <1>2

\* Compile records what the refresh has, and a version that is not 0.
LEMMA CompileTyped ==
  ASSUME TypeOK, NEW r \in Refreshers, refresh[r].version >= 1, Compile(r)
  PROVE  /\ index' \in [version : -1..MaxVersion, custom : Customs]
         /\ index'.version < 1 => index'.custom = ""
<1>1. refresh[r].version \in Versions /\ refresh[r].custom \in Customs
  BY DEF TypeOK
<1>2. index'.version = refresh[r].version
  BY DEF Compile
<1>3. refresh[r].version \in Int
  BY <1>1, Bounds
<1>4. ~(refresh[r].version < 1)
  BY <1>3
<1> QED
  BY <1>1, <1>2, <1>4, Bounds DEF Compile

LEMMA FileTyped ==
  ASSUME FilesType, NEW file \in {"manifest", "tag"}, NEW old \in Versions, NEW new \in Versions,
         \/ files' = [files EXCEPT ![file].new = new]
         \/ files' = [files EXCEPT ![file] = [cur |-> old, new |-> new]]
  PROVE  FilesType'
  BY DEF FilesType

-----------------------------------------------------------------------------
(* Type correctness.  A compilation has a version to record, which is why  *)
(* an index without games never carries a fingerprint.                     *)

Versioned == \A r \in Refreshers : refresh[r].at \in {"compile", "recompile"} => refresh[r].version >= 1

Typed == TypeOK /\ Versioned

LEMMA GotoVersioned ==
  ASSUME Typed, NEW r \in Refreshers, NEW step, step \notin {"compile", "recompile"},
         Goto(r, step)
  PROVE  Versioned'
<1>1. refresh'[r].at = step
  BY DEF Goto, Become, Typed, TypeOK, Idle
<1>2. ASSUME NEW q \in Refreshers \ {r}
      PROVE  refresh'[q] = refresh[q]
  BY DEF Goto, Become, Typed, TypeOK
<1> QED
  BY <1>1, <1>2 DEF Versioned, Typed

LEMMA InitTyped == Init => Typed
<1> SUFFICES ASSUME Init
             PROVE  Typed
  OBVIOUS
<1>1. Idle \in States
  BY CustomsAssumption, Bounds DEF Idle, States
<1>2. NoFile \in [version : -1..MaxVersion, custom : Customs] /\ NoFile.custom = ""
  BY CustomsAssumption, Bounds DEF NoFile
<1>3. [f \in {"manifest", "tag"} |-> [cur |-> 0, new |-> 0]]
        \in [{"manifest", "tag"} -> [cur : Versions, new : Versions]]
  BY Bounds
<1>4. 1 \in Versions \ {0} /\ 0 \in 0..MaxFaults
  BY BoundsAssumption DEF Versions
<1>5. TypeOK
  BY <1>1, <1>2, <1>3, <1>4, CustomsAssumption DEF Init, TypeOK, States
<1>6. Versioned
  BY DEF Init, Versioned, Idle
<1> QED
  BY <1>5, <1>6 DEF Typed

\* What a step leaves to show once the refreshes, the index and the files are
\* accounted for.
LEMMA TypedBy ==
  ASSUME TypeOK,
         refresh' \in [Refreshers -> States],
         index' \in [version : -1..MaxVersion, custom : Customs],
         index'.version < 1 => index'.custom = "",
         FilesType',
         upstream' \in Versions \ {0}, custom' \in Customs,
         faults' = faults \/ Fault,
         overlapped' \in BOOLEAN, lost' \in BOOLEAN
  PROVE  TypeOK'
<1>1. faults \in 0..MaxFaults /\ MaxFaults \in Nat
  BY Maxima DEF TypeOK
<1>2. CASE faults' = faults
  BY <1>1, <1>2 DEF TypeOK, FilesType, States
<1>3. CASE Fault
  <2>1. faults < MaxFaults /\ faults' = faults + 1
    BY <1>3 DEF Fault
  <2>2. faults' \in 0..MaxFaults
    BY <1>1, <2>1, Successor
  <2> QED
    BY <2>2 DEF TypeOK, FilesType, States
<1> QED
  BY <1>2, <1>3

LEMMA StepTyped ==
  ASSUME Typed, [Next]_vars
  PROVE  Typed'
<1> USE DEF Typed
<1>0. /\ FilesType /\ upstream \in Versions \ {0} /\ custom \in Customs
      /\ index \in [version : -1..MaxVersion, custom : Customs]
      /\ index.version < 1 => index.custom = ""
      /\ overlapped \in BOOLEAN /\ lost \in BOOLEAN
      /\ refresh \in [Refreshers -> States]
  BY DEF TypeOK, FilesType, States
<1>1. ASSUME NEW r \in Refreshers, Start(r)
      PROVE  Typed'
  <2> DEFINE state == [Idle EXCEPT !.at = "start", !.custom = custom]
  <2>1. state \in States /\ state.at = "start"
    BY <1>0, CustomsAssumption, Bounds DEF Idle, States
  <2>2. refresh' \in [Refreshers -> States]
    BY <1>1, <2>1, StateTyped DEF Start
  <2>3. Versioned'
    BY <1>1, <1>0, <2>1 DEF Start, Become, Versioned
  <2>4. overlapped' \in BOOLEAN
    BY <1>1, <1>0 DEF Start
  <2> QED
    BY <1>0, <1>1, <2>2, <2>3, <2>4, TypedBy DEF Start, FilesType
<1>2. ASSUME NEW r \in Refreshers, CustomUnavailable(r)
      PROVE  Typed'
  <2> DEFINE state == [refresh[r] EXCEPT !.custom = ""]
  <2>1. state \in States /\ state.at = refresh[r].at /\ state.version = refresh[r].version
    BY <1>0, CustomsAssumption DEF States
  <2>2. refresh' \in [Refreshers -> States]
    BY <1>2, <2>1, StateTyped DEF CustomUnavailable
  <2>3. Versioned'
    BY <1>2, <1>0, <2>1 DEF CustomUnavailable, Become, Versioned
  <2> QED
    BY <1>0, <1>2, <2>2, <2>3, TypedBy DEF CustomUnavailable, FilesType
<1>3. ASSUME NEW r \in Refreshers, ReadTag(r)
      PROVE  Typed'
  <2> DEFINE state == [refresh[r] EXCEPT !.at = "request", !.tag = files["tag"].cur]
  <2>1. files["tag"].cur \in Versions
    BY <1>0 DEF FilesType
  <2>2. state \in States /\ state.at = "request"
    BY <1>0, <2>1 DEF States
  <2>3. refresh' \in [Refreshers -> States]
    BY <1>3, <2>2, StateTyped DEF ReadTag
  <2>4. Versioned'
    BY <1>3, <1>0, <2>2 DEF ReadTag, Become, Versioned
  <2> QED
    BY <1>0, <1>3, <2>3, <2>4, TypedBy DEF ReadTag, Kept, FilesType
<1>4. ASSUME NEW r \in Refreshers, Download(r)
      PROVE  Typed'
  <2>1. PICK tagged \in BOOLEAN :
          Become(r, [refresh[r] EXCEPT !.at = "compile", !.version = upstream, !.tagged = tagged])
    BY <1>4 DEF Download
  <2> DEFINE state == [refresh[r] EXCEPT !.at = "compile", !.version = upstream, !.tagged = tagged]
  <2>2. state \in States /\ state.version = upstream
    BY <1>0 DEF States
  <2>3. upstream >= 1
    BY <1>0, Positive
  <2>4. refresh' \in [Refreshers -> States]
    BY <2>1, <2>2, StateTyped
  <2>5. Versioned'
    BY <1>0, <2>1, <2>2, <2>3 DEF Become, Versioned
  <2> QED
    BY <1>0, <1>4, <2>4, <2>5, TypedBy DEF Download, Kept, FilesType
<1>5. ASSUME NEW r \in Refreshers, OpenManifest(r)
      PROVE  Typed'
  <2> DEFINE state == [refresh[r] EXCEPT !.at = "recompile", !.version = files["manifest"].cur]
  <2>1. files["manifest"].cur \in Versions /\ files["manifest"].cur # 0
    BY <1>0, <1>5 DEF FilesType, OpenManifest
  <2>2. state \in States /\ state.version = files["manifest"].cur
    BY <1>0, <2>1 DEF States
  <2>3. files["manifest"].cur >= 1
    BY <2>1, Positive
  <2>4. refresh' \in [Refreshers -> States]
    BY <1>5, <2>2, StateTyped DEF OpenManifest
  <2>5. Versioned'
    BY <1>0, <1>5, <2>2, <2>3 DEF OpenManifest, Become, Versioned
  <2> QED
    BY <1>0, <1>5, <2>4, <2>5, TypedBy DEF OpenManifest, Kept, FilesType
<1>6. ASSUME NEW r \in Refreshers, NotModified(r) \/ IndexUsable(r)
      PROVE  Typed'
  <2>1. \E step \in {"idle", "ensure"} : Goto(r, step)
    BY <1>6 DEF NotModified, IndexUsable, Done
  <2>2. refresh' \in [Refreshers -> States]
    BY <2>1, GotoTyped
  <2>3. Versioned'
    BY <2>1, GotoVersioned
  <2> QED
    BY <1>0, <1>6, <2>2, <2>3, TypedBy DEF NotModified, IndexUsable, Kept, FilesType
<1>7. ASSUME NEW r \in Refreshers, CompileDownload(r) \/ Recompile(r)
      PROVE  Typed'
  <2>1. \E step \in {"idle", "write"} : Goto(r, step)
    BY <1>7 DEF CompileDownload, Recompile, Done
  <2>2. refresh' \in [Refreshers -> States]
    BY <2>1, GotoTyped
  <2>3. Versioned'
    BY <2>1, GotoVersioned
  <2>4. refresh[r].version >= 1 /\ Compile(r)
    BY <1>7 DEF CompileDownload, Recompile, Versioned, At
  <2> QED
    BY <1>0, <1>7, <2>2, <2>3, <2>4, TypedBy, CompileTyped
       DEF CompileDownload, Recompile, Kept, FilesType
<1>8. ASSUME NEW r \in Refreshers, WriteManifest(r) \/ WriteTag(r)
      PROVE  Typed'
  <2>1. \E step \in {"rename", "renameTag"} : Goto(r, step)
    BY <1>8 DEF WriteManifest, WriteTag, WriteNew
  <2>2. refresh' \in [Refreshers -> States]
    BY <2>1, GotoTyped
  <2>3. Versioned'
    BY <2>1, GotoVersioned
  <2>4. refresh[r].version \in Versions
    BY <1>0 DEF States
  <2>5. FilesType'
    BY <1>0, <1>8, <2>4, Bounds, FileTyped DEF WriteManifest, WriteTag, WriteNew
  <2> QED
    BY <1>0, <1>8, <2>2, <2>3, <2>5, TypedBy DEF WriteManifest, WriteTag, WriteNew, Kept
<1>9. ASSUME NEW r \in Refreshers, RenameManifest(r) \/ RenameTag(r)
      PROVE  Typed'
  <2>1. \E step \in {"idle", "writeTag", "ensure"} : Goto(r, step)
    BY <1>9 DEF RenameManifest, RenameTag, RenameNew
  <2>2. refresh' \in [Refreshers -> States]
    BY <2>1, GotoTyped
  <2>3. Versioned'
    BY <2>1, GotoVersioned
  <2>4. ASSUME NEW file \in {"manifest", "tag"},
               files' = [files EXCEPT ![file] = [cur |-> @.new, new |-> 0]]
        PROVE  FilesType'
    <3>1. files[file].new \in Versions
      BY <1>0 DEF FilesType
    <3>2. files' = [files EXCEPT ![file] = [cur |-> files[file].new, new |-> 0]]
      BY <2>4, <1>0 DEF FilesType
    <3> QED
      BY <1>0, <3>1, <3>2, Bounds, FileTyped
  <2>5. FilesType'
    BY <1>0, <1>9, <2>4 DEF RenameManifest, RenameTag, RenameNew, FilesType
  <2> QED
    BY <1>0, <1>9, <2>2, <2>3, <2>5, TypedBy DEF RenameManifest, RenameTag, RenameNew, Kept
<1>10. ASSUME NEW r \in Refreshers, Fails(r) \/ EnsureFails(r)
       PROVE  Typed'
  <2>1. \E step \in {"idle", "ensure"} : Goto(r, step)
    BY <1>10 DEF Fails, EnsureFails, Done
  <2>2. refresh' \in [Refreshers -> States]
    BY <2>1, GotoTyped
  <2>3. Versioned'
    BY <2>1, GotoVersioned
  <2>4. index' = index \/ index' = Abandoned
    BY <1>10 DEF Fails, EnsureFails
  <2> QED
    BY <1>0, <1>10, <2>2, <2>3, <2>4, TypedBy, AbandonedTyped DEF Fails, EnsureFails, FilesType
<1>11. CASE Crash
  <2>1. Idle \in States
    BY CustomsAssumption, Bounds DEF Idle, States
  <2>2. refresh' \in [Refreshers -> States] /\ Versioned'
    BY <1>11, <2>1 DEF Crash, Versioned, Idle
  <2>3. index' = index \/ index' = Abandoned
    BY <1>11 DEF Crash
  <2> QED
    BY <1>0, <1>11, <2>2, <2>3, TypedBy, AbandonedTyped DEF Crash, FilesType
<1>12. CASE LoseIndex
  <2>1. NoFile \in [version : -1..MaxVersion, custom : Customs] /\ NoFile.custom = ""
    BY CustomsAssumption, Bounds DEF NoFile
  <2> QED
    BY <1>0, <1>12, <2>1, TypedBy DEF LoseIndex, FilesType, Versioned
<1>13. CASE SetCustom
  BY <1>0, <1>13, TypedBy DEF SetCustom, FilesType, Versioned
<1>14. CASE NewVersion
  <2>1. upstream \in 0..MaxVersion /\ upstream < MaxVersion /\ upstream' = upstream + 1
    BY <1>0, <1>14 DEF NewVersion, Versions
  <2>2. upstream + 1 \in 0..MaxVersion /\ upstream + 1 # 0
    BY <2>1, Maxima, Successor
  <2>3. upstream' \in Versions \ {0}
    BY <2>1, <2>2 DEF Versions
  <2> QED
    BY <1>0, <1>14, <2>3, TypedBy DEF NewVersion, FilesType, Versioned
<1>15. CASE UNCHANGED vars
  BY <1>0, <1>15, TypedBy DEF vars, FilesType, Versioned
<1> QED
  BY <1>1, <1>2, <1>3, <1>4, <1>5, <1>6, <1>7, <1>8, <1>9, <1>10, <1>11, <1>12, <1>13, <1>14,
     <1>15 DEF Next, Step

LEMMA TypedCorrect == Spec => []Typed
  BY InitTyped, StepTyped, PTL DEF Spec

\* The type invariant, for any number of refreshers and of versions.
THEOREM TypeCorrect == Spec => []TypeOK
<1>1. Typed => TypeOK
  BY DEF Typed
<1> QED
  BY <1>1, TypedCorrect, PTL

-----------------------------------------------------------------------------
(* The order of the versions.  Nothing is of a later version than the one  *)
(* the server has.                                                         *)

Released ==
  /\ \A f \in {"manifest", "tag"} : files[f].cur <= upstream /\ files[f].new <= upstream
  /\ \A r \in Refreshers : refresh[r].version <= upstream

\* No two refreshes are under way.
Lone == \A q, r \in Refreshers : q = r \/ At(q, "idle") \/ At(r, "idle")

InOrder ==
  /\ files["tag"].cur <= files["manifest"].cur
  /\ index.version >= 1 => files["tag"].cur <= index.version

\* What a refresh is about to write is not older than the ETag, and the files
\* it has written are not older than what it is about to write.
Writes(r) ==
  /\ refresh[r].at \in {"compile", "recompile"} \cup Written
       => files["tag"].cur <= refresh[r].version
  /\ refresh[r].at \in Written /\ index.version >= 1 => refresh[r].version <= index.version
  /\ At(r, "rename") => files["manifest"].new = refresh[r].version
  /\ refresh[r].at \in {"writeTag", "renameTag"} => refresh[r].version <= files["manifest"].cur
  /\ At(r, "renameTag") => files["tag"].new = refresh[r].version

Ordered == Lone /\ InOrder /\ \A r \in Refreshers : Writes(r)

IInv == Typed /\ Released /\ (~overlapped => Ordered)

\* The versions are integers, which is all the order needs of the types.
LEMMA Integral ==
  ASSUME TypeOK
  PROVE  /\ upstream \in Int /\ index.version \in Int
         /\ files["tag"].cur \in Int /\ files["tag"].new \in Int
         /\ files["manifest"].cur \in Int /\ files["manifest"].new \in Int
         /\ \A r \in Refreshers : refresh[r].version \in Int /\ refresh[r].tag \in Int
<1>1. index.version \in -1..MaxVersion
  BY DEF TypeOK
<1>2. index.version \in Int
  BY <1>1, Maxima
<1> QED
  BY <1>2, Bounds DEF TypeOK

\* A step of the one refresh that is under way, or that begins.
LEMMA OrderedBy ==
  ASSUME TypeOK, NEW r \in Refreshers, NEW state, Become(r, state),
         \A q \in Refreshers \ {r} : At(q, "idle"),
         InOrder', Writes(r)'
  PROVE  Ordered'
<1>1. ASSUME NEW q \in Refreshers \ {r}
      PROVE  refresh'[q].at = "idle"
  BY DEF Become, At, TypeOK
<1>2. Lone'
  BY <1>1 DEF Lone, At
<1>3. ASSUME NEW q \in Refreshers \ {r}
      PROVE  Writes(q)'
  BY <1>1 DEF Writes, Written, At
<1> QED
  BY <1>2, <1>3 DEF Ordered

LEMMA Busy ==
  ASSUME Ordered, NEW r \in Refreshers, ~At(r, "idle")
  PROVE  \A q \in Refreshers \ {r} : At(q, "idle")
  BY DEF Ordered, Lone

\* What a refresh is after Goto.
LEMMA Gone ==
  ASSUME TypeOK, NEW r \in Refreshers, NEW step, Goto(r, step)
  PROVE  /\ refresh'[r].at = step
         /\ step # "idle" => /\ refresh'[r].version = refresh[r].version
                             /\ refresh'[r].tagged = refresh[r].tagged
         /\ step = "idle" => refresh'[r].version = 0
         /\ \A q \in Refreshers \ {r} : refresh'[q] = refresh[q]
  BY DEF Goto, Become, TypeOK, Idle

LEMMA InitOrdered == Init => IInv
<1> SUFFICES ASSUME Init
             PROVE  IInv
  OBVIOUS
<1>0. /\ upstream = 1 /\ index.version = -1
      /\ \A f \in {"manifest", "tag"} : files[f] = [cur |-> 0, new |-> 0]
      /\ \A r \in Refreshers : refresh[r].at = "idle" /\ refresh[r].version = 0
  BY DEF Init, NoFile, Idle
<1>1. Released
  BY <1>0 DEF Released
<1>2. Lone /\ \A r \in Refreshers : Writes(r)
  BY <1>0 DEF Lone, Writes, Written, At
<1>3. InOrder
  BY <1>0 DEF InOrder
<1> QED
  BY <1>1, <1>2, <1>3, InitTyped DEF IInv, Ordered

LEMMA StepReleased ==
  ASSUME IInv, [Next]_vars
  PROVE  Released'
<1>0. /\ TypeOK /\ Released
      /\ upstream \in Int /\ upstream >= 1 /\ 0 <= upstream
  <2>1. TypeOK /\ Released
    BY DEF IInv, Typed
  <2>2. upstream \in Versions /\ upstream # 0
    BY <2>1 DEF TypeOK
  <2> QED
    BY <2>1, <2>2, Positive
<1> USE DEF Released
<1>1. ASSUME NEW r \in Refreshers, NEW step, Goto(r, step), UNCHANGED <<files, upstream>>
      PROVE  Released'
  <2>1. refresh'[r].version \in {0, refresh[r].version}
    BY <1>0, <1>1, Gone
  <2>2. \A q \in Refreshers : refresh'[q].version <= upstream
    BY <1>0, <1>1, <2>1, Gone
  <2> QED
    BY <1>0, <1>1, <2>2
<1>2. ASSUME NEW r \in Refreshers, NEW state, Become(r, state), state.version <= upstream,
             UNCHANGED <<files, upstream>>
      PROVE  Released'
  BY <1>0, <1>2 DEF Become, TypeOK
<1>3. ASSUME NEW r \in Refreshers, Start(r) \/ CustomUnavailable(r) \/ ReadTag(r)
      PROVE  Released'
  <2>1. 0 <= upstream /\ Idle.version = 0 /\ refresh[r].version <= upstream
    BY <1>0 DEF Idle
  <2>2. CASE Start(r)
    BY <2>1, <2>2, <1>2 DEF Start, Idle
  <2>3. CASE CustomUnavailable(r)
    <3> DEFINE state == [refresh[r] EXCEPT !.custom = ""]
    <3>1. state.version = refresh[r].version
      BY <1>0 DEF TypeOK
    <3>2. Become(r, state) /\ UNCHANGED <<files, upstream>>
      BY <2>3 DEF CustomUnavailable
    <3>3. state.version <= upstream
      BY <2>1, <3>1
    <3> HIDE DEF state
    <3> QED BY <3>2, <3>3, <1>2
  <2>4. CASE ReadTag(r)
    <3> DEFINE state == [refresh[r] EXCEPT !.at = "request", !.tag = files["tag"].cur]
    <3>1. state.version = refresh[r].version
      BY <1>0 DEF TypeOK
    <3>2. Become(r, state) /\ UNCHANGED <<files, upstream>>
      BY <2>4 DEF ReadTag, Kept
    <3>3. state.version <= upstream
      BY <2>1, <3>1
    <3> HIDE DEF state
    <3> QED BY <3>2, <3>3, <1>2
  <2> QED
    BY <1>3, <2>2, <2>3, <2>4
<1>4. ASSUME NEW r \in Refreshers, Download(r)
      PROVE  Released'
  <2>1. PICK tagged \in BOOLEAN :
          Become(r, [refresh[r] EXCEPT !.at = "compile", !.version = upstream, !.tagged = tagged])
    BY <1>4 DEF Download
  <2> DEFINE state == [refresh[r] EXCEPT !.at = "compile", !.version = upstream, !.tagged = tagged]
  <2>2. state.version = upstream
    BY <1>0 DEF TypeOK
  <2>3. state.version <= upstream
    BY <1>0, <2>2
  <2> QED
    BY <1>4, <2>1, <2>3, <1>2 DEF Download, Kept
<1>5. ASSUME NEW r \in Refreshers, OpenManifest(r)
      PROVE  Released'
  <2> DEFINE state == [refresh[r] EXCEPT !.at = "recompile", !.version = files["manifest"].cur]
  <2>1. files["manifest"].cur <= upstream
    BY <1>0
  <2>2. state.version = files["manifest"].cur
    BY <1>0 DEF TypeOK
  <2> QED
    BY <1>5, <2>1, <2>2, <1>2 DEF OpenManifest, Kept
<1>6. ASSUME NEW r \in Refreshers,
             NotModified(r) \/ IndexUsable(r) \/ CompileDownload(r) \/ Recompile(r) \/ Fails(r)
               \/ EnsureFails(r)
      PROVE  Released'
  BY <1>6, <1>1 DEF NotModified, IndexUsable, CompileDownload, Recompile, Fails, EnsureFails, Done, Kept
<1>7. ASSUME NEW r \in Refreshers, NEW file \in {"manifest", "tag"}, NEW step, NEW then,
             WriteNew(r, step, file, then) \/ RenameNew(r, step, file, then)
      PROVE  Released'
  <2>1. /\ files[file].new <= upstream /\ files[file].cur <= upstream
        /\ refresh[r].version <= upstream /\ 0 <= upstream
    BY <1>0
  <2>2. \A f \in {"manifest", "tag"} :
          /\ files'[f].cur \in {files[f].cur, files[f].new}
          /\ files'[f].new \in {files[f].new, refresh[r].version, 0}
    <3>1. CASE files' = [files EXCEPT ![file].new = refresh[r].version]
      BY <1>0, <3>1 DEF TypeOK
    <3>2. CASE files' = [files EXCEPT ![file] = [cur |-> @.new, new |-> 0]]
      BY <1>0, <3>2 DEF TypeOK
    <3>3. CASE files' = files
      BY <3>3
    <3> QED
      BY <1>7, <3>1, <3>2, <3>3 DEF WriteNew, RenameNew
  <2>3. \E t : Goto(r, t)
    BY <1>7 DEF WriteNew, RenameNew
  <2>4. \A q \in Refreshers : refresh'[q].version \in {0, refresh[q].version}
    BY <1>0, <2>3, Gone
  <2>5. upstream' = upstream
    BY <1>7 DEF WriteNew, RenameNew, Kept
  <2> QED
    BY <1>0, <2>1, <2>2, <2>4, <2>5
<1>8. CASE Crash
  BY <1>0, <1>8 DEF Crash, Idle
<1>9. CASE LoseIndex \/ SetCustom
  BY <1>0, <1>9 DEF LoseIndex, SetCustom
<1>10. CASE NewVersion
  <2>1. upstream' = upstream + 1 /\ UNCHANGED <<files, refresh>>
    BY <1>10 DEF NewVersion
  <2> QED
    BY <1>0, <2>1, Integral
<1>11. CASE UNCHANGED vars
  BY <1>0, <1>11 DEF vars
<1> QED
  BY <1>3, <1>4, <1>5, <1>6, <1>7, <1>8, <1>9, <1>10, <1>11
     DEF Next, Step, WriteManifest, WriteTag, RenameManifest, RenameTag

LEMMA AbandonedIs == Abandoned = index \/ Abandoned.version = 0
  BY DEF Abandoned, Schema

LEMMA StepOrdered ==
  ASSUME IInv, [Next]_vars, ~overlapped'
  PROVE  Ordered'
<1>0. /\ TypeOK /\ Released
      /\ \A r \in Refreshers : refresh[r].at \in {"compile", "recompile"} => refresh[r].version >= 1
      /\ ~overlapped => Ordered
  BY DEF IInv, Typed, Versioned
<1>1. /\ upstream \in Int /\ index.version \in Int
      /\ files["tag"].cur \in Int /\ files["tag"].new \in Int
      /\ files["manifest"].cur \in Int /\ files["manifest"].new \in Int
      /\ \A r \in Refreshers : refresh[r].version \in Int
  BY <1>0, Integral
\* What a refresh does, once it is the only one and its own state is accounted for.
<1>2. ASSUME NEW r \in Refreshers, NEW step, Goto(r, step),
             \A q \in Refreshers \ {r} : At(q, "idle"), InOrder', Writes(r)'
      PROVE  Ordered'
  BY <1>0, <1>2, OrderedBy DEF Goto
<1>3. ASSUME NEW r \in Refreshers, Start(r)
      PROVE  Ordered'
  <2>1. Ordered /\ \A q \in Refreshers \ {r} : At(q, "idle")
    BY <1>0, <1>3 DEF Start, TypeOK
  <2>2. refresh'[r].at = "start"
    BY <1>0, <1>3 DEF Start, Become, TypeOK, Idle
  <2>3. InOrder' /\ Writes(r)'
    BY <1>3, <2>1, <2>2 DEF Start, Ordered, InOrder, Writes, Written, At
  <2> QED
    BY <1>0, <1>3, <2>1, <2>3, OrderedBy DEF Start
<1>4. ASSUME NEW r \in Refreshers, ~At(r, "idle"), overlapped' = overlapped
      PROVE  /\ Ordered /\ InOrder /\ Writes(r)
             /\ \A q \in Refreshers \ {r} : At(q, "idle")
  BY <1>0, <1>4, Busy DEF Ordered
<1>5. ASSUME NEW r \in Refreshers, CustomUnavailable(r) \/ ReadTag(r)
      PROVE  Ordered'
  <2>1. At(r, "start") /\ UNCHANGED <<files, index, overlapped>>
    BY <1>5 DEF CustomUnavailable, ReadTag, Kept
  <2>2. refresh'[r].at \in {"start", "request"}
    <3>1. CASE CustomUnavailable(r)
      BY <1>0, <3>1 DEF CustomUnavailable, Become, At, TypeOK
    <3>2. CASE ReadTag(r)
      BY <1>0, <3>2 DEF ReadTag, Become, TypeOK
    <3> QED
      BY <1>5, <3>1, <3>2
  <2>3. InOrder' /\ Writes(r)'
    BY <1>4, <2>1, <2>2 DEF InOrder, Writes, Written, At
  <2>4. \A q \in Refreshers \ {r} : At(q, "idle")
    BY <1>4, <2>1 DEF At
  <2> QED
    BY <1>0, <1>5, <2>3, <2>4, OrderedBy DEF CustomUnavailable, ReadTag
<1>6. ASSUME NEW r \in Refreshers, Download(r)
      PROVE  Ordered'
  <2>1. PICK tagged \in BOOLEAN :
          Become(r, [refresh[r] EXCEPT !.at = "compile", !.version = upstream, !.tagged = tagged])
    BY <1>6 DEF Download
  <2>2. At(r, "request") /\ UNCHANGED <<files, index, overlapped, upstream>>
    BY <1>6 DEF Download, Kept
  <2>3. refresh'[r].at = "compile" /\ refresh'[r].version = upstream
    BY <1>0, <2>1 DEF Become, TypeOK
  <2>4. files["tag"].cur <= upstream
    BY <1>0 DEF Released
  <2>5. InOrder' /\ Writes(r)'
    BY <1>4, <2>2, <2>3, <2>4 DEF InOrder, Writes, Written, At
  <2>6. \A q \in Refreshers \ {r} : At(q, "idle")
    BY <1>4, <2>2 DEF At
  <2> QED
    BY <1>0, <2>1, <2>5, <2>6, OrderedBy
<1>7. ASSUME NEW r \in Refreshers, OpenManifest(r)
      PROVE  Ordered'
  <2>1. At(r, "ensure") /\ UNCHANGED <<files, index, overlapped>>
    BY <1>7 DEF OpenManifest, Kept
  <2>2. refresh'[r].at = "recompile" /\ refresh'[r].version = files["manifest"].cur
    BY <1>0, <1>7 DEF OpenManifest, Become, TypeOK
  <2>3. InOrder /\ \A q \in Refreshers \ {r} : At(q, "idle")
    BY <1>4, <2>1 DEF At
  <2>4. InOrder' /\ Writes(r)'
    BY <2>1, <2>2, <2>3 DEF InOrder, Writes, Written, At
  <2> QED
    BY <1>0, <1>7, <2>3, <2>4, OrderedBy DEF OpenManifest
<1>8. ASSUME NEW r \in Refreshers, NotModified(r) \/ IndexUsable(r)
      PROVE  Ordered'
  <2>1. PICK step \in {"idle", "ensure"} : Goto(r, step)
    BY <1>8 DEF NotModified, IndexUsable, Done
  <2>2. ~At(r, "idle") /\ UNCHANGED <<files, index, overlapped>>
    BY <1>8 DEF NotModified, IndexUsable, At, Kept
  <2>3. InOrder' /\ Writes(r)'
    BY <1>0, <1>4, <2>1, <2>2, Gone DEF InOrder, Writes, Written, At
  <2> QED
    BY <1>2, <1>4, <2>1, <2>2, <2>3
<1>9. ASSUME NEW r \in Refreshers, CompileDownload(r) \/ Recompile(r)
      PROVE  Ordered'
  <2>1. PICK step \in {"idle", "write"} : Goto(r, step)
    BY <1>9 DEF CompileDownload, Recompile, Done
  <2>2. /\ refresh[r].at \in {"compile", "recompile"} /\ UNCHANGED <<files, overlapped>>
        /\ index'.version = refresh[r].version
    BY <1>9 DEF CompileDownload, Recompile, At, Kept, Compile
  <2>3. ~At(r, "idle")
    BY <2>2 DEF At
  <2>4. InOrder /\ files["tag"].cur <= refresh[r].version
    BY <1>4, <2>2, <2>3 DEF Writes
  <2>5. refresh'[r].at = step /\ (step = "write" => refresh'[r].version = refresh[r].version)
    BY <1>0, <2>1, Gone
  <2>6. InOrder' /\ Writes(r)'
    BY <1>1, <2>2, <2>4, <2>5 DEF InOrder, Writes, Written, At
  <2> QED
    BY <1>2, <1>4, <2>1, <2>2, <2>3, <2>6
<1>10. ASSUME NEW r \in Refreshers, WriteManifest(r) \/ WriteTag(r)
       PROVE  Ordered'
  <2>1. ~At(r, "idle") /\ UNCHANGED <<index, overlapped>>
    BY <1>10 DEF WriteManifest, WriteTag, WriteNew, At, Kept
  <2>2. InOrder /\ Writes(r)
    BY <1>4, <2>1
  <2>3. CASE WriteManifest(r)
    <3>1. At(r, "write") /\ Goto(r, "rename") /\ files' = [files EXCEPT !["manifest"].new = refresh[r].version]
      BY <2>3 DEF WriteManifest, WriteNew
    <3>2. /\ files'["manifest"].new = refresh[r].version
          /\ files'["manifest"].cur = files["manifest"].cur /\ files'["tag"] = files["tag"]
      BY <1>0, <3>1 DEF TypeOK
    <3>3. refresh'[r].at = "rename" /\ refresh'[r].version = refresh[r].version
      BY <1>0, <3>1, Gone
    <3>4. InOrder' /\ Writes(r)'
      BY <2>1, <2>2, <3>1, <3>2, <3>3 DEF InOrder, Writes, Written, At
    <3> QED
      BY <1>2, <1>4, <2>1, <3>1, <3>4
  <2>4. CASE WriteTag(r)
    <3>1. At(r, "writeTag") /\ Goto(r, "renameTag") /\ files' = [files EXCEPT !["tag"].new = refresh[r].version]
      BY <2>4 DEF WriteTag, WriteNew
    <3>2. /\ files'["tag"].new = refresh[r].version
          /\ files'["tag"].cur = files["tag"].cur /\ files'["manifest"] = files["manifest"]
      BY <1>0, <3>1 DEF TypeOK
    <3>3. refresh'[r].at = "renameTag" /\ refresh'[r].version = refresh[r].version
      BY <1>0, <3>1, Gone
    <3>4. InOrder' /\ Writes(r)'
      BY <2>1, <2>2, <3>1, <3>2, <3>3 DEF InOrder, Writes, Written, At
    <3> QED
      BY <1>2, <1>4, <2>1, <3>1, <3>4
  <2> QED
    BY <1>10, <2>3, <2>4
<1>11. ASSUME NEW r \in Refreshers, RenameManifest(r) \/ RenameTag(r)
       PROVE  Ordered'
  <2>1. ~At(r, "idle") /\ UNCHANGED <<index, overlapped>>
    BY <1>11 DEF RenameManifest, RenameTag, RenameNew, At, Kept
  <2>2. InOrder /\ Writes(r)
    BY <1>4, <2>1
  <2>3. ASSUME files' = files, Goto(r, "ensure")
        PROVE  Ordered'
    <3>1. refresh'[r].at = "ensure"
      BY <1>0, <2>3, Gone
    <3>2. InOrder' /\ Writes(r)'
      BY <2>1, <2>2, <2>3, <3>1 DEF InOrder, Writes, Written, At
    <3> QED
      BY <1>2, <1>4, <2>1, <2>3, <3>2
  <2>4. ASSUME RenameManifest(r), files["manifest"].new # 0
        PROVE  Ordered'
    <3>1. /\ At(r, "rename")
          /\ files' = [files EXCEPT !["manifest"] = [cur |-> @.new, new |-> 0]]
      BY <2>4 DEF RenameManifest, RenameNew
    <3>2. PICK step \in {"writeTag", "idle"} : Goto(r, step)
      BY <2>4 DEF RenameManifest, RenameNew
    <3>3. files["manifest"].new = refresh[r].version
      BY <2>2, <3>1 DEF Writes
    <3>4. files'["manifest"].cur = refresh[r].version /\ files'["tag"] = files["tag"]
      BY <1>0, <3>1, <3>3 DEF TypeOK
    <3>5. refresh'[r].at = step /\ (step # "idle" => refresh'[r].version = refresh[r].version)
      BY <1>0, <3>2, Gone
    <3>6. files["tag"].cur <= refresh[r].version
      BY <2>2, <3>1 DEF Writes, Written, At
    <3>7. InOrder' /\ Writes(r)'
      BY <1>1, <2>1, <2>2, <3>1, <3>4, <3>5, <3>6 DEF InOrder, Writes, Written, At
    <3> QED
      BY <1>2, <1>4, <2>1, <3>2, <3>7
  <2>5. ASSUME RenameTag(r), files["tag"].new # 0
        PROVE  Ordered'
    <3>1. /\ At(r, "renameTag") /\ Goto(r, "idle")
          /\ files' = [files EXCEPT !["tag"] = [cur |-> @.new, new |-> 0]]
      BY <2>5 DEF RenameTag, RenameNew
    <3>2. files["tag"].new = refresh[r].version /\ refresh[r].version <= files["manifest"].cur
          /\ (index.version >= 1 => refresh[r].version <= index.version)
      BY <2>2, <3>1 DEF Writes, Written, At
    <3>3. files'["tag"].cur = refresh[r].version /\ files'["manifest"] = files["manifest"]
      BY <1>0, <3>1, <3>2 DEF TypeOK
    <3>4. refresh'[r].at = "idle"
      BY <1>0, <3>1, Gone
    <3>5. InOrder' /\ Writes(r)'
      BY <2>1, <3>2, <3>3, <3>4 DEF InOrder, Writes, Written, At
    <3> QED
      BY <1>2, <1>4, <2>1, <3>1, <3>5
  <2> QED
    BY <1>11, <2>3, <2>4, <2>5 DEF RenameManifest, RenameTag, RenameNew
<1>12. ASSUME NEW r \in Refreshers, Fails(r) \/ EnsureFails(r)
       PROVE  Ordered'
  <2>1. PICK step \in {"idle", "ensure"} : Goto(r, step)
    BY <1>12 DEF Fails, EnsureFails, Done
  <2>2. ~At(r, "idle") /\ UNCHANGED <<files, overlapped>>
    BY <1>12 DEF Fails, EnsureFails, At
  <2>3. index' = index \/ index'.version = 0
    BY <1>12, AbandonedIs DEF Fails, EnsureFails
  <2>4. refresh'[r].at = step
    BY <1>0, <2>1, Gone
  <2>5. InOrder' /\ Writes(r)'
    BY <1>4, <2>2, <2>3, <2>4 DEF InOrder, Writes, Written, At
  <2> QED
    BY <1>2, <1>4, <2>1, <2>2, <2>5
<1>13. CASE Crash
  <2>1. Ordered /\ UNCHANGED files
    BY <1>0, <1>13 DEF Crash
  <2>2. \A r \in Refreshers : refresh'[r].at = "idle"
    BY <1>13 DEF Crash, Idle
  <2>3. index' = index \/ index'.version = 0
    BY <1>13, AbandonedIs DEF Crash
  <2> QED
    BY <2>1, <2>2, <2>3 DEF Ordered, Lone, InOrder, Writes, Written, At
<1>14. CASE LoseIndex
  <2>1. Ordered /\ UNCHANGED <<files, refresh>> /\ index'.version = -1
    BY <1>0, <1>14 DEF LoseIndex, NoFile
  <2> QED
    BY <2>1 DEF Ordered, Lone, InOrder, Writes, Written, At
<1>15. CASE SetCustom \/ NewVersion \/ UNCHANGED vars
  <2>1. Ordered /\ UNCHANGED <<files, refresh, index>>
    BY <1>0, <1>15 DEF SetCustom, NewVersion, vars
  <2> QED
    BY <2>1 DEF Ordered, Lone, InOrder, Writes, Written, At
<1> QED
  BY <1>3, <1>5, <1>6, <1>7, <1>8, <1>9, <1>10, <1>11, <1>12, <1>13, <1>14, <1>15 DEF Next, Step

\* The stored ETag is never ahead of the manifest or of the index, for any
\* number of versions, failures and crashes, as long as no two refreshes
\* overlap.
THEOREM TagNotAheadCorrect == Spec => []TagNotAhead
<1>1. IInv /\ [Next]_vars => IInv'
  BY StepTyped, StepReleased, StepOrdered DEF IInv
<1>2. IInv => TagNotAhead
  BY DEF IInv, Ordered, InOrder, TagNotAhead
<1> QED
  BY <1>1, <1>2, InitOrdered, PTL DEF Spec

-----------------------------------------------------------------------------
(* The games.  Only a compilation that commits, or the loss of the file,   *)
(* replaces the rows of the index.                                         *)

LEMMA AbandonedKeeps ==
  ASSUME index.version >= 1
  PROVE  Abandoned = index
<1>1. NoFile.version = -1
  BY DEF NoFile
<1> QED
  BY <1>1 DEF Abandoned

LEMMA GamesKept ==
  ASSUME Typed, index.version >= 1, [Next]_vars, ~LoseIndex
  PROVE  index'.version >= 1
<1>1. ASSUME index' = index
      PROVE  index'.version >= 1
  BY <1>1
<1>2. ASSUME NEW r \in Refreshers, Start(r) \/ CustomUnavailable(r)
      PROVE  index' = index
  BY <1>2 DEF Start, CustomUnavailable
<1>3. ASSUME NEW r \in Refreshers, CompileDownload(r) \/ Recompile(r)
      PROVE  index'.version >= 1
  <2>1. refresh[r].version >= 1 /\ Compile(r)
    BY <1>3 DEF CompileDownload, Recompile, Typed, Versioned, At
  <2> QED
    BY <2>1 DEF Compile
<1>4. ASSUME NEW r \in Refreshers, Step(r), ~CompileDownload(r), ~Recompile(r)
      PROVE  index' = index
  BY <1>4 DEF Step, ReadTag, NotModified, Download, WriteManifest, WriteTag, WriteNew,
              RenameManifest, RenameTag, RenameNew, IndexUsable, OpenManifest, Kept
<1>5. ASSUME NEW r \in Refreshers, Fails(r) \/ EnsureFails(r)
      PROVE  index' = index
  BY <1>5, AbandonedKeeps DEF Fails, EnsureFails
<1>6. CASE Crash
  BY <1>6, AbandonedKeeps DEF Crash
<1>7. CASE SetCustom \/ NewVersion \/ UNCHANGED vars
  BY <1>7 DEF SetCustom, NewVersion, vars
<1> QED
  BY <1>1, <1>2, <1>3, <1>4, <1>5, <1>6, <1>7 DEF Next

\* CatalogKept: a refresh that fails, is interrupted, or overlaps another one
\* leaves an index that has games with games: the transaction of Compile is
\* all that replaces them, and it always has a version to write.
THEOREM CatalogKeptCorrect == Spec => CatalogKept
<1>1. Typed /\ [Next]_vars => [index.version >= 1 => index'.version >= 1 \/ LoseIndex]_vars
  BY GamesKept
<1> QED
  BY <1>1, TypedCorrect, PTL DEF Spec, CatalogKept
=============================================================================
