----------------------------- MODULE CatalogCache -----------------------------
(***************************************************************************)
(* The local copy of the Ludusavi catalog: Coordinator.refreshCatalog      *)
(* (internal/app/coordinator.go), Fetcher.Update and writeAtomic           *)
(* (internal/catalog/ludusavi.go), EnsureIndex, Compile and fillIndex      *)
(* (internal/catalog/index.go).                                            *)
(*                                                                         *)
(* Three files have to agree: the manifest as it was downloaded, the index *)
(* compiled from it (an SQLite database that also records the custom       *)
(* manifests merged into it), and the ETag that makes the server answer    *)
(* "not modified".  They are written one after the other, a refresh may    *)
(* fail or the process end in between, and nothing keeps the daily refresh *)
(* of the loop and one asked for over HTTP apart.                          *)
(***************************************************************************)
EXTENDS Integers

CONSTANTS
  Refreshers,   \* "loop", the coordinator's own, and HTTP requests
  Customs,      \* what the custom manifests may be; "" when there are none
  MaxVersion,   \* a bound on the versions of the catalog
  MaxFaults     \* a bound on failures, crashes, lost indexes and new settings

ASSUME CustomsAssumption == "" \in Customs
ASSUME LoopAssumption == "loop" \in Refreshers
ASSUME BoundsAssumption == MaxVersion \in Nat \ {0} /\ MaxFaults \in Nat

VARIABLES
  upstream,     \* the version the server has; its ETag is the version
  custom,       \* the custom manifests the settings name
  index,        \* what the index was compiled from, or NoFile
  files,        \* files[f].cur: the version the manifest or the ETag is of, 0: none;
                \* files[f].new: the same of the sibling file "<name>.new"
  refresh,      \* refresh[r]: how far a refresh has come
  faults,       \* how many faults there were
  \* For the properties.
  overlapped,   \* two refreshes were under way at once
  lost          \* the index was lost

vars == <<upstream, custom, index, files, refresh, faults, overlapped, lost>>

Versions == 0..MaxVersion

NoFile == [version |-> -1, custom |-> ""]
Schema == [version |-> 0, custom |-> ""]     \* the tables, without a game

Idle == [at |-> "idle", custom |-> "", tag |-> 0, version |-> 0, tagged |-> FALSE]

TypeOK ==
  /\ upstream \in Versions \ {0}
  /\ custom \in Customs
  /\ index \in [version : -1..MaxVersion, custom : Customs]
  /\ index.version < 1 => index.custom = ""
  /\ files \in [{"manifest", "tag"} -> [cur : Versions, new : Versions]]
  /\ refresh \in [Refreshers -> [
       at : {"idle", "start", "request", "compile", "write", "rename", "writeTag",
             "renameTag", "ensure", "recompile"},
       custom : Customs, tag : Versions, version : Versions, tagged : BOOLEAN]]
  /\ faults \in 0..MaxFaults
  /\ overlapped \in BOOLEAN /\ lost \in BOOLEAN

Init ==
  /\ upstream = 1
  /\ custom = ""
  /\ index = NoFile
  /\ files = [f \in {"manifest", "tag"} |-> [cur |-> 0, new |-> 0]]
  /\ refresh = [r \in Refreshers |-> Idle]
  /\ faults = 0
  /\ overlapped = FALSE /\ lost = FALSE

-----------------------------------------------------------------------------
At(r, step) == refresh[r].at = step
Become(r, state) == refresh' = [refresh EXCEPT ![r] = state]
Goto(r, step) == Become(r, IF step = "idle" THEN Idle ELSE [refresh[r] EXCEPT !.at = step])
Done(r) == Goto(r, "idle")

Kept == UNCHANGED <<upstream, custom, faults, overlapped, lost>>
Fault == faults < MaxFaults /\ faults' = faults + 1

\* refreshCatalog begins with the custom manifests.
Start(r) ==
  /\ At(r, "idle")
  /\ Become(r, [Idle EXCEPT !.at = "start", !.custom = custom])
  /\ overlapped' = (overlapped \/ \E q \in Refreshers \ {r} : ~At(q, "idle"))
  /\ UNCHANGED <<upstream, custom, index, files, faults, lost>>

\* A custom manifest that cannot be loaded or parsed is left out.
CustomUnavailable(r) ==
  /\ At(r, "start")
  /\ refresh[r].custom # ""
  /\ Fault
  /\ Become(r, [refresh[r] EXCEPT !.custom = ""])
  /\ UNCHANGED <<upstream, custom, index, files, overlapped, lost>>

\* Update reads the ETag of the last download.
ReadTag(r) ==
  /\ At(r, "start")
  /\ Become(r, [refresh[r] EXCEPT !.at = "request", !.tag = files["tag"].cur])
  /\ Kept /\ UNCHANGED <<index, files>>

\* 304.
NotModified(r) ==
  /\ At(r, "request")
  /\ refresh[r].tag = upstream
  /\ Goto(r, "ensure")
  /\ Kept /\ UNCHANGED <<index, files>>

\* 200, with the document and perhaps its ETag.
Download(r) ==
  /\ At(r, "request")
  /\ refresh[r].tag # upstream
  /\ \E tagged \in BOOLEAN :
       Become(r, [refresh[r] EXCEPT !.at = "compile", !.version = upstream, !.tagged = tagged])
  /\ Kept /\ UNCHANGED <<index, files>>

\* Compile replaces every row in one transaction.
Compile(r) == index' = [version |-> refresh[r].version, custom |-> refresh[r].custom]

AbandonedWithFingerprint == IF index = NoFile THEN [Schema EXCEPT !.custom = custom] ELSE index
AbandonedWithoutRows == Schema

\* A compilation that does not commit leaves the tables it created, if there
\* were none, and the rows as they were.
Abandoned == IF index = NoFile THEN Schema ELSE index

CompileDownloadAfterTag(r) ==
  /\ At(r, "compile")
  /\ Compile(r)
  /\ files' = IF refresh[r].tagged THEN [files EXCEPT !["tag"].cur = refresh[r].version] ELSE files
  /\ Goto(r, "write")
  /\ Kept

CompileDownload(r) ==
  /\ At(r, "compile")
  /\ Compile(r)
  /\ Goto(r, "write")
  /\ Kept /\ UNCHANGED files

-----------------------------------------------------------------------------
(* writeAtomic writes a sibling file, whose name every refresh shares, and *)
(* renames it.                                                             *)

WriteNew(r, step, file, then) ==
  /\ At(r, step)
  /\ files' = [files EXCEPT ![file].new = refresh[r].version]
  /\ Goto(r, then)
  /\ Kept /\ UNCHANGED index

\* The sibling may be another refresh's by now, or gone: then Update fails.
RenameNew(r, step, file, then) ==
  /\ At(r, step)
  /\ IF files[file].new # 0
       THEN files' = [files EXCEPT ![file] = [cur |-> @.new, new |-> 0]] /\ Goto(r, then)
       ELSE files' = files /\ Goto(r, "ensure")
  /\ Kept /\ UNCHANGED index

WriteManifest(r) == WriteNew(r, "write", "manifest", "rename")
RenameManifest(r) ==
  RenameNew(r, "rename", "manifest", IF refresh[r].tagged THEN "writeTag" ELSE "idle")
WriteTag(r) == WriteNew(r, "writeTag", "tag", "renameTag")
RenameTag(r) == RenameNew(r, "renameTag", "tag", "idle")

-----------------------------------------------------------------------------
(* EnsureIndex, after "not modified" and after an error.                   *)

UsableWhateverCustom(r) == index # NoFile

\* Count succeeds on every index that is there, one without games included.
Usable(r) == index # NoFile /\ index.custom = refresh[r].custom

IndexUsable(r) ==
  /\ At(r, "ensure")
  /\ Usable(r) \/ files["manifest"].cur = 0
  /\ Done(r)
  /\ Kept /\ UNCHANGED <<index, files>>

OpenManifest(r) ==
  /\ At(r, "ensure")
  /\ ~Usable(r) /\ files["manifest"].cur # 0
  /\ Become(r, [refresh[r] EXCEPT !.at = "recompile", !.version = files["manifest"].cur])
  /\ Kept /\ UNCHANGED <<index, files>>

Recompile(r) ==
  /\ At(r, "recompile")
  /\ Compile(r)
  /\ Done(r)
  /\ Kept /\ UNCHANGED files

-----------------------------------------------------------------------------
\* No answer, a status that is not 200, a file that cannot be written, a
\* compilation that is cancelled: the index of the last download has to do.
Fails(r) ==
  /\ refresh[r].at \in {"start", "request", "compile", "write", "rename", "writeTag", "renameTag"}
  /\ Fault
  /\ index' = IF At(r, "compile") THEN Abandoned ELSE index
  /\ Goto(r, "ensure")
  /\ UNCHANGED <<upstream, custom, files, overlapped, lost>>

\* EnsureIndex fails.  When Update called it, refreshCatalog calls it once more.
EnsureFails(r) ==
  /\ refresh[r].at \in {"ensure", "recompile"}
  /\ Fault
  /\ index' = IF At(r, "recompile") THEN Abandoned ELSE index
  /\ \/ Goto(r, "idle")
     \/ Goto(r, "ensure")
  /\ UNCHANGED <<upstream, custom, files, overlapped, lost>>

\* The process ends, and starts again with what is on disk.
Crash ==
  /\ Fault
  /\ refresh' = [r \in Refreshers |-> Idle]
  /\ index' \in {index} \cup
       {Abandoned : r \in {q \in Refreshers : refresh[q].at \in {"compile", "recompile"}}}
  /\ UNCHANGED <<upstream, custom, files, overlapped, lost>>

\* External: the cached index is deleted.
LoseIndex ==
  /\ Fault
  /\ index' = NoFile
  /\ lost' = TRUE
  /\ UNCHANGED <<upstream, custom, files, refresh, overlapped>>

\* Manager.ConfigureLocal names other custom manifests.
SetCustom ==
  /\ Fault
  /\ custom' \in Customs \ {custom}
  /\ UNCHANGED <<upstream, index, files, refresh, overlapped, lost>>

\* External: a new version of the catalog.
NewVersion ==
  /\ upstream < MaxVersion
  /\ upstream' = upstream + 1
  /\ UNCHANGED <<custom, index, files, refresh, faults, overlapped, lost>>

-----------------------------------------------------------------------------
Step(r) ==
  \/ ReadTag(r) \/ NotModified(r) \/ Download(r) \/ CompileDownload(r)
  \/ WriteManifest(r) \/ RenameManifest(r) \/ WriteTag(r) \/ RenameTag(r)
  \/ IndexUsable(r) \/ OpenManifest(r) \/ Recompile(r)

Next ==
  \/ \E r \in Refreshers :
       Start(r) \/ Step(r) \/ CustomUnavailable(r) \/ Fails(r) \/ EnsureFails(r)
  \/ Crash \/ LoseIndex \/ SetCustom \/ NewVersion

\* The loop refreshes at its start and every 24 hours, and a refresh that has
\* begun runs to its end: the client gives up after 45 seconds.
Fairness == WF_vars(Start("loop")) /\ \A r \in Refreshers : WF_vars(Step(r))

Spec == Init /\ [][Next]_vars /\ Fairness

-----------------------------------------------------------------------------
(* Properties.                                                             *)

\* The stored ETag is never of a later version than the manifest, nor than the
\* index, wherever a refresh failed or the process ended: an ETag ahead of the
\* files makes the server answer "not modified", and the new version would not
\* arrive before the one after it.  Two refreshes at once can break it.
TagNotAhead ==
  \/ overlapped
  \/ /\ files["tag"].cur <= files["manifest"].cur
     /\ index.version >= 1 => files["tag"].cur <= index.version

\* A refresh, whatever becomes of it, does not discard the games of the index:
\* "A failed download or broken custom manifest is reported without discarding
\* the usable catalog" (coordinator.go:319-320).
CatalogKept == [][index.version >= 1 => index'.version >= 1 \/ LoseIndex]_vars

\* Once failures, new versions and new settings cease, the index becomes and
\* stays the current catalog with the current custom manifests, though the
\* document is downloaded only when its ETag differs (ludusavi.go:248-256;
\* "EnsureIndex rebuilds the index when it [...] was built with different custom
\* manifests", index.go:34-35).  It is not promised when refreshes overlap, or
\* when the index is lost: Count accepts an index without games.
CatalogCurrent ==
  \/ <>[](index = [version |-> upstream, custom |-> custom])
  \/ <>(overlapped \/ lost)
=============================================================================
