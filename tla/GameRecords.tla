----------------------------- MODULE GameRecords -----------------------------
(***************************************************************************)
(* The games of the library, their save locations and their artwork: what  *)
(* a scan registers (Coordinator.discover, internal/app/coordinator.go,    *)
(* with internal/discovery), what a user changes over HTTP (internal/api), *)
(* and the statements both come down to (internal/database/store.go).      *)
(*                                                                         *)
(* A scan holds reconcileMu; requests hold nothing.  A game is found by a  *)
(* launcher, or by the scan for saves of catalog entries no launcher game  *)
(* was matched to (the game is then named after the entry), or added by    *)
(* hand.  A place stands for a template together with what it resolves to. *)
(***************************************************************************)
EXTENDS FiniteSets, Integers

CONSTANTS
  Launched,     \* the games of Steam, Epic and GOG
  Entries,      \* the catalog's entries, and the games found by their saves
  Manual,       \* the games added by hand
  Places,
  PlacesOf,     \* PlacesOf[e]: the places an entry names
  Globs,        \* the places whose template has a wildcard
  Typed,        \* the places a user names
  Pictured,     \* a bound on the games whose picture and switch are changed
  Formats,      \* the file name extensions of artwork
  Callers,      \* HTTP handlers that take several steps
  MaxRequests,  \* a bound on what users ask for
  MaxChanges,   \* a bound on what happens on disk and in the catalog
  MaxFaults,    \* a bound on failures and crashes
  None

Games == Launched \cup Entries \cup Manual

ASSUME PlacesAssumption ==
  PlacesOf \in [Entries -> SUBSET Places] /\ Globs \subseteq Places /\ Typed \subseteq Places
ASSUME GamesAssumption ==
  /\ Launched \cap Entries = {} /\ Launched \cap Manual = {} /\ Entries \cap Manual = {}
  /\ Pictured \subseteq Games
  /\ None \notin Games /\ {"default", "none"} \cap Formats = {}
ASSUME BoundsAssumption == MaxRequests \in Nat /\ MaxChanges \in Nat /\ MaxFaults \in Nat

VARIABLES
  games,        \* games[g]: the row of a game, or NoGame
  rows,         \* rows[g]: its rows in game_paths
  artwork,      \* artwork[g]: the formats of the picture files there are
  disk,         \* the places that exist
  match,        \* match[g]: the entry an installed game is matched to, or None
  scan,         \* the scan under way
  call,         \* call[c]: the request of a caller
  count,        \* how many requests, changes and faults there were
  raced         \* for the properties: games two requests wrote at once

vars == <<games, rows, artwork, disk, match, scan, call, count, raced>>
world == <<disk, match>>

NoGame == [entry |-> None, registry |-> None, located |-> FALSE,
           enabled |-> FALSE, hidden |-> FALSE, image |-> "none"]
Row == [place : Places, source : {"catalog", "custom"}, enabled : BOOLEAN]
Images == {"default"} \cup Formats

NoScan == [at |-> "idle", todo |-> {}, game |-> None, entry |-> None,
           matched |-> {}, found |-> {}, places |-> {}]
NoCall == [at |-> "idle", game |-> None, sets |-> "", enabled |-> FALSE, image |-> "none",
           then |-> "idle", file |-> "none", entry |-> None, places |-> {}]

Known(g) == games[g] # NoGame
CatalogPlaces(g) == {r.place : r \in {q \in rows[g] : q.source = "catalog"}}

TypeOK ==
  /\ games \in [Games -> {NoGame} \cup [
       entry : Entries \cup {None}, registry : Entries \cup {None}, located : BOOLEAN,
       enabled : BOOLEAN, hidden : BOOLEAN, image : Images]]
  /\ rows \in [Games -> SUBSET Row]
  /\ \A g \in Games :
       /\ \A r, q \in rows[g] : r.place = q.place => r = q
       /\ ~Known(g) => rows[g] = {}
  /\ artwork \in [Games -> SUBSET Formats]
  /\ disk \subseteq Places
  /\ match \in [Launched -> Entries \cup {None}]
  /\ scan \in [at : {"idle", "match", "register", "save", "clear"},
               todo : SUBSET Games, game : Launched \cup {None}, entry : Entries \cup {None},
               matched : SUBSET Entries, found : SUBSET Entries, places : SUBSET Places]
  /\ call \in [Callers -> [
       at : {"idle", "read", "write", "cleanup", "remove", "remap"}, game : Games \cup {None},
       sets : {"", "enabled", "image"}, enabled : BOOLEAN, image : Images \cup {"none"},
       then : {"idle", "cleanup", "remove"}, file : Formats \cup {"none"},
       entry : Entries \cup {None}, places : SUBSET Places]]
  /\ count \in [requests : 0..MaxRequests, changes : 0..MaxChanges, faults : 0..MaxFaults]
  /\ raced \subseteq Games

Init ==
  /\ games = [g \in Games |-> NoGame]
  /\ rows = [g \in Games |-> {}]
  /\ artwork = [g \in Games |-> {}]
  /\ disk = UNION {PlacesOf[e] : e \in Entries}
  /\ match \in [Launched -> Entries \cup {None}]
  /\ scan = NoScan
  /\ call = [c \in Callers |-> NoCall]
  /\ count = [requests |-> 0, changes |-> 0, faults |-> 0]
  /\ raced = {}

Tick(kind, bound) == count[kind] < bound /\ count' = [count EXCEPT ![kind] = @ + 1]
Request == Tick("requests", MaxRequests)
Change == Tick("changes", MaxChanges)
Fault == Tick("faults", MaxFaults)

-----------------------------------------------------------------------------
(* The store.  Each of these is one transaction.                           *)

SavePathsTwice(old, desired) ==
  {r \in old : r.source = "custom" \/ r.place \in desired}
    \cup {[place |-> p, source |-> "catalog", enabled |-> TRUE] : p \in desired}

SavePathsReenabling(old, desired) ==
  {r \in old : r.source = "custom" /\ r.place \notin desired}
    \cup {[place |-> p, source |-> "catalog", enabled |-> TRUE] : p \in desired}

\* saveGamePaths: a row that is there already keeps its source and whether it is
\* enabled, and catalog rows that are not desired are deleted.
SavePaths(old, desired) ==
  {r \in old : r.source = "custom" \/ r.place \in desired}
    \cup {[place |-> p, source |-> "catalog", enabled |-> TRUE] :
            p \in desired \ {r.place : r \in old}}

\* The upsert of SaveGameRelations leaves what the user may have changed alone.
Upsert(g, entry, located) ==
  IF Known(g)
  THEN [games[g] EXCEPT !.entry = entry, !.located = located]
  ELSE [entry |-> entry, registry |-> None, located |-> located,
        enabled |-> TRUE, hidden |-> FALSE, image |-> "default"]

SaveGameRelations(g, entry, located, places, replaceRegistry) ==
  LET game == Upsert(g, entry, located)
  IN  /\ games' = [games EXCEPT ![g] =
           IF replaceRegistry THEN [game EXCEPT !.registry = entry] ELSE game]
      /\ rows' = [rows EXCEPT ![g] = SavePaths(@, places)]

SaveFailsHalfway(g, entry) ==
  /\ games' = [games EXCEPT ![g] = Upsert(g, entry, TRUE)]
  /\ UNCHANGED rows

\* A transaction that fails is rolled back.
SaveFails(g, entry) == UNCHANGED <<games, rows>>

-----------------------------------------------------------------------------
(* A scan.                                                                 *)

Scanning(step) == scan.at = step
ScanOnly == UNCHANGED <<artwork, world, call, raced>>

\* The paths of a launcher's game: wildcards have to match, other places need
\* not exist (resolveDefinitionPaths).  Those of the search for saves do
\* (localMatches).
Resolved(e) == {p \in PlacesOf[e] : p \in Globs => p \in disk}
Present(e, existing) == PlacesOf[e] \cap existing

\* When the index or Steam's libraries cannot be read, discover ends here.
Discover ==
  /\ Scanning("idle")
  /\ scan' = [NoScan EXCEPT !.at = "match", !.todo = Launched]
  /\ ScanOnly /\ UNCHANGED <<games, rows, count>>

\* registerSteamGames and registerInstalledGames: what is not installed or not
\* in the catalog is passed over; what is matched is not searched for again.
Match(g) ==
  /\ Scanning("match") /\ g \in scan.todo
  /\ scan' = IF match[g] = None
             THEN [scan EXCEPT !.todo = @ \ {g}]
             ELSE [scan EXCEPT !.at = "register", !.game = g, !.entry = match[g],
                               !.matched = @ \cup {match[g]}, !.places = Resolved(match[g])]
  /\ ScanOnly /\ UNCHANGED <<games, rows, count>>

\* The lookup fails: neither registered nor counted as matched.
MatchFails(g) ==
  /\ Scanning("match") /\ g \in scan.todo
  /\ Fault
  /\ scan' = [scan EXCEPT !.todo = @ \ {g}]
  /\ ScanOnly /\ UNCHANGED <<games, rows>>

NextGame == [scan EXCEPT !.at = "match", !.todo = @ \ {scan.game}, !.game = None,
                         !.entry = None, !.places = {}]

Register ==
  /\ Scanning("register")
  /\ SaveGameRelations(scan.game, scan.entry, TRUE, scan.places, TRUE)
  /\ scan' = NextGame
  /\ ScanOnly /\ UNCHANGED count

\* Paths or registry keys cannot be resolved, or the transaction fails.
RegisterFails ==
  /\ Scanning("register")
  /\ Fault
  /\ SaveFails(scan.game, scan.entry)
  /\ scan' = NextGame
  /\ ScanOnly

\* DiscoverLocalSaves, or its error, which ends the scan.
FindSaves ==
  LET found == {e \in Entries \ scan.matched : Present(e, disk) # {}} IN
  /\ Scanning("match") /\ scan.todo = {}
  /\ scan' = [NoScan EXCEPT !.at = "save", !.todo = found, !.found = found, !.places = disk]
  /\ ScanOnly /\ UNCHANGED <<games, rows, count>>

ScanFails ==
  /\ scan.at \in {"match", "clear"}
  /\ Fault
  /\ scan' = NoScan
  /\ ScanOnly /\ UNCHANGED <<games, rows>>

\* registerLocalSaves.
RegisterLocal(e) ==
  /\ Scanning("save") /\ e \in scan.todo
  /\ scan' = [scan EXCEPT !.todo = @ \ {e}]
  /\ \/ /\ SaveGameRelations(e, e, FALSE, Present(e, scan.places), FALSE)
        /\ UNCHANGED count
     \/ Fault /\ SaveFails(e, e)
  /\ ScanOnly

ForgottenHidden == {e \in Entries \ scan.found : Known(e) /\ games[e].hidden}

Forgotten == {e \in Entries \ scan.found : Known(e) /\ ~games[e].hidden}

\* clearStaleLocalPaths lists the games that are not hidden.
ListLocal ==
  /\ Scanning("save") /\ scan.todo = {}
  /\ scan' = [NoScan EXCEPT !.at = "clear", !.todo = Forgotten]
  /\ ScanOnly /\ UNCHANGED <<games, rows, count>>

\* ReplaceCatalogPaths with no paths, or its error.
ClearStale(e) ==
  /\ Scanning("clear") /\ e \in scan.todo
  /\ scan' = [scan EXCEPT !.todo = @ \ {e}]
  /\ \/ rows' = [rows EXCEPT ![e] = SavePaths(@, {})] /\ UNCHANGED count
     \/ Fault /\ UNCHANGED rows
  /\ ScanOnly /\ UNCHANGED games

Discovered ==
  /\ Scanning("clear") /\ scan.todo = {}
  /\ scan' = NoScan
  /\ ScanOnly /\ UNCHANGED <<games, rows, count>>

-----------------------------------------------------------------------------
(* Requests of one statement.                                              *)

RowsOnly == UNCHANGED <<games, artwork, world, scan, call, raced>>

AddGame(g, p) ==
  /\ ~Known(g)
  /\ Request
  /\ games' = [games EXCEPT ![g] = Upsert(g, None, FALSE)]
  /\ rows' = [rows EXCEPT ![g] = {[place |-> p, source |-> "custom", enabled |-> TRUE]}]
  /\ UNCHANGED <<artwork, world, scan, call, raced>>

\* A place a game has already is refused (UNIQUE).
AddPath(g, p) ==
  /\ Known(g)
  /\ \A r \in rows[g] : r.place # p
  /\ Request
  /\ rows' = [rows EXCEPT ![g] = @ \cup {[place |-> p, source |-> "custom", enabled |-> TRUE]}]
  /\ RowsOnly

UpdatePath(g, r) ==
  /\ r \in rows[g]
  /\ Request
  /\ rows' = [rows EXCEPT ![g] = (@ \ {r}) \cup {[r EXCEPT !.enabled = ~@]}]
  /\ RowsOnly

DeletePath(g, r) ==
  /\ r \in rows[g] /\ r.source = "custom"
  /\ Request
  /\ rows' = [rows EXCEPT ![g] = @ \ {r}]
  /\ RowsOnly

SetGameHidden(g) ==
  /\ Known(g)
  /\ Request
  /\ games' = [games EXCEPT ![g].hidden = ~@]
  /\ UNCHANGED <<rows, artwork, world, scan, call, raced>>

\* EnsureRemoteGame, when the history of another device is imported: a game that
\* is not known yet is disabled, and a picture of that device is not taken over.
EnsureRemoteGame(g) ==
  /\ ~Known(g)
  /\ Request
  /\ games' = [games EXCEPT ![g] = [Upsert(g, None, FALSE) EXCEPT !.enabled = FALSE]]
  /\ UNCHANGED <<rows, artwork, world, scan, call, raced>>

-----------------------------------------------------------------------------
(* Requests of several steps.                                              *)

Calling(c, step) == call[c].at = step
Become(c, request) == call' = [call EXCEPT ![c] = request]
Goto(c, step) == Become(c, IF step = "idle" THEN NoCall ELSE [call[c] EXCEPT !.at = step])

Begin(c, g, request) ==
  /\ Calling(c, "idle")
  /\ Known(g)
  /\ Request
  /\ Become(c, [request EXCEPT !.game = g])
  /\ raced' = IF \E d \in Callers : call[d].game = g /\ ~Calling(d, "remap")
              THEN raced \cup {g} ELSE raced
  /\ UNCHANGED <<games, rows, world, scan>>

\* The picture that Store.UpdateGame is to record, and what comes after it.
SetImage(image, then, file) ==
  [NoCall EXCEPT !.at = "read", !.sets = "image", !.image = image, !.then = then, !.file = file]

\* A PATCH switches the game on or off or names a picture, as the pages never do:
\* one that is kept elsewhere, or one of the game's own that is there.
UpdateGame(c, g) ==
  /\ \/ Begin(c, g, [NoCall EXCEPT !.at = "read", !.sets = "enabled", !.enabled = ~games[g].enabled])
     \/ \E image \in {"default"} \cup artwork[g] : Begin(c, g, SetImage(image, "idle", "none"))
  /\ UNCHANGED artwork

UploadImageInPlace(c, g, f) ==
  /\ Begin(c, g, SetImage(f, "cleanup", f))
  /\ artwork' = [artwork EXCEPT ![g] = {f}]

\* The picture is renamed to "<game><extension>" before it is recorded.
UploadImage(c, g, f) ==
  /\ Begin(c, g, SetImage(f, "cleanup", f))
  /\ artwork' = [artwork EXCEPT ![g] = @ \cup {f}]

\* The default picture is recorded before the file is removed.
ResetImage(c, g) ==
  /\ games[g].image \in Formats
  /\ Begin(c, g, SetImage("default", "remove", games[g].image))
  /\ UNCHANGED artwork

Continue == UNCHANGED <<world, scan, raced>>

\* Store.UpdateGame reads every column it writes.
ReadGame(c) ==
  /\ Calling(c, "read")
  /\ LET game == games[call[c].game]
         copy == IF call[c].sets = "image"
                 THEN [call[c] EXCEPT !.enabled = game.enabled]
                 ELSE [call[c] EXCEPT !.image = game.image]
     IN  Become(c, [copy EXCEPT !.at = "write"])
  /\ Continue /\ UNCHANGED <<games, rows, artwork, count>>

WriteGame(c) ==
  /\ Calling(c, "write")
  /\ games' = [games EXCEPT ![call[c].game] =
                 [@ EXCEPT !.enabled = call[c].enabled, !.image = call[c].image]]
  /\ Goto(c, call[c].then)
  /\ Continue /\ UNCHANGED <<rows, artwork, count>>

\* The request ends with an error; a picture that was uploaded stays.
UpdateFails(c) ==
  /\ call[c].at \in {"read", "write"}
  /\ Fault
  /\ Goto(c, "idle")
  /\ Continue /\ UNCHANGED <<games, rows, artwork>>

\* cleanupObsoleteArtwork; what it cannot remove it logs.
CleanupArtwork(c) ==
  /\ Calling(c, "cleanup")
  /\ \/ artwork' = [artwork EXCEPT ![call[c].game] = @ \cap {call[c].file}] /\ UNCHANGED count
     \/ Fault /\ UNCHANGED artwork
  /\ Goto(c, "idle")
  /\ Continue /\ UNCHANGED <<games, rows>>

RemoveArtwork(c) ==
  /\ Calling(c, "remove")
  /\ artwork' = [artwork EXCEPT ![call[c].game] = @ \ {call[c].file}]
  /\ Goto(c, "idle")
  /\ Continue /\ UNCHANGED <<games, rows, count>>

\* The picture could not be removed: it is recorded again.
RemoveFails(c) ==
  /\ Calling(c, "remove")
  /\ Fault
  /\ Become(c, [SetImage(call[c].file, "idle", "none") EXCEPT !.game = call[c].game])
  /\ Continue /\ UNCHANGED <<games, rows, artwork>>

\* A game that was discovered needs an install path; one added by hand is only
\* linked.
RemapGame(c, g, e) ==
  /\ games[g].located \/ g \in Manual
  /\ Begin(c, g, [NoCall EXCEPT !.at = "remap", !.entry = e,
                    !.places = IF g \in Manual THEN {} ELSE Resolved(e)])
  /\ UNCHANGED artwork

SaveRemapped(c) ==
  LET g == call[c].game IN
  /\ Calling(c, "remap")
  /\ \/ /\ SaveGameRelations(g, call[c].entry, games[g].located, call[c].places, g \notin Manual)
        /\ UNCHANGED count
     \/ Fault /\ SaveFails(g, call[c].entry)
  /\ Goto(c, "idle")
  /\ Continue /\ UNCHANGED artwork

-----------------------------------------------------------------------------
\* The process ends and starts again.
Crash ==
  /\ Fault
  /\ scan' = NoScan
  /\ call' = [c \in Callers |-> NoCall]
  /\ UNCHANGED <<games, rows, artwork, world, raced>>

\* External: saves appear and disappear.
DiskChanges(p) ==
  /\ Change
  /\ disk' = IF p \in disk THEN disk \ {p} ELSE disk \cup {p}
  /\ UNCHANGED <<games, rows, artwork, match, scan, call, raced>>

\* External: a game is installed or removed, or the catalog's update changes
\* what it is matched to.
MatchChanges(g, e) ==
  /\ Change
  /\ match[g] # e
  /\ match' = [match EXCEPT ![g] = e]
  /\ UNCHANGED <<games, rows, artwork, disk, scan, call, raced>>

ScanStep ==
  \/ \E g \in Launched : Match(g)
  \/ Register \/ FindSaves \/ ListLocal \/ Discovered
  \/ \E e \in Entries : RegisterLocal(e) \/ ClearStale(e)

CallStep(c) ==
  \/ ReadGame(c) \/ WriteGame(c) \/ UpdateFails(c) \/ CleanupArtwork(c)
  \/ RemoveArtwork(c) \/ RemoveFails(c) \/ SaveRemapped(c)

Next ==
  \/ Discover \/ ScanStep \/ RegisterFails \/ ScanFails
  \/ \E g \in Launched : MatchFails(g) \/ \E e \in Entries \cup {None} : MatchChanges(g, e)
  \/ \E g \in Manual, p \in Typed : AddGame(g, p)
  \/ \E g \in Games : SetGameHidden(g)
  \/ \E g \in Games, p \in Typed : AddPath(g, p)
  \/ \E g \in Games : \E r \in rows[g] : UpdatePath(g, r) \/ DeletePath(g, r)
  \/ \E g \in Launched \cup Entries : EnsureRemoteGame(g)
  \/ \E c \in Callers :
       \/ \E g \in Pictured : UpdateGame(c, g) \/ ResetImage(c, g)
       \/ \E g \in Pictured, f \in Formats : UploadImage(c, g, f)
       \/ \E g \in Games, e \in Entries : RemapGame(c, g, e)
  \/ \E c \in Callers : CallStep(c)
  \/ \E p \in Places : DiskChanges(p)
  \/ Crash

\* With periodic discovery a scan follows on a scan, and one that has begun goes
\* on to its end.
Fairness == WF_vars(Discover) /\ WF_vars(ScanStep)

Spec == Init /\ [][Next]_vars /\ Fairness

-----------------------------------------------------------------------------
(* Properties.                                                             *)

\* However scans, remaps, failures and crashes interleave, what is recorded of a
\* discovered game comes from one catalog entry: its catalog locations and its
\* registry keys are those of the entry it is linked to ("preventing partial
\* discovery, remap, or manual-create state", store.go:432-433).
RelationsAgree ==
  \A g \in Games :
    /\ games[g].registry # None => games[g].registry = games[g].entry
    /\ \A p \in CatalogPlaces(g) : games[g].entry # None /\ p \in PlacesOf[games[g].entry]

\* No step of a scan, nor the transaction of a remap, touches what the user chose
\* besides: locations added by hand stay as they are, a location that stays is
\* enabled or disabled as it was, and so is the game, which also stays hidden and
\* keeps its picture (saveGamePaths and the upsert, store.go:434-497).  The entry
\* a game was remapped to is no such choice: the next scan sets it again.
ChoicesKept ==
  [][(scan' # scan \/ \E c \in Callers : Calling(c, "remap") /\ ~Calling(c, "remap")')
     => \A g \in Games :
          /\ {r \in rows[g] : r.source = "custom"} \subseteq rows'[g]
          /\ \A r \in rows[g], q \in rows'[g] : r.place = q.place => r = q
          /\ Known(g) => /\ games'[g].enabled = games[g].enabled
                         /\ games'[g].hidden = games[g].hidden
                         /\ games'[g].image = games[g].image]_vars

\* A picture that a game shows is there, unless two requests changed the game at
\* once: a failure or the end of the process between the steps of an upload or a
\* reset leaves at most a file that nothing shows (server.go:892-903, 921-933).  A
\* client that names a picture of the game itself names one that is there.
ArtworkExists ==
  \A g \in Games \ raced : games[g].image \in Formats => games[g].image \in artwork[g]

\* A game found by its saves does not keep a catalog location that is gone, or
\* that is a launcher's game's now, as long as scans recur and it is not hidden
\* ("drops catalog paths of local games the latest scan no longer resolves [...]
\* so they stop being backed up", coordinator.go:447-449).
StaleCleared ==
  \A e \in Entries :
    ~<>[](/\ Known(e) /\ ~games[e].hidden
          /\ \/ CatalogPlaces(e) \ disk # {}
             \/ CatalogPlaces(e) # {} /\ \E g \in Launched : match[g] = e)
=============================================================================
