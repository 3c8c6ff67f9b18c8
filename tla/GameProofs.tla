----------------------------- MODULE GameProofs -----------------------------
(***************************************************************************)
(* Theorems about GameRecords: its type invariant, RelationsAgree,         *)
(* ArtworkExists and ChoicesKept.                                          *)
(***************************************************************************)
EXTENDS GameRecords, TLAPS

-----------------------------------------------------------------------------
(* The types, with what each step of a scan or a request relies on.        *)

Kinds == [entry : Entries \cup {None}, registry : Entries \cup {None}, located : BOOLEAN,
          enabled : BOOLEAN, hidden : BOOLEAN, image : Images]

Scans == [at : {"idle", "match", "register", "save", "clear"},
          todo : SUBSET Games, game : Launched \cup {None}, entry : Entries \cup {None},
          matched : SUBSET Entries, found : SUBSET Entries, places : SUBSET Places]

Calls == [at : {"idle", "read", "write", "cleanup", "remove", "remap"}, game : Games \cup {None},
          sets : {"", "enabled", "image"}, enabled : BOOLEAN, image : Images \cup {"none"},
          then : {"idle", "cleanup", "remove"}, file : Formats \cup {"none"},
          entry : Entries \cup {None}, places : SUBSET Places]

Counts == [requests : 0..MaxRequests, changes : 0..MaxChanges, faults : 0..MaxFaults]

\* The rows of a game are keyed by their places.
Keyed(S) == \A r, q \in S : r.place = q.place => r = q

StoreOK ==
  /\ games \in [Games -> {NoGame} \cup Kinds]
  /\ rows \in [Games -> SUBSET Row]
  /\ \A g \in Games : Keyed(rows[g]) /\ (~Known(g) => rows[g] = {})

\* Only the games of a launcher have an install path and registry keys.
Bare ==
  /\ \A g \in Entries : ~games[g].located
  /\ \A g \in Entries \cup Manual : games[g].registry = None

AgreeAt(g) ==
  /\ games[g].registry # None => games[g].registry = games[g].entry
  /\ \A p \in CatalogPlaces(g) : games[g].entry # None /\ p \in PlacesOf[games[g].entry]

\* What a scan is about to register are places of the entry.
ScanOK ==
  /\ scan \in Scans
  /\ scan.at = "register" =>
       scan.game \in Launched /\ scan.entry \in Entries /\ scan.places \subseteq PlacesOf[scan.entry]

\* A request keeps to a game that is known, and so does a remap to an entry.
CallOK(c) ==
  /\ call[c].at # "idle" => call[c].game \in Games /\ Known(call[c].game)
  /\ call[c].at = "read" /\ call[c].sets = "image" => call[c].image \in Images
  /\ call[c].at = "write" => call[c].image \in Images
  /\ call[c].at = "remove" \/ call[c].then = "remove" => call[c].file \in Formats
  /\ call[c].at = "remap" =>
       /\ call[c].game \notin Entries
       /\ call[c].entry \in Entries
       /\ call[c].places \subseteq PlacesOf[call[c].entry]
       /\ call[c].game \in Manual => call[c].places = {}

CallsOK == call \in [Callers -> Calls] /\ \A c \in Callers : CallOK(c)

WorldOK ==
  /\ artwork \in [Games -> SUBSET Formats]
  /\ disk \subseteq Places
  /\ match \in [Launched -> Entries \cup {None}]
  /\ count \in Counts
  /\ raced \subseteq Games

Agree == Bare /\ \A g \in Games : AgreeAt(g)

-----------------------------------------------------------------------------
(* Pictures.                                                               *)

Changing(c, g) == call[c].game = g /\ call[c].at # "remap"

Shows(g) == games[g].image \in Formats => games[g].image \in artwork[g]

\* No two requests have changed g at once.
Alone(g) == \A c, d \in Callers : Changing(c, g) /\ Changing(d, g) => c = d

\* What a request that is alone is going to record of g and to remove.
Keeps(c, g) ==
  /\ call[c].at \in {"read", "write"} =>
       /\ call[c].sets = "image" /\ call[c].image \in Formats => call[c].image \in artwork[g]
       /\ call[c].sets # "image" => call[c].then = "idle"
       /\ call[c].then = "cleanup" => call[c].image = call[c].file
       /\ call[c].then = "remove" => call[c].image = "default" /\ call[c].file \in artwork[g]
  /\ call[c].at = "write" /\ call[c].sets # "image" => call[c].image = games[g].image
  /\ call[c].at = "cleanup" => games[g].image = call[c].file
  /\ call[c].at = "remove" => games[g].image = "default" /\ call[c].file \in artwork[g]

PicturesOK ==
  \A g \in Games \ raced :
    Shows(g) /\ Alone(g) /\ \A c \in Callers : Changing(c, g) => Keeps(c, g)

TypesOK == StoreOK /\ ScanOK /\ CallsOK /\ WorldOK

\* The inductive invariant.
GameInv == TypesOK /\ Agree /\ PicturesOK

-----------------------------------------------------------------------------
LEMMA TypesOKIsTypeOK == TypesOK => TypeOK
  BY DEF TypesOK, StoreOK, ScanOK, CallsOK, WorldOK, TypeOK, Kinds, Scans, Calls, Counts, Keyed

LEMMA AgreeIsRelationsAgree == Agree => RelationsAgree
  BY DEF Agree, AgreeAt, RelationsAgree

LEMMA PicturesOKIsArtworkExists == PicturesOK => ArtworkExists
  BY DEF PicturesOK, Shows, ArtworkExists

\* The kinds of games, and the pictures, are told apart.
LEMMA Apart ==
  /\ NoGame \notin Kinds
  /\ \A g \in Games : g # None
  /\ \A g \in Launched : g \in Games /\ g \notin Entries /\ g \notin Manual
  /\ \A g \in Entries : g \in Games /\ g \notin Manual
  /\ \A g \in Manual : g \in Games
  /\ "default" \in Images /\ "none" \notin Images /\ "none" \notin Formats /\ "default" \notin Formats
  /\ Formats \subseteq Images
  BY GamesAssumption DEF Games, Kinds, NoGame, Images

LEMMA TickTyped ==
  ASSUME count \in Counts, NEW kind \in {"requests", "changes", "faults"},
         NEW bound \in {MaxRequests, MaxChanges, MaxFaults}, Tick(kind, bound),
         \/ kind = "requests" /\ bound = MaxRequests
         \/ kind = "changes" /\ bound = MaxChanges
         \/ kind = "faults" /\ bound = MaxFaults
  PROVE  count' \in Counts
  BY BoundsAssumption DEF Tick, Counts

LEMMA CountTyped ==
  ASSUME count \in Counts, Request \/ Change \/ Fault \/ UNCHANGED count
  PROVE  count' \in Counts
  BY TickTyped DEF Request, Change, Fault

LEMMA InitGameInv == Init => GameInv
<1> SUFFICES ASSUME Init
             PROVE  GameInv
  OBVIOUS
<1>1. StoreOK
  BY DEF Init, StoreOK, Keyed, Known
<1>2. ScanOK
  BY DEF Init, ScanOK, Scans, NoScan
<1>3. NoCall \in Calls
  BY DEF NoCall, Calls
<1>4. CallsOK
  BY <1>3 DEF Init, CallsOK, CallOK, NoCall
<1>5. count \in Counts
  BY BoundsAssumption DEF Init, Counts
<1>6. disk \subseteq Places
  BY PlacesAssumption DEF Init
<1>7. WorldOK
  BY <1>5, <1>6 DEF Init, WorldOK
<1>8. Agree
  BY Apart DEF Init, Agree, Bare, AgreeAt, NoGame, CatalogPlaces
<1>9. PicturesOK
  BY Apart DEF Init, PicturesOK, Shows, Alone, Changing, NoCall, NoGame
<1> QED BY <1>1, <1>2, <1>4, <1>7, <1>8, <1>9 DEF GameInv, TypesOK

-----------------------------------------------------------------------------
(* The store.                                                              *)

\* An upsert makes a game known, with the entry and whether it is located.
LEMMA UpsertTyped ==
  ASSUME StoreOK, NEW g \in Games, NEW entry \in Entries \cup {None}, NEW located \in BOOLEAN
  PROVE  /\ Upsert(g, entry, located) \in Kinds
         /\ Upsert(g, entry, located).entry = entry
         /\ Upsert(g, entry, located).located = located
         /\ Upsert(g, entry, located).registry = games[g].registry
         /\ Known(g) => /\ Upsert(g, entry, located).image = games[g].image
                        /\ Upsert(g, entry, located).enabled = games[g].enabled
                        /\ Upsert(g, entry, located).hidden = games[g].hidden
         /\ ~Known(g) => Upsert(g, entry, located).image = "default"
<1>1. CASE Known(g)
  <2>1. games[g] \in Kinds
    BY <1>1 DEF StoreOK, Known
  <2>2. Upsert(g, entry, located) = [games[g] EXCEPT !.entry = entry, !.located = located]
    BY <1>1 DEF Upsert
  <2>3. [games[g] EXCEPT !.entry = entry, !.located = located] \in Kinds
    BY <2>1 DEF Kinds
  <2>4. /\ [games[g] EXCEPT !.entry = entry, !.located = located].entry = entry
        /\ [games[g] EXCEPT !.entry = entry, !.located = located].located = located
        /\ [games[g] EXCEPT !.entry = entry, !.located = located].registry = games[g].registry
        /\ [games[g] EXCEPT !.entry = entry, !.located = located].image = games[g].image
        /\ [games[g] EXCEPT !.entry = entry, !.located = located].enabled = games[g].enabled
        /\ [games[g] EXCEPT !.entry = entry, !.located = located].hidden = games[g].hidden
    BY <2>1 DEF Kinds
  <2> QED BY <1>1, <2>2, <2>3, <2>4
<1>2. CASE ~Known(g)
  <2>1. Upsert(g, entry, located) =
          [entry |-> entry, registry |-> None, located |-> located,
           enabled |-> TRUE, hidden |-> FALSE, image |-> "default"]
    BY <1>2 DEF Upsert
  <2>2. games[g].registry = None
    BY <1>2 DEF Known, NoGame
  <2>3. Upsert(g, entry, located) \in Kinds
    BY <2>1, Apart DEF Kinds
  <2>4. /\ Upsert(g, entry, located).entry = entry
        /\ Upsert(g, entry, located).located = located
        /\ Upsert(g, entry, located).registry = None
        /\ Upsert(g, entry, located).image = "default"
    BY <2>1
  <2> QED BY <1>2, <2>2, <2>3, <2>4
<1> QED BY <1>1, <1>2

\* saveGamePaths leaves the catalog rows that are desired and no others.
LEMMA PathsSaved ==
  ASSUME NEW old \in SUBSET Row, Keyed(old), NEW desired \in SUBSET Places
  PROVE  /\ SavePaths(old, desired) \in SUBSET Row
         /\ Keyed(SavePaths(old, desired))
         /\ \A r \in SavePaths(old, desired) : r.source = "catalog" => r.place \in desired
<1> DEFINE added == {[place |-> p, source |-> "catalog", enabled |-> TRUE] :
                       p \in desired \ {r.place : r \in old}}
<1>1. ASSUME NEW r \in added
      PROVE  /\ r \in Row /\ r.source = "catalog" /\ r.place \in desired
             /\ r = [place |-> r.place, source |-> "catalog", enabled |-> TRUE]
             /\ \A q \in old : q.place # r.place
  <2>1. PICK p \in desired \ {q.place : q \in old} :
          r = [place |-> p, source |-> "catalog", enabled |-> TRUE]
    BY <1>1
  <2>2. r.place = p
    BY <2>1
  <2>3. \A q \in old : q.place # p
    BY <2>1
  <2> QED BY <2>1, <2>2, <2>3 DEF Row
<1>2. \A r, q \in added : r.place = q.place => r = q
  BY <1>1
<1>3. \A r \in SavePaths(old, desired) :
        r \in added \/ (r \in old /\ (r.source = "custom" \/ r.place \in desired))
  BY DEF SavePaths
<1> HIDE DEF added
<1>4. SavePaths(old, desired) \in SUBSET Row
  BY <1>1, <1>3
<1>5. \A r \in SavePaths(old, desired) : r.source = "catalog" => r.place \in desired
  BY <1>1, <1>3
<1>6. Keyed(SavePaths(old, desired))
  BY <1>1, <1>2, <1>3 DEF Keyed
<1> QED
  BY <1>4, <1>5, <1>6

\* What a transaction does to one game keeps the types of the rest.
LEMMA GameSaved ==
  ASSUME StoreOK, NEW g \in Games,
         games'[g] \in Kinds, rows'[g] \in SUBSET Row, Keyed(rows'[g]),
         games' = [games EXCEPT ![g] = games'[g]], rows' = [rows EXCEPT ![g] = rows'[g]]
  PROVE  /\ StoreOK'
         /\ \A h \in Games \ {g} : games'[h] = games[h] /\ rows'[h] = rows[h]
         /\ \A h \in Games : Known(h) => Known(h)'
<1>1. \A h \in Games \ {g} : games'[h] = games[h] /\ rows'[h] = rows[h]
  BY DEF StoreOK
<1>2. /\ games' \in [Games -> {NoGame} \cup Kinds]
      /\ rows' \in [Games -> SUBSET Row]
  BY DEF StoreOK
<1>3. Known(g)'
  BY <1>1, Apart DEF Known
<1>4. \A h \in Games \ {g} : Known(h)' <=> Known(h)
  BY <1>1 DEF Known
<1>5. \A h \in Games : Keyed(rows[h])' /\ (~Known(h)' => rows'[h] = {})
  BY <1>1, <1>3, <1>4 DEF StoreOK, Keyed
<1> QED BY <1>1, <1>2, <1>3, <1>4, <1>5 DEF StoreOK

\* A game that is known stays known and keeps its picture, and one that becomes
\* known has no picture of its own.
ImagesKept ==
  \A g \in Games : IF Known(g) THEN Known(g)' /\ games'[g].image = games[g].image
                              ELSE games'[g].image \notin Formats

\* The other games agree as before.
LEMMA OthersAgree ==
  ASSUME Agree, NEW g \in Games, AgreeAt(g)',
         \A h \in Games \ {g} : games'[h] = games[h] /\ rows'[h] = rows[h],
         g \in Entries => ~games'[g].located,
         g \in Entries \cup Manual => games'[g].registry = None
  PROVE  Agree'
<1>1. \A h \in Games \ {g} : AgreeAt(h)'
  BY DEF Agree, AgreeAt, CatalogPlaces
<1>2. Bare'
  BY Apart DEF Agree, Bare
<1> QED BY <1>1, <1>2 DEF Agree

\* SaveGameRelations, of a discovered game or a remapped one.
LEMMA RelationsSaved ==
  ASSUME StoreOK, Agree, NEW g \in Games, NEW entry \in Entries, NEW located \in BOOLEAN,
         NEW places \in SUBSET Places, NEW replaces \in BOOLEAN,
         SaveGameRelations(g, entry, located, places, replaces),
         places \subseteq PlacesOf[entry],
         g \in Entries => ~located,
         g \in Launched <=> replaces
  PROVE  /\ StoreOK' /\ Agree'
         /\ ImagesKept
<1> DEFINE upserted == Upsert(g, entry, located)
           game == IF replaces THEN [upserted EXCEPT !.registry = entry] ELSE upserted
           S == SavePaths(rows[g], places)
<1>1. /\ upserted \in Kinds /\ upserted.entry = entry /\ upserted.located = located
      /\ upserted.registry = games[g].registry
      /\ upserted.image = IF Known(g) THEN games[g].image ELSE "default"
  BY UpsertTyped
<1>2. /\ game \in Kinds /\ game.entry = entry /\ game.located = located
      /\ game.registry = IF replaces THEN entry ELSE games[g].registry
      /\ game.image = IF Known(g) THEN games[g].image ELSE "default"
  BY <1>1 DEF Kinds
<1>3. rows[g] \in SUBSET Row /\ Keyed(rows[g])
  BY DEF StoreOK
<1>4. S \in SUBSET Row /\ Keyed(S) /\ \A r \in S : r.source = "catalog" => r.place \in places
  BY <1>3, PathsSaved
<1>5. games' = [games EXCEPT ![g] = game] /\ rows' = [rows EXCEPT ![g] = S]
  BY DEF SaveGameRelations, StoreOK
<1> HIDE DEF upserted, game, S
<1>6. /\ StoreOK' /\ games'[g] = game /\ rows'[g] = S
      /\ \A h \in Games \ {g} : games'[h] = games[h] /\ rows'[h] = rows[h]
      /\ \A h \in Games : Known(h) => Known(h)'
  <2>1. game \in Kinds
    BY <1>2
  <2>2. S \in SUBSET Row /\ Keyed(S)
    BY <1>4
  <2>3. games'[g] = game /\ rows'[g] = S
    BY <1>5 DEF StoreOK
  <2> QED BY <1>5, <2>1, <2>2, <2>3, GameSaved
<1>7. replaces \/ games[g].registry = None
  BY Apart DEF Agree, Bare, Games
<1>8. entry # None
  BY Apart
<1>9. \A p \in CatalogPlaces(g)' : p \in PlacesOf[entry]
  BY <1>4, <1>6 DEF CatalogPlaces
<1>10. AgreeAt(g)'
  BY <1>2, <1>6, <1>7, <1>8, <1>9 DEF AgreeAt
<1>11. g \in Entries \cup Manual => games'[g].registry = None
  BY <1>2, <1>6, <1>7, Apart
<1>12. Agree'
  BY <1>2, <1>6, <1>10, <1>11, OthersAgree
<1>13. ImagesKept
  BY <1>2, <1>6, Apart DEF ImagesKept, Known, NoGame
<1> QED
  BY <1>6, <1>12, <1>13

\* Catalog rows that stay where they were keep a game in agreement.
LEMMA RowsChanged ==
  ASSUME StoreOK, Agree, NEW g \in Games, Known(g), NEW S \in SUBSET Row, Keyed(S),
         UNCHANGED games, rows' = [rows EXCEPT ![g] = S],
         \A r \in S : r.source = "catalog" => r.place \in CatalogPlaces(g)
  PROVE  StoreOK' /\ Agree'
<1>1. /\ rows'[g] = S /\ rows' \in [Games -> SUBSET Row]
      /\ \A h \in Games \ {g} : rows'[h] = rows[h]
  BY DEF StoreOK
<1>2. StoreOK'
  BY <1>1 DEF StoreOK, Keyed, Known
<1>3. CatalogPlaces(g)' \subseteq CatalogPlaces(g)
  BY <1>1 DEF CatalogPlaces
<1>4. AgreeAt(g)'
  BY <1>3 DEF Agree, AgreeAt
<1>5. Agree'
  BY <1>1, <1>4, OthersAgree DEF Agree, Bare
<1> QED BY <1>2, <1>5

-----------------------------------------------------------------------------
(* Steps that leave the requests alone.                                    *)

LEMMA Ended ==
  /\ NoCall \in Calls /\ NoCall.at = "idle" /\ NoCall.game = None /\ NoCall.then = "idle"
  /\ NoCall.sets = "" /\ NoCall.image = "none" /\ NoCall.file = "none"
  BY DEF NoCall, Calls

\* Steps after which a request goes on as it was or has ended.
LEMMA RequestsEnd ==
  ASSUME GameInv, StoreOK', Agree', ScanOK', WorldOK', ImagesKept,
         UNCHANGED <<artwork, raced>>, call' \in [Callers -> Calls],
         \A c \in Callers : call'[c] = call[c] \/ call'[c] = NoCall
  PROVE  GameInv'
<1>1. CallsOK'
  <2>1. ASSUME NEW c \in Callers
        PROVE  CallOK(c)'
    <3>1. CASE call'[c] = call[c]
      BY <3>1 DEF GameInv, TypesOK, CallsOK, CallOK, ImagesKept
    <3>2. CASE call'[c] = NoCall
      BY <3>2, Ended DEF CallOK
    <3> QED BY <3>1, <3>2
  <2> QED BY <2>1 DEF CallsOK
<1>2. ASSUME NEW c \in Callers, NEW g \in Games, Changing(c, g)'
      PROVE  Changing(c, g) /\ call'[c] = call[c]
  BY <1>2, Ended, Apart DEF Changing
<1>3. ASSUME NEW g \in Games \ raced
      PROVE  Shows(g)' /\ Alone(g)' /\ \A c \in Callers : Changing(c, g)' => Keeps(c, g)'
  <2>1. Shows(g) /\ Alone(g) /\ \A c \in Callers : Changing(c, g) => Keeps(c, g)
    BY <1>3 DEF GameInv, PicturesOK
  <2>2. Shows(g)'
    BY <2>1 DEF Shows, ImagesKept
  <2>3. Alone(g)'
    BY <2>1, <1>2 DEF Alone
  <2>4. ASSUME NEW c \in Callers, Changing(c, g)'
        PROVE  Keeps(c, g)'
    <3>1. Keeps(c, g) /\ call'[c] = call[c] /\ call[c].game = g
      BY <2>1, <2>4, <1>2 DEF Changing
    <3>2. call[c].at # "idle" => games'[g].image = games[g].image
      BY <3>1 DEF GameInv, TypesOK, CallsOK, CallOK, ImagesKept
    <3> QED BY <3>1, <3>2 DEF Keeps
  <2> QED BY <2>2, <2>3, <2>4
<1>4. PicturesOK'
  BY <1>3 DEF PicturesOK
<1> QED BY <1>1, <1>4 DEF GameInv, TypesOK

LEMMA RequestsKept ==
  ASSUME GameInv, StoreOK', Agree', ScanOK', WorldOK', ImagesKept,
         UNCHANGED <<artwork, call, raced>>
  PROVE  GameInv'
BY RequestsEnd DEF GameInv, TypesOK, CallsOK

\* Nor do they touch the store.
LEMMA StoreKept ==
  ASSUME GameInv, ScanOK', WorldOK', UNCHANGED <<games, rows, artwork, call, raced>>
  PROVE  GameInv'
<1>1. StoreOK' /\ Agree'
  BY DEF GameInv, TypesOK, StoreOK, Keyed, Known, Agree, Bare, AgreeAt, CatalogPlaces
<1>2. ImagesKept
  BY Apart DEF ImagesKept, Known, NoGame
<1> QED BY <1>1, <1>2, RequestsKept

\* Every count stays within its bound.
LEMMA WorldKept ==
  ASSUME GameInv, UNCHANGED <<artwork, world, raced>>, Request \/ Change \/ Fault \/ UNCHANGED count
  PROVE  WorldOK'
<1>1. count' \in Counts
  BY CountTyped DEF GameInv, TypesOK, WorldOK
<1> QED BY <1>1 DEF GameInv, TypesOK, WorldOK, world

LEMMA NoScanOK == NoScan \in Scans /\ NoScan.at = "idle"
  BY DEF NoScan, Scans

LEMMA DiscoverKeeps == GameInv /\ Discover => GameInv'
<1> SUFFICES ASSUME GameInv, Discover
             PROVE  GameInv'
  OBVIOUS
<1>1. ScanOK'
  BY NoScanOK DEF Discover, ScanOK, Scans, Games
<1> QED BY <1>1, WorldKept, StoreKept DEF Discover, ScanOnly

LEMMA MatchKeeps == \A g \in Launched : GameInv /\ Match(g) => GameInv'
<1> SUFFICES ASSUME GameInv, NEW g \in Launched, Match(g)
             PROVE  GameInv'
  OBVIOUS
<1>1. scan \in Scans
  BY DEF GameInv, TypesOK, ScanOK
<1>2. match[g] \in Entries \cup {None}
  BY DEF GameInv, TypesOK, WorldOK
<1>3. CASE match[g] = None
  <2>1. scan' = [scan EXCEPT !.todo = @ \ {g}] /\ scan.at = "match"
    BY <1>3 DEF Match, Scanning
  <2>2. [scan EXCEPT !.todo = @ \ {g}] \in Scans
    BY <1>1 DEF Scans
  <2>3. scan'.at = "match"
    BY <1>1, <2>1 DEF Scans
  <2>4. ScanOK'
    BY <2>1, <2>2, <2>3 DEF ScanOK
  <2>5. WorldOK'
    BY <1>3, WorldKept DEF Match, ScanOnly
  <2> QED BY <1>3, <2>4, <2>5, StoreKept DEF Match, ScanOnly
<1>4. CASE match[g] # None
  <2>1. match[g] \in Entries
    BY <1>2, <1>4
  <2>2. Resolved(match[g]) \subseteq PlacesOf[match[g]] /\ PlacesOf[match[g]] \subseteq Places
    BY <2>1, PlacesAssumption DEF Resolved
  <2>3. scan' = [scan EXCEPT !.at = "register", !.game = g, !.entry = match[g],
                              !.matched = @ \cup {match[g]}, !.places = Resolved(match[g])]
    BY <1>4 DEF Match
  <2>4. scan' \in Scans
    BY <1>1, <2>1, <2>2, <2>3 DEF Scans
  <2>5. scan'.game = g /\ scan'.entry = match[g] /\ scan'.places = Resolved(match[g])
    BY <1>1, <2>3 DEF Scans
  <2>6. ScanOK'
    BY <2>1, <2>2, <2>4, <2>5 DEF ScanOK
  <2> QED BY <2>6, WorldKept, StoreKept DEF Match, ScanOnly
<1> QED BY <1>3, <1>4

LEMMA MatchFailsKeeps == \A g \in Launched : GameInv /\ MatchFails(g) => GameInv'
<1> SUFFICES ASSUME GameInv, NEW g \in Launched, MatchFails(g)
             PROVE  GameInv'
  OBVIOUS
<1>1. scan \in Scans /\ scan' = [scan EXCEPT !.todo = @ \ {g}] /\ scan.at = "match"
  BY DEF GameInv, TypesOK, ScanOK, MatchFails, Scanning
<1>2. ScanOK'
  BY <1>1 DEF ScanOK, Scans
<1> QED BY <1>2, WorldKept, StoreKept DEF MatchFails, ScanOnly

\* What FindSaves and ListLocal leave to do are entries.
LEMMA SearchKeeps ==
  GameInv /\ (FindSaves \/ ScanFails \/ ListLocal \/ Discovered) => GameInv'
<1> SUFFICES ASSUME GameInv, FindSaves \/ ScanFails \/ ListLocal \/ Discovered
             PROVE  GameInv'
  OBVIOUS
<1>1. ScanOK'
  <2>1. CASE FindSaves
    <3> DEFINE found == {e \in Entries \ scan.matched : Present(e, disk) # {}}
    <3>1. scan' = [NoScan EXCEPT !.at = "save", !.todo = found, !.found = found, !.places = disk]
      BY <2>1 DEF FindSaves
    <3>2. found \subseteq Entries /\ found \subseteq Games /\ disk \subseteq Places
      BY DEF Games, GameInv, TypesOK, WorldOK
    <3> HIDE DEF found
    <3> QED BY <3>1, <3>2 DEF ScanOK, Scans, NoScan
  <2>2. CASE ScanFails \/ Discovered
    BY <2>2, NoScanOK DEF ScanFails, Discovered, ScanOK
  <2>3. CASE ListLocal
    <3>1. scan' = [NoScan EXCEPT !.at = "clear", !.todo = Forgotten]
      BY <2>3 DEF ListLocal
    <3>2. Forgotten \subseteq Games
      BY DEF Forgotten, Games
    <3> QED BY <3>1, <3>2 DEF ScanOK, Scans, NoScan
  <2> QED BY <2>1, <2>2, <2>3
<1>2. UNCHANGED <<games, rows, artwork, call, raced>> /\ WorldOK'
  BY WorldKept DEF FindSaves, ScanFails, ListLocal, Discovered, ScanOnly
<1> QED BY <1>1, <1>2, StoreKept

LEMMA RegisterKeeps == GameInv /\ Register => GameInv'
<1> SUFFICES ASSUME GameInv, Register
             PROVE  GameInv'
  OBVIOUS
<1>1. /\ scan \in Scans
      /\ scan.game \in Launched /\ scan.entry \in Entries /\ scan.places \subseteq PlacesOf[scan.entry]
  BY DEF GameInv, TypesOK, ScanOK, Register, Scanning
<1>2. scan.places \in SUBSET Places
  BY <1>1 DEF Scans
<1>3. SaveGameRelations(scan.game, scan.entry, TRUE, scan.places, TRUE)
  BY DEF Register
<1>4. scan.game \in Games /\ scan.game \notin Entries
  BY <1>1, Apart
<1>5. StoreOK' /\ Agree' /\ ImagesKept
  BY <1>1, <1>2, <1>3, <1>4, RelationsSaved DEF GameInv, TypesOK
<1>6. ScanOK'
  BY <1>1 DEF Register, NextGame, ScanOK, Scans
<1> QED BY <1>5, <1>6, WorldKept, RequestsKept DEF Register, ScanOnly

LEMMA RegisterFailsKeeps == GameInv /\ RegisterFails => GameInv'
<1> SUFFICES ASSUME GameInv, RegisterFails
             PROVE  GameInv'
  OBVIOUS
<1>1. scan \in Scans
  BY DEF GameInv, TypesOK, ScanOK
<1>2. ScanOK'
  BY <1>1 DEF RegisterFails, NextGame, ScanOK, Scans
<1> QED BY <1>2, WorldKept, StoreKept DEF RegisterFails, SaveFails, ScanOnly

LEMMA RegisterLocalKeeps == \A e \in Entries : GameInv /\ RegisterLocal(e) => GameInv'
<1> SUFFICES ASSUME GameInv, NEW e \in Entries, RegisterLocal(e)
             PROVE  GameInv'
  OBVIOUS
<1>1. scan \in Scans /\ scan.at = "save" /\ scan' = [scan EXCEPT !.todo = @ \ {e}]
  BY DEF GameInv, TypesOK, ScanOK, RegisterLocal, Scanning
<1>2. ScanOK'
  BY <1>1 DEF ScanOK, Scans
<1>3. UNCHANGED <<artwork, call, raced>> /\ WorldOK'
  BY WorldKept DEF RegisterLocal, ScanOnly
<1>4. CASE SaveGameRelations(e, e, FALSE, Present(e, scan.places), FALSE)
  <2>1. scan.places \subseteq Places
    BY <1>1 DEF Scans
  <2>2. Present(e, scan.places) \in SUBSET Places /\ Present(e, scan.places) \subseteq PlacesOf[e]
    BY <2>1 DEF Present
  <2>3. e \in Games /\ e \notin Launched
    BY Apart
  <2>4. StoreOK' /\ Agree' /\ ImagesKept
    BY <1>4, <2>2, <2>3, RelationsSaved DEF GameInv, TypesOK
  <2> QED BY <1>2, <1>3, <2>4, RequestsKept
<1>5. CASE SaveFails(e, e)
  BY <1>2, <1>3, <1>5, StoreKept DEF SaveFails
<1> QED BY <1>4, <1>5 DEF RegisterLocal

\* Without desired places saveGamePaths leaves the rows added by hand.
LEMMA ClearStaleKeeps == \A e \in Entries : GameInv /\ ClearStale(e) => GameInv'
<1> SUFFICES ASSUME GameInv, NEW e \in Entries, ClearStale(e)
             PROVE  GameInv'
  OBVIOUS
<1>1. scan \in Scans /\ scan.at = "clear" /\ scan' = [scan EXCEPT !.todo = @ \ {e}]
  BY DEF GameInv, TypesOK, ScanOK, ClearStale, Scanning
<1>2. ScanOK'
  BY <1>1 DEF ScanOK, Scans
<1>3. UNCHANGED <<games, artwork, call, raced>> /\ WorldOK'
  BY WorldKept DEF ClearStale, ScanOnly
<1>4. ImagesKept
  BY <1>3, Apart DEF ImagesKept, Known, NoGame
<1>5. CASE rows' = [rows EXCEPT ![e] = SavePaths(@, {})]
  <2>1. e \in Games /\ rows[e] \in SUBSET Row /\ Keyed(rows[e])
    BY Apart DEF GameInv, TypesOK, StoreOK
  <2>2. /\ SavePaths(rows[e], {}) \in SUBSET Row /\ Keyed(SavePaths(rows[e], {}))
        /\ \A r \in SavePaths(rows[e], {}) : r.source = "catalog" => r.place \in {}
    BY <2>1, PathsSaved
  <2>3. rows' = [rows EXCEPT ![e] = SavePaths(rows[e], {})]
    BY <1>5
  <2>4. CASE Known(e)
    BY <1>3, <2>1, <2>2, <2>3, <2>4, <1>2, <1>4, RowsChanged, RequestsKept DEF GameInv, TypesOK
  <2>5. CASE ~Known(e)
    <3>1. rows[e] = {}
      BY <2>1, <2>5 DEF GameInv, TypesOK, StoreOK
    <3>2. SavePaths(rows[e], {}) = {}
      BY <3>1 DEF SavePaths
    <3>3. rows' = rows
      BY <2>1, <2>3, <3>1, <3>2 DEF GameInv, TypesOK, StoreOK
    <3> QED BY <1>2, <1>3, <3>3, StoreKept
  <2> QED BY <2>4, <2>5
<1>6. CASE UNCHANGED rows
  BY <1>2, <1>3, <1>6, StoreKept
<1> QED BY <1>5, <1>6 DEF ClearStale

-----------------------------------------------------------------------------
(* Requests of one statement.                                              *)

LEMMA ScanKept == GameInv /\ UNCHANGED scan => ScanOK'
  BY DEF GameInv, TypesOK, ScanOK

\* A request that changes rows of a known game, and no catalog row's place.
LEMMA RowsOnlyKeeps ==
  ASSUME GameInv, NEW g \in Games, Known(g), NEW S \in SUBSET Row, Keyed(S),
         Request, RowsOnly, rows' = [rows EXCEPT ![g] = S],
         \A r \in S : r.source = "catalog" => r.place \in CatalogPlaces(g)
  PROVE  GameInv'
<1>1. StoreOK' /\ Agree'
  BY RowsChanged DEF GameInv, TypesOK, RowsOnly
<1>2. ImagesKept
  BY Apart DEF RowsOnly, ImagesKept, Known, NoGame
<1> QED BY <1>1, <1>2, WorldKept, ScanKept, RequestsKept DEF RowsOnly

LEMMA AddPathKeeps == \A g \in Games, p \in Typed : GameInv /\ AddPath(g, p) => GameInv'
<1> SUFFICES ASSUME GameInv, NEW g \in Games, NEW p \in Typed, AddPath(g, p)
             PROVE  GameInv'
  OBVIOUS
<1> DEFINE row == [place |-> p, source |-> "custom", enabled |-> TRUE]
           S == rows[g] \cup {row}
<1>1. row \in Row /\ row.place = p /\ row.source = "custom"
  BY PlacesAssumption DEF Row
<1>2. rows[g] \in SUBSET Row /\ Keyed(rows[g])
  BY DEF GameInv, TypesOK, StoreOK
<1>3. Known(g) /\ Request /\ RowsOnly /\ rows' = [rows EXCEPT ![g] = S]
      /\ \A r \in rows[g] : r.place # p
  BY DEF AddPath
<1>4. \A r \in rows[g] : r.source = "catalog" => r.place \in CatalogPlaces(g)
  BY DEF CatalogPlaces
<1> HIDE DEF row
<1>5. S \in SUBSET Row /\ Keyed(S)
  BY <1>1, <1>2, <1>3 DEF Keyed
<1>6. \A r \in S : r.source = "catalog" => r.place \in CatalogPlaces(g)
  BY <1>1, <1>4
<1> HIDE DEF S
<1> QED BY <1>3, <1>5, <1>6, RowsOnlyKeeps

LEMMA UpdatePathKeeps ==
  \A g \in Games : \A r \in rows[g] : GameInv /\ UpdatePath(g, r) => GameInv'
<1> SUFFICES ASSUME GameInv, NEW g \in Games, NEW r \in rows[g], UpdatePath(g, r)
             PROVE  GameInv'
  OBVIOUS
<1> DEFINE row == [r EXCEPT !.enabled = ~@]
           S == (rows[g] \ {r}) \cup {row}
<1>1. rows[g] \in SUBSET Row /\ Keyed(rows[g]) /\ (~Known(g) => rows[g] = {})
  BY DEF GameInv, TypesOK, StoreOK
<1>2. r \in Row /\ row \in Row /\ row.place = r.place /\ row.source = r.source
  BY <1>1 DEF Row
<1>3. Known(g) /\ Request /\ RowsOnly /\ rows' = [rows EXCEPT ![g] = S]
  BY <1>1 DEF UpdatePath
<1>4. \A q \in rows[g] : q.source = "catalog" => q.place \in CatalogPlaces(g)
  BY DEF CatalogPlaces
<1> HIDE DEF row
<1>5. S \in SUBSET Row /\ Keyed(S)
  BY <1>1, <1>2 DEF Keyed
<1>6. \A q \in S : q.source = "catalog" => q.place \in CatalogPlaces(g)
  BY <1>2, <1>4
<1> HIDE DEF S
<1> QED BY <1>3, <1>5, <1>6, RowsOnlyKeeps

LEMMA DeletePathKeeps ==
  \A g \in Games : \A r \in rows[g] : GameInv /\ DeletePath(g, r) => GameInv'
<1> SUFFICES ASSUME GameInv, NEW g \in Games, NEW r \in rows[g], DeletePath(g, r)
             PROVE  GameInv'
  OBVIOUS
<1> DEFINE S == rows[g] \ {r}
<1>1. rows[g] \in SUBSET Row /\ Keyed(rows[g]) /\ (~Known(g) => rows[g] = {})
  BY DEF GameInv, TypesOK, StoreOK
<1>2. Known(g) /\ Request /\ RowsOnly /\ rows' = [rows EXCEPT ![g] = S]
  BY <1>1 DEF DeletePath
<1>3. S \in SUBSET Row /\ Keyed(S)
  BY <1>1 DEF Keyed
<1>4. \A q \in S : q.source = "catalog" => q.place \in CatalogPlaces(g)
  BY DEF CatalogPlaces
<1> HIDE DEF S
<1> QED BY <1>2, <1>3, <1>4, RowsOnlyKeeps

\* A game whose row is inserted agrees: it has no entry, keys or catalog rows.
LEMMA GameAdded ==
  ASSUME GameInv, NEW g \in Games, ~Known(g), NEW game \in Kinds, NEW S \in SUBSET Row, Keyed(S),
         game.image = "default", game.registry = None, game.located = FALSE,
         \A r \in S : r.source = "custom",
         games' = [games EXCEPT ![g] = game], rows' = [rows EXCEPT ![g] = S],
         Request, UNCHANGED <<artwork, world, scan, call, raced>>
  PROVE  GameInv'
<1>1. /\ StoreOK' /\ games'[g] = game /\ rows'[g] = S
      /\ \A h \in Games \ {g} : games'[h] = games[h] /\ rows'[h] = rows[h]
      /\ \A h \in Games : Known(h) => Known(h)'
  <2>1. StoreOK
    BY DEF GameInv, TypesOK
  <2>2. games'[g] = game /\ rows'[g] = S
    BY <2>1 DEF StoreOK
  <2> QED BY <2>1, <2>2, GameSaved
<1>2. AgreeAt(g)'
  BY <1>1 DEF AgreeAt, CatalogPlaces
<1>3. Agree'
  BY <1>1, <1>2, OthersAgree DEF GameInv
<1>4. ImagesKept
  BY <1>1, Apart DEF ImagesKept, Known, NoGame
<1> QED BY <1>1, <1>3, <1>4, WorldKept, ScanKept, RequestsKept

LEMMA AddGameKeeps == \A g \in Manual, p \in Typed : GameInv /\ AddGame(g, p) => GameInv'
<1> SUFFICES ASSUME GameInv, NEW g \in Manual, NEW p \in Typed, AddGame(g, p)
             PROVE  GameInv'
  OBVIOUS
<1> DEFINE row == [place |-> p, source |-> "custom", enabled |-> TRUE]
           game == Upsert(g, None, FALSE)
           S == {row}
<1>1. g \in Games /\ ~Known(g) /\ games[g].registry = None
  BY Apart DEF AddGame, Known, NoGame
<1>2. game \in Kinds /\ game.located = FALSE /\ game.registry = None /\ game.image = "default"
  <2>1. game = [entry |-> None, registry |-> None, located |-> FALSE,
               enabled |-> TRUE, hidden |-> FALSE, image |-> "default"]
    BY <1>1 DEF Upsert
  <2> HIDE DEF game
  <2>2. game \in Kinds
    BY <2>1 DEF Kinds, Images
  <2> QED BY <2>1, <2>2
<1>3. row \in Row /\ row.source = "custom"
  BY PlacesAssumption DEF Row
<1>4. /\ games' = [games EXCEPT ![g] = game] /\ rows' = [rows EXCEPT ![g] = S]
      /\ Request /\ UNCHANGED <<artwork, world, scan, call, raced>>
  BY DEF AddGame
<1> HIDE DEF row, game
<1>5. S \in SUBSET Row /\ Keyed(S) /\ \A r \in S : r.source = "custom"
  BY <1>3 DEF Keyed
<1> HIDE DEF S
<1> QED BY <1>1, <1>2, <1>4, <1>5, GameAdded

LEMMA EnsureRemoteGameKeeps == \A g \in Games : GameInv /\ EnsureRemoteGame(g) => GameInv'
<1> SUFFICES ASSUME GameInv, NEW g \in Games, EnsureRemoteGame(g)
             PROVE  GameInv'
  OBVIOUS
<1> DEFINE upserted == Upsert(g, None, FALSE)
           game == [upserted EXCEPT !.enabled = FALSE]
<1>1. ~Known(g) /\ games[g].registry = None
  BY DEF EnsureRemoteGame, Known, NoGame
<1>2. /\ upserted \in Kinds /\ upserted.located = FALSE
      /\ upserted.registry = None /\ upserted.image = "default"
  <2>1. upserted = [entry |-> None, registry |-> None, located |-> FALSE,
               enabled |-> TRUE, hidden |-> FALSE, image |-> "default"]
    BY <1>1 DEF Upsert
  <2> HIDE DEF upserted
  <2>2. upserted \in Kinds
    BY <2>1 DEF Kinds, Images
  <2> QED BY <2>1, <2>2
<1>3. rows[g] = {} /\ rows \in [Games -> SUBSET Row]
  BY <1>1 DEF GameInv, TypesOK, StoreOK
<1>4. /\ games' = [games EXCEPT ![g] = game] /\ rows' = rows
      /\ Request /\ UNCHANGED <<artwork, world, scan, call, raced>>
  BY DEF EnsureRemoteGame
<1> HIDE DEF upserted
<1>5. game \in Kinds /\ game.located = FALSE /\ game.registry = None /\ game.image = "default"
  BY <1>2 DEF Kinds
<1> HIDE DEF game
<1>6. rows' = [rows EXCEPT ![g] = {}]
  BY <1>3, <1>4
<1>7. Keyed({}) /\ {} \in SUBSET Row
  BY DEF Keyed
<1> QED BY <1>1, <1>4, <1>5, <1>6, <1>7, GameAdded

\* What is changed of a known game is not what has to agree.
LEMMA GameEdited ==
  ASSUME StoreOK, Agree, NEW g \in Games, NEW game \in Kinds, Known(g),
         game.entry = games[g].entry, game.registry = games[g].registry,
         game.located = games[g].located,
         games' = [games EXCEPT ![g] = game], UNCHANGED rows
  PROVE  /\ StoreOK' /\ Agree' /\ games'[g] = game
         /\ \A h \in Games \ {g} : games'[h] = games[h]
         /\ \A h \in Games : Known(h) => Known(h)'
<1>1. rows[g] \in SUBSET Row /\ Keyed(rows[g]) /\ rows' = [rows EXCEPT ![g] = rows[g]]
  BY DEF StoreOK
<1>2. /\ StoreOK' /\ games'[g] = game /\ rows'[g] = rows[g]
      /\ \A h \in Games \ {g} : games'[h] = games[h] /\ rows'[h] = rows[h]
      /\ \A h \in Games : Known(h) => Known(h)'
  <2>1. games'[g] = game /\ rows'[g] = rows[g]
    BY DEF StoreOK
  <2> QED BY <1>1, <2>1, GameSaved
<1>3. AgreeAt(g)'
  BY <1>2 DEF Agree, AgreeAt, CatalogPlaces
<1>4. Agree'
  BY <1>2, <1>3, OthersAgree DEF Agree, Bare
<1> QED BY <1>2, <1>4

LEMMA SetGameHiddenKeeps == \A g \in Games : GameInv /\ SetGameHidden(g) => GameInv'
<1> SUFFICES ASSUME GameInv, NEW g \in Games, SetGameHidden(g)
             PROVE  GameInv'
  OBVIOUS
<1> DEFINE game == [games[g] EXCEPT !.hidden = ~@]
<1>1. Known(g) /\ games[g] \in Kinds
  BY DEF GameInv, TypesOK, StoreOK, SetGameHidden, Known
<1>2. /\ game \in Kinds /\ game.entry = games[g].entry /\ game.registry = games[g].registry
      /\ game.located = games[g].located /\ game.image = games[g].image
  BY <1>1 DEF Kinds
<1>3. /\ games' = [games EXCEPT ![g] = game] /\ Request
      /\ UNCHANGED <<rows, artwork, world, scan, call, raced>>
  BY DEF SetGameHidden
<1> HIDE DEF game
<1>4. /\ StoreOK' /\ Agree' /\ games'[g] = game
      /\ \A h \in Games \ {g} : games'[h] = games[h]
      /\ \A h \in Games : Known(h) => Known(h)'
  BY <1>1, <1>2, <1>3, GameEdited DEF GameInv, TypesOK
<1>5. ImagesKept
  BY <1>1, <1>2, <1>4, Apart DEF ImagesKept, Known, NoGame
<1> QED BY <1>3, <1>4, <1>5, WorldKept, ScanKept, RequestsKept

LEMMA WorldChangesKeeps ==
  GameInv /\ (\/ \E p \in Places : DiskChanges(p)
             \/ \E g \in Launched, e \in Entries \cup {None} : MatchChanges(g, e)) => GameInv'
<1> SUFFICES ASSUME GameInv,
                    \/ \E p \in Places : DiskChanges(p)
                    \/ \E g \in Launched, e \in Entries \cup {None} : MatchChanges(g, e)
             PROVE  GameInv'
  OBVIOUS
<1>1. UNCHANGED <<games, rows, artwork, scan, call, raced>> /\ Change
  BY DEF DiskChanges, MatchChanges
<1>2. count' \in Counts
  BY <1>1, CountTyped DEF GameInv, TypesOK, WorldOK
<1>3. disk' \subseteq Places
  BY DEF GameInv, TypesOK, WorldOK, DiskChanges, MatchChanges
<1>4. match' \in [Launched -> Entries \cup {None}]
  BY DEF GameInv, TypesOK, WorldOK, DiskChanges, MatchChanges
<1>5. WorldOK'
  BY <1>1, <1>2, <1>3, <1>4 DEF GameInv, TypesOK, WorldOK
<1> QED BY <1>1, <1>5, ScanKept, StoreKept

LEMMA CrashKeeps == GameInv /\ Crash => GameInv'
<1> SUFFICES ASSUME GameInv, Crash
             PROVE  GameInv'
  OBVIOUS
<1>1. /\ scan' = NoScan /\ call' = [c \in Callers |-> NoCall] /\ Fault
      /\ UNCHANGED <<games, rows, artwork, world, raced>>
  BY DEF Crash
<1>2. ScanOK'
  BY <1>1, NoScanOK DEF ScanOK
<1>3. NoCall \in Calls
  BY DEF NoCall, Calls
<1>4. CallsOK'
  BY <1>1, <1>3 DEF CallsOK, CallOK, NoCall
<1>5. StoreOK' /\ Agree'
  BY <1>1 DEF GameInv, TypesOK, StoreOK, Keyed, Known, Agree, Bare, AgreeAt, CatalogPlaces
<1>6. PicturesOK'
  BY <1>1, Apart DEF GameInv, PicturesOK, Shows, Alone, Changing, NoCall
<1> QED BY <1>1, <1>2, <1>4, <1>5, <1>6, WorldKept DEF GameInv, TypesOK

-----------------------------------------------------------------------------
(* Requests of several steps.                                              *)

\* A request that becomes another, the others as they were.
LEMMA Became ==
  ASSUME call \in [Callers -> Calls], NEW c \in Callers, NEW request \in Calls, Become(c, request)
  PROVE  /\ call' \in [Callers -> Calls] /\ call'[c] = request
         /\ \A d \in Callers \ {c} : call'[d] = call[d]
BY DEF Become

\* A request that begins is alone or has made its game one that two have changed.
LEMMA BeginKeeps ==
  ASSUME GameInv, NEW c \in Callers, NEW g \in Games, NEW request \in Calls,
         request.game = g, Calling(c, "idle"), Request, Become(c, request),
         raced' = IF \E d \in Callers : call[d].game = g /\ ~Calling(d, "remap")
                  THEN raced \cup {g} ELSE raced,
         UNCHANGED <<games, rows, world, scan>>,
         artwork' \in [Games -> SUBSET Formats],
         \A h \in Games : artwork[h] \subseteq artwork'[h],
         CallOK(c)',
         g \notin raced /\ request.at # "remap" => Keeps(c, g)'
  PROVE  GameInv'
<1>1. /\ call' \in [Callers -> Calls] /\ call'[c] = request
      /\ \A d \in Callers \ {c} : call'[d] = call[d]
  BY Became DEF GameInv, TypesOK, CallsOK
<1>2. \A d \in Callers \ {c} : CallOK(d)'
  BY <1>1 DEF GameInv, TypesOK, CallsOK, CallOK, Known
<1>3. CallsOK'
  BY <1>1, <1>2 DEF CallsOK
<1>4. count' \in Counts
  BY CountTyped DEF GameInv, TypesOK, WorldOK
<1>5. WorldOK'
  BY <1>4 DEF GameInv, TypesOK, WorldOK, world
<1>6. StoreOK' /\ Agree'
  BY DEF GameInv, TypesOK, StoreOK, Keyed, Known, Agree, Bare, AgreeAt, CatalogPlaces
<1>7. ASSUME NEW h \in Games \ raced'
      PROVE  Shows(h)' /\ Alone(h)' /\ \A d \in Callers : Changing(d, h)' => Keeps(d, h)'
  <2>1. h \in Games \ raced
    BY <1>7
  <2>2. Shows(h) /\ Alone(h) /\ \A d \in Callers : Changing(d, h) => Keeps(d, h)
    BY <2>1 DEF GameInv, PicturesOK
  <2>3. Shows(h)'
    BY <2>2 DEF Shows
  <2>4. \A d \in Callers \ {c} : Changing(d, h)' <=> Changing(d, h)
    BY <1>1 DEF Changing
  <2>5. h = g => \A d \in Callers : ~Changing(d, h)
    BY <1>7 DEF Changing, Calling
  <2>6. h # g => ~Changing(c, h)'
    BY <1>1 DEF Changing
  <2>7. Alone(h)'
    BY <2>2, <2>4, <2>5, <2>6 DEF Alone
  <2>8. ASSUME NEW d \in Callers \ {c}, Changing(d, h)'
        PROVE  Keeps(d, h)'
    <3>1. Keeps(d, h)
      BY <2>2, <2>4, <2>8
    <3>2. call'[d] = call[d]
      BY <1>1
    <3> QED BY <3>1, <3>2 DEF Keeps
  <2>9. Changing(c, h)' => Keeps(c, h)'
    BY <1>1, <2>1, <2>6 DEF Changing
  <2> QED BY <2>3, <2>7, <2>8, <2>9
<1>8. PicturesOK'
  BY <1>7 DEF PicturesOK
<1> QED BY <1>3, <1>5, <1>6, <1>8, ScanKept DEF GameInv, TypesOK

\* What Begin leaves of a request to BeginKeeps.
LEMMA Begun ==
  ASSUME GameInv, NEW c \in Callers, NEW g \in Games, NEW request \in Calls, Begin(c, g, request)
  PROVE  /\ [request EXCEPT !.game = g] \in Calls
         /\ [request EXCEPT !.game = g].game = g
         /\ call'[c] = [request EXCEPT !.game = g]
         /\ Calling(c, "idle") /\ Request /\ Become(c, [request EXCEPT !.game = g])
         /\ raced' = IF \E d \in Callers : call[d].game = g /\ ~Calling(d, "remap")
                     THEN raced \cup {g} ELSE raced
         /\ Known(g) /\ Known(g)'
         /\ UNCHANGED <<games, rows, world, scan>>
<1>1. /\ [request EXCEPT !.game = g] \in Calls
      /\ [request EXCEPT !.game = g].game = g
  BY DEF Calls
<1>2. call'[c] = [request EXCEPT !.game = g]
  BY <1>1, Became DEF Begin, GameInv, TypesOK, CallsOK
<1> QED BY <1>1, <1>2 DEF Begin, Known

\* A game is switched on or off.
LEMMA SwitchBegins ==
  ASSUME GameInv, NEW c \in Callers, NEW g \in Games, UNCHANGED artwork,
         Begin(c, g, [NoCall EXCEPT !.at = "read", !.sets = "enabled", !.enabled = ~games[g].enabled])
  PROVE  GameInv'
<1> DEFINE request == [NoCall EXCEPT !.at = "read", !.sets = "enabled", !.enabled = ~games[g].enabled]
           begun == [request EXCEPT !.game = g]
<1>1. games[g].enabled \in BOOLEAN
  <2>1. games[g] = NoGame \/ games[g] \in Kinds
    BY DEF GameInv, TypesOK, StoreOK
  <2>2. NoGame.enabled \in BOOLEAN
    BY DEF NoGame
  <2> QED BY <2>1, <2>2 DEF Kinds
<1>2. request \in Calls
  BY <1>1 DEF NoCall, Calls
<1>3. /\ begun.at = "read" /\ begun.sets = "enabled" /\ begun.then = "idle" /\ begun.game = g
  BY DEF NoCall
<1>4. Begin(c, g, request) /\ artwork' = artwork
  OBVIOUS
<1> HIDE DEF request
<1>5. call'[c] = begun /\ begun \in Calls /\ Known(g)'
  BY <1>2, <1>4, Begun
<1> HIDE DEF begun
<1>6. CallOK(c)'
  BY <1>3, <1>5 DEF CallOK
<1>7. Keeps(c, g)'
  BY <1>3, <1>5 DEF Keeps
<1>8. artwork' \in [Games -> SUBSET Formats]
  BY <1>4 DEF GameInv, TypesOK, WorldOK
<1>9. begun.at # "remap"
  BY <1>3
<1>10. /\ Calling(c, "idle") /\ Request /\ Become(c, begun)
       /\ raced' = IF \E d \in Callers : call[d].game = g /\ ~Calling(d, "remap")
                   THEN raced \cup {g} ELSE raced
       /\ UNCHANGED <<games, rows, world, scan>>
  BY <1>2, <1>4, Begun DEF begun
<1>11. \A h \in Games : artwork[h] \subseteq artwork'[h]
  BY <1>4
<1> QED BY <1>3, <1>5, <1>6, <1>7, <1>8, <1>10, <1>11, BeginKeeps

LEMMA ToSetImage ==
  ASSUME NEW image \in Images, NEW then \in {"idle", "cleanup", "remove"},
         NEW file \in Formats \cup {"none"}, NEW g \in Games
  PROVE  /\ SetImage(image, then, file) \in Calls
         /\ [SetImage(image, then, file) EXCEPT !.game = g] \in Calls
         /\ [SetImage(image, then, file) EXCEPT !.game = g].game = g
         /\ [SetImage(image, then, file) EXCEPT !.game = g].at = "read"
         /\ [SetImage(image, then, file) EXCEPT !.game = g].sets = "image"
         /\ [SetImage(image, then, file) EXCEPT !.game = g].image = image
         /\ [SetImage(image, then, file) EXCEPT !.game = g].then = then
         /\ [SetImage(image, then, file) EXCEPT !.game = g].file = file
<1>1. SetImage(image, then, file) \in Calls
  BY DEF SetImage, NoCall, Calls
<1> DEFINE request == SetImage(image, then, file)
<1>2. /\ request.at = "read" /\ request.sets = "image" /\ request.image = image
      /\ request.then = then /\ request.file = file
  BY DEF SetImage, NoCall
<1> HIDE DEF request
<1>3. request \in Calls
  BY <1>1 DEF request
<1>4. /\ [request EXCEPT !.game = g] \in Calls
      /\ [request EXCEPT !.game = g].game = g
  BY <1>3 DEF Calls
<1>5. /\ [request EXCEPT !.game = g].at = request.at
      /\ [request EXCEPT !.game = g].sets = request.sets
      /\ [request EXCEPT !.game = g].image = request.image
      /\ [request EXCEPT !.game = g].then = request.then
      /\ [request EXCEPT !.game = g].file = request.file
  BY <1>3 DEF Calls
<1> USE DEF request
<1> QED BY <1>2, <1>3, <1>4, <1>5

\* An upload or a reset begins: the picture it records is there.
LEMMA PictureBegins ==
  ASSUME GameInv, NEW c \in Callers, NEW g \in Games, NEW image \in Images,
         NEW then \in {"idle", "cleanup", "remove"}, NEW file \in Formats \cup {"none"},
         then # "idle" => file \in Formats,
         Begin(c, g, SetImage(image, then, file)),
         artwork' \in [Games -> SUBSET Formats],
         \A h \in Games : artwork[h] \subseteq artwork'[h],
         g \notin raced =>
           /\ image \in Formats => image \in artwork'[g]
           /\ then = "cleanup" => image = file
           /\ then = "remove" => image = "default" /\ file \in artwork'[g]
  PROVE  GameInv'
<1> DEFINE request == SetImage(image, then, file)
           begun == [request EXCEPT !.game = g]
<1>1. /\ request \in Calls /\ begun \in Calls
      /\ begun.game = g /\ begun.at = "read" /\ begun.sets = "image"
      /\ begun.image = image /\ begun.then = then /\ begun.file = file
  BY ToSetImage
<1> HIDE DEF request
<1>2. /\ call'[c] = begun /\ Calling(c, "idle") /\ Request /\ Become(c, begun)
      /\ raced' = IF \E d \in Callers : call[d].game = g /\ ~Calling(d, "remap")
                  THEN raced \cup {g} ELSE raced
      /\ Known(g)'
      /\ UNCHANGED <<games, rows, world, scan>>
  BY <1>1, Begun DEF request
<1> HIDE DEF begun
<1>3. CallOK(c)'
  BY <1>1, <1>2 DEF CallOK
<1>4. g \notin raced => Keeps(c, g)'
  BY <1>1, <1>2 DEF Keeps
<1> QED BY <1>1, <1>2, <1>3, <1>4, BeginKeeps

LEMMA ResetImageKeeps == \A c \in Callers, g \in Games : GameInv /\ ResetImage(c, g) => GameInv'
<1> SUFFICES ASSUME GameInv, NEW c \in Callers, NEW g \in Games, ResetImage(c, g)
             PROVE  GameInv'
  OBVIOUS
<1> DEFINE file == games[g].image
<1>1. /\ file \in Formats /\ Begin(c, g, SetImage("default", "remove", file))
      /\ artwork' = artwork
  BY DEF ResetImage
<1>2. g \notin raced => file \in artwork[g]
  BY <1>1 DEF GameInv, PicturesOK, Shows
<1>3. artwork' \in [Games -> SUBSET Formats]
  BY <1>1 DEF GameInv, TypesOK, WorldOK
<1> HIDE DEF file
<1> QED BY <1>1, <1>2, <1>3, Apart, PictureBegins

LEMMA UploadImageKeeps ==
  \A c \in Callers, g \in Games, f \in Formats : GameInv /\ UploadImage(c, g, f) => GameInv'
<1> SUFFICES ASSUME GameInv, NEW c \in Callers, NEW g \in Games, NEW f \in Formats, UploadImage(c, g, f)
             PROVE  GameInv'
  OBVIOUS
<1>1. Begin(c, g, SetImage(f, "cleanup", f)) /\ artwork' = [artwork EXCEPT ![g] = @ \cup {f}]
  BY DEF UploadImage
<1>2. artwork \in [Games -> SUBSET Formats]
  BY DEF GameInv, TypesOK, WorldOK
<1>3. /\ artwork' \in [Games -> SUBSET Formats] /\ f \in artwork'[g]
      /\ \A h \in Games : artwork[h] \subseteq artwork'[h]
  BY <1>1, <1>2
<1> QED BY <1>1, <1>3, Apart, PictureBegins

LEMMA UpdateGameKeeps == \A c \in Callers, g \in Games : GameInv /\ UpdateGame(c, g) => GameInv'
<1> SUFFICES ASSUME GameInv, NEW c \in Callers, NEW g \in Games, UpdateGame(c, g)
             PROVE  GameInv'
  OBVIOUS
<1>1. artwork' = artwork
  BY DEF UpdateGame
<1>2. CASE Begin(c, g, [NoCall EXCEPT !.at = "read", !.sets = "enabled", !.enabled = ~games[g].enabled])
  BY <1>1, <1>2, SwitchBegins
<1>3. CASE \E image \in {"default"} \cup artwork[g] : Begin(c, g, SetImage(image, "idle", "none"))
  <2>1. PICK image \in {"default"} \cup artwork[g] : Begin(c, g, SetImage(image, "idle", "none"))
    BY <1>3
  <2>2. artwork \in [Games -> SUBSET Formats]
    BY DEF GameInv, TypesOK, WorldOK
  <2>3. image \in Images /\ (image \in Formats => image \in artwork'[g])
    BY <1>1, <2>2, Apart
  <2> QED BY <1>1, <2>1, <2>2, <2>3, PictureBegins
<1> QED BY <1>2, <1>3 DEF UpdateGame

LEMMA RemapGameKeeps ==
  \A c \in Callers, g \in Games, e \in Entries : GameInv /\ RemapGame(c, g, e) => GameInv'
<1> SUFFICES ASSUME GameInv, NEW c \in Callers, NEW g \in Games, NEW e \in Entries, RemapGame(c, g, e)
             PROVE  GameInv'
  OBVIOUS
<1> DEFINE places == IF g \in Manual THEN {} ELSE Resolved(e)
           request == [NoCall EXCEPT !.at = "remap", !.entry = e, !.places = places]
           begun == [request EXCEPT !.game = g]
<1>1. g \notin Entries
  BY Apart DEF RemapGame, GameInv, Agree, Bare
<1>2. /\ places \subseteq PlacesOf[e] /\ places \in SUBSET Places
      /\ g \in Manual => places = {}
  BY PlacesAssumption DEF Resolved
<1>3. Begin(c, g, request) /\ artwork' = artwork
  BY DEF RemapGame
<1> HIDE DEF places
<1>4. /\ request \in Calls /\ begun.at = "remap" /\ begun.game = g /\ begun.entry = e
      /\ begun.places = places /\ begun.then = "idle"
  BY <1>2 DEF NoCall, Calls
<1> HIDE DEF request
<1>5. /\ begun \in Calls /\ call'[c] = begun /\ Calling(c, "idle") /\ Request /\ Become(c, begun)
      /\ raced' = IF \E d \in Callers : call[d].game = g /\ ~Calling(d, "remap")
                  THEN raced \cup {g} ELSE raced
      /\ Known(g)'
      /\ UNCHANGED <<games, rows, world, scan>>
  BY <1>3, <1>4, Begun
<1> HIDE DEF begun
<1>6. CallOK(c)'
  BY <1>1, <1>2, <1>4, <1>5 DEF CallOK
<1>7. artwork' \in [Games -> SUBSET Formats]
  BY <1>3 DEF GameInv, TypesOK, WorldOK
<1> QED BY <1>3, <1>4, <1>5, <1>6, <1>7, BeginKeeps

\* The game of a request under way.
LEMMA CallerOK ==
  ASSUME GameInv, NEW c \in Callers, call[c].at \notin {"idle", "remap"}
  PROVE  /\ call[c] \in Calls /\ CallOK(c)
         /\ call[c].game \in Games /\ Known(call[c].game) /\ games[call[c].game] \in Kinds
         /\ call[c].game \notin raced => Shows(call[c].game) /\ Keeps(c, call[c].game)
<1>1. call[c] \in Calls /\ CallOK(c)
  BY DEF GameInv, TypesOK, CallsOK
<1>2. call[c].game \in Games /\ Known(call[c].game)
  BY <1>1 DEF CallOK
<1>3. games[call[c].game] \in Kinds
  BY <1>2 DEF GameInv, TypesOK, StoreOK, Known
<1>4. Changing(c, call[c].game)
  BY DEF Changing
<1> QED BY <1>1, <1>2, <1>3, <1>4 DEF GameInv, PicturesOK

\* A step of a request changes its game only, which nothing else changes.
LEMMA CallerMoves ==
  ASSUME GameInv, NEW c \in Callers, call[c].at \notin {"idle", "remap"},
         NEW g \in Games, call[c].game = g,
         NEW request \in Calls, request = NoCall \/ request.game = g, Become(c, request),
         StoreOK', Agree', Fault \/ UNCHANGED count, UNCHANGED <<world, scan, raced>>,
         artwork' \in [Games -> SUBSET Formats],
         \A h \in Games : Known(h) => Known(h)',
         \A h \in Games \ {g} : artwork'[h] = artwork[h] /\ games'[h].image = games[h].image,
         CallOK(c)',
         g \notin raced => Shows(g)' /\ (request # NoCall => Keeps(c, g)')
  PROVE  GameInv'
<1>1. /\ call' \in [Callers -> Calls] /\ call'[c] = request
      /\ \A d \in Callers \ {c} : call'[d] = call[d]
  BY Became DEF GameInv, TypesOK, CallsOK
<1>2. \A d \in Callers \ {c} : CallOK(d)'
  BY <1>1 DEF GameInv, TypesOK, CallsOK, CallOK
<1>3. CallsOK'
  BY <1>1, <1>2 DEF CallsOK
<1>4. count' \in Counts
  BY CountTyped DEF GameInv, TypesOK, WorldOK
<1>5. WorldOK'
  BY <1>4 DEF GameInv, TypesOK, WorldOK, world
<1>6. \A h \in Games : Changing(c, h)' => h = g /\ request # NoCall
  BY <1>1, Ended, Apart DEF Changing
<1>7. ASSUME NEW h \in Games \ raced
      PROVE  Shows(h)' /\ Alone(h)' /\ \A d \in Callers : Changing(d, h)' => Keeps(d, h)'
  <2>1. Shows(h) /\ Alone(h) /\ \A d \in Callers : Changing(d, h) => Keeps(d, h)
    BY <1>7 DEF GameInv, PicturesOK
  <2>2. Shows(h)'
    BY <1>7, <2>1 DEF Shows
  <2>3. \A d \in Callers \ {c} : Changing(d, h)' <=> Changing(d, h)
    BY <1>1 DEF Changing
  <2>4. Changing(c, h)' => Changing(c, h)
    BY <1>6 DEF Changing
  <2>5. Alone(h)'
    BY <2>1, <2>3, <2>4 DEF Alone
  <2>6. Changing(c, g)
    BY DEF Changing
  <2>7. ASSUME NEW d \in Callers \ {c}, Changing(d, h)'
        PROVE  Keeps(d, h)'
    <3>1. Keeps(d, h) /\ call'[d] = call[d]
      BY <1>1, <2>1, <2>3, <2>7
    <3>2. h # g
      BY <2>1, <2>3, <2>6, <2>7 DEF Alone
    <3> QED BY <3>1, <3>2 DEF Keeps
  <2>8. Changing(c, h)' => Keeps(c, h)'
    BY <1>6, <1>7
  <2> QED BY <2>2, <2>5, <2>7, <2>8
<1>8. PicturesOK'
  BY <1>7 DEF PicturesOK
<1> QED BY <1>3, <1>5, <1>8, ScanKept DEF GameInv, TypesOK

\* The steps that leave the store alone.
LEMMA StoreSame ==
  ASSUME GameInv, UNCHANGED <<games, rows>>
  PROVE  /\ StoreOK' /\ Agree'
         /\ \A h \in Games : (Known(h) <=> Known(h)') /\ games'[h].image = games[h].image
  BY DEF GameInv, TypesOK, StoreOK, Keyed, Known, Agree, Bare, AgreeAt, CatalogPlaces

LEMMA ReadGameKeeps == \A c \in Callers : GameInv /\ ReadGame(c) => GameInv'
<1> SUFFICES ASSUME GameInv, NEW c \in Callers, ReadGame(c)
             PROVE  GameInv'
  OBVIOUS
<1>1. call[c].at = "read"
  BY DEF ReadGame, Calling
<1>2. PICK g \in Games :
        /\ call[c].game = g /\ call[c] \in Calls /\ CallOK(c) /\ Known(g) /\ games[g] \in Kinds
        /\ g \notin raced => Shows(g) /\ Keeps(c, g)
  BY <1>1, CallerOK
<1> DEFINE copy == IF call[c].sets = "image"
                   THEN [call[c] EXCEPT !.enabled = games[g].enabled]
                   ELSE [call[c] EXCEPT !.image = games[g].image]
           request == [copy EXCEPT !.at = "write"]
<1>3. /\ Become(c, request)
       /\ UNCHANGED <<games, rows, artwork, count, world, scan, raced>>
  BY <1>2 DEF ReadGame, Continue
<1>4. /\ games[g].enabled \in BOOLEAN /\ games[g].image \in Images
  BY <1>2 DEF Kinds
<1>5. /\ copy \in Calls /\ copy.game = g /\ copy.sets = call[c].sets
      /\ copy.then = call[c].then /\ copy.file = call[c].file
      /\ copy.image = IF call[c].sets = "image" THEN call[c].image ELSE games[g].image
  <2>1. CASE call[c].sets = "image"
    BY <1>2, <1>4, <2>1 DEF Calls
  <2>2. CASE call[c].sets # "image"
    BY <1>2, <1>4, <2>2 DEF Calls
  <2> QED BY <2>1, <2>2
<1> HIDE DEF copy
<1>6. /\ request \in Calls /\ request.game = g /\ request.sets = call[c].sets
      /\ request.then = call[c].then /\ request.file = call[c].file /\ request.at = "write"
      /\ request.image = IF call[c].sets = "image" THEN call[c].image ELSE games[g].image
  BY <1>5 DEF Calls
<1> HIDE DEF request
<1>7. call'[c] = request
  BY <1>6, <1>3, Became DEF GameInv, TypesOK, CallsOK
<1>8. Known(g)'
  BY <1>2, <1>3 DEF Known
<1>9. request.image \in Images
  BY <1>1, <1>2, <1>4, <1>6 DEF CallOK
<1>10. CallOK(c)'
  BY <1>2, <1>6, <1>7, <1>8, <1>9 DEF CallOK
<1>11. g \notin raced => Shows(g)' /\ Keeps(c, g)'
  BY <1>1, <1>2, <1>6, <1>7, <1>3 DEF Keeps, Shows
<1>12. artwork' \in [Games -> SUBSET Formats]
  BY <1>3 DEF GameInv, TypesOK, WorldOK
<1>13. /\ StoreOK' /\ Agree'
       /\ \A h \in Games : (Known(h) <=> Known(h)') /\ games'[h].image = games[h].image
  BY <1>3, StoreSame
<1> QED BY <1>1, <1>2, <1>6, <1>10, <1>11, <1>12, <1>13, <1>3, CallerMoves

LEMMA WriteGameKeeps == \A c \in Callers : GameInv /\ WriteGame(c) => GameInv'
<1> SUFFICES ASSUME GameInv, NEW c \in Callers, WriteGame(c)
             PROVE  GameInv'
  OBVIOUS
<1>1. call[c].at = "write"
  BY DEF WriteGame, Calling
<1>2. PICK g \in Games :
        /\ call[c].game = g /\ call[c] \in Calls /\ CallOK(c) /\ Known(g) /\ games[g] \in Kinds
        /\ g \notin raced => Shows(g) /\ Keeps(c, g)
  BY <1>1, CallerOK
<1> DEFINE game == [games[g] EXCEPT !.enabled = call[c].enabled, !.image = call[c].image]
           request == IF call[c].then = "idle" THEN NoCall ELSE [call[c] EXCEPT !.at = call[c].then]
<1>3. /\ games' = [games EXCEPT ![g] = game] /\ Become(c, request)
      /\ UNCHANGED <<rows, artwork, count, world, scan, raced>>
  BY <1>2 DEF WriteGame, Goto, Continue
<1>4. call[c].enabled \in BOOLEAN /\ call[c].image \in Images
  BY <1>1, <1>2 DEF Calls, CallOK
<1>5. /\ game \in Kinds /\ game.entry = games[g].entry /\ game.registry = games[g].registry
      /\ game.located = games[g].located /\ game.image = call[c].image
  BY <1>2, <1>4 DEF Kinds
<1> HIDE DEF game
<1>6. /\ StoreOK' /\ Agree' /\ games'[g] = game
      /\ \A h \in Games \ {g} : games'[h] = games[h]
      /\ \A h \in Games : Known(h) => Known(h)'
  BY <1>2, <1>3, <1>5, GameEdited DEF GameInv, TypesOK
<1>7. call[c].then = "idle" => request = NoCall
  OBVIOUS
<1>8. call[c].then # "idle" =>
        /\ request.game = g /\ request.at = call[c].then
        /\ request.then = call[c].then /\ request.file = call[c].file
  BY <1>2 DEF Calls
<1>9. request \in Calls
  <2>1. call[c].then # "idle" => [call[c] EXCEPT !.at = call[c].then] \in Calls
    BY <1>2 DEF Calls
  <2> QED BY <2>1, Ended
<1>10. call[c].then \in {"idle", "cleanup", "remove"}
  BY <1>2 DEF Calls
<1> HIDE DEF request
<1>11. call'[c] = request
  BY <1>3, <1>9, Became DEF GameInv, TypesOK, CallsOK
<1>12. CallOK(c)'
  <2>1. CASE call[c].then = "idle"
    BY <1>7, <1>11, <2>1, Ended DEF CallOK
  <2>2. CASE call[c].then # "idle"
    BY <1>2, <1>6, <1>8, <1>10, <1>11, <2>2 DEF CallOK
  <2> QED BY <2>1, <2>2
<1>13. ASSUME g \notin raced
       PROVE  Shows(g)' /\ (request # NoCall => Keeps(c, g)')
  <2>1. Shows(g) /\ Keeps(c, g)
    BY <1>2, <1>13
  <2>2. Shows(g)'
    BY <1>1, <1>3, <1>5, <1>6, <2>1 DEF Shows, Keeps
  <2>3. ASSUME request # NoCall
        PROVE  Keeps(c, g)'
    <3>1. /\ request.at = call[c].then /\ request.file = call[c].file
          /\ call[c].then \in {"cleanup", "remove"}
      BY <1>7, <1>8, <1>10, <2>3
    <3> QED BY <1>1, <1>3, <1>5, <1>6, <1>11, <2>1, <3>1 DEF Keeps
  <2> QED BY <2>2, <2>3
<1>14. artwork' \in [Games -> SUBSET Formats]
  BY <1>3 DEF GameInv, TypesOK, WorldOK
<1> QED BY <1>1, <1>2, <1>3, <1>6, <1>7, <1>8, <1>9, <1>12, <1>13, <1>14, CallerMoves

\* A step of a request that ends it and leaves the store alone.
LEMMA RequestEnds ==
  ASSUME GameInv, NEW c \in Callers, call[c].at \notin {"idle", "remap"},
         NEW g \in Games, call[c].game = g, Goto(c, "idle"),
         UNCHANGED <<games, rows>>, Continue, Fault \/ UNCHANGED count,
         artwork' \in [Games -> SUBSET Formats],
         \A h \in Games \ {g} : artwork'[h] = artwork[h],
         g \notin raced => Shows(g)'
  PROVE  GameInv'
<1>1. Become(c, NoCall) /\ NoCall \in Calls
  BY Ended DEF Goto
<1>2. call'[c] = NoCall
  BY <1>1, Became DEF GameInv, TypesOK, CallsOK
<1>3. CallOK(c)'
  BY <1>2, Ended DEF CallOK
<1>4. /\ StoreOK' /\ Agree'
      /\ \A h \in Games : (Known(h) <=> Known(h)') /\ games'[h].image = games[h].image
  BY StoreSame
<1> QED BY <1>1, <1>3, <1>4, CallerMoves DEF Continue

LEMMA UpdateFailsKeeps == \A c \in Callers : GameInv /\ UpdateFails(c) => GameInv'
<1> SUFFICES ASSUME GameInv, NEW c \in Callers, UpdateFails(c)
             PROVE  GameInv'
  OBVIOUS
<1>1. call[c].at \in {"read", "write"}
  BY DEF UpdateFails
<1>2. PICK g \in Games :
        /\ call[c].game = g /\ call[c] \in Calls /\ CallOK(c) /\ Known(g) /\ games[g] \in Kinds
        /\ g \notin raced => Shows(g) /\ Keeps(c, g)
  BY <1>1, CallerOK
<1>3. UNCHANGED <<games, rows, artwork>> /\ Goto(c, "idle") /\ Continue /\ Fault
  BY DEF UpdateFails
<1>4. g \notin raced => Shows(g)'
  BY <1>2, <1>3 DEF Shows
<1>5. artwork' \in [Games -> SUBSET Formats]
  BY <1>3 DEF GameInv, TypesOK, WorldOK
<1> QED BY <1>1, <1>2, <1>3, <1>4, <1>5, RequestEnds

LEMMA CleanupArtworkKeeps == \A c \in Callers : GameInv /\ CleanupArtwork(c) => GameInv'
<1> SUFFICES ASSUME GameInv, NEW c \in Callers, CleanupArtwork(c)
             PROVE  GameInv'
  OBVIOUS
<1>1. call[c].at = "cleanup"
  BY DEF CleanupArtwork, Calling
<1>2. PICK g \in Games :
        /\ call[c].game = g /\ call[c] \in Calls /\ CallOK(c) /\ Known(g) /\ games[g] \in Kinds
        /\ g \notin raced => Shows(g) /\ Keeps(c, g)
  BY <1>1, CallerOK
<1>3. /\ UNCHANGED <<games, rows>> /\ Goto(c, "idle") /\ Continue
      /\ Fault \/ UNCHANGED count
      /\ artwork' = [artwork EXCEPT ![g] = @ \cap {call[c].file}] \/ UNCHANGED artwork
  BY <1>2 DEF CleanupArtwork
<1>4. artwork \in [Games -> SUBSET Formats]
  BY DEF GameInv, TypesOK, WorldOK
<1>5. /\ artwork' \in [Games -> SUBSET Formats]
      /\ \A h \in Games \ {g} : artwork'[h] = artwork[h]
      /\ artwork'[g] = artwork[g] \cap {call[c].file} \/ artwork'[g] = artwork[g]
  BY <1>3, <1>4
<1>6. g \notin raced => Shows(g)'
  BY <1>1, <1>2, <1>3, <1>5 DEF Shows, Keeps
<1> QED BY <1>1, <1>2, <1>3, <1>5, <1>6, RequestEnds

LEMMA RemoveArtworkKeeps == \A c \in Callers : GameInv /\ RemoveArtwork(c) => GameInv'
<1> SUFFICES ASSUME GameInv, NEW c \in Callers, RemoveArtwork(c)
             PROVE  GameInv'
  OBVIOUS
<1>1. call[c].at = "remove"
  BY DEF RemoveArtwork, Calling
<1>2. PICK g \in Games :
        /\ call[c].game = g /\ call[c] \in Calls /\ CallOK(c) /\ Known(g) /\ games[g] \in Kinds
        /\ g \notin raced => Shows(g) /\ Keeps(c, g)
  BY <1>1, CallerOK
<1>3. /\ UNCHANGED <<games, rows, count>> /\ Goto(c, "idle") /\ Continue
      /\ Fault \/ UNCHANGED count
      /\ artwork' = [artwork EXCEPT ![g] = @ \ {call[c].file}]
  BY <1>2 DEF RemoveArtwork
<1>4. artwork \in [Games -> SUBSET Formats]
  BY DEF GameInv, TypesOK, WorldOK
<1>5. /\ artwork' \in [Games -> SUBSET Formats]
      /\ \A h \in Games \ {g} : artwork'[h] = artwork[h]
  BY <1>3, <1>4
<1>6. g \notin raced => Shows(g)'
  <2>1. g \notin raced => games[g].image = "default"
    BY <1>1, <1>2 DEF Keeps
  <2>2. "default" \notin Formats
    BY GamesAssumption
  <2> QED BY <1>3, <2>1, <2>2 DEF Shows
<1> QED BY <1>1, <1>2, <1>3, <1>5, <1>6, RequestEnds

LEMMA RemoveFailsKeeps == \A c \in Callers : GameInv /\ RemoveFails(c) => GameInv'
<1> SUFFICES ASSUME GameInv, NEW c \in Callers, RemoveFails(c)
             PROVE  GameInv'
  OBVIOUS
<1>1. call[c].at = "remove"
  BY DEF RemoveFails, Calling
<1>2. PICK g \in Games :
        /\ call[c].game = g /\ call[c] \in Calls /\ CallOK(c) /\ Known(g) /\ games[g] \in Kinds
        /\ g \notin raced => Shows(g) /\ Keeps(c, g)
  BY <1>1, CallerOK
<1> DEFINE request == [SetImage(call[c].file, "idle", "none") EXCEPT !.game = g]
<1>3. UNCHANGED <<games, rows, artwork>> /\ Become(c, request) /\ Continue /\ Fault
  BY <1>2 DEF RemoveFails
<1>4. call[c].file \in Formats /\ call[c].file \in Images
  BY <1>1, <1>2, Apart DEF CallOK
<1>5. /\ request \in Calls /\ request.game = g /\ request.at = "read" /\ request.sets = "image"
      /\ request.image = call[c].file /\ request.then = "idle"
  BY <1>4, ToSetImage
<1> HIDE DEF request
<1>6. call'[c] = request
  BY <1>3, <1>5, Became DEF GameInv, TypesOK, CallsOK
<1>7. /\ StoreOK' /\ Agree'
      /\ \A h \in Games : (Known(h) <=> Known(h)') /\ games'[h].image = games[h].image
  BY <1>3, StoreSame
<1>8. CallOK(c)'
  BY <1>2, <1>4, <1>5, <1>6, <1>7 DEF CallOK
<1>9. g \notin raced => Shows(g)' /\ Keeps(c, g)'
  BY <1>1, <1>2, <1>3, <1>5, <1>6 DEF Shows, Keeps
<1>10. artwork' \in [Games -> SUBSET Formats]
  BY <1>3 DEF GameInv, TypesOK, WorldOK
<1> QED BY <1>1, <1>2, <1>3, <1>5, <1>7, <1>8, <1>9, <1>10, CallerMoves DEF Continue

LEMMA SaveRemappedKeeps == \A c \in Callers : GameInv /\ SaveRemapped(c) => GameInv'
<1> SUFFICES ASSUME GameInv, NEW c \in Callers, SaveRemapped(c)
             PROVE  GameInv'
  OBVIOUS
<1>1. call[c].at = "remap" /\ Goto(c, "idle") /\ UNCHANGED <<artwork, world, scan, raced>>
  BY DEF SaveRemapped, Calling, Continue
<1>2. call[c] \in Calls /\ CallOK(c)
  BY DEF GameInv, TypesOK, CallsOK
<1>3. PICK g \in Games, entry \in Entries, places \in SUBSET Places :
        /\ call[c].game = g /\ call[c].entry = entry /\ call[c].places = places
        /\ Known(g) /\ g \notin Entries /\ places \subseteq PlacesOf[entry]
  BY <1>1, <1>2 DEF CallOK, Calls
<1>4. games[g].located \in BOOLEAN
  BY <1>3 DEF GameInv, TypesOK, StoreOK, Known, Kinds
<1>5. g \in Launched <=> g \notin Manual
  BY <1>3, Apart DEF Games
<1>6. StoreOK' /\ Agree' /\ ImagesKept
  <2>1. CASE SaveGameRelations(g, entry, games[g].located, places, g \notin Manual)
    <3>1. (g \notin Manual) \in BOOLEAN
      OBVIOUS
    <3> QED BY <1>3, <1>4, <1>5, <2>1, <3>1, RelationsSaved DEF GameInv, TypesOK
  <2>2. CASE SaveFails(g, entry)
    BY <2>2, StoreSame, Apart DEF SaveFails, ImagesKept, Known, NoGame
  <2> QED BY <1>3, <2>1, <2>2 DEF SaveRemapped
<1>7. WorldOK'
  BY <1>1, WorldKept DEF SaveRemapped
<1>8. /\ call' \in [Callers -> Calls] /\ call'[c] = NoCall
      /\ \A d \in Callers \ {c} : call'[d] = call[d]
  BY <1>1, Ended, Became DEF Goto, GameInv, TypesOK, CallsOK
<1> QED BY <1>1, <1>6, <1>7, <1>8, ScanKept, RequestsEnd

-----------------------------------------------------------------------------
(* The theorems.                                                           *)

LEMMA NextKeeps == GameInv /\ [Next]_vars => GameInv'
<1> SUFFICES ASSUME GameInv, [Next]_vars
             PROVE  GameInv'
  OBVIOUS
<1>1. CASE Discover \/ ScanStep \/ RegisterFails \/ ScanFails
  BY <1>1, DiscoverKeeps, MatchKeeps, RegisterKeeps, SearchKeeps, RegisterLocalKeeps, ClearStaleKeeps,
     RegisterFailsKeeps DEF ScanStep
<1>2. CASE \E g \in Launched : MatchFails(g) \/ \E e \in Entries \cup {None} : MatchChanges(g, e)
  BY <1>2, MatchFailsKeeps, WorldChangesKeeps
<1>3. CASE \/ \E g \in Manual, p \in Typed : AddGame(g, p)
           \/ \E g \in Games : SetGameHidden(g)
           \/ \E g \in Launched \cup Entries : EnsureRemoteGame(g)
  BY <1>3, AddGameKeeps, SetGameHiddenKeeps, EnsureRemoteGameKeeps DEF Games
<1>4. CASE \/ \E g \in Games, p \in Typed : AddPath(g, p)
           \/ \E g \in Games : \E r \in rows[g] : UpdatePath(g, r) \/ DeletePath(g, r)
  BY <1>4, AddPathKeeps, UpdatePathKeeps, DeletePathKeeps
<1>5. CASE \E c \in Callers :
             \/ \E g \in Pictured : UpdateGame(c, g) \/ ResetImage(c, g)
             \/ \E g \in Pictured, f \in Formats : UploadImage(c, g, f)
             \/ \E g \in Games, e \in Entries : RemapGame(c, g, e)
  BY <1>5, UpdateGameKeeps, ResetImageKeeps, UploadImageKeeps, RemapGameKeeps, GamesAssumption
<1>6. CASE \E c \in Callers : CallStep(c)
  BY <1>6, ReadGameKeeps, WriteGameKeeps, UpdateFailsKeeps, CleanupArtworkKeeps, RemoveArtworkKeeps,
     RemoveFailsKeeps, SaveRemappedKeeps DEF CallStep
<1>7. CASE (\E p \in Places : DiskChanges(p)) \/ Crash
  BY <1>7, WorldChangesKeeps, CrashKeeps
<1>8. CASE UNCHANGED vars
  <2>1. UNCHANGED <<games, rows, artwork, world, scan, call, count, raced>>
    BY <1>8 DEF vars, world
  <2> QED BY <2>1, WorldKept, ScanKept, StoreKept
<1> QED
  BY <1>1, <1>2, <1>3, <1>4, <1>5, <1>6, <1>7, <1>8 DEF Next

\* The inductive invariant holds throughout.
THEOREM GameInvCorrect == Spec => []GameInv
  BY InitGameInv, NextKeeps, PTL DEF Spec

\* The variables of the library keep their types; in particular a game has at
\* most one row for a place, and a game that is not known has none.
THEOREM TypeCorrect == Spec => []TypeOK
  BY GameInvCorrect, TypesOKIsTypeOK, PTL DEF GameInv

\* Whatever scans, remaps, failures and crashes there are, the catalog locations
\* and the registry keys of every game are those of one entry, the one it is
\* linked to.
THEOREM RelationsAgreeCorrect == Spec => []RelationsAgree
  BY GameInvCorrect, AgreeIsRelationsAgree, PTL DEF GameInv

\* A picture that a game shows is there, unless two requests changed the game at
\* once.
THEOREM ArtworkExistsCorrect == Spec => []ArtworkExists
  BY GameInvCorrect, PicturesOKIsArtworkExists, PTL DEF GameInv

-----------------------------------------------------------------------------
(* What the user chose.                                                    *)

KeepsRows(g) ==
  /\ {r \in rows[g] : r.source = "custom"} \subseteq rows'[g]
  /\ \A r \in rows[g], q \in rows'[g] : r.place = q.place => r = q

KeepsGame(g) ==
  Known(g) => /\ games'[g].enabled = games[g].enabled
              /\ games'[g].hidden = games[g].hidden
              /\ games'[g].image = games[g].image

\* A step of a scan, or the end of a remap.
Settles == scan' # scan \/ \E c \in Callers : Calling(c, "remap") /\ ~Calling(c, "remap")'

LEMMA PathsKept ==
  ASSUME NEW old \in SUBSET Row, Keyed(old), NEW desired \in SUBSET Places
  PROVE  /\ {r \in old : r.source = "custom"} \subseteq SavePaths(old, desired)
         /\ \A r \in old, q \in SavePaths(old, desired) : r.place = q.place => r = q
<1>1. {r \in old : r.source = "custom"} \subseteq SavePaths(old, desired)
  BY DEF SavePaths
<1>2. ASSUME NEW r \in old, NEW q \in SavePaths(old, desired), r.place = q.place
      PROVE  r = q
  <2>1. q \notin old => \E p \in desired \ {x.place : x \in old} :
                           q = [place |-> p, source |-> "catalog", enabled |-> TRUE]
    BY DEF SavePaths
  <2>2. q \notin old => \E p \in desired \ {x.place : x \in old} : q.place = p
    BY <2>1
  <2>3. q \in old
    BY <1>2, <2>2
  <2> QED BY <1>2, <2>3 DEF Keyed
<1> QED BY <1>1, <1>2

\* saveGamePaths keeps the rows of one game, and there are no others.
LEMMA RowsSaved ==
  ASSUME StoreOK, NEW g \in Games, NEW places \in SUBSET Places,
         rows' = [rows EXCEPT ![g] = SavePaths(@, places)]
  PROVE  \A h \in Games : KeepsRows(h)
<1>1. ASSUME NEW h \in Games
      PROVE  KeepsRows(h)
  <2>1. rows[h] \in SUBSET Row /\ Keyed(rows[h])
    BY DEF StoreOK
  <2>2. CASE h = g
    <3>1. rows'[h] = SavePaths(rows[h], places)
      BY <2>2 DEF StoreOK
    <3> QED BY <2>1, <3>1, PathsKept DEF KeepsRows
  <2>3. CASE h # g
    <3>1. rows'[h] = rows[h]
      BY <2>3 DEF StoreOK
    <3> QED BY <2>1, <3>1 DEF KeepsRows, Keyed
  <2> QED BY <2>2, <2>3
<1> QED BY <1>1

LEMMA RelationsKept ==
  ASSUME StoreOK, NEW g \in Games, NEW entry \in Entries, NEW located \in BOOLEAN,
         NEW places \in SUBSET Places, NEW replaces \in BOOLEAN,
         SaveGameRelations(g, entry, located, places, replaces)
  PROVE  \A h \in Games : KeepsRows(h) /\ KeepsGame(h)
<1> DEFINE upserted == Upsert(g, entry, located)
           game == IF replaces THEN [upserted EXCEPT !.registry = entry] ELSE upserted
<1>1. /\ upserted \in Kinds
      /\ Known(g) => /\ upserted.image = games[g].image
                     /\ upserted.enabled = games[g].enabled
                     /\ upserted.hidden = games[g].hidden
  BY UpsertTyped
<1>2. games' = [games EXCEPT ![g] = game]
  BY DEF SaveGameRelations
<1> HIDE DEF upserted
<1>3. Known(g) => /\ game.image = games[g].image
                  /\ game.enabled = games[g].enabled
                  /\ game.hidden = games[g].hidden
  BY <1>1 DEF Kinds
<1> HIDE DEF game
<1>4. games'[g] = game /\ \A h \in Games \ {g} : games'[h] = games[h]
  BY <1>2 DEF StoreOK
<1>5. \A h \in Games : KeepsGame(h)
  BY <1>3, <1>4 DEF KeepsGame
<1>6. rows' = [rows EXCEPT ![g] = SavePaths(@, places)]
  BY DEF SaveGameRelations
<1> QED BY <1>5, <1>6, RowsSaved

LEMMA StoreKeptChoices ==
  ASSUME StoreOK, UNCHANGED <<games, rows>>
  PROVE  \A h \in Games : KeepsRows(h) /\ KeepsGame(h)
  BY DEF StoreOK, Keyed, KeepsRows, KeepsGame

LEMMA GamesKept ==
  ASSUME StoreOK, UNCHANGED games
  PROVE  \A h \in Games : KeepsGame(h)
  BY DEF KeepsGame

\* The steps that leave the store as it is.
LEMMA QuietKeeps ==
  ASSUME StoreOK,
         \/ Discover \/ RegisterFails \/ ScanFails \/ FindSaves \/ ListLocal \/ Discovered \/ Crash
         \/ \E g \in Launched : Match(g) \/ MatchFails(g)
         \/ \E g \in Launched, e \in Entries \cup {None} : MatchChanges(g, e)
         \/ \E p \in Places : DiskChanges(p)
         \/ \E c \in Callers, g \in Games : UpdateGame(c, g) \/ ResetImage(c, g)
         \/ \E c \in Callers, g \in Games, f \in Formats : UploadImage(c, g, f)
         \/ \E c \in Callers, g \in Games, e \in Entries : RemapGame(c, g, e)
         \/ \E c \in Callers : ReadGame(c) \/ UpdateFails(c) \/ CleanupArtwork(c)
                              \/ RemoveArtwork(c) \/ RemoveFails(c)
         \/ UNCHANGED vars
  PROVE  \A h \in Games : KeepsRows(h) /\ KeepsGame(h)
<1>1. UNCHANGED <<games, rows>>
  BY DEF Discover, RegisterFails, SaveFails, ScanFails, FindSaves, ListLocal, Discovered, Crash, Match,
     MatchFails, MatchChanges, DiskChanges, UpdateGame, ResetImage, UploadImage, RemapGame, Begin,
     ReadGame, UpdateFails, CleanupArtwork, RemoveArtwork, RemoveFails, vars
<1> QED BY <1>1, StoreKeptChoices

\* The user's own steps, and the writes of Store.UpdateGame, settle nothing.
LEMMA UserSettlesNothing ==
  ASSUME GameInv,
         \/ \E g \in Games, p \in Typed : AddGame(g, p) \/ AddPath(g, p)
         \/ \E g \in Games : SetGameHidden(g) \/ EnsureRemoteGame(g)
         \/ \E g \in Games : \E r \in rows[g] : UpdatePath(g, r) \/ DeletePath(g, r)
         \/ \E c \in Callers : WriteGame(c)
  PROVE  ~Settles
<1>1. CASE \E c \in Callers : WriteGame(c)
  <2>1. PICK c \in Callers : WriteGame(c)
    BY <1>1
  <2>2. call[c].at = "write" /\ scan' = scan
    BY <2>1 DEF WriteGame, Calling, Continue
  <2>3. \A d \in Callers \ {c} : call'[d] = call[d]
    BY <2>1 DEF WriteGame, Goto, Become, GameInv, TypesOK, CallsOK
  <2> QED BY <2>2, <2>3 DEF Settles, Calling
<1>2. CASE ~\E c \in Callers : WriteGame(c)
  <2>1. scan' = scan /\ call' = call
    BY <1>2 DEF AddGame, AddPath, RowsOnly, SetGameHidden, EnsureRemoteGame, UpdatePath, DeletePath
  <2> QED BY <2>1 DEF Settles, Calling
<1> QED BY <1>1, <1>2

LEMMA RegisterChoices ==
  ASSUME GameInv, Register \/ (\E e \in Entries : RegisterLocal(e))
  PROVE  \A h \in Games : KeepsRows(h) /\ KeepsGame(h)
<1>1. StoreOK /\ scan \in Scans /\ scan.places \in SUBSET Places
  BY DEF GameInv, TypesOK, ScanOK, Scans
<1>2. CASE Register
  <2>1. scan.game \in Launched /\ scan.entry \in Entries
    BY <1>2 DEF GameInv, TypesOK, ScanOK, Register, Scanning
  <2>2. scan.game \in Games
    BY <2>1, Apart
  <2>3. SaveGameRelations(scan.game, scan.entry, TRUE, scan.places, TRUE)
    BY <1>2 DEF Register
  <2> QED BY <1>1, <2>1, <2>2, <2>3, RelationsKept
<1>3. ASSUME NEW e \in Entries, RegisterLocal(e)
      PROVE  \A h \in Games : KeepsRows(h) /\ KeepsGame(h)
  <2>1. e \in Games /\ Present(e, scan.places) \in SUBSET Places
    BY <1>1, Apart DEF Present
  <2>2. CASE SaveGameRelations(e, e, FALSE, Present(e, scan.places), FALSE)
    BY <1>1, <2>1, <2>2, RelationsKept
  <2>3. CASE SaveFails(e, e)
    BY <1>1, <2>3, StoreKeptChoices DEF SaveFails
  <2> QED BY <1>3, <2>2, <2>3 DEF RegisterLocal
<1> QED BY <1>2, <1>3

LEMMA ClearStaleChoices ==
  ASSUME GameInv, NEW e \in Entries, ClearStale(e)
  PROVE  \A h \in Games : KeepsRows(h) /\ KeepsGame(h)
<1>1. StoreOK /\ e \in Games /\ UNCHANGED games /\ {} \in SUBSET Places
  BY Apart DEF GameInv, TypesOK, ClearStale
<1>2. CASE rows' = [rows EXCEPT ![e] = SavePaths(@, {})]
  BY <1>1, <1>2, RowsSaved, GamesKept
<1>3. CASE UNCHANGED rows
  BY <1>1, <1>3, StoreKeptChoices
<1> QED BY <1>2, <1>3 DEF ClearStale

LEMMA SaveRemappedChoices ==
  ASSUME GameInv, NEW c \in Callers, SaveRemapped(c)
  PROVE  \A h \in Games : KeepsRows(h) /\ KeepsGame(h)
<1>1. call[c].at = "remap" /\ call[c] \in Calls /\ CallOK(c) /\ StoreOK
  BY DEF SaveRemapped, Calling, GameInv, TypesOK, CallsOK
<1>2. PICK g \in Games, entry \in Entries, places \in SUBSET Places :
        /\ call[c].game = g /\ call[c].entry = entry /\ call[c].places = places
        /\ Known(g)
  BY <1>1 DEF CallOK, Calls
<1>3. games[g].located \in BOOLEAN /\ (g \notin Manual) \in BOOLEAN
  BY <1>2 DEF GameInv, TypesOK, StoreOK, Known, Kinds
<1>4. CASE SaveGameRelations(g, entry, games[g].located, places, g \notin Manual)
  BY <1>1, <1>2, <1>3, <1>4, RelationsKept
<1>5. CASE SaveFails(g, entry)
  BY <1>1, <1>5, StoreKeptChoices DEF SaveFails
<1> QED BY <1>2, <1>4, <1>5 DEF SaveRemapped

LEMMA NextKeepsChoices ==
  ASSUME GameInv, [Next]_vars, Settles
  PROVE  \A h \in Games : KeepsRows(h) /\ KeepsGame(h)
<1>1. StoreOK
  BY DEF GameInv, TypesOK
<1>2. CASE \/ Discover \/ RegisterFails \/ ScanFails \/ FindSaves \/ ListLocal \/ Discovered \/ Crash
           \/ \E g \in Launched : Match(g) \/ MatchFails(g)
           \/ \E g \in Launched, e \in Entries \cup {None} : MatchChanges(g, e)
           \/ \E p \in Places : DiskChanges(p)
           \/ UNCHANGED vars
  BY <1>1, <1>2, QuietKeeps
<1>3. CASE \E c \in Callers :
             \/ \E g \in Pictured : UpdateGame(c, g) \/ ResetImage(c, g)
             \/ \E g \in Pictured, f \in Formats : UploadImage(c, g, f)
             \/ \E g \in Games, e \in Entries : RemapGame(c, g, e)
  BY <1>1, <1>3, GamesAssumption, QuietKeeps
<1>4. CASE \E c \in Callers : CallStep(c)
  BY <1>1, <1>4, QuietKeeps, UserSettlesNothing, SaveRemappedChoices DEF CallStep
<1>5. CASE \/ \E g \in Manual, p \in Typed : AddGame(g, p)
           \/ \E g \in Games, p \in Typed : AddPath(g, p)
           \/ \E g \in Games : SetGameHidden(g)
           \/ \E g \in Games : \E r \in rows[g] : UpdatePath(g, r) \/ DeletePath(g, r)
           \/ \E g \in Launched \cup Entries : EnsureRemoteGame(g)
  BY <1>5, UserSettlesNothing DEF Games
<1>6. CASE Register \/ \E e \in Entries : RegisterLocal(e) \/ ClearStale(e)
  BY <1>6, RegisterChoices, ClearStaleChoices
<1> QED
  BY <1>2, <1>3, <1>4, <1>5, <1>6 DEF Next, ScanStep

\* Neither a scan nor a remap undoes what the user chose: locations, whether they
\* and the game are enabled, whether the game is hidden, and its picture.
THEOREM ChoicesKeptCorrect == Spec => ChoicesKept
<1>1. GameInv /\ [Next]_vars =>
        [Settles => \A g \in Games : KeepsRows(g) /\ KeepsGame(g)]_vars
  BY NextKeepsChoices
<1>2. [Settles => \A g \in Games : KeepsRows(g) /\ KeepsGame(g)]_vars =>
        [(scan' # scan \/ \E c \in Callers : Calling(c, "remap") /\ ~Calling(c, "remap")')
         => \A g \in Games :
              /\ {r \in rows[g] : r.source = "custom"} \subseteq rows'[g]
              /\ \A r \in rows[g], q \in rows'[g] : r.place = q.place => r = q
              /\ Known(g) => /\ games'[g].enabled = games[g].enabled
                             /\ games'[g].hidden = games[g].hidden
                             /\ games'[g].image = games[g].image]_vars
  BY DEF Settles, KeepsRows, KeepsGame
<1> QED BY <1>1, <1>2, GameInvCorrect, PTL DEF Spec, ChoicesKept
=============================================================================
