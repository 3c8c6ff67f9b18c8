--------------------------- MODULE WatcherProofs ---------------------------
(***************************************************************************)
(* Proofs about Watcher: its types, the debounce of automatic backups, and *)
(* what the watcher watches when callers revise the targets concurrently.  *)
(***************************************************************************)
EXTENDS Watcher, FiniteSetTheorems, SequenceTheorems, TLAPS

-----------------------------------------------------------------------------
(***************************************************************************)
(* Lemmas about the operators of the model.                                *)
(***************************************************************************)

\* The helpers on seconds stay within what they are given.
LEMMA SecondsBounded ==
  ASSUME NEW a \in Nat, NEW b \in Nat
  PROVE  /\ Smaller(a, b) \in Nat /\ Smaller(a, b) <= a /\ Smaller(a, b) <= b
         /\ Smaller(a, b) = a \/ Smaller(a, b) = b
         /\ Larger(a, b) \in Nat /\ a <= Larger(a, b)
         /\ Before(a) \in Nat /\ Before(a) <= a
  BY DEF Smaller, Larger, Before

\* snapshotDue never lies behind the age limit of the first change, and lies a
\* whole quiet period ahead unless that limit comes first.
LEMMA DueBounded ==
  ASSUME NEW g \in Games, NEW left \in Nat, gapLeft[g] \in Nat
  PROVE  /\ SnapshotDue(g, left) \in 0..left
         /\ Policy[g].quiet <= SnapshotDue(g, left) \/ SnapshotDue(g, left) = left
  <1>1. Policy[g].quiet \in Nat
    BY PolicyAssumption
  <1>2. QED
    BY <1>1 DEF SnapshotDue, Smaller, Larger

\* The order flushPending visits the due games in is a sequence of them, and
\* so is the part of it the queue has room for.
LEMMA SentBounded ==
  ASSUME TypeOK, NEW order \in SetToSeqs(Due),
         NEW room, room = QueueCap - Len(jobs),
         NEW sent, sent = SubSeq(order, 1, Smaller(room, Len(order)))
  PROVE  /\ sent \in Seq(Due)
         /\ Len(sent) <= room
         /\ jobs \o sent \in Seq(Games) /\ Len(jobs \o sent) <= QueueCap
  <1>1. Due \subseteq Games /\ IsFiniteSet(Due)
    BY GamesAssumption, FS_Subset DEF Due
  <1>2. Cardinality(Due) \in Nat
    BY <1>1, FS_CardinalityType
  <1>3. order \in [1..Cardinality(Due) -> Due]
    BY DEF SetToSeqs
  <1>4. order \in Seq(Due) /\ Len(order) = Cardinality(Due)
    BY <1>2, <1>3
  <1>5. room \in Nat
    BY QueueCapAssumption DEF TypeOK
  <1>6. /\ Smaller(room, Len(order)) \in Nat
        /\ Smaller(room, Len(order)) <= room
        /\ Smaller(room, Len(order)) <= Len(order)
    BY <1>2, <1>4, <1>5 DEF Smaller
  <1>7. \A i \in 1..Smaller(room, Len(order)) : order[i] \in Due
    BY <1>2, <1>3, <1>4, <1>6
  <1>8. sent \in Seq(Due) /\ Len(sent) = Smaller(room, Len(order))
    BY <1>6, <1>7, SubSeqProperties
  <1>9. sent \in Seq(Games)
    BY <1>1, <1>8, SeqMonotonic
  <1>10. jobs \in Seq(Games) /\ Len(jobs) \in Nat
    BY DEF TypeOK
  <1>11. jobs \o sent \in Seq(Games) /\ Len(jobs \o sent) = Len(jobs) + Len(sent)
    BY <1>9, <1>10, ConcatProperties
  <1>12. QED
    BY <1>5, <1>6, <1>8, <1>10, <1>11, QueueCapAssumption

-----------------------------------------------------------------------------
(***************************************************************************)
(* Type correctness.  The clocks are the part that takes an argument.      *)
(***************************************************************************)

\* The clocks of one game.
ClockOK(g) ==
  /\ pending[g] \in [due : 0..Policy[g].dirty, left : 0..Policy[g].dirty, set : BOOLEAN]
  /\ pending[g].due <= pending[g].left
  /\ gapLeft[g] \in 0..Policy[g].gap
  /\ calm[g] \in 0..Policy[g].quiet

LEMMA ClocksOfType ==
  TypeOK => \A g \in Games : ClockOK(g)
  BY DEF TypeOK, ClockOK

\* The policy of a game, as numbers.
LEMMA PolicyOfType ==
  ASSUME NEW g \in Games
  PROVE  /\ Policy[g].quiet \in Nat /\ Policy[g].gap \in Nat /\ Policy[g].dirty \in Nat
         /\ Policy[g].quiet > 0
         /\ Policy[g].quiet <= Policy[g].dirty
  BY PolicyAssumption

\* The entry of one more change is one.
LEMMA ChangedOfType ==
  ASSUME NEW g \in Games, ClockOK(g)
  PROVE  /\ Changed(g) \in [due : 0..Policy[g].dirty, left : 0..Policy[g].dirty, set : BOOLEAN]
         /\ Changed(g).due <= Changed(g).left
         /\ Changed(g).set
         /\ Policy[g].quiet <= Changed(g).due \/ Changed(g).due = Changed(g).left
  <1>1. PICK left \in 0..Policy[g].dirty :
          Changed(g) = [due |-> SnapshotDue(g, left), left |-> left, set |-> TRUE]
    <2>1. CASE pending[g].set
      <3>1. pending[g].left \in 0..Policy[g].dirty
        BY DEF ClockOK
      <3>2. Changed(g) = [due |-> SnapshotDue(g, pending[g].left), left |-> pending[g].left, set |-> TRUE]
        BY <2>1, Zenon DEF Changed
      <3>3. QED
        BY <3>1, <3>2, Zenon
    <2>2. CASE ~pending[g].set
      <3>1. Policy[g].dirty \in 0..Policy[g].dirty
        BY PolicyOfType
      <3>2. Changed(g) = [due |-> SnapshotDue(g, Policy[g].dirty), left |-> Policy[g].dirty, set |-> TRUE]
        BY <2>2, Zenon DEF Changed
      <3>3. QED
        BY <3>1, <3>2, Zenon
    <2>3. QED
      BY <2>1, <2>2
  <1>2. /\ SnapshotDue(g, left) \in 0..left
        /\ Policy[g].quiet <= SnapshotDue(g, left) \/ SnapshotDue(g, left) = left
    BY PolicyOfType, DueBounded DEF ClockOK
  <1>3. SnapshotDue(g, left) \in 0..Policy[g].dirty
    BY <1>2, PolicyOfType
  <1>4. QED
    BY <1>1, <1>2, <1>3

\* No step breaks a clock.
LEMMA ClocksPreserved ==
  ASSUME TypeOK, [Next]_vars, NEW g \in Games
  PROVE  ClockOK(g)'
  <1> USE PolicyOfType DEF ClockOK
  <1>a. ClockOK(g)
    BY ClocksOfType
  <1>b. Settled \in [due : 0..Policy[g].dirty, left : 0..Policy[g].dirty, set : BOOLEAN]
        /\ Settled.due <= Settled.left
    BY DEF Settled
  <1>1. CASE UNCHANGED timeVars
    BY <1>1, <1>a DEF timeVars
  <1>2. CASE ApplyTargets
    <2>1. pending'[g] \in {pending[g], Settled}
      BY <1>2 DEF ApplyTargets, Watch
    <2>2. gapLeft'[g] = gapLeft[g] /\ calm'[g] \in {calm[g], 0}
      BY <1>2 DEF ApplyTargets, Watch
    <2>3. QED
      BY <2>1, <2>2, <1>a, <1>b
  <1>3. CASE FlushPending
    <2>1. pending'[g] \in {pending[g], Settled} /\ gapLeft'[g] \in {gapLeft[g], Policy[g].gap}
      BY <1>3 DEF FlushPending
    <2>2. calm'[g] \in {calm[g], 0}
      BY <1>3 DEF FlushPending
    <2>3. QED
      BY <2>1, <2>2, <1>a, <1>b
  <1>4. CASE Second
    <2>1. pending'[g] = [pending[g] EXCEPT !.due = Before(@), !.left = Before(@)]
      BY <1>4 DEF Second
    <2>2. /\ gapLeft'[g] = Before(gapLeft[g])
          /\ calm'[g] \in {Smaller(calm[g] + 1, Policy[g].quiet), 0}
      BY <1>4 DEF Second
    <2>3. /\ Before(pending[g].due) \in 0..Policy[g].dirty
          /\ Before(pending[g].left) \in 0..Policy[g].dirty
          /\ Before(pending[g].due) <= Before(pending[g].left)
      BY <1>a DEF Before
    <2>4. pending'[g] = [due |-> Before(pending[g].due), left |-> Before(pending[g].left),
                         set |-> pending[g].set]
      BY <2>1, <1>a
    <2>5. Before(gapLeft[g]) \in 0..Policy[g].gap
      BY <1>a DEF Before
    <2>6. Smaller(calm[g] + 1, Policy[g].quiet) \in 0..Policy[g].quiet
      BY <1>a DEF Smaller
    <2>7. pending[g].set \in BOOLEAN
      BY <1>a
    <2>8. QED
      BY <2>2, <2>3, <2>4, <2>5, <2>6, <2>7
  <1>5. ASSUME NEW h \in Games, NEW kind \in {"create", "change"}, HandleEvent(h, kind)
        PROVE  ClockOK(g)'
    <2>1. pending'[g] \in {pending[g], Changed(g)} /\ calm'[g] \in {calm[g], 0}
      BY <1>5 DEF HandleEvent
    <2>2. gapLeft'[g] = gapLeft[g]
      BY <1>5 DEF HandleEvent
    <2>3. QED
      BY <2>1, <2>2, <1>a, ChangedOfType
  <1>6. CASE Surroundings
    BY <1>6, <1>1 DEF Surroundings, UpdateGame, ChangeSave, CreateDirectory, RemoveDirectory
  <1>7. ASSUME NEW c \in Callers, CallerStep(c)
        PROVE  ClockOK(g)'
    BY <1>7, <1>1 DEF CallerStep, LoadTargets, LoadFails, Reconcile
  <1>8. CASE TakeJob
    BY <1>8, <1>1 DEF TakeJob
  <1>9. CASE UNCHANGED vars
    BY <1>9, <1>1 DEF vars
  <1>10. QED
    BY <1>2, <1>3, <1>4, <1>5, <1>6, <1>7, <1>8, <1>9 DEF Next

LEMMA InitTypeOK ==
  Init => TypeOK
  <1> SUFFICES ASSUME Init PROVE TypeOK
    OBVIOUS
  <1>1. ASSUME NEW g \in Games
        PROVE  ClockOK(g)
    BY PolicyOfType DEF Init, ClockOK, Settled
  <1>2. Cardinality(update) <= 1
    BY FS_EmptySet DEF Init
  <1>3. jobs \in Seq(Games) /\ Len(jobs) <= QueueCap
    BY QueueCapAssumption DEF Init
  <1>4. QED
    BY <1>1, <1>2, <1>3 DEF Init, TypeOK, ClockOK

LEMMA NextTypeOK ==
  TypeOK /\ [Next]_vars => TypeOK'
  <1> SUFFICES ASSUME TypeOK, [Next]_vars PROVE TypeOK'
    OBVIOUS
  <1>c. ASSUME NEW g \in Games
        PROVE  ClockOK(g)'
    BY ClocksPreserved
  <1>d. \A g \in Games : ClockOK(g)'
    BY <1>c
  <1>e. Cardinality({}) <= 1
    BY FS_EmptySet
  <1>n. ASSUME NEW g \in Games, NEW kind \in {"create", "change"}, Notify(g, kind)
        PROVE  events' \in [Games -> SUBSET {"create", "change"}]
    <2>1. events \in [Games -> SUBSET {"create", "change"}]
      BY DEF TypeOK
    <2>2. events' = [events EXCEPT ![g] = events[g] \cup {kind}]
      BY <1>n DEF Notify
    <2>3. events[g] \cup {kind} \in SUBSET {"create", "change"}
      BY <2>1
    <2>4. QED
      BY <2>1, <2>2, <2>3
  <1>1. ASSUME NEW c \in Callers, NEW g \in Games, UpdateGame(c, g)
        PROVE  TypeOK'
    BY <1>1, <1>d DEF TypeOK, ClockOK, UpdateGame, watchVars, timeVars
  <1>2. ASSUME NEW g \in Games, ChangeSave(g)
        PROVE  TypeOK'
    <2>1. events' \in [Games -> SUBSET {"create", "change"}]
      <3>1. CASE Notify(g, "change")
        BY <3>1, <1>n
      <3>2. CASE UNCHANGED events
        BY <3>2 DEF TypeOK
      <3>3. QED
        BY <1>2, <3>1, <3>2 DEF ChangeSave
    <2>2. noticed' \subseteq Games
      BY <1>2 DEF TypeOK, ChangeSave
    <2>3. QED
      BY <1>2, <1>d, <2>1, <2>2
      DEF TypeOK, ClockOK, ChangeSave, library, callVars, watchVars, timeVars, askVars
  <1>3. ASSUME NEW g \in Games, CreateDirectory(g)
        PROVE  TypeOK'
    <2>1. events' \in [Games -> SUBSET {"create", "change"}]
      <3>1. CASE Notify(g, "create")
        BY <3>1, <1>n
      <3>2. CASE UNCHANGED events
        BY <3>2 DEF TypeOK
      <3>3. QED
        BY <1>3, <3>1, <3>2 DEF CreateDirectory
    <2>2. QED
      BY <1>3, <1>d, <2>1
      DEF TypeOK, ClockOK, CreateDirectory, callVars, watchVars, timeVars, askVars
  <1>4. ASSUME NEW g \in Games, RemoveDirectory(g)
        PROVE  TypeOK'
    <2>1. events' \in [Games -> SUBSET {"create", "change"}]
      <3>1. CASE Notify(g, "change")
        BY <3>1, <1>n
      <3>2. CASE UNCHANGED events
        BY <3>2 DEF TypeOK
      <3>3. QED
        BY <1>4, <3>1, <3>2 DEF RemoveDirectory
    <2>2. QED
      BY <1>4, <1>d, <2>1
      DEF TypeOK, ClockOK, RemoveDirectory, callVars, timeVars, askVars
  <1>5. ASSUME NEW c \in Callers, LoadTargets(c)
        PROVE  TypeOK'
    <2>1. PICK unread \in SUBSET enabled : list' = [list EXCEPT ![c] = enabled \ unread]
      BY <1>5 DEF LoadTargets
    <2>2. list' \in [Callers -> SUBSET Games] /\ call' \in [Callers -> {"idle", "load", "send"}]
      BY <1>5, <2>1 DEF TypeOK, LoadTargets
    <2>3. always' \subseteq Games /\ ever' \subseteq Games
      BY <1>5 DEF TypeOK, LoadTargets, LeftOut
    <2>4. UNCHANGED <<library, update, watchVars, events, timeVars, jobs, noticed>>
      BY <1>5 DEF LoadTargets
    <2>5. QED
      BY <1>d, <2>2, <2>3, <2>4 DEF TypeOK, ClockOK, library, watchVars, timeVars, askVars
  <1>6. ASSUME NEW c \in Callers, LoadFails(c)
        PROVE  TypeOK'
    BY <1>6, <1>d DEF TypeOK, ClockOK, LoadFails, library, watchVars, timeVars
  <1>7. ASSUME NEW c \in Callers, Reconcile(c)
        PROVE  TypeOK'
    <2>1. list[c] \subseteq Games
      BY DEF TypeOK
    <2>2. update' = {list[c]}
      BY <1>7 DEF Reconcile
    <2>3. update' \subseteq SUBSET Games
      BY <2>1, <2>2
    <2>4. Cardinality({list[c]}) = 1
      BY FS_Singleton, Zenon
    <2>5. Cardinality(update') <= 1
      BY <2>2, <2>4
    <2>6. QED
      BY <1>7, <1>d, <2>3, <2>5 DEF TypeOK, ClockOK, Reconcile, library, watchVars, timeVars, askVars
  <1>8. CASE ApplyTargets
    <2>0. PICK revised \in update : \E resolved \in SUBSET revised : Watch(revised, resolved)
      BY <1>8 DEF ApplyTargets
    <2>1. PICK resolved \in SUBSET revised :
            /\ root' = [g \in Games |-> IF g \in resolved THEN Nearest(g) ELSE "none"]
            /\ watched' \in SUBSET (resolved \cap dirs)
            /\ parentWatched' = (resolved \ dirs # {})
            /\ events' \in {events,
                 [g \in Games |-> Surviving(g, Games \ (watched' \cup (resolved \ dirs)), parentWatched')]}
            /\ noticed' \subseteq noticed
            /\ LeftOut(revised \ resolved)
      BY <2>0 DEF Watch
    <2>2. root' \in [Games -> {"none", "parent", "own"}]
      BY <2>1 DEF Nearest
    <2>3. events' \in [Games -> SUBSET {"create", "change"}]
      <3>1. events \in [Games -> SUBSET {"create", "change"}]
        BY DEF TypeOK
      <3>2. \A g \in Games :
              Surviving(g, Games \ (watched' \cup (resolved \ dirs)), parentWatched')
                \in SUBSET {"create", "change"}
        BY <3>1 DEF Surviving
      <3>3. QED
        BY <2>1, <3>1, <3>2
    <2>4. update' = {} /\ UNCHANGED <<library, callVars, jobs, ticked>>
      BY <1>8 DEF ApplyTargets
    <2>5. parentWatched' \in BOOLEAN /\ watched' \subseteq dirs'
      BY <2>1, <2>4 DEF library
    <2>6. always' \subseteq Games /\ ever' \subseteq Games
      BY <2>1 DEF TypeOK, LeftOut
    <2>7. QED
      BY <1>d, <1>e, <2>1, <2>2, <2>3, <2>4, <2>5, <2>6 DEF TypeOK, ClockOK, library, callVars, askVars
  <1>9. CASE FlushPending
    <2>1. jobs' \in Seq(Games) /\ Len(jobs') <= QueueCap
      BY <1>9, SentBounded DEF FlushPending
    <2>2. ticked' \in BOOLEAN
      BY <1>9 DEF FlushPending
    <2>3. UNCHANGED <<library, callVars, update, watchVars, events, noticed, askVars>>
      BY <1>9 DEF FlushPending
    <2>4. QED
      BY <1>d, <2>1, <2>2, <2>3 DEF TypeOK, ClockOK, library, callVars, watchVars, askVars
  <1>10. CASE Second
    BY <1>10, <1>d DEF TypeOK, ClockOK, Second, library, callVars, watchVars, askVars
  <1>11. ASSUME NEW g \in Games, NEW kind \in {"create", "change"}, HandleEvent(g, kind)
         PROVE  TypeOK'
    <2>1. events' \in [Games -> SUBSET {"create", "change"}]
      BY <1>11 DEF TypeOK, HandleEvent
    <2>2. watched' \subseteq dirs
      BY <1>11 DEF TypeOK, HandleEvent
    <2>3. QED
      BY <1>11, <1>d, <2>1, <2>2 DEF TypeOK, ClockOK, HandleEvent, library, callVars, askVars
  <1>12. CASE TakeJob
    <2>1. /\ Head(jobs) \in Games /\ Tail(jobs) \in Seq(Games)
          /\ Len(jobs) \in Nat /\ Len(Tail(jobs)) = Len(jobs) - 1
      BY <1>12, HeadTailProperties DEF TypeOK, TakeJob
    <2>2. jobs' \in Seq(Games) /\ Len(jobs') <= QueueCap
      BY <1>12, <2>1, QueueCapAssumption DEF TypeOK, TakeJob
    <2>3. QED
      BY <1>12, <1>d, <2>1, <2>2 DEF TypeOK, ClockOK, TakeJob, library, callVars, watchVars, timeVars, askVars
  <1>13. CASE UNCHANGED vars
    BY <1>13, <1>d
    DEF TypeOK, ClockOK, vars, library, callVars, watchVars, timeVars, askVars
  <1>14. QED
    BY <1>1, <1>2, <1>3, <1>4, <1>5, <1>6, <1>7, <1>8, <1>9, <1>10, <1>11, <1>12, <1>13
    DEF Next, Surroundings, CallerStep

\* TypeOK: every variable of the watcher keeps its type.  A deadline never
\* passes the age limit of its game, an OS watch is on a directory that
\* exists, and the channels never hold more than their capacity.
THEOREM TypeCorrect == Spec => []TypeOK
  <1>1. QED
    BY InitTypeOK, NextTypeOK, PTL DEF Spec

-----------------------------------------------------------------------------
(***************************************************************************)
(* The debounce.  QuietRespected speaks of the step that queues a backup;  *)
(* it follows from what every deadline means between two steps: it lies a  *)
(* quiet period after the last event, or at the age limit of the change.   *)
(***************************************************************************)
DeadlineOK ==
  \A g \in Games :
    pending[g].set => \/ Policy[g].quiet <= calm[g] + pending[g].due
                      \/ pending[g].due = pending[g].left

LEMMA InitDeadlineOK ==
  Init => DeadlineOK
  BY DEF Init, DeadlineOK, Settled

LEMMA NextDeadlineOK ==
  ASSUME TypeOK, DeadlineOK, [Next]_vars
  PROVE  DeadlineOK'
  <1> SUFFICES ASSUME NEW g \in Games, pending'[g].set
               PROVE  \/ Policy[g].quiet <= calm'[g] + pending'[g].due
                      \/ pending'[g].due = pending'[g].left
    BY DEF DeadlineOK
  <1>a. ClockOK(g)
    BY ClocksOfType
  <1>b. pending[g].set => \/ Policy[g].quiet <= calm[g] + pending[g].due
                          \/ pending[g].due = pending[g].left
    BY DEF DeadlineOK
  <1>c. ~Settled.set
    BY DEF Settled
  <1>1. CASE UNCHANGED timeVars
    BY <1>1, <1>b DEF timeVars
  <1>2. CASE ApplyTargets \/ FlushPending
    <2>1. \/ pending'[g] = Settled
          \/ pending'[g] = pending[g] /\ calm'[g] = calm[g]
      <3>1. CASE ApplyTargets
        BY <3>1 DEF ApplyTargets, Watch
      <3>2. CASE FlushPending
        BY <3>2 DEF FlushPending
      <3>3. QED
        BY <1>2, <3>1, <3>2
    <2>2. pending'[g] = pending[g] /\ calm'[g] = calm[g]
      BY <2>1, <1>c
    <2>3. QED
      BY <2>1, <2>2, <1>b
  <1>3. CASE Second
    <2>1. pending'[g] = [pending[g] EXCEPT !.due = Before(@), !.left = Before(@)]
      BY <1>3 DEF Second
    <2>2. /\ pending'[g].due = Before(pending[g].due)
          /\ pending'[g].left = Before(pending[g].left)
          /\ pending'[g].set = pending[g].set
      BY <2>1, <1>a DEF ClockOK
    <2>3. calm'[g] = Smaller(calm[g] + 1, Policy[g].quiet)
      BY <1>3, <2>2 DEF Second
    <2>4. /\ calm[g] \in Nat /\ calm[g] <= Policy[g].quiet
          /\ pending[g].due \in Nat /\ pending[g].left \in Nat
      BY <1>a, PolicyOfType DEF ClockOK
    <2>5. CASE pending[g].due = pending[g].left
      BY <2>2, <2>5
    <2>6. CASE Policy[g].quiet <= calm[g] + pending[g].due
      <3>1. Policy[g].quiet <= Smaller(calm[g] + 1, Policy[g].quiet) + Before(pending[g].due)
        BY <2>4, <2>6, PolicyOfType DEF Smaller, Before
      <3>2. QED
        BY <3>1, <2>2, <2>3
    <2>7. QED
      BY <2>2, <2>5, <2>6, <1>b
  <1>4. ASSUME NEW h \in Games, NEW kind \in {"create", "change"}, HandleEvent(h, kind)
        PROVE  \/ Policy[g].quiet <= calm'[g] + pending'[g].due
               \/ pending'[g].due = pending'[g].left
    <2>1. CASE g \in Touched(h)
      <3>1. pending'[g] = Changed(g) /\ calm'[g] = 0
        BY <1>4, <2>1 DEF HandleEvent
      <3>2. Changed(g).due \in Nat
        BY <1>a, ChangedOfType, PolicyOfType
      <3>3. QED
        BY <1>a, <3>1, <3>2, ChangedOfType, PolicyOfType
    <2>2. CASE g \notin Touched(h)
      <3>1. pending'[g] = pending[g] /\ calm'[g] = calm[g]
        BY <1>4, <2>2 DEF HandleEvent
      <3>2. QED
        BY <3>1, <1>b
    <2>3. QED
      BY <2>1, <2>2
  <1>5. CASE Surroundings
    BY <1>5, <1>1 DEF Surroundings, UpdateGame, ChangeSave, CreateDirectory, RemoveDirectory
  <1>6. CASE \E c \in Callers : CallerStep(c)
    BY <1>6, <1>1 DEF CallerStep, LoadTargets, LoadFails, Reconcile
  <1>7. CASE TakeJob
    BY <1>7, <1>1 DEF TakeJob
  <1>8. CASE UNCHANGED vars
    BY <1>8, <1>1 DEF vars
  <1>9. QED
    BY <1>2, <1>3, <1>4, <1>5, <1>6, <1>7, <1>8 DEF Next

\* A deadline that has come proves its game quiet, or its change too old.
LEMMA DueIsQuiet ==
  ASSUME TypeOK, DeadlineOK, NEW g \in Due
  PROVE  calm[g] = Policy[g].quiet \/ pending[g].left = 0
  <1>1. g \in Games /\ pending[g].set /\ pending[g].due = 0
    BY DEF Due
  <1>2. ClockOK(g)
    BY <1>1, ClocksOfType
  <1>3. Policy[g].quiet <= calm[g] + pending[g].due \/ pending[g].due = pending[g].left
    BY <1>1 DEF DeadlineOK
  <1>4. QED
    BY <1>1, <1>2, <1>3, PolicyOfType DEF ClockOK

\* QuietRespected: flushPending queues an automatic backup only when no event
\* of its game was handled for the whole quiet period, or when its first
\* unsaved change is as old as MaxDirty.
THEOREM QuietRespectedCorrect == Spec => QuietRespected
  <1>1. Init => TypeOK /\ DeadlineOK
    BY InitTypeOK, InitDeadlineOK
  <1>2. TypeOK /\ DeadlineOK /\ [Next]_vars => (TypeOK /\ DeadlineOK)'
    BY NextTypeOK, NextDeadlineOK
  <1>3. TypeOK /\ DeadlineOK /\ [Next]_vars =>
          [\A g \in Due : pending[g].set /\ ~pending'[g].set /\ jobs' # jobs =>
             calm[g] = Policy[g].quiet \/ pending[g].left = 0]_vars
    BY DueIsQuiet
  <1>4. QED
    BY <1>1, <1>2, <1>3, PTL DEF Spec, QuietRespected

-----------------------------------------------------------------------------
(***************************************************************************)
(* What is watched.  Lists are loaded and handed over without a lock, so   *)
(* what arrives last may be older than what is in force.  It is never      *)
(* older than the first of the calls that overlap: as long as one of them  *)
(* is under way, the library and every list on its way lie between what    *)
(* has been enabled all along and what has been enabled at some time, and  *)
(* what the last of them hands over does.                                  *)
(***************************************************************************)
Recent(gs) == always \subseteq gs /\ gs \subseteq ever

ListsRecent ==
  /\ ~AllIdle => Recent(enabled)
  /\ \A c \in Callers : call[c] = "send" => Recent(list[c])
  /\ AllIdle => /\ update = {} => Recent(Targets)
                /\ \A gs \in update : Recent(gs)

LEMMA InitListsRecent ==
  Init => ListsRecent
  <1> SUFFICES ASSUME Init PROVE ListsRecent
    OBVIOUS
  <1>1. PICK starter \in Callers :
          call = [c \in Callers |-> IF c = starter THEN "load" ELSE "idle"]
    BY DEF Init
  <1>2. \A c \in Callers : call[c] # "send"
    BY <1>1
  <1>3. ~AllIdle
    BY <1>1 DEF AllIdle
  <1>4. Recent(enabled)
    BY DEF Init, Recent
  <1>5. QED
    BY <1>2, <1>3, <1>4 DEF ListsRecent

\* A list that is recent stays so for the calls that overlap.
LEMMA RecentStays ==
  ASSUME always' \subseteq always, ever \subseteq ever', NEW gs, Recent(gs)
  PROVE  always' \subseteq gs /\ gs \subseteq ever'
  BY DEF Recent

LEMMA NextListsRecent ==
  ASSUME TypeOK, ListsRecent, [Next]_vars
  PROVE  ListsRecent'
  <1>t. /\ call \in [Callers -> {"idle", "load", "send"}]
        /\ list \in [Callers -> SUBSET Games]
        /\ enabled \subseteq Games /\ always \subseteq Games /\ ever \subseteq Games
    BY DEF TypeOK
  <1>1. CASE UNCHANGED <<enabled, callVars, update, root, askVars>>
    <2>1. Targets' = Targets /\ (AllIdle' <=> AllIdle)
      BY <1>1 DEF Targets, AllIdle, callVars
    <2>2. QED
      BY <1>1, <2>1 DEF ListsRecent, Recent, callVars, askVars
  <1>2. ASSUME NEW c \in Callers, NEW g \in Games, UpdateGame(c, g)
        PROVE  ListsRecent'
    <2>1. call' = [call EXCEPT ![c] = "load"] /\ list' = list
      BY <1>2 DEF UpdateGame
    <2>2. call'[c] = "load" /\ ~AllIdle'
      BY <2>1, <1>t DEF AllIdle
    <2>3. CASE AllIdle
      <3>1. always' = enabled' /\ ever' = enabled'
        BY <1>2, <2>3 DEF UpdateGame
      <3>2. \A d \in Callers : call'[d] # "send"
        BY <2>1, <2>3, <1>t DEF AllIdle
      <3>3. QED
        BY <2>2, <3>1, <3>2 DEF ListsRecent, Recent
    <2>4. CASE ~AllIdle
      <3>1. always' = always \cap enabled' /\ ever' = ever \cup enabled'
        BY <1>2, <2>4 DEF UpdateGame
      <3>2. \A d \in Callers : call'[d] = "send" => call[d] = "send"
        BY <2>1, <1>t
      <3>3. \A d \in Callers : call'[d] = "send" => Recent(list[d])
        BY <3>2 DEF ListsRecent
      <3>4. QED
        BY <2>1, <2>2, <3>1, <3>3 DEF ListsRecent, Recent
    <2>5. QED
      BY <2>3, <2>4
  <1>3. ASSUME NEW c \in Callers, LoadTargets(c)
        PROVE  ListsRecent'
    <2>1. PICK unread \in SUBSET enabled :
            list' = [list EXCEPT ![c] = enabled \ unread] /\ LeftOut(unread)
      BY <1>3 DEF LoadTargets
    <2>2. call[c] = "load" /\ call' = [call EXCEPT ![c] = "send"] /\ enabled' = enabled
      BY <1>3 DEF LoadTargets, library
    <2>3. ~AllIdle /\ ~AllIdle'
      BY <2>2, <1>t DEF AllIdle
    <2>4. always' = always \ unread /\ ever' = ever
      BY <2>1 DEF LeftOut
    <2>5. Recent(enabled)
      BY <2>3 DEF ListsRecent
    <2>6. ASSUME NEW d \in Callers, call'[d] = "send"
          PROVE  always' \subseteq list'[d] /\ list'[d] \subseteq ever'
      <3>1. CASE d = c
        BY <3>1, <2>1, <2>4, <2>5, <1>t DEF Recent
      <3>2. CASE d # c
        <4>1. call[d] = "send" /\ list'[d] = list[d]
          BY <2>1, <2>2, <2>6, <3>2, <1>t
        <4>2. QED
          BY <4>1, <2>4, RecentStays DEF ListsRecent
      <3>3. QED
        BY <3>1, <3>2
    <2>7. QED
      BY <2>2, <2>3, <2>4, <2>5, <2>6 DEF ListsRecent, Recent
  <1>4. ASSUME NEW c \in Callers, LoadFails(c)
        PROVE  ListsRecent'
    <2>1. always' = {} /\ ever' = Games
      BY <1>4 DEF LoadFails
    <2>2. UNCHANGED <<enabled, list, update, root>>
      BY <1>4 DEF LoadFails, library, watchVars
    <2>3. \A gs \in SUBSET Games : Recent(gs)'
      BY <2>1 DEF Recent
    <2>4. /\ enabled' \in SUBSET Games
          /\ \A d \in Callers : list'[d] \in SUBSET Games
          /\ \A gs \in update' : gs \in SUBSET Games
          /\ Targets' \in SUBSET Games
      BY <2>2, <1>t DEF TypeOK, Targets
    <2>5. QED
      BY <2>1, <2>4 DEF ListsRecent, Recent
  <1>5. ASSUME NEW c \in Callers, Reconcile(c)
        PROVE  ListsRecent'
    <2>1. /\ call[c] = "send" /\ call' = [call EXCEPT ![c] = "idle"]
          /\ list' = [list EXCEPT ![c] = {}]
          /\ update' = {list[c]}
          /\ UNCHANGED <<enabled, always, ever>>
      BY <1>5 DEF Reconcile, library, askVars
    <2>2. ~AllIdle
      BY <2>1 DEF AllIdle
    <2>3. Recent(list[c]) /\ Recent(enabled)
      BY <2>1, <2>2 DEF ListsRecent
    <2>4. ASSUME NEW d \in Callers, call'[d] = "send"
          PROVE  Recent(list'[d])
      <3>1. call[d] = "send" /\ list'[d] = list[d]
        BY <2>1, <2>4, <1>t
      <3>2. QED
        BY <3>1 DEF ListsRecent
    <2>5. QED
      BY <2>1, <2>3, <2>4 DEF ListsRecent, Recent
  <1>6. CASE ApplyTargets
    <2>1. UNCHANGED <<enabled, call, list>>
      BY <1>6 DEF ApplyTargets, library, callVars
    <2>0. update' = {}
      BY <1>6 DEF ApplyTargets
    <2>a. PICK revised \in update : \E resolved \in SUBSET revised : Watch(revised, resolved)
      BY <1>6 DEF ApplyTargets
    <2>2. PICK resolved \in SUBSET revised :
            /\ root' = [g \in Games |-> IF g \in resolved THEN Nearest(g) ELSE "none"]
            /\ LeftOut(revised \ resolved)
      BY <2>a DEF Watch
    <2>3. Targets' = resolved
      BY <2>2 DEF TypeOK, Targets, Nearest
    <2>4. always' = always \ (revised \ resolved) /\ ever' = ever
      BY <2>2 DEF LeftOut
    <2>5. AllIdle => Recent(revised)
      BY DEF ListsRecent
    <2>6. AllIdle => always' \subseteq Targets' /\ Targets' \subseteq ever'
      BY <2>3, <2>4, <2>5 DEF Recent
    <2>7. ~AllIdle => always' \subseteq enabled' /\ enabled' \subseteq ever'
      BY <2>1, <2>4 DEF ListsRecent, Recent
    <2>8. \A c \in Callers : call'[c] = "send" => always' \subseteq list'[c] /\ list'[c] \subseteq ever'
      BY <2>1, <2>4 DEF ListsRecent, Recent
    <2>9. AllIdle' <=> AllIdle
      BY <2>1 DEF AllIdle
    <2>10. QED
      BY <2>0, <2>6, <2>7, <2>8, <2>9 DEF ListsRecent, Recent
  <1>7. CASE FlushPending \/ Second \/ TakeJob
    BY <1>7, <1>1 DEF FlushPending, Second, TakeJob, library, watchVars
  <1>8. ASSUME NEW g \in Games, NEW kind \in {"create", "change"}, HandleEvent(g, kind)
        PROVE  ListsRecent'
    BY <1>8, <1>1 DEF HandleEvent, library
  <1>9. ASSUME NEW g \in Games, ChangeSave(g) \/ CreateDirectory(g) \/ RemoveDirectory(g)
        PROVE  ListsRecent'
    BY <1>9, <1>1 DEF ChangeSave, CreateDirectory, RemoveDirectory, library, watchVars
  <1>10. CASE UNCHANGED vars
    BY <1>10, <1>1 DEF vars, library, watchVars
  <1>11. QED
    BY <1>2, <1>3, <1>4, <1>5, <1>6, <1>7, <1>8, <1>9, <1>10 DEF Next, Surroundings, CallerStep

\* TargetsRecent: however many callers revise the targets and however their
\* steps mix, once they are done the watcher watches every game that was
\* enabled since the first of their calls began, and none that was enabled at
\* no moment of it, save for what an error left out.  No lock is assumed.
THEOREM TargetsRecentCorrect == Spec => []TargetsRecent
  <1>1. Init => TypeOK /\ ListsRecent
    BY InitTypeOK, InitListsRecent
  <1>2. TypeOK /\ ListsRecent /\ [Next]_vars => (TypeOK /\ ListsRecent)'
    BY NextTypeOK, NextListsRecent
  <1>3. ListsRecent => TargetsRecent
    BY DEF ListsRecent, Recent, TargetsRecent, Quiescent
  <1>4. QED
    BY <1>1, <1>2, <1>3, PTL DEF Spec
=============================================================================
