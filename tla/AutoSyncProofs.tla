--------------------------- MODULE AutoSyncProofs ---------------------------
(***************************************************************************)
(* Proofs about AutoSync: its types, which say which goroutine may be where *)
(* while the daemon starts, and that no wakeup is lost.  The latter is     *)
(* preserved by every step on its own; of the types it needs that of       *)
(* "queuing", a function that EXCEPT updates.                              *)
(***************************************************************************)
EXTENDS AutoSync, TLAPS

LEMMA InitTypeOK == Init => TypeOK
<1> SUFFICES ASSUME Init
             PROVE  TypeOK
  OBVIOUS
<1>1. queuing \in [Queuers -> Calls] /\ queuing["watcher"] = <<"idle">>
  BY DEF Init, Calls, Queuers
<1>2. 0 \in 0..MaxCrashes
  BY MaxCrashesAssumption
<1> QED
  BY <1>1, <1>2 DEF Init, TypeOK

\* The step of a call leaves the others alone, and it ends the call or keeps
\* it under way.
LEMMA CallTyped ==
  ASSUME TypeOK, NEW q \in Queuers, NEW to \in Calls, queuing' = [queuing EXCEPT ![q] = to]
  PROVE  /\ queuing' \in [Queuers -> Calls]
         /\ queuing'["watcher"] = IF q = "watcher" THEN to ELSE queuing["watcher"]
  BY DEF TypeOK, Queuers

LEMMA StepTypeOK == TypeOK /\ [Next]_vars => TypeOK'
<1> SUFFICES ASSUME TypeOK, [Next]_vars
             PROVE  TypeOK'
  OBVIOUS
<1>a. \A g \in Games : /\ <<"add", g>> \in Calls /\ <<"wake", g>> \in Calls
                       /\ <<"add", g>> # <<"idle">> /\ <<"wake", g>> # <<"idle">>
  BY DEF Calls
<1>b. <<"idle">> \in Calls /\ "watcher" \in Queuers /\ "startup" \in Queuers
  BY DEF Calls, Queuers
<1>1. ASSUME NEW q \in Queuers, NEW g \in Games, QueueAdd(q, g)
      PROVE  TypeOK'
  <2>1. /\ queuing' \in [Queuers -> Calls]
        /\ queuing'["watcher"] # <<"idle">> => queuing["watcher"] # <<"idle">>
    BY <1>1, <1>a, CallTyped DEF QueueAdd
  <2> QED
    BY <1>1, <2>1 DEF QueueAdd, TypeOK
<1>2. ASSUME NEW q \in Queuers, NEW g \in Games, QueueWake(q, g)
      PROVE  TypeOK'
  <2>1. /\ queuing' \in [Queuers -> Calls]
        /\ queuing'["watcher"] # <<"idle">> => queuing["watcher"] # <<"idle">>
    BY <1>2, <1>b, CallTyped DEF QueueWake
  <2> QED
    BY <1>2, <2>1 DEF QueueWake, TypeOK
<1>3. CASE ListPending
  BY <1>3, WatchedAssumption DEF ListPending, TypeOK
<1>4. CASE ListFails
  BY <1>4 DEF ListFails, TypeOK
<1>5. CASE Started
  BY <1>5 DEF Started, TypeOK
<1>6. ASSUME NEW g \in Games, QueuePending(g)
      PROVE  TypeOK'
  <2>1. /\ queuing' \in [Queuers -> Calls]
        /\ queuing'["watcher"] = queuing["watcher"]
    BY <1>6, <1>a, <1>b, CallTyped DEF QueuePending, Call
  <2> QED
    BY <1>6, <2>1 DEF QueuePending, TypeOK
<1>7. CASE Woken \/ TakeNone
  BY <1>7 DEF Woken, TakeNone, TypeOK
<1>8. ASSUME NEW g \in Games, TakeGame(g) \/ Load(g) \/ Upload(g)
      PROVE  TypeOK'
  BY <1>8 DEF TakeGame, Load, Upload, TypeOK
<1>9. ASSUME NEW g \in Games, AutomaticBackup(g)
      PROVE  TypeOK'
  <2>1. queuing' \in [Queuers -> Calls]
    BY <1>9, <1>a, <1>b, CallTyped DEF AutomaticBackup, Call
  <2> QED
    BY <1>9, <2>1 DEF AutomaticBackup, TypeOK
<1>10. ASSUME NEW g \in Games, OtherSync(g)
       PROVE  TypeOK'
  BY <1>10 DEF OtherSync, TypeOK
<1>11. CASE Crash
  <2>1. crashes' \in 0..MaxCrashes
    BY <1>11, MaxCrashesAssumption DEF Crash, TypeOK
  <2>2. queuing' \in [Queuers -> Calls] /\ queuing'["watcher"] = <<"idle">>
    BY <1>11, <1>b DEF Crash
  <2> QED
    BY <1>11, <2>1, <2>2 DEF Crash, TypeOK
<1>12. CASE UNCHANGED vars
  BY <1>12 DEF vars, TypeOK
<1> QED
  BY <1>1, <1>2, <1>3, <1>4, <1>5, <1>6, <1>7, <1>8, <1>9, <1>10, <1>11, <1>12
     DEF Next, Queue, Start, Work

\* TypeOK: every variable keeps its type; games are listed only while the
\* daemon starts, and the watcher queues none before it has started (Start).
THEOREM TypeCorrect == Spec => []TypeOK
<1> QED
  BY InitTypeOK, StepTypeOK, PTL DEF Spec

\* No wakeup is lost, for any number of games and of restarts: the token, the
\* worker that is still taking games, or the call that has inserted its game
\* accounts for every game that waits.
THEOREM NoLostWakeupCorrect == Spec => []NoLostWakeup
<1>1. Init => NoLostWakeup
  BY DEF Init, NoLostWakeup
<1>2. TypeOK /\ NoLostWakeup /\ [Next]_vars => NoLostWakeup'
  <2> SUFFICES ASSUME TypeOK, NoLostWakeup, [Next]_vars
               PROVE  NoLostWakeup'
    OBVIOUS
  <2>1. ASSUME NEW q \in Queuers, NEW g \in Games, QueueAdd(q, g)
        PROVE  NoLostWakeup'
    <3>1. queuing'[q] = <<"wake", g>>
      BY <2>1 DEF QueueAdd, TypeOK
    <3> QED
      BY <3>1 DEF NoLostWakeup
  <2>2. ASSUME NEW q \in Queuers, NEW g \in Games, QueueWake(q, g)
        PROVE  NoLostWakeup'
    BY <2>2 DEF QueueWake, NoLostWakeup
  <2>3. ASSUME NEW q \in Queuers, NEW g \in Games,
               Call(q, g), queuing[q] = <<"idle">>, UNCHANGED <<queued, wake, syncer>>
        PROVE  NoLostWakeup'
    <3>1. ASSUME NEW p \in Queuers, NEW h \in Games, queuing[p] = <<"wake", h>>
          PROVE  queuing'[p] = <<"wake", h>>
      <4>1. p # q
        BY <2>3, <3>1
      <4> QED
        BY <2>3, <3>1, <4>1 DEF Call, TypeOK
    <3> QED
      BY <2>3, <3>1 DEF NoLostWakeup
  <2>4. CASE Start
    <3>1. CASE \E g \in Games : QueuePending(g)
      BY <3>1, <2>3 DEF QueuePending, Queuers
    <3>2. CASE ListPending \/ ListFails \/ Started
      BY <3>2 DEF ListPending, ListFails, Started, NoLostWakeup
    <3> QED
      BY <2>4, <3>1, <3>2 DEF Start
  <2>5. CASE Work
    <3>1. CASE Woken \/ TakeNone
      BY <3>1 DEF Woken, TakeNone, NoLostWakeup
    <3>2. ASSUME NEW g \in Games, TakeGame(g) \/ Load(g) \/ Upload(g)
          PROVE  NoLostWakeup'
      BY <3>2 DEF TakeGame, Load, Upload, NoLostWakeup
    <3> QED
      BY <2>5, <3>1, <3>2 DEF Work
  <2>6. ASSUME NEW g \in Games, AutomaticBackup(g) \/ OtherSync(g)
        PROVE  NoLostWakeup'
    <3>1. CASE AutomaticBackup(g)
      BY <3>1, <2>3 DEF AutomaticBackup, Queuers
    <3>2. CASE OtherSync(g)
      BY <3>2 DEF OtherSync, NoLostWakeup
    <3> QED
      BY <2>6, <3>1, <3>2
  <2>7. CASE Crash
    BY <2>7 DEF Crash, NoLostWakeup
  <2>8. CASE UNCHANGED vars
    BY <2>8 DEF vars, NoLostWakeup
  <2> QED
    BY <2>1, <2>2, <2>4, <2>5, <2>6, <2>7, <2>8 DEF Next, Queue
<1> QED
  BY <1>1, <1>2, TypeCorrect, PTL DEF Spec
=============================================================================
