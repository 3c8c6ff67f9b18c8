----------------------------- MODULE TargetProofs -----------------------------
(***************************************************************************)
(* Proofs about StorageTarget: type correctness, and that a manifest       *)
(* appears at a target only when all of its blobs are there, whatever      *)
(* target is connected meanwhile.                                          *)
(***************************************************************************)
EXTENDS StorageTarget, TLAPS

UpType == up \in [
  step : {"idle", "secret", "next", "blob", "record"},
  target : OrNone(Targets), secret : OrNone(Targets),
  todo : SUBSET Snapshots, cur : OrNone(Snapshots), blobs : SUBSET Blobs]

\* The upload's part of the type invariant, and that it has a snapshot while it
\* puts and records one.
UpOK ==
  /\ UpType
  /\ up.todo \cap synced = {}
  /\ up.cur # None => up.cur \notin up.todo /\ up.blobs \subseteq Files[up.cur]
  /\ IF up.step \in {"blob", "record"} THEN up.cur \in Snapshots ELSE up.cur = None

CallType == call \in [Callers -> [
  step : {"idle", "invalidate", "store", "save", "get", "delete", "clear"},
  target : OrNone(Targets), secret : OrNone(Targets), alone : BOOLEAN]]

StoresType ==
  /\ settings \in OrNone(Targets) /\ vault \in OrNone(Targets)
  /\ uploadedTo \in [Blobs -> OrNone(Targets)]
  /\ synced \subseteq Snapshots
  /\ bucket \in [Targets -> SUBSET Blobs]
  /\ manifests \in [Targets -> SUBSET Snapshots]
  /\ emptied \in 0..MaxEmptied /\ requests \in 0..MaxRequests
  /\ trusted \subseteq Targets
  /\ spoiled \in BOOLEAN

\* A request to connect has a target.
Connecting == \A c \in Callers : call[c].step = "invalidate" => call[c].target \in Targets

Typed == StoresType /\ CallType /\ Connecting /\ UpOK

LEMMA TypedIsTypeOK == Typed => TypeOK
<1> SUFFICES ASSUME Typed
             PROVE  TypeOK
  OBVIOUS
<1>1. up.todo \in SUBSET (Snapshots \ synced)
  BY DEF Typed, UpOK, UpType
<1>2. up = [step |-> up.step, target |-> up.target, secret |-> up.secret,
            todo |-> up.todo, cur |-> up.cur, blobs |-> up.blobs]
  BY DEF Typed, UpOK, UpType
<1>3. up \in [step : {"idle", "secret", "next", "blob", "record"},
              target : OrNone(Targets), secret : OrNone(Targets),
              todo : SUBSET (Snapshots \ synced), cur : OrNone(Snapshots),
              blobs : SUBSET Blobs]
  BY <1>1, <1>2 DEF Typed, UpOK, UpType
<1> QED
  BY <1>3 DEF Typed, UpOK, StoresType, CallType, TypeOK

LEMMA InitTyped == Init => Typed
<1> SUFFICES ASSUME Init
             PROVE  Typed
  OBVIOUS
<1>1. NoCall \in [step : {"idle", "invalidate", "store", "save", "get", "delete", "clear"},
                  target : OrNone(Targets), secret : OrNone(Targets), alone : BOOLEAN]
  BY DEF NoCall, OrNone
<1>2. CallType
  BY <1>1 DEF Init, CallType
<1>3. UpOK
  BY DEF Init, UpOK, UpType, NoUpload, OrNone
<1>4. 0 \in 0..MaxEmptied /\ 0 \in 0..MaxRequests
  BY BoundsAssumption
<1>5. StoresType
  BY <1>4 DEF Init, StoresType, OrNone
<1>6. Connecting
  BY DEF Init, Connecting, NoCall
<1> QED
  BY <1>2, <1>3, <1>5, <1>6 DEF Typed

LEMMA Successor ==
  ASSUME NEW m \in Nat, NEW n \in 0..m, n < m
  PROVE  n + 1 \in 0..m
  OBVIOUS

\* A request to connect or to disconnect changes its own record, and a new one
\* the others' "alone".
LEMMA CallsTyped ==
  ASSUME Typed, NEW c \in Callers,
         \/ InvalidateBlobUploads(c) \/ StoreSecret(c) \/ SaveConnected(c) \/ ConfigureFails(c)
         \/ GetSecret(c) \/ DeleteSecret(c) \/ SaveDisconnected(c)
  PROVE  CallType' /\ Connecting' /\ requests' = requests
<1> DEFINE Calls == [step : {"idle", "invalidate", "store", "save", "get", "delete", "clear"},
                     target : OrNone(Targets), secret : OrNone(Targets), alone : BOOLEAN]
<1>0. call \in [Callers -> Calls] /\ vault \in OrNone(Targets)
  BY DEF Typed, CallType, StoresType
<1>1. ASSUME NEW request \in Calls, Become(c, request), request.step # "invalidate"
      PROVE  CallType' /\ Connecting' /\ requests' = requests
  <2>1. CallType' /\ requests' = requests
    BY <1>0, <1>1 DEF Become, CallType
  <2>2. call'[c] = request /\ \A d \in Callers \ {c} : call'[d] = call[d]
    BY <1>0, <1>1 DEF Become
  <2> QED
    BY <1>1, <2>1, <2>2 DEF Typed, Connecting
<1>2. ASSUME NEW step \in {"store", "save", "clear"}, Goto(c, step)
      PROVE  CallType' /\ Connecting' /\ requests' = requests
  <2>1. [call[c] EXCEPT !.step = step] \in Calls /\ [call[c] EXCEPT !.step = step].step = step
    BY <1>0
  <2> QED
    BY <1>1, <1>2, <2>1 DEF Goto
<1>3. ASSUME Return(c)
      PROVE  CallType' /\ Connecting' /\ requests' = requests
  <2>1. NoCall \in Calls /\ NoCall.step # "invalidate"
    BY DEF NoCall, OrNone
  <2> QED
    BY <1>1, <1>3, <2>1 DEF Return
<1>4. CASE GetSecret(c)
  <2>1. PICK read \in {vault, None} : Become(c, [call[c] EXCEPT !.secret = read, !.step = "delete"])
    BY <1>4 DEF GetSecret
  <2>2. /\ [call[c] EXCEPT !.secret = read, !.step = "delete"] \in Calls
        /\ [call[c] EXCEPT !.secret = read, !.step = "delete"].step = "delete"
    BY <1>0 DEF OrNone
  <2> QED
    BY <1>1, <2>1, <2>2
<1> QED
  BY <1>2, <1>3, <1>4
     DEF InvalidateBlobUploads, StoreSecret, SaveConnected, ConfigureFails, DeleteSecret,
         SaveDisconnected, Succeed

LEMMA BeginTyped ==
  ASSUME Typed, NEW c \in Callers, NEW request, Begin(c, request),
         request \in [step : {"idle", "invalidate", "store", "save", "get", "delete", "clear"},
                      target : OrNone(Targets), secret : OrNone(Targets), alone : BOOLEAN],
         request.step = "invalidate" => request.target \in Targets
  PROVE  CallType' /\ Connecting' /\ requests' \in 0..MaxRequests /\ spoiled' \in BOOLEAN
<1>1. requests \in 0..MaxRequests /\ requests < MaxRequests /\ requests' = requests + 1
  BY DEF Begin, Typed, StoresType
<1>2. requests' \in 0..MaxRequests
  BY <1>1, BoundsAssumption, Successor
<1>3. Alone(c) \in BOOLEAN
  BY DEF Alone
<1>4. CallType'
  BY <1>3 DEF Begin, Typed, CallType
<1>5. spoiled' \in BOOLEAN
  BY DEF Begin
<1>6. ASSUME NEW d \in Callers, call'[d].step = "invalidate"
      PROVE  call'[d].target \in Targets
  <2>1. CASE d = c
    <3>1. call'[d].step = request.step /\ call'[d].target = request.target
      BY <2>1 DEF Begin
    <3> QED
      BY <1>6, <3>1
  <2>2. CASE d # c
    <3>1. call'[d].step = call[d].step /\ call'[d].target = call[d].target
      BY <2>2 DEF Begin, Typed, CallType
    <3> QED
      BY <1>6, <3>1 DEF Typed, Connecting
  <2> QED
    BY <2>1, <2>2
<1>7. Connecting'
  BY <1>6 DEF Connecting
<1> QED
  BY <1>2, <1>4, <1>5, <1>7

\* The part of a step that has to do with requests.
LEMMA RequestsTyped ==
  ASSUME Typed, NEW c \in Callers,
         \/ \E t \in Targets : ConfigureR2(c, t)
         \/ InvalidateBlobUploads(c) \/ StoreSecret(c) \/ SaveConnected(c) \/ ConfigureFails(c)
         \/ DisconnectR2(c) \/ GetSecret(c) \/ DeleteSecret(c) \/ SaveDisconnected(c)
  PROVE  Typed'
<1> USE NoneAssumption DEF OrNone
<1>1. ASSUME NEW t \in Targets, ConfigureR2(c, t)
      PROVE  Typed'
  <2>1. [NoCall EXCEPT !.step = "invalidate", !.target = t]
          \in [step : {"idle", "invalidate", "store", "save", "get", "delete", "clear"},
               target : OrNone(Targets), secret : OrNone(Targets), alone : BOOLEAN]
    BY DEF NoCall
  <2>2. [NoCall EXCEPT !.step = "invalidate", !.target = t].target = t
    BY DEF NoCall
  <2>3. CallType' /\ Connecting' /\ requests' \in 0..MaxRequests /\ spoiled' \in BOOLEAN
    BY <1>1, <2>1, <2>2, BeginTyped DEF ConfigureR2
  <2> QED
    BY <1>1, <2>3 DEF ConfigureR2, remoteVars, Typed, StoresType, UpOK, UpType
<1>2. CASE DisconnectR2(c)
  <2>1. [NoCall EXCEPT !.step = "get"]
          \in [step : {"idle", "invalidate", "store", "save", "get", "delete", "clear"},
               target : OrNone(Targets), secret : OrNone(Targets), alone : BOOLEAN]
    BY DEF NoCall
  <2>2. [NoCall EXCEPT !.step = "get"].step # "invalidate"
    BY DEF NoCall
  <2>3. CallType' /\ Connecting' /\ requests' \in 0..MaxRequests /\ spoiled' \in BOOLEAN
    BY <1>2, <2>1, <2>2, BeginTyped DEF DisconnectR2
  <2> QED
    BY <1>2, <2>3 DEF DisconnectR2, remoteVars, Typed, StoresType, UpOK, UpType
<1>3. CASE \/ InvalidateBlobUploads(c) \/ StoreSecret(c) \/ SaveConnected(c)
           \/ ConfigureFails(c) \/ GetSecret(c) \/ DeleteSecret(c) \/ SaveDisconnected(c)
  <2>1. CallType' /\ Connecting' /\ requests' = requests
    BY <1>3, CallsTyped
  <2>2. call[c].target \in OrNone(Targets) /\ call[c].secret \in OrNone(Targets)
    BY DEF Typed, CallType
  <2>3. UNCHANGED <<synced, bucket, manifests, emptied, up>>
    BY <1>3 DEF InvalidateBlobUploads, StoreSecret, SaveConnected, ConfigureFails, GetSecret,
                DeleteSecret, SaveDisconnected, remoteVars
  <2>4. UpOK'
    BY <2>3 DEF Typed, UpOK, UpType
  <2>5. settings' \in OrNone(Targets) /\ vault' \in OrNone(Targets)
    BY <1>3, <2>2 DEF InvalidateBlobUploads, StoreSecret, SaveConnected, ConfigureFails,
                      GetSecret, DeleteSecret, SaveDisconnected, Typed, StoresType
  <2>6. spoiled' \in BOOLEAN
    BY <1>3 DEF InvalidateBlobUploads, StoreSecret, SaveConnected, ConfigureFails,
                GetSecret, DeleteSecret, SaveDisconnected, Succeed, Typed, StoresType
  <2>7. uploadedTo' \in [Blobs -> OrNone(Targets)] /\ trusted' \subseteq Targets
    <3>1. CASE InvalidateBlobUploads(c)
      <4>1. uploadedTo' \in [Blobs -> OrNone(Targets)]
        BY <3>1 DEF InvalidateBlobUploads, Typed, StoresType
      <4>2. call[c].target \in Targets
        BY <3>1 DEF InvalidateBlobUploads, At, Typed, Connecting
      <4> QED
        BY <3>1, <4>1, <4>2 DEF InvalidateBlobUploads, Typed, StoresType
    <3>2. CASE ~InvalidateBlobUploads(c)
      BY <1>3, <3>2 DEF StoreSecret, SaveConnected, ConfigureFails, GetSecret, DeleteSecret,
                        SaveDisconnected, Typed, StoresType
    <3> QED
      BY <3>1, <3>2
  <2> QED
    BY <2>1, <2>3, <2>4, <2>5, <2>6, <2>7 DEF Typed, StoresType
<1> QED
  BY <1>1, <1>2, <1>3

\* What an upload may change, and a stop and somebody else with it.
LEMMA UploadTyped ==
  ASSUME Typed, UpOK', UNCHANGED <<settings, vault, call, requests, spoiled>>,
         uploadedTo' \in [Blobs -> OrNone(Targets)], synced' \subseteq Snapshots,
         bucket' \in [Targets -> SUBSET Blobs], manifests' \in [Targets -> SUBSET Snapshots],
         emptied' \in 0..MaxEmptied, trusted' \subseteq Targets
  PROVE  Typed'
  BY DEF Typed, StoresType, CallType, Connecting

LEMMA NoUploadOK ==
  ASSUME up' = NoUpload
  PROVE  UpOK'
  BY NoneAssumption DEF UpOK, UpType, NoUpload, OrNone

LEMMA PutTyped ==
  ASSUME Typed, NEW b \in Blobs, Put(b)
  PROVE  bucket' \in [Targets -> SUBSET Blobs]
  BY DEF Typed, StoresType, Put

LEMMA PublishTyped ==
  ASSUME Typed, up.step \in {"blob", "record"}, Publish
  PROVE  manifests' \in [Targets -> SUBSET Snapshots]
  BY DEF Typed, StoresType, Publish, UpOK

LEMMA StepTyped == Typed /\ [Next]_vars => Typed'
<1> SUFFICES ASSUME Typed, [Next]_vars
             PROVE  Typed'
  OBVIOUS
<1> USE NoneAssumption DEF OrNone
<1>0. StoresType /\ UpOK /\ UpType
  BY DEF Typed, UpOK
<1>1. CASE LoadSettings
  <2>1. UpOK'
    BY <1>0, <1>1 DEF LoadSettings, Proceed, NoUpload, StoresType, UpOK, UpType
  <2> QED
    BY <1>0, <1>1, <2>1, UploadTyped DEF LoadSettings, StoresType, remoteVars, callVars
<1>2. CASE LoadSecret
  <2>1. CASE vault = None
    BY <1>2, <2>1, <1>0, NoUploadOK, UploadTyped DEF LoadSecret, Proceed, StoresType, remoteVars, callVars
  <2>2. CASE vault # None
    <3>1. up' = [up EXCEPT !.step = "next", !.secret = vault, !.todo = Snapshots \ synced]
      BY <1>2, <2>2 DEF LoadSecret, Proceed
    <3>2. up.cur = None
      BY <1>0, <1>2 DEF LoadSecret, Uploading, UpOK
    <3>3. UpOK'
      BY <1>0, <1>2, <3>1, <3>2 DEF LoadSecret, StoresType, UpOK, UpType
    <3> QED
      BY <1>0, <1>2, <3>3, UploadTyped DEF LoadSecret, StoresType, remoteVars, callVars
  <2> QED
    BY <2>1, <2>2
<1>3. ASSUME NEW s \in Snapshots, PickUpload(s)
      PROVE  Typed'
  <2>1. up' = [up EXCEPT !.step = "blob", !.cur = s, !.todo = @ \ {s}, !.blobs = Files[s]]
    BY <1>3 DEF PickUpload, Proceed
  <2>2. Files[s] \subseteq Blobs
    BY FilesAssumption
  <2>3. UpOK'
    BY <1>0, <1>3, <2>1, <2>2 DEF PickUpload, UpOK, UpType
  <2> QED
    BY <1>0, <1>3, <2>3, UploadTyped DEF PickUpload, StoresType, remoteVars, callVars
<1>4. ASSUME NEW b \in Blobs, EnsureBlob(b)
      PROVE  Typed'
  <2>1. up' = [up EXCEPT !.blobs = @ \ {b}]
    BY <1>4 DEF EnsureBlob, Proceed
  <2>2. UpOK'
    BY <1>0, <1>4, <2>1 DEF EnsureBlob, UpOK, UpType
  <2>3. uploadedTo' \in [Blobs -> OrNone(Targets)] /\ bucket' \in [Targets -> SUBSET Blobs]
    BY <1>0, <1>4, PutTyped DEF EnsureBlob, StoresType, UpType
  <2> QED
    BY <1>0, <1>4, <2>2, <2>3, UploadTyped DEF EnsureBlob, StoresType, callVars
<1>5. CASE PutManifest
  <2>1. up' = [up EXCEPT !.step = "record"]
    BY <1>5 DEF PutManifest, Proceed
  <2>2. UpOK'
    BY <1>0, <1>5, <2>1 DEF PutManifest, Uploading, UpOK, UpType
  <2>3. manifests' \in [Targets -> SUBSET Snapshots]
    BY <1>5, PublishTyped DEF PutManifest, Uploading
  <2> QED
    BY <1>0, <1>5, <2>2, <2>3, UploadTyped DEF PutManifest, StoresType, callVars
<1>6. CASE MarkSnapshotRemote
  <2>1. up' = [up EXCEPT !.step = "next", !.cur = None] /\ synced' = synced \cup {up.cur}
    BY <1>6 DEF MarkSnapshotRemote, Proceed
  <2>2. up.cur \in Snapshots /\ up.cur # None /\ up.cur \notin up.todo
    BY <1>0, <1>6 DEF MarkSnapshotRemote, Uploading, UpOK
  <2>3. UpOK'
    BY <1>0, <2>1, <2>2 DEF UpOK, UpType
  <2> QED
    BY <1>0, <1>6, <2>1, <2>2, <2>3, UploadTyped DEF MarkSnapshotRemote, StoresType, remoteVars, callVars
<1>7. CASE UploadFails
  <2>1. PICK rest \in {up.todo, {}} :
          up' = [up EXCEPT !.step = "next", !.cur = None, !.blobs = {}, !.todo = rest]
    BY <1>7 DEF UploadFails, Proceed
  <2>2. UpOK'
    BY <1>0, <1>7, <2>1 DEF UploadFails, UpOK, UpType
  <2>3. bucket' \in [Targets -> SUBSET Blobs]
    BY <1>0, <1>7, PutTyped DEF UploadFails, StoresType, UpType
  <2>4. manifests' \in [Targets -> SUBSET Snapshots]
    BY <1>0, <1>7, PublishTyped DEF UploadFails, StoresType
  <2> QED
    BY <1>0, <1>7, <2>2, <2>3, <2>4, UploadTyped DEF UploadFails, StoresType, callVars
<1>8. CASE UploadDone
  BY <1>8, <1>0, NoUploadOK, UploadTyped DEF UploadDone, Proceed, StoresType, remoteVars, callVars
<1>9. ASSUME NEW t \in Targets, EmptyTarget(t)
      PROVE  Typed'
  <2>1. emptied' \in 0..MaxEmptied
    BY <1>0, <1>9, BoundsAssumption, Successor DEF EmptyTarget, StoresType
  <2>2. bucket' \in [Targets -> SUBSET Blobs] /\ manifests' \in [Targets -> SUBSET Snapshots]
    BY <1>0, <1>9 DEF EmptyTarget, StoresType
  <2>3. UpOK'
    BY <1>0, <1>9 DEF EmptyTarget, UpOK, UpType
  <2> QED
    BY <1>0, <1>9, <2>1, <2>2, <2>3, UploadTyped DEF EmptyTarget, StoresType, callVars
<1>10. CASE Restart
  <2>1. CallType' /\ Connecting'
    BY <1>10 DEF Restart, CallType, Connecting, NoCall
  <2>2. UpOK'
    BY <1>10, NoUploadOK DEF Restart
  <2>3. spoiled' \in BOOLEAN
    BY <1>10 DEF Restart
  <2> QED
    BY <1>0, <1>10, <2>1, <2>2, <2>3 DEF Restart, remoteVars, Typed, StoresType
<1>11. CASE UNCHANGED vars
  <2>1. UpOK'
    BY <1>0, <1>11 DEF vars, remoteVars, callVars, UpOK, UpType
  <2> QED
    BY <1>0, <1>11, <2>1, UploadTyped DEF vars, remoteVars, callVars, StoresType
<1> QED
  BY <1>1, <1>2, <1>3, <1>4, <1>5, <1>6, <1>7, <1>8, <1>9, <1>10, <1>11, RequestsTyped DEF Next

\* The variables of the specification are of the types given throughout.
THEOREM TypeCorrect == Spec => []TypeOK
<1>1. Init => Typed
  BY InitTyped
<1>2. Typed /\ [Next]_vars => Typed'
  BY StepTyped
<1>3. Typed => TypeOK
  BY TypedIsTypeOK
<1> QED
  BY <1>1, <1>2, <1>3, PTL DEF Spec

-----------------------------------------------------------------------------
(* Publication.  What is recorded of a target that can be trusted is there, *)
(* and so is the part of the snapshot at hand that an upload has done with. *)

Recorded(t) == \A b \in Blobs : uploadedTo[b] = t => b \in bucket[t]
Done(t) == up.target = t /\ up.step \in {"blob", "record"} => Files[up.cur] \ up.blobs \subseteq bucket[t]
Complete == up.step = "record" => up.blobs = {}

IInv ==
  /\ Typed
  /\ Complete
  /\ \A t \in trusted : Recorded(t) /\ Done(t)

LEMMA InitIInv == Init => IInv
<1> SUFFICES ASSUME Init
             PROVE  IInv
  OBVIOUS
<1>1. ASSUME NEW t \in Targets
      PROVE  Recorded(t) /\ Done(t)
  BY <1>1, NoneAssumption DEF Init, Recorded, Done, NoUpload
<1> QED
  BY <1>1, InitTyped DEF Init, IInv, Complete, NoUpload

\* A request changes what is recorded only when it forgets a target, which is
\* trusted from then unless an upload to it is under way.
LEMMA RequestsIInv ==
  ASSUME IInv, NEW c \in Callers,
         \/ \E t \in Targets : ConfigureR2(c, t)
         \/ InvalidateBlobUploads(c) \/ StoreSecret(c) \/ SaveConnected(c) \/ ConfigureFails(c)
         \/ DisconnectR2(c) \/ GetSecret(c) \/ DeleteSecret(c) \/ SaveDisconnected(c)
  PROVE  IInv'
<1>1. Typed'
  BY RequestsTyped DEF IInv
<1>2. UNCHANGED <<bucket, up>>
  BY DEF ConfigureR2, InvalidateBlobUploads, StoreSecret, SaveConnected, ConfigureFails,
         DisconnectR2, GetSecret, DeleteSecret, SaveDisconnected, remoteVars
<1>3. Complete'
  BY <1>2 DEF IInv, Complete
<1>4. CASE InvalidateBlobUploads(c)
  <2> DEFINE k == call[c].target
  <2>1. /\ \A b \in Blobs : uploadedTo'[b] = IF uploadedTo[b] = k THEN None ELSE uploadedTo[b]
        /\ trusted' = IF up.target = k THEN trusted ELSE trusted \cup {k}
    BY <1>4 DEF InvalidateBlobUploads, IInv, Typed, StoresType
  <2>2. k \in Targets
    BY <1>4 DEF InvalidateBlobUploads, At, IInv, Typed, Connecting
  <2>3. trusted \subseteq Targets
    BY DEF IInv, Typed, StoresType
  <2>4. ASSUME NEW t \in trusted'
        PROVE  Recorded(t)' /\ Done(t)'
    <3>1. CASE t = k
      <4>1. ASSUME NEW b \in Blobs
            PROVE  uploadedTo'[b] # t
        BY <2>1, <2>2, <3>1, NoneAssumption
      <4>2. CASE up.target = k
        BY <1>2, <2>1, <2>4, <4>1, <4>2 DEF IInv, Recorded, Done
      <4>3. CASE up.target # k
        BY <1>2, <3>1, <4>1, <4>3 DEF Recorded, Done
      <4> QED
        BY <4>2, <4>3
    <3>2. CASE t # k
      <4>1. t \in trusted /\ t \in Targets
        BY <2>1, <2>3, <2>4, <3>2
      <4>2. t # None
        BY <4>1, NoneAssumption
      <4> QED
        BY <1>2, <2>1, <4>1, <4>2 DEF IInv, Recorded, Done
    <3> QED
      BY <3>1, <3>2
  <2> QED
    BY <1>1, <1>3, <2>4 DEF IInv
<1>5. CASE ~InvalidateBlobUploads(c)
  <2>1. UNCHANGED <<uploadedTo, trusted>>
    BY <1>5 DEF ConfigureR2, StoreSecret, SaveConnected, ConfigureFails,
                DisconnectR2, GetSecret, DeleteSecret, SaveDisconnected
  <2> QED
    BY <1>1, <1>2, <1>3, <2>1 DEF IInv, Recorded, Done
<1> QED
  BY <1>4, <1>5

LEMMA PutAdds ==
  ASSUME Typed, NEW b \in Blobs, Put(b)
  PROVE  /\ \A t \in Targets : bucket[t] \subseteq bucket'[t]
         /\ up.target \in Targets => b \in bucket'[up.target]
  BY DEF Typed, StoresType, Put

LEMMA StepIInv == IInv /\ [Next]_vars => IInv'
<1> SUFFICES ASSUME IInv, [Next]_vars
             PROVE  IInv'
  OBVIOUS
<1>0. Typed /\ Typed' /\ trusted \subseteq Targets /\ None \notin trusted
  BY StepTyped, NoneAssumption DEF IInv, Typed, StoresType
<1>1. CASE LoadSettings \/ LoadSecret \/ UploadDone
  <2>1. UNCHANGED <<uploadedTo, bucket, trusted>> /\ up'.step \in {"idle", "secret", "next"}
    <3>1. UNCHANGED <<uploadedTo, bucket, trusted>>
      BY <1>1 DEF LoadSettings, LoadSecret, UploadDone, remoteVars
    <3>2. \/ up' = NoUpload
          \/ up' = [NoUpload EXCEPT !.step = "secret", !.target = settings]
          \/ up' = [up EXCEPT !.step = "next", !.secret = vault, !.todo = Snapshots \ synced]
      BY <1>1 DEF LoadSettings, LoadSecret, UploadDone, Proceed
    <3>3. up'.step \in {"idle", "secret", "next"}
      <4>1. [up EXCEPT !.step = "next", !.secret = vault, !.todo = Snapshots \ synced].step = "next"
        BY <1>0 DEF Typed, UpOK, UpType
      <4>2. NoUpload.step = "idle" /\ [NoUpload EXCEPT !.step = "secret", !.target = settings].step = "secret"
        BY DEF NoUpload
      <4>3. CASE up' = NoUpload
        BY <4>2, <4>3
      <4>4. CASE up' = [NoUpload EXCEPT !.step = "secret", !.target = settings]
        BY <4>2, <4>4
      <4>5. CASE up' = [up EXCEPT !.step = "next", !.secret = vault, !.todo = Snapshots \ synced]
        BY <4>1, <4>5
      <4> QED
        BY <3>2, <4>3, <4>4, <4>5
    <3> QED
      BY <3>1, <3>3
  <2> QED
    BY <1>0, <2>1 DEF IInv, Recorded, Done, Complete
<1>2. ASSUME NEW s \in Snapshots, PickUpload(s)
      PROVE  IInv'
  <2>1. /\ UNCHANGED <<uploadedTo, bucket, trusted>>
        /\ up'.step = "blob" /\ up'.cur = s /\ up'.blobs = Files[s]
    BY <1>0, <1>2 DEF PickUpload, Proceed, remoteVars, Typed, UpOK, UpType
  <2> QED
    BY <1>0, <2>1 DEF IInv, Recorded, Done, Complete
<1>3. ASSUME NEW b \in Blobs, EnsureBlob(b)
      PROVE  IInv'
  <2>1. /\ UNCHANGED trusted
        /\ up'.step = "blob" /\ up'.cur = up.cur /\ up'.target = up.target /\ up.step = "blob"
        /\ up'.blobs = up.blobs \ {b}
    BY <1>0, <1>3 DEF EnsureBlob, Proceed, Uploading, Typed, UpOK, UpType
  <2>2. /\ \A t \in Targets : bucket[t] \subseteq bucket'[t]
        /\ up.target \in trusted => b \in bucket'[up.target]
    <3>1. CASE BlobUploaded(b, up.target)
      BY <1>3, <3>1 DEF EnsureBlob, BlobUploaded, IInv, Recorded
    <3>2. CASE ~BlobUploaded(b, up.target)
      BY <1>0, <1>3, <3>2, PutAdds DEF EnsureBlob
    <3> QED
      BY <3>1, <3>2
  <2>3. \A x \in Blobs : uploadedTo'[x] = uploadedTo[x] \/ (x = b /\ uploadedTo'[x] = up.target)
    <3>1. uploadedTo' = uploadedTo \/ uploadedTo' = [uploadedTo EXCEPT ![b] = up.target]
      BY <1>3 DEF EnsureBlob
    <3>2. uploadedTo \in [Blobs -> OrNone(Targets)]
      BY <1>0 DEF Typed, StoresType
    <3>3. CASE uploadedTo' = uploadedTo
      BY <3>3
    <3>4. CASE uploadedTo' = [uploadedTo EXCEPT ![b] = up.target]
      BY <3>2, <3>4
    <3> QED
      BY <3>1, <3>3, <3>4
  <2>4. ASSUME NEW t \in trusted
        PROVE  Recorded(t)' /\ Done(t)'
    <3>1. t \in Targets /\ bucket[t] \subseteq bucket'[t] /\ Recorded(t) /\ Done(t)
      BY <1>0, <2>2 DEF IInv
    <3>2. Recorded(t)'
      BY <2>2, <2>3, <3>1 DEF Recorded
    <3>3. Done(t)'
      BY <2>1, <2>2, <3>1 DEF Done
    <3> QED
      BY <3>2, <3>3
  <2> QED
    BY <1>0, <2>1, <2>4 DEF IInv, Complete
<1>4. CASE PutManifest
  <2>1. /\ UNCHANGED <<uploadedTo, bucket, trusted>> /\ up.step = "blob" /\ up.blobs = {}
        /\ up'.step = "record" /\ up'.cur = up.cur /\ up'.target = up.target
        /\ up'.blobs = up.blobs
    BY <1>0, <1>4 DEF PutManifest, Proceed, Uploading, Typed, UpOK, UpType
  <2> QED
    BY <1>0, <2>1 DEF IInv, Recorded, Done, Complete
<1>5. CASE MarkSnapshotRemote
  <2>1. UNCHANGED <<uploadedTo, bucket, trusted>> /\ up'.step = "next"
    BY <1>0, <1>5 DEF MarkSnapshotRemote, Proceed, remoteVars, Typed, UpOK, UpType
  <2> QED
    BY <1>0, <2>1 DEF IInv, Recorded, Done, Complete
<1>6. CASE UploadFails
  <2>1. UNCHANGED <<uploadedTo, trusted>> /\ up'.step = "next"
    BY <1>0, <1>6 DEF UploadFails, Proceed, Typed, UpOK, UpType
  <2>2. \A t \in Targets : bucket[t] \subseteq bucket'[t]
    BY <1>0, <1>6, PutAdds DEF UploadFails, Typed, UpOK, UpType
  <2>3. ASSUME NEW t \in trusted
        PROVE  Recorded(t)' /\ Done(t)'
    BY <1>0, <2>1, <2>2 DEF IInv, Recorded, Done
  <2> QED
    BY <1>0, <2>1, <2>3 DEF IInv, Complete
<1>7. ASSUME NEW k \in Targets, EmptyTarget(k)
      PROVE  IInv'
  <2>1. UNCHANGED <<uploadedTo, up>> /\ trusted' = trusted \ {k}
    BY <1>7 DEF EmptyTarget
  <2>2. \A t \in trusted' : bucket'[t] = bucket[t]
    BY <1>0, <1>7, <2>1 DEF EmptyTarget, Typed, StoresType
  <2> QED
    BY <1>0, <2>1, <2>2 DEF IInv, Recorded, Done, Complete
<1>8. CASE Restart
  <2>1. UNCHANGED <<uploadedTo, bucket, trusted>> /\ up'.step = "idle"
    BY <1>8 DEF Restart, remoteVars, NoUpload
  <2> QED
    BY <1>0, <2>1 DEF IInv, Recorded, Done, Complete
<1>9. CASE UNCHANGED vars
  BY <1>0, <1>9 DEF vars, remoteVars, IInv, Recorded, Done, Complete
<1> QED
  BY <1>1, <1>2, <1>3, <1>4, <1>5, <1>6, <1>7, <1>8, <1>9, RequestsIInv DEF Next

\* A snapshot that appears at a target is the one at hand, whose blobs are done.
LEMMA StepPublishes ==
  ASSUME IInv, [Next]_vars, NEW t \in trusted, NEW s \in manifests'[t] \ manifests[t]
  PROVE  Files[s] \subseteq bucket[t]
<1>1. t \in Targets /\ Typed /\ Done(t)
  BY DEF IInv, Typed, StoresType
<1>2. CASE Publish /\ up.step \in {"blob", "record"} /\ up.blobs = {}
  <2>1. s = up.cur /\ t = up.target
    BY <1>1, <1>2 DEF Publish, Typed, StoresType
  <2> QED
    BY <1>1, <1>2, <2>1 DEF Done
<1>3. CASE \E k \in Targets : EmptyTarget(k)
  BY <1>1, <1>3 DEF EmptyTarget, Typed, StoresType
<1>4. CASE UNCHANGED manifests
  BY <1>4
<1> QED
  BY <1>2, <1>3, <1>4
     DEF Next, vars, remoteVars, ConfigureR2, InvalidateBlobUploads, StoreSecret, SaveConnected,
         ConfigureFails, DisconnectR2, GetSecret, DeleteSecret, SaveDisconnected, LoadSettings,
         LoadSecret, PickUpload, EnsureBlob, PutManifest, MarkSnapshotRemote, UploadFails,
         UploadDone, Restart, Uploading

\* Connecting to other buckets while uploads run, before or after them never
\* publishes a snapshot that lacks one of its blobs (Syncer.Upload).
THEOREM PublishedCompleteCorrect == Spec => PublishedComplete
<1>1. Init => IInv
  BY InitIInv
<1>2. IInv /\ [Next]_vars => IInv'
  BY StepIInv
<1>3. IInv /\ [Next]_vars
        => [\A t \in trusted : \A s \in manifests'[t] \ manifests[t] : Files[s] \subseteq bucket[t]]_vars
  BY StepPublishes
<1> QED
  BY <1>1, <1>2, <1>3, PTL DEF Spec, PublishedComplete

-----------------------------------------------------------------------------
(* The settings and the secret.  A request that is alone knows where the    *)
(* two stores stand at each of its steps, whatever went wrong before it;    *)
(* while nothing has gone wrong, every request under way is alone, and the  *)
(* stores agree but between the two writes of it.                           *)

AloneOK == \A c, d \in Callers : call[c].alone /\ c # d => At(d, "idle")

AwareOK == \A c \in Callers : ~At(c, "idle") /\ ~call[c].alone => spoiled

SecretOK ==
  \A c \in Callers :
    /\ call[c].alone /\ At(c, "save") => vault = call[c].target
    /\ call[c].alone /\ At(c, "clear") => vault = None
    /\ ~spoiled /\ At(c, "delete") => call[c].secret \in {None, vault}
    /\ ~spoiled /\ At(c, "clear") => call[c].secret \in {None, settings}

PairOK ==
  ~spoiled /\ (\A c \in Callers : ~At(c, "save") /\ ~At(c, "clear")) => vault = settings

PairInv == AloneOK /\ AwareOK /\ SecretOK /\ PairOK

LEMMA InitPairInv == Init => PairInv
  BY DEF Init, PairInv, AloneOK, AwareOK, SecretOK, PairOK, At, NoCall

\* A new request is alone, or has spoiled what the stores say.
LEMMA BeginPairInv ==
  ASSUME Typed, PairInv, NEW c \in Callers, NEW request, Begin(c, request),
         request \in [step : {"invalidate", "get"},
                      target : OrNone(Targets), secret : OrNone(Targets), alone : BOOLEAN],
         UNCHANGED <<settings, vault>>
  PROVE  PairInv'
<1>1. call'[c].step \in {"invalidate", "get"} /\ call'[c].alone = Alone(c)
  BY DEF Begin
<1>2. ASSUME NEW d \in Callers, d # c
      PROVE  call'[d].step = call[d].step /\ ~call'[d].alone
  BY <1>2 DEF Begin, Typed, CallType
<1>3. At(c, "idle") /\ spoiled' = (spoiled \/ ~Alone(c))
  BY DEF Begin
<1>4. AloneOK'
  BY <1>1, <1>2 DEF AloneOK, Alone, At
<1>5. AwareOK'
  BY <1>1, <1>2, <1>3 DEF AwareOK, Alone, At
<1>6. ASSUME NEW d \in Callers
      PROVE  /\ ~(call'[d].alone /\ call'[d].step \in {"save", "clear"})
             /\ ~spoiled' => call'[d].step \notin {"save", "clear", "delete"}
  BY <1>1, <1>2, <1>3 DEF Alone, At
<1>7. SecretOK'
  BY <1>6 DEF SecretOK, At
<1>8. PairOK'
  <2>1. SUFFICES ASSUME ~spoiled'
                 PROVE  vault = settings
    BY DEF PairOK
  <2>2. \A d \in Callers : At(d, "idle")
    BY <1>3, <2>1 DEF Alone, At
  <2> QED
    BY <1>3, <2>1, <2>2 DEF PairInv, PairOK, At
<1> QED
  BY <1>4, <1>5, <1>7, <1>8 DEF PairInv

\* What a request that is alone, or one while nothing has gone wrong, knows.
LEMMA NobodyElse ==
  ASSUME PairInv, NEW c \in Callers, ~At(c, "idle"), ~spoiled \/ call[c].alone
  PROVE  call[c].alone /\ \A d \in Callers \ {c} : At(d, "idle")
  BY DEF PairInv, AloneOK, AwareOK

\* A request goes on: what it has to show for it.
LEMMA GotoPairInv ==
  ASSUME Typed, PairInv, NEW c \in Callers, ~At(c, "idle"), NEW request,
         request \in [step : {"store", "save", "delete", "clear"},
                      target : OrNone(Targets), secret : OrNone(Targets), alone : BOOLEAN],
         request.alone = call[c].alone, Become(c, request), UNCHANGED spoiled,
         call[c].alone /\ request.step = "save" => vault' = request.target,
         call[c].alone /\ request.step = "clear" => vault' = None,
         ~spoiled /\ request.step = "delete" => request.secret \in {None, vault'},
         ~spoiled /\ request.step = "clear" => request.secret \in {None, settings'},
         ~spoiled /\ request.step \in {"store", "delete"} => vault' = settings'
  PROVE  PairInv'
<1>1. call'[c] = request /\ \A d \in Callers \ {c} : call'[d] = call[d]
  BY DEF Become, Typed, CallType
<1>2. AloneOK'
  BY <1>1 DEF PairInv, AloneOK, At
<1>3. AwareOK'
  BY <1>1 DEF PairInv, AwareOK, At
<1>4. ASSUME NEW d \in Callers
      PROVE  /\ call'[d].alone /\ call'[d].step = "save" => vault' = call'[d].target
             /\ call'[d].alone /\ call'[d].step = "clear" => vault' = None
             /\ ~spoiled /\ call'[d].step = "delete" => call'[d].secret \in {None, vault'}
             /\ ~spoiled /\ call'[d].step = "clear" => call'[d].secret \in {None, settings'}
  <2>1. CASE d = c
    BY <1>1, <2>1
  <2>2. CASE d # c
    <3>1. call'[d] = call[d] /\ ~call[d].alone
      BY <1>1, <2>2 DEF PairInv, AloneOK
    <3>2. ~spoiled => At(d, "idle")
      BY <2>2, NobodyElse
    <3> QED
      BY <3>1, <3>2 DEF At
  <2> QED
    BY <2>1, <2>2
<1>5. SecretOK'
  BY <1>4 DEF SecretOK, At
<1>6. PairOK'
  BY <1>1 DEF PairOK, At
<1> QED
  BY <1>2, <1>3, <1>5, <1>6 DEF PairInv

\* A request ends: the stores agree if nothing has gone wrong.
LEMMA ReturnPairInv ==
  ASSUME Typed, PairInv, NEW c \in Callers, ~At(c, "idle"), Return(c),
         spoiled' \in BOOLEAN, ~spoiled' => ~spoiled \/ call[c].alone,
         ~spoiled' => vault' = settings'
  PROVE  PairInv'
<1>1. call'[c] = NoCall /\ \A d \in Callers \ {c} : call'[d] = call[d]
  BY DEF Return, Become, Typed, CallType
<1>2. call'[c].step = "idle" /\ call'[c].alone = FALSE
  BY <1>1 DEF NoCall
<1>3. AloneOK'
  BY <1>1, <1>2 DEF PairInv, AloneOK, At
<1>4. ASSUME NEW d \in Callers
      PROVE  (~spoiled' => call'[d].step = "idle") /\ (d # c => ~call[d].alone)
  <2>1. d # c => ~call[d].alone
    BY DEF PairInv, AloneOK
  <2>2. CASE d = c
    BY <1>2, <2>2
  <2>3. CASE d # c
    BY <1>1, <2>1, <2>3, NobodyElse DEF At
  <2> QED
    BY <2>1, <2>2, <2>3
<1>5. AwareOK'
  BY <1>4 DEF AwareOK, At
<1>6. ASSUME NEW d \in Callers
      PROVE  ~call'[d].alone
  BY <1>1, <1>2, <1>4
<1>7. SecretOK'
  BY <1>4, <1>6 DEF SecretOK, At
<1>8. PairOK'
  BY DEF PairOK
<1> QED
  BY <1>3, <1>5, <1>7, <1>8 DEF PairInv

LEMMA RequestsPairInv ==
  ASSUME Typed, PairInv, NEW c \in Callers,
         \/ \E t \in Targets : ConfigureR2(c, t)
         \/ InvalidateBlobUploads(c) \/ StoreSecret(c) \/ SaveConnected(c) \/ ConfigureFails(c)
         \/ DisconnectR2(c) \/ GetSecret(c) \/ DeleteSecret(c) \/ SaveDisconnected(c)
  PROVE  PairInv'
<1> DEFINE Requests(steps) == [step : steps, target : OrNone(Targets), secret : OrNone(Targets),
                               alone : BOOLEAN]
<1>0. /\ call[c] \in Requests({"idle", "invalidate", "store", "save", "get", "delete", "clear"})
      /\ vault \in OrNone(Targets) /\ spoiled \in BOOLEAN
  BY DEF Typed, CallType, StoresType
<1>a. ASSUME ~spoiled, call[c].step \in {"invalidate", "store", "get", "delete"}
      PROVE  vault = settings
  <2>1. \A d \in Callers \ {c} : At(d, "idle")
    BY <1>a, NobodyElse DEF At
  <2> QED
    BY <1>a, <2>1 DEF PairInv, PairOK, At
<1>b. /\ call[c].alone /\ At(c, "save") => vault = call[c].target
      /\ call[c].alone /\ At(c, "clear") => vault = None
      /\ ~spoiled /\ At(c, "delete") => call[c].secret \in {None, vault}
      /\ ~spoiled /\ At(c, "clear") => call[c].secret \in {None, settings}
  BY DEF PairInv, SecretOK
<1>c. ~spoiled /\ ~At(c, "idle") => call[c].alone
  BY DEF PairInv, AwareOK
<1>1. ASSUME NEW t \in Targets, ConfigureR2(c, t)
      PROVE  PairInv'
  <2>1. [NoCall EXCEPT !.step = "invalidate", !.target = t] \in Requests({"invalidate", "get"})
    BY DEF NoCall, OrNone
  <2> QED
    BY <1>1, <2>1, BeginPairInv DEF ConfigureR2
<1>2. CASE InvalidateBlobUploads(c)
  <2>1. PICK request : request = [call[c] EXCEPT !.step = "store"]
    OBVIOUS
  <2>2. /\ request \in Requests({"store", "save", "delete", "clear"})
        /\ request.step = "store" /\ request.alone = call[c].alone
    BY <1>0, <2>1
  <2>3. Become(c, request) /\ ~At(c, "idle") /\ call[c].step = "invalidate"
    BY <1>2, <2>1 DEF InvalidateBlobUploads, Goto, At
  <2>4. UNCHANGED <<vault, settings, spoiled>>
    BY <1>2 DEF InvalidateBlobUploads
  <2> QED
    BY <1>a, <2>2, <2>3, <2>4, GotoPairInv
<1>3. CASE StoreSecret(c)
  <2>1. PICK request : request = [call[c] EXCEPT !.step = "save"]
    OBVIOUS
  <2>2. /\ request \in Requests({"store", "save", "delete", "clear"})
        /\ request.step = "save" /\ request.alone = call[c].alone /\ request.target = call[c].target
    BY <1>0, <2>1
  <2>3. Become(c, request) /\ ~At(c, "idle")
    BY <1>3, <2>1 DEF StoreSecret, Goto, At
  <2>4. vault' = call[c].target /\ UNCHANGED spoiled
    BY <1>3 DEF StoreSecret
  <2> QED
    BY <2>2, <2>3, <2>4, GotoPairInv
<1>4. CASE SaveConnected(c)
  <2>1. At(c, "save") /\ ~At(c, "idle") /\ Return(c) /\ vault' = vault
    BY <1>4 DEF SaveConnected, Succeed, At
  <2>2. settings' = call[c].target /\ spoiled' = (spoiled /\ ~call[c].alone)
    BY <1>4 DEF SaveConnected, Succeed
  <2> QED
    BY <1>0, <1>b, <1>c, <2>1, <2>2, ReturnPairInv
<1>5. CASE ConfigureFails(c)
  <2>1. /\ call[c].step \in {"invalidate", "store", "save"} /\ ~At(c, "idle") /\ Return(c)
        /\ spoiled' = (spoiled \/ At(c, "save")) /\ UNCHANGED <<vault, settings>>
    BY <1>5 DEF ConfigureFails, At
  <2> QED
    BY <1>0, <1>a, <2>1, ReturnPairInv DEF At
<1>6. CASE DisconnectR2(c)
  <2>1. [NoCall EXCEPT !.step = "get"] \in Requests({"invalidate", "get"})
    BY DEF NoCall, OrNone
  <2> QED
    BY <1>6, <2>1, BeginPairInv DEF DisconnectR2
<1>7. CASE GetSecret(c)
  <2>1. PICK read \in {vault, None} : Become(c, [call[c] EXCEPT !.secret = read, !.step = "delete"])
    BY <1>7 DEF GetSecret
  <2>2. PICK request : request = [call[c] EXCEPT !.secret = read, !.step = "delete"]
    OBVIOUS
  <2>3. /\ request \in Requests({"store", "save", "delete", "clear"})
        /\ request.step = "delete" /\ request.alone = call[c].alone /\ request.secret = read
    BY <1>0, <2>2 DEF OrNone
  <2>4. /\ Become(c, request) /\ ~At(c, "idle") /\ call[c].step = "get"
        /\ UNCHANGED <<vault, settings, spoiled>>
    BY <1>7, <2>1, <2>2 DEF GetSecret, At
  <2> QED
    BY <1>a, <2>3, <2>4, GotoPairInv
<1>8. CASE DeleteSecret(c)
  <2>1. call[c].step = "delete" /\ ~At(c, "idle") /\ UNCHANGED <<settings, spoiled>>
    BY <1>8 DEF DeleteSecret, At
  <2>2. CASE vault' = None /\ Goto(c, "clear")
    <3>1. PICK request : request = [call[c] EXCEPT !.step = "clear"]
      OBVIOUS
    <3>2. /\ request \in Requests({"store", "save", "delete", "clear"})
          /\ request.step = "clear" /\ request.alone = call[c].alone
          /\ request.secret = call[c].secret
      BY <1>0, <3>1
    <3>3. Become(c, request)
      BY <2>2, <3>1 DEF Goto
    <3>4. ~spoiled => request.secret \in {None, settings'}
      BY <1>a, <1>b, <2>1, <3>2 DEF At
    <3> QED
      BY <2>1, <2>2, <3>2, <3>3, <3>4, GotoPairInv
  <2>3. CASE Return(c) /\ UNCHANGED vault
    BY <1>0, <1>a, <2>1, <2>3, ReturnPairInv
  <2> QED
    BY <1>8, <2>2, <2>3 DEF DeleteSecret
<1>9. CASE SaveDisconnected(c)
  <2>1. At(c, "clear") /\ ~At(c, "idle")
    BY <1>9 DEF SaveDisconnected, At
  <2>2. CASE settings' = None /\ Succeed(c) /\ UNCHANGED vault
    BY <1>0, <1>b, <1>c, <2>1, <2>2, ReturnPairInv DEF Succeed
  <2>3. CASE call[c].secret # None /\ vault' = call[c].secret /\ Return(c) /\ UNCHANGED <<settings, spoiled>>
    BY <1>0, <1>b, <2>1, <2>3, ReturnPairInv
  <2>4. CASE Return(c) /\ spoiled' = TRUE
    BY <2>1, <2>4, ReturnPairInv
  <2> QED
    BY <1>9, <2>2, <2>3, <2>4 DEF SaveDisconnected
<1> QED
  BY <1>1, <1>2, <1>3, <1>4, <1>5, <1>6, <1>7, <1>8, <1>9

LEMMA StepPairInv == Typed /\ PairInv /\ [Next]_vars => PairInv'
<1> SUFFICES ASSUME Typed, PairInv, [Next]_vars
             PROVE  PairInv'
  OBVIOUS
<1>1. ASSUME UNCHANGED <<call, settings, vault, spoiled>>
      PROVE  PairInv'
  BY <1>1 DEF PairInv, AloneOK, AwareOK, SecretOK, PairOK, At
<1>2. CASE LoadSettings \/ LoadSecret \/ PutManifest \/ MarkSnapshotRemote \/ UploadFails \/ UploadDone
  BY <1>1, <1>2 DEF LoadSettings, LoadSecret, PutManifest, MarkSnapshotRemote, UploadFails,
                    UploadDone, callVars
<1>3. CASE \/ \E s \in Snapshots : PickUpload(s)
           \/ \E b \in Blobs : EnsureBlob(b)
           \/ \E t \in Targets : EmptyTarget(t)
  BY <1>1, <1>3 DEF PickUpload, EnsureBlob, EmptyTarget, callVars
<1>4. CASE Restart
  <2>1. \A c \in Callers : call'[c].step = "idle" /\ call'[c].alone = FALSE
    BY <1>4 DEF Restart, NoCall
  <2>2. /\ spoiled' = (spoiled \/ \E c \in Callers : call[c].step \in {"save", "clear"})
        /\ UNCHANGED <<settings, vault>>
    BY <1>4 DEF Restart
  <2>3. ~spoiled' => vault' = settings'
    BY <2>2 DEF PairInv, PairOK, At
  <2>4. AloneOK' /\ AwareOK' /\ SecretOK'
    BY <2>1 DEF AloneOK, AwareOK, SecretOK, At
  <2>5. PairOK'
    BY <2>3 DEF PairOK
  <2> QED
    BY <2>4, <2>5 DEF PairInv
<1>5. CASE UNCHANGED vars
  BY <1>1, <1>5 DEF vars, callVars
<1> QED
  BY <1>2, <1>3, <1>4, <1>5, RequestsPairInv DEF Next

\* PairVerified: with no request under way the stored secret is that of the
\* target in the settings, however requests to connect and to disconnect
\* followed each other (ConfigureR2, DisconnectR2), unless one overlapped with
\* another or was cut short between its two writes.
THEOREM PairVerifiedCorrect == Spec => []PairVerified
<1>1. Init => Typed /\ PairInv
  BY InitTyped, InitPairInv
<1>2. Typed /\ PairInv /\ [Next]_vars => (Typed /\ PairInv)'
  BY StepTyped, StepPairInv
<1>3. PairInv => PairVerified
  BY DEF PairInv, PairOK, PairVerified, At
<1> QED
  BY <1>1, <1>2, <1>3, PTL DEF Spec
=============================================================================
