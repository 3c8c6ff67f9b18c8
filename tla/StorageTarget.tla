---------------------------- MODULE StorageTarget ----------------------------
(***************************************************************************)
(* The R2 bucket SaveKnot is connected to, and what changes with it:       *)
(* Manager.ConfigureR2, DisconnectR2 and R2 (internal/settings/manager.go),*)
(* beside the uploads of Syncer.Upload (internal/remote/sync.go), which    *)
(* keep the client they began with.                                        *)
(*                                                                         *)
(* The settings are in config.json, the secret is in the credential store  *)
(* of the system, and blobs.uploaded_to names the one target each blob is  *)
(* known to be at: three stores that no transaction covers.  A target is   *)
(* an account, a bucket and a prefix, with a secret of its own.  Uploads   *)
(* hold syncMu, so one is under way; requests to connect take no lock.     *)
(***************************************************************************)
EXTENDS Integers

CONSTANTS
  Targets,
  Callers,      \* HTTP handlers that connect and disconnect
  Blobs,
  Snapshots,
  Files,        \* Files[s]: the blobs of a snapshot
  MaxRequests,  \* a bound on the requests to connect or disconnect
  MaxEmptied,   \* how often somebody else deletes the objects at a target
  None

ASSUME FilesAssumption == Files \in [Snapshots -> SUBSET Blobs]
ASSUME BoundsAssumption == MaxRequests \in Nat /\ MaxEmptied \in Nat
ASSUME NoneAssumption == None \notin Targets \cup Snapshots

VARIABLES
  settings,     \* config.R2: the target it names, or None
  vault,        \* the target whose secret is stored, or None
  uploadedTo,   \* blobs.uploaded_to
  synced,       \* the snapshots whose remote_state is "synced"
  bucket,       \* bucket[t]: the blobs at a target
  manifests,    \* manifests[t]: the snapshots published there
  call,         \* call[c]: the request of a caller; no other overlaps while "alone"
  up,           \* the upload under way
  emptied,      \* how often a target was emptied
  requests,     \* how many requests there were
  \* For the properties.
  trusted,      \* the targets whose entries in uploadedTo are due to this process
  spoiled       \* a call was cut short, or overlapped with another

remoteVars == <<bucket, manifests, emptied>>
callVars == <<call, requests>>
vars == <<settings, vault, uploadedTo, synced, remoteVars, callVars, up, trusted, spoiled>>

OrNone(S) == S \cup {None}

NoCall == [step |-> "idle", target |-> None, secret |-> None, alone |-> FALSE]
NoUpload == [step |-> "idle", target |-> None, secret |-> None,
             todo |-> {}, cur |-> None, blobs |-> {}]

\* An upload keeps to its target, and what is left of the snapshot at hand
\* belongs to it.
TypeOK ==
  /\ settings \in OrNone(Targets) /\ vault \in OrNone(Targets)
  /\ uploadedTo \in [Blobs -> OrNone(Targets)]
  /\ synced \subseteq Snapshots
  /\ bucket \in [Targets -> SUBSET Blobs]
  /\ manifests \in [Targets -> SUBSET Snapshots]
  /\ call \in [Callers -> [
       step : {"idle", "invalidate", "store", "save", "get", "delete", "clear"},
       target : OrNone(Targets), secret : OrNone(Targets), alone : BOOLEAN]]
  /\ up \in [step : {"idle", "secret", "next", "blob", "record"},
             target : OrNone(Targets), secret : OrNone(Targets),
             todo : SUBSET (Snapshots \ synced), cur : OrNone(Snapshots),
             blobs : SUBSET Blobs]
  /\ up.cur # None => up.cur \notin up.todo /\ up.blobs \subseteq Files[up.cur]
  /\ emptied \in 0..MaxEmptied /\ requests \in 0..MaxRequests
  /\ trusted \subseteq Targets
  /\ spoiled \in BOOLEAN

Init ==
  /\ settings = None /\ vault = None
  /\ uploadedTo = [b \in Blobs |-> None]
  /\ synced = {}
  /\ bucket = [t \in Targets |-> {}]
  /\ manifests = [t \in Targets |-> {}]
  /\ call = [c \in Callers |-> NoCall]
  /\ up = NoUpload
  /\ emptied = 0 /\ requests = 0
  /\ trusted = Targets
  /\ spoiled = FALSE

-----------------------------------------------------------------------------
(* ConfigureR2 and DisconnectR2.                                           *)

Alone(c) == \A d \in Callers \ {c} : call[d].step = "idle"

At(c, step) == call[c].step = step
Become(c, request) == call' = [call EXCEPT ![c] = request] /\ UNCHANGED requests
Goto(c, step) == Become(c, [call[c] EXCEPT !.step = step])
Return(c) == Become(c, NoCall)

Begin(c, request) ==
  /\ At(c, "idle")
  /\ requests < MaxRequests
  /\ requests' = requests + 1
  /\ call' = [d \in Callers |->
       IF d = c THEN [request EXCEPT !.alone = Alone(c)] ELSE [call[d] EXCEPT !.alone = FALSE]]
  /\ spoiled' = (spoiled \/ ~Alone(c))

\* A request that had the three stores to itself leaves them in agreement.
Succeed(c) ==
  /\ Return(c)
  /\ spoiled' = (spoiled /\ ~call[c].alone)

\* The client for the new target has passed Test; when it does not, nothing
\* changes.
ConfigureR2(c, t) ==
  /\ Begin(c, [NoCall EXCEPT !.step = "invalidate", !.target = t])
  /\ UNCHANGED <<settings, vault, uploadedTo, synced, remoteVars, up, trusted>>

\* Nothing recorded of the target is believed any more.  An upload to it that
\* is under way may still record what it put there before.
InvalidateBlobUploads(c) ==
  /\ At(c, "invalidate")
  /\ LET t == call[c].target IN
       /\ uploadedTo' = [b \in Blobs |-> IF uploadedTo[b] = t THEN None ELSE uploadedTo[b]]
       /\ trusted' = IF up.target = t THEN trusted ELSE trusted \cup {t}
  /\ Goto(c, "store")
  /\ UNCHANGED <<settings, vault, synced, remoteVars, up, spoiled>>

StoreSecret(c) ==
  /\ At(c, "store")
  /\ vault' = call[c].target
  /\ Goto(c, "save")
  /\ UNCHANGED <<settings, uploadedTo, synced, remoteVars, up, trusted, spoiled>>

SaveConnected(c) ==
  /\ At(c, "save")
  /\ settings' = call[c].target
  /\ Succeed(c)
  /\ UNCHANGED <<vault, uploadedTo, synced, remoteVars, up, trusted>>

\* One of the steps returns an error.  The last one leaves the secret of the
\* new target with the settings of the old one.
ConfigureFails(c) ==
  /\ call[c].step \in {"invalidate", "store", "save"}
  /\ Return(c)
  /\ spoiled' = (spoiled \/ At(c, "save"))
  /\ UNCHANGED <<settings, vault, uploadedTo, synced, remoteVars, up, trusted>>

DisconnectR2(c) ==
  /\ settings # None
  /\ Begin(c, [NoCall EXCEPT !.step = "get"])
  /\ UNCHANGED <<settings, vault, uploadedTo, synced, remoteVars, up, trusted>>

\* The secret is kept to put it back; not being able to read it is no error.
GetSecret(c) ==
  /\ At(c, "get")
  /\ \E read \in {vault, None} :
       Become(c, [call[c] EXCEPT !.secret = read, !.step = "delete"])
  /\ UNCHANGED <<settings, vault, uploadedTo, synced, remoteVars, up, trusted, spoiled>>

DeleteSecret(c) ==
  /\ At(c, "delete")
  /\ \/ vault' = None /\ Goto(c, "clear")
     \/ Return(c) /\ UNCHANGED vault
  /\ UNCHANGED <<settings, uploadedTo, synced, remoteVars, up, trusted, spoiled>>

SaveDisconnectedKeepsNothing(c) ==
  /\ At(c, "clear")
  /\ \/ settings' = None
     \/ call[c].secret # None /\ UNCHANGED settings
  /\ Return(c)
  /\ UNCHANGED <<vault, uploadedTo, synced, remoteVars, up, trusted, spoiled>>

\* When the settings cannot be saved the secret is put back.
SaveDisconnected(c) ==
  /\ At(c, "clear")
  /\ \/ settings' = None /\ Succeed(c) /\ UNCHANGED vault
     \/ /\ call[c].secret # None
        /\ vault' = call[c].secret
        /\ Return(c)
        /\ UNCHANGED <<settings, spoiled>>
     \/ Return(c) /\ spoiled' = TRUE /\ UNCHANGED <<settings, vault>>
  /\ UNCHANGED <<uploadedTo, synced, remoteVars, up, trusted>>

-----------------------------------------------------------------------------
(* Uploads.                                                                *)

Uploading(step) == up.step = step
Proceed(changed) == up' = changed

\* Manager.R2 reads the settings under its lock ...
LoadSettings ==
  /\ Uploading("idle")
  /\ settings # None
  /\ Proceed([NoUpload EXCEPT !.step = "secret", !.target = settings])
  /\ UNCHANGED <<settings, vault, uploadedTo, synced, remoteVars, callVars, trusted, spoiled>>

\* ... and the secret after it.  Then the pending snapshots are listed.
LoadSecret ==
  /\ Uploading("secret")
  /\ IF vault = None
     THEN Proceed(NoUpload)
     ELSE Proceed([up EXCEPT !.step = "next", !.secret = vault, !.todo = Snapshots \ synced])
  /\ UNCHANGED <<settings, vault, uploadedTo, synced, remoteVars, callVars, trusted, spoiled>>

PickUploadAgain(s) ==
  /\ Uploading("next")
  /\ s \in up.todo
  /\ Proceed([up EXCEPT !.step = "blob", !.cur = s, !.blobs = Files[s]])
  /\ UNCHANGED <<settings, vault, uploadedTo, synced, remoteVars, callVars, trusted, spoiled>>

PickUpload(s) ==
  /\ Uploading("next")
  /\ s \in up.todo
  /\ Proceed([up EXCEPT !.step = "blob", !.cur = s, !.todo = @ \ {s}, !.blobs = Files[s]])
  /\ UNCHANGED <<settings, vault, uploadedTo, synced, remoteVars, callVars, trusted, spoiled>>

BlobUploadedAnywhere(b, t) == uploadedTo[b] # None

BlobUploaded(b, t) == uploadedTo[b] = t

\* R2 refuses a request that another target's secret signs.
Accepted == up.secret = up.target

Put(b) == bucket' = [bucket EXCEPT ![up.target] = @ \cup {b}]
Publish == manifests' = [manifests EXCEPT ![up.target] = @ \cup {up.cur}]

\* ensureBlob: put the blob unless it is recorded there, and record it.
EnsureBlob(b) ==
  /\ Uploading("blob")
  /\ b \in up.blobs
  /\ IF BlobUploaded(b, up.target)
     THEN UNCHANGED <<bucket, uploadedTo>>
     ELSE Accepted /\ Put(b) /\ uploadedTo' = [uploadedTo EXCEPT ![b] = up.target]
  /\ Proceed([up EXCEPT !.blobs = @ \ {b}])
  /\ UNCHANGED <<settings, vault, synced, manifests, emptied, callVars, trusted, spoiled>>

PutManifest ==
  /\ Uploading("blob")
  /\ up.blobs = {}
  /\ Accepted
  /\ Publish
  /\ Proceed([up EXCEPT !.step = "record"])
  /\ UNCHANGED <<settings, vault, uploadedTo, synced, bucket, emptied, callVars, trusted, spoiled>>

MarkSnapshotRemote ==
  /\ Uploading("record")
  /\ synced' = synced \cup {up.cur}
  /\ Proceed([up EXCEPT !.step = "next", !.cur = None])
  /\ UNCHANGED <<settings, vault, uploadedTo, remoteVars, callVars, trusted, spoiled>>

\* R2 or the store returns an error; what was put may be there all the same.
\* syncPending goes on with the next snapshot, SyncGame does not.
UploadFails ==
  /\ up.step \in {"blob", "record"}
  /\ \/ UNCHANGED <<bucket, manifests>>
     \/ Accepted /\ (\E b \in up.blobs : Put(b)) /\ UNCHANGED manifests
     \/ Accepted /\ up.blobs = {} /\ Publish /\ UNCHANGED bucket
  /\ \E rest \in {up.todo, {}} :
       Proceed([up EXCEPT !.step = "next", !.cur = None, !.blobs = {}, !.todo = rest])
  /\ UNCHANGED <<settings, vault, uploadedTo, synced, emptied, callVars, trusted, spoiled>>

UploadDone ==
  /\ Uploading("next")
  /\ up.todo = {}
  /\ Proceed(NoUpload)
  /\ UNCHANGED <<settings, vault, uploadedTo, synced, remoteVars, callVars, trusted, spoiled>>

-----------------------------------------------------------------------------
(* The environment.                                                        *)

\* Somebody deletes the objects at a target.  SaveKnot learns of it when the
\* user connects to the target again.
EmptyTarget(t) ==
  /\ emptied < MaxEmptied
  /\ emptied' = emptied + 1
  /\ bucket' = [bucket EXCEPT ![t] = {}]
  /\ manifests' = [manifests EXCEPT ![t] = {}]
  /\ trusted' = trusted \ {t}
  /\ UNCHANGED <<settings, vault, uploadedTo, synced, callVars, up, spoiled>>

\* A stop and a new start.
Restart ==
  /\ call' = [c \in Callers |-> NoCall]
  /\ up' = NoUpload
  /\ spoiled' = (spoiled \/ \E c \in Callers : call[c].step \in {"save", "clear"})
  /\ UNCHANGED <<settings, vault, uploadedTo, synced, remoteVars, requests, trusted>>

Next ==
  \/ \E c \in Callers :
       \/ \E t \in Targets : ConfigureR2(c, t)
       \/ InvalidateBlobUploads(c) \/ StoreSecret(c) \/ SaveConnected(c) \/ ConfigureFails(c)
       \/ DisconnectR2(c) \/ GetSecret(c) \/ DeleteSecret(c) \/ SaveDisconnected(c)
  \/ LoadSettings \/ LoadSecret
  \/ \E s \in Snapshots : PickUpload(s)
  \/ \E b \in Blobs : EnsureBlob(b)
  \/ PutManifest \/ MarkSnapshotRemote \/ UploadFails \/ UploadDone
  \/ \E t \in Targets : EmptyTarget(t)
  \/ Restart

Spec == Init /\ [][Next]_vars

-----------------------------------------------------------------------------
(* Properties.                                                             *)

\* The settings and the secret belong to one target whenever no request is
\* under way, unless one overlapped with another or was cut short: an error or
\* a stop between the writes of ConfigureR2, a secret DisconnectR2 cannot put
\* back.  The next request that runs alone and succeeds repairs that.
PairVerified ==
  ~spoiled /\ (\A c \in Callers : At(c, "idle")) => vault = settings

\* Whatever target is connected while an upload runs, or was before, a manifest
\* appears only where all of its blobs are (Syncer.Upload, blobs.uploaded_to).
\* Targets are excepted that somebody emptied, from then until the user connects
\* to them again.
PublishedComplete ==
  [][\A t \in trusted : \A s \in manifests'[t] \ manifests[t] : Files[s] \subseteq bucket[t]]_vars
=============================================================================
