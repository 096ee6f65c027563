------------------------- MODULE MigrationController -------------------------
(***************************************************************************)
(* The CRD migration controller of the cluster-manager operator            *)
(* (migration_controller.go) together with the parts of its environment    *)
(* it interacts with: the ClusterManager objects in the API server and the *)
(* informer cache the controller reads them from, the work queue of the    *)
(* library-go controller factory (one worker), the StorageVersionMigration *)
(* CRD and the StorageVersionMigration (SVM) objects in the store.          *)
(*                                                                         *)
(* A sync is split at every call to the API server (CRD Get, SVM Delete,   *)
(* SVM Get, Create, Update): the store and the ClusterManager may change   *)
(* between two of them.  Reading the lister is a read of the local cache   *)
(* and is done in the same step as the CRD Get that follows it.            *)
(***************************************************************************)
EXTENDS Naturals, FiniteSets

CONSTANTS
    Keys,        \* names of ClusterManager objects (queue keys)
    NFiles,      \* number of entries of migrationRequestFiles
    Specs,       \* values the spec of an SVM can take
    Desired,     \* the spec rendered from the embedded manifest
    MaxErrors,   \* bound on transient API errors in a behaviour
    MaxEdits,    \* bound on edits of SVMs and CRD removals by other actors
    CMCanVanish  \* whether another actor may remove the last finalizer

ASSUME ConstantsAssumption ==
    /\ Keys # {}
    /\ NFiles \in Nat \ {0}
    /\ Desired \in Specs
    /\ MaxErrors \in Nat
    /\ MaxEdits \in Nat
    /\ CMCanVanish \in BOOLEAN

Files == 1..NFiles

(* Life cycle of a ClusterManager: not yet created, present, deletion      *)
(* timestamp set, removed from the store.                                  *)
Phases == {"none", "present", "deleting", "gone"}
CMState == [phase : Phases, applied : BOOLEAN]
NoCM == [phase |-> "none", applied |-> FALSE]

(* An SVM as stored; exists = FALSE is the NotFound answer.  meta says     *)
(* whether the labels/annotations of the manifest are on the object, rv is *)
(* its resourceVersion.                                                    *)
Obj == [exists : BOOLEAN, spec : Specs, meta : BOOLEAN, rv : Nat]
AbsentObj == [exists |-> FALSE, spec |-> Desired, meta |-> FALSE, rv |-> 0]

PCs == {"idle", "remove", "get", "create", "update"}

VARIABLES
    cm,          \* ClusterManager objects in the API server
    cache,       \* the informer's copy of them, read by the lister
    crd,         \* the StorageVersionMigration CRD is installed
    svm,         \* the SVM of each manifest file in the store
    rev,         \* the store's last resourceVersion
    dirty,       \* work queue: keys waiting to be (re)processed
    delayed,     \* work queue: keys added with AddAfter / AddRateLimited
    pc,          \* where the worker is in sync
    wkey,        \* the key the worker is processing
    idx,         \* index of the current file in the loop over the files
    failed,      \* errs of applyStorageVersionMigrations is not empty
    copy,        \* existingCopy, computed after the Get, sent by Update
    errBudget,   \* transient API errors left
    editBudget,  \* edits by other actors left
    cleanup      \* keys whose removal pass has deleted an SVM (history)

storeVars == <<cm, crd, svm, rev>>
queueVars == <<cache, dirty, delayed>>
workerVars == <<pc, wkey, idx, failed, copy>>
budgetVars == <<errBudget, editBudget>>
vars == <<storeVars, queueVars, workerVars, budgetVars, cleanup>>

Busy == pc # "idle"

-----------------------------------------------------------------------------
(* Work queue (client-go workqueue behind factory.Controller).             *)

(* Mutant: a sync that returned an error is not requeued. *)
DoneNoRequeue(k, err) ==
    /\ pc' = "idle"
    /\ delayed' = delayed

(* End of a sync: the factory requeues the key rate-limited when sync      *)
(* returned an error, then calls Done; a key added while it was being      *)
(* processed is still in dirty and is therefore queued again.              *)
Done(k, err) ==
    /\ pc' = "idle"
    /\ delayed' = IF err THEN delayed \cup {k} ELSE delayed

(* A delayed key becomes ready. *)
TimerFires(k) ==
    /\ k \in delayed
    /\ delayed' = delayed \ {k}
    /\ dirty' = dirty \cup {k}
    /\ UNCHANGED <<storeVars, cache, workerVars, budgetVars, cleanup>>

(* The informer observes the current ClusterManager and its event handler  *)
(* enqueues the object's name.                                             *)
InformerSync(k) ==
    /\ cache[k] # cm[k]
    /\ cache' = [cache EXCEPT ![k] = cm[k]]
    /\ dirty' = dirty \cup {k}
    /\ UNCHANGED <<storeVars, delayed, workerVars, budgetVars, cleanup>>

-----------------------------------------------------------------------------
(* Mutant: the Applied check comes before the deletion check. *)
SyncStartAppliedFirst(k) ==
    /\ ~Busy
    /\ k \in dirty
    /\ dirty' = dirty \ {k}
    /\ wkey' = k
    /\ UNCHANGED <<storeVars, cache, editBudget, cleanup>>
    /\ \/ /\ cache[k].phase \in {"none", "gone"}
          /\ Done(k, FALSE)
          /\ UNCHANGED <<idx, failed, copy, errBudget>>
       \/ /\ cache[k].phase \in {"present", "deleting"}
          /\ \/ /\ errBudget > 0
                /\ errBudget' = errBudget - 1
                /\ Done(k, TRUE)
                /\ UNCHANGED <<idx, failed, copy>>
             \/ /\ ~crd
                /\ Done(k, FALSE)
                /\ UNCHANGED <<idx, failed, copy, errBudget>>
             \/ /\ crd
                /\ ~cache[k].applied
                /\ pc' = "idle"
                /\ delayed' = delayed \cup {k}
                /\ UNCHANGED <<idx, failed, copy, errBudget>>
             \/ /\ crd
                /\ cache[k].applied
                /\ cache[k].phase = "deleting"
                /\ pc' = "remove"
                /\ idx' = 1
                /\ UNCHANGED <<delayed, failed, copy, errBudget>>
             \/ /\ crd
                /\ cache[k].applied
                /\ cache[k].phase = "present"
                /\ pc' = "get"
                /\ idx' = 1
                /\ failed' = FALSE
                /\ UNCHANGED <<delayed, copy, errBudget>>

(* Mutant: a ClusterManager that is not Applied has its migration         *)
(* requests removed instead of being polled again.                         *)
SyncStartRemoveUnlessApplied(k) ==
    /\ ~Busy
    /\ k \in dirty
    /\ dirty' = dirty \ {k}
    /\ wkey' = k
    /\ UNCHANGED <<storeVars, cache, editBudget, cleanup>>
    /\ \/ /\ cache[k].phase \in {"none", "gone"}
          /\ Done(k, FALSE)
          /\ UNCHANGED <<idx, failed, copy, errBudget>>
       \/ /\ cache[k].phase \in {"present", "deleting"}
          /\ \/ /\ errBudget > 0
                /\ errBudget' = errBudget - 1
                /\ Done(k, TRUE)
                /\ UNCHANGED <<idx, failed, copy>>
             \/ /\ ~crd
                /\ Done(k, FALSE)
                /\ UNCHANGED <<idx, failed, copy, errBudget>>
             \/ /\ crd
                /\ (cache[k].phase = "deleting" \/ ~cache[k].applied)
                /\ pc' = "remove"
                /\ idx' = 1
                /\ UNCHANGED <<delayed, failed, copy, errBudget>>
             \/ /\ crd
                /\ cache[k].phase = "present"
                /\ cache[k].applied
                /\ pc' = "get"
                /\ idx' = 1
                /\ failed' = FALSE
                /\ UNCHANGED <<delayed, copy, errBudget>>

(* crdMigrationController.sync up to the decision between removal, wait    *)
(* and apply; the worker takes key k from the queue first.                 *)
SyncStart(k) ==
    /\ ~Busy
    /\ k \in dirty
    /\ dirty' = dirty \ {k}
    /\ wkey' = k
    /\ UNCHANGED <<storeVars, cache, editBudget, cleanup>>
    /\ \/ /\ cache[k].phase \in {"none", "gone"}
          /\ Done(k, FALSE)
          /\ UNCHANGED <<idx, failed, copy, errBudget>>
       \/ /\ cache[k].phase \in {"present", "deleting"}
          /\ \/ /\ errBudget > 0
                /\ errBudget' = errBudget - 1
                /\ Done(k, TRUE)
                /\ UNCHANGED <<idx, failed, copy>>
             \/ /\ ~crd
                /\ Done(k, FALSE)
                /\ UNCHANGED <<idx, failed, copy, errBudget>>
             \/ /\ crd
                /\ cache[k].phase = "deleting"
                /\ pc' = "remove"
                /\ idx' = 1
                /\ UNCHANGED <<delayed, failed, copy, errBudget>>
             \/ /\ crd
                /\ cache[k].phase = "present"
                /\ ~cache[k].applied
                /\ pc' = "idle"
                /\ delayed' = delayed \cup {k}
                /\ UNCHANGED <<idx, failed, copy, errBudget>>
             \/ /\ crd
                /\ cache[k].phase = "present"
                /\ cache[k].applied
                /\ pc' = "get"
                /\ idx' = 1
                /\ failed' = FALSE
                /\ UNCHANGED <<delayed, copy, errBudget>>

(* removeStorageVersionMigration: Delete the SVM of file i by name; a     *)
(* NotFound answer is success, so either way it is absent afterwards.      *)
DeleteSVM(i) == svm' = [svm EXCEPT ![i] = AbsentObj]

(* Mutant: the removal branch lacks its return and falls into the apply   *)
(* path.                                                                   *)
RemoveOneFallThrough ==
    /\ pc = "remove"
    /\ UNCHANGED <<cm, crd, rev, cache, dirty, wkey, copy, editBudget>>
    /\ \/ /\ errBudget > 0
          /\ errBudget' = errBudget - 1
          /\ Done(wkey, TRUE)
          /\ UNCHANGED <<svm, idx, failed, cleanup>>
       \/ /\ svm' = [svm EXCEPT ![idx] = AbsentObj]
          /\ cleanup' = cleanup \cup {wkey}
          /\ UNCHANGED <<errBudget, delayed>>
          /\ IF idx = NFiles
               THEN pc' = "get" /\ idx' = 1 /\ failed' = FALSE
               ELSE pc' = "remove" /\ idx' = idx + 1 /\ UNCHANGED failed

(* removeStorageVersionMigrations: Delete the SVM of file idx; NotFound is *)
(* success, any other error ends the sync.                                 *)
RemoveOne ==
    /\ pc = "remove"
    /\ UNCHANGED <<cm, crd, rev, cache, dirty, wkey, failed, copy, editBudget>>
    /\ \/ /\ errBudget > 0
          /\ errBudget' = errBudget - 1
          /\ Done(wkey, TRUE)
          /\ UNCHANGED <<svm, idx, cleanup>>
       \/ /\ DeleteSVM(idx)
          /\ cleanup' = cleanup \cup {wkey}
          /\ UNCHANGED errBudget
          /\ IF idx = NFiles
               THEN Done(wkey, FALSE) /\ UNCHANGED idx
               ELSE pc' = "remove" /\ idx' = idx + 1 /\ UNCHANGED delayed

(* Mutant: the loop bound is tested one past the last file. *)
ApplyNextPastEnd(err) ==
    IF idx > NFiles
      THEN Done(wkey, failed \/ err) /\ UNCHANGED <<idx, failed>>
      ELSE /\ pc' = "get"
           /\ idx' = idx + 1
           /\ failed' = (failed \/ err)
           /\ UNCHANGED delayed

(* The end of applyStorageVersionMigration for file idx: go on with the    *)
(* next file, or return the aggregate of the errors after the last one.    *)
ApplyNext(err) ==
    IF idx = NFiles
      THEN Done(wkey, failed \/ err) /\ UNCHANGED <<idx, failed>>
      ELSE /\ pc' = "get"
           /\ idx' = idx + 1
           /\ failed' = (failed \/ err)
           /\ UNCHANGED delayed

(* The merge of applyStorageVersionMigration: EnsureObjectMeta copies the  *)
(* manifest's metadata into existingCopy; the differing spec is assigned   *)
(* to existing, not to existingCopy.                                       *)
Merged(o) == [o EXCEPT !.meta = TRUE]
Modified(o) == ~o.meta \/ o.spec # Desired

(* applyStorageVersionMigration: Get the SVM of file idx. *)
ApplyGet ==
    /\ pc = "get"
    /\ UNCHANGED <<storeVars, cache, dirty, wkey, editBudget, cleanup>>
    /\ \/ /\ errBudget > 0
          /\ errBudget' = errBudget - 1
          /\ ApplyNext(TRUE)
          /\ UNCHANGED copy
       \/ /\ ~svm[idx].exists
          /\ pc' = "create"
          /\ UNCHANGED <<delayed, idx, failed, copy, errBudget>>
       \/ /\ svm[idx].exists
          /\ ~Modified(svm[idx])
          /\ ApplyNext(FALSE)
          /\ UNCHANGED <<copy, errBudget>>
       \/ /\ svm[idx].exists
          /\ Modified(svm[idx])
          /\ pc' = "update"
          /\ copy' = Merged(svm[idx])
          /\ UNCHANGED <<delayed, idx, failed, errBudget>>

(* applyStorageVersionMigration: Create the required SVM after NotFound.   *)
(* It fails when the CRD is gone, when the object exists by now, or on a   *)
(* transient error.                                                        *)
ApplyCreate ==
    /\ pc = "create"
    /\ UNCHANGED <<cm, crd, cache, dirty, wkey, copy, editBudget, cleanup>>
    /\ \/ /\ errBudget > 0
          /\ errBudget' = errBudget - 1
          /\ ApplyNext(TRUE)
          /\ UNCHANGED <<svm, rev>>
       \/ /\ ~crd \/ svm[idx].exists
          /\ ApplyNext(TRUE)
          /\ UNCHANGED <<svm, rev, errBudget>>
       \/ /\ crd
          /\ ~svm[idx].exists
          /\ rev' = rev + 1
          /\ svm' = [svm EXCEPT ![idx] = [exists |-> TRUE, spec |-> Desired,
                                          meta |-> TRUE, rv |-> rev + 1]]
          /\ ApplyNext(FALSE)
          /\ UNCHANGED errBudget

(* Mutant: Update without the resourceVersion precondition (last write    *)
(* wins).                                                                  *)
ApplyUpdateLastWriteWins ==
    /\ pc = "update"
    /\ UNCHANGED <<cm, crd, cache, dirty, wkey, copy, editBudget, cleanup>>
    /\ \/ /\ errBudget > 0
          /\ errBudget' = errBudget - 1
          /\ ApplyNext(TRUE)
          /\ UNCHANGED <<svm, rev>>
       \/ /\ ~svm[idx].exists
          /\ ApplyNext(TRUE)
          /\ UNCHANGED <<svm, rev, errBudget>>
       \/ /\ svm[idx].exists
          /\ rev' = rev + 1
          /\ svm' = [svm EXCEPT ![idx] = [copy EXCEPT !.rv = rev + 1]]
          /\ ApplyNext(FALSE)
          /\ UNCHANGED errBudget

(* Mutant: a resourceVersion conflict on Update is taken as success. *)
ApplyUpdateConflictIgnored ==
    /\ pc = "update"
    /\ UNCHANGED <<cm, crd, cache, dirty, wkey, copy, editBudget, cleanup>>
    /\ \/ /\ errBudget > 0
          /\ errBudget' = errBudget - 1
          /\ ApplyNext(TRUE)
          /\ UNCHANGED <<svm, rev>>
       \/ /\ ~svm[idx].exists
          /\ ApplyNext(TRUE)
          /\ UNCHANGED <<svm, rev, errBudget>>
       \/ /\ svm[idx].exists
          /\ svm[idx].rv # copy.rv
          /\ ApplyNext(FALSE)
          /\ UNCHANGED <<svm, rev, errBudget>>
       \/ /\ svm[idx].exists
          /\ svm[idx].rv = copy.rv
          /\ svm[idx] = copy
          /\ ApplyNext(FALSE)
          /\ UNCHANGED <<svm, rev, errBudget>>
       \/ /\ svm[idx].exists
          /\ svm[idx].rv = copy.rv
          /\ svm[idx] # copy
          /\ rev' = rev + 1
          /\ svm' = [svm EXCEPT ![idx] = [copy EXCEPT !.rv = rev + 1]]
          /\ ApplyNext(FALSE)
          /\ UNCHANGED errBudget

(* applyStorageVersionMigration: Update with existingCopy.  NotFound and a *)
(* resourceVersion conflict are errors; an update that changes nothing     *)
(* keeps the resourceVersion.                                              *)
ApplyUpdate ==
    /\ pc = "update"
    /\ UNCHANGED <<cm, crd, cache, dirty, wkey, copy, editBudget, cleanup>>
    /\ \/ /\ errBudget > 0
          /\ errBudget' = errBudget - 1
          /\ ApplyNext(TRUE)
          /\ UNCHANGED <<svm, rev>>
       \/ /\ svm[idx].rv # copy.rv \/ ~svm[idx].exists
          /\ ApplyNext(TRUE)
          /\ UNCHANGED <<svm, rev, errBudget>>
       \/ /\ svm[idx].exists
          /\ svm[idx].rv = copy.rv
          /\ svm[idx] = copy
          /\ ApplyNext(FALSE)
          /\ UNCHANGED <<svm, rev, errBudget>>
       \/ /\ svm[idx].exists
          /\ svm[idx].rv = copy.rv
          /\ svm[idx] # copy
          /\ rev' = rev + 1
          /\ svm' = [svm EXCEPT ![idx] = [copy EXCEPT !.rv = rev + 1]]
          /\ ApplyNext(FALSE)
          /\ UNCHANGED errBudget

-----------------------------------------------------------------------------
(* Other actors: users, the cluster-manager controller, the API server. *)

CreateCM(k) ==
    /\ cm[k].phase = "none"
    /\ cm' = [cm EXCEPT ![k] = [phase |-> "present", applied |-> FALSE]]
    /\ UNCHANGED <<crd, svm, rev, queueVars, workerVars, budgetVars, cleanup>>

(* The cluster-manager controller sets the Applied condition. *)
SetApplied(k, b) ==
    /\ cm[k].phase \in {"present", "deleting"}
    /\ cm[k].applied # b
    /\ cm' = [cm EXCEPT ![k].applied = b]
    /\ UNCHANGED <<crd, svm, rev, queueVars, workerVars, budgetVars, cleanup>>

MarkDeleting(k) ==
    /\ cm[k].phase = "present"
    /\ cm' = [cm EXCEPT ![k].phase = "deleting"]
    /\ UNCHANGED <<crd, svm, rev, queueVars, workerVars, budgetVars, cleanup>>

RemoveFinalizer(k) ==
    /\ CMCanVanish
    /\ cm[k].phase = "deleting"
    /\ cm' = [cm EXCEPT ![k].phase = "gone"]
    /\ UNCHANGED <<crd, svm, rev, queueVars, workerVars, budgetVars, cleanup>>

InstallCRD ==
    /\ ~crd
    /\ crd' = TRUE
    /\ UNCHANGED <<cm, svm, rev, queueVars, workerVars, budgetVars, cleanup>>

(* Deleting the CRD deletes every object of its kind. *)
RemoveCRD ==
    /\ crd
    /\ editBudget > 0
    /\ editBudget' = editBudget - 1
    /\ crd' = FALSE
    /\ svm' = [f \in Files |-> AbsentObj]
    /\ UNCHANGED <<cm, rev, queueVars, workerVars, errBudget, cleanup>>

(* Someone edits the spec or strips the metadata of a stored SVM. *)
EditSVM(f, s, m) ==
    /\ svm[f].exists
    /\ editBudget > 0
    /\ <<s, m>> # <<svm[f].spec, svm[f].meta>>
    /\ editBudget' = editBudget - 1
    /\ rev' = rev + 1
    /\ svm' = [svm EXCEPT ![f] = [exists |-> TRUE, spec |-> s, meta |-> m,
                                  rv |-> rev + 1]]
    /\ UNCHANGED <<cm, crd, queueVars, workerVars, errBudget, cleanup>>

-----------------------------------------------------------------------------
Init ==
    /\ cm = [k \in Keys |-> NoCM]
    /\ cache = [k \in Keys |-> NoCM]
    /\ crd \in BOOLEAN
    /\ svm = [f \in Files |-> AbsentObj]
    /\ rev = 0
    /\ dirty = {}
    /\ delayed = {}
    /\ pc = "idle"
    /\ wkey \in Keys
    /\ idx = 1
    /\ failed = FALSE
    /\ copy = AbsentObj
    /\ errBudget = MaxErrors
    /\ editBudget = MaxEdits
    /\ cleanup = {}

Worker ==
    \/ \E k \in Keys : SyncStart(k)
    \/ RemoveOne
    \/ ApplyGet
    \/ ApplyCreate
    \/ ApplyUpdate

Environment ==
    \/ \E k \in Keys :
          \/ CreateCM(k)
          \/ \E b \in BOOLEAN : SetApplied(k, b)
          \/ MarkDeleting(k)
          \/ RemoveFinalizer(k)
    \/ InstallCRD
    \/ RemoveCRD
    \/ \E f \in Files, s \in Specs, m \in BOOLEAN : EditSVM(f, s, m)

Queue == \E k \in Keys : TimerFires(k) \/ InformerSync(k)

Next == Worker \/ Environment \/ Queue

(* The worker loop never stops; the workqueue is FIFO so a ready key is    *)
(* eventually taken; watch events and timers are eventually delivered.     *)
(* The other actors are under no obligation to act.                        *)
Fairness ==
    /\ \A k \in Keys : WF_vars(SyncStart(k))
    /\ WF_vars(RemoveOne \/ ApplyGet \/ ApplyCreate \/ ApplyUpdate)
    /\ \A k \in Keys : WF_vars(InformerSync(k)) /\ WF_vars(TimerFires(k))

Spec == Init /\ [][Next]_vars /\ Fairness

-----------------------------------------------------------------------------
TypeOK ==
    /\ cm \in [Keys -> CMState]
    /\ cache \in [Keys -> CMState]
    /\ crd \in BOOLEAN
    /\ svm \in [Files -> Obj]
    /\ rev \in Nat
    /\ dirty \subseteq Keys
    /\ delayed \subseteq Keys
    /\ pc \in PCs
    /\ wkey \in Keys
    /\ idx \in Files
    /\ failed \in BOOLEAN
    /\ copy \in Obj
    /\ errBudget \in 0..MaxErrors
    /\ editBudget \in 0..MaxEdits
    /\ cleanup \subseteq Keys

-----------------------------------------------------------------------------
(* Properties *)

AllPresent == \A f \in Files : svm[f].exists
NonePresent == \A f \in Files : ~svm[f].exists

(* Once a sync of ClusterManager k has deleted migration requests because  *)
(* k is being deleted, no later sync of k goes down the apply path of      *)
(* sync (lines 99-109): the lister's deletion timestamp never goes away     *)
(* and the removal branch returns before the Applied check.                *)
NoApplyAfterCleanup ==
    ~(Busy /\ wkey \in cleanup /\ pc \in {"get", "create", "update"})

(* When a reconcile of a ClusterManager that is present and Applied is     *)
(* pending while the CRD is installed, all migration requests eventually   *)
(* exist (or k stops being ready): failed Get/Create/Update calls are      *)
(* retried through the rate-limited requeue of the aggregated error.       *)
ApplyConverges ==
    \A k \in Keys :
        (cm[k].phase = "present" /\ cm[k].applied /\ crd /\ k \in dirty)
          ~> (AllPresent \/ ~(cm[k].phase = "present" /\ cm[k].applied /\ crd))

Merge(f) == svm[f].exists /\ svm[f].meta
AllMerged == \A f \in Files : Merge(f)

(* An Update of existingCopy that loses the resourceVersion race with the  *)
(* last edit of another actor is retried until the manifest's metadata is  *)
(* on the object: when the worker is about to Update file idx of an        *)
(* Applied ClusterManager, the other files carry the metadata and nobody   *)
(* edits any more, every migration request eventually carries it (or k or  *)
(* the CRD stops qualifying).  The conflict of line 240 has to reach the   *)
(* aggregate (lines 161-166) and requeue the key; nothing else would,      *)
(* since migration requests are not watched.                               *)
ConflictIsRetried ==
    \A k \in Keys :
        (/\ pc = "update" /\ wkey = k /\ editBudget = 0
         /\ cm[k].phase = "present" /\ cm[k].applied /\ crd
         /\ \A f \in Files \ {idx} : Merge(f))
          ~> (AllMerged \/ ~(cm[k].phase = "present" /\ cm[k].applied /\ crd))

(* Once a ClusterManager has its deletion timestamp and the CRD is         *)
(* installed, every migration request is eventually deleted: the deletion  *)
(* event, even when it arrives during a running sync, leads to a sync that *)
(* takes the removal branch (lines 99-101) and it is retried until it      *)
(* succeeds.                                                               *)
DeletionCleansUp ==
    \A k \in Keys : (cm[k].phase = "deleting" /\ crd) ~> NonePresent

(* Every Update the controller sends carries the spec rendered from the    *)
(* manifest, so that an SVM whose spec was changed is restored (spec 8,    *)
(* update-on-drift).                                                       *)
UpdateCarriesDesiredSpec ==
    pc = "update" => copy.spec = Desired

(* A removal pass issues a Delete for every migration request before sync  *)
(* returns, even when one of them fails (spec 7, aggregate-and-continue).  *)
RemoveAttemptsEveryFile ==
    [][pc = "remove" /\ pc' = "idle" => idx = NFiles]_vars

(* A ClusterManager that is present and Applied while the CRD is installed *)
(* eventually has all its migration requests, however the CRD came to be  *)
(* installed: the controller keeps the store converged to the declared     *)
(* state (spec 1).  The capability check of sync (lines 90-96) returns nil *)
(* without a requeue and nothing watches the CRD.                          *)
LateCRDIsApplied ==
    \A k \in Keys :
        (cm[k].phase = "present" /\ cm[k].applied /\ crd)
          ~> (AllPresent \/ ~(cm[k].phase = "present" /\ cm[k].applied /\ crd))

(* A removal pass deletes a migration request only while the ClusterManager *)
(* it runs for has its deletion timestamp in the store, or is gone: the    *)
(* lister read at line 78 may lag behind the store, but it never shows a   *)
(* deletion the store has not made, and a deletion timestamp is never      *)
(* removed (lines 78-101, 188).                                            *)
RemovalOnlyForDeletedOwner ==
    [][pc = "remove" /\ crd' /\ (\E f \in Files : svm[f].exists /\ ~svm'[f].exists)
         => cm[wkey].phase \in {"deleting", "gone"}]_vars

(* A removal pass of one ClusterManager (lines 99-101, 188) never deletes a *)
(* migration request while another ClusterManager is present and Applied:  *)
(* the subordinates of different owning objects are disjoint (spec 5).     *)
(* The SVM names come from the fixed manifests, so every key shares them.  *)
RemovalSparesOtherOwners ==
    [][pc = "remove" /\ crd' /\ (\E f \in Files : svm[f].exists /\ ~svm'[f].exists)
         => ~\E j \in Keys \ {wkey} : cm[j].phase = "present" /\ cm[j].applied]_vars

-----------------------------------------------------------------------------
(* Refinement: the store as the controller changes it, without resource    *)
(* versions, is a behaviour of SVMStore with the edit budget as its count  *)
(* of external interventions.                                              *)
View(o) == [exists |-> o.exists, spec |-> o.spec, meta |-> o.meta]

Store == INSTANCE SVMStore WITH obj <- [f \in Files |-> View(svm[f])],
                                edits <- editBudget

(* Every change the controller makes to the migration requests is a create *)
(* from the manifest, a delete, or a metadata merge onto the object as it  *)
(* is now: the Get/Update pair of applyStorageVersionMigration (lines 214  *)
(* and 240) never writes back a spec or metadata that another actor        *)
(* changed in between, thanks to the resourceVersion precondition.         *)
StoreRefinement == Store!Spec

=============================================================================
