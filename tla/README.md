# Verification of the CRD migration controller

This directory holds TLA+ models of the registration-operator's reconciliation
code, TLC configurations that check them, and TLAPS proofs. The only
implementation file under `src/` is
`src/pkg/operators/clustermanager/controllers/migrationcontroller/migration_controller.go`
(247 lines). It is the cluster-manager operator's controller that keeps the
two `StorageVersionMigration` (SVM) objects of the hub in place.

## 1. Inventory

### Components and how they interact

| Component | Code | State it touches |
|---|---|---|
| Controller wiring | `NewCRDMigrationController` (57-74) | registers the ClusterManager informer; the queue key is the object's name |
| Sync | `sync` (76-110), `supportStorageVersionMigration` (113-122) | reads the ClusterManager from the lister (the informer cache) and the CRD from the API server; then chooses to remove, to wait 5 s (`AddAfter`), or to apply |
| Remover | `removeStorageVersionMigrations` (124-145), `removeStorageVersionMigration` (169-193) | deletes each SVM by name; NotFound counts as success; **returns on the first error** |
| Applier | `applyStorageVersionMigrations` (147-167), `applyStorageVersionMigration` (195-247) | per file: Get, Create on NotFound, else merge metadata into `existingCopy`, compare the spec, Update `existingCopy`; errors are aggregated over the files |
| Reconcile scheduler | library-go `factory` over a client-go work queue (not in this repository) | a coalescing queue with at most one running sync per key, rate-limited requeue on error, `AddAfter` |
| Renderer | embedded manifests, `assets.MustCreateAssetFromTemplate`, `genericCodec.Decode` | none: static data |
| Store | API server | ClusterManager (deletion timestamp, `Applied` condition, finalizer), the SVM CRD, the SVM objects with their `resourceVersion` |

Other actors change the store at any time. They are the cluster-manager
controller (it sets `Applied` and removes the finalizer), users (they create and
delete ClusterManagers and edit SVMs), and whoever installs or removes the CRD.
The controller watches only ClusterManagers. It does not watch SVMs or the CRD,
and it adds no finalizer of its own.

The spec (`spec.md`) also names a Generation Tracker and a Condition
Aggregator. This repository has no code for either under `src/`. Only the
klusterlet integration test (`src/test/integration/klusterlet_test.go`)
exercises the aggregator, and that controller is not part of this repository.

### Hard behaviours

- The lister is a cache. A sync can see a ClusterManager as live and `Applied`
  after it has started deleting, and an earlier sync may already have removed
  the SVMs.
- Every API call is a separate step. The store can change between Get and
  Create, and between Get and Update (resourceVersion conflict).
- Errors are transient, and the key is requeued with backoff. The removal
  pass stops at the first error. The apply pass goes on and aggregates.
- The `Applied` wait is a 5 s poll. The change of the status condition is
  also an informer event, so the poll is redundant. No property can tell a
  lost poll from a working one, and the hazard list says so.
- When the CRD is missing, the sync "fails closed": it returns nil and nothing
  requeues.
- Deletion can end, by removal of the last finalizer, before a deleting sync
  runs.

## 2. Modules

| Module | Contents |
|---|---|
| `MigrationController.tla` | The controller, the queue and the store. Constants: `Keys` (ClusterManager names), `NFiles` (entries of `migrationRequestFiles`), `Specs` / `Desired` (spec values; `Desired` is the rendered manifest), `MaxErrors` and `MaxEdits` (bounds on transient API errors and on edits by other actors), `CMCanVanish` (whether another actor may remove the last finalizer). |
| `MigrationControllerProofs.tla` | TLAPS proofs of type correctness, of `NoApplyAfterCleanup` (through the inductive invariant `IInv`), of `RemovalOnlyForDeletedOwner`, and of the refinement of `SVMStore` (through `RInv`). |
| `SVMStore.tla` | The abstract specification of what the controller does to the SVMs. It has no worker, queue or resourceVersion. Controller steps are `Create` (from the manifest, only while the CRD exists), `Delete`, and `MergeMeta` (the manifest's metadata merged onto the object as it is now, keeping its current spec). `InstallCRD`, `RemoveCRD` and `Edit` are other actors' steps, counted by `edits`. |
| `MC_MigrationController.tla` | The TLC instance: ClusterManager keys `k1` (and `k2` for the two-key run), two spec values `s1`, `s2`. It extends the proofs module, so TLC evaluates the proofs' definitions in the same context. |

### State and actions and their code

- `cm[k]` is the ClusterManager in the store. Its phase is `none`, `present`,
  `deleting` (deletion timestamp set) or `gone` (finalizer removed). It also
  carries `applied`, the `Applied` condition.
- `cache[k]` is the lister's copy. `InformerSync(k)` copies the store into the
  cache and enqueues the key (lines 68-73).
- `crd` says whether the CRD is installed. `svm[f]` is the stored SVM of file
  `f`: it exists or not, and has a spec, a flag for the manifest's metadata,
  and a resourceVersion. `rev` is the store's resourceVersion counter.
- `dirty` is the set of queued keys, and `delayed` the keys waiting for a
  backoff or `AddAfter` timer (`TimerFires`). `Done(k, err)` ends a sync and
  requeues the key on error. A key enqueued while its sync runs stays in
  `dirty`, which matches client-go's dirty/processing sets.
- The worker state is `pc`, `wkey`, `idx` (the file, which is the loop
  variable), `failed` (the aggregated error) and `copy` (`existingCopy`).
- `SyncStart(k)` covers lines 76-122. It reads the lister, gets the CRD (which
  may fail) and then branches: no object, no CRD, deleting, not `Applied`, or
  apply.
- `RemoveOne` is one pass of the loop of `removeStorageVersionMigrations`, and
  `DeleteSVM` is the Delete of `removeStorageVersionMigration` (NotFound is
  success). On an error the sync ends.
- `ApplyGet`, `ApplyCreate` and `ApplyUpdate` are the three API calls of
  `applyStorageVersionMigration`. `ApplyNext` is the loop of
  `applyStorageVersionMigrations`. `Merged` and `Modified` are the merge and
  the comparison. `Merged` keeps the stored spec, as the code does, because
  line 234 writes the desired spec to `existing` and not to `existingCopy`.
- Environment actions are `CreateCM`, `SetApplied`, `MarkDeleting`,
  `RemoveFinalizer`, `InstallCRD`, `RemoveCRD` (which deletes all SVMs) and
  `EditSVM`.
- `cleanup` is a history variable. It holds the keys whose removal pass has
  deleted something.
- The refinement mapping is `Store == INSTANCE SVMStore WITH obj <- [f \in Files |-> View(svm[f])], edits <- editBudget`.
  `View` drops the resourceVersion. Every worker step that writes an SVM maps
  to `Create`, `Delete` or `MergeMeta`. Every other step of the controller or
  the queue is a stutter.

The renderer is abstracted to the constant `Desired`. The manifests are fixed,
so decoding never fails for them.

## 3. Runs

The cfg files share the bounds: one key, `NFiles = 2` (as in the code),
`MaxErrors = 1`, two spec values. With two files, the "first fails, second
succeeds" orders of both loops are reachable. One transient error is enough to
reach every error branch. Deadlock is not checked, because the controller
legitimately idles once the store has converged.

| Run | Cfg | Expect | Checks |
|---|---|---|---|
| migration_core | `MC_MigrationController.cfg` (`MaxEdits = 2`, `CMCanVanish = TRUE`) | pass (423,740 distinct states) | `TypeOK`; `NoApplyAfterCleanup`: after a removal pass for a key has deleted an SVM, no apply step for that key runs, even with a stale cache; `StoreRefinement` (= `Store!Spec`): no Update writes back a copy read before another actor's edit, and SVMs are only created from the manifest while the CRD exists; `ApplyConverges`: a queued sync of an applied ClusterManager with the CRD present leads to both SVMs existing, unless the ClusterManager or the CRD stops qualifying; `RemovalOnlyForDeletedOwner`: a removal pass deletes an SVM only while its ClusterManager has a deletion timestamp in the store (or is gone), however stale the lister is; `ConflictIsRetried`: once nobody edits any more, an Update of an Applied ClusterManager's SVM that may have lost the resourceVersion race leads to every SVM carrying the manifest's metadata, because the conflict goes into the aggregate error and requeues the key. The other files must already carry the metadata: TLC shows that an edit of a file the pass has already processed is never repaired, because nothing watches the SVMs (the stale-state hazard at line 232). |
| deletion_cleanup | `MC_Deletion.cfg` (`CMCanVanish = FALSE`) | pass | `DeletionCleansUp`: a deleting ClusterManager with the CRD installed leads to no SVM in the store. |
| update_drift | `MC_UpdateDrift.cfg` | violation | `UpdateCarriesDesiredSpec`: the update sends the desired spec. |
| remove_partial | `MC_RemovePartial.cfg` | violation | `RemoveAttemptsEveryFile`: a removal pass never ends before the last file. |
| finalizer_race | `MC_FinalizerRace.cfg` (`CMCanVanish = TRUE`) | violation | `DeletionCleansUp` when another actor may remove the finalizer. |
| late_crd | `MC_LateCRD.cfg` (`MaxEdits = 0`) | violation | `LateCRDIsApplied`: an Applied ClusterManager with the CRD installed eventually has all SVMs, however the CRD came to be installed. |
| shared_svms | `MC_SharedSVMs.cfg` (keys `k1`, `k2`; no errors or edits) | violation | `RemovalSparesOtherOwners`: a removal pass never deletes an SVM while another ClusterManager is present and Applied. |

### Fairness

The worker is weakly fair on its own steps (`SyncStart` per key and the
API-call steps). The informer is weakly fair on delivering each change. The
timers (`TimerFires`) are weakly fair. The environment is not fair: users and
other controllers need not act, and errors and edits are bounded, so the
liveness properties are about the controller's own progress once others stop
disturbing it.

### Findings

1. **Update does not repair drift (code bug, line 234).** `existing.Spec` is
   set, but `existingCopy` is sent (line 240). An edited SVM spec is never
   restored, and every later sync issues the same update again. Spec §8
   ("update-on-drift") says otherwise.
2. **Removal stops at the first error (line 140).** Spec §7 asks for
   aggregate-and-continue. The unit test `TestRemoveStorageVersionMigrations`
   calls `applyStorageVersionMigrations`, so removal is untested.
3. **No finalizer, so cleanup can be skipped (lines 80-101).** Spec §3 says
   cleanup happens before the finalizer is removed. The code relies on seeing
   the deleting object in its cache. If the ClusterManager vanishes first, the
   SVMs stay. TLC's trace also shows a stale cache re-creating an SVM during
   deletion.
4. **A CRD installed late is never acted on (lines 94-96).** The sync returns
   nil when the CRD is missing, and the controller watches only
   ClusterManagers. After the CRD arrives, the SVMs are created only on the
   next ClusterManager event. The shortest trace is: create the ClusterManager,
   set `Applied`, sync without the CRD, install the CRD, then nothing.
5. **ClusterManagers share the SVMs (lines 39-42, 100).** The SVM names are
   fixed by the manifests. A deleting ClusterManager's removal pass deletes
   the SVMs while a second ClusterManager is Applied, and nothing re-creates
   them until the second one's next event. Spec §5 assumes the subordinates of
   different keys are disjoint.

The Get/Update pair itself is sound. `StoreRefinement` holds, and the mutant
that drops the resourceVersion precondition of the Update
(`ApplyUpdateLastWriteWins`) breaks it: the Update then writes back a spec
that another actor changed after the Get.

## 4. Proofs

`MigrationControllerProofs.tla` is checked by `tlapm` with all obligations
proved. It uses only `ConstantsAssumption`.

- `TypeCorrect`: `Spec => []TypeOK`. The proof is by the lemmas `InitType` and
  `TypeStep`, with one step per action, and the lemma `ApplyNextType` for the
  shared loop continuation.
- `CleanupIsFinal`: `Spec => []NoApplyAfterCleanup`. The property is not
  inductive on its own, because a removal pass followed by a sync that reads
  the cache could restart the apply path. TLC checked `IInv` as an invariant
  of the run migration_core before it was proved. The strengthening `IInv` adds three
  facts:
  - the cache never shows a deletion that the store has not made;
  - every key in `cleanup` is deleted in the cache, and deletion is monotone
    in both the store and the cache;
  - a running removal pass belongs to a key that is deleted in the cache.

  So once a key is cleaned, `SyncStart` can only take the no-object or the
  removal branch. The lemma `IInvHolds` (`Spec => []IInv`) is reused below.
- `Refinement`: `Spec => StoreRefinement`, that is `Spec => Store!Spec`. The
  proof follows the usual form: `StoreInit` shows the initial states map to
  `Store!Init`, and `StoreStep` shows each step maps to a `Store!Next` step or
  a stutter. The Update case needs the invariant `RInv`, proved by `RInvInit`
  and `RInvStep`:
  - every stored resourceVersion is at most the store's counter `rev`;
  - while an Update is pending, the copy's resourceVersion is at most `rev`;
  - while an Update is pending and the object still has the copy's
    resourceVersion, the copy is the stored object with the manifest's
    metadata merged in.

  Every write gives the object a fresh version `rev + 1`. So an object whose
  version still equals the copy's has not been written since the Get, and the
  Update is exactly `MergeMeta` on the current object. `ViewExcept` and
  `StoreStutter` are the lemmas about the mapping.

- `RemovalSafe`: `Spec => RemovalOnlyForDeletedOwner`. From `IInvHolds`: the
  removal loop runs only for a key that is deleted in the cache, and the cache
  never shows a deletion the store has not made. So whenever `pc = "remove"`
  the store's ClusterManager is deleting or gone, and the action property
  follows by PTL. It depends on deletion being final. The model never reuses a
  ClusterManager name (see section 5).
What only TLC checks: the liveness properties (`ApplyConverges`,
`ConflictIsRetried`, `DeletionCleansUp`), since they need fairness and
ENABLED reasoning, which the prover cannot do.

## 5. Not modelled, and the plan

- Not modelled:
  - The renderer and decoder (static data).
  - Events and logging.
  - Backoff timing: delays are untimed, because only the order of events
    matters to the properties.
  - Reuse of a ClusterManager name. `gone` is final in the model. In the
    cluster, a ClusterManager can be created again under the same name while
    the lister still holds the old, deleting object. A sync would then delete
    the SVMs the new object needs, until the add event re-applies them.
    `RemovalOnlyForDeletedOwner` and `RemovalSafe` hold only for deployments
    that never reuse a name. Modelling reuse needs an object uid in `cm` and
    `cache`.
  - More than one worker. The queue never hands a key to two workers at once,
    so with one key a single worker is all the concurrency there is.
- Planned:
  - A passing two-key run of the safety properties, with smaller bounds.
  - A spec-modelled condition aggregator for the klusterlet conditions that
    the integration test exercises.
