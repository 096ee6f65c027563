---------------------- MODULE MigrationControllerProofs ----------------------
(***************************************************************************)
(* Proofs about MigrationController for every value of the constants:     *)
(* type correctness, and that a ClusterManager whose removal pass has      *)
(* begun never again goes down the apply path (NoApplyAfterCleanup).      *)
(***************************************************************************)
EXTENDS MigrationController, TLAPS

USE ConstantsAssumption

-----------------------------------------------------------------------------
(* Every step keeps the variables in their types. *)
(* The step that ends the processing of one file keeps the worker's        *)
(* variables in their types.                                               *)
LEMMA ApplyNextType ==
    ASSUME TypeOK, NEW err \in BOOLEAN, ApplyNext(err)
    PROVE  /\ pc' \in PCs /\ idx' \in Files /\ failed' \in BOOLEAN
           /\ delayed' \subseteq Keys
<1>1. CASE idx = NFiles
  BY <1>1 DEF ApplyNext, Done, TypeOK, PCs
<1>2. CASE idx # NFiles
  BY <1>2 DEF ApplyNext, TypeOK, PCs, Files
<1>3. QED
  BY <1>1, <1>2

LEMMA TypeStep == TypeOK /\ [Next]_vars => TypeOK'
<1> SUFFICES ASSUME TypeOK, [Next]_vars PROVE TypeOK'
  OBVIOUS
<1> USE DEF storeVars, queueVars, workerVars, budgetVars
<1>0. AbsentObj \in Obj
  BY DEF AbsentObj, Obj
<1>1. ASSUME NEW k \in Keys, SyncStart(k) PROVE TypeOK'
  <2>1. /\ dirty' \subseteq Keys /\ wkey' \in Keys
        /\ UNCHANGED <<cm, crd, svm, rev, cache, editBudget, cleanup>>
    BY <1>1 DEF SyncStart, TypeOK
  <2>2. \/ /\ pc' = "idle" /\ delayed' \subseteq Keys
           /\ errBudget' \in 0..MaxErrors /\ UNCHANGED <<idx, failed, copy>>
        \/ /\ pc' \in {"remove", "get"} /\ idx' = 1 /\ failed' \in BOOLEAN
           /\ UNCHANGED <<delayed, copy, errBudget>>
    <3>1. CASE Done(k, FALSE) /\ UNCHANGED <<idx, failed, copy, errBudget>>
      BY <3>1 DEF Done, TypeOK
    <3>2. CASE /\ errBudget > 0 /\ errBudget' = errBudget - 1
               /\ Done(k, TRUE) /\ UNCHANGED <<idx, failed, copy>>
      BY <3>2 DEF Done, TypeOK
    <3>3. CASE pc' = "idle" /\ delayed' = delayed \cup {k}
               /\ UNCHANGED <<idx, failed, copy, errBudget>>
      BY <3>3 DEF TypeOK
    <3>4. CASE pc' = "remove" /\ idx' = 1
               /\ UNCHANGED <<delayed, failed, copy, errBudget>>
      BY <3>4 DEF TypeOK
    <3>5. CASE pc' = "get" /\ idx' = 1 /\ failed' = FALSE
               /\ UNCHANGED <<delayed, copy, errBudget>>
      BY <3>5
    <3>6. QED
      BY <1>1, <3>1, <3>2, <3>3, <3>4, <3>5, Zenon DEF SyncStart
  <2>3. QED
    BY <2>1, <2>2 DEF TypeOK, PCs, Files
<1>2. CASE RemoveOne
  BY <1>0, <1>2 DEF RemoveOne, DeleteSVM, Done, TypeOK, PCs, Files
<1>3. CASE ApplyGet
  <2>1. Merged(svm[idx]) \in Obj
    BY DEF TypeOK, Merged, Obj
  <2>2. UNCHANGED <<cm, crd, svm, rev, cache, dirty, wkey, editBudget, cleanup>>
    BY <1>3 DEF ApplyGet
  <2>3. CASE errBudget > 0 /\ errBudget' = errBudget - 1 /\ ApplyNext(TRUE)
             /\ UNCHANGED copy
    <3>1. pc' \in PCs /\ idx' \in Files /\ failed' \in BOOLEAN
          /\ delayed' \subseteq Keys
      BY <2>3, ApplyNextType
    <3>2. QED
      BY <2>2, <2>3, <3>1 DEF TypeOK
  <2>4. CASE pc' = "create" /\ UNCHANGED <<delayed, idx, failed, copy, errBudget>>
    BY <2>2, <2>4 DEF TypeOK, PCs
  <2>5. CASE ApplyNext(FALSE) /\ UNCHANGED <<copy, errBudget>>
    <3>1. pc' \in PCs /\ idx' \in Files /\ failed' \in BOOLEAN
          /\ delayed' \subseteq Keys
      BY <2>5, ApplyNextType
    <3>2. QED
      BY <2>2, <2>5, <3>1 DEF TypeOK
  <2>6. CASE pc' = "update" /\ copy' = Merged(svm[idx])
             /\ UNCHANGED <<delayed, idx, failed, errBudget>>
    BY <2>1, <2>2, <2>6 DEF TypeOK, PCs
  <2>7. QED
    BY <1>3, <2>3, <2>4, <2>5, <2>6, Zenon DEF ApplyGet
<1>4. CASE ApplyCreate
  <2>1. [exists |-> TRUE, spec |-> Desired, meta |-> TRUE, rv |-> rev + 1] \in Obj
    BY DEF TypeOK, Obj
  <2>2. UNCHANGED <<cm, crd, cache, dirty, wkey, copy, editBudget, cleanup>>
    BY <1>4 DEF ApplyCreate
  <2>3. CASE errBudget > 0 /\ errBudget' = errBudget - 1 /\ ApplyNext(TRUE)
             /\ UNCHANGED <<svm, rev>>
    <3>1. pc' \in PCs /\ idx' \in Files /\ failed' \in BOOLEAN
          /\ delayed' \subseteq Keys
      BY <2>3, ApplyNextType
    <3>2. QED
      BY <2>2, <2>3, <3>1 DEF TypeOK
  <2>4. CASE ApplyNext(TRUE) /\ UNCHANGED <<svm, rev, errBudget>>
    <3>1. pc' \in PCs /\ idx' \in Files /\ failed' \in BOOLEAN
          /\ delayed' \subseteq Keys
      BY <2>4, ApplyNextType
    <3>2. QED
      BY <2>2, <2>4, <3>1 DEF TypeOK
  <2>5. CASE /\ rev' = rev + 1
             /\ svm' = [svm EXCEPT ![idx] = [exists |-> TRUE, spec |-> Desired,
                                             meta |-> TRUE, rv |-> rev + 1]]
             /\ ApplyNext(FALSE) /\ UNCHANGED errBudget
    <3>1. pc' \in PCs /\ idx' \in Files /\ failed' \in BOOLEAN
          /\ delayed' \subseteq Keys
      BY <2>5, ApplyNextType
    <3>2. QED
      BY <2>1, <2>2, <2>5, <3>1 DEF TypeOK
  <2>6. QED
    BY <1>4, <2>3, <2>4, <2>5, Zenon DEF ApplyCreate
<1>5. CASE ApplyUpdate
  <2>1. [copy EXCEPT !.rv = rev + 1] \in Obj
    BY DEF TypeOK, Obj
  <2>2. UNCHANGED <<cm, crd, cache, dirty, wkey, copy, editBudget, cleanup>>
    BY <1>5 DEF ApplyUpdate
  <2>3. CASE errBudget > 0 /\ errBudget' = errBudget - 1 /\ ApplyNext(TRUE)
             /\ UNCHANGED <<svm, rev>>
    <3>1. pc' \in PCs /\ idx' \in Files /\ failed' \in BOOLEAN
          /\ delayed' \subseteq Keys
      BY <2>3, ApplyNextType
    <3>2. QED
      BY <2>2, <2>3, <3>1 DEF TypeOK
  <2>4. CASE \E err \in BOOLEAN : ApplyNext(err) /\ UNCHANGED <<svm, rev, errBudget>>
    <3>1. pc' \in PCs /\ idx' \in Files /\ failed' \in BOOLEAN
          /\ delayed' \subseteq Keys
      BY <2>4, ApplyNextType
    <3>2. QED
      BY <2>2, <2>4, <3>1 DEF TypeOK
  <2>5. CASE /\ rev' = rev + 1
             /\ svm' = [svm EXCEPT ![idx] = [copy EXCEPT !.rv = rev + 1]]
             /\ ApplyNext(FALSE) /\ UNCHANGED errBudget
    <3>1. pc' \in PCs /\ idx' \in Files /\ failed' \in BOOLEAN
          /\ delayed' \subseteq Keys
      BY <2>5, ApplyNextType
    <3>2. QED
      BY <2>1, <2>2, <2>5, <3>1 DEF TypeOK
  <2>6. QED
    BY <1>5, <2>3, <2>4, <2>5, Zenon DEF ApplyUpdate
<1>6. ASSUME NEW k \in Keys, TimerFires(k) \/ InformerSync(k) PROVE TypeOK'
  BY <1>6 DEF TimerFires, InformerSync, TypeOK
<1>7. ASSUME NEW k \in Keys, CreateCM(k) PROVE TypeOK'
  <2>1. [phase |-> "present", applied |-> FALSE] \in CMState
    BY DEF CMState, Phases
  <2>2. QED
    BY <1>7, <2>1 DEF CreateCM, TypeOK
<1>11. ASSUME NEW k \in Keys, NEW b \in BOOLEAN, SetApplied(k, b) PROVE TypeOK'
  <2>1. [cm[k] EXCEPT !.applied = b] \in CMState
    BY DEF TypeOK, CMState
  <2>2. QED
    BY <1>11, <2>1 DEF SetApplied, TypeOK
<1>12. ASSUME NEW k \in Keys, MarkDeleting(k) \/ RemoveFinalizer(k)
       PROVE TypeOK'
  <2>1. \A p \in Phases : [cm[k] EXCEPT !.phase = p] \in CMState
    BY DEF TypeOK, CMState
  <2>2. QED
    BY <1>12, <2>1 DEF MarkDeleting, RemoveFinalizer, TypeOK, Phases
<1>8. CASE InstallCRD
  BY <1>8 DEF InstallCRD, TypeOK
<1>13. CASE RemoveCRD
  <2>1. [f \in Files |-> AbsentObj] \in [Files -> Obj]
    BY <1>0
  <2>2. editBudget' \in 0..MaxEdits
    BY <1>13 DEF RemoveCRD, TypeOK
  <2>3. UNCHANGED <<cm, rev, cache, dirty, delayed, pc, wkey, idx, failed, copy,
                    errBudget, cleanup>>
    BY <1>13 DEF RemoveCRD
  <2>4. QED
    BY <1>13, <2>1, <2>2, <2>3 DEF RemoveCRD, TypeOK
<1>9. ASSUME NEW f \in Files, NEW s \in Specs, NEW m \in BOOLEAN, EditSVM(f, s, m)
      PROVE TypeOK'
  BY <1>9 DEF EditSVM, TypeOK, Obj
<1>10. CASE UNCHANGED vars
  BY <1>10 DEF vars, storeVars, queueVars, workerVars, budgetVars, TypeOK
<1>14. QED
  BY <1>1, <1>2, <1>3, <1>4, <1>5, <1>6, <1>7, <1>8, <1>9, <1>10, <1>11,
     <1>12, <1>13 DEF Next, Worker, Environment, Queue

LEMMA InitType == Init => TypeOK
<1> SUFFICES ASSUME Init PROVE TypeOK
  OBVIOUS
<1>1. NoCM \in CMState
  BY DEF NoCM, CMState, Phases
<1>2. AbsentObj \in Obj
  BY DEF AbsentObj, Obj
<1>3. cm \in [Keys -> CMState] /\ cache \in [Keys -> CMState]
  BY <1>1 DEF Init
<1>4. svm \in [Files -> Obj] /\ copy \in Obj
  BY <1>2 DEF Init
<1>5. idx \in Files
  BY DEF Init, Files
<1>6. errBudget \in 0..MaxErrors /\ editBudget \in 0..MaxEdits
  BY DEF Init
<1>7. rev \in Nat /\ pc \in PCs /\ failed \in BOOLEAN
  BY DEF Init, PCs
<1>8. /\ crd \in BOOLEAN /\ wkey \in Keys
      /\ dirty \subseteq Keys /\ delayed \subseteq Keys /\ cleanup \subseteq Keys
  BY DEF Init
<1>9. QED
  BY <1>3, <1>4, <1>5, <1>6, <1>7, <1>8 DEF TypeOK

(* The model's variables always have their types (TypeOK, checked by the   *)
(* run migration_core).                                                    *)
THEOREM TypeCorrect == Spec => []TypeOK
BY InitType, TypeStep, PTL DEF Spec

-----------------------------------------------------------------------------
(* The inductive invariant behind NoApplyAfterCleanup: the informer never  *)
(* shows a deletion the store has not made; a key whose removal pass has   *)
(* begun, and the key of a running removal pass, are deleting in the       *)
(* cache; and the property itself.                                         *)
Deleted(p) == p \in {"deleting", "gone"}

IInv ==
    /\ TypeOK
    /\ \A k \in Keys : Deleted(cache[k].phase) => Deleted(cm[k].phase)
    /\ \A k \in cleanup : Deleted(cache[k].phase)
    /\ pc = "remove" => Deleted(cache[wkey].phase)
    /\ NoApplyAfterCleanup

LEMMA IInvInit == Init => IInv
BY InitType DEF Init, IInv, NoCM, Deleted, NoApplyAfterCleanup, Busy

LEMMA IInvStep == IInv /\ [Next]_vars => IInv'
<1> SUFFICES ASSUME IInv, [Next]_vars PROVE IInv'
  OBVIOUS
<1>0. TypeOK'
  BY TypeStep DEF IInv
<1> USE <1>0 DEF IInv, storeVars, queueVars, workerVars, budgetVars
<1>1. ASSUME NEW k \in Keys, SyncStart(k) PROVE IInv'
  BY <1>1 DEF SyncStart, Done, Busy, Deleted, NoApplyAfterCleanup
<1>2. CASE RemoveOne
  BY <1>2 DEF RemoveOne, DeleteSVM, Done, Busy, NoApplyAfterCleanup
<1>3. CASE ApplyGet \/ ApplyCreate \/ ApplyUpdate
  BY <1>3 DEF ApplyGet, ApplyCreate, ApplyUpdate, ApplyNext, Done, Busy,
              NoApplyAfterCleanup
<1>4. ASSUME NEW k \in Keys, TimerFires(k) PROVE IInv'
  BY <1>4 DEF TimerFires, NoApplyAfterCleanup, Busy
<1>5. ASSUME NEW k \in Keys, InformerSync(k) PROVE IInv'
  BY <1>5 DEF InformerSync, TypeOK, NoApplyAfterCleanup, Busy
<1>6. ASSUME NEW k \in Keys, CreateCM(k) PROVE IInv'
  BY <1>6 DEF CreateCM, TypeOK, Deleted, NoApplyAfterCleanup, Busy
<1>11. ASSUME NEW k \in Keys, NEW b \in BOOLEAN, SetApplied(k, b) PROVE IInv'
  BY <1>11 DEF SetApplied, TypeOK, Deleted, NoApplyAfterCleanup, Busy
<1>12. ASSUME NEW k \in Keys, NEW p \in {"deleting", "gone"},
              cm' = [cm EXCEPT ![k].phase = p],
              UNCHANGED <<crd, svm, rev, cache, dirty, delayed, pc, wkey, idx,
                          failed, copy, errBudget, editBudget, cleanup>>
       PROVE IInv'
  <2>1. \A j \in Keys : Deleted(cm[j].phase) => Deleted(cm'[j].phase)
    BY <1>12 DEF TypeOK, Deleted
  <2>2. QED
    BY <1>12, <2>1 DEF Deleted, NoApplyAfterCleanup, Busy
<1>13. ASSUME NEW k \in Keys, MarkDeleting(k) \/ RemoveFinalizer(k)
       PROVE IInv'
  BY <1>13, <1>12 DEF MarkDeleting, RemoveFinalizer
<1>7. CASE InstallCRD \/ RemoveCRD
  BY <1>7 DEF InstallCRD, RemoveCRD, NoApplyAfterCleanup, Busy
<1>8. ASSUME NEW f \in Files, NEW s \in Specs, NEW m \in BOOLEAN, EditSVM(f, s, m)
      PROVE IInv'
  BY <1>8 DEF EditSVM, NoApplyAfterCleanup, Busy
<1>9. CASE UNCHANGED vars
  BY <1>9 DEF vars, storeVars, queueVars, workerVars, budgetVars,
              NoApplyAfterCleanup, Busy
<1>10. QED
  BY <1>1, <1>2, <1>3, <1>4, <1>5, <1>6, <1>7, <1>8, <1>9, <1>11, <1>13
     DEF Next, Worker, Environment, Queue

(* Once a sync of a ClusterManager has deleted migration requests because  *)
(* it is being deleted, no sync of it takes the apply path again           *)
(* (NoApplyAfterCleanup, checked by the run migration_core).               *)
THEOREM CleanupIsFinal == Spec => []NoApplyAfterCleanup
<1>1. IInv => NoApplyAfterCleanup
  BY DEF IInv
<1>2. QED
  BY IInvInit, IInvStep, <1>1, PTL DEF Spec

(* The inductive invariant holds in every reachable state. *)
LEMMA IInvHolds == Spec => []IInv
BY IInvInit, IInvStep, PTL DEF Spec

(* A removal pass only deletes migration requests of a ClusterManager that *)
(* has its deletion timestamp in the store, or is gone, however stale the  *)
(* lister is (RemovalOnlyForDeletedOwner, checked by the run               *)
(* migration_core).  The worker is in the removal loop only for a key that *)
(* is deleting in the cache (IInv), and the cache never shows a deletion   *)
(* the store has not made.                                                 *)
THEOREM RemovalSafe == Spec => RemovalOnlyForDeletedOwner
<1>1. IInv => (pc = "remove" => cm[wkey].phase \in {"deleting", "gone"})
  BY DEF IInv, TypeOK, Deleted
<1>2. IInv =>
        [pc = "remove" /\ crd' /\ (\E f \in Files : svm[f].exists /\ ~svm'[f].exists)
           => cm[wkey].phase \in {"deleting", "gone"}]_vars
  BY <1>1
<1>3. QED
  BY IInvHolds, <1>2, PTL DEF RemovalOnlyForDeletedOwner

-----------------------------------------------------------------------------
(* The invariant behind StoreRefinement: every stored resourceVersion is   *)
(* at most the store's counter, and while an Update is pending the copy    *)
(* taken at Get is, as long as the object still has that resourceVersion,  *)
(* the stored object with the manifest's metadata merged in.              *)
RInv ==
    /\ \A h \in Files : svm[h].rv <= rev
    /\ pc = "update" =>
          /\ copy.exists
          /\ copy.rv <= rev
          /\ (svm[idx].exists /\ svm[idx].rv = copy.rv) => copy = Merged(svm[idx])

(* ApplyNext never leaves the worker at an Update. *)
LEMMA ApplyNextNoUpdate ==
    ASSUME NEW err, ApplyNext(err) PROVE pc' \in {"get", "idle"}
BY DEF ApplyNext, Done

LEMMA RInvInit == Init => RInv
BY DEF Init, RInv, AbsentObj

LEMMA RInvStep == TypeOK /\ RInv /\ [Next]_vars => RInv'
<1> SUFFICES ASSUME TypeOK, RInv, [Next]_vars PROVE RInv'
  OBVIOUS
<1> USE DEF storeVars, queueVars, workerVars, budgetVars
<1>1. ASSUME NEW k \in Keys, SyncStart(k) PROVE RInv'
  <2>1. pc' # "update" /\ UNCHANGED <<svm, rev>>
    BY <1>1 DEF SyncStart, Done
  <2>2. QED
    BY <2>1 DEF RInv
<1>0. \A f \in Files : svm[f].rv \in Nat /\ svm[f].rv <= rev
  BY DEF TypeOK, Obj, RInv
<1>2. CASE RemoveOne
  <2>1. pc' # "update" /\ rev' = rev
    BY <1>2 DEF RemoveOne, DeleteSVM, Done
  <2>2. svm' = svm \/ svm' = [svm EXCEPT ![idx] = AbsentObj]
    BY <1>2 DEF RemoveOne, DeleteSVM
  <2>3. \A f \in Files : svm'[f].rv <= rev
    <3>1. TAKE f \in Files
    <3>2. svm'[f] = svm[f] \/ svm'[f] = AbsentObj
      BY <2>2 DEF TypeOK
    <3>3. QED
      BY <3>2, <1>0 DEF AbsentObj, TypeOK
  <2>4. QED
    BY <2>1, <2>3 DEF RInv
<1>3. CASE ApplyGet
  <2>1. UNCHANGED <<svm, rev>>
    BY <1>3 DEF ApplyGet
  <2>2. CASE pc' = "update"
    <3>1. svm[idx].exists /\ copy' = Merged(svm[idx]) /\ idx' = idx
      <4>1. ~ApplyNext(TRUE) /\ ~ApplyNext(FALSE)
        BY <2>2, ApplyNextNoUpdate
      <4>3. QED
        BY <1>3, <4>1, <2>2 DEF ApplyGet
    <3>2. svm[idx] \in Obj /\ idx \in Files
      BY DEF TypeOK
    <3>3. copy' = [exists |-> svm[idx].exists, spec |-> svm[idx].spec,
                   meta |-> TRUE, rv |-> svm[idx].rv]
      BY <3>1, <3>2 DEF Merged, Obj
    <3>5. copy'.exists /\ copy'.rv = svm[idx].rv /\ copy'.rv <= rev
      BY <3>1, <3>2, <3>3, <1>0
    <3>4. QED
      BY <2>1, <2>2, <3>1, <3>5, <1>0 DEF RInv
  <2>3. CASE pc' # "update"
    BY <2>1, <2>3 DEF RInv
  <2>4. QED
    BY <2>2, <2>3
<1>4. CASE ApplyCreate \/ ApplyUpdate
  <2>1. pc' # "update"
    BY <1>4, ApplyNextNoUpdate DEF ApplyCreate, ApplyUpdate
  <2>2. \/ UNCHANGED <<svm, rev>>
        \/ /\ rev' = rev + 1
           /\ \E o \in Obj : o.rv = rev + 1 /\ svm' = [svm EXCEPT ![idx] = o]
    <3>1. CASE ApplyCreate
      <4>1. [exists |-> TRUE, spec |-> Desired, meta |-> TRUE, rv |-> rev + 1]
              \in Obj
        BY DEF Obj, TypeOK
      <4>2. QED
        BY <3>1, <4>1 DEF ApplyCreate
    <3>2. CASE ApplyUpdate
      <4>1. [copy EXCEPT !.rv = rev + 1] \in Obj
        BY DEF Obj, TypeOK
      <4>2. [copy EXCEPT !.rv = rev + 1].rv = rev + 1
        BY DEF Obj, TypeOK
      <4>3. QED
        BY <3>2, <4>1, <4>2 DEF ApplyUpdate
    <3>3. QED
      BY <1>4, <3>1, <3>2
  <2>3. \A f \in Files : svm'[f].rv <= rev'
    <3>1. CASE UNCHANGED <<svm, rev>>
      BY <3>1, <1>0
    <3>2. CASE /\ rev' = rev + 1
               /\ \E o \in Obj : o.rv = rev + 1 /\ svm' = [svm EXCEPT ![idx] = o]
      BY <3>2, <1>0 DEF TypeOK
    <3>3. QED
      BY <2>2, <3>1, <3>2
  <2>4. QED
    BY <2>1, <2>3 DEF RInv
<1>5. ASSUME NEW f \in Files, NEW sp \in Specs, NEW m \in BOOLEAN,
             EditSVM(f, sp, m)
      PROVE RInv'
  <2>0. /\ rev' = rev + 1 /\ pc' = pc /\ idx' = idx /\ copy' = copy
        /\ svm' = [svm EXCEPT ![f] = [exists |-> TRUE, spec |-> sp, meta |-> m,
                                      rv |-> rev + 1]]
    BY <1>5 DEF EditSVM
  <2>1. /\ rev' = rev + 1 /\ svm'[f].rv = rev + 1
        /\ pc' = pc /\ idx' = idx /\ copy' = copy
        /\ \A g \in Files \ {f} : svm'[g] = svm[g]
    BY <2>0 DEF TypeOK
  <2>2. \A g \in Files : svm'[g].rv <= rev'
    <3>1. rev \in Nat
      BY DEF TypeOK
    <3>2. QED
      BY <2>1, <1>0, <3>1
  <2>3. pc' = "update" =>
          ((svm'[idx].exists /\ svm'[idx].rv = copy'.rv) => copy' = Merged(svm'[idx]))
    <3>1. CASE idx = f
      <4>2. pc = "update" => copy.rv <= rev
        BY DEF RInv
      <4>3. rev \in Nat /\ copy.rv \in Nat
        BY DEF TypeOK, Obj
      <4>6. pc' = "update" => pc = "update"
        BY <2>1
      <4>7. svm'[idx].rv = rev + 1
        BY <2>1, <3>1
      <4>8. copy'.rv = copy.rv
        BY <2>1
      <4>4. pc' = "update" => svm'[idx].rv # copy'.rv
        BY <4>2, <4>3, <4>6, <4>7, <4>8
      <4>5. QED
        BY <4>4
    <3>2. CASE idx # f
      <4>1. idx \in Files
        BY DEF TypeOK
      <4>2. svm'[idx] = svm[idx]
        BY <2>1, <3>2, <4>1
      <4>3. QED
        BY <2>1, <4>2 DEF RInv
    <3>3. QED
      BY <3>1, <3>2
  <2>5. pc' = "update" => copy'.exists /\ copy'.rv <= rev'
    <3>1. rev \in Nat /\ copy.rv \in Nat
      BY DEF TypeOK, Obj
    <3>2. pc = "update" => copy.exists /\ copy.rv <= rev
      BY DEF RInv
    <3>3. QED
      BY <2>1, <3>1, <3>2
  <2>4. QED
    BY <2>1, <2>2, <2>3, <2>5 DEF RInv
<1>6. CASE RemoveCRD
  <2>1. svm' = [g \in Files |-> AbsentObj] /\ rev' = rev
        /\ pc' = pc /\ idx' = idx /\ copy' = copy
    BY <1>6 DEF RemoveCRD
  <2>2. \A g \in Files : svm'[g].rv <= rev' /\ ~svm'[g].exists
    BY <2>1 DEF TypeOK, AbsentObj
  <2>3. pc = "update" => copy.exists /\ copy.rv <= rev
    BY DEF RInv
  <2>4. idx \in Files
    BY DEF TypeOK
  <2>5. QED
    BY <2>1, <2>2, <2>3, <2>4 DEF RInv
<1>7. CASE UNCHANGED <<svm, rev, pc, idx, copy>>
  BY <1>7 DEF RInv
<1>8. QED
  <2>1. ASSUME NEW k \in Keys,
               \/ TimerFires(k) \/ InformerSync(k) \/ CreateCM(k)
               \/ MarkDeleting(k) \/ RemoveFinalizer(k)
               \/ \E b \in BOOLEAN : SetApplied(k, b)
        PROVE UNCHANGED <<svm, rev, pc, idx, copy>>
    BY <2>1 DEF TimerFires, InformerSync, CreateCM, MarkDeleting,
                RemoveFinalizer, SetApplied
  <2>2. InstallCRD \/ UNCHANGED vars => UNCHANGED <<svm, rev, pc, idx, copy>>
    BY DEF InstallCRD, vars
  <2>3. QED
    BY <1>1, <1>2, <1>3, <1>4, <1>5, <1>6, <1>7, <2>1, <2>2
       DEF Next, Worker, Environment, Queue

(* The abstract objects: each stored SVM without its resourceVersion. *)
AbsObj == [f \in Files |-> View(svm[f])]

(* Writing one SVM writes its view and nothing else. *)
LEMMA ViewExcept ==
    ASSUME NEW i \in Files, NEW o, svm \in [Files -> Obj],
           svm' = [svm EXCEPT ![i] = o]
    PROVE  AbsObj' = [AbsObj EXCEPT ![i] = View(o)]
BY DEF AbsObj, View

(* A step that leaves the CRD, the SVMs and the edit budget alone is a    *)
(* stutter of SVMStore.                                                    *)
LEMMA StoreStutter ==
    ASSUME crd' = crd, svm' = svm, editBudget' = editBudget
    PROVE  UNCHANGED Store!vars
BY DEF Store!vars, View

LEMMA StoreInit == Init => Store!Init
<1>1. View(AbsentObj) = Store!Absent
  BY DEF View, AbsentObj, Store!Absent
<1>2. QED
  BY <1>1 DEF Init, Store!Init, AbsObj, Files, Store!Files

LEMMA StoreStep == TypeOK /\ RInv /\ [Next]_vars => [Store!Next]_Store!vars
<1> SUFFICES ASSUME TypeOK, RInv, [Next]_vars PROVE [Store!Next]_Store!vars
  OBVIOUS
<1> USE DEF storeVars, queueVars, workerVars, budgetVars
<1>0. View(AbsentObj) = Store!Absent
  BY DEF View, AbsentObj, Store!Absent
<1>1. CASE RemoveOne
  <2>1. CASE svm' = svm
    BY <1>1, <2>1, StoreStutter DEF RemoveOne, DeleteSVM
  <2>2. CASE svm' = [svm EXCEPT ![idx] = AbsentObj]
    <3>1. AbsObj' = [AbsObj EXCEPT ![idx] = Store!Absent]
      BY <2>2, <1>0, ViewExcept DEF TypeOK
    <3>2. Store!Delete(idx)
      BY <1>1, <3>1 DEF RemoveOne, DeleteSVM, Store!Delete, AbsObj
    <3>3. idx \in Store!Files
      BY DEF TypeOK, Files, Store!Files
    <3>4. QED
      BY <3>2, <3>3 DEF Store!Next
  <2>3. QED
    BY <1>1, <2>1, <2>2 DEF RemoveOne, DeleteSVM
<1>2. CASE ApplyCreate
  <2>1. CASE svm' = svm
    BY <1>2, <2>1, StoreStutter DEF ApplyCreate
  <2>2. CASE /\ crd /\ ~svm[idx].exists
             /\ svm' = [svm EXCEPT ![idx] = [exists |-> TRUE, spec |-> Desired,
                                             meta |-> TRUE, rv |-> rev + 1]]
    <3>1. AbsObj' = [AbsObj EXCEPT ![idx] = Store!Required]
      BY <2>2, ViewExcept DEF TypeOK, View, Store!Required
    <3>2. Store!Create(idx)
      BY <1>2, <2>2, <3>1 DEF ApplyCreate, Store!Create, AbsObj, View, TypeOK
    <3>3. idx \in Store!Files
      BY DEF TypeOK, Files, Store!Files
    <3>4. QED
      BY <3>2, <3>3 DEF Store!Next
  <2>3. QED
    BY <1>2, <2>1, <2>2 DEF ApplyCreate
<1>3. CASE ApplyUpdate
  <2>1. CASE svm' = svm
    BY <1>3, <2>1, StoreStutter DEF ApplyUpdate
  <2>2. CASE /\ svm[idx].exists /\ svm[idx].rv = copy.rv
             /\ svm' = [svm EXCEPT ![idx] = [copy EXCEPT !.rv = rev + 1]]
    <3>1. copy = Merged(svm[idx]) /\ svm[idx] \in Obj
      BY <1>3, <2>2 DEF RInv, ApplyUpdate, TypeOK
    <3>7. copy \in Obj
      BY DEF TypeOK
    <3>8. copy.exists = svm[idx].exists /\ copy.spec = svm[idx].spec
      BY <3>1 DEF Merged, Obj
    <3>9. View([copy EXCEPT !.rv = rev + 1])
            = [exists |-> copy.exists, spec |-> copy.spec, meta |-> copy.meta]
      BY <3>7 DEF View, Obj
    <3>10. copy.meta = TRUE
      BY <3>1 DEF Merged, Obj
    <3>2. View([copy EXCEPT !.rv = rev + 1])
            = [exists |-> TRUE, spec |-> AbsObj[idx].spec, meta |-> TRUE]
      BY <2>2, <3>8, <3>9, <3>10 DEF AbsObj, View, TypeOK
    <3>3. AbsObj' = [AbsObj EXCEPT ![idx] = [exists |-> TRUE,
                                             spec |-> AbsObj[idx].spec,
                                             meta |-> TRUE]]
      BY <2>2, <3>2, ViewExcept DEF TypeOK
    <3>4. Store!MergeMeta(idx)
      BY <1>3, <2>2, <3>3 DEF ApplyUpdate, Store!MergeMeta, AbsObj, View, TypeOK
    <3>5. idx \in Store!Files
      BY DEF TypeOK, Files, Store!Files
    <3>6. QED
      BY <3>4, <3>5 DEF Store!Next
  <2>3. QED
    BY <1>3, <2>1, <2>2 DEF ApplyUpdate
<1>4. CASE InstallCRD
  BY <1>4 DEF InstallCRD, Store!InstallCRD, Store!Next, Store!vars, View
<1>5. CASE RemoveCRD
  <2>1. AbsObj' = [f \in Files |-> Store!Absent]
    BY <1>5, <1>0 DEF RemoveCRD, AbsObj
  <2>2. Store!RemoveCRD
    BY <1>5, <2>1 DEF RemoveCRD, Store!RemoveCRD, AbsObj, Files, Store!Files
  <2>3. QED
    BY <2>2 DEF Store!Next
<1>6. ASSUME NEW f \in Files, NEW sp \in Specs, NEW m \in BOOLEAN,
             EditSVM(f, sp, m)
      PROVE [Store!Next]_Store!vars
  <2>1. AbsObj' = [AbsObj EXCEPT ![f] = [exists |-> TRUE, spec |-> sp, meta |-> m]]
    BY <1>6, ViewExcept DEF EditSVM, TypeOK, View
  <2>2. Store!Edit(f, sp, m)
    BY <1>6, <2>1 DEF EditSVM, Store!Edit, AbsObj, View, TypeOK
  <2>3. f \in Store!Files
    BY DEF Files, Store!Files
  <2>4. QED
    BY <2>2, <2>3 DEF Store!Next
<1>7. CASE UNCHANGED <<crd, svm, editBudget>>
  BY <1>7, StoreStutter
<1>8. QED
  <2>1. ASSUME NEW k \in Keys,
               \/ SyncStart(k) \/ TimerFires(k) \/ InformerSync(k)
               \/ CreateCM(k) \/ MarkDeleting(k) \/ RemoveFinalizer(k)
               \/ \E b \in BOOLEAN : SetApplied(k, b)
        PROVE UNCHANGED <<crd, svm, editBudget>>
    BY <2>1 DEF SyncStart, TimerFires, InformerSync, CreateCM, MarkDeleting,
                RemoveFinalizer, SetApplied
  <2>2. ApplyGet \/ UNCHANGED vars => UNCHANGED <<crd, svm, editBudget>>
    BY DEF ApplyGet, vars
  <2>3. QED
    BY <1>1, <1>2, <1>3, <1>4, <1>5, <1>6, <1>7, <2>1, <2>2
       DEF Next, Worker, Environment, Queue

(* The controller implements SVMStore (StoreRefinement, checked by the run *)
(* migration_core): its Get/Update pair never loses a concurrent edit, and *)
(* it creates SVMs only from the manifest and only while the CRD exists.  *)
THEOREM Refinement == Spec => StoreRefinement
<1>1. Spec => [](TypeOK /\ RInv)
  <2>1. Init => TypeOK /\ RInv
    BY InitType, RInvInit
  <2>2. TypeOK /\ RInv /\ [Next]_vars => (TypeOK /\ RInv)'
    BY TypeStep, RInvStep
  <2>3. QED
    BY <2>1, <2>2, PTL DEF Spec
<1>2. QED
  BY <1>1, StoreInit, StoreStep, PTL DEF Spec, StoreRefinement, Store!Spec

=============================================================================
