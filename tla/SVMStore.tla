------------------------------ MODULE SVMStore ------------------------------
(***************************************************************************)
(* What the migration controller promises about the StorageVersionMigration *)
(* objects, seen as atomic changes of the store with no worker, queue or    *)
(* resourceVersion.  The controller only ever                               *)
(*   - creates a missing object from the manifest while the CRD exists,     *)
(*   - deletes an object, or                                                *)
(*   - adds the manifest's metadata to the object as it is now, keeping     *)
(*     its current spec.                                                   *)
(* Everything else (installing or removing the CRD, editing an object) is   *)
(* done by other actors, at most Edits times in a behaviour.  In particular *)
(* the controller's Update never writes back a spec it read before another  *)
(* actor changed it.                                                        *)
(***************************************************************************)
EXTENDS Naturals

CONSTANTS NFiles, Specs, Desired, MaxEdits

VARIABLES crd, obj, edits

Files == 1..NFiles
Absent == [exists |-> FALSE, spec |-> Desired, meta |-> FALSE]
Required == [exists |-> TRUE, spec |-> Desired, meta |-> TRUE]

Init ==
    /\ crd \in BOOLEAN
    /\ obj = [f \in Files |-> Absent]
    /\ edits = MaxEdits

(* Controller steps. *)
Create(f) ==
    /\ crd
    /\ ~obj[f].exists
    /\ obj' = [obj EXCEPT ![f] = Required]
    /\ UNCHANGED <<crd, edits>>

Delete(f) ==
    /\ obj' = [obj EXCEPT ![f] = Absent]
    /\ UNCHANGED <<crd, edits>>

MergeMeta(f) ==
    /\ obj[f].exists
    /\ obj' = [obj EXCEPT ![f] = [exists |-> TRUE, spec |-> obj[f].spec,
                                  meta |-> TRUE]]
    /\ UNCHANGED <<crd, edits>>

(* Steps of other actors. *)
InstallCRD ==
    /\ ~crd
    /\ crd' = TRUE
    /\ UNCHANGED <<obj, edits>>

RemoveCRD ==
    /\ crd
    /\ edits > 0
    /\ edits' = edits - 1
    /\ crd' = FALSE
    /\ obj' = [f \in Files |-> Absent]

Edit(f, s, m) ==
    /\ obj[f].exists
    /\ edits > 0
    /\ <<s, m>> # <<obj[f].spec, obj[f].meta>>
    /\ edits' = edits - 1
    /\ obj' = [obj EXCEPT ![f] = [exists |-> TRUE, spec |-> s, meta |-> m]]
    /\ UNCHANGED crd

Next ==
    \/ \E f \in Files : Create(f) \/ Delete(f) \/ MergeMeta(f)
    \/ InstallCRD
    \/ RemoveCRD
    \/ \E f \in Files, s \in Specs, m \in BOOLEAN : Edit(f, s, m)

vars == <<crd, obj, edits>>

Spec == Init /\ [][Next]_vars

=============================================================================
