----------------------- MODULE MC_MigrationController -----------------------
(* Model-checking instance: one ClusterManager, the two migration request   *)
(* files of migrationRequestFiles, two spec values.                        *)
EXTENDS MigrationControllerProofs

CONSTANTS k1, k2, s1, s2

MCKeys == {k1}
MCTwoKeys == {k1, k2}
MCSpecs == {s1, s2}
=============================================================================
