-------------------------- MODULE DataMigrationMC --------------------------
(***************************************************************************)
(* Instances of DataMigration for TLC. Table a is small (one task), table  *)
(* b is partitioned and reloaded in truncate_partition mode, table c is    *)
(* split in chunks and limited to one worker at a time.                    *)
(***************************************************************************)
EXTENDS DataMigration, TLC

CONSTANTS a, b, c, p1, p2, none

MCTable == {a, b, c}
MCPartition == {p1, p2}

(* Job order is the interleaved order of the plan: a, b:p1, c:0, c:1. *)
MCTableOf == <<a, b, c, c>>
MCPartOf == <<none, p1, none, none>>
MCChunked == {3, 4}

(* Rows 1-5 come from the source. Row 6 is an older load of partition p1,   *)
(* row 7 an older load of partition p2, which this run does not migrate.    *)
MCRow == 1..7
MCRowTable == <<a, a, b, c, c, b, b>>
MCRowPart == <<none, none, p1, none, none, p1, p2>>
MCOld == {6, 7}
MCPlans == {<<{1, 2}, {3}, {4}, {5}>>}
MCMode == a :> "recreate" @@ b :> "truncate_partition" @@ c :> "truncate"
MCMaxParallel == a :> 0 @@ b :> 2 @@ c :> 1

(* The instance meets the conditions of the theorems. *)
ASSUME SeparateTasks /\ ReplacingModes /\ StablePlan

Symmetry == Permutations(Worker)
=============================================================================
