-------------------------- MODULE ProgressEventsMC --------------------------
(***************************************************************************)
(* Instances of ProgressEvents for TLC: two chunks of one partition and    *)
(* another partition of the same table, copied as a whole.                 *)
(***************************************************************************)
EXTENDS ProgressEvents, TLC

CONSTANTS a1, a2, b1, ga, gb, t1

MCGroupOf == (a1 :> ga) @@ (a2 :> ga) @@ (b1 :> gb)
Symmetric == Permutations(Worker) \cup Permutations({a1, a2})
MCTableOf == (ga :> t1) @@ (gb :> t1)
=============================================================================
