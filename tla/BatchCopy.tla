----------------------------- MODULE BatchCopy -----------------------------
(***************************************************************************)
(* What one call of CopyData promises: the rows of the source appear in    *)
(* the target in the source's order, some at a time, each once; the call   *)
(* returns one result and commits nothing afterwards; it returns no error  *)
(* only when every row is there.  DataMigration takes this as the meaning  *)
(* of its actions Open to CopyDone.                                        *)
(***************************************************************************)
EXTENDS Integers
CONSTANT NumRows
VARIABLES target, outcome
batchCopyVars == <<target, outcome>>

Prefix(n) == [r \in 1..NumRows |-> IF r <= n THEN 1 ELSE 0]

CopyInit == target = Prefix(0) /\ outcome = "none"

Commit == /\ outcome = "none"
          /\ \E n \in 0..NumRows : \E m \in n + 1 .. NumRows :
               target = Prefix(n) /\ target' = Prefix(m)
          /\ UNCHANGED outcome

Return == /\ outcome = "none"
          /\ \/ outcome' = "ok" /\ target = Prefix(NumRows)
             \/ outcome' = "error"
          /\ UNCHANGED target

CopySpec == CopyInit /\ [][Commit \/ Return]_batchCopyVars
=============================================================================
