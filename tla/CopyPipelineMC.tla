--------------------------- MODULE CopyPipelineMC ---------------------------
(***************************************************************************)
(* Instance of CopyPipeline for TLC.  The third row is as large as two, so *)
(* that batches of at most two bytes are ended by rows, by a single row    *)
(* and, at the end of the cursor, before they are full.                    *)
(***************************************************************************)
EXTENDS CopyPipeline
MCRowBytes == [r \in Rows |-> IF r = 3 THEN 2 ELSE 1]
=============================================================================
