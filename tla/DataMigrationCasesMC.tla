----------------------- MODULE DataMigrationCasesMC -----------------------
(***************************************************************************)
(* A small instance of DataMigration outside the conditions under which    *)
(* the data phase is exact: a partitioned table whose partition p1 is      *)
(* copied as two sub-chunks.                                               *)
(***************************************************************************)
EXTENDS DataMigration, TLC

CONSTANTS t, p1, none

SubTableOf == <<t, t>>
SubPartOf == <<p1, p1>>
SubChunked == {1, 2}
Rows2Table == <<t, t>>
SubRowPart == <<p1, p1>>
ChunkPlans == {<<{1}, {2}>>}

Recreate == t :> "recreate"
NoLimit == t :> 0
=============================================================================
