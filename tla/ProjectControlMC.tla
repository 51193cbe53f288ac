-------------------------- MODULE ProjectControlMC --------------------------
(***************************************************************************)
(* Instances of ProjectControl for TLC.                                    *)
(***************************************************************************)
EXTENDS ProjectControl
=============================================================================
