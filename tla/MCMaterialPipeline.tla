-------------------------- MODULE MCMaterialPipeline --------------------------
(***************************************************************************)
(* One material under concurrent calls, edits of its source file and any   *)
(* number of restarts.                                                     *)
(***************************************************************************)
EXTENDS MaterialPipeline

CONSTANTS m1, u1, u2

=============================================================================
