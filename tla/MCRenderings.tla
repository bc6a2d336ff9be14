---------------------------- MODULE MCRenderings ----------------------------
(***************************************************************************)
(* Renderings of the outcomes of the workload of MCBaseline.               *)
(***************************************************************************)
EXTENDS MCBaseline, Renderings
=============================================================================
