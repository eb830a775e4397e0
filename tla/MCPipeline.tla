----------------------------- MODULE MCPipeline -----------------------------
(***************************************************************************)
(* Pipeline on two sessions and two subjects: enough for two extractions   *)
(* to race for one subject and for one upload to land in the middle of the *)
(* other's pass.                                                           *)
(***************************************************************************)
EXTENDS Pipeline, TLC

PipelineSymmetry == Permutations(Sessions) \cup Permutations(Subjects)
=============================================================================
