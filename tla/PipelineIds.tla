----------------------------- MODULE PipelineIds ----------------------------
(* What the two pipeline stores keep apart.                                *)
EXTENDS Absent

CONSTANTS
  Pipelines,  \* pipeline ids (UUIDs, never used twice)
  Names,      \* pipeline names
  MaxVersion  \* bound: versions of a pipeline
=============================================================================
