----------------------------- MODULE MCPipeline -----------------------------
(* Instances of Pipeline for TLC.                                           *)
EXTENDS Pipeline
=============================================================================
