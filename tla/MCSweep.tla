------------------------------ MODULE MCSweep ------------------------------
(***************************************************************************)
(* The instances of MCPipeline with three submissions, for the retries of  *)
(* those that fail at every attempt.                                       *)
(***************************************************************************)
EXTENDS SweepFairness, MCPipeline

=============================================================================
