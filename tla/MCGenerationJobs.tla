-------------------------- MODULE MCGenerationJobs --------------------------
(* GenerationJobs on small sets, for TLC.                                   *)
EXTENDS GenerationJobs, TLC

Symmetric == Permutations(Slots)
=============================================================================
