---------------------------- MODULE MCReviewJobs -----------------------------
(***************************************************************************)
(* Instances of ReviewJobs for TLC.  Node names, jobs and requests are     *)
(* only compared, so permuting them changes no safety property.            *)
(***************************************************************************)
EXTENDS ReviewJobsRefinement, TLC

Symmetry == Permutations(Nodes) \cup Permutations(Requests) \cup Permutations(Jobs)
=============================================================================
