-------------------------- MODULE MCRankCheckpoint --------------------------
(* RankCheckpoint on small instances, and the mutants of its actions.       *)
EXTENDS RankCheckpoint
=============================================================================
