----------------------- MODULE MCModelOnlyCheckpoint -----------------------
(* ModelOnlyCheckpoint on two ranks; I/O may raise at every stage, or at    *)
(* every stage before retention.                                            *)
EXTENDS ModelOnlyCheckpoint

BeforePrune == Stages \ {"prune"}
=============================================================================
