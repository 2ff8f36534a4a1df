-------------------------- MODULE MCFeaturePrefetch --------------------------
(* FeaturePrefetch over five samples dealt by twos to two replicas, and over *)
(* one sample, which every batch repeats.                                    *)
EXTENDS FeaturePrefetch

Datasets ==
  {[samples |-> 5, batch |-> 2, replicas |-> 2, replica |-> 1],
   [samples |-> 1, batch |-> 2, replicas |-> 1, replica |-> 0]}
=============================================================================
