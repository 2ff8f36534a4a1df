-------------------------- MODULE MCPackedPrefetch --------------------------
(* PackedPrefetch on short streams: seven tokens dealt three at a time wrap *)
(* at every offset, and two tokens are shorter than a batch.  Either may be *)
(* read by the train loop or by a consumer that never synchronises.         *)
EXTENDS PackedPrefetch

Streams ==
  [length : {7}, needed : {3}, replicas : {2}, replica : {1}, stepSync : BOOLEAN]
    \union
  [length : {2}, needed : {3}, replicas : {3}, replica : {2}, stepSync : BOOLEAN]
=============================================================================
