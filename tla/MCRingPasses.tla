---------------------------- MODULE MCRingPasses ----------------------------
(* RingPasses on two to four ranks: an attention layer, forward and         *)
(* backward, and the query ring of DFlash.                                  *)
EXTENDS RingPasses

Sizes == 2 .. 4
Layers == {<<"forward", "backward">>, <<"query", "reduce">>}
=============================================================================
