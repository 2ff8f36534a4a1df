--------------------------- MODULE MCCleanContext ---------------------------
(* Every schedule of up to 13 blocks on up to six workers, and the layers of  *)
(* a few layouts whose chunks and blocks do not line up.                      *)
EXTENDS CleanContext

Counts == 1 .. 13
SmallSizes == 1 .. 6

Layout(seq, block, cp, bp) == [seq |-> seq, block |-> block, cp |-> cp, bp |-> bp]
With(l, layout, transport, pass, window, start) ==
  [seq |-> l.seq, block |-> l.block, cp |-> l.cp, bp |-> l.bp, layout |-> layout,
   transport |-> transport, pass |-> pass, window |-> window, start |-> start,
   packed |-> FALSE]

\* Chunks inside blocks, blocks inside chunks, shards of unequal length, two
\* rings, and more than half as many workers as blocks.
Fused == {Layout(12, 4, 2, 2), Layout(15, 3, 2, 2), Layout(12, 2, 3, 3),
          Layout(10, 2, 2, 4), Layout(12, 1, 4, 4), Layout(18, 3, 3, 6)}
PureCP == {Layout(12, 4, 2, 1), Layout(6, 2, 2, 1), Layout(12, 3, 3, 1), Layout(8, 4, 4, 1)}

\* The layers that have a packed backward launch for heads of 256.
Packed(S) == {[l EXCEPT !.packed = TRUE] : l \in S}

FusedLayers ==
  {With(l, layout, transport, pass, 0, 0) : l \in Fused, layout \in {"dual_chunk", "contiguous"},
     transport \in {"collective", "streaming"}, pass \in {"packed", "clean", "noisy"}}
  \union {With(l, "dual_chunk", "windowed", pass, window, 0) :
            l \in Fused, pass \in {"clean", "noisy"}, window \in {1, 2, 5}}
PureLayers ==
  {With(l, "contiguous", "pure", pass, window, 0) :
     l \in PureCP, pass \in {"clean", "noisy"}, window \in {0, 3}}
  \union {With(l, "contiguous", "full", "packed", 0, 0) : l \in PureCP}

\* A response of one block less than there are workers, so that the last
\* worker's block is all padding.
Responses ==
  {With(l, "dual_chunk", "collective", "noisy", 0, l.block) :
     l \in {Layout(8, 4, 2, 2), Layout(8, 2, 2, 4), Layout(9, 3, 3, 3)}}

AllLayers ==
  FusedLayers \union PureLayers \union Responses
  \union Packed({l \in FusedLayers : l.transport = "collective" /\ l.layout = "dual_chunk"}
                \union {l \in PureLayers : l.transport = "pure"} \union Responses)

\* Where EveryRowSeesItsContext and GradientsComeHome are proved.
ASSUME AllGathered == \A l \in AllLayers : ResponsesGathered(l)

\* A sliding-window layer denoising a response behind a prompt of one token.
ResponseLayers == {With(Layout(10, 2, 2, 4), "dual_chunk", "windowed", "noisy", 2, 1)}
=============================================================================
