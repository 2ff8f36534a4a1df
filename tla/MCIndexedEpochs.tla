--------------------------- MODULE MCIndexedEpochs ---------------------------
(* IndexedEpochs on datasets of four to six samples: two shapes dealt to two *)
(* replicas with and without rounds over the groups, accumulation that does  *)
(* not divide the epoch, and one optimizer step per group.                   *)
EXTENDS IndexedEpochs

Sample(length, start, group) == [length |-> length, start |-> start, group |-> group]

Plain == [samples |-> <<>>, batchSize |-> 1, replicas |-> 1, accum |-> 1,
          unit |-> "microbatch", shuffle |-> TRUE, grouped |-> FALSE, byStart |-> FALSE,
          block |-> 2, maxLength |-> 8, minLength |-> 0, context |-> 1, blocks |-> 1]

\* Two shapes, an odd sample of each left over, and samples that are too long,
\* not of whole blocks, or not divisible by the context size.
TwoShapes ==
  [Plain EXCEPT !.samples = <<Sample(4, 0, 1), Sample(10, 0, 1), Sample(8, 0, 2), Sample(4, 1, 2),
                              Sample(3, 0, 1), Sample(8, 0, 1), Sample(6, 0, 3), Sample(4, 2, 2)>>,
                !.replicas = 2, !.context = 4]
\* The same by rounds over the groups.
Rounds == [TwoShapes EXCEPT !.grouped = TRUE]
\* Rows of two samples with one length and one start of supervision.
Rows ==
  [Plain EXCEPT !.samples = <<Sample(4, 0, 1), Sample(4, 1, 1), Sample(4, 0, 1), Sample(4, 1, 1),
                              Sample(4, 0, 1), Sample(4, 0, 1)>>,
                !.batchSize = 2, !.byStart = TRUE, !.shuffle = FALSE, !.replicas = 1, !.blocks = 2]
\* Three batches, two to a step.
Accumulated == [Plain EXCEPT !.samples = <<Sample(4, 0, 1), Sample(4, 0, 1), Sample(4, 0, 1)>>,
                             !.accum = 2]
\* More batches to a step than an epoch has.
TooFew == [Accumulated EXCEPT !.accum = 4, !.shuffle = FALSE]
\* Four rows over two replicas, unshuffled.
Dealt == [Plain EXCEPT !.samples = [i \in 1 .. 5 |-> Sample(4, 0, 1)], !.shuffle = FALSE,
                       !.batchSize = 2, !.replicas = 2]
Trajectories ==
  [Plain EXCEPT !.samples = <<Sample(4, 0, 1), Sample(4, 0, 2), Sample(6, 0, 1), Sample(2, 0, 3)>>,
                !.grouped = TRUE, !.unit = "trajectory"]

SmallSetups == {TwoShapes, Rounds, Rows, Accumulated, TooFew, Dealt, Trajectories,
                [Trajectories EXCEPT !.shuffle = FALSE], [Trajectories EXCEPT !.minLength = 4]}
=============================================================================
