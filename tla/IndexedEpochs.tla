---------------------------- MODULE IndexedEpochs ----------------------------
(***************************************************************************)
(* The indexed supervised source: an epoch is laid out as global batches   *)
(* of samples of one shape, each rank of a data-parallel group keeps its   *)
(* own cursors over that layout and takes its slice of every batch, and    *)
(* checkpoints keep the cursors only.  The layout is rebuilt from the seed *)
(* and the epoch number whenever it is needed.                             *)
(*                                                                         *)
(* What torch.randperm returns is arbitrary but depends on seed + epoch    *)
(* alone: layouts remembers the layout of every epoch that any rank of any *)
(* launch has built, and a second construction finds the same.             *)
(***************************************************************************)
EXTENDS Integers, Sequences, FiniteSets, SequencesExt

CONSTANTS
  Setups,      \* the configurations, with their dataset, a run may have
  MaxStep,     \* bound: optimizer steps of the run
  MaxEpoch,    \* bound: epochs laid out
  MaxLaunch    \* bound: launches of the job

\* samples       per sample: length, start of its supervision, group
\* batchSize, replicas, accum   batch_size, data_parallel_size,
\*               gradient_accumulation_steps
\* unit          optimizer_step_unit
\* shuffle, grouped   shuffle; whether the dataset has group ids
\* byStart       group_by_supervision_start
\* block, maxLength, minLength, context, blocks   what makes a sample eligible
ASSUME SetupAssumption ==
  \A s \in Setups :
    /\ s.unit \in {"microbatch", "trajectory"}
    /\ {s.shuffle, s.grouped, s.byStart} \subseteq BOOLEAN
    /\ {s.batchSize, s.replicas, s.accum, s.block, s.maxLength, s.context, s.blocks}
         \subseteq Nat \ {0}
    /\ s.minLength \in Nat
    /\ s.samples \in Seq([length : Nat, start : Nat, group : Int])
ASSUME BoundAssumption == {MaxStep, MaxEpoch, MaxLaunch} \subseteq Nat \ {0}

VARIABLES
  setup,         \* the configuration of the run
  layouts,       \* the layout of each epoch built so far, the first at index 1
  epoch,         \* per rank: epoch
  batchCursor,   \* per rank: batch_cursor
  stepCursor,    \* per rank: optimizer_step_cursor
  used,          \* per rank: the microbatches of each optimizer step taken
  error,         \* per rank: the exception that ended it, or "none"
  saved,         \* newest checkpoint: step and, per rank, the three cursors
  launch

cursors == <<epoch, batchCursor, stepCursor>>
vars == <<setup, layouts, cursors, used, error, saved, launch>>

DPRanks == 0 .. setup.replicas - 1
GlobalBatch == setup.batchSize * setup.replicas

-----------------------------------------------------------------------------
(* Which samples take part, and how an epoch is laid out.                  *)

Larger(a, b) == IF a < b THEN b ELSE a

Eligible(s) ==
  LET minimum == Larger(s.blocks * s.block, s.minLength)
  IN {i \in DOMAIN s.samples :
        LET length == s.samples[i].length
        IN /\ length <= s.maxLength
           /\ length % s.block = 0
           /\ length >= minimum
           /\ s.context > 1 /\ s.blocks = 1 => length % s.context = 0}

Group(s, i) == s.samples[i].group
Groups(s) == {Group(s, i) : i \in DOMAIN s.samples}

\* Samples in the order of the dataset, groups in the order of their numbers.
Ascending(S) ==
  [i \in 1 .. Cardinality(S) |-> CHOOSE x \in S : Cardinality({y \in S : y < x}) = i - 1]

Turns(s, g) == Ascending({i \in Eligible(s) : Group(s, i) = g})

\* A group all of whose turns are eligible or none: the trajectory unit
\* refuses a dataset with any other.
PartialGroups(s) ==
  {g \in Groups(s) : \E i \in DOMAIN s.samples : Group(s, i) = g /\ i \notin Eligible(s)}

\* Mutant: buckets by the start of supervision alone.
KeyOfStart(s, i) == <<s.samples[i].start>>

Key(s, i) == IF s.byStart THEN <<s.samples[i].length, s.samples[i].start>>
                          ELSE <<s.samples[i].length>>
KeyBefore(k, l) == \/ k[1] < l[1]
                   \/ k[1] = l[1] /\ Len(k) = 2 /\ k[2] < l[2]

\* Rounds over the groups: nobody's turn n + 1 before everybody's turn n.
TurnNumber(s, order, p) == Cardinality({q \in 1 .. p : Group(s, order[q]) = Group(s, order[p])})
InRounds(s, order) ==
  \A p \in 1 .. Len(order) - 1 : TurnNumber(s, order, p) <= TurnNumber(s, order, p + 1)

\* Sorted by shape, the samples of one shape in the order of the dataset.
ByShape(s, order) ==
  \A p, q \in DOMAIN order : p < q =>
    \/ KeyBefore(Key(s, order[p]), Key(s, order[q]))
    \/ Key(s, order[p]) = Key(s, order[q]) /\ order[p] < order[q]

\* The orders in which samples may reach the buckets.  Cutting each permuted
\* bucket into batches and permuting the batches gives what filling the buckets
\* in an arbitrary order of all samples gives.
Orders(s) ==
  {o \in SetToSeqs(Eligible(s)) :
     IF s.shuffle THEN s.grouped => InRounds(s, o) ELSE ByShape(s, o)}

\* A bucket per shape; full ones become batches, what remains is dropped.
Add(s, size, state, i) ==
  LET bucket == Append(state.pending[Key(s, i)], i)
      full == Len(bucket) = size
  IN [batches |-> IF full THEN Append(state.batches, bucket) ELSE state.batches,
      pending |-> [state.pending EXCEPT ![Key(s, i)] = IF full THEN <<>> ELSE bucket]]

Fill(s, size, order) ==
  LET start == [batches |-> <<>>, pending |-> [k \in {Key(s, i) : i \in Eligible(s)} |-> <<>>]]
      filled[n \in 0 .. Len(order)] ==
        IF n = 0 THEN start ELSE Add(s, size, filled[n - 1], order[n])
  IN filled[Len(order)].batches

BatchLayouts(s) ==
  {[batches |-> Fill(s, s.batchSize * s.replicas, order), sizes |-> <<>>] : order \in Orders(s)}

\* One optimizer step per group: all its turns, in the order of the dataset.
TrajectoryLayouts(s) ==
  LET orders == IF s.shuffle THEN SetToSeqs(Groups(s)) ELSE {Ascending(Groups(s))}
      Singles(turns) == [n \in DOMAIN turns |-> <<turns[n]>>]
  IN {[batches |-> FlattenSeq([n \in DOMAIN order |-> Singles(Turns(s, order[n]))]),
       sizes |-> [n \in DOMAIN order |-> Len(Turns(s, order[n]))]] : order \in orders}

EpochLayouts(s) == IF s.unit = "trajectory" THEN TrajectoryLayouts(s) ELSE BatchLayouts(s)

\* What the constructor accepts, and the first optimizer step: that trajectory
\* steps take one microbatch at a time is checked there.
Accepts(s) ==
  /\ Eligible(s) # {}
  /\ s.unit = "trajectory" =>
       /\ s.grouped /\ s.batchSize = 1 /\ s.replicas = 1 /\ s.accum = 1
       /\ PartialGroups(s) = {}
  /\ \A layout \in EpochLayouts(s) : layout.batches # <<>>

Layout(e) == layouts[e + 1]

\* The layout of epoch e is there afterwards.
Build(e) ==
  IF e < Len(layouts) THEN UNCHANGED layouts
  ELSE \E layout \in EpochLayouts(setup) : layouts' = Append(layouts, layout)

-----------------------------------------------------------------------------
(* Taking the microbatches of one optimizer step.                          *)

\* Mutant: the rank's offset is counted in batches, not in samples.
SliceByRank(r, batch) == SubSeq(batch, r + 1, r + setup.batchSize)

LocalSlice(r, batch) == SubSeq(batch, r * setup.batchSize + 1, (r + 1) * setup.batchSize)

Moved(at, count) == at + count

\* Rank r takes count batches from position at of epoch e; an index past the
\* layout raises.
Take(r, e, at, count, step) ==
  LET batches == layouts'[e + 1].batches IN
  IF at + count > Len(batches)
  THEN /\ error' = [error EXCEPT ![r] = "IndexError"]
       /\ UNCHANGED <<cursors, used>>
  ELSE /\ epoch' = [epoch EXCEPT ![r] = e]
       /\ batchCursor' = [batchCursor EXCEPT ![r] = Moved(at, count)]
       /\ stepCursor' = [stepCursor EXCEPT ![r] = step]
       /\ used' = [used EXCEPT ![r] = Append(@,
            [epoch |-> e, batches |-> [n \in 1 .. count |-> LocalSlice(r, batches[at + n])]])]
       /\ UNCHANGED error

\* The gradient reduction of a step needs every rank.
MayStep(r) ==
  /\ error[r] = "none"
  /\ Len(used[r]) < MaxStep
  /\ \A q \in DPRanks : Len(used[q]) >= Len(used[r])

\* Mutant: the rest of an epoch is dropped although a step fits.
EpochEndsEarly(r) == batchCursor[r] + setup.accum >= Len(Layout(epoch[r]).batches)

\* What is left of the epoch is less than an optimizer step.
EpochEnds(r) == batchCursor[r] + setup.accum > Len(Layout(epoch[r]).batches)

\* Mutant: the next epoch starts only when nothing is left.
TakeToTheEnd(r) ==
  /\ setup.unit = "microbatch" /\ MayStep(r)
  /\ setup.accum <= Len(Layout(epoch[r]).batches)
  /\ IF batchCursor[r] = Len(Layout(epoch[r]).batches)
     THEN /\ epoch[r] + 1 < MaxEpoch
          /\ Build(epoch[r] + 1)
          /\ Take(r, epoch[r] + 1, 0, setup.accum, 0)
     ELSE /\ UNCHANGED layouts
          /\ Take(r, epoch[r], batchCursor[r], setup.accum, stepCursor[r])
  /\ UNCHANGED <<setup, saved, launch>>

TakeBatches(r) ==
  /\ setup.unit = "microbatch" /\ MayStep(r)
  /\ setup.accum <= Len(Layout(epoch[r]).batches)
  /\ IF EpochEnds(r)
     THEN /\ epoch[r] + 1 < MaxEpoch
          /\ Build(epoch[r] + 1)
          /\ Take(r, epoch[r] + 1, 0, setup.accum, 0)
     ELSE /\ UNCHANGED layouts
          /\ Take(r, epoch[r], batchCursor[r], setup.accum, stepCursor[r])
  /\ UNCHANGED <<setup, saved, launch>>

StepDoesNotFit(r) ==
  /\ setup.unit = "microbatch" /\ MayStep(r)
  /\ setup.accum > Len(Layout(epoch[r]).batches)
  /\ error' = [error EXCEPT ![r] = "ValueError"]
  /\ UNCHANGED <<setup, layouts, cursors, used, saved, launch>>

TakeTrajectory(r) ==
  LET Step(e, at, n) == Take(r, e, at, layouts'[e + 1].sizes[n + 1], n + 1) IN
  /\ setup.unit = "trajectory" /\ MayStep(r)
  /\ IF stepCursor[r] >= Len(Layout(epoch[r]).sizes)
     THEN /\ epoch[r] + 1 < MaxEpoch
          /\ Build(epoch[r] + 1)
          /\ Step(epoch[r] + 1, 0, 0)
     ELSE /\ UNCHANGED layouts
          /\ Step(epoch[r], batchCursor[r], stepCursor[r])
  /\ UNCHANGED <<setup, saved, launch>>

-----------------------------------------------------------------------------
(* Checkpoints.                                                            *)

\* state_dict of every rank, between two optimizer steps.
Save ==
  /\ \A r \in DPRanks : error[r] = "none" /\ Len(used[r]) = Len(used[0])
  /\ saved' = [step |-> Len(used[0]), epoch |-> epoch, batch |-> batchCursor,
               group |-> stepCursor]
  /\ UNCHANGED <<setup, layouts, cursors, used, error, launch>>

SumOf(sizes, n) ==
  LET sum[m \in 0 .. Len(sizes)] == IF m = 0 THEN 0 ELSE sum[m - 1] + sizes[m]
  IN sum[n]

\* The checks of load_state_dict.
Refused(r) ==
  LET layout == Layout(saved.epoch[r]) IN
  \/ saved.batch[r] > Len(layout.batches)
  \/ /\ setup.unit = "trajectory"
     /\ \/ saved.group[r] > Len(layout.sizes)
        \/ saved.batch[r] # SumOf(layout.sizes, saved.group[r])

\* Mutant: the epoch is not restored.
RestartInFirstEpoch ==
  /\ launch < MaxLaunch
  /\ launch' = launch + 1
  /\ epoch' = [r \in DPRanks |-> 0]
  /\ batchCursor' = saved.batch /\ stepCursor' = saved.group
  /\ used' = [r \in DPRanks |-> SubSeq(used[r], 1, saved.step)]
  /\ error' = [r \in DPRanks |-> IF Refused(r) THEN "refused" ELSE "none"]
  /\ UNCHANGED <<setup, layouts, saved>>

\* The job dies at any point and is launched again.
Restart ==
  /\ launch < MaxLaunch
  /\ launch' = launch + 1
  /\ epoch' = saved.epoch /\ batchCursor' = saved.batch /\ stepCursor' = saved.group
  /\ used' = [r \in DPRanks |-> SubSeq(used[r], 1, saved.step)]
  /\ error' = [r \in DPRanks |-> IF Refused(r) THEN "refused" ELSE "none"]
  /\ UNCHANGED <<setup, layouts, saved>>

\* A launch without a checkpoint starts with new cursors.
Init ==
  /\ setup \in {s \in Setups : Accepts(s)}
  /\ \E layout \in EpochLayouts(setup) : layouts = <<layout>>
  /\ epoch = [r \in DPRanks |-> 0]
  /\ batchCursor = [r \in DPRanks |-> 0]
  /\ stepCursor = [r \in DPRanks |-> 0]
  /\ used = [r \in DPRanks |-> <<>>]
  /\ error = [r \in DPRanks |-> "none"]
  /\ saved = [step |-> 0, epoch |-> epoch, batch |-> batchCursor, group |-> stepCursor]
  /\ launch = 1

Next ==
  \/ \E r \in DPRanks : TakeBatches(r) \/ StepDoesNotFit(r) \/ TakeTrajectory(r)
  \/ Save
  \/ Restart

Spec == Init /\ [][Next]_vars

-----------------------------------------------------------------------------
(* Properties.                                                             *)

\* The state has its types, and a cursor lies in its layout.
TypeOK ==
  /\ setup \in Setups
  /\ Len(layouts) \in 1 .. MaxEpoch
  /\ epoch \in [DPRanks -> 0 .. Len(layouts) - 1]
  /\ \A r \in DPRanks :
       /\ batchCursor[r] \in 0 .. Len(Layout(epoch[r]).batches)
       /\ stepCursor[r] \in 0 .. Len(Layout(epoch[r]).sizes)
       /\ Len(used[r]) \in 0 .. MaxStep
       /\ error[r] \in {"none", "ValueError", "IndexError", "refused"}
  /\ saved.step \in 0 .. MaxStep
  /\ launch \in 1 .. MaxLaunch

\* What step k of an uninterrupted run uses: every epoch holds the same number
\* of steps, and a step lies in one epoch.
StepsOf(e) ==
  IF setup.unit = "trajectory" THEN Cardinality(Groups(setup))
  ELSE Len(Layout(e).batches) \div setup.accum
EpochOf(k) == (k - 1) \div StepsOf(0)
GlobalStep(k) ==
  LET e == EpochOf(k)
      n == (k - 1) % StepsOf(0)
      first == IF setup.unit = "trajectory" THEN SumOf(Layout(e).sizes, n) ELSE n * setup.accum
      count == IF setup.unit = "trajectory" THEN Layout(e).sizes[n + 1] ELSE setup.accum
  IN SubSeq(Layout(e).batches, first + 1, first + count)

\* The microbatches of a step depend on the number of the step alone: neither
\* a restart nor the end of an epoch skips, repeats or reorders any, and all
\* ranks are in the same step of the same epoch.
StepDeterminesBatches ==
  \A r \in DPRanks : \A k \in DOMAIN used[r] :
    /\ used[r][k].epoch = EpochOf(k)
    /\ used[r][k].batches =
         [n \in DOMAIN GlobalStep(k) |->
            [i \in 1 .. setup.batchSize |-> GlobalStep(k)[n][r * setup.batchSize + i]]]

\* The places (step, microbatch, row) at which rank r has used a sample.
Places(r) ==
  {p \in (1 .. MaxStep) \X (1 .. Len(setup.samples)) \X (1 .. setup.batchSize) :
     p[1] <= Len(used[r]) /\ p[2] <= Len(used[r][p[1]].batches)}
SampleAt(r, p) == used[r][p[1]].batches[p[2]][p[3]]

\* No sample is used twice in an epoch, by one rank or by two, whatever
\* restarts lie between the uses.
OncePerEpoch ==
  \A r, q \in DPRanks : \A p \in Places(r), o \in Places(q) :
    /\ SampleAt(r, p) = SampleAt(q, o)
    /\ used[r][p[1]].epoch = used[q][o[1]].epoch
    => r = q /\ p = o

\* The ranks of a step run the same tensor shape: their slices of a microbatch
\* are full and of one length, for the collectives inside the model.
RanksShareShapes ==
  \A r, q \in DPRanks : \A k \in DOMAIN used[r] \cap DOMAIN used[q] :
    /\ Len(used[r][k].batches) = Len(used[q][k].batches)
    /\ \A n \in DOMAIN used[r][k].batches :
         LET mine == used[r][k].batches[n]
             theirs == used[q][k].batches[n]
         IN /\ Len(mine) = setup.batchSize /\ Len(theirs) = setup.batchSize
            /\ \A i, j \in 1 .. setup.batchSize :
                 setup.samples[mine[i]].length = setup.samples[theirs[j]].length

\* A source that has served one step serves them for ever: it neither runs out
\* of batches in a later epoch, nor refuses the cursors it saved itself.
ServesForEver ==
  \A r \in DPRanks : error[r] # "none" => error[r] = "ValueError" /\ used[r] = <<>>

\* A rank leaves an epoch only when less than one step of it is left, and
\* with trajectory steps when nothing is.
EpochIsUsedUp ==
  [][\A r \in DPRanks : epoch'[r] > epoch[r] /\ launch' = launch =>
       /\ Len(Layout(epoch[r]).batches) - batchCursor[r]
            < (IF setup.unit = "trajectory" THEN 1 ELSE setup.accum)
       /\ setup.unit = "trajectory" =>
            UNION {ToSet(Layout(epoch[r]).batches[n]) : n \in 1 .. batchCursor[r]} = Eligible(setup)]_vars
=============================================================================
