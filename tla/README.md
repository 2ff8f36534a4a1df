# Turbo-dLLM in TLA+

A verification development for Turbo-dLLM (`dllm_parallel/`), a trainer for
block-diffusion language models with block, context, data, tensor and expert
parallelism. It models the parts of the program whose correctness depends on the order
of things (ranks, threads, CUDA streams, crashes and relaunches) and the discrete
algorithms those parts rely on. It does not model tensor arithmetic.

Paths below are relative to the repository; `T` is
`dllm_parallel/training/block_diffusion_trainer.py`, `CK` is
`dllm_parallel/core/checkpoint/__init__.py` and `CPA` is
`dllm_parallel/core/attention/context_parallel_attention.py`.

## 1. Inventory

| Component | State | Operations | Interacts with |
|---|---|---|---|
| Training loop (`T`) | step, list of checkpoint handles, saved duration fractions | train step, save, evaluate, summarise, finally clause | everything below; all ranks run it in lock step through collectives |
| Rank-local checkpoints (`core/checkpoint/`, `training/checkpointing.py`) | a directory of tags with one shard per rank, error files, `metadata.json` | save inline or by a writer thread, finalise between two barriers, publish, prune, resume | loop (handles), launcher (relaunch), every rank (barriers, files) |
| Model-only checkpoints (`CK:477`) | one directory per tag, a temporary directory, `metadata.json` | ten stages on rank 0, clean-up, broadcast of the verdict | loop, retention |
| Packed-token source (`core/data.py:248`) | cursor, two pinned and two device buffers, four events, slot flags | next batch, prefetch, save and restore | loop, evaluation, `skip`, checkpoint |
| Indexed supervised source (`core/data.py:610`) | epoch, layout of the epoch, batch and step cursors | next batch(es), next optimizer step, advance epoch, save and restore | loop, checkpoint |
| Blended source (`core/data.py:1277`) | generator, sources | draw, save and restore | packed sources |
| DFlash feature pipeline (`core/models/backbones/dflash/data.py`) | cursor, a device batch (future or value), a host future | take, advance, reset, restore | a worker thread, a copy stream |
| Data preparation (`data/`) | files | tokenise, pack, write | none at run time |
| Block schedule (`core/schedules/block.py`) | none | build, validate | attention, masks, objectives |
| Topology and groups (`core/parallel/topology.py`, `groups.py`) | none / process groups | assign ranks, create groups | every collective |
| Gradient synchronisation (`core/parallel/grad_sync.py`) | none | choose group and scale, reduce | topology |
| Ring attention (`core/attention/context_parallel_attention.py`, `ring_transport.py`, `dflash_attention.py`) | communication buffers, requests, a communication stream | forward ring, backward ring, query ring, owner reduction | neighbours of the context ring, autograd |
| Clean context of a layer (`CPA`, `core/attention/layout.py`, `cp_backend.py`, `masks.py`) | caches of masks and plans | shard, gather, exchange or stream clean K/V, mask, send gradients back | block schedule, ring attention, the executors of the models |
| Kernels (`core/attention/*`, `core/kernels`) | compiled kernels | numerics | clean context |
| Tensor and expert parallelism (`core/parallel/tensor_parallel`, `expert`) | handles of external libraries | one collective per function | models |
| Optimizers (`core/optim`, `training/optimizer_setup.py`) | moments | step, clip, schedule | gradient synchronisation |
| Models, objectives, adapters | parameters, corruption generator | forward, loss | loop |
| Run specification, CLI, recipes | a configuration | parse, validate, start `torchrun` | loop |
| Profiling, metrics, failure markers, serving | logs | observe | none |

What makes them hard, and what makes them correct:

* **Checkpoints.** Ranks, writer threads and relaunches share a directory, and only rank
  0 publishes. Barriers travel on an anonymous CPU group, so one barrier more or less on
  one rank shifts every later pairing. Correct: what `metadata.json` names can be loaded
  at every instant; it moves forward only; every rank agrees on whether a save succeeded;
  the newest durable checkpoint is the one a relaunch finds.
* **Packed source.** Three timelines (host, transfer stream, compute stream) share four
  buffers, ordered by events only. Correct: a read finds the batch that was handed out; a
  restore neither skips nor repeats a batch.
* **Rings.** Neighbours drift apart by whole steps. Correct: the shard a kernel reads
  belongs to the owner whose mask is applied, and a gradient arrives at its owner with
  one contribution of every rank.
* **Block schedule.** Three regimes with remainders. Correct: a partition of the blocks,
  nobody idle, bounded imbalance.
* **Clean context.** Four modules compute positions on their own: who owns a clean token,
  in which order its K/V arrive, which positions the mask is told, and where a gradient
  lies in the reversed transfer. Nothing at run time compares them. Correct: each row
  attends exactly the clean tokens of its context, once; each gradient reaches its token,
  once.
* **Indexed source.** Ranks walk one layout with cursors of their own, and only the cursors
  are saved. Correct: the batches of a step depend on its number alone, through
  accumulation, ends of epochs and relaunches; no sample twice in an epoch; one shape per
  step.
* **Feature pipeline.** A worker thread, a copy stream and an allocator that reuses memory
  by stream order. Correct: the pipeline is always exactly one and two batches ahead of
  the cursor, a kernel reads the batch it was given, and nobody waits for ever.
* **Topology and gradient synchronisation.** Every rank computes its groups by itself,
  creates them in lock step, and then reduces over them in an order that depends on the
  backend. Correct: members agree on a group, no rank waits alone, each gradient ends as
  the mean over all samples of its own shard, each shard counts once in the norm.

`PROJECT.json` lists the components with their status, and the hazards with the line at
which each bites and the properties that would catch it.

## 2. Modules

| Module | Models | EXTENDS / composition |
|---|---|---|
| `RankCheckpoint` | rank-local saves of all ranks, finalisation, retention, the loop's and the finally clause's waits, relaunch | refines `CheckpointRegister` |
| `CheckpointRegister` | what a checkpoint directory promises: one register, replaced atomically, by whole checkpoints, never by an older one | abstract |
| `RankCheckpoint_proofs` | theorems about `RankCheckpoint` | TLAPS |
| `ModelOnlyCheckpoint` | `_save_model_only_checkpoint` | |
| `ModelOnlyCheckpoint_proofs` | theorems about `ModelOnlyCheckpoint` | TLAPS |
| `PackedPrefetch` | `PackedTokenDataRuntime` on CUDA and its consumers | |
| `PackedPrefetch_proofs` | theorems about `PackedPrefetch` | TLAPS |
| `RingPasses` | forward, backward, query and reduce passes of a context ring | passes are composed in the order `passes` gives |
| `RingPasses_proofs` | theorems about `RingPasses` | TLAPS |
| `BlockSchedule` | `build_block_schedule`, `validate_block_schedule` | |
| `CleanContext` | the clean K/V of one attention layer: shards, transports, masks, gradients | EXTENDS `BlockSchedule`: the rows of a rank are the blocks the schedule gave it |
| `CleanContext_proofs` | theorems about `BlockSchedule` and `CleanContext` | TLAPS |
| `IndexedEpochs` | `IndexedSupervisedTokenDataRuntime`: layouts, steps, slices, save and restore, all data-parallel ranks | |
| `IndexedEpochs_proofs` | theorems about `IndexedEpochs` | TLAPS |
| `FeaturePrefetch` | `DFlashFeatureDataRuntime` on CUDA, its worker thread and its allocator | |
| `FeaturePrefetch_proofs` | theorems about `FeaturePrefetch` | TLAPS |
| `ParallelPlan` | `build_parallel_plan`: acceptance, placements, coordinates, groups | operators only |
| `GradientSync` | creation of the groups, gradient reductions and clipping norm of one step | EXTENDS `ParallelPlan` |
| `GradientSync_proofs` | theorems about `GradientSync` and the plans it runs on | TLAPS |
| `MC...` | the instances TLC checks | |

### RankCheckpoint

`dirs`, `shard`, `errs`, `gerr`, `latest` are the directory: tags that exist, which launch
wrote each shard (0 for no file), the `rank_*.error` and `checkpoint.error` files and
`latest_tag`. They survive `Restart`. Everything else belongs to one launch: where a rank
is (`pc`), the handles it has not waited for (`pending`), its writer threads (`running`,
`box` for `error_box`), the tag it is finalising (`cur`) and where it goes afterwards
(`home`: back to the saves of this step, or to the rest of the finally clause).

A tag is a step and a part of it, since several duration fractions can fall due in one
step (`T:1578-1588`). `TrainStep` is joint: the gradient reduction and the broadcast verdict
of rank 0 keep the ranks together. `RequestWaits`/`RequestReady` are `T:1589-1591`,
which wait for the last handle only. `SaveNow` and `SaveLater` are the two branches of
`save_training_checkpoint`; a synchronous save that raises takes the rank straight to the
finally clause. `Wait` is the handle's `wait` up to the first barrier, `Barrier` releases
all ranks that are at *any* barrier, as the group is anonymous, and `Publish`, `Reject`,
`Prune`, `Verdict` are the rest of `_finalize_rank_checkpoint`. `RankRaises` is an
exception on one rank outside the checkpoint code (the step log or the summary). The end
of a run by duration is represented by `MaxStep`. Simplified: what an asynchronous save does
before its thread runs (`CK:187`, `CK:204`) and the writing of the error files themselves
(`CK:795`, `CK:810`) do not fail, and `Prune` is one step, since no property looks into a directory
that is being removed.

### ModelOnlyCheckpoint

One action per stage of the try block, `StageRaises` at any stage in `Faulty`, `CleanUp`
for the except clause, `Report` for the broadcast, `Restart` for a kill. Retention
removes a directory in two steps, so a kill can leave it torn.

### PackedPrefetch

The host runs `next_batch` in two steps (`HandOut` up to the view, `Launch` for the
prefetch of the other slot); each stream executes its queue of copies, reads, event
records and event waits in order. `wait_event` waits for the newest record issued at the
time of the call, as CUDA specifies. Batches are identified by their number in the run,
and buffers hold the stream positions copied into them, so a wrong offset is visible.
`Accum` batches are fetched before the first one is used, as `next_batches` does.
`setup.stepSync` distinguishes the train loop (`torch.cuda.synchronize`, `T:1654`) from the
consumers that do not synchronise (evaluation, `skip`).

### RingPasses

A buffer holds the rows of an owner, or a sum to which each rank has contributed some
number of times. In a step, `Send`, `Receive` and `Compute` happen in any order and
`EndStep` needs all three: an exchange is posted on the communication stream after the compute stream's
earlier work (`ring_transport.py:145-154`) and waited for at the end of the step.
Buffer names are those of the code: `initial`, `start` (`backward_start_flat`) and
`scratch` going forward; `kv`/`grad` for `comm_buffers[i, 0]`/`[i, 1]` going back; `receive` for
the query ring; `chunk` for the per-owner payloads.

### BlockSchedule

One step per loop iteration of the builder; the inputs are chosen by `Init`. Blocks of a
worker are a set, since the properties do not depend on their order. `Lightest` is the
`min` of both greedy choices, with the same tie break.

### CleanContext

The module goes on where the schedule is `built`. `layer` is one layer with its layout;
`Owned(c)` is the shard of a context rank in the order it is held, `Rows(w)` the queries
of a rank. A transport produces `chunks[w]`: for each kernel launch the positions the
code tells the mask (`claim`), the tokens that are really there (`token`) and the rows
that are computed. What a step computes is an operator on the layer and the dealt-out
blocks, so that the proofs can speak about layouts instead of states. `Gather` is the collective transport, the pure-CP layer and the
full-mask layer, `Visit` one turn of the streaming ring (`RingPasses` shows that the
buffers hold what `Visit` assumes), `Exchange` the windowed all-to-all, whose plan
(`Required`, `Expected`, `SendIndices`) every rank computes for itself. `Return` is the
backward pass: `home[o][k]` (`Collected`) lists the places among everyone's keys whose gradients are
added up at token `k` of rank `o`'s shard. `Allowed` is the mask function, on claimed
positions; `Context` and `Neighbours` are its independent definition on true ones. The
keys of denoised tokens stay on their rank in the fused layers (`WithActive`, or a launch
of their own, `ActiveChunk`); a pure-CP rank holds a slice of every block and gathers the
rest, which `argsort` brings into the order of the canvas (`LogicalOrder`) and its inverse
back for the gradients (`RankMajorOrder`). Some launches pair denoised rows and keys by
the block they are laid out in (`diagonal`), others by the block number of the mask.
`WithActive` appends the denoised keys to the clean ones where the code puts them in front;
the offsets of `Return` are those of the same order, and no property depends on it.

### IndexedEpochs

`torch.randperm` is an arbitrary permutation that depends on seed and epoch only:
`layouts` remembers the layout of each epoch anybody has built, and a rank that comes
later, or after a relaunch, finds the same. `TakeBatches` and `TakeTrajectory` are the two
optimizer-step units, `StepDoesNotFit` the `ValueError` of an epoch shorter than a step,
`Restart` loads the cursors into new processes and refuses those the code refuses.
A batch layout is what `Fill` makes of an order of the eligible samples, and `Orders` says which
orders a configuration may give: all of them with a shuffle, those in rounds over the groups
with a grouped one, one sorted by shape without. `_build_epoch_batches` shuffles each bucket
and then the batches, which reaches the same layouts as filling the buckets in any order.
That trajectory steps take one microbatch at a time is part of `Accepts`, although the code
finds out at the first step (`core/data.py:1155`) and not in the constructor.

### FeaturePrefetch

The trainer's thread runs `next_batch` in two steps around the hand-over (`TakeBatch`,
`AdvancePrefetch`), and a restore drains the device stage and then the host stage. `Prepare` is the
single worker of the executor, which takes jobs in order. A block of device memory
released by its tensor stays `awaited` until the events `record_stream` put on the
compute stream have passed, and may then be handed to the next copy. That a copy waits when
all blocks are taken (`CopyTo`) is a bound; the allocator would take more memory.

### ParallelPlan and GradientSync

`Plan(m)` gives every physical rank its coordinates and groups, written as the
code writes it: each rank lists its own groups, through the placement and back. In
`GradientSync` each rank walks its own list `todo` of collectives: a collective happens
when everyone it spans has it at the head of the list. A gradient is a weighted sum
of contributions (sample, local share, rows, shard), so `Total` can add and divide
exactly: `Unit` is divisible by every product of group sizes. `Input` is the broadcast of the
batch inside the model-input group; `Backward` for experts sums over the
inputs of the EP group, as the token dispatch does.

## 3. Runs

| Run | Bounds | Shows |
|---|---|---|
| `ckpt_sync` | 3 ranks, inline, disk and rank faults, two tags per step, one relaunch | type invariant; the published tag is complete at every instant; ranks that meet in a barrier are at the same line |
| `ckpt_async` | 2 ranks, async, one tag per step, failing writers, two relaunches | publication only when durable; retention spares what is being written; the directory refines the register; the verdict of every rank matches the directory; a clean run ends on its newest tag; as long as nothing fails every durable tag is published and every rank leaves |
| `ckpt_retry` | as above with one failing write | **violated**: a tag that failed once is rejected for ever |
| `model_only` | 3 steps, 3 launches, 2 faults before retention | the named directory is whole; no attempt leaves its temporary directory |
| `prefetch` | streams of 7 and of 2 tokens, batches of 3, 2 and 3 replicas, with and without synchronisation, 7 batches, 3 launches | every read finds the batch an uninterrupted run would have had, also after a restore; no copy overwrites a buffer being read |
| `ring_passes` | 2 to 4 ranks; forward then backward, or query then reduce; transfers buffered or by rendezvous | buffers suffice, packets match, full sums at their owners, every rank finishes |
| `clean_context` | schedules of 1-13 blocks on 1-6 workers and context ranks; six fused layouts with both shard layouts and all transports and passes, windows 1, 2 and 5; four pure-CP and full-mask layouts; separate and packed backward launches; three responses whose last block is all padding | the schedule is a partition, nobody is idle, balance; each row attends its context and its block once; each gradient reaches its token once |
| `clean_context_response` | one windowed layer of ten tokens, window 2, a prompt of one token | **violated**: tokens of a window are not exchanged |
| `indexed_epochs` | nine datasets of 3 to 8 samples, up to 2 replicas, 4 steps, 3 epochs, 2 launches | a step's batches depend on its number alone; no sample twice; one shape; epochs are used up; no error after the first step |
| `feature_prefetch` | batches of 2 over 5 samples and 1 sample, steps of 2 batches, 5 batches, 2 restores, 4 blocks of memory | the pipeline follows the cursor; reads find their batch; memory is not reused early; every batch is used |
| `gradient_sync` | every mesh of up to 8 ranks the plan accepts (two pipeline stages at most), nodes of every size, three backends | groups agree, where each placement name is true, creation and collectives never wait for one another, the mean gradient, the norm |
| `gradient_one_replica` | one replica of two TP ranks, distributed AdamW | **violated**: gradients of different shards are averaged |

Why the bounds are enough. *Checkpoints*: every defect found needs at most two tags,
two launches and one fault, and the runs allow at least one more of what they are about;
a third rank matters only for barriers, hence three in `ckpt_sync`. *Prefetch*: the
buffers have period two, so four batches reach every slot state; seven batches of three
on a stream of seven start at every offset and wrap. *Rings*: the forward buffers repeat
from the third exchange on and `scratch` exists only for more than three ranks, so four
is the first size with every buffer; two and three cover the shortest and the odd ring.
A run over several configurations chooses one in `Init` and keeps it. *Block schedule*: up to
thirteen blocks on six workers cover none, one and several pairs per worker, each with
and without remainder and middle block, and the short regime `P <= B < 2P - 1` for
every `P`; the theorems cover the rest. *Clean context*: the layouts are chosen so that
chunks begin inside blocks, blocks span chunks, shards differ in length, there are one
and several rings, and a rank has one to three blocks; a window of 1 reaches nothing, of 2 one
token, of 5 into a third chunk. A response starts less than a block into the
sequence: the decoder is then as long as the canvas, and both have one schedule.
*Indexed epochs*: the datasets hold odd leftovers, ineligible samples, steps that do not divide an epoch
and groups of unequal size; three epochs are one more than a step can touch. *Feature
pipeline*: two batches are ahead at any time, so five batches pass every stage; four
blocks are one more than can be alive. *Gradients*: eight ranks allow every combination of three
axes of size two, and CP rings of two and four inside BP.

Deadlock is checked in every run of a program that does not really stop, so
`prefetch`, `ring_passes` and `gradient_sync` also show that no cycle of events, transfers
or collectives can block it. `feature_prefetch` switches it off, since it ends at its bound;
there `EveryBatchIsUsed` shows that nobody waits for ever before that. `indexed_epochs` switches
it off, as a rank may end with an exception at the bound of the run. The checkpoint runs with injected exceptions switch it off: a
rank that raises leaves the others in a barrier until the collective times out and the
launcher kills the job, which is `Restart`.

Fairness. `AllExit` (`ckpt_async`) assumes weak fairness of `Job`: rank processes, writer threads and
barriers keep going. The ranks are operating-system processes, the thread is joined by
nothing but itself, and a barrier completes when all have entered; no fault and no
restart is ever assumed to happen. `AllFinish` (`ring_passes`) assumes
only that the ring as a whole does not stop while some transfer or computation may run:
a CUDA stream executes what it can, and a transfer both sides have posted completes.
Every step of the model is taken once, so fairness of each rank would add nothing.
`EveryBatchIsUsed` (`feature_prefetch`) assumes weak fairness of the trainer's thread, of the
worker thread, and of the two streams: a thread that can run is scheduled, and a stream executes its
queue. Saving, restoring and restarting are never assumed.

A `TypeOK` stands in every module as the statement of its types; only the one of
`RankCheckpoint` is an invariant of a run. Those of `RankCheckpoint`, `ModelOnlyCheckpoint`,
`BlockSchedule` and `RingPasses` are theorems.

## 4. What the violations mean

1. **A failed tag stays failed** (`ckpt_retry`, `CK:804`). Error files are never removed;
   after a relaunch the same tag is written completely and rejected again.
2. **One replica with tensor parallelism** (`gradient_one_replica`, `core/optim/adamw.py:57`).
   Groups of one rank are not created, so `data_parallel_group` is `None`, and the fallback
   is the whole world: shards of different parameters are averaged.
3. **A response in a sliding-window layer** (`clean_context_response`,
   `core/attention/layout.py:443`). The exchange plan counts blocks from the first token,
   the mask from the response; what lies between is never sent, and no check of counts
   can notice.

Further disagreements, found the same way and not kept as runs. Each is reproduced by
the change of constants given:

4. **Two tags in one step** (`T:1589`). Only the last handle is waited for, so the first is
   finalised in the finally clause and becomes `latest_tag`. `ckpt_async` with
   `MaxParts = 2` violates `PruneSparesPending`; with `KeepLast = 0` as well it violates
   `VerdictMatchesDirectory` and `ImplementsRegister`.
5. **A lone exception on rank 0** with asynchronous saves (`T:1959`). The finally clause's
   barriers pair with the other ranks' end-of-loop barriers. `ckpt_async` with
   `Faults = {"rank"}` violates `BarriersAgree`.
6. **A failing prune** (`CK:567`). The except clause removes the directory that
   `metadata.json` already names. `model_only` with `Faulty <- Stages` violates
   `LatestIsWhole`.
7. **Accumulated packed batches** (`core/data.py:493`). `prefetch` with `Accum = 2` violates
   `NeverOverwritesARead`: the first view is overwritten while or before it is read.
8. **Responses in the streaming transport** (`CPA:4070`). `_owner_query_indices` compares
   the response-relative block of a row with an absolute key position and drops rows that
   do attend the shard: `With(Layout(10, 2, 2, 4), "dual_chunk", "streaming", "noisy", 0, 1)`
   violates `EveryRowSeesItsContext`. The pure-CP backward pass drops the rows of the
   first block of a response in the same way (`CPA:2125`):
   `With(Layout(12, 4, 2, 1), "contiguous", "pure", "noisy", 0, 1)` violates `GradientsComeHome`.
9. **Windows with the contiguous layout**. The exchange plan always assumes the
   dual-chunk layout, while the runtime accepts a contiguous one (`core/parallel/runtime.py:930`);
   the run specification allows only the former. `With(Layout(12, 4, 2, 2), "contiguous",
   "windowed", "clean", 3, 0)` violates `EveryRowSeesItsContext`, once `LayerAssumption`,
   which asks for the layout of the run specification, lets it in.
10. **Several rings, or experts, with a first-party optimizer** (`core/parallel/grad_sync.py:20`).
    Gradients are reduced over the rank's own ring only, and not over EP; `FirstParty`
    in `MCGradientSync` leaves those meshes out.
11. **Placements that are not what their names say** (`core/parallel/topology.py:781`).
    The topology's docstring (lines 97-101) says that TP ranks change fastest, that TP groups
    are on one node whenever `tp` fits a node, and fused CP rings whenever `cp * tp` does.
    But EP changes faster than TP, and `_placement_name` leaves it out. With `tp = 2, ep = 4`
    on nodes of four the TP groups cross nodes; with `cp = bp = 2, tp = 1, ep = 4, dp = 1` the
    ring `[0, 4]` does, under the name `multi_node_model_parallel_node_local_cp_tp_inner`. And a
    replica that fits a node without dividing it needs no EP: three TP pairs (`tp = 2,
    dp = 3`) on two nodes of three are `node_local_model_parallel_tp_inner`, with the
    group `[2, 3]` on both. `NodeLocality` says exactly when each of the five names is true:
    two as they stand, three if the runs of consecutive ranks that hold the groups, EP
    included, tile the nodes.

12. **A response that ends inside a block, in the collective and the pure-CP transport**
    (`CPA:2380`). The forward pass attends the denoised keys of a block without looking at
    the block numbers, so the tokens of the last block also attend its padding, which the
    mask forbids (number -1) and which the windowed and the streaming layers leave out
    (the replicated layer attends it as well). With heads of 256 the backward pass does use
    the mask, and so differentiates another function than the forward pass computed.
    `With(Layout(10, 2, 2, 4), "dual_chunk", "collective", "noisy", 0, 1)` violates
    `EveryRowSeesItsContext`, and `GradientsComeHome` unless `packed`.

## 5. Proofs

Every theorem holds for every value of the constants under the assumptions the modules
name for them. Where it needs more, the hypothesis is part of its statement; each of these
is here because the program without it does the wrong thing (section 4), or because it says
what the code is configured for.

| Module | Theorem | States | Hypothesis |
|---|---|---|---|
| `RankCheckpoint_proofs` | `TypeCorrect`, `LatestIsComplete` | `TypeOK`, `LatestComplete` | |
| | `BarriersMeet` | `BarriersAgree` | `OneHandle` |
| | `RetentionSparesPending` | `PruneSparesPending` | `OneHandle` |
| | `PublicationFollowsWriters` | `PublishedWhenDurable` | `OneHandle` |
| | `CleanTagIsPublished` | `CleanRunPublishes` | `OneHandle` |
| | `VerdictsAgree` | `VerdictMatchesDirectory` | `OneHandle`, `AutoResume` |
| | `NewestIsPublished` | `EndsOnNewest` | `OneHandle`, `AutoResume` |
| | `DirectoryIsRegister` | `ImplementsRegister` | `OneHandle`, `AutoResume` |
| `ModelOnlyCheckpoint_proofs` | `TypeCorrect`, `VerdictLeavesNoTemporary` | `TypeOK`, `AttemptLeavesNoTemporary` | |
| | `PublishedTagIsWhole` | `LatestIsWhole` | `"prune" \notin Faulty` |
| `PackedPrefetch_proofs` | `BufferReuseIsSafe`, `KernelsReadTheirBatch` | `NeverOverwritesARead`, `ReadsItsBatch` | `Accum = 1` |
| `FeaturePrefetch_proofs` | `AlwaysPipelined`, `NoReadIsOverwritten`, `KernelsReadTheirBatch` | `Pipelined`, `NeverOverwritesARead`, `ReadsItsBatch` | |
| `RingPasses_proofs` | `TypeCorrect`, `ShardsAreTheirOwners`, `ExchangesMatch` | `TypeOK`, `ComputesOnItsOwner`, `PacketsMatch` | |
| | `SumsComeHome` | `OwnersHoldFullSum` | iterations end with a pass that returns gradients |
| `CleanContext_proofs` | `TypeCorrect`, `EachBlockActiveOnce`, `EachBlockOwnedOnce` | `TypeOK`, `ActiveBlocksOnce`, `KVBlocksOnce` | |
| | `NobodyIsIdle`, `LoadIsBalanced` | `EveryWorkerHasABlock`, `CostIsBalanced` | |
| | `LayerRunsSchedule` | `LayerSpec => Spec` of the schedule | |
| | `RowsSeeTheirContext`, `GradientsReturn` | `EveryRowSeesItsContext`, `GradientsComeHome` | `ResponsesAreGathered` |
| `GradientSync_proofs` | `GroupsAgreeAlways`, `RingInOrderAlways`, `PartitionsAlignAlways`, `NodeLocalityAlways` | `GroupsAgree`, `RingInOrder`, `PartitionsAlign`, `NodeLocality` | |
| | `NeverStuckAlways`, `NormCountsOnceAlways` | `NeverStuck`, `NormCountsOnce` | |
| | `GradientIsMeanAlways` | `GradientIsMean` | `MeshCovered` for every instance |
| `IndexedEpochs_proofs` | `StepDeterminesBatchesAlways`, `OncePerEpochAlways`, `RanksShareShapesAlways`, `ServesForEverAlways` | `StepDeterminesBatches`, `OncePerEpoch`, `RanksShareShapes`, `ServesForEver` | |
| | `EpochIsUsedUpAlways` | `EpochIsUsedUp` | |

### RankCheckpoint_proofs

`TypeInv` adds to the types that a tag is requested only after a step and that a rank in
finalisation has a tag. `LatestComplete` is not inductive: publication looks at the shards
at one instant, and retention removes directories later. `DirectoryInv` adds that a shard
exists only in a directory that exists, and that rank 0, until it has pruned, is finalising
exactly the tag it published. These two need no hypothesis.

The rest needs `OneHandle`: an asynchronous run requests one tag a step, and no rank of it
fails outside the checkpoint code. Items 4 and 5 of section 4 are what happens otherwise;
inline saves are covered without restriction. `LockstepInv` is the heart of it. The
barriers are anonymous, so that ranks meet properly cannot be read off a state: there is
one phase (between steps, on the way to the first barrier, between the two, gathering,
ending) and one tag, and every rank is somewhere in that phase with that tag, or will reach
no further barrier. `CollectiveStep` shows that only the collective steps, which take all
ranks along, open the next phase. On top of it:

* `WriterInv`: a rank that finalises a tag has its shard of this launch in place or its
  error file on record, so rank 0, between the barriers, sees every error there is.
* `CleanInv`: without a fault rank 0 rejects nothing (`RejectHasCause`: a rejected tag has an
  error file, which some fault wrote).
* `OrderInv`: whatever is still to be published is newer than what is. This is where
  `AutoResume` is needed: without it a relaunch starts at step 0 in a directory that holds a later
  tag, and replaces that.
* `DecisionInv`: what rank 0 decided is still so when the last rank acts on it.
* `NewestInv`: a shard of this launch belongs to a tag that is held, being finalised, or
  not newer than the published one.

`DirectoryIsRegister` is the refinement of `CheckpointRegister`, step by step: only
`Publish` changes what the register holds, and by `OrderInv` it is a replacement by a
newer whole checkpoint; every other action leaves `metadata.json` and the shards it names
alone, because no writer has the published tag open (`WriterInv`, `LockstepInv`).

### ModelOnlyCheckpoint_proofs

`AttemptInv` is what rank 0 knows at each stage: until the rename the directory is absent,
until the publication `metadata.json` names something else. `CleanUp` may then remove what the
attempt created. A failing `prune` comes after the publication (item 6), hence the
hypothesis. `TemporaryInv` says from which stage on there is no temporary directory.

### PackedPrefetch_proofs

`HostInv` ties the pinned buffers and the views to the batch number. The streams are queues,
and the invariant speaks about positions in them: one copy per slot, between a wait and a
record (`TransferInv`); a record of `Consumed` that is still queued either holds a copy back or
is the one the last `next_batch` enqueued behind every read (`ConsumedInv`); a read
comes after the wait for its own copy, or the next copy waits for a record behind the read
(`ReadInv`). A wait remembers the number of the record it waits for, which is why the
number of records matters and not only their order. `Accum = 1` is one batch per optimizer
step; with more the property is violated (item 7).

### FeaturePrefetch_proofs

`PipelineInv` relates the two slots and the worker's queue to the cursor, through the drain of
a restore. `StreamEffects` reduces the actions to what they do to streams and memory, so
that the invariants below have one case per effect: every block of memory that is not free
has one use (the device batch, one view, or the kernels before the one release that waits
for them), and whoever reads it waits for the copy to it (`CopyInv`, `ReleaseInv`,
`HolderInv`). `ContentsInv` adds whose samples the block will hold once its copy has run.

### RingPasses_proofs

The invariant says what a rank's buffers hold in each step of each pass (`InForward`,
`InBackward`, `InQuery`, `InReduce`), and what a pass leaves for the one that follows it
(`After`): a sum on its way has the contributions of an arc of the ring, and grows by the
rank that adds to it. `ChannelInv` says that the packets between two neighbours are the exchanges from
the receiver's position in the iteration to the sender's, in order, each with the
content the sender's step gives it; neighbours may be apart by several steps, or a pass.
`LayerAssumption` says that a backward pass directly follows its forward pass and a
reduction its query pass, as one layer calls them: the backward pass starts from a buffer
the forward pass retained. An iteration is one layer; the order forward, forward, backward,
backward, in which autograd runs several layers, is outside the model. `SumsComeHome` asks that an iteration end
with one of the two passes that bring sums home; otherwise there is no sum to speak of.

### CleanContext_proofs

*The schedule.* `ScheduleInv` says that the owners hold exactly the blocks of `Placed` (for the pairs: the
blocks below `next` and their mirror images), each once, and that a dealing loop is at
`next = i * base + min(i, rest)`. `Deal` shows that a share still fits, `AllDealt` that the last
owner takes the last task, `PairEnds` and `Ends` that consecutive pairs extend both ends
of the placed blocks, and `Extend` that new blocks keep the owners disjoint: the checks of
`validate_block_schedule` never raise. `LoadInv` follows the cost of a worker: all pairs cost
the same, so shares that differ by one pair are balanced (`SharesAreBalanced`), and giving
a block to the lightest worker keeps the loads balanced (`LightestStaysBalanced`). That
nobody is idle in the short regime rests on the tie break: blocks are placed from the most
expensive one down, so until every worker has one the lightest is the first without.
`LayerRunsSchedule` carries this over to `LayerSpec`, which `clean_context` runs.

*The layer.* The two theorems hold for every sequence, block and window, every layout,
pass and transport, and all parallel sizes that `LayerAssumption` admits: those that the
builders, the masks and the run specification do not refuse. Their hypothesis
`ResponsesAreGathered` is that a layer that denoises a response uses the collective
transport, and that the response begins where a block does; items 3, 8 and 12 of section 4
are what happens otherwise. `MCCleanContext` has TLC evaluate it for the layers of
`clean_context`, three responses among them.

The argument is about lists in which every token stands once (`Lists`), since keys are
addressed by their place in one. What the code does to them keeps that: shards are runs of
tokens that partition the canvas (`InOneShard`, `OwnedLists`), `Ascending` is the sorted list
of a set, joining lists of disjoint sets puts each behind the sum of the lengths before it
(`FlattenLists`), and the pure-CP slices partition each block (`AllSliced`), so that `argsort`
finds a permutation and its inverse (`Ordered`).

* *The mask.* On true positions `AllowedClean` and `AllowedActive` allow exactly `Wanted`, the
  independent definition, by bounds for windows and by block numbers for packed layers. A
  response of whole blocks has no block that is only partly padding (`ResponseEnds`).
* *Forward.* `Plan` is the list of a rank's launches. `Carries`: a launch has the tokens
  of a set, each once and where the rank believes it, and otherwise padding. `Shared`: the
  launches have different tokens. `Served`: each token a row wants is in a launch that
  computes the row. Each transport has a lemma that shows the three (`TwoLaunches`,
  `StreamingLaunches`, `WindowLaunch`, ...). For the ring this means that a rank visits every
  owner once and that a row it skips wants nothing of that shard; for the windowed exchange,
  that the plan asks for each token a row's window reaches (`ContextRequired`) and that what
  two ranks compute for themselves agrees (`RemoteLists`). `SeesContext` then counts: the keys
  a row sees are its wanted tokens, each once.
* *Backward.* `Returns`: a gradient is added at an owner's token only from slots that have
  this token, and from every slot that is not padding one is taken. `AllReturn` shows it for
  each transport: the owner-major storage of the reduce-scatter, the turn in which a ring
  meets an owner, the place of the reverse all-to-all behind the keys of the ranks before
  (`KeysBefore`). One rank of each group computes a clean row (`CleanRowOnce`), one of all
  ranks a denoised row (`NoisyRowOnce`), hence `AllComeHome`.
* *Steps.* `LayerInv` adds to `ScheduleInv` that a rank's launches so far are the first of its
  plan, and that what has come home is `Collected` after all of them. The properties are
  not inductive by themselves: half a ring shows a row half of its context.

### GradientSync_proofs

`InstanceAssumption` says that a run has a mesh of positive sizes that the builder accepted,
one of the three backends, and sequence parallelism only under TP. So the theorems cover
meshes of any size.

*The plan.* Coordinates and ranks are digits of one another. Each of the four placements is
a permutation of the world (`IsPlacement`) under which TP groups, EP groups or stripes keep
a fixed stride (`IsStrided`): `IdentityPlacement`, `StripedPlacement`, `ExpertsPlaced` and
`RoundRobinPlacement`. The loops of `_rank_assignment` therefore find for every rank the
ranks that differ from it along the axes of a group (`GroupsArePeers`), which is an
equivalence, and a set has one ascending list. `PlanMade` is the inductive invariant that
the plan is the builder's; the four theorems about groups follow from it alone.

*The nodes.* Under an identity placement the groups of an axis lie in runs of consecutive
ranks, at a stride (`RunOf`, `StrideOf`, `GroupsInRuns`). A node that ends inside a run cuts a
group of it (`CutRun`), and runs that tile the nodes are never cut (`NumberedLocality`): hence
the equivalences of `NodeLocality`, for node sizes that divide nothing as well. For the
striped and the expert placement the positions on the nodes are computed directly.

*The order.* `SyncInv` is the inductive invariant of the collectives. A rank's list is
compared with those of others from its end (`FromEnd`): what a rank still has to go through
its partners have too, with equally many calls after it (`Aligned`). A collective takes the
heads of equally long lists, so they stay aligned (`EnterTogether`), and a rank with a
longest list can always go on (`AlignedGoesOn`). `SetupOK` adds that a communicator a rank
lacks is still in its list, hence that all are there when the step starts (`StepListIs`);
that the lists of a step are aligned is a fact about the groups: their kinds are the same
for all ranks and so are their sizes (`GroupSizes`).

*The values.* The norm is the last call of a first-party list, and within a model replica
one rank owns each shard (`ShardCounted`). For the gradients, the number of calls a rank has
to go decides which axes of the mesh are still pending for a kind (`Pend`) and what its
gradient has been divided by (`Divisor`). `GradOK` is the inductive invariant: with `j` calls
to go a rank holds `Unit \div Divisor` of every contribution that agrees with it along the
pending axes, and nothing of the others (`Cell`). `SumSame` adds such values up over the
ranks of a group, and `ReducesBy` says that a reduction along the axes of its group brings them
from one place of the list to the next. `Doing` is proved for each collective of each
backend.

`MeshCovered` is the hypothesis of `GradientIsMeanAlways`: with a first-party optimizer there
is one CP ring and no EP, and with the distributed AdamW either replicas or no TP. A mesh
that is not covered is reduced wrongly (items 2 and 10 of section 4). `deepspeed_zero2`
needs no such condition. `CoveredGradientIsMean` states the same for one run.

### IndexedEpochs_proofs

`SetupAssumption` gives the configurations their types and nothing else: a dataset is any
sequence of samples, and the theorems cover every one the constructor accepts.

*Layouts.* How the buckets fill is a recursion over the samples. `UpTo` carries an induction
out on a least counterexample, and `Recursion` shows with it that a recursive function
satisfies its equation; every other lemma about such a function cites the two. `Sound` is kept by
`Add`: a full batch has the global batch size, one key and no sample twice, and no sample is
in two batches or in a batch and a bucket. `Counted` is kept too: full batches and buckets
together hold the samples seen so far, and a bucket holds the remainder of the samples of its
shape. The number of samples of a shape does not depend on the order they come in
(`ShapeCount`), so all orders give equally many batches (`SameBatchCount`): the epochs of a
run hold the same number of steps, which is what `next_batches` relies on. For the
trajectory unit `Flattened` says where the batches of a group stand in the layout and `Sums`
that `SumOf` is its place; that all groups are whole (`PartialGroups` is empty) gives that
the steps of an epoch use every eligible sample. `Listed` is what both kinds of layout share.

*Cursors.* `IndexInv` is the inductive invariant. `At` says that the three cursors of a rank
are an arithmetic of the number `k` of steps it has taken: with `Fit` steps to an epoch
there are `e` and `n` with `k = Fit * e + n`, the rank is in epoch `e`, and its batch cursor
is where step `n` begins. At the end of an epoch `n` may be `Fit`, since the next epoch is
begun lazily. `Taken` says the same of every step in `used`. `SavedInv` says it of the saved
cursors and the saved step, so that `Restart` finds cursors `Refused` accepts
(`NeverRefused`). The invariants alone are not inductive: that a step's batches are those of
its number says nothing about the cursors the next step starts from. `TypesInv` keeps
every layout ever built among those of the setup, and `Extends` that building a layout
leaves the earlier ones alone.

*The theorems.* `StepDeterminesBatchesAlways` reads the epoch and the place in it off `Taken` by
division. `OncePerEpochAlways` combines `Taken` with `Listed`: two uses in one epoch with one
sample are the same place of the layout (`OnePlace`), hence the same step, microbatch, row
and rank (`StepsApart`, `RowsApart`). `ServesForEverAlways` is the absence of the errors in
`TypesInv`: an epoch that holds no step has none in any epoch. `EpochIsUsedUpAlways` is an
action property: the step's precondition is `At`, its effect one of the two actions.

### What is only model-checked

Every invariant of the passing runs is a theorem, and so are all their action properties and
the refinement. What is left to TLC:

* Liveness (`AllExit`, `AllFinish`, `EveryBatchIsUsed`) and the absence of deadlock:
  fairness and ENABLED are outside what the prover handles.
* The `TypeOK` of `GradientSync` and of `IndexedEpochs` is no property of a run: what their
  invariants need of types is part of `SyncInv` and `GradOK`, and of `TypesInv`.

## 6. Not modelled, and the plan

Not modelled because nothing in them is a matter of states and orders: numerics of
models, attention kernels, objectives and optimizers; wrappers of DeepSpeed, FSDP,
DeepEP, vLLM and SGLang; profiling; the command line. They are by far most of the lines
of the repository, which is why a small part of them is mapped. The DeepSpeed branches
of save and load delegate to that library and are left out of `RankCheckpoint`. The
backward variant that keeps two exchanges in flight (`_ring_context_backward_flex`) is
left out of `RingPasses`, and so is more than one layer in an iteration; the replicated backend, the BHSD variants and the pure-CP layer
that is not persistent are left out of `CleanContext`. A response whose decoder is
shorter than the canvas has a schedule of its own and is outside its layouts.

Left, in this order:

1. `CheckpointLoad`: explicit tags, topology validation against `metadata.json`, fallback
   of `auto_resume`, composed with `RankCheckpoint`.
2. `DurationControl`: fractions, rank 0's clock, broadcast, interaction with `due`.
3. `_ring_context_backward_flex` as a further pass of `RingPasses`.
