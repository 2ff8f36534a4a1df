--------------------------- MODULE FeaturePrefetch ---------------------------
(***************************************************************************)
(* The DFlash feature source on a CUDA device.  One worker thread prepares *)
(* batches on the host, a transfer stream copies them into freshly         *)
(* allocated device memory, and the trainer reads them on its own stream.  *)
(* Always one batch is on its way to the device and the one after it is    *)
(* being prepared, each for the cursor it will be asked for.               *)
(*                                                                         *)
(* Nothing but stream order and record_stream keeps the memory of a batch  *)
(* from being given to the next one: Blocks are what the caching allocator *)
(* hands out on the transfer stream.                                       *)
(***************************************************************************)
EXTENDS Integers, Sequences

CONSTANTS
  Setups,      \* the datasets and replicas a run may have
  Pool,        \* bound: device allocations of one batch that exist together
  Accum,       \* batches fetched for one optimizer step
  MaxBatches,  \* bound: batches consumed
  MaxLoads     \* bound: restores, in a running process or by a new one

\* samples   sample_count        batch     batch_size
\* replicas  data_parallel_size  replica   data_parallel_rank
ASSUME SetupAssumption ==
  /\ Setups \subseteq [samples : Nat \ {0}, batch : Nat \ {0}, replicas : Nat \ {0}, replica : Nat]
  /\ \A s \in Setups : s.replica < s.replicas
ASSUME BoundAssumption == Accum \in Nat \ {0} /\ {Pool, MaxBatches, MaxLoads} \subseteq Nat

None == [state |-> "none"]
Blocks == 1 .. Pool
NoBlock == 0

VARIABLES
  setup,             \* the configuration of this run
  cursor, consumed,  \* position in the dataset; batches handed out
  device,            \* _device_batch: a future, a value or None
  nextHost,          \* _next_host_batch: a future or None
  jobs,              \* submitted to the executor and not finished, in order
  pc,                \* where the trainer's thread is in the source
  views,             \* batches fetched for this step and not used yet
  memory,            \* per block: held by a tensor, released but awaited, or free
  contents,          \* per block: the samples in it
  transfer, compute, \* operations enqueued on the two streams
  saved, loads       \* data state of the newest checkpoint; restores so far

source == <<cursor, consumed, device, nextHost, jobs, pc>>
gpu == <<memory, contents, transfer, compute>>
vars == <<setup, source, views, gpu, saved, loads>>

\* _next_cursor and _sample_indices.
NextCursor(at) == (at + setup.batch) % setup.samples

Samples(at) ==
  [i \in 0 .. setup.batch - 1 |->
     (at * setup.replicas + setup.replica * setup.batch + i) % setup.samples]

\* What batch number k of this replica is: the replicas deal the dataset out in
\* turns of one batch, round and round.
Batch(k) ==
  [i \in 0 .. setup.batch - 1 |->
     ((k * setup.replicas + setup.replica) * setup.batch + i) % setup.samples]

-----------------------------------------------------------------------------
(* Device memory and streams (CUDA and the caching allocator).             *)

Copies(b) == {n \in DOMAIN transfer : transfer[n].block = b}
Copying(b) == Copies(b) # {}

\* n counts, for a wait, the enqueued copies that have to run before it.
Op(kind, b, n) == [kind |-> kind, block |-> b, n |-> n]

\* A tensor for these samples: allocated on the transfer stream and copied to.
\* Blocks are alike, so the first free one stands for any.  That a copy waits when
\* all are taken is a bound: the allocator would take more memory.
CopyTo(b, samples) ==
  /\ memory[b] = "free" /\ \A c \in 1 .. b - 1 : memory[c] # "free"
  /\ memory' = [memory EXCEPT ![b] = "held"]
  /\ transfer' = Append(transfer, [block |-> b, samples |-> samples])

CopyRuns ==
  /\ transfer # <<>>
  /\ contents' = [contents EXCEPT ![Head(transfer).block] = Head(transfer).samples]
  /\ transfer' = Tail(transfer)
  /\ compute' = [m \in DOMAIN compute |->
                   IF compute[m].kind = "wait" /\ compute[m].n > 0
                   THEN [compute[m] EXCEPT !.n = @ - 1] ELSE compute[m]]
  /\ UNCHANGED <<setup, source, views, memory, saved, loads>>

ComputeRuns ==
  /\ compute # <<>>
  /\ LET op == Head(compute) IN
       /\ op.kind = "wait" => op.n = 0
       /\ memory' = IF op.kind = "release" THEN [memory EXCEPT ![op.block] = "free"] ELSE memory
  /\ compute' = Tail(compute)
  /\ UNCHANGED <<setup, source, views, contents, transfer, saved, loads>>

-----------------------------------------------------------------------------
(* The worker thread.                                                      *)

Submit(kind, at) == [kind |-> kind, cursor |-> at]
Future(at) == [state |-> "queued", cursor |-> at, block |-> NoBlock]

\* Mutant: the worker prepares what the source's cursor says when it runs.
PrepareCurrent ==
  /\ jobs # <<>>
  /\ jobs' = Tail(jobs)
  /\ IF Head(jobs).kind = "host"
     THEN /\ nextHost' = [nextHost EXCEPT !.state = "done", !.cursor = NextCursor(cursor)]
          /\ UNCHANGED <<device, memory, transfer>>
     ELSE \E b \in Blocks :
            /\ CopyTo(b, Samples(Head(jobs).cursor))
            /\ device' = [state |-> "done", cursor |-> Head(jobs).cursor, block |-> b]
            /\ UNCHANGED nextHost
  /\ UNCHANGED <<setup, cursor, consumed, pc, views, contents, compute, saved, loads>>

Prepare ==
  /\ jobs # <<>>
  /\ jobs' = Tail(jobs)
  /\ IF Head(jobs).kind = "host"
     THEN /\ nextHost' = [nextHost EXCEPT !.state = "done"]
          /\ UNCHANGED <<device, memory, transfer>>
     ELSE \E b \in Blocks :
            /\ CopyTo(b, Samples(Head(jobs).cursor))
            /\ device' = [state |-> "done", cursor |-> Head(jobs).cursor, block |-> b]
            /\ UNCHANGED nextHost
  /\ UNCHANGED <<setup, cursor, consumed, pc, views, contents, compute, saved, loads>>

-----------------------------------------------------------------------------
(* The trainer's thread: next_batch.                                       *)

\* Mutant: the trainer's stream does not wait for the copy.
NoWait(b) == compute

\* wait_event on the trainer's stream.
WaitReady(b) ==
  Append(compute, Op("wait", b, IF Copying(b) THEN CHOOSE n \in Copies(b) :
                                                     \A m \in Copies(b) : m <= n
                                ELSE 0))

\* Until the cursor has moved; the result of the future is waited for.  The
\* branch for a source without a device batch is not reached: see Pipelined.
TakeBatch ==
  /\ pc = "idle" /\ Len(views) < Accum
  /\ consumed < MaxBatches
  /\ device.state = "done"
  /\ IF device.cursor # cursor
     THEN pc' = "error" /\ UNCHANGED <<cursor, consumed, device, views, compute>>
     ELSE /\ compute' = WaitReady(device.block)
          /\ views' = Append(views, [block |-> device.block, batch |-> consumed])
          /\ device' = None
          /\ cursor' = NextCursor(cursor)
          /\ consumed' = consumed + 1
          /\ pc' = "advance"
  /\ UNCHANGED <<setup, nextHost, jobs, memory, contents, transfer, saved, loads>>

\* _advance_prefetch.
AdvancePrefetch ==
  /\ pc = "advance"
  /\ nextHost.state = "done"
  /\ IF nextHost.cursor # cursor
     THEN /\ pc' = "error"
          /\ nextHost' = None
          /\ UNCHANGED <<device, jobs, memory, transfer>>
     ELSE /\ \E b \in Blocks :
               /\ CopyTo(b, Samples(cursor))
               /\ device' = [state |-> "done", cursor |-> cursor, block |-> b]
          /\ jobs' = Append(jobs, Submit("host", NextCursor(cursor)))
          /\ nextHost' = Future(NextCursor(cursor))
          /\ pc' = "idle"
  /\ UNCHANGED <<setup, cursor, consumed, views, contents, compute, saved, loads>>

\* Mutant: without record_stream the allocator knows only the transfer stream.
ReleaseAtOnce(view) ==
  /\ compute' = Append(compute, Op("read", view.block, view.batch))
  /\ memory' = [memory EXCEPT ![view.block] = "free"]

\* Kernels that read the batch are enqueued and its tensors go: the allocator
\* waits for what the streams given to record_stream have enqueued so far.
ReadAndRelease(view) ==
  /\ compute' = compute \o <<Op("read", view.block, view.batch),
                           Op("release", view.block, 0)>>
  /\ memory' = [memory EXCEPT ![view.block] = "awaited"]

\* The microbatches of a step are used when all have been fetched.
UseBatch ==
  /\ pc = "idle"
  /\ Len(views) = Accum \/ consumed = MaxBatches
  /\ views # <<>>
  /\ ReadAndRelease(Head(views))
  /\ views' = Tail(views)
  /\ pc' = IF Len(views) = 1 THEN "idle" ELSE "use"
  /\ UNCHANGED <<setup, cursor, consumed, device, nextHost, jobs, contents, transfer, saved, loads>>

UseRest ==
  /\ pc = "use"
  /\ ReadAndRelease(Head(views))
  /\ views' = Tail(views)
  /\ pc' = IF Len(views) = 1 THEN "idle" ELSE "use"
  /\ UNCHANGED <<setup, cursor, consumed, device, nextHost, jobs, contents, transfer, saved, loads>>

-----------------------------------------------------------------------------
(* Checkpoints.                                                            *)

\* state_dict, between two steps.
Save ==
  /\ pc = "idle" /\ views = <<>>
  /\ saved' = [cursor |-> cursor, consumed |-> consumed]
  /\ UNCHANGED <<setup, source, views, gpu, loads>>

\* load_state_dict, in a running process or after the constructor of a new one.
LoadState ==
  /\ \/ pc = "idle" /\ views = <<>> /\ loads < MaxLoads /\ loads' = loads + 1
     \/ pc = "load" /\ UNCHANGED loads
  /\ cursor' = saved.cursor % setup.samples
  /\ consumed' = saved.consumed
  /\ pc' = "drain"
  /\ UNCHANGED <<setup, device, nextHost, jobs, views, gpu, saved>>

\* _reset_prefetch: the device batch and its copy are waited for and dropped ...
DrainDevice ==
  /\ pc = "drain"
  /\ device.state = "done"
  /\ ~Copying(device.block)
  /\ memory' = [memory EXCEPT ![device.block] = "free"]
  /\ device' = None
  /\ UNCHANGED <<setup, cursor, consumed, nextHost, jobs, pc, views, contents, transfer, compute,
                 saved, loads>>

\* Mutant: a host batch under way is kept.
KeepHost ==
  /\ pc = "drain" /\ device = None
  /\ device' = Future(cursor)
  /\ IF nextHost = None THEN nextHost' = Future(NextCursor(cursor)) ELSE UNCHANGED nextHost
  /\ jobs' = jobs \o <<Submit("device", cursor)>> \o
       (IF nextHost = None THEN <<Submit("host", NextCursor(cursor))>> ELSE <<>>)
  /\ pc' = "idle"
  /\ UNCHANGED <<setup, cursor, consumed, views, gpu, saved, loads>>

\* ... then the host batch, and _start_prefetch begins again.
DrainHost ==
  /\ pc = "drain" /\ device = None
  /\ nextHost.state = "done"
  /\ device' = Future(cursor)
  /\ nextHost' = Future(NextCursor(cursor))
  /\ jobs' = jobs \o <<Submit("device", cursor), Submit("host", NextCursor(cursor))>>
  /\ pc' = "idle"
  /\ UNCHANGED <<setup, cursor, consumed, views, gpu, saved, loads>>

\* The process dies; a new one constructs the source and restores it.
Restart ==
  /\ loads < MaxLoads /\ loads' = loads + 1
  /\ cursor' = 0 /\ consumed' = 0
  /\ device' = Future(0) /\ nextHost' = Future(NextCursor(0))
  /\ jobs' = <<Submit("device", 0), Submit("host", NextCursor(0))>>
  /\ pc' = "load"
  /\ views' = <<>>
  /\ memory' = [b \in Blocks |-> "free"]
  /\ contents' = [b \in Blocks |-> <<>>]
  /\ transfer' = <<>> /\ compute' = <<>>
  /\ UNCHANGED <<setup, saved>>

Init ==
  /\ setup \in Setups
  /\ cursor = 0 /\ consumed = 0
  /\ device = Future(0) /\ nextHost = Future(NextCursor(0))
  /\ jobs = <<Submit("device", 0), Submit("host", NextCursor(0))>>
  /\ pc = "idle"
  /\ views = <<>>
  /\ memory = [b \in Blocks |-> "free"]
  /\ contents = [b \in Blocks |-> <<>>]
  /\ transfer = <<>> /\ compute = <<>>
  /\ saved = [cursor |-> 0, consumed |-> 0]
  /\ loads = 0

Process ==
  \/ TakeBatch \/ AdvancePrefetch \/ UseBatch \/ UseRest
  \/ DrainDevice \/ DrainHost \/ (pc = "load" /\ LoadState)

Next == Process \/ Prepare \/ CopyRuns \/ ComputeRuns \/ Save \/ LoadState \/ Restart

Spec == Init /\ [][Next]_vars

\* The trainer's thread, the worker and the device go on; nobody has to save,
\* restore or restart.
FairSpec == Spec /\ WF_vars(Process) /\ WF_vars(Prepare) /\ WF_vars(CopyRuns) /\ WF_vars(ComputeRuns)

-----------------------------------------------------------------------------
(* Properties.                                                             *)

Slots == {None} \union [state : {"queued", "done"}, cursor : 0 .. setup.samples - 1,
                        block : Blocks \union {NoBlock}]

TypeOK ==
  /\ setup \in Setups
  /\ cursor \in 0 .. setup.samples - 1
  /\ consumed \in 0 .. MaxBatches
  /\ device \in Slots /\ nextHost \in Slots
  /\ jobs \in Seq([kind : {"device", "host"}, cursor : 0 .. setup.samples - 1])
  /\ Len(jobs) <= 2
  /\ pc \in {"idle", "advance", "use", "load", "drain", "error"}
  /\ Len(views) <= Accum
  /\ memory \in [Blocks -> {"held", "awaited", "free"}]
  /\ loads \in 0 .. MaxLoads

\* Between two calls one batch is on its way to the device and the next one is
\* being prepared, for exactly the cursors next_batch will ask for: a restore
\* leaves no batch of the position it left, and none of the "out of sequence"
\* errors is ever raised.
Pipelined ==
  /\ pc # "error"
  /\ pc \in {"idle", "use"} => /\ device # None /\ device.cursor = cursor
                               /\ nextHost # None /\ nextHost.cursor = NextCursor(cursor)

\* A kernel finds in its memory the batch the trainer was handed, and that is
\* the batch an uninterrupted run would have had at this point.
ReadsItsBatch ==
  compute # <<>> /\ Head(compute).kind = "read" =>
    contents[Head(compute).block] = Batch(Head(compute).n)

\* Memory that a kernel still has to read is not written by a later batch: the
\* kernel's stream waits for every enqueued copy to it.
NeverOverwritesARead ==
  \A n \in DOMAIN transfer, m \in DOMAIN compute :
    compute[m].kind = "read" /\ compute[m].block = transfer[n].block =>
      \E j \in 1 .. m - 1 : /\ compute[j].kind = "wait" /\ compute[j].block = transfer[n].block
                            /\ n <= compute[j].n

\* Whatever is restored when, the trainer gets and uses every batch: no two of
\* its threads and streams wait for each other.
EveryBatchIsUsed == <>[](consumed = MaxBatches /\ views = <<>> /\ compute = <<>>)
=============================================================================
