--------------------------- MODULE PackedPrefetch ---------------------------
(***************************************************************************)
(* The packed-token source on a CUDA device: next_batch returns a view of  *)
(* one of two device buffers while the host stages the next batch in a     *)
(* pinned buffer and a transfer stream copies it into the other one.  The  *)
(* host, the transfer stream and the compute stream run on their own; only *)
(* the recorded events order them.                                         *)
(*                                                                         *)
(* A batch is identified by its number in the run, so a restored run       *)
(* counts on from the saved one.                                           *)
(***************************************************************************)
EXTENDS Integers, Sequences

CONSTANTS
  Setups,      \* the configurations a run may have
  Accum,       \* batches fetched together: gradient accumulation, else 1
  MaxBatches,  \* bound: batches consumed in the run
  MaxLaunch    \* bound: launches of the process

\* length    tokens in the packed stream
\* needed    batch_size * seq_len
\* replicas  data_parallel_size
\* replica   data_parallel_rank
\* stepSync  a train step ends in torch.cuda.synchronize; evaluation and skip()
\*           fetch again without one
ASSUME SetupAssumption ==
  /\ Setups \subseteq [length : Nat \ {0}, needed : Nat \ {0},
                       replicas : Nat \ {0}, replica : Nat, stepSync : BOOLEAN]
  /\ \A s \in Setups : s.replica < s.replicas
ASSUME UseAssumption ==
  Accum \in Nat \ {0} /\ MaxBatches \in Nat /\ MaxLaunch \in Nat \ {0}

Slots == {0, 1}
None == 2

VARIABLES
  setup,                      \* the configuration of this run
  cursor, consumed,           \* position; batches handed out (samples_consumed)
  nextSlot, returned,         \* _next_slot, _returned_slot
  primed, slotInit,           \* _prefetch_initialized, _slot_initialized
  host, device,               \* contents of the two buffer pairs
  recorded, reached,          \* per event: records issued, records executed
  transfer, compute,          \* operations enqueued on the two streams
  pc, views,                  \* the consumer, and the views it holds
  saved, launch               \* data state of the newest checkpoint; launches

runtime == <<cursor, consumed, nextSlot, returned, primed, slotInit>>
buffers == <<host, device>>
events == <<recorded, reached>>
streams == <<transfer, compute>>
disk == <<saved, launch>>
vars == <<setup, runtime, buffers, events, streams, pc, views, disk>>

StreamLength == setup.length
Needed == setup.needed
Positions == 0 .. StreamLength - 1

Ready(s) == <<"ready", s>>
Consumed(s) == <<"consumed", s>>
Events == {"ready", "consumed"} \X Slots

Op(kind, of) == [kind |-> kind, of |-> of, n |-> 0]
\* wait_event waits for the newest record issued at the time of the call.
WaitFor(e) == [kind |-> "wait", of |-> e, n |-> recorded[e]]
Read(view) == [kind |-> "read", of |-> view.slot, n |-> view.batch]

Runs(queue, kind) == queue # <<>> /\ Head(queue).kind = kind

-----------------------------------------------------------------------------
(* The slice of the stream a batch holds.                                  *)

\* _copy_batch_to: up to the end of the stream, then round it as often as needed.
Slice(at) ==
  LET offset == (at * setup.replicas + setup.replica * Needed) % StreamLength
      first == IF Needed < StreamLength - offset THEN Needed ELSE StreamLength - offset
  IN [i \in 0 .. Needed - 1 |-> IF i < first THEN offset + i
                                ELSE (i - first) % StreamLength]

\* What batch number k of this replica is: the replicas deal the stream out
\* in turns of Needed tokens.
Batch(k) ==
  LET offset == (k * setup.replicas + setup.replica) * Needed
  IN [i \in 0 .. Needed - 1 |-> (offset + i) % StreamLength]

Advance(at) == (at + Needed) % StreamLength

-----------------------------------------------------------------------------
(* The host.                                                               *)

\* The prefetch of the first batch finds its slot untouched and waits for nothing.
Prime ==
  /\ pc = "fetch" /\ ~primed
  /\ consumed < MaxBatches
  /\ host' = [host EXCEPT ![nextSlot] = Slice(cursor)]
  /\ transfer' = transfer \o <<Op("copy", nextSlot), Op("record", Ready(nextSlot))>>
  /\ recorded' = [recorded EXCEPT ![Ready(nextSlot)] = @ + 1]
  /\ slotInit' = [slotInit EXCEPT ![nextSlot] = TRUE]
  /\ primed' = TRUE
  /\ UNCHANGED <<setup, cursor, consumed, nextSlot, returned, device, reached,
                 compute, pc, views, disk>>

\* Mutant: the returned view is not ordered after its transfer.
HandOutAtOnce ==
  /\ pc = "fetch" /\ primed
  /\ consumed < MaxBatches
  /\ IF returned = None THEN UNCHANGED <<recorded, compute>>
     ELSE /\ recorded' = [recorded EXCEPT ![Consumed(returned)] = @ + 1]
          /\ compute' = compute \o <<Op("record", Consumed(returned))>>
  /\ views' = Append(views, [slot |-> nextSlot, batch |-> consumed])
  /\ pc' = "launch"
  /\ UNCHANGED <<setup, runtime, buffers, reached, transfer, disk>>

\* _next_cuda_batch up to the view it returns: mark the last view consumed and
\* keep the compute stream behind the transfer of this one.
HandOut ==
  /\ pc = "fetch" /\ primed
  /\ consumed < MaxBatches
  /\ LET mark == IF returned = None THEN <<>> ELSE <<Op("record", Consumed(returned))>>
     IN compute' = compute \o mark \o <<WaitFor(Ready(nextSlot))>>
  /\ recorded' = [e \in Events |->
                    recorded[e] + (IF e[1] = "consumed" /\ e[2] = returned THEN 1 ELSE 0)]
  /\ views' = Append(views, [slot |-> nextSlot, batch |-> consumed])
  /\ pc' = "launch"
  /\ UNCHANGED <<setup, runtime, buffers, reached, transfer, disk>>

\* Where the consumer goes once next_batch has returned.
AfterFetch(held) == IF Len(held) < Accum THEN "fetch" ELSE "use"

\* Mutant: the transfer does not wait for the reads of the slot's last batch.
OverwriteAtOnce ==
  LET slot == 1 - nextSlot
  IN /\ pc = "launch"
     /\ slotInit[slot] => reached[Ready(slot)] = recorded[Ready(slot)]
     /\ host' = [host EXCEPT ![slot] = Slice(Advance(cursor))]
     /\ transfer' = transfer \o <<Op("copy", slot), Op("record", Ready(slot))>>
     /\ recorded' = [recorded EXCEPT ![Ready(slot)] = @ + 1]
     /\ slotInit' = [slotInit EXCEPT ![slot] = TRUE]
     /\ returned' = nextSlot /\ nextSlot' = slot
     /\ cursor' = Advance(cursor) /\ consumed' = consumed + 1
     /\ pc' = AfterFetch(views)
     /\ UNCHANGED <<setup, primed, device, reached, compute, views, disk>>

\* _launch_prefetch of the other slot, and the end of next_batch.
Launch ==
  LET slot == 1 - nextSlot
      wait == IF returned = None THEN <<>> ELSE <<WaitFor(Consumed(returned))>>
  IN /\ pc = "launch"
     /\ slotInit[slot] => reached[Ready(slot)] = recorded[Ready(slot)]
     /\ host' = [host EXCEPT ![slot] = Slice(Advance(cursor))]
     /\ transfer' = transfer \o wait \o <<Op("copy", slot), Op("record", Ready(slot))>>
     /\ recorded' = [recorded EXCEPT ![Ready(slot)] = @ + 1]
     /\ slotInit' = [slotInit EXCEPT ![slot] = TRUE]
     /\ returned' = nextSlot /\ nextSlot' = slot
     /\ cursor' = Advance(cursor) /\ consumed' = consumed + 1
     /\ pc' = AfterFetch(views)
     /\ UNCHANGED <<setup, primed, device, reached, compute, views, disk>>

\* prepare() and forward() of the next microbatch only enqueue their reads.
Use ==
  /\ pc = "use" /\ views # <<>>
  /\ compute' = Append(compute, Read(Head(views)))
  /\ views' = Tail(views)
  /\ pc' = IF Len(views) = 1 THEN "stepEnd" ELSE "use"
  /\ UNCHANGED <<setup, runtime, buffers, events, transfer, disk>>

\* The train loop saves, when a checkpoint is due, before it synchronises.
Save ==
  /\ pc = "stepEnd" /\ setup.stepSync
  /\ saved' = [cursor |-> cursor, consumed |-> consumed]
  /\ saved' # saved
  /\ UNCHANGED <<setup, runtime, buffers, events, streams, pc, views, launch>>

EndStep ==
  /\ pc = "stepEnd"
  /\ setup.stepSync => transfer = <<>> /\ compute = <<>>
  /\ pc' = IF consumed < MaxBatches THEN "fetch" ELSE "done"
  /\ UNCHANGED <<setup, runtime, buffers, events, streams, views, disk>>

-----------------------------------------------------------------------------
(* The two streams: each runs its operations in order.                     *)

Copy ==
  /\ Runs(transfer, "copy")
  /\ LET slot == Head(transfer).of IN device' = [device EXCEPT ![slot] = host[slot]]
  /\ transfer' = Tail(transfer)
  /\ UNCHANGED <<setup, runtime, host, events, compute, pc, views, disk>>

ReadBatch ==
  /\ Runs(compute, "read")
  /\ compute' = Tail(compute)
  /\ UNCHANGED <<setup, runtime, buffers, events, transfer, pc, views, disk>>

TransferEvent ==
  /\ Runs(transfer, "record") \/ Runs(transfer, "wait")
  /\ LET op == Head(transfer) IN
       IF op.kind = "wait" THEN reached[op.of] >= op.n /\ UNCHANGED reached
       ELSE reached' = [reached EXCEPT ![op.of] = @ + 1]
  /\ transfer' = Tail(transfer)
  /\ UNCHANGED <<setup, runtime, buffers, recorded, compute, pc, views, disk>>

ComputeEvent ==
  /\ Runs(compute, "record") \/ Runs(compute, "wait")
  /\ LET op == Head(compute) IN
       IF op.kind = "wait" THEN reached[op.of] >= op.n /\ UNCHANGED reached
       ELSE reached' = [reached EXCEPT ![op.of] = @ + 1]
  /\ compute' = Tail(compute)
  /\ UNCHANGED <<setup, runtime, buffers, recorded, transfer, pc, views, disk>>

-----------------------------------------------------------------------------
(* A new process: fresh buffers, events and streams, the saved position.   *)

Fresh == [i \in 0 .. Needed - 1 |-> 0]

Restart ==
  /\ launch < MaxLaunch /\ pc # "done"
  /\ launch' = launch + 1
  /\ cursor' = saved.cursor % StreamLength /\ consumed' = saved.consumed
  /\ nextSlot' = 0 /\ returned' = None
  /\ primed' = FALSE /\ slotInit' = [s \in Slots |-> FALSE]
  /\ host' = [s \in Slots |-> Fresh] /\ device' = [s \in Slots |-> Fresh]
  /\ recorded' = [e \in Events |-> 0] /\ reached' = [e \in Events |-> 0]
  /\ transfer' = <<>> /\ compute' = <<>>
  /\ pc' = IF saved.consumed < MaxBatches THEN "fetch" ELSE "done"
  /\ views' = <<>>
  /\ UNCHANGED <<setup, saved>>

Finished ==
  /\ pc = "done" /\ transfer = <<>> /\ compute = <<>>
  /\ UNCHANGED vars

Init ==
  /\ setup \in Setups
  /\ cursor = 0 /\ consumed = 0
  /\ nextSlot = 0 /\ returned = None
  /\ primed = FALSE /\ slotInit = [s \in Slots |-> FALSE]
  /\ host = [s \in Slots |-> Fresh] /\ device = [s \in Slots |-> Fresh]
  /\ recorded = [e \in Events |-> 0] /\ reached = [e \in Events |-> 0]
  /\ transfer = <<>> /\ compute = <<>>
  /\ pc = "fetch" /\ views = <<>>
  /\ saved = [cursor |-> 0, consumed |-> 0] /\ launch = 1

Host == Prime \/ HandOut \/ Launch \/ Use \/ EndStep
TransferStream == Copy \/ TransferEvent
ComputeStream == ReadBatch \/ ComputeEvent
Next == Host \/ Save \/ TransferStream \/ ComputeStream \/ Restart \/ Finished

Spec == Init /\ [][Next]_vars

-----------------------------------------------------------------------------
Ops == [kind : {"copy"}, of : Slots, n : {0}]
  \union [kind : {"record"}, of : Events, n : {0}]
  \union [kind : {"wait"}, of : Events, n : Nat]
  \union [kind : {"read"}, of : Slots, n : Nat]

\* The state is well formed: positions stay inside the stream, a record of an
\* event is executed after it is issued, and a step holds at most Accum views.
TypeOK ==
  /\ setup \in Setups
  /\ cursor \in Positions /\ consumed \in Nat
  /\ nextSlot \in Slots /\ returned \in Slots \union {None}
  /\ primed \in BOOLEAN /\ slotInit \in [Slots -> BOOLEAN]
  /\ host \in [Slots -> [0 .. Needed - 1 -> Positions]]
  /\ device \in [Slots -> [0 .. Needed - 1 -> Positions]]
  /\ recorded \in [Events -> Nat] /\ reached \in [Events -> Nat]
  /\ transfer \in Seq(Ops) /\ compute \in Seq(Ops)
  /\ pc \in {"fetch", "launch", "use", "stepEnd", "done"}
  /\ views \in Seq([slot : Slots, batch : Nat]) /\ Len(views) <= Accum
  /\ saved \in [cursor : Positions, consumed : Nat]
  /\ launch \in 1 .. MaxLaunch
  /\ \A e \in Events : reached[e] <= recorded[e]

\* When the compute stream reaches a read, the device buffer holds the batch
\* that next_batch handed out, in every launch: next_optimizer_step_batches
\* returns "the complete, ordered microbatch set" and the views still hold it.
ReadsItsBatch ==
  Runs(compute, "read") => device[Head(compute).of] = Batch(Head(compute).n)

\* A transfer never writes a device buffer whose read may be running: "Device-
\* buffer reuse is protected separately by wait_event".
NeverOverwritesARead ==
  ~(Runs(compute, "read") /\ Runs(transfer, "copy")
    /\ Head(compute).of = Head(transfer).of)
=============================================================================
