------------------------ MODULE FeaturePrefetch_proofs ------------------------
(***************************************************************************)
(* Theorems about FeaturePrefetch, for every dataset, batch size, number   *)
(* of replicas and microbatches, whatever is saved, restored or restarted. *)
(***************************************************************************)
EXTENDS FeaturePrefetch, TLAPS

-----------------------------------------------------------------------------
(* Queues.                                                                 *)

\* What is queued, and the head of it.
LEMMA QueueDomain ==
  ASSUME NEW S, NEW q \in Seq(S)
  PROVE  /\ Len(q) \in Nat /\ DOMAIN q = 1 .. Len(q)
         /\ \A i \in DOMAIN q : q[i] \in S
         /\ q # <<>> => 1 \in DOMAIN q /\ Head(q) = q[1]
  OBVIOUS

\* What remains when the operation at the head has run.
LEMMA QueueTail ==
  ASSUME NEW S, NEW q \in Seq(S), q # <<>>
  PROVE  /\ Tail(q) \in Seq(S) /\ DOMAIN Tail(q) = 1 .. Len(q) - 1
         /\ \A i \in DOMAIN Tail(q) : i + 1 \in DOMAIN q /\ Tail(q)[i] = q[i + 1]
  OBVIOUS

\* What is enqueued goes behind the rest.
LEMMA QueueAppend ==
  ASSUME NEW S, NEW q \in Seq(S), NEW e \in S
  PROVE  /\ Append(q, e) \in Seq(S) /\ Len(Append(q, e)) = Len(q) + 1
         /\ DOMAIN Append(q, e) = DOMAIN q \union {Len(q) + 1}
         /\ \A i \in DOMAIN q : Append(q, e)[i] = q[i]
         /\ Append(q, e)[Len(q) + 1] = e
  OBVIOUS

\* Two at once, one after the other.
LEMMA QueueAppendTwo ==
  ASSUME NEW S, NEW q \in Seq(S), NEW d \in S, NEW e \in S
  PROVE  q \o <<d, e>> = Append(Append(q, d), e)
  OBVIOUS

\* Every operation of a queue updated in place.
LEMMA QueueMap ==
  ASSUME NEW S, NEW q \in Seq(S), NEW f, f = [i \in DOMAIN q |-> f[i]],
         \A i \in DOMAIN q : f[i] \in S
  PROVE  f \in Seq(S) /\ Len(f) = Len(q)
  OBVIOUS

-----------------------------------------------------------------------------
(* Positions modulo the number of samples.                                 *)

\* A number is its quotient and its remainder.
LEMMA Division ==
  ASSUME NEW x \in Int, NEW S \in Nat \ {0}
  PROVE  x = S * (x \div S) + (x % S) /\ x % S \in 0 .. S - 1 /\ x \div S \in Int
<1>1. x \div S \in Int
  OBVIOUS
<1>2. x % S \in 0 .. S - 1
  OBVIOUS
<1>3. x = S * (x \div S) + (x % S)
  OBVIOUS
<1> QED
  BY <1>1, <1>2, <1>3

\* The only multiple of S between -S and S is zero.
LEMMA NoMultipleBetween ==
  ASSUME NEW S \in Nat \ {0}, NEW k \in Int, S * k < S, -S < S * k
  PROVE  k = 0
<1>1. ASSUME k >= 1 PROVE FALSE
  <2>1. S * k >= S * 1
    BY <1>1
  <2> QED
    BY <2>1
<1>2. ASSUME k <= -1 PROVE FALSE
  <2>1. S * k <= S * (-1)
    BY <1>2
  <2> QED
    BY <2>1
<1> QED
  BY <1>1, <1>2

\* Only one number below S is left over.
LEMMA RemainderUnique ==
  ASSUME NEW S \in Nat \ {0}, NEW q \in Int, NEW r \in 0 .. S - 1
  PROVE  (S * q + r) % S = r
<1> DEFINE x == S * q + r
           d == x \div S
           m == x % S
<1>1. x \in Int /\ x = S * q + r
  OBVIOUS
<1>2. x = S * d + m /\ m \in 0 .. S - 1 /\ d \in Int
  BY <1>1, Division
<1> HIDE DEF x, d, m
<1>3. S * (d - q) = r - m
  BY <1>1, <1>2
<1>4. d - q = 0
  BY <1>2, <1>3, NoMultipleBetween
<1>5. m = r
  BY <1>2, <1>3, <1>4
<1> QED
  BY <1>5 DEF m, x

\* Going round the dataset changes nothing.
LEMMA RoundAndRound ==
  ASSUME NEW S \in Nat \ {0}, NEW q \in Int, NEW x \in Int
  PROVE  (x + S * q) % S = x % S
<1> DEFINE d == x \div S
           m == x % S
<1>1. x = S * d + m /\ m \in 0 .. S - 1 /\ d \in Int
  BY Division
<1> HIDE DEF d, m
<1>2. x + S * q = S * (d + q) + m
  BY <1>1
<1>3. (S * (d + q) + m) % S = m
  BY <1>1, RemainderUnique
<1> QED
  BY <1>2, <1>3 DEF m

\* A position may be reduced before it is scaled and moved.
LEMMA ReduceFirst ==
  ASSUME NEW S \in Nat \ {0}, NEW x \in Int, NEW f \in Int, NEW y \in Int
  PROVE  ((x % S) * f + y) % S = (x * f + y) % S
<1> DEFINE d == x \div S
           m == x % S
<1>1. x = S * d + m /\ m \in Int /\ d \in Int
  BY Division
<1> HIDE DEF d, m
<1>2. x * f + y = (m * f + y) + S * (d * f)
  <2>1. x * f = (S * d + m) * f
    BY <1>1
  <2>2. (S * d + m) * f = S * (d * f) + m * f
    BY <1>1
  <2>3. S * (d * f) \in Int /\ m * f \in Int
    BY <1>1
  <2> QED
    BY <2>1, <2>2, <2>3
<1>3. d * f \in Int /\ m * f + y \in Int
  BY <1>1
<1>4. ((m * f + y) + S * (d * f)) % S = (m * f + y) % S
  BY <1>3, RoundAndRound
<1> QED
  BY <1>2, <1>4 DEF m

\* The position after batch k, read off the position of batch k.
LEMMA NextPosition ==
  ASSUME NEW S \in Nat \ {0}, NEW k \in Nat, NEW b \in Nat
  PROVE  (((k * b) % S) + b) % S = ((k + 1) * b) % S
<1> DEFINE x == k * b
           d == x \div S
           m == x % S
<1>1. (k + 1) * b = x + b /\ x \in Int
  OBVIOUS
<1>2. x = S * d + m /\ m \in Int /\ d \in Int
  BY <1>1, Division
<1> HIDE DEF x, d, m
<1> DEFINE y == m + b
<1>3. x + b = y + S * d /\ y \in Int /\ b \in Int
  BY <1>2
<1> HIDE DEF y
<1>4. (y + S * d) % S = y % S
  BY <1>2, <1>3, RoundAndRound
<1>5. y % S = ((k + 1) * b) % S
  BY <1>1, <1>3, <1>4
<1> QED
  BY <1>5 DEF m, x, y

-----------------------------------------------------------------------------
(* The pipeline: which cursors its two batches are for.                    *)

Cursors == 0 .. setup.samples - 1

\* The slots of the pipeline and the worker's queue: a future that is still queued
\* has its job there, the device batch first.
PipelineInv ==
  /\ setup \in Setups
  /\ cursor \in Cursors /\ saved.cursor \in Cursors
  /\ device \in Slots /\ nextHost \in Slots
  /\ jobs = IF device.state = "queued"
            THEN IF nextHost.state = "queued"
                 THEN <<Submit("device", device.cursor), Submit("host", nextHost.cursor)>>
                 ELSE <<Submit("device", device.cursor)>>
            ELSE IF nextHost.state = "queued" THEN <<Submit("host", nextHost.cursor)>> ELSE <<>>
  /\ pc \in {"idle", "use", "advance", "load", "drain"}
  /\ nextHost # None
  /\ pc \in {"idle", "use", "load"} => /\ device # None /\ device.cursor = cursor
                                       /\ nextHost.cursor = NextCursor(cursor)
  /\ pc = "advance" => device = None /\ nextHost.cursor = cursor

LEMMA CursorType ==
  ASSUME setup \in Setups
  PROVE  /\ setup.samples \in Nat \ {0} /\ setup.batch \in Nat \ {0}
         /\ setup.replicas \in Nat \ {0} /\ setup.replica \in Nat
         /\ \A at \in Nat : NextCursor(at) \in Cursors /\ at % setup.samples \in Cursors
<1>1. /\ setup.samples \in Nat \ {0} /\ setup.batch \in Nat \ {0}
      /\ setup.replicas \in Nat \ {0} /\ setup.replica \in Nat
  BY SetupAssumption
<1> QED
  BY <1>1 DEF NextCursor, Cursors

LEMMA PipelineInit == Init => PipelineInv
<1> SUFFICES ASSUME Init PROVE PipelineInv
  OBVIOUS
<1>1. setup \in Setups /\ 0 \in Cursors /\ NextCursor(0) \in Cursors
  <2>1. setup \in Setups /\ 0 \in Nat
    BY DEF Init
  <2>2. 0 \in Cursors
    BY <2>1, CursorType DEF Cursors
  <2>3. NextCursor(0) \in Cursors
    BY <2>1, CursorType
  <2> QED
    BY <2>1, <2>2, <2>3
<1>2. /\ device \in Slots /\ device # None /\ device.state = "queued" /\ device.cursor = 0
      /\ nextHost \in Slots /\ nextHost # None /\ nextHost.state = "queued"
      /\ nextHost.cursor = NextCursor(0)
  BY <1>1 DEF Init, Slots, Future, NoBlock, None, Cursors
<1>3. /\ cursor = 0 /\ saved.cursor = 0 /\ pc = "idle"
      /\ jobs = <<Submit("device", 0), Submit("host", NextCursor(0))>>
  BY DEF Init
<1> QED
  BY <1>1, <1>2, <1>3 DEF PipelineInv

LEMMA PipelineStep == PipelineInv /\ [Next]_vars => PipelineInv'
<1> SUFFICES ASSUME PipelineInv, [Next]_vars PROVE PipelineInv'
  OBVIOUS
<1>0. /\ setup' = setup /\ setup \in Setups
      /\ \A at \in Nat : NextCursor(at) \in Cursors /\ at % setup.samples \in Cursors
  <2>1. setup' = setup
    BY DEF Next, Process, vars, TakeBatch, AdvancePrefetch, UseBatch, UseRest, DrainDevice, DrainHost,
           LoadState, Prepare, CopyRuns, ComputeRuns, Save, Restart
  <2> QED
    BY <2>1, CursorType DEF PipelineInv, NextCursor
<1>00. Cursors \subseteq Nat /\ 0 \in Cursors /\ Cursors' = Cursors
  BY <1>0, CursorType DEF Cursors
<1> USE DEF source, gpu, NextCursor
\* Steps that leave the pipeline alone.
<1>1. ASSUME UNCHANGED <<cursor, device, nextHost, jobs>>,
             saved' = saved \/ saved' = [cursor |-> cursor, consumed |-> consumed],
             pc' = pc \/ {pc, pc'} \subseteq {"idle", "use"}
      PROVE  PipelineInv'
  <2>1. saved'.cursor \in Cursors
    BY <1>1 DEF PipelineInv
  <2>2. Slots' = Slots
    BY <1>0 DEF Slots
  <2> QED
    BY <1>0, <1>00, <1>1, <2>1, <2>2 DEF PipelineInv
<1>2. CASE CopyRuns \/ ComputeRuns \/ UseBatch \/ UseRest \/ Save \/ UNCHANGED vars
  BY <1>1, <1>2 DEF CopyRuns, ComputeRuns, UseBatch, UseRest, Save, vars
<1>3. CASE Prepare
  <2>1. CASE Head(jobs).kind = "host"
    <3>1. /\ device.state # "queued" /\ nextHost.state = "queued"
          /\ jobs = <<Submit("host", nextHost.cursor)>>
      BY <1>3, <2>1 DEF Prepare, PipelineInv, Submit
    <3>2. /\ UNCHANGED <<cursor, saved, pc, device>> /\ jobs' = <<>>
          /\ nextHost' = [nextHost EXCEPT !.state = "done"]
      BY <1>3, <2>1, <3>1 DEF Prepare
    <3>3. nextHost \in Slots /\ nextHost # None
      BY DEF PipelineInv
    <3>4. /\ nextHost' \in Slots /\ nextHost' # None
          /\ nextHost'.cursor = nextHost.cursor /\ nextHost'.state = "done"
      BY <3>2, <3>3 DEF Slots, None
    <3> QED
      BY <1>0, <1>00, <3>1, <3>2, <3>4 DEF PipelineInv, Slots
  <2>2. CASE Head(jobs).kind # "host"
    <3>1. /\ device.state = "queued"
          /\ Head(jobs) = Submit("device", device.cursor)
          /\ Tail(jobs) = IF nextHost.state = "queued" THEN <<Submit("host", nextHost.cursor)>>
                          ELSE <<>>
      BY <1>3, <2>2 DEF Prepare, PipelineInv, Submit
    <3>2. device.cursor \in Cursors /\ device # None
      BY <3>1 DEF PipelineInv, Slots, None, Cursors
    <3>3. PICK b \in Blocks : device' = [state |-> "done", cursor |-> device.cursor, block |-> b]
      BY <1>3, <2>2, <3>1 DEF Prepare, Submit
    <3>4. UNCHANGED <<cursor, saved, pc, nextHost>> /\ jobs' = Tail(jobs)
      BY <1>3, <2>2 DEF Prepare
    <3>5. device' \in Slots /\ device' # None
      BY <1>0, <3>2, <3>3 DEF Slots, None, Cursors
    <3> QED
      BY <1>0, <1>00, <3>1, <3>2, <3>3, <3>4, <3>5 DEF PipelineInv, Slots
  <2> QED
    BY <2>1, <2>2
<1>4. CASE TakeBatch
  <2>1. device.cursor = cursor /\ device.state = "done" /\ nextHost.cursor = NextCursor(cursor)
    BY <1>4 DEF TakeBatch, PipelineInv
  <2>2. /\ device' = None /\ cursor' = NextCursor(cursor) /\ pc' = "advance"
        /\ UNCHANGED <<nextHost, jobs, saved>>
    BY <1>4, <2>1 DEF TakeBatch
  <2> QED
    BY <1>0, <1>00, <2>1, <2>2 DEF PipelineInv, Slots, None
<1>5. CASE AdvancePrefetch
  <2>1. device = None /\ nextHost.cursor = cursor /\ nextHost.state = "done" /\ jobs = <<>>
    BY <1>5 DEF AdvancePrefetch, PipelineInv, None
  <2>2. PICK b \in Blocks : device' = [state |-> "done", cursor |-> cursor, block |-> b]
    BY <1>5, <2>1 DEF AdvancePrefetch
  <2>3. /\ jobs' = <<Submit("host", NextCursor(cursor))>> /\ nextHost' = Future(NextCursor(cursor))
        /\ pc' = "idle" /\ UNCHANGED <<cursor, saved>>
    BY <1>5, <2>1 DEF AdvancePrefetch
  <2>4. NextCursor(cursor) \in Cursors /\ cursor \in Cursors
    BY <1>0, <1>00 DEF PipelineInv
  <2>5. /\ device' \in Slots' /\ device' # None /\ device'.cursor = cursor /\ device'.state = "done"
        /\ nextHost' \in Slots' /\ nextHost' # None /\ nextHost'.state = "queued"
        /\ nextHost'.cursor = NextCursor(cursor)
    BY <1>0, <2>2, <2>3, <2>4 DEF Slots, None, Future, NoBlock, Cursors
  <2> QED
    BY <1>0, <1>00, <2>3, <2>4, <2>5 DEF PipelineInv
<1>6. CASE LoadState
  BY <1>0, <1>00, <1>6 DEF LoadState, PipelineInv, Slots
<1>7. CASE DrainDevice
  BY <1>0, <1>00, <1>7 DEF DrainDevice, PipelineInv, Slots, None
<1>8. CASE DrainHost \/ Restart
  <2>1. \E at \in Cursors :
          /\ cursor' = at /\ saved' = saved /\ pc' \in {"idle", "load"}
          /\ device' = Future(at) /\ nextHost' = Future(NextCursor(at))
          /\ jobs' = <<Submit("device", at), Submit("host", NextCursor(at))>>
    <3>1. CASE DrainHost
      <4>1. jobs = <<>>
        BY <3>1 DEF DrainHost, PipelineInv, None
      <4>2. \A d, e : <<>> \o <<d, e>> = <<d, e>>
        OBVIOUS
      <4> QED
        BY <3>1, <4>1, <4>2 DEF DrainHost, PipelineInv
    <3>2. CASE Restart
      BY <1>00, <3>2 DEF Restart
    <3> QED
      BY <1>8, <3>1, <3>2
  <2>2. PICK at \in Cursors :
          /\ cursor' = at /\ saved' = saved /\ pc' \in {"idle", "load"}
          /\ device' = Future(at) /\ nextHost' = Future(NextCursor(at))
          /\ jobs' = <<Submit("device", at), Submit("host", NextCursor(at))>>
    BY <2>1
  <2>3. NextCursor(at) \in Cursors
    BY <1>0, <1>00
  <2>4. /\ device' \in Slots' /\ device' # None /\ device'.cursor = at /\ device'.state = "queued"
        /\ nextHost' \in Slots' /\ nextHost' # None /\ nextHost'.state = "queued"
        /\ nextHost'.cursor = NextCursor(at)
    BY <1>0, <2>2, <2>3 DEF Slots, None, Future, NoBlock, Cursors
  <2> QED
    BY <1>0, <1>00, <2>2, <2>4 DEF PipelineInv
<1> QED
  BY <1>2, <1>3, <1>4, <1>5, <1>6, <1>7, <1>8 DEF Next, Process

\* Between two calls one batch is on its way to the device and the next one is being
\* prepared, for the cursors next_batch will ask for; it never finds a batch out of
\* sequence.
THEOREM AlwaysPipelined == Spec => []Pipelined
<1>1. PipelineInv => Pipelined
  BY DEF PipelineInv, Pipelined
<1> QED
  BY PipelineInit, PipelineStep, <1>1, PTL DEF Spec

-----------------------------------------------------------------------------
(* What a step does to the streams, the memory and the device batch.       *)

Rows == [0 .. setup.batch - 1 -> Cursors]

SamplesOf(s, at) ==
  [i \in 0 .. s.batch - 1 |-> (at * s.replicas + s.replica * s.batch + i) % s.samples]

BatchOf(s, k) ==
  [i \in 0 .. s.batch - 1 |-> ((k * s.replicas + s.replica) * s.batch + i) % s.samples]

Quiet ==
  /\ UNCHANGED <<setup, gpu, views>>
  /\ device'.state = "done" => device' = device
  /\ pc' = "use" => pc = "use"

CopyStep(b, at) ==
  /\ memory[b] = "free"
  /\ memory' = [memory EXCEPT ![b] = "held"]
  /\ transfer' = Append(transfer, [block |-> b, samples |-> SamplesOf(setup, at)])
  /\ device' = [state |-> "done", cursor |-> at, block |-> b]
  /\ pc' = "use" => pc = "use"
  /\ UNCHANGED <<setup, views, contents, compute>>

TakeStep ==
  /\ device.state = "done" /\ device.cursor = cursor
  /\ compute' = WaitReady(device.block)
  /\ views' = Append(views, [block |-> device.block, batch |-> consumed])
  /\ device' = None /\ pc' = "advance"
  /\ UNCHANGED <<setup, memory, contents, transfer>>

UseStep ==
  /\ views # <<>>
  /\ ReadAndRelease(Head(views))
  /\ views' = Tail(views)
  /\ pc' = "use" => Len(views) # 1
  /\ UNCHANGED <<setup, device, contents, transfer>>

LEMMA StreamEffects ==
  ASSUME PipelineInv, pc = "use" => views # <<>>, [Next]_vars
  PROVE  \/ Quiet \/ CopyRuns \/ ComputeRuns \/ TakeStep \/ UseStep \/ DrainDevice \/ Restart
         \/ \E b \in Blocks, at \in Cursors : CopyStep(b, at)
<1> USE DEF source, gpu
<1>0. setup' = setup
  BY DEF Next, Process, vars, TakeBatch, AdvancePrefetch, UseBatch, UseRest, DrainDevice, DrainHost,
         LoadState, Prepare, CopyRuns, ComputeRuns, Save, Restart
<1>00. cursor \in Cursors
  BY DEF PipelineInv
<1>1. CASE Save \/ LoadState \/ DrainHost \/ UNCHANGED vars
  BY <1>1 DEF Save, LoadState, DrainHost, vars, Quiet, Future
<1>2. CASE Prepare
  <2>1. CASE Head(jobs).kind = "host"
    BY <1>2, <2>1 DEF Prepare, Quiet
  <2>2. CASE Head(jobs).kind # "host"
    <3>1. Head(jobs) = Submit("device", device.cursor) /\ device.state = "queued"
      BY <1>2, <2>2 DEF Prepare, PipelineInv, Submit
    <3>2. device.cursor \in Cursors
      BY <3>1 DEF PipelineInv, Slots, None, Cursors
    <3>3. PICK b \in Blocks : /\ CopyTo(b, Samples(device.cursor))
                              /\ device' = [state |-> "done", cursor |-> device.cursor, block |-> b]
      BY <1>2, <2>2, <3>1 DEF Prepare, Submit
    <3>4. CopyStep(b, device.cursor)
      BY <1>2, <3>3 DEF Prepare, CopyStep, CopyTo, Samples, SamplesOf
    <3> QED
      BY <3>2, <3>4
  <2> QED
    BY <2>1, <2>2
<1>3. CASE TakeBatch
  <2>1. device.cursor = cursor
    BY <1>3 DEF TakeBatch, PipelineInv
  <2> QED
    BY <1>3, <2>1 DEF TakeBatch, TakeStep
<1>4. CASE AdvancePrefetch
  <2>1. nextHost.cursor = cursor
    BY <1>4 DEF AdvancePrefetch, PipelineInv
  <2>2. PICK b \in Blocks : /\ CopyTo(b, Samples(cursor))
                            /\ device' = [state |-> "done", cursor |-> cursor, block |-> b]
    BY <1>4, <2>1 DEF AdvancePrefetch
  <2>3. CopyStep(b, cursor)
    BY <1>4, <2>1, <2>2 DEF AdvancePrefetch, CopyStep, CopyTo, Samples, SamplesOf
  <2> QED
    BY <1>00, <2>3
<1>5. CASE UseBatch \/ UseRest
  BY <1>5 DEF UseBatch, UseRest, UseStep
<1> QED
  BY <1>1, <1>2, <1>3, <1>4, <1>5 DEF Next, Process

-----------------------------------------------------------------------------
(* The streams: what keeps a block from being written while it is used.    *)

Use == [kind : {"wait", "read", "release"}, block : Blocks, n : Nat]
Copy == [block : Blocks, samples : Rows]
View == [block : Blocks, batch : Nat]

StreamTypes ==
  /\ setup \in Setups
  /\ transfer \in Seq(Copy) /\ compute \in Seq(Use) /\ views \in Seq(View)
  /\ memory \in [Blocks -> {"held", "awaited", "free"}]
  /\ contents \in [Blocks -> Rows \union {<<>>}]
  /\ consumed \in Nat /\ saved.consumed \in Nat
  /\ device.state = "done" => device.block \in Blocks

\* Before its m-th operation the stream in "uses" waits for every copy to b.
Waited(copies, uses, b, m) ==
  \A n \in DOMAIN copies : copies[n].block = b =>
    \E j \in DOMAIN uses : /\ j < m /\ uses[j].kind = "wait" /\ uses[j].block = b
                           /\ n <= uses[j].n

\* Every block that is not free has one use: it is copied to once, and belongs to the
\* device batch, to one view, or to the kernels before the one release that awaits them.
CopyInv ==
  /\ \A n \in DOMAIN transfer : memory[transfer[n].block] # "free"
  /\ \A n, m \in DOMAIN transfer : transfer[n].block = transfer[m].block => n = m

ReleaseInv ==
  /\ \A m \in DOMAIN compute : compute[m].kind # "wait" =>
       memory[compute[m].block] = "awaited" /\ Waited(transfer, compute, compute[m].block, m)
  /\ \A l, m \in DOMAIN compute :
       compute[l].kind = "release" /\ compute[m].kind = "release"
         /\ compute[l].block = compute[m].block => l = m
  /\ \A m \in DOMAIN compute : compute[m].kind = "read" =>
       \E l \in DOMAIN compute : /\ l > m /\ compute[l].kind = "release"
                                 /\ compute[l].block = compute[m].block

HolderInv ==
  /\ \A i \in DOMAIN views : /\ memory[views[i].block] = "held"
                             /\ Waited(transfer, compute, views[i].block, Len(compute) + 1)
  /\ \A i, j \in DOMAIN views : views[i].block = views[j].block => i = j
  /\ device.state = "done" =>
       /\ memory[device.block] = "held"
       /\ \A i \in DOMAIN views : views[i].block # device.block
  /\ pc = "use" => views # <<>>

StreamInv == StreamTypes /\ CopyInv /\ ReleaseInv /\ HolderInv

-----------------------------------------------------------------------------
(* The contents: whose samples a block will hold when it is read.          *)

PositionInv ==
  /\ consumed \in Nat /\ saved.consumed \in Nat
  /\ cursor = (consumed * setup.batch) % setup.samples
  /\ saved.cursor = (saved.consumed * setup.batch) % setup.samples

\* What is in the block once the copies to it have run.
Holds(copies, now, b, rows) ==
  /\ \A n \in DOMAIN copies : copies[n].block = b => copies[n].samples = rows
  /\ (\A n \in DOMAIN copies : copies[n].block # b) => now[b] = rows

ContentsInv ==
  /\ device.state = "done" =>
       Holds(transfer, contents, device.block, SamplesOf(setup, device.cursor))
  /\ \A i \in DOMAIN views :
       Holds(transfer, contents, views[i].block, BatchOf(setup, views[i].batch))
  /\ \A m \in DOMAIN compute : compute[m].kind = "read" =>
       Holds(transfer, contents, compute[m].block, BatchOf(setup, compute[m].n))

LEMMA PositionInit == Init => PositionInv
<1> SUFFICES ASSUME Init PROVE PositionInv
  OBVIOUS
<1>1. setup \in Setups
  BY DEF Init
<1>2. (0 * setup.batch) % setup.samples = 0
  BY <1>1, CursorType
<1> QED
  BY <1>2 DEF Init, PositionInv

LEMMA PositionStep == PipelineInv /\ PositionInv /\ [Next]_vars => PositionInv'
<1> SUFFICES ASSUME PipelineInv, PositionInv, [Next]_vars PROVE PositionInv'
  OBVIOUS
<1> USE DEF source, gpu
<1>0. setup' = setup
  BY DEF Next, Process, vars, TakeBatch, AdvancePrefetch, UseBatch, UseRest, DrainDevice, DrainHost,
         LoadState, Prepare, CopyRuns, ComputeRuns, Save, Restart
<1>1. setup.samples \in Nat \ {0} /\ setup.batch \in Nat \ {0}
  BY CursorType DEF PipelineInv
<1>2. CASE \/ CopyRuns \/ ComputeRuns \/ Prepare \/ AdvancePrefetch \/ UseBatch \/ UseRest
           \/ DrainDevice \/ DrainHost \/ UNCHANGED vars
  <2>1. UNCHANGED <<setup, cursor, consumed, saved>>
    BY <1>0, <1>2 DEF CopyRuns, ComputeRuns, Prepare, AdvancePrefetch, UseBatch, UseRest,
                      DrainDevice, DrainHost, vars
  <2> QED
    BY <2>1 DEF PositionInv
<1>3. CASE Save
  BY <1>0, <1>3 DEF Save, PositionInv
<1>4. CASE LoadState
  <2>1. saved.cursor % setup.samples = saved.cursor
    BY <1>1 DEF PipelineInv, Cursors
  <2> QED
    BY <1>0, <1>4, <2>1 DEF LoadState, PositionInv
<1>5. CASE Restart
  <2>1. (0 * setup.batch) % setup.samples = 0
    BY <1>1
  <2> QED
    BY <1>0, <1>5, <2>1 DEF Restart, PositionInv
<1>6. CASE TakeBatch
  <2>1. /\ cursor' = (cursor + setup.batch) % setup.samples /\ consumed' = consumed + 1
        /\ UNCHANGED <<setup, saved>>
    BY <1>0, <1>6 DEF TakeBatch, PipelineInv, NextCursor
  <2>2. (((consumed * setup.batch) % setup.samples) + setup.batch) % setup.samples
          = ((consumed + 1) * setup.batch) % setup.samples
    BY <1>1, NextPosition DEF PositionInv
  <2> QED
    BY <2>1, <2>2 DEF PositionInv
<1> QED
  BY <1>2, <1>3, <1>4, <1>5, <1>6 DEF Next, Process

\* The samples for the cursor of batch k are those of batch k.
LEMMA CursorOfBatch ==
  ASSUME setup \in Setups, NEW k \in Nat
  PROVE  SamplesOf(setup, (k * setup.batch) % setup.samples) = BatchOf(setup, k)
<1> DEFINE S == setup.samples  B == setup.batch  R == setup.replicas  r == setup.replica
<1>1. S \in Nat \ {0} /\ B \in Nat \ {0} /\ R \in Nat \ {0} /\ r \in Nat
  BY CursorType
<1>2. /\ SamplesOf(setup, (k * B) % S)
           = [i \in 0 .. B - 1 |-> (((k * B) % S) * R + r * B + i) % S]
      /\ BatchOf(setup, k) = [i \in 0 .. B - 1 |-> ((k * R + r) * B + i) % S]
  BY DEF SamplesOf, BatchOf
<1> HIDE DEF S, B, R, r
<1>3. ASSUME NEW i \in 0 .. B - 1
      PROVE  (((k * B) % S) * R + r * B + i) % S = ((k * R + r) * B + i) % S
  <2>1. k * B \in Int /\ r * B + i \in Int /\ R \in Int
    BY <1>1
  <2>2. (((k * B) % S) * R + (r * B + i)) % S = ((k * B) * R + (r * B + i)) % S
    BY <1>1, <2>1, ReduceFirst
  <2>3. (k * B) * R + (r * B + i) = (k * R + r) * B + i
    BY <1>1
  <2>4. ((k * B) % S) * R + (r * B + i) = ((k * B) % S) * R + r * B + i
    BY <1>1
  <2> QED
    BY <2>2, <2>3, <2>4
<1>4. [i \in 0 .. B - 1 |-> (((k * B) % S) * R + r * B + i) % S]
        = [i \in 0 .. B - 1 |-> ((k * R + r) * B + i) % S]
  BY <1>3, Zenon
<1>5. SamplesOf(setup, (k * B) % S) = BatchOf(setup, k)
  BY <1>2, <1>4, Zenon
<1> QED
  BY <1>5 DEF S, B

LEMMA SamplesType ==
  ASSUME setup \in Setups
  PROVE  /\ \A at \in Cursors : SamplesOf(setup, at) \in Rows
         /\ \A k \in Nat : BatchOf(setup, k) \in Rows
<1> DEFINE S == setup.samples  B == setup.batch  R == setup.replicas  r == setup.replica
<1>1. S \in Nat \ {0} /\ B \in Nat \ {0} /\ R \in Nat \ {0} /\ r \in Nat
  BY CursorType
<1>2. /\ \A at : SamplesOf(setup, at) = [i \in 0 .. B - 1 |-> (at * R + r * B + i) % S]
      /\ \A k : BatchOf(setup, k) = [i \in 0 .. B - 1 |-> ((k * R + r) * B + i) % S]
      /\ Rows = [0 .. B - 1 -> 0 .. S - 1] /\ Cursors = 0 .. S - 1
  BY DEF SamplesOf, BatchOf, Rows, Cursors
<1> HIDE DEF S, B, R, r
<1>3. \A x \in Int : x % S \in 0 .. S - 1
  BY <1>1
<1>4. ASSUME NEW at \in Nat, NEW i \in 0 .. B - 1
      PROVE  at * R + r * B + i \in Int /\ (at * R + r) * B + i \in Int
  <2>1. at * R \in Nat /\ r * B \in Nat
    BY <1>1
  <2>2. (at * R + r) * B \in Nat
    BY <1>1, <2>1
  <2> QED
    BY <2>1, <2>2
<1>5. \A at \in Nat, i \in 0 .. B - 1 : /\ (at * R + r * B + i) % S \in 0 .. S - 1
                                        /\ ((at * R + r) * B + i) % S \in 0 .. S - 1
  BY <1>3, <1>4, Zenon
<1>6. Cursors \subseteq Nat
  BY <1>1, <1>2
<1>7. ASSUME NEW at \in Nat PROVE SamplesOf(setup, at) \in Rows /\ BatchOf(setup, at) \in Rows
  BY <1>2, <1>5, Zenon
<1> QED
  BY <1>6, <1>7

-----------------------------------------------------------------------------
(* Proof of the stream invariant.                                          *)

LEMMA StreamInit == Init => StreamInv
<1> SUFFICES ASSUME Init PROVE StreamInv
  OBVIOUS
<1>1. /\ transfer = <<>> /\ compute = <<>> /\ views = <<>> /\ pc = "idle"
      /\ setup \in Setups /\ memory = [b \in Blocks |-> "free"]
      /\ contents = [b \in Blocks |-> <<>>]
      /\ consumed \in Nat /\ saved.consumed \in Nat /\ device.state = "queued"
  BY DEF Init, Future
<1>2. /\ transfer \in Seq(Copy) /\ compute \in Seq(Use) /\ views \in Seq(View)
      /\ DOMAIN transfer = {} /\ DOMAIN compute = {} /\ DOMAIN views = {}
  BY <1>1
<1>3. StreamTypes
  BY <1>1, <1>2 DEF StreamTypes
<1> QED
  BY <1>1, <1>2, <1>3 DEF StreamInv, CopyInv, ReleaseInv, HolderInv

\* WaitReady counts the one copy to its block, if there is one.
LEMMA WaitReadyWaits ==
  ASSUME StreamTypes, CopyInv, NEW b \in Blocks
  PROVE  \E n \in Nat : /\ WaitReady(b) = Append(compute, [kind |-> "wait", block |-> b, n |-> n])
                        /\ \A k \in DOMAIN transfer : transfer[k].block = b => k <= n
<1>1. DOMAIN transfer \subseteq Nat
  BY QueueDomain DEF StreamTypes
<1>2. CASE Copying(b)
  <2>1. PICK n \in DOMAIN transfer : transfer[n].block = b
    BY <1>2 DEF Copying, Copies
  <2>2. Copies(b) = {n}
    BY <2>1 DEF CopyInv, Copies
  <2>3. (CHOOSE k \in Copies(b) : \A m \in Copies(b) : m <= k) = n
    BY <1>1, <2>1, <2>2
  <2>4. \A k \in DOMAIN transfer : transfer[k].block = b => k <= n
    BY <1>1, <2>1, <2>2 DEF Copies
  <2> QED
    BY <1>1, <1>2, <2>3, <2>4 DEF WaitReady, Op
<1>3. CASE ~Copying(b)
  <2>1. \A k \in DOMAIN transfer : transfer[k].block # b
    BY <1>3 DEF Copying, Copies
  <2> QED
    BY <1>3, <2>1 DEF WaitReady, Op
<1> QED
  BY <1>2, <1>3

\* What CopyRuns makes of the stream that waits.
LEMMA CopyCounts ==
  ASSUME StreamTypes, CopyRuns
  PROVE  /\ compute' \in Seq(Use) /\ Len(compute') = Len(compute)
         /\ DOMAIN compute' = DOMAIN compute
         /\ \A m \in DOMAIN compute :
              /\ compute'[m].kind = compute[m].kind /\ compute'[m].block = compute[m].block
              /\ compute[m].kind # "wait" => compute'[m] = compute[m]
              /\ compute[m].kind = "wait" => compute[m].n - 1 <= compute'[m].n
<1>1. compute' = [m \in DOMAIN compute |->
                    IF compute[m].kind = "wait" /\ compute[m].n > 0
                    THEN [compute[m] EXCEPT !.n = @ - 1] ELSE compute[m]]
  BY DEF CopyRuns
<1>2. compute \in Seq(Use) /\ \A m \in DOMAIN compute : compute[m] \in Use
  BY QueueDomain DEF StreamTypes
<1>3. DOMAIN compute' = DOMAIN compute
  BY <1>1
<1>4. ASSUME NEW m \in DOMAIN compute
      PROVE  /\ compute'[m] \in Use
             /\ compute'[m].kind = compute[m].kind /\ compute'[m].block = compute[m].block
             /\ compute[m].kind # "wait" => compute'[m] = compute[m]
             /\ compute[m].kind = "wait" => compute[m].n - 1 <= compute'[m].n
  <2>1. compute[m] \in Use
    BY <1>2
  <2>2. CASE compute[m].kind = "wait" /\ compute[m].n > 0
    BY <1>1, <2>1, <2>2 DEF Use
  <2>3. CASE ~(compute[m].kind = "wait" /\ compute[m].n > 0)
    BY <1>1, <2>1, <2>3 DEF Use
  <2> QED
    BY <2>2, <2>3
<1>5. compute' = [m \in DOMAIN compute |-> compute'[m]]
  BY <1>1
<1>6. compute' \in Seq(Use) /\ Len(compute') = Len(compute)
  BY <1>2, <1>4, <1>5, QueueMap
<1> QED
  BY <1>3, <1>4, <1>6

LEMMA TypesStep == PipelineInv /\ PositionInv' /\ StreamInv /\ [Next]_vars => StreamTypes'
<1> SUFFICES ASSUME PipelineInv, PositionInv', StreamInv, [Next]_vars PROVE StreamTypes'
  OBVIOUS
<1> USE DEF source, gpu
<1>0. setup' = setup /\ setup \in Setups /\ Cursors' = Cursors /\ Rows' = Rows
      /\ Copy' = Copy
  <2>1. setup' = setup
    BY DEF Next, Process, vars, TakeBatch, AdvancePrefetch, UseBatch, UseRest, DrainDevice, DrainHost,
           LoadState, Prepare, CopyRuns, ComputeRuns, Save, Restart
  <2> QED
    BY <2>1 DEF StreamInv, StreamTypes, Cursors, Rows, Copy
<1>00. StreamTypes /\ CopyInv /\ HolderInv /\ consumed' \in Nat /\ saved'.consumed \in Nat
  BY DEF StreamInv, PositionInv
<1>1. CASE Quiet
  BY <1>0, <1>00, <1>1 DEF Quiet, StreamTypes
<1>2. CASE CopyRuns
  <2>1. compute' \in Seq(Use)
    BY <1>00, <1>2, CopyCounts
  <2>2. transfer # <<>> /\ transfer' = Tail(transfer)
    BY <1>2 DEF CopyRuns
  <2>3. transfer' \in Seq(Copy) /\ Head(transfer) \in Copy
    BY <1>00, <2>2, QueueTail, QueueDomain DEF StreamTypes
  <2>4. contents' = [contents EXCEPT ![Head(transfer).block] = Head(transfer).samples]
    BY <1>2 DEF CopyRuns
  <2>5. contents' \in [Blocks -> Rows \union {<<>>}]
    BY <1>00, <2>3, <2>4 DEF StreamTypes, Copy
  <2>6. UNCHANGED <<views, memory, device>>
    BY <1>2 DEF CopyRuns
  <2> QED
    BY <1>0, <1>00, <2>1, <2>3, <2>5, <2>6 DEF StreamTypes
<1>3. CASE ComputeRuns
  <2>1. compute # <<>> /\ compute' = Tail(compute) /\ UNCHANGED <<views, contents, transfer, device>>
    BY <1>3 DEF ComputeRuns
  <2>2. compute' \in Seq(Use) /\ Head(compute) \in Use
    BY <1>00, <2>1, QueueTail, QueueDomain DEF StreamTypes
  <2>3. memory' = [memory EXCEPT ![Head(compute).block] = "free"] \/ memory' = memory
    BY <1>3 DEF ComputeRuns
  <2>4. memory' \in [Blocks -> {"held", "awaited", "free"}]
    BY <1>00, <2>2, <2>3 DEF StreamTypes, Use
  <2> QED
    BY <1>0, <1>00, <2>1, <2>2, <2>4 DEF StreamTypes
<1>4. CASE TakeStep
  <2>1. device.block \in Blocks
    BY <1>00, <1>4 DEF TakeStep, StreamTypes
  <2>2. PICK n \in Nat : compute' = Append(compute, [kind |-> "wait", block |-> device.block, n |-> n])
    BY <1>00, <1>4, <2>1, WaitReadyWaits DEF TakeStep
  <2>3. [kind |-> "wait", block |-> device.block, n |-> n] \in Use
    BY <2>1 DEF Use
  <2>4. compute' \in Seq(Use)
    BY <1>00, <2>2, <2>3, QueueAppend DEF StreamTypes
  <2>5. [block |-> device.block, batch |-> consumed] \in View
    BY <1>00, <2>1 DEF View, StreamTypes
  <2>6. views' \in Seq(View)
    BY <1>00, <1>4, <2>5, QueueAppend DEF TakeStep, StreamTypes
  <2> QED
    BY <1>0, <1>00, <1>4, <2>4, <2>6 DEF StreamTypes, TakeStep, None
<1>5. CASE UseStep
  <2>1. Head(views) \in View /\ Tail(views) \in Seq(View)
    BY <1>00, <1>5, QueueDomain, QueueTail DEF UseStep, StreamTypes
  <2> DEFINE r == Op("read", Head(views).block, Head(views).batch)
             f == Op("release", Head(views).block, 0)
  <2>2. r \in Use /\ f \in Use
    BY <2>1 DEF Op, Use, View
  <2>3. compute' = compute \o <<r, f>>
        /\ memory' = [memory EXCEPT ![Head(views).block] = "awaited"]
    BY <1>5 DEF UseStep, ReadAndRelease
  <2> HIDE DEF r, f
  <2>4. compute' \in Seq(Use)
    <3>1. compute' = Append(Append(compute, r), f)
      BY <1>00, <2>2, <2>3, QueueAppendTwo DEF StreamTypes
    <3>2. Append(compute, r) \in Seq(Use)
      BY <1>00, <2>2, QueueAppend DEF StreamTypes
    <3> QED
      BY <2>2, <3>1, <3>2, QueueAppend
  <2>5. memory' \in [Blocks -> {"held", "awaited", "free"}]
    BY <1>00, <2>1, <2>3 DEF StreamTypes, View
  <2> QED
    BY <1>0, <1>00, <1>5, <2>1, <2>4, <2>5 DEF StreamTypes, UseStep
<1>6. CASE DrainDevice
  <2>1. memory' \in [Blocks -> {"held", "awaited", "free"}]
    BY <1>00, <1>6 DEF StreamTypes, DrainDevice
  <2> QED
    BY <1>0, <1>00, <1>6, <2>1 DEF StreamTypes, DrainDevice, None
<1>7. CASE Restart
  <2>1. /\ transfer' = <<>> /\ compute' = <<>> /\ views' = <<>> /\ device'.state = "queued"
        /\ memory' = [b \in Blocks |-> "free"] /\ contents' = [b \in Blocks |-> <<>>]
    BY <1>7 DEF Restart, Future
  <2>2. transfer' \in Seq(Copy) /\ compute' \in Seq(Use) /\ views' \in Seq(View)
    BY <2>1
  <2> QED
    BY <1>0, <1>00, <2>1, <2>2 DEF StreamTypes
<1>8. ASSUME NEW b \in Blocks, NEW at \in Cursors, CopyStep(b, at) PROVE StreamTypes'
  <2>1. SamplesOf(setup, at) \in Rows
    BY <1>0, SamplesType
  <2>2. [block |-> b, samples |-> SamplesOf(setup, at)] \in Copy
    BY <2>1 DEF Copy
  <2>3. transfer' \in Seq(Copy)
    BY <1>00, <1>8, <2>2, QueueAppend DEF CopyStep, StreamTypes
  <2>4. memory' \in [Blocks -> {"held", "awaited", "free"}]
    BY <1>00, <1>8 DEF CopyStep, StreamTypes
  <2>5. device'.block = b
    BY <1>8 DEF CopyStep
  <2>6. UNCHANGED <<views, contents, compute>>
    BY <1>8 DEF CopyStep
  <2> QED
    BY <1>0, <1>00, <2>3, <2>4, <2>5, <2>6 DEF StreamTypes
<1>9. pc = "use" => views # <<>>
  BY <1>00 DEF HolderInv
<1> QED
  BY <1>1, <1>2, <1>3, <1>4, <1>5, <1>6, <1>7, <1>8, <1>9, StreamEffects

\* Waits stay waits when operations are added behind them.
LEMMA WaitedLonger ==
  ASSUME NEW copies, NEW uses \in Seq(Use), NEW e \in Use, NEW b, NEW m \in Nat, NEW k \in Nat,
         m <= k, Waited(copies, uses, b, m)
  PROVE  Waited(copies, Append(uses, e), b, k)
<1>1. /\ DOMAIN uses \subseteq DOMAIN Append(uses, e) /\ DOMAIN uses \subseteq Nat
      /\ \A i \in DOMAIN uses : Append(uses, e)[i] = uses[i]
  BY QueueAppend, QueueDomain
<1> QED
  BY <1>1 DEF Waited

LEMMA StreamStep == PipelineInv /\ PositionInv' /\ StreamInv /\ [Next]_vars => StreamInv'
<1> SUFFICES ASSUME PipelineInv, PositionInv', StreamInv, [Next]_vars PROVE StreamInv'
  OBVIOUS
<1> USE DEF source, gpu
<1>0. StreamTypes' /\ StreamTypes /\ CopyInv /\ ReleaseInv /\ HolderInv
  BY TypesStep DEF StreamInv
<1>00. /\ Len(transfer) \in Nat /\ DOMAIN transfer = 1 .. Len(transfer)
       /\ Len(compute) \in Nat /\ DOMAIN compute = 1 .. Len(compute)
       /\ Len(views) \in Nat /\ DOMAIN views = 1 .. Len(views)
       /\ \A n \in DOMAIN transfer : transfer[n].block \in Blocks
       /\ \A m \in DOMAIN compute : compute[m] \in Use
       /\ \A i \in DOMAIN views : views[i].block \in Blocks
  <2>1. transfer \in Seq(Copy) /\ compute \in Seq(Use) /\ views \in Seq(View)
    BY <1>0 DEF StreamTypes
  <2>2. Len(transfer) \in Nat /\ DOMAIN transfer = 1 .. Len(transfer)
        /\ \A n \in DOMAIN transfer : transfer[n] \in Copy
    BY <2>1, QueueDomain
  <2>3. Len(compute) \in Nat /\ DOMAIN compute = 1 .. Len(compute)
        /\ \A m \in DOMAIN compute : compute[m] \in Use
    BY <2>1, QueueDomain
  <2>4. Len(views) \in Nat /\ DOMAIN views = 1 .. Len(views)
        /\ \A i \in DOMAIN views : views[i] \in View
    BY <2>1, QueueDomain
  <2> QED
    BY <2>2, <2>3, <2>4 DEF Copy, View
<1>000. \A m \in DOMAIN compute : /\ compute[m].block \in Blocks /\ compute[m].n \in Nat
                                  /\ compute[m].kind \in {"wait", "read", "release"}
  BY <1>00 DEF Use
<1>1. CASE Quiet
  BY <1>0, <1>1 DEF Quiet, StreamInv, CopyInv, ReleaseInv, HolderInv
<1>2. CASE CopyRuns
  <2>1. transfer # <<>> /\ transfer' = Tail(transfer) /\ UNCHANGED <<views, memory, device, pc>>
    BY <1>2 DEF CopyRuns
  <2>2. \A n \in DOMAIN transfer' : n \in Nat /\ n + 1 \in DOMAIN transfer /\ transfer'[n] = transfer[n + 1]
    BY <1>0, <1>00, <2>1, QueueTail DEF StreamTypes
  <2>3. /\ Len(compute') = Len(compute) /\ DOMAIN compute' = DOMAIN compute
        /\ \A m \in DOMAIN compute :
              /\ compute'[m].kind = compute[m].kind /\ compute'[m].block = compute[m].block
              /\ compute[m].kind = "wait" => compute[m].n - 1 <= compute'[m].n
    BY <1>0, <1>2, CopyCounts
  <2>4. \A m \in DOMAIN compute : compute'[m].n \in Nat
    <3>1. compute' \in Seq(Use)
      BY <1>0 DEF StreamTypes
    <3>2. \A m \in DOMAIN compute' : compute'[m] \in Use
      BY <3>1, QueueDomain
    <3> QED
      BY <2>3, <3>2 DEF Use
  <2>5. ASSUME NEW b, NEW m, Waited(transfer, compute, b, m)
        PROVE  Waited(transfer', compute', b, m)
    <3>1. ASSUME NEW n \in DOMAIN transfer', transfer'[n].block = b
          PROVE  \E j \in DOMAIN compute' : /\ j < m /\ compute'[j].kind = "wait"
                                            /\ compute'[j].block = b /\ n <= compute'[j].n
      <4>1. PICK j \in DOMAIN compute : /\ j < m /\ compute[j].kind = "wait" /\ compute[j].block = b
                                        /\ n + 1 <= compute[j].n
        BY <2>2, <2>5, <3>1 DEF Waited
      <4>2. n <= compute'[j].n
        BY <1>000, <2>2, <2>3, <2>4, <4>1
      <4> QED
        BY <2>3, <4>1, <4>2
    <3> QED
      BY <3>1 DEF Waited
  <2>6. CopyInv'
    BY <1>0, <2>1, <2>2 DEF CopyInv
  <2>7. ReleaseInv'
    BY <1>0, <2>1, <2>3, <2>5 DEF ReleaseInv
  <2>8. HolderInv'
    BY <1>0, <2>1, <2>3, <2>5 DEF HolderInv
  <2> QED
    BY <1>0, <2>6, <2>7, <2>8 DEF StreamInv
<1>3. CASE ComputeRuns
  <2> DEFINE op == Head(compute)
  <2>1. /\ compute # <<>> /\ op = compute[1] /\ 1 \in DOMAIN compute
        /\ UNCHANGED <<views, transfer, device, pc>>
    BY <1>0, <1>3, QueueDomain DEF ComputeRuns, StreamTypes
  <2>2. /\ Len(compute') = Len(compute) - 1
        /\ \A m \in DOMAIN compute' : m \in Nat /\ m >= 1 /\ m + 1 \in DOMAIN compute
                                      /\ compute'[m] = compute[m + 1]
        /\ DOMAIN compute' = 1 .. Len(compute) - 1
    BY <1>0, <1>00, <1>3, QueueTail DEF ComputeRuns, StreamTypes
  <2>3. op.kind = "wait" => op.n = 0
    BY <1>3 DEF ComputeRuns
  <2>4. memory' = IF op.kind = "release" THEN [memory EXCEPT ![op.block] = "free"] ELSE memory
    BY <1>3 DEF ComputeRuns
  <2> HIDE DEF op
  <2>5. ASSUME NEW b, NEW m \in Nat, Waited(transfer, compute, b, m + 1)
        PROVE  Waited(transfer', compute', b, m)
    <3>1. ASSUME NEW n \in DOMAIN transfer, transfer[n].block = b
          PROVE  \E j \in DOMAIN compute' : /\ j < m /\ compute'[j].kind = "wait"
                                            /\ compute'[j].block = b /\ n <= compute'[j].n
      <4>1. PICK j \in DOMAIN compute : /\ j < m + 1 /\ compute[j].kind = "wait" /\ compute[j].block = b
                                        /\ n <= compute[j].n
        BY <2>5, <3>1 DEF Waited
      <4>2. j # 1
        BY <1>00, <1>000, <2>1, <2>3, <4>1
      <4>3. j - 1 \in DOMAIN compute' /\ (j - 1) + 1 = j
        BY <1>00, <2>2, <4>2
      <4>4. compute'[j - 1] = compute[j] /\ j - 1 < m
        BY <1>00, <2>2, <4>1, <4>3
      <4> QED
        BY <4>1, <4>3, <4>4
    <3> QED
      BY <2>1, <3>1 DEF Waited
  <2>6. ASSUME op.kind = "release"
        PROVE  /\ \A n \in DOMAIN transfer : transfer[n].block # op.block
               /\ \A m \in DOMAIN compute : m # 1 /\ compute[m].kind # "wait" =>
                                              compute[m].block # op.block
               /\ memory[op.block] = "awaited" /\ op.block \in Blocks
    <3>1. memory[op.block] = "awaited" /\ Waited(transfer, compute, op.block, 1)
      BY <1>0, <2>1, <2>6 DEF ReleaseInv
    <3>2. \A n \in DOMAIN transfer : transfer[n].block # op.block
      BY <1>00, <3>1 DEF Waited
    <3>3. ASSUME NEW m \in DOMAIN compute, m # 1, compute[m].kind # "wait"
          PROVE  compute[m].block # op.block
      <4>1. CASE compute[m].kind = "release"
        BY <1>0, <2>1, <2>6, <3>3, <4>1 DEF ReleaseInv
      <4>2. CASE compute[m].kind = "read"
        <5>1. PICK l \in DOMAIN compute : /\ l > m /\ compute[l].kind = "release"
                                          /\ compute[l].block = compute[m].block
          BY <1>0, <4>2 DEF ReleaseInv
        <5>2. l # 1
          BY <1>00, <5>1
        <5> QED
          BY <1>0, <2>1, <2>6, <5>1, <5>2 DEF ReleaseInv
      <4> QED
        BY <1>000, <3>3, <4>1, <4>2
    <3> QED
      BY <1>000, <2>1, <3>1, <3>2, <3>3
  <2>7. \A b \in Blocks : \/ memory'[b] = memory[b]
                          \/ b = op.block /\ op.kind = "release"
    BY <1>0, <2>4 DEF StreamTypes
  <2>8. CopyInv'
    BY <1>0, <1>00, <2>1, <2>6, <2>7 DEF CopyInv
  <2>9. ReleaseInv'
    <3>1. ASSUME NEW m \in DOMAIN compute', compute'[m].kind # "wait"
          PROVE  /\ memory'[compute'[m].block] = "awaited"
                 /\ Waited(transfer', compute', compute'[m].block, m)
      <4>1. m \in Nat /\ m + 1 \in DOMAIN compute /\ m + 1 # 1 /\ compute'[m] = compute[m + 1]
        BY <2>2
      <4>2. memory[compute[m + 1].block] = "awaited" /\ Waited(transfer, compute, compute[m + 1].block, m + 1)
        BY <1>0, <3>1, <4>1 DEF ReleaseInv
      <4>3. memory'[compute[m + 1].block] = "awaited"
        BY <1>000, <2>6, <2>7, <3>1, <4>1, <4>2
      <4> QED
        BY <2>5, <4>1, <4>2, <4>3
    <3>2. ASSUME NEW l \in DOMAIN compute', NEW m \in DOMAIN compute',
                 compute'[l].kind = "release", compute'[m].kind = "release",
                 compute'[l].block = compute'[m].block
          PROVE  l = m
      <4>1. l + 1 = m + 1
        BY <1>0, <2>2, <3>2 DEF ReleaseInv
      <4> QED
        BY <2>2, <4>1
    <3>3. ASSUME NEW m \in DOMAIN compute', compute'[m].kind = "read"
          PROVE  \E l \in DOMAIN compute' : /\ l > m /\ compute'[l].kind = "release"
                                            /\ compute'[l].block = compute'[m].block
      <4>1. PICK l \in DOMAIN compute : /\ l > m + 1 /\ compute[l].kind = "release"
                                        /\ compute[l].block = compute[m + 1].block
        BY <1>0, <2>2, <3>3 DEF ReleaseInv
      <4>2. l - 1 \in DOMAIN compute' /\ l - 1 > m /\ (l - 1) + 1 = l
        BY <1>00, <2>2, <4>1
      <4> QED
        BY <2>2, <4>1, <4>2
    <3> QED
      BY <3>1, <3>2, <3>3 DEF ReleaseInv
  <2>10. HolderInv'
    <3>1. Len(compute') + 1 = Len(compute) /\ Len(compute) \in Nat
      BY <1>00, <2>2
    <3>2. ASSUME NEW b \in Blocks, memory[b] = "held" PROVE memory'[b] = "held"
      BY <2>6, <2>7, <3>2
    <3>3. \A b : Waited(transfer, compute, b, Len(compute) + 1)
                   => Waited(transfer', compute', b, Len(compute') + 1)
      BY <2>5, <3>1
    <3> QED
      BY <1>0, <1>00, <2>1, <3>2, <3>3 DEF HolderInv, StreamTypes
  <2> QED
    BY <1>0, <2>8, <2>9, <2>10 DEF StreamInv
<1>4. CASE TakeStep
  <2> DEFINE d == device.block
  <2>1. /\ d \in Blocks /\ memory[d] = "held" /\ \A i \in DOMAIN views : views[i].block # d
        /\ UNCHANGED <<transfer, memory>> /\ device'.state # "done" /\ pc' = "advance"
    BY <1>0, <1>4 DEF TakeStep, HolderInv, StreamTypes, None
  <2>2. PICK w \in Nat : /\ compute' = Append(compute, [kind |-> "wait", block |-> d, n |-> w])
                         /\ \A k \in DOMAIN transfer : transfer[k].block = d => k <= w
    BY <1>0, <1>4, <2>1, WaitReadyWaits DEF TakeStep
  <2> DEFINE e == [kind |-> "wait", block |-> d, n |-> w]
  <2>3. e \in Use /\ e.kind = "wait" /\ e.block = d /\ e.n = w
    BY <2>1 DEF Use
  <2>4. [block |-> d, batch |-> consumed] \in View
    BY <1>0, <2>1 DEF View, StreamTypes
  <2>5. /\ DOMAIN views' = DOMAIN views \union {Len(views) + 1}
        /\ \A i \in DOMAIN views : views'[i] = views[i]
        /\ views'[Len(views) + 1].block = d
    BY <1>0, <1>4, <2>4, QueueAppend DEF StreamTypes, TakeStep
  <2> HIDE DEF d, e
  <2>6. /\ compute' = Append(compute, e) /\ Len(compute') = Len(compute) + 1
        /\ DOMAIN compute' = DOMAIN compute \union {Len(compute) + 1}
        /\ \A m \in DOMAIN compute : compute'[m] = compute[m]
        /\ compute'[Len(compute) + 1] = e
    <3>1. compute' = Append(compute, e)
      BY <2>2 DEF e
    <3> QED
      BY <1>0, <2>3, <3>1, QueueAppend DEF StreamTypes
  <2>7. \A b : \A m, k \in Nat :
          m <= k /\ Waited(transfer, compute, b, m) => Waited(transfer', compute', b, k)
    BY <1>0, <2>1, <2>3, <2>6, WaitedLonger DEF StreamTypes
  <2>8. Waited(transfer', compute', d, Len(compute') + 1)
    <3>1. Len(compute) + 1 \in DOMAIN compute' /\ Len(compute) + 1 < Len(compute') + 1
      BY <1>00, <2>6
    <3> QED
      BY <2>1, <2>2, <2>3, <2>6, <3>1 DEF Waited
  <2>9. CopyInv'
    BY <1>0, <2>1 DEF CopyInv
  <2>10. ReleaseInv'
    <3>1. \A m \in DOMAIN compute' : compute'[m].kind # "wait" => m \in DOMAIN compute /\ m \in Nat
      BY <1>00, <2>3, <2>6
    <3> QED
      BY <1>0, <1>00, <2>1, <2>6, <2>7, <3>1 DEF ReleaseInv
  <2>11. HolderInv'
    <3>1. Len(views) + 1 \notin DOMAIN views
      BY <1>00
    <3>2. Len(compute) + 1 \in Nat /\ Len(compute') + 1 \in Nat /\ Len(compute) + 1 <= Len(compute') + 1
      BY <1>00, <2>6
    <3>3. ASSUME NEW i \in DOMAIN views'
          PROVE  /\ memory'[views'[i].block] = "held"
                 /\ Waited(transfer', compute', views'[i].block, Len(compute') + 1)
      <4>1. CASE i \in DOMAIN views
        BY <1>0, <2>1, <2>5, <2>7, <3>2, <4>1 DEF HolderInv
      <4>2. CASE i = Len(views) + 1
        BY <2>1, <2>5, <2>8, <4>2
      <4> QED
        BY <2>5, <4>1, <4>2
    <3>4. \A i, j \in DOMAIN views' : views'[i].block = views'[j].block => i = j
      BY <1>0, <2>1, <2>5 DEF HolderInv
    <3> QED
      BY <2>1, <3>3, <3>4 DEF HolderInv
  <2> QED
    BY <1>0, <2>9, <2>10, <2>11 DEF StreamInv
<1>5. CASE UseStep
  <2> DEFINE v == Head(views)
             r == Op("read", v.block, v.batch)
             f == Op("release", v.block, 0)
  <2>1. /\ v \in View /\ v = views[1] /\ 1 \in DOMAIN views
        /\ \A i \in DOMAIN views' : i + 1 \in DOMAIN views /\ i + 1 # 1 /\ views'[i] = views[i + 1]
        /\ DOMAIN views' = 1 .. Len(views) - 1
        /\ UNCHANGED <<transfer, device>>
    BY <1>0, <1>00, <1>5, QueueDomain, QueueTail DEF UseStep, StreamTypes
  <2>2. /\ r \in Use /\ r.kind = "read" /\ r.block = v.block
        /\ f \in Use /\ f.kind = "release" /\ f.block = v.block /\ v.block \in Blocks
    BY <2>1 DEF Op, Use, View
  <2>3. memory' = [memory EXCEPT ![v.block] = "awaited"] /\ compute' = compute \o <<r, f>>
    BY <1>5 DEF UseStep, ReadAndRelease
  <2> HIDE DEF v, r, f
  <2> DEFINE mid == Append(compute, r)
  <2>4. /\ mid \in Seq(Use) /\ Len(mid) = Len(compute) + 1
        /\ DOMAIN mid = DOMAIN compute \union {Len(compute) + 1}
        /\ \A m \in DOMAIN compute : mid[m] = compute[m]
        /\ mid[Len(compute) + 1] = r
    BY <1>0, <2>2, QueueAppend DEF StreamTypes
  <2>5. compute' = Append(mid, f)
    <3>1. compute \in Seq(Use) /\ r \in Use /\ f \in Use /\ compute' = compute \o <<r, f>>
      BY <1>0, <2>2, <2>3 DEF StreamTypes
    <3> QED
      BY <3>1, QueueAppendTwo
  <2> HIDE DEF mid
  <2>6. /\ Len(compute') = Len(mid) + 1
        /\ DOMAIN compute' = DOMAIN mid \union {Len(mid) + 1}
        /\ \A m \in DOMAIN mid : compute'[m] = mid[m]
        /\ compute'[Len(mid) + 1] = f
    BY <2>2, <2>4, <2>5, QueueAppend
  <2> DEFINE L == Len(compute)
  <2>7. /\ L \in Nat /\ L + 1 \notin DOMAIN compute /\ L + 2 \notin DOMAIN compute
        /\ Len(compute') = L + 2 /\ DOMAIN compute' = DOMAIN compute \union {L + 1, L + 2}
        /\ \A m \in DOMAIN compute : compute'[m] = compute[m] /\ m \in Nat
        /\ compute'[L + 1] = r /\ compute'[L + 2] = f
    BY <1>00, <2>4, <2>6
  <2>8. \A b : \A m, k \in Nat :
          m <= k /\ Waited(transfer, compute, b, m) => Waited(transfer', compute', b, k)
    <3>1. ASSUME NEW b, NEW m \in Nat, NEW k \in Nat, m <= k, Waited(transfer, compute, b, m)
          PROVE  Waited(transfer, compute', b, k)
      <4>1. Waited(transfer, mid, b, k)
        BY <1>0, <2>2, <3>1, WaitedLonger DEF StreamTypes, mid
      <4> QED
        BY <2>2, <2>4, <2>5, <3>1, <4>1, WaitedLonger
    <3> QED
      BY <2>1, <3>1
  <2> HIDE DEF L
  <2>9. memory[v.block] = "held" /\ Waited(transfer, compute, v.block, L + 1)
    BY <1>0, <2>1 DEF HolderInv, L
  <2>10. \A b \in Blocks : memory'[b] = IF b = v.block THEN "awaited" ELSE memory[b]
    BY <1>0, <2>2, <2>3 DEF StreamTypes
  <2>11. \A m \in DOMAIN compute : compute[m].kind # "wait" => compute[m].block # v.block
    BY <1>0, <2>9 DEF ReleaseInv
  <2>12. CopyInv'
    BY <1>0, <1>00, <2>1, <2>10 DEF CopyInv
  <2>13. ReleaseInv'
    <3>1. ASSUME NEW m \in DOMAIN compute', compute'[m].kind # "wait"
          PROVE  /\ memory'[compute'[m].block] = "awaited"
                 /\ Waited(transfer', compute', compute'[m].block, m)
      <4>1. CASE m \in DOMAIN compute
        BY <1>0, <1>000, <2>7, <2>8, <2>10, <2>11, <3>1, <4>1 DEF ReleaseInv
      <4>2. CASE m \in {L + 1, L + 2}
        <5>1. compute'[m].block = v.block /\ L + 1 <= m /\ m \in Nat /\ L + 1 \in Nat
          BY <2>2, <2>7, <4>2
        <5> QED
          BY <2>2, <2>8, <2>9, <2>10, <5>1
      <4> QED
        BY <2>7, <4>1, <4>2
    <3>2. ASSUME NEW l \in DOMAIN compute', NEW m \in DOMAIN compute',
                 compute'[l].kind = "release", compute'[m].kind = "release",
                 compute'[l].block = compute'[m].block
          PROVE  l = m
      <4>1. l # L + 1 /\ m # L + 1
        BY <2>2, <2>7, <3>2
      <4>2. l \in DOMAIN compute \/ l = L + 2
        BY <2>7, <4>1
      <4>3. m \in DOMAIN compute \/ m = L + 2
        BY <2>7, <4>1
      <4>4. CASE l \in DOMAIN compute /\ m \in DOMAIN compute
        BY <1>0, <2>7, <3>2, <4>4 DEF ReleaseInv
      <4>5. CASE l = L + 2 /\ m = L + 2
        BY <4>5
      <4>6. ASSUME NEW i \in DOMAIN compute, compute'[i].kind = "release" PROVE compute'[i].block # v.block
        BY <2>7, <2>11, <4>6
      <4> QED
        BY <2>2, <2>7, <3>2, <4>2, <4>3, <4>4, <4>5, <4>6
    <3>3. ASSUME NEW m \in DOMAIN compute', compute'[m].kind = "read"
          PROVE  \E l \in DOMAIN compute' : /\ l > m /\ compute'[l].kind = "release"
                                            /\ compute'[l].block = compute'[m].block
      <4>1. CASE m \in DOMAIN compute
        BY <1>0, <2>7, <3>3, <4>1 DEF ReleaseInv
      <4>2. CASE m = L + 1
        BY <2>2, <2>7, <4>2
      <4>3. m # L + 2
        BY <2>2, <2>7, <3>3
      <4> QED
        BY <2>7, <4>1, <4>2, <4>3
    <3> QED
      BY <3>1, <3>2, <3>3 DEF ReleaseInv
  <2>14. HolderInv'
    <3>1. ASSUME NEW i \in DOMAIN views'
          PROVE  /\ memory'[views'[i].block] = "held"
                 /\ Waited(transfer', compute', views'[i].block, Len(compute') + 1)
      <4>1. i + 1 \in DOMAIN views /\ views'[i] = views[i + 1] /\ views[i + 1].block # v.block
        BY <1>0, <2>1 DEF HolderInv
      <4>2. memory[views[i + 1].block] = "held" /\ Waited(transfer, compute, views[i + 1].block, L + 1)
        BY <1>0, <4>1 DEF HolderInv, L
      <4>3. L + 1 \in Nat /\ Len(compute') + 1 \in Nat /\ L + 1 <= Len(compute') + 1
        BY <2>7
      <4>4. memory'[views[i + 1].block] = "held"
        BY <1>00, <2>10, <4>1, <4>2
      <4> QED
        BY <2>8, <4>1, <4>2, <4>3, <4>4
    <3>2. ASSUME NEW i \in DOMAIN views', NEW j \in DOMAIN views', views'[i].block = views'[j].block
          PROVE  i = j
      <4>1. i + 1 = j + 1
        BY <1>0, <2>1, <3>2 DEF HolderInv
      <4> QED
        BY <1>00, <2>1, <4>1
    <3>3. device'.state = "done" =>
            /\ memory'[device'.block] = "held"
            /\ \A i \in DOMAIN views' : views'[i].block # device'.block
      BY <1>0, <2>1, <2>10 DEF HolderInv, StreamTypes
    <3>4. pc' = "use" => views' # <<>>
      <4>1. CASE Len(views) = 1
        BY <1>5, <4>1 DEF UseStep
      <4>2. CASE Len(views) # 1
        <5>1. 1 \in DOMAIN views'
          BY <1>00, <2>1, <4>2
        <5> QED
          BY <5>1
      <4> QED
        BY <4>1, <4>2
    <3> QED
      BY <3>1, <3>2, <3>3, <3>4 DEF HolderInv
  <2> QED
    BY <1>0, <2>12, <2>13, <2>14 DEF StreamInv
<1>6. CASE DrainDevice
  <2> DEFINE d == device.block
  <2>1. /\ d \in Blocks /\ memory[d] = "held" /\ \A i \in DOMAIN views : views[i].block # d
        /\ \A n \in DOMAIN transfer : transfer[n].block # d
    BY <1>0, <1>6 DEF DrainDevice, HolderInv, StreamTypes, Copying, Copies
  <2>2. /\ memory' = [memory EXCEPT ![d] = "free"] /\ device' = None /\ pc' = "drain"
        /\ UNCHANGED <<views, transfer, compute>>
    BY <1>6 DEF DrainDevice
  <2> HIDE DEF d
  <2>3. \A b \in Blocks : b # d => memory'[b] = memory[b]
    BY <1>0, <2>1, <2>2 DEF StreamTypes
  <2>4. CopyInv'
    BY <1>0, <1>00, <2>1, <2>2, <2>3 DEF CopyInv
  <2>5. ReleaseInv'
    <3>1. \A m \in DOMAIN compute : compute[m].kind # "wait" => compute[m].block # d
      BY <1>0, <2>1 DEF ReleaseInv
    <3> QED
      BY <1>0, <1>000, <2>2, <2>3, <3>1 DEF ReleaseInv
  <2>6. HolderInv'
    BY <1>0, <1>00, <2>1, <2>2, <2>3 DEF HolderInv, None
  <2> QED
    BY <1>0, <2>4, <2>5, <2>6 DEF StreamInv
<1>7. CASE Restart
  <2>1. /\ DOMAIN transfer' = {} /\ DOMAIN compute' = {} /\ DOMAIN views' = {}
        /\ device'.state = "queued" /\ pc' = "load"
    BY <1>7 DEF Restart, Future
  <2> QED
    BY <1>0, <2>1 DEF StreamInv, CopyInv, ReleaseInv, HolderInv
<1>8. ASSUME NEW b \in Blocks, NEW at \in Cursors, CopyStep(b, at) PROVE StreamInv'
  <2> DEFINE c == [block |-> b, samples |-> SamplesOf(setup, at)]
             N == Len(transfer)
  <2>1. c \in Copy /\ c.block = b
    BY <1>0, SamplesType DEF Copy, StreamTypes
  <2>2. transfer' = Append(transfer, c) /\ UNCHANGED <<views, compute>>
    BY <1>8 DEF CopyStep
  <2> HIDE DEF c
  <2>3. /\ DOMAIN transfer' = DOMAIN transfer \union {N + 1} /\ N + 1 \notin DOMAIN transfer
        /\ \A n \in DOMAIN transfer : transfer'[n] = transfer[n]
        /\ transfer'[N + 1] = c
    BY <1>0, <1>00, <2>1, <2>2, QueueAppend DEF StreamTypes
  <2> HIDE DEF N
  <2>4. memory[b] = "free" /\ memory'[b] = "held"
        /\ \A a \in Blocks : a # b => memory'[a] = memory[a]
    BY <1>0, <1>8 DEF CopyStep, StreamTypes
  <2>5. /\ \A n \in DOMAIN transfer : transfer[n].block # b
        /\ \A m \in DOMAIN compute : compute[m].kind # "wait" => compute[m].block # b
        /\ \A i \in DOMAIN views : views[i].block # b
    BY <1>0, <2>4 DEF CopyInv, ReleaseInv, HolderInv
  <2>6. \A a, m : a # b /\ Waited(transfer, compute, a, m) => Waited(transfer', compute', a, m)
    BY <2>1, <2>2, <2>3 DEF Waited
  <2>7. CopyInv'
    BY <1>0, <1>00, <2>1, <2>3, <2>4, <2>5 DEF CopyInv
  <2>8. ReleaseInv'
    BY <1>0, <1>000, <2>2, <2>4, <2>5, <2>6 DEF ReleaseInv
  <2>9. HolderInv'
    <3>1. device'.block = b /\ (pc' = "use" => pc = "use")
      BY <1>8 DEF CopyStep
    <3> QED
      BY <1>0, <1>00, <2>2, <2>4, <2>5, <2>6, <3>1 DEF HolderInv
  <2> QED
    BY <1>0, <2>7, <2>8, <2>9 DEF StreamInv
<1>9. pc = "use" => views # <<>>
  BY <1>0 DEF HolderInv
<1> QED
  BY <1>1, <1>2, <1>3, <1>4, <1>5, <1>6, <1>7, <1>8, <1>9, StreamEffects

\* Memory that a kernel still has to read is never written by a later batch.
THEOREM NoReadIsOverwritten == Spec => []NeverOverwritesARead
<1>1. StreamInv => NeverOverwritesARead
  <2> SUFFICES ASSUME StreamInv, NEW n \in DOMAIN transfer, NEW m \in DOMAIN compute,
                      compute[m].kind = "read", compute[m].block = transfer[n].block
               PROVE  \E j \in 1 .. m - 1 : /\ compute[j].kind = "wait"
                                            /\ compute[j].block = transfer[n].block
                                            /\ n <= compute[j].n
    BY DEF NeverOverwritesARead
  <2>1. Waited(transfer, compute, compute[m].block, m)
    BY DEF StreamInv, ReleaseInv
  <2>2. PICK j \in DOMAIN compute : /\ j < m /\ compute[j].kind = "wait"
                                    /\ compute[j].block = transfer[n].block /\ n <= compute[j].n
    BY <2>1 DEF Waited
  <2>3. DOMAIN compute = 1 .. Len(compute) /\ Len(compute) \in Nat
    BY QueueDomain DEF StreamInv, StreamTypes
  <2>4. j \in 1 .. m - 1
    BY <2>2, <2>3
  <2> QED
    BY <2>2, <2>4
<1> QED
  BY PipelineInit, PipelineStep, PositionInit, PositionStep, StreamInit, StreamStep, <1>1, PTL DEF Spec

-----------------------------------------------------------------------------
(* Proof of the contents.                                                  *)

LEMMA ContentsInit == Init => ContentsInv
<1> SUFFICES ASSUME Init PROVE ContentsInv
  OBVIOUS
<1>1. DOMAIN compute = {} /\ DOMAIN views = {} /\ device.state = "queued"
  BY DEF Init, Future
<1> QED
  BY <1>1 DEF ContentsInv

LEMMA ContentsStep ==
  ASSUME PipelineInv, PositionInv, StreamInv, ContentsInv, [Next]_vars
  PROVE  ContentsInv'
<1> USE DEF source, gpu
<1>0. StreamTypes /\ CopyInv /\ ReleaseInv /\ HolderInv
  BY DEF StreamInv
<1>00. /\ setup' = setup /\ setup \in Setups
       /\ Len(transfer) \in Nat /\ DOMAIN transfer = 1 .. Len(transfer)
       /\ Len(compute) \in Nat /\ DOMAIN compute = 1 .. Len(compute)
       /\ Len(views) \in Nat /\ DOMAIN views = 1 .. Len(views)
  <2>1. setup' = setup
    BY DEF Next, Process, vars, TakeBatch, AdvancePrefetch, UseBatch, UseRest, DrainDevice, DrainHost,
           LoadState, Prepare, CopyRuns, ComputeRuns, Save, Restart
  <2>2. transfer \in Seq(Copy) /\ compute \in Seq(Use) /\ views \in Seq(View)
    BY <1>0 DEF StreamTypes
  <2>3. Len(transfer) \in Nat /\ DOMAIN transfer = 1 .. Len(transfer)
    BY <2>2, QueueDomain
  <2>4. Len(compute) \in Nat /\ DOMAIN compute = 1 .. Len(compute)
    BY <2>2, QueueDomain
  <2>5. Len(views) \in Nat /\ DOMAIN views = 1 .. Len(views)
    BY <2>2, QueueDomain
  <2> QED
    BY <1>0, <2>1, <2>3, <2>4, <2>5 DEF StreamTypes
<1>1. CASE Quiet
  BY <1>1 DEF Quiet, ContentsInv
<1>2. CASE CopyRuns
  <2> DEFINE c == Head(transfer)
  <2>1. /\ transfer # <<>> /\ transfer' = Tail(transfer) /\ UNCHANGED <<views, device>>
        /\ contents' = [contents EXCEPT ![c.block] = c.samples]
    BY <1>2 DEF CopyRuns
  <2>2. c = transfer[1] /\ 1 \in DOMAIN transfer /\ c.block \in Blocks
    <3>1. transfer \in Seq(Copy)
      BY <1>0 DEF StreamTypes
    <3>2. c = transfer[1] /\ 1 \in DOMAIN transfer /\ transfer[1] \in Copy
      BY <2>1, <3>1, QueueDomain
    <3> QED
      BY <3>2 DEF Copy
  <2>3. /\ DOMAIN transfer' = 1 .. Len(transfer) - 1
        /\ \A n \in DOMAIN transfer' : n + 1 \in DOMAIN transfer /\ transfer'[n] = transfer[n + 1]
    BY <1>0, <2>1, QueueTail DEF StreamTypes
  <2>4. DOMAIN contents = Blocks
    BY <1>0 DEF StreamTypes
  <2> HIDE DEF c
  <2>5. ASSUME NEW b, NEW rows, Holds(transfer, contents, b, rows)
        PROVE  Holds(transfer', contents', b, rows)
    <3>1. \A n \in DOMAIN transfer' : transfer'[n].block = b => transfer'[n].samples = rows
      BY <2>3, <2>5 DEF Holds
    <3>2. ASSUME \A n \in DOMAIN transfer' : transfer'[n].block # b
          PROVE  contents'[b] = rows
      <4>1. CASE b = c.block
        BY <2>1, <2>2, <2>4, <2>5, <4>1 DEF Holds
      <4>2. CASE b # c.block
        <5>1. ASSUME NEW n \in DOMAIN transfer PROVE transfer[n].block # b
          <6>1. CASE n = 1
            BY <2>2, <4>2, <6>1
          <6>2. CASE n # 1
            <7>1. n - 1 \in DOMAIN transfer' /\ (n - 1) + 1 = n
              BY <1>00, <2>3, <6>2
            <7> QED
              BY <2>3, <3>2, <7>1
          <6> QED
            BY <6>1, <6>2
        <5>2. contents[b] = rows
          BY <2>5, <5>1 DEF Holds
        <5> QED
          BY <2>1, <2>4, <4>2, <5>2
      <4> QED
        BY <4>1, <4>2
    <3> QED
      BY <3>1, <3>2 DEF Holds
  <2>6. /\ DOMAIN compute' = DOMAIN compute
        /\ \A m \in DOMAIN compute : /\ compute'[m].kind = compute[m].kind
                                     /\ compute[m].kind # "wait" => compute'[m] = compute[m]
    BY <1>0, <1>2, CopyCounts
  <2> QED
    BY <1>00, <2>1, <2>5, <2>6 DEF ContentsInv
<1>3. CASE ComputeRuns
  <2>1. compute # <<>> /\ compute' = Tail(compute) /\ UNCHANGED <<views, transfer, contents, device>>
    BY <1>3 DEF ComputeRuns
  <2>2. \A m \in DOMAIN compute' : m + 1 \in DOMAIN compute /\ compute'[m] = compute[m + 1]
    BY <1>0, <2>1, QueueTail DEF StreamTypes
  <2> QED
    BY <1>00, <2>1, <2>2 DEF ContentsInv
<1>4. CASE TakeStep
  <2> DEFINE d == device.block
  <2>1. /\ d \in Blocks /\ device.state = "done" /\ device.cursor = cursor
        /\ UNCHANGED <<transfer, contents>> /\ device'.state # "done"
        /\ views' = Append(views, [block |-> d, batch |-> consumed])
    BY <1>0, <1>4 DEF TakeStep, StreamTypes, None
  <2>2. PICK w \in Nat : compute' = Append(compute, [kind |-> "wait", block |-> d, n |-> w])
    BY <1>0, <1>4, <2>1, WaitReadyWaits DEF TakeStep
  <2> DEFINE e == [kind |-> "wait", block |-> d, n |-> w]
             x == [block |-> d, batch |-> consumed]
  <2>3. e \in Use /\ e.kind = "wait" /\ x \in View /\ x.block = d /\ x.batch = consumed
    BY <1>0, <2>1 DEF Use, View, StreamTypes
  <2>4. compute' = Append(compute, e) /\ views' = Append(views, x)
    BY <2>1, <2>2
  <2>5. Holds(transfer, contents, d, BatchOf(setup, consumed))
    <3>1. SamplesOf(setup, cursor) = BatchOf(setup, consumed)
      BY <1>0, CursorOfBatch DEF PositionInv, StreamTypes
    <3> QED
      BY <2>1, <3>1 DEF ContentsInv
  <2> HIDE DEF d, e, x
  <2>6. /\ DOMAIN compute' = DOMAIN compute \union {Len(compute) + 1}
        /\ \A m \in DOMAIN compute : compute'[m] = compute[m]
        /\ compute'[Len(compute) + 1] = e
    BY <1>0, <2>3, <2>4, QueueAppend DEF StreamTypes
  <2>7. /\ DOMAIN views' = DOMAIN views \union {Len(views) + 1}
        /\ \A i \in DOMAIN views : views'[i] = views[i]
        /\ views'[Len(views) + 1] = x
    BY <1>0, <2>3, <2>4, QueueAppend DEF StreamTypes
  <2> QED
    BY <1>00, <2>1, <2>3, <2>5, <2>6, <2>7 DEF ContentsInv
<1>5. CASE UseStep
  <2> DEFINE v == Head(views)
             r == Op("read", v.block, v.batch)
             f == Op("release", v.block, 0)
  <2>1. /\ v \in View /\ v = views[1] /\ 1 \in DOMAIN views
        /\ \A i \in DOMAIN views' : i + 1 \in DOMAIN views /\ views'[i] = views[i + 1]
        /\ UNCHANGED <<transfer, contents, device>>
    BY <1>0, <1>5, QueueDomain, QueueTail DEF UseStep, StreamTypes
  <2>2. /\ r \in Use /\ r.block = v.block /\ r.n = v.batch /\ f \in Use /\ f.kind = "release"
    BY <2>1 DEF Op, Use, View
  <2>3. compute' = compute \o <<r, f>>
    BY <1>5 DEF UseStep, ReadAndRelease
  <2> HIDE DEF v, r, f
  <2>4. compute \in Seq(Use)
    BY <1>0 DEF StreamTypes
  <2>5. compute' = Append(Append(compute, r), f)
    BY <2>2, <2>3, <2>4, QueueAppendTwo
  <2> DEFINE mid == Append(compute, r)
  <2>6. /\ mid \in Seq(Use) /\ DOMAIN mid = DOMAIN compute \union {Len(compute) + 1}
        /\ \A m \in DOMAIN compute : mid[m] = compute[m]
        /\ mid[Len(compute) + 1] = r
    BY <2>2, <2>4, QueueAppend
  <2>7. compute' = Append(mid, f)
    BY <2>5
  <2> HIDE DEF mid
  <2>8. /\ DOMAIN compute' = DOMAIN mid \union {Len(mid) + 1}
        /\ \A m \in DOMAIN mid : compute'[m] = mid[m]
        /\ compute'[Len(mid) + 1] = f
    BY <2>2, <2>6, <2>7, QueueAppend
  <2>9. ASSUME NEW m \in DOMAIN compute', compute'[m].kind = "read"
        PROVE  \/ m \in DOMAIN compute /\ compute'[m] = compute[m]
               \/ compute'[m] = r
    BY <2>2, <2>6, <2>8, <2>9
  <2>10. Holds(transfer, contents, r.block, BatchOf(setup, r.n))
    BY <2>1, <2>2 DEF ContentsInv
  <2>11. \A m \in DOMAIN compute' : compute'[m].kind = "read" =>
           Holds(transfer, contents, compute'[m].block, BatchOf(setup, compute'[m].n))
    BY <2>9, <2>10 DEF ContentsInv
  <2> QED
    BY <1>00, <2>1, <2>11 DEF ContentsInv
<1>6. CASE DrainDevice
  <2>1. UNCHANGED <<views, transfer, contents, compute>> /\ device'.state # "done"
    BY <1>6 DEF DrainDevice, None
  <2> QED
    BY <1>00, <2>1 DEF ContentsInv
<1>7. CASE Restart
  <2>1. DOMAIN compute' = {} /\ DOMAIN views' = {} /\ device'.state = "queued"
    BY <1>7 DEF Restart, Future
  <2> QED
    BY <2>1 DEF ContentsInv
<1>8. ASSUME NEW b \in Blocks, NEW at \in Cursors, CopyStep(b, at) PROVE ContentsInv'
  <2> DEFINE c == [block |-> b, samples |-> SamplesOf(setup, at)]
  <2>1. c \in Copy /\ c.block = b /\ c.samples = SamplesOf(setup, at)
    BY <1>00, SamplesType DEF Copy
  <2>2. /\ transfer' = Append(transfer, c) /\ UNCHANGED <<views, compute, contents>>
        /\ device'.block = b /\ device'.cursor = at /\ memory[b] = "free"
    BY <1>8 DEF CopyStep
  <2> HIDE DEF c
  <2>3. /\ DOMAIN transfer' = DOMAIN transfer \union {Len(transfer) + 1}
        /\ \A n \in DOMAIN transfer : transfer'[n] = transfer[n]
        /\ transfer'[Len(transfer) + 1] = c
    BY <1>0, <2>1, <2>2, QueueAppend DEF StreamTypes
  <2>4. /\ \A n \in DOMAIN transfer : transfer[n].block # b
        /\ \A m \in DOMAIN compute : compute[m].kind # "wait" => compute[m].block # b
        /\ \A i \in DOMAIN views : views[i].block # b
    BY <1>0, <2>2 DEF CopyInv, ReleaseInv, HolderInv
  <2>5. ASSUME NEW a, NEW rows, a # b, Holds(transfer, contents, a, rows)
        PROVE  Holds(transfer', contents', a, rows)
    BY <2>1, <2>2, <2>3, <2>5 DEF Holds
  <2>6. Holds(transfer', contents', b, SamplesOf(setup, at))
    BY <2>1, <2>3, <2>4 DEF Holds
  <2> QED
    BY <1>00, <2>2, <2>4, <2>5, <2>6 DEF ContentsInv
<1>9. pc = "use" => views # <<>>
  BY <1>0 DEF HolderInv
<1> QED
  BY <1>1, <1>2, <1>3, <1>4, <1>5, <1>6, <1>7, <1>8, <1>9, StreamEffects

\* A kernel finds in its memory the batch the trainer was handed, which is the one an
\* uninterrupted run would have had at this point.
THEOREM KernelsReadTheirBatch == Spec => []ReadsItsBatch
<1>1. StreamInv /\ ContentsInv => ReadsItsBatch
  <2> SUFFICES ASSUME StreamInv, ContentsInv, compute # <<>>, Head(compute).kind = "read"
               PROVE  contents[Head(compute).block] = Batch(Head(compute).n)
    BY DEF ReadsItsBatch
  <2>1. Head(compute) = compute[1] /\ 1 \in DOMAIN compute /\ DOMAIN compute \subseteq Nat
        /\ \A j \in DOMAIN compute : ~(j < 1)
    BY QueueDomain DEF StreamInv, StreamTypes
  <2>2. Waited(transfer, compute, compute[1].block, 1)
        /\ Holds(transfer, contents, compute[1].block, BatchOf(setup, compute[1].n))
    BY <2>1 DEF StreamInv, ReleaseInv, ContentsInv
  <2>3. contents[compute[1].block] = BatchOf(setup, compute[1].n)
    BY <2>1, <2>2 DEF Waited, Holds
  <2> QED
    BY <2>1, <2>3 DEF Batch, BatchOf
<1>2. PipelineInv /\ PositionInv /\ StreamInv /\ ContentsInv /\ [Next]_vars => ContentsInv'
  BY ContentsStep
<1> QED
  BY PipelineInit, PipelineStep, PositionInit, PositionStep, StreamInit, StreamStep,
     ContentsInit, <1>1, <1>2, PTL DEF Spec
=============================================================================
