---------------------------- MODULE BlockSchedule ----------------------------
(***************************************************************************)
(* build_block_schedule: which block-parallel worker denoises which block, *)
(* and which context rank owns the clean K/V of which block.  One step is  *)
(* one iteration of a loop of the builder; the inputs are chosen by Init.  *)
(***************************************************************************)
EXTENDS Integers, FiniteSets

CONSTANTS
  BlockCounts,  \* num_blocks
  Sizes         \* block_parallel_size and context_parallel_size

ASSUME CountAssumption == BlockCounts \subseteq Nat \ {0} /\ Sizes \subseteq Nat \ {0}

VARIABLES
  policy,   \* active_block_schedule
  blocks, workers, ranks,  \* num_blocks and the two parallel sizes
  phase,    \* the loop that is running
  i,        \* its index: a worker, a context rank or (short regime) a block
  next,     \* pair_start, start: the first task not handed out yet
  base, rest,  \* divmod of the running loop
  active,   \* active_blocks_by_worker, as sets
  cost,     \* active_prefix_cost_by_worker
  kv        \* kv_blocks_by_context_rank, as sets

inputs == <<policy, blocks, workers, ranks>>
vars == <<inputs, phase, i, next, base, rest, active, cost, kv>>

Workers == 0 .. workers - 1
ContextRanks == 0 .. ranks - 1
Pairs == blocks \div 2   \* the two-element tasks of dual_end_pairs
Odd == blocks % 2 = 1

\* The quotient and the remainder of a loop that deals out n tasks to m owners.
DivMod(n, m, q, r) == n = q * m + r /\ q \in 0 .. n /\ r \in 0 .. m - 1

-----------------------------------------------------------------------------
Loop(name, from, n, m) ==
  /\ phase' = name /\ i' = from /\ next' = 0
  /\ \E q \in 0 .. n, r \in 0 .. m - 1 : DivMod(n, m, q, r) /\ base' = q /\ rest' = r

\* Mutant: pairs are never split up.
StartDualEndWhole ==
  /\ phase = "start" /\ policy = "dual_end"
  /\ IF blocks < workers
     THEN phase' = "raised" /\ UNCHANGED <<i, next, base, rest>>
     ELSE Loop("pairs", 0, Pairs, workers)
  /\ UNCHANGED <<inputs, active, cost, kv>>

\* _dual_end_assignments: too few blocks raise, and too few tasks for the
\* workers (the middle block of an odd count is one) are split up.
StartDualEnd ==
  /\ phase = "start" /\ policy = "dual_end"
  /\ LET tasks == Pairs + (IF Odd THEN 1 ELSE 0) IN
       CASE blocks < workers -> phase' = "raised" /\ UNCHANGED <<i, next, base, rest>>
         [] blocks >= workers /\ tasks < workers -> Loop("short", blocks - 1, 0, 1)
         [] OTHER -> Loop("pairs", 0, Pairs, workers)
  /\ UNCHANGED <<inputs, active, cost, kv>>

StartContiguous ==
  /\ phase = "start" /\ policy = "contiguous"
  /\ Loop("shards", 0, blocks, workers)
  /\ UNCHANGED <<inputs, active, cost, kv>>

\* How many tasks owner i gets.
Share == base + (IF i < rest THEN 1 ELSE 0)

\* Mutant: the left ends are paired with the wrong right ends.
PairsFromOffByOne(first, count) ==
  UNION {{left, blocks - left} : left \in first .. first + count - 1}

\* The blocks of pairs first, first + 1, ...
PairsFrom(first, count) ==
  UNION {{left, blocks - 1 - left} : left \in first .. first + count - 1}

DealPairs ==
  /\ phase = "pairs" /\ i < workers
  /\ active' = [active EXCEPT ![i] = PairsFrom(next, Share)]
  /\ cost' = [cost EXCEPT ![i] = Share * (blocks - 1)]
  /\ next' = next + Share /\ i' = i + 1
  /\ UNCHANGED <<inputs, phase, base, rest, kv>>

\* The first of the workers with the least cost.
Lightest(w) ==
  \A v \in Workers : cost[w] < cost[v] \/ (cost[w] = cost[v] /\ w <= v)

\* Mutant: the middle block goes to the first worker.
FirstMiddle ==
  /\ phase = "pairs" /\ i = workers
  /\ IF Odd
     THEN /\ active' = [active EXCEPT ![0] = @ \union {blocks \div 2}]
          /\ cost' = [cost EXCEPT ![0] = @ + blocks \div 2]
     ELSE UNCHANGED <<active, cost>>
  /\ Loop("kv", 0, blocks, ranks)
  /\ UNCHANGED <<inputs, kv>>

Middle ==
  /\ phase = "pairs" /\ i = workers
  /\ IF Odd
     THEN \E w \in Workers :
            /\ Lightest(w)
            /\ active' = [active EXCEPT ![w] = @ \union {blocks \div 2}]
            /\ cost' = [cost EXCEPT ![w] = @ + blocks \div 2]
     ELSE UNCHANGED <<active, cost>>
  /\ Loop("kv", 0, blocks, ranks)
  /\ UNCHANGED <<inputs, kv>>

\* _short_dual_end_assignments: single blocks, the costliest first, each to the
\* lightest worker.
PlaceBlock ==
  /\ phase = "short" /\ i >= 0
  /\ \E w \in Workers :
       /\ Lightest(w)
       /\ active' = [active EXCEPT ![w] = @ \union {i}]
       /\ cost' = [cost EXCEPT ![w] = @ + i]
  /\ i' = i - 1
  /\ UNCHANGED <<inputs, phase, next, base, rest, kv>>

AllPlaced ==
  /\ phase = "short" /\ i < 0
  /\ Loop("kv", 0, blocks, ranks)
  /\ UNCHANGED <<inputs, active, cost, kv>>

\* _balanced_contiguous_shards, for the contiguous policy ...
DealShard ==
  /\ phase = "shards" /\ i < workers
  /\ active' = [active EXCEPT ![i] = next .. next + Share - 1]
  /\ next' = next + Share /\ i' = i + 1
  /\ UNCHANGED <<inputs, phase, base, rest, cost, kv>>

ShardsDealt ==
  /\ phase = "shards" /\ i = workers
  /\ Loop("kv", 0, blocks, ranks)
  /\ UNCHANGED <<inputs, active, cost, kv>>

\* Mutant: the remainder goes to the context ranks at the end of the ring.
DealKVFromEnd ==
  /\ phase = "kv" /\ i < ranks
  /\ LET share == base + (IF i > rest THEN 1 ELSE 0)
     IN kv' = [kv EXCEPT ![i] = next .. next + share - 1] /\ next' = next + share
  /\ i' = i + 1
  /\ UNCHANGED <<inputs, phase, base, rest, active, cost>>

\* ... and for the owners of the clean K/V.
DealKV ==
  /\ phase = "kv" /\ i < ranks
  /\ kv' = [kv EXCEPT ![i] = next .. next + Share - 1]
  /\ next' = next + Share /\ i' = i + 1
  /\ UNCHANGED <<inputs, phase, base, rest, active, cost>>

Built ==
  /\ phase = "kv" /\ i = ranks
  /\ phase' = "built"
  /\ UNCHANGED <<inputs, i, next, base, rest, active, cost, kv>>

Returned == phase \in {"built", "raised"} /\ UNCHANGED vars

Init ==
  /\ policy \in {"dual_end", "contiguous"}
  /\ blocks \in BlockCounts /\ workers \in Sizes /\ ranks \in Sizes
  /\ phase = "start" /\ i = 0 /\ next = 0 /\ base = 0 /\ rest = 0
  /\ active = [w \in Workers |-> {}] /\ cost = [w \in Workers |-> 0]
  /\ kv = [c \in ContextRanks |-> {}]

Next ==
  \/ StartDualEnd \/ StartContiguous \/ DealPairs \/ Middle \/ PlaceBlock
  \/ AllPlaced \/ DealShard \/ ShardsDealt \/ DealKV \/ Built \/ Returned

Spec == Init /\ [][Next]_vars

-----------------------------------------------------------------------------
Phases == {"start", "pairs", "short", "shards", "kv", "built", "raised"}

\* Every variable has its type.
TypeOK ==
  /\ policy \in {"dual_end", "contiguous"}
  /\ blocks \in BlockCounts /\ workers \in Sizes /\ ranks \in Sizes
  /\ phase \in Phases
  /\ i \in Int /\ next \in Nat /\ base \in Nat /\ rest \in Nat
  /\ active \in [Workers -> SUBSET Int] /\ cost \in [Workers -> Int]
  /\ kv \in [ContextRanks -> SUBSET Int]

\* owners deal out the blocks below n, each to exactly one of them.
Partition(owners, S, n) ==
  /\ \A b \in 0 .. n - 1 : \E o \in S : b \in owners[o]
  /\ \A o \in S : owners[o] \subseteq 0 .. n - 1
  /\ \A o, p \in S : o # p => owners[o] \cap owners[p] = {}

\* "active blocks must cover every block exactly once": the check of
\* validate_block_schedule never fails, in any regime of the builder.
ActiveBlocksOnce == phase = "built" => Partition(active, Workers, blocks)

\* "KV ownership must cover every block exactly once", and so the replication
\* factor is 1.
KVBlocksOnce == phase = "built" => Partition(kv, ContextRanks, blocks)

\* "ensuring every worker owns at least one complete block": a dual-end schedule
\* leaves nobody idle, or the builder raises.
EveryWorkerHasABlock ==
  phase = "built" /\ policy = "dual_end" => \A w \in Workers : active[w] # {}

\* "active prefix cost is unexpectedly imbalanced" is never raised.
CostIsBalanced ==
  phase = "built" /\ policy = "dual_end" =>
    \A v, w \in Workers : cost[v] - cost[w] <= blocks
=============================================================================
