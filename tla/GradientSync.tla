---------------------------- MODULE GradientSync ----------------------------
(***************************************************************************)
(* The collectives of one optimizer step, from the creation of the process *)
(* groups of a parallel plan to the clipping norm.  Every rank walks its   *)
(* own list of collectives; one happens when all the ranks it spans have   *)
(* reached it.  A gradient is a weighted sum of the contributions that the *)
(* backward passes computed, so a reduction over the wrong group, a wrong  *)
(* divisor and a contribution counted twice all show.                      *)
(***************************************************************************)
EXTENDS ParallelPlan

CONSTANTS
  Instances  \* [mesh, backend, sp]: the runs that are looked at

ASSUME InstanceAssumption ==
  \A i \in Instances :
    /\ i.backend \in {"deepspeed_zero2", "torch_adamw", "torch_distributed_adamw"}
    /\ {i.mesh.dp, i.mesh.pp, i.mesh.cp, i.mesh.bp, i.mesh.tp, i.mesh.ep} \subseteq Nat \ {0}
    /\ i.mesh.node \in Nat /\ i.mesh.policy \in {"auto", "inter_node_cp"}
    /\ Accepted(i.mesh) /\ i.sp \in BOOLEAN /\ (i.sp => i.mesh.tp > 1)

\* The groups of DLLMProcessGroupCollection, in the order it builds them.
Attributes == <<"data", "model", "model_input", "context_block", "clean_replica",
                "tensor", "pipeline", "expert">>

VARIABLES
  mesh, backend, sp,  \* topology, optimizer.backend and sequence_parallel
  plan,    \* rank_assignments and the optimizer group of each rank
  handle,  \* handle[r][a]: the communicator rank r holds for a; <<>> is None
  todo,    \* todo[r]: the collectives rank r still goes through
  phase,   \* "setup" creates the groups, "step" is the optimizer step
  grad,    \* grad[r][k]: the weight of each contribution in r's gradient
  norm     \* norm[r]: how often the norm r clips by counts each (kind, shard)

inputs == <<mesh, backend, sp, plan>>
vars == <<inputs, handle, todo, phase, grad, norm>>

Ranks == DOMAIN plan
Everyone == [i \in 1 .. Cardinality(Ranks) |-> i - 1]
Zero == backend = "deepspeed_zero2"

\* How parameters are held: replicated, replicated under sequence parallelism
\* (_dllm_sequence_parallel_replicated), sharded over TP, sharded over EP.
Kinds ==
  {"dense"} \union (IF sp THEN {"norm"} ELSE {})
    \union (IF mesh.tp > 1 THEN {"tensor"} ELSE {})
    \union (IF mesh.ep > 1 THEN {"expert"} ELSE {})

-----------------------------------------------------------------------------
(* Contributions.                                                          *)

\* A weight every chain of divisions by group sizes leaves whole.
Unit == WorldSize(mesh) * WorldSize(mesh) * WorldSize(mesh)

Shard(k, r) ==
  CASE k = "tensor" -> plan[r].at.tp
    [] k = "expert" -> plan[r].at.ep
    [] k \in {"dense", "norm"} -> 0

\* _broadcast_model_parallel_batch: the first rank of the model-input group
\* sends its batch to the others.
Input(r) == SampleRank(mesh, plan, Head(plan[r].groups.model_input))

\* What the backward pass of rank r computes for a parameter of kind k: from
\* which input, which part of it (the local rank and, for a sequence-parallel
\* replica, the TP rank's rows), for which shard.  Expert tokens are routed to
\* the owner of the expert, from all inputs of its EP group.
Computed(k, r) ==
  {[sample |-> Input(q), local |-> plan[r].at.local,
    rows |-> IF k = "norm" THEN plan[r].at.tp ELSE 0, shard |-> Shard(k, r)] :
     q \in IF k = "expert" THEN ToSet(plan[r].groups.expert) ELSE {r}}

Contributions(k) == UNION {Computed(k, r) : r \in Ranks}

Backward(k, r) == [a \in Contributions(k) |-> IF a \in Computed(k, r) THEN Unit ELSE 0]

-----------------------------------------------------------------------------
(* The list of collectives.                                                *)

Collective(op, over, kinds) == [op |-> op, over |-> over, kinds |-> kinds]

\* model_input_group reuses the model-parallel communicator when it can.
SharesInputGroup(r) == plan[r].groups.model_input = plan[r].groups.model

\* Where a list of more than one rank stands that has not come before.
FirstPlaces(lists) ==
  Ascending({i \in DOMAIN lists : Len(lists[i]) > 1 /\ \A j \in 1 .. i - 1 : lists[j] # lists[i]})

\* Mutant: a rank goes through the creation of its own groups only.
NewGroupsOfOwn(r, a) ==
  LET mine == IF a = "optimizer" THEN plan[r].optimizer ELSE plan[r].groups[a]
  IN IF Len(mine) > 1 THEN <<Collective("new", mine, a)>> ELSE <<>>

\* current_group_from_rank_lists: the distinct lists of all ranks, each created
\* by everyone; one of a single rank needs no one else or is left out.
NewGroups(r, a) ==
  LET lists == [i \in DOMAIN Everyone |->
                  IF a = "optimizer" THEN plan[i - 1].optimizer
                  ELSE plan[i - 1].groups[a]]
      places == FirstPlaces(lists)
  IN [n \in DOMAIN places |-> Collective("new", lists[places[n]], a)]

\* DLLMProcessGroupCollection.from_plan.
Creation(r) ==
  NewGroups(r, "optimizer") \o NewGroups(r, "data") \o NewGroups(r, "model")
    \o (IF SharesInputGroup(r) THEN <<>> ELSE NewGroups(r, "model_input"))
    \o NewGroups(r, "context_block") \o NewGroups(r, "clean_replica")
    \o NewGroups(r, "tensor") \o NewGroups(r, "pipeline") \o NewGroups(r, "expert")

Over(op, group, kinds) ==
  IF Len(group) > 1 /\ kinds \cap Kinds # {}
  THEN <<Collective(op, group, kinds \cap Kinds)>> ELSE <<>>

\* all_reduce_model_parallel_gradients: sharded parameters first, then the
\* replicated ones; without TP the latter count as sharded.
ModelParallelSync(r) ==
  IF mesh.tp > 1
  THEN Over("mean", handle[r].context_block, {"tensor"})
         \o Over("mean", handle[r].model, {"dense", "norm"})
  ELSE Over("mean", handle[r].context_block, {"dense", "norm", "tensor"})

SequenceParallelSync(r) ==
  IF sp THEN Over("sum", handle[r].tensor, {"norm"}) ELSE <<>>

\* FirstPartyDistributedAdamW.synchronize_gradients falls back to the world.
AdamWSync(r) ==
  Over("mean", IF handle[r].data = <<>> THEN Everyone ELSE handle[r].data, Kinds)

\* DeepSpeed reduces over the optimizer group during backward.  The sync over
\* the local axis is skipped when that group already spans it; sequence-parallel
\* replicas are summed over TP, dense gradients averaged over EP and expert
\* gradients, which are sums over EP, divided by its size.
ZeroSync(r) ==
  Over("mean", handle[r].optimizer, Kinds)
    \o (IF plan[r].optimizer # plan[r].groups.data THEN <<>>
        ELSE Over("mean",
               IF mesh.tp = 1 /\ Len(plan[r].groups.clean_replica) > 1
               THEN handle[r].model ELSE handle[r].context_block, Kinds))
    \o SequenceParallelSync(r)
    \o Over("experts", handle[r].expert, Kinds)

\* The norm of a first-party optimizer; DeepSpeed computes its own.
FirstPartySync(r) ==
  SequenceParallelSync(r) \o ModelParallelSync(r)
    \o (IF backend = "torch_distributed_adamw" THEN AdamWSync(r)
        ELSE Over("mean", handle[r].data, Kinds))
    \o Over("norm", handle[r].model, Kinds)

Waiting(r) == todo[r] # <<>>
Current(r) == Head(todo[r])

\* new_group is called by the whole world, the others by their group.
Callers(c) == IF c.op = "new" THEN Ranks ELSE ToSet(c.over)

Met(c) == \A q \in Callers(c) : Waiting(q) /\ Current(q) = c

-----------------------------------------------------------------------------
(* The collectives.                                                        *)

Enter(c) ==
  /\ Met(c)
  /\ todo' = [r \in Ranks |-> IF r \in Callers(c) THEN Tail(todo[r]) ELSE todo[r]]
  /\ UNCHANGED <<inputs, phase>>

\* dist.new_group: the members get the communicator.
NewGroup(c) ==
  /\ c.op = "new" /\ Enter(c)
  /\ handle' = [r \in Ranks |->
       IF r \notin ToSet(c.over) THEN handle[r]
       ELSE IF c.kinds = "model" /\ SharesInputGroup(r)
            THEN [handle[r] EXCEPT !.model = c.over, !.model_input = c.over]
            ELSE [handle[r] EXCEPT ![c.kinds] = c.over]]
  /\ UNCHANGED <<grad, norm>>

\* The sum of the gradients of the members, divided by d.
Total(c, k, d) ==
  [a \in Contributions(k) |->
     SumFunctionOnSet([r \in ToSet(c.over) |-> grad[r][k][a]], ToSet(c.over)) \div d]

AllReduce(c) ==
  /\ c.op \in {"mean", "sum"} /\ Enter(c)
  /\ grad' = [r \in Ranks |-> [k \in Kinds |->
       IF r \in ToSet(c.over) /\ k \in c.kinds
       THEN Total(c, k, IF c.op = "sum" THEN 1 ELSE Len(c.over))
       ELSE grad[r][k]]]
  /\ UNCHANGED <<handle, norm>>

\* Mutant: expert gradients are not divided.
SyncExpertsSummed(c) ==
  /\ c.op = "experts" /\ Enter(c)
  /\ grad' = [r \in Ranks |-> [k \in Kinds |->
       IF r \in ToSet(c.over) /\ k # "expert" THEN Total(c, k, mesh.ep) ELSE grad[r][k]]]
  /\ UNCHANGED <<handle, norm>>

\* sync_expert_parallel_zero_gradients.
SyncExperts(c) ==
  /\ c.op = "experts" /\ Enter(c)
  /\ grad' = [r \in Ranks |-> [k \in Kinds |->
       IF r \notin ToSet(c.over) THEN grad[r][k]
       ELSE IF k = "expert" THEN [a \in DOMAIN grad[r][k] |-> grad[r][k][a] \div mesh.ep]
       ELSE Total(c, k, mesh.ep)]]
  /\ UNCHANGED <<handle, norm>>

\* Mutant: every local rank counts its gradients.
OwnsOnEveryLocalRank(k, r) ==
  /\ k = "tensor" \/ plan[r].at.tp = 0
  /\ k = "expert" \/ plan[r].at.ep = 0

\* _owns_logical_gradient_norm.
OwnsNorm(k, r) ==
  /\ plan[r].at.local = 0
  /\ k = "tensor" \/ plan[r].at.tp = 0
  /\ k = "expert" \/ plan[r].at.ep = 0

Shards(k) == {Shard(k, r) : r \in Ranks}

\* _clip_grad_norm_global: the squares of the owned gradients, summed.
ClipNorm(c) ==
  /\ c.op = "norm" /\ Enter(c)
  /\ norm' = [r \in Ranks |->
       IF r \notin ToSet(c.over) THEN norm[r]
       ELSE [k \in Kinds |-> [s \in Shards(k) |->
               Cardinality({q \in ToSet(c.over) : OwnsNorm(k, q) /\ Shard(k, q) = s})]]]
  /\ UNCHANGED <<handle, grad>>

\* The trainer refuses more than one pipeline stage; a plan may have them.
StartStep ==
  /\ phase = "setup" /\ mesh.pp = 1
  /\ \A r \in Ranks : ~ Waiting(r)
  /\ phase' = "step"
  /\ todo' = [r \in Ranks |-> IF Zero THEN ZeroSync(r) ELSE FirstPartySync(r)]
  /\ UNCHANGED <<inputs, handle, grad, norm>>

Stop ==
  /\ phase = "step" \/ mesh.pp > 1
  /\ \A r \in Ranks : ~ Waiting(r)
  /\ UNCHANGED vars

Init ==
  /\ \E i \in Instances : mesh = i.mesh /\ backend = i.backend /\ sp = i.sp
  /\ LET p == Plan(mesh) IN
       plan = [r \in World(mesh) |->
                 [at |-> p[r].at, context |-> p[r].context, block |-> p[r].block,
                  groups |-> p[r].groups, optimizer |-> OptimizerGroup(p, r)]]
  /\ handle = [r \in Ranks |->
       [a \in {"optimizer"} \union ToSet(Attributes) |->
          IF a = "optimizer" /\ Len(plan[r].optimizer) = 1 THEN plan[r].optimizer ELSE <<>>]]
  /\ phase = "setup"
  /\ todo = [r \in Ranks |-> Creation(r)]
  /\ grad = [r \in Ranks |-> [k \in Kinds |-> Backward(k, r)]]
  /\ norm = [r \in Ranks |-> [k \in Kinds |-> [s \in Shards(k) |-> 0]]]

Next ==
  \/ \E r \in Ranks :
       /\ Waiting(r)
       /\ LET c == Current(r) IN
            NewGroup(c) \/ AllReduce(c) \/ SyncExperts(c) \/ ClipNorm(c)
  \/ StartStep \/ Stop

Spec == Init /\ [][Next]_vars

-----------------------------------------------------------------------------
(* Properties.                                                             *)

\* Every variable has its type.
TypeOK ==
  /\ [mesh |-> mesh, backend |-> backend, sp |-> sp] \in Instances
  /\ Ranks = World(mesh)
  /\ \A r \in Ranks : SampleRank(mesh, plan, r) \in 0 .. mesh.dp * mesh.ep - 1
  /\ \A r \in Ranks : \A a \in DOMAIN handle[r] : ToSet(handle[r][a]) \subseteq Ranks
  /\ phase \in {"setup", "step"}
  /\ \A r \in Ranks : \A i \in DOMAIN todo[r] : ToSet(todo[r][i].over) \subseteq Ranks
  /\ \A r \in Ranks : \A k \in Kinds : grad[r][k] \in [Contributions(k) -> Nat]
  /\ \A r \in Ranks : \A k \in Kinds : norm[r][k] \in [Shards(k) -> 0 .. Len(Everyone)]

\* Each rank computes its groups on its own; two members of a group always come
\* to the same list in the same order, and each rank is in its own groups.
\* Otherwise they would hold different communicators for one axis.
GroupsAgree ==
  \A r \in Ranks : \A a \in ToSet(Attributes) :
    LET g == plan[r].groups[a] IN
      /\ r \in ToSet(g)
      /\ \A q \in ToSet(g) : plan[q].groups[a] = g

\* The ring passes take a rank's position in its ring for its context rank, and
\* the ranks of a ring hold the context shards between them.
RingInOrder ==
  mesh.cp > 1 => \A r \in Ranks :
    /\ Len(plan[r].groups.context_block) = mesh.cp
    /\ plan[r].groups.context_block[plan[r].context + 1] = r

\* ZeRO hands member i of the optimizer group partition i.  TP and EP ranks then
\* reduce their partitions elementwise, so they must hold the same one; nothing
\* at run time would notice if they did not.
PartitionsAlign ==
  \A r \in Ranks : \A q \in ToSet(plan[r].groups.tensor) \union ToSet(plan[r].groups.expert) :
    \A i \in DOMAIN plan[r].optimizer :
      plan[r].optimizer[i] = r => i \in DOMAIN plan[q].optimizer /\ plan[q].optimizer[i] = q

Node(r) == r \div mesh.node
SameNode(g) == \A r, q \in ToSet(g) : Node(r) = Node(q)
NodeLocal(a) == \A r \in Ranks : SameNode(plan[r].groups[a])

ExpertsApart ==
  /\ NodeLocal("tensor") /\ NodeLocal("context_block")
  /\ \A r \in Ranks : \A q, s \in ToSet(plan[r].groups.expert) : Node(q) = Node(s) => q = s

RingsOverNodes ==
  /\ NodeLocal("tensor")
  /\ \A r \in Ranks : \A n \in 0 .. NodeCount(mesh) - 1 :
       LET ring == plan[r].groups.context_block IN
         Cardinality({q \in ToSet(ring) : Node(q) = n}) = Len(ring) \div NodeCount(mesh)

\* Runs of size consecutive ranks end where the nodes end.
TilesNodes(size) == NodeCount(mesh) = 1 \/ mesh.node % size = 0

RunsOnNodes ==
  /\ NodeLocal("model") <=>
       /\ PlacementName(mesh) = "node_local_model_parallel_tp_inner"
       /\ TilesNodes(ModelSize(mesh))
  /\ mesh.cp > 1 =>
       (NodeLocal("context_block") <=>
          /\ PlacementName(mesh) # "multi_node_model_parallel_tp_inner"
          /\ TilesNodes(mesh.cp * PerLocal(mesh)))
  /\ mesh.tp > 1 => (NodeLocal("tensor") <=> TilesNodes(PerLocal(mesh)))

\* The placement a plan reports is decided by conditions of its own.  Two names
\* are true as they stand: TP and CP/BP groups on a node, EP ranks on nodes of
\* their own; TP groups on a node, CP groups over all nodes evenly.  The other
\* three, and the docstring, promise replicas, CP rings and TP groups on a node.
\* These groups lie in runs of consecutive ranks, EP varying fastest, so they are
\* on a node exactly if the name does not deny it and the runs tile the nodes.
NodeLocality == mesh.node # 0 =>
  CASE PlacementName(mesh) = "tp_intra_node_ep_inter_node" -> ExpertsApart
    [] PlacementName(mesh) = "inter_node_cp_tp_inner" -> RingsOverNodes
    [] OTHER -> RunsOnNodes

\* No rank waits for a collective that the others have passed, skipped or
\* reordered: as long as one is unfinished, some collective has all its ranks.
NeverStuck ==
  (\A r \in Ranks : ~ Waiting(r)) \/ \E r \in Ranks : Waiting(r) /\ Met(Current(r))

\* When a rank is done its gradient is the mean over all samples of the step,
\* each read by one model-input group, and over all local shares of them, and
\* the sum over the rows of a sequence-parallel replica, of its own shard and of
\* no other: every rank that holds the shard updates it alike, whatever the mesh
\* and the optimizer backend.
GradientIsMean ==
  phase = "step" => \A r \in Ranks : ~ Waiting(r) => \A k \in Kinds :
    /\ {a.sample : a \in Contributions(k)} = 0 .. mesh.dp * mesh.ep - 1
    /\ \A a \in Contributions(k) :
         grad[r][k][a] =
           IF a.shard = Shard(k, r)
           THEN Unit \div (mesh.dp * mesh.ep * LocalSize(mesh)) ELSE 0

\* "Count every logical parameter shard exactly once across model parallelism."
NormCountsOnce ==
  phase = "step" /\ ~ Zero /\ ModelSize(mesh) > 1 =>
    \A r \in Ranks : ~ Waiting(r) =>
      \A k \in Kinds : \A s \in Shards(k) : norm[r][k][s] = 1
=============================================================================
