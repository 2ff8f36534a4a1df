---------------------------- MODULE ParallelPlan ----------------------------
(***************************************************************************)
(* build_parallel_plan: where every rank of a DP x PP x local(CP/BP) x TP  *)
(* x EP mesh sits, which physical rank plays which logical one, and the    *)
(* process groups this gives each rank.  All of it is a function of the    *)
(* mesh, a record [dp, pp, cp, bp, tp, ep, node, policy]; node = 0 stands  *)
(* for node_size=None.                                                     *)
(***************************************************************************)
EXTENDS Integers, FiniteSets, SequencesExt

LocalSize(m) == IF m.cp > m.bp THEN m.cp ELSE m.bp
PerLocal(m) == m.tp * m.ep
PerPipeline(m) == LocalSize(m) * PerLocal(m)
ModelSize(m) == m.pp * PerPipeline(m)
WorldSize(m) == m.dp * ModelSize(m)
World(m) == 0 .. WorldSize(m) - 1

\* CP and BP share one axis: one of them alone, or BP tiling it with CP rings.
SupportedLocalLayout(m) == m.cp = 1 \/ m.bp = 1 \/ m.bp % m.cp = 0
OneRing(m) == m.cp = 1 \/ m.bp = 1 \/ m.bp = m.cp

\* Coordinates of a logical rank, EP varying fastest ...
Coords(m, l) ==
  LET inModel == l % ModelSize(m)
      inPipeline == inModel % PerPipeline(m)
      inLocal == inPipeline % PerLocal(m)
  IN [dp |-> l \div ModelSize(m), pp |-> inModel \div PerPipeline(m),
      local |-> inPipeline \div PerLocal(m), tp |-> inLocal \div m.ep, ep |-> inLocal % m.ep]

\* ... and back.
RankFromCoords(m, c) ==
  c.dp * ModelSize(m) + c.pp * PerPipeline(m) + c.local * PerLocal(m)
    + c.tp * m.ep + c.ep

-----------------------------------------------------------------------------
(* Placement: the physical rank of each logical rank.                      *)

NodeCount(m) == WorldSize(m) \div m.node

\* inter_node_cp: consecutive local ranks fill the nodes one after the other,
\* every node holding an equal share of every replica.
Striped(m) ==
  [l \in World(m) |->
     LET c == Coords(m, l)
         perNode == LocalSize(m) \div NodeCount(m)
         share == ModelSize(m) \div NodeCount(m)
     IN (c.local \div perNode) * m.node
          + c.dp * share + (c.local % perNode) * PerLocal(m) + c.tp * m.ep + c.ep]

CanStripe(m) ==
  /\ NodeCount(m) > 1 /\ m.pp = 1
  /\ LocalSize(m) % NodeCount(m) = 0 /\ ModelSize(m) % NodeCount(m) = 0
  /\ m.dp * (ModelSize(m) \div NodeCount(m)) = m.node

\* TP and the local axis fill one node, EP goes across nodes.
ExpertsAcrossNodes(m) ==
  /\ m.ep > 1 /\ m.pp = 1
  /\ LocalSize(m) * m.tp = m.node
  /\ m.dp * m.ep <= NodeCount(m)

\* Mutant: the placement is reported but never made.
NoExpertPlacement(m) == [l \in World(m) |-> l]

ExpertPlacement(m) ==
  [l \in World(m) |->
     LET c == Coords(m, l)
     IN (c.dp * m.ep + c.ep) * m.node + c.local * m.tp + c.tp]

\* Replicas that fit into a node are dealt out round-robin over the nodes.
ReplicasFitNodes(m) == ModelSize(m) <= m.node /\ m.node % ModelSize(m) = 0 /\ NodeCount(m) > 1

RoundRobin(m) ==
  [l \in World(m) |->
     LET dp == l \div ModelSize(m)
     IN (dp % NodeCount(m)) * m.node + (dp \div NodeCount(m)) * ModelSize(m)
          + (l % ModelSize(m))]

Physical(m) ==
  CASE m.node = 0 -> [l \in World(m) |-> l]
    [] m.node # 0 /\ m.policy = "inter_node_cp" -> Striped(m)
    [] m.node # 0 /\ m.policy = "auto" /\ ExpertsAcrossNodes(m) -> ExpertPlacement(m)
    [] m.node # 0 /\ m.policy = "auto" /\ ~ ExpertsAcrossNodes(m) ->
         IF ReplicasFitNodes(m) THEN RoundRobin(m) ELSE [l \in World(m) |-> l]

\* The builder returns a plan instead of raising.
Accepted(m) ==
  /\ SupportedLocalLayout(m)
  /\ m.node # 0 => WorldSize(m) % m.node = 0
  /\ m.policy = "inter_node_cp" =>
       m.cp > 1 /\ m.bp \in {1, m.cp} /\ m.node # 0 /\ CanStripe(m)

\* placement, the name the plan and the logs carry.
PlacementName(m) ==
  CASE m.policy = "inter_node_cp" -> "inter_node_cp_tp_inner"
    [] m.policy = "auto" /\ m.node = 0 -> "contiguous_tp_inner"
    [] m.policy = "auto" /\ m.node # 0 ->
         IF ExpertsAcrossNodes(m) THEN "tp_intra_node_ep_inter_node"
         ELSE IF ModelSize(m) <= m.node THEN "node_local_model_parallel_tp_inner"
         ELSE IF m.cp * m.tp <= m.node
              THEN "multi_node_model_parallel_node_local_cp_tp_inner"
         ELSE "multi_node_model_parallel_tp_inner"

-----------------------------------------------------------------------------
(* The assignment of one rank.                                             *)

\* Mutant: the ring rank is the number of the ring.
ContextRankByRing(m, local) == IF m.cp = 1 THEN 0 ELSE local \div m.cp

ContextRank(m, local) == IF m.cp = 1 THEN 0 ELSE local % m.cp
BlockRank(m, local) == IF m.bp = 1 THEN 0 ELSE local

\* Mutant: the ring is the next cp local ranks.
SlidingRing(m, local) ==
  IF m.cp = 1 \/ m.bp = 1 THEN 0 .. LocalSize(m) - 1
  ELSE {(local + k) % LocalSize(m) : k \in 0 .. m.cp - 1}

\* The local ranks of one context/block group: the whole axis, or one CP ring.
RingLocals(m, local) ==
  IF m.cp = 1 \/ m.bp = 1 THEN 0 .. LocalSize(m) - 1
  ELSE {k \in 0 .. LocalSize(m) - 1 : k \div m.cp = local \div m.cp}

\* The local ranks that hold the same clean context shard in other rings.
ReplicaLocals(m, local) ==
  IF m.cp = 1 \/ m.bp = 1 THEN {local}
  ELSE {k \in 0 .. LocalSize(m) - 1 : ContextRank(m, k) = ContextRank(m, local)}

\* The numbers of a finite set, the least first: what a comprehension over a range gives.
Ascending(S) ==
  [i \in 1 .. Cardinality(S) |-> CHOOSE x \in S : Cardinality({y \in S : y < x}) = i - 1]

\* Every list of the code loops over coordinates from the slowest axis to the
\* fastest, so its members come in the order of their logical ranks.
Listed(place, logicals) ==
  LET s == Ascending(logicals) IN [i \in DOMAIN s |-> place[s[i]]]

\* _rank_assignment of a logical rank: its coordinates and its groups.
Assignment(m, place, l) ==
  LET c == Coords(m, l)
      At(d) == RankFromCoords(m, d)
  IN [at |-> c,
      context |-> ContextRank(m, c.local),
      block |-> BlockRank(m, c.local),
      groups |->
        [data |-> Listed(place, {At([c EXCEPT !.dp = d]) : d \in 0 .. m.dp - 1}),
         dense_data |->
           Listed(place, {At([c EXCEPT !.dp = p[1], !.ep = p[2]]) :
                            p \in (0 .. m.dp - 1) \X (0 .. m.ep - 1)}),
         context_block |->
           Listed(place, {At([c EXCEPT !.local = k]) : k \in RingLocals(m, c.local)}),
         clean_replica |->
           Listed(place, {At([c EXCEPT !.local = k]) : k \in ReplicaLocals(m, c.local)}),
         tensor |-> Listed(place, {At([c EXCEPT !.tp = t]) : t \in 0 .. m.tp - 1}),
         pipeline |-> Listed(place, {At([c EXCEPT !.pp = p]) : p \in 0 .. m.pp - 1}),
         expert |-> Listed(place, {At([c EXCEPT !.ep = e]) : e \in 0 .. m.ep - 1}),
         model_input |->
           Listed(place, {At([c EXCEPT !.local = p[1], !.tp = p[2]]) :
                            p \in (0 .. LocalSize(m) - 1) \X (0 .. m.tp - 1)}),
         model |->
           Listed(place, c.dp * ModelSize(m) .. (c.dp + 1) * ModelSize(m) - 1)]]

\* rank_assignments, by physical rank: the placement is inverted as
\* _invert_rank_permutation does, the last logical rank written wins.
Plan(m) ==
  LET place == Physical(m)
      Logical(p) == {l \in World(m) : place[l] = p}
      Inverse1(p) == IF Logical(p) = {} THEN 0
                     ELSE CHOOSE l \in Logical(p) : \A k \in Logical(p) : k <= l
  IN [p \in World(m) |-> Assignment(m, place, Inverse1(p))]

\* Mutant: the EP coordinate is forgotten.
OptimizerGroupOverExperts(plan, r) ==
  Ascending({q \in DOMAIN plan : \A a \in {"pp", "tp"} : plan[q].at[a] = plan[r].at[a]})

\* optimizer_data_parallel_group_ranks: every rank with the same weights, in the
\* order of the physical ranks.
OptimizerGroup(plan, r) ==
  Ascending({q \in DOMAIN plan : \A a \in {"pp", "tp", "ep"} : plan[q].at[a] = plan[r].at[a]})

\* sample_parallel_rank, the index by which a rank reads its input.
SampleRank(m, plan, r) == plan[r].at.dp * m.ep + plan[r].at.ep
=============================================================================
