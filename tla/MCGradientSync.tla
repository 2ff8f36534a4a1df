--------------------------- MODULE MCGradientSync ---------------------------
(* GradientSync for every mesh of at most MaxWorld ranks that the builder      *)
(* accepts, on nodes of every size.                                            *)
EXTENDS GradientSync

CONSTANTS MaxWorld

Sizes == 1 .. MaxWorld

Shapes ==
  {s \in [dp : Sizes, pp : {1, 2}, cp : Sizes, bp : Sizes, tp : Sizes, ep : Sizes] :
     WorldSize(s) <= MaxWorld}

Meshes ==
  {m \in {s @@ [node |-> n, policy |-> p] :
            s \in Shapes, n \in {0} \union Sizes, p \in {"auto", "inter_node_cp"}} :
     Accepted(m)}

With(b, flags, meshes) ==
  {i \in [mesh : meshes, backend : {b}, sp : flags] : i.sp => i.mesh.tp > 1}

\* A first-party backend on one CP ring without EP; more rings or experts are
\* not reduced by it.  The distributed AdamW also needs a DP group next to TP.
FirstParty == {m \in Meshes : OneRing(m) /\ m.ep = 1 /\ m.pp = 1}
WithReplicas == {m \in FirstParty : m.dp > 1 \/ m.tp = 1}

Supported ==
  With("deepspeed_zero2", BOOLEAN, Meshes)
    \union With("torch_adamw", BOOLEAN, FirstParty)
    \union With("torch_distributed_adamw", {FALSE}, WithReplicas)

\* One replica of a TP pair: no data-parallel group is created.
OneReplica ==
  With("torch_distributed_adamw", {FALSE},
       {m \in Meshes : m.tp = 2 /\ WorldSize(m) = 2 /\ m.node = 0})
=============================================================================
