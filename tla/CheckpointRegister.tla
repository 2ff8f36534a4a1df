-------------------------- MODULE CheckpointRegister --------------------------
(***************************************************************************)
(* What a checkpoint directory promises a job that saves into it and may    *)
(* die at any moment: one register holding a checkpoint that is whole (all  *)
(* its shards come from one launch of the job), replaced in one step, and   *)
(* never by an older one.                                                   *)
(***************************************************************************)
EXTENDS Integers

CONSTANTS Tags, Launches, NoTag, Before(_, _)

VARIABLE saved   \* [tag, launches]: the launches its shards were written by

Empty == [tag |-> NoTag, launches |-> {}]

\* A complete checkpoint of launch l becomes the one to resume from.  The same
\* tag may be saved again by a later launch, which replaces every shard.
Replace(t, l) ==
  /\ saved.tag # NoTag => ~Before(t, saved.tag)
  /\ saved' = [tag |-> t, launches |-> {l}]

Init == saved = Empty
Next == \E t \in Tags, l \in Launches : Replace(t, l)
Spec == Init /\ [][Next]_saved
=============================================================================
