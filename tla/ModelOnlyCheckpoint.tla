------------------------ MODULE ModelOnlyCheckpoint ------------------------
(***************************************************************************)
(* Model-only checkpoints: parameters are replicated, so rank 0 writes one *)
(* copy into a temporary directory, renames it into place, validates what  *)
(* it reads back, points metadata.json at it and prunes older ones.  An    *)
(* exception on the way is caught, cleaned up after, and broadcast; a kill *)
(* is not.  There is no auto_resume in this mode: a new launch starts from *)
(* nothing, or from the tag it is told to load.                            *)
(***************************************************************************)
EXTENDS Integers, FiniteSets

CONSTANTS
  Ranks, Coordinator,
  KeepLast,    \* checkpointing.keep_last_n, 0 keeps everything
  MaxStep,     \* bound: optimizer steps, each of which may save its tag
  MaxLaunch,   \* bound: launches on this directory
  MaxFaults,   \* bound: injected exceptions
  Faulty       \* the stages whose file operations may raise

ASSUME RankAssumption == Coordinator \in Ranks
ASSUME BoundAssumption ==
  /\ KeepLast \in Nat /\ MaxStep \in Nat \ {0}
  /\ MaxLaunch \in Nat \ {0} /\ MaxFaults \in Nat

NoTag == 0
Tags == 1 .. MaxStep
Stages == {"mkdir", "tensors", "manifest", "rename", "validate", "publish", "prune"}
ASSUME FaultAssumption == Faulty \subseteq Stages

VARIABLES
  store,    \* store[t]: the tag's directory: "absent", "whole" or "torn"
  temp,     \* temp[t]: its temporary directory: "absent", "empty", "tensors", "whole"
  latest,   \* latest_tag of metadata.json
  launch, step, faults,
  pc,       \* where each rank is
  stage,    \* how far rank 0 has come with the current tag
  created,  \* created_final
  error     \* rank_zero_error is set

files == <<store, temp, latest>>
vars == <<files, launch, step, faults, pc, stage, created, error>>

-----------------------------------------------------------------------------
TrainStep ==
  /\ \A r \in Ranks : pc[r] = "train"
  /\ step < MaxStep
  /\ step' = step + 1
  /\ \E due \in BOOLEAN : pc' = [r \in Ranks |-> IF due THEN "enter" ELSE "train"]
  /\ UNCHANGED <<files, launch, faults, stage, created, error>>

\* The barrier on entry: everybody but rank 0 then waits for the broadcast.
Enter ==
  /\ \A r \in Ranks : pc[r] = "enter"
  /\ pc' = [r \in Ranks |-> IF r = Coordinator THEN "write" ELSE "listen"]
  /\ stage' = "mkdir" /\ created' = FALSE /\ error' = FALSE
  /\ UNCHANGED <<files, launch, step, faults>>

Writing(s) == pc[Coordinator] = "write" /\ stage = s

\* A tag that exists, or a temporary directory a killed launch left, is refused.
MakeDirectory ==
  /\ Writing("mkdir")
  /\ IF store[step] # "absent" \/ temp[step] # "absent"
     THEN stage' = "cleanup" /\ UNCHANGED temp
     ELSE stage' = "tensors" /\ temp' = [temp EXCEPT ![step] = "empty"]
  /\ UNCHANGED <<store, latest, launch, step, faults, pc, created, error>>

WriteTensors ==
  /\ Writing("tensors")
  /\ temp' = [temp EXCEPT ![step] = "tensors"]
  /\ stage' = "manifest"
  /\ UNCHANGED <<store, latest, launch, step, faults, pc, created, error>>

WriteManifest ==
  /\ Writing("manifest")
  /\ temp' = [temp EXCEPT ![step] = "whole"]
  /\ stage' = "rename"
  /\ UNCHANGED <<store, latest, launch, step, faults, pc, created, error>>

\* Mutant: the metadata is written before the directory is in place.
PublishBeforeRename ==
  /\ Writing("rename")
  /\ latest' = step
  /\ store' = [store EXCEPT ![step] = "whole"]
  /\ temp' = [temp EXCEPT ![step] = "absent"]
  /\ created' = TRUE
  /\ stage' = "validate"
  /\ UNCHANGED <<launch, step, faults, pc, error>>

Rename ==
  /\ Writing("rename")
  /\ store' = [store EXCEPT ![step] = "whole"]
  /\ temp' = [temp EXCEPT ![step] = "absent"]
  /\ created' = TRUE
  /\ stage' = "validate"
  /\ UNCHANGED <<latest, launch, step, faults, pc, error>>

\* _validate_model_only_checkpoint reads back what was renamed.
Validate ==
  /\ Writing("validate")
  /\ store[step] = "whole"
  /\ stage' = "publish"
  /\ UNCHANGED <<files, launch, step, faults, pc, created, error>>

Publish ==
  /\ Writing("publish")
  /\ latest' = step
  /\ stage' = "prune"
  /\ UNCHANGED <<store, temp, launch, step, faults, pc, created, error>>

\* The directories retention removes: the temporary ones do not match its pattern.
Old == {t \in Tags : /\ store[t] # "absent" /\ t # step
                     /\ Cardinality({u \in Tags : store[u] # "absent" /\ u > t}) >= KeepLast}

\* rmtree takes the directories one by one, and one of them in many steps.
Prune ==
  /\ Writing("prune")
  /\ KeepLast > 0 /\ Old # {}
  /\ \E t \in Old : /\ \A u \in Old : t <= u
                    /\ store' = [store EXCEPT ![t] = IF @ = "whole" THEN "torn" ELSE "absent"]
  /\ UNCHANGED <<temp, latest, launch, step, faults, pc, stage, created, error>>

Pruned ==
  /\ Writing("prune")
  /\ KeepLast = 0 \/ Old = {}
  /\ stage' = "report"
  /\ UNCHANGED <<files, launch, step, faults, pc, created, error>>

StageRaises ==
  /\ \E s \in Faulty : Writing(s)
  /\ faults < MaxFaults
  /\ faults' = faults + 1
  /\ stage' = "cleanup"
  /\ UNCHANGED <<files, launch, step, pc, created, error>>

\* Mutant: the temporary directory is left for the next attempt.
LeaveTemporary ==
  /\ Writing("cleanup")
  /\ store' = [store EXCEPT ![step] = IF created THEN "absent" ELSE @]
  /\ error' = TRUE /\ stage' = "report"
  /\ UNCHANGED <<temp, latest, launch, step, faults, pc, created>>

\* The except clause: remove what this attempt made, and keep the error.
CleanUp ==
  /\ Writing("cleanup")
  /\ temp' = [temp EXCEPT ![step] = "absent"]
  /\ store' = [store EXCEPT ![step] = IF created THEN "absent" ELSE @]
  /\ error' = TRUE /\ stage' = "report"
  /\ UNCHANGED <<latest, launch, step, faults, pc, created>>

\* The broadcast of rank_zero_error: every rank raises, or none does.
Report ==
  /\ Writing("report")
  /\ \A r \in Ranks \ {Coordinator} : pc[r] = "listen"
  /\ pc' = [r \in Ranks |-> IF error THEN "exited" ELSE "train"]
  /\ UNCHANGED <<files, launch, step, faults, stage, created, error>>

Leave ==
  /\ \A r \in Ranks : pc[r] = "train"
  /\ step = MaxStep
  /\ pc' = [r \in Ranks |-> "exited"]
  /\ UNCHANGED <<files, launch, step, faults, stage, created, error>>

\* The job is killed, or ended, and launched again on the directory: from
\* nothing, or loading the tag metadata.json names if that can be validated.
Restart ==
  /\ launch < MaxLaunch
  /\ launch' = launch + 1
  /\ \/ step' = 0
     \/ latest # NoTag /\ store[latest] = "whole" /\ step' = latest
  /\ pc' = [r \in Ranks |-> "train"]
  /\ stage' = "mkdir" /\ created' = FALSE /\ error' = FALSE
  /\ UNCHANGED <<files, faults>>

Finished == (\A r \in Ranks : pc[r] = "exited") /\ UNCHANGED vars

Init ==
  /\ store = [t \in Tags |-> "absent"] /\ temp = [t \in Tags |-> "absent"]
  /\ latest = NoTag
  /\ launch = 1 /\ step = 0 /\ faults = 0
  /\ pc = [r \in Ranks |-> "train"]
  /\ stage = "mkdir" /\ created = FALSE /\ error = FALSE

Write ==
  \/ MakeDirectory \/ WriteTensors \/ WriteManifest \/ Rename \/ Validate
  \/ Publish \/ Prune \/ Pruned \/ CleanUp \/ Report

Next == TrainStep \/ Enter \/ Write \/ StageRaises \/ Leave \/ Restart \/ Finished

Spec == Init /\ [][Next]_vars

-----------------------------------------------------------------------------
\* The state is well formed, and rank 0 writes only while the others listen.
TypeOK ==
  /\ store \in [Tags -> {"absent", "whole", "torn"}]
  /\ temp \in [Tags -> {"absent", "empty", "tensors", "whole"}]
  /\ latest \in Tags \union {NoTag}
  /\ launch \in 1 .. MaxLaunch /\ step \in 0 .. MaxStep /\ faults \in 0 .. MaxFaults
  /\ pc \in [Ranks -> {"train", "enter", "write", "listen", "exited"}]
  /\ stage \in Stages \union {"cleanup", "report"}
  /\ created \in BOOLEAN /\ error \in BOOLEAN

\* "Atomically publish one replicated trainable-model checkpoint": at every
\* instant, also after a kill, what metadata.json names can be loaded.
LatestIsWhole == latest # NoTag => store[latest] = "whole"

\* An attempt that runs to its verdict leaves no temporary directory of its tag,
\* even one it was refused for, which a killed launch had left: a directory
\* blocks its tag for one attempt only.
AttemptLeavesNoTemporary ==
  [][Writing("report") /\ pc' # pc /\ launch' = launch => temp[step] = "absent"]_vars

=============================================================================
