--------------------- MODULE ModelOnlyCheckpoint_proofs ---------------------
(***************************************************************************)
(* Theorems about ModelOnlyCheckpoint, for every number of ranks, steps,   *)
(* launches and faults and every retention.                                *)
(***************************************************************************)
EXTENDS ModelOnlyCheckpoint, TLAPS

\* An attempt is made for a tag, so some step has been completed.
TypeInv ==
  /\ TypeOK
  /\ pc[Coordinator] \in {"enter", "write"} => step \in Tags

\* What rank 0 knows of its tag at each stage: it was absent until the rename,
\* and metadata.json does not name it before the publication.
AttemptInv ==
  pc[Coordinator] = "write" =>
    /\ stage = "mkdir" => ~created
    /\ stage \in {"tensors", "manifest", "rename"} => ~created /\ store[step] = "absent"
    /\ stage \in {"validate", "publish"} => store[step] = "whole"
    /\ stage \in {"validate", "publish"} => latest # step
    /\ stage = "prune" => latest = step
    /\ stage = "cleanup" /\ created => latest # step

\* From the rename on, and after a clean-up, there is no temporary directory.
TemporaryInv ==
  pc[Coordinator] = "write" /\ stage \in {"validate", "publish", "prune", "report"} =>
    temp[step] = "absent"

LEMMA TypeInit == Init => TypeInv
<1> SUFFICES ASSUME Init PROVE TypeInv
  OBVIOUS
<1> USE BoundAssumption, RankAssumption DEF Init
<1>1. pc \in [Ranks -> {"train", "enter", "write", "listen", "exited"}]
  OBVIOUS
<1>2. stage \in Stages \union {"cleanup", "report"} /\ created \in BOOLEAN /\ error \in BOOLEAN
  BY DEF Stages
<1>3. pc[Coordinator] \notin {"enter", "write"}
  OBVIOUS
<1> QED
  BY <1>1, <1>2, <1>3 DEF TypeInv, TypeOK, NoTag

LEMMA TypeStep == TypeInv /\ [Next]_vars => TypeInv'
<1> SUFFICES ASSUME TypeInv, [Next]_vars PROVE TypeInv'
  OBVIOUS
<1> USE BoundAssumption, RankAssumption DEF TypeInv, TypeOK, Tags, NoTag, files, vars
<1>1. CASE TrainStep
  BY <1>1 DEF TrainStep
<1>2. CASE Enter
  BY <1>2 DEF Enter, Stages
<1>3. CASE MakeDirectory \/ WriteTensors \/ WriteManifest \/ Rename
  BY <1>3 DEF MakeDirectory, WriteTensors, WriteManifest, Rename, Writing, Stages
<1>4. CASE Validate \/ Publish \/ Pruned
  BY <1>4 DEF Validate, Publish, Pruned, Writing, Stages
<1>5. CASE Prune
  <2>1. PICK t \in Old :
          store' = [store EXCEPT ![t] = IF @ = "whole" THEN "torn" ELSE "absent"]
    BY <1>5 DEF Prune
  <2>2. store' \in [Tags -> {"absent", "whole", "torn"}]
    BY <2>1
  <2> QED
    BY <1>5, <2>2 DEF Prune
<1>6. CASE CleanUp
  BY <1>6 DEF CleanUp, Writing, Stages
<1>7. CASE Report
  BY <1>7 DEF Report, Writing
<1>8. CASE StageRaises
  BY <1>8 DEF StageRaises, Writing, Stages
<1>9. CASE Leave
  BY <1>9 DEF Leave
<1>10. CASE Restart
  <2>1. /\ pc' \in [Ranks -> {"train", "enter", "write", "listen", "exited"}]
        /\ pc'[Coordinator] = "train"
    BY <1>10 DEF Restart
  <2>2. launch' \in 1 .. MaxLaunch /\ step' \in 0 .. MaxStep
    BY <1>10 DEF Restart
  <2> QED
    BY <1>10, <2>1, <2>2 DEF Restart, Stages
<1>11. CASE UNCHANGED vars
  BY <1>11
<1> QED
  BY <1>1, <1>2, <1>3, <1>4, <1>5, <1>6, <1>7, <1>8, <1>9, <1>10, <1>11
  DEF Next, Write, Finished

\* Every variable keeps its type in every behaviour, whatever is interrupted.
THEOREM TypeCorrect == Spec => []TypeOK
<1>1. TypeInv => TypeOK
  BY DEF TypeInv
<1> QED
  BY TypeInit, TypeStep, <1>1, PTL DEF Spec

LEMMA AttemptInit == Init => AttemptInv /\ LatestIsWhole
  BY RankAssumption DEF Init, AttemptInv, LatestIsWhole

\* The one exception that can break the pointer is one raised by retention: the
\* clean-up then removes a tag that has been published.
LEMMA AttemptStep ==
  ASSUME "prune" \notin Faulty
  PROVE  TypeInv /\ AttemptInv /\ LatestIsWhole /\ [Next]_vars => (AttemptInv /\ LatestIsWhole)'
<1> SUFFICES ASSUME TypeInv, AttemptInv, LatestIsWhole, [Next]_vars
             PROVE  AttemptInv' /\ LatestIsWhole'
  OBVIOUS
<1> USE BoundAssumption, RankAssumption
    DEF TypeInv, TypeOK, NoTag, AttemptInv, LatestIsWhole, files, vars
<1>1. CASE TrainStep
  BY <1>1 DEF TrainStep
<1>2. CASE Enter
  BY <1>2 DEF Enter
<1>3. CASE MakeDirectory
  BY <1>3 DEF MakeDirectory, Writing
<1>4. CASE WriteTensors \/ WriteManifest
  BY <1>4 DEF WriteTensors, WriteManifest, Writing
\* The tag was absent, so what metadata.json names is another one.
<1>5. CASE Rename
  <2>1. step \in Tags /\ store[step] = "absent" /\ latest # step
    BY <1>5 DEF Rename, Writing, Tags
  <2>2. store'[step] = "whole"
    BY <1>5, <2>1 DEF Rename
  <2>3. latest # NoTag => store'[latest] = store[latest]
    BY <1>5, <2>1 DEF Rename
  <2> QED
    BY <1>5, <2>1, <2>2, <2>3 DEF Rename, Writing
<1>6. CASE Validate
  BY <1>6 DEF Validate, Writing
<1>7. CASE Publish
  BY <1>7 DEF Publish, Writing
\* Retention spares the tag of the attempt, which metadata.json names by now.
<1>8. CASE Prune
  <2>1. PICK t \in Old :
          store' = [store EXCEPT ![t] = IF @ = "whole" THEN "torn" ELSE "absent"]
    BY <1>8 DEF Prune
  <2>2. t # step /\ latest = step
    BY <1>8, <2>1 DEF Old, Prune, Writing
  <2> QED
    BY <1>8, <2>1, <2>2 DEF Prune, Writing
<1>9. CASE Pruned
  BY <1>9 DEF Pruned, Writing
<1>10. CASE StageRaises
  <2>1. PICK s \in Faulty : Writing(s)
    BY <1>10 DEF StageRaises
  <2>2. stage # "prune" /\ stage # "cleanup" /\ stage # "report"
    BY <2>1, FaultAssumption DEF Writing, Stages
  <2> QED
    BY <1>10, <2>1, <2>2 DEF StageRaises, Writing, Stages
<1>11. CASE CleanUp
  BY <1>11 DEF CleanUp, Writing
<1>12. CASE Report
  BY <1>12 DEF Report
<1>13. CASE Leave
  BY <1>13 DEF Leave
<1>14. CASE Restart
  BY <1>14 DEF Restart
<1>15. CASE UNCHANGED vars
  BY <1>15
<1> QED
  BY <1>1, <1>2, <1>3, <1>4, <1>5, <1>6, <1>7, <1>8, <1>9, <1>10, <1>11, <1>12, <1>13,
     <1>14, <1>15
  DEF Next, Write, Finished

\* A kill at any instant leaves metadata.json on a tag that can be loaded, and so
\* does an exception in any stage but retention.
THEOREM PublishedTagIsWhole == "prune" \notin Faulty => (Spec => []LatestIsWhole)
<1> SUFFICES ASSUME "prune" \notin Faulty PROVE Spec => []LatestIsWhole
  OBVIOUS
<1>1. TypeInv /\ AttemptInv /\ LatestIsWhole /\ [Next]_vars => (AttemptInv /\ LatestIsWhole)'
  BY AttemptStep
<1> QED
  BY TypeInit, TypeStep, AttemptInit, <1>1, PTL DEF Spec

LEMMA TemporaryStep == TypeInv /\ TemporaryInv /\ [Next]_vars => TemporaryInv'
<1> SUFFICES ASSUME TypeInv, TemporaryInv, [Next]_vars PROVE TemporaryInv'
  OBVIOUS
<1> USE RankAssumption DEF TypeInv, TypeOK, TemporaryInv, Writing, files, vars
<1>1. CASE Rename
  BY <1>1 DEF Rename
<1>2. CASE CleanUp
  BY <1>2 DEF CleanUp
<1>3. CASE MakeDirectory \/ WriteTensors \/ WriteManifest
  BY <1>3 DEF MakeDirectory, WriteTensors, WriteManifest
<1>4. CASE Validate \/ Publish \/ Prune \/ Pruned
  BY <1>4 DEF Validate, Publish, Prune, Pruned
<1>5. CASE Report
  BY <1>5 DEF Report
<1>6. CASE StageRaises
  BY <1>6 DEF StageRaises
<1>7. CASE TrainStep \/ Leave \/ Restart
  BY <1>7 DEF TrainStep, Leave, Restart
<1>8. CASE Enter
  BY <1>8 DEF Enter
<1>9. CASE UNCHANGED vars
  BY <1>9
<1> QED
  BY <1>1, <1>2, <1>3, <1>4, <1>5, <1>6, <1>7, <1>8, <1>9 DEF Next, Write, Finished

\* Whatever a verdict says, it leaves no temporary directory of its tag behind,
\* wherever exceptions are raised: the next attempt at the tag is not blocked.
THEOREM VerdictLeavesNoTemporary == Spec => AttemptLeavesNoTemporary
<1>1. Init => TemporaryInv
  BY RankAssumption DEF Init, TemporaryInv
<1>2. TemporaryInv =>
        (Writing("report") /\ pc' # pc /\ launch' = launch => temp[step] = "absent")
  BY DEF TemporaryInv, Writing
<1> QED
  BY TypeInit, TypeStep, TemporaryStep, <1>1, <1>2, PTL DEF Spec, AttemptLeavesNoTemporary
=============================================================================
