------------------------ MODULE RankCheckpoint_proofs ------------------------
(***************************************************************************)
(* Theorems about RankCheckpoint, for every number of ranks, steps, tags   *)
(* per step, launches and faults, in three parts:                          *)
(*   - what metadata.json names is complete, in every mode;                *)
(*   - the anonymous barriers always meet at one line, and what follows    *)
(*     for what rank 0 publishes and removes between them;                 *)
(*   - what a job that resumes itself makes of its checkpoint directory:   *)
(*     one register that is only ever replaced by a newer, whole           *)
(*     checkpoint, and verdicts that agree with it.                        *)
(***************************************************************************)
EXTENDS RankCheckpoint, TLAPS

Finalising == {"prepared", "check", "prune", "judged", "verdict"}

\* A tag is only requested once a step has been completed, and a rank that is
\* finalising has a tag to finalise.
TypeInv ==
  /\ TypeOK
  /\ due > 0 => step > 0
  /\ \A r \in Ranks : pc[r] \in Finalising => cur[r] \in Tags

\* Shards live in directories, and what rank 0 is about to prune around is the
\* tag it has just published.
DirectoryInv ==
  /\ \A t \in Tags, r \in Ranks : shard[t][r] # 0 => t \in dirs
  /\ pc[Coordinator] = "prune" => latest = cur[Coordinator]
  /\ LatestComplete

LEMMA NestedUpdate ==
  ASSUME NEW S, NEW R, NEW V, NEW f \in [S -> [R -> V]], NEW s \in S, NEW r \in R, NEW v \in V
  PROVE  [f EXCEPT ![s][r] = v] \in [S -> [R -> V]]
  OBVIOUS

LEMMA SetUpdate ==
  ASSUME NEW S, NEW V, NEW f \in [S -> SUBSET V], NEW s \in S, NEW v \in V
  PROVE  /\ [f EXCEPT ![s] = @ \union {v}] \in [S -> SUBSET V]
         /\ [f EXCEPT ![s] = @ \ {v}] \in [S -> SUBSET V]
  OBVIOUS

LEMMA TagPair ==
  ASSUME NEW s \in 1 .. MaxStep, NEW p \in 1 .. MaxParts
  PROVE  <<s, p>> \in Tags
  BY DEF Tags

LEMMA TagStep ==
  ASSUME NEW t \in Tags
  PROVE  t[1] \in 1 .. MaxStep
  BY DEF Tags

LEMMA TypeInit == Init => TypeInv
<1> SUFFICES ASSUME Init PROVE TypeInv
  OBVIOUS
<1> USE NumberAssumption DEF Init
<1>1. TypeOK
  BY DEF TypeOK, Pcs
<1>2. due > 0 => step > 0
  OBVIOUS
<1>3. \A r \in Ranks : pc[r] \in Finalising => cur[r] \in Tags
  BY DEF Finalising
<1> QED
  BY <1>1, <1>2, <1>3 DEF TypeInv

LEMMA TypeStep == TypeInv /\ [Next]_vars => TypeInv'
<1> SUFFICES ASSUME TypeInv, [Next]_vars PROVE TypeInv'
  OBVIOUS
<1> USE NumberAssumption, RankAssumption, NoTagAssumption
    DEF TypeInv, TypeOK, files, progress, threads, vars
<1>1. CASE TrainStep
  BY <1>1 DEF TrainStep, Pcs, Finalising
<1>2. CASE Barrier
  <2>1. \A r \in Ranks : /\ AfterBarrier(r) \in Pcs
                         /\ AfterBarrier(r) \in Finalising => pc[r] \in Finalising
    BY <1>2 DEF Barrier, Barriers, AfterBarrier, Pcs, Finalising
  <2> QED
    BY <1>2, <2>1 DEF Barrier
<1>3. CASE Publish
  BY <1>3 DEF Publish, Pcs, Finalising
<1>4. CASE Reject
  BY <1>4 DEF Reject, Raise, Pcs, Finalising
<1>5. CASE Prune
  BY <1>5 DEF Prune, Pcs, Finalising
<1>6. CASE Gather
  BY <1>6 DEF Gather, Pcs, Finalising
<1>7. CASE PublicationRaises
  BY <1>7 DEF PublicationRaises, MayFail, Raise, Pcs, Finalising
<1>8. CASE Restart
  <2>1. ResumeStep \in 0 .. MaxStep
    BY TagStep DEF ResumeStep
  <2> QED
    BY <1>8, <2>1 DEF Restart, Pcs, Finalising
<1>9. ASSUME NEW r \in Ranks, NEW t \in Tags, NEW h \in {"save", "finally"},
             pc[r] \in {"request", "finally"}, Wait(r, t, h)
      PROVE  TypeInv'
  <2>1. /\ pending' \in [Ranks -> SUBSET Tags]
        /\ errs' \in [Tags -> SUBSET Ranks]
    <3>1. /\ [pending EXCEPT ![r] = @ \ {t}] \in [Ranks -> SUBSET Tags]
          /\ [errs EXCEPT ![t] = @ \union {r}] \in [Tags -> SUBSET Ranks]
      BY SetUpdate
    <3>2. /\ pending' = [pending EXCEPT ![r] = @ \ {t}]
          /\ errs' = errs \/ errs' = [errs EXCEPT ![t] = @ \union {r}]
      BY <1>9 DEF Wait
    <3> QED
      BY <3>1, <3>2
  <2>4. /\ cur' \in [Ranks -> Tags \union {NoTag}]
        /\ home' \in [Ranks -> {"save", "finally"}]
    BY <1>9 DEF Wait
  <2>5. failed' \subseteq Ranks /\ pc' \in [Ranks -> Pcs]
    BY <1>9 DEF Wait, Raise, Pcs
  <2>2. \A s \in Ranks : pc'[s] \in Finalising => cur'[s] \in Tags
    <3> SUFFICES ASSUME NEW s \in Ranks, pc'[s] \in Finalising PROVE cur'[s] \in Tags
      OBVIOUS
    <3>1. cur' = [cur EXCEPT ![r] = t] /\ (s # r => pc'[s] = pc[s])
      BY <1>9 DEF Wait, Raise
    <3> QED
      BY <3>1
  <2>3. UNCHANGED <<dirs, shard, gerr, latest, launch, step, due, part, running, box, faults>>
    BY <1>9 DEF Wait
  <2> QED
    BY <2>1, <2>2, <2>3, <2>4, <2>5
<1>10. ASSUME NEW r \in Ranks, RankStep(r)
       PROVE  TypeInv'
  <2>1. CASE LeaveLoop(r) \/ RequestReady(r) \/ SavesDone(r) \/ Summary(r) \/ Exit(r)
    BY <2>1 DEF LeaveLoop, RequestReady, SavesDone, Summary, Exit, Pcs, Finalising
  <2>2. CASE RequestWaits(r)
    BY <2>2, <1>9 DEF RequestWaits
  <2>3. CASE FinallyWaits(r)
    BY <2>3, <1>9 DEF FinallyWaits
  <2>4. part[r] <= due => <<step, part[r]>> \in Tags
    BY TagPair
  <2>5. CASE SaveNow(r)
    <3>1. <<step, part[r]>> \in Tags
      BY <2>5, <2>4 DEF SaveNow
    <3>2. shard' \in [Tags -> [Ranks -> 0 .. launch]]
      <4> DEFINE t == <<step, part[r]>>
      <4>1. shard' = [shard EXCEPT ![t][r] = launch] \/ shard' = shard
        BY <2>5 DEF SaveNow
      <4>2. launch \in 0 .. launch /\ t \in Tags
        BY <3>1
      <4>3. shard \in [Tags -> [Ranks -> 0 .. launch]]
        OBVIOUS
      <4> HIDE DEF t
      <4>4. [shard EXCEPT ![t][r] = launch] \in [Tags -> [Ranks -> 0 .. launch]]
        BY <4>2, <4>3, NestedUpdate
      <4> QED
        BY <4>1, <4>3, <4>4
    <3>3. pc' \in [Ranks -> Pcs] /\ failed' \subseteq Ranks /\ faults' \in 0 .. MaxFaults
      BY <2>5 DEF SaveNow, MayFail, Raise, Pcs
    <3>4. /\ cur' \in [Ranks -> Tags \union {NoTag}] /\ home' \in [Ranks -> {"save", "finally"}]
          /\ dirs' \subseteq Tags /\ dirs \subseteq dirs'
      BY <2>5, <3>1 DEF SaveNow
    <3>7. part' \in [Ranks -> 1 .. MaxParts + 1]
      BY <2>5 DEF SaveNow
    <3>5. \A s \in Ranks : pc'[s] \in Finalising => cur'[s] \in Tags
      <4> SUFFICES ASSUME NEW s \in Ranks, pc'[s] \in Finalising PROVE cur'[s] \in Tags
        OBVIOUS
      <4>1. /\ s = r => cur'[s] = <<step, part[r]>>
            /\ s # r => cur'[s] = cur[s] /\ pc'[s] = pc[s]
        BY <2>5 DEF SaveNow, Raise
      <4> QED
        BY <3>1, <4>1
    <3>6. UNCHANGED <<errs, gerr, latest, launch, step, due, pending, running, box>>
      BY <2>5 DEF SaveNow
    <3> QED
      BY <3>2, <3>3, <3>4, <3>5, <3>6, <3>7
  <2>6. CASE SaveLater(r)
    <3>1. <<step, part[r]>> \in Tags
      BY <2>6, <2>4 DEF SaveLater
    <3>2. /\ pending' \in [Ranks -> SUBSET Tags] /\ running' \in [Ranks -> SUBSET Tags]
          /\ dirs' \subseteq Tags /\ dirs \subseteq dirs'
      BY <2>6, <3>1 DEF SaveLater
    <3>3. part' \in [Ranks -> 1 .. MaxParts + 1]
      BY <2>6 DEF SaveLater
    <3>4. UNCHANGED <<shard, errs, gerr, latest, launch, step, due, pc, cur, home, box,
                      failed, faults>>
      BY <2>6 DEF SaveLater
    <3> QED
      BY <3>2, <3>3, <3>4
  <2>7. CASE Verdict(r)
    BY <2>7 DEF Verdict, Raise, Pcs, Finalising
  <2> QED
    BY <1>10, <2>1, <2>2, <2>3, <2>5, <2>6, <2>7 DEF RankStep
<1>11. ASSUME NEW r \in Ranks, NEW t \in Tags, ThreadWrites(r, t) \/ ThreadFails(r, t)
       PROVE  TypeInv'
  <2>1. /\ running' \in [Ranks -> SUBSET Tags] /\ box' \in [Ranks -> SUBSET Tags]
    <3>1. /\ [running EXCEPT ![r] = @ \ {t}] \in [Ranks -> SUBSET Tags]
          /\ [box EXCEPT ![r] = @ \union {t}] \in [Ranks -> SUBSET Tags]
      BY SetUpdate
    <3>2. /\ running' = [running EXCEPT ![r] = @ \ {t}]
          /\ box' = box \/ box' = [box EXCEPT ![r] = @ \union {t}]
      BY <1>11 DEF ThreadWrites, ThreadFails
    <3> QED
      BY <3>1, <3>2
  <2>2. shard' \in [Tags -> [Ranks -> 0 .. launch]]
    <3>1. launch \in 0 .. launch /\ shard \in [Tags -> [Ranks -> 0 .. launch]]
      OBVIOUS
    <3>2. [shard EXCEPT ![t][r] = launch] \in [Tags -> [Ranks -> 0 .. launch]]
      BY <3>1, NestedUpdate
    <3>3. shard' = shard \/ shard' = [shard EXCEPT ![t][r] = launch]
      BY <1>11 DEF ThreadWrites, ThreadFails
    <3> QED
      BY <3>1, <3>2, <3>3
  <2>3. faults' \in 0 .. MaxFaults
    BY <1>11 DEF ThreadWrites, ThreadFails, MayFail
  <2> QED
    BY <1>11, <2>1, <2>2, <2>3 DEF ThreadWrites, ThreadFails
<1>12. ASSUME NEW r \in Ranks, RankRaises(r)
       PROVE  TypeInv'
  BY <1>12 DEF RankRaises, MayFail, Raise, Pcs, Finalising
<1>13. CASE UNCHANGED vars
  BY <1>13 DEF Finalising
<1> QED
  BY <1>1, <1>2, <1>3, <1>4, <1>5, <1>6, <1>7, <1>8, <1>10, <1>11, <1>12, <1>13
  DEF Next, Job, Fault, Finished

\* Every variable keeps its type in every behaviour of the job.
THEOREM TypeCorrect == Spec => []TypeOK
<1>1. TypeInv => TypeOK
  BY DEF TypeInv
<1> QED
  BY TypeInit, TypeStep, <1>1, PTL DEF Spec

LEMMA DirectoryInit == Init => DirectoryInv
<1> SUFFICES ASSUME Init PROVE DirectoryInv
  OBVIOUS
<1> QED
  BY RankAssumption DEF Init, DirectoryInv, LatestComplete

LEMMA DirectoryStep == TypeInv /\ TypeInv' /\ DirectoryInv /\ [Next]_vars => DirectoryInv'
<1> SUFFICES ASSUME TypeInv, TypeInv', DirectoryInv, [Next]_vars PROVE DirectoryInv'
  OBVIOUS
<1> USE NumberAssumption, RankAssumption, NoTagAssumption
    DEF TypeInv, TypeOK, DirectoryInv, LatestComplete, Missing, files, progress, threads, vars
<1>1. ASSUME UNCHANGED <<dirs, shard, latest>>,
             pc'[Coordinator] = "prune" => pc[Coordinator] = "prune" /\ UNCHANGED cur
      PROVE  DirectoryInv'
  BY <1>1
<1>2. CASE Publish
  BY <1>2 DEF Publish
<1>3. CASE Prune
  <2> DEFINE gone == IF KeepLast = 0 THEN {} ELSE {t \in dirs : ~Kept(t)}
  <2>1. latest \notin gone
    BY <1>3 DEF Prune, Kept
  <2>2. pc'[Coordinator] = "judged" /\ latest' = latest /\ dirs' = dirs \ gone
    BY <1>3 DEF Prune
  <2>3. shard' = [t \in Tags |-> IF t \in gone THEN [r \in Ranks |-> 0] ELSE shard[t]]
    BY <1>3 DEF Prune
  <2> HIDE DEF gone
  <2>4. \A t \in Tags, r \in Ranks : shard'[t][r] # 0 => t \in dirs'
    BY <2>2, <2>3
  <2> QED
    BY <2>1, <2>2, <2>3, <2>4
<1>4. ASSUME NEW r \in Ranks, NEW t \in Tags,
             shard' = [shard EXCEPT ![t][r] = launch], t \in dirs', dirs \subseteq dirs',
             latest' = latest,
             pc'[Coordinator] = "prune" =>
               pc[Coordinator] = "prune" /\ cur'[Coordinator] = cur[Coordinator]
      PROVE  DirectoryInv'
  <2>1. \A u \in Tags, s \in Ranks :
          shard'[u][s] = IF u = t /\ s = r THEN launch ELSE shard[u][s]
    BY <1>4
  <2>2. launch # 0
    OBVIOUS
  <2> QED
    BY <1>4, <2>1, <2>2
<1>5. ASSUME NEW r \in Ranks, RankStep(r)
      PROVE  DirectoryInv'
  <2>1. CASE LeaveLoop(r) \/ RequestReady(r) \/ SavesDone(r) \/ Summary(r) \/ Exit(r)
    BY <2>1, <1>1 DEF LeaveLoop, RequestReady, SavesDone, Summary, Exit
  <2>2. CASE RequestWaits(r)
    BY <2>2, <1>1 DEF RequestWaits, Wait, Raise
  <2>3. CASE FinallyWaits(r)
    BY <2>3, <1>1 DEF FinallyWaits, Wait, Raise
  <2>4. CASE SaveNow(r)
    <3> DEFINE t == <<step, part[r]>>
    <3>1. /\ t \in Tags /\ t \in dirs' /\ dirs \subseteq dirs' /\ latest' = latest
          /\ pc'[Coordinator] = "prune" => pc[Coordinator] = "prune" /\ cur'[Coordinator] = cur[Coordinator]
      BY <2>4, TagPair DEF SaveNow, Raise
    <3>2. shard' = [shard EXCEPT ![t][r] = launch] \/ shard' = shard
      BY <2>4 DEF SaveNow
    <3> HIDE DEF t
    <3> QED
      BY <3>1, <3>2, <1>4
  <2>5. CASE SaveLater(r)
    BY <2>5 DEF SaveLater
  <2>6. CASE Verdict(r)
    BY <2>6, <1>1 DEF Verdict, Raise
  <2> QED
    BY <1>5, <2>1, <2>2, <2>3, <2>4, <2>5, <2>6 DEF RankStep
<1>6. ASSUME NEW r \in Ranks, NEW t \in Tags, ThreadWrites(r, t) \/ ThreadFails(r, t)
      PROVE  DirectoryInv'
  BY <1>6, <1>1, <1>4 DEF ThreadWrites, ThreadFails
<1>7. CASE TrainStep
  BY <1>7, <1>1 DEF TrainStep
<1>8. CASE Barrier
  BY <1>8, <1>1 DEF Barrier, AfterBarrier, Barriers
<1>9. CASE Reject
  BY <1>9, <1>1 DEF Reject, Raise
<1>10. CASE Gather
  BY <1>10, <1>1 DEF Gather
<1>11. CASE PublicationRaises
  BY <1>11, <1>1 DEF PublicationRaises, Raise
<1>12. CASE Restart
  BY <1>12, <1>1 DEF Restart
<1>13. ASSUME NEW r \in Ranks, RankRaises(r)
       PROVE  DirectoryInv'
  BY <1>13, <1>1 DEF RankRaises, Raise
<1>14. CASE UNCHANGED vars
  BY <1>14, <1>1
<1> QED
  BY <1>2, <1>3, <1>5, <1>6, <1>7, <1>8, <1>9, <1>10, <1>11, <1>12, <1>13, <1>14
  DEF Next, Job, Fault, Finished

\* The tag named by metadata.json has every rank's shard, in every mode of the
\* trainer and whatever fails or restarts.
THEOREM LatestIsComplete == Spec => []LatestComplete
<1>1. DirectoryInv => LatestComplete
  BY DEF DirectoryInv
<1> QED
  BY TypeInit, TypeStep, DirectoryInit, DirectoryStep, <1>1, PTL DEF Spec

-----------------------------------------------------------------------------
(* The barriers.  From here on, everything rests on OneHandle: an          *)
(* asynchronous run requests at most one tag per step and no rank fails on *)
(* its own outside a checkpoint.                                           *)

OneHandle == Async => MaxParts = 1 /\ "rank" \notin Faults

-----------------------------------------------------------------------------
(* The ranks move in phases, and agree on the tag T a phase is about: the  *)
(* handle they hold, or the tag they finalise on their way to h.           *)

\* A rank that will not reach another barrier.
Gone(r) ==
  /\ pending[r] = {}
  /\ pc[r] \in {"finally", "exited"} \/ (pc[r] = "verdict" /\ home[r] = "finally")

Handle(T) == IF T = NoTag THEN {} ELSE {T}

\* Between steps, or saving what needs no barrier before the next step.
Stepping(r, T) ==
  /\ pc[r] \in {"train", "loopEnd", "request", "save", "verdict"}
  /\ pc[r] = "verdict" => home[r] = "save" /\ pending[r] = {}
  /\ part[r] <= due + 1
  /\ pc[r] \in {"train", "loopEnd"} => part[r] = due + 1
  /\ part[r] <= due => Async /\ pending[r] = {}
  /\ part[r] = due + 1 => pc[r] # "request" /\ pending[r] = Handle(T)
  /\ IF Async THEN /\ due > 0 => T = <<step, 1>>
                   /\ T # NoTag => T[1] <= step
              ELSE T = NoTag

\* Where a rank stands in its step while it finalises T on the way to h.
Finalised(r, T, h) ==
  h = "save" => IF Async THEN part[r] = 1 /\ due = 1 /\ T[1] < step
                         ELSE part[r] \in 2 .. due + 1 /\ T = <<step, part[r] - 1>>

\* On the way to the first barrier of T's finalisation.
Finalising1(r, T, h) ==
  \/ /\ pc[r] = "prepared" /\ cur[r] = T /\ home[r] = h
     /\ pending[r] = {} /\ Finalised(r, T, h)
  \/ h = "finally" /\ pc[r] = "finally" /\ pending[r] = {T}
  \/ /\ h = "save" /\ Async
     /\ pc[r] = "request" /\ pending[r] = {T} /\ Finalised(r, T, h)
  \/ /\ h = "save" /\ ~Async
     /\ pc[r] \in {"request", "save", "verdict"} /\ pending[r] = {}
     /\ part[r] <= due /\ T = <<step, part[r]>>
     /\ pc[r] = "verdict" => home[r] = "save"

\* Between the two barriers.
Publishing(r, T, h) ==
  /\ pc[r] \in IF r = Coordinator THEN {"check", "prune", "judged"} ELSE {"judged"}
  /\ cur[r] = T /\ home[r] = h
  /\ pending[r] = {} /\ Finalised(r, T, h)

Ending(r, phase, T) ==
  /\ pc[r] \in IF phase = "gather" THEN {"gather"} ELSE {"summary", "closing"}
  /\ pending[r] = Handle(T)

InPhase(r, phase, T, h) ==
  \/ phase = "stepping" /\ Stepping(r, T)
  \/ phase = "finalising" /\ T \in Tags /\ Finalising1(r, T, h)
  \/ phase = "publishing" /\ T \in Tags /\ Publishing(r, T, h)
  \/ phase \in {"gather", "ending"} /\ Ending(r, phase, T)

Phases == {"stepping", "finalising", "publishing", "gather", "ending"}

Lockstep ==
  \E phase \in Phases, T \in Tags \union {NoTag}, h \in {"save", "finally"} :
    \A r \in Ranks : Gone(r) \/ InPhase(r, phase, T, h)

LockstepInv ==
  /\ Lockstep
  /\ pc[Coordinator] \in {"check", "prune"} =>
       \A r \in Ranks \ {Coordinator} : pc[r] = "judged"
  /\ ~Async => \A r \in Ranks : pending[r] = {}

LEMMA LockstepInit == Init => LockstepInv
<1> SUFFICES ASSUME Init PROVE LockstepInv
  OBVIOUS
<1> USE NoTagAssumption DEF Init
<1>1. \A r \in Ranks : InPhase(r, "stepping", NoTag, "save")
  BY DEF InPhase, Stepping, Handle
<1>2. Lockstep
  BY <1>1 DEF Lockstep, Phases
<1> QED
  BY <1>2, RankAssumption DEF LockstepInv

\* A rank stands where it stood when its own variables have not changed.
LEMMA SameStand ==
  ASSUME NEW phase, NEW T, NEW h, NEW s \in Ranks,
         step' = step, due' = due,
         pc'[s] = pc[s], part'[s] = part[s], cur'[s] = cur[s],
         home'[s] = home[s], pending'[s] = pending[s],
         Gone(s) \/ InPhase(s, phase, T, h)
  PROVE  (Gone(s) \/ InPhase(s, phase, T, h))'
<1>1. Gone(s) => Gone(s)'
  BY DEF Gone
<1>2. Stepping(s, T) => Stepping(s, T)'
  BY DEF Stepping, Handle
<1>3. Finalised(s, T, h) => Finalised(s, T, h)'
  BY DEF Finalised
<1>4. Finalising1(s, T, h) => Finalising1(s, T, h)'
  BY <1>3 DEF Finalising1
<1>5. Publishing(s, T, h) => Publishing(s, T, h)'
  BY <1>3 DEF Publishing
<1>6. Ending(s, phase, T) => Ending(s, phase, T)'
  BY DEF Ending, Handle
<1> QED
  BY <1>1, <1>2, <1>4, <1>5, <1>6 DEF InPhase

\* A step of one rank that stays in the phase, or leaves for good.
LEMMA OneRankStep ==
  ASSUME NEW phase \in Phases, NEW T \in Tags \union {NoTag}, NEW h \in {"save", "finally"},
         NEW r \in Ranks,
         \A s \in Ranks : Gone(s) \/ InPhase(s, phase, T, h),
         step' = step, due' = due,
         \A s \in Ranks \ {r} : /\ pc'[s] = pc[s] /\ part'[s] = part[s] /\ cur'[s] = cur[s]
                                /\ home'[s] = home[s] /\ pending'[s] = pending[s],
         (Gone(r) \/ InPhase(r, phase, T, h))'
  PROVE  Lockstep'
<1>1. ASSUME NEW s \in Ranks \ {r} PROVE (Gone(s) \/ InPhase(s, phase, T, h))'
  BY SameStand
<1>2. \A s \in Ranks : (Gone(s) \/ InPhase(s, phase, T, h))'
  BY <1>1
<1> QED
  BY <1>2 DEF Lockstep

LEMMA TagExists ==
  ASSUME NEW s \in 1 .. MaxStep, NEW p \in 1 .. MaxParts
  PROVE  \E U \in Tags : U = <<s, p>>
  BY DEF Tags

\* The collective steps, which end one phase and open the next.
LEMMA CollectiveStep ==
  ASSUME TypeInv, LockstepInv, OneHandle, TrainStep \/ Barrier \/ Gather \/ Restart
  PROVE  Lockstep'
<1> PICK phase \in Phases, T \in Tags \union {NoTag}, h \in {"save", "finally"} :
      \A r \in Ranks : Gone(r) \/ InPhase(r, phase, T, h)
  BY DEF LockstepInv, Lockstep
<1> USE RankAssumption, NumberAssumption, NoTagAssumption DEF Phases
<1>1. CASE Restart
  <2>1. \A r \in Ranks : InPhase(r, "stepping", NoTag, "save")'
    BY <1>1 DEF Restart, InPhase, Stepping, Handle
  <2> QED
    BY <2>1 DEF Lockstep
<1>2. CASE Gather
  <2>1. phase = "gather"
    BY <1>2 DEF Gather, Gone, InPhase, Stepping, Finalising1, Publishing, Ending
  <2>2. \A r \in Ranks : InPhase(r, "ending", T, h)'
    BY <1>2, <2>1 DEF Gather, Gone, InPhase, Ending, Handle
  <2> QED
    BY <2>2 DEF Lockstep
<1>3. CASE TrainStep
  <2>1. /\ phase = "stepping"
        /\ \A r \in Ranks : Stepping(r, T) /\ pending[r] = Handle(T) /\ pc[r] = "train"
    BY <1>3 DEF TrainStep, Gone, InPhase, Stepping, Finalising1, Publishing, Ending, TypeInv, TypeOK
  <2>2. /\ step' = step + 1 /\ step' \in 1 .. MaxStep /\ due' \in 0 .. MaxParts
        /\ pending' = pending
        /\ \A r \in Ranks : part'[r] = 1 /\ pc'[r] = IF due' = 0 THEN "train" ELSE "request"
    BY <1>3 DEF TrainStep, TypeInv, TypeOK
  <2>3. CASE due' = 0
    <3>1. T # NoTag => T[1] \in Nat
      BY TagStep
    <3>2. \A r \in Ranks : InPhase(r, "stepping", T, h)'
      BY <2>1, <2>2, <2>3, <3>1 DEF InPhase, Stepping, Handle, TypeInv, TypeOK
    <3> QED
      BY <3>2 DEF Lockstep
  <2>4. CASE due' # 0 /\ ~Async
    <3>1. PICK U \in Tags : U = <<step', 1>>
      BY <2>2, TagExists
    <3>2. \A r \in Ranks : InPhase(r, "finalising", U, "save")'
      BY <2>1, <2>2, <2>4, <3>1 DEF InPhase, Finalising1, Stepping, Handle
    <3> QED
      BY <3>2 DEF Lockstep
  <2>5. CASE due' # 0 /\ Async /\ T = NoTag
    <3>1. PICK U \in Tags : U = <<step', 1>>
      BY <2>2, TagExists
    <3>2. due' = 1
      BY <2>2, <2>5 DEF OneHandle
    <3>3. \A r \in Ranks : InPhase(r, "stepping", U, "save")'
      BY <2>1, <2>2, <2>5, <3>1, <3>2 DEF InPhase, Stepping, Handle
    <3> QED
      BY <3>3 DEF Lockstep
  <2>6. CASE due' # 0 /\ Async /\ T # NoTag
    <3>1. due' = 1 /\ T \in Tags /\ T[1] < step'
      <4>1. due' = 1
        BY <2>2, <2>6 DEF OneHandle
      <4>2. T \in Tags
        BY <2>6
      <4>3. T[1] \in 1 .. MaxStep
        BY <4>2, TagStep
      <4>4. T[1] <= step
        BY <2>1, <2>6 DEF Stepping
      <4>5. step \in Nat
        BY DEF TypeInv, TypeOK
      <4> QED
        BY <2>2, <4>1, <4>2, <4>3, <4>4, <4>5
    <3>2. \A r \in Ranks : InPhase(r, "finalising", T, "save")'
      BY <2>1, <2>2, <2>6, <3>1 DEF InPhase, Finalising1, Finalised, Stepping, Handle
    <3> QED
      BY <3>1, <3>2 DEF Lockstep
  <2> QED
    BY <2>3, <2>4, <2>5, <2>6
<1>4. CASE Barrier
  <2>1. \A r \in Ranks : /\ pc[r] \in Barriers /\ pc'[r] = AfterBarrier(r)
                         /\ part'[r] = part[r] /\ cur'[r] = cur[r] /\ home'[r] = home[r]
                         /\ pending'[r] = pending[r] /\ step' = step /\ due' = due
    BY <1>4 DEF Barrier, progress
  <2>7. \A r \in Ranks : InPhase(r, phase, T, h)
    BY <2>1 DEF Gone, Barriers
  <2> USE DEF Barriers, AfterBarrier
  <2>2. CASE phase = "stepping"
    <3>1. \A r \in Ranks : pc[r] = "loopEnd" /\ pending[r] = Handle(T)
      BY <2>1, <2>2, <2>7 DEF InPhase, Stepping
    <3>2. \A r \in Ranks : InPhase(r, "gather", T, h)'
      BY <2>1, <3>1 DEF InPhase, Ending, Handle
    <3> QED
      BY <3>2 DEF Lockstep
  <2>3. CASE phase = "finalising"
    <3>1. /\ T \in Tags
          /\ \A r \in Ranks : /\ pc[r] = "prepared" /\ cur[r] = T /\ home[r] = h
                              /\ pending[r] = {} /\ Finalised(r, T, h)
      BY <2>1, <2>3, <2>7 DEF InPhase, Finalising1
    <3>2. \A r \in Ranks : InPhase(r, "publishing", T, h)'
      BY <2>1, <3>1 DEF InPhase, Publishing, Finalised
    <3> QED
      BY <3>2 DEF Lockstep
  <2>4. CASE phase = "publishing"
    <3>1. \A r \in Ranks : /\ pc[r] = "judged" /\ cur[r] = T /\ home[r] = h
                           /\ pending[r] = {} /\ Finalised(r, T, h)
      BY <2>1, <2>4, <2>7 DEF InPhase, Publishing
    <3>2. \A r \in Ranks : pc'[r] = "verdict" /\ home'[r] = h /\ pending'[r] = {}
      BY <2>1, <3>1
    <3>3. CASE h = "finally"
      <4>1. \A r \in Ranks : Gone(r)'
        BY <3>2, <3>3 DEF Gone
      <4> QED
        BY <4>1 DEF Lockstep
    <3>4. CASE h = "save" /\ Async
      <4>1. due = 1 /\ \A r \in Ranks : part[r] = 1
        BY <3>1, <3>4 DEF Finalised
      <4>2. PICK U \in Tags : U = <<step, 1>>
        <5>1. step \in 1 .. MaxStep /\ 1 \in 1 .. MaxParts
          BY <4>1 DEF TypeInv, TypeOK
        <5> QED
          BY <5>1, TagExists
      <4>3. \A r \in Ranks : InPhase(r, "stepping", U, "save")'
        BY <2>1, <3>2, <3>4, <4>1, <4>2 DEF InPhase, Stepping, TypeInv, TypeOK
      <4> QED
        BY <4>2, <4>3 DEF Lockstep
    <3>5. CASE h = "save" /\ ~Async
      <4> DEFINE p == part[Coordinator]
      <4>1. p \in 2 .. due + 1 /\ \A r \in Ranks : part[r] = p
        BY <3>1, <3>5 DEF Finalised, TypeInv, TypeOK
      <4>2. CASE p <= due
        <5>1. PICK U \in Tags : U = <<step, p>>
          <6>1. step \in 1 .. MaxStep /\ p \in 1 .. MaxParts
            BY <4>1, <4>2 DEF TypeInv, TypeOK
          <6> QED
            BY <6>1, TagExists
        <5>2. \A r \in Ranks : InPhase(r, "finalising", U, "save")'
          BY <2>1, <3>2, <3>5, <4>1, <4>2, <5>1 DEF InPhase, Finalising1
        <5> QED
          BY <5>1, <5>2 DEF Lockstep
      <4>3. CASE p = due + 1
        <5>1. \A r \in Ranks : InPhase(r, "stepping", NoTag, "save")'
          BY <2>1, <3>2, <3>5, <4>1, <4>3 DEF InPhase, Stepping, Handle, TypeInv, TypeOK
        <5> QED
          BY <5>1 DEF Lockstep
      <4>4. due \in Nat
        BY DEF TypeInv, TypeOK
      <4> QED
        BY <4>1, <4>2, <4>3, <4>4
    <3> QED
      BY <3>3, <3>4, <3>5
  <2>5. CASE phase = "gather"
    BY <2>1, <2>5, <2>7 DEF InPhase, Ending
  <2>6. CASE phase = "ending"
    <3>1. \A r \in Ranks : pc'[r] = "finally" /\ pending'[r] = Handle(T)
      BY <2>1, <2>6, <2>7 DEF InPhase, Ending
    <3>2. CASE T = NoTag
      <4>1. \A r \in Ranks : Gone(r)'
        BY <3>1, <3>2 DEF Gone, Handle
      <4> QED
        BY <4>1 DEF Lockstep
    <3>3. CASE T # NoTag
      <4>1. \A r \in Ranks : InPhase(r, "finalising", T, "finally")'
        BY <3>1, <3>3 DEF InPhase, Finalising1, Handle
      <4> QED
        BY <4>1 DEF Lockstep
    <3> QED
      BY <3>2, <3>3
  <2> QED
    BY <2>2, <2>3, <2>4, <2>5, <2>6
<1> QED
  BY <1>1, <1>2, <1>3, <1>4

\* A rank that raises on its way to the finally clause, holding nothing, is gone.
LEMMA RaiseLeaves ==
  ASSUME TypeInv, NEW r \in Ranks, NEW g \in {"save", "finally"}, Raise(r, g), pending'[r] = {}
  PROVE  Gone(r)'
  BY DEF Raise, Gone, TypeInv, TypeOK

\* The steps of one rank, which stay in the phase or leave for good.
LEMMA RankStepInPhase ==
  ASSUME TypeInv, LockstepInv, OneHandle, NEW r \in Ranks,
         RankStep(r) \/ RankRaises(r)
  PROVE  Lockstep'
<1> PICK phase \in Phases, T \in Tags \union {NoTag}, h \in {"save", "finally"} :
      \A s \in Ranks : Gone(s) \/ InPhase(s, phase, T, h)
  BY DEF LockstepInv, Lockstep
<1> USE RankAssumption, NumberAssumption, NoTagAssumption DEF progress
<1>1. CASE LeaveLoop(r) \/ RequestReady(r) \/ SavesDone(r) \/ Summary(r) \/ Exit(r)
  <2>1. /\ step' = step /\ due' = due
        /\ part' = part /\ cur' = cur /\ home' = home /\ pending' = pending
        /\ \A s \in Ranks \ {r} : pc'[s] = pc[s]
    BY <1>1 DEF LeaveLoop, RequestReady, SavesDone, Summary, Exit, TypeInv, TypeOK
  <2>2. CASE LeaveLoop(r)
    <3>1. pc[r] = "train" /\ pc'[r] = "loopEnd"
      BY <2>2 DEF LeaveLoop, TypeInv, TypeOK
    <3>2. InPhase(r, phase, T, h)'
      BY <2>1, <3>1 DEF Gone, InPhase, Stepping, Finalising1, Publishing, Ending, Handle
    <3> QED
      BY <2>1, <3>2, OneRankStep
  <2>3. CASE RequestReady(r)
    <3>1. pc[r] = "request" /\ pc'[r] = "save" /\ pending[r] = {}
      BY <2>3 DEF RequestReady, TypeInv, TypeOK
    <3>2. InPhase(r, phase, T, h)'
      BY <2>1, <3>1 DEF Gone, InPhase, Stepping, Finalising1, Publishing, Ending, Handle
    <3> QED
      BY <2>1, <3>2, OneRankStep
  <2>4. CASE SavesDone(r)
    <3>1. pc[r] = "save" /\ pc'[r] = "train" /\ part[r] > due
      BY <2>4 DEF SavesDone, TypeInv, TypeOK
    <3>2. InPhase(r, phase, T, h)'
      BY <2>1, <3>1 DEF Gone, InPhase, Stepping, Finalising1, Publishing, Ending, Handle,
                        TypeInv, TypeOK
    <3> QED
      BY <2>1, <3>2, OneRankStep
  <2>5. CASE Summary(r)
    <3>1. pc[r] = "summary" /\ pc'[r] = "closing"
      BY <2>5 DEF Summary, TypeInv, TypeOK
    <3>2. InPhase(r, phase, T, h)'
      BY <2>1, <3>1 DEF Gone, InPhase, Stepping, Finalising1, Publishing, Ending, Handle
    <3> QED
      BY <2>1, <3>2, OneRankStep
  <2>6. CASE Exit(r)
    <3>1. pc'[r] = "exited" /\ pending[r] = {}
      BY <2>6 DEF Exit, TypeInv, TypeOK
    <3>2. Gone(r)'
      BY <2>1, <3>1 DEF Gone
    <3> QED
      BY <2>1, <3>2, OneRankStep
  <2> QED
    BY <1>1, <2>2, <2>3, <2>4, <2>5, <2>6
<1>2. ASSUME NEW t \in pending[r], NEW g \in {"save", "finally"}, Wait(r, t, g),
             pc[r] = IF g = "save" THEN "request" ELSE "finally"
      PROVE  Lockstep'
  <2>0. pending[r] # {} /\ Async
    BY <1>2 DEF LockstepInv
  <2>5. phase = "finalising" /\ T \in Tags /\ Finalising1(r, T, h)
    <3>1. InPhase(r, phase, T, h) /\ part[r] \in Nat /\ due \in Nat
      BY <2>0 DEF Gone, TypeInv, TypeOK
    <3>2. pc[r] \in {"request", "finally"}
      BY <1>2
    <3>3. ~Stepping(r, T)
      BY <2>0, <3>1, <3>2 DEF Stepping
    <3> QED
      BY <3>1, <3>2, <3>3 DEF InPhase, Publishing, Ending
  <2>1. phase = "finalising" /\ T \in Tags /\ h = g /\ t = T /\ pending[r] = {T}
    BY <1>2, <2>0, <2>5 DEF Finalising1
  <2>2. /\ step' = step /\ due' = due /\ part' = part
        /\ \A s \in Ranks \ {r} : /\ pc'[s] = pc[s] /\ cur'[s] = cur[s]
                                  /\ home'[s] = home[s] /\ pending'[s] = pending[s]
        /\ cur'[r] = t /\ home'[r] = g /\ pending'[r] = {}
    BY <1>2, <2>1 DEF Wait, Raise, TypeInv, TypeOK
  <2>3. CASE pc' = [pc EXCEPT ![r] = "prepared"]
    <3>1. pc'[r] = "prepared"
      BY <2>3 DEF TypeInv, TypeOK
    <3>2. g = "save" => Finalised(r, T, h)
      BY <1>2, <2>1 DEF Gone, InPhase, Finalising1
    <3>3. Finalised(r, T, h)'
      BY <2>1, <2>2, <3>2 DEF Finalised
    <3>4. InPhase(r, phase, T, h)'
      BY <2>1, <2>2, <3>1, <3>3 DEF InPhase, Finalising1
    <3> QED
      BY <2>2, <3>4, OneRankStep
  <2>4. CASE Raise(r, g)
    <3>1. Gone(r)'
      BY <2>2, <2>4, RaiseLeaves
    <3> QED
      BY <2>2, <3>1, OneRankStep
  <2> QED
    BY <1>2, <2>3, <2>4 DEF Wait
<1>3. CASE RequestWaits(r)
  BY <1>3, <1>2 DEF RequestWaits
<1>4. CASE FinallyWaits(r)
  BY <1>4, <1>2 DEF FinallyWaits
<1>5. CASE SaveNow(r)
  <2>1. /\ ~Async /\ pc[r] = "save" /\ part[r] <= due /\ pending[r] = {}
        /\ step' = step /\ due' = due /\ pending' = pending
        /\ part'[r] = part[r] + 1 /\ cur'[r] = <<step, part[r]>> /\ home'[r] = "save"
        /\ \A s \in Ranks \ {r} : /\ pc'[s] = pc[s] /\ part'[s] = part[s]
                                  /\ cur'[s] = cur[s] /\ home'[s] = home[s]
    BY <1>5 DEF SaveNow, Raise, LockstepInv, TypeInv, TypeOK
  <2>2. CASE pc' = [pc EXCEPT ![r] = "prepared"]
    <3>1. pc'[r] = "prepared"
      BY <2>2 DEF TypeInv, TypeOK
    <3>2. phase = "finalising" /\ T \in Tags /\ h = "save" /\ T = <<step, part[r]>>
      BY <2>1 DEF Gone, InPhase, Stepping, Finalising1, Publishing, Ending
    <3>3. part'[r] \in 2 .. due + 1 /\ part'[r] - 1 = part[r]
      <4>1. part[r] \in 1 .. MaxParts + 1 /\ due \in Nat
        BY DEF TypeInv, TypeOK
      <4> QED
        BY <2>1, <4>1
    <3>4. InPhase(r, phase, T, h)'
      BY <2>1, <3>1, <3>2, <3>3 DEF InPhase, Finalising1, Finalised
    <3> QED
      BY <2>1, <3>4, OneRankStep
  <2>3. CASE Raise(r, "save")
    <3>1. Gone(r)'
      BY <2>1, <2>3, RaiseLeaves
    <3> QED
      BY <2>1, <3>1, OneRankStep
  <2> QED
    BY <1>5, <2>2, <2>3 DEF SaveNow
<1>6. CASE SaveLater(r)
  <2>1. /\ Async /\ pc[r] = "save" /\ part[r] <= due
        /\ step' = step /\ due' = due /\ pc' = pc /\ cur' = cur /\ home' = home
        /\ part'[r] = part[r] + 1 /\ pending'[r] = pending[r] \union {<<step, part[r]>>}
        /\ \A s \in Ranks \ {r} : part'[s] = part[s] /\ pending'[s] = pending[s]
    BY <1>6 DEF SaveLater, TypeInv, TypeOK
  <2>2. part[r] = 1 /\ due = 1
    BY <2>1 DEF OneHandle, TypeInv, TypeOK
  <2>3. phase = "stepping" /\ Stepping(r, T) /\ pending[r] = {} /\ T = <<step, 1>>
    BY <2>1, <2>2 DEF Gone, InPhase, Stepping, Finalising1, Publishing, Ending
  <2>4. T \in Tags
    BY <2>2, <2>3, TagPair DEF TypeInv, TypeOK
  <2>5. InPhase(r, phase, T, h)'
    BY <2>1, <2>2, <2>3, <2>4 DEF InPhase, Stepping, Handle
  <2> QED
    BY <2>1, <2>5, OneRankStep
<1>7. CASE Verdict(r)
  <2>1. /\ pc[r] = "verdict" /\ step' = step /\ due' = due
        /\ part' = part /\ cur' = cur /\ home' = home /\ pending' = pending
        /\ \A s \in Ranks \ {r} : pc'[s] = pc[s]
        /\ Raise(r, home[r]) \/ pc'[r] = home[r]
        /\ home[r] \in {"save", "finally"}
    BY <1>7 DEF Verdict, Raise, TypeInv, TypeOK
  <2>2. pending[r] = {}
    BY <2>1 DEF Gone, InPhase, Stepping, Finalising1, Publishing, Ending
  <2>3. CASE Raise(r, home[r])
    <3>1. Gone(r)'
      BY <2>1, <2>2, <2>3, RaiseLeaves
    <3> QED
      BY <2>1, <3>1, OneRankStep
  <2>4. CASE pc'[r] = home[r]
    <3>1. CASE home[r] = "finally"
      <4>1. Gone(r)'
        BY <2>1, <2>2, <2>4, <3>1 DEF Gone
      <4> QED
        BY <2>1, <4>1, OneRankStep
    <3>2. CASE home[r] = "save"
      <4>1. InPhase(r, phase, T, h)'
        BY <2>1, <2>2, <2>4, <3>2
        DEF Gone, InPhase, Stepping, Finalising1, Publishing, Ending, Handle
      <4> QED
        BY <2>1, <4>1, OneRankStep
    <3> QED
      BY <2>1, <3>1, <3>2
  <2> QED
    BY <2>1, <2>3, <2>4
<1>8. CASE RankRaises(r)
  <2>1. /\ ~Async /\ pending'[r] = {} /\ Raise(r, "save") /\ step' = step /\ due' = due
        /\ part' = part /\ cur' = cur /\ home' = home /\ pending' = pending
        /\ \A s \in Ranks \ {r} : pc'[s] = pc[s]
    BY <1>8 DEF RankRaises, MayFail, Raise, OneHandle, LockstepInv, TypeInv, TypeOK
  <2>2. Gone(r)'
    BY <2>1, RaiseLeaves
  <2> QED
    BY <2>1, <2>2, OneRankStep
<1> QED
  BY <1>1, <1>3, <1>4, <1>5, <1>6, <1>7, <1>8 DEF RankStep

\* Rank 0 between the two barriers.
LEMMA CoordinatorStepInPhase ==
  ASSUME TypeInv, LockstepInv, Publish \/ Reject \/ Prune \/ PublicationRaises
  PROVE  Lockstep'
<1> PICK phase \in Phases, T \in Tags \union {NoTag}, h \in {"save", "finally"} :
      \A s \in Ranks : Gone(s) \/ InPhase(s, phase, T, h)
  BY DEF LockstepInv, Lockstep
<1> USE RankAssumption DEF progress
<1>1. /\ pc[Coordinator] \in {"check", "prune"} /\ step' = step /\ due' = due
      /\ part' = part /\ cur' = cur /\ home' = home /\ pending' = pending
      /\ \A s \in Ranks \ {Coordinator} : pc'[s] = pc[s]
      /\ \/ Raise(Coordinator, home[Coordinator])
         \/ pc'[Coordinator] \in {"prune", "judged"}
      /\ home[Coordinator] \in {"save", "finally"}
  BY DEF Publish, Reject, Prune, PublicationRaises, Raise, TypeInv, TypeOK
<1>2. phase = "publishing" /\ T \in Tags /\ Publishing(Coordinator, T, h)
  BY <1>1 DEF Gone, InPhase, Stepping, Finalising1, Ending
<1>3. CASE Raise(Coordinator, home[Coordinator])
  <2>1. Gone(Coordinator)'
    BY <1>1, <1>2, <1>3, RaiseLeaves DEF Publishing
  <2> QED
    BY <1>1, <2>1, OneRankStep
<1>4. CASE pc'[Coordinator] \in {"prune", "judged"}
  <2>1. InPhase(Coordinator, phase, T, h)'
    BY <1>1, <1>2, <1>4 DEF InPhase, Publishing, Finalised
  <2> QED
    BY <1>1, <2>1, OneRankStep
<1> QED
  BY <1>1, <1>3, <1>4

LEMMA LockstepStep == OneHandle => (TypeInv /\ LockstepInv /\ [Next]_vars => LockstepInv')
<1> SUFFICES ASSUME OneHandle, TypeInv, LockstepInv, [Next]_vars PROVE LockstepInv'
  OBVIOUS
<1> USE RankAssumption DEF progress, files, threads
\* The phase survives every step.
<1>1. Lockstep'
  <2>1. ASSUME UNCHANGED <<step, due, pc, part, cur, home, pending>>
        PROVE  Lockstep'
    <3> PICK phase \in Phases, T \in Tags \union {NoTag}, h \in {"save", "finally"} :
          \A s \in Ranks : Gone(s) \/ InPhase(s, phase, T, h)
      BY DEF LockstepInv, Lockstep
    <3>1. (Gone(Coordinator) \/ InPhase(Coordinator, phase, T, h))'
      BY <2>1, SameStand
    <3> QED
      BY <2>1, <3>1, OneRankStep
  <2>2. ASSUME NEW r \in Ranks, NEW t \in Tags, ThreadWrites(r, t) \/ ThreadFails(r, t)
        PROVE  Lockstep'
    BY <2>1, <2>2 DEF ThreadWrites, ThreadFails
  <2>3. CASE UNCHANGED vars
    BY <2>1, <2>3 DEF vars
  <2> QED
    BY CollectiveStep, RankStepInPhase, CoordinatorStepInPhase, <2>2, <2>3
    DEF Next, Job, Fault, Finished
\* Nobody moves while rank 0 decides.
<1>2. ASSUME pc'[Coordinator] \in {"check", "prune"}, NEW r \in Ranks \ {Coordinator}
      PROVE  pc'[r] = "judged"
  <2>1. CASE pc[Coordinator] \in {"check", "prune"}
    <3>1. pc[r] = "judged"
      BY <2>1 DEF LockstepInv
    <3>2. ASSUME NEW s \in Ranks, RankStep(s) \/ RankRaises(s)
          PROVE  FALSE
      <4>1. pc[s] \in {"check", "prune", "judged"}
        BY <2>1 DEF LockstepInv
      <4> QED
        BY <3>2, <4>1 DEF RankStep, LeaveLoop, RequestWaits, RequestReady, SavesDone, SaveNow,
                          SaveLater, Verdict, Summary, FinallyWaits, Exit, RankRaises
    <3>3. ~TrainStep /\ ~Barrier /\ ~Gather
      BY <2>1 DEF TrainStep, Barrier, Barriers, Gather
    <3>4. ~Restart
      BY <1>2 DEF Restart
    <3>5. CASE Publish \/ Reject \/ Prune \/ PublicationRaises
      BY <3>1, <3>5 DEF Publish, Reject, Prune, PublicationRaises, Raise, TypeInv, TypeOK
    <3>6. CASE UNCHANGED pc
      BY <3>1, <3>6
    <3> QED
      BY <3>2, <3>3, <3>4, <3>5, <3>6 DEF Next, Job, Fault, Finished, ThreadWrites, ThreadFails, vars
  <2>2. CASE pc[Coordinator] \notin {"check", "prune"}
    <3>1. Barrier
      <4>1. ASSUME NEW s \in Ranks, RankStep(s) \/ RankRaises(s)
            PROVE  FALSE
        BY <1>2, <2>2, <4>1
        DEF RankStep, LeaveLoop, RequestWaits, RequestReady, SavesDone, SaveNow, SaveLater,
            Verdict, Summary, FinallyWaits, Exit, RankRaises, Wait, Raise, TypeInv, TypeOK
      <4> QED
        BY <1>2, <2>2, <4>1
        DEF Next, Job, Fault, Finished, ThreadWrites, ThreadFails, vars, TrainStep, Gather, Restart,
            Publish, Reject, Prune, PublicationRaises
    <3>2. pc[Coordinator] = "prepared" /\ pc[r] \in Barriers /\ pc'[r] = AfterBarrier(r)
      BY <1>2, <3>1 DEF Barrier, AfterBarrier, Barriers
    <3>3. pc[r] = "prepared"
      <4> PICK phase \in Phases, T \in Tags \union {NoTag}, h \in {"save", "finally"} :
            \A s \in Ranks : Gone(s) \/ InPhase(s, phase, T, h)
        BY DEF LockstepInv, Lockstep
      <4>1. InPhase(Coordinator, phase, T, h) /\ InPhase(r, phase, T, h)
        BY <3>2 DEF Gone, Barriers
      <4>2. phase = "finalising"
        BY <3>2, <4>1 DEF InPhase, Stepping, Publishing, Ending
      <4> QED
        BY <3>2, <4>1, <4>2 DEF InPhase, Finalising1, Barriers
    <3> QED
      BY <3>2, <3>3 DEF AfterBarrier
  <2> QED
    BY <2>1, <2>2
\* An inline save leaves no handle.
<1>3. ASSUME ~Async, NEW r \in Ranks
      PROVE  pending'[r] = {}
  <2>1. pending[r] = {} /\ \A s \in Ranks : ~SaveLater(s)
    BY <1>3 DEF LockstepInv, SaveLater
  <2>2. ASSUME NEW s \in Ranks, RankStep(s)
        PROVE  pending'[r] = {}
    <3>1. ~RequestWaits(s) /\ ~FinallyWaits(s) /\ ~SaveLater(s)
      BY <1>3 DEF LockstepInv, RequestWaits, FinallyWaits, SaveLater
    <3> QED
      BY <2>1, <2>2, <3>1 DEF RankStep, LeaveLoop, RequestReady, SavesDone, SaveNow, Verdict,
                              Summary, Exit
  <2> QED
    BY <2>1, <2>2
    DEF Next, Job, Fault, Finished, ThreadWrites, ThreadFails, vars, TrainStep, Barrier, Gather,
        Restart, Publish, Reject, Prune, PublicationRaises, RankRaises
<1> QED
  BY <1>1, <1>2, <1>3 DEF LockstepInv

LEMMA LockstepAgrees == LockstepInv => BarriersAgree
<1> SUFFICES ASSUME LockstepInv, \A r \in Ranks : pc[r] \in Barriers, NEW r \in Ranks, NEW s \in Ranks
             PROVE  pc[r] = pc[s] /\ (pc[r] \in {"prepared", "judged"} => cur[r] = cur[s])
  BY DEF BarriersAgree
<1> PICK phase \in Phases, T \in Tags \union {NoTag}, h \in {"save", "finally"} :
      \A q \in Ranks : Gone(q) \/ InPhase(q, phase, T, h)
  BY DEF LockstepInv, Lockstep
<1>1. InPhase(r, phase, T, h) /\ InPhase(s, phase, T, h)
  BY DEF Gone, Barriers
<1> QED
  BY <1>1 DEF InPhase, Stepping, Finalising1, Publishing, Ending, Barriers

\* The n-th barrier of one rank pairs with the n-th of every other by position
\* alone; they are the same barrier of the same tag nevertheless.
THEOREM BarriersMeet == OneHandle => (Spec => []BarriersAgree)
<1> SUFFICES ASSUME OneHandle PROVE Spec => []BarriersAgree
  OBVIOUS
<1>1. TypeInv /\ LockstepInv /\ [Next]_vars => LockstepInv'
  BY LockstepStep
<1> QED
  BY TypeInit, TypeStep, LockstepInit, LockstepAgrees, <1>1, PTL DEF Spec

\* A rank that finalises holds no other handle.
LEMMA HoldsNothing ==
  ASSUME LockstepInv, NEW r \in Ranks, pc[r] \in {"prepared", "check", "prune", "judged"}
  PROVE  pending[r] = {}
  BY DEF LockstepInv, Lockstep, Gone, InPhase, Stepping, Finalising1, Publishing, Ending

\* While rank 0 decides, every other rank is waiting for it with the same tag.
LEMMA AtPublication ==
  ASSUME LockstepInv, pc[Coordinator] \in {"check", "prune"}, NEW r \in Ranks
  PROVE  /\ pc[r] \in {"check", "prune", "judged"}
         /\ cur[r] = cur[Coordinator] /\ pending[r] = {}
<1> USE RankAssumption
<1> PICK phase \in Phases, T \in Tags \union {NoTag}, h \in {"save", "finally"} :
      \A q \in Ranks : Gone(q) \/ InPhase(q, phase, T, h)
  BY DEF LockstepInv, Lockstep
<1>1. phase = "publishing" /\ Publishing(Coordinator, T, h)
  BY DEF Gone, InPhase, Stepping, Finalising1, Ending
<1>2. pc[r] \in {"check", "prune", "judged"}
  BY DEF LockstepInv
<1>3. Publishing(r, T, h)
  BY <1>1, <1>2 DEF Gone, InPhase
<1> QED
  BY <1>1, <1>2, <1>3 DEF Publishing

-----------------------------------------------------------------------------
(* What a rank's writer has left behind by the time the rank finalises.    *)

\* Rank r's part of tag t is done: written in this launch, or reported.
Settled(r, t) == IF t \in box[r] THEN r \in errs[t] ELSE shard[t][r] = launch

WriterInv ==
  /\ \A r \in Ranks : /\ running[r] \subseteq pending[r]
                      /\ pending[r] \subseteq dirs
                      /\ ~Async => box[r] = {}
                      /\ \A t \in pending[r] :
                           t \in running[r] \/ t \in box[r] \/ shard[t][r] = launch
                      /\ pc[r] \in {"prepared", "check", "prune", "judged"} =>
                           cur[r] \in dirs /\ Settled(r, cur[r])
  /\ \A t \in gerr : errs[t] # {}
  /\ pc[Coordinator] = "prune" => errs[cur[Coordinator]] = {}
  /\ faults = 0 => /\ \A r \in Ranks : box[r] = {}
                   /\ \A t \in Tags : errs[t] = {}

LEMMA WriterInit == Init => WriterInv
  BY RankAssumption, NumberAssumption DEF Init, WriterInv

\* A rejected tag has a writer's error on record: had every writer succeeded, no
\* shard would be missing.
LEMMA RejectHasCause ==
  ASSUME TypeInv, LockstepInv, WriterInv, Reject
  PROVE  errs[cur[Coordinator]] # {}
<1> DEFINE t == cur[Coordinator]
<1> USE RankAssumption
<1>1. ASSUME errs[t] = {}, NEW r \in Ranks
      PROVE  shard[t][r] # 0
  <2>1. Settled(r, t)
    BY AtPublication DEF Reject, WriterInv
  <2> QED
    BY <1>1, <2>1 DEF Settled, TypeInv, TypeOK
<1> QED
  BY <1>1 DEF Reject, Missing

LEMMA WriterStep ==
  TypeInv /\ TypeInv' /\ LockstepInv /\ LockstepInv' /\ WriterInv /\ [Next]_vars => WriterInv'
<1> SUFFICES ASSUME TypeInv, TypeInv', LockstepInv, LockstepInv', WriterInv, [Next]_vars
             PROVE  WriterInv'
  OBVIOUS
<1> USE RankAssumption, NumberAssumption, NoTagAssumption DEF files, progress, threads
<1>0. launch \in Nat \ {0} /\ faults \in Nat
  BY DEF TypeInv, TypeOK
\* Steps that touch neither the directory nor a writer.
<1>1. ASSUME UNCHANGED <<dirs, shard, errs, gerr, launch, cur, pending, running, box>>,
             faults' = 0 => faults = 0,
             \A r \in Ranks : pc'[r] \in {"prepared", "check", "prune", "judged"} =>
                                pc[r] \in {"prepared", "check", "prune", "judged"},
             pc'[Coordinator] = "prune" =>
               pc[Coordinator] = "prune" \/ errs[cur[Coordinator]] = {}
      PROVE  WriterInv'
  BY <1>1 DEF WriterInv, Settled
<1>2. CASE TrainStep \/ Barrier \/ Gather
  BY <1>1, <1>2 DEF TrainStep, Barrier, AfterBarrier, Barriers, Gather
<1>3. CASE Publish \/ PublicationRaises
  BY <1>0, <1>1, <1>3 DEF Publish, PublicationRaises, Raise, TypeInv, TypeOK
<1>4. CASE Reject
  <2> DEFINE t == cur[Coordinator]
  <2>1. t \in Tags /\ errs[t] # {}
    BY <1>4, RejectHasCause DEF Reject, TypeInv, Finalising
  <2>4. CASE gerr' = gerr
    BY <1>1, <1>4, <2>4 DEF Reject, Raise, TypeInv, TypeOK
  <2>5. CASE gerr' = gerr \union {t}
    BY <1>4, <2>1, <2>5 DEF Reject, WriterInv, Settled, Raise, TypeInv, TypeOK
  <2> QED
    BY <1>4, <2>4, <2>5 DEF Reject
\* Retention spares the tag just published, and nobody holds another.
<1>5. CASE Prune
  <2> DEFINE t == cur[Coordinator]
             gone == IF KeepLast = 0 THEN {} ELSE {u \in dirs : ~Kept(u)}
  <2>1. t \in Tags /\ t \notin gone
    BY <1>5 DEF Prune, TypeInv, Finalising, Kept
  <2>2. \A r \in Ranks : cur[r] = t /\ pending[r] = {} /\ running[r] = {}
    BY <1>5, AtPublication DEF Prune, WriterInv
  <2>3. /\ dirs' = dirs \ gone /\ gerr' = gerr \ gone
        /\ \A u \in Tags \ gone : shard'[u] = shard[u] /\ errs'[u] = errs[u]
        /\ \A u \in gone \cap Tags : errs'[u] = {}
        /\ UNCHANGED <<launch, cur, pending, running, box, faults>>
        /\ pc'[Coordinator] = "judged"
        /\ \A r \in Ranks \ {Coordinator} : pc'[r] = pc[r]
    BY <1>5 DEF Prune, TypeInv, TypeOK
  <2>4. gerr \subseteq Tags
    BY DEF TypeInv, TypeOK
  <2> HIDE DEF gone
  <2>5. pc[Coordinator] = "prune"
    BY <1>5 DEF Prune
  <2>6. \A r \in Ranks : t \in dirs' /\ Settled(r, t)'
    <3>1. \A r \in Ranks : t \in dirs /\ Settled(r, t)
      BY <2>5, AtPublication DEF WriterInv
    <3> QED
      BY <2>1, <2>3, <3>1 DEF Settled
  <2>7. \A r \in Ranks : cur'[r] \in dirs' /\ Settled(r, cur[r])'
    BY <2>2, <2>3, <2>6 DEF Settled
  <2> QED
    BY <2>1, <2>2, <2>3, <2>4, <2>5, <2>7 DEF WriterInv, Settled
<1>6. ASSUME NEW r \in Ranks, NEW t \in pending[r], NEW h \in {"save", "finally"}, Wait(r, t, h),
             pc[r] \in {"request", "finally"}
      PROVE  WriterInv'
  <2>1. /\ t \in Tags /\ t \in dirs /\ t \notin running[r]
        /\ t \in box[r] \/ shard[t][r] = launch
    BY <1>6 DEF Wait, WriterInv, TypeInv, TypeOK
  <2>2. /\ UNCHANGED <<dirs, shard, gerr, launch, running, box, faults>>
        /\ cur' = [cur EXCEPT ![r] = t] /\ pc' = [pc EXCEPT ![r] = "prepared"]
        /\ pending' = [pending EXCEPT ![r] = @ \ {t}]
        /\ errs' = IF t \in box[r] THEN [errs EXCEPT ![t] = @ \union {r}] ELSE errs
    BY <1>6, <2>1 DEF Wait
  <2>3. \A u \in Tags : errs[u] \subseteq errs'[u] /\ (t \notin box[r] => errs'[u] = errs[u])
    BY <2>2 DEF TypeInv, TypeOK
  <2>4. \A s \in Ranks, u \in Tags : Settled(s, u) => Settled(s, u)'
    BY <2>2, <2>3 DEF Settled
  <2>5. Settled(r, t)'
    BY <2>1, <2>2 DEF Settled, TypeInv, TypeOK
  <2>6. pc'[Coordinator] # "prune"
    <3>1. CASE r = Coordinator
      BY <2>2, <3>1 DEF TypeInv, TypeOK
    <3>2. CASE r # Coordinator
      BY <1>6, <2>2, <3>2 DEF LockstepInv, TypeInv, TypeOK
    <3> QED
      BY <3>1, <3>2
  <2>7. ASSUME NEW s \in Ranks, pc'[s] \in {"prepared", "check", "prune", "judged"}
        PROVE  (cur[s] \in dirs /\ Settled(s, cur[s]))'
    <3>1. CASE s = r
      <4>1. cur'[s] = t
        BY <2>2, <3>1 DEF TypeInv, TypeOK
      <4> QED
        BY <2>1, <2>2, <2>5, <3>1, <4>1 DEF Settled
    <3>2. CASE s # r
      <4>1. cur'[s] = cur[s] /\ pc'[s] = pc[s]
        BY <2>2, <3>2
      <4>2. cur[s] \in dirs /\ Settled(s, cur[s])
        BY <2>7, <4>1 DEF WriterInv
      <4>3. PICK u \in Tags : u = cur[s]
        BY <4>2 DEF TypeInv, TypeOK
      <4>4. Settled(s, u)'
        BY <2>4, <4>2, <4>3
      <4> QED
        BY <2>2, <4>1, <4>2, <4>3, <4>4 DEF Settled
    <3> QED
      BY <3>1, <3>2
  <2>8. \A s \in Ranks : pending'[s] = IF s = r THEN pending[s] \ {t} ELSE pending[s]
    BY <2>2 DEF TypeInv, TypeOK
  <2> QED
    BY <2>1, <2>2, <2>3, <2>6, <2>7, <2>8 DEF WriterInv, TypeInv, TypeOK
<1>7. ASSUME NEW r \in Ranks, SaveNow(r)
      PROVE  WriterInv'
  <2> DEFINE t == <<step, part[r]>>
  <2>1. /\ t \in Tags /\ ~Async /\ pc[r] = "save"
        /\ dirs' = dirs \union {t} /\ cur' = [cur EXCEPT ![r] = t]
        /\ UNCHANGED <<errs, gerr, launch, pending, running, box>>
        /\ faults' = 0 => faults = 0
        /\ \/ pc' = [pc EXCEPT ![r] = "prepared"] /\ shard' = [shard EXCEPT ![t][r] = launch]
           \/ pc' = [pc EXCEPT ![r] = "finally"] /\ shard' = shard
    <3>1. t \in Tags /\ faults' \in {faults, faults + 1}
      BY <1>7, TagPair DEF SaveNow, TypeInv, TypeOK
    <3>2. faults' = 0 => faults = 0
      BY <1>0, <3>1
    <3>3. \/ pc' = [pc EXCEPT ![r] = "prepared"] /\ shard' = [shard EXCEPT ![t][r] = launch]
          \/ pc' = [pc EXCEPT ![r] = "finally"] /\ shard' = shard
      BY <1>7 DEF SaveNow, Raise
    <3>4. /\ ~Async /\ pc[r] = "save" /\ dirs' = dirs \union {t} /\ cur' = [cur EXCEPT ![r] = t]
          /\ UNCHANGED <<errs, gerr, launch, pending, running, box>>
      BY <1>7 DEF SaveNow
    <3> HIDE DEF t
    <3> QED
      BY <3>1, <3>2, <3>3, <3>4
  <2> HIDE DEF t
  <2>2. \A s \in Ranks : box[s] = {} /\ pending[s] = {} /\ running[s] = {}
    BY <2>1 DEF WriterInv, LockstepInv
  <2>7. shard \in [Tags -> [Ranks -> 0 .. launch]] /\ pc \in [Ranks -> Pcs]
    BY DEF TypeInv, TypeOK
  <2>3. \A s \in Ranks \ {r}, u \in Tags : shard'[u][s] = shard[u][s]
    BY <2>1, <2>7
  <2>4. pc'[r] = "prepared" => shard'[t][r] = launch
    BY <2>1, <2>7
  <2>5. ASSUME NEW s \in Ranks, pc'[s] \in {"prepared", "check", "prune", "judged"}
        PROVE  (cur[s] \in dirs /\ Settled(s, cur[s]))'
    <3>1. CASE s = r
      BY <2>1, <2>2, <2>4, <2>5, <3>1 DEF Settled, TypeInv, TypeOK
    <3>2. CASE s # r
      <4>1. cur'[s] = cur[s] /\ pc'[s] = pc[s] /\ cur[s] \in Tags
        BY <2>1, <2>5, <3>2 DEF TypeInv, TypeOK, Finalising
      <4>2. cur[s] \in dirs /\ shard[cur[s]][s] = launch
        BY <2>2, <2>5, <4>1 DEF WriterInv, Settled
      <4> QED
        BY <2>1, <2>2, <2>3, <3>2, <4>1, <4>2 DEF Settled
    <3> QED
      BY <3>1, <3>2
  <2>6. pc'[Coordinator] = "prune" => pc[Coordinator] = "prune" /\ cur'[Coordinator] = cur[Coordinator]
    BY <2>1 DEF TypeInv, TypeOK
  <2> QED
    BY <2>1, <2>2, <2>5, <2>6 DEF WriterInv
<1>8. ASSUME NEW r \in Ranks, SaveLater(r)
      PROVE  WriterInv'
  <2> DEFINE t == <<step, part[r]>>
  <2>1. /\ t \in Tags /\ dirs' = dirs \union {t} /\ Async
        /\ pending' = [pending EXCEPT ![r] = @ \union {t}]
        /\ running' = [running EXCEPT ![r] = @ \union {t}]
        /\ UNCHANGED <<shard, errs, gerr, launch, pc, cur, box, faults>>
    BY <1>8, TagPair DEF SaveLater, TypeInv, TypeOK
  <2> HIDE DEF t
  <2>2. \A s \in Ranks : /\ pending'[s] = IF s = r THEN pending[s] \union {t} ELSE pending[s]
                         /\ running'[s] = IF s = r THEN running[s] \union {t} ELSE running[s]
    BY <2>1 DEF TypeInv, TypeOK
  <2>3. ASSUME NEW s \in Ranks
        PROVE  /\ Settled(s, cur[s]) => Settled(s, cur[s])'
               /\ running'[s] \subseteq pending'[s] /\ pending'[s] \subseteq dirs'
               /\ \A u \in pending'[s] :
                    u \in running'[s] \/ u \in box'[s] \/ shard'[u][s] = launch'
    <3>1. Settled(s, cur[s]) => Settled(s, cur[s])'
      BY <2>1 DEF Settled
    <3>2. running'[s] \subseteq pending'[s] /\ pending'[s] \subseteq dirs'
      BY <2>1, <2>2 DEF WriterInv
    <3>3. ASSUME NEW u \in pending'[s]
          PROVE  u \in running'[s] \/ u \in box'[s] \/ shard'[u][s] = launch'
      <4>1. u \in pending[s] \/ (s = r /\ u = t)
        BY <2>2
      <4>2. u \in pending[s] => u \in running[s] \/ u \in box[s] \/ shard[u][s] = launch
        BY DEF WriterInv
      <4> QED
        BY <2>1, <2>2, <4>1, <4>2
    <3> QED
      BY <3>1, <3>2, <3>3
  <2> QED
    BY <2>1, <2>3 DEF WriterInv
<1>9. ASSUME NEW r \in Ranks, NEW t \in Tags, ThreadWrites(r, t)
      PROVE  WriterInv'
  <2>1. /\ shard' = [shard EXCEPT ![t][r] = launch] /\ running' = [running EXCEPT ![r] = @ \ {t}]
        /\ UNCHANGED <<dirs, errs, gerr, launch, pc, cur, pending, box, faults>>
    BY <1>9 DEF ThreadWrites
  <2>2. /\ \A s \in Ranks : running'[s] = IF s = r THEN running[s] \ {t} ELSE running[s]
        /\ \A s \in Ranks, u \in Tags :
             shard'[u][s] = IF u = t /\ s = r THEN launch ELSE shard[u][s]
    <3>1. running \in [Ranks -> SUBSET Tags] /\ shard \in [Tags -> [Ranks -> 0 .. launch]]
      BY DEF TypeInv, TypeOK
    <3> QED
      BY <2>1, <3>1
  <2>3. \A s \in Ranks, u \in Tags : Settled(s, u) => Settled(s, u)'
    BY <2>1, <2>2 DEF Settled
  <2>4. \A s \in Ranks : pc[s] \in {"prepared", "check", "prune", "judged"} => cur[s] \in Tags
    BY DEF TypeInv, Finalising
  <2>5. \A s \in Ranks : pending[s] \subseteq Tags
    BY DEF TypeInv, TypeOK
  <2>6. \A s \in Ranks : pc[s] \in {"prepared", "check", "prune", "judged"} => Settled(s, cur[s])'
    BY <2>1, <2>2, <2>4 DEF WriterInv, Settled
  <2> QED
    BY <2>1, <2>2, <2>5, <2>6 DEF WriterInv
\* Nobody's directory is pruned from under its writer, so a failing write is an
\* injected fault, and its rank still holds the handle.
<1>10. ASSUME NEW r \in Ranks, NEW t \in Tags, ThreadFails(r, t)
       PROVE  WriterInv'
  <2>1. t \in pending[r] /\ t \in dirs /\ Async
    BY <1>10 DEF ThreadFails, WriterInv, LockstepInv
  <2>2. /\ box' = [box EXCEPT ![r] = @ \union {t}] /\ running' = [running EXCEPT ![r] = @ \ {t}]
        /\ UNCHANGED <<dirs, shard, errs, gerr, launch, pc, cur, pending>> /\ faults' # 0
    BY <1>0, <1>10, <2>1 DEF ThreadFails
  <2>3. \A s \in Ranks : /\ running'[s] = IF s = r THEN running[s] \ {t} ELSE running[s]
                         /\ box'[s] = IF s = r THEN box[s] \union {t} ELSE box[s]
    BY <2>2 DEF TypeInv, TypeOK
  <2>4. pc[r] \notin {"prepared", "check", "prune", "judged"}
    BY <2>1, HoldsNothing
  <2>5. ASSUME NEW s \in Ranks, pc'[s] \in {"prepared", "check", "prune", "judged"}
        PROVE  (cur[s] \in dirs /\ Settled(s, cur[s]))'
    BY <2>2, <2>3, <2>4, <2>5 DEF WriterInv, Settled
  <2> QED
    BY <2>1, <2>2, <2>3, <2>5 DEF WriterInv
<1>11. CASE Restart
  BY <1>11 DEF Restart, WriterInv
<1>12. ASSUME NEW r \in Ranks, RankStep(r)
       PROVE  WriterInv'
  <2>1. CASE LeaveLoop(r) \/ RequestReady(r) \/ SavesDone(r) \/ Summary(r) \/ Exit(r)
    BY <1>1, <2>1 DEF LeaveLoop, RequestReady, SavesDone, Summary, Exit, TypeInv, TypeOK
  <2>2. CASE Verdict(r)
    BY <1>1, <2>2 DEF Verdict, Raise, TypeInv, TypeOK
  <2>3. CASE RequestWaits(r)
    BY <1>6, <2>3 DEF RequestWaits
  <2>4. CASE FinallyWaits(r)
    BY <1>6, <2>4 DEF FinallyWaits
  <2> QED
    BY <1>7, <1>8, <1>12, <2>1, <2>2, <2>3, <2>4 DEF RankStep
<1>13. ASSUME NEW r \in Ranks, RankRaises(r)
       PROVE  WriterInv'
  BY <1>0, <1>1, <1>13 DEF RankRaises, Raise, TypeInv, TypeOK
<1>14. CASE UNCHANGED vars
  BY <1>1, <1>14 DEF vars
<1> QED
  BY <1>2, <1>3, <1>4, <1>5, <1>9, <1>10, <1>11, <1>12, <1>13, <1>14
  DEF Next, Job, Fault, Finished

\* Retention on rank 0 never removes a directory that a rank still writes to, or
\* has yet to finalise.
THEOREM RetentionSparesPending == OneHandle => (Spec => []PruneSparesPending)
<1> SUFFICES ASSUME OneHandle PROVE Spec => []PruneSparesPending
  OBVIOUS
<1>1. TypeInv /\ LockstepInv /\ [Next]_vars => LockstepInv'
  BY LockstepStep
<1>2. WriterInv => PruneSparesPending
  BY DEF WriterInv, PruneSparesPending
<1> QED
  BY TypeInit, TypeStep, LockstepInit, <1>1, WriterInit, WriterStep, <1>2, PTL DEF Spec

LEMMA DurableAtPublication == TypeInv /\ LockstepInv /\ WriterInv => PublishedWhenDurable
<1> SUFFICES ASSUME TypeInv, LockstepInv, WriterInv, pc[Coordinator] = "prune", NEW r \in Ranks
             PROVE  /\ cur[Coordinator] \notin running[r] \union box[r]
                    /\ shard[cur[Coordinator]][r] = launch
  BY DEF PublishedWhenDurable
<1>1. /\ pc[r] \in {"check", "prune", "judged"}
      /\ cur[r] = cur[Coordinator] /\ pending[r] = {}
  BY AtPublication
<1>2. running[r] = {} /\ Settled(r, cur[Coordinator]) /\ errs[cur[Coordinator]] = {}
  BY <1>1 DEF WriterInv
<1> QED
  BY <1>2 DEF Settled

\* "Publish metadata only after every rank-local shard is durable": when rank 0 has
\* published, every writer of the tag is done and wrote this launch's shard.
THEOREM PublicationFollowsWriters == OneHandle => (Spec => []PublishedWhenDurable)
<1> SUFFICES ASSUME OneHandle PROVE Spec => []PublishedWhenDurable
  OBVIOUS
<1>1. TypeInv /\ LockstepInv /\ [Next]_vars => LockstepInv'
  BY LockstepStep
<1> QED
  BY TypeInit, TypeStep, LockstepInit, <1>1, WriterInit, WriterStep, DurableAtPublication, PTL
  DEF Spec

\* Until the first fault, rank 0 only ever leaves its decision with its tag
\* published.
CleanInv == faults = 0 /\ pc[Coordinator] = "judged" => latest = cur[Coordinator]

LEMMA CleanStep ==
  TypeInv /\ LockstepInv /\ LockstepInv' /\ WriterInv /\ DirectoryInv /\ CleanInv /\ [Next]_vars
    => CleanInv'
<1> SUFFICES ASSUME TypeInv, LockstepInv, LockstepInv', WriterInv, DirectoryInv, CleanInv, [Next]_vars,
                    faults' = 0, pc'[Coordinator] = "judged"
             PROVE  latest' = cur'[Coordinator]
  BY DEF CleanInv
<1> USE RankAssumption DEF progress, files, threads
<1>0. faults = 0
  <2>1. faults \in Nat
    BY DEF TypeInv, TypeOK
  <2>2. ASSUME NEW r \in Ranks, RankStep(r) \/ RankRaises(r)
        PROVE  faults' \in {faults, faults + 1}
    BY <2>2 DEF RankStep, RankRaises, LeaveLoop, RequestWaits, RequestReady, SavesDone, SaveNow,
                SaveLater, Verdict, Summary, FinallyWaits, Exit, Wait
  <2>3. faults' \in {faults, faults + 1}
    BY <2>2 DEF Next, Job, Fault, Finished, vars, TrainStep, Barrier, Publish, Reject, Prune, Gather,
                ThreadWrites, ThreadFails, Restart, PublicationRaises
  <2> QED
    BY <2>1, <2>3
<1>1. ASSUME UNCHANGED <<latest, cur, pc>>
      PROVE  latest' = cur'[Coordinator]
  BY <1>0, <1>1 DEF CleanInv
<1>2. CASE Prune
  BY <1>2 DEF Prune, DirectoryInv
<1>3. ~Reject
  <2>1. ASSUME Reject PROVE FALSE
    <3>1. cur[Coordinator] \in Tags
      BY <2>1 DEF Reject, TypeInv, Finalising
    <3> QED
      BY <1>0, <2>1, <3>1, RejectHasCause DEF WriterInv
  <2> QED
    BY <2>1
<1>4. ~Publish /\ ~PublicationRaises /\ ~TrainStep /\ ~Gather /\ ~Restart
  BY DEF Publish, PublicationRaises, Raise, TrainStep, Gather, Restart, TypeInv, TypeOK
\* A barrier never leaves rank 0 judged: it sends it to decide, or on to a verdict.
<1>5. ~Barrier
  BY DEF Barrier, Barriers, AfterBarrier
<1>6. ASSUME NEW r \in Ranks, RankStep(r) \/ RankRaises(r)
      PROVE  latest' = cur'[Coordinator]
  <2>1. pc'[r] # "judged"
    BY <1>6 DEF RankStep, RankRaises, LeaveLoop, RequestWaits, RequestReady, SavesDone, SaveNow,
                SaveLater, Verdict, Summary, FinallyWaits, Exit, Wait, Raise, TypeInv, TypeOK
  <2>2. /\ r # Coordinator /\ latest' = latest
        /\ pc'[Coordinator] = pc[Coordinator] /\ cur'[Coordinator] = cur[Coordinator]
    BY <1>6, <2>1 DEF RankStep, RankRaises, LeaveLoop, RequestWaits, RequestReady, SavesDone, SaveNow,
                      SaveLater, Verdict, Summary, FinallyWaits, Exit, Wait, Raise, TypeInv, TypeOK
  <2> QED
    BY <1>0, <2>2 DEF CleanInv
<1> QED
  BY <1>1, <1>2, <1>3, <1>4, <1>5, <1>6
  DEF Next, Job, Fault, Finished, ThreadWrites, ThreadFails, vars

\* As long as nothing has failed, a tag that every rank wrote is published, whatever
\* an earlier launch left in its directory.
THEOREM CleanTagIsPublished == OneHandle => (Spec => []CleanRunPublishes)
<1> SUFFICES ASSUME OneHandle PROVE Spec => []CleanRunPublishes
  OBVIOUS
<1>1. TypeInv /\ LockstepInv /\ [Next]_vars => LockstepInv'
  BY LockstepStep
<1>2. Init => CleanInv
  BY RankAssumption DEF Init, CleanInv
<1>3. CleanInv => CleanRunPublishes
  BY DEF CleanInv, CleanRunPublishes, DurableIsPublished
<1> QED
  BY TypeInit, TypeStep, LockstepInit, <1>1, WriterInit, WriterStep, DirectoryInit, DirectoryStep,
     <1>2, CleanStep, <1>3, PTL DEF Spec

-----------------------------------------------------------------------------
(* The directory as a register.  Beside OneHandle, this needs AutoResume:  *)
(* a fresh run into a directory that holds checkpoints starts to overwrite *)
(* them from its first step.                                               *)

-----------------------------------------------------------------------------
(* Retention's sort order is a strict total order on the tags.             *)

LEMMA BeforeIrreflexive ==
  ASSUME NEW t \in Tags
  PROVE  ~Before(t, t)
  BY NumberAssumption DEF Tags, Before

LEMMA BeforeTransitive ==
  ASSUME NEW t \in Tags, NEW u \in Tags, NEW v \in Tags, Before(t, u), Before(u, v)
  PROVE  Before(t, v)
  BY NumberAssumption DEF Tags, Before

LEMMA BeforeTotal ==
  ASSUME NEW t \in Tags, NEW u \in Tags, ~Before(t, u)
  PROVE  t = u \/ Before(u, t)
  BY NumberAssumption DEF Tags, Before

LEMMA BeforeLaterStep ==
  ASSUME NEW t \in Tags, NEW s \in Int, NEW p, t[1] < s
  PROVE  Before(t, <<s, p>>)
  BY DEF Before

-----------------------------------------------------------------------------
(* Whatever is on its way to the directory is newer than what is there.    *)

After(t) == latest = NoTag \/ Before(latest, t)

OrderInv ==
  /\ latest # NoTag => latest[1] <= step
  /\ \A r \in Ranks :
       /\ \A t \in pending[r] : After(t) /\ t[1] <= step
       /\ part[r] <= due /\ (pc[r] \in {"request", "save"} \/ (pc[r] = "verdict" /\ home[r] = "save"))
            => After(<<step, part[r]>>)
       /\ pc[r] \in {"prepared", "check"} => After(cur[r]) /\ cur[r][1] <= step
       /\ pc[r] \in {"prune", "judged"} => latest = cur[r] \/ After(cur[r])

LEMMA OrderInit == Init => OrderInv
  BY DEF Init, OrderInv

\* After a verdict, the next tag of the same step is newer still.
LEMMA NextPart ==
  ASSUME TypeInv, LockstepInv, OrderInv, NEW r \in Ranks,
         pc[r] = "judged", home[r] = "save", part[r] <= due
  PROVE  After(<<step, part[r]>>)
<1> DEFINE t == cur[r]
<1> USE NumberAssumption, NoTagAssumption DEF TypeInv, TypeOK
<1>1. t \in Tags /\ (latest = t \/ After(t))
  BY DEF OrderInv, Finalising
<1>2. Finalised(r, t, "save")
  <2> PICK phase \in Phases, T \in Tags \union {NoTag}, h \in {"save", "finally"} :
        \A q \in Ranks : Gone(q) \/ InPhase(q, phase, T, h)
    BY DEF LockstepInv, Lockstep
  <2> QED
    BY DEF Gone, InPhase, Stepping, Finalising1, Publishing, Ending
<1> SUFFICES ASSUME latest # NoTag PROVE Before(latest, <<step, part[r]>>)
  BY DEF After
<1>3. latest \in Tags /\ (latest = t \/ Before(latest, t))
  BY <1>1 DEF After
<1>4. CASE Async
  <2>1. t[1] < step
    BY <1>2, <1>4 DEF Finalised
  <2>2. latest[1] <= t[1]
    BY <1>1, <1>3 DEF Before, Tags
  <2>3. latest[1] < step
    BY <1>1, <1>3, <2>1, <2>2, TagStep
  <2> QED
    BY <1>3, <2>3, BeforeLaterStep
<1>5. CASE ~Async
  <2>1. t = <<step, part[r] - 1>> /\ part[r] \in Nat /\ step \in Nat
    BY <1>2, <1>5 DEF Finalised
  <2>2. <<step, part[r]>> \in Tags
    <3>1. part[r] \in 1 .. MaxParts /\ step \in 1 .. MaxStep
      BY <1>1, <2>1, TagStep
    <3> QED
      BY <3>1, TagPair
  <2>3. Before(t, <<step, part[r]>>)
    BY <2>1 DEF Before
  <2> QED
    BY <1>1, <1>3, <2>2, <2>3, BeforeTransitive
<1> QED
  BY <1>4, <1>5

LEMMA OrderStep ==
  ASSUME AutoResume
  PROVE  TypeInv /\ LockstepInv /\ OrderInv /\ [Next]_vars => OrderInv'
<1> SUFFICES ASSUME TypeInv, LockstepInv, OrderInv, [Next]_vars PROVE OrderInv'
  OBVIOUS
<1> USE RankAssumption, NumberAssumption, NoTagAssumption DEF files, progress, threads
\* Steps that publish nothing and bring no tag closer to the directory.
<1>1. ASSUME UNCHANGED <<latest, step, due, part, cur, home, pending>>,
             \A r \in Ranks :
               /\ pc'[r] \in {"request", "save"} \/ (pc'[r] = "verdict" /\ home[r] = "save") =>
                    pc[r] \in {"request", "save"} \/ (pc[r] = "verdict" /\ home[r] = "save")
               /\ pc'[r] \in {"prepared", "check"} => pc[r] \in {"prepared", "check"}
               /\ pc'[r] \in {"prune", "judged"} =>
                    pc[r] \in {"prepared", "check", "prune", "judged"}
      PROVE  OrderInv'
  BY <1>1 DEF OrderInv, After
<1>2. CASE TrainStep
  <2>1. /\ step \in Nat /\ step' = step + 1 /\ due' \in Nat
        /\ latest' = latest /\ pending' = pending
        /\ \A r \in Ranks : part'[r] = 1 /\ pc'[r] \in {"train", "request"}
    BY <1>2 DEF TrainStep, TypeInv, TypeOK
  <2>2. latest # NoTag => latest \in Tags /\ latest[1] \in Nat
    BY TagStep DEF TypeInv, TypeOK
  <2>3. ASSUME NEW r \in Ranks, NEW t \in pending[r]
        PROVE  (After(t) /\ t[1] <= step)'
    <3>1. t[1] \in Nat /\ t[1] <= step /\ After(t)
      <4>1. t \in Tags
        BY DEF TypeInv, TypeOK
      <4>2. t[1] <= step /\ After(t)
        BY DEF OrderInv
      <4> QED
        BY <4>1, <4>2, TagStep
    <3>2. t[1] <= step'
      BY <2>1, <3>1
    <3>3. latest' = NoTag \/ Before(latest', t)
      BY <2>1, <3>1 DEF After
    <3> QED
      BY <3>2, <3>3 DEF After
  <2>4. latest' = NoTag \/ Before(latest', <<step', 1>>)
    BY <2>1, <2>2, BeforeLaterStep DEF OrderInv
  <2> QED
    BY <2>1, <2>2, <2>3, <2>4 DEF OrderInv, After
<1>3. CASE Barrier
  <2>1. /\ UNCHANGED <<latest, step, due, part, cur, home, pending>>
        /\ \A r \in Ranks : pc[r] \in Barriers /\ pc'[r] = AfterBarrier(r)
    BY <1>3 DEF Barrier
  <2>2. ASSUME NEW r \in Ranks, part[r] <= due,
               pc'[r] \in {"request", "save"} \/ (pc'[r] = "verdict" /\ home[r] = "save")
        PROVE  After(<<step, part[r]>>)
    <3>1. pc[r] = "judged" /\ home[r] = "save"
      BY <2>1, <2>2 DEF Barriers, AfterBarrier
    <3> QED
      BY <2>2, <3>1, NextPart
  <2>3. ASSUME NEW r \in Ranks
        PROVE  /\ pc'[r] \in {"check", "judged"} => pc[r] = "prepared"
               /\ pc'[r] \notin {"prepared", "prune"}
    BY <2>1 DEF Barriers, AfterBarrier
  <2> QED
    BY <2>1, <2>2, <2>3 DEF OrderInv, After
\* Nobody is on the way to an older tag when one is published: the others wait.
<1>4. CASE Publish
  <2>1. /\ UNCHANGED <<step, due, part, cur, home, pending>> /\ latest' = cur[Coordinator]
        /\ pc[Coordinator] = "check" /\ pc'[Coordinator] = "prune"
        /\ \A r \in Ranks \ {Coordinator} : pc'[r] = pc[r]
    BY <1>4 DEF Publish, TypeInv, TypeOK
  <2>2. \A r \in Ranks : pc'[r] \in {"prune", "judged"} /\ cur[r] = cur[Coordinator] /\ pending[r] = {}
    BY <2>1, AtPublication DEF LockstepInv
  <2>3. cur[Coordinator][1] <= step
    BY <2>1 DEF OrderInv
  <2> QED
    BY <2>1, <2>2, <2>3 DEF OrderInv
<1>5. ASSUME NEW r \in Ranks, NEW t \in pending[r], NEW h \in {"save", "finally"}, Wait(r, t, h)
      PROVE  OrderInv'
  <2>1. /\ UNCHANGED <<latest, step, due, part>>
        /\ \A s \in Ranks : pending'[s] \subseteq pending[s]
        /\ \A s \in Ranks \ {r} : pc'[s] = pc[s] /\ cur'[s] = cur[s] /\ home'[s] = home[s]
        /\ cur'[r] = t /\ pc'[r] \in {"prepared", "finally", "exited"}
    BY <1>5 DEF Wait, Raise, TypeInv, TypeOK
  <2>2. After(t) /\ t[1] <= step
    BY DEF OrderInv
  <2> QED
    BY <2>1, <2>2 DEF OrderInv, After
<1>6. ASSUME NEW r \in Ranks, SaveNow(r)
      PROVE  OrderInv'
  <2>1. /\ UNCHANGED <<latest, step, due, pending>> /\ pc[r] = "save" /\ part[r] <= due
        /\ \A s \in Ranks \ {r} : /\ pc'[s] = pc[s] /\ cur'[s] = cur[s]
                                  /\ home'[s] = home[s] /\ part'[s] = part[s]
        /\ cur'[r] = <<step, part[r]>> /\ pc'[r] \in {"prepared", "finally"}
    BY <1>6 DEF SaveNow, Raise, TypeInv, TypeOK
  <2>2. After(<<step, part[r]>>) /\ step \in Nat /\ <<step, part[r]>>[1] = step
    <3>1. step \in Nat
      BY DEF TypeInv, TypeOK
    <3>2. After(<<step, part[r]>>)
      BY <2>1 DEF OrderInv, After
    <3> QED
      BY <3>1, <3>2
  <2>3. After(cur[r])' /\ cur'[r][1] <= step'
    BY <2>1, <2>2 DEF After
  <2>4. \A s \in Ranks : pc'[s] \in {"request", "save", "verdict", "check", "prune", "judged"} => s # r
    BY <2>1
  <2>5. ASSUME NEW s \in Ranks \ {r}
        PROVE  /\ part'[s] <= due' /\ (pc'[s] \in {"request", "save"} \/ (pc'[s] = "verdict" /\ home'[s] = "save"))
                    => After(<<step, part[s]>>)'
               /\ pc'[s] \in {"prepared", "check"} => After(cur[s])' /\ cur'[s][1] <= step'
               /\ pc'[s] \in {"prune", "judged"} => latest' = cur'[s] \/ After(cur[s])'
    BY <2>1 DEF OrderInv, After
  <2>6. \A s \in Ranks : \A t \in pending'[s] : After(t)' /\ t[1] <= step'
    BY <2>1 DEF OrderInv, After
  <2>7. latest' # NoTag => latest'[1] <= step'
    BY <2>1 DEF OrderInv
  <2> QED
    BY <2>3, <2>4, <2>5, <2>6, <2>7 DEF OrderInv
<1>7. ASSUME NEW r \in Ranks, SaveLater(r)
      PROVE  OrderInv'
  <2>1. /\ UNCHANGED <<latest, step, due, pc, cur, home>>
        /\ Async /\ pc[r] = "save" /\ part[r] <= due /\ part'[r] = part[r] + 1
        /\ \A s \in Ranks \ {r} : pending'[s] = pending[s] /\ part'[s] = part[s]
        /\ pending'[r] = pending[r] \union {<<step, part[r]>>}
    BY <1>7 DEF SaveLater, TypeInv, TypeOK
  <2>2. After(<<step, part[r]>>) /\ step \in Nat /\ <<step, part[r]>>[1] = step
    <3>1. step \in Nat
      BY DEF TypeInv, TypeOK
    <3>2. After(<<step, part[r]>>)
      BY <2>1 DEF OrderInv, After
    <3> QED
      BY <3>1, <3>2
  <2>3. After(<<step, part[r] + 1>>)
    <3>1. latest # NoTag => latest \in Tags
      BY DEF TypeInv, TypeOK
    <3>2. part[r] \in Nat
      BY DEF TypeInv, TypeOK
    <3> QED
      BY <2>2, <3>1, <3>2 DEF After, Before, Tags
  <2>4. ASSUME NEW s \in Ranks, NEW t \in pending'[s]
        PROVE  (After(t) /\ t[1] <= step)'
    <3>1. t \in pending[s] => After(t) /\ t[1] <= step
      BY DEF OrderInv
    <3>2. t \in pending[s] \/ t = <<step, part[r]>>
      BY <2>1
    <3>3. After(t) /\ t[1] <= step
      BY <2>2, <3>1, <3>2
    <3> QED
      BY <2>1, <3>3 DEF After
  <2>5. ASSUME NEW s \in Ranks
        PROVE  /\ part'[s] <= due' /\ (pc'[s] \in {"request", "save"} \/ (pc'[s] = "verdict" /\ home'[s] = "save"))
                    => After(<<step, part[s]>>)'
               /\ pc'[s] \in {"prepared", "check"} => After(cur[s])' /\ cur'[s][1] <= step'
               /\ pc'[s] \in {"prune", "judged"} => latest' = cur'[s] \/ After(cur[s])'
    BY <2>1, <2>3 DEF OrderInv, After
  <2>6. latest' # NoTag => latest'[1] <= step'
    BY <2>1 DEF OrderInv
  <2> QED
    BY <2>4, <2>5, <2>6 DEF OrderInv
<1>8. CASE Restart
  <2>1. latest' = latest /\ step' = (IF latest # NoTag THEN latest[1] ELSE 0) /\ due' = 0
    BY <1>8 DEF Restart, ResumeStep
  <2>2. \A r \in Ranks : pc'[r] = "train" /\ pending'[r] = {}
    BY <1>8 DEF Restart
  <2>3. latest # NoTag => latest[1] \in Nat
    BY TagStep DEF TypeInv, TypeOK
  <2> QED
    BY <2>1, <2>2, <2>3 DEF OrderInv
<1>9. CASE Gather \/ Reject \/ Prune \/ PublicationRaises
  BY <1>1, <1>9 DEF Gather, Reject, Prune, PublicationRaises, Raise, TypeInv, TypeOK
<1>10. ASSUME NEW r \in Ranks, RankStep(r) \/ RankRaises(r)
       PROVE  OrderInv'
  <2>1. CASE LeaveLoop(r) \/ RequestReady(r) \/ SavesDone(r) \/ Summary(r) \/ Exit(r)
    BY <1>1, <2>1 DEF LeaveLoop, RequestReady, SavesDone, Summary, Exit, TypeInv, TypeOK
  <2>2. CASE Verdict(r) \/ RankRaises(r)
    BY <1>1, <2>2 DEF Verdict, RankRaises, Raise, TypeInv, TypeOK
  <2> QED
    BY <1>5, <1>6, <1>7, <1>10, <2>1, <2>2 DEF RankStep, RequestWaits, FinallyWaits
<1>11. ASSUME NEW r \in Ranks, NEW t \in Tags, ThreadWrites(r, t) \/ ThreadFails(r, t)
       PROVE  OrderInv'
  BY <1>1, <1>11 DEF ThreadWrites, ThreadFails
<1>12. CASE UNCHANGED vars
  BY <1>1, <1>12 DEF vars
<1> QED
  BY <1>2, <1>3, <1>4, <1>8, <1>9, <1>10, <1>11, <1>12 DEF Next, Job, Fault, Finished

-----------------------------------------------------------------------------
(* What rank 0 decided is still in the directory when the last rank acts   *)
(* on it.                                                                  *)

\* A tag is the published one, or it has been rejected.
Decided(t) == IF t \in gerr THEN latest # t ELSE latest = t

DecisionInv ==
  /\ \A r \in Ranks :
       /\ pc[r] = "verdict" => Decided(cur[r]) /\ (cur[r] \in box[r] => cur[r] \in gerr)
       /\ r \in failed => pc[r] \in {"finally", "exited"} /\ pending[r] = {}
  /\ pc[Coordinator] = "judged" =>
       /\ Decided(cur[Coordinator])
       /\ cur[Coordinator] \notin gerr => errs[cur[Coordinator]] = {}

\* What a rank has written in this launch is held, being finalised, or no newer
\* than the published tag.
NewestInv ==
  failed = {} =>
    \A t \in Tags, r \in Ranks :
      shard[t][r] = launch =>
        \/ t \in pending[r]
        \/ pc[r] \in Finalising /\ cur[r] = t
        \/ latest # NoTag /\ ~Before(latest, t)

LEMMA JudgedTogether ==
  ASSUME LockstepInv, pc[Coordinator] = "judged", NEW r \in Ranks
  PROVE  Gone(r) \/ (pc[r] = "judged" /\ cur[r] = cur[Coordinator])
<1> USE RankAssumption
<1> PICK phase \in Phases, T \in Tags \union {NoTag}, h \in {"save", "finally"} :
      \A q \in Ranks : Gone(q) \/ InPhase(q, phase, T, h)
  BY DEF LockstepInv, Lockstep
<1>1. phase = "publishing" /\ Publishing(Coordinator, T, h)
  BY DEF Gone, InPhase, Stepping, Finalising1, Ending
<1>2. ASSUME Publishing(r, T, h)
      PROVE  pc[r] = "judged" /\ cur[r] = cur[Coordinator]
  BY <1>1, <1>2 DEF Publishing
<1> QED
  BY <1>1, <1>2 DEF InPhase

LEMMA VerdictHoldsNothing ==
  ASSUME LockstepInv, NEW r \in Ranks, pc[r] = "verdict"
  PROVE  pending[r] = {}
  BY DEF LockstepInv, Lockstep, Gone, InPhase, Stepping, Finalising1, Publishing, Ending

LEMMA DecisionInit == Init => DecisionInv
  BY RankAssumption DEF Init, DecisionInv

LEMMA DecisionStep ==
  ASSUME OneHandle
  PROVE  TypeInv /\ TypeInv' /\ LockstepInv /\ WriterInv /\ DirectoryInv /\ OrderInv
           /\ DecisionInv /\ [Next]_vars => DecisionInv'
<1> SUFFICES ASSUME TypeInv, TypeInv', LockstepInv, WriterInv, DirectoryInv, OrderInv,
                    DecisionInv, [Next]_vars
             PROVE  DecisionInv'
  OBVIOUS
<1> USE RankAssumption, NumberAssumption, NoTagAssumption DEF files, progress, threads
\* Steps that decide nothing.
<1>1. ASSUME UNCHANGED <<latest, gerr, errs, box, cur, pending>>,
             \A r \in Ranks :
               /\ pc'[r] = "verdict" => pc[r] = "verdict"
               /\ r \in failed' => pc'[r] \in {"finally", "exited"} /\ pending[r] = {},
             pc'[Coordinator] = "judged" => pc[Coordinator] = "judged"
      PROVE  DecisionInv'
  BY <1>1 DEF DecisionInv, Decided
<1>2. ASSUME NEW r \in Ranks, pc[r] \notin {"finally", "exited"}
      PROVE  r \notin failed
  BY <1>2 DEF DecisionInv
<1>3. CASE TrainStep \/ Gather
  BY <1>1, <1>2, <1>3 DEF TrainStep, Gather
<1>4. CASE Barrier
  <2>1. /\ UNCHANGED <<latest, gerr, errs, box, cur, pending, failed>>
        /\ \A r \in Ranks : pc[r] \in Barriers /\ pc'[r] = AfterBarrier(r) /\ r \notin failed
    BY <1>2, <1>4 DEF Barrier, Barriers
  <2>2. pc'[Coordinator] # "judged"
    BY <2>1 DEF AfterBarrier, Barriers
  <2>3. ASSUME NEW r \in Ranks, pc'[r] = "verdict"
        PROVE  Decided(cur[r]) /\ (cur[r] \in box[r] => cur[r] \in gerr)
    <3>1. pc[r] = "judged"
      BY <2>1, <2>3 DEF AfterBarrier, Barriers
    <3>2. pc[Coordinator] = "judged" /\ cur[Coordinator] = cur[r]
      BY <2>1, <3>1, LockstepAgrees DEF BarriersAgree
    <3>3. cur[r] \in box[r] => errs[cur[r]] # {}
      BY <3>1 DEF WriterInv, Settled
    <3> QED
      BY <3>2, <3>3 DEF DecisionInv
  <2> QED
    BY <2>1, <2>2, <2>3 DEF DecisionInv, Decided
<1>5. CASE Publish \/ PublicationRaises
  <2>1. /\ UNCHANGED <<gerr, errs, box, cur, pending>> /\ pc[Coordinator] \in {"check", "prune"}
        /\ \A r \in Ranks \ {Coordinator} : pc'[r] = pc[r] /\ (r \in failed' => r \in failed)
        /\ pc'[Coordinator] \in {"prune", "finally", "exited"}
        /\ Coordinator \in failed' => pc'[Coordinator] # "prune"
    BY <1>2, <1>5 DEF Publish, PublicationRaises, Raise, TypeInv, TypeOK
  <2>2. \A r \in Ranks : pc[r] # "verdict" /\ pending[r] = {}
    BY <2>1, AtPublication
  <2> QED
    BY <2>1, <2>2 DEF DecisionInv
<1>6. CASE Reject
  <2> DEFINE t == cur[Coordinator]
  <2>1. /\ pc[Coordinator] = "check" /\ t \in Tags /\ t \in dirs
    BY <1>6 DEF Reject, TypeInv, Finalising, WriterInv
  <2>2. /\ UNCHANGED <<latest, errs, box, cur, pending, failed>> /\ gerr' = gerr \union {t}
        /\ pc' = [pc EXCEPT ![Coordinator] = "judged"]
        /\ \A r \in Ranks \ {Coordinator} : pc'[r] = pc[r]
    <3>1. gerr' = gerr \union {t} /\ UNCHANGED failed /\ pc' = [pc EXCEPT ![Coordinator] = "judged"]
      BY <1>6, <2>1 DEF Reject
    <3>2. UNCHANGED <<latest, errs, box, cur, pending>>
      BY <1>6 DEF Reject
    <3> QED
      BY <3>1, <3>2
  <2>3. \A r \in Ranks : pc[r] # "verdict" /\ r \notin failed
    BY <1>2, <2>1, AtPublication
  <2>4. latest # t
    <3>1. After(t)
      BY <2>1 DEF OrderInv
    <3> QED
      BY <2>1, <3>1, BeforeIrreflexive DEF After
  <2>5. pc'[Coordinator] = "judged"
    BY <2>2 DEF TypeInv, TypeOK
  <2>6. \A r \in Ranks : pc'[r] # "verdict"
    BY <2>2, <2>3, <2>5
  <2> QED
    BY <2>2, <2>3, <2>4, <2>5, <2>6 DEF DecisionInv, Decided
<1>7. CASE Prune
  <2> DEFINE t == cur[Coordinator]
             gone == IF KeepLast = 0 THEN {} ELSE {u \in dirs : ~Kept(u)}
  <2>1. /\ pc[Coordinator] = "prune" /\ t \in Tags /\ t = latest /\ errs[t] = {}
    BY <1>7 DEF Prune, TypeInv, Finalising, WriterInv, DirectoryInv
  <2>2. /\ UNCHANGED <<latest, box, cur, pending, failed>> /\ gerr' = gerr \ gone
        /\ errs' = [u \in Tags |-> IF u \in gone THEN {} ELSE errs[u]]
        /\ \A r \in Ranks \ {Coordinator} : pc'[r] = pc[r]
        /\ pc'[Coordinator] = "judged"
    BY <1>7 DEF Prune, TypeInv, TypeOK
  <2> HIDE DEF gone
  <2>3. \A r \in Ranks : pc[r] # "verdict" /\ r \notin failed
    BY <1>2, <2>1, AtPublication
  <2>4. t \notin gerr' /\ errs'[t] = {}
    BY <2>1, <2>2 DEF WriterInv
  <2> QED
    BY <2>1, <2>2, <2>3, <2>4 DEF DecisionInv, Decided
<1>8. ASSUME NEW r \in Ranks, NEW t \in pending[r], NEW h \in {"save", "finally"}, Wait(r, t, h),
             pc[r] \in {"request", "finally"}
      PROVE  DecisionInv'
  <2>1. t \in dirs /\ pending[r] # {} /\ r \notin failed
    BY DEF WriterInv, DecisionInv
  <2>2. /\ UNCHANGED <<latest, gerr, box, failed>>
        /\ pc'[r] = "prepared" /\ pending'[r] \subseteq pending[r]
        /\ \A s \in Ranks \ {r} : /\ pc'[s] = pc[s] /\ cur'[s] = cur[s]
                                  /\ pending'[s] = pending[s]
    BY <1>8, <2>1 DEF Wait, TypeInv, TypeOK
  <2>3. pc[Coordinator] # "judged"
    BY <1>8, <2>1, JudgedTogether DEF Gone
  <2>4. pc'[Coordinator] # "judged"
    BY <2>2, <2>3
  <2> QED
    BY <2>1, <2>2, <2>4 DEF DecisionInv, Decided
<1>9. ASSUME NEW r \in Ranks, SaveNow(r) \/ SaveLater(r)
      PROVE  DecisionInv'
  <2>1. /\ UNCHANGED <<latest, gerr, errs, box>>
        /\ pc[r] = "save" /\ pc'[r] \in {"save", "prepared", "finally"}
        /\ \A s \in Ranks \ {r} : /\ pc'[s] = pc[s] /\ cur'[s] = cur[s]
                                  /\ pending'[s] = pending[s] /\ (s \in failed' => s \in failed)
        /\ r \in failed' => r \in failed \/ (~Async /\ pc'[r] = "finally" /\ pending' = pending)
    BY <1>9 DEF SaveNow, SaveLater, Raise, TypeInv, TypeOK
  <2>2. r \in failed' => pc'[r] = "finally" /\ pending'[r] = {}
    BY <1>2, <2>1 DEF LockstepInv
  <2> QED
    BY <2>1, <2>2 DEF DecisionInv, Decided
<1>10. ASSUME NEW r \in Ranks, RankStep(r) \/ RankRaises(r)
       PROVE  DecisionInv'
  <2>1. CASE LeaveLoop(r) \/ RequestReady(r) \/ SavesDone(r) \/ Summary(r) \/ Exit(r)
    <3>1. /\ UNCHANGED <<latest, gerr, errs, box, cur, pending, failed>>
          /\ pc'[r] \notin {"verdict", "judged"}
          /\ \A s \in Ranks \ {r} : pc'[s] = pc[s]
          /\ pc[r] # "finally" \/ pc'[r] = "exited"
      BY <2>1 DEF LeaveLoop, RequestReady, SavesDone, Summary, Exit, TypeInv, TypeOK
    <3>2. pc[r] # "exited"
      BY <2>1 DEF LeaveLoop, RequestReady, SavesDone, Summary, Exit
    <3>3. r \in failed => pc'[r] = "exited" /\ pending[r] = {}
      BY <3>1, <3>2 DEF DecisionInv
    <3> QED
      BY <1>1, <3>1, <3>3 DEF DecisionInv
  <2>2. CASE Verdict(r) \/ RankRaises(r)
    <3>1. /\ UNCHANGED <<latest, gerr, errs, box, cur, pending>>
          /\ pc[r] \in {"verdict", "summary", "train"}
          /\ pc'[r] \notin {"verdict", "judged"}
          /\ \A s \in Ranks \ {r} : pc'[s] = pc[s] /\ (s \in failed' => s \in failed)
          /\ r \in failed' => r \in failed \/ pc'[r] \in {"finally", "exited"}
      BY <2>2 DEF Verdict, RankRaises, Raise, TypeInv, TypeOK
    <3>2. pending[r] = {}
      <4>1. CASE Verdict(r)
        BY <4>1, VerdictHoldsNothing DEF Verdict
      <4>2. CASE RankRaises(r)
        BY <4>2 DEF RankRaises, MayFail, OneHandle, LockstepInv
      <4> QED
        BY <2>2, <4>1, <4>2
    <3>3. r \notin failed
      BY <1>2, <3>1
    <3> QED
      BY <1>1, <3>1, <3>2, <3>3 DEF DecisionInv
  <2>3. CASE RequestWaits(r) \/ FinallyWaits(r)
    BY <1>8, <2>3 DEF RequestWaits, FinallyWaits
  <2> QED
    BY <1>9, <1>10, <2>1, <2>2, <2>3 DEF RankStep
<1>11. ASSUME NEW r \in Ranks, NEW t \in Tags, ThreadWrites(r, t)
       PROVE  DecisionInv'
  BY <1>1, <1>11 DEF ThreadWrites, DecisionInv
<1>12. ASSUME NEW r \in Ranks, NEW t \in Tags, ThreadFails(r, t)
       PROVE  DecisionInv'
  <2>1. /\ UNCHANGED <<latest, gerr, errs, pc, cur, pending, failed>>
        /\ \A s \in Ranks \ {r} : box'[s] = box[s]
    BY <1>12 DEF ThreadFails, TypeInv, TypeOK
  <2>2. pc[r] # "verdict"
    BY <1>12, VerdictHoldsNothing DEF ThreadFails, WriterInv
  <2> QED
    BY <2>1, <2>2 DEF DecisionInv, Decided
<1>13. CASE Restart
  BY <1>13 DEF Restart, DecisionInv
<1>14. CASE UNCHANGED vars
  BY <1>1, <1>14 DEF vars, DecisionInv
<1> QED
  BY <1>3, <1>4, <1>5, <1>6, <1>7, <1>10, <1>11, <1>12, <1>13, <1>14
  DEF Next, Job, Fault, Finished

\* A rank returns from finalisation exactly when its tag is the published one;
\* otherwise it raises.
THEOREM VerdictsAgree == OneHandle /\ AutoResume => (Spec => VerdictMatchesDirectory)
<1> SUFFICES ASSUME OneHandle, AutoResume PROVE Spec => VerdictMatchesDirectory
  OBVIOUS
<1>1. TypeInv /\ LockstepInv /\ [Next]_vars => LockstepInv'
  BY LockstepStep
<1>2. TypeInv /\ LockstepInv /\ OrderInv /\ [Next]_vars => OrderInv'
  BY OrderStep
<1>3. TypeInv /\ TypeInv' /\ LockstepInv /\ WriterInv /\ DirectoryInv /\ OrderInv
        /\ DecisionInv /\ [Next]_vars => DecisionInv'
  BY DecisionStep
<1>4. DecisionInv /\ [Next]_vars
        => [\A r \in Ranks : Verdict(r) => (r \notin failed' <=> cur[r] = latest)]_vars
  <2> SUFFICES ASSUME DecisionInv, NEW r \in Ranks, Verdict(r)
               PROVE  r \notin failed' <=> cur[r] = latest
    OBVIOUS
  <2>1. r \notin failed /\ Decided(cur[r]) /\ (cur[r] \in box[r] => cur[r] \in gerr)
    BY DEF Verdict, DecisionInv
  <2>2. CASE cur[r] \in gerr
    BY <2>1, <2>2 DEF Verdict, Raise, Decided
  <2>3. CASE cur[r] \notin gerr
    BY <2>1, <2>3 DEF Verdict, Decided
  <2> QED
    BY <2>2, <2>3
<1> QED
  BY TypeInit, TypeStep, LockstepInit, <1>1, WriterInit, WriterStep, DirectoryInit, DirectoryStep,
     OrderInit, <1>2, DecisionInit, <1>3, <1>4, PTL DEF Spec, VerdictMatchesDirectory

-----------------------------------------------------------------------------
(* A run that ends well leaves its newest checkpoint published.            *)

LEMMA NewestInit == Init => NewestInv
  BY NumberAssumption DEF Init, NewestInv

LEMMA NewestStep ==
  TypeInv /\ TypeInv' /\ LockstepInv /\ WriterInv /\ DirectoryInv /\ OrderInv /\ DecisionInv
    /\ NewestInv /\ [Next]_vars => NewestInv'
<1> SUFFICES ASSUME TypeInv, TypeInv', LockstepInv, WriterInv, DirectoryInv, OrderInv, DecisionInv,
                    NewestInv, [Next]_vars, failed' = {}
             PROVE  NewestInv'
  BY DEF NewestInv
<1> USE RankAssumption, NumberAssumption, NoTagAssumption DEF files, progress, threads
<1> DEFINE Safe(r, t) == \/ t \in pending[r]
                         \/ pc[r] \in Finalising /\ cur[r] = t
                         \/ latest # NoTag /\ ~Before(latest, t)
\* Steps that write no shard and leave every rank with what it holds.
<1>1. ASSUME failed = {}, UNCHANGED <<shard, launch, latest>>,
             \A r \in Ranks, t \in Tags :
               \/ t \in pending[r] => t \in pending'[r]
               \/ pc'[r] \in Finalising /\ cur'[r] = t,
             \A r \in Ranks, t \in Tags :
               pc[r] \in Finalising /\ cur[r] = t =>
                 \/ pc'[r] \in Finalising /\ cur'[r] = t
                 \/ latest # NoTag /\ ~Before(latest, t)
      PROVE  NewestInv'
  BY <1>1 DEF NewestInv
<1>2. ASSUME UNCHANGED <<failed, shard, launch, latest, cur, pending>>,
             \A r \in Ranks : pc[r] \in Finalising => pc'[r] \in Finalising
      PROVE  NewestInv'
  BY <1>1, <1>2
<1>3. CASE TrainStep \/ Barrier \/ Gather
  BY <1>2, <1>3 DEF TrainStep, Barrier, Barriers, AfterBarrier, Gather, Finalising
<1>4. CASE Publish
  <2>1. /\ UNCHANGED <<failed, shard, launch, cur, pending>> /\ latest' = cur[Coordinator]
        /\ pc[Coordinator] = "check" /\ latest' \in Tags
        /\ \A r \in Ranks : pc[r] \in Finalising => pc'[r] \in Finalising
    BY <1>4 DEF Publish, Finalising, TypeInv, TypeOK
  <2>2. ASSUME NEW t \in Tags, latest # NoTag, ~Before(latest, t)
        PROVE  ~Before(latest', t)
    <3>1. latest \in Tags /\ Before(latest, latest')
      BY <2>1, <2>2 DEF OrderInv, After, TypeInv, TypeOK
    <3> QED
      BY <2>1, <2>2, <3>1, BeforeTransitive
  <2> QED
    BY <2>1, <2>2 DEF NewestInv
<1>5. CASE Reject
  BY <1>2, <1>5 DEF Reject, Raise, Finalising, TypeInv, TypeOK
\* Retention only ever removes shards.
<1>6. CASE Prune
  <2>1. /\ UNCHANGED <<failed, launch, latest, cur, pending>> /\ launch # 0
        /\ \A r \in Ranks : pc[r] \in Finalising => pc'[r] \in Finalising
    BY <1>6 DEF Prune, Finalising, TypeInv, TypeOK
  <2>2. \A t \in Tags, r \in Ranks : shard'[t][r] \in {0, shard[t][r]}
    BY <1>6 DEF Prune
  <2> QED
    BY <2>1, <2>2 DEF NewestInv
<1>7. ~PublicationRaises
  BY DEF PublicationRaises, Raise
<1>8. ASSUME NEW r \in Ranks, NEW t \in pending[r], NEW h \in {"save", "finally"}, Wait(r, t, h),
             pc[r] \in {"request", "finally"}
      PROVE  NewestInv'
  <2>1. /\ UNCHANGED <<failed, shard, launch, latest>>
        /\ pc'[r] = "prepared" /\ cur'[r] = t /\ pending'[r] = pending[r] \ {t}
        /\ \A s \in Ranks \ {r} : /\ pc'[s] = pc[s] /\ cur'[s] = cur[s]
                                  /\ pending'[s] = pending[s]
    BY <1>8 DEF Wait, Raise, TypeInv, TypeOK
  <2> QED
    BY <1>1, <1>8, <2>1 DEF Finalising
<1>9. ASSUME NEW r \in Ranks, NEW u \in Tags, shard' = [shard EXCEPT ![u][r] = launch],
             UNCHANGED <<launch, latest>>, failed = {},
             \A s \in Ranks \ {r} : /\ pc'[s] = pc[s] /\ cur'[s] = cur[s]
                                    /\ pending'[s] = pending[s],
             (pc'[r] = pc[r] /\ cur'[r] = cur[r]) \/ pc[r] \notin Finalising,
             pending[r] \subseteq pending'[r],
             u \in pending'[r] \/ (pc'[r] \in Finalising /\ cur'[r] = u)
      PROVE  NewestInv'
  <2>1. shard \in [Tags -> [Ranks -> 0 .. launch]]
    BY DEF TypeInv, TypeOK
  <2>2. \A t \in Tags, s \in Ranks : t # u \/ s # r => shard'[t][s] = shard[t][s]
    BY <1>9, <2>1
  <2>3. ASSUME NEW t \in Tags, NEW s \in Ranks, Safe(s, t)
        PROVE  Safe(s, t)'
    BY <1>9, <2>3
  <2>4. Safe(r, u)'
    BY <1>9
  <2>5. \A t \in Tags, s \in Ranks : shard'[t][s] = launch => Safe(s, t)'
    BY <1>9, <2>2, <2>3, <2>4 DEF NewestInv
  <2> QED
    BY <1>9, <2>5 DEF NewestInv
<1>10. ASSUME NEW r \in Ranks, SaveNow(r)
       PROVE  NewestInv'
  <2> DEFINE u == <<step, part[r]>>
  <2>1. u \in Tags
    BY <1>10, TagPair DEF SaveNow, TypeInv, TypeOK
  <2>2. shard' = [shard EXCEPT ![u][r] = launch] /\ failed = {}
    BY <1>10 DEF SaveNow, Raise
  <2>3. /\ UNCHANGED <<launch, latest, pending>> /\ pc[r] = "save"
        /\ cur' = [cur EXCEPT ![r] = u] /\ pc' = [pc EXCEPT ![r] = "prepared"]
    BY <1>10 DEF SaveNow, Raise
  <2> HIDE DEF u
  <2>4. pc'[r] = "prepared" /\ cur'[r] = u
    BY <2>3 DEF TypeInv, TypeOK
  <2>5. \A s \in Ranks \ {r} : pc'[s] = pc[s] /\ cur'[s] = cur[s] /\ pending'[s] = pending[s]
    BY <2>3
  <2> QED
    BY <1>9, <2>1, <2>2, <2>3, <2>4, <2>5 DEF Finalising
<1>11. ASSUME NEW r \in Ranks, SaveLater(r)
       PROVE  NewestInv'
  <2>1. /\ UNCHANGED <<failed, shard, launch, latest, pc, cur>>
        /\ \A s \in Ranks : pending[s] \subseteq pending'[s]
    BY <1>11 DEF SaveLater, TypeInv, TypeOK
  <2> QED
    BY <1>1, <2>1 DEF NewestInv
<1>12. ASSUME NEW r \in Ranks, NEW t \in Tags, ThreadWrites(r, t)
       PROVE  NewestInv'
  BY <1>9, <1>12 DEF ThreadWrites, WriterInv
<1>13. ASSUME NEW r \in Ranks, NEW t \in Tags, ThreadFails(r, t)
       PROVE  NewestInv'
  BY <1>2, <1>13 DEF ThreadFails
\* A new launch has written nothing yet.
<1>14. CASE Restart
  <2>1. launch' = launch + 1 /\ shard' = shard /\ launch \in Nat
    BY <1>14 DEF Restart, TypeInv, TypeOK
  <2>2. \A t \in Tags, r \in Ranks : shard[t][r] \in 0 .. launch
    BY DEF TypeInv, TypeOK
  <2>3. \A t \in Tags, r \in Ranks : shard'[t][r] # launch'
    BY <2>1, <2>2
  <2> QED
    BY <2>3 DEF NewestInv
\* A rank only returns from finalisation with its tag published.
<1>15. ASSUME NEW r \in Ranks, Verdict(r)
       PROVE  NewestInv'
  <2>1. /\ cur[r] \notin gerr \union box[r] /\ UNCHANGED <<failed, shard, launch, latest, cur, pending>>
        /\ pc[r] = "verdict" /\ \A s \in Ranks \ {r} : pc'[s] = pc[s]
    <3>1. cur[r] \notin gerr \union box[r] /\ UNCHANGED failed /\ pc' = [pc EXCEPT ![r] = home[r]]
      BY <1>15 DEF Verdict, Raise
    <3>2. UNCHANGED <<shard, launch, latest, cur, pending>> /\ pc[r] = "verdict"
      BY <1>15 DEF Verdict
    <3> QED
      BY <3>1, <3>2
  <2>2. cur[r] \in Tags /\ latest = cur[r]
    BY <2>1 DEF TypeInv, Finalising, DecisionInv, Decided
  <2>3. latest # NoTag /\ ~Before(latest, cur[r])
    BY <2>2, BeforeIrreflexive
  <2> QED
    BY <1>1, <2>1, <2>3
<1>16. ASSUME NEW r \in Ranks, RankStep(r)
       PROVE  NewestInv'
  <2>1. CASE LeaveLoop(r) \/ RequestReady(r) \/ SavesDone(r) \/ Summary(r) \/ Exit(r)
    BY <1>2, <2>1 DEF LeaveLoop, RequestReady, SavesDone, Summary, Exit, Finalising, TypeInv, TypeOK
  <2>2. CASE RequestWaits(r) \/ FinallyWaits(r)
    BY <1>8, <2>2 DEF RequestWaits, FinallyWaits
  <2> QED
    BY <1>10, <1>11, <1>15, <1>16, <2>1, <2>2 DEF RankStep
<1>17. ASSUME NEW r \in Ranks PROVE ~RankRaises(r)
  BY DEF RankRaises, Raise
<1>18. CASE UNCHANGED vars
  BY <1>2, <1>18 DEF vars
<1> QED
  BY <1>3, <1>4, <1>5, <1>6, <1>7, <1>12, <1>13, <1>14, <1>16, <1>17, <1>18
  DEF Next, Job, Fault, Finished

\* A run that ends without an exception leaves its newest checkpoint published.
THEOREM NewestIsPublished == OneHandle /\ AutoResume => (Spec => []EndsOnNewest)
<1> SUFFICES ASSUME OneHandle, AutoResume PROVE Spec => []EndsOnNewest
  OBVIOUS
<1>1. TypeInv /\ LockstepInv /\ [Next]_vars => LockstepInv'
  BY LockstepStep
<1>2. TypeInv /\ LockstepInv /\ OrderInv /\ [Next]_vars => OrderInv'
  BY OrderStep
<1>3. TypeInv /\ TypeInv' /\ LockstepInv /\ WriterInv /\ DirectoryInv /\ OrderInv
        /\ DecisionInv /\ [Next]_vars => DecisionInv'
  BY DecisionStep
<1>4. LockstepInv /\ NewestInv => EndsOnNewest
  <2> SUFFICES ASSUME LockstepInv, NewestInv, \A r \in Ranks : pc[r] = "exited", failed = {},
                      NEW t \in Tags, NEW r \in Ranks, shard[t][r] = launch
               PROVE  latest # NoTag /\ ~Before(latest, t)
    BY DEF EndsOnNewest
  <2>1. pending[r] = {}
    BY DEF LockstepInv, Lockstep, Gone, InPhase, Stepping, Finalising1, Publishing, Ending
  <2> QED
    BY <2>1 DEF NewestInv, Finalising
<1> QED
  BY TypeInit, TypeStep, LockstepInit, <1>1, WriterInit, WriterStep, DirectoryInit, DirectoryStep,
     OrderInit, <1>2, DecisionInit, <1>3, NewestInit, NewestStep, <1>4, PTL DEF Spec

-----------------------------------------------------------------------------
(* The directory implements CheckpointRegister.                            *)

\* What the register holds: the expression the refinement substitutes for saved.
Stored == [tag      |-> latest,
           launches |-> IF latest = NoTag THEN {} ELSE {shard[latest][r] : r \in Ranks}]

\* A step that leaves metadata.json and the shards it names alone.
LEMMA SameStored ==
  ASSUME latest' = latest, \A r \in Ranks : latest # NoTag => shard'[latest][r] = shard[latest][r]
  PROVE  UNCHANGED Stored
  BY DEF Stored

\* No writer touches the tag that is published, so only a publication changes what
\* the register holds, and it puts a newer whole checkpoint there.
LEMMA RegisterStep ==
  TypeInv /\ LockstepInv /\ WriterInv /\ DirectoryInv /\ OrderInv /\ [Next]_vars
    => [Register!Next]_Stored
<1> SUFFICES ASSUME TypeInv, LockstepInv, WriterInv, DirectoryInv, OrderInv, [Next]_vars
             PROVE  Register!Next \/ UNCHANGED Stored
  BY DEF Stored
<1> USE RankAssumption, NumberAssumption, NoTagAssumption DEF files, progress, threads
<1>1. ASSUME UNCHANGED <<latest, shard>>
      PROVE  UNCHANGED Stored
  BY <1>1, SameStored
<1>2. ASSUME NEW r \in Ranks, NEW t \in Tags, After(t), latest' = latest,
             shard' = [shard EXCEPT ![t][r] = launch]
      PROVE  UNCHANGED Stored
  <2>1. latest # NoTag => latest \in Tags /\ latest # t
    BY <1>2, BeforeIrreflexive DEF After, TypeInv, TypeOK
  <2>2. shard \in [Tags -> [Ranks -> 0 .. launch]]
    BY DEF TypeInv, TypeOK
  <2>3. \A s \in Ranks : latest # NoTag => shard'[latest][s] = shard[latest][s]
    BY <1>2, <2>1, <2>2
  <2> QED
    BY <1>2, <2>3, SameStored
<1>3. CASE Publish
  <2> DEFINE t == cur[Coordinator]
  <2>1. /\ t \in Tags /\ pc[Coordinator] = "check" /\ errs[t] = {}
        /\ latest' = t /\ shard' = shard /\ launch \in 1 .. MaxLaunch
    BY <1>3 DEF Publish, TypeInv, TypeOK, Finalising
  <2>2. ASSUME NEW r \in Ranks
        PROVE  shard[t][r] = launch
    <3>1. Settled(r, t)
      BY <2>1, AtPublication DEF WriterInv
    <3> QED
      BY <2>1, <3>1 DEF Settled
  <2>3. latest # NoTag => ~Before(t, latest)
    <3>1. ASSUME latest # NoTag, Before(t, latest)
          PROVE  FALSE
      <4>1. latest \in Tags /\ Before(latest, t)
        BY <2>1, <3>1 DEF OrderInv, After, TypeInv, TypeOK
      <4> QED
        BY <2>1, <3>1, <4>1, BeforeTransitive, BeforeIrreflexive
    <3> QED
      BY <3>1
  <2> HIDE DEF t
  <2>4. Stored' = [tag |-> t, launches |-> {launch}]
    <3>1. {shard[t][r] : r \in Ranks} = {launch}
      BY <2>2
    <3> QED
      BY <2>1, <3>1 DEF Stored
  <2>5. Register!Replace(t, launch)
    BY <2>3, <2>4 DEF Register!Replace, Stored
  <2> QED
    BY <2>1, <2>5 DEF Register!Next, Register!Replace
<1>4. CASE Prune
  <2>1. latest' = latest /\ latest = cur[Coordinator] /\ latest \in Tags
    BY <1>4 DEF Prune, DirectoryInv, TypeInv, Finalising
  <2>2. shard'[latest] = shard[latest]
    BY <1>4, <2>1 DEF Prune, Kept
  <2> QED
    BY <2>1, <2>2, SameStored
<1>5. ASSUME NEW r \in Ranks, SaveNow(r)
      PROVE  UNCHANGED Stored
  <2> DEFINE t == <<step, part[r]>>
  <2>1. t \in Tags /\ latest' = latest
    BY <1>5, TagPair DEF SaveNow, TypeInv, TypeOK
  <2>2. After(t)
    BY <1>5 DEF SaveNow, OrderInv
  <2>3. shard' = shard \/ shard' = [shard EXCEPT ![t][r] = launch]
    BY <1>5 DEF SaveNow
  <2> HIDE DEF t
  <2> QED
    BY <1>1, <1>2, <2>1, <2>2, <2>3
<1>6. ASSUME NEW r \in Ranks, NEW t \in Tags, ThreadWrites(r, t)
      PROVE  UNCHANGED Stored
  <2>1. After(t)
    BY <1>6 DEF ThreadWrites, WriterInv, OrderInv
  <2> QED
    BY <1>2, <1>6, <2>1 DEF ThreadWrites
<1>7. ASSUME NEW r \in Ranks, RankStep(r)
      PROVE  UNCHANGED Stored
  <2>1. CASE ~SaveNow(r)
    BY <1>1, <1>7, <2>1 DEF RankStep, LeaveLoop, RequestWaits, RequestReady, SavesDone, SaveLater,
                            Verdict, Summary, FinallyWaits, Exit, Wait
  <2> QED
    BY <1>5, <2>1
<1>8. CASE TrainStep \/ Barrier \/ Gather \/ Reject \/ Restart \/ PublicationRaises \/ UNCHANGED vars
  BY <1>1, <1>8 DEF TrainStep, Barrier, Gather, Reject, Restart, PublicationRaises, vars
<1>9. ASSUME NEW r \in Ranks, RankRaises(r) \/ \E t \in Tags : ThreadFails(r, t)
      PROVE  UNCHANGED Stored
  BY <1>1, <1>9 DEF RankRaises, ThreadFails
<1> QED
  BY <1>3, <1>4, <1>6, <1>7, <1>8, <1>9
  DEF Next, Job, Fault, Finished

\* The directory is one register that holds a whole checkpoint and is only replaced,
\* in one step, by a checkpoint no older, whatever fails, dies or restarts.
THEOREM DirectoryIsRegister == OneHandle /\ AutoResume => (Spec => ImplementsRegister)
<1> SUFFICES ASSUME OneHandle, AutoResume PROVE Spec => ImplementsRegister
  OBVIOUS
<1>1. TypeInv /\ LockstepInv /\ [Next]_vars => LockstepInv'
  BY LockstepStep
<1>2. TypeInv /\ LockstepInv /\ OrderInv /\ [Next]_vars => OrderInv'
  BY OrderStep
<1>3. Init => Register!Init
  BY DEF Init, Register!Init, Register!Empty
<1> QED
  BY TypeInit, TypeStep, LockstepInit, <1>1, WriterInit, WriterStep, DirectoryInit, DirectoryStep,
     OrderInit, <1>2, <1>3, RegisterStep, PTL DEF Spec, ImplementsRegister, Register!Spec, Stored
==============================================================================
