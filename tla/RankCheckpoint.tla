--------------------------- MODULE RankCheckpoint ---------------------------
(***************************************************************************)
(* Rank-local training checkpoints: every rank writes its own shard of a   *)
(* tag, inline or from a background thread, and rank 0 publishes the tag   *)
(* in the directory's metadata.json between two barriers.  The trainer     *)
(* loop decides when to save, which handles to wait for, and what the      *)
(* finally clause still has to finalise; the launcher may kill the job at  *)
(* any point and start it again on the same directory.                     *)
(*                                                                         *)
(* The CPU (gloo) group that carries the barriers is anonymous: the n-th   *)
(* barrier of one rank pairs with the n-th barrier of every other rank,    *)
(* whatever line of code each of them came from.                           *)
(***************************************************************************)
EXTENDS Integers, FiniteSets

CONSTANTS
  Ranks,        \* the processes of the job
  Coordinator,  \* rank 0, the only one that publishes and prunes
  NoTag,        \* metadata.json does not exist yet
  Async,        \* checkpointing.async_checkpoint_save
  AutoResume,   \* checkpointing.auto_resume
  KeepLast,     \* checkpointing.keep_last_n, 0 keeps everything
  MaxStep,      \* target_total_steps
  MaxParts,     \* most tags one step may request (duration fractions due)
  MaxLaunch,    \* bound: launches of the job on this directory
  MaxFaults,    \* bound: exceptions injected over all launches
  Faults        \* which exceptions may happen: "disk", "rank"

ASSUME RankAssumption == Coordinator \in Ranks
ASSUME NumberAssumption ==
  /\ KeepLast \in Nat /\ MaxFaults \in Nat
  /\ MaxStep \in Nat \ {0} /\ MaxParts \in Nat \ {0} /\ MaxLaunch \in Nat \ {0}
ASSUME ModeAssumption ==
  /\ Async \in BOOLEAN /\ AutoResume \in BOOLEAN
  /\ Faults \subseteq {"disk", "rank"}

\* step_%08d is part 1 of its step; duration_%03dpct_step_%08d tags that fall
\* due together are its parts 1, 2, ... in the order of their fractions.
Tags == (1 .. MaxStep) \X (1 .. MaxParts)
ASSUME NoTagAssumption == NoTag \notin Tags

\* The sort key of prune_checkpoints: trailing step number, then name.
Before(t, u) == t[1] < u[1] \/ (t[1] = u[1] /\ t[2] < u[2])

VARIABLES
  \* the checkpoint directory, which outlives a launch
  dirs,     \* tags whose directory exists
  shard,    \* shard[t][r]: the launch that wrote it, 0 when there is no file
  errs,     \* errs[t]: ranks whose rank_%05d.error file is in the directory
  gerr,     \* tags with a checkpoint.error file
  latest,   \* latest_tag of metadata.json
  \* the running job
  launch,   \* which launch this is
  step,     \* optimizer steps completed
  due,      \* tags requested by the current step
  pc,       \* where each rank is
  part,     \* the next tag of the current step the rank will save
  cur,      \* the tag the rank is finalising
  home,     \* where the rank returns to when finalisation succeeds
  pending,  \* async handles the rank has not waited for
  running,  \* tags whose writer thread is still running
  box,      \* tags whose writer thread left an exception in error_box
  failed,   \* ranks on their way out with an exception
  faults    \* exceptions injected so far

files == <<dirs, shard, errs, gerr, latest>>
progress == <<launch, step, due>>
threads == <<running, box>>
vars == <<files, progress, pc, part, cur, home, pending, threads, failed, faults>>

Barriers == {"prepared", "judged", "loopEnd", "closing"}

-----------------------------------------------------------------------------
(* Exceptions.                                                             *)

MayFail(kind) == kind \in Faults /\ faults < MaxFaults

\* An exception in the step body runs the finally clause; one raised by a wait
\* inside the finally clause leaves the loop over the remaining handles.
Raise(r, h) ==
  /\ failed' = failed \union {r}
  /\ pc' = [pc EXCEPT ![r] = IF h = "finally" THEN "exited" ELSE "finally"]

-----------------------------------------------------------------------------
(* The step loop.                                                          *)

\* The gradient reduction keeps the ranks in step and rank 0's verdict on the
\* due fractions is broadcast, so all of them see the same requests.
TrainStep ==
  /\ \A r \in Ranks : pc[r] = "train"
  /\ step < MaxStep
  /\ step' = step + 1
  /\ due' \in 0 .. MaxParts
  /\ part' = [r \in Ranks |-> 1]
  /\ pc' = [r \in Ranks |-> IF due' = 0 THEN "train" ELSE "request"]
  /\ UNCHANGED <<files, launch, cur, home, pending, threads, failed, faults>>

LeaveLoop(r) ==
  /\ pc[r] = "train"
  /\ step = MaxStep
  /\ pc' = [pc EXCEPT ![r] = "loopEnd"]
  /\ UNCHANGED <<files, progress, part, cur, home, pending, threads, failed, faults>>

\* Mutant: the writer's error is never reported and its thread is not joined.
WaitWithoutJoin(r, t, h) ==
  /\ pending' = [pending EXCEPT ![r] = @ \ {t}]
  /\ cur' = [cur EXCEPT ![r] = t]
  /\ home' = [home EXCEPT ![r] = h]
  /\ pc' = [pc EXCEPT ![r] = "prepared"]
  /\ UNCHANGED <<files, progress, part, threads, failed, faults>>

\* _AsyncCheckpointHandle.wait up to the first barrier of finalisation: join,
\* mark waited, and report the writer's error next to the shards.
Wait(r, t, h) ==
  /\ t \notin running[r]
  /\ pending' = [pending EXCEPT ![r] = @ \ {t}]
  /\ cur' = [cur EXCEPT ![r] = t]
  /\ home' = [home EXCEPT ![r] = h]
  /\ \/ /\ t \notin box[r]
        /\ pc' = [pc EXCEPT ![r] = "prepared"]
        /\ UNCHANGED <<errs, failed>>
     \/ /\ t \in box[r] /\ t \in dirs
        /\ errs' = [errs EXCEPT ![t] = @ \union {r}]
        /\ pc' = [pc EXCEPT ![r] = "prepared"]
        /\ UNCHANGED failed
     \/ /\ t \in box[r] /\ t \notin dirs
        /\ Raise(r, h)
        /\ UNCHANGED errs
  /\ UNCHANGED <<dirs, shard, gerr, latest, progress, part, threads, faults>>

\* A step that saves first waits for the newest handle, and only for that one.
RequestWaits(r) ==
  /\ pc[r] = "request"
  /\ \E t \in pending[r] :
       /\ \A u \in pending[r] \ {t} : Before(u, t)
       /\ Wait(r, t, "save")

\* Mutant: a save does not wait for the handle of the one before.
RequestNeverWaits(r) ==
  /\ pc[r] = "request"
  /\ pc' = [pc EXCEPT ![r] = "save"]
  /\ UNCHANGED <<files, progress, part, cur, home, pending, threads, failed, faults>>

RequestReady(r) ==
  /\ pc[r] = "request"
  /\ pending[r] = {}
  /\ pc' = [pc EXCEPT ![r] = "save"]
  /\ UNCHANGED <<files, progress, part, cur, home, pending, threads, failed, faults>>

SavesDone(r) ==
  /\ pc[r] = "save"
  /\ part[r] > due
  /\ pc' = [pc EXCEPT ![r] = "train"]
  /\ UNCHANGED <<files, progress, part, cur, home, pending, threads, failed, faults>>

\* save_training_checkpoint without async_save: the shard is replaced
\* atomically before finalisation, or torch.save raises.
SaveNow(r) ==
  LET t == <<step, part[r]>> IN
  /\ ~Async
  /\ pc[r] = "save" /\ part[r] <= due
  /\ part' = [part EXCEPT ![r] = @ + 1]
  /\ dirs' = dirs \union {t}
  /\ cur' = [cur EXCEPT ![r] = t]
  /\ home' = [home EXCEPT ![r] = "save"]
  /\ \/ /\ shard' = [shard EXCEPT ![t][r] = launch]
        /\ pc' = [pc EXCEPT ![r] = "prepared"]
        /\ UNCHANGED <<failed, faults>>
     \/ /\ MayFail("disk")
        /\ faults' = faults + 1
        /\ Raise(r, "save")
        /\ UNCHANGED shard
  /\ UNCHANGED <<errs, gerr, latest, progress, pending, threads>>

\* With async_save a CPU snapshot is taken and a writer thread owns it.
SaveLater(r) ==
  LET t == <<step, part[r]>> IN
  /\ Async
  /\ pc[r] = "save" /\ part[r] <= due
  /\ part' = [part EXCEPT ![r] = @ + 1]
  /\ dirs' = dirs \union {t}
  /\ pending' = [pending EXCEPT ![r] = @ \union {t}]
  /\ running' = [running EXCEPT ![r] = @ \union {t}]
  /\ UNCHANGED <<shard, errs, gerr, latest, progress, pc, cur, home, box, failed, faults>>

ThreadWrites(r, t) ==
  /\ t \in running[r]
  /\ t \in dirs
  /\ shard' = [shard EXCEPT ![t][r] = launch]
  /\ running' = [running EXCEPT ![r] = @ \ {t}]
  /\ UNCHANGED <<dirs, errs, gerr, latest, progress, pc, part, cur, home, pending,
                 box, failed, faults>>

\* The write raises: the disk failed, or the tag's directory has been pruned.
ThreadFails(r, t) ==
  /\ t \in running[r]
  /\ \/ t \notin dirs /\ UNCHANGED faults
     \/ t \in dirs /\ MayFail("disk") /\ faults' = faults + 1
  /\ box' = [box EXCEPT ![r] = @ \union {t}]
  /\ running' = [running EXCEPT ![r] = @ \ {t}]
  /\ UNCHANGED <<files, progress, pc, part, cur, home, pending, failed>>

-----------------------------------------------------------------------------
(* Finalisation.                                                           *)

AfterBarrier(r) ==
  CASE pc[r] = "prepared" -> IF r = Coordinator THEN "check" ELSE "judged"
    [] pc[r] = "judged"   -> "verdict"
    [] pc[r] = "loopEnd"  -> "gather"
    [] pc[r] = "closing"  -> "finally"

Barrier ==
  /\ \A r \in Ranks : pc[r] \in Barriers
  /\ pc' = [r \in Ranks |-> AfterBarrier(r)]
  /\ UNCHANGED <<files, progress, part, cur, home, pending, threads, failed, faults>>

\* Mutant: the shard names are numbered from 1.
MissingOffByOne(t) == {r \in Ranks : r = Coordinator \/ shard[t][r] = 0}

Missing(t) == {r \in Ranks : shard[t][r] = 0}

Publish ==
  LET t == cur[Coordinator] IN
  /\ pc[Coordinator] = "check"
  /\ Missing(t) = {} /\ errs[t] = {}
  /\ latest' = t
  /\ pc' = [pc EXCEPT ![Coordinator] = "prune"]
  /\ UNCHANGED <<dirs, shard, errs, gerr, progress, part, cur, home, pending,
                 threads, failed, faults>>

\* checkpoint.error cannot be written into a directory that was pruned.
Reject ==
  LET t == cur[Coordinator] IN
  /\ pc[Coordinator] = "check"
  /\ Missing(t) # {} \/ errs[t] # {}
  /\ \/ /\ t \in dirs
        /\ gerr' = gerr \union {t}
        /\ pc' = [pc EXCEPT ![Coordinator] = "judged"]
        /\ UNCHANGED failed
     \/ /\ t \notin dirs
        /\ Raise(Coordinator, home[Coordinator])
        /\ UNCHANGED gerr
  /\ UNCHANGED <<dirs, shard, errs, latest, progress, part, cur, home, pending,
                 threads, faults>>

\* Mutant: retention goes by age alone.
KeptByAge(t) == Cardinality({u \in dirs : Before(t, u)}) < KeepLast

\* The last KeepLast directories in sort order, and the tag just published.
Kept(t) ==
  \/ t = cur[Coordinator]
  \/ Cardinality({u \in dirs : Before(t, u)}) < KeepLast

\* Mutant: rank 0 returns after publishing, without the second barrier.
PruneAndReturn ==
  /\ pc[Coordinator] = "prune"
  /\ pc' = [pc EXCEPT ![Coordinator] = "verdict"]
  /\ UNCHANGED <<files, progress, part, cur, home, pending, threads, failed, faults>>

Prune ==
  LET gone == IF KeepLast = 0 THEN {} ELSE {t \in dirs : ~Kept(t)} IN
  /\ pc[Coordinator] = "prune"
  /\ dirs' = dirs \ gone
  /\ gerr' = gerr \ gone
  /\ shard' = [t \in Tags |-> IF t \in gone THEN [r \in Ranks |-> 0] ELSE shard[t]]
  /\ errs' = [t \in Tags |-> IF t \in gone THEN {} ELSE errs[t]]
  /\ pc' = [pc EXCEPT ![Coordinator] = "judged"]
  /\ UNCHANGED <<latest, progress, part, cur, home, pending, threads, failed, faults>>

\* Writing the metadata or removing a directory raises on rank 0.
PublicationRaises ==
  /\ pc[Coordinator] \in {"check", "prune"}
  /\ pc[Coordinator] = "check" =>
       Missing(cur[Coordinator]) = {} /\ errs[cur[Coordinator]] = {}
  /\ MayFail("disk")
  /\ faults' = faults + 1
  /\ Raise(Coordinator, home[Coordinator])
  /\ UNCHANGED <<files, progress, part, cur, home, pending, threads>>

\* Mutant: a rank looks at its own writer only.
VerdictOfOwnWriter(r) ==
  /\ pc[r] = "verdict"
  /\ IF cur[r] \in box[r]
       THEN Raise(r, home[r])
       ELSE pc' = [pc EXCEPT ![r] = home[r]] /\ UNCHANGED failed
  /\ UNCHANGED <<files, progress, part, cur, home, pending, threads, faults>>

\* checkpoint.error, or the rank's own writer error, is raised to the trainer.
Verdict(r) ==
  /\ pc[r] = "verdict"
  /\ IF cur[r] \in gerr \union box[r]
       THEN Raise(r, home[r])
       ELSE pc' = [pc EXCEPT ![r] = home[r]] /\ UNCHANGED failed
  /\ UNCHANGED <<files, progress, part, cur, home, pending, threads, faults>>

-----------------------------------------------------------------------------
(* Leaving the run.                                                        *)

\* all_gather_object of the rank metrics, on the same group as the barriers.
Gather ==
  /\ \A r \in Ranks : pc[r] = "gather"
  /\ pc' = [r \in Ranks |-> "summary"]
  /\ UNCHANGED <<files, progress, part, cur, home, pending, threads, failed, faults>>

Summary(r) ==
  /\ pc[r] = "summary"
  /\ pc' = [pc EXCEPT ![r] = "closing"]
  /\ UNCHANGED <<files, progress, part, cur, home, pending, threads, failed, faults>>

\* A rank-local exception that is not about checkpoints: a step's log record or
\* the summary cannot be written.
RankRaises(r) ==
  /\ pc[r] = "summary" \/ (pc[r] = "train" /\ step > 0)
  /\ MayFail("rank")
  /\ faults' = faults + 1
  /\ Raise(r, "save")
  /\ UNCHANGED <<files, progress, part, cur, home, pending, threads>>

\* The finally clause waits for every handle, oldest first.
FinallyWaits(r) ==
  /\ pc[r] = "finally"
  /\ \E t \in pending[r] :
       /\ \A u \in pending[r] \ {t} : Before(t, u)
       /\ Wait(r, t, "finally")

\* Mutant: the finally clause does not wait.
ExitAtOnce(r) ==
  /\ pc[r] = "finally"
  /\ pc' = [pc EXCEPT ![r] = "exited"]
  /\ UNCHANGED <<files, progress, part, cur, home, pending, threads, failed, faults>>

Exit(r) ==
  /\ pc[r] = "finally"
  /\ pending[r] = {}
  /\ pc' = [pc EXCEPT ![r] = "exited"]
  /\ UNCHANGED <<files, progress, part, cur, home, pending, threads, failed, faults>>

\* Mutants: a resumed job repeats its first steps, or skips one.
ResumeFromScratch == 0
ResumeAfterNext == IF latest # NoTag THEN latest[1] + 1 ELSE 0

ResumeStep == IF AutoResume /\ latest # NoTag THEN latest[1] ELSE 0

\* The job dies as a whole (a signal, a node, the launcher tearing down the
\* survivors of a failed rank, a collective's timeout) and is launched again.
Restart ==
  /\ launch < MaxLaunch
  /\ \E r \in Ranks : pc[r] # "exited" \/ r \in failed
  /\ launch' = launch + 1
  /\ step' = ResumeStep
  /\ due' = 0
  /\ pc' = [r \in Ranks |-> "train"]
  /\ part' = [r \in Ranks |-> 1]
  /\ cur' = [r \in Ranks |-> NoTag]
  /\ home' = [r \in Ranks |-> "save"]
  /\ pending' = [r \in Ranks |-> {}]
  /\ running' = [r \in Ranks |-> {}]
  /\ box' = [r \in Ranks |-> {}]
  /\ failed' = {}
  /\ UNCHANGED <<files, faults>>

-----------------------------------------------------------------------------
Init ==
  /\ dirs = {} /\ gerr = {} /\ latest = NoTag
  /\ shard = [t \in Tags |-> [r \in Ranks |-> 0]]
  /\ errs = [t \in Tags |-> {}]
  /\ launch = 1 /\ step = 0 /\ due = 0
  /\ pc = [r \in Ranks |-> "train"]
  /\ part = [r \in Ranks |-> 1]
  /\ cur = [r \in Ranks |-> NoTag]
  /\ home = [r \in Ranks |-> "save"]
  /\ pending = [r \in Ranks |-> {}]
  /\ running = [r \in Ranks |-> {}]
  /\ box = [r \in Ranks |-> {}]
  /\ failed = {} /\ faults = 0

RankStep(r) ==
  \/ LeaveLoop(r) \/ RequestWaits(r) \/ RequestReady(r) \/ SavesDone(r)
  \/ SaveNow(r) \/ SaveLater(r) \/ Verdict(r) \/ Summary(r)
  \/ FinallyWaits(r) \/ Exit(r)

Job ==
  \/ TrainStep \/ Barrier \/ Publish \/ Reject \/ Prune \/ Gather
  \/ \E r \in Ranks : RankStep(r) \/ \E t \in Tags : ThreadWrites(r, t)

Fault ==
  \/ Restart \/ PublicationRaises
  \/ \E r \in Ranks : RankRaises(r) \/ \E t \in Tags : ThreadFails(r, t)

\* Every rank has left normally: the run is over and stays over.
Finished ==
  /\ \A r \in Ranks : pc[r] = "exited"
  /\ failed = {}
  /\ UNCHANGED vars

Next == Job \/ Fault \/ Finished

Spec == Init /\ [][Next]_vars

\* The job keeps going: ranks, writer threads, barriers.  Nothing makes a fault
\* or a restart happen.
FairSpec == Spec /\ WF_vars(Job)

-----------------------------------------------------------------------------
(* Properties.                                                             *)

Pcs == {"train", "request", "save", "prepared", "check", "prune", "judged",
        "verdict", "loopEnd", "gather", "summary", "closing", "finally", "exited"}

\* Every variable keeps its type.
TypeOK ==
  /\ dirs \subseteq Tags /\ gerr \subseteq dirs
  /\ shard \in [Tags -> [Ranks -> 0 .. launch]]
  /\ errs \in [Tags -> SUBSET Ranks]
  /\ latest \in Tags \union {NoTag}
  /\ launch \in 1 .. MaxLaunch /\ step \in 0 .. MaxStep /\ due \in 0 .. MaxParts
  /\ pc \in [Ranks -> Pcs]
  /\ part \in [Ranks -> 1 .. MaxParts + 1]
  /\ cur \in [Ranks -> Tags \union {NoTag}]
  /\ home \in [Ranks -> {"save", "finally"}]
  /\ pending \in [Ranks -> SUBSET Tags]
  /\ running \in [Ranks -> SUBSET Tags] /\ box \in [Ranks -> SUBSET Tags]
  /\ failed \subseteq Ranks
  /\ faults \in 0 .. MaxFaults

\* What metadata.json names can be loaded by every rank, at every instant: no
\* crash, failed write, prune or late finalisation leaves it naming a tag with
\* a shard missing (load_training_checkpoint would raise FileNotFoundError).
LatestComplete == latest # NoTag => latest \in dirs /\ Missing(latest) = {}

\* "Publish metadata only after every rank-local shard is durable": when rank 0
\* has published, every rank's writer for the tag is done and wrote this
\* launch's shard.
PublishedWhenDurable ==
  pc[Coordinator] = "prune" =>
    \A r \in Ranks : /\ cur[Coordinator] \notin running[r] \union box[r]
                     /\ shard[cur[Coordinator]][r] = launch

\* Finalisation does publish a tag that every rank wrote in this launch.
DurableIsPublished ==
  LET t == cur[Coordinator] IN
  pc[Coordinator] = "judged" /\ (\A r \in Ranks : t \notin box[r] /\ shard[t][r] = launch)
    => latest = t

\* As long as nothing has failed, a tag that every rank wrote is never turned
\* down by what an earlier launch left in its directory.
CleanRunPublishes == faults = 0 => DurableIsPublished

\* Retention on rank 0 never deletes a directory some rank still writes to or
\* has yet to finalise.
PruneSparesPending == \A r \in Ranks : pending[r] \union running[r] \subseteq dirs

\* Although the group's barriers are anonymous, the ranks that meet in one are
\* at the same line, finalising the same tag.
BarriersAgree ==
  (\A r \in Ranks : pc[r] \in Barriers) =>
    \A r, s \in Ranks : /\ pc[r] = pc[s]
                        /\ pc[r] \in {"prepared", "judged"} => cur[r] = cur[s]

\* A rank returns from finalisation exactly when its tag is the published one;
\* otherwise it raises.
VerdictMatchesDirectory ==
  [][\A r \in Ranks : Verdict(r) => (r \notin failed' <=> cur[r] = latest)]_vars

\* A run that ends without an exception leaves its newest checkpoint published.
EndsOnNewest ==
  (\A r \in Ranks : pc[r] = "exited") /\ failed = {} =>
    \A t \in Tags, r \in Ranks :
      shard[t][r] = launch => latest # NoTag /\ ~Before(latest, t)

\* The directory implements one register holding a whole checkpoint, replaced
\* atomically and only by a newer one, whatever crashes in between.
Register == INSTANCE CheckpointRegister WITH
  Launches <- 1 .. MaxLaunch,
  saved <- [tag |-> latest,
            launches |-> IF latest = NoTag THEN {}
                         ELSE {shard[latest][r] : r \in Ranks}]

ImplementsRegister == Register!Spec

\* As long as no exception is injected, every rank gets through every barrier
\* and out, in whichever launch.
AllExit == <>(faults > 0) \/ <>[](\A r \in Ranks : pc[r] = "exited")
=============================================================================
