---------------------------- MODULE DeliveryProofs ----------------------------
(***************************************************************************)
(* What holds of Delivery for any number of Worker commits, and however    *)
(* often the base branch moves.                                            *)
(***************************************************************************)
EXTENDS Delivery, TLAPS

USE BoundsAssumption

-----------------------------------------------------------------------------
(* Records.                                                                  *)

\* The empty records, and a tick that has read nothing, are of their types.
LEMMA RecordTypes ==
  /\ None \in Commit /\ Foreign \in Commit /\ NoPullRequest \in PullRequest /\ NoCiFailure \in CiFailure
  /\ Idle \in Tick /\ \A point \in TickPoint : At(point) \in Tick
<1>1. None \in Commit /\ Foreign \in Commit BY DEF None, Foreign, Commit, Base
<1>2. NoPullRequest \in PullRequest BY <1>1 DEF NoPullRequest, PullRequest, Checks
<1>3. NoCiFailure \in CiFailure BY <1>1 DEF NoCiFailure, CiFailure
<1>4. Idle \in Tick BY <1>2 DEF Idle, Tick, TickPoint, Base
<1>5. \A point \in TickPoint : At(point) \in Tick BY <1>4 DEF At, Tick
<1> QED BY <1>1, <1>2, <1>3, <1>4, <1>5

\* A tick that has read nothing has only its place.
LEMMA AtFields ==
  ASSUME NEW point
  PROVE  At(point).at = point /\ At(point).base = 0 /\ At(point).auto = FALSE /\ At(point).seen = NoPullRequest
  BY DEF At, Idle

\* ControllerContext.block changes the state, the class and the advice.
LEMMA BlockFields ==
  ASSUME NEW class \in BlockClass, job \in Job
  PROVE  /\ Block(class) \in Job
         /\ Block(class).state = "blocked" /\ Block(class).class = class
         /\ Block(class).head = job.head /\ Block(class).base = job.base
         /\ Block(class).pr = job.pr /\ Block(class).ci = job.ci /\ Block(class).reworks = job.reworks
<1>1. {"blocked"} \subseteq JobState BY DEF JobState
<1> QED BY <1>1 DEF Block, Job

\* CiBlock also binds the failed checks to the published HEAD.
LEMMA CiBlockFields ==
  ASSUME NEW checks \in FailChecks, job \in Job
  PROVE  /\ CiBlock(checks) \in Job
         /\ CiBlock(checks).state = "blocked" /\ CiBlock(checks).head = job.head
         /\ CiBlock(checks).base = job.base /\ CiBlock(checks).pr = job.pr
         /\ CiBlock(checks).ci = [checks |-> checks, head |-> job.pr]
         /\ CiBlock(checks).reworks = job.reworks
         /\ CiBlock(checks).class = IF job.reworks >= MAX_CI_REWORKS THEN "ci_rework_exhausted" ELSE "ci_failure"
<1> DEFINE class == IF job.reworks >= MAX_CI_REWORKS THEN "ci_rework_exhausted" ELSE "ci_failure"
<1>1. class \in BlockClass BY DEF BlockClass
<1>2. CiBlock(checks) = [Block(class) EXCEPT !.ci = [checks |-> checks, head |-> job.pr]] BY DEF CiBlock
<1>3. [checks |-> checks, head |-> job.pr] \in CiFailure BY DEF CiFailure, Job
<1> HIDE DEF class
<1>4. Block(class) \in Job BY <1>1, BlockFields
<1>5. CiBlock(checks) \in Job BY <1>2, <1>3, <1>4 DEF Job
<1>6. /\ CiBlock(checks).ci = [checks |-> checks, head |-> job.pr]
      /\ CiBlock(checks).state = Block(class).state /\ CiBlock(checks).class = Block(class).class
      /\ CiBlock(checks).head = Block(class).head /\ CiBlock(checks).base = Block(class).base
      /\ CiBlock(checks).pr = Block(class).pr /\ CiBlock(checks).reworks = Block(class).reworks
  BY <1>2, <1>4 DEF Job
<1>7. CiBlock(checks).class = class BY <1>1, <1>6, BlockFields
<1> QED BY <1>1, <1>5, <1>6, <1>7, BlockFields DEF class

-----------------------------------------------------------------------------
(* GitHub moves by itself: the ledger, the tick and the worktree stay.       *)

LEMMA GitHubKeeps == ASSUME DeliveryInv, GitHub PROVE DeliveryInv'
<1> USE DEF DeliveryInv, GitHub, ReportChecks, Merge, PushForeign, HumanClosesOrReopens, BaseMoves
<1>1. job' = job /\ tick' = tick /\ worktree' = worktree /\ reviewed' = reviewed BY DEF local
<1>2. base' \in Base /\ base' >= base /\ (pr'.status # "merged" => base' =< MaxBase)
  <2>1. base \in Nat /\ base =< MaxBase + 1 /\ (pr.status # "merged" => base =< MaxBase)
    BY DEF TypeOK, CommitsInv, Base
  <2>2. CASE Merge
    <3>1. pr'.status = "merged" BY <2>2 DEF TypeOK, PullRequest
    <3> QED BY <2>1, <2>2, <3>1 DEF Base
  <2>3. CASE BaseMoves BY <2>1, <2>3 DEF Base
  <2>4. CASE ReportChecks \/ PushForeign \/ HumanClosesOrReopens
    <3>1. base' = base BY <2>4
    <3>2. pr.status = "merged" => pr'.status = "merged" BY <2>4
    <3> QED BY <2>1, <3>1, <3>2 DEF Base
  <2> QED BY <2>2, <2>3, <2>4
<1>3. pr' \in PullRequest
  <2>1. CASE ReportChecks BY <2>1 DEF TypeOK, PullRequest
  <2>2. CASE Merge BY <2>2 DEF TypeOK, PullRequest
  <2>3. CASE PushForeign BY <2>3, RecordTypes DEF TypeOK, PullRequest, Checks
  <2>4. CASE HumanClosesOrReopens BY <2>4 DEF TypeOK, PullRequest
  <2>5. CASE BaseMoves BY <2>5 DEF TypeOK
  <2> QED BY <2>1, <2>2, <2>3, <2>4, <2>5
<1>4. remote' \in {remote, None, Foreign} OBVIOUS
<1>5. /\ pr'.auto => pr.auto
      /\ pr'.status = "none" <=> pr.status = "none"
      /\ pr'.head \in {pr.head, Foreign}
      /\ pr.status = "merged" => pr' = pr
  BY DEF TypeOK, PullRequest
<1>6. TypeOK' BY <1>1, <1>2, <1>3, <1>4, RecordTypes DEF TypeOK
<1>7. CommitsInv' BY <1>1, <1>2 DEF CommitsInv, TypeOK, Commit, Base, Job
<1>8. ReviewInv' BY <1>1, <1>2, <1>4 DEF ReviewInv, HoldsCi, TypeOK, Base, Job
<1>9. CiInv' BY <1>1, <1>5 DEF CiInv, HoldsCi
<1>10. TickInv'
  <2>1. tick.at = "ensure" /\ pr'.status = "none" => remote' # None
    BY <1>5 DEF TickInv, None, Foreign
  <2> QED BY <1>1, <1>2, <1>5, <2>1 DEF TickInv, TypeOK, Base, Job, Tick
<1>11. OnlyReviewedWorkLands' BY <1>1, <1>5 DEF OnlyReviewedWorkLands, PullRequestHeadWasReviewed, DoneMeansMerged
<1> QED BY <1>6, <1>7, <1>8, <1>9, <1>10, <1>11

-----------------------------------------------------------------------------
(* Calls that only move the tick on: the ledger, the worktree and the base   *)
(* stay.                                                                     *)

LEMMA StartPublishKeeps == ASSUME DeliveryInv, StartPublish PROVE DeliveryInv'
<1> USE DEF DeliveryInv, StartPublish, Loads, github
<1>1. job' = job /\ worktree' = worktree /\ remote' = remote /\ base' = base /\ pr' = pr /\ reviewed' = reviewed
  OBVIOUS
<1>2. CASE base = job.base
  <2>1. tick' = At("push") BY <1>2
  <2>2. tick' \in Tick BY <2>1, RecordTypes DEF TickPoint
  <2>3. job.state = "publish_ready" /\ worktree = job.head BY <1>2 DEF ReviewInv, TypeOK, Base, Job
  <2>4. TypeOK' BY <1>1, <2>2 DEF TypeOK
  <2>5. tick'.at = "push" BY <2>1, AtFields
  <2>6. TickInv' BY <1>1, <2>3, <2>5 DEF TickInv
  <2>7. CommitsInv' /\ ReviewInv' /\ CiInv' /\ OnlyReviewedWorkLands'
    BY <1>1 DEF CommitsInv, ReviewInv, CiInv, HoldsCi, OnlyReviewedWorkLands, PullRequestHeadWasReviewed, DoneMeansMerged
  <2> QED BY <2>4, <2>6, <2>7
<1>3. CASE base # job.base
  <2>1. tick' = [At("sync") EXCEPT !.base = base] BY <1>3
  <2>2. At("sync") \in Tick BY RecordTypes DEF TickPoint
  <2>3. tick' \in Tick BY <2>1, <2>2 DEF Tick, TypeOK
  <2>4. tick'.at = "sync" /\ tick'.base = base BY <2>1, <2>2, AtFields DEF Tick
  <2>5. job.base < base BY <1>3 DEF CommitsInv, TypeOK, Base, Job
  <2>6. TypeOK' BY <1>1, <2>3 DEF TypeOK
  <2>7. TickInv' BY <1>1, <2>4, <2>5 DEF TickInv, TypeOK, Base
  <2>8. CommitsInv' /\ ReviewInv' /\ CiInv' /\ OnlyReviewedWorkLands'
    BY <1>1 DEF CommitsInv, ReviewInv, CiInv, HoldsCi, OnlyReviewedWorkLands, PullRequestHeadWasReviewed, DoneMeansMerged
  <2> QED BY <2>6, <2>7, <2>8
<1> QED BY <1>2, <1>3

LEMMA PushKeeps == ASSUME DeliveryInv, Push PROVE DeliveryInv'
<1> USE DEF DeliveryInv, Push
<1>1. job' = job /\ worktree' = worktree /\ base' = base /\ reviewed' = reviewed /\ remote' = worktree OBVIOUS
<1>2. job.state = "publish_ready" /\ worktree = job.head /\ job.head \in reviewed BY DEF TickInv, ReviewInv
<1>3. tick' = At("ensure") /\ tick' \in Tick BY RecordTypes DEF TickPoint
<1>4. pr' \in PullRequest /\ pr'.status = pr.status /\ pr'.head \in {pr.head, worktree}
  BY DEF TypeOK, PullRequest, Checks
<1>5. TypeOK' BY <1>1, <1>3, <1>4 DEF TypeOK
<1>6. CommitsInv' BY <1>1, <1>4 DEF CommitsInv
<1>7. ReviewInv' BY <1>1, <1>2 DEF ReviewInv, HoldsCi
<1>8. CiInv' BY <1>1, <1>2 DEF CiInv, HoldsCi
<1>9. TickInv'
  <2>1. worktree # None BY DEF CommitsInv, None
  <2>2. tick'.at = "ensure" BY <1>3, AtFields
  <2> QED BY <1>1, <1>2, <2>1, <2>2 DEF TickInv
<1>10. OnlyReviewedWorkLands'
  BY <1>1, <1>2, <1>4 DEF OnlyReviewedWorkLands, PullRequestHeadWasReviewed, DoneMeansMerged
<1> QED BY <1>5, <1>6, <1>7, <1>8, <1>9, <1>10

LEMMA EnsureKeeps == ASSUME DeliveryInv, EnsurePullRequest PROVE DeliveryInv'
<1> USE DEF DeliveryInv, EnsurePullRequest
<1>1. job' = job /\ worktree' = worktree /\ base' = base /\ reviewed' = reviewed /\ remote' = remote OBVIOUS
<1>2. job.state = "publish_ready" /\ worktree = job.head /\ job.head \in reviewed BY DEF TickInv, ReviewInv
<1>3. /\ pr' \in PullRequest /\ pr'.status # "none"
      /\ pr'.status = "merged" => pr.status = "merged"
      /\ pr'.head \in reviewed \union {Foreign}
  <2>1. CASE pr.status = "none"
    <3>1. remote \in reviewed \union {Foreign} BY <2>1 DEF TickInv, ReviewInv
    <3>2. pr' = [status |-> "open", head |-> remote, auto |-> FALSE, checks |-> "pending"] BY <2>1
    <3> QED BY <3>1, <3>2 DEF TypeOK, PullRequest, Checks
  <2>2. CASE pr.status # "none"
    BY <2>2 DEF TypeOK, OnlyReviewedWorkLands, PullRequestHeadWasReviewed
  <2> QED BY <2>1, <2>2
<1>4. tick' \in Tick /\ (tick' = Idle \/ tick'.at = "merge_policy")
  <2>1. At("merge_policy") \in Tick BY RecordTypes DEF TickPoint
  <2>2. [At("merge_policy") EXCEPT !.seen = pr'] \in Tick BY <1>3, <2>1 DEF Tick
  <2>3. [At("merge_policy") EXCEPT !.seen = pr'].at = "merge_policy" BY <2>1, AtFields DEF Tick
  <2> QED BY <2>2, <2>3, RecordTypes
<1>5. TypeOK' BY <1>1, <1>3, <1>4 DEF TypeOK
<1>6. CommitsInv' BY <1>1, <1>3 DEF CommitsInv
<1>7. ReviewInv' BY <1>1, <1>2 DEF ReviewInv, HoldsCi
<1>8. CiInv' BY <1>1, <1>2 DEF CiInv, HoldsCi
<1>9. TickInv' BY <1>1, <1>2, <1>4 DEF TickInv, Idle
<1>10. OnlyReviewedWorkLands'
  BY <1>1, <1>2, <1>3 DEF OnlyReviewedWorkLands, PullRequestHeadWasReviewed, DoneMeansMerged
<1> QED BY <1>5, <1>6, <1>7, <1>8, <1>9, <1>10

LEMMA RequestAutoMergeKeeps == ASSUME DeliveryInv, RequestAutoMerge PROVE DeliveryInv'
<1> USE DEF DeliveryInv, RequestAutoMerge
<1>1. job' = job /\ worktree' = worktree /\ base' = base /\ reviewed' = reviewed /\ remote' = remote OBVIOUS
<1>2. job.state = "publish_ready" /\ worktree = job.head /\ job.head \in reviewed BY DEF TickInv, ReviewInv
<1>3. pr' \in PullRequest /\ pr'.status = pr.status /\ pr'.head = pr.head BY DEF TypeOK, PullRequest
<1>4. tick' \in Tick /\ tick'.at = "published" BY DEF TypeOK, Tick, TickPoint
<1>5. TypeOK' BY <1>1, <1>3, <1>4 DEF TypeOK
<1>6. CommitsInv' BY <1>1, <1>3 DEF CommitsInv
<1>7. ReviewInv' BY <1>1, <1>2 DEF ReviewInv, HoldsCi
<1>8. CiInv' BY <1>1, <1>2 DEF CiInv, HoldsCi
<1>9. TickInv' BY <1>1, <1>2, <1>4 DEF TickInv
<1>10. OnlyReviewedWorkLands'
  BY <1>1, <1>2, <1>3 DEF OnlyReviewedWorkLands, PullRequestHeadWasReviewed, DoneMeansMerged
<1> QED BY <1>5, <1>6, <1>7, <1>8, <1>9, <1>10

LEMMA ObserveKeeps ==
  ASSUME DeliveryInv, ObserveDrift \/ ObserveFailedChecks \/ ObserveOpen
  PROVE  DeliveryInv'
<1> USE DEF DeliveryInv, ObserveDrift, ObserveFailedChecks, ObserveOpen, Loads
<1>1. job' = job /\ worktree' = worktree /\ base' = base /\ reviewed' = reviewed /\ remote' = remote
  BY DEF local, github
<1>2. job.state = "awaiting_merge" OBVIOUS
<1>3. pr' \in PullRequest /\ pr'.status = pr.status /\ pr'.head = pr.head /\ (pr'.auto => pr.auto)
  BY DEF TypeOK, PullRequest, local, github
<1>4. /\ tick' \in Tick /\ (tick' = Idle \/ tick'.at \in {"ci", "refresh"})
      /\ tick'.at = "ci" => tick'.seen.checks \in FailChecks /\ (pr'.auto => tick'.seen.auto)
  <2>1. At("ci") \in Tick /\ At("refresh") \in Tick BY RecordTypes DEF TickPoint
  <2>2. CASE ObserveDrift BY <2>2, RecordTypes DEF local, Idle
  <2>3. CASE ObserveFailedChecks
    <3>1. tick' = [At("ci") EXCEPT !.seen = pr] /\ pr' = pr BY <2>3 DEF github
    <3>2. tick' \in Tick /\ tick'.at = "ci" /\ tick'.seen = pr BY <2>1, <3>1, AtFields DEF Tick, TypeOK
    <3> QED BY <2>3, <3>1, <3>2
  <2>4. CASE ObserveOpen
    <3>1. tick' = [At("refresh") EXCEPT !.auto = pr.auto] BY <2>4
    <3>2. tick' \in Tick /\ tick'.at = "refresh" BY <2>1, <3>1, AtFields DEF Tick, TypeOK, PullRequest
    <3> QED BY <3>2
  <2> QED BY <2>2, <2>3, <2>4
<1>5. TypeOK' BY <1>1, <1>3, <1>4 DEF TypeOK
<1>6. CommitsInv' BY <1>1, <1>3 DEF CommitsInv
<1>7. ReviewInv' BY <1>1, <1>2 DEF ReviewInv, HoldsCi
<1>8. CiInv' BY <1>1, <1>2 DEF CiInv, HoldsCi
<1>9. TickInv' BY <1>1, <1>2, <1>4 DEF TickInv, Idle
<1>10. OnlyReviewedWorkLands'
  BY <1>1, <1>2, <1>3 DEF OnlyReviewedWorkLands, PullRequestHeadWasReviewed, DoneMeansMerged
<1> QED BY <1>5, <1>6, <1>7, <1>8, <1>9, <1>10

LEMMA SuspendAutoMergeKeeps == ASSUME DeliveryInv, SuspendAutoMerge PROVE DeliveryInv'
<1> USE DEF DeliveryInv, SuspendAutoMerge
<1>1. job' = job /\ worktree' = worktree /\ base' = base /\ reviewed' = reviewed /\ remote' = remote
  OBVIOUS
<1>2. /\ job.state = "awaiting_merge" /\ tick.seen.checks \in FailChecks /\ (pr.auto => tick.seen.auto)
      /\ tick \in Tick /\ tick' = [tick EXCEPT !.at = "held"] /\ pr \in PullRequest
  BY DEF TickInv, TypeOK
<1>3. tick' \in Tick /\ tick'.at = "held" /\ tick'.seen = tick.seen BY <1>2 DEF Tick, TickPoint
<1>4. pr' \in PullRequest /\ pr'.status = pr.status /\ pr'.head = pr.head /\ ~pr'.auto
  BY <1>2 DEF PullRequest
<1>5. TypeOK' BY <1>1, <1>3, <1>4 DEF TypeOK
<1>6. CommitsInv' BY <1>1, <1>4 DEF CommitsInv
<1>7. ReviewInv' BY <1>1, <1>2 DEF ReviewInv, HoldsCi
<1>8. CiInv' BY <1>1, <1>2 DEF CiInv, HoldsCi
<1>9. TickInv' BY <1>1, <1>2, <1>3, <1>4 DEF TickInv
<1>10. OnlyReviewedWorkLands'
  BY <1>1, <1>2, <1>4 DEF OnlyReviewedWorkLands, PullRequestHeadWasReviewed, DoneMeansMerged
<1> QED BY <1>5, <1>6, <1>7, <1>8, <1>9, <1>10

LEMMA InterruptedKeeps == ASSUME DeliveryInv, Interrupted PROVE DeliveryInv'
<1> USE DEF DeliveryInv, Interrupted, github
<1>1. TypeOK' BY RecordTypes DEF TypeOK
<1>2. TickInv' BY DEF TickInv, Idle
<1>3. CommitsInv' /\ ReviewInv' /\ CiInv' /\ OnlyReviewedWorkLands'
  BY DEF CommitsInv, ReviewInv, CiInv, HoldsCi, OnlyReviewedWorkLands, PullRequestHeadWasReviewed, DoneMeansMerged
<1> QED BY <1>1, <1>2, <1>3

-----------------------------------------------------------------------------
(* Saves: they end the tick.                                                 *)

\* What a save leaves of the tick holds of every Job.
LEMMA SavedTick == ASSUME tick' = Idle PROVE TickInv' /\ tick' \in Tick
  BY RecordTypes DEF TickInv, Idle

\* A Job that is blocked for another reason than failed checks, whatever was merged into the
\* worktree before.
LEMMA BlockMergedKeeps ==
  ASSUME DeliveryInv, NEW class \in BlockClass \ CiClasses, Saves(Block(class)),
         worktree' \in Commit, worktree'.work > 0, job.base =< worktree'.base,
         UNCHANGED <<remote, base, pr, reviewed>>
  PROVE  DeliveryInv'
<1> USE DEF DeliveryInv
<1>1. job' = Block(class) /\ tick' = Idle BY DEF Saves
<1>2. job \in Job BY DEF TypeOK
<1>3. /\ job' \in Job /\ job'.state = "blocked" /\ job'.class \notin CiClasses
      /\ job'.head = job.head /\ job'.base = job.base /\ job'.pr = job.pr /\ job'.ci = job.ci
  BY <1>1, <1>2, BlockFields
<1>4. TypeOK' BY <1>1, <1>3, SavedTick DEF TypeOK
<1>5. CommitsInv' BY <1>3 DEF CommitsInv
<1>6. ReviewInv' /\ CiInv' BY <1>3 DEF ReviewInv, CiInv, HoldsCi
<1>7. OnlyReviewedWorkLands' BY <1>3 DEF OnlyReviewedWorkLands, PullRequestHeadWasReviewed, DoneMeansMerged
<1> QED BY <1>1, <1>4, <1>5, <1>6, <1>7, SavedTick

LEMMA BlockKeeps ==
  ASSUME DeliveryInv, NEW class \in BlockClass \ CiClasses, Saves(Block(class)),
         UNCHANGED <<worktree, remote, base, pr, reviewed>>
  PROVE  DeliveryInv'
<1>1. worktree' \in Commit /\ worktree'.work > 0 /\ job.base =< worktree'.base
  BY DEF DeliveryInv, TypeOK, CommitsInv
<1> QED BY <1>1, BlockMergedKeeps

\* Failed checks that are held: bound to the published HEAD, without auto-merge.
LEMMA CiBlockKeeps ==
  ASSUME DeliveryInv, NEW checks \in FailChecks, Saves(CiBlock(checks)),
         UNCHANGED <<worktree, remote, base, reviewed>>,
         pr' \in PullRequest, pr'.status = pr.status, pr'.head = pr.head, ~pr'.auto,
         job.pr = job.head, job.head \in reviewed, worktree = job.head \/ job.base < base
  PROVE  DeliveryInv'
<1> USE DEF DeliveryInv
<1>1. job' = CiBlock(checks) /\ tick' = Idle BY DEF Saves
<1>2. job \in Job BY DEF TypeOK
<1>3. /\ job' \in Job /\ job'.state = "blocked" /\ job'.head = job.head /\ job'.base = job.base
      /\ job'.pr = job.pr /\ job'.ci = [checks |-> checks, head |-> job.pr] /\ job'.reworks = job.reworks
      /\ job'.class = IF job.reworks >= MAX_CI_REWORKS THEN "ci_rework_exhausted" ELSE "ci_failure"
  BY <1>1, <1>2, CiBlockFields
<1>4. TypeOK'
  <2>1. job.pr # None BY DEF CommitsInv, None
  <2> QED BY <1>1, <1>3, <2>1, SavedTick DEF TypeOK
<1>5. CommitsInv' BY <1>3 DEF CommitsInv
<1>6. ReviewInv' BY <1>3 DEF ReviewInv, HoldsCi
<1>7. CiInv'
  <2>1. job'.class = "ci_failure" => job'.reworks < MAX_CI_REWORKS
    BY <1>2, <1>3 DEF Job, MAX_CI_REWORKS
  <2> QED BY <1>3, <2>1 DEF CiInv
<1>8. OnlyReviewedWorkLands' BY <1>3 DEF OnlyReviewedWorkLands, PullRequestHeadWasReviewed, DoneMeansMerged
<1> QED BY <1>1, <1>4, <1>5, <1>6, <1>7, <1>8, SavedTick

\* A Job is done with the merge of the HEAD it published.
LEMMA DoneKeeps ==
  ASSUME DeliveryInv, Saves(Done), UNCHANGED <<worktree, remote, base, pr, reviewed>>,
         pr.status = "merged", pr.head = job.pr, job.pr = job.head, job.head \in reviewed
  PROVE  DeliveryInv'
<1> USE DEF DeliveryInv
<1>1. job' = Done /\ tick' = Idle BY DEF Saves
<1>2. job \in Job BY DEF TypeOK
<1>3. /\ job' \in Job /\ job'.state = "done" /\ job'.head = job.head /\ job'.base = job.base
      /\ job'.ci = NoCiFailure
  BY <1>1, <1>2, RecordTypes DEF Done, Job, JobState
<1>4. TypeOK' BY <1>1, <1>3, SavedTick DEF TypeOK
<1>5. CommitsInv' BY <1>3 DEF CommitsInv
<1>6. ReviewInv' /\ CiInv' BY <1>3 DEF ReviewInv, CiInv, HoldsCi
<1>7. OnlyReviewedWorkLands' BY <1>3 DEF OnlyReviewedWorkLands, PullRequestHeadWasReviewed, DoneMeansMerged
<1> QED BY <1>1, <1>4, <1>5, <1>6, <1>7, SavedTick

\* A Job that goes back to a Worker, or to a Reviewer with the HEAD of the worktree.
LEMMA ReadyKeeps ==
  ASSUME DeliveryInv, tick' = Idle, UNCHANGED <<remote, base, reviewed>>,
         pr' \in PullRequest, pr'.status = pr.status, pr'.head = pr.head,
         worktree' \in Commit, worktree'.work > 0, job' \in Job,
         job'.state \in {"worker_ready", "reviewer_ready"},
         job'.head.work > 0, job'.base =< base, job'.base =< worktree'.base, job'.base =< job'.head.base,
         job'.ci = NoCiFailure \/ (job'.ci = job.ci /\ job'.pr = job.pr)
  PROVE  DeliveryInv'
<1> USE DEF DeliveryInv
<1>1. TypeOK' BY SavedTick DEF TypeOK
<1>2. CommitsInv' BY DEF CommitsInv
<1>3. ReviewInv' /\ CiInv' BY DEF ReviewInv, CiInv, HoldsCi
<1>4. OnlyReviewedWorkLands' BY DEF OnlyReviewedWorkLands, PullRequestHeadWasReviewed, DoneMeansMerged
<1> QED BY <1>1, <1>2, <1>3, <1>4, SavedTick

-----------------------------------------------------------------------------
(* publish, observeMerge and refreshBaseForReview save.                      *)

LEMMA SavePublishedKeeps == ASSUME DeliveryInv, SavePublished PROVE DeliveryInv'
<1> USE DEF DeliveryInv, SavePublished, github
<1>1. job.state = "publish_ready" /\ worktree = job.head /\ job.head \in reviewed BY DEF TickInv, ReviewInv
<1>2. CASE tick.seen.head = job.head
  <2>1. tick' = Idle /\ job' = [job EXCEPT !.state = "awaiting_merge", !.pr = job.head, !.ci = NoCiFailure]
    BY <1>2 DEF Saves
  <2>2. /\ job' \in Job /\ job'.state = "awaiting_merge" /\ job'.pr = job.head /\ job'.ci = NoCiFailure
        /\ job'.head = job.head /\ job'.base = job.base
    BY <2>1, RecordTypes DEF TypeOK, Job, JobState
  <2>3. TypeOK' BY <2>1, <2>2, SavedTick DEF TypeOK
  <2>4. CommitsInv' BY <2>2 DEF CommitsInv
  <2>5. ReviewInv' /\ CiInv' BY <1>1, <2>2 DEF ReviewInv, CiInv, HoldsCi
  <2>6. OnlyReviewedWorkLands' BY <2>2 DEF OnlyReviewedWorkLands, PullRequestHeadWasReviewed, DoneMeansMerged
  <2> QED BY <2>1, <2>3, <2>4, <2>5, <2>6, SavedTick
<1>3. CASE tick.seen.head # job.head
  BY <1>3, BlockKeeps DEF BlockClass, CiClasses
<1> QED BY <1>2, <1>3

LEMMA ObservedKeeps ==
  ASSUME DeliveryInv, ObserveMerged \/ ObserveClosed \/ HoldFailedChecks
  PROVE  DeliveryInv'
<1> USE DEF DeliveryInv, github
<1>1. job.state = "awaiting_merge" BY DEF ObserveMerged, ObserveClosed, HoldFailedChecks, Loads, TickInv
<1>2. job.pr = job.head /\ job.head \in reviewed /\ (worktree = job.head \/ job.base < base)
  BY <1>1 DEF ReviewInv
<1>3. CASE ObserveMerged BY <1>2, <1>3, DoneKeeps DEF ObserveMerged, Observable
<1>4. CASE ObserveClosed BY <1>4, BlockKeeps DEF ObserveClosed, BlockClass, CiClasses
<1>5. CASE HoldFailedChecks
  <2>1. tick.seen.checks \in FailChecks /\ ~pr.auto BY <1>5 DEF HoldFailedChecks, TickInv
  <2>2. pr' = pr /\ pr' \in PullRequest BY <1>5 DEF HoldFailedChecks, TypeOK
  <2> QED BY <1>2, <1>5, <2>1, <2>2, CiBlockKeeps DEF HoldFailedChecks
<1> QED BY <1>3, <1>4, <1>5

LEMMA RefreshBaseKeeps == ASSUME DeliveryInv, RefreshBase PROVE DeliveryInv'
<1> USE DEF DeliveryInv, RefreshBase
<1>1. job.state = "awaiting_merge" BY DEF TickInv
<1>2. worktree' = worktree /\ remote' = remote /\ base' = base /\ reviewed' = reviewed OBVIOUS
<1>3. CASE base # job.base /\ tick.auto /\ Observable /\ pr.status = "merged"
  <2>1. job.pr = job.head /\ job.head \in reviewed BY <1>1 DEF ReviewInv
  <2> QED BY <1>2, <1>3, <2>1, DoneKeeps DEF Observable
<1>4. CASE ~(base # job.base /\ tick.auto /\ Observable /\ pr.status = "merged")
  <2>1. job' = job BY <1>4
  <2>2. pr' \in PullRequest /\ pr'.status = pr.status /\ pr'.head = pr.head
    BY <1>4 DEF TypeOK, PullRequest
  <2>3. /\ tick' \in Tick
        /\ tick' = Idle \/ (tick'.at = "sync" /\ tick'.base = base /\ job.base < base)
    <3>1. CASE base = job.base
      <4>1. tick' = Idle BY <3>1
      <4>2. Idle \in Tick BY RecordTypes
      <4> QED BY <4>1, <4>2
    <3>2. CASE base # job.base
      <4>1. At("sync") \in Tick BY RecordTypes DEF TickPoint
      <4>2. tick' = [At("sync") EXCEPT !.base = base] BY <1>4, <3>2
      <4>3. tick' \in Tick /\ tick'.at = "sync" /\ tick'.base = base
        BY <4>1, <4>2, AtFields DEF Tick, TypeOK
      <4>4. job.base < base BY <3>2 DEF CommitsInv, TypeOK, Base, Job
      <4> QED BY <4>3, <4>4
    <3> QED BY <3>1, <3>2
  <2>4. TypeOK' BY <1>2, <2>1, <2>2, <2>3 DEF TypeOK
  <2>5. TickInv'
    <3>1. CASE tick' = Idle BY <3>1, SavedTick
    <3>2. CASE tick' # Idle BY <1>1, <1>2, <2>1, <2>3, <3>2 DEF TickInv, TypeOK, Base
    <3> QED BY <3>1, <3>2
  <2>6. CommitsInv' BY <1>2, <2>1, <2>2 DEF CommitsInv
  <2>7. ReviewInv' /\ CiInv' BY <1>1, <1>2, <2>1 DEF ReviewInv, CiInv, HoldsCi
  <2>8. OnlyReviewedWorkLands'
    BY <1>1, <1>2, <2>1, <2>2 DEF OnlyReviewedWorkLands, PullRequestHeadWasReviewed, DoneMeansMerged
  <2> QED BY <2>4, <2>5, <2>6, <2>7, <2>8
<1> QED BY <1>3, <1>4

LEMMA SyncBaseKeeps == ASSUME DeliveryInv, SyncBase PROVE DeliveryInv'
<1> USE DEF DeliveryInv, SyncBase, github
<1>1. /\ job.state \in {"publish_ready", "awaiting_merge"} /\ job.base < tick.base /\ tick.base =< base
  BY DEF TickInv
<1>2. CASE Saves(Block("integrity_violation")) /\ UNCHANGED worktree
  BY <1>2, BlockKeeps DEF BlockClass, CiClasses
<1>5. CASE Saves(Block("integrity_violation")) /\ worktree' = [worktree EXCEPT !.base = tick.base]
  <2>1. worktree' \in Commit /\ worktree'.base = tick.base /\ worktree'.work = worktree.work
    BY <1>5 DEF TypeOK, Commit, Tick
  <2>2. worktree'.work > 0 /\ job.base =< worktree'.base
    BY <1>1, <2>1 DEF CommitsInv, TypeOK, Job, Base, Tick
  <2> QED BY <1>5, <2>1, <2>2, BlockMergedKeeps DEF BlockClass, CiClasses
<1>3. CASE Saves(Block("agent_decision")) /\ UNCHANGED worktree
  BY <1>3, BlockKeeps DEF BlockClass, CiClasses
<1>4. CASE /\ worktree' = [worktree EXCEPT !.base = tick.base]
           /\ tick' = [tick EXCEPT !.at = "refreshed"] /\ UNCHANGED job
  <2>1. worktree' \in Commit /\ worktree'.base = tick.base /\ worktree'.work = worktree.work
    BY <1>4 DEF TypeOK, Commit, Tick
  <2>2. tick' \in Tick /\ tick'.at = "refreshed" /\ tick'.base = tick.base
    BY <1>4 DEF TypeOK, Tick, TickPoint
  <2>3. job' = job /\ remote' = remote /\ base' = base /\ pr' = pr /\ reviewed' = reviewed BY <1>4
  <2>4. job.base < base BY <1>1 DEF TypeOK, Job, Base, Tick
  <2>5. TypeOK' BY <2>1, <2>2, <2>3 DEF TypeOK
  <2>6. TickInv' BY <1>1, <2>1, <2>2, <2>3 DEF TickInv
  <2>7. CommitsInv' BY <1>1, <2>1, <2>3 DEF CommitsInv, TypeOK, Job, Base, Tick
  <2>8. ReviewInv' BY <1>1, <2>3, <2>4 DEF ReviewInv, HoldsCi
  <2>9. CiInv' BY <1>1, <2>3 DEF CiInv, HoldsCi
  <2>10. OnlyReviewedWorkLands'
    BY <2>3 DEF OnlyReviewedWorkLands, PullRequestHeadWasReviewed, DoneMeansMerged
  <2> QED BY <2>5, <2>6, <2>7, <2>8, <2>9, <2>10
<1> QED BY <1>2, <1>3, <1>4, <1>5

LEMMA SaveRefreshedKeeps == ASSUME DeliveryInv, SaveRefreshed PROVE DeliveryInv'
<1> USE DEF DeliveryInv, SaveRefreshed, github, Saves
<1>1. worktree.base = tick.base /\ tick.base =< base BY DEF TickInv
<1>2. job' = [job EXCEPT !.state = "reviewer_ready", !.base = tick.base, !.head = worktree, !.ci = NoCiFailure]
  OBVIOUS
<1>3. /\ job' \in Job /\ job'.state = "reviewer_ready" /\ job'.base = tick.base /\ job'.head = worktree
      /\ job'.ci = NoCiFailure
  BY <1>2, RecordTypes DEF TypeOK, Job, JobState, Tick
<1>4. worktree.work > 0 BY DEF CommitsInv
<1>5. tick.base \in Nat BY DEF TypeOK, Tick, Base
<1> QED BY <1>1, <1>3, <1>4, <1>5, ReadyKeeps DEF TypeOK

-----------------------------------------------------------------------------
(* Held CI, its recovery, and the operator's gates.                          *)

\* What holds of a Job with failed checks held or approved for a rework.
LEMMA CiHeld ==
  ASSUME DeliveryInv, HoldsCi
  PROVE  /\ job.pr = job.head /\ job.head \in reviewed /\ (worktree = job.head \/ job.base < base)
         /\ job.ci.head = job.pr /\ ~pr.auto
         /\ job.class = "ci_failure" => job.reworks < MAX_CI_REWORKS
  BY DEF DeliveryInv, ReviewInv, CiInv

LEMMA RecoverCiKeeps == ASSUME DeliveryInv, RecoverCi PROVE DeliveryInv'
<1> USE DEF DeliveryInv, RecoverCi, Loads, Saves, github
<1>1. HoldsCi BY DEF HoldsCi, CiIncident, CiClasses
<1>2. tick' = Idle /\ job' = [job EXCEPT !.state = "publish_ready", !.class = "none", !.advice = "none",
                                          !.ci = NoCiFailure]
  OBVIOUS
<1>3. /\ job' \in Job /\ job'.state = "publish_ready" /\ job'.ci = NoCiFailure
      /\ job'.head = job.head /\ job'.base = job.base
  BY <1>2, RecordTypes DEF TypeOK, Job, JobState
<1>4. TypeOK' BY <1>2, <1>3, SavedTick DEF TypeOK
<1>5. CommitsInv' BY <1>3 DEF CommitsInv
<1>6. ReviewInv'
  <2>1. job.head \in reviewed /\ (worktree = job.head \/ job.base < base) BY <1>1, CiHeld
  <2> QED BY <1>3, <2>1 DEF ReviewInv, HoldsCi
<1>7. CiInv' BY <1>3 DEF CiInv, HoldsCi
<1>8. OnlyReviewedWorkLands' BY <1>3 DEF OnlyReviewedWorkLands, PullRequestHeadWasReviewed, DoneMeansMerged
<1> QED BY <1>2, <1>4, <1>5, <1>6, <1>7, <1>8, SavedTick

LEMMA HeldObservedKeeps ==
  ASSUME DeliveryInv, MergedWhileHeld \/ ReplaceCiIncident
  PROVE  DeliveryInv'
<1> USE DEF Loads, github
<1>1. HoldsCi BY DEF MergedWhileHeld, ReplaceCiIncident, HoldsCi, CiIncident, CiClasses
<1>2. CASE MergedWhileHeld BY <1>1, <1>2, CiHeld, DoneKeeps DEF MergedWhileHeld, Observable
<1>3. CASE ReplaceCiIncident
  <2>1. pr \in PullRequest BY DEF DeliveryInv, TypeOK
  <2>2. pr.checks \in FailChecks /\ Saves(CiBlock(pr.checks)) /\ UNCHANGED <<worktree, remote, base, pr, reviewed>>
    BY <1>3 DEF ReplaceCiIncident
  <2> QED BY <1>1, <2>1, <2>2, CiHeld, CiBlockKeeps
<1> QED BY <1>2, <1>3

\* A save that leaves the commits and the incident of a blocked Job alone.
LEMMA AdvisedKeeps ==
  ASSUME DeliveryInv, tick' = Idle, UNCHANGED <<worktree, remote, base, pr, reviewed>>,
         job.state = "blocked", job' \in Job,
         job'.head = job.head, job'.base = job.base, job'.pr = job.pr, job'.ci = job.ci,
         job'.class = job.class, job'.reworks = job.reworks,
         job'.state \in {"blocked", "recovery_approved", "cancelled"}
  PROVE  DeliveryInv'
<1> USE DEF DeliveryInv
<1>1. TypeOK' BY SavedTick DEF TypeOK
<1>2. CommitsInv' BY DEF CommitsInv
<1>3. HoldsCi' => HoldsCi BY DEF HoldsCi
<1>4. ReviewInv' BY <1>3 DEF ReviewInv
<1>5. CiInv' BY <1>3 DEF CiInv
<1>6. OnlyReviewedWorkLands' BY DEF OnlyReviewedWorkLands, PullRequestHeadWasReviewed, DoneMeansMerged
<1> QED BY <1>1, <1>2, <1>4, <1>5, <1>6, SavedTick

LEMMA DiagnoseKeeps == ASSUME DeliveryInv, Diagnose PROVE DeliveryInv'
<1> USE DEF Diagnose, Loads, Saves, github
<1>1. PICK advice \in {"hold", "retry"} : job' = [job EXCEPT !.advice = advice] /\ tick' = Idle
  OBVIOUS
<1>2. job \in Job BY DEF DeliveryInv, TypeOK
<1>3. job' \in Job /\ job'.state = job.state BY <1>1, <1>2 DEF Job
<1>4. /\ job'.head = job.head /\ job'.base = job.base /\ job'.pr = job.pr /\ job'.ci = job.ci
      /\ job'.class = job.class /\ job'.reworks = job.reworks
  BY <1>1, <1>2 DEF Job
<1> QED BY <1>1, <1>3, <1>4, AdvisedKeeps

LEMMA OperatorKeeps == ASSUME DeliveryInv, Operator PROVE DeliveryInv'
<1> USE DEF Operator, approveRecovery, cancelHeldJob, Saves, github
<1>1. PICK state \in {"recovery_approved", "cancelled"} : job' = [job EXCEPT !.state = state] /\ tick' = Idle
  OBVIOUS
<1>2. job \in Job BY DEF DeliveryInv, TypeOK
<1>3. job' \in Job /\ job'.state = state BY <1>1, <1>2 DEF Job, JobState
<1>4. /\ job'.head = job.head /\ job'.base = job.base /\ job'.pr = job.pr /\ job'.ci = job.ci
      /\ job'.class = job.class /\ job'.reworks = job.reworks
  BY <1>1, <1>2 DEF Job
<1> QED BY <1>1, <1>3, <1>4, AdvisedKeeps

LEMMA ApplyRecoveryKeeps == ASSUME DeliveryInv, ApplyRecovery PROVE DeliveryInv'
<1> USE DEF DeliveryInv, ApplyRecovery
<1>1. job \in Job /\ worktree \in Commit /\ pr \in PullRequest BY DEF TypeOK
<1>2. CASE Saves(Block("integrity_violation")) /\ UNCHANGED pr
  BY <1>2, BlockKeeps DEF BlockClass, CiClasses
<1>3. CASE /\ Saves([job EXCEPT !.state = "worker_ready", !.class = "none", !.advice = "none"])
           /\ UNCHANGED pr
  <2>1. tick' = Idle /\ job' = [job EXCEPT !.state = "worker_ready", !.class = "none", !.advice = "none"]
    BY <1>3 DEF Saves
  <2>2. /\ job' \in Job /\ job'.state = "worker_ready" /\ job'.head = job.head /\ job'.base = job.base
        /\ job'.ci = job.ci /\ job'.pr = job.pr
    BY <1>1, <2>1 DEF Job, JobState
  <2> QED BY <1>1, <1>3, <2>1, <2>2, ReadyKeeps DEF CommitsInv
<1>4. CASE /\ CiRecoveryBinds /\ pr' = [pr EXCEPT !.auto = FALSE]
           /\ Saves([job EXCEPT !.state = "worker_ready", !.class = "none", !.advice = "none",
                                !.reworks = @ + 1])
  <2>1. tick' = Idle /\ job' = [job EXCEPT !.state = "worker_ready", !.class = "none", !.advice = "none",
                                           !.reworks = @ + 1]
    BY <1>4 DEF Saves
  <2>2. job.reworks + 1 \in 0..MAX_CI_REWORKS BY <1>1, <1>4 DEF Job, CiRecoveryBinds, MAX_CI_REWORKS
  <2>3. /\ job' \in Job /\ job'.state = "worker_ready" /\ job'.head = job.head /\ job'.base = job.base
        /\ job'.ci = job.ci /\ job'.pr = job.pr
    BY <1>1, <2>1, <2>2 DEF Job, JobState
  <2>4. pr' \in PullRequest /\ pr'.status = pr.status /\ pr'.head = pr.head
    BY <1>1, <1>4 DEF PullRequest
  <2> QED BY <1>1, <2>1, <2>3, <2>4, ReadyKeeps DEF CommitsInv
<1> QED BY <1>2, <1>3, <1>4

-----------------------------------------------------------------------------
(* The Attempts.                                                             *)

LEMMA CompleteWorkerKeeps == ASSUME DeliveryInv, CompleteWorker PROVE DeliveryInv'
<1> USE DEF DeliveryInv, CompleteWorker, Loads, github
<1>1. job \in Job /\ worktree \in Commit /\ base \in Base BY DEF TypeOK
<1>2. worktree' \in Commit /\ worktree'.work > 0 /\ job.base =< worktree'.base
  <2>1. PICK b \in {worktree.base, base} : worktree' = [work |-> worktree.work + 1, base |-> b] OBVIOUS
  <2>2. worktree.work + 1 \in 0..MaxWork BY <1>1 DEF Commit
  <2> QED BY <1>1, <2>1, <2>2 DEF Commit, CommitsInv
<1>3. remote' = remote /\ base' = base /\ pr' = pr /\ reviewed' = reviewed /\ tick' = Idle BY DEF Saves
<1>4. CASE job' = [job EXCEPT !.state = "reviewer_ready", !.head = worktree']
  <2>1. /\ job' \in Job /\ job'.state = "reviewer_ready" /\ job'.head = worktree' /\ job'.base = job.base
        /\ job'.ci = job.ci /\ job'.pr = job.pr
    BY <1>1, <1>2, <1>4 DEF Job, JobState
  <2> QED BY <1>2, <1>3, <2>1, ReadyKeeps DEF CommitsInv, TypeOK
<1>5. CASE job' = Block("integrity_violation")
  <2>1. /\ job' \in Job /\ job'.state = "blocked" /\ job'.class \notin CiClasses
        /\ job'.head = job.head /\ job'.base = job.base /\ job'.pr = job.pr /\ job'.ci = job.ci
    BY <1>1, <1>5, BlockFields DEF BlockClass, CiClasses
  <2>2. TypeOK' BY <1>2, <1>3, <2>1, SavedTick DEF TypeOK
  <2>3. CommitsInv' BY <1>2, <1>3, <2>1 DEF CommitsInv
  <2>4. ReviewInv' /\ CiInv' BY <1>3, <2>1 DEF ReviewInv, CiInv, HoldsCi
  <2>5. OnlyReviewedWorkLands' BY <1>3, <2>1 DEF OnlyReviewedWorkLands, PullRequestHeadWasReviewed, DoneMeansMerged
  <2> QED BY <1>3, <2>2, <2>3, <2>4, <2>5, SavedTick
<1> QED BY <1>4, <1>5 DEF Saves

LEMMA PassReviewKeeps == ASSUME DeliveryInv, PassReview PROVE DeliveryInv'
<1> USE DEF DeliveryInv, PassReview, Loads, Saves, github
<1>1. tick' = Idle /\ job' = [job EXCEPT !.state = "publish_ready"] /\ reviewed' = reviewed \union {job.head}
  OBVIOUS
<1>2. /\ job' \in Job /\ job'.state = "publish_ready" /\ job'.head = job.head /\ job'.base = job.base
      /\ job'.ci = job.ci /\ job'.pr = job.pr
  BY <1>1 DEF TypeOK, Job, JobState
<1>3. job.head \in Commit BY DEF TypeOK, Job
<1>4. TypeOK' BY <1>1, <1>2, <1>3, SavedTick DEF TypeOK
<1>5. CommitsInv' BY <1>2 DEF CommitsInv
<1>6. ReviewInv' /\ CiInv' BY <1>1, <1>2 DEF ReviewInv, CiInv, HoldsCi
<1>7. OnlyReviewedWorkLands' BY <1>1, <1>2 DEF OnlyReviewedWorkLands, PullRequestHeadWasReviewed, DoneMeansMerged
<1> QED BY <1>1, <1>4, <1>5, <1>6, <1>7, SavedTick

LEMMA RequestChangesKeeps == ASSUME DeliveryInv, RequestChanges PROVE DeliveryInv'
<1> USE DEF RequestChanges, Loads, Saves, github
<1>1. tick' = Idle /\ job' = [job EXCEPT !.state = "worker_ready"] OBVIOUS
<1>2. job \in Job /\ worktree \in Commit /\ pr \in PullRequest BY DEF DeliveryInv, TypeOK
<1>3. /\ job' \in Job /\ job'.state = "worker_ready" /\ job'.head = job.head /\ job'.base = job.base
      /\ job'.ci = job.ci /\ job'.pr = job.pr
  BY <1>1, <1>2 DEF Job, JobState
<1> QED BY <1>1, <1>2, <1>3, ReadyKeeps DEF DeliveryInv, CommitsInv

-----------------------------------------------------------------------------
(* The invariant.                                                            *)

LEMMA DeliveryInitially == Init => DeliveryInv
<1> SUFFICES ASSUME Init PROVE DeliveryInv OBVIOUS
<1> USE DEF Init
<1>1. job.head = [work |-> 1, base |-> 0] /\ job.base = 0 /\ job.ci = NoCiFailure /\ job.state = "reviewer_ready"
  OBVIOUS
<1>2. job.head \in Commit BY <1>1 DEF Commit, Base
<1>3. job \in Job
  <2>1. "reviewer_ready" \in JobState /\ 0 \in Base /\ 0 \in 0..MAX_CI_REWORKS BY DEF JobState, Base, MAX_CI_REWORKS
  <2> QED BY <1>1, <1>2, <2>1, RecordTypes DEF Job
<1>4. TypeOK BY <1>1, <1>2, <1>3, RecordTypes DEF TypeOK, Base
<1>5. CommitsInv BY <1>1 DEF CommitsInv
<1>6. ReviewInv /\ CiInv BY <1>1 DEF ReviewInv, CiInv, HoldsCi
<1>7. TickInv BY DEF TickInv, Idle
<1>8. OnlyReviewedWorkLands
  BY <1>1 DEF OnlyReviewedWorkLands, PullRequestHeadWasReviewed, DoneMeansMerged, NoPullRequest
<1> QED BY <1>4, <1>5, <1>6, <1>7, <1>8 DEF DeliveryInv

LEMMA DeliveryStutters == ASSUME DeliveryInv, UNCHANGED vars PROVE DeliveryInv'
  BY DEF DeliveryInv, vars, TypeOK, CommitsInv, ReviewInv, CiInv, HoldsCi, TickInv,
         OnlyReviewedWorkLands, PullRequestHeadWasReviewed, DoneMeansMerged

\* DeliveryInv holds in every reachable state: after each call of each tick, in whatever order
\* GitHub, the operator and an end of the Controller interleave with them.
THEOREM DeliveryInvHolds == Spec => []DeliveryInv
<1>1. DeliveryInv /\ [Next]_vars => DeliveryInv'
  <2> SUFFICES ASSUME DeliveryInv, [Next]_vars PROVE DeliveryInv' OBVIOUS
  <2>1. CASE Publish
    BY <2>1, StartPublishKeeps, PushKeeps, EnsureKeeps, RequestAutoMergeKeeps, SavePublishedKeeps DEF Publish
  <2>2. CASE Observe BY <2>2, ObserveKeeps, SuspendAutoMergeKeeps, ObservedKeeps DEF Observe
  <2>3. CASE Refresh BY <2>3, RefreshBaseKeeps, SyncBaseKeeps, SaveRefreshedKeeps DEF Refresh
  <2>4. CASE Held
    BY <2>4, RecoverCiKeeps, HeldObservedKeeps, DiagnoseKeeps, ApplyRecoveryKeeps DEF Held
  <2>5. CASE Attempts BY <2>5, CompleteWorkerKeeps, PassReviewKeeps, RequestChangesKeeps DEF Attempts
  <2>6. CASE Interrupted BY <2>6, InterruptedKeeps
  <2>7. CASE Operator BY <2>7, OperatorKeeps
  <2>8. CASE GitHub BY <2>8, GitHubKeeps
  <2>9. CASE UNCHANGED vars BY <2>9, DeliveryStutters
  <2> QED BY <2>1, <2>2, <2>3, <2>4, <2>5, <2>6, <2>7, <2>8, <2>9 DEF Next
<1> QED BY <1>1, DeliveryInitially, PTL DEF Spec

\* Only reviewed work lands: the pull request's HEAD was passed by a fresh Reviewer unless
\* somebody else pushed it (github-gh.ts publish, delivery-flow.ts), and a Job that is done is
\* merged at the HEAD it had reviewed.
THEOREM DeliveryLandsReviewedWork == Spec => []OnlyReviewedWorkLands
<1>1. DeliveryInv => OnlyReviewedWorkLands BY DEF DeliveryInv
<1> QED BY <1>1, DeliveryInvHolds, PTL

\* A HEAD that waits for its publication or its merge was reviewed with the base commit that
\* the ledger records (refreshBaseForReview).
THEOREM DeliveryReviewsRecordedBase == Spec => []ReviewSawRecordedBase
<1>1. DeliveryInv => ReviewSawRecordedBase
  BY DEF DeliveryInv, CommitsInv, ReviewInv, ReviewSawRecordedBase, TypeOK, Job, Base, Commit
<1> QED BY <1>1, DeliveryInvHolds, PTL

\* Failed checks that are held, or approved for a rework, cannot be merged by GitHub's own
\* auto-merge (suspendAutoMerge before the incident is saved).
THEOREM DeliveryHoldsFailedChecks == Spec => []HeldCiCannotAutoMerge
<1>1. DeliveryInv => HeldCiCannotAutoMerge
  BY DEF DeliveryInv, CiInv, HoldsCi, CiIncident, CiClasses, HeldCiCannotAutoMerge
<1> QED BY <1>1, DeliveryInvHolds, PTL

\* A CI recovery that is approved still binds to the published HEAD and has a rework left when
\* it is applied (approveRecovery, applyRecovery).
THEOREM DeliveryRecoveryBinds == Spec => []CiRecoveryStaysBound
<1>1. DeliveryInv => CiRecoveryStaysBound
  BY DEF DeliveryInv, ReviewInv, CiInv, HoldsCi, CiIncident, CiClasses, CiRecoveryStaysBound, CiRecoveryBinds
<1> QED BY <1>1, DeliveryInvHolds, PTL

=============================================================================
