------------------------------ MODULE Delivery ------------------------------
(***************************************************************************)
(* The delivery of one Job: how the Controller publishes a reviewed HEAD,  *)
(* watches its pull request, refreshes a base that moved, holds failed CI  *)
(* and has it reworked, against the remote branch, the pull request with   *)
(* its native auto-merge, the base branch and the people who merge and     *)
(* close on GitHub.  The Attempts in between are single steps here (see    *)
(* AttemptLifecycle); what matters is which HEAD they are about.           *)
(*                                                                         *)
(* A tick is split at its external effects: `tick` holds what the handler  *)
(* read so far, and GitHub may change, or the Controller stop, in between. *)
(***************************************************************************)
EXTENDS Naturals, HarnessModel

CONSTANTS
    MaxWork,    \* bound: commits Workers make
    MaxBase     \* bound: times the base branch moves under the Job

ASSUME BoundsAssumption == MaxWork \in Nat \ {0} /\ MaxBase \in Nat

VARIABLES
    job,        \* the ledger: state.json's activeJob
    tick,       \* the tick in flight, with what it read
    worktree,   \* HEAD of the Job's local branch
    remote,     \* HEAD of the branch at origin
    base,       \* tip of the base branch at origin
    pr,         \* the branch's pull request on GitHub
    reviewed    \* history: HEADs a fresh Reviewer passed

local == <<job, tick, worktree>>
github == <<remote, base, pr>>
vars == <<job, tick, worktree, remote, base, pr, reviewed>>

-----------------------------------------------------------------------------
(* A commit is told by the Worker commits and by the base it contains.      *)

Base   == 0..(MaxBase + 1)
Commit == [work : 0..MaxWork, base : Base]
None   == [work |-> 0, base |-> 0]

\* What somebody else may push to the branch.
Foreign == [work |-> 0, base |-> 1]

Checks     == {"pending", "pass", "fail_a", "fail_b"}
FailChecks == {"fail_a", "fail_b"}       \* two failures with different digests

PullRequest == [status : {"none", "open", "merged", "closed"}, head : Commit,
                auto : BOOLEAN, checks : Checks]
NoPullRequest == [status |-> "none", head |-> None, auto |-> FALSE, checks |-> "pending"]

CiFailure == [checks : {"none"} \union FailChecks, head : Commit]
NoCiFailure == [checks |-> "none", head |-> None]

\* `pr` is job.pullRequest.headSha, None while job.pullRequest is null.
Job ==
    [state : JobState, base : Base, head : Commit, pr : Commit, ci : CiFailure,
     class : {"none"} \union BlockClass, advice : {"none", "retry", "hold"},
     reworks : 0..MAX_CI_REWORKS]

TickPoint == {"idle", "push", "ensure", "merge_policy", "published",
              "ci", "held", "refresh", "sync", "refreshed"}
Tick == [at : TickPoint, base : Base, auto : BOOLEAN, seen : PullRequest]
Idle == [at |-> "idle", base |-> 0, auto |-> FALSE, seen |-> NoPullRequest]
At(point) == [Idle EXCEPT !.at = point]

\* With what assertJobInvariant says of failed checks: they are about the
\* published HEAD.
TypeOK ==
    /\ job \in Job
    /\ job.ci # NoCiFailure => job.ci.head = job.pr /\ job.pr # None
    /\ tick \in Tick
    /\ worktree \in Commit /\ remote \in Commit /\ base \in Base
    /\ pr \in PullRequest
    /\ reviewed \in SUBSET Commit

Init ==
    /\ job = [state |-> "reviewer_ready", base |-> 0, head |-> [work |-> 1, base |-> 0],
              pr |-> None, ci |-> NoCiFailure, class |-> "none", advice |-> "none", reworks |-> 0]
    /\ tick = Idle
    /\ worktree = job.head /\ remote = None /\ base = 0
    /\ pr = NoPullRequest
    /\ reviewed = {}

-----------------------------------------------------------------------------

Loads(state) == tick = Idle /\ job.state = state
Saves(next)  == job' = next /\ tick' = Idle

Block(class) == [job EXCEPT !.state = "blocked", !.class = class, !.advice = "none"]

\* Mutant: the limit itself is granted once more.
CiBlock_ExtraRework(checks) ==
    [Block(IF job.reworks > MAX_CI_REWORKS THEN "ci_rework_exhausted" ELSE "ci_failure")
        EXCEPT !.ci = [checks |-> checks, head |-> job.pr]]

\* A CI incident is bound to the HEAD its checks failed on.
CiBlock(checks) ==
    [Block(IF job.reworks >= MAX_CI_REWORKS THEN "ci_rework_exhausted" ELSE "ci_failure")
        EXCEPT !.ci = [checks |-> checks, head |-> job.pr]]

Done == [job EXCEPT !.state = "done", !.class = "none", !.advice = "none", !.ci = NoCiFailure]

\* observePullRequest throws on another HEAD than the one published.
Observable == pr.status # "none" /\ pr.head = job.pr

-----------------------------------------------------------------------------
(* publish: refresh the base, push, find or create the pull request, request *)
(* auto-merge, save.                                                        *)

StartPublish ==
    /\ Loads("publish_ready")
    /\ tick' = IF base = job.base THEN At("push") ELSE [At("sync") EXCEPT !.base = base]
    /\ UNCHANGED <<job, worktree, github, reviewed>>

\* `git push origin <branch>`, rejected if somebody else pushed: an open pull
\* request follows the branch.
Push ==
    /\ tick.at = "push" /\ tick' = At("ensure")
    /\ remote # Foreign
    /\ remote' = worktree
    /\ pr' = IF pr.status = "open" /\ pr.head # worktree
               THEN [pr EXCEPT !.head = worktree, !.checks = "pending"] ELSE pr
    /\ UNCHANGED <<job, worktree, base, reviewed>>

\* The first pull request of the branch in any state, or a new one.
EnsurePullRequest ==
    /\ tick.at = "ensure"
    /\ pr' = IF pr.status = "none"
               THEN [status |-> "open", head |-> remote, auto |-> FALSE, checks |-> "pending"]
               ELSE pr
    /\ tick' = IF pr.status = "closed" THEN Idle ELSE [At("merge_policy") EXCEPT !.seen = pr']
    /\ UNCHANGED <<job, worktree, remote, base, reviewed>>

\* Auto-merge is requested for exactly the reviewed HEAD and withdrawn from any
\* other; `--match-head-commit` fails when the HEAD moved meanwhile.
RequestAutoMerge ==
    /\ tick.at = "merge_policy"
    /\ LET wanted == tick.seen.head = job.head IN
         IF tick.seen.status = "merged" \/ tick.seen.auto = wanted
           THEN UNCHANGED pr
           ELSE /\ pr.status = "open" /\ (wanted => pr.head = job.head)
                /\ pr' = [pr EXCEPT !.auto = wanted]
    /\ tick' = [tick EXCEPT !.at = "published"]
    /\ UNCHANGED <<job, worktree, remote, base, reviewed>>

SavePublished ==
    /\ tick.at = "published"
    /\ Saves(IF tick.seen.head = job.head
               THEN [job EXCEPT !.state = "awaiting_merge", !.pr = job.head, !.ci = NoCiFailure]
               ELSE Block("integrity_violation"))
    /\ UNCHANGED <<worktree, github, reviewed>>

-----------------------------------------------------------------------------
(* observeMerge.                                                            *)

\* A drifted pull request loses its auto-merge and is observed again later.
ObserveDrift ==
    /\ Loads("awaiting_merge") /\ ~Observable /\ pr.status = "open" /\ pr.auto
    /\ pr' = [pr EXCEPT !.auto = FALSE]
    /\ UNCHANGED <<local, remote, base, reviewed>>

\* Mutant: a merge counts only with passing checks.
ObserveMerged_WithChecks ==
    /\ Loads("awaiting_merge") /\ Observable /\ pr.status = "merged" /\ pr.checks = "pass"
    /\ Saves(Done)
    /\ UNCHANGED <<worktree, github, reviewed>>

ObserveMerged ==
    /\ Loads("awaiting_merge") /\ Observable /\ pr.status = "merged"
    /\ Saves(Done)
    /\ UNCHANGED <<worktree, github, reviewed>>

ObserveClosed ==
    /\ Loads("awaiting_merge") /\ Observable /\ pr.status = "closed"
    /\ Saves(Block("integrity_violation"))
    /\ UNCHANGED <<worktree, github, reviewed>>

\* Failed checks: auto-merge goes before the incident is recorded.
ObserveFailedChecks ==
    /\ Loads("awaiting_merge") /\ Observable /\ pr.status = "open" /\ pr.checks \in FailChecks
    /\ tick' = [At("ci") EXCEPT !.seen = pr]
    /\ UNCHANGED <<job, worktree, github, reviewed>>

\* Mutant: a suspension that fails is not waited for.
SuspendAutoMerge_Unconfirmed ==
    /\ tick.at = "ci" /\ tick' = [tick EXCEPT !.at = "held"]
    /\ pr' \in {pr, [pr EXCEPT !.auto = FALSE]}
    /\ UNCHANGED <<job, worktree, remote, base, reviewed>>

SuspendAutoMerge ==
    /\ tick.at = "ci" /\ tick' = [tick EXCEPT !.at = "held"]
    /\ tick.seen.auto => pr.status = "open"
    /\ pr' = IF tick.seen.auto THEN [pr EXCEPT !.auto = FALSE] ELSE pr
    /\ UNCHANGED <<job, worktree, remote, base, reviewed>>

HoldFailedChecks ==
    /\ tick.at = "held"
    /\ Saves(CiBlock(tick.seen.checks))
    /\ UNCHANGED <<worktree, github, reviewed>>

ObserveOpen ==
    /\ Loads("awaiting_merge") /\ Observable /\ pr.status = "open" /\ pr.checks = "pass"
    /\ tick' = [At("refresh") EXCEPT !.auto = pr.auto]
    /\ UNCHANGED <<job, worktree, github, reviewed>>

-----------------------------------------------------------------------------
(* refreshBaseForReview.                                                    *)

\* An auto-merge is suspended before the merged HEAD exists; if it cannot be,
\* because the pull request is merged, the Job is done.
RefreshBase ==
    /\ tick.at = "refresh"
    /\ IF base = job.base THEN tick' = Idle /\ UNCHANGED <<job, pr>>
       ELSE IF tick.auto /\ Observable /\ pr.status = "merged" THEN Saves(Done) /\ UNCHANGED pr
       ELSE /\ tick.auto => pr.status = "open"
            /\ pr' = IF tick.auto THEN [pr EXCEPT !.auto = FALSE] ELSE pr
            /\ tick' = [At("sync") EXCEPT !.base = base] /\ UNCHANGED job
    /\ UNCHANGED <<worktree, remote, base, reviewed>>

\* The worktree and the remote branch must be as they were reviewed.  Git is not asked
\* twice: a remote that cannot be read, a merge that does not begin, cannot be aborted or
\* does not verify are integrity violations, the last with the merge in the worktree.
SyncBase ==
    LET synced == [worktree EXCEPT !.base = tick.base]
    IN  /\ tick.at = "sync"
        /\ \/ Saves(Block("integrity_violation")) /\ UNCHANGED worktree
           \/ /\ worktree = job.head /\ remote = job.pr
              /\ \/ /\ worktree' = synced
                    /\ \/ tick' = [tick EXCEPT !.at = "refreshed"] /\ UNCHANGED job
                       \/ Saves(Block("integrity_violation"))
                 \/ /\ synced # worktree                \* a conflict, cleanly aborted
                    /\ Saves(Block("agent_decision")) /\ UNCHANGED worktree
        /\ UNCHANGED <<github, reviewed>>

\* Mutant: the merge with the moved base passes on the old review.
SaveRefreshed_OldReview ==
    /\ tick.at = "refreshed"
    /\ Saves([job EXCEPT !.state = "publish_ready", !.base = tick.base, !.head = worktree])
    /\ UNCHANGED <<worktree, github, reviewed>>

SaveRefreshed ==
    /\ tick.at = "refreshed"
    /\ Saves([job EXCEPT !.state = "reviewer_ready", !.base = tick.base, !.head = worktree,
                         !.ci = NoCiFailure])
    /\ UNCHANGED <<worktree, github, reviewed>>

-----------------------------------------------------------------------------
(* Blocked: reconcileBlockedCi, the Analyst, the operator, applyRecovery.    *)

Retryable == allowedActionsFor(job.class, "controller") # {"hold"}

CiIncident == /\ job.class \in {"ci_failure", "ci_rework_exhausted"}
              /\ job.head = job.pr /\ job.ci.head = job.pr

\* Checks that all pass on the unchanged HEAD lift the incident.
RecoverCi ==
    /\ Loads("blocked") /\ CiIncident /\ Observable
    /\ pr.status = "open" /\ pr.checks = "pass"
    /\ Saves([job EXCEPT !.state = "publish_ready", !.class = "none", !.advice = "none",
                         !.ci = NoCiFailure])
    /\ UNCHANGED <<worktree, github, reviewed>>

MergedWhileHeld ==
    /\ Loads("blocked") /\ CiIncident /\ Observable /\ pr.status = "merged"
    /\ Saves(Done)
    /\ UNCHANGED <<worktree, github, reviewed>>

\* Different failures are a new incident: what was advised was about others.
ReplaceCiIncident ==
    /\ Loads("blocked") /\ CiIncident /\ Observable
    /\ pr.status = "open" /\ pr.checks \in FailChecks \ {job.ci.checks}
    /\ Saves(CiBlock(pr.checks))
    /\ UNCHANGED <<worktree, github, reviewed>>

Diagnose ==
    /\ Loads("blocked") /\ job.advice = "none"
    /\ CiIncident => /\ Observable /\ pr.status # "merged"
                     /\ pr.status = "open" => pr.checks \in {"pending", job.ci.checks}
    /\ \E advice \in {"hold"} \union {a \in {"retry"} : Retryable} :
         Saves([job EXCEPT !.advice = advice])
    /\ UNCHANGED <<worktree, github, reviewed>>

\* The operator's gates save under the CAS: a tick in flight cannot save.
approveRecovery ==
    /\ job.state = "blocked" /\ job.advice = "retry"
    /\ Saves([job EXCEPT !.state = "recovery_approved"])
    /\ UNCHANGED <<worktree, github, reviewed>>

cancelHeldJob ==
    /\ job.state = "blocked" /\ job.advice = "hold" /\ job.pr = None
    /\ Saves([job EXCEPT !.state = "cancelled"])
    /\ UNCHANGED <<worktree, github, reviewed>>

\* A CI recovery is applied to the exact published HEAD, while its pull request
\* is open, and takes its auto-merge away first.
CiRecoveryBinds == CiIncident /\ job.reworks < MAX_CI_REWORKS

ApplyRecovery ==
    /\ Loads("recovery_approved")
    /\ IF job.class # "ci_failure"
         THEN /\ Saves([job EXCEPT !.state = "worker_ready", !.class = "none", !.advice = "none"])
              /\ UNCHANGED pr
       ELSE IF ~CiRecoveryBinds THEN Saves(Block("integrity_violation")) /\ UNCHANGED pr
       ELSE /\ Observable /\ pr.status = "open"
            /\ pr' = [pr EXCEPT !.auto = FALSE]
            /\ Saves([job EXCEPT !.state = "worker_ready", !.class = "none", !.advice = "none",
                                 !.reworks = @ + 1])
    /\ UNCHANGED <<worktree, remote, base, reviewed>>

-----------------------------------------------------------------------------
(* The Attempts in between, one step each.                                   *)

\* A Worker commits, and may merge the base it was asked to reconcile with;
\* verifyWorker also compares the remote branch.
CompleteWorker ==
    /\ Loads("worker_ready") /\ worktree.work < MaxWork
    /\ \E b \in {worktree.base, base} :
         worktree' = [work |-> worktree.work + 1, base |-> b]
    /\ Saves(IF remote = job.pr
               THEN [job EXCEPT !.state = "reviewer_ready", !.head = worktree']
               ELSE Block("integrity_violation"))
    /\ UNCHANGED <<github, reviewed>>

PassReview ==
    /\ Loads("reviewer_ready") /\ worktree = job.head
    /\ reviewed' = reviewed \union {job.head}
    /\ Saves([job EXCEPT !.state = "publish_ready"])
    /\ UNCHANGED <<worktree, github>>

RequestChanges ==
    /\ Loads("reviewer_ready") /\ worktree = job.head
    /\ Saves([job EXCEPT !.state = "worker_ready"])
    /\ UNCHANGED <<worktree, github, reviewed>>

-----------------------------------------------------------------------------
(* A tick that ends early: a call fails, which every handler answers by      *)
(* ticking again, or the Controller dies.                                    *)

Interrupted ==
    /\ tick # Idle /\ tick' = Idle
    /\ UNCHANGED <<job, worktree, github, reviewed>>

-----------------------------------------------------------------------------
(* GitHub.                                                                   *)

ReportChecks ==
    /\ pr.status = "open"
    /\ \E checks \in Checks \ {pr.checks} :
         /\ "pending" \in {checks, pr.checks}      \* a rerun is pending first
         /\ pr' = [pr EXCEPT !.checks = checks]
    /\ UNCHANGED <<local, remote, base, reviewed>>

\* Auto-merge or somebody merges.  That moves the base branch, and may delete the pull request's branch.
Merge ==
    /\ pr.status = "open" /\ pr' = [pr EXCEPT !.status = "merged", !.auto = FALSE]
    /\ base' = base + 1
    /\ remote' \in {remote, None}
    /\ UNCHANGED <<local, reviewed>>

\* Somebody else pushes to the Job's branch.
PushForeign ==
    /\ remote \notin {None, Foreign} /\ remote' = Foreign
    /\ pr' = IF pr.status = "open" THEN [pr EXCEPT !.head = Foreign, !.checks = "pending"] ELSE pr
    /\ UNCHANGED <<local, base, reviewed>>

HumanClosesOrReopens ==
    /\ \/ pr.status = "open" /\ pr' = [pr EXCEPT !.status = "closed", !.auto = FALSE]
       \/ pr.status = "closed" /\ pr' = [pr EXCEPT !.status = "open"]
    /\ UNCHANGED <<local, remote, base, reviewed>>

BaseMoves ==
    /\ base < MaxBase /\ base' = base + 1
    /\ UNCHANGED <<local, remote, pr, reviewed>>

-----------------------------------------------------------------------------

Publish == StartPublish \/ Push \/ EnsurePullRequest \/ RequestAutoMerge \/ SavePublished

Observe ==
    \/ ObserveDrift \/ ObserveMerged \/ ObserveClosed
    \/ ObserveFailedChecks \/ SuspendAutoMerge \/ HoldFailedChecks \/ ObserveOpen

Refresh == RefreshBase \/ SyncBase \/ SaveRefreshed

Held == RecoverCi \/ MergedWhileHeld \/ ReplaceCiIncident \/ Diagnose \/ ApplyRecovery

Attempts == CompleteWorker \/ PassReview \/ RequestChanges

Operator == approveRecovery \/ cancelHeldJob

GitHub == ReportChecks \/ Merge \/ PushForeign \/ HumanClosesOrReopens \/ BaseMoves

Next == Publish \/ Observe \/ Refresh \/ Held \/ Attempts \/ Interrupted \/ Operator \/ GitHub

Spec == Init /\ [][Next]_vars

\* The driver loop ticks again as long as it runs, every tick ends (its calls
\* are bounded), and calls that are tried again and again succeed in the end;
\* GitHub, Attempts and the operator owe
\* nothing.
Fairness ==
    /\ SF_vars(Publish) /\ SF_vars(Observe) /\ SF_vars(Refresh) /\ SF_vars(Held)
    /\ WF_vars(Interrupted)

FairSpec == Spec /\ Fairness

-----------------------------------------------------------------------------
(* Safety.                                                                   *)

\* Whatever the pull request shows, and so whatever anybody can merge, is a HEAD
\* a fresh Reviewer passed, unless somebody else pushed it: base refreshes, reworks, interrupted ticks and
\* republications never put another one on the branch.
PullRequestHeadWasReviewed ==
    pr.status # "none" => pr.head \in reviewed \union {Foreign}

\* A HEAD waiting for publication or merge was reviewed with the base commit
\* the ledger records, never on a base its review has not seen.
ReviewSawRecordedBase ==
    job.state \in {"publish_ready", "awaiting_merge"} =>
        job.head \in reviewed /\ job.head.base >= job.base

\* A Job is done only when the HEAD it last had reviewed is what was merged.
DoneMeansMerged ==
    job.state = "done" => pr.status = "merged" /\ pr.head = job.head /\ job.head \in reviewed

\* What lands under the Job's name is what was reviewed: while it can still be merged, and
\* when the Job says that it was.
OnlyReviewedWorkLands == PullRequestHeadWasReviewed /\ DoneMeansMerged

\* While failed checks are held or their recovery is approved, GitHub cannot
\* merge the HEAD by itself.
HeldCiCannotAutoMerge ==
    job.state \in {"blocked", "recovery_approved"} /\ CiIncident => ~pr.auto

\* An approved CI recovery still binds when it is applied: base refreshes,
\* replaced incidents and merges in between never leave a stale one approved.
CiRecoveryStaysBound ==
    job.state = "recovery_approved" /\ job.class = "ci_failure" => CiRecoveryBinds

\* The tick has seen the pull request open, and goes on to merge the moved base.
ReviewsAnew == tick.at \in {"sync", "refreshed"} \/ (tick.at = "refresh" /\ ~tick.auto)

\* A merge of the published HEAD makes the Job done, whether a tick finds it waiting, has
\* just seen its checks fail, or cannot suspend its auto-merge any more, and although every
\* tick may be interrupted.  Only a tick that is past its look at GitHub misses it.
MergeIsNoticed ==
    job.state = "awaiting_merge" /\ pr.status = "merged" /\ Observable /\ ~ReviewsAnew ~> job.state = "done"

-----------------------------------------------------------------------------
(* Why the safety properties hold: what is true at every point of every tick. *)

CiClasses == {"ci_failure", "ci_rework_exhausted"}

\* Failed checks are held, or their recovery is approved.
HoldsCi == job.state \in {"blocked", "recovery_approved"} /\ job.class \in CiClasses

\* Commits are a Worker's, and neither the ledger nor the HEAD it names is ahead of the base.
CommitsInv ==
    /\ worktree.work > 0 /\ job.head.work > 0
    /\ job.base =< base /\ job.base =< worktree.base /\ job.base =< job.head.base
    /\ pr.status # "merged" => base =< MaxBase

\* What may be published was reviewed; a worktree ahead of it comes from a merge with a base
\* that the ledger does not have, so that it is not published before it is merged again.
ReviewInv ==
    /\ job.state \in {"publish_ready", "awaiting_merge"} \/ HoldsCi =>
           job.head \in reviewed /\ (worktree = job.head \/ job.base < base)
    /\ job.state = "awaiting_merge" \/ HoldsCi => job.pr = job.head
    /\ remote \in reviewed \union {None, Foreign}

\* Held checks are bound to the published HEAD, which has lost its auto-merge.
CiInv ==
    HoldsCi => /\ job.ci.head = job.pr /\ ~pr.auto
               /\ job.class = "ci_failure" => job.reworks < MAX_CI_REWORKS

\* A tick in the middle of its calls is still about the Job it loaded.
TickInv ==
    /\ tick.at \in {"push", "ensure", "merge_policy", "published"} =>
           job.state = "publish_ready" /\ worktree = job.head
    /\ tick.at = "ensure" /\ pr.status = "none" => remote # None
    /\ tick.at \in {"ci", "held", "refresh"} => job.state = "awaiting_merge"
    /\ tick.at \in {"ci", "held"} => tick.seen.checks \in FailChecks
    /\ pr.auto /\ tick.at = "ci" => tick.seen.auto
    /\ tick.at = "held" => ~pr.auto
    /\ tick.at \in {"sync", "refreshed"} =>
           job.state \in {"publish_ready", "awaiting_merge"} /\ job.base < tick.base /\ tick.base =< base
    /\ tick.at = "refreshed" => worktree.base = tick.base
    /\ tick.at = "idle" => tick = Idle

DeliveryInv ==
    TypeOK /\ CommitsInv /\ ReviewInv /\ CiInv /\ TickInv /\ OnlyReviewedWorkLands

-----------------------------------------------------------------------------
(* What the repository says and the code does not do.                        *)

\* The cancel gate "retires one exact held pre-PR job": no pull request of the
\* Harness's own exists, and the task can be claimed anew.
CancelledHasNoPullRequest ==
    job.state = "cancelled" => pr.status = "none" \/ pr.head = Foreign

\* "A newer base suspends auto-merge and requires a fresh review of the merged
\* HEAD": while that review runs, the old HEAD cannot be auto-merged.
NoAutoMergeUnderReview == job.state = "reviewer_ready" => ~pr.auto

\* A merge makes the Job done, also when the base that it moves is merged meanwhile.
MergeIsNeverMissed ==
    job.state = "awaiting_merge" /\ pr.status = "merged" /\ Observable ~> job.state = "done"

\* A merge observed makes the Job done, also while the recovery of its failed
\* checks is approved.
MergeEndsRecovery ==
    job.state = "recovery_approved" /\ pr.status = "merged" /\ Observable
        ~> job.state # "recovery_approved"

=============================================================================
