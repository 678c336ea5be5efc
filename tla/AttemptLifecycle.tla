-------------------------- MODULE AttemptLifecycle --------------------------
(***************************************************************************)
(* The Attempts of one Job: how the Controller prepares, starts, prompts,  *)
(* observes, settles, blocks and recovers fresh Worker and Reviewer        *)
(* Attempts, against the agents it drives, the worktree they share and the *)
(* operator who answers its incidents.  The Job enters with its worktree   *)
(* (worker_ready, see ClaimLifecycle) and leaves with a reviewed HEAD      *)
(* (publish_ready, see Delivery) or cancelled.                             *)
(*                                                                         *)
(* A tick loads the ledger, performs external effects and saves at most    *)
(* once.  Where an effect precedes the save, or follows it, the tick is    *)
(* split: `tick.at` names what has been done, and everything else may run  *)
(* (or the Controller may crash) in between.  The CAS of a save on the job *)
(* revision is `tick.fresh`: nobody saved since this tick loaded.          *)
(***************************************************************************)
EXTENDS Naturals, HarnessModel

CONSTANTS
    MaxHead,            \* bound: commits the worktree can receive
    MaxReviewRounds,    \* config.maxReviewRounds
    MaxDecisions        \* bound: the operator decides until it granted as many retries

ASSUME BoundsAssumption ==
    /\ MaxHead \in Nat
    /\ MaxReviewRounds \in Nat \ {0}
    /\ MaxDecisions \in Nat

VARIABLES
    job,        \* the ledger: state.json's activeJob
    tick,       \* the tick in flight
    agent,      \* the runtime behind the newest Attempt: its pane and agent
    orphaned,   \* history: an Attempt was superseded while its agent was alive
    report,     \* content of the newest Attempt's resultPath
    tree,       \* the Job's worktree: HEAD and changes outside result files
    prompts,    \* history: prompts the newest Attempt's agent received
    verdicts,   \* history: heads some Reviewer agent reported `pass` for
    tries,      \* history: Attempts prepared on this HEAD since a human decision
    decisions   \* history: retries the operator granted

ledger == <<job, tick>>
runtime == <<agent, orphaned, report, prompts, verdicts>>
vars == <<job, tick, agent, orphaned, report, tree, prompts, verdicts, tries, decisions>>

-----------------------------------------------------------------------------
(* Records.  HEADs are numbered along the branch; 0 is the base commit and *)
(* stands for a null headSha.                                              *)

Head == 0..MaxHead

\* Identities are only ever compared with those the ledger still holds, so two
\* names given in turn are as good as fresh ones; 0 names nothing.
Names == 0..2
NextName(n) == IF n = 1 THEN 2 ELSE 1

\* A Reviewer's `failed` is judged as its `blocked`; `bogus` parses to nothing.
WorkerReport   == {"completed", "blocked", "failed", "bogus"}
ReviewerReport == {"pass", "changes", "empty", "blocked", "bogus"}

Result   == [kind : {"none"} \union WorkerReport \union ReviewerReport, head : Head]
NoResult == [kind |-> "none", head |-> 0]

Rule == {"none", "worker_pre_dispatch_infrastructure",
         "reviewer_same_head_infrastructure", "provider_pre_side_effect_transient"}

Advice == {"none", "retry", "retry_unknowns", "hold", "hold_unknowns", "failed"}

\* `head` is expectedHeadSha for a Reviewer and baseSha for a Worker.
Attempt ==
    [id : Names, lane : Lane, phase : {"none"} \union AttemptPhase, round : Nat,
     head : Head, handle : BOOLEAN, receipt : {"none", "own", "reused"},
     retries : 0..MAX_ATTEMPT_RECONCILIATIONS, result : Result]
NoAttempt ==
    [id |-> 0, lane |-> "worker", phase |-> "none", round |-> 0, head |-> 0,
     handle |-> FALSE, receipt |-> "none", retries |-> 0, result |-> NoResult]

Incident ==
    [id : Names, class : {"none"} \union BlockClass, lane : Lane \union {"controller"},
     attempt : Names, rule : Rule]
NoIncident ==
    [id |-> 0, class |-> "none", lane |-> "controller", attempt |-> 0, rule |-> "none"]

Approval ==
    [basis : {"none", "analyst_advice", "human_decision", "policy_rule"},
     incident : Names, action : RecoveryAction, rule : Rule, consumed : BOOLEAN]
NoApproval ==
    [basis |-> "none", incident |-> 0, action |-> "hold", rule |-> "none", consumed |-> FALSE]

Handoff ==
    [kind : {"none", "review_changes", "approved_recovery"}, lane : Lane,
     head : Head, receipt : BOOLEAN]
NoHandoff == [kind |-> "none", lane |-> "worker", head |-> 0, receipt |-> FALSE]

\* What one policy authorization may never authorize again.
Fingerprint == [rule : Rule, lane : Lane, head : Head]

Job ==
    [state : JobState, head : Head, round : Nat,
     attempt : Attempt, handoff : Handoff, incident : Incident, analysis : Advice,
     approval : Approval, auto : SUBSET Fingerprint]

AgentState == {"absent", "pane", "idle", "working", "blocked", "stopped", "closed"}
Alive == {"idle", "working", "blocked"}     \* a Pi process that can still act

\* Where a tick that was refused ends without a save: the runtime is not ready for an
\* agent, Git does not tell the state of the worktree, an agent is not confirmed gone.
Refusal == {"unready", "unread", "kept"}

TickPoint == {"idle", "pane", "agent", "prompt", "close", "settle", "advise", "retire", "retry"}
             \union Refusal
Idle == [at |-> "idle", fresh |-> TRUE]
At(point) == [at |-> point, fresh |-> TRUE]

TypeOK ==
    /\ job \in Job
    /\ tick \in [at : TickPoint, fresh : BOOLEAN]
    /\ agent \in AgentState
    /\ orphaned \in BOOLEAN
    /\ report \in Result
    /\ tree \in [head : Head, dirty : BOOLEAN]
    /\ prompts \in Nat
    /\ verdicts \in SUBSET Head
    /\ tries \in [Lane -> Nat]
    /\ decisions \in 0..MaxDecisions

Init ==
    /\ job = [state |-> "worker_ready", head |-> 0, round |-> 0,
              attempt |-> NoAttempt, handoff |-> NoHandoff, incident |-> NoIncident,
              analysis |-> "none", approval |-> NoApproval, auto |-> {}]
    /\ tick = Idle
    /\ agent = "absent" /\ orphaned = FALSE /\ report = NoResult
    /\ tree = [head |-> 0, dirty |-> FALSE]
    /\ prompts = 0 /\ verdicts = {} /\ tries = [l \in Lane |-> 0] /\ decisions = 0

-----------------------------------------------------------------------------
(* Ledger records the code builds.                                         *)

Attempting(j) == j.attempt.id # 0

\* ControllerContext.block: settle what is active, open a fresh incident, and
\* drop every earlier analysis and approval.
Block(j, class, lane, result, rule) ==
    [j EXCEPT
        !.state = "blocked",
        !.attempt = IF Attempting(j) THEN [@ EXCEPT !.phase = "settled", !.result = result] ELSE @,
        !.incident = [id |-> NextName(j.incident.id), class |-> class, lane |-> lane,
                      attempt |-> j.attempt.id, rule |-> rule],
        !.analysis = "none",
        !.approval = NoApproval]

\* Mutant: an Attempt that may have been prompted counts as not dispatched.
automaticRecoveryCandidateForAttempt_Dispatched(j, transient) ==
    IF j.attempt.result # NoResult THEN "none"
    ELSE IF transient THEN "provider_pre_side_effect_transient"
    ELSE IF j.attempt.lane = "worker" THEN "worker_pre_dispatch_infrastructure"
    ELSE "none"

\* The recovery an exhausted Attempt is a candidate for; `transient` is a
\* Provider failure whose receipt proves that nothing had been done yet.
automaticRecoveryCandidateForAttempt(j, transient) ==
    LET a == j.attempt IN
    IF a.result # NoResult THEN "none"
    ELSE IF transient THEN "provider_pre_side_effect_transient"
    ELSE IF a.phase \in {"running", "settled"} THEN "none"
    ELSE IF a.lane = "worker" THEN "worker_pre_dispatch_infrastructure"
    ELSE IF a.head = j.head THEN "reviewer_same_head_infrastructure"
    ELSE "none"

\* Mutant: an observation that is never counted.
reconcileAttemptOrBlock_Uncounted(j, transient) ==
    IF j.attempt.retries >= MAX_ATTEMPT_RECONCILIATIONS
      THEN Block(j, "infrastructure_exhausted", j.attempt.lane, NoResult, "none")
      ELSE j

\* Observe the same Attempt once more, then give it up.
reconcileAttemptOrBlock(j, transient) ==
    IF j.attempt.retries >= MAX_ATTEMPT_RECONCILIATIONS
      THEN Block(j, "infrastructure_exhausted", j.attempt.lane, NoResult,
                 automaticRecoveryCandidateForAttempt(j, transient))
      ELSE [j EXCEPT !.attempt.retries = @ + 1]

\* verifyReviewer: the worktree is clean at the HEAD under review.
TreeMatches(head) == tree.head = head /\ ~tree.dirty

\* verifyReviewerPreflight names residue found before a pane exists apart.
PreflightClass(j) ==
    IF tree.head = j.head /\ ~j.attempt.handle THEN "reviewer_preflight_dirty"
    ELSE "integrity_violation"

\* bindPendingHandoff: a handoff reaches only the Attempt it was written for.
HandoffBinds(lane) ==
    job.handoff # NoHandoff => job.handoff.lane = lane /\ job.handoff.head = job.head

-----------------------------------------------------------------------------
(* What a tick does: load, effects, one save.                              *)

Loads(state)   == tick = Idle /\ job.state = state
Driving(phase) == /\ tick = Idle
                  /\ job.state = RunningState(job.attempt.lane)
                  /\ job.attempt.phase = phase
Saves(next)    == job' = next /\ tick' = Idle

-----------------------------------------------------------------------------
(* A fresh Attempt: prepared -> pane_ready -> agent_ready -> running.       *)

PrepareAttempt(lane) ==
    /\ Loads(ReadyState(lane))
    /\ HandoffBinds(lane)
    /\ \E receipt \in IF lane = "reviewer" /\ job.handoff.receipt
                        THEN {"none", "reused"} ELSE {"none"} :
         Saves([job EXCEPT
             !.state = RunningState(lane),
             !.attempt = [NoAttempt EXCEPT
                 !.id = NextName(job.incident.attempt), !.lane = lane, !.phase = "prepared",
                 !.round = job.round + 1, !.head = job.head, !.receipt = receipt],
             !.handoff = NoHandoff])
    /\ agent' = "absent" /\ report' = NoResult /\ prompts' = 0
    /\ orphaned' = (orphaned \/ agent \in Alive)
    /\ tries' = [tries EXCEPT ![lane] = @ + 1]
    /\ UNCHANGED <<tree, verdicts, decisions>>

\* The bound plan, context, checkpoint or receipt is no longer what was bound.
BlockProvenanceDrift ==
    /\ tick = Idle /\ job.state \in {"worker_running", "reviewer_running"}
    /\ job.attempt.phase # "running" \/ job.attempt.lane = "reviewer"
    /\ Saves(Block(job, "integrity_violation", job.attempt.lane, NoResult, "none"))
    /\ UNCHANGED <<runtime, tree, tries, decisions>>

\* ensureReviewerValidation: a receipt for this exact HEAD before any pane.  One that is
\* published before residue is found, or the run ends in an error, is there to be reused;
\* a receipt of an infrastructure error is none, as it never is.
ReviewerValidation ==
    /\ Driving("prepared") /\ job.attempt.lane = "reviewer" /\ job.attempt.receipt = "none"
    /\ \/ TreeMatches(job.head) /\ Saves([job EXCEPT !.attempt.receipt = "own"])
       \/ \E receipt \in {"none", "own"} :
             Saves(Block([job EXCEPT !.attempt.receipt = receipt],
                         IF TreeMatches(job.head) THEN "validation_infrastructure" ELSE PreflightClass(job),
                         "reviewer", NoResult, "none"))
    /\ UNCHANGED <<runtime, tree, tries, decisions>>

PaneMayStart ==
    Driving("prepared") /\ (job.attempt.lane = "reviewer" => job.attempt.receipt # "none")

BlockReviewerPreflight ==
    /\ PaneMayStart /\ job.attempt.lane = "reviewer" /\ ~TreeMatches(job.head)
    /\ Saves(Block(job, PreflightClass(job), "reviewer", NoResult, "none"))
    /\ UNCHANGED <<runtime, tree, tries, decisions>>

\* runRuntimePreflight: a machine that cannot run an agent now is asked again.
FailPreflight ==
    /\ PaneMayStart /\ (job.attempt.lane = "reviewer" => TreeMatches(job.head))
    /\ tick' = At("unready")
    /\ UNCHANGED <<job, runtime, tree, tries, decisions>>

\* createAttemptPane adopts the pane an earlier tick left for this Attempt.
CreateAttemptPane ==
    /\ PaneMayStart /\ (job.attempt.lane = "reviewer" => TreeMatches(job.head))
    /\ \/ /\ agent' = IF agent = "absent" THEN "pane" ELSE agent
          /\ tick' = At("pane") /\ UNCHANGED job
       \/ /\ agent' \in IF agent = "absent" THEN {"absent", "pane"} ELSE {agent}
          /\ Saves(reconcileAttemptOrBlock(job, FALSE))
       \/ /\ job.attempt.lane = "reviewer"       \* ReviewerContextBudgetExceededError
          /\ Saves(Block(job, "review_uncertain", "reviewer", NoResult, "none"))
          /\ UNCHANGED agent
    /\ UNCHANGED <<orphaned, report, prompts, verdicts, tree, tries, decisions>>

SavePaneReady ==
    /\ tick = At("pane")
    /\ Saves([job EXCEPT !.attempt.phase = "pane_ready", !.attempt.handle = TRUE,
                         !.attempt.retries = 0])
    /\ UNCHANGED <<runtime, tree, tries, decisions>>

\* startAgent is idempotent for an idle agent; a failed start may have
\* started it all the same, or may have cleaned the pane up.
StartAgent ==
    /\ Driving("pane_ready")
    /\ \/ /\ agent \in {"pane", "idle"}
          /\ agent' = "idle" /\ tick' = At("agent") /\ UNCHANGED job
       \/ /\ agent' \in {agent, "closed"} \union {x \in {"idle"} : agent = "pane"}
          /\ Saves(reconcileAttemptOrBlock(job, FALSE))
    /\ UNCHANGED <<orphaned, report, prompts, verdicts, tree, tries, decisions>>

SaveAgentReady ==
    /\ tick = At("agent")
    /\ Saves([job EXCEPT !.attempt.phase = "agent_ready", !.attempt.retries = 0])
    /\ UNCHANGED <<runtime, tree, tries, decisions>>

\* Mutant: the prompt leaves first and the phase is saved by a later tick.
PersistRunning_AfterPrompt ==
    /\ Driving("agent_ready")
    /\ tick' = At("prompt")
    /\ UNCHANGED <<job, runtime, tree, tries, decisions>>

\* `running` is durable before the prompt leaves.
PersistRunning ==
    /\ Driving("agent_ready")
    /\ job' = [job EXCEPT !.attempt.phase = "running", !.attempt.retries = 0]
    /\ tick' = At("prompt")
    /\ UNCHANGED <<runtime, tree, tries, decisions>>

\* The dispatch: delivered or not, the tick ends and only observes from now on.
Prompt ==
    /\ tick = At("prompt") /\ tick' = Idle
    /\ \/ agent \in Alive \union {"stopped"} /\ agent' = "working" /\ prompts' = prompts + 1
       \/ agent' \in {agent, "closed"} /\ UNCHANGED prompts
    /\ UNCHANGED <<job, orphaned, report, verdicts, tree, tries, decisions>>

-----------------------------------------------------------------------------
(* Observation and settlement.                                             *)

\* A late result answers the incident before it is judged.
Reconciled(j) ==
    [j EXCEPT !.incident = NoIncident, !.analysis = "none", !.approval = NoApproval]

AwaitingLateResult ==
    /\ job.state \in {"blocked", "recovery_approved"}
    /\ job.incident.class = "infrastructure_exhausted"
    /\ Attempting(job)
    /\ job.incident.attempt = job.attempt.id /\ job.incident.lane = job.attempt.lane
    /\ job.attempt.phase = "settled" /\ job.attempt.result = NoResult
    /\ job.attempt.handle

Observed == IF AwaitingLateResult THEN Reconciled(job) ELSE job

\* Mutant: the worktree is at the HEAD the report names, which need not be a new one.
verifyWorker_NoCommit == tree.head = report.head /\ ~tree.dirty

verifyWorker == tree.head = report.head /\ report.head > job.attempt.head /\ ~tree.dirty

\* Mutant: the worktree is checked, the HEAD the report names is not.
ReviewBound_AnyHead == TreeMatches(job.head)

\* verifyReviewer after the report: HEAD, worktree and the HEAD it names, if any.
ReviewBound ==
    /\ TreeMatches(job.head)
    /\ report.head # job.head => report.kind \in {"blocked", "bogus"} /\ report.head = 0

\* The class of incident a durable result leads to, or "none" if it completes.
Verdict ==
    IF job.attempt.lane = "reviewer" /\ ~ReviewBound THEN "integrity_violation"
    ELSE IF report.kind = "bogus"
      THEN IF agent = "blocked" THEN "agent_blocked" ELSE "integrity_violation"
    ELSE IF job.attempt.lane = "worker"
      THEN CASE report.kind = "blocked" -> "agent_decision"
             [] report.kind = "failed"  -> "agent_blocked"
             [] OTHER -> IF verifyWorker THEN "none" ELSE "integrity_violation"
    ELSE IF \/ report.kind \in {"blocked", "empty"}
            \/ report.kind = "changes" /\ job.attempt.round >= MaxReviewRounds
      THEN "review_uncertain"
    ELSE "none"

\* finishObservedAttempt on a durable result.
FinishObservedAttempt ==
    /\ tick = Idle
    /\ Driving("running") \/ AwaitingLateResult
    /\ report # NoResult /\ agent # "working"
    /\ IF Verdict = "none"
         THEN tick' = At("close") /\ UNCHANGED job
         ELSE Saves(Block(Observed, Verdict, job.attempt.lane, report, "none"))
    /\ UNCHANGED <<runtime, tree, tries, decisions>>

\* A failed wait, or an agent that settled without a result.
ObserveNothing ==
    /\ Driving("running")
    /\ \/ /\ job.attempt.lane = "reviewer" /\ ~TreeMatches(job.head)
          /\ Saves(Block(job, "integrity_violation", "reviewer", NoResult, "none"))
          /\ agent' \in {agent, "closed"}
       \/ /\ job.attempt.lane = "reviewer" => TreeMatches(job.head)
          /\ \/ /\ agent = "blocked" /\ report = NoResult
                /\ Saves(Block(job, "agent_blocked", job.attempt.lane, NoResult, "none"))
                /\ UNCHANGED agent
             \/ /\ Saves(reconcileAttemptOrBlock(job, FALSE))
                /\ agent' \in {agent, "closed"}
             \/ /\ report = NoResult /\ TreeMatches(job.attempt.head)
                /\ Saves(reconcileAttemptOrBlock(job, TRUE))
                /\ agent' = "closed"
    /\ UNCHANGED <<orphaned, report, prompts, verdicts, tree, tries, decisions>>

\* closeCompletedAttempt: an unconfirmed close ends the tick without a save.
CloseCompletedAttempt ==
    /\ tick.at = "close"
    /\ \/ agent' = "closed" /\ tick' = [tick EXCEPT !.at = "settle"]
       \/ UNCHANGED agent /\ tick' = At("kept")
    /\ UNCHANGED <<job, orphaned, report, prompts, verdicts, tree, tries, decisions>>

Settlement(j) ==
    LET settled == [j EXCEPT !.attempt = NoAttempt] IN
    IF j.attempt.lane = "worker"
      THEN [settled EXCEPT !.state = "reviewer_ready", !.head = report.head,
                           !.handoff = NoHandoff]
    ELSE IF report.kind = "pass"
      THEN [settled EXCEPT !.state = "publish_ready", !.round = j.attempt.round]
    ELSE [settled EXCEPT
            !.state = "worker_ready", !.round = j.attempt.round,
            !.handoff = [kind |-> "review_changes", lane |-> "worker",
                         head |-> j.head, receipt |-> FALSE]]

SettleAttempt ==
    /\ tick = At("settle")
    /\ Saves(Settlement(Observed))
    /\ tries' = IF job.attempt.lane = "worker" THEN [l \in Lane |-> 0] ELSE tries
    /\ UNCHANGED <<runtime, tree, decisions>>

-----------------------------------------------------------------------------
(* Blocked: advice, and the policy rules that need no human.               *)

Recommends(advice) == advice \in {"retry", "retry_unknowns"}
Holds(advice)      == advice \in {"hold", "hold_unknowns", "failed"}

retryActions(incident) == allowedActionsFor(incident.class, incident.lane) \ {"hold"}

RuleAction(rule, lane) ==
    CASE rule = "reviewer_same_head_infrastructure" -> "retry_fresh_reviewer"
      [] rule = "worker_pre_dispatch_infrastructure" -> "retry_fresh_worker"
      [] OTHER -> IF lane = "worker" THEN "retry_fresh_worker" ELSE "retry_fresh_reviewer"

FingerprintOf(j) ==
    [rule |-> j.incident.rule, lane |-> j.attempt.lane, head |-> j.attempt.head]

\* automaticRecoveryFor: the candidate of this incident, under this advice.
automaticRecoveryFor(j, advice) ==
    /\ j.state = "blocked" /\ j.approval = NoApproval
    /\ j.incident.class = "infrastructure_exhausted" /\ j.incident.rule # "none"
    /\ j.incident.attempt = j.attempt.id /\ j.incident.lane = j.attempt.lane
    /\ j.attempt.phase = "settled" /\ j.attempt.result = NoResult
    /\ RuleAction(j.incident.rule, j.attempt.lane) \in retryActions(j.incident)
    /\ FingerprintOf(j) \notin j.auto
    /\ CASE j.incident.rule = "worker_pre_dispatch_infrastructure" ->
              j.attempt.lane = "worker" /\ advice = "retry"
         [] j.incident.rule = "reviewer_same_head_infrastructure" ->
              j.attempt.lane = "reviewer" /\ j.attempt.head = j.head /\ Recommends(advice)
         [] OTHER -> TRUE

\* Mutant: only the newest authorization is remembered.
authorizeAutomaticRecovery_Forgetful(j, advice) ==
    [j EXCEPT
        !.state = "recovery_approved",
        !.analysis = advice,
        !.approval = [basis |-> "policy_rule", incident |-> j.incident.id,
                      action |-> RuleAction(j.incident.rule, j.attempt.lane),
                      rule |-> j.incident.rule, consumed |-> FALSE],
        !.auto = {FingerprintOf(j)}]

authorizeAutomaticRecovery(j, advice) ==
    [j EXCEPT
        !.state = "recovery_approved",
        !.analysis = advice,
        !.approval = [basis |-> "policy_rule", incident |-> j.incident.id,
                      action |-> RuleAction(j.incident.rule, j.attempt.lane),
                      rule |-> j.incident.rule, consumed |-> FALSE],
        !.auto = @ \union {FingerprintOf(j)}]

ProviderRule(j) == j.incident.rule = "provider_pre_side_effect_transient"

\* The wait of reconcileLateAttemptResult may end the agent it waited for.
LateWaitMayClose ==
    agent' \in IF AwaitingLateResult THEN {agent, "closed"} ELSE {agent}

\* The Provider rule needs no advice; its backoff has elapsed.
AuthorizeProviderRecovery ==
    /\ Loads("blocked") /\ LateWaitMayClose
    /\ ProviderRule(job) /\ automaticRecoveryFor(job, "none")
    /\ Saves(authorizeAutomaticRecovery(job, "none"))
    /\ UNCHANGED <<orphaned, report, prompts, verdicts, tree, tries, decisions>>

StartDiagnosis ==
    /\ Loads("blocked") /\ LateWaitMayClose
    /\ ~(ProviderRule(job) /\ automaticRecoveryFor(job, "none"))
    /\ job.analysis = "none"
    /\ tick' = At("advise")
    /\ UNCHANGED <<job, orphaned, report, prompts, verdicts, tree, tries, decisions>>

\* Mutant: an analysis that fails leaves the incident as it was.
RecordAdvice_FailureDropped ==
    /\ tick = At("advise")
    /\ \E advice \in {"hold", "none"} : Saves([job EXCEPT !.analysis = advice])
    /\ UNCHANGED <<runtime, tree, tries, decisions>>

\* runDiagnosis downgrades what the incident does not allow, and fails to hold.
RecordAdvice ==
    /\ tick = At("advise")
    /\ \E advice \in {"hold", "hold_unknowns", "failed"} \union
                     {a \in {"retry", "retry_unknowns"} : retryActions(job.incident) # {}} :
         Saves(IF automaticRecoveryFor(job, advice)
                 THEN authorizeAutomaticRecovery(job, advice)
                 ELSE [job EXCEPT !.analysis = advice])
    /\ UNCHANGED <<runtime, tree, tries, decisions>>

-----------------------------------------------------------------------------
(* The operator's gates: each loads and saves under the same CAS, so a tick *)
(* in flight across one of them can no longer save.                        *)

Decides(next) ==
    /\ job.state = "blocked" /\ job.approval = NoApproval /\ job.analysis # "none"
    /\ decisions < MaxDecisions
    /\ decisions' = decisions + (IF next.state = "recovery_approved" THEN 1 ELSE 0)
    /\ job' = next
    /\ tick' = IF tick.at = "idle" THEN tick ELSE [tick EXCEPT !.fresh = FALSE]
    /\ UNCHANGED <<runtime, tree>>

\* Mutant: the approval names the Attempt where the incident belongs.
HumanApproval_WrongBinding(basis, action) ==
    [job EXCEPT !.state = "recovery_approved",
                !.approval = [basis |-> basis, incident |-> job.attempt.id,
                              action |-> action, rule |-> "none", consumed |-> FALSE]]

HumanApproval(basis, action) ==
    [job EXCEPT !.state = "recovery_approved",
                !.approval = [basis |-> basis, incident |-> job.incident.id,
                              action |-> action, rule |-> "none", consumed |-> FALSE]]

approveRecovery ==
    /\ Recommends(job.analysis)
    /\ \E action \in retryActions(job.incident) : Decides(HumanApproval("analyst_advice", action))
    /\ tries' = [l \in Lane |-> 0]

isDecisionResolutionEligible(j) ==
    /\ j.incident.class = "review_uncertain" /\ j.incident.lane = "reviewer"
    /\ Attempting(j) /\ j.incident.attempt = j.attempt.id
    /\ j.analysis \in {"hold_unknowns", "failed"}
    /\ j.attempt.lane = "reviewer" /\ j.attempt.phase = "settled"
    /\ j.attempt.round >= MaxReviewRounds /\ j.attempt.head = j.head
    /\ j.attempt.result = [kind |-> "changes", head |-> j.head]

resolveDecision ==
    /\ isDecisionResolutionEligible(job)
    /\ Decides(HumanApproval("human_decision", "retry_fresh_worker"))
    /\ tries' = [l \in Lane |-> 0]

\* The class of the successor incident, or "none" if it may not be reassessed.
reassessmentClassFor(j) ==
    LET a == j.attempt
        class == j.incident.class
        exactAttempt == /\ Attempting(j) /\ a.lane = j.incident.lane
                        /\ a.id = j.incident.attempt /\ a.phase = "settled"
        unstartedReviewer == /\ j.incident.lane = "reviewer" /\ ~a.handle
                             /\ a.result = NoResult /\ a.head = j.head
        heldReviewerBlock == /\ class = "review_uncertain" /\ j.incident.lane = "reviewer"
                             /\ a.head = j.head /\ a.result.kind = "blocked"
                             /\ a.result.head = j.head
    IN  IF ~Holds(j.analysis) \/ ~exactAttempt \/ retryActions(j.incident) = {} THEN "none"
        ELSE IF heldReviewerBlock THEN "infrastructure_exhausted"
        ELSE IF \/ class = "infrastructure_exhausted" /\ a.result = NoResult
                \/ class \in {"validation_infrastructure", "reviewer_preflight_dirty"}
                     /\ unstartedReviewer
                \/ j.analysis = "failed"
          THEN class
        ELSE "none"

SuccessorIncident ==
    [job.incident EXCEPT !.id = NextName(@), !.class = reassessmentClassFor(job), !.rule = "none"]

\* A reassessment grants nothing: a successor incident, to be analysed again.
reassessIncident ==
    /\ reassessmentClassFor(job) # "none"
    /\ Decides([job EXCEPT !.incident = SuccessorIncident, !.analysis = "none"])
    /\ UNCHANGED tries

cancelHeldJob ==
    /\ Holds(job.analysis)
    /\ Decides([job EXCEPT !.state = "cancelled"])
    /\ UNCHANGED tries

-----------------------------------------------------------------------------
(* applyRecovery: one authorization, spent on one fresh Attempt.           *)

ApprovalBinds ==
    /\ job.approval.incident = job.incident.id
    /\ job.approval.action \in retryActions(job.incident)
    /\ CASE job.approval.basis = "policy_rule" ->
              job.approval.rule = job.incident.rule /\ FingerprintOf(job) \in job.auto
         [] job.approval.basis = "human_decision" -> isDecisionResolutionEligible(job)
         [] OTHER -> Recommends(job.analysis)

FreshReviewerBinds ==
    /\ job.incident.class \in {"infrastructure_exhausted", "reviewer_preflight_dirty",
                               "validation_infrastructure"}
    /\ job.incident.lane = "reviewer" /\ job.attempt.lane = "reviewer"
    /\ job.incident.attempt = job.attempt.id

\* verifyProviderRecoveryBoundary: still no result, no commit, no change.
ProviderBoundaryHolds ==
    job.approval.rule = "provider_pre_side_effect_transient" =>
        report = NoResult /\ TreeMatches(job.attempt.head)

\* The class applyRecovery blocks with, or "none" if the recovery may go on.
RecoveryObstacle ==
    IF ~ApprovalBinds \/ ~ProviderBoundaryHolds THEN "integrity_violation"
    ELSE IF job.approval.action = "retry_fresh_worker" THEN "none"
    ELSE IF ~FreshReviewerBinds THEN "integrity_violation"
    ELSE IF ~TreeMatches(job.head) THEN PreflightClass(job)
    ELSE "none"

ApplyRecovery ==
    /\ Loads("recovery_approved") /\ LateWaitMayClose
    /\ IF RecoveryObstacle = "none"
         THEN tick' = At(IF job.attempt.handle THEN "retire" ELSE "retry") /\ UNCHANGED job
         ELSE Saves(Block(job, RecoveryObstacle,
                          IF ApprovalBinds THEN job.attempt.lane ELSE "controller",
                          IF ApprovalBinds THEN job.attempt.result ELSE NoResult, "none"))
    /\ UNCHANGED <<orphaned, report, prompts, verdicts, tree, tries, decisions>>

\* What a tick asks Git about the worktree and does not catch, or says is retryable: before
\* a Reviewer starts, when an Attempt is judged, and before an approved recovery.
ReadsTree ==
    \/ Driving("prepared") /\ job.attempt.lane = "reviewer"
    \/ Driving("running") /\ job.attempt.lane = "reviewer"
    \/ /\ Driving("running") \/ (tick = Idle /\ AwaitingLateResult)
       /\ report # NoResult /\ agent # "working"
       /\ job.attempt.lane = "worker" => report.kind = "completed"
    \/ /\ Loads("recovery_approved") /\ ApprovalBinds
       /\ \/ job.approval.rule = "provider_pre_side_effect_transient" /\ report = NoResult
          \/ job.approval.action = "retry_fresh_reviewer" /\ FreshReviewerBinds

\* Git fails: nothing is judged, and nothing saved.
FailToRead ==
    /\ ReadsTree /\ tick' = At("unread")
    /\ agent' \in IF job.state \in {"blocked", "recovery_approved"} /\ AwaitingLateResult
                   THEN {agent, "closed"} ELSE {agent}
    /\ UNCHANGED <<job, orphaned, report, prompts, verdicts, tree, tries, decisions>>

\* Mutant: an unconfirmed close does not stop the recovery.
CloseRetiredAttempt_Unconfirmed ==
    /\ tick = At("retire") /\ tick' = At("retry")
    /\ agent' \in {agent, "closed"}
    /\ UNCHANGED <<job, orphaned, report, prompts, verdicts, tree, tries, decisions>>

CloseRetiredAttempt ==
    /\ tick = At("retire")
    /\ \/ agent' = "closed" /\ tick' = At("retry")
       \/ UNCHANGED agent /\ tick' = At("kept")
    /\ UNCHANGED <<job, orphaned, report, prompts, verdicts, tree, tries, decisions>>

\* Mutant: the save leaves the Job approved.
FreshLane_StillApproved(lane) == [job EXCEPT !.attempt.handle = FALSE]

\* The Job as applyRecovery saves it: the approval is spent, the lane is fresh.
FreshLane(lane) ==
    [job EXCEPT
        !.state = ReadyState(lane),
        !.attempt = NoAttempt,
        !.handoff = [kind |-> "approved_recovery", lane |-> lane, head |-> job.head,
                     receipt |-> lane = "reviewer" /\ job.attempt.receipt = "own"],
        !.incident = NoIncident,
        !.analysis = "none",
        !.approval = [@ EXCEPT !.consumed = TRUE]]

SaveFreshLane ==
    /\ tick = At("retry")
    /\ Saves(FreshLane(RetryLane(job.approval.action)))
    /\ UNCHANGED <<runtime, tree, tries, decisions>>

\* archive of a cancelled Job closes the Attempt it was cancelled with.
CloseCancelledAttempt ==
    /\ Loads("cancelled") /\ job.attempt.handle /\ agent # "closed"
    /\ agent' = "closed"
    /\ UNCHANGED <<ledger, orphaned, report, prompts, verdicts, tree, tries, decisions>>

-----------------------------------------------------------------------------
(* What interrupts a tick.                                                 *)

\* The save of a tick that another save overtook throws: state CAS failed.
AbandonStaleTick ==
    /\ ~tick.fresh /\ tick.at # "close"
    /\ tick' = Idle
    /\ UNCHANGED <<job, runtime, tree, tries, decisions>>

\* A tick that was refused is over; the next one asks again.
EndRefused ==
    /\ tick.at \in Refusal /\ tick' = Idle
    /\ UNCHANGED <<job, runtime, tree, tries, decisions>>

\* The Controller dies between two effects and starts again from the ledger.
Crash ==
    /\ tick.at # "idle" /\ tick' = Idle
    /\ UNCHANGED <<job, runtime, tree, tries, decisions>>

-----------------------------------------------------------------------------
(* The agent of the newest Attempt, and what else touches the worktree.    *)

AgentEdits ==
    /\ agent = "working" /\ job.attempt.lane = "worker" /\ Attempting(job)
    /\ tree' \in [head : {h \in {tree.head, tree.head + 1} : h <= MaxHead}, dirty : BOOLEAN]
    /\ tree' # tree
    /\ UNCHANGED <<ledger, runtime, tries, decisions>>

Headless(lane) == {"bogus"} \union {k \in {"blocked", "failed"} : lane = "worker"}

AgentReports ==
    /\ agent = "working" /\ report = NoResult /\ Attempting(job)
    /\ \E kind \in IF job.attempt.lane = "worker" THEN WorkerReport ELSE ReviewerReport,
          head \in Head :
         /\ kind \in Headless(job.attempt.lane) => head = 0
         /\ kind = "empty" => head = job.head
         /\ report' = [kind |-> kind, head |-> head]
         /\ verdicts' = IF kind = "pass" THEN verdicts \union {head} ELSE verdicts
    /\ UNCHANGED <<ledger, agent, orphaned, prompts, tree, tries, decisions>>

\* It ends its turn, asks for permission, or is answered in its own pane.
AgentYields ==
    /\ \/ agent = "working" /\ agent' \in {"stopped", "blocked"}
       \/ agent = "blocked" /\ agent' = "working"
    /\ UNCHANGED <<ledger, orphaned, report, prompts, verdicts, tree, tries, decisions>>

\* Somebody else (a build, a stray process, the operator) changes the worktree.
TreeDrifts ==
    /\ ~tree.dirty /\ tree' \in [head : {h \in {tree.head, tree.head + 1} : h <= MaxHead},
                                 dirty : {tree.dirty, TRUE}]
    /\ tree' # tree
    /\ UNCHANGED <<ledger, runtime, tries, decisions>>

OperatorCleansTree ==
    /\ job.state = "blocked" /\ tree.dirty /\ tree' = [tree EXCEPT !.dirty = FALSE]
    /\ UNCHANGED <<ledger, runtime, tries, decisions>>

-----------------------------------------------------------------------------

\* A tick from the ledger, up to its first interruptible point.
TickStep ==
    \/ \E lane \in Lane : PrepareAttempt(lane)
    \/ ReviewerValidation \/ BlockReviewerPreflight \/ FailPreflight \/ CreateAttemptPane \/ StartAgent
    \/ PersistRunning \/ FinishObservedAttempt \/ ObserveNothing
    \/ AuthorizeProviderRecovery \/ StartDiagnosis \/ ApplyRecovery \/ FailToRead
    \/ CloseCancelledAttempt

\* The rest of a tick that was not interrupted.
TickEnd ==
    \/ SavePaneReady \/ SaveAgentReady \/ Prompt \/ CloseCompletedAttempt \/ SettleAttempt
    \/ RecordAdvice \/ CloseRetiredAttempt \/ SaveFreshLane \/ AbandonStaleTick \/ EndRefused

Operator == approveRecovery \/ resolveDecision \/ reassessIncident \/ cancelHeldJob

\* Nothing reads the worktree or the results of a cancelled Job any more.
World ==
    /\ job.state # "cancelled"
    /\ AgentEdits \/ AgentReports \/ AgentYields \/ TreeDrifts \/ OperatorCleansTree

Next == TickStep \/ BlockProvenanceDrift \/ TickEnd \/ Crash \/ Operator \/ World

Spec == Init /\ [][Next]_vars

\* The driver loop ticks again as long as it runs (WF TickStep, TickEnd); a
\* crash may cut any tick short but not the same one for ever (SF TickSave),
\* nor each before the close it asks for is confirmed or refused (SF CloseAnswered).
\* Nothing is assumed of agents, operators or the worktree, nor that a close is ever
\* confirmed: every wait on an agent is bounded by the Attempt's deadline.
TickSave == SavePaneReady \/ SaveAgentReady \/ SettleAttempt \/ RecordAdvice \/ SaveFreshLane

CloseAnswered == CloseCompletedAttempt \/ CloseRetiredAttempt

Fairness ==
    /\ WF_vars(TickStep) /\ WF_vars(TickEnd)
    /\ SF_vars(TickSave)
    /\ SF_vars(CloseAnswered)

FairSpec == Spec /\ Fairness

-----------------------------------------------------------------------------
(* Safety.                                                                 *)

\* Fresh Attempts are exclusive: whatever crashes, failed closes and recoveries
\* happened, no superseded Attempt has a live agent in the worktree, and the
\* only live agent is the active Attempt's, under a durable handle.
SingleLiveAgent ==
    /\ ~orphaned
    /\ agent \in Alive => Attempting(job) /\ job.attempt.handle

\* An Attempt's agent is prompted at most once, whatever tick is cut short:
\* an uncertain dispatch is observed and never repeated.
PromptedAtMostOnce == prompts <= 1

\* What leaves for publication is a HEAD some Reviewer agent reported `pass`
\* for; recoveries, late results and worktree drift never substitute another.
PublishedHeadWasReviewed == job.state = "publish_ready" => job.head \in verdicts

\* Without a human decision one lane gets at most three Attempts on one HEAD:
\* the first, the provider rule's and the pre-dispatch or same-HEAD rule's.
BoundedUnattendedAttempts == \A lane \in Lane : tries[lane] <= 3

\* A review round never exceeds the configured maximum, however often the
\* rounds are interrupted by incidents and recoveries.
ReviewRoundsBounded == job.round <= MaxReviewRounds /\ job.attempt.round <= MaxReviewRounds

\* What the Controller spends without asking anybody is bounded in both ways.
UnattendedWorkIsBounded == BoundedUnattendedAttempts /\ ReviewRoundsBounded

\* The handoff waiting in a ready state is always one prepareAttempt can bind:
\* a recovery never leaves the Job with a handoff its next Attempt must refuse.
HandoffAlwaysBinds == \A lane \in Lane : job.state = ReadyState(lane) => HandoffBinds(lane)

\* While a recovery is approved, crashes, retried ticks and failed closes leave
\* its binding to incident and Attempt intact: applyRecovery never meets an
\* approval that went stale.
ApprovalStaysBound ==
    job.state = "recovery_approved" =>
        /\ ~job.approval.consumed /\ ApprovalBinds
        /\ job.approval.action = "retry_fresh_reviewer" => FreshReviewerBinds

\* From approveRecovery to the Attempt that prepareAttempt makes of it: the approval binds
\* until it is applied, and the handoff it leaves binds after that.
RecoveriesBind == ApprovalStaysBound /\ HandoffAlwaysBinds

\* A policy rule, which no human looked at, only ever retries an Attempt whose
\* agent has left no result, and, except after a Provider failure that proves
\* the same, one whose agent was never prompted.
PolicyRetriesLoseNothing ==
    job.state = "recovery_approved" /\ job.approval.basis = "policy_rule" =>
        /\ report = NoResult /\ agent # "working"
        /\ job.approval.rule # "provider_pre_side_effect_transient" => prompts = 0

-----------------------------------------------------------------------------
(* Why they hold: what is true at every point of every tick.               *)

Running == {"worker_running", "reviewer_running"}
Ready   == {"worker_ready", "reviewer_ready", "publish_ready"}

\* Each part is what the handlers in between rely on: an Attempt past its pane
\* has a durable handle; a ready Job has no Attempt left; a tick that started
\* something is still about the Attempt it loaded; nothing replaces an Attempt
\* before its agent is gone; nothing is prompted before `running` is durable.
ExclusiveInv ==
    /\ SingleLiveAgent /\ PromptedAtMostOnce
    /\ job.state \in Running => Attempting(job)
    /\ job.state \in Ready => ~job.attempt.handle
    /\ job.attempt.phase \in {"pane_ready", "agent_ready", "running"} =>
           Attempting(job) /\ job.attempt.handle
    /\ job.attempt.phase \in {"prepared", "pane_ready", "agent_ready"} => prompts = 0
    /\ tick = At("pane")   => job.state \in Running /\ job.attempt.phase = "prepared"
    /\ tick = At("agent")  => job.state \in Running /\ job.attempt.phase = "pane_ready"
    /\ tick = At("prompt") => job.state \in Running /\ job.attempt.phase = "running" /\ prompts = 0
    /\ tick.at \in {"settle", "retry"} => agent \notin Alive

\* A `pass` is only ever accepted for the HEAD the Job holds, and the report it
\* was accepted from cannot change while the tick that accepts it completes.
ReviewedInv ==
    /\ PublishedHeadWasReviewed
    /\ report.kind = "pass" => report.head \in verdicts
    /\ tick \in {At("close"), At("settle")} =>
           /\ report # NoResult
           /\ job.attempt.lane = "reviewer" /\ report.kind = "pass" => report.head = job.head

Recovering == {"blocked", "recovery_approved"}
Engaged    == Running \union Recovering

\* A Job that runs, is blocked or recovers is about its Attempt, on the HEAD the Job
\* holds; its incident is about that Attempt, and so is what a rule authorizes.
AboutAttempt ==
    /\ \A lane \in Lane : job.state = RunningState(lane) => job.attempt.lane = lane
    /\ job.state \in Engaged => Attempting(job) /\ job.attempt.head = job.head
    /\ job.state \in Recovering /\ job.incident.lane # "controller" =>
           job.incident.lane = job.attempt.lane /\ job.incident.attempt = job.attempt.id
    /\ job.state = "recovery_approved" /\ job.approval.basis = "policy_rule" =>
           job.incident.rule # "none" /\ RetryLane(job.approval.action) = job.attempt.lane

\* What a tick in flight was started for still stands when it saves.
InFlight ==
    /\ tick = At("advise") => job.state = "blocked"
    /\ tick \in {At("retire"), At("retry")} => job.state = "recovery_approved"
    /\ tick \in {At("close"), At("settle")} =>
           /\ job.state \in Engaged /\ report # NoResult
           /\ job.attempt.lane = "reviewer" /\ report.kind # "pass" => job.attempt.round < MaxReviewRounds

\* An agent that was never prompted did nothing; an incident names a rule only of an
\* agent that left nothing and cannot go on; a Reviewer reports as one.
DispatchInv ==
    /\ prompts = 0 => agent \notin {"working", "blocked", "stopped"} /\ report = NoResult
    /\ job.state \in Recovering /\ job.incident.rule # "none" =>
           /\ report = NoResult /\ agent \notin {"working", "blocked"}
           /\ job.incident.rule # "provider_pre_side_effect_transient" => prompts = 0
    /\ Attempting(job) /\ job.attempt.lane = "reviewer" /\ report # NoResult =>
           report.kind \in ReviewerReport

\* The authorizations of policy rules that are spent on this HEAD, of the two a lane has.
LaneRule(lane) ==
    IF lane = "worker" THEN "worker_pre_dispatch_infrastructure" ELSE "reviewer_same_head_infrastructure"
Once(lane, rule) == IF [rule |-> rule, lane |-> lane, head |-> job.head] \in job.auto THEN 1 ELSE 0
Spent(lane) == Once(lane, "provider_pre_side_effect_transient") + Once(lane, LaneRule(lane))

Reviewing == job.state = "reviewer_ready" \/ (job.state \in Engaged /\ job.attempt.lane = "reviewer")

\* Every Attempt after the first was paid for with an authorization or the word of a
\* human; while the HEAD is under review the Worker's account is empty.
BudgetInv ==
    /\ BoundedUnattendedAttempts
    /\ \A lane \in Lane : job.state = ReadyState(lane) => tries[lane] <= Spent(lane)
    /\ job.state \in Engaged => tries[job.attempt.lane] <= Spent(job.attempt.lane) + 1
    /\ job.state = "recovery_approved" =>
           tries[RetryLane(job.approval.action)] <= Spent(RetryLane(job.approval.action))
    /\ Reviewing => tries["worker"] = 0

\* A round is only started below the maximum: the one that reaches it passes or asks.
RoundsInv == ReviewRoundsBounded /\ (job.state # "publish_ready" => job.round < MaxReviewRounds)

RecoveryInv == AboutAttempt /\ InFlight /\ RecoveriesBind /\ DispatchInv /\ BudgetInv /\ RoundsInv

-----------------------------------------------------------------------------
(* Liveness, under FairSpec.                                               *)

\* Ticks are refused again and again.
Refusals(reasons) == []<>(tick.at \in reasons)

\* A started Attempt ends: it settles or becomes an incident, also when the agent hangs for
\* ever; unless tick after tick cannot start it, read its worktree or close its agent.
AttemptsEnd == []<>(job.state \notin Running) \/ Refusals({"unready", "unread", "kept"})

\* An approved recovery, whoever approved it, is carried out, answered by a late result or
\* turned into a new incident; unless tick after tick is refused the close of the old
\* agent, or an answer of Git in a recovery that asks for one.
ApprovedRecoveryEnds ==
    []<>(job.state # "recovery_approved") \/ Refusals({"unread", "kept"})

\* Every incident is analysed, so that an operator can decide, or resolved; unless a late
\* result is there that tick after tick can neither be judged nor be settled.
IncidentsAreAnalysed ==
    []<>(job.state # "blocked" \/ job.analysis # "none") \/ Refusals({"unread", "kept"})

-----------------------------------------------------------------------------
(* What it implements.                                                     *)

\* The ledger and its agent, as those see them who wait for the Job.
stage ==
    CASE job.state \in {"worker_ready", "reviewer_ready"} -> "ready"
      [] job.state \in Running -> "running"
      [] job.state = "blocked" -> "held"
      [] job.state = "recovery_approved" ->
           IF job.approval.basis = "policy_rule" THEN "authorized" ELSE "answered"
      [] job.state = "publish_ready" -> "published"
      [] OTHER -> "cancelled"

turn ==
    CASE job.state = "worker_ready" -> "worker"
      [] job.state \in {"reviewer_ready", "publish_ready"} -> "reviewer"
      [] OTHER -> job.attempt.lane

newest == [alive |-> agent \in Alive, prompted |-> prompts > 0, reported |-> report # NoResult]

Lifecycle == INSTANCE JobLifecycle WITH
    MaxRounds <- MaxReviewRounds, lane <- turn, head <- job.head, round <- job.round,
    attempt <- newest, passed <- verdicts, authorized <- job.auto

\* Whatever is cut short, repeated or late, the Job goes through the life of JobLifecycle:
\* one agent at a time, prompted once; no policy retry of reported work and none twice; no
\* review that is not about the HEAD that leaves.
JobIsDelivered == Lifecycle!Spec

\* What that rests on besides the invariants above: where a Job can be, which review an
\* Attempt is for, and that a Worker's report, once it is accepted, is about a new HEAD.
LifecycleInv ==
    /\ job.state \in Engaged \union Ready \union {"cancelled"}
    /\ job.state \in Engaged => job.attempt.round = job.round + 1
    /\ tick \in {At("close"), At("settle")} /\ job.attempt.lane = "worker" => report.head > job.head

=============================================================================
